---------------------------- MODULE MCSplicePsbt ----------------------------
(***************************************************************************)
(* Small wallets and requests for Planning and SplicePsbt.  The values lie *)
(* around the points where a plan for 10 000 satoshis changes: just the    *)
(* fee, the fee and CLN's margin, and a change output that is no dust.     *)
(***************************************************************************)
EXTENDS SplicePsbt

CONSTANTS c1, c2, c3

Coin(status, wsh, confs, flaw) ==
  [status |-> status, wsh |-> wsh, confs |-> confs,
   frozen |-> flaw = "frozen", bond |-> flaw = "bond"]

Mixed == Coin("cj-out", FALSE, 3, "none")
MixedWsh == Coin("cj-out", TRUE, 3, "none")

Kinds == {Mixed, MixedWsh, Coin("deposit", FALSE, 1, "none"),
          Coin("cj-out", FALSE, 0, "none"), Coin("cj-out", FALSE, 3, "frozen")}

Valued(kind, v) ==
  [value |-> v, status |-> kind.status, wsh |-> kind.wsh,
   confs |-> kind.confs, frozen |-> kind.frozen, bond |-> kind.bond]

\* One coin of any kind and two mixed ones, in order of value.
SmallWallets ==
  {[c \in Coins |-> IF c = c1 THEN Valued(k, v[1])
                    ELSE IF c = c2 THEN Valued(l, v[2]) ELSE Valued(Mixed, v[3])] :
     k \in Kinds, l \in {Mixed, MixedWsh},
     v \in {w \in {800, 5400, 10612, 11158, 30000} \X {800, 5400, 10612, 11158}
                   \X {5400, 10680, 11158} : w[2] <= w[3]}}

Request(op, amounts, explicit, minconf) ==
  [op |-> op, amounts |-> amounts, explicit |-> explicit, minconf |-> minconf]

SmallRequests ==
  {Request("open", <<10000>>, {}, 1), Request("open", <<0>>, {}, 1),
   Request("multi", <<5000, 5000>>, {}, 1), Request("swap", <<10000>>, {}, 2),
   Request("swap", <<10000>>, {c1, c2}, 0),
   Request("splice", <<10000>>, {}, 1), Request("splice", <<0>>, {}, 1)}
=============================================================================
