------------------------------ MODULE Planning ------------------------------
(***************************************************************************)
(* How an operation gets from the wallet's coins to a transaction it would *)
(* sign: the policy (policy.py), the listing and selection of coins        *)
(* (adapters/joinmarket.py), the plan (planner.py), the selection loop of  *)
(* each operation and the transaction builder (tx_builder.py).  Amounts    *)
(* are satoshis; fee rates are satoshis per 1000 weight units, so that a   *)
(* rate in sat/vB is kw / 250.                                             *)
(***************************************************************************)
EXTENDS Integers, Sequences, FiniteSets, FiniteSetsExt, Functions

CONSTANTS
  Coins,          \* outpoints of one mixdepth
  Wallets,        \* the wallets to start from: Coins -> coin records
  Requests,       \* what an operation is asked for
  FeeRates,       \* fee rates CLN may answer
  MaxTaken        \* bound: coins that others reserve meanwhile

VARIABLES
  wallet,         \* value, address status, type and flags of every coin
  req,            \* the operation: its kind, amounts, chosen coins, minconf
  kw,             \* fee rate
  pc,
  allowed,        \* coins the policy approved when they were listed
  taken,          \* coins that others have reserved
  target,         \* selection_target
  reserve,        \* selection_reserve of the multi-channel loop
  selected,       \* coins of the last selection
  previous,       \* coins of the selection before, previous_outpoints
  plan,           \* amount, fee and change
  tx              \* inputs and outputs of the transaction built

planVars == <<wallet, req, kw, pc, allowed, taken, target, reserve, selected,
              previous, plan, tx>>

(***************************************************************************)
(* Policy.                                                                 *)
(***************************************************************************)
Capability == {"OPEN_CHANNEL", "SWAP", "SPLICE", "REMIX"}

Unmixed == {"cj-change", "non-cj-change", "deposit", "reused"}
Quarantined == {"reserved", "bond", "flagged", "used-empty"}
AddressStatus == {"cj-out", "new"} \union Unmixed \union Quarantined

CoinRecord ==
  [value : Nat, status : AddressStatus, wsh : BOOLEAN, confs : Nat,
   frozen : BOOLEAN, bond : BOOLEAN]

RequestRecord ==
  [op : {"open", "multi", "swap", "splice"}, amounts : Seq(Nat),
   explicit : SUBSET Coins, minconf : Nat]

\* Every amount is positive but a sweep's; a splice has one, and only PeerSwap
\* names its coins (planner.py:76-82, multi_open_channel.py:68-69,
\* peerswap.py:86-91 and 120-148).
ASSUME PlanningAssumption ==
  /\ IsFiniteSet(Coins)
  /\ Wallets \subseteq [Coins -> CoinRecord]
  /\ Requests \subseteq RequestRecord
  /\ \A r \in Requests :
       /\ r.amounts = <<0>> \/ Range(r.amounts) \subseteq Nat \ {0}
       /\ r.amounts # <<>>
       /\ r.op = "splice" => Len(r.amounts) = 1
       /\ r.explicit # {} => r.op = "swap"
  /\ FeeRates \subseteq Nat

POLICIES ==
  [s \in AddressStatus |->
     IF s = "cj-out" THEN Capability
     ELSE IF s \in Unmixed THEN {"REMIX", "SWAP"}
     ELSE IF s = "new" THEN {"REMIX"} ELSE {}]

Required ==
  CASE req.op \in {"open", "multi"} -> "OPEN_CHANNEL"
    [] req.op = "splice" -> "SPLICE" [] req.op = "swap" -> "SWAP"

Allows(c) == Required \in POLICIES[wallet[c].status]

\* What the wallet offers at all: get_utxos leaves out frozen and reserved
\* coins, unconfirmed ones and fidelity bonds.
Offered(c) ==
  LET coin == wallet[c]
  IN ~coin.frozen /\ c \notin taken /\ coin.confs >= 1 /\ ~coin.bond

----------------------------------------------------------------------------
(***************************************************************************)
(* Plans.                                                                  *)
(***************************************************************************)
DUST_THRESHOLD == 546

CeilDiv(a, b) == (a + b - 1) \div b

Values == [c \in Coins |-> wallet[c].value]
Total(S) == SumFunctionOnSet(Values, S)

Wsh(S) == {c \in S : wallet[c].wsh}

\* estimate_vsize: a P2WPKH or P2WSH input, P2WSH funding outputs and, with
\* change, a P2WPKH output.
VSize(S, outputs, change) ==
  11 + 68 * Cardinality(S \ Wsh(S)) + 105 * Cardinality(Wsh(S))
     + 43 * outputs + (IF change THEN 31 ELSE 0)

Fee(vsize) == CeilDiv(vsize * kw, 250)

Sweep == req.amounts = <<0>>
Outputs == Len(req.amounts)
Wanted == SumFunction(req.amounts)

MutBuildPlan(S) ==    \* mutant: the change output is not in the size
  LET fee == Fee(VSize(S, Outputs, FALSE))
      amount == IF Sweep THEN Total(S) - fee ELSE Wanted
  IN [fee |-> fee, amount |-> amount, change |-> Total(S) - amount - fee]

BuildPlan(S) ==
  LET fee == Fee(VSize(S, Outputs, ~Sweep))
      amount == IF Sweep THEN Total(S) - fee ELSE Wanted
  IN [fee |-> fee, amount |-> amount, change |-> Total(S) - amount - fee]

Insufficient(p) == p.amount <= 0 \/ p.change < 0
Dust(p) == p.change \in 1 .. DUST_THRESHOLD - 1

(***************************************************************************)
(* CLN's own fee for a splice: the channel input and output, our inputs    *)
(* and change, and the common fields, by weight and rounded down.          *)
(***************************************************************************)
SpliceFee(S, change) ==
  LET weight == 391 + 172 + 42 + (IF change THEN 124 ELSE 0)
                + 271 * Cardinality(S \ Wsh(S)) + 387 * Cardinality(Wsh(S))
  IN (kw * weight) \div 1000

MutConservativeFee(S) ==    \* mutant: only the plan's own size
  Fee(VSize(S, 1, TRUE))

\* A splice-in keeps a margin for CLN's fee, which it learns only later.
ConservativeFee(S) == Fee(VSize(S, 1, TRUE) + 97)

SpliceSweepPlan(S) ==
  LET fee == SpliceFee(S, FALSE)
  IN [fee |-> fee, amount |-> Total(S) - fee, change |-> 0]
----------------------------------------------------------------------------
(***************************************************************************)
(* The selection loops.                                                    *)
(***************************************************************************)
NoPlan == [fee |-> 0, amount |-> 0, change |-> 0]
NoTx == [ins |-> {}, outs |-> {}]

PlanInit ==
  /\ wallet \in Wallets /\ req \in Requests /\ kw \in FeeRates
  /\ pc = "list" /\ allowed = {} /\ taken = {}
  /\ target = 0 /\ reserve = 0 /\ selected = {} /\ previous = {}
  /\ plan = NoPlan /\ tx = NoTx

Fail ==
  /\ pc' = "failed"
  /\ UNCHANGED <<wallet, req, kw, allowed, taken, target, reserve, selected,
                 previous, plan, tx>>

OneInput == 11 + 68 + 43 * Outputs + 31

FirstTarget ==
  IF req.op \in {"multi", "swap"} THEN Wanted + Fee(OneInput) ELSE Wanted

Permitted == {c \in Coins : /\ Offered(c) /\ Allows(c)
                            /\ wallet[c].confs >= req.minconf}

\* The coins are listed and filtered.  A sweep takes them all, PeerSwap may
\* name the ones it wants, and otherwise JoinMarket selects.
ListCoins ==
  /\ pc = "list"
  /\ \/ /\ Permitted = {} \/ ~(req.explicit \subseteq Permitted)
        /\ Fail
     \/ /\ Permitted # {} /\ req.explicit \subseteq Permitted
        /\ allowed' = Permitted
        /\ IF Sweep \/ req.explicit # {}
           THEN /\ pc' = "plan"
                /\ selected' = IF Sweep THEN Permitted ELSE req.explicit
                /\ UNCHANGED target
           ELSE /\ pc' = "choose" /\ target' = FirstTarget
                /\ UNCHANGED selected
        /\ UNCHANGED <<wallet, req, kw, taken, reserve, previous, plan, tx>>

\* JoinMarket picks approved coins that reach the target, or raises; those
\* that others have reserved since are excluded.
Choose ==
  /\ pc = "choose"
  /\ \/ /\ Total(allowed \ taken) < target
        /\ Fail
     \/ \E S \in SUBSET (allowed \ taken) :
          /\ S # {} /\ Total(S) >= target
          /\ \/ req.op = "splice" /\ Cardinality(S) # 1 /\ Fail
             \/ /\ req.op = "splice" => Cardinality(S) = 1
                /\ selected' = S /\ pc' = "plan"
                /\ UNCHANGED <<wallet, req, kw, allowed, taken, target,
                               reserve, previous, plan, tx>>

MutNextTarget(p) ==    \* mutant: the fee is forgotten when selecting again
  Wanted + reserve'

\* What a failed plan raises the target to.
NextTarget(p) ==
  CASE req.op \in {"open", "swap"} ->
         Wanted + Fee(VSize(selected, Outputs, TRUE))
    [] req.op = "multi" ->
         Wanted + Fee(VSize(selected, Outputs, TRUE)) + reserve'
    [] req.op = "splice" ->
         Wanted + (IF Insufficient(p) THEN Fee(VSize(selected, 1, TRUE))
                   ELSE ConservativeFee(selected))

Again(p) ==
  /\ previous # selected /\ previous' = selected
  /\ reserve' = IF req.op = "multi" THEN reserve + CeilDiv(kw, 250)
                ELSE reserve
  /\ target' = NextTarget(p) /\ pc' = "choose"
  /\ UNCHANGED <<wallet, req, kw, allowed, taken, selected, plan, tx>>

\* A splice-in of a fixed amount also has to reach the conservative fee.
Short(p) ==
  \/ Insufficient(p)
  \/ /\ req.op = "splice" /\ ~Sweep /\ ~Dust(p)
     /\ Total(selected) < Wanted + ConservativeFee(selected)

Settle(p) ==
  /\ plan' = p /\ pc' = "lock"
  /\ UNCHANGED <<wallet, req, kw, allowed, taken, target, reserve, selected,
                 previous, tx>>

MakePlan ==
  /\ pc = "plan"
  /\ LET p == BuildPlan(selected)
         swept == SpliceSweepPlan(selected)
     IN \/ /\ Short(p) /\ ~Sweep /\ req.explicit = {}
           /\ Again(p)
        \/ /\ \/ Short(p) /\ (Sweep \/ req.explicit # {} \/ previous = selected)
              \/ ~Short(p) /\ Dust(p)
              \/ Sweep /\ req.op = "splice" /\ Insufficient(swept)
           /\ Fail
        \/ /\ ~Short(p) /\ ~Dust(p)
           /\ IF Sweep /\ req.op = "splice"
              THEN ~Insufficient(swept) /\ Settle(swept) ELSE Settle(p)

----------------------------------------------------------------------------
\* A coin that others have reserved since cannot be locked.
LockCoins ==
  /\ pc = "lock"
  /\ \/ selected \intersect taken # {} /\ Fail
     \/ /\ selected \intersect taken = {}
        /\ pc' = IF req.op = "splice" THEN "init" ELSE "build"
        /\ UNCHANGED <<wallet, req, kw, allowed, taken, target, reserve,
                       selected, previous, plan, tx>>

In(c) == [of |-> c, value |-> wallet[c].value, copy |-> 1]
Out(to, value) == [to |-> to, nr |-> 0, value |-> value]
FundingOut(i, value) == [to |-> "funding", nr |-> i, value |-> value]

\* FundingOutput: a sweep has its amount in its only output.
FundingOutputs ==
  IF Sweep THEN {FundingOut(1, plan.amount)}
  ELSE {FundingOut(i, req.amounts[i]) : i \in 1 .. Outputs}

ChangeOutput(change) == IF change > 0 THEN {Out("change", change)} ELSE {}

ValidPlan(p, S) ==
  /\ S # {} /\ p.amount > 0 /\ p.fee >= 0 /\ p.change >= 0
  /\ Total(S) = p.amount + p.fee + p.change

\* The builder signs P2WPKH coins only.
Buildable(S) == Wsh(S) = {}

BuildTx ==
  /\ pc = "build"
  /\ \/ ~(ValidPlan(plan, selected) /\ Buildable(selected)) /\ Fail
     \/ /\ ValidPlan(plan, selected) /\ Buildable(selected)
        /\ tx' = [ins |-> {In(c) : c \in selected},
                  outs |-> FundingOutputs \union ChangeOutput(plan.change)]
        /\ pc' = "signed"
        /\ UNCHANGED <<wallet, req, kw, allowed, taken, target, reserve,
                       selected, previous, plan>>

\* Another process reserves a coin, while ours is not yet locked.
OtherReserves(c) ==
  /\ pc \in {"list", "choose", "plan", "lock"}
  /\ c \notin taken /\ Cardinality(taken) < MaxTaken
  /\ taken' = taken \union {c}
  /\ UNCHANGED <<wallet, req, kw, pc, allowed, target, reserve, selected,
                 previous, plan, tx>>

Selecting == {"list", "choose", "plan"}

PlanStep == ListCoins \/ Choose \/ MakePlan \/ LockCoins \/ BuildTx

----------------------------------------------------------------------------
(***************************************************************************)
(* Properties.                                                             *)
(***************************************************************************)
ValueOf(S) == SumFunction([x \in S |-> x.value])

\* A signed funding transaction pays every requested output from coins the
\* policy admits, and pays the fee rate asked for the transaction it became,
\* at most a change output's worth more; its change is no dust
\* (planner.py:57-133, tx_builder.py:76-105, open_channel.py:165-265).
FundingTxHonest ==
  (pc = "signed" /\ req.op # "splice") =>
    LET paid == ValueOf(tx.ins) - ValueOf(tx.outs)
        change == {o \in tx.outs : o.to = "change"}
        size == VSize(selected, Outputs, change # {})
    IN /\ tx.ins = {In(c) : c \in selected}
       /\ \A c \in selected :
            /\ Required \in POLICIES[wallet[c].status]
            /\ ~wallet[c].frozen /\ ~wallet[c].bond /\ wallet[c].confs > 0
       /\ \A i \in 1 .. Outputs :
            FundingOut(i, req.amounts[i]) \in tx.outs \/ Sweep
       /\ Sweep => selected = allowed /\ change = {}
       /\ 250 * paid >= kw * size /\ paid <= Fee(size + 31)
       /\ \A o \in change : o.value >= DUST_THRESHOLD

\* The selection loop ends, in whatever order JoinMarket offers the coins and
\* whoever reserves some of them meanwhile: every retry asks for more than the
\* coins it has just refused (open_channel.py:170-248).
SelectionEnds == pc \in Selecting ~> pc \notin Selecting
=============================================================================
