----------------------------- MODULE SplicePsbt -----------------------------
(***************************************************************************)
(* The contents of the PSBT a splice-in negotiates (operations/splice.py   *)
(* and tx_builder.py): the approved coins are added to the transaction CLN *)
(* supplies, CLN and the peer change it at every update, and it is         *)
(* validated against the approved plan each time and around the signing.   *)
(* SpliceIn has the calls, the journal and the failures of this exchange;  *)
(* here a refusal is simply the end, with the coins left reserved.         *)
(***************************************************************************)
EXTENDS Planning

VARIABLES
  todo,           \* coins still to be added
  feeLeft,        \* remaining_fee of a sweep
  contrib         \* SpliceContribution, what validation compares with

vars == <<planVars, todo, feeLeft, contrib>>

Capacity == 20000                        \* of the channel before the splice
ChannelIn == [of |-> "channel", value |-> Capacity, copy |-> 1]
PeerIn == [of |-> "peer", value |-> 700, copy |-> 1]

NoContribution ==
  [coin |-> "none", value |-> 0, change |-> 0, channel |-> 0, credit |-> 0,
   baseline |-> {}, maxFee |-> 0]

Init ==
  /\ PlanInit
  /\ todo = {} /\ feeLeft = 0 /\ contrib = NoContribution

SplicePcs == {"init", "add", "update", "sign"}
Final == {"failed", "short", "refused", "signed"}

Stop(end) ==
  /\ pc' = end
  /\ UNCHANGED <<wallet, req, kw, allowed, taken, target, reserve, selected,
                 previous, plan, tx, todo, feeLeft, contrib>>

Continue == UNCHANGED <<wallet, req, kw, allowed, taken, target, reserve,
                        selected, previous>>

Planned == PlanStep /\ UNCHANGED <<todo, feeLeft, contrib>>

Reserved(c) == OtherReserves(c) /\ UNCHANGED <<todo, feeLeft, contrib>>

----------------------------------------------------------------------------
\* CLN's first PSBT: the channel's funds, credited already or not yet, or one
\* in which the channel cannot be told from another output.
FirstPsbts ==
  {[ins |-> {ChannelIn}, outs |-> {Out("channel", Capacity)}],
   [ins |-> {ChannelIn}, outs |-> {Out("channel", Capacity + plan.amount)}],
   [ins |-> {ChannelIn, PeerIn},
    outs |-> {Out("channel", Capacity), Out("other p2wsh", 700)}]}

ChannelOutputs(t) == {o \in t.outs : o.to \in {"channel", "other p2wsh"}}

\* splice_init, then CLN's exact fee, which must leave no negative change.
SpliceInit ==
  /\ pc = "init"
  /\ LET fee == SpliceFee(selected, ~Sweep)
         change == IF Sweep THEN 0 ELSE Total(selected) - plan.amount - fee
     IN \/ change < 0 /\ Stop("short")
        \/ /\ change >= 0
           /\ tx' \in FirstPsbts
           /\ plan' = [plan EXCEPT !.fee = fee, !.change = change]
           /\ todo' = selected /\ feeLeft' = IF Sweep THEN fee ELSE 0
           /\ pc' = "add"
           /\ Continue /\ UNCHANGED contrib

\* A sweep adds its coins one at a time, the largest first, each with as much
\* of the fee as it can bear.
FeeShare(c) ==
  IF Sweep THEN Min({feeLeft, Max({wallet[c].value - 1, 0})}) ELSE plan.fee

Contribution(c, baseline) ==
  LET change == IF Sweep THEN 0 ELSE plan.change
  IN [coin |-> c, value |-> wallet[c].value, change |-> change,
      channel |-> (CHOOSE o \in ChannelOutputs(baseline) : TRUE).value,
      credit |-> wallet[c].value - FeeShare(c) - change,
      baseline |-> baseline.outs, maxFee |-> FeeShare(c)]

Copies(t, c) == {i \in t.ins : i.of = c}

\* Exactly one input spends c, with its true value.
Spends(t, c) ==
  \E i \in t.ins : Copies(t, c) = {i} /\ i.value = wallet[c].value

(***************************************************************************)
(* validate_splice_psbt: the approved inputs are there, and the outputs    *)
(* are those CLN began with plus our change, with the channel credited or  *)
(* not.  The fee is only limited once it is.                               *)
(***************************************************************************)
Uncredited(k) == k.baseline \union ChangeOutput(k.change)

Credited(k) ==
  (k.baseline \ {Out("channel", k.channel)})
    \union {Out("channel", k.channel + k.credit)} \union ChangeOutput(k.change)

MutValid(t, k, required) ==    \* mutant: the fee is never limited
  /\ \A c \in required \union {k.coin} : Spends(t, c)
  /\ t.outs \in {Uncredited(k), Credited(k)}

Valid(t, k, required) ==
  /\ \A c \in required \union {k.coin} : Spends(t, c)
  /\ t.outs \in {Uncredited(k), Credited(k)}
  /\ t.outs = Credited(k) => ValueOf(t.ins) - ValueOf(t.outs) \in 0 .. k.maxFee

\* A sweep asks for all its inputs, a fixed amount only for the one it has.
RequiredInputs == IF Sweep THEN selected ELSE {}

AddInput(c) ==
  /\ pc = "add" /\ c \in todo
  /\ \A d \in todo : wallet[d].value <= wallet[c].value
  /\ \/ /\ Cardinality(ChannelOutputs(tx)) # 1 \/ Copies(tx, c) # {} \/ wallet[c].wsh
        /\ Stop("failed")
     \/ /\ Cardinality(ChannelOutputs(tx)) = 1 /\ Copies(tx, c) = {} /\ ~wallet[c].wsh
        /\ LET k == Contribution(c, tx)
               added == [ins |-> tx.ins \union {In(c)}, outs |-> Uncredited(k)]
               left == IF Sweep THEN feeLeft - FeeShare(c) ELSE 0
           IN \/ ~Valid(added, k, RequiredInputs) /\ Stop("refused")
              \/ todo = {c} /\ left # 0 /\ Stop("failed")
              \/ /\ Valid(added, k, RequiredInputs)
                 /\ todo = {c} => left = 0
                 /\ tx' = added /\ todo' = todo \ {c} /\ feeLeft' = left
                 /\ contrib' = IF Sweep /\ todo = {c}
                               THEN [k EXCEPT !.credit = plan.amount,
                                              !.maxFee = plan.fee]
                               ELSE k
                 /\ pc' = IF todo = {c} THEN "update" ELSE "add"
                 /\ Continue /\ UNCHANGED plan

----------------------------------------------------------------------------
(***************************************************************************)
(* What CLN and the peer may make of the PSBT: credit the channel, or with *)
(* too little, touch our change or our inputs, add inputs of their own or  *)
(* of our wallet.                                                          *)
(***************************************************************************)
EditedOuts ==
  {tx.outs, Credited(contrib), tx.outs \ ChangeOutput(contrib.change),
   (Credited(contrib) \ {Out("channel", contrib.channel + contrib.credit)})
     \union {Out("channel", contrib.channel + contrib.credit - 1)},
   (tx.outs \ ChangeOutput(contrib.change)) \union ChangeOutput(contrib.change - 1)}

EditedIns ==
  LET ours == In(contrib.coin)
  IN {tx.ins, tx.ins \ {ours}, (tx.ins \ {ours}) \union {[ours EXCEPT !.value = @ + 1]},
      tx.ins \union {[ours EXCEPT !.copy = 2]}, tx.ins \union {PeerIn}}
     \union {tx.ins \union {In(c)} : c \in Coins \ selected}

Update ==
  /\ pc = "update"
  /\ \E ins \in EditedIns, outs \in EditedOuts, secured \in BOOLEAN :
       LET t == [ins |-> ins, outs |-> outs]
       IN \/ ~Valid(t, contrib, RequiredInputs) /\ Stop("failed")
          \/ /\ Valid(t, contrib, RequiredInputs)
             /\ tx' = t /\ pc' = IF secured THEN "sign" ELSE "update"
             /\ Continue /\ UNCHANGED <<plan, todo, feeLeft, contrib>>

\* The operator declines, and the coins stay reserved.
Decline == pc = "sign" /\ Stop("failed")

\* Each approved coin is found once, with its true value, the wallet can sign
\* these inputs and no others, and what it signed is validated once more.
Signable == {i.of : i \in tx.ins} \intersect Coins = selected

Sign ==
  /\ pc = "sign"
  /\ LET ok == /\ \A c \in selected : Spends(tx, c)
               /\ Signable
               /\ Valid(tx, contrib, RequiredInputs)
     IN IF ok THEN Stop("signed") ELSE Stop("failed")

Own ==
  \/ Planned \/ SpliceInit \/ Sign
  \/ \E c \in Coins : AddInput(c)

Ended == pc \in Final /\ UNCHANGED vars

Next ==
  \/ Own \/ Update \/ Decline \/ Ended
  \/ \E c \in Coins : Reserved(c)

Spec == Init /\ [][Next]_vars

\* The operation's own steps are computation; nothing is assumed of CLN, of
\* the operator or of other processes.
FairSpec == Spec /\ WF_vars(Own)

----------------------------------------------------------------------------
(***************************************************************************)
(* Properties.                                                             *)
(***************************************************************************)
Outpoints == {"channel", "peer"} \union Coins

TypeOK ==
  /\ wallet \in Wallets /\ req \in Requests /\ kw \in FeeRates
  /\ pc \in Selecting \union {"lock", "build"} \union SplicePcs \union Final
  /\ allowed \subseteq Coins /\ taken \subseteq Coins
  /\ selected \subseteq Coins /\ previous \subseteq Coins /\ todo \subseteq selected
  /\ target \in Nat /\ reserve \in Nat /\ feeLeft \in Nat
  /\ plan \in [fee : Nat, amount : Nat, change : Nat]
  /\ \A i \in tx.ins : i.of \in Outpoints /\ i.value \in Nat
  /\ \A o \in tx.outs : o.value \in Nat

\* After splice_init nothing gives the coins back but recovery.  By then the
\* operation does not fail by its own arithmetic: the change approved before
\* covers the fee CLN asks for, which is computed another way, and the PSBT
\* built from CLN's and a single coin passes the operation's own validation
\* (splice.py:247-259, 393-402 and 477-491).
SpliceGoesThrough ==
  pc # "short" /\ (pc = "refused" => Cardinality(selected) > 1)

\* Whatever CLN and the peer did to it, a signed splice spends the selected
\* coins and no other of the wallet, pays the approved change, and what the
\* coins lose beyond change and the channel's credit is at most CLN's fee,
\* once the channel is credited (tx_builder.py:612-704, splice.py:623-667).
SignedKeepsPlan ==
  (pc = "signed" /\ req.op = "splice") =>
    LET channel == {o \in tx.outs : o.to = "channel"}
        gained == ValueOf(channel) - contrib.channel
        change == ValueOf({o \in tx.outs : o.to = "change"})
    IN /\ {i.of : i \in tx.ins} \intersect Coins = selected
       /\ \A c \in selected : Spends(tx, c)
       /\ change = plan.change /\ Cardinality(channel) = 1
       /\ gained \in {0, plan.amount}
       /\ gained = plan.amount =>
            /\ Total(selected) - change - gained <= SpliceFee(selected, ~Sweep)
            /\ ValueOf(tx.ins) - ValueOf(tx.outs) <= SpliceFee(selected, ~Sweep)

\* README.md:353: "A splice-in sweep consumes every UTXO ... all are signed":
\* with several coins too, the operation accepts its own PSBT.
SweepAccepted == pc # "refused"
=============================================================================
