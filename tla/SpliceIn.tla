------------------------------ MODULE SpliceIn ------------------------------
(***************************************************************************)
(* SpliceInOperation.execute (operations/splice.py): the inputs are        *)
(* reserved, a splice is begun at CLN, its PSBT is exchanged until the     *)
(* commitments are secured, and only then signed and handed over.  CLN     *)
(* offers no cancellation: from splice_init on, only recovery may give the *)
(* inputs back.                                                            *)
(***************************************************************************)
EXTENDS Funding

vars == fundingVars

Calls == {"splice_init", "splice_update", "splice_signed"}

SpliceRenewals ==
  {"renew_start", "renew_add", "renew_update", "renew_sign", "renew_signed"}

TryBlock == Locking \union SpliceRenewals \union Calls
            \union {"add", "confirm", "sign"}

Pcs == TryBlock \union Ended \union CleaningUp

ASSUME InterruptAssumption == InterruptAt \subseteq TryBlock

(***************************************************************************)
(* CLN's splice: being negotiated, with secured commitments (an inflight   *)
(* of the channel), or holding our signed transaction, which it broadcasts *)
(* when the peer has signed too.                                           *)
(***************************************************************************)
ClnStates == {"none", "negotiating", "committed", "signed"}

Init == FundingInit /\ cln = "none"

----------------------------------------------------------------------------
\* One coin that covers amount and fee or, to sweep, every permitted one.
SelectInputs == Plan

\* The finally block, with SIGNED as its terminal phase.
Finish == TidyUp \/ ResolveAt("signed")

SpliceRenew ==
  /\ pc \in SpliceRenewals
  /\ RenewTo(CASE pc = "renew_start"  -> "splice_init"
               [] pc = "renew_add"    -> "add"
               [] pc = "renew_update" -> "splice_update"
               [] pc = "renew_sign"   -> "sign"
               [] pc = "renew_signed" -> "splice_signed")

CallPhase ==
  CASE pc = "splice_init" -> "locked" [] pc = "splice_update" -> lc.phase
    [] pc = "splice_signed" -> "updated"

Applied(call) ==
  \/ call = "splice_init" /\ cln = "none" /\ cln' = "negotiating"
  \/ /\ call = "splice_update" /\ cln \in {"negotiating", "committed"}
     /\ cln' \in {cln, "committed"}
  \/ call = "splice_signed" /\ cln = "committed" /\ cln' = "signed"

Rpc ==
  /\ pc \in Calls /\ stage = "rpc"
  /\ \/ Applied(pc) /\ stage' \in {"after", "failed"}
     \/ UNCHANGED cln /\ stage' = "failed"
  /\ UNCHANGED <<resVars, recoveryVars, pc, cur, lc, wanted, locked, signed,
                 broadcast, faults>>

\* Anything but a new lifecycle and the next program point.
Step(next) ==
  /\ Goto(next)
  /\ UNCHANGED <<resVars, recoveryVars, cur, wanted, locked, extVars>>

----------------------------------------------------------------------------
(* What execute() does with the outcome of each call.                      *)

\* splice_init raised, or returned no valid PSBT: keep the inputs.
InitFailed ==
  /\ pc = "splice_init" /\ stage \in {"failed", "ok"}
  /\ lc' = KeepLocks(lc)
  /\ Step("cleanup") /\ UNCHANGED <<signed, faults>>

MutInitDone ==   \* mutant: the operation is not moved on to STARTED
  /\ pc = "splice_init" /\ stage = "ok"
  /\ lc' = KeepLocks(lc)
  /\ Step("renew_add") \/ Step("cleanup")
  /\ UNCHANGED <<signed, faults>>

\* The splice has begun; its exact fee may still turn out not to be payable.
InitDone ==
  /\ pc = "splice_init" /\ stage = "ok"
  /\ lc' = KeepLocks(Transition(lc, "started"))
  /\ Step("renew_add") \/ Step("cleanup")
  /\ UNCHANGED <<signed, faults>>

\* Fetch the previous transactions and add our inputs to the PSBT.
AddInputs ==
  /\ pc = "add"
  /\ Step("renew_update") \/ Step("cleanup")
  /\ UNCHANGED <<lc, signed, faults>>

\* splice_update raised, or its PSBT is invalid or breaks the agreed economics.
UpdateFailed ==
  /\ pc = "splice_update" /\ stage \in {"failed", "ok"}
  /\ Step("cleanup") /\ UNCHANGED <<lc, signed, faults>>

\* UPDATED; and back to STARTED when CLN has not secured the commitments.
Updated ==
  /\ pc = "splice_update" /\ stage = "ok"
  /\ \/ lc' = Transition(lc, "updated") /\ Step("confirm")
     \/ lc' = Transition(lc, "started") /\ Step("renew_update")
  /\ UNCHANGED <<signed, faults>>

Confirm ==
  /\ pc = "confirm"
  /\ Step("renew_sign") \/ Step("cleanup")
  /\ UNCHANGED <<lc, signed, faults>>

\* Sign, record transaction id and PSBT (update()), and validate once more.
Sign ==
  /\ pc = "sign"
  /\ \/ UNCHANGED <<rec, signed, faults>> /\ Goto("cleanup")
     \/ DiskFault /\ signed' = TRUE /\ UNCHANGED rec /\ Goto("cleanup")
     \/ /\ rec' = [rec EXCEPT !.txid = TRUE] /\ signed' = TRUE
        /\ UNCHANGED faults
        /\ Goto("renew_signed") \/ Goto("cleanup")
  /\ UNCHANGED <<lease, held, released, thrVars, recoveryVars, cur, lc, wanted,
                 locked, extVars>>

\* splice_signed raised, or answered with something else than our transaction.
SignedFailed ==
  /\ pc = "splice_signed" /\ stage \in {"failed", "ok"}
  /\ Step("cleanup") /\ UNCHANGED <<lc, signed, faults>>

Accepted ==
  /\ pc = "splice_signed" /\ stage = "ok"
  /\ lc' = KeepLocks(Transition(lc, "signed"))
  /\ Step("cleanup") /\ UNCHANGED <<signed, faults>>

----------------------------------------------------------------------------
(* CLN on its own, and recovery.                                           *)

\* A negotiation ends with the connection; an unsigned splice may be aborted.
SpliceForgotten ==
  /\ cln \in {"negotiating", "committed"} /\ cln' = "none"
  /\ UNCHANGED <<resVars, recoveryVars, opVars, broadcast, faults>>

SpliceSent ==
  /\ cln = "signed" /\ ~broadcast /\ broadcast' = TRUE
  /\ UNCHANGED <<resVars, recoveryVars, opVars, cln, faults>>

(***************************************************************************)
(* _cln_status(): without a transaction id, any inflight of the channel;   *)
(* with one, the inflight or the channel of that transaction.  (That query *)
(* passes the channel id where CLN takes a node id; when CLN refuses it,   *)
(* reconciliation aborts.)                                                 *)
(***************************************************************************)
MutSpliceStatus ==   \* mutant: the inflights of the channel are not looked at
  IF broadcast THEN {"WITHHELD", "BROADCAST"} ELSE {"ABSENT"}

SpliceStatus ==
  IF broadcast THEN {"WITHHELD", "BROADCAST"}
  ELSE IF cln \in {"committed", "signed"} THEN {"WITHHELD"} ELSE {"ABSENT"}

RecoverStep ==
  /\ \/ RecoverBegin
     \/ \E b \in BitcoinView, s \in SpliceStatus :
          RecoverDecides(b, s) \/ RecoverKeeps(b, s)
     \/ \E c \in Coins : RecoverReleases(c)
     \/ RecoverResolves
     \/ RecoverAborts
  /\ UNCHANGED <<opVars, extVars, faults>>

----------------------------------------------------------------------------
CallStep ==
  \/ pc \in Calls /\ (CallBefore(CallPhase) \/ CallAfter(CallPhase))
  \/ Rpc \/ InitFailed \/ InitDone \/ UpdateFailed \/ Updated
  \/ SignedFailed \/ Accepted

OpStep ==
  \/ Begin \/ SelectInputs \/ LockNext \/ Reserve \/ Own \/ Arm \/ SpliceRenew
  \/ AddInputs \/ Confirm \/ Sign \/ CallStep \/ Finish

Next ==
  \/ OpStep
  \/ Interrupt \/ Crash
  \/ RenewalWakes \/ RenewalSteps
  \/ Lapse(Calls) \/ Others \/ SpliceForgotten \/ SpliceSent
  \/ RecoverStep

Spec == Init /\ [][Next]_vars
----------------------------------------------------------------------------
(* Properties.                                                             *)

Actions == Calls \union {"none", "reserve", "renew", "release", "recovery_release"}

\* Every variable keeps its type.
TypeOK ==
  /\ lease \in [Coins -> Holders]
  /\ held \in SUBSET Coins /\ released \in SUBSET Coins
  /\ rec \in Records(Coins, Phases \union {"none"}, Actions)
  /\ thr \in ThreadStates /\ todo \in SUBSET Coins /\ outs \in SUBSET Coins
  /\ flock \in LockHolders /\ rcv \in {"off", "check", "release"}
  /\ rtodo \in SUBSET Coins
  /\ pc \in Pcs /\ stage \in Stages
  /\ cur \in Coins \union {NoCoin} /\ (pc \in AtCoin => cur \in Coins)
  /\ lc \in Lifecycles
  /\ wanted \in SUBSET Coins /\ locked \in SUBSET Coins /\ signed \in BOOLEAN
  /\ cln \in ClnStates /\ broadcast \in BOOLEAN
  /\ faults \in 0..MaxDiskFaults

\* CLN holds our signature only while the id of the transaction is durable, or
\* the operation has reported success: recovery can look for it (splice.py:663,
\* written before splice_signed), whatever writes follow.
HandOffRecorded ==
  cln = "signed" /\ lc.phase # "signed" => rec.present /\ rec.txid

\* Our signature reaches CLN only while every input is still reserved by us,
\* however long the negotiation took and however the renewals failed.
HandOffLeased ==
  [][cln # "signed" /\ cln' = "signed" => locked \subseteq Leased]_vars

\* The update loop asks OperationLifecycle only for transitions it allows.
LifecycleLegal ==
  [][lc'.phase # lc.phase => lc'.phase \in AllowedTransitions[lc.phase]]_vars

(***************************************************************************)
(* The operation and a later recovery keep the promise about the inputs,   *)
(* already from the secured commitments on: no input is given back while   *)
(* the channel has an inflight that spends it.                             *)
(***************************************************************************)
Promise == INSTANCE InputPromise WITH
  funding <- IF cln = "signed" THEN "sent"
             ELSE IF cln = "committed" THEN "withheld" ELSE "none",
  back <- released # {}

KeepsPromise == Promise!Spec
=============================================================================
