----------------------------- MODULE SpliceOut -----------------------------
(***************************************************************************)
(* SpliceOutOperation.execute (operations/splice.py): no JoinMarket input  *)
(* is reserved, and the wallet's leases stay as they are.  What is at      *)
(* stake is that a splice CLN has begun is not forgotten, and that what is *)
(* signed pays the approved JoinMarket address.                            *)
(***************************************************************************)
EXTENDS Funding

VARIABLE pays            \* whether the current PSBT pays the approved amount

vars == <<fundingVars, pays>>

Calls == {"splice_out_output", "splice_out_output_sweep", "splice_init",
          "splice_update", "splice_signed"}

TryBlock == Calls \union {"plan", "fee", "confirm", "record"}

Pcs == TryBlock \union Ended \union {"cleanup", "close", "resolve"}

\* As in a splice-in: an inflight exists from the secured commitments on.
ClnStates == {"none", "negotiating", "committed", "signed"}

Init == FundingInit /\ cln = "none" /\ pays = FALSE

\* Anything but a new lifecycle, record or PSBT and the next program point.
Step(next) ==
  /\ Goto(next)
  /\ UNCHANGED <<lease, held, released, thrVars, recoveryVars, cur, wanted,
                 locked, signed, extVars>>

----------------------------------------------------------------------------
\* Connect, take a new address, ask for the fee rate and, to sweep, the balance.
Prepare ==
  /\ pc = "plan"
  /\ Step("splice_out_output") \/ Step("cleanup")
  /\ UNCHANGED <<rec, lc, pays, faults>>

CallPhase == IF pc \in {"splice_update", "splice_signed"} THEN lc.phase ELSE "started"

\* addpsbtoutput only makes a PSBT; the splice calls change CLN's splice.
Applied(call) ==
  \/ call \in {"splice_out_output", "splice_out_output_sweep"} /\ UNCHANGED cln
  \/ call = "splice_init" /\ cln = "none" /\ cln' = "negotiating"
  \/ /\ call = "splice_update" /\ cln \in {"negotiating", "committed"}
     /\ cln' \in {cln, "committed"}
  \/ call = "splice_signed" /\ cln = "committed" /\ cln' = "signed"

\* The negotiated PSBT is CLN's and the peer's: it may not pay us any more.
Rpc ==
  /\ pc \in Calls /\ stage = "rpc"
  /\ \/ /\ Applied(pc) /\ stage' \in {"after", "failed"}
        /\ pays' \in IF pc \in {"splice_init", "splice_update"} THEN BOOLEAN ELSE {pays}
     \/ UNCHANGED <<cln, pays>> /\ stage' = "failed"
  /\ UNCHANGED <<resVars, recoveryVars, pc, cur, lc, wanted, locked, signed,
                 broadcast, faults>>

----------------------------------------------------------------------------
(* What execute() does with the outcome of each call.                      *)

\* The output is there: compute the fee, and create it again for a sweep.
OutputDone ==
  /\ pc \in {"splice_out_output", "splice_out_output_sweep"}
  /\ \/ /\ stage = "ok"
        /\ Step(IF pc = "splice_out_output" THEN "fee" ELSE "splice_init")
     \/ stage \in {"failed", "ok"} /\ Step("cleanup")
  /\ UNCHANGED <<rec, lc, pays, faults>>

Fee ==
  /\ pc = "fee"
  /\ \E next \in {"splice_out_output_sweep", "splice_init", "cleanup"} : Step(next)
  /\ UNCHANGED <<rec, lc, pays, faults>>

InitFailed ==
  /\ pc = "splice_init" /\ stage = "failed"
  /\ lc' = KeepLocks(lc) /\ Step("cleanup")
  /\ UNCHANGED <<rec, pays, faults>>

\* The PSBT cannot be read: release_locks is still set.
InitInvalid ==
  /\ pc = "splice_init" /\ stage = "ok"
  /\ Step("cleanup") /\ UNCHANGED <<rec, lc, pays, faults>>

MutInitDone ==   \* mutant: the record of a begun splice is not kept
  /\ pc = "splice_init" /\ stage = "ok"
  /\ lc' = Transition(lc, "started")
  /\ Step(IF pays THEN "splice_update" ELSE "cleanup")
  /\ UNCHANGED <<rec, pays, faults>>

InitDone ==
  /\ pc = "splice_init" /\ stage = "ok"
  /\ lc' = KeepLocks(Transition(lc, "started"))
  /\ Step(IF pays THEN "splice_update" ELSE "cleanup")
  /\ UNCHANGED <<rec, pays, faults>>

UpdateFailed ==
  /\ pc = "splice_update"
  /\ stage \in {"failed", "ok"}
  /\ Step("cleanup") /\ UNCHANGED <<rec, lc, pays, faults>>

MutUpdated ==   \* mutant: the output is only looked at when the loop goes on
  /\ pc = "splice_update" /\ stage = "ok"
  /\ \/ lc' = Transition(lc, "updated") /\ Step("confirm")
     \/ pays /\ lc' = Transition(lc, "started") /\ Step("splice_update")
  /\ UNCHANGED <<rec, pays, faults>>

Updated ==
  /\ pc = "splice_update" /\ stage = "ok" /\ pays
  /\ \/ lc' = Transition(lc, "updated") /\ Step("confirm")
     \/ lc' = Transition(lc, "started") /\ Step("splice_update")
  /\ UNCHANGED <<rec, pays, faults>>

Confirm ==
  /\ pc = "confirm"
  /\ Step("splice_signed") \/ Step("cleanup")
  /\ UNCHANGED <<rec, lc, pays, faults>>

SignedDone ==
  /\ pc = "splice_signed"
  /\ \/ stage = "ok" /\ Step("record")
     \/ stage \in {"failed", "ok"} /\ Step("cleanup")
  /\ UNCHANGED <<rec, lc, pays, faults>>

\* update() with the transaction id CLN returned; then the splice is SIGNED.
Record ==
  /\ pc = "record"
  /\ \/ /\ rec' = [rec EXCEPT !.txid = TRUE] /\ UNCHANGED faults
        /\ lc' = Transition(lc, "signed")
     \/ DiskFault /\ UNCHANGED <<rec, lc>>
  /\ Step("cleanup") /\ UNCHANGED pays

----------------------------------------------------------------------------
SpliceForgotten ==
  /\ cln \in {"negotiating", "committed"} /\ cln' = "none"
  /\ UNCHANGED <<resVars, recoveryVars, opVars, broadcast, faults, pays>>

SpliceSent ==
  /\ cln = "signed" /\ ~broadcast /\ broadcast' = TRUE
  /\ UNCHANGED <<resVars, recoveryVars, opVars, cln, faults, pays>>

MutSpliceStatus ==   \* mutant: an inflight without a transaction id is not one
  IF broadcast THEN IF rec.txid THEN {"WITHHELD", "BROADCAST"} ELSE {"WITHHELD", "ABSENT"}
  ELSE IF cln = "signed" /\ rec.txid THEN {"WITHHELD"} ELSE {"ABSENT"}

(***************************************************************************)
(* _cln_status(): the inflight goes away when the splice is locked in, and *)
(* a record without a transaction id asks for nothing else.                *)
(***************************************************************************)
SpliceStatus ==
  IF broadcast THEN IF rec.txid THEN {"WITHHELD", "BROADCAST"} ELSE {"WITHHELD", "ABSENT"}
  ELSE IF cln \in {"committed", "signed"} THEN {"WITHHELD"} ELSE {"ABSENT"}

RecoverStep ==
  /\ \/ RecoverBegin
     \/ \E b \in BitcoinView, s \in SpliceStatus :
          RecoverDecides(b, s) \/ RecoverKeeps(b, s)
     \/ RecoverResolves
     \/ RecoverAborts
  /\ UNCHANGED <<opVars, extVars, faults, pays>>

----------------------------------------------------------------------------
CallStep ==
  \/ /\ pc \in Calls /\ (CallBefore(CallPhase) \/ CallAfter(CallPhase))
     /\ UNCHANGED pays
  \/ Rpc \/ OutputDone \/ InitFailed \/ InitInvalid \/ InitDone
  \/ UpdateFailed \/ Updated \/ SignedDone

\* The finally block, with SIGNED as its terminal phase and nothing to unlock.
Finish == StopRenewal \/ Close \/ ResolveAt("signed")

Next ==
  \/ (Begin \/ Finish) /\ UNCHANGED pays
  \/ Prepare \/ Fee \/ Confirm \/ Record \/ CallStep
  \/ (Interrupt \/ Crash) /\ UNCHANGED pays
  \/ SpliceForgotten \/ SpliceSent
  \/ RecoverStep

Spec == Init /\ [][Next]_vars
----------------------------------------------------------------------------
(* Properties.                                                             *)

\* Neither the operation nor recovery ever loses the record of a splice whose
\* commitments are secured and whose outcome is open, in any crash.
InflightRecorded ==
  cln \in {"committed", "signed"} /\ ~broadcast =>
    rec.present \/ (cln = "signed" /\ lc.phase = "signed")

\* CLN is only asked to sign a splice that pays the approved amount to the
\* approved address, although every update may replace the PSBT.
PaysDestination == cln = "signed" => pays
=============================================================================
