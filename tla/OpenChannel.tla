---------------------------- MODULE OpenChannel ----------------------------
(***************************************************************************)
(* OpenChannelOperation.execute (operations/open_channel.py), step by      *)
(* step, with the adapter's reservations, the durable journal, the renewal *)
(* thread, CLN, the chain, and a recover process that may run after it.    *)
(* Any RPC may be refused, applied, or applied with its answer lost.       *)
(***************************************************************************)
EXTENDS Funding

CONSTANT ReportsWithheld   \* whether listpeerchannels shows the withheld flag

ASSUME ReportAssumption == ReportsWithheld \in BOOLEAN

vars == fundingVars

Calls == {"start", "complete", "sendpsbt", "cancel"}

\* Each of these calls comes right after a renewal.
RenewedCalls == Calls \ {"cancel"}

Pcs == Calls \union Renewals \union Ended \union Locking \union CleaningUp
       \union {"prep", "confirm"}

\* The program points of the try block.
TryBlock == Locking \union {"prep", "confirm"} \union Calls \union Renewals

ASSUME InterruptAssumption == InterruptAt \subseteq TryBlock

ClnStates == {"none", "started", "withheld", "open"}

Init == FundingInit /\ cln = "none"

----------------------------------------------------------------------------
(* The mutations execute() makes through RecoveryJournal.call.             *)

CallPhase == CASE pc = "start" -> "locked" [] pc = "complete" -> "started"
               [] pc = "sendpsbt" -> "withheld" [] pc = "cancel" -> lc.phase

(***************************************************************************)
(* The mutation each call asks of CLN, when CLN accepts it.                *)
(***************************************************************************)
Applied(call) ==
  \/ call = "start" /\ cln = "none" /\ cln' = "started" /\ UNCHANGED broadcast
  \/ call = "complete" /\ cln = "started" /\ cln' = "withheld" /\ UNCHANGED broadcast
  \/ /\ call = "sendpsbt"
     /\ cln' = IF cln = "withheld" THEN "open" ELSE cln
     /\ broadcast' = TRUE
  \/ /\ call = "cancel" /\ cln \in {"started", "withheld"}
     /\ cln' = "none" /\ UNCHANGED broadcast

Rpc ==
  /\ pc \in Calls /\ stage = "rpc"
  /\ \/ Applied(pc) /\ stage' \in {"after", "failed"}
     \/ UNCHANGED extVars /\ stage' = "failed"
  /\ UNCHANGED <<resVars, recoveryVars, pc, cur, lc, wanted, locked, signed, faults>>

----------------------------------------------------------------------------
(* What execute() does with the outcome of each call.                      *)

\* fundchannel_start raised: its outcome is unknown, keep the inputs.
StartFailed ==
  /\ pc = "start" /\ stage = "failed"
  /\ lc' = KeepLocks(lc) /\ Goto("cleanup")
  /\ UNCHANGED <<resVars, recoveryVars, cur, wanted, locked, signed, extVars, faults>>

Started ==
  /\ pc = "start" /\ stage = "ok"
  /\ lc' = KeepLocks(Transition(lc, "started")) /\ Goto("prep")
  /\ UNCHANGED <<resVars, recoveryVars, cur, wanted, locked, signed, extVars, faults>>

\* Build and sign the funding transaction, or cancel the funding.
Prepare ==
  /\ pc = "prep"
  /\ \/ signed' = TRUE /\ Goto("confirm")
     \/ UNCHANGED signed /\ Goto("cancel")
  /\ UNCHANGED <<resVars, recoveryVars, cur, lc, wanted, locked, extVars, faults>>

Confirm ==
  /\ pc = "confirm"
  /\ Goto("renew_complete") \/ Goto("cancel")
  /\ UNCHANGED <<resVars, recoveryVars, cur, lc, wanted, locked, signed,
                 extVars, faults>>

Completed ==
  /\ pc = "complete" /\ stage = "ok"
  /\ lc' = Transition(lc, "withheld") /\ Goto("renew_send")
  /\ UNCHANGED <<resVars, recoveryVars, cur, wanted, locked, signed, extVars, faults>>

(***************************************************************************)
(* get_channel_funding_status() for the recorded transaction.  CLN may not *)
(* list a transaction that was broadcast (cln.py:602), and a channel of    *)
(* the transaction that does not show the withheld flag counts as          *)
(* broadcast (cln.py:556-563).                                             *)
(***************************************************************************)
MutStatusMatch ==      \* mutant: any channel of the transaction is withheld
  IF cln \in {"withheld", "open"} THEN {"WITHHELD"} ELSE {"ABSENT"}

StatusOfTx ==
  IF broadcast THEN {"BROADCAST", "ABSENT"}
  ELSE IF cln = "withheld"
       THEN {IF ReportsWithheld THEN "WITHHELD" ELSE "BROADCAST"}
       ELSE {"ABSENT"}

\* fundchannel_complete raised: ask CLN what became of it.
CompleteFailed ==
  /\ pc = "complete" /\ stage = "failed"
  /\ \/ "WITHHELD" \in StatusOfTx /\ lc' = KeepLocks(lc) /\ Goto("cancel")
     \/ /\ "ABSENT" \in StatusOfTx
        /\ lc' = Transition(ReleaseLocks(lc), "locked") /\ Goto("cleanup")
     \/ lc' = KeepLocks(lc) /\ Goto("cleanup")     \* BROADCAST, or the query raised
  /\ UNCHANGED <<resVars, recoveryVars, cur, wanted, locked, signed, extVars, faults>>

\* Mutant: ABSENT after sendpsbt is believed, as it is after complete.
MutSendFailed ==
  /\ pc = "sendpsbt" /\ stage = "failed"
  /\ \/ "WITHHELD" \in StatusOfTx /\ lc' = KeepLocks(lc) /\ Goto("cancel")
     \/ /\ "BROADCAST" \in StatusOfTx
        /\ lc' = KeepLocks(Transition(lc, "broadcast")) /\ Goto("cleanup")
     \/ /\ "ABSENT" \in StatusOfTx
        /\ lc' = Transition(ReleaseLocks(lc), "locked") /\ Goto("cleanup")
  /\ UNCHANGED <<resVars, recoveryVars, cur, wanted, locked, signed, extVars, faults>>

MutSendUnanswered ==    \* mutant: success is assumed when the status query raised
  /\ pc = "sendpsbt" /\ stage = "failed"
  /\ \/ "WITHHELD" \in StatusOfTx /\ lc' = KeepLocks(lc) /\ Goto("cancel")
     \/ lc' = KeepLocks(Transition(lc, "broadcast")) /\ Goto("cleanup")
     \/ "ABSENT" \in StatusOfTx /\ lc' = KeepLocks(lc) /\ Goto("cleanup")
  /\ UNCHANGED <<resVars, recoveryVars, cur, wanted, locked, signed, extVars, faults>>

\* sendpsbt raised: only WITHHELD proves that nothing was broadcast.
SendFailed ==
  /\ pc = "sendpsbt" /\ stage = "failed"
  /\ \/ "WITHHELD" \in StatusOfTx /\ lc' = KeepLocks(lc) /\ Goto("cancel")
     \/ /\ "BROADCAST" \in StatusOfTx
        /\ lc' = KeepLocks(Transition(lc, "broadcast")) /\ Goto("cleanup")
     \/ lc' = KeepLocks(lc) /\ Goto("cleanup")     \* ABSENT, or the query raised
  /\ UNCHANGED <<resVars, recoveryVars, cur, wanted, locked, signed, extVars, faults>>

\* The returned txid matches and the funding is broadcast, or it does not.
Sent ==
  /\ pc = "sendpsbt" /\ stage = "ok"
  /\ \/ lc' = KeepLocks(Transition(lc, "broadcast"))
     \/ lc' = KeepLocks(lc)
  /\ Goto("cleanup")
  /\ UNCHANGED <<resVars, recoveryVars, cur, wanted, locked, signed, extVars, faults>>

MutCancelled ==    \* mutant: a cancelled funding starts over from PRESTART
  /\ pc = "cancel" /\ stage = "ok"
  /\ lc' = Transition(ReleaseLocks(lc), "prestart") /\ Goto("cleanup")
  /\ UNCHANGED <<resVars, recoveryVars, cur, wanted, locked, signed, extVars, faults>>

Cancelled ==
  /\ pc = "cancel" /\ stage = "ok"
  /\ lc' = Transition(ReleaseLocks(lc), "locked") /\ Goto("cleanup")
  /\ UNCHANGED <<resVars, recoveryVars, cur, wanted, locked, signed, extVars, faults>>

CancelFailed ==
  /\ pc = "cancel" /\ stage = "failed"
  /\ lc' = KeepLocks(lc) /\ Goto("cleanup")
  /\ UNCHANGED <<resVars, recoveryVars, cur, wanted, locked, signed, extVars, faults>>

----------------------------------------------------------------------------
\* The peer disconnects before completion, or the operator cancels a funding
\* that a finished operation left behind: CLN forgets it.
FundingForgotten ==
  /\ cln = "started" \/ (cln = "withheld" /\ ~Live)
  /\ cln' = "none"
  /\ UNCHANGED <<resVars, recoveryVars, opVars, broadcast, faults>>

CheckedStatus == IF rec.txid THEN StatusOfTx ELSE StartStatus

RecoverStep ==
  /\ \/ RecoverBegin
     \/ \E b \in BitcoinView, s \in CheckedStatus :
          RecoverDecides(b, s) \/ RecoverKeeps(b, s)
     \/ \E c \in Coins : RecoverReleases(c)
     \/ RecoverResolves
     \/ RecoverAborts
  /\ UNCHANGED <<opVars, extVars, faults>>

----------------------------------------------------------------------------
CallStep ==
  \/ pc \in Calls /\ (CallBefore(CallPhase) \/ CallAfter(CallPhase))
  \/ Rpc \/ StartFailed \/ Started \/ CompleteFailed
    \/ Completed \/ SendFailed \/ Sent \/ Cancelled \/ CancelFailed

OpStep ==
  Begin \/ Plan \/ LockNext \/ Reserve \/ Own \/ Arm \/ Renew \/ Prepare
    \/ Confirm \/ CallStep \/ CleanupStep

Next ==
  \/ OpStep
  \/ Interrupt \/ Crash
  \/ RenewalWakes \/ RenewalSteps
  \/ Lapse(RenewedCalls) \/ Others \/ FundingForgotten
  \/ RecoverStep

Spec == Init /\ [][Next]_vars

(***************************************************************************)
(* Liveness assumes that CLN and the operator answer (or the call raises), *)
(* and that a renewal under way, which is local file I/O, finishes.        *)
(***************************************************************************)
FairSpec == Spec /\ WF_vars(OpStep) /\ WF_vars(RenewalSteps)
----------------------------------------------------------------------------
(* Properties.                                                             *)

Actions == Calls \union {"none", "reserve", "renew", "release", "recovery_release"}

OpRecords == Records(Coins, Phases \union {"none"}, Actions)

\* Every variable keeps its type.
TypeOK ==
  /\ lease \in [Coins -> Holders]
  /\ held \in SUBSET Coins /\ released \in SUBSET Coins
  /\ rec \in OpRecords
  /\ thr \in ThreadStates /\ todo \in SUBSET Coins /\ outs \in SUBSET Coins
  /\ flock \in LockHolders /\ rcv \in {"off", "check", "release"}
  /\ rtodo \in SUBSET Coins
  /\ pc \in Pcs /\ stage \in Stages
  /\ cur \in Coins \union {NoCoin} /\ (pc \in AtCoin => cur \in Coins)
  /\ lc \in Lifecycles
  /\ wanted \in SUBSET Coins /\ locked \in SUBSET Coins /\ signed \in BOOLEAN
  /\ cln \in ClnStates /\ broadcast \in BOOLEAN
  /\ faults \in 0..MaxDiskFaults

\* CLN never holds a signed funding transaction whose id is not durable, until
\* the operation itself knows it was broadcast: recovery can always look for
\* it.  The id must survive every later journal write, the renewals included.
HandOffRecorded ==
  (cln \in {"withheld", "open"} \/ broadcast) /\ lc.phase # "broadcast"
    => rec.present /\ rec.txid

\* fundchannel_cancel is never even attempted once sendpsbt has gone through.
CancelOnlyUnbroadcast == pc = "cancel" => ~broadcast

(***************************************************************************)
(* The operation takes the funding for done, and drops its record, only    *)
(* for a transaction that reached the network.  Where CLN does not show    *)
(* the withheld flag it may be wrong after a lost sendpsbt                 *)
(* (open_channel.py:543-555), but CLN holds the signed transaction then,   *)
(* at least until the operation is over.                                   *)
(***************************************************************************)
SuccessMeansBroadcast ==
  lc.phase = "broadcast" =>
    /\ ReportsWithheld => broadcast
    /\ Live => broadcast \/ cln = "withheld"

\* The signed transaction reaches CLN, and the network, only while every one of
\* its inputs is still reserved by us, however renewal failed in between.
HandOffLeased ==
  [][(cln # "withheld" /\ cln' = "withheld") \/ (~broadcast /\ broadcast')
       => locked \subseteq Leased]_vars

\* execute() never asks OperationLifecycle for a transition it would refuse.
LifecycleLegal ==
  [][lc'.phase # lc.phase => lc'.phase \in AllowedTransitions[lc.phase]]_vars

(***************************************************************************)
(* execute(), together with any recovery after it, keeps the promise about *)
(* the inputs of the funding transaction.                                  *)
(***************************************************************************)
Promise == INSTANCE InputPromise WITH
  funding <- IF broadcast THEN "sent"
             ELSE IF cln = "withheld" THEN "withheld" ELSE "none",
  back <- released # {}

KeepsPromise == Promise!Spec

----------------------------------------------------------------------------
(***************************************************************************)
(* The inductive invariant behind BroadcastKeepsInputs, HandOffRecorded,   *)
(* CancelOnlyUnbroadcast and SuccessMeansBroadcast.                        *)
(***************************************************************************)

\* The lifetime lock separates the operation from recovery.
Exclusive ==
  /\ Live <=> flock = "op"
  /\ rcv # "off" <=> flock = "recovery"
  /\ Live \/ rcv # "off" => rec.present
  /\ pc = "idle" => ~rec.present /\ lc = NewLifecycle

\* CLN may still hold an unsigned funding, but nothing that can be broadcast.
Harmless == ~broadcast /\ cln \in {"none", "started"}

\* Where the inputs may be given back: never past a hand-over that stuck.
ReleaseSafe ==
  /\ lc.release => Harmless
  /\ rcv = "release" => Harmless
  /\ pc \in {"prep", "confirm", "renew_complete", "complete", "renew_send",
             "sendpsbt", "cancel"} => ~lc.release
  /\ pc \in {"release", "disown"} => lc.release
  /\ released # {} =>
       pc \in {"cleanup", "release", "disown", "close", "resolve", "done", "dead"}

\* What the operation has done by the time it is at each point.
Progress ==
  /\ broadcast => pc \in {"sendpsbt", "cleanup", "close", "resolve", "done", "dead"}
  /\ pc \in {"confirm", "renew_complete", "complete", "renew_send", "sendpsbt"}
       => signed
  /\ pc \in {"complete", "sendpsbt"} /\ stage = "rpc" => rec.txid
  /\ lc.phase = "broadcast" =>
       pc \in {"cleanup", "release", "disown", "close", "resolve", "done", "dead"}
  /\ pc = "cancel" /\ stage \in {"after", "ok"} => cln = "none"
  /\ pc = "sendpsbt" /\ stage \in {"after", "ok"} => broadcast
  /\ cln = "open" => broadcast
  /\ rec.present /\ ~Harmless => rec.txid

IInv ==
  /\ TypeOK /\ Exclusive /\ ReleaseSafe /\ Progress
  /\ BroadcastKeepsInputs /\ HandOffRecorded /\ SuccessMeansBroadcast
=============================================================================
