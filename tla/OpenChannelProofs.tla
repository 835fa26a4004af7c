-------------------------- MODULE OpenChannelProofs --------------------------
(***************************************************************************)
(* Theorems about OpenChannel, for every set of coins, every number of     *)
(* failing journal writes and every set of interrupt points.               *)
(***************************************************************************)
EXTENDS OpenChannel, FundingProofs

(***************************************************************************)
(* What the journal writes and the lifecycle updates return.               *)
(***************************************************************************)
LEMMA FreshRecords == NoRecord \in OpRecords /\ CreateRecord \in OpRecords
  BY DEF NoRecord, CreateRecord, OpRecords, Records, Phases, Actions

LEMMA BeforeType ==
  ASSUME NEW r \in OpRecords, NEW a \in Actions, NEW p \in Phases \union {"none"},
         NEW o \in SUBSET Coins, NEW w \in SUBSET Coins, NEW t \in BOOLEAN
  PROVE  BeforeMutation(r, a, p, o, w, t) \in OpRecords
  BY DEF BeforeMutation, OpRecords, Records

LEMMA AfterType ==
  ASSUME NEW r \in OpRecords, NEW p \in Phases \union {"none"}, NEW t \in BOOLEAN
  PROVE  AfterMutation(r, p, t) \in OpRecords
<1>1. (r.txid \/ t) \in BOOLEAN
  OBVIOUS
<1> QED
  BY <1>1 DEF AfterMutation, OpRecords, Records, Actions

LEMMA ReservationDoneType == rec \in OpRecords => ReservationDone \in OpRecords
  BY AfterType DEF ReservationDone, Phases

LEMMA JournalReservationType ==
  ASSUME rec \in OpRecords, NEW a \in Actions, NEW o \in SUBSET Coins,
         NEW w \in SUBSET Coins
  PROVE  BeforeMutation(rec, a, "locked", o, w, FALSE) \in OpRecords
  BY BeforeType DEF Phases

LEMMA LifecycleType ==
  /\ NewLifecycle \in Lifecycles
  /\ \A l \in Lifecycles :
       /\ KeepLocks(l) \in Lifecycles /\ ReleaseLocks(l) \in Lifecycles
       /\ CleanupFailed(l) \in Lifecycles
       /\ \A p \in Phases : Transition(l, p) \in Lifecycles
  BY DEF NewLifecycle, Lifecycles, KeepLocks, ReleaseLocks, CleanupFailed,
         Transition, Phases

LEMMA CallPhaseType == TypeOK /\ pc \in Calls => CallPhase \in Phases
  BY DEF TypeOK, CallPhase, Calls, Phases, Lifecycles

LEMMA CallStepType == TypeOK /\ CallStep => TypeOK'
<1> SUFFICES ASSUME TypeOK, CallStep PROVE TypeOK'
  OBVIOUS
<1> USE DEF TypeOK, Pcs, Locking, CleaningUp, AtCoin, Calls, Renewals, Ended, Stages, Goto, NoFault, DiskFault,
        resVars, thrVars, recoveryVars, extVars
<1>1. CASE pc \in Calls /\ CallBefore(CallPhase)
  <2>1. rec' \in OpRecords
    BY <1>1, BeforeType, CallPhaseType DEF CallBefore, Actions
  <2>2. faults' \in 0..MaxDiskFaults
    BY <1>1, FaultsAssumption DEF CallBefore
  <2> QED
    BY <1>1, <2>1, <2>2 DEF CallBefore
<1>2. CASE pc \in Calls /\ CallAfter(CallPhase)
  <2>1. rec' \in OpRecords
    BY <1>2, AfterType, CallPhaseType DEF CallAfter
  <2>2. faults' \in 0..MaxDiskFaults
    BY <1>2, FaultsAssumption DEF CallAfter
  <2> QED
    BY <1>2, <2>1, <2>2 DEF CallAfter
<1>3. CASE Rpc
  <2>1. cln' \in ClnStates /\ broadcast' \in BOOLEAN
    BY <1>3 DEF Rpc, Applied, ClnStates
  <2> QED
    BY <1>3, <2>1 DEF Rpc
<1>4. CASE StartFailed \/ Started \/ CompleteFailed \/ Completed \/ SendFailed \/ Sent
           \/ Cancelled \/ CancelFailed
  <2>1. lc' \in Lifecycles
    BY <1>4, LifecycleType DEF StartFailed, Started, CompleteFailed, Completed,
       SendFailed, Sent, Cancelled, CancelFailed, Phases
  <2>2. pc' \in Pcs /\ stage' \in Stages
    BY <1>4 DEF StartFailed, Started, CompleteFailed, Completed, SendFailed, Sent,
       Cancelled, CancelFailed
  <2> QED
    BY <1>4, <2>1, <2>2 DEF StartFailed, Started, CompleteFailed, Completed,
       SendFailed, Sent, Cancelled, CancelFailed
<1> QED
  BY <1>1, <1>2, <1>3, <1>4 DEF CallStep

LEMMA CleanupStepType == TypeOK /\ CleanupStep => TypeOK'
<1> SUFFICES ASSUME TypeOK, CleanupStep PROVE TypeOK'
  OBVIOUS
<1> USE DEF TypeOK, Pcs, Locking, CleaningUp, AtCoin, Calls, Renewals, Ended, Stages, Goto, NoFault, DiskFault,
        resVars, thrVars, recoveryVars, extVars
<1>1. CASE Unlock
  <2>0. BeforeMutation(rec, "release", "locked", held, held, FALSE) \in OpRecords
    BY JournalReservationType DEF Actions
  <2>1. rec' \in OpRecords
    BY <1>1, <2>0 DEF Unlock, UnlockJournal
  <2>2. faults' \in 0..MaxDiskFaults
    BY <1>1, FaultsAssumption DEF Unlock
  <2>3. lc' \in Lifecycles
    BY <1>1, LifecycleType DEF Unlock
  <2>4. pc' \in Pcs /\ stage' \in Stages /\ cur' \in Coins \union {NoCoin}
        /\ locked' \in SUBSET Coins
    BY <1>1 DEF Unlock
  <2> QED
    BY <1>1, <2>1, <2>2, <2>3, <2>4 DEF Unlock
<1>2. CASE Release
  <2>1. lease' \in [Coins -> Holders] /\ released' \in SUBSET Coins
    BY <1>2 DEF Release, ReleaseIfOwned, Holders
  <2>2. lc' \in Lifecycles
    BY <1>2, LifecycleType DEF Release
  <2> QED
    BY <1>2, <2>1, <2>2 DEF Release
<1>3. CASE DropOwner
  <2>1. rec' \in OpRecords
    BY <1>3, ReservationDoneType DEF DropOwner
  <2>2. faults' \in 0..MaxDiskFaults
    BY <1>3, FaultsAssumption DEF DropOwner
  <2>3. lc' \in Lifecycles
    BY <1>3, LifecycleType DEF DropOwner
  <2> QED
    BY <1>3, <2>1, <2>2, <2>3 DEF DropOwner, Disown
<1>4. CASE StopRenewal
  BY <1>4 DEF StopRenewal
<1>5. CASE Close
  <2>1. lc' \in Lifecycles
    BY <1>5, LifecycleType DEF Close
  <2> QED
    BY <1>5, <2>1 DEF Close, ThreadStates
<1>6. CASE Resolve
  <2>1. rec' \in OpRecords
    BY <1>6, FreshRecords DEF Resolve, ResolveAt, ResolveRecord
  <2>2. faults' \in 0..MaxDiskFaults
    BY <1>6, FaultsAssumption DEF Resolve, ResolveAt
  <2> QED
    BY <1>6, <2>1, <2>2 DEF Resolve, ResolveAt, LockHolders
<1> QED
  BY <1>1, <1>2, <1>3, <1>4, <1>5, <1>6 DEF CleanupStep, TidyUp

LEMMA RenewalStepType == TypeOK /\ RenewalSteps => TypeOK'
<1> SUFFICES ASSUME TypeOK, RenewalSteps PROVE TypeOK'
  OBVIOUS
<1> USE DEF TypeOK, recoveryVars, opVars, extVars
<1>0. BeforeMutation(rec, "renew", "locked", outs, held, FALSE) \in OpRecords
  BY JournalReservationType DEF Actions
<1>1. rec' \in OpRecords
  BY <1>0, ReservationDoneType DEF RenewalSteps, ThreadStep, ThreadOutpoints,
     ThreadWrite, ThreadRenew, ThreadAfter, ThreadFails
<1>2. thr' \in ThreadStates /\ todo' \in SUBSET Coins /\ outs' \in SUBSET Coins
  BY DEF RenewalSteps, ThreadStep, ThreadOutpoints, ThreadWrite, ThreadRenew,
     ThreadAfter, ThreadFails, ThreadStates
<1> QED
  BY <1>1, <1>2 DEF RenewalSteps, ThreadStep, ThreadOutpoints, ThreadWrite, ThreadRenew,
     ThreadAfter, ThreadFails

LEMMA RecoverStepType == TypeOK /\ RecoverStep => TypeOK'
<1> SUFFICES ASSUME TypeOK, RecoverStep PROVE TypeOK'
  OBVIOUS
<1> USE DEF TypeOK, resVars, thrVars, opVars, extVars, LockHolders
<1>RecFields. rec.owners \in SUBSET Coins /\ rec.outs \in SUBSET Coins
               /\ rec.phase \in Phases \union {"none"} /\ rec.txid \in BOOLEAN
  BY DEF OpRecords, Records
<1>1. CASE RecoverBegin \/ RecoverAborts
  BY <1>1 DEF RecoverStep, RecoverBegin, RecoverAborts
<1>2. CASE \E b \in BitcoinView, s \in CheckedStatus :
             RecoverDecides(b, s) \/ RecoverKeeps(b, s)
  BY <1>2, <1>RecFields DEF RecoverStep, RecoverDecides, RecoverKeeps
<1>3. ASSUME NEW c \in Coins, RecoverReleases(c) PROVE TypeOK'
  <2>1. rec' \in OpRecords
    BY <1>3, <1>RecFields, BeforeType DEF RecoverReleases, Actions
  <2>2. lease' \in [Coins -> Holders] /\ released' \in SUBSET Coins
    BY <1>3 DEF RecoverReleases, ReleaseIfOwned, Holders
  <2> QED
    BY <1>3, <2>1, <2>2 DEF RecoverStep, RecoverReleases
<1>4. CASE RecoverResolves
  <2>1. rec' \in OpRecords
    BY <1>4, FreshRecords DEF RecoverResolves, ResolveRecord
  <2> QED
    BY <1>4, <2>1 DEF RecoverStep, RecoverResolves
<1> QED
  BY <1>1, <1>2, <1>3, <1>4 DEF RecoverStep

(***************************************************************************)
(* Type correctness.                                                       *)
(***************************************************************************)
LEMMA TypeInit == Init => TypeOK
<1> SUFFICES ASSUME Init PROVE TypeOK
  OBVIOUS
<1>1. rec \in OpRecords /\ lc \in Lifecycles
  BY FreshRecords, LifecycleType DEF Init, FundingInit, ReservationsInit
<1>2. lease \in [Coins -> Holders]
  BY DEF Init, FundingInit, ReservationsInit, Holders
<1>3. faults \in 0..MaxDiskFaults
  BY FaultsAssumption DEF Init, FundingInit
<1>4. pc \in Pcs /\ stage \in Stages /\ cur \in Coins \union {NoCoin}
      /\ (pc \in AtCoin => cur \in Coins) /\ cln \in ClnStates
  BY DEF Init, FundingInit, AtCoin, Pcs, Locking, CleaningUp, Ended, Stages, ClnStates
<1>5. thr \in ThreadStates /\ flock \in LockHolders /\ rcv \in {"off", "check", "release"}
  BY DEF Init, FundingInit, ReservationsInit, RecoveryInit, ThreadStates, LockHolders
<1> QED
  BY <1>1, <1>2, <1>3, <1>4, <1>5 DEF Init, FundingInit, ReservationsInit, RecoveryInit, TypeOK

LEMMA TypeNext == TypeOK /\ [Next]_vars => TypeOK'
<1> SUFFICES ASSUME TypeOK, [Next]_vars PROVE TypeOK'
  OBVIOUS
<1> USE DEF TypeOK, Holders, ThreadStates, LockHolders, Pcs, Locking, CleaningUp, AtCoin, Calls,
        Renewals, Ended, Stages, ClnStates, Goto, NoFault, DiskFault, resVars, thrVars,
        recoveryVars, opVars, extVars
<1>1. CASE Begin
  BY <1>1, FreshRecords DEF Begin
<1>2. CASE Plan
  BY <1>2 DEF Plan
<1>3. CASE LockNext
  <2>1. \A c \in Coins : BeforeMutation(rec, "reserve", "locked", held \union {c},
                      held \union {c}, FALSE) \in OpRecords
    BY BeforeType DEF Actions, Phases
  <2> QED
    <3>1. rec' \in OpRecords /\ cur' \in Coins \union {NoCoin}
      BY <1>3, <2>1 DEF LockNext, LockJournal
    <3>2. faults' \in 0..MaxDiskFaults
      BY <1>3, FaultsAssumption DEF LockNext
    <3>3. pc' \in Pcs /\ stage' \in Stages
      BY <1>3 DEF LockNext
    <3> QED
      BY <1>3, <3>1, <3>2, <3>3 DEF LockNext
<1>4. CASE Reserve
  BY <1>4 DEF Reserve, LockReserve
<1>5. CASE Own
  <2>1. rec' \in OpRecords
    BY <1>5, ReservationDoneType DEF Own
  <2>2. held' \in SUBSET Coins /\ locked' \in SUBSET Coins
    BY <1>5 DEF Own, LockOwn
  <2>3. faults' \in 0..MaxDiskFaults
    BY <1>5, FaultsAssumption DEF Own
  <2> QED
    BY <1>5, <2>1, <2>2, <2>3 DEF Own
<1>RenewType. RenewPending \in OpRecords /\ RenewedRecord \in OpRecords
  BY BeforeType, AfterType DEF RenewPending, RenewedRecord, Actions, Phases
<1>6. CASE Arm
  <2>1. rec' \in OpRecords
    BY <1>6, <1>RenewType DEF Arm, RenewLocks, RenewRaises
  <2>2. lc' \in Lifecycles
    BY <1>6, LifecycleType DEF Arm, Phases
  <2> QED
    BY <1>6, <2>1, <2>2 DEF Arm
<1>7. CASE Renew
  <2>1. rec' \in OpRecords
    BY <1>7, <1>RenewType DEF Renew, RenewTo, RenewLocks, RenewRaises
  <2>2. pc' \in Pcs /\ stage' \in Stages
    BY <1>7 DEF Renew, RenewTo
  <2> QED
    BY <1>7, <2>1, <2>2 DEF Renew, RenewTo
<1>8. CASE Prepare \/ Confirm
  BY <1>8 DEF Prepare, Confirm
<1>9. CASE CallStep
  BY <1>9, CallStepType DEF TypeOK
<1>10. CASE CleanupStep
  BY <1>10, CleanupStepType DEF TypeOK
<1>11. CASE Interrupt
  BY <1>11 DEF Interrupt
<1>12. CASE Crash
  BY <1>12 DEF Crash, AdapterLost
<1>13. CASE RenewalWakes
  BY <1>13 DEF RenewalWakes, ThreadWake
<1>14. CASE RenewalSteps
  BY <1>14, RenewalStepType DEF TypeOK
<1>15. CASE Lapse(RenewedCalls) \/ Others
  BY <1>15 DEF Lapse, LeaseLapses, Others, OtherReserves
<1>16. CASE FundingForgotten
  BY <1>16 DEF FundingForgotten
<1>17. CASE RecoverStep
  BY <1>17, RecoverStepType DEF TypeOK
<1>18. CASE UNCHANGED vars
  BY <1>18 DEF vars, fundingVars, resVars, recoveryVars, opVars, extVars
<1> QED
  BY <1>1, <1>2, <1>3, <1>4, <1>5, <1>6, <1>7, <1>8, <1>9, <1>10, <1>11, <1>12,
     <1>13, <1>14, <1>15, <1>16, <1>17, <1>18 DEF Next, OpStep

THEOREM TypeCorrect == Spec => []TypeOK
  BY TypeInit, TypeNext, PTL DEF Spec

(***************************************************************************)
(* The fields of a journal record and of a lifecycle after an update: what *)
(* the safety argument needs to know of them.                              *)
(***************************************************************************)
LEMMA RecordFields ==
  ASSUME NEW r \in OpRecords
  PROVE  /\ r.present \in BOOLEAN /\ r.txid \in BOOLEAN /\ r.owners \in SUBSET Coins
         /\ \A a, p, o, w, t :
              /\ BeforeMutation(r, a, p, o, w, t).present = r.present
              /\ BeforeMutation(r, a, p, o, w, t).txid = (r.txid \/ t)
         /\ \A p, t : /\ AfterMutation(r, p, t).present = r.present
                      /\ AfterMutation(r, p, t).txid = (r.txid \/ t)
         /\ ~NoRecord.present /\ ~NoRecord.txid
         /\ CreateRecord.present /\ ~CreateRecord.txid
  BY DEF OpRecords, Records, BeforeMutation, AfterMutation, NoRecord, CreateRecord

LEMMA LifecycleFields ==
  /\ NewLifecycle.release /\ NewLifecycle.phase = "prestart"
  /\ \A l \in Lifecycles :
       /\ l.release \in BOOLEAN
       /\ ~KeepLocks(l).release /\ KeepLocks(l).phase = l.phase
       /\ ReleaseLocks(l).release /\ ReleaseLocks(l).phase = l.phase
       /\ CleanupFailed(l).release = l.release /\ CleanupFailed(l).phase = l.phase
       /\ \A p \in Phases : Transition(l, p).release = l.release
                            /\ Transition(l, p).phase = p
  BY DEF NewLifecycle, Lifecycles, KeepLocks, ReleaseLocks, CleanupFailed, Transition

LEMMA RenewFields ==
  ASSUME rec \in OpRecords
  PROVE  /\ RenewPending.present = rec.present /\ RenewPending.txid = rec.txid
         /\ RenewedRecord.present = rec.present /\ RenewedRecord.txid = rec.txid
         /\ ReservationDone.present = rec.present /\ ReservationDone.txid = rec.txid
  BY DEF RenewPending, RenewedRecord, ReservationDone, OpRecords, Records,
     BeforeMutation, AfterMutation

\* What the wallet's own writes, which know no transaction id, leave alone.
LEMMA WriteFields ==
  ASSUME rec \in OpRecords, NEW a, NEW o, NEW w
  PROVE  /\ BeforeMutation(rec, a, "locked", o, w, FALSE).present = rec.present
         /\ BeforeMutation(rec, a, "locked", o, w, FALSE).txid = rec.txid
  BY DEF OpRecords, Records, BeforeMutation

\* The outcomes of a call: a phase reached, with the inputs kept or put up.
LEMMA OutcomeFields ==
  \A l \in Lifecycles :
    /\ KeepLocks(l).release = FALSE /\ KeepLocks(l).phase = l.phase
    /\ \A p \in Phases : /\ KeepLocks(Transition(l, p)).release = FALSE
                         /\ KeepLocks(Transition(l, p)).phase = p
                         /\ Transition(ReleaseLocks(l), p).release = TRUE
                         /\ Transition(ReleaseLocks(l), p).phase = p
  BY DEF Lifecycles, KeepLocks, ReleaseLocks, Transition

LEMMA UnlockFields ==
  ASSUME rec \in OpRecords, UnlockJournal
  PROVE  rec'.present = rec.present /\ rec'.txid = rec.txid
  BY DEF UnlockJournal, OpRecords, Records, BeforeMutation

\* Where CLN reports the funding withheld, it has not been broadcast.
LEMMA WithheldUnbroadcast == "WITHHELD" \in StatusOfTx => ~broadcast
<1>1. CASE broadcast
  <2>1. StatusOfTx = {"BROADCAST", "ABSENT"}
    BY <1>1 DEF StatusOfTx
  <2> QED
    BY <2>1
<1> QED
  BY <1>1

(***************************************************************************)
(* Each group of steps preserves the inductive invariant.                  *)
(***************************************************************************)
LEMMA InitIInv == Init => IInv
<1> SUFFICES ASSUME Init PROVE IInv
  OBVIOUS
<1>1. TypeOK
  BY TypeInit
<1> QED
  BY <1>1, LifecycleFields, FreshRecords, RecordFields DEF Init, FundingInit, ReservationsInit,
     RecoveryInit, IInv, Exclusive, ReleaseSafe, Progress, Harmless,
     BroadcastKeepsInputs, HandOffRecorded, SuccessMeansBroadcast, Live, Ended

LEMMA BeginPlanIInv == IInv /\ TypeOK' /\ (Begin \/ Plan) => IInv'
<1> SUFFICES ASSUME IInv, TypeOK', Begin \/ Plan PROVE IInv'
  OBVIOUS
<1> USE LifecycleFields, FreshRecords, RecordFields DEF IInv, Exclusive, ReleaseSafe,
        Progress, Harmless, BroadcastKeepsInputs, HandOffRecorded,
        SuccessMeansBroadcast, Live, Ended, Goto, Calls, resVars, recoveryVars, extVars
<1>1. CASE Begin
  BY <1>1 DEF Begin
<1>2. CASE Plan
  BY <1>2 DEF Plan
<1> QED
  BY <1>1, <1>2

(***************************************************************************)
(* Locking and renewing never hand anything over and never release.        *)
(***************************************************************************)
LEMMA LockingIInv ==
  IInv /\ TypeOK' /\ (LockNext \/ Reserve \/ Own \/ Arm \/ Renew) => IInv'
<1> SUFFICES ASSUME IInv, TypeOK', LockNext \/ Reserve \/ Own \/ Arm \/ Renew
             PROVE IInv'
  OBVIOUS
<1>0. rec \in OpRecords /\ lc \in Lifecycles
  BY DEF IInv, TypeOK
<1> USE LifecycleFields, RecordFields, RenewFields DEF IInv, Exclusive, ReleaseSafe,
        Progress, Harmless, BroadcastKeepsInputs, HandOffRecorded,
        SuccessMeansBroadcast, Live, Ended, Goto, Calls, resVars, recoveryVars, extVars
<1>1. CASE LockNext
  <2>1. rec'.present = rec.present /\ rec'.txid = rec.txid
    <3>1. rec' = rec \/ \E c \in wanted : LockJournal(c)
      BY <1>1 DEF LockNext
    <3>2. ASSUME NEW c \in wanted, LockJournal(c)
          PROVE  rec'.present = rec.present /\ rec'.txid = rec.txid
      <4>1. rec' = BeforeMutation(rec, "reserve", "locked", held \union {c},
                                  held \union {c}, FALSE)
        BY <3>2 DEF LockJournal
      <4> QED
        BY <1>0, <4>1, WriteFields
    <3> QED
      BY <3>1, <3>2
  <2> QED
    BY <1>1, <2>1 DEF LockNext
<1>2. CASE Reserve
  BY <1>2 DEF Reserve, LockReserve
<1>3. CASE Own
  <2>1. rec'.present = rec.present /\ rec'.txid = rec.txid
    BY <1>0, <1>3 DEF Own
  <2> QED
    BY <1>3, <2>1 DEF Own
<1>4. CASE Arm
  <2>1. rec'.present = rec.present /\ rec'.txid = rec.txid
    BY <1>0, <1>4 DEF Arm, RenewLocks, RenewRaises
  <2>2. lc'.release = lc.release /\ lc'.phase = "locked"
    BY <1>0, <1>4 DEF Arm, Phases
  <2> QED
    BY <1>4, <2>1, <2>2 DEF Arm
<1>5. CASE Renew
  <2>1. rec'.present = rec.present /\ rec'.txid = rec.txid
    BY <1>0, <1>5 DEF Renew, RenewTo, RenewLocks, RenewRaises
  <2> QED
    BY <1>5, <2>1 DEF Renew, RenewTo, Renewals
<1> QED
  BY <1>1, <1>2, <1>3, <1>4, <1>5

(***************************************************************************)
(* The calls: the transaction id is durable before CLN is asked, and the   *)
(* inputs are only put up for release when CLN cannot broadcast any more.  *)
(***************************************************************************)
LEMMA JournalCallIInv ==
  IInv /\ TypeOK' /\ ((pc \in Calls /\ (CallBefore(CallPhase) \/ CallAfter(CallPhase)))
                        \/ Rpc) => IInv'
<1> SUFFICES ASSUME IInv, TypeOK',
                    (pc \in Calls /\ (CallBefore(CallPhase) \/ CallAfter(CallPhase))) \/ Rpc
             PROVE IInv'
  OBVIOUS
<1>0. rec \in OpRecords /\ lc \in Lifecycles /\ signed \in BOOLEAN /\ cln \in ClnStates
  BY DEF IInv, TypeOK
<1> USE LifecycleFields, RecordFields, RenewFields DEF IInv, Exclusive, ReleaseSafe,
        Progress, Harmless, BroadcastKeepsInputs, HandOffRecorded,
        SuccessMeansBroadcast, Live, Ended, Goto, Calls, resVars, recoveryVars, extVars
<1>1. CASE pc \in Calls /\ CallBefore(CallPhase)
  <2>1. /\ rec'.present = rec.present
        /\ rec.txid => rec'.txid
        /\ stage' = "rpc" /\ signed => rec'.txid
    BY <1>0, <1>1 DEF CallBefore
  <2> QED
    BY <1>1, <2>1 DEF CallBefore
<1>2. CASE pc \in Calls /\ CallAfter(CallPhase)
  <2>1. rec'.present = rec.present /\ (rec.txid => rec'.txid)
    BY <1>0, <1>2 DEF CallAfter
  <2> QED
    BY <1>2, <2>1 DEF CallAfter
<1>3. CASE Rpc
  BY <1>0, <1>3 DEF Rpc, Applied, ClnStates
<1> QED
  BY <1>1, <1>2, <1>3

LEMMA OutcomeIInv ==
  IInv /\ TypeOK' /\ (StartFailed \/ Started \/ Prepare \/ Confirm \/ Completed \/ CompleteFailed
           \/ SendFailed \/ Sent \/ Cancelled \/ CancelFailed) => IInv'
<1> SUFFICES ASSUME IInv, TypeOK',
                    StartFailed \/ Started \/ Prepare \/ Confirm \/ Completed
                      \/ CompleteFailed \/ SendFailed \/ Sent \/ Cancelled \/ CancelFailed
             PROVE IInv'
  OBVIOUS
<1>0. lc \in Lifecycles /\ rec \in OpRecords /\ cln \in ClnStates
  BY DEF IInv, TypeOK
<1>a. "locked" \in Phases /\ "started" \in Phases /\ "withheld" \in Phases
      /\ "broadcast" \in Phases
  BY DEF Phases
<1>b. /\ KeepLocks(lc).release = FALSE /\ KeepLocks(lc).phase = lc.phase
      /\ \A p \in {"locked", "started", "broadcast"} :
           /\ KeepLocks(Transition(lc, p)).release = FALSE
           /\ KeepLocks(Transition(lc, p)).phase = p
           /\ Transition(ReleaseLocks(lc), p).release = TRUE
           /\ Transition(ReleaseLocks(lc), p).phase = p
  <2>1. KeepLocks(lc).release = FALSE /\ KeepLocks(lc).phase = lc.phase
    BY <1>0, <1>a, OutcomeFields
  <2>2. \A p \in Phases : /\ KeepLocks(Transition(lc, p)).release = FALSE
                          /\ KeepLocks(Transition(lc, p)).phase = p
                          /\ Transition(ReleaseLocks(lc), p).release = TRUE
                          /\ Transition(ReleaseLocks(lc), p).phase = p
    BY <1>0, OutcomeFields
  <2> QED
    BY <1>a, <2>1, <2>2
<1>c. Transition(lc, "withheld").release = lc.release
      /\ Transition(lc, "withheld").phase = "withheld"
  BY <1>0, <1>a, LifecycleFields
<1> USE DEF IInv, Exclusive, ReleaseSafe, Progress, Harmless, BroadcastKeepsInputs,
        HandOffRecorded, SuccessMeansBroadcast, Live, Ended, Goto, Calls, resVars,
        recoveryVars, extVars
<1>1. CASE StartFailed
  <2>1. lc'.release = FALSE /\ lc'.phase = lc.phase
    BY <1>b, <1>1 DEF StartFailed
  <2> QED
    BY <1>1, <2>1 DEF StartFailed
<1>2. CASE Started
  <2>1. lc'.release = FALSE /\ lc'.phase = "started"
    BY <1>b, <1>2 DEF Started
  <2> QED
    BY <1>2, <2>1 DEF Started
<1>3. CASE Prepare \/ Confirm
  BY <1>3 DEF Prepare, Confirm
<1>4. CASE Completed
  <2>1. lc'.release = lc.release /\ lc'.phase = "withheld"
    BY <1>c, <1>4 DEF Completed
  <2> QED
    BY <1>4, <2>1 DEF Completed
<1>5. CASE CompleteFailed
  <2>1. \/ lc'.release = FALSE /\ lc'.phase = lc.phase
        \/ /\ lc'.release = TRUE /\ lc'.phase = "locked"
           /\ "ABSENT" \in StatusOfTx /\ pc' = "cleanup"
    BY <1>b, <1>5 DEF CompleteFailed
  <2>2. ~broadcast /\ ("ABSENT" \in StatusOfTx => Harmless)
    BY <1>0, <1>5 DEF CompleteFailed, StatusOfTx, ClnStates
  <2>3. UNCHANGED <<released, rec, flock, rcv, signed, cln, broadcast>>
        /\ pc = "complete" /\ pc' \in {"cancel", "cleanup"}
        /\ (pc' = "cancel" => stage' = "before" /\ lc'.release = FALSE)
    BY <1>b, <1>5 DEF CompleteFailed
  <2> QED
    BY <2>1, <2>2, <2>3
<1>6. CASE SendFailed
  <2>1. /\ lc'.release = FALSE
        /\ \/ lc'.phase = lc.phase
           \/ lc'.phase = "broadcast" /\ pc' = "cleanup" /\ "BROADCAST" \in StatusOfTx
    BY <1>b, <1>6 DEF SendFailed
  <2>2. "BROADCAST" \in StatusOfTx => broadcast \/ (cln = "withheld" /\ ~ReportsWithheld)
    BY DEF StatusOfTx
  <2>3. pc' = "cancel" => ~broadcast
    BY <1>6, WithheldUnbroadcast DEF SendFailed
  <2>4. UNCHANGED <<released, rec, flock, rcv, signed, cln, broadcast>>
        /\ pc = "sendpsbt" /\ pc' \in {"cancel", "cleanup"}
        /\ (pc' = "cancel" => stage' = "before")
    BY <1>6 DEF SendFailed
  <2> QED
    BY <2>1, <2>2, <2>3, <2>4
<1>7. CASE Sent
  <2>1. lc'.release = FALSE /\ (lc'.phase = lc.phase \/ lc'.phase = "broadcast")
    BY <1>b, <1>7 DEF Sent
  <2> QED
    BY <1>7, <2>1 DEF Sent
<1>8. CASE Cancelled
  <2>1. lc'.release = TRUE /\ lc'.phase = "locked"
    BY <1>b, <1>8 DEF Cancelled
  <2> QED
    BY <1>8, <2>1 DEF Cancelled
<1>9. CASE CancelFailed
  <2>1. lc'.release = FALSE /\ lc'.phase = lc.phase
    BY <1>b, <1>9 DEF CancelFailed
  <2> QED
    BY <1>9, <2>1 DEF CancelFailed
<1> QED
  BY <1>1, <1>2, <1>3, <1>4, <1>5, <1>6, <1>7, <1>8, <1>9

(***************************************************************************)
(* The finally block releases only what ReleaseSafe allows.                *)
(***************************************************************************)
LEMMA CleanupIInv == IInv /\ TypeOK' /\ CleanupStep => IInv'
<1> SUFFICES ASSUME IInv, TypeOK', CleanupStep PROVE IInv'
  OBVIOUS
<1>0. rec \in OpRecords /\ lc \in Lifecycles
  BY DEF IInv, TypeOK
<1> USE LifecycleFields, RecordFields, RenewFields DEF IInv, Exclusive, ReleaseSafe,
        Progress, Harmless, BroadcastKeepsInputs, HandOffRecorded,
        SuccessMeansBroadcast, Live, Ended, Goto, Calls, resVars, recoveryVars, extVars
<1>1. CASE Unlock
  <2>1. rec'.present = rec.present /\ rec'.txid = rec.txid
    <3>1. rec' = rec \/ UnlockJournal
      BY <1>1 DEF Unlock
    <3> QED
      BY <1>0, <3>1, UnlockFields
  <2>2. lc'.release = lc.release /\ lc'.phase = lc.phase
    <3>1. lc' = lc \/ lc' = CleanupFailed(lc)
      BY <1>1 DEF Unlock
    <3> QED
      BY <1>0, <3>1
  <2> QED
    BY <1>1, <2>1, <2>2 DEF Unlock
<1>2. CASE Release
  <2>1. lc'.release = lc.release /\ lc'.phase = lc.phase
    BY <1>0, <1>2 DEF Release
  <2> QED
    BY <1>2, <2>1 DEF Release
<1>3. CASE DropOwner
  <2>1. rec'.present = rec.present /\ rec'.txid = rec.txid
    BY <1>0, <1>3 DEF DropOwner
  <2>2. lc'.release = lc.release /\ lc'.phase = lc.phase
    BY <1>0, <1>3 DEF DropOwner
  <2> QED
    BY <1>3, <2>1, <2>2 DEF DropOwner
<1>4. CASE StopRenewal
  BY <1>4 DEF StopRenewal
<1>5. CASE Close
  <2>1. lc'.release = lc.release /\ lc'.phase = lc.phase
    BY <1>0, <1>5 DEF Close
  <2> QED
    BY <1>5, <2>1 DEF Close
<1>6. CASE Resolve
  BY <1>0, <1>6 DEF Resolve, ResolveAt, ResolvableIfClean, ResolveRecord
<1> QED
  BY <1>1, <1>2, <1>3, <1>4, <1>5, <1>6 DEF CleanupStep, TidyUp

(***************************************************************************)
(* Interrupts, crashes, the renewal thread and the environment.            *)
(***************************************************************************)
LEMMA OtherStepsIInv ==
  IInv /\ TypeOK' /\ (Interrupt \/ Crash \/ RenewalWakes \/ RenewalSteps \/ Lapse(RenewedCalls)
                      \/ Others \/ FundingForgotten) => IInv'
<1> SUFFICES ASSUME IInv, TypeOK',
                    Interrupt \/ Crash \/ RenewalWakes \/ RenewalSteps \/ Lapse(RenewedCalls)
                      \/ Others \/ FundingForgotten
             PROVE IInv'
  OBVIOUS
<1>0. rec \in OpRecords /\ lc \in Lifecycles
  BY DEF IInv, TypeOK
<1> USE LifecycleFields, RecordFields, RenewFields DEF IInv, Exclusive, ReleaseSafe,
        Progress, Harmless, BroadcastKeepsInputs, HandOffRecorded,
        SuccessMeansBroadcast, Live, Ended, Goto, Calls, resVars, recoveryVars, extVars
<1> USE DEF opVars
<1>1. CASE Interrupt
  BY <1>1, InterruptAssumption DEF Interrupt, TryBlock, Locking, Renewals
<1>2. CASE Crash
  BY <1>2 DEF Crash, AdapterLost
<1>3. CASE RenewalWakes
  BY <1>3 DEF RenewalWakes, ThreadWake
<1>4. CASE RenewalSteps
  <2>1. rec'.present = rec.present /\ rec'.txid = rec.txid
    <3>1. CASE ThreadWrite
      <4>1. rec' = BeforeMutation(rec, "renew", "locked", outs, held, FALSE)
        BY <3>1 DEF ThreadWrite
      <4> QED
        BY <1>0, <4>1, WriteFields
    <3>2. CASE ThreadAfter
      BY <1>0, <3>2 DEF ThreadAfter
    <3>3. CASE ThreadOutpoints \/ ThreadRenew \/ ThreadFails
      BY <3>3 DEF ThreadOutpoints, ThreadRenew, ThreadFails
    <3> QED
      BY <1>4, <3>1, <3>2, <3>3 DEF RenewalSteps, ThreadStep
  <2> QED
    BY <1>4, <2>1 DEF RenewalSteps, ThreadStep, ThreadOutpoints, ThreadWrite,
       ThreadRenew, ThreadAfter, ThreadFails
<1>5. CASE Lapse(RenewedCalls) \/ Others
  BY <1>5 DEF Lapse, LeaseLapses, Others, OtherReserves
<1>6. CASE FundingForgotten
  BY <1>6 DEF FundingForgotten
<1> QED
  BY <1>1, <1>2, <1>3, <1>4, <1>5, <1>6

(***************************************************************************)
(* Recovery decides to release only when nothing can be broadcast: a       *)
(* recorded transaction is unknown to Bitcoin and to CLN, and without one  *)
(* CLN was never given a signed transaction.                               *)
(***************************************************************************)
LEMMA RecoverIInv == IInv /\ TypeOK' /\ RecoverStep => IInv'
<1> SUFFICES ASSUME IInv, TypeOK', RecoverStep PROVE IInv'
  OBVIOUS
<1>0. rec \in OpRecords /\ lc \in Lifecycles /\ cln \in ClnStates
  BY DEF IInv, TypeOK
<1> USE LifecycleFields, RecordFields, RenewFields DEF IInv, Exclusive, ReleaseSafe,
        Progress, Harmless, BroadcastKeepsInputs, HandOffRecorded,
        SuccessMeansBroadcast, Live, Ended, Goto, Calls, resVars, recoveryVars, extVars
<1> USE DEF opVars, thrVars
<1>1. CASE RecoverBegin \/ RecoverAborts
  BY <1>1 DEF RecoverStep, RecoverBegin, RecoverAborts
<1>2. ASSUME NEW b \in BitcoinView, NEW t \in CheckedStatus, RecoverDecides(b, t)
      PROVE  IInv'
  <2>0. /\ rcv = "check" /\ t = "ABSENT" /\ (rec.txid => b = "no")
        /\ rec.txid \in BOOLEAN
    BY <1>0, <1>2 DEF RecoverDecides, SafelyAbsent
  <2>1. Harmless
    <3>1. CASE rec.txid
      <4>1. ~broadcast
        BY <2>0, <3>1 DEF BitcoinView
      <4>2. t \in StatusOfTx
        BY <3>1 DEF CheckedStatus
      <4>3. cln # "withheld"
        BY <2>0, <4>1, <4>2 DEF StatusOfTx
      <4> QED
        BY <1>0, <4>1, <4>3 DEF ClnStates
    <3>2. CASE ~rec.txid
      BY <2>0, <3>2
    <3> QED
      BY <2>0, <3>1, <3>2
  <2> QED
    BY <1>2, <2>1 DEF RecoverStep, RecoverDecides
<1>3. ASSUME NEW b \in BitcoinView, NEW t \in CheckedStatus, RecoverKeeps(b, t)
      PROVE  IInv'
  BY <1>3 DEF RecoverStep, RecoverKeeps
<1>4. ASSUME NEW c \in Coins, RecoverReleases(c) PROVE IInv'
  <2>1. rec'.present = rec.present /\ rec'.txid = rec.txid
    BY <1>0, <1>4 DEF RecoverReleases
  <2>2. pc \in {"done", "dead"} /\ Harmless
    BY <1>4 DEF RecoverReleases
  <2>3. UNCHANGED <<pc, stage, lc, signed, cln, broadcast, flock, rcv>>
    BY <1>4 DEF RecoverStep, RecoverReleases
  <2> QED
    BY <2>1, <2>2, <2>3
<1>5. CASE RecoverResolves
  <2>1. ~rec'.present /\ ~rec'.txid /\ pc \in {"done", "dead"} /\ Harmless
    BY <1>0, <1>5 DEF RecoverResolves, ResolveRecord
  <2>2. UNCHANGED <<pc, stage, lc, signed, cln, broadcast, released>>
        /\ flock' = "none" /\ rcv' = "off"
    BY <1>5 DEF RecoverStep, RecoverResolves
  <2> QED
    BY <2>1, <2>2
<1> QED
  BY <1>1, <1>2, <1>3, <1>4, <1>5 DEF RecoverStep

LEMMA IInvNext == IInv /\ [Next]_vars => IInv'
<1> SUFFICES ASSUME IInv, [Next]_vars PROVE IInv'
  OBVIOUS
<1>1. TypeOK'
  BY TypeNext DEF IInv
<1>2. CASE Next
  BY <1>1, <1>2, BeginPlanIInv, LockingIInv, JournalCallIInv, OutcomeIInv, CleanupIInv,
     OtherStepsIInv, RecoverIInv DEF Next, OpStep, CallStep
<1>3. CASE UNCHANGED vars
  BY <1>3 DEF vars, fundingVars, resVars, thrVars, recoveryVars, opVars, extVars, IInv, TypeOK,
     Exclusive, ReleaseSafe, Progress, Harmless, BroadcastKeepsInputs,
     HandOffRecorded, SuccessMeansBroadcast, Live
<1> QED
  BY <1>2, <1>3

THEOREM InvariantHolds == Spec => []IInv
  BY InitIInv, IInvNext, PTL DEF Spec

(***************************************************************************)
(* What each step may do to the transaction and to the inputs.             *)
(***************************************************************************)
LEMMA StepEffects ==
  ASSUME [Next]_vars
  PROVE  \/ UNCHANGED <<released, cln, broadcast>>
         \/ Rpc
         \/ Release
         \/ FundingForgotten
         \/ /\ rcv = "release" /\ UNCHANGED <<cln, broadcast>>
            /\ released \subseteq released'
<1> USE DEF resVars, thrVars, recoveryVars, opVars, extVars
<1>1. CASE Begin \/ Plan \/ LockNext \/ Reserve \/ Own \/ Arm \/ Renew
  BY <1>1 DEF Begin, Plan, LockNext, Reserve, Own, Arm, Renew, RenewTo
<1>2. CASE Prepare \/ Confirm
  BY <1>2 DEF Prepare, Confirm
<1>3. CASE pc \in Calls /\ (CallBefore(CallPhase) \/ CallAfter(CallPhase))
  BY <1>3 DEF CallBefore, CallAfter
<1>4. CASE StartFailed \/ Started \/ CompleteFailed \/ Completed \/ SendFailed \/ Sent
             \/ Cancelled \/ CancelFailed
  BY <1>4 DEF StartFailed, Started, CompleteFailed, Completed, SendFailed, Sent,
     Cancelled, CancelFailed
<1>5. CASE Unlock \/ DropOwner \/ StopRenewal \/ Close \/ Resolve
  BY <1>5 DEF Unlock, DropOwner, StopRenewal, Close, Resolve, ResolveAt
<1>6. CASE Interrupt \/ Crash \/ RenewalWakes \/ Lapse(RenewedCalls) \/ Others
  BY <1>6 DEF Interrupt, Crash, AdapterLost, RenewalWakes, ThreadWake, Lapse, LeaseLapses,
     Others, OtherReserves
<1>7. CASE RenewalSteps
  BY <1>7 DEF RenewalSteps, ThreadStep, ThreadOutpoints, ThreadWrite, ThreadRenew,
     ThreadAfter, ThreadFails
<1>8. CASE RecoverStep
  BY <1>8 DEF RecoverStep, RecoverBegin, RecoverDecides, RecoverKeeps, RecoverReleases,
     ReleaseIfOwned, RecoverResolves, RecoverAborts
<1>9. CASE UNCHANGED vars
  BY <1>9 DEF vars, fundingVars
<1> QED
  BY <1>1, <1>2, <1>3, <1>4, <1>5, <1>6, <1>7, <1>8, <1>9 DEF Next, OpStep, CallStep,
     CleanupStep, TidyUp

(***************************************************************************)
(* The operation and recovery keep the promise about the inputs: each step *)
(* is a step of InputPromise or leaves its two variables alone.            *)
(***************************************************************************)
THEOREM PromiseKept == Spec => KeepsPromise
<1> DEFINE funding == IF broadcast THEN "sent"
                      ELSE IF cln = "withheld" THEN "withheld" ELSE "none"
           back == released # {}
<1>1. Init => Promise!Init
  BY DEF Init, FundingInit, ReservationsInit, Promise!Init
<1>2. ASSUME IInv, [Next]_vars
      PROVE  [Promise!Next]_<<funding, back>>
  <2> USE DEF Promise!Next, Promise!HandOver, Promise!Send, Promise!Withdraw,
          Promise!GiveBack
  <2>1. CASE UNCHANGED <<released, cln, broadcast>>
    BY <2>1
  <2>2. CASE Rpc
    <3>1. UNCHANGED released /\ pc \in Calls
      BY <2>2 DEF Rpc, resVars
    <3>2. released = {}
      BY <1>2, <3>1 DEF IInv, ReleaseSafe, Calls
    <3>3. UNCHANGED extVars \/ Applied(pc)
      BY <2>2 DEF Rpc
    <3>4. CASE UNCHANGED extVars
      BY <3>1, <3>4 DEF extVars
    <3>5. CASE Applied(pc) /\ pc = "start"
      BY <3>1, <3>5 DEF Applied
    <3>6. CASE Applied(pc) /\ pc = "complete"
      BY <3>1, <3>2, <3>6 DEF Applied
    <3>7. CASE Applied(pc) /\ pc = "sendpsbt"
      BY <3>1, <3>2, <3>7 DEF Applied
    <3>8. CASE Applied(pc) /\ pc = "cancel"
      BY <3>1, <3>2, <3>8 DEF Applied
    <3> QED
      BY <3>1, <3>3, <3>4, <3>5, <3>6, <3>7, <3>8 DEF Calls
  <2>3. CASE Release
    <3>1. funding = "none" /\ UNCHANGED funding
      BY <1>2, <2>3 DEF Release, IInv, ReleaseSafe, Harmless, extVars
    <3>2. UNCHANGED back \/ back'
      BY <2>3 DEF Release, ReleaseIfOwned
    <3> QED
      BY <3>1, <3>2
  <2>4. CASE FundingForgotten
    BY <2>4 DEF FundingForgotten, resVars
  <2>5. CASE /\ rcv = "release" /\ UNCHANGED <<cln, broadcast>>
            /\ released \subseteq released'
    <3>1. funding = "none" /\ UNCHANGED funding
      BY <1>2, <2>5 DEF IInv, ReleaseSafe, Harmless
    <3>2. back => back'
      BY <2>5
    <3> QED
      BY <3>1, <3>2
  <2> QED
    BY <1>2, <2>1, <2>2, <2>3, <2>4, <2>5, StepEffects
<1> QED
  BY <1>1, <1>2, InvariantHolds, PTL DEF Spec, KeepsPromise, Promise!Spec

(***************************************************************************)
(* The transaction id is durable before CLN holds the signed transaction,  *)
(* and for as long as the operation does not know of a broadcast.          *)
(***************************************************************************)
THEOREM IdRecorded == Spec => []HandOffRecorded
<1>1. IInv => HandOffRecorded
  BY DEF IInv
<1> QED
  BY <1>1, InvariantHolds, PTL

(***************************************************************************)
(* fundchannel_cancel is never attempted after a broadcast.                *)
(***************************************************************************)
THEOREM NoLateCancel == Spec => []CancelOnlyUnbroadcast
<1>1. IInv => CancelOnlyUnbroadcast
  BY DEF IInv, Progress, CancelOnlyUnbroadcast
<1> QED
  BY <1>1, InvariantHolds, PTL

(***************************************************************************)
(* Success is reported only for a transaction that was broadcast; where    *)
(* CLN does not show the withheld flag, for one that at least it holds.    *)
(***************************************************************************)
THEOREM SuccessIsReal == Spec => []SuccessMeansBroadcast
<1>1. IInv => SuccessMeansBroadcast
  BY DEF IInv
<1> QED
  BY <1>1, InvariantHolds, PTL

----------------------------------------------------------------------------
(***************************************************************************)
(* The phase of the operation at each point of the code, and the leases    *)
(* that a renewal leaves for the call that follows it.                     *)
(***************************************************************************)
Phased ==
  /\ pc \in {"idle"} \union Locking => lc.phase = "prestart"
  /\ pc \in {"renew_start", "start"} => lc.phase = "locked"
  /\ pc \in {"prep", "confirm", "renew_complete", "complete"} => lc.phase = "started"
  /\ pc \in {"renew_send", "sendpsbt"} => lc.phase = "withheld"
  /\ pc = "cancel" => lc.phase \in {"started", "withheld"}

LeasedForCall == pc \in {"start", "complete", "sendpsbt"} => locked \subseteq Leased

LEMMA NewPhases ==
  \A l \in Lifecycles :
    /\ KeepLocks(l).phase = l.phase /\ ReleaseLocks(l) \in Lifecycles
    /\ KeepLocks(l) \in Lifecycles /\ CleanupFailed(l).phase = l.phase
    /\ \A p : Transition(l, p).phase = p
    /\ \A p \in Phases : Transition(l, p) \in Lifecycles
  BY DEF Lifecycles, KeepLocks, ReleaseLocks, CleanupFailed, Transition

\* A step either leaves the phase, or is one of those that move it on.
LEMMA PhaseMoves ==
  ASSUME TypeOK, [Next]_vars
  PROVE  \/ lc'.phase = lc.phase
         \/ pc = "arm" /\ lc'.phase = "locked"
         \/ pc = "start" /\ lc'.phase = "started"
         \/ pc = "complete" /\ lc'.phase \in {"withheld", "locked"}
         \/ pc = "sendpsbt" /\ lc'.phase = "broadcast"
         \/ pc = "cancel" /\ lc'.phase = "locked"
<1>0. /\ lc \in Lifecycles
      /\ {"locked", "started", "withheld", "broadcast"} \subseteq Phases
  BY DEF TypeOK, Phases
<1> USE <1>0, NewPhases DEF opVars
<1>1. CASE Begin \/ Plan \/ LockNext \/ Reserve \/ Own \/ Renew \/ Prepare \/ Confirm
  BY <1>1 DEF Begin, Plan, LockNext, Reserve, Own, Renew, RenewTo, Prepare, Confirm
<1>2. CASE Arm
  BY <1>2 DEF Arm
<1>3. CASE (pc \in Calls /\ (CallBefore(CallPhase) \/ CallAfter(CallPhase))) \/ Rpc
  BY <1>3 DEF CallBefore, CallAfter, Rpc
<1>4. CASE StartFailed \/ Started
  BY <1>4 DEF StartFailed, Started
<1>5. CASE CompleteFailed \/ Completed
  <2>1. /\ KeepLocks(lc).phase = lc.phase
        /\ Transition(lc, "withheld").phase = "withheld"
        /\ Transition(ReleaseLocks(lc), "locked").phase = "locked"
    BY NewPhases
  <2>2. CASE CompleteFailed
    BY <2>1, <2>2 DEF CompleteFailed
  <2> QED
    BY <1>5, <2>1, <2>2 DEF Completed
<1>6. CASE SendFailed \/ Sent
  BY <1>6 DEF SendFailed, Sent
<1>7. CASE Cancelled \/ CancelFailed
  BY <1>7 DEF Cancelled, CancelFailed
<1>8. CASE CleanupStep
  BY <1>8 DEF CleanupStep, TidyUp, Unlock, Release, DropOwner, StopRenewal, Close, Resolve,
     ResolveAt
<1>9. CASE Interrupt \/ Crash \/ RenewalWakes \/ RenewalSteps \/ Lapse(RenewedCalls) \/ Others
           \/ FundingForgotten \/ RecoverStep
  BY <1>9 DEF Interrupt, Crash, RenewalWakes, RenewalSteps, Lapse, Others,
     FundingForgotten, RecoverStep
<1>10. CASE UNCHANGED vars
  BY <1>10 DEF vars, fundingVars
<1> QED
  BY <1>1, <1>2, <1>3, <1>4, <1>5, <1>6, <1>7, <1>8, <1>9, <1>10 DEF Next, OpStep, CallStep

LEMMA PhasedNext == TypeOK /\ Phased /\ [Next]_vars => Phased'
<1> SUFFICES ASSUME TypeOK, Phased, [Next]_vars PROVE Phased'
  OBVIOUS
<1>0. /\ lc \in Lifecycles
      /\ {"locked", "started", "withheld", "broadcast"} \subseteq Phases
  BY DEF TypeOK, Phases
<1> USE <1>0, NewPhases DEF Phased, Goto, Locking, opVars
<1>1. CASE Begin \/ Plan \/ LockNext \/ Reserve \/ Own
  BY <1>1 DEF Begin, Plan, LockNext, Reserve, Own
<1>2. CASE Arm
  BY <1>2 DEF Arm
<1>3. CASE Renew
  BY <1>3 DEF Renew, RenewTo, Renewals
<1>4. CASE Prepare \/ Confirm
  BY <1>4 DEF Prepare, Confirm
<1>5. CASE (pc \in Calls /\ (CallBefore(CallPhase) \/ CallAfter(CallPhase))) \/ Rpc
  BY <1>5 DEF CallBefore, CallAfter, Rpc
<1>6. CASE StartFailed \/ Started
  <2>1. KeepLocks(Transition(lc, "started")).phase = "started"
    BY NewPhases
  <2> QED
    BY <1>6, <2>1 DEF StartFailed, Started
<1>7. CASE CompleteFailed \/ Completed
  BY <1>7 DEF CompleteFailed, Completed
<1>8. CASE SendFailed \/ Sent
  BY <1>8 DEF SendFailed, Sent
<1>9. CASE Cancelled \/ CancelFailed
  BY <1>9 DEF Cancelled, CancelFailed
<1>10. CASE CleanupStep
  BY <1>10 DEF CleanupStep, TidyUp, Unlock, Release, DropOwner, StopRenewal, Close, Resolve,
     ResolveAt
<1>11. CASE Interrupt \/ Crash
  BY <1>11 DEF Interrupt, Crash
<1>12. CASE RenewalWakes \/ RenewalSteps \/ Lapse(RenewedCalls) \/ Others
            \/ FundingForgotten \/ RecoverStep
  BY <1>12 DEF RenewalWakes, RenewalSteps, Lapse, Others, FundingForgotten, RecoverStep
<1>13. CASE UNCHANGED vars
  BY <1>13 DEF vars, fundingVars
<1> QED
  BY <1>1, <1>2, <1>3, <1>4, <1>5, <1>6, <1>7, <1>8, <1>9, <1>10, <1>11, <1>12, <1>13
     DEF Next, OpStep, CallStep

\* While a call that follows a renewal is under way, no lease is given back, and
\* none lapses.
LEMMA LeasedNext == IInv /\ LeasedForCall /\ [Next]_vars => LeasedForCall'
<1> SUFFICES ASSUME IInv, LeasedForCall, [Next]_vars, pc' \in {"start", "complete", "sendpsbt"}
             PROVE  locked' \subseteq Leased'
  BY DEF LeasedForCall
<1> USE DEF Goto, Calls
<1>1. CASE Begin \/ Plan \/ LockNext \/ Reserve \/ Own \/ Arm \/ Prepare \/ Confirm
           \/ Interrupt \/ Crash \/ CleanupStep
  BY <1>1 DEF Begin, Plan, LockNext, Reserve, Own, Arm, Prepare, Confirm, Interrupt, Crash,
     CleanupStep, TidyUp, Unlock, Release, DropOwner, StopRenewal, Close, Resolve, ResolveAt
<1>2. CASE Renew
  BY <1>2 DEF Renew, RenewTo, RenewLocks, Renewable, Leased
<1>3. CASE (pc \in Calls /\ (CallBefore(CallPhase) \/ CallAfter(CallPhase))) \/ Rpc
  BY <1>3 DEF CallBefore, CallAfter, Rpc, LeasedForCall, Leased, resVars
<1>4. CASE StartFailed \/ Started \/ CompleteFailed \/ Completed \/ SendFailed \/ Sent
           \/ Cancelled \/ CancelFailed
  BY <1>4 DEF StartFailed, Started, CompleteFailed, Completed, SendFailed, Sent, Cancelled,
     CancelFailed
<1>5. CASE RenewalWakes \/ RenewalSteps \/ FundingForgotten \/ UNCHANGED vars
  BY <1>5 DEF RenewalWakes, ThreadWake, RenewalSteps, ThreadStep, ThreadOutpoints,
     ThreadWrite, ThreadRenew, ThreadAfter, ThreadFails, FundingForgotten, vars, fundingVars,
     resVars, opVars, LeasedForCall, Leased
<1>6. CASE Lapse(RenewedCalls)
  BY <1>6 DEF Lapse, RenewedCalls, Live, Ended, opVars
<1>7. CASE Others
  <2>1. PICK c \in Coins : OtherReserves(c)
    BY <1>7 DEF Others
  <2>2. Leased \subseteq Leased'
    BY <2>1 DEF OtherReserves, Leased, IInv, TypeOK
  <2> QED
    BY <1>7, <2>2 DEF Others, opVars, LeasedForCall
<1>8. CASE RecoverStep
  <2>1. pc \in {"start", "complete", "sendpsbt"} /\ locked' = locked
    BY <1>8 DEF RecoverStep, opVars
  <2>2. rcv = "off" /\ flock = "op"
    BY <2>1 DEF IInv, Exclusive, Live, Ended
  <2> QED
    BY <1>8, <2>2 DEF RecoverStep, RecoverBegin, RecoverDecides, RecoverKeeps,
       RecoverReleases, RecoverResolves, RecoverAborts
<1> QED
  BY <1>1, <1>2, <1>3, <1>4, <1>5, <1>6, <1>7, <1>8 DEF Next, OpStep, CallStep

(***************************************************************************)
(* execute() asks OperationLifecycle for no transition it would refuse     *)
(* (lifecycle.py:44-88), whatever fails or is interrupted.                 *)
(***************************************************************************)
THEOREM TransitionsAllowed == Spec => LifecycleLegal
<1> DEFINE Allowed == lc'.phase # lc.phase => lc'.phase \in AllowedTransitions[lc.phase]
<1>1. Init => Phased
  BY DEF Init, FundingInit, NewLifecycle, Phased, Locking
<1>2. TypeOK /\ Phased /\ [Next]_vars => [Allowed]_vars
  <2> SUFFICES ASSUME TypeOK, Phased, [Next]_vars PROVE Allowed
    OBVIOUS
  <2>1. \/ lc'.phase = lc.phase
        \/ pc = "arm" /\ lc'.phase = "locked"
        \/ pc = "start" /\ lc'.phase = "started"
        \/ pc = "complete" /\ lc'.phase \in {"withheld", "locked"}
        \/ pc = "sendpsbt" /\ lc'.phase = "broadcast"
        \/ pc = "cancel" /\ lc'.phase = "locked"
    BY PhaseMoves
  <2> QED
    BY <2>1 DEF Phased, Locking, AllowedTransitions, Phases
<1> QED
  BY <1>1, <1>2, TypeCorrect, PhasedNext, PTL DEF Spec, LifecycleLegal

(***************************************************************************)
(* The signed transaction reaches CLN, and the network, only while all of  *)
(* its inputs are still reserved (open_channel.py:371 and 486).            *)
(***************************************************************************)
THEOREM InputsLeased == Spec => HandOffLeased
<1> DEFINE LeasedThen == (cln # "withheld" /\ cln' = "withheld") \/ (~broadcast /\ broadcast')
                           => locked \subseteq Leased
<1>1. Init => LeasedForCall
  BY DEF Init, FundingInit, LeasedForCall
<1>2. IInv /\ LeasedForCall /\ [Next]_vars => [LeasedThen]_vars
  <2> SUFFICES ASSUME IInv, LeasedForCall, [Next]_vars PROVE LeasedThen
    OBVIOUS
  <2>1. CASE UNCHANGED <<cln, broadcast>>
    BY <2>1
  <2>2. CASE Rpc
    BY <2>2 DEF Rpc, Applied, LeasedForCall, extVars
  <2>3. CASE Release
    BY <2>3 DEF Release, extVars
  <2>4. CASE FundingForgotten
    BY <2>4 DEF FundingForgotten
  <2> QED
    BY <2>1, <2>2, <2>3, <2>4, StepEffects
<1> QED
  BY <1>1, <1>2, InvariantHolds, LeasedNext, PTL DEF Spec, HandOffLeased
----------------------------------------------------------------------------
(***************************************************************************)
(* The accounting of the reservations, with the lemmas of FundingProofs on *)
(* the shared steps.                                                       *)
(***************************************************************************)
LEMMA LockAndTypes ==
  IInv => Typed(Actions) /\ LockHeld /\ WalletActions \subseteq Actions
  BY DEF IInv, TypeOK, OpRecords, Typed, Exclusive, LockHeld, WalletActions, Actions

LEMMA AccountedOutcome ==
  ASSUME IInv, Accounted("broadcast"),
         StartFailed \/ Started \/ Prepare \/ Confirm \/ Completed \/ CompleteFailed
           \/ SendFailed \/ Sent \/ Cancelled \/ CancelFailed \/ Rpc
  PROVE  Accounted("broadcast")'
<1>1. lc'.errors = lc.errors
  <2>1. lc \in Lifecycles
    BY DEF IInv, TypeOK
  <2> QED
    BY <2>1, ErrorsKept DEF StartFailed, Started, Prepare, Confirm, Completed, CompleteFailed,
       SendFailed, Sent, Cancelled, CancelFailed, Rpc
<1>2. /\ UNCHANGED <<lease, held, thr, rec, recoveryVars, locked, faults>>
      /\ pc \in Calls \union {"prep", "confirm"}
      /\ pc' \in Calls \union Renewals \union {"prep", "confirm", "cleanup"}
  BY DEF StartFailed, Started, Prepare, Confirm, Completed, CompleteFailed, SendFailed, Sent,
     Cancelled, CancelFailed, Rpc, Goto, Calls, Renewals, resVars, thrVars
<1>3. Elsewhere(pc) /\ Elsewhere(pc')
  BY <1>2 DEF Elsewhere, Locking, Ended, Calls, Renewals
<1> QED
  BY <1>1, <1>2, <1>3, LockAndTypes, AccountedAside DEF DiskHealthy

LEMMA AccountedNext ==
  ASSUME "own" \notin InterruptAt, IInv, Accounted("broadcast"), [Next]_vars
  PROVE  Accounted("broadcast")'
<1>0. Typed(Actions) /\ LockHeld
  BY LockAndTypes
<1>1. CASE Begin \/ Plan \/ LockNext \/ Reserve \/ Own \/ Arm
  BY <1>0, <1>1, AccountedBegin, AccountedLocking
<1>2. CASE Renew
  <2>1. PICK next \in {"start", "complete", "sendpsbt"} : RenewTo(next)
    BY <1>2 DEF Renew, Renewals
  <2>2. Elsewhere(pc) /\ Elsewhere(next)
    BY <1>2, <2>1 DEF Renew, Renewals, Elsewhere, Locking, Ended
  <2> QED
    BY <1>0, <2>1, <2>2, AccountedRenew
<1>3. CASE pc \in Calls /\ (CallBefore(CallPhase) \/ CallAfter(CallPhase))
  <2>1. Elsewhere(pc)
    BY <1>3 DEF Calls, Elsewhere, Locking, Ended
  <2> QED
    BY <1>0, <1>3, <2>1, AccountedCall
<1>4. CASE StartFailed \/ Started \/ Prepare \/ Confirm \/ Completed \/ CompleteFailed
             \/ SendFailed \/ Sent \/ Cancelled \/ CancelFailed \/ Rpc
  BY <1>4, AccountedOutcome
<1>5. CASE CleanupStep
  BY <1>0, <1>5, AccountedTidy, AccountedResolve DEF CleanupStep, Resolve
<1>6. CASE Interrupt
  <2>1. InterruptAt \intersect (Ended \union {"disown", "close", "resolve"}) = {}
    BY InterruptAssumption DEF TryBlock, Locking, Calls, Renewals, Ended
  <2> QED
    BY <1>0, <1>6, <2>1, AccountedInterrupt
<1>7. CASE Crash \/ RenewalWakes \/ RenewalSteps \/ Lapse(RenewedCalls) \/ Others
  BY <1>0, <1>7, AccountedCrash, AccountedBackground
<1>8. CASE FundingForgotten \/ UNCHANGED vars
  BY <1>8, AccountedStill DEF FundingForgotten, vars, fundingVars, resVars, thrVars, opVars
<1>9. CASE RecoverStep
  <2>1. Reconciles(CheckedStatus) /\ UNCHANGED <<opVars, faults>>
    BY <1>9 DEF RecoverStep, Reconciles
  <2> QED
    BY <1>0, <2>1, AccountedRecovery
<1> QED
  BY <1>1, <1>2, <1>3, <1>4, <1>5, <1>6, <1>7, <1>8, <1>9 DEF Next, OpStep, CallStep

LEMMA AccountedAlways ==
  ASSUME "own" \notin InterruptAt
  PROVE  Spec => []Accounted("broadcast")
<1>1. Init => Accounted("broadcast")
  BY AccountedInit DEF Init
<1>2. IInv /\ Accounted("broadcast") /\ [Next]_vars => Accounted("broadcast")'
  BY AccountedNext
<1> QED
  BY <1>1, <1>2, InvariantHolds, PTL DEF Spec

(***************************************************************************)
(* A crash at any point, whatever writes have failed, leaves a record that *)
(* has the owner token of everything still reserved.  The one exception is *)
(* an exception raised inside lock(), right after the wallet has reserved  *)
(* a coin.                                                                 *)
(***************************************************************************)
THEOREM LeasesJournaled ==
  ASSUME "own" \notin InterruptAt
  PROVE  Spec => []LeaseJournaled
<1>1. Accounted("broadcast") => LeaseJournaled
  BY DEF Accounted
<1> QED
  BY <1>1, AccountedAlways, PTL

(***************************************************************************)
(* While the journal can be written, a record is dropped only after the    *)
(* broadcast or with nothing reserved any more.                            *)
(***************************************************************************)
THEOREM RecordDroppedClean ==
  ASSUME "own" \notin InterruptAt
  PROVE  Spec => []ResolvedClean
<1>1. Accounted("broadcast") => ResolvedClean
  BY DEF Accounted, ResolvedClean
<1> QED
  BY <1>1, AccountedAlways, PTL
=============================================================================
