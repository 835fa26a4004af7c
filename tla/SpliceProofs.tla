--------------------------- MODULE SpliceProofs ---------------------------
(***************************************************************************)
(* Theorems about SpliceIn and about Splice, which is a splice-in or a     *)
(* splice-out, for every set of coins, every number of failing journal     *)
(* writes and every set of points where a splice-in is interrupted.        *)
(***************************************************************************)
EXTENDS Splice, FundingProofs

(***************************************************************************)
(* The inductive invariant behind KeepsPromise and HandOffRecorded.        *)
(***************************************************************************)

\* CLN has secured no commitments: nothing can be signed, nor broadcast.
Harmless == ~broadcast /\ cln \in {"none", "negotiating"}

\* The program points after a splice_init that went through.
Begun == {"renew_add", "add", "renew_update", "splice_update", "confirm", "renew_sign",
          "sign", "renew_signed", "splice_signed"}

\* Where the inputs may be given back: never once the splice has begun, except
\* by a recovery that found no inflight.
ReleaseSafe ==
  /\ lc.release => Harmless
  /\ rcv = "release" => Harmless
  /\ pc \in Begun => ~lc.release
  /\ pc \in {"release", "disown"} => lc.release
  /\ released # {} => pc \in CleaningUp \union {"done", "dead"}

\* What the operation has done by the time it is at each point.
Progress ==
  /\ broadcast => cln = "signed"
  /\ cln = "signed" => pc \in {"splice_signed", "cleanup", "close", "resolve", "done", "dead"}
  /\ pc \in {"renew_signed", "splice_signed"} => rec.txid

\* The phase of the operation at each point of the code.
Phased ==
  /\ pc \in {"idle"} \union Locking => lc.phase = "prestart"
  /\ pc \in {"renew_start", "splice_init"} => lc.phase = "locked"
  /\ pc \in {"renew_add", "add", "renew_update", "splice_update"} => lc.phase = "started"
  /\ pc \in {"confirm", "renew_sign", "sign", "renew_signed", "splice_signed"}
       => lc.phase = "updated"

\* A renewal leaves a lease of every input to the call that follows it.
LeasedForCall == pc \in Calls => locked \subseteq Leased

IInv ==
  /\ Typed(Actions) /\ pc \in Pcs /\ cln \in ClnStates
  /\ LockHeld /\ ReleaseSafe /\ Progress /\ HandOffRecorded /\ Phased /\ LeasedForCall

----------------------------------------------------------------------------
LEMMA ActionsOfWallet == WalletActions \subseteq Actions /\ Calls \subseteq Actions
  BY DEF WalletActions, Actions

LEMMA TypesOf == Typed(Actions) /\ pc \in Pcs /\ cln \in ClnStates => TypeOK
  BY DEF Typed, TypeOK

LEMMA InitIInv == Init => IInv
<1> SUFFICES ASSUME Init PROVE IInv
  OBVIOUS
<1> USE DEF Init, FundingInit, ReservationsInit, RecoveryInit
<1>1. Typed(Actions)
  <2>1. rec \in Records(Coins, Phases \union {"none"}, Actions) /\ lc \in Lifecycles
    BY NewRecords, LifecycleWrites, ActionsOfWallet
  <2>2. lease \in [Coins -> Holders] /\ faults \in 0..MaxDiskFaults
    BY FaultsAssumption DEF Holders
  <2> QED
    BY <2>1, <2>2 DEF Typed, ThreadStates, LockHolders, Stages, AtCoin
<1>2. pc \in Pcs /\ cln \in ClnStates
  BY DEF Pcs, Ended, ClnStates
<1>3. lc.release /\ lc.phase = "prestart" /\ ~rec.present /\ ~rec.txid
  BY LifecycleWrites, NewRecords, ActionsOfWallet
<1> QED
  BY <1>1, <1>2, <1>3 DEF IInv, LockHeld, ReleaseSafe, Progress, HandOffRecorded, Phased,
     LeasedForCall, Harmless, Live, Ended, Locking, Begun, Calls

(***************************************************************************)
(* Beginning, locking and renewing: the renewal before each call leaves    *)
(* the leases that the call needs.                                         *)
(***************************************************************************)
LEMMA PreparingIInv ==
  IInv /\ (Begin \/ SelectInputs \/ LockNext \/ Reserve \/ Own \/ Arm \/ SpliceRenew) => IInv'
<1> SUFFICES ASSUME IInv, Begin \/ SelectInputs \/ LockNext \/ Reserve \/ Own \/ Arm \/ SpliceRenew
             PROVE  IInv'
  OBVIOUS
<1>0. WalletActions \subseteq Actions /\ Typed(Actions)
  BY ActionsOfWallet DEF IInv
<1>p. Pcs = {"plan", "lock", "reserve", "own", "arm", "renew_start", "renew_add", "renew_update",
             "renew_sign", "renew_signed", "splice_init", "splice_update", "splice_signed",
             "add", "confirm", "sign", "idle", "done", "dead", "cleanup", "release", "disown",
             "close", "resolve"}
  BY DEF Pcs, TryBlock, Locking, SpliceRenewals, Calls, Ended, CleaningUp
<1> USE DEF IInv, LockHeld, ReleaseSafe, Progress, HandOffRecorded, Phased, LeasedForCall,
        Harmless, Live, Ended, Locking, Begun, Calls, CleaningUp, SameRecord, recoveryVars, extVars
<1>1. CASE Begin
  <2>1. /\ Typed(Actions)' /\ pc = "idle" /\ pc' = "plan" /\ flock = "none" /\ flock' = "op"
        /\ rec'.present /\ ~rec'.txid
        /\ UNCHANGED <<released, rcv, lc, signed, cln, broadcast>>
    BY <1>0, <1>1, BeginStep
  <2> QED
    BY <1>p, <2>1
<1>2. CASE SelectInputs \/ LockNext \/ Reserve \/ Own \/ Arm
  <2>1. /\ Typed(Actions)' /\ SameRecord
        /\ pc \in Locking /\ pc' \in Locking \union {"renew_start", "cleanup"}
        /\ pc' = "renew_start" => lc'.phase = "locked"
        /\ lc'.phase \in {lc.phase, "locked"} /\ lc'.release = lc.release
        /\ pc # "arm" => lc' = lc
        /\ UNCHANGED <<released, recoveryVars, signed, extVars>>
    BY <1>0, <1>2, LockingStep DEF SelectInputs
  <2>2. pc = "arm" => pc' \in {"renew_start", "cleanup"}
    BY <1>2 DEF SelectInputs, Plan, LockNext, Reserve, Own, Arm, Goto
  <2> QED
    BY <1>p, <2>1, <2>2
<1>3. CASE SpliceRenew
  <2>1. \E next \in {"splice_init", "add", "splice_update", "sign", "splice_signed"} :
          /\ RenewTo(next)
          /\ <<pc, next>> \in {<<"renew_start", "splice_init">>, <<"renew_add", "add">>,
                               <<"renew_update", "splice_update">>, <<"renew_sign", "sign">>,
                               <<"renew_signed", "splice_signed">>}
    BY <1>3 DEF SpliceRenew, SpliceRenewals
  <2>2. PICK next \in {"splice_init", "add", "splice_update", "sign", "splice_signed"} :
          /\ RenewTo(next)
          /\ <<pc, next>> \in {<<"renew_start", "splice_init">>, <<"renew_add", "add">>,
                               <<"renew_update", "splice_update">>, <<"renew_sign", "sign">>,
                               <<"renew_signed", "splice_signed">>}
    BY <2>1
  <2>3. next \notin AtCoin
    BY DEF AtCoin
  <2>4. /\ Typed(Actions)' /\ SameRecord /\ pc' \in {next, "cleanup"}
        /\ pc' = next /\ next # "cleanup" => locked' \subseteq Leased'
        /\ UNCHANGED <<released, recoveryVars, lc, signed, extVars>>
    BY <1>0, <2>2, <2>3, RenewStep
  <2> QED
    BY <1>p, <2>2, <2>4
<1> QED
  BY <1>1, <1>2, <1>3

(***************************************************************************)
(* The calls.  Only a splice_signed that follows the durable id and a      *)
(* renewal gives CLN the signature.                                        *)
(***************************************************************************)
LEMMA CallIInv ==
  IInv /\ ((pc \in Calls /\ (CallBefore(CallPhase) \/ CallAfter(CallPhase))) \/ Rpc) => IInv'
<1> SUFFICES ASSUME IInv, (pc \in Calls /\ (CallBefore(CallPhase) \/ CallAfter(CallPhase))) \/ Rpc
             PROVE  IInv'
  OBVIOUS
<1>0. WalletActions \subseteq Actions /\ Typed(Actions) /\ Calls \subseteq Actions
  BY ActionsOfWallet DEF IInv
<1>1. CASE pc \in Calls /\ (CallBefore(CallPhase) \/ CallAfter(CallPhase))
  <2>1. CallPhase \in Phases
    BY <1>1 DEF IInv, Typed, CallPhase, Calls, Phases, Lifecycles
  <2>2. /\ Typed(Actions)'
        /\ rec'.present = rec.present /\ (rec.txid => rec'.txid)
        /\ UNCHANGED <<released, recoveryVars, pc, lc, locked, lease, signed, extVars>>
    BY <1>0, <1>1, <2>1, CallStep1
  <2> QED
    BY <1>1, <2>2 DEF IInv, LockHeld, ReleaseSafe, Progress, HandOffRecorded, Phased,
       LeasedForCall, Harmless, Live, Leased, recoveryVars, extVars
<1>2. CASE Rpc
  <2>1. Typed(Actions)'
    BY <1>0, <1>2 DEF Rpc, Typed, resVars, thrVars, recoveryVars, Stages
  <2>2. /\ pc \in Calls
        /\ \/ UNCHANGED cln
           \/ pc = "splice_init" /\ cln = "none" /\ cln' = "negotiating"
           \/ pc = "splice_update" /\ cln \in {"negotiating", "committed"}
              /\ cln' \in {"negotiating", "committed"}
           \/ pc = "splice_signed" /\ cln = "committed" /\ cln' = "signed"
        /\ UNCHANGED <<released, lease, rec, recoveryVars, pc, lc, locked, signed, broadcast>>
    BY <1>2 DEF Rpc, Applied, resVars
  <2>3. cln' \in ClnStates
    BY <2>2 DEF IInv, ClnStates
  <2>4. flock = "op" /\ rcv = "off" /\ rec.present
    BY <2>2 DEF IInv, LockHeld, Live, Ended, Calls
  <2> QED
    BY <2>1, <2>2, <2>3, <2>4 DEF IInv, LockHeld, ReleaseSafe, Progress, HandOffRecorded, Phased,
       LeasedForCall, Harmless, Live, Leased, recoveryVars, Calls, Begun
<1> QED
  BY <1>1, <1>2

LEMMA OutcomeIInv ==
  IInv /\ (InitFailed \/ InitDone \/ AddInputs \/ UpdateFailed \/ Updated \/ Confirm \/ Sign
             \/ SignedFailed \/ Accepted) => IInv'
<1> SUFFICES ASSUME IInv, InitFailed \/ InitDone \/ AddInputs \/ UpdateFailed \/ Updated
                            \/ Confirm \/ Sign \/ SignedFailed \/ Accepted
             PROVE  IInv'
  OBVIOUS
<1>0. /\ lc \in Lifecycles /\ rec \in Records(Coins, Phases \union {"none"}, Actions)
      /\ Typed(Actions) /\ pc \in Pcs /\ cln \in ClnStates
      /\ {"started", "updated", "signed"} \subseteq Phases
  BY DEF IInv, Typed, Phases
<1>l. /\ ~KeepLocks(lc).release /\ KeepLocks(lc).phase = lc.phase /\ KeepLocks(lc) \in Lifecycles
      /\ \A p \in {"started", "updated", "signed"} :
           /\ ~KeepLocks(Transition(lc, p)).release /\ KeepLocks(Transition(lc, p)).phase = p
           /\ KeepLocks(Transition(lc, p)) \in Lifecycles
           /\ Transition(lc, p).release = lc.release /\ Transition(lc, p).phase = p
           /\ Transition(lc, p) \in Lifecycles
  BY <1>0, LifecycleWrites
<1> DEFINE Sound(points) ==
             /\ pc' \in points /\ stage' = "before"
             /\ UNCHANGED <<resVars, recoveryVars, cur, wanted, locked, extVars>>
<1>t. ASSUME NEW points, Sound(points), points \subseteq Pcs \ AtCoin, lc' \in Lifecycles,
             signed' \in BOOLEAN, UNCHANGED faults
      PROVE  Typed(Actions)' /\ pc' \in Pcs /\ cln' \in ClnStates
  BY <1>0, <1>t DEF Typed, resVars, thrVars, recoveryVars, extVars, Stages
<1>p. {"renew_add", "renew_update", "confirm", "renew_sign", "renew_signed", "cleanup"}
        \subseteq Pcs \ AtCoin
  BY DEF Pcs, TryBlock, SpliceRenewals, CleaningUp, AtCoin
<1>1. CASE InitFailed \/ InitDone
  <2>1. /\ pc = "splice_init" /\ Sound({"renew_add", "cleanup"})
        /\ UNCHANGED <<signed, faults>>
        /\ ~lc'.release /\ lc' \in Lifecycles
        /\ \/ lc'.phase = lc.phase /\ pc' = "cleanup"
           \/ lc'.phase = "started"
    BY <1>l, <1>1 DEF InitFailed, InitDone, Step, Goto
  <2>2. Typed(Actions)' /\ pc' \in Pcs /\ cln' \in ClnStates
    BY <1>0, <1>t, <1>p, <2>1 DEF Typed
  <2> QED
    BY <2>1, <2>2 DEF IInv, LockHeld, ReleaseSafe, Progress, HandOffRecorded, Phased,
       LeasedForCall, Harmless, Live, Ended, Begun, Calls, Locking, CleaningUp, resVars,
       recoveryVars, extVars
<1>2. CASE AddInputs \/ Confirm \/ UpdateFailed \/ SignedFailed
  <2>1. /\ \/ pc = "add" /\ pc' \in {"renew_update", "cleanup"}
           \/ pc = "confirm" /\ pc' \in {"renew_sign", "cleanup"}
           \/ pc \in {"splice_update", "splice_signed"} /\ pc' = "cleanup"
        /\ Sound({"renew_update", "renew_sign", "cleanup"})
        /\ UNCHANGED <<lc, signed, faults>>
    BY <1>2 DEF AddInputs, Confirm, UpdateFailed, SignedFailed, Step, Goto
  <2>2. Typed(Actions)' /\ pc' \in Pcs /\ cln' \in ClnStates
    BY <1>0, <1>t, <1>p, <2>1 DEF Typed
  <2> QED
    BY <2>1, <2>2 DEF IInv, LockHeld, ReleaseSafe, Progress, HandOffRecorded, Phased,
       LeasedForCall, Harmless, Live, Ended, Begun, Calls, Locking, CleaningUp, resVars,
       recoveryVars, extVars
<1>3. CASE Updated
  <2>1. /\ pc = "splice_update" /\ Sound({"renew_update", "confirm"})
        /\ UNCHANGED <<signed, faults>>
        /\ lc'.release = lc.release /\ lc' \in Lifecycles
        /\ \/ lc'.phase = "updated" /\ pc' = "confirm"
           \/ lc'.phase = "started" /\ pc' = "renew_update"
    BY <1>l, <1>3 DEF Updated, Step, Goto
  <2>2. Typed(Actions)' /\ pc' \in Pcs /\ cln' \in ClnStates
    BY <1>0, <1>t, <1>p, <2>1 DEF Typed
  <2> QED
    BY <2>1, <2>2 DEF IInv, LockHeld, ReleaseSafe, Progress, HandOffRecorded, Phased,
       LeasedForCall, Harmless, Live, Ended, Begun, Calls, Locking, CleaningUp, resVars,
       recoveryVars, extVars
<1>4. CASE Sign
  <2>1. /\ rec' \in Records(Coins, Phases \union {"none"}, Actions)
        /\ rec'.present = rec.present /\ (rec.txid => rec'.txid)
        /\ pc' = "renew_signed" => rec'.txid
    <3>1. rec' = rec \/ rec' = [rec EXCEPT !.txid = TRUE]
      BY <1>4 DEF Sign
    <3>2. pc' = "renew_signed" => rec' = [rec EXCEPT !.txid = TRUE]
      BY <1>4 DEF Sign, Goto
    <3>3. LET r == [rec EXCEPT !.txid = TRUE]
          IN  r \in Records(Coins, Phases \union {"none"}, Actions)
              /\ r.present = rec.present /\ r.txid
      BY <1>0 DEF Records
    <3> QED
      BY <1>0, <3>1, <3>2, <3>3
  <2>2. /\ pc = "sign" /\ pc' \in {"renew_signed", "cleanup"} /\ stage' = "before"
        /\ signed' \in BOOLEAN /\ faults' \in 0..MaxDiskFaults
        /\ UNCHANGED <<lease, held, released, thrVars, recoveryVars, cur, lc, wanted, locked, extVars>>
    <3>1. faults \in 0..MaxDiskFaults /\ signed \in BOOLEAN
      BY <1>0 DEF Typed
    <3>2. faults' \in 0..MaxDiskFaults
      BY <1>4, <3>1, FaultsAssumption DEF Sign, DiskFault
    <3>3. signed' \in BOOLEAN
      BY <1>4, <3>1 DEF Sign
    <3>4. /\ pc = "sign" /\ pc' \in {"renew_signed", "cleanup"} /\ stage' = "before"
          /\ UNCHANGED <<lease, held, released, thrVars, recoveryVars, cur, lc, wanted,
                         locked, extVars>>
      BY <1>4 DEF Sign, Goto
    <3> QED
      BY <3>2, <3>3, <3>4
  <2>3. Typed(Actions)' /\ pc' \in Pcs /\ cln' \in ClnStates
    BY <1>0, <1>p, <2>1, <2>2 DEF Typed, thrVars, recoveryVars, extVars, Stages, AtCoin
  <2> QED
    BY <2>1, <2>2, <2>3 DEF IInv, LockHeld, ReleaseSafe, Progress, HandOffRecorded, Phased,
       LeasedForCall, Harmless, Live, Ended, Begun, Calls, Locking, CleaningUp, thrVars,
       recoveryVars, extVars
<1>5. CASE Accepted
  <2>1. /\ pc = "splice_signed" /\ Sound({"cleanup"}) /\ UNCHANGED <<signed, faults>>
        /\ ~lc'.release /\ lc' \in Lifecycles /\ lc'.phase = "signed"
    BY <1>l, <1>5 DEF Accepted, Step, Goto
  <2>2. Typed(Actions)' /\ pc' \in Pcs /\ cln' \in ClnStates
    BY <1>0, <1>t, <1>p, <2>1 DEF Typed
  <2> QED
    BY <2>1, <2>2 DEF IInv, LockHeld, ReleaseSafe, Progress, HandOffRecorded, Phased,
       LeasedForCall, Harmless, Live, Ended, Begun, Calls, Locking, CleaningUp, resVars,
       recoveryVars, extVars
<1> QED
  BY <1>1, <1>2, <1>3, <1>4, <1>5

(***************************************************************************)
(* The finally block.                                                      *)
(***************************************************************************)
LEMMA FinishIInv == IInv /\ Finish => IInv'
<1> SUFFICES ASSUME IInv, Finish PROVE IInv'
  OBVIOUS
<1>0. WalletActions \subseteq Actions /\ Typed(Actions)
  BY ActionsOfWallet DEF IInv
<1>p. CleaningUp \union {"done"} \subseteq Pcs
  BY DEF Pcs, CleaningUp, Ended
<1> USE DEF IInv, LockHeld, ReleaseSafe, Progress, HandOffRecorded, Phased, LeasedForCall,
        Harmless, Live, Ended, Locking, Begun, Calls, CleaningUp, SameRecord, SameLocks,
        recoveryVars, extVars
<1>1. CASE TidyUp
  <2>1. /\ Typed(Actions)' /\ SameRecord /\ SameLocks
        /\ pc \in CleaningUp /\ pc' \in CleaningUp
        /\ pc' \in {"release", "disown"} => lc.release \/ pc \in {"release", "disown"}
        /\ UNCHANGED <<recoveryVars, signed, extVars>>
    BY <1>0, <1>1, TidyStep
  <2> QED
    BY <1>p, <2>1
<1>2. CASE ResolveAt("signed")
  <2>1. /\ Typed(Actions)' /\ pc = "resolve" /\ pc' = "done" /\ flock' = "none"
        /\ \/ SameRecord
           \/ ~rec'.present /\ ~rec'.txid /\ (lc.release \/ lc.phase = "signed")
        /\ UNCHANGED <<released, rcv, lc, signed, extVars>>
    BY <1>0, <1>2, ResolveStep
  <2> QED
    BY <1>p, <2>1
<1> QED
  BY <1>1, <1>2 DEF Finish

(***************************************************************************)
(* Interrupts, crashes, the renewal thread, CLN and the other users.       *)
(***************************************************************************)
LEMMA EnvironmentIInv ==
  IInv /\ (Interrupt \/ Crash \/ RenewalWakes \/ RenewalSteps \/ Lapse(Calls) \/ Others
             \/ SpliceForgotten \/ SpliceSent) => IInv'
<1> SUFFICES ASSUME IInv, Interrupt \/ Crash \/ RenewalWakes \/ RenewalSteps \/ Lapse(Calls)
                            \/ Others \/ SpliceForgotten \/ SpliceSent
             PROVE  IInv'
  OBVIOUS
<1>0. WalletActions \subseteq Actions /\ Typed(Actions)
  BY ActionsOfWallet DEF IInv
<1>p. "cleanup" \in Pcs /\ "dead" \in Pcs
  BY DEF Pcs, CleaningUp, Ended
<1> USE DEF IInv, LockHeld, ReleaseSafe, Progress, HandOffRecorded, Phased, LeasedForCall,
        Harmless, Live, Ended, Locking, Begun, Calls, CleaningUp, SameRecord, recoveryVars, extVars
<1>1. CASE Interrupt
  <2>1. /\ Typed(Actions)' /\ SameRecord /\ pc \in TryBlock /\ pc' = "cleanup"
        /\ UNCHANGED <<released, recoveryVars, lc, signed, extVars>>
    BY <1>0, <1>1, InterruptStep, InterruptAssumption
  <2> QED
    BY <1>p, <2>1 DEF TryBlock, SpliceRenewals
<1>2. CASE Crash
  <2>1. /\ Typed(Actions)' /\ SameRecord /\ Live /\ pc' = "dead" /\ flock' = "none"
        /\ UNCHANGED <<released, rcv, lc, signed, extVars>>
    BY <1>0, <1>2, CrashStep
  <2> QED
    BY <1>p, <2>1
<1>3. CASE RenewalWakes \/ RenewalSteps \/ Lapse(Calls) \/ Others
  <2>1. /\ Typed(Actions)' /\ SameRecord
        /\ Live /\ pc \in Calls => Leased \subseteq Leased'
        /\ UNCHANGED <<released, recoveryVars, opVars, extVars>>
    BY <1>0, <1>3, BackgroundStep
  <2>2. UNCHANGED <<pc, stage, lc, locked, signed>>
    BY <2>1 DEF opVars
  <2> QED
    BY <2>1, <2>2
<1>4. CASE SpliceForgotten
  <2>1. /\ UNCHANGED <<resVars, recoveryVars, opVars, broadcast, faults>>
        /\ cln \in {"negotiating", "committed"} /\ cln' = "none"
    BY <1>4 DEF SpliceForgotten
  <2>2. Typed(Actions)' /\ cln' \in ClnStates
    BY <2>1 DEF Typed, resVars, thrVars, opVars, ClnStates
  <2>3. UNCHANGED <<released, lease, rec, recoveryVars, pc, lc, locked, broadcast>>
    BY <2>1 DEF resVars, opVars
  <2> QED
    BY <2>1, <2>2, <2>3 DEF Leased
<1>5. CASE SpliceSent
  <2>1. /\ UNCHANGED <<resVars, recoveryVars, opVars, cln, faults>>
        /\ cln = "signed" /\ broadcast' = TRUE
    BY <1>5 DEF SpliceSent
  <2>2. Typed(Actions)'
    BY <2>1 DEF Typed, resVars, thrVars, opVars
  <2>3. UNCHANGED <<released, lease, rec, recoveryVars, pc, lc, locked, cln>>
    BY <2>1 DEF resVars, opVars
  <2> QED
    BY <2>1, <2>2, <2>3 DEF Leased
<1> QED
  BY <1>1, <1>2, <1>3, <1>4, <1>5

(***************************************************************************)
(* Recovery gives inputs back only when the channel has no inflight and    *)
(* the splice has not been broadcast.                                      *)
(***************************************************************************)
LEMMA RecoverIInv == IInv /\ RecoverStep => IInv'
<1> SUFFICES ASSUME IInv, RecoverStep PROVE IInv'
  OBVIOUS
<1>0. WalletActions \subseteq Actions /\ Typed(Actions) /\ cln \in ClnStates
  BY ActionsOfWallet DEF IInv
<1>1. Reconciles(SpliceStatus) /\ UNCHANGED <<opVars, extVars, faults>>
  BY DEF RecoverStep, Reconciles
<1>2. UNCHANGED <<pc, stage, lc, locked, signed, cln, broadcast>>
  BY <1>1 DEF opVars, extVars
<1>3. "ABSENT" \in SpliceStatus => Harmless
  BY <1>0 DEF SpliceStatus, Harmless, ClnStates
<1> DEFINE Checks ==
             /\ rcv \in {"off", "check"} \/ flock = "none"
             /\ \/ flock = "none" /\ rec.present /\ flock' = "recovery" /\ rcv' = "check"
                \/ /\ rcv = "check" /\ rcv' = "release" /\ UNCHANGED flock
                   /\ "ABSENT" \in SpliceStatus /\ (rec.txid => ~broadcast)
                \/ rcv # "off" /\ rcv' = "off" /\ flock' = "none"
             /\ SameRecord /\ UNCHANGED released
           Releases ==
             /\ rcv = "release" /\ released \subseteq released'
             /\ \/ UNCHANGED <<flock, rcv>> /\ SameRecord
                \/ flock' = "none" /\ rcv' = "off" /\ SameRecord /\ UNCHANGED released
                \/ /\ flock' = "none" /\ rcv' = "off"
                   /\ ~rec'.present /\ ~rec'.txid /\ UNCHANGED released
<1>4. Typed(Actions)' /\ (Checks \/ Releases)
  BY <1>0, <1>1, RecoverySteps
<1>5. flock = "op" => ~Checks /\ ~Releases
  BY DEF IInv, LockHeld
<1>6. pc \in {"idle", "done", "dead"} /\ (pc = "idle" => ~rec.present)
  BY <1>4, <1>5 DEF IInv, LockHeld, Live, Ended
<1> QED
  BY <1>0, <1>2, <1>3, <1>4, <1>6 DEF IInv, LockHeld, ReleaseSafe, Progress, HandOffRecorded,
     Phased, LeasedForCall, Harmless, Live, Ended, Locking, Begun, Calls, CleaningUp, SameRecord

LEMMA IInvNext == IInv /\ [Next]_vars => IInv'
<1> SUFFICES ASSUME IInv, [Next]_vars PROVE IInv'
  OBVIOUS
<1>1. CASE Next
  BY <1>1, PreparingIInv, CallIInv, OutcomeIInv, FinishIInv, EnvironmentIInv, RecoverIInv
     DEF Next, OpStep, CallStep
<1>2. CASE UNCHANGED vars
  BY <1>2 DEF vars, fundingVars, resVars, thrVars, recoveryVars, opVars, extVars, IInv, Typed,
     LockHeld, ReleaseSafe, Progress, HandOffRecorded, Phased, LeasedForCall, Harmless, Live,
     Leased
<1> QED
  BY <1>1, <1>2

(***************************************************************************)
(* The inductive invariant holds, through every failure and interleaving.  *)
(***************************************************************************)
THEOREM InvariantHolds == Spec => []IInv
  BY InitIInv, IInvNext, PTL DEF Spec

\* Type correctness.
THEOREM TypeCorrect == Spec => []TypeOK
<1>1. IInv => TypeOK
  BY TypesOf DEF IInv
<1> QED
  BY <1>1, InvariantHolds, PTL

(***************************************************************************)
(* CLN holds our signature only while the id of the transaction is         *)
(* durable, or success has been reported (splice.py:663).                  *)
(***************************************************************************)
THEOREM IdRecorded == Spec => []HandOffRecorded
<1>1. IInv => HandOffRecorded
  BY DEF IInv
<1> QED
  BY <1>1, InvariantHolds, PTL

----------------------------------------------------------------------------
(***************************************************************************)
(* What each step may do to the splice and to the inputs.                  *)
(***************************************************************************)
LEMMA StepEffects ==
  ASSUME IInv, [Next]_vars
  PROVE  \/ UNCHANGED <<released, cln, broadcast>>
         \/ Rpc
         \/ pc = "release" /\ UNCHANGED <<cln, broadcast>> /\ released \subseteq released'
         \/ SpliceForgotten \/ SpliceSent
         \/ rcv = "release" /\ UNCHANGED <<cln, broadcast>> /\ released \subseteq released'
<1>0. WalletActions \subseteq Actions /\ Typed(Actions)
  BY ActionsOfWallet DEF IInv
<1> USE DEF resVars, thrVars, recoveryVars, opVars, extVars
<1>1. CASE Begin \/ SelectInputs \/ LockNext \/ Reserve \/ Own \/ Arm \/ SpliceRenew
  BY <1>1 DEF Begin, SelectInputs, Plan, LockNext, Reserve, Own, Arm, SpliceRenew, RenewTo
<1>2. CASE pc \in Calls /\ (CallBefore(CallPhase) \/ CallAfter(CallPhase))
  BY <1>2 DEF CallBefore, CallAfter
<1>3. CASE InitFailed \/ InitDone \/ AddInputs \/ UpdateFailed \/ Updated \/ Confirm \/ Sign
             \/ SignedFailed \/ Accepted
  BY <1>3 DEF InitFailed, InitDone, AddInputs, UpdateFailed, Updated, Confirm, Sign,
     SignedFailed, Accepted, Step
<1>4. CASE Finish
  <2>1. CASE TidyUp
    BY <1>0, <2>1, TidyStep
  <2>2. CASE ResolveAt("signed")
    BY <2>2 DEF ResolveAt
  <2> QED
    BY <1>4, <2>1, <2>2 DEF Finish
<1>5. CASE Interrupt \/ Crash
  BY <1>5 DEF Interrupt, Crash, AdapterLost
<1>6. CASE RenewalWakes \/ RenewalSteps \/ Lapse(Calls) \/ Others
  BY <1>0, <1>6, BackgroundStep
<1>7. CASE RecoverStep
  <2>1. Reconciles(SpliceStatus) /\ UNCHANGED <<opVars, extVars, faults>>
    BY <1>7 DEF RecoverStep, Reconciles
  <2>2. UNCHANGED released \/ (rcv = "release" /\ released \subseteq released')
    BY <1>0, <2>1, RecoverySteps
  <2> QED
    BY <2>1, <2>2
<1>8. CASE UNCHANGED vars
  BY <1>8 DEF vars, fundingVars
<1> QED
  BY <1>1, <1>2, <1>3, <1>4, <1>5, <1>6, <1>7, <1>8 DEF Next, OpStep, CallStep

(***************************************************************************)
(* The operation and recovery keep the promise about the inputs: each step *)
(* is a step of InputPromise or leaves its two variables alone.            *)
(***************************************************************************)
PromisedFunding == IF cln = "signed" THEN "sent"
                   ELSE IF cln = "committed" THEN "withheld" ELSE "none"

GivenBack == released # {}

LEMMA StepKeepsPromise ==
  ASSUME IInv, [Next]_vars
  PROVE  [Promise!Next]_<<PromisedFunding, GivenBack>>
<1> USE DEF PromisedFunding, GivenBack, Promise!Next, Promise!HandOver, Promise!Send,
        Promise!Withdraw, Promise!GiveBack
<1>1. CASE UNCHANGED <<released, cln, broadcast>>
  BY <1>1
<1>2. CASE Rpc
  <2>1. /\ pc \in Calls /\ UNCHANGED released
        /\ \/ UNCHANGED cln
           \/ cln = "none" /\ cln' = "negotiating"
           \/ cln = "negotiating" /\ cln' \in {"negotiating", "committed"}
           \/ cln = "committed" /\ cln' \in {"committed", "signed"}
    BY <1>2 DEF Rpc, Applied, resVars
  <2>2. released = {}
    BY <2>1 DEF IInv, ReleaseSafe, Calls, CleaningUp
  <2> QED
    BY <2>1, <2>2
<1>3. CASE SpliceForgotten
  BY <1>3 DEF SpliceForgotten, resVars
<1>4. CASE SpliceSent
  BY <1>4 DEF SpliceSent, resVars
<1>5. CASE /\ pc = "release" \/ rcv = "release"
           /\ UNCHANGED <<cln, broadcast>> /\ released \subseteq released'
  <2>1. PromisedFunding = "none" /\ UNCHANGED PromisedFunding
    BY <1>5 DEF IInv, ReleaseSafe, Harmless
  <2>2. GivenBack => GivenBack'
    BY <1>5
  <2> QED
    BY <2>1, <2>2
<1> QED
  BY <1>1, <1>2, <1>3, <1>4, <1>5, StepEffects

\* A splice-in with any recovery after it implements InputPromise, from the
\* secured commitments on.
THEOREM PromiseKept == Spec => KeepsPromise
<1>1. Init => Promise!Init
  BY DEF Init, FundingInit, ReservationsInit, Promise!Init
<1>2. IInv /\ [Next]_vars => [Promise!Next]_<<PromisedFunding, GivenBack>>
  BY StepKeepsPromise
<1> QED
  BY <1>1, <1>2, InvariantHolds, PTL DEF Spec, KeepsPromise, Promise!Spec, PromisedFunding, GivenBack

(***************************************************************************)
(* Our signature reaches CLN only while every input is still reserved      *)
(* (the renewal before splice_signed).                                     *)
(***************************************************************************)
LEMMA StepLeased ==
  ASSUME IInv, [Next]_vars
  PROVE  cln # "signed" /\ cln' = "signed" => locked \subseteq Leased
<1>1. CASE Rpc
  BY <1>1 DEF Rpc, IInv, LeasedForCall
<1>2. CASE SpliceForgotten \/ SpliceSent
  BY <1>2 DEF SpliceForgotten, SpliceSent
<1> QED
  BY <1>1, <1>2, StepEffects

\* So it is of a splice-in, however the renewal thread and the other users of
\* the wallet interleave with it.
THEOREM InputsLeased == Spec => HandOffLeased
<1> DEFINE LeasedThen == cln # "signed" /\ cln' = "signed" => locked \subseteq Leased
<1>1. IInv /\ [Next]_vars => [LeasedThen]_vars
  BY StepLeased
<1> QED
  BY <1>1, InvariantHolds, PTL DEF Spec, HandOffLeased

(***************************************************************************)
(* The update loop asks OperationLifecycle for no transition it would      *)
(* refuse (lifecycle.py:44-88).                                            *)
(***************************************************************************)
LEMMA PhaseMoves ==
  ASSUME IInv, [Next]_vars
  PROVE  \/ lc'.phase = lc.phase
         \/ lc.phase = "prestart" /\ lc'.phase = "locked"
         \/ lc.phase = "locked" /\ lc'.phase = "started"
         \/ lc.phase = "started" /\ lc'.phase = "updated"
         \/ lc.phase = "updated" /\ lc'.phase = "signed"
<1>0. /\ WalletActions \subseteq Actions /\ Typed(Actions) /\ lc \in Lifecycles
      /\ {"started", "updated", "signed"} \subseteq Phases
  BY ActionsOfWallet DEF IInv, Typed, Phases
<1>1. CASE SelectInputs \/ LockNext \/ Reserve \/ Own \/ Arm
  <2>1. lc'.phase \in {lc.phase, "locked"} /\ pc \in Locking
    BY <1>0, <1>1, LockingStep DEF SelectInputs
  <2> QED
    BY <2>1 DEF IInv, Phased
<1>2. CASE InitFailed \/ InitDone \/ Updated \/ Accepted
  <2>1. /\ KeepLocks(lc).phase = lc.phase
        /\ KeepLocks(Transition(lc, "started")).phase = "started"
        /\ Transition(lc, "updated").phase = "updated"
        /\ Transition(lc, "started").phase = "started"
        /\ KeepLocks(Transition(lc, "signed")).phase = "signed"
    BY <1>0, LifecycleWrites
  <2>2. \/ pc = "splice_init" /\ lc'.phase \in {lc.phase, "started"}
        \/ pc = "splice_update" /\ lc'.phase \in {"updated", "started"}
        \/ pc = "splice_signed" /\ lc'.phase = "signed"
    BY <1>2, <2>1 DEF InitFailed, InitDone, Updated, Accepted
  <2> QED
    BY <2>2 DEF IInv, Phased
<1>3. CASE Finish
  <2>1. CASE TidyUp
    BY <1>0, <2>1, TidyStep DEF SameLocks
  <2>2. CASE ResolveAt("signed")
    BY <2>2 DEF ResolveAt
  <2> QED
    BY <1>3, <2>1, <2>2 DEF Finish
<1>4. CASE RenewalWakes \/ RenewalSteps \/ Lapse(Calls) \/ Others \/ RecoverStep
             \/ SpliceForgotten \/ SpliceSent
  <2>1. UNCHANGED opVars
    BY <1>4 DEF RenewalWakes, RenewalSteps, Lapse, Others, RecoverStep, SpliceForgotten,
       SpliceSent
  <2> QED
    BY <2>1 DEF opVars
<1>5. CASE \/ Begin \/ SpliceRenew \/ AddInputs \/ UpdateFailed \/ Confirm \/ Sign
           \/ SignedFailed \/ Interrupt \/ Crash \/ Rpc
           \/ pc \in Calls /\ (CallBefore(CallPhase) \/ CallAfter(CallPhase))
           \/ UNCHANGED vars
  BY <1>5 DEF Begin, SpliceRenew, RenewTo, AddInputs, UpdateFailed, Confirm, Sign, SignedFailed,
     Interrupt, Crash, Rpc, CallBefore, CallAfter, vars, fundingVars, opVars
<1> QED
  BY <1>1, <1>2, <1>3, <1>4, <1>5 DEF Next, OpStep, CallStep

THEOREM TransitionsAllowed == Spec => LifecycleLegal
<1>1. IInv /\ [Next]_vars
        => [lc'.phase # lc.phase => lc'.phase \in AllowedTransitions[lc.phase]]_vars
  <2> SUFFICES ASSUME IInv, [Next]_vars
               PROVE  lc'.phase # lc.phase => lc'.phase \in AllowedTransitions[lc.phase]
    OBVIOUS
  <2> QED
    BY PhaseMoves DEF AllowedTransitions, Phases
<1> QED
  BY <1>1, InvariantHolds, PTL DEF Spec, LifecycleLegal
----------------------------------------------------------------------------
(***************************************************************************)
(* Splice-in: what is reserved, and what the record and the operation know *)
(* of it (FundingProofs).                                                  *)
(***************************************************************************)
LEMMA AccountedOutcome ==
  ASSUME IInv, Accounted("signed"),
         InitFailed \/ InitDone \/ AddInputs \/ UpdateFailed \/ Updated \/ Confirm \/ Sign
           \/ SignedFailed \/ Accepted \/ Rpc
  PROVE  Accounted("signed")'
<1>0. lc \in Lifecycles /\ rec \in Records(Coins, Phases \union {"none"}, Actions)
      /\ faults \in 0..MaxDiskFaults
  BY DEF IInv, Typed
<1>1. lc'.errors = lc.errors
  BY <1>0, ErrorsKept DEF InitFailed, InitDone, AddInputs, UpdateFailed, Updated, Confirm, Sign,
     SignedFailed, Accepted, Rpc
<1>2. rec'.present = rec.present /\ rec'.owners = rec.owners
  <2>1. rec' = rec \/ rec' = [rec EXCEPT !.txid = TRUE]
    BY DEF InitFailed, InitDone, AddInputs, UpdateFailed, Updated, Confirm, Sign, SignedFailed,
       Accepted, Rpc, Step, resVars
  <2> QED
    BY <1>0, <2>1 DEF Records
<1>3. /\ UNCHANGED <<lease, held, thr, recoveryVars, locked>>
      /\ pc \in Calls \union {"add", "confirm", "sign"}
      /\ pc' \in Calls \union SpliceRenewals \union {"cleanup", "confirm"}
  BY DEF InitFailed, InitDone, AddInputs, UpdateFailed, Updated, Confirm, Sign, SignedFailed,
     Accepted, Rpc, Step, Goto, Calls, SpliceRenewals, resVars, thrVars
<1>4. Elsewhere(pc) /\ Elsewhere(pc')
  BY <1>3 DEF Elsewhere, Locking, Ended, Calls, SpliceRenewals
<1>5. DiskHealthy' => DiskHealthy
  BY <1>0, FaultsAssumption DEF InitFailed, InitDone, AddInputs, UpdateFailed, Updated, Confirm,
     Sign, SignedFailed, Accepted, Rpc, DiskHealthy, DiskFault
<1>6. LockHeld
  BY DEF IInv
<1> QED
  BY <1>1, <1>2, <1>3, <1>4, <1>5, <1>6, AccountedAside

LEMMA AccountedNext ==
  ASSUME "own" \notin InterruptAt, IInv, Accounted("signed"), [Next]_vars
  PROVE  Accounted("signed")'
<1>0. Typed(Actions) /\ LockHeld
  BY DEF IInv
<1>1. CASE Begin \/ SelectInputs \/ LockNext \/ Reserve \/ Own \/ Arm
  BY <1>0, <1>1, AccountedBegin, AccountedLocking DEF SelectInputs
<1>2. CASE SpliceRenew
  <2>1. PICK next \in {"splice_init", "add", "splice_update", "sign", "splice_signed"} :
          RenewTo(next)
    BY <1>2 DEF SpliceRenew, SpliceRenewals
  <2>2. Elsewhere(pc) /\ Elsewhere(next)
    BY <1>2, <2>1 DEF SpliceRenew, SpliceRenewals, Elsewhere, Locking, Ended
  <2> QED
    BY <1>0, <2>1, <2>2, AccountedRenew
<1>3. CASE pc \in Calls /\ (CallBefore(CallPhase) \/ CallAfter(CallPhase))
  <2>1. Elsewhere(pc)
    BY <1>3 DEF Calls, Elsewhere, Locking, Ended
  <2> QED
    BY <1>0, <1>3, <2>1, AccountedCall
<1>4. CASE InitFailed \/ InitDone \/ AddInputs \/ UpdateFailed \/ Updated \/ Confirm \/ Sign
             \/ SignedFailed \/ Accepted \/ Rpc
  BY <1>4, AccountedOutcome
<1>5. CASE Finish
  BY <1>0, <1>5, AccountedTidy, AccountedResolve DEF Finish
<1>6. CASE Interrupt
  <2>1. InterruptAt \intersect (Ended \union {"disown", "close", "resolve"}) = {}
    BY InterruptAssumption DEF TryBlock, Locking, Calls, SpliceRenewals, Ended
  <2> QED
    BY <1>0, <1>6, <2>1, AccountedInterrupt
<1>7. CASE Crash \/ RenewalWakes \/ RenewalSteps \/ Lapse(Calls) \/ Others
  BY <1>0, <1>7, AccountedCrash, AccountedBackground
<1>8. CASE SpliceForgotten \/ SpliceSent \/ UNCHANGED vars
  BY <1>8, AccountedStill DEF SpliceForgotten, SpliceSent, vars, fundingVars, resVars, thrVars,
     opVars
<1>9. CASE RecoverStep
  <2>1. Reconciles(SpliceStatus) /\ UNCHANGED <<opVars, faults>>
    BY <1>9 DEF RecoverStep, Reconciles
  <2> QED
    BY <1>0, <2>1, AccountedRecovery
<1> QED
  BY <1>1, <1>2, <1>3, <1>4, <1>5, <1>6, <1>7, <1>8, <1>9 DEF Next, OpStep, CallStep

(***************************************************************************)
(* A crash of a splice-in at any point leaves a record that has the owner  *)
(* token of every input still reserved; and while the journal can be       *)
(* written, a record is dropped only at SIGNED or with nothing reserved.   *)
(* The exception is an interrupt inside lock(), between the reservation    *)
(* and the list of locked coins.                                           *)
(***************************************************************************)
THEOREM LeasesJournaled ==
  ASSUME "own" \notin InterruptAt
  PROVE  Spec => [](LeaseJournaled /\ ResolvedCleanAt("signed"))
<1>1. Init => Accounted("signed")
  BY AccountedInit DEF Init
<1>2. IInv /\ Accounted("signed") /\ [Next]_vars => Accounted("signed")'
  BY AccountedNext
<1>3. Accounted("signed") => LeaseJournaled /\ ResolvedCleanAt("signed")
  BY DEF Accounted
<1> QED
  BY <1>1, <1>2, <1>3, InvariantHolds, PTL DEF Spec

----------------------------------------------------------------------------
(***************************************************************************)
(* When a splice-in drops its record.                                      *)
(***************************************************************************)

\* release_locks stays cleared once the splice has begun, and SIGNED is
\* reported only for what CLN has signed.
InKept ==
  /\ lc.phase \in {"started", "updated", "signed"} => ~lc.release
  /\ lc.phase = "signed" => cln = "signed"
  /\ pc = "splice_signed" /\ stage \in {"after", "ok"} => cln = "signed"

LEMMA InKeptNext ==
  ASSUME IInv, InKept, [Next]_vars
  PROVE  InKept'
<1>0. /\ WalletActions \subseteq Actions /\ Typed(Actions) /\ lc \in Lifecycles
      /\ {"started", "updated", "signed"} \subseteq Phases
  BY ActionsOfWallet DEF IInv, Typed, Phases
<1> USE DEF InKept
<1>1. CASE SelectInputs \/ LockNext \/ Reserve \/ Own \/ Arm
  <2>1. /\ pc \in Locking /\ pc' \in Locking \union {"renew_start", "cleanup"}
        /\ lc'.phase \in {lc.phase, "locked"} /\ lc'.release = lc.release
        /\ UNCHANGED extVars
    BY <1>0, <1>1, LockingStep DEF SelectInputs
  <2> QED
    BY <2>1 DEF IInv, Phased, Locking, extVars
<1>2. CASE InitFailed \/ InitDone \/ Updated \/ Accepted
  <2>1. /\ KeepLocks(lc).phase = lc.phase /\ ~KeepLocks(lc).release
        /\ KeepLocks(Transition(lc, "started")).phase = "started"
        /\ ~KeepLocks(Transition(lc, "started")).release
        /\ Transition(lc, "updated").phase = "updated"
        /\ Transition(lc, "updated").release = lc.release
        /\ Transition(lc, "started").phase = "started"
        /\ Transition(lc, "started").release = lc.release
        /\ KeepLocks(Transition(lc, "signed")).phase = "signed"
        /\ ~KeepLocks(Transition(lc, "signed")).release
    BY <1>0, LifecycleWrites
  <2>2. /\ UNCHANGED cln /\ pc' # "splice_signed"
        /\ \/ pc = "splice_init" /\ lc'.phase \in {lc.phase, "started"} /\ ~lc'.release
           \/ pc = "splice_update" /\ lc'.phase \in {"updated", "started"}
              /\ lc'.release = lc.release
           \/ pc = "splice_signed" /\ stage = "ok" /\ lc'.phase = "signed" /\ ~lc'.release
    BY <1>2, <2>1 DEF InitFailed, InitDone, Updated, Accepted, Step, Goto, extVars
  <2> QED
    BY <2>2 DEF IInv, Phased
<1>3. CASE Finish
  <2>1. CASE TidyUp
    <3>1. SameLocks /\ pc' \in CleaningUp /\ UNCHANGED extVars
      BY <1>0, <2>1, TidyStep
    <3> QED
      BY <3>1 DEF SameLocks, CleaningUp, extVars
  <2>2. CASE ResolveAt("signed")
    BY <2>2 DEF ResolveAt, Goto, extVars
  <2> QED
    BY <1>3, <2>1, <2>2 DEF Finish
<1>4. CASE RenewalWakes \/ RenewalSteps \/ Lapse(Calls) \/ Others \/ RecoverStep
             \/ SpliceForgotten \/ SpliceSent \/ UNCHANGED vars
  <2>1. UNCHANGED opVars /\ (cln = "signed" => cln' = "signed")
    BY <1>4 DEF RenewalWakes, RenewalSteps, Lapse, Others, RecoverStep, SpliceForgotten,
       SpliceSent, vars, fundingVars, extVars
  <2> QED
    BY <2>1 DEF opVars
<1>5. CASE \/ Begin \/ SpliceRenew \/ AddInputs \/ UpdateFailed \/ Confirm \/ Sign
           \/ SignedFailed \/ Interrupt \/ Crash
  BY <1>5 DEF Begin, SpliceRenew, RenewTo, AddInputs, UpdateFailed, Confirm, Sign, SignedFailed,
     Interrupt, Crash, Step, Goto, extVars
<1>6. CASE Rpc
  BY <1>6 DEF Rpc, Applied
<1>7. CASE pc \in Calls /\ (CallBefore(CallPhase) \/ CallAfter(CallPhase))
  BY <1>7 DEF CallBefore, CallAfter, extVars
<1> QED
  BY <1>1, <1>2, <1>3, <1>4, <1>5, <1>6, <1>7 DEF Next, OpStep, CallStep

\* While the operation runs, only resolve_if_clean drops the record.
LEMMA InDrops ==
  ASSUME IInv, IInv', InKept, [Next]_vars, Live, rec.present, ~rec'.present
  PROVE  lc.phase \in {"started", "updated", "signed"} => lc.phase = "signed" /\ cln = "signed"
<1>0. /\ WalletActions \subseteq Actions /\ Typed(Actions) /\ rcv = "off"
      /\ pc \notin Ended /\ pc' \in Ended
  BY ActionsOfWallet DEF IInv, LockHeld, Live
<1>1. CASE Finish
  <2>1. CASE TidyUp
    BY <1>0, <2>1, TidyStep DEF CleaningUp, Ended
  <2>2. CASE ResolveAt("signed")
    <3>1. SameRecord \/ lc.release \/ lc.phase = "signed"
      BY <1>0, <2>2, ResolveStep
    <3> QED
      BY <3>1 DEF SameRecord, InKept
  <2> QED
    BY <1>1, <2>1, <2>2 DEF Finish
<1>2. CASE Crash
  BY <1>0, <1>2, CrashStep DEF SameRecord
<1>3. CASE RecoverStep
  BY <1>0, <1>3 DEF RecoverStep, opVars
<1>4. CASE RenewalWakes \/ RenewalSteps \/ Lapse(Calls) \/ Others \/ SpliceForgotten \/ SpliceSent
             \/ UNCHANGED vars
  <2>1. UNCHANGED opVars
    BY <1>4 DEF RenewalWakes, RenewalSteps, Lapse, Others, SpliceForgotten, SpliceSent, vars,
       fundingVars
  <2> QED
    BY <1>0, <2>1 DEF opVars
<1>5. CASE Begin \/ SelectInputs \/ LockNext \/ Reserve \/ Own \/ Arm \/ SpliceRenew \/ Interrupt
  <2>1. pc' \in Locking \union TryBlock \union {"cleanup"}
    BY <1>5 DEF Begin, SelectInputs, Plan, LockNext, Reserve, Own, Arm, SpliceRenew,
       SpliceRenewals, RenewTo, Interrupt, Goto, TryBlock, Calls, Locking
  <2> QED
    BY <1>0, <2>1 DEF Locking, TryBlock, Calls, SpliceRenewals, Ended
<1>6. CASE \/ InitFailed \/ InitDone \/ AddInputs \/ UpdateFailed \/ Updated \/ Confirm \/ Sign
           \/ SignedFailed \/ Accepted \/ Rpc
           \/ pc \in Calls /\ (CallBefore(CallPhase) \/ CallAfter(CallPhase))
  <2>1. pc' \in Calls \union SpliceRenewals \union {"cleanup", "confirm"}
    BY <1>6 DEF InitFailed, InitDone, AddInputs, UpdateFailed, Updated, Confirm, Sign,
       SignedFailed, Accepted, Rpc, CallBefore, CallAfter, Step, Goto, Calls, SpliceRenewals
  <2> QED
    BY <1>0, <2>1 DEF Calls, SpliceRenewals, Ended
<1> QED
  BY <1>1, <1>2, <1>3, <1>4, <1>5, <1>6 DEF Next, OpStep, CallStep

----------------------------------------------------------------------------
(***************************************************************************)
(* Splice-out.  The inductive invariant behind InflightRecorded and        *)
(* PaysDestination.                                                        *)
(***************************************************************************)
OutActions == Out!Calls \union WalletActions

\* CLN has secured no commitments: there is nothing to reconcile.
Uncommitted == cln \in {"none", "negotiating"}

\* Where the record may be dropped: from the splice that has begun on, never
\* because of release_locks.
OutKept ==
  /\ lc.release => Uncommitted
  /\ rcv = "release" => broadcast \/ Uncommitted
  /\ pc \in {"splice_update", "confirm", "splice_signed", "record"} => ~lc.release
  /\ lc.phase \in {"started", "updated", "signed"} => ~lc.release
  /\ pc = "idle" => lc.release

\* SIGNED is reported only for what CLN has signed.
OutSigned ==
  /\ lc.phase = "signed" => cln = "signed"
  /\ pc = "record" => cln = "signed"
  /\ pc = "splice_signed" /\ stage \in {"after", "ok"} => cln = "signed"

OutPays == pc \in {"confirm", "splice_signed"} \/ cln = "signed" => pays

OutInv ==
  /\ Typed(OutActions) /\ pc \in Out!Pcs /\ cln \in Out!ClnStates
  /\ LockHeld /\ OutKept /\ OutSigned /\ OutPays /\ Out!InflightRecorded

LEMMA OutActionsOfWallet == WalletActions \subseteq OutActions /\ Out!Calls \subseteq OutActions
  BY DEF OutActions

\* The shared steps of a splice-out are those of Funding, at its interrupt points.
LEMMA OutShares ==
  /\ Out!Begin => Begin
  /\ \A p : Out!CallBefore(p) => CallBefore(p)
  /\ \A p : Out!CallAfter(p) => CallAfter(p)
  /\ Out!StopRenewal \/ Out!Close => TidyUp
  /\ Out!ResolveAt("signed") => ResolveAt("signed")
  /\ Out!Crash => Crash
<1>1. Out!Begin => Begin
  BY DEF Out!Begin, Begin, Out!Goto, Goto, Out!CreateRecord, CreateRecord, Out!thrVars, thrVars,
     Out!extVars, extVars
<1>2. ASSUME NEW p, Out!CallBefore(p) PROVE CallBefore(p)
  BY <1>2 DEF Out!CallBefore, CallBefore, Out!BeforeMutation, BeforeMutation, Out!NoFault, NoFault,
     Out!DiskFault, DiskFault, Out!thrVars, thrVars, Out!recoveryVars, recoveryVars, Out!extVars,
     extVars
<1>3. ASSUME NEW p, Out!CallAfter(p) PROVE CallAfter(p)
  BY <1>3 DEF Out!CallAfter, CallAfter, Out!AfterMutation, AfterMutation, Out!NoFault, NoFault,
     Out!DiskFault, DiskFault, Out!thrVars, thrVars, Out!recoveryVars, recoveryVars, Out!extVars,
     extVars
<1>4. Out!StopRenewal => StopRenewal
  BY DEF Out!StopRenewal, StopRenewal, Out!Goto, Goto, Out!resVars, resVars, Out!recoveryVars,
     recoveryVars, Out!extVars, extVars
<1>5. Out!Close => Close
  BY DEF Out!Close, Close, Out!Goto, Goto, Out!ThreadJoined, ThreadJoined, Out!CleanupFailed,
     CleanupFailed, Out!recoveryVars, recoveryVars, Out!extVars, extVars
<1>6. Out!ResolveAt("signed") => ResolveAt("signed")
  BY DEF Out!ResolveAt, ResolveAt, Out!ResolvableIfClean, ResolvableIfClean, Out!ResolveRecord,
     ResolveRecord, Out!NoRecord, NoRecord, Out!NoFault, NoFault, Out!DiskFault, DiskFault,
     Out!Goto, Goto, Out!thrVars, thrVars, Out!extVars, extVars
<1>7. Out!Crash => Crash
  BY DEF Out!Crash, Crash, Out!Live, Live, Out!Ended, Ended, Out!Goto, Goto, Out!AdapterLost,
     AdapterLost, Out!NoCoin, NoCoin, Out!extVars, extVars
<1> QED
  BY <1>1, <1>2, <1>3, <1>4, <1>5, <1>6, <1>7 DEF TidyUp

LEMMA OutInit == Out!Init => OutInv
<1> SUFFICES ASSUME Out!Init PROVE OutInv
  OBVIOUS
<1>1. FundingInit /\ cln = "none"
  BY DEF Out!Init, Out!FundingInit, FundingInit, Out!ReservationsInit, ReservationsInit,
     Out!RecoveryInit, RecoveryInit, Out!NoRecord, NoRecord, Out!NewLifecycle, NewLifecycle,
     Out!NoCoin, NoCoin
<1>2. Typed(OutActions)
  BY <1>1, TypedInit, OutActionsOfWallet
<1>3. ~rec.present /\ lc.release /\ lc.phase = "prestart"
  BY <1>1, NewRecords, LifecycleWrites, OutActionsOfWallet DEF FundingInit, ReservationsInit
<1>4. pc = "idle" /\ pc \in Out!Pcs /\ cln \in Out!ClnStates /\ flock = "none" /\ rcv = "off"
  BY <1>1 DEF FundingInit, RecoveryInit, Out!Pcs, Out!Ended, Out!ClnStates
<1> QED
  BY <1>1, <1>2, <1>3, <1>4 DEF OutInv, LockHeld, OutKept, OutSigned, OutPays,
     Out!InflightRecorded, Uncommitted, Live, Ended

\* What the steps of a splice-out's own leave alone, and where they go.
OutOwnStep ==
  \/ Out!Prepare \/ Out!Fee \/ Out!Confirm \/ Out!Record \/ Out!OutputDone
  \/ Out!InitFailed \/ Out!InitInvalid \/ Out!InitDone \/ Out!UpdateFailed
  \/ Out!Updated \/ Out!SignedDone

LEMMA OutOwnTyped ==
  ASSUME Typed(OutActions), OutOwnStep
  PROVE  /\ Typed(OutActions)' /\ rec'.present = rec.present
         /\ pc \in Out!TryBlock /\ pc' \in (Out!TryBlock \ {"plan"}) \union {"cleanup"}
         /\ stage' = "before"
         /\ UNCHANGED <<released, recoveryVars, cln, broadcast, pays>>
<1>0. /\ lc \in Lifecycles /\ {"started", "updated", "signed"} \subseteq Phases
      /\ rec \in Records(Coins, Phases \union {"none"}, OutActions)
      /\ faults \in 0..MaxDiskFaults
  BY DEF Typed, Phases
<1>1. /\ pc \in Out!TryBlock /\ pc' \in (Out!TryBlock \ {"plan"}) \union {"cleanup"}
      /\ stage' = "before"
      /\ UNCHANGED <<lease, held, released, thr, todo, outs, flock, rcv, rtodo, cur, wanted, locked,
                     signed, cln, broadcast, pays>>
  BY DEF OutOwnStep, Out!Prepare, Out!Fee, Out!Confirm, Out!Record, Out!OutputDone,
     Out!InitFailed, Out!InitInvalid, Out!InitDone, Out!UpdateFailed, Out!Updated, Out!SignedDone,
     Out!Step, Out!Goto, Out!thrVars, Out!recoveryVars, Out!extVars, Out!TryBlock, Out!Calls
<1>2. /\ rec' \in Records(Coins, Phases \union {"none"}, OutActions)
      /\ rec'.present = rec.present
  <2>1. rec' = rec \/ rec' = [rec EXCEPT !.txid = TRUE]
    BY DEF OutOwnStep, Out!Prepare, Out!Fee, Out!Confirm, Out!Record, Out!OutputDone,
       Out!InitFailed, Out!InitInvalid, Out!InitDone, Out!UpdateFailed, Out!Updated,
       Out!SignedDone
  <2> QED
    BY <1>0, <2>1 DEF Records
<1>3. lc' \in Lifecycles
  <2>1. \/ lc' = lc \/ lc' = KeepLocks(lc) \/ lc' = KeepLocks(Transition(lc, "started"))
        \/ \E p \in {"started", "updated", "signed"} : lc' = Transition(lc, p)
    BY DEF OutOwnStep, Out!Prepare, Out!Fee, Out!Confirm, Out!Record, Out!OutputDone,
       Out!InitFailed, Out!InitInvalid, Out!InitDone, Out!UpdateFailed, Out!Updated,
       Out!SignedDone, Out!KeepLocks, KeepLocks, Out!Transition, Transition
  <2>2. /\ KeepLocks(lc) \in Lifecycles
        /\ \A p \in {"started", "updated", "signed"} :
             Transition(lc, p) \in Lifecycles /\ KeepLocks(Transition(lc, p)) \in Lifecycles
    BY <1>0, LifecycleWrites
  <2> QED
    BY <1>0, <2>1, <2>2
<1>4. faults' \in 0..MaxDiskFaults
  <2>1. faults' = faults \/ (faults > 0 /\ faults' = faults - 1)
    BY DEF OutOwnStep, Out!Prepare, Out!Fee, Out!Confirm, Out!Record, Out!OutputDone,
       Out!InitFailed, Out!InitInvalid, Out!InitDone, Out!UpdateFailed, Out!Updated,
       Out!SignedDone, Out!DiskFault
  <2> QED
    BY <1>0, <2>1, FaultsAssumption
<1>5. pc' \notin AtCoin
  BY <1>1 DEF AtCoin, Out!TryBlock, Out!Calls
<1> QED
  BY <1>1, <1>2, <1>3, <1>4, <1>5 DEF Typed, Stages, recoveryVars

LEMMA OutOwnInv == OutInv /\ OutOwnStep => OutInv'
<1> SUFFICES ASSUME OutInv, OutOwnStep PROVE OutInv'
  OBVIOUS
<1>1. /\ Typed(OutActions)' /\ rec'.present = rec.present
      /\ pc \in Out!TryBlock /\ pc' \in (Out!TryBlock \ {"plan"}) \union {"cleanup"}
      /\ stage' = "before"
      /\ UNCHANGED <<recoveryVars, cln, broadcast, pays>>
  BY OutOwnTyped DEF OutInv
<1>2. Live /\ Live' /\ rec.present /\ rcv = "off" /\ pc' \in Out!Pcs
  BY <1>1 DEF Live, Ended, Out!TryBlock, Out!Calls, Out!Pcs, OutInv, LockHeld
<1>3. LockHeld' /\ (Out!InflightRecorded)' /\ (cln \in Out!ClnStates)'
  BY <1>1, <1>2 DEF LockHeld, Out!InflightRecorded, OutInv, Live, Ended, recoveryVars, Out!ClnStates
<1>l. /\ lc \in Lifecycles /\ Out!KeepLocks(lc) = KeepLocks(lc)
      /\ \A p \in {"started", "updated", "signed"} :
           /\ Out!Transition(lc, p) = Transition(lc, p)
           /\ Out!KeepLocks(Out!Transition(lc, p)) = KeepLocks(Transition(lc, p))
  BY DEF OutInv, Typed, Out!KeepLocks, KeepLocks, Out!Transition, Transition
<1>m. /\ ~KeepLocks(lc).release /\ KeepLocks(lc).phase = lc.phase
      /\ \A p \in {"started", "updated", "signed"} :
           /\ Transition(lc, p).release = lc.release /\ Transition(lc, p).phase = p
           /\ ~KeepLocks(Transition(lc, p)).release /\ KeepLocks(Transition(lc, p)).phase = p
  BY <1>l, LifecycleWrites DEF Phases
<1>4. OutKept' /\ OutSigned' /\ OutPays'
  <2> USE DEF OutInv, OutKept, OutSigned, OutPays, Uncommitted, recoveryVars, Out!Step, Out!Goto,
          Out!extVars, Out!Calls
  <2>1. CASE Out!Prepare \/ Out!Fee \/ Out!OutputDone
    BY <1>1, <1>2, <2>1 DEF Out!Prepare, Out!Fee, Out!OutputDone
  <2>2. CASE Out!InitFailed
    BY <1>1, <1>2, <1>l, <1>m, <2>2 DEF Out!InitFailed
  <2>3. CASE Out!InitDone
    BY <1>1, <1>2, <1>l, <1>m, <2>3 DEF Out!InitDone
  <2>4. CASE Out!InitInvalid \/ Out!UpdateFailed
    BY <1>1, <1>2, <2>4 DEF Out!InitInvalid, Out!UpdateFailed
  <2>5. CASE Out!Updated
    BY <1>1, <1>2, <1>l, <1>m, <2>5 DEF Out!Updated
  <2>6. CASE Out!Confirm \/ Out!SignedDone
    BY <1>1, <1>2, <2>6 DEF Out!Confirm, Out!SignedDone
  <2>7. CASE Out!Record
    BY <1>1, <1>2, <1>l, <1>m, <2>7 DEF Out!Record
  <2> QED
    BY <2>1, <2>2, <2>3, <2>4, <2>5, <2>6, <2>7 DEF OutOwnStep
<1> QED
  BY <1>1, <1>2, <1>3, <1>4 DEF OutInv

LEMMA OutCallInv ==
  OutInv /\ (\/ pc \in Out!Calls /\ (Out!CallBefore(Out!CallPhase) \/ Out!CallAfter(Out!CallPhase))
                /\ UNCHANGED pays
             \/ Out!Rpc) => OutInv'
<1> SUFFICES ASSUME OutInv,
                    \/ pc \in Out!Calls /\ UNCHANGED pays
                       /\ (Out!CallBefore(Out!CallPhase) \/ Out!CallAfter(Out!CallPhase))
                    \/ Out!Rpc
             PROVE  OutInv'
  OBVIOUS
<1>0. pc \in Out!Calls /\ Live /\ rec.present /\ rcv = "off" /\ pc \notin AtCoin
  BY DEF Out!Rpc, Live, Ended, Out!Calls, OutInv, LockHeld, AtCoin
<1>1. CASE Out!Rpc
  <2>1. /\ stage = "rpc" /\ stage' \in {"after", "failed"}
        /\ \/ Out!Applied(pc)
              /\ pays' \in (IF pc \in {"splice_init", "splice_update"} THEN BOOLEAN ELSE {pays})
           \/ UNCHANGED <<cln, pays>> /\ stage' = "failed"
        /\ UNCHANGED <<lease, held, released, rec, thr, todo, outs, flock, rcv, rtodo, pc, cur, lc,
                       wanted, locked, signed, broadcast, faults>>
    BY <1>1 DEF Out!Rpc, Out!resVars, Out!recoveryVars
  <2>2. Typed(OutActions)'
    BY <2>1 DEF OutInv, Typed, Stages
  <2>3. /\ cln' \in Out!ClnStates /\ (pc # "splice_update" /\ Uncommitted => Uncommitted' \/ pc = "splice_signed")
        /\ (pc = "splice_signed" /\ stage' = "after" => cln' = "signed")
        /\ (cln = "signed" => cln' = "signed" /\ pays' = pays)
        /\ (cln' = "signed" /\ cln # "signed" => pc = "splice_signed" /\ pays' = pays)
        /\ (pc = "splice_signed" => pays' = pays)
    BY <1>0, <2>1 DEF OutInv, Out!Applied, Out!ClnStates, Uncommitted, Out!Calls
  <2>4. LockHeld' /\ (Out!InflightRecorded)'
    BY <1>0, <2>1 DEF OutInv, LockHeld, Live, Out!InflightRecorded
  <2>5. OutKept' /\ OutSigned' /\ OutPays'
    BY <1>0, <2>1, <2>3 DEF OutInv, OutKept, OutSigned, OutPays, Uncommitted, Out!Calls
  <2> QED
    BY <2>1, <2>2, <2>3, <2>4, <2>5 DEF OutInv
<1>2. CASE /\ pc \in Out!Calls /\ UNCHANGED pays
           /\ Out!CallBefore(Out!CallPhase) \/ Out!CallAfter(Out!CallPhase)
  <2>0. Out!CallPhase \in Phases
    BY DEF Out!CallPhase, OutInv, Typed, Lifecycles, Phases
  <2>1. CallBefore(Out!CallPhase) \/ CallAfter(Out!CallPhase)
    BY <1>2, OutShares
  <2>2. /\ Typed(OutActions)'
        /\ rec'.present = rec.present
        /\ \/ stage = "before" /\ stage' \in {"rpc", "failed"}
           \/ stage = "after" /\ stage' \in {"ok", "failed"}
        /\ UNCHANGED <<released, recoveryVars, pc, lc, locked, lease, signed, extVars>>
    BY <1>2, <2>0, <2>1, CallStep1, OutActionsOfWallet DEF OutInv
  <2> QED
    BY <1>0, <1>2, <2>2 DEF OutInv, LockHeld, OutKept, OutSigned, OutPays, Out!InflightRecorded,
       Uncommitted, Live, recoveryVars, extVars
<1> QED
  BY <1>1, <1>2

\* The finally block keeps the record unless nothing is committed, or SIGNED.
LEMMA OutFinishInv == OutInv /\ Out!Finish /\ UNCHANGED pays => OutInv'
<1> SUFFICES ASSUME OutInv, Out!Finish, UNCHANGED pays PROVE OutInv'
  OBVIOUS
<1>1. CASE Out!StopRenewal \/ Out!Close
  <2>1. TidyUp
    BY <1>1, OutShares
  <2>2. /\ Typed(OutActions)' /\ SameRecord /\ SameLocks /\ stage' \in {stage, "before"}
        /\ pc \in CleaningUp /\ UNCHANGED <<recoveryVars, signed, extVars>>
    BY <2>1, TidyStep, OutActionsOfWallet DEF OutInv
  <2>3. pc' \in {"close", "resolve"}
    BY <1>1 DEF Out!StopRenewal, Out!Close, Out!Goto
  <2> QED
    BY <2>2, <2>3 DEF OutInv, LockHeld, OutKept, OutSigned, OutPays, Out!InflightRecorded,
       Uncommitted, Live, Ended, recoveryVars, extVars, SameRecord, SameLocks, CleaningUp, Out!Pcs
<1>2. CASE Out!ResolveAt("signed")
  <2>1. /\ Typed(OutActions)'
        /\ pc = "resolve" /\ pc' = "done" /\ stage' = "before" /\ flock' = "none"
        /\ \/ SameRecord
           \/ ~rec'.present /\ (lc.release \/ lc.phase = "signed")
        /\ UNCHANGED <<released, rcv, lc, signed, extVars>>
    BY <1>2, OutShares, ResolveStep, OutActionsOfWallet DEF OutInv
  <2>2. pays' = pays /\ LockHeld' /\ (pc \in Out!Pcs /\ cln \in Out!ClnStates)'
    BY <2>1 DEF OutInv, LockHeld, Live, Ended, SameRecord, Out!Pcs, Out!Ended, extVars
  <2>3. OutKept' /\ OutSigned' /\ OutPays'
    BY <2>1, <2>2 DEF OutInv, LockHeld, Live, Ended, OutKept, OutSigned, OutPays, Uncommitted, extVars
  <2>4. (Out!InflightRecorded)'
    BY <2>1 DEF OutInv, OutKept, OutSigned, Out!InflightRecorded, Uncommitted, extVars, SameRecord
  <2> QED
    BY <2>1, <2>2, <2>3, <2>4 DEF OutInv
<1> QED
  BY <1>1, <1>2 DEF Out!Finish

LEMMA OutOtherInv ==
  OutInv /\ (\/ (Out!Begin \/ Out!Interrupt \/ Out!Crash) /\ UNCHANGED pays
             \/ Out!SpliceForgotten \/ Out!SpliceSent) => OutInv'
<1> SUFFICES ASSUME OutInv,
                    \/ (Out!Begin \/ Out!Interrupt \/ Out!Crash) /\ UNCHANGED pays
                    \/ Out!SpliceForgotten \/ Out!SpliceSent
             PROVE  OutInv'
  OBVIOUS
<1> USE DEF OutInv, LockHeld, OutKept, OutSigned, OutPays, Out!InflightRecorded, Uncommitted, Live,
        Ended, Out!Ended, Out!Pcs
<1>1. CASE Out!Begin /\ UNCHANGED pays
  <2>1. /\ Typed(OutActions)' /\ pc = "idle" /\ pc' = "plan" /\ stage' = "before"
        /\ flock = "none" /\ flock' = "op" /\ rec'.present
        /\ UNCHANGED <<rcv, lc, extVars>>
    BY <1>1, OutShares, BeginStep, OutActionsOfWallet
  <2> QED
    BY <1>1, <2>1 DEF extVars, Out!TryBlock
<1>2. CASE Out!Interrupt /\ UNCHANGED pays
  <2>1. /\ pc = "plan" /\ pc' = "cleanup" /\ stage' = "before" /\ cur' = NoCoin
        /\ UNCHANGED <<lease, held, released, rec, thr, todo, outs, flock, rcv, rtodo, lc, wanted,
                       locked, signed, cln, broadcast, faults>>
    BY <1>2 DEF Out!Interrupt, Out!Goto, Out!NoCoin, NoCoin, Out!resVars, Out!recoveryVars,
       Out!extVars
  <2>2. Typed(OutActions)'
    BY <2>1 DEF Typed, Stages, AtCoin
  <2> QED
    BY <1>2, <2>1, <2>2
<1>3. CASE Out!Crash /\ UNCHANGED pays
  <2>1. /\ Typed(OutActions)' /\ SameRecord /\ Live /\ pc' = "dead" /\ stage' = "before"
        /\ flock' = "none" /\ UNCHANGED <<rcv, lc, extVars>>
    BY <1>3, OutShares, CrashStep
  <2>2. LockHeld'
    BY <2>1 DEF SameRecord
  <2>3. OutKept' /\ OutSigned' /\ OutPays' /\ (Out!InflightRecorded)'
    BY <1>3, <2>1 DEF extVars, SameRecord
  <2> QED
    BY <2>1, <2>2, <2>3 DEF extVars
<1>4. CASE Out!SpliceForgotten \/ Out!SpliceSent
  <2>1. /\ UNCHANGED <<lease, held, released, rec, thr, todo, outs, flock, rcv, rtodo, pc, stage, cur,
                       lc, wanted, locked, signed, faults, pays>>
        /\ \/ /\ cln \in {"negotiating", "committed"} /\ cln' = "none" /\ broadcast' = broadcast
           \/ cln = "signed" /\ broadcast' = TRUE /\ cln' = cln
    BY <1>4 DEF Out!SpliceForgotten, Out!SpliceSent, Out!resVars, Out!recoveryVars, Out!opVars
  <2>2. Typed(OutActions)'
    BY <2>1 DEF Typed
  <2> QED
    BY <2>1, <2>2 DEF Out!ClnStates
<1> QED
  BY <1>1, <1>2, <1>3, <1>4

\* Recovery gives up a record only where CLN has no inflight, or the splice is
\* on the chain.
LEMMA OutRecoverInv == OutInv /\ Out!RecoverStep => OutInv'
<1> SUFFICES ASSUME OutInv, Out!RecoverStep PROVE OutInv'
  OBVIOUS
<1>0. /\ UNCHANGED <<pc, stage, cur, lc, wanted, locked, signed, cln, broadcast, faults, pays>>
      /\ rec \in Records(Coins, Phases \union {"none"}, OutActions)
  BY DEF Out!RecoverStep, Out!opVars, Out!extVars, OutInv, Typed
<1> USE <1>0 DEF OutInv, LockHeld, OutKept, OutSigned, OutPays, Out!InflightRecorded, Uncommitted,
        Live, Out!resVars
<1>1. CASE Out!RecoverBegin
  <2>1. /\ flock = "none" /\ rec.present /\ flock' = "recovery" /\ rcv' = "check"
        /\ UNCHANGED <<lease, held, released, rec, thr, todo, outs, rtodo>>
    BY <1>1 DEF Out!RecoverBegin
  <2>2. Typed(OutActions)'
    BY <2>1 DEF Typed, LockHolders
  <2> QED
    BY <2>1, <2>2
<1>2. ASSUME NEW b \in Out!BitcoinView, NEW s \in Out!SpliceStatus, Out!RecoverDecides(b, s)
      PROVE  OutInv'
  <2>1. /\ rcv = "check" /\ rcv' = "release" /\ s = "ABSENT" /\ rtodo' = rec.owners
        /\ UNCHANGED <<lease, held, released, rec, thr, todo, outs, flock>>
    BY <1>2 DEF Out!RecoverDecides, Out!SafelyAbsent
  <2>2. broadcast \/ Uncommitted
    BY <2>1 DEF Out!SpliceStatus, Out!ClnStates
  <2>3. Typed(OutActions)'
    BY <2>1 DEF Typed, Records
  <2> QED
    BY <2>1, <2>2, <2>3
<1>3. ASSUME NEW b \in Out!BitcoinView, NEW s \in Out!SpliceStatus, Out!RecoverKeeps(b, s)
      PROVE  OutInv'
  <2>1. /\ rcv = "check" /\ rcv' = "off" /\ flock' = "none"
        /\ UNCHANGED <<lease, held, released, rec, thr, todo, outs, rtodo>>
    BY <1>3 DEF Out!RecoverKeeps
  <2>2. Typed(OutActions)'
    BY <2>1 DEF Typed, LockHolders
  <2> QED
    BY <2>1, <2>2
<1>4. CASE Out!RecoverResolves
  <2>1. /\ rcv = "release" /\ rcv' = "off" /\ flock' = "none" /\ rec' = NoRecord
        /\ UNCHANGED <<lease, held, released, thr, todo, outs, rtodo>>
    BY <1>4 DEF Out!RecoverResolves, Out!ResolveRecord, Out!NoRecord, NoRecord, Out!thrVars
  <2>2. Typed(OutActions)' /\ ~rec'.present
    BY <2>1, NewRecords, OutActionsOfWallet DEF Typed, LockHolders
  <2> QED
    BY <2>1, <2>2
<1>5. CASE Out!RecoverAborts
  <2>1. /\ rcv # "off" /\ rcv' = "off" /\ flock' = "none" /\ rtodo' = {}
        /\ UNCHANGED <<lease, held, released, rec, thr, todo, outs>>
    BY <1>5 DEF Out!RecoverAborts
  <2>2. Typed(OutActions)'
    BY <2>1 DEF Typed, LockHolders
  <2> QED
    BY <2>1, <2>2
<1> QED
  BY <1>1, <1>2, <1>3, <1>4, <1>5 DEF Out!RecoverStep

LEMMA OutNext == OutInv /\ [Out!Next]_(Out!vars) => OutInv'
<1> SUFFICES ASSUME OutInv, [Out!Next]_(Out!vars) PROVE OutInv'
  OBVIOUS
<1>1. CASE Out!Next
  BY <1>1, OutOwnInv, OutCallInv, OutFinishInv, OutOtherInv, OutRecoverInv
     DEF Out!Next, Out!CallStep, OutOwnStep
<1>2. CASE UNCHANGED Out!vars
  BY <1>2 DEF Out!vars, Out!fundingVars, Out!resVars, Out!recoveryVars, Out!opVars, Out!extVars,
     OutInv, Typed, LockHeld, OutKept, OutSigned, OutPays, Out!InflightRecorded, Uncommitted, Live
<1> QED
  BY <1>1, <1>2

\* While a splice-out runs, only resolve_if_clean drops the record.
LEMMA OutDrops ==
  ASSUME OutInv, OutInv', Out!Next, Live, rec.present, ~rec'.present
  PROVE  lc.phase \in {"started", "updated", "signed"} => lc.phase = "signed" /\ cln = "signed"
<1>0. rcv = "off" /\ pc \notin Ended /\ pc' \in Ended
  BY DEF OutInv, LockHeld, Live
<1>1. CASE OutOwnStep
  BY <1>1, OutOwnTyped DEF OutInv
<1>2. CASE Out!CallStep
  <2>1. CASE OutOwnStep
    BY <2>1, <1>1
  <2>2. CASE Out!Rpc
    BY <1>0, <2>2 DEF Out!Rpc
  <2>3. CASE pc \in Out!Calls /\ (Out!CallBefore(Out!CallPhase) \/ Out!CallAfter(Out!CallPhase))
    BY <1>0, <2>3 DEF Out!CallBefore, Out!CallAfter
  <2> QED
    BY <1>2, <2>1, <2>2, <2>3 DEF Out!CallStep, OutOwnStep
<1>3. CASE Out!Finish
  <2>1. CASE Out!StopRenewal \/ Out!Close
    BY <1>0, <2>1 DEF Out!StopRenewal, Out!Close, Out!Goto, Ended
  <2>2. CASE Out!ResolveAt("signed")
    <3>1. SameRecord \/ lc.release \/ lc.phase = "signed"
      BY <2>2, OutShares, ResolveStep, OutActionsOfWallet DEF OutInv
    <3> QED
      BY <3>1 DEF SameRecord, OutInv, OutKept, OutSigned
  <2> QED
    BY <1>3, <2>1, <2>2 DEF Out!Finish
<1>4. CASE Out!Crash
  BY <1>4, OutShares, CrashStep DEF SameRecord, OutInv
<1>5. CASE Out!RecoverStep \/ Out!SpliceForgotten \/ Out!SpliceSent
  BY <1>0, <1>5 DEF Out!RecoverStep, Out!SpliceForgotten, Out!SpliceSent, Out!opVars
<1>6. CASE Out!Begin \/ Out!Interrupt
  BY <1>0, <1>6 DEF Out!Begin, Out!Interrupt, Out!Goto, Ended
<1> QED
  BY <1>1, <1>2, <1>3, <1>4, <1>5, <1>6 DEF Out!Next, OutOwnStep

\* Where a splice-out has got to in its life, and that it has no inputs.
OutPhased ==
  /\ pc \in {"idle", "plan", "splice_out_output", "fee", "splice_out_output_sweep", "splice_init"}
       => lc.phase = "prestart"
  /\ pc = "splice_update" => lc.phase = "started"
  /\ pc \in {"confirm", "splice_signed", "record"} => lc.phase = "updated"
  /\ locked = {} /\ released = {}

OutMoves ==
  \/ lc'.phase = lc.phase
  \/ lc.phase = "prestart" /\ lc'.phase = "started"
  \/ lc.phase = "started" /\ lc'.phase = "updated"
  \/ lc.phase = "updated" /\ lc'.phase = "signed"

LEMMA OutPhasedInit == Out!Init => OutPhased
  BY LifecycleWrites DEF Out!Init, Out!FundingInit, Out!ReservationsInit, Out!NewLifecycle,
     NewLifecycle, OutPhased

LEMMA OutPhasedNext ==
  ASSUME OutInv, OutPhased, Out!Next
  PROVE  OutPhased' /\ OutMoves
<1>0. lc \in Lifecycles
  BY DEF OutInv, Typed
<1> USE DEF OutPhased, OutMoves
<1>1. CASE OutOwnStep
  <2>0. UNCHANGED <<released, locked>>
    BY <1>1 DEF OutOwnStep, Out!Prepare, Out!Fee, Out!Confirm, Out!Record, Out!OutputDone,
       Out!InitFailed, Out!InitInvalid, Out!InitDone, Out!UpdateFailed, Out!Updated,
       Out!SignedDone, Out!Step
  <2>l. /\ Out!KeepLocks(lc) = KeepLocks(lc)
        /\ \A p \in {"started", "updated", "signed"} :
             /\ Out!Transition(lc, p) = Transition(lc, p)
             /\ Out!KeepLocks(Out!Transition(lc, p)) = KeepLocks(Transition(lc, p))
    BY DEF Out!KeepLocks, KeepLocks, Out!Transition, Transition
  <2>m. /\ KeepLocks(lc).phase = lc.phase
        /\ \A p \in {"started", "updated", "signed"} :
             Transition(lc, p).phase = p /\ KeepLocks(Transition(lc, p)).phase = p
    BY <1>0, LifecycleWrites DEF Phases
  <2> USE DEF Out!Step, Out!Goto
  <2>1. CASE Out!Prepare \/ Out!Fee \/ Out!OutputDone \/ Out!Confirm \/ Out!SignedDone
    BY <2>0, <2>1 DEF Out!Prepare, Out!Fee, Out!OutputDone, Out!Confirm, Out!SignedDone
  <2>2. CASE Out!InitFailed \/ Out!InitInvalid \/ Out!UpdateFailed
    BY <2>0, <2>l, <2>m, <2>2 DEF Out!InitFailed, Out!InitInvalid, Out!UpdateFailed
  <2>3. CASE Out!InitDone
    BY <2>0, <2>l, <2>m, <2>3 DEF Out!InitDone
  <2>4. CASE Out!Updated
    BY <2>0, <2>l, <2>m, <2>4 DEF Out!Updated
  <2>5. CASE Out!Record
    BY <2>0, <2>l, <2>m, <2>5 DEF Out!Record
  <2> QED
    BY <1>1, <2>1, <2>2, <2>3, <2>4, <2>5 DEF OutOwnStep
<1>2. CASE \/ Out!Rpc \/ Out!SpliceForgotten \/ Out!SpliceSent \/ Out!RecoverStep
           \/ Out!CallBefore(Out!CallPhase) \/ Out!CallAfter(Out!CallPhase)
  <2>1. UNCHANGED <<pc, lc, locked>>
    BY <1>2 DEF Out!Rpc, Out!SpliceForgotten, Out!SpliceSent, Out!RecoverStep, Out!opVars,
       Out!CallBefore, Out!CallAfter
  <2>2. ~Out!RecoverStep => UNCHANGED released
    BY <1>2 DEF Out!Rpc, Out!SpliceForgotten, Out!SpliceSent, Out!CallBefore,
       Out!CallAfter, Out!resVars
  <2>3. Out!RecoverStep => UNCHANGED released
    BY DEF Out!RecoverStep, Out!RecoverBegin, Out!RecoverDecides, Out!RecoverKeeps,
       Out!RecoverResolves, Out!RecoverAborts, Out!resVars
  <2> QED
    BY <2>1, <2>2, <2>3
<1>3. CASE Out!Finish
  <2>1. /\ pc' \in {"close", "resolve", "done"} /\ UNCHANGED released /\ locked' \in {locked, {}}
        /\ lc' \in {lc, CleanupFailed(lc)}
    BY <1>3 DEF Out!Finish, Out!StopRenewal, Out!Close, Out!ResolveAt, Out!Goto, Out!resVars,
       Out!CleanupFailed, CleanupFailed
  <2>2. CleanupFailed(lc).phase = lc.phase
    BY <1>0, LifecycleWrites
  <2> QED
    BY <2>1, <2>2
<1>4. CASE Out!Begin \/ Out!Interrupt \/ Out!Crash
  <2>1. /\ UNCHANGED <<released, lc>> /\ locked' \in {locked, {}}
        /\ \/ pc = "idle" /\ pc' = "plan"
           \/ pc' \in {"cleanup", "dead"}
    BY <1>4 DEF Out!Begin, Out!Interrupt, Out!Crash, Out!AdapterLost, Out!Goto, Out!resVars
  <2> QED
    BY <2>1
<1> QED
  BY <1>1, <1>2, <1>3, <1>4 DEF Out!Next, Out!CallStep, OutOwnStep

\* The PSBT is withheld from its secured commitments on, and nothing of the
\* wallet is ever given back.
LEMMA OutPromise ==
  ASSUME OutInv, OutPhased, OutPhased', Out!Next
  PROVE  \/ UNCHANGED cln
         \/ cln \in {"none", "negotiating"} /\ cln' \in {"none", "negotiating", "committed"}
         \/ cln = "committed" /\ cln' \in {"none", "signed"}
<1>1. CASE OutOwnStep
  BY <1>1, OutOwnTyped DEF OutInv
<1>2. CASE Out!Rpc
  BY <1>2 DEF Out!Rpc, Out!Applied
<1>3. CASE Out!SpliceForgotten \/ Out!SpliceSent
  BY <1>3 DEF Out!SpliceForgotten, Out!SpliceSent
<1>4. CASE \/ Out!RecoverStep \/ Out!CallBefore(Out!CallPhase) \/ Out!CallAfter(Out!CallPhase)
           \/ Out!Finish \/ Out!Begin \/ Out!Interrupt \/ Out!Crash
  BY <1>4 DEF Out!RecoverStep, Out!CallBefore, Out!CallAfter, Out!Finish, Out!StopRenewal,
     Out!Close, Out!ResolveAt, Out!Begin, Out!Interrupt, Out!Crash, Out!extVars
<1> QED
  BY <1>1, <1>2, <1>3, <1>4 DEF Out!Next, Out!CallStep, OutOwnStep

----------------------------------------------------------------------------
(***************************************************************************)
(* Either operation.                                                       *)
(***************************************************************************)
SpliceInv == (op = "in" => IInv) /\ (op = "out" => OutInv)

LEMMA SpliceInvNext == SpliceInv /\ [SpliceNext]_SpliceVars => SpliceInv'
<1> SUFFICES ASSUME SpliceInv, [SpliceNext]_SpliceVars PROVE SpliceInv'
  OBVIOUS
<1>0. op' = op
  BY DEF SpliceNext, SpliceVars
<1>1. CASE op = "in"
  <2>1. [Next]_vars
    BY <1>1 DEF SpliceNext, SpliceVars
  <2> QED
    BY <1>0, <1>1, <2>1, IInvNext DEF SpliceInv
<1>2. CASE op = "out"
  <2>1. [Out!Next]_(Out!vars)
    BY <1>2 DEF SpliceNext, SpliceVars, vars, fundingVars, resVars, thrVars, recoveryVars, opVars,
       extVars, Out!vars, Out!fundingVars, Out!resVars, Out!thrVars, Out!recoveryVars, Out!opVars,
       Out!extVars
  <2> QED
    BY <1>0, <1>2, <2>1, OutNext DEF SpliceInv
<1>3. CASE op \notin {"in", "out"}
  BY <1>0, <1>3 DEF SpliceInv
<1> QED
  BY <1>1, <1>2, <1>3

THEOREM SpliceInvariantHolds == SpliceSpec => []SpliceInv
<1>1. SpliceInit => SpliceInv
  BY InitIInv, OutInit DEF SpliceInit, SpliceInv
<1> QED
  BY <1>1, SpliceInvNext, PTL DEF SpliceSpec

(***************************************************************************)
(* In any crash, recovery finds what it needs: the transaction id of a     *)
(* splice-in that CLN can sign, the record of a splice-out whose outcome   *)
(* is open.                                                                *)
(***************************************************************************)
THEOREM RecordedForRecovery == SpliceSpec => []SpliceRecorded
<1>1. SpliceInv => SpliceRecorded
  BY DEF SpliceInv, IInv, OutInv, SpliceRecorded
<1> QED
  BY <1>1, SpliceInvariantHolds, PTL

(***************************************************************************)
(* CLN signs only a splice-out that pays the approved output, whatever the *)
(* updates of the PSBT replaced.                                           *)
(***************************************************************************)
THEOREM DestinationPaid == SpliceSpec => []PaysDestination
<1>1. SpliceInv => PaysDestination
  BY DEF SpliceInv, OutInv, OutPays, PaysDestination, Out!PaysDestination
<1> QED
  BY <1>1, SpliceInvariantHolds, PTL

(***************************************************************************)
(* The properties of the splice-in hold of a run of either operation, and  *)
(* with them the three action properties of the run.                       *)
(***************************************************************************)
SpliceAll == SpliceInv /\ (op = "in" => InKept) /\ (op = "out" => OutPhased)

LEMMA SpliceAllInit == SpliceInit => SpliceAll
<1>1. Init => InKept
  BY LifecycleWrites DEF Init, FundingInit, InKept
<1> QED
  BY <1>1, InitIInv, OutInit, OutPhasedInit DEF SpliceInit, SpliceInv, SpliceAll

LEMMA SpliceAllNext ==
  ASSUME SpliceAll, [SpliceNext]_SpliceVars
  PROVE  SpliceAll'
<1>1. SpliceInv' /\ op' = op
  BY SpliceInvNext DEF SpliceAll, SpliceNext, SpliceVars
<1>2. CASE UNCHANGED SpliceVars
  BY <1>1, <1>2 DEF SpliceVars, vars, fundingVars, resVars, opVars, extVars, InKept, OutPhased,
     SpliceAll
<1>3. CASE SpliceNext /\ op = "in"
  BY <1>1, <1>3, InKeptNext DEF SpliceNext, SpliceInv, SpliceAll
<1>4. CASE SpliceNext /\ op = "out"
  BY <1>1, <1>4, OutPhasedNext DEF SpliceNext, SpliceInv, SpliceAll
<1> QED
  BY <1>2, <1>3, <1>4 DEF SpliceNext

\* A step of a run is one of a splice-in, or one of a splice-out, or neither.
LEMMA SpliceSteps ==
  ASSUME SpliceAll, [SpliceNext]_SpliceVars
  PROVE  \/ IInv /\ IInv' /\ InKept /\ [Next]_vars
         \/ OutInv /\ OutInv' /\ OutPhased /\ OutPhased' /\ Out!Next
         \/ UNCHANGED vars
<1>1. SpliceAll' /\ op' = op
  BY SpliceAllNext DEF SpliceNext, SpliceVars
<1> QED
  BY <1>1 DEF SpliceAll, SpliceInv, SpliceNext, SpliceVars

(***************************************************************************)
(* Once it has STARTED, an operation gives up its record only at SIGNED,   *)
(* of a splice that CLN has signed: no failure, interrupt or refusal in    *)
(* the update loop leads to a resolved record (lifecycle.py:120-130).      *)
(***************************************************************************)
THEOREM DroppedOnlyWhenSigned == SpliceSpec => DroppedWhenOver
<1> DEFINE Over == Live /\ lc.phase \in {"started", "updated", "signed"}
                     /\ rec.present /\ ~rec'.present
                   => cln = "none" \/ (cln = "signed" /\ lc.phase = "signed")
<1>1. SpliceAll /\ [SpliceNext]_SpliceVars => SpliceAll' /\ [Over]_SpliceVars
  <2> SUFFICES ASSUME SpliceAll, [SpliceNext]_SpliceVars PROVE Over
    BY SpliceAllNext
  <2>1. CASE IInv /\ IInv' /\ InKept /\ [Next]_vars
    BY <2>1, InDrops
  <2>2. CASE OutInv /\ OutInv' /\ Out!Next
    BY <2>2, OutDrops
  <2>3. CASE UNCHANGED vars
    BY <2>3 DEF vars, fundingVars, resVars
  <2> QED
    BY <2>1, <2>2, <2>3, SpliceSteps
<1> QED
  BY <1>1, SpliceAllInit, PTL DEF SpliceSpec, DroppedWhenOver

\* Both operations keep the promise about the wallet's coins, from the secured
\* commitments on: a splice-out, because it gives none back.
THEOREM SplicesKeepPromise == SpliceSpec => KeepsPromise
<1>1. SpliceInit => Promise!Init
  BY DEF SpliceInit, Init, Out!Init, FundingInit, Out!FundingInit, ReservationsInit,
     Out!ReservationsInit, Promise!Init
<1>2. SpliceAll /\ [SpliceNext]_SpliceVars
        => SpliceAll' /\ [Promise!Next]_<<PromisedFunding, GivenBack>>
  <2> SUFFICES ASSUME SpliceAll, [SpliceNext]_SpliceVars
               PROVE  [Promise!Next]_<<PromisedFunding, GivenBack>>
    BY SpliceAllNext
  <2>1. CASE IInv /\ [Next]_vars
    BY <2>1, StepKeepsPromise
  <2>2. CASE OutInv /\ OutPhased /\ OutPhased' /\ Out!Next
    BY <2>2, OutPromise DEF OutPhased, PromisedFunding, GivenBack, Promise!Next,
       Promise!HandOver, Promise!Send, Promise!Withdraw, Promise!GiveBack
  <2>3. CASE UNCHANGED vars
    BY <2>3 DEF vars, fundingVars, resVars, extVars, PromisedFunding, GivenBack
  <2> QED
    BY <2>1, <2>2, <2>3, SpliceSteps
<1> QED
  BY <1>1, <1>2, SpliceAllInit, PTL DEF SpliceSpec, KeepsPromise, Promise!Spec, PromisedFunding,
     GivenBack

\* Neither operation asks OperationLifecycle for a transition it would refuse
\* (lifecycle.py:44-88), in a loop of any number of updates.
THEOREM SpliceTransitionsAllowed == SpliceSpec => LifecycleLegal
<1> DEFINE Legal == lc'.phase # lc.phase => lc'.phase \in AllowedTransitions[lc.phase]
<1>1. SpliceAll /\ [SpliceNext]_SpliceVars => SpliceAll' /\ [Legal]_vars
  <2> SUFFICES ASSUME SpliceAll, [SpliceNext]_SpliceVars PROVE [Legal]_vars
    BY SpliceAllNext
  <2>1. CASE IInv /\ [Next]_vars
    BY <2>1, PhaseMoves DEF AllowedTransitions, Phases
  <2>2. CASE OutInv /\ OutPhased /\ Out!Next
    BY <2>2, OutPhasedNext DEF OutMoves, AllowedTransitions, Phases
  <2> QED
    BY <2>1, <2>2, SpliceSteps
<1> QED
  BY <1>1, SpliceAllInit, PTL DEF SpliceSpec, LifecycleLegal

\* CLN gets our signature of a splice only while every input of the wallet in
\* it is still reserved by us.
THEOREM SpliceInputsLeased == SpliceSpec => HandOffLeased
<1> DEFINE LeasedThen == cln # "signed" /\ cln' = "signed" => locked \subseteq Leased
<1>1. SpliceAll /\ [SpliceNext]_SpliceVars => SpliceAll' /\ [LeasedThen]_vars
  <2> SUFFICES ASSUME SpliceAll, [SpliceNext]_SpliceVars PROVE [LeasedThen]_vars
    BY SpliceAllNext
  <2>1. CASE IInv /\ [Next]_vars
    BY <2>1, StepLeased
  <2>2. CASE OutPhased
    BY <2>2 DEF OutPhased
  <2> QED
    BY <2>1, <2>2, SpliceSteps
<1> QED
  BY <1>1, SpliceAllInit, PTL DEF SpliceSpec, HandOffLeased
=============================================================================
