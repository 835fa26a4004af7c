---------------------------- MODULE FundingProofs ----------------------------
(***************************************************************************)
(* Lemmas about the steps that every funding operation shares, for the     *)
(* proofs about the operations that are built from them: what each keeps   *)
(* typed, and what it may do to the record, the lifecycle, the locks and   *)
(* the inputs that have been given back.                                   *)
(***************************************************************************)
EXTENDS Funding, TLAPS

\* The mutations that the wallet's reservations and recovery record.
WalletActions == {"none", "reserve", "renew", "release", "recovery_release"}

(***************************************************************************)
(* The types of the shared variables; an operation that records the        *)
(* mutations acts adds its program points and the states of CLN.           *)
(***************************************************************************)
Typed(acts) ==
  /\ lease \in [Coins -> Holders]
  /\ held \in SUBSET Coins /\ released \in SUBSET Coins
  /\ rec \in Records(Coins, Phases \union {"none"}, acts)
  /\ thr \in ThreadStates /\ todo \in SUBSET Coins /\ outs \in SUBSET Coins
  /\ flock \in LockHolders /\ rcv \in {"off", "check", "release"}
  /\ rtodo \in SUBSET Coins
  /\ stage \in Stages
  /\ cur \in Coins \union {NoCoin} /\ (pc \in AtCoin => cur \in Coins)
  /\ lc \in Lifecycles
  /\ wanted \in SUBSET Coins /\ locked \in SUBSET Coins /\ signed \in BOOLEAN
  /\ broadcast \in BOOLEAN
  /\ faults \in 0..MaxDiskFaults

\* What most steps leave of the record, and of the lifecycle.
SameRecord == rec'.present = rec.present /\ rec'.txid = rec.txid

SameLocks == lc'.release = lc.release /\ lc'.phase = lc.phase

----------------------------------------------------------------------------
(* The records of the journal and of the lifecycle.                        *)

LEMMA NewRecords ==
  ASSUME NEW acts, WalletActions \subseteq acts
  PROVE  /\ NoRecord \in Records(Coins, Phases \union {"none"}, acts)
         /\ CreateRecord \in Records(Coins, Phases \union {"none"}, acts)
         /\ ~NoRecord.present /\ ~NoRecord.txid
         /\ CreateRecord.present /\ ~CreateRecord.txid
  BY DEF NoRecord, CreateRecord, Records, Phases, WalletActions

\* A record that differs in nothing but what the wallet's writes change.
Like(r, acts) ==
  /\ r \in Records(Coins, Phases \union {"none"}, acts)
  /\ r.present = rec.present /\ r.txid = rec.txid

\* The wallet's own writes, which know no transaction id.
LEMMA WalletWrites ==
  ASSUME NEW acts, WalletActions \subseteq acts,
         rec \in Records(Coins, Phases \union {"none"}, acts),
         held \in SUBSET Coins, outs \in SUBSET Coins
  PROVE  /\ Like(rec, acts) /\ Like(RenewPending, acts) /\ Like(RenewedRecord, acts)
         /\ Like(ReservationDone, acts)
         /\ Like(BeforeMutation(rec, "release", "locked", held, held, FALSE), acts)
         /\ Like(BeforeMutation(rec, "renew", "locked", outs, held, FALSE), acts)
         /\ \A c \in Coins : Like(BeforeMutation(rec, "reserve", "locked", held \union {c},
                                                 held \union {c}, FALSE), acts)
<1>0. /\ "locked" \in Phases \union {"none"} /\ "reserve" \in acts /\ "renew" \in acts
      /\ "release" \in acts /\ "none" \in acts /\ FALSE \in BOOLEAN
      /\ rec.txid \in BOOLEAN
  BY DEF Phases, WalletActions, Records
<1>1. ASSUME NEW r, NEW a \in acts, NEW o \in SUBSET Coins, NEW w \in SUBSET Coins,
             Like(r, acts)
      PROVE  Like(BeforeMutation(r, a, "locked", o, w, FALSE), acts)
  BY <1>0, <1>1 DEF Like, BeforeMutation, Records
<1>2. ASSUME NEW r, Like(r, acts)
      PROVE  Like(AfterMutation(r, "locked", FALSE), acts)
  BY <1>0, <1>2 DEF Like, AfterMutation, Records
<1>3. Like(rec, acts)
  BY DEF Like
<1>4. Like(RenewPending, acts)
  BY <1>0, <1>1, <1>3 DEF RenewPending
<1>5. Like(RenewedRecord, acts) /\ Like(ReservationDone, acts)
  BY <1>2, <1>3, <1>4 DEF RenewedRecord, ReservationDone
<1>6. /\ Like(BeforeMutation(rec, "release", "locked", held, held, FALSE), acts)
      /\ Like(BeforeMutation(rec, "renew", "locked", outs, held, FALSE), acts)
  BY <1>0, <1>1, <1>3
<1>7. ASSUME NEW c \in Coins
      PROVE  Like(BeforeMutation(rec, "reserve", "locked", held \union {c},
                                 held \union {c}, FALSE), acts)
  <2>1. held \union {c} \in SUBSET Coins
    OBVIOUS
  <2> QED
    BY <1>0, <1>1, <1>3, <2>1
<1> QED
  BY <1>3, <1>4, <1>5, <1>6, <1>7

LEMMA LifecycleWrites ==
  /\ NewLifecycle \in Lifecycles /\ NewLifecycle.release /\ NewLifecycle.phase = "prestart"
  /\ ~NewLifecycle.errors
  /\ \A l \in Lifecycles :
       /\ l.release \in BOOLEAN /\ l.errors \in BOOLEAN /\ l.phase \in Phases
       /\ KeepLocks(l) \in Lifecycles /\ ~KeepLocks(l).release
       /\ KeepLocks(l).phase = l.phase
       /\ CleanupFailed(l) \in Lifecycles /\ CleanupFailed(l).release = l.release
       /\ CleanupFailed(l).phase = l.phase /\ CleanupFailed(l).errors
       /\ \A p \in Phases :
            /\ Transition(l, p) \in Lifecycles /\ Transition(l, p).phase = p
            /\ Transition(l, p).release = l.release
            /\ KeepLocks(Transition(l, p)) \in Lifecycles
            /\ ~KeepLocks(Transition(l, p)).release
            /\ KeepLocks(Transition(l, p)).phase = p
            /\ Transition(ReleaseLocks(l), p) \in Lifecycles
            /\ Transition(ReleaseLocks(l), p).release
            /\ Transition(ReleaseLocks(l), p).phase = p
<1>1. /\ NewLifecycle \in Lifecycles /\ NewLifecycle.release /\ ~NewLifecycle.errors
      /\ NewLifecycle.phase = "prestart"
  BY DEF NewLifecycle, Lifecycles, Phases
<1>2. ASSUME NEW l \in Lifecycles
      PROVE  /\ l.release \in BOOLEAN /\ l.errors \in BOOLEAN /\ l.phase \in Phases
             /\ KeepLocks(l) \in Lifecycles /\ ~KeepLocks(l).release
             /\ KeepLocks(l).phase = l.phase
             /\ ReleaseLocks(l) \in Lifecycles /\ ReleaseLocks(l).release
             /\ CleanupFailed(l) \in Lifecycles /\ CleanupFailed(l).release = l.release
             /\ CleanupFailed(l).phase = l.phase /\ CleanupFailed(l).errors
  BY DEF Lifecycles, KeepLocks, CleanupFailed, ReleaseLocks
<1>3. ASSUME NEW l \in Lifecycles, NEW p \in Phases
      PROVE  /\ Transition(l, p) \in Lifecycles /\ Transition(l, p).phase = p
             /\ Transition(l, p).release = l.release
  BY DEF Lifecycles, Transition
<1>4. ASSUME NEW l \in Lifecycles, NEW p \in Phases
      PROVE  /\ KeepLocks(Transition(l, p)) \in Lifecycles
             /\ ~KeepLocks(Transition(l, p)).release
             /\ KeepLocks(Transition(l, p)).phase = p
             /\ Transition(ReleaseLocks(l), p) \in Lifecycles
             /\ Transition(ReleaseLocks(l), p).release
             /\ Transition(ReleaseLocks(l), p).phase = p
  <2>1. Transition(l, p) \in Lifecycles /\ Transition(l, p).phase = p
        /\ ReleaseLocks(l) \in Lifecycles /\ ReleaseLocks(l).release
    BY <1>2, <1>3
  <2>2. /\ KeepLocks(Transition(l, p)) \in Lifecycles
        /\ ~KeepLocks(Transition(l, p)).release
        /\ KeepLocks(Transition(l, p)).phase = p
    BY <1>2, <2>1
  <2> QED
    BY <1>3, <2>1, <2>2
<1> QED
  BY <1>1, <1>2, <1>3, <1>4

----------------------------------------------------------------------------
(* Beginning, planning, locking and renewing: nothing is handed over and   *)
(* nothing is given back.                                                  *)

LEMMA BeginStep ==
  ASSUME NEW acts, WalletActions \subseteq acts, Typed(acts), Begin
  PROVE  /\ Typed(acts)'
         /\ pc = "idle" /\ pc' = "plan" /\ stage' = "before"
         /\ flock = "none" /\ flock' = "op"
         /\ rec'.present /\ ~rec'.txid
         /\ UNCHANGED <<released, rcv, lc, locked, signed, extVars>>
  BY NewRecords DEF Typed, Begin, Goto, thrVars, extVars, LockHolders, Stages, AtCoin

LEMMA LockingStep ==
  ASSUME NEW acts, WalletActions \subseteq acts, Typed(acts),
         Plan \/ LockNext \/ Reserve \/ Own \/ Arm
  PROVE  /\ Typed(acts)' /\ SameRecord
         /\ pc \in Locking /\ pc' \in Locking \union {"renew_start", "cleanup"}
         /\ pc' = "renew_start" => lc'.phase = "locked"
         /\ pc # "arm" => lc' = lc
         /\ lc'.phase \in {lc.phase, "locked"} /\ lc'.release = lc.release
         /\ stage' = "before"
         /\ UNCHANGED <<released, recoveryVars, signed, extVars>>
<1> DEFINE R == Records(Coins, Phases \union {"none"}, acts)
<1>0. rec \in R /\ held \in SUBSET Coins /\ outs \in SUBSET Coins /\ lc \in Lifecycles
      /\ rec.txid \in BOOLEAN /\ "locked" \in Phases /\ wanted \in SUBSET Coins
  BY DEF Typed, Records, Phases
<1> USE DEF Typed, Goto, Locking, AtCoin, Stages, SameRecord, NoFault, DiskFault, resVars,
        thrVars, recoveryVars, extVars
<1>1. CASE Plan
  BY <1>1 DEF Plan
<1>2. CASE LockNext
  <2>1. rec' \in R /\ rec'.present = rec.present /\ rec'.txid = rec.txid
    <3>1. rec' = rec \/ \E c \in Coins : LockJournal(c)
      BY <1>0, <1>2 DEF LockNext
    <3> QED
      BY <1>0, <3>1, WalletWrites DEF LockJournal, Like
  <2>2. faults' \in 0..MaxDiskFaults
    BY <1>2, FaultsAssumption DEF LockNext
  <2>3. pc = "lock" /\ pc' \in {"reserve", "cleanup", "arm"} /\ stage' = "before"
        /\ cur' \in Coins \union {NoCoin} /\ (pc' = "reserve" => cur' \in Coins)
        /\ wanted' \in SUBSET Coins
    BY <1>0, <1>2 DEF LockNext
  <2> QED
    BY <1>2, <2>1, <2>2, <2>3 DEF LockNext
<1>3. CASE Reserve
  BY <1>3 DEF Reserve, LockReserve, Holders
<1>4. CASE Own
  <2>1. rec' \in R /\ rec'.present = rec.present /\ rec'.txid = rec.txid
    BY <1>0, <1>4, WalletWrites DEF Like, Own
  <2>2. faults' \in 0..MaxDiskFaults
    BY <1>4, FaultsAssumption DEF Own
  <2>3. held' \in SUBSET Coins /\ locked' \in SUBSET Coins
    BY <1>4 DEF Own, LockOwn
  <2> QED
    BY <1>4, <2>1, <2>2, <2>3 DEF Own
<1>5. CASE Arm
  <2>1. rec' \in R /\ rec'.present = rec.present /\ rec'.txid = rec.txid
    BY <1>0, <1>5, WalletWrites DEF Like, Arm, RenewLocks, RenewRaises
  <2>2. lc' \in Lifecycles /\ lc'.release = lc.release /\ lc'.phase = "locked"
    BY <1>0, <1>5, LifecycleWrites DEF Arm
  <2> QED
    BY <1>5, <2>1, <2>2 DEF Arm, ThreadStates
<1> QED
  BY <1>1, <1>2, <1>3, <1>4, <1>5

LEMMA RenewStep ==
  ASSUME NEW acts, WalletActions \subseteq acts, Typed(acts), NEW next, next \notin AtCoin,
         RenewTo(next)
  PROVE  /\ Typed(acts)' /\ SameRecord
         /\ pc' \in {next, "cleanup"} /\ stage' = "before"
         /\ pc' = next /\ next # "cleanup" => locked' \subseteq Leased'
         /\ UNCHANGED <<released, recoveryVars, lc, locked, signed, extVars>>
<1> USE DEF Typed, Goto, AtCoin, Stages, SameRecord, thrVars, recoveryVars, extVars
<1>1. /\ rec' \in Records(Coins, Phases \union {"none"}, acts)
      /\ rec'.present = rec.present /\ rec'.txid = rec.txid
  BY WalletWrites DEF Like, RenewTo, RenewLocks, RenewRaises
<1>2. pc' = next /\ next # "cleanup" => locked' \subseteq Leased'
  BY DEF RenewTo, RenewLocks, Renewable, Leased
<1> QED
  BY <1>1, <1>2 DEF RenewTo

----------------------------------------------------------------------------
(* A journaled call, before and after the mutation.                        *)

LEMMA CallStep1 ==
  ASSUME NEW acts, WalletActions \subseteq acts, Typed(acts), pc \in acts,
         NEW phase \in Phases, CallBefore(phase) \/ CallAfter(phase)
  PROVE  /\ Typed(acts)'
         /\ rec'.present = rec.present /\ (rec.txid => rec'.txid)
         /\ \/ stage = "before" /\ stage' \in {"rpc", "failed"}
            \/ stage = "after" /\ stage' \in {"ok", "failed"}
         /\ stage' = "rpc" /\ signed => rec'.txid
         /\ UNCHANGED <<released, recoveryVars, pc, lc, locked, lease, signed, extVars>>
<1> USE DEF Typed, AtCoin, Stages, NoFault, DiskFault, thrVars, recoveryVars, extVars
<1>0. phase \in Phases \union {"none"} /\ rec.txid \in BOOLEAN /\ "none" \in acts
      /\ rec \in Records(Coins, Phases \union {"none"}, acts)
  BY DEF Records, WalletActions
<1>1. faults' \in 0..MaxDiskFaults
  BY FaultsAssumption DEF CallBefore, CallAfter
<1>2. CASE CallBefore(phase)
  <2>1. /\ rec' \in Records(Coins, Phases \union {"none"}, acts)
        /\ rec'.present = rec.present /\ (rec.txid => rec'.txid)
        /\ stage' = "rpc" /\ signed => rec'.txid
    BY <1>0, <1>2 DEF CallBefore, BeforeMutation, Records
  <2> QED
    BY <1>1, <1>2, <2>1 DEF CallBefore
<1>3. CASE CallAfter(phase)
  <2>1. /\ rec' \in Records(Coins, Phases \union {"none"}, acts)
        /\ rec'.present = rec.present /\ (rec.txid => rec'.txid)
    BY <1>0, <1>3 DEF CallAfter, AfterMutation, Records
  <2> QED
    BY <1>1, <1>3, <2>1 DEF CallAfter
<1> QED
  BY <1>2, <1>3

----------------------------------------------------------------------------
(* The finally block.                                                      *)

LEMMA TidyStep ==
  ASSUME NEW acts, WalletActions \subseteq acts, Typed(acts), TidyUp
  PROVE  /\ Typed(acts)' /\ SameRecord /\ SameLocks
         /\ pc \in CleaningUp /\ pc' \in CleaningUp /\ stage' \in {stage, "before"}
         /\ pc' \in {"release", "disown"} => lc.release \/ pc \in {"release", "disown"}
         /\ pc # "release" => UNCHANGED released
         /\ released \subseteq released'
         /\ UNCHANGED <<recoveryVars, signed, extVars>>
<1> DEFINE R == Records(Coins, Phases \union {"none"}, acts)
<1>0. rec \in R /\ held \in SUBSET Coins /\ outs \in SUBSET Coins /\ lc \in Lifecycles
      /\ cur \in Coins \union {NoCoin} /\ (pc \in AtCoin => cur \in Coins)
  BY DEF Typed
<1>l. CleanupFailed(lc) \in Lifecycles /\ CleanupFailed(lc).release = lc.release
      /\ CleanupFailed(lc).phase = lc.phase
  BY <1>0, LifecycleWrites
<1> USE DEF Typed, Goto, CleaningUp, AtCoin, Stages, SameRecord, SameLocks, NoFault, DiskFault,
        resVars, thrVars, recoveryVars, extVars
<1>1. CASE Unlock
  <2>1. rec' \in R /\ rec'.present = rec.present /\ rec'.txid = rec.txid
    BY <1>0, <1>1, WalletWrites DEF Like, Unlock, UnlockJournal
  <2>2. faults' \in 0..MaxDiskFaults
    BY <1>1, FaultsAssumption DEF Unlock
  <2>3. lc' \in Lifecycles /\ lc'.release = lc.release /\ lc'.phase = lc.phase
    BY <1>0, <1>l, <1>1 DEF Unlock
  <2>4. /\ pc = "cleanup" /\ lc.release /\ stage' \in {stage, "before"}
        /\ (pc' = "release" /\ cur' \in Coins) \/ (pc' = "cleanup" /\ cur' = cur)
        /\ locked' \in SUBSET Coins
    BY <1>1 DEF Unlock
  <2> QED
    BY <1>1, <2>1, <2>2, <2>3, <2>4 DEF Unlock
<1>2. CASE Release
  <2>1. lease' \in [Coins -> Holders] /\ released' \in SUBSET Coins /\ released \subseteq released'
    BY <1>0, <1>2 DEF Release, ReleaseIfOwned, Holders
  <2>2. lc' \in Lifecycles /\ lc'.release = lc.release /\ lc'.phase = lc.phase
    BY <1>0, <1>l, <1>2 DEF Release
  <2>3. /\ pc = "release" /\ stage' = "before"
        /\ (pc' = "disown" /\ cur' = cur) \/ (pc' = "cleanup" /\ cur' = NoCoin)
        /\ locked' \in SUBSET Coins
    BY <1>2 DEF Release
  <2> QED
    BY <1>2, <2>1, <2>2, <2>3 DEF Release
<1>3. CASE DropOwner
  <2>1. rec' \in R /\ rec'.present = rec.present /\ rec'.txid = rec.txid
    BY <1>0, <1>3, WalletWrites DEF Like, DropOwner
  <2>2. faults' \in 0..MaxDiskFaults
    BY <1>3, FaultsAssumption DEF DropOwner
  <2>3. lc' \in Lifecycles /\ lc'.release = lc.release /\ lc'.phase = lc.phase
    BY <1>0, <1>l, <1>3 DEF DropOwner
  <2> QED
    BY <1>3, <2>1, <2>2, <2>3 DEF DropOwner, Disown
<1>4. CASE StopRenewal
  BY <1>4 DEF StopRenewal
<1>5. CASE Close
  <2>1. lc' \in Lifecycles /\ lc'.release = lc.release /\ lc'.phase = lc.phase
    BY <1>0, <1>l, <1>5 DEF Close
  <2> QED
    BY <1>5, <2>1 DEF Close, ThreadStates
<1> QED
  BY <1>1, <1>2, <1>3, <1>4, <1>5 DEF TidyUp

\* The record is dropped only where the inputs may go, or at the end reached.
LEMMA ResolveStep ==
  ASSUME NEW acts, WalletActions \subseteq acts, Typed(acts), NEW terminal, ResolveAt(terminal)
  PROVE  /\ Typed(acts)'
         /\ pc = "resolve" /\ pc' = "done" /\ stage' = "before" /\ flock' = "none"
         /\ \/ SameRecord
            \/ ~rec'.present /\ ~rec'.txid /\ (lc.release \/ lc.phase = terminal)
         /\ UNCHANGED <<released, rcv, lc, signed, extVars>>
<1> USE DEF Typed, Goto, AtCoin, Stages, SameRecord, NoFault, DiskFault, thrVars, extVars,
        LockHolders
<1>1. \/ rec' = rec
      \/ rec' = NoRecord /\ (lc.release \/ lc.phase = terminal)
  BY DEF ResolveAt, ResolvableIfClean, ResolveRecord
<1>2. /\ rec' \in Records(Coins, Phases \union {"none"}, acts)
      /\ \/ SameRecord
         \/ ~rec'.present /\ ~rec'.txid /\ (lc.release \/ lc.phase = terminal)
  BY <1>1, NewRecords
<1>3. faults' \in 0..MaxDiskFaults
  BY FaultsAssumption DEF ResolveAt
<1> QED
  BY <1>2, <1>3 DEF ResolveAt

----------------------------------------------------------------------------
(* Interrupts, crashes, the renewal thread, and the other users of the     *)
(* wallet.                                                                 *)

LEMMA InterruptStep ==
  ASSUME NEW acts, Typed(acts), Interrupt
  PROVE  /\ Typed(acts)' /\ SameRecord
         /\ pc \in InterruptAt /\ pc' = "cleanup" /\ stage' = "before"
         /\ UNCHANGED <<released, recoveryVars, lc, signed, extVars>>
  BY DEF Typed, Interrupt, Goto, AtCoin, Stages, SameRecord, resVars, thrVars, recoveryVars, extVars

LEMMA CrashStep ==
  ASSUME NEW acts, Typed(acts), Crash
  PROVE  /\ Typed(acts)' /\ SameRecord
         /\ Live /\ pc' = "dead" /\ stage' = "before" /\ flock' = "none"
         /\ UNCHANGED <<released, rcv, lc, signed, extVars>>
  BY DEF Typed, Crash, AdapterLost, Goto, AtCoin, Stages, ThreadStates, LockHolders, SameRecord,
     extVars

LEMMA BackgroundStep ==
  ASSUME NEW acts, WalletActions \subseteq acts, Typed(acts), NEW calls,
         RenewalWakes \/ RenewalSteps \/ Lapse(calls) \/ Others
  PROVE  /\ Typed(acts)' /\ SameRecord
         /\ Live /\ pc \in calls => Leased \subseteq Leased'
         /\ UNCHANGED <<released, recoveryVars, opVars, extVars>>
<1> USE DEF Typed, SameRecord, recoveryVars, opVars, extVars
<1>0. rec \in Records(Coins, Phases \union {"none"}, acts) /\ held \in SUBSET Coins
      /\ outs \in SUBSET Coins
  OBVIOUS
<1>1. CASE RenewalWakes
  BY <1>1 DEF RenewalWakes, ThreadWake, ThreadStates, Leased
<1>2. CASE RenewalSteps
  <2>1. /\ rec' \in Records(Coins, Phases \union {"none"}, acts)
        /\ rec'.present = rec.present /\ rec'.txid = rec.txid
    BY <1>0, <1>2, WalletWrites DEF Like, RenewalSteps, ThreadStep, ThreadOutpoints, ThreadWrite,
       ThreadRenew, ThreadAfter, ThreadFails
  <2>2. /\ thr' \in ThreadStates /\ todo' \in SUBSET Coins /\ outs' \in SUBSET Coins
        /\ UNCHANGED <<lease, held, released>>
    BY <1>2 DEF RenewalSteps, ThreadStep, ThreadOutpoints, ThreadWrite, ThreadRenew,
       ThreadAfter, ThreadFails, ThreadStates
  <2> QED
    BY <1>2, <2>1, <2>2 DEF RenewalSteps, Leased
<1>3. CASE Lapse(calls)
  BY <1>3 DEF Lapse, LeaseLapses, Holders
<1>4. CASE Others
  BY <1>4 DEF Others, OtherReserves, Holders, Leased
<1> QED
  BY <1>1, <1>2, <1>3, <1>4

----------------------------------------------------------------------------
(* Reconciliation by a recover process.                                    *)

Reconciles(statuses) ==
  \/ RecoverBegin
  \/ \E b \in BitcoinView, s \in statuses : RecoverDecides(b, s) \/ RecoverKeeps(b, s)
  \/ \E c \in Coins : RecoverReleases(c)
  \/ RecoverResolves
  \/ RecoverAborts

LEMMA RecoverySteps ==
  ASSUME NEW acts, WalletActions \subseteq acts, Typed(acts), NEW statuses,
         Reconciles(statuses), UNCHANGED <<opVars, extVars, faults>>
  PROVE  /\ Typed(acts)'
         /\ \/ /\ rcv \in {"off", "check"} \/ flock = "none"
               /\ \/ flock = "none" /\ rec.present /\ flock' = "recovery" /\ rcv' = "check"
                  \/ /\ rcv = "check" /\ rcv' = "release" /\ UNCHANGED flock
                     /\ "ABSENT" \in statuses /\ (rec.txid => ~broadcast)
                  \/ rcv # "off" /\ rcv' = "off" /\ flock' = "none"
               /\ SameRecord /\ UNCHANGED released
            \/ /\ rcv = "release" /\ released \subseteq released'
               /\ \/ UNCHANGED <<flock, rcv>> /\ SameRecord
                  \/ flock' = "none" /\ rcv' = "off" /\ SameRecord /\ UNCHANGED released
                  \/ /\ flock' = "none" /\ rcv' = "off"
                     /\ ~rec'.present /\ ~rec'.txid /\ UNCHANGED released
<1> DEFINE R == Records(Coins, Phases \union {"none"}, acts)
<1>0. /\ rec \in R /\ rec.txid \in BOOLEAN /\ rec.outs \in SUBSET Coins
      /\ rec.owners \in SUBSET Coins /\ rec.phase \in Phases \union {"none"}
      /\ "recovery_release" \in acts
  BY DEF Typed, Records, WalletActions
<1> USE DEF Typed, SameRecord, resVars, thrVars, opVars, extVars, LockHolders
<1>1. CASE RecoverBegin \/ RecoverAborts
  BY <1>1 DEF RecoverBegin, RecoverAborts
<1>2. ASSUME NEW b \in BitcoinView, NEW s \in statuses, RecoverDecides(b, s)
      PROVE  /\ Typed(acts)' /\ SameRecord /\ UNCHANGED <<released, flock>>
             /\ rcv = "check" /\ rcv' = "release"
             /\ "ABSENT" \in statuses /\ (rec.txid => ~broadcast)
  BY <1>0, <1>2 DEF RecoverDecides, SafelyAbsent, BitcoinView
<1>3. ASSUME NEW b \in BitcoinView, NEW s \in statuses, RecoverKeeps(b, s)
      PROVE  /\ Typed(acts)' /\ SameRecord /\ UNCHANGED released
             /\ rcv = "check" /\ rcv' = "off" /\ flock' = "none"
  BY <1>3 DEF RecoverKeeps
<1>4. ASSUME NEW c \in Coins, RecoverReleases(c)
      PROVE  /\ Typed(acts)' /\ SameRecord /\ UNCHANGED <<flock, rcv>>
             /\ rcv = "release" /\ released \subseteq released'
  <2>1. rec' \in R /\ rec'.present = rec.present /\ rec'.txid = rec.txid
    BY <1>0, <1>4 DEF RecoverReleases, BeforeMutation, Records
  <2>2. lease' \in [Coins -> Holders] /\ released' \in SUBSET Coins /\ released \subseteq released'
    BY <1>4 DEF RecoverReleases, ReleaseIfOwned, Holders
  <2> QED
    BY <1>4, <2>1, <2>2 DEF RecoverReleases
<1>5. CASE RecoverResolves
  <2>1. rec' \in R /\ ~rec'.present /\ ~rec'.txid
    BY <1>5, NewRecords DEF RecoverResolves, ResolveRecord
  <2> QED
    BY <1>5, <2>1 DEF RecoverResolves
<1> HIDE DEF Typed, SameRecord
<1> QED
  BY <1>1, <1>2, <1>3, <1>4, <1>5 DEF Reconciles
----------------------------------------------------------------------------
(* The accounting of the reservations, behind LeaseJournaled and           *)
(* ResolvedClean: which coin is covered by what at each program point.     *)

\* The coin that lock() is about to reserve, or has just reserved.
AtHand == IF pc \in {"reserve", "own"} THEN {cur} ELSE {}

Taken == IF pc = "own" THEN {cur} ELSE {}

\* The program points at which the accounting says something of its own.
Elsewhere(p) == p \notin Locking \union Ended \union {"disown", "close", "resolve"}

\* The adapter holds what the wallet has reserved for it, and the record holds
\* the tokens of both; the renewal thread, which writes the tokens it finds, is
\* off whenever the adapter does not have them all.
Backed ==
  /\ pc \notin {"done", "dead"} => Leased \subseteq held \union Taken
  /\ Live => held \union AtHand \subseteq rec.owners
  /\ pc = "disown" => cur \notin Leased
  /\ pc = "idle" => held = {}
  /\ pc \in Locking \union Ended \union {"resolve"} => thr = "off"
  /\ rcv = "release" => Leased \subseteq rtodo

\* `locked` lists what is reserved, unless a write or a release has failed, and
\* a cleanup that releases has gone through all of it.
Listed ==
  /\ DiskHealthy /\ Live /\ ~lc.errors => Leased \subseteq locked \union Taken
  /\ pc \in {"close", "resolve"} /\ lc.release => locked = {}

Accounted(terminal) ==
  Backed /\ LeaseJournaled /\ Listed /\ ResolvedCleanAt(terminal)

\* The lifetime lock separates the operation from recovery.
LockHeld ==
  /\ Live <=> flock = "op"
  /\ rcv # "off" <=> flock = "recovery"
  /\ Live \/ rcv # "off" => rec.present
  /\ pc = "idle" => ~rec.present

LEMMA TokensWritten ==
  ASSUME NEW acts, rec \in Records(Coins, Phases \union {"none"}, acts)
  PROVE  /\ \A a, p, o, w, t : /\ BeforeMutation(rec, a, p, o, w, t).owners = w
                               /\ BeforeMutation(rec, a, p, o, w, t).present = rec.present
         /\ \A p, t : /\ AfterMutation(rec, p, t).owners = rec.owners
                      /\ AfterMutation(rec, p, t).present = rec.present
         /\ RenewPending.owners = held /\ RenewPending.present = rec.present
         /\ RenewedRecord.owners = held /\ RenewedRecord.present = rec.present
         /\ ReservationDone.owners = rec.owners /\ ReservationDone.present = rec.present
  BY DEF Records, BeforeMutation, AfterMutation, RenewPending, RenewedRecord, ReservationDone

LEMMA ErrorsKept ==
  \A l \in Lifecycles :
    /\ KeepLocks(l).errors = l.errors /\ ReleaseLocks(l).errors = l.errors
    /\ CleanupFailed(l).errors /\ CleanupFailed(l).release = l.release
    /\ CleanupFailed(l).phase = l.phase
    /\ \A p : /\ Transition(l, p).errors = l.errors
              /\ KeepLocks(Transition(l, p)).errors = l.errors
              /\ Transition(ReleaseLocks(l), p).errors = l.errors
  BY DEF Lifecycles, KeepLocks, ReleaseLocks, CleanupFailed, Transition

LEMMA TypedInit ==
  ASSUME NEW acts, WalletActions \subseteq acts, FundingInit
  PROVE  Typed(acts)
<1> USE DEF FundingInit, ReservationsInit, RecoveryInit
<1>1. rec \in Records(Coins, Phases \union {"none"}, acts) /\ lc \in Lifecycles
  BY NewRecords, LifecycleWrites
<1>2. lease \in [Coins -> Holders] /\ faults \in 0..MaxDiskFaults
  BY FaultsAssumption DEF Holders
<1> QED
  BY <1>1, <1>2 DEF Typed, ThreadStates, LockHolders, Stages, AtCoin

LEMMA AccountedInit ==
  ASSUME NEW terminal, FundingInit
  PROVE  Accounted(terminal)
  BY DEF FundingInit, ReservationsInit, RecoveryInit, NoRecord, Accounted, Backed, LeaseJournaled,
     Listed, ResolvedCleanAt, Leased, AtHand, Taken, Live, Ended, Locking

LEMMA AccountedStill ==
  ASSUME NEW terminal, Accounted(terminal),
         UNCHANGED <<lease, held, thr, rec, recoveryVars, pc, cur, lc, locked, faults>>
  PROVE  Accounted(terminal)'
  BY DEF Accounted, Backed, LeaseJournaled, Listed, ResolvedCleanAt, Leased, AtHand, Taken, Live,
     Ended, Locking, DiskHealthy, recoveryVars

LEMMA AccountedBegin ==
  ASSUME NEW terminal, LockHeld, Accounted(terminal), Begin
  PROVE  Accounted(terminal)'
  BY DEF Begin, Goto, CreateRecord, Accounted, Backed, LeaseJournaled, Listed, ResolvedCleanAt,
     Leased, AtHand, Taken, Live, Ended, Locking, LockHeld, thrVars

LEMMA AccountedLocking ==
  ASSUME NEW terminal, NEW acts, Typed(acts), LockHeld, Accounted(terminal),
         Plan \/ LockNext \/ Reserve \/ Own \/ Arm
  PROVE  Accounted(terminal)'
<1>0. /\ rec \in Records(Coins, Phases \union {"none"}, acts) /\ lc \in Lifecycles
      /\ faults \in 0..MaxDiskFaults /\ rec.present /\ pc \in Locking /\ Live
      /\ cur \in Coins \union {NoCoin} /\ thr = "off" /\ rcv = "off"
      /\ lease \in [Coins -> Holders]
  BY DEF Typed, Plan, LockNext, Reserve, Own, Arm, LockHeld, Live, Ended, Locking, Accounted,
     Backed
<1> USE <1>0 DEF Accounted, Backed, LeaseJournaled, Listed, ResolvedCleanAt, AtHand, Taken, Live, Ended,
        Locking, Goto, NoFault, DiskFault, DiskHealthy, resVars, thrVars, recoveryVars
<1>1. CASE Plan
  BY <1>1 DEF Plan, Leased
<1>2. CASE LockNext
  <2>1. rec'.present = rec.present
        /\ \/ rec' = rec /\ pc' \in {"cleanup", "arm"}
           \/ rec'.owners = held \union {cur'} /\ pc' = "reserve" /\ cur' \in Coins
    <3>1. CASE rec' = rec /\ pc' \in {"cleanup", "arm"}
      BY <3>1
    <3>2. ASSUME NEW c \in wanted, LockJournal(c), cur' = c, pc' = "reserve"
          PROVE  rec'.present = rec.present /\ rec'.owners = held \union {cur'}
      BY <3>2 DEF LockJournal, BeforeMutation, Records
    <3> QED
      BY <1>2, <3>1, <3>2 DEF LockNext, Typed
  <2> QED
    BY <1>2, <2>1, FaultsAssumption DEF LockNext, Leased
<1>3. CASE Reserve
  <2>1. Leased' \subseteq Leased \union {cur}
    BY <1>3 DEF Reserve, LockReserve, Leased
  <2>2. pc' = "cleanup" => Leased' = Leased
    BY <1>3 DEF Reserve, Leased
  <2> QED
    BY <1>3, <2>1, <2>2 DEF Reserve
<1>4. CASE Own
  <2>1. rec'.present = rec.present /\ rec'.owners = rec.owners /\ Leased' = Leased
    BY <1>4, TokensWritten DEF Own, Leased
  <2> QED
    BY <1>4, <2>1, FaultsAssumption DEF Own, LockOwn
<1>5. CASE Arm
  <2>1. rec'.present = rec.present /\ rec'.owners \in {rec.owners, held} /\ Leased' = Leased
    BY <1>5, TokensWritten DEF Arm, RenewLocks, RenewRaises, Leased
  <2>2. lc'.errors = lc.errors
    BY <1>5, ErrorsKept DEF Arm
  <2> QED
    BY <1>5, <2>1, <2>2 DEF Arm
<1> QED
  BY <1>1, <1>2, <1>3, <1>4, <1>5

\* A step of the operation that neither locks nor unlocks: it may renew.
LEMMA AccountedAside ==
  ASSUME NEW terminal, LockHeld, Accounted(terminal), Elsewhere(pc), Elsewhere(pc'),
         UNCHANGED <<lease, held, thr, recoveryVars, locked>>,
         rec'.present = rec.present, rec'.owners \in {rec.owners, held},
         DiskHealthy' => DiskHealthy, lc.errors => lc'.errors
  PROVE  Accounted(terminal)'
  BY DEF Accounted, Backed, LeaseJournaled, Listed, ResolvedCleanAt, Leased, AtHand, Taken, Live, Ended,
     Locking, Elsewhere, LockHeld, recoveryVars

LEMMA AccountedRenew ==
  ASSUME NEW terminal, NEW acts, Typed(acts), LockHeld, Accounted(terminal), NEW next,
         Elsewhere(pc), Elsewhere(next), RenewTo(next)
  PROVE  Accounted(terminal)'
<1>1. rec'.present = rec.present /\ rec'.owners \in {rec.owners, held}
  BY TokensWritten DEF Typed, RenewTo, RenewLocks, RenewRaises
<1>2. Elsewhere(pc') /\ UNCHANGED <<lease, held, thr, recoveryVars, locked, lc, faults>>
  BY DEF RenewTo, Goto, Elsewhere, Locking, Ended, thrVars
<1> QED
  BY <1>1, <1>2, AccountedAside DEF DiskHealthy

LEMMA AccountedCall ==
  ASSUME NEW terminal, NEW acts, Typed(acts), LockHeld, Accounted(terminal), NEW phase,
         Elsewhere(pc), CallBefore(phase) \/ CallAfter(phase)
  PROVE  Accounted(terminal)'
<1>1. rec'.present = rec.present /\ rec'.owners \in {rec.owners, held}
  BY TokensWritten DEF Typed, CallBefore, CallAfter
<1>2. UNCHANGED <<lease, held, thr, recoveryVars, locked, lc, pc>>
  BY DEF CallBefore, CallAfter, thrVars
<1>3. DiskHealthy' => DiskHealthy
  BY FaultsAssumption DEF CallBefore, CallAfter, DiskHealthy, NoFault, DiskFault, Typed
<1> QED
  BY <1>1, <1>2, <1>3, AccountedAside

LEMMA AccountedTidy ==
  ASSUME NEW terminal, NEW acts, Typed(acts), LockHeld, Accounted(terminal), TidyUp
  PROVE  Accounted(terminal)'
<1>0. /\ rec \in Records(Coins, Phases \union {"none"}, acts) /\ lc \in Lifecycles
      /\ faults \in 0..MaxDiskFaults /\ rec.present /\ Live /\ rcv = "off"
      /\ lease \in [Coins -> Holders] /\ pc \in CleaningUp \ {"resolve"}
      /\ (pc \in AtCoin => cur \in Coins)
  BY DEF Typed, TidyUp, Unlock, Release, DropOwner, StopRenewal, Close, CleaningUp, LockHeld,
     Live, Ended
<1>e. CleanupFailed(lc).errors /\ CleanupFailed(lc).release = lc.release
  BY <1>0, ErrorsKept
<1> USE <1>0, <1>e DEF Accounted, Backed, LeaseJournaled, Listed, ResolvedCleanAt, AtHand, Taken, Live,
        Ended, Locking, Goto, NoFault, DiskFault, DiskHealthy, resVars, thrVars, recoveryVars,
        CleaningUp, AtCoin
<1>1. CASE Unlock
  <2>1. rec'.present = rec.present /\ rec'.owners \in {rec.owners, held} /\ Leased' = Leased
    <3>1. Leased' = Leased /\ (rec' = rec \/ UnlockJournal)
      BY <1>1 DEF Unlock, Leased
    <3> QED
      BY <3>1 DEF UnlockJournal, BeforeMutation, Records
  <2> QED
    BY <1>1, <2>1, FaultsAssumption DEF Unlock
<1>2. CASE Release
  <2>1. Leased' \subseteq Leased /\ (pc' = "disown" => cur' \notin Leased')
    BY <1>2 DEF Release, ReleaseIfOwned, Leased, Holders
  <2> QED
    BY <1>2, <2>1 DEF Release
<1>3. CASE DropOwner
  <2>1. rec'.present = rec.present /\ rec'.owners = rec.owners /\ Leased' = Leased
    BY <1>3, TokensWritten DEF DropOwner, Leased
  <2> QED
    BY <1>3, <2>1 DEF DropOwner, Disown
<1>4. CASE StopRenewal
  BY <1>4 DEF StopRenewal, Leased
<1>5. CASE Close
  BY <1>5 DEF Close, Leased
<1> QED
  BY <1>1, <1>2, <1>3, <1>4, <1>5 DEF TidyUp

\* The record goes at the terminal phase, or with nothing left in `locked`.
LEMMA AccountedResolve ==
  ASSUME NEW terminal, NEW acts, Typed(acts), LockHeld, Accounted(terminal), ResolveAt(terminal)
  PROVE  Accounted(terminal)'
<1>0. lc \in Lifecycles /\ faults \in 0..MaxDiskFaults /\ rec.present /\ pc = "resolve" /\ Live
      /\ rcv = "off"
  BY DEF Typed, ResolveAt, LockHeld, Live, Ended
<1>1. /\ rec' = rec \/ (rec' = NoRecord /\ ~lc.errors /\ (lc.release \/ lc.phase = terminal))
      /\ UNCHANGED <<lease, thr, rcv, rtodo, lc>> /\ pc' = "done"
      /\ faults' \in {faults, faults - 1}
  BY <1>0 DEF ResolveAt, ResolvableIfClean, ResolveRecord, Goto, NoFault, DiskFault, thrVars
<1>2. Leased' = Leased /\ Leased \subseteq rec.owners
  BY <1>0, <1>1 DEF Leased, Accounted, LeaseJournaled
<1>3. DiskHealthy' => DiskHealthy
  BY <1>0, <1>1, FaultsAssumption DEF DiskHealthy
<1>4. rec' # rec /\ DiskHealthy => lc.phase = terminal \/ Leased = {}
  BY <1>0, <1>1 DEF Accounted, Listed, Taken
<1>5. ~NoRecord.present
  BY DEF NoRecord
<1> QED
  BY <1>0, <1>1, <1>2, <1>3, <1>4, <1>5 DEF Accounted, Backed, LeaseJournaled, Listed,
     ResolvedCleanAt, AtHand, Taken, Live, Ended, Locking

\* An interrupt right after a reservation, before `locked` and the adapter know
\* of it, would leave the coin to a record that the next write replaces.
LEMMA AccountedInterrupt ==
  ASSUME NEW terminal, LockHeld, Accounted(terminal), "own" \notin InterruptAt,
         InterruptAt \intersect (Ended \union {"disown", "close", "resolve"}) = {}, Interrupt
  PROVE  Accounted(terminal)'
<1>1. /\ pc' = "cleanup" /\ rec.present /\ Live /\ rcv = "off" /\ pc # "own"
      /\ UNCHANGED <<lease, held, thr, rec, rcv, rtodo, lc, locked, faults>>
  BY DEF Interrupt, Goto, LockHeld, Live, Ended, resVars, thrVars, recoveryVars
<1> QED
  BY <1>1 DEF Accounted, Backed, LeaseJournaled, Listed, ResolvedCleanAt, Leased, AtHand, Taken, Live,
     Ended, Locking, DiskHealthy

LEMMA AccountedCrash ==
  ASSUME NEW terminal, LockHeld, Accounted(terminal), Crash
  PROVE  Accounted(terminal)'
  BY DEF Crash, AdapterLost, Goto, LockHeld, Accounted, Backed, LeaseJournaled, Listed,
     ResolvedCleanAt, Leased, AtHand, Taken, Live, Ended, Locking, DiskHealthy

LEMMA AccountedBackground ==
  ASSUME NEW terminal, NEW acts, Typed(acts), LockHeld, Accounted(terminal), NEW calls,
         RenewalWakes \/ RenewalSteps \/ Lapse(calls) \/ Others
  PROVE  Accounted(terminal)'
<1>0. rec \in Records(Coins, Phases \union {"none"}, acts) /\ lease \in [Coins -> Holders]
  BY DEF Typed
<1> USE DEF Accounted, Backed, LeaseJournaled, Listed, ResolvedCleanAt, AtHand, Taken, Live, Ended,
        Locking, DiskHealthy, recoveryVars, opVars, extVars, LockHeld
<1>1. CASE RenewalWakes
  BY <1>1 DEF RenewalWakes, ThreadWake, Leased
<1>2. CASE RenewalSteps
  <2>1. /\ rec'.present = rec.present /\ rec'.owners \in {rec.owners, held} /\ thr # "off"
        /\ UNCHANGED <<lease, held>>
    <3>1. CASE ThreadWrite
      BY <1>0, <3>1 DEF ThreadWrite, BeforeMutation, Records
    <3>2. CASE ThreadAfter
      BY <1>0, <3>2, TokensWritten DEF ThreadAfter
    <3>3. CASE ThreadOutpoints \/ ThreadRenew \/ ThreadFails
      BY <3>3 DEF ThreadOutpoints, ThreadRenew, ThreadFails
    <3> QED
      BY <1>2, <3>1, <3>2, <3>3 DEF RenewalSteps, ThreadStep
  <2>2. UNCHANGED <<pc, cur, lc, locked, rcv, rtodo, faults>>
    BY <1>2 DEF RenewalSteps
  <2> QED
    BY <2>1, <2>2 DEF Leased
<1>3. CASE Lapse(calls) \/ Others
  <2>1. Leased' \subseteq Leased
    BY <1>0, <1>3 DEF Lapse, LeaseLapses, Others, OtherReserves, Leased, Holders
  <2>2. UNCHANGED <<held, rec, thr, pc, cur, lc, locked, rcv, rtodo, faults>>
    BY <1>3 DEF Lapse, LeaseLapses, Others, OtherReserves
  <2> QED
    BY <2>1, <2>2
<1> QED
  BY <1>1, <1>2, <1>3

\* Recovery releases what the record has a token for, and that is all there is.
LEMMA AccountedRecovery ==
  ASSUME NEW terminal, NEW acts, Typed(acts), LockHeld, Accounted(terminal), NEW statuses,
         Reconciles(statuses), UNCHANGED <<opVars, faults>>
  PROVE  Accounted(terminal)'
<1>0. rec \in Records(Coins, Phases \union {"none"}, acts) /\ lease \in [Coins -> Holders]
  BY DEF Typed
<1>a. /\ ~Live /\ pc # "idle"
      /\ UNCHANGED <<pc, cur, lc, locked, faults>>
  BY DEF LockHeld, Reconciles, RecoverBegin, RecoverDecides, RecoverKeeps, RecoverReleases,
     RecoverResolves, RecoverAborts, opVars
<1> USE <1>0, <1>a DEF Accounted, Backed, LeaseJournaled, Listed, ResolvedCleanAt, AtHand, Taken, Live,
        Ended, Locking, DiskHealthy, resVars, thrVars, LockHeld
<1>1. CASE RecoverBegin \/ RecoverAborts
  BY <1>1 DEF RecoverBegin, RecoverAborts, Leased
<1>2. ASSUME NEW b \in BitcoinView, NEW s \in statuses, RecoverDecides(b, s) \/ RecoverKeeps(b, s)
      PROVE  Accounted(terminal)'
  BY <1>2 DEF RecoverDecides, RecoverKeeps, Leased
<1>3. ASSUME NEW c \in Coins, RecoverReleases(c)
      PROVE  Accounted(terminal)'
  <2>1. rec'.present = rec.present /\ rec'.owners = rec.owners
    BY <1>3, TokensWritten DEF RecoverReleases
  <2>2. Leased' = Leased \ {c}
    BY <1>3 DEF RecoverReleases, ReleaseIfOwned, Leased, Holders
  <2> QED
    BY <1>3, <2>1, <2>2 DEF RecoverReleases
<1>4. CASE RecoverResolves
  BY <1>4 DEF RecoverResolves, ResolveRecord, NoRecord, Leased
<1> QED
  BY <1>1, <1>2, <1>3, <1>4 DEF Reconciles
=============================================================================
