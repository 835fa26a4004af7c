----------------------- MODULE MultiOpenChannelProofs -----------------------
(***************************************************************************)
(* Theorems about MultiOpenChannel, for every set of coins and of peers,   *)
(* every number of failing journal writes and every set of interrupt       *)
(* points.                                                                 *)
(***************************************************************************)
EXTENDS MultiOpenChannel, FundingProofs

(***************************************************************************)
(* The inductive invariant.                                                *)
(***************************************************************************)

\* CLN may hold unsigned fundings, but nothing that can be broadcast.
Harmless == ~broadcast /\ \A p \in Peers : cln[p] \in {"none", "started"}

NothingStarted == \A p \in Peers : cln[p] = "none"

\* The program points before and after the first completion.
BeforeStart == {"idle"} \union Locking \union {"renew_start"}

BeforeComplete == BeforeStart \union {"start", "prep", "confirm", "renew_complete"}

AfterStart == {"prep", "confirm", "renew_complete", "complete", "renew_send", "sendpsbt"}

\* Where the inputs may be given back.
ReleaseSafe ==
  /\ lc.release => Harmless
  /\ rcv = "release" => Harmless
  /\ pc \in AfterStart => ~lc.release
  /\ pc \in {"release", "disown"} => lc.release
  /\ released # {} => pc \in CleaningUp \union {"done", "dead"}

\* How far the loops over the peers have got.
Loops ==
  /\ pc \in BeforeStart => NothingStarted /\ started = {}
  /\ pc \in BeforeComplete => Harmless
  /\ pc = "start" => started \union left = Peers
  /\ pc \in {"start", "complete"} /\ stage \in {"after", "ok"} => peer \in left
  /\ pc \in AfterStart => started = Peers /\ Peers # {}
  /\ pc = "complete" => \A p \in Peers : cln[p] = "withheld" \/ p \in left
  /\ pc = "complete" /\ stage \in {"after", "ok"} => cln[peer] = "withheld"
  /\ pc = "renew_send" \/ (pc = "sendpsbt" /\ stage \in {"before", "rpc"})
       => \A p \in Peers : cln[p] = "withheld"

\* A withdrawal that reports no error has cancelled every peer it has visited.
Withdrawing ==
  pc = "withdraw" =>
    /\ ~broadcast
    /\ why = "start" => Harmless
    /\ why # "start" /\ ~lc.errors => \A p \in Peers : cln[p] = "none" \/ p \in left

\* What is durable by the time anything can be broadcast.
Progress ==
  /\ broadcast => pc \in {"sendpsbt", "cleanup", "close", "resolve", "done", "dead"}
  /\ (\E p \in Peers : cln[p] = "open") => broadcast
  /\ pc \in AfterStart \ {"prep"} => signed
  /\ pc \in {"complete", "sendpsbt"} /\ stage = "rpc" => rec.txid
  /\ rec.present /\ ~Harmless => rec.txid

\* Without an interrupt in the middle of the starts or of a withdrawal, what is
\* up for release is not even started at CLN.
ReleasedAfterAll ==
  InterruptAt \intersect {"start", "withdraw"} = {} =>
    (pc \in CleaningUp /\ lc.release => NothingStarted)

IInv ==
  /\ Typed(Actions) /\ pc \in Pcs
  /\ cln \in [Peers -> ClnStates] /\ started \in SUBSET Peers /\ left \in SUBSET Peers
  /\ peer \in Peers \union {NoPeer} /\ why \in Reasons
  /\ states \in [Peers -> FundingStatus \union {"unasked", "error"}]
  /\ LockHeld /\ ReleaseSafe /\ Loops /\ Withdrawing /\ Progress /\ HandOffRecorded
  /\ ReleasedAfterAll

----------------------------------------------------------------------------
LEMMA ActionsOfWallet == WalletActions \subseteq Actions /\ Calls \subseteq Actions
  BY DEF WalletActions, Actions

LEMMA TypesOf == IInv => TypeOK
  BY DEF IInv, Typed, TypeOK

LEMMA InitIInv == Init => IInv
<1> SUFFICES ASSUME Init PROVE IInv
  OBVIOUS
<1> USE DEF Init, FundingInit, ReservationsInit, RecoveryInit
<1>1. Typed(Actions)
  <2>1. rec \in Records(Coins, Phases \union {"none"}, Actions) /\ lc \in Lifecycles
    BY NewRecords, LifecycleWrites, ActionsOfWallet
  <2>2. lease \in [Coins -> Holders] /\ faults \in 0..MaxDiskFaults
    BY FaultsAssumption DEF Holders
  <2> QED
    BY <2>1, <2>2 DEF Typed, ThreadStates, LockHolders, Stages, AtCoin
<1>2. /\ pc \in Pcs /\ cln \in [Peers -> ClnStates] /\ why \in Reasons
      /\ states \in [Peers -> FundingStatus \union {"unasked", "error"}]
  BY DEF Pcs, Ended, ClnStates, Reasons
<1>3. lc.release /\ lc.phase = "prestart" /\ ~rec.present /\ ~rec.txid
  BY LifecycleWrites, NewRecords, ActionsOfWallet
<1> QED
  BY <1>1, <1>2, <1>3 DEF IInv, LockHeld, ReleaseSafe, Loops, Withdrawing, Progress,
     HandOffRecorded, ReleasedAfterAll, Harmless, NothingStarted, BeforeStart, BeforeComplete,
     AfterStart, Live, Ended, Locking, CleaningUp, Calls

(***************************************************************************)
(* The steps shared with the other operations leave CLN and the loops      *)
(* alone.                                                                  *)
(***************************************************************************)
LEMMA SharedIInv == IInv /\ SharedStep => IInv'
<1> SUFFICES ASSUME IInv, SharedStep PROVE IInv'
  OBVIOUS
<1>0. WalletActions \subseteq Actions /\ Calls \subseteq Actions /\ Typed(Actions)
  BY ActionsOfWallet DEF IInv
<1>u. UNCHANGED <<cln, broadcast, started, left, peer, states, why>>
  BY DEF SharedStep, peerVars
<1>p. Locking \union CleaningUp \union {"renew_start", "done", "dead"} \subseteq Pcs
  BY DEF Pcs, Renewals, Ended
<1> USE DEF IInv, LockHeld, ReleaseSafe, Loops, Withdrawing, Progress, HandOffRecorded,
        ReleasedAfterAll, Harmless, NothingStarted, BeforeStart, BeforeComplete, AfterStart,
        Live, Ended, Locking, CleaningUp, Calls, SameRecord, SameLocks, recoveryVars
<1>1. CASE Begin
  <2>1. /\ Typed(Actions)' /\ pc = "idle" /\ pc' = "plan" /\ flock = "none" /\ flock' = "op"
        /\ rec'.present /\ ~rec'.txid
        /\ UNCHANGED <<released, rcv, lc, signed>>
    BY <1>0, <1>1, BeginStep
  <2> QED
    BY <1>p, <1>u, <2>1
<1>2. CASE Plan \/ LockNext \/ Reserve \/ Own \/ Arm
  <2>1. /\ Typed(Actions)' /\ SameRecord
        /\ pc \in Locking /\ pc' \in Locking \union {"renew_start", "cleanup"}
        /\ lc'.phase \in {lc.phase, "locked"} /\ lc'.release = lc.release
        /\ UNCHANGED <<released, recoveryVars, signed>>
    BY <1>0, <1>2, LockingStep
  <2> QED
    BY <1>p, <1>u, <2>1
<1>3. CASE TidyUp
  <2>1. /\ Typed(Actions)' /\ SameRecord /\ SameLocks
        /\ pc \in CleaningUp /\ pc' \in CleaningUp
        /\ pc' \in {"release", "disown"} => lc.release \/ pc \in {"release", "disown"}
        /\ UNCHANGED <<recoveryVars, signed>>
    BY <1>0, <1>3, TidyStep
  <2> QED
    BY <1>p, <1>u, <2>1
<1>4. CASE Resolve
  <2>1. /\ Typed(Actions)' /\ pc = "resolve" /\ pc' = "done" /\ flock' = "none"
        /\ \/ SameRecord
           \/ ~rec'.present /\ ~rec'.txid /\ (lc.release \/ lc.phase = "broadcast")
        /\ UNCHANGED <<released, rcv, lc, signed>>
    BY <1>0, <1>4, ResolveStep DEF Resolve
  <2> QED
    BY <1>p, <1>u, <2>1
<1>5. CASE pc \in Calls /\ (CallBefore(CallPhase) \/ CallAfter(CallPhase))
  <2>1. CallPhase \in Phases
    BY <1>5 DEF CallPhase, Phases
  <2>2. /\ Typed(Actions)'
        /\ rec'.present = rec.present /\ (rec.txid => rec'.txid)
        /\ \/ stage = "before" /\ stage' \in {"rpc", "failed"}
           \/ stage = "after" /\ stage' \in {"ok", "failed"}
        /\ stage' = "rpc" /\ signed => rec'.txid
        /\ UNCHANGED <<released, recoveryVars, pc, lc, signed>>
    BY <1>0, <1>5, <2>1, CallStep1
  <2> QED
    BY <1>5, <1>u, <2>2
<1> QED
  BY <1>1, <1>2, <1>3, <1>4, <1>5 DEF SharedStep, CleanupStep

LEMMA RenewIInv == IInv /\ RenewLoop => IInv'
<1> SUFFICES ASSUME IInv, RenewLoop PROVE IInv'
  OBVIOUS
<1>0. WalletActions \subseteq Actions /\ Typed(Actions)
  BY ActionsOfWallet DEF IInv
<1>1. PICK next \in {"start", "complete", "sendpsbt"} :
        /\ RenewTo(next)
        /\ \/ pc = "renew_start" /\ next = "start" /\ left' = Peers
           \/ pc = "renew_complete" /\ next = "complete" /\ left' = started
           \/ pc = "renew_send" /\ next = "sendpsbt" /\ left' = {}
  BY DEF RenewLoop, Renew, Renewals
<1>2. /\ Typed(Actions)' /\ SameRecord /\ pc' \in {next, "cleanup"} /\ stage' = "before"
      /\ UNCHANGED <<released, recoveryVars, lc, signed, extVars>>
  BY <1>0, <1>1, RenewStep DEF AtCoin
<1>3. UNCHANGED <<cln, broadcast, started, peer, states, why>> /\ {next, "cleanup"} \subseteq Pcs
      /\ left' \in SUBSET Peers
  BY <1>1, <1>2 DEF RenewLoop, extVars, Pcs, Calls, CleaningUp, IInv
<1> QED
  BY <1>1, <1>2, <1>3 DEF IInv, LockHeld, ReleaseSafe, Loops, Withdrawing, Progress,
     HandOffRecorded, ReleasedAfterAll, Harmless, NothingStarted, BeforeStart, BeforeComplete,
     AfterStart, Live, Ended, Locking, CleaningUp, SameRecord, recoveryVars

(***************************************************************************)
(* The calls: a completion, and the sendpsbt, follow the durable id.       *)
(***************************************************************************)
LEMMA PeerRpcIInv == IInv /\ PeerRpc => IInv'
<1> SUFFICES ASSUME IInv, PeerRpc PROVE IInv'
  OBVIOUS
<1>1. PICK p \in left : /\ peer' = p
                        /\ \/ AppliedTo(pc, p) /\ stage' \in {"after", "failed"}
                           \/ UNCHANGED cln /\ stage' = "failed"
  BY DEF PeerRpc
<1>2. /\ pc \in {"start", "complete"} /\ stage = "rpc" /\ stage' \in {"after", "failed"}
      /\ UNCHANGED <<released, rec, recoveryVars, pc, lc, signed, broadcast, started, left,
                     states, why>>
  BY <1>1 DEF PeerRpc, resVars
<1>3. p \in Peers /\ cln \in [Peers -> ClnStates] /\ rec.present /\ flock = "op" /\ rcv = "off"
  BY <1>1, <1>2 DEF IInv, LockHeld, Live, Ended
<1>4. /\ cln' \in [Peers -> ClnStates]
      /\ \A q \in Peers : q # p => cln'[q] = cln[q]
      /\ \/ cln'[p] = cln[p] /\ stage' = "failed"
         \/ pc = "start" /\ cln[p] = "none" /\ cln'[p] = "started"
         \/ pc = "complete" /\ cln[p] = "started" /\ cln'[p] = "withheld"
  BY <1>1, <1>2, <1>3 DEF AppliedTo, SetCln, ClnStates
<1>5. Typed(Actions)' /\ (pc \in Pcs)' /\ (peer \in Peers \union {NoPeer})'
  BY <1>1, <1>2, <1>3 DEF PeerRpc, IInv, Typed, Stages, resVars, thrVars, recoveryVars
<1>6. LockHeld' /\ ReleaseSafe'
  BY <1>2, <1>3, <1>4 DEF IInv, LockHeld, ReleaseSafe, Harmless, Live, AfterStart, Loops,
     BeforeComplete, CleaningUp, recoveryVars
<1>7. Loops'
  BY <1>1, <1>2, <1>3, <1>4 DEF IInv, Loops, Harmless, BeforeStart, BeforeComplete, AfterStart,
     Locking
<1>8. Withdrawing' /\ ReleasedAfterAll'
  BY <1>2 DEF Withdrawing, ReleasedAfterAll, CleaningUp
<1>9. Progress' /\ HandOffRecorded'
  <2>1. (rec.txid \/ Harmless') /\ (\A q \in Peers : cln'[q] = "open" => cln[q] = "open")
    BY <1>2, <1>3, <1>4 DEF IInv, Progress, Loops, BeforeComplete, Harmless
  <2> QED
    BY <1>2, <1>3, <2>1 DEF IInv, Progress, HandOffRecorded, Harmless, AfterStart
<1> QED
  BY <1>2, <1>4, <1>5, <1>6, <1>7, <1>8, <1>9 DEF IInv

LEMMA SendRpcIInv == IInv /\ SendRpc => IInv'
<1> SUFFICES ASSUME IInv, SendRpc PROVE IInv'
  OBVIOUS
<1>1. /\ pc = "sendpsbt" /\ stage = "rpc" /\ stage' \in {"after", "failed"}
      /\ UNCHANGED <<released, rec, recoveryVars, pc, lc, signed, started, left, peer, states, why>>
      /\ \/ UNCHANGED <<cln, broadcast>> /\ stage' = "failed"
         \/ /\ cln' = [p \in Peers |-> IF cln[p] = "withheld" THEN "open" ELSE cln[p]]
            /\ broadcast' = TRUE
  BY DEF SendRpc, resVars, extVars, peerVars
<1>2. /\ Typed(Actions)' /\ cln' \in [Peers -> ClnStates] /\ rec.present /\ rec.txid
      /\ flock = "op" /\ rcv = "off" /\ ~lc.release
  <2>1. cln' \in [Peers -> ClnStates] /\ broadcast' \in BOOLEAN
    BY <1>1 DEF IInv, ClnStates, Typed
  <2> QED
    BY <1>1, <2>1 DEF SendRpc, IInv, Typed, Stages, LockHeld, Live, Ended, Progress, ReleaseSafe,
       AfterStart, resVars, thrVars, recoveryVars
<1> QED
  BY <1>1, <1>2 DEF IInv, LockHeld, ReleaseSafe, Loops, Withdrawing, Progress,
     HandOffRecorded, ReleasedAfterAll, Harmless, BeforeStart, BeforeComplete,
     AfterStart, Live, Ended, Locking, CleaningUp, recoveryVars

(***************************************************************************)
(* The outcomes that go on with the operation or leave it to recovery.     *)
(***************************************************************************)
LEMMA GoOnIInv ==
  IInv /\ (StartedOne \/ CompletedOne \/ Sent) => IInv'
<1> SUFFICES ASSUME IInv, StartedOne \/ CompletedOne \/ Sent PROVE IInv'
  OBVIOUS
<1>0. /\ lc \in Lifecycles /\ {"started", "withheld", "broadcast"} \subseteq Phases
      /\ Typed(Actions)
  BY DEF IInv, Typed, Phases
<1>l. /\ \A p \in {"started", "broadcast"} :
           /\ ~KeepLocks(Transition(lc, p)).release /\ KeepLocks(Transition(lc, p)).phase = p
           /\ KeepLocks(Transition(lc, p)) \in Lifecycles
      /\ Transition(lc, "withheld").release = lc.release
      /\ Transition(lc, "withheld").phase = "withheld" /\ Transition(lc, "withheld") \in Lifecycles
  <2>1. "started" \in Phases /\ "withheld" \in Phases /\ "broadcast" \in Phases
    BY <1>0
  <2>2. \A p \in Phases :
          /\ ~KeepLocks(Transition(lc, p)).release /\ KeepLocks(Transition(lc, p)).phase = p
          /\ KeepLocks(Transition(lc, p)) \in Lifecycles
          /\ Transition(lc, p).release = lc.release /\ Transition(lc, p).phase = p
          /\ Transition(lc, p) \in Lifecycles
    BY <1>0, LifecycleWrites
  <2> QED
    BY <2>1, <2>2
<1>p. {"start", "prep", "complete", "renew_send", "cleanup"} \subseteq Pcs \ AtCoin
  BY DEF Pcs, Calls, Renewals, CleaningUp, AtCoin
<1> USE DEF IInv, LockHeld, ReleaseSafe, Loops, Withdrawing, Progress,
     HandOffRecorded, ReleasedAfterAll, Harmless, BeforeStart, BeforeComplete,
     AfterStart, Live, Ended, Locking, CleaningUp, recoveryVars
<1>1. CASE StartedOne
  <2>1. /\ pc = "start" /\ stage = "ok" /\ stage' = "before" /\ pc' \in {"start", "prep"}
        /\ started' = started \union {peer} /\ left' = left \ {peer} /\ peer' = NoPeer
        /\ \/ pc' = "start" /\ lc' = lc
           \/ pc' = "prep" /\ left = {peer} /\ ~lc'.release /\ lc'.phase = "started"
        /\ lc' \in Lifecycles
        /\ UNCHANGED <<resVars, recoveryVars, cur, wanted, locked, signed, cln, broadcast, faults,
                       states, why>>
    BY <1>0, <1>l, <1>1 DEF StartedOne, Goto, extVars
  <2>2. Typed(Actions)' /\ pc' \in Pcs
    BY <1>0, <1>p, <2>1 DEF Typed, Stages, resVars, thrVars
  <2>3. UNCHANGED <<released, rec>>
    BY <2>1 DEF resVars
  <2> QED
    BY <2>1, <2>2, <2>3
<1>2. CASE CompletedOne
  <2>1. /\ pc = "complete" /\ stage = "ok" /\ stage' = "before" /\ pc' \in {"complete", "renew_send"}
        /\ left' = left \ {peer} /\ peer' = NoPeer
        /\ \/ pc' = "complete" /\ lc' = lc
           \/ pc' = "renew_send" /\ left = {peer} /\ lc'.release = lc.release
              /\ lc'.phase = "withheld"
        /\ lc' \in Lifecycles
        /\ UNCHANGED <<resVars, recoveryVars, cur, wanted, locked, signed, cln, broadcast, faults,
                       started, states, why>>
    BY <1>0, <1>l, <1>2 DEF CompletedOne, Goto, extVars
  <2>2. Typed(Actions)' /\ pc' \in Pcs
    BY <1>0, <1>p, <2>1 DEF Typed, Stages, resVars, thrVars
  <2>3. UNCHANGED <<released, rec>>
    BY <2>1 DEF resVars
  <2> QED
    BY <2>1, <2>2, <2>3
<1>3. CASE Sent
  <2>1. /\ pc = "sendpsbt" /\ stage = "ok" /\ stage' = "before" /\ pc' = "cleanup"
        /\ ~lc'.release /\ lc'.phase \in {lc.phase, "broadcast"} /\ lc' \in Lifecycles
        /\ UNCHANGED <<resVars, recoveryVars, cur, wanted, locked, signed, cln, broadcast, faults,
                       started, left, peer, states, why>>
    BY <1>0, <1>l, <1>3 DEF Sent, Goto, extVars, peerVars
  <2>2. Typed(Actions)' /\ pc' \in Pcs
    BY <1>0, <1>p, <2>1 DEF Typed, Stages, resVars, thrVars
  <2>3. UNCHANGED <<released, rec>>
    BY <2>1 DEF resVars
  <2> QED
    BY <2>1, <2>2, <2>3
<1> QED
  BY <1>1, <1>2, <1>3

(***************************************************************************)
(* The outcomes that may turn to a withdrawal: the loop of cancels begins  *)
(* with every peer that has been started.                                  *)
(***************************************************************************)
LEMMA NoneWithheldWhenSent ==
  ASSUME IInv, pc = "sendpsbt", NEW f \in Answers(started),
         \A p \in started : f[p] = "WITHHELD"
  PROVE  ~broadcast
<1>1. PICK p \in started : TRUE
  BY DEF IInv, Loops, AfterStart
<1>2. "WITHHELD" \in StatusOfPeer(p) \union {"error"}
  BY <1>1 DEF Answers
<1> QED
  BY <1>2 DEF StatusOfPeer

LEMMA AskType ==
  ASSUME NEW peers \in SUBSET Peers, NEW f \in Answers(peers), Ask(f)
  PROVE  states' \in [Peers -> FundingStatus \union {"unasked", "error"}]
  BY DEF Answers, Ask

LEMMA TurnBackIInv ==
  IInv /\ (StartFailed \/ Prepare \/ Confirm \/ CompleteFailed \/ SendFailed) => IInv'
<1> SUFFICES ASSUME IInv, StartFailed \/ Prepare \/ Confirm \/ CompleteFailed \/ SendFailed
             PROVE  IInv'
  OBVIOUS
<1>0. /\ lc \in Lifecycles /\ Typed(Actions)
      /\ CleanupFailed(lc) \in Lifecycles /\ CleanupFailed(lc).release = lc.release
      /\ CleanupFailed(lc).phase = lc.phase
  BY LifecycleWrites DEF IInv, Typed
<1>p. {"confirm", "renew_complete", "withdraw", "cleanup"} \subseteq Pcs \ AtCoin
  BY DEF Pcs, Renewals, CleaningUp, AtCoin
<1>1. /\ UNCHANGED <<resVars, recoveryVars, cur, wanted, locked, cln, broadcast, faults, started>>
      /\ stage' = "before"
  BY DEF StartFailed, Prepare, Confirm, CompleteFailed, SendFailed, Withdraw, Goto, extVars
<1>2. /\ lc'.release = lc.release /\ lc'.phase = lc.phase /\ lc' \in Lifecycles
      /\ signed' \in BOOLEAN /\ states' \in [Peers -> FundingStatus \union {"unasked", "error"}]
      /\ peer' \in Peers \union {NoPeer}
  <2>1. CASE StartFailed \/ Prepare \/ Confirm
    BY <1>0, <2>1 DEF StartFailed, Prepare, Confirm, IInv, Typed
  <2>2. CASE CompleteFailed
    BY <1>0, <2>2, AskType DEF CompleteFailed, IInv, Typed
  <2>3. CASE SendFailed
    BY <1>0, <2>3, AskType DEF SendFailed, IInv, Typed
  <2> QED
    BY <2>1, <2>2, <2>3
<1>3. \/ /\ pc' = "withdraw" /\ ~broadcast /\ left' = started /\ UNCHANGED signed
         /\ \/ why' = "start" /\ pc = "start"
            \/ why' \in {"prep", "declined", "complete", "sendpsbt"} /\ pc \in AfterStart
      \/ pc' = "confirm" /\ pc = "prep" /\ signed' /\ UNCHANGED <<left, why>>
      \/ pc' = "renew_complete" /\ pc = "confirm" /\ UNCHANGED <<left, why, signed>>
      \/ pc' = "cleanup" /\ pc \in {"complete", "sendpsbt"} /\ UNCHANGED <<left, why, signed>>
  <2>1. CASE StartFailed \/ Prepare \/ Confirm
    BY <2>1 DEF StartFailed, Prepare, Confirm, Withdraw, Goto, AfterStart, IInv, Loops,
       BeforeComplete, Harmless
  <2>2. CASE CompleteFailed
    BY <2>2 DEF CompleteFailed, Withdraw, Goto, AfterStart, IInv, Progress, CleaningUp
  <2>3. CASE SendFailed
    <3>1. PICK f \in Answers(started) :
            IF \A p \in started : f[p] = "WITHHELD"
            THEN Withdraw("sendpsbt", started)
            ELSE Goto("cleanup") /\ UNCHANGED <<left, why>>
      BY <2>3 DEF SendFailed
    <3>2. pc = "sendpsbt" /\ UNCHANGED signed
      BY <2>3 DEF SendFailed
    <3> QED
      BY <3>1, <3>2, NoneWithheldWhenSent DEF Withdraw, Goto, AfterStart
  <2> QED
    BY <2>1, <2>2, <2>3
<1>4. Typed(Actions)' /\ pc' \in Pcs
  BY <1>0, <1>1, <1>2, <1>3, <1>p DEF Typed, Stages, resVars, thrVars, recoveryVars
<1>5. UNCHANGED <<released, rec, flock, rcv>> /\ why' \in Reasons /\ left' \in SUBSET Peers
  BY <1>1, <1>3 DEF resVars, recoveryVars, Reasons, IInv
<1> QED
  BY <1>1, <1>2, <1>3, <1>4, <1>5 DEF IInv, LockHeld, ReleaseSafe, Loops, Withdrawing, Progress,
     HandOffRecorded, ReleasedAfterAll, Harmless, BeforeStart, BeforeComplete,
     AfterStart, Live, Ended, Locking, CleaningUp

(***************************************************************************)
(* The withdrawal itself.                                                  *)
(***************************************************************************)
LEMMA WithdrawalIInv == IInv /\ (CancelOne \/ Withdrawn) => IInv'
<1> SUFFICES ASSUME IInv, CancelOne \/ Withdrawn PROVE IInv'
  OBVIOUS
<1>0. /\ lc \in Lifecycles /\ Typed(Actions) /\ "locked" \in Phases
  BY DEF IInv, Typed, Phases
<1>l. /\ CleanupFailed(lc) \in Lifecycles /\ CleanupFailed(lc).release = lc.release
      /\ CleanupFailed(lc).phase = lc.phase /\ CleanupFailed(lc).errors
      /\ KeepLocks(lc) \in Lifecycles /\ ~KeepLocks(lc).release /\ KeepLocks(lc).phase = lc.phase
      /\ Transition(ReleaseLocks(lc), "locked") \in Lifecycles
      /\ Transition(ReleaseLocks(lc), "locked").phase = "locked"
  BY <1>0, LifecycleWrites
<1>1. CASE CancelOne
  <2>1. PICK p \in left :
          /\ \/ cln[p] \in {"started", "withheld"} /\ SetCln(p, "none")
                /\ lc' \in {lc, CleanupFailed(lc)}
             \/ UNCHANGED cln /\ lc' = CleanupFailed(lc)
          /\ left' = left \ {p}
    BY <1>1 DEF CancelOne
  <2>2. /\ pc = "withdraw"
        /\ UNCHANGED <<resVars, recoveryVars, pc, stage, cur, wanted, locked, signed,
                       broadcast, faults, started, peer, states, why>>
    BY <1>1 DEF CancelOne
  <2>3. /\ lc' \in Lifecycles /\ lc'.release = lc.release /\ lc'.phase = lc.phase
        /\ lc'.errors \/ (cln'[p] = "none" /\ lc'.errors = lc.errors)
        /\ cln' \in [Peers -> ClnStates] /\ p \in Peers
        /\ \A q \in Peers : cln'[q] \in {cln[q], "none"}
    BY <1>0, <1>l, <2>1 DEF SetCln, IInv, ClnStates
  <2>4. Typed(Actions)' /\ UNCHANGED <<released, rec>>
    BY <1>0, <2>2, <2>3 DEF Typed, resVars, thrVars, recoveryVars
  <2>5. Withdrawing'
    BY <2>1, <2>2, <2>3 DEF IInv, Withdrawing, Harmless
  <2>6. Harmless => Harmless'
    BY <2>2, <2>3 DEF Harmless
  <2> QED
    BY <2>1, <2>2, <2>3, <2>4, <2>5, <2>6 DEF IInv, LockHeld, ReleaseSafe, Loops, Progress,
       HandOffRecorded, ReleasedAfterAll, Harmless, BeforeStart, BeforeComplete, AfterStart, Live,
       Ended, Locking, CleaningUp, recoveryVars
<1>2. CASE Withdrawn
  <2>1. /\ pc = "withdraw" /\ pc' = "cleanup" /\ stage' = "before" /\ left = {}
        /\ lc' \in Lifecycles
        /\ \/ ~lc'.release /\ lc'.phase = lc.phase
           \/ lc'.phase = "locked" /\ why # "start" /\ ~lc.errors
        /\ UNCHANGED <<resVars, recoveryVars, cur, wanted, locked, signed, cln, broadcast, faults,
                       started, left, peer, states, why>>
    BY <1>l, <1>2 DEF Withdrawn, Goto, extVars, peerVars
  <2>2. Typed(Actions)' /\ UNCHANGED <<released, rec>> /\ pc' \in Pcs
    BY <1>0, <2>1 DEF Typed, resVars, thrVars, recoveryVars, Stages, AtCoin, Pcs, CleaningUp
  <2>3. lc'.release => NothingStarted /\ Harmless
    BY <2>1 DEF IInv, Withdrawing, NothingStarted, Harmless
  <2>4. Harmless' = Harmless /\ NothingStarted' = NothingStarted
    BY <2>1 DEF Harmless, NothingStarted
  <2>5. LockHeld' /\ ReleaseSafe' /\ Loops' /\ Withdrawing' /\ ReleasedAfterAll'
    BY <2>1, <2>2, <2>3, <2>4 DEF IInv, LockHeld, ReleaseSafe, Loops, Withdrawing,
       ReleasedAfterAll, BeforeStart, BeforeComplete, AfterStart, Live, Ended, Locking, CleaningUp,
       recoveryVars
  <2>6. Progress' /\ HandOffRecorded'
    BY <2>1, <2>2, <2>3, <2>4 DEF IInv, LockHeld, Withdrawing, Progress, HandOffRecorded, Live,
       Ended, AfterStart, Harmless, ClnStates
  <2> QED
    BY <2>1, <2>2, <2>5, <2>6 DEF IInv
<1> QED
  BY <1>1, <1>2

(***************************************************************************)
(* Interrupts, crashes, the renewal thread, CLN, and recovery.             *)
(***************************************************************************)
LEMMA EnvironmentIInv == IInv /\ (EnvironmentStep \/ FundingForgotten) => IInv'
<1> SUFFICES ASSUME IInv, EnvironmentStep \/ FundingForgotten PROVE IInv'
  OBVIOUS
<1>0. WalletActions \subseteq Actions /\ Typed(Actions)
  BY ActionsOfWallet DEF IInv
<1>p. "cleanup" \in Pcs /\ "dead" \in Pcs
  BY DEF Pcs, CleaningUp, Ended
<1> USE DEF SameRecord, recoveryVars, extVars, peerVars
<1>1. CASE Interrupt /\ UNCHANGED peerVars
  <2>1. /\ Typed(Actions)' /\ SameRecord /\ pc \in InterruptAt /\ pc' = "cleanup"
        /\ UNCHANGED <<released, recoveryVars, lc, signed, extVars>>
    BY <1>0, <1>1, InterruptStep
  <2>2. pc \in TryBlock
    BY <2>1, InterruptAssumption
  <2>3. pc \notin {"start", "withdraw"} /\ lc.release => NothingStarted
    BY <2>2 DEF IInv, ReleaseSafe, Loops, TryBlock, BeforeStart, AfterStart, Locking, Calls, Renewals
  <2> QED
    BY <1>1, <1>p, <2>1, <2>2, <2>3 DEF IInv, LockHeld, ReleaseSafe, Loops, Withdrawing, Progress,
       HandOffRecorded, ReleasedAfterAll, Harmless, NothingStarted, BeforeStart, BeforeComplete,
       AfterStart, Live, Ended, Locking, CleaningUp, TryBlock, Calls, Renewals
<1>2. CASE Crash /\ UNCHANGED peerVars
  <2>1. /\ Typed(Actions)' /\ SameRecord /\ Live /\ pc' = "dead" /\ flock' = "none"
        /\ UNCHANGED <<released, rcv, lc, signed, extVars>>
    BY <1>0, <1>2, CrashStep
  <2> QED
    BY <1>2, <1>p, <2>1 DEF IInv, LockHeld, ReleaseSafe, Loops, Withdrawing, Progress,
       HandOffRecorded, ReleasedAfterAll, Harmless, BeforeStart, BeforeComplete,
       AfterStart, Live, Ended, Locking, CleaningUp
<1>3. CASE (RenewalWakes \/ RenewalSteps \/ Lapse(RenewedCalls) \/ Others) /\ UNCHANGED peerVars
  <2>1. /\ Typed(Actions)' /\ SameRecord /\ UNCHANGED <<released, recoveryVars, opVars, extVars>>
    BY <1>0, <1>3, BackgroundStep
  <2>2. UNCHANGED <<pc, stage, lc, signed>>
    BY <2>1 DEF opVars
  <2> QED
    BY <1>3, <2>1, <2>2 DEF IInv, LockHeld, ReleaseSafe, Loops, Withdrawing, Progress,
       HandOffRecorded, ReleasedAfterAll, Harmless, NothingStarted, Live
<1>4. CASE FundingForgotten
  <2>1. PICK p \in Peers : /\ cln[p] = "started" \/ (cln[p] = "withheld" /\ ~Live)
                           /\ SetCln(p, "none")
    BY <1>4 DEF FundingForgotten
  <2>2. UNCHANGED <<resVars, recoveryVars, opVars, broadcast, faults, peerVars>>
    BY <1>4 DEF FundingForgotten
  <2>3. /\ cln' \in [Peers -> ClnStates] /\ \A q \in Peers : cln'[q] \in {cln[q], "none"}
        /\ Live => \A q \in Peers : cln[q] = "withheld" => cln'[q] = "withheld"
    BY <2>1 DEF SetCln, IInv, ClnStates
  <2>4. Typed(Actions)' /\ UNCHANGED <<released, rec, pc, stage, lc, signed>>
    BY <1>0, <2>2 DEF Typed, resVars, thrVars, opVars
  <2>5. (Harmless => Harmless') /\ (NothingStarted => NothingStarted')
    BY <2>2, <2>3 DEF Harmless, NothingStarted
  <2>6. LockHeld' /\ ReleaseSafe' /\ Withdrawing' /\ ReleasedAfterAll'
    BY <2>2, <2>3, <2>4, <2>5 DEF IInv, LockHeld, ReleaseSafe, Withdrawing, ReleasedAfterAll, Live
  <2>7. Loops'
    BY <2>2, <2>3, <2>4, <2>5 DEF IInv, Loops, Live, Ended
  <2>8. Progress' /\ HandOffRecorded'
    BY <2>2, <2>3, <2>4, <2>5 DEF IInv, Progress, HandOffRecorded
  <2> QED
    BY <2>2, <2>3, <2>4, <2>6, <2>7, <2>8 DEF IInv
<1> QED
  BY <1>1, <1>2, <1>3, <1>4 DEF EnvironmentStep

\* With a recorded transaction that is not broadcast, reconciliation finds the
\* funding absent only when no peer's channel holds it.
LEMMA AbsentIsHarmless ==
  ASSUME cln \in [Peers -> ClnStates], rec.txid, ~broadcast, "ABSENT" \in CheckedStatus,
         \A p \in Peers : cln[p] # "open"
  PROVE  Harmless
<1>1. PICK f \in [Peers -> FundingStatus] :
        (\A p \in Peers : f[p] \in StatusOfPeer(p)) /\ Worst({f[p] : p \in Peers}) = "ABSENT"
  BY DEF CheckedStatus
<1>2. \A p \in Peers : f[p] \notin {"BROADCAST", "WITHHELD"}
  <2> SUFFICES ASSUME NEW p \in Peers, f[p] \in {"BROADCAST", "WITHHELD"} PROVE FALSE
    OBVIOUS
  <2>1. "BROADCAST" \in {f[q] : q \in Peers} \/ "WITHHELD" \in {f[q] : q \in Peers}
    OBVIOUS
  <2> QED
    BY <1>1, <2>1 DEF Worst
<1>3. \A p \in Peers : cln[p] # "withheld"
  BY <1>1, <1>2 DEF StatusOfPeer
<1> QED
  BY <1>3 DEF Harmless, ClnStates

LEMMA RecoverIInv == IInv /\ RecoverStep => IInv'
<1> SUFFICES ASSUME IInv, RecoverStep PROVE IInv'
  OBVIOUS
<1>0. WalletActions \subseteq Actions /\ Typed(Actions) /\ cln \in [Peers -> ClnStates]
  BY ActionsOfWallet DEF IInv
<1>1. Reconciles(CheckedStatus) /\ UNCHANGED <<opVars, extVars, faults>>
  BY DEF RecoverStep, Reconciles
<1>2. UNCHANGED <<pc, stage, lc, signed, cln, broadcast, started, left, peer, states, why>>
  BY <1>1 DEF RecoverStep, opVars, extVars, peerVars
<1> DEFINE Checks ==
             /\ rcv \in {"off", "check"} \/ flock = "none"
             /\ \/ flock = "none" /\ rec.present /\ flock' = "recovery" /\ rcv' = "check"
                \/ /\ rcv = "check" /\ rcv' = "release" /\ UNCHANGED flock
                   /\ "ABSENT" \in CheckedStatus /\ (rec.txid => ~broadcast)
                \/ rcv # "off" /\ rcv' = "off" /\ flock' = "none"
             /\ SameRecord /\ UNCHANGED released
           Releases ==
             /\ rcv = "release" /\ released \subseteq released'
             /\ \/ UNCHANGED <<flock, rcv>> /\ SameRecord
                \/ flock' = "none" /\ rcv' = "off" /\ SameRecord /\ UNCHANGED released
                \/ /\ flock' = "none" /\ rcv' = "off"
                   /\ ~rec'.present /\ ~rec'.txid /\ UNCHANGED released
<1>4. Typed(Actions)' /\ (Checks \/ Releases)
  BY <1>0, <1>1, RecoverySteps
<1>5. flock = "op" => ~Checks /\ ~Releases
  BY DEF IInv, LockHeld
<1>6. pc \in {"idle", "done", "dead"} /\ (pc = "idle" => ~rec.present)
  BY <1>4, <1>5 DEF IInv, LockHeld, Live, Ended
<1>7. rcv = "check" /\ "ABSENT" \in CheckedStatus /\ (rec.txid => ~broadcast) => Harmless
  BY <1>0, AbsentIsHarmless DEF IInv, LockHeld, Progress
<1>8. Harmless' = Harmless /\ NothingStarted' = NothingStarted
  BY <1>2 DEF Harmless, NothingStarted
<1>9. LockHeld' /\ ReleaseSafe'
  BY <1>2, <1>4, <1>6, <1>7, <1>8 DEF IInv, LockHeld, ReleaseSafe, Live, Ended, CleaningUp,
     SameRecord
<1>10. Loops' /\ Withdrawing' /\ ReleasedAfterAll'
  BY <1>2, <1>6, <1>8 DEF IInv, Loops, Withdrawing, ReleasedAfterAll, CleaningUp
<1>11. Progress' /\ HandOffRecorded'
  BY <1>0, <1>2, <1>4, <1>6, <1>8 DEF IInv, LockHeld, ReleaseSafe, Progress, HandOffRecorded,
     Harmless, SameRecord, AfterStart
<1> QED
  BY <1>0, <1>2, <1>4, <1>9, <1>10, <1>11 DEF IInv

LEMMA IInvNext == IInv /\ [Next]_vars => IInv'
<1> SUFFICES ASSUME IInv, [Next]_vars PROVE IInv'
  OBVIOUS
<1>1. CASE Next
  BY <1>1, SharedIInv, RenewIInv, PeerRpcIInv, SendRpcIInv, GoOnIInv, TurnBackIInv,
     WithdrawalIInv, EnvironmentIInv, RecoverIInv DEF Next, OpStep
<1>2. CASE UNCHANGED vars
  BY <1>2 DEF vars, fundingVars, peerVars, resVars, thrVars, recoveryVars, opVars, extVars, IInv,
     Typed, LockHeld, ReleaseSafe, Loops, Withdrawing, Progress, HandOffRecorded,
     ReleasedAfterAll, Harmless, NothingStarted, Live
<1> QED
  BY <1>1, <1>2

(***************************************************************************)
(* The inductive invariant holds, through every failure and interleaving.  *)
(***************************************************************************)
THEOREM InvariantHolds == Spec => []IInv
  BY InitIInv, IInvNext, PTL DEF Spec

\* Type correctness.
THEOREM TypeCorrect == Spec => []TypeOK
  BY TypesOf, InvariantHolds, PTL

(***************************************************************************)
(* As soon as one channel holds the signed transaction its id is durable,  *)
(* and stays so until the broadcast is known.                              *)
(***************************************************************************)
THEOREM IdRecorded == Spec => []HandOffRecorded
<1>1. IInv => HandOffRecorded
  BY DEF IInv
<1> QED
  BY <1>1, InvariantHolds, PTL

----------------------------------------------------------------------------
(***************************************************************************)
(* What each step may do to the fundings and to the inputs.                *)
(***************************************************************************)
LEMMA StepEffects ==
  ASSUME IInv, [Next]_vars
  PROVE  \/ UNCHANGED <<released, cln, broadcast>>
         \/ PeerRpc \/ SendRpc \/ CancelOne
         \/ pc = "release" /\ UNCHANGED <<cln, broadcast>> /\ released \subseteq released'
         \/ FundingForgotten
         \/ rcv = "release" /\ UNCHANGED <<cln, broadcast>> /\ released \subseteq released'
<1>0. WalletActions \subseteq Actions /\ Typed(Actions)
  BY ActionsOfWallet DEF IInv
<1> USE DEF resVars, thrVars, recoveryVars, opVars, extVars
<1>1. CASE SharedStep
  <2>1. CASE Begin \/ Plan \/ LockNext \/ Reserve \/ Own \/ Arm
    BY <2>1 DEF Begin, Plan, LockNext, Reserve, Own, Arm
  <2>2. CASE pc \in Calls /\ (CallBefore(CallPhase) \/ CallAfter(CallPhase))
    BY <2>2 DEF CallBefore, CallAfter
  <2>3. CASE TidyUp
    BY <1>0, <2>3, TidyStep
  <2>4. CASE Resolve
    BY <2>4 DEF Resolve, ResolveAt
  <2> QED
    BY <1>1, <2>1, <2>2, <2>3, <2>4 DEF SharedStep, CleanupStep
<1>2. CASE RenewLoop
  BY <1>2 DEF RenewLoop, Renew, RenewTo
<1>3. CASE StartedOne \/ StartFailed \/ Prepare \/ Confirm \/ CompletedOne \/ CompleteFailed
             \/ SendFailed \/ Sent \/ Withdrawn
  BY <1>3 DEF StartedOne, StartFailed, Prepare, Confirm, CompletedOne, CompleteFailed,
     SendFailed, Sent, Withdrawn
<1>4. CASE EnvironmentStep
  <2>1. CASE Interrupt \/ Crash
    BY <2>1 DEF Interrupt, Crash, AdapterLost
  <2>2. CASE RenewalWakes \/ RenewalSteps \/ Lapse(RenewedCalls) \/ Others
    BY <1>0, <2>2, BackgroundStep
  <2> QED
    BY <1>4, <2>1, <2>2 DEF EnvironmentStep
<1>5. CASE RecoverStep
  <2>1. Reconciles(CheckedStatus) /\ UNCHANGED <<opVars, extVars, faults>>
    BY <1>5 DEF RecoverStep, Reconciles
  <2>2. UNCHANGED released \/ (rcv = "release" /\ released \subseteq released')
    BY <1>0, <2>1, RecoverySteps
  <2> QED
    BY <2>1, <2>2
<1>6. CASE UNCHANGED vars
  BY <1>6 DEF vars, fundingVars
<1> QED
  BY <1>1, <1>2, <1>3, <1>4, <1>5, <1>6 DEF Next, OpStep

(***************************************************************************)
(* The operation and recovery keep the promise about the inputs: nothing   *)
(* is given back while even one channel holds the signed transaction.      *)
(***************************************************************************)
THEOREM PromiseKept == Spec => KeepsPromise
<1> DEFINE held1 == \E p \in Peers : cln[p] = "withheld"
           funding == IF broadcast THEN "sent" ELSE IF held1 THEN "withheld" ELSE "none"
           back == released # {}
<1>1. Init => Promise!Init
  BY DEF Init, FundingInit, ReservationsInit, Promise!Init
<1>2. ASSUME IInv, [Next]_vars
      PROVE  [Promise!Next]_<<funding, back>>
  <2> USE DEF Promise!Next, Promise!HandOver, Promise!Send, Promise!Withdraw,
          Promise!GiveBack
  <2>1. CASE UNCHANGED <<released, cln, broadcast>>
    BY <2>1
  <2>2. CASE PeerRpc
    <3>1. pc \in {"start", "complete"} /\ UNCHANGED <<released, broadcast>>
      BY <2>2 DEF PeerRpc, resVars
    <3>2. released = {} /\ ~broadcast
      BY <1>2, <3>1 DEF IInv, ReleaseSafe, Progress, CleaningUp
    <3>3. held1 => held1'
      <4>1. PICK q \in left : AppliedTo(pc, q) \/ UNCHANGED cln
        BY <2>2 DEF PeerRpc
      <4>2. \A p \in Peers : cln[p] = "withheld" => cln'[p] = "withheld"
        BY <1>2, <4>1 DEF AppliedTo, SetCln, IInv
      <4> QED
        BY <4>2
    <3> QED
      BY <3>1, <3>2, <3>3
  <2>3. CASE SendRpc
    <3>1. /\ pc = "sendpsbt" /\ UNCHANGED released
          /\ UNCHANGED <<cln, broadcast>> \/ broadcast'
      BY <2>3 DEF SendRpc, resVars, extVars
    <3>2. released = {}
      BY <1>2, <3>1 DEF IInv, ReleaseSafe, CleaningUp
    <3> QED
      BY <3>1, <3>2
  <2>4. CASE CancelOne \/ FundingForgotten
    <3>1. UNCHANGED <<released, broadcast>>
      BY <2>4 DEF CancelOne, FundingForgotten, resVars
    <3>2. \A p \in Peers : cln'[p] = "withheld" => cln[p] = "withheld"
      BY <1>2, <2>4 DEF CancelOne, FundingForgotten, SetCln, IInv
    <3> QED
      BY <3>1, <3>2
  <2>5. CASE /\ pc = "release" \/ rcv = "release"
             /\ UNCHANGED <<cln, broadcast>> /\ released \subseteq released'
    <3>1. funding = "none" /\ UNCHANGED funding
      BY <1>2, <2>5 DEF IInv, ReleaseSafe, Harmless
    <3>2. back => back'
      BY <2>5
    <3> QED
      BY <3>1, <3>2
  <2> QED
    BY <1>2, <2>1, <2>2, <2>3, <2>4, <2>5, StepEffects
<1> QED
  BY <1>1, <1>2, InvariantHolds, PTL DEF Spec, KeepsPromise, Promise!Spec

(***************************************************************************)
(* The leases while the transaction is sent: the third renew_locks comes   *)
(* right before sendpsbt, and nothing but a lapse takes an input away.     *)
(***************************************************************************)
LeasedToSend == pc = "sendpsbt" => locked \subseteq Leased

LEMMA LeasedNext == IInv /\ LeasedToSend /\ [Next]_vars => LeasedToSend'
<1> SUFFICES ASSUME IInv, LeasedToSend, [Next]_vars, pc' = "sendpsbt"
             PROVE  locked' \subseteq Leased'
  BY DEF LeasedToSend
<1>0. WalletActions \subseteq Actions /\ Typed(Actions)
  BY ActionsOfWallet DEF IInv
<1> USE DEF Goto, Withdraw
<1>1. CASE Begin \/ Plan \/ LockNext \/ Reserve \/ Own \/ Arm \/ Interrupt \/ Crash
           \/ CleanupStep \/ PeerRpc
  BY <1>1 DEF Begin, Plan, LockNext, Reserve, Own, Arm, Interrupt, Crash, CleanupStep, TidyUp,
     Unlock, Release, DropOwner, StopRenewal, Close, Resolve, ResolveAt, PeerRpc
<1>2. CASE RenewLoop
  <2>1. PICK next \in {"start", "complete", "sendpsbt"} : RenewTo(next)
    BY <1>2 DEF RenewLoop, Renew, Renewals
  <2>2. pc' = next /\ next # "cleanup"
    BY <1>0, <2>1, RenewStep DEF AtCoin
  <2> QED
    BY <1>0, <2>1, <2>2, RenewStep DEF AtCoin
<1>3. CASE (pc \in Calls /\ (CallBefore(CallPhase) \/ CallAfter(CallPhase))) \/ SendRpc
  BY <1>3 DEF CallBefore, CallAfter, SendRpc, LeasedToSend, Leased, resVars
<1>4. CASE StartedOne \/ StartFailed \/ Prepare \/ Confirm \/ CompletedOne \/ CompleteFailed
           \/ SendFailed \/ Sent \/ CancelOne \/ Withdrawn
  BY <1>4 DEF StartedOne, StartFailed, Prepare, Confirm, CompletedOne, CompleteFailed,
     SendFailed, Sent, CancelOne, Withdrawn
<1>5. CASE RenewalWakes \/ RenewalSteps \/ Lapse(RenewedCalls) \/ Others
  <2>1. pc = "sendpsbt" /\ locked' = locked
    BY <1>0, <1>5, BackgroundStep DEF opVars
  <2>2. Leased \subseteq Leased'
    BY <1>0, <1>5, <2>1, BackgroundStep DEF RenewedCalls, Calls, Live, Ended
  <2> QED
    BY <2>1, <2>2 DEF LeasedToSend
<1>6. CASE FundingForgotten \/ UNCHANGED vars
  BY <1>6 DEF FundingForgotten, vars, fundingVars, resVars, opVars, LeasedToSend, Leased
<1>7. CASE RecoverStep
  <2>1. pc = "sendpsbt"
    BY <1>7 DEF RecoverStep, opVars
  <2>2. rcv = "off" /\ flock = "op"
    BY <2>1 DEF IInv, LockHeld, Live, Ended
  <2> QED
    BY <1>7, <2>2 DEF RecoverStep, RecoverBegin, RecoverDecides, RecoverKeeps,
       RecoverReleases, RecoverResolves, RecoverAborts
<1> QED
  BY <1>1, <1>2, <1>3, <1>4, <1>5, <1>6, <1>7 DEF Next, OpStep, SharedStep, EnvironmentStep

(***************************************************************************)
(* The shared transaction is sent only when every peer has committed to it *)
(* and every input is still reserved (multi_open_channel.py: sendpsbt      *)
(* follows the loop of completions and a renewal).                         *)
(***************************************************************************)
THEOREM ReadyWhenSent == Spec => SentWhenReady
<1> DEFINE ready == (\A p \in Peers : cln[p] = "withheld") /\ locked \subseteq Leased
<1>1. Init => LeasedToSend
  BY DEF Init, FundingInit, LeasedToSend
<1>2. IInv /\ LeasedToSend /\ [Next]_vars => [~broadcast /\ broadcast' => ready]_vars
  <2> SUFFICES ASSUME IInv, LeasedToSend, [Next]_vars, ~broadcast, broadcast' PROVE ready
    OBVIOUS
  <2>1. SendRpc
    BY StepEffects DEF PeerRpc, CancelOne, FundingForgotten
  <2> QED
    BY <2>1 DEF SendRpc, IInv, Loops, LeasedToSend
<1> QED
  BY <1>1, <1>2, LeasedNext, InvariantHolds, PTL DEF Spec, SentWhenReady

(***************************************************************************)
(* The phase of the lifecycle at each program point.  A withdrawal for a   *)
(* failed start makes no transition; the others start from a phase that    *)
(* may go back to "locked".                                                *)
(***************************************************************************)
Phased ==
  /\ pc \in {"idle"} \union Locking => lc.phase = "prestart"
  /\ pc \in {"renew_start", "start"} => lc.phase = "locked"
  /\ pc \in {"prep", "confirm", "renew_complete", "complete"} => lc.phase = "started"
  /\ pc \in {"renew_send", "sendpsbt"} => lc.phase = "withheld"
  /\ pc = "withdraw" /\ why # "start" => lc.phase \in {"started", "withheld"}

PhaseAllowed == lc'.phase # lc.phase => lc'.phase \in AllowedTransitions[lc.phase]

LEMMA PhasesNext == IInv /\ Phased /\ [Next]_vars => Phased' /\ PhaseAllowed
<1> SUFFICES ASSUME IInv, Phased, [Next]_vars PROVE Phased' /\ PhaseAllowed
  OBVIOUS
<1>0. /\ WalletActions \subseteq Actions /\ Typed(Actions) /\ lc \in Lifecycles
      /\ lc.phase \in Phases
  BY ActionsOfWallet, LifecycleWrites DEF IInv, Typed
<1>t. /\ "locked" \in AllowedTransitions["prestart"] /\ "started" \in AllowedTransitions["locked"]
      /\ {"withheld", "locked"} \subseteq AllowedTransitions["started"]
      /\ {"broadcast", "locked"} \subseteq AllowedTransitions["withheld"]
  BY DEF AllowedTransitions, Phases
<1>l. /\ \A p \in Phases : /\ Transition(lc, p).phase = p
                           /\ KeepLocks(Transition(lc, p)).phase = p
                           /\ Transition(ReleaseLocks(lc), p).phase = p
      /\ KeepLocks(lc).phase = lc.phase /\ CleanupFailed(lc).phase = lc.phase
      /\ {"locked", "started", "withheld", "broadcast"} \subseteq Phases
  BY <1>0, LifecycleWrites DEF Phases
<1> USE <1>t DEF Phased, PhaseAllowed, Goto, Locking, CleaningUp, opVars, peerVars
<1>1. CASE Begin
  <2>1. pc = "idle" /\ pc' = "plan" /\ lc' = lc
    BY <1>0, <1>1, BeginStep
  <2> QED
    BY <2>1
<1>2. CASE Plan \/ LockNext \/ Reserve \/ Own \/ Arm
  <2>1. /\ pc \in Locking /\ pc' \in Locking \union {"renew_start", "cleanup"}
        /\ pc' = "renew_start" => lc'.phase = "locked"
        /\ pc # "arm" => lc' = lc
        /\ lc'.phase \in {lc.phase, "locked"}
    BY <1>0, <1>2, LockingStep
  <2>2. pc = "arm" => pc' \notin Locking
    BY <1>2 DEF Plan, LockNext, Reserve, Own, Arm
  <2> QED
    BY <2>1, <2>2
<1>3. CASE RenewLoop
  <2>1. PICK next \in {"start", "complete", "sendpsbt"} :
          /\ RenewTo(next)
          /\ \/ pc = "renew_start" /\ next = "start"
             \/ pc = "renew_complete" /\ next = "complete"
             \/ pc = "renew_send" /\ next = "sendpsbt"
    BY <1>3 DEF RenewLoop, Renew, Renewals
  <2>2. pc' \in {next, "cleanup"} /\ lc' = lc
    BY <1>0, <2>1, RenewStep DEF AtCoin
  <2> QED
    BY <2>1, <2>2
<1>4. CASE \/ /\ pc \in Calls /\ (CallBefore(CallPhase) \/ CallAfter(CallPhase))
                /\ UNCHANGED peerVars
             \/ PeerRpc \/ SendRpc \/ FundingForgotten \/ RecoverStep \/ CancelOne
             \/ UNCHANGED vars
  <2>1. UNCHANGED <<pc, why>> /\ lc' \in {lc, CleanupFailed(lc)}
    <3>1. CASE (pc \in Calls /\ (CallBefore(CallPhase) \/ CallAfter(CallPhase)))
                 /\ UNCHANGED peerVars
      BY <3>1 DEF CallBefore, CallAfter
    <3>2. CASE PeerRpc \/ SendRpc \/ CancelOne
      BY <3>2 DEF PeerRpc, SendRpc, CancelOne
    <3>3. CASE FundingForgotten \/ RecoverStep \/ UNCHANGED vars
      BY <3>3 DEF FundingForgotten, RecoverStep, vars, fundingVars
    <3> QED
      BY <1>4, <3>1, <3>2, <3>3
  <2> QED
    BY <1>l, <2>1
<1>5. CASE StartedOne \/ CompletedOne \/ Sent
  <2>1. \/ pc = "start" /\ pc' = "prep" /\ lc' = KeepLocks(Transition(lc, "started"))
        \/ pc = "complete" /\ pc' = "renew_send" /\ lc' = Transition(lc, "withheld")
        \/ pc \in {"start", "complete"} /\ pc' = pc /\ lc' = lc
        \/ /\ pc = "sendpsbt" /\ pc' = "cleanup"
           /\ lc' \in {KeepLocks(Transition(lc, "broadcast")), lc}
    BY <1>5 DEF StartedOne, CompletedOne, Sent
  <2> QED
    BY <1>l, <2>1
<1>6. CASE StartFailed \/ Prepare \/ Confirm \/ CompleteFailed \/ SendFailed
  <2>1. /\ lc' \in {lc, CleanupFailed(lc)}
        /\ \/ pc = "start" /\ pc' = "withdraw" /\ why' = "start"
           \/ pc = "prep" /\ pc' = "confirm"
           \/ pc = "confirm" /\ pc' = "renew_complete"
           \/ pc \in {"prep", "confirm", "complete", "sendpsbt"} /\ pc' \in {"withdraw", "cleanup"}
    BY <1>6 DEF StartFailed, Prepare, Confirm, CompleteFailed, SendFailed, Withdraw
  <2> QED
    BY <1>l, <2>1
<1>7. CASE Withdrawn
  <2>1. /\ pc = "withdraw" /\ pc' = "cleanup"
        /\ \/ lc' = KeepLocks(lc)
           \/ why # "start" /\ lc' = Transition(ReleaseLocks(lc), "locked")
    BY <1>7 DEF Withdrawn
  <2> QED
    BY <1>l, <2>1
<1>8. CASE CleanupStep
  <2>1. lc'.phase = lc.phase /\ pc' \in CleaningUp \union {"done"}
    BY <1>0, <1>8, TidyStep, ResolveStep DEF CleanupStep, Resolve, SameLocks
  <2> QED
    BY <2>1
<1>9. CASE Interrupt \/ Crash
  BY <1>9 DEF Interrupt, Crash
<1>10. CASE (RenewalWakes \/ RenewalSteps \/ Lapse(RenewedCalls) \/ Others) /\ UNCHANGED peerVars
  <2>1. UNCHANGED <<pc, lc, why>>
    BY <1>0, <1>10, BackgroundStep
  <2> QED
    BY <2>1
<1> QED
  BY <1>1, <1>2, <1>3, <1>4, <1>5, <1>6, <1>7, <1>8, <1>9, <1>10
     DEF Next, OpStep, SharedStep, EnvironmentStep

(***************************************************************************)
(* execute() asks OperationLifecycle for no transition it would refuse     *)
(* (lifecycle.py:44-88), whichever peer fails in whichever loop.           *)
(***************************************************************************)
THEOREM TransitionsAllowed == Spec => LifecycleLegal
<1>1. Init => Phased
  BY DEF Init, FundingInit, NewLifecycle, Phased, Locking
<1>2. IInv /\ Phased /\ [Next]_vars => [PhaseAllowed]_vars
  BY PhasesNext
<1>3. IInv /\ Phased /\ [Next]_vars => Phased'
  BY PhasesNext
<1> QED
  BY <1>1, <1>2, <1>3, InvariantHolds, PTL DEF Spec, LifecycleLegal, PhaseAllowed

(***************************************************************************)
(* Where no interrupt surfaces in the loop of starts or in a withdrawal,   *)
(* the operation gives inputs back only when no funding is left at CLN.    *)
(***************************************************************************)
THEOREM WithdrawnFirst ==
  ASSUME InterruptAt \intersect {"start", "withdraw"} = {}
  PROVE  Spec => AllWithdrawnFirst
<1>1. IInv /\ [Next]_vars
        => [Live /\ released' # released => \A p \in Peers : cln[p] = "none"]_vars
  <2> SUFFICES ASSUME IInv, [Next]_vars, Live, released' # released
               PROVE  \A p \in Peers : cln[p] = "none"
    OBVIOUS
  <2>1. pc = "release"
    BY StepEffects DEF PeerRpc, SendRpc, CancelOne, FundingForgotten, resVars, IInv, LockHeld
  <2> QED
    BY <2>1 DEF IInv, ReleasedAfterAll, ReleaseSafe, NothingStarted, CleaningUp
<1> QED
  BY <1>1, InvariantHolds, PTL DEF Spec, AllWithdrawnFirst
----------------------------------------------------------------------------
(***************************************************************************)
(* What is reserved, and what the record and the operation know of it      *)
(* (FundingProofs).                                                        *)
(***************************************************************************)
LEMMA AccountedOutcome ==
  ASSUME IInv, Accounted("broadcast"),
         PeerRpc \/ SendRpc \/ StartedOne \/ StartFailed \/ Prepare \/ Confirm \/ CompletedOne
           \/ CompleteFailed \/ SendFailed \/ Sent \/ CancelOne \/ Withdrawn
  PROVE  Accounted("broadcast")'
<1>0. lc \in Lifecycles /\ LockHeld
  BY DEF IInv, Typed
<1>1. lc.errors => lc'.errors
  <2>1. CASE CompleteFailed \/ SendFailed \/ CancelOne
    BY <1>0, <2>1, ErrorsKept DEF CompleteFailed, SendFailed, CancelOne
  <2>2. CASE PeerRpc \/ SendRpc \/ StartFailed \/ Prepare \/ Confirm
    BY <2>2 DEF PeerRpc, SendRpc, StartFailed, Prepare, Confirm
  <2>3. CASE StartedOne \/ CompletedOne \/ Sent \/ Withdrawn
    BY <1>0, <2>3, ErrorsKept DEF StartedOne, CompletedOne, Sent, Withdrawn
  <2> QED
    BY <2>1, <2>2, <2>3
<1>2. /\ UNCHANGED <<lease, held, thr, rec, recoveryVars, locked, faults>>
      /\ pc \in Calls \union {"prep", "confirm", "withdraw"}
      /\ pc' \in Calls \union Renewals \union {"prep", "confirm", "withdraw", "cleanup"}
  BY DEF PeerRpc, SendRpc, StartedOne, StartFailed, Prepare, Confirm, CompletedOne,
     CompleteFailed, SendFailed, Sent, CancelOne, Withdrawn, Withdraw, Goto, Calls, Renewals,
     resVars, thrVars
<1>3. Elsewhere(pc) /\ Elsewhere(pc')
  BY <1>2 DEF Elsewhere, Locking, Ended, Calls, Renewals
<1> QED
  BY <1>0, <1>1, <1>2, <1>3, AccountedAside DEF DiskHealthy

LEMMA AccountedNext ==
  ASSUME "own" \notin InterruptAt, IInv, Accounted("broadcast"), [Next]_vars
  PROVE  Accounted("broadcast")'
<1>0. Typed(Actions) /\ LockHeld
  BY DEF IInv
<1>1. CASE Begin \/ Plan \/ LockNext \/ Reserve \/ Own \/ Arm
  BY <1>0, <1>1, AccountedBegin, AccountedLocking
<1>2. CASE RenewLoop
  <2>1. PICK next \in {"start", "complete", "sendpsbt"} : RenewTo(next)
    BY <1>2 DEF RenewLoop, Renew, Renewals
  <2>2. Elsewhere(pc) /\ Elsewhere(next)
    BY <1>2, <2>1 DEF RenewLoop, Renew, Renewals, Elsewhere, Locking, Ended
  <2> QED
    BY <1>0, <2>1, <2>2, AccountedRenew
<1>3. CASE pc \in Calls /\ (CallBefore(CallPhase) \/ CallAfter(CallPhase))
  <2>1. Elsewhere(pc)
    BY <1>3 DEF Calls, Elsewhere, Locking, Ended
  <2> QED
    BY <1>0, <1>3, <2>1, AccountedCall
<1>4. CASE PeerRpc \/ SendRpc \/ StartedOne \/ StartFailed \/ Prepare \/ Confirm \/ CompletedOne
             \/ CompleteFailed \/ SendFailed \/ Sent \/ CancelOne \/ Withdrawn
  BY <1>4, AccountedOutcome
<1>5. CASE CleanupStep
  BY <1>0, <1>5, AccountedTidy, AccountedResolve DEF CleanupStep, Resolve
<1>6. CASE Interrupt
  <2>1. InterruptAt \intersect (Ended \union {"disown", "close", "resolve"}) = {}
    BY InterruptAssumption DEF TryBlock, Locking, Calls, Renewals, Ended
  <2> QED
    BY <1>0, <1>6, <2>1, AccountedInterrupt
<1>7. CASE Crash \/ RenewalWakes \/ RenewalSteps \/ Lapse(RenewedCalls) \/ Others
  BY <1>0, <1>7, AccountedCrash, AccountedBackground
<1>8. CASE FundingForgotten \/ UNCHANGED vars
  BY <1>8, AccountedStill DEF FundingForgotten, vars, fundingVars, resVars, thrVars, opVars
<1>9. CASE RecoverStep
  <2>1. Reconciles(CheckedStatus) /\ UNCHANGED <<opVars, faults>>
    BY <1>9 DEF RecoverStep, Reconciles
  <2> QED
    BY <1>0, <2>1, AccountedRecovery
<1> QED
  BY <1>1, <1>2, <1>3, <1>4, <1>5, <1>6, <1>7, <1>8, <1>9
     DEF Next, OpStep, SharedStep, EnvironmentStep

(***************************************************************************)
(* A crash at any point, with any peers started and any cancels failed,    *)
(* leaves a record that has the owner token of everything still reserved;  *)
(* and while the journal can be written, a record is dropped only after    *)
(* the broadcast or with nothing reserved.  The exception is an interrupt  *)
(* inside lock(), between the reservation and the list of locked coins.    *)
(***************************************************************************)
THEOREM LeasesJournaled ==
  ASSUME "own" \notin InterruptAt
  PROVE  Spec => [](LeaseJournaled /\ ResolvedClean)
<1>1. Init => Accounted("broadcast")
  BY AccountedInit DEF Init
<1>2. IInv /\ Accounted("broadcast") /\ [Next]_vars => Accounted("broadcast")'
  BY AccountedNext
<1>3. Accounted("broadcast") => LeaseJournaled /\ ResolvedClean
  BY DEF Accounted, ResolvedClean
<1> QED
  BY <1>1, <1>2, <1>3, InvariantHolds, PTL DEF Spec
=============================================================================
