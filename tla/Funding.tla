------------------------------ MODULE Funding ------------------------------
(***************************************************************************)
(* What the operations that fund from JoinMarket inputs share: beginning   *)
(* the journal record, locking the selected inputs, the renewals between   *)
(* the steps, RecoveryJournal.call around each CLN mutation, the finally   *)
(* block with its cleanup, interrupts, crashes and the wallet's other      *)
(* users.  An operation module adds its own steps and what CLN does.       *)
(***************************************************************************)
EXTENDS Recovery, Lifecycle, Naturals

CONSTANTS
  MaxDiskFaults,   \* journal writes of the operation that may fail
  InterruptAt      \* program points where a BaseException may surface

ASSUME FaultsAssumption == MaxDiskFaults \in Nat

VARIABLES
  pc,        \* where execute() is
  stage,     \* inside RecoveryJournal.call: which part of it is next
  cur,       \* the coin being locked or unlocked
  lc,        \* its OperationLifecycle
  wanted,    \* coins selected for the plan and not locked yet
  locked,    \* the list `locked`
  signed,    \* whether txid is known (the PSBT has been built and signed)
  cln,       \* CLN's funding, as the operation module describes it
  broadcast, \* whether the funding transaction reached the network
  faults     \* journal write failures left

opVars == <<pc, stage, cur, lc, wanted, locked, signed>>
extVars == <<cln, broadcast>>
fundingVars == <<resVars, recoveryVars, opVars, extVars, faults>>

NoCoin == "no coin"

Renewals == {"renew_start", "renew_complete", "renew_send"}

Ended == {"idle", "done", "dead"}

\* The program points every such operation has.
Locking == {"plan", "lock", "reserve", "own", "arm"}

CleaningUp == {"cleanup", "release", "disown", "close", "resolve"}

Stages == {"before", "rpc", "after", "ok", "failed"}

Live == pc \notin Ended

FundingInit ==
  /\ ReservationsInit /\ RecoveryInit
  /\ pc = "idle" /\ stage = "before" /\ cur = NoCoin
  /\ lc = NewLifecycle
  /\ wanted = {} /\ locked = {} /\ signed = FALSE
  /\ broadcast = FALSE
  /\ faults = MaxDiskFaults

(***************************************************************************)
(* Shorthands.  An exception that is not handled locally goes to the       *)
(* finally block with the lifecycle as it is.                              *)
(***************************************************************************)
Goto(p) == pc' = p /\ stage' = "before"

DiskFault == faults > 0 /\ faults' = faults - 1

NoFault == UNCHANGED faults

----------------------------------------------------------------------------
(* Start, planning and locking.                                            *)

\* begin(): takes the lifetime lock (blocking) and creates the record.
Begin ==
  /\ pc = "idle" /\ flock = "none"
  /\ flock' = "op" /\ rec' = CreateRecord
  /\ Goto("plan")
  /\ UNCHANGED <<lease, held, released, thrVars, rcv, rtodo, cur, lc, wanted,
                 locked, signed, extVars, faults>>

\* connect, get_utxos, policy, fee, selection, plan: a set of coins, or raise.
Plan ==
  /\ pc = "plan"
  /\ \/ \E S \in SUBSET Coins \ {{}} : wanted' = S /\ Goto("lock")
     \/ UNCHANGED wanted /\ Goto("cleanup")
  /\ UNCHANGED <<resVars, recoveryVars, cur, lc, locked, signed, extVars, faults>>

LockNext ==
  /\ pc = "lock"
  /\ \/ \E c \in wanted : /\ LockJournal(c) /\ NoFault
                          /\ cur' = c /\ wanted' = wanted \ {c} /\ Goto("reserve")
     \/ /\ wanted # {} /\ DiskFault
        /\ UNCHANGED <<rec, cur, wanted>> /\ Goto("cleanup")
     \/ /\ wanted = {} /\ NoFault
        /\ UNCHANGED <<rec, cur, wanted>> /\ Goto("arm")
  /\ UNCHANGED <<lease, held, released, thrVars, recoveryVars, lc, locked,
                 signed, extVars>>

\* reserve_coinjoin_inputs(): False when anyone else holds it; it may raise.
Reserve ==
  /\ pc = "reserve"
  /\ \/ LockReserve(cur) /\ Goto("own") /\ UNCHANGED cur
     \/ UNCHANGED lease /\ cur' = NoCoin /\ Goto("cleanup")
  /\ UNCHANGED <<held, released, rec, thrVars, recoveryVars, lc, wanted, locked,
                 signed, extVars, faults>>

Own ==
  /\ pc = "own"
  /\ LockOwn(cur)
  /\ \/ /\ rec' = ReservationDone /\ NoFault
        /\ locked' = locked \union {cur} /\ Goto("lock")
     \/ DiskFault /\ UNCHANGED <<rec, locked>> /\ Goto("cleanup")
  /\ cur' = NoCoin
  /\ UNCHANGED <<lease, released, thrVars, recoveryVars, lc, wanted, signed,
                 extVars>>

\* start_lock_renewal(): one renewal of everything, then the thread.
Arm ==
  /\ pc = "arm"
  /\ lc' = Transition(lc, "locked")
  /\ \/ RenewLocks(locked) /\ thr' = "wait" /\ Goto("renew_start")
     \/ RenewRaises(locked) /\ UNCHANGED thr /\ Goto("cleanup")
  /\ UNCHANGED <<lease, held, released, todo, outs, recoveryVars, cur, wanted,
                 locked, signed, extVars, faults>>

\* renew_locks() before the inputs are handed over.
RenewTo(next) ==
  /\ \/ RenewLocks(locked) /\ Goto(next)
     \/ RenewRaises(locked) /\ Goto("cleanup")
  /\ UNCHANGED <<lease, held, released, thrVars, recoveryVars, cur, lc, wanted,
                 locked, signed, extVars, faults>>

Renew ==
  /\ pc \in Renewals
  /\ RenewTo(CASE pc = "renew_start" -> "start"
               [] pc = "renew_complete" -> "complete"
               [] pc = "renew_send" -> "sendpsbt")

----------------------------------------------------------------------------
(* RecoveryJournal.call: journal, mutate, journal.                         *)

CallBefore(phase) ==
  /\ stage = "before"
  /\ \/ /\ rec' = BeforeMutation(rec, pc, phase, locked, held, signed)
        /\ stage' = "rpc" /\ NoFault
     \/ DiskFault /\ UNCHANGED rec /\ stage' = "failed"
  /\ UNCHANGED <<lease, held, released, thrVars, recoveryVars, pc, cur, lc,
                 wanted, locked, signed, extVars>>

CallAfter(phase) ==
  /\ stage = "after"
  /\ \/ rec' = AfterMutation(rec, phase, signed) /\ stage' = "ok" /\ NoFault
     \/ DiskFault /\ UNCHANGED rec /\ stage' = "failed"
  /\ UNCHANGED <<lease, held, released, thrVars, recoveryVars, pc, cur, lc,
                 wanted, locked, signed, extVars>>

----------------------------------------------------------------------------
(* The finally block: lifecycle.cleanup, resolve_if_clean, release.        *)

Unlock ==
  /\ pc = "cleanup" /\ lc.release
  /\ \E c \in locked :
       \/ /\ UnlockJournal /\ NoFault /\ cur' = c /\ Goto("release")
          /\ UNCHANGED <<lc, locked>>
       \/ /\ DiskFault /\ lc' = CleanupFailed(lc) /\ locked' = locked \ {c}
          /\ UNCHANGED <<rec, pc, stage, cur>>
  /\ UNCHANGED <<lease, held, released, thrVars, recoveryVars, wanted, signed,
                 extVars>>

MutRelease ==    \* mutant: an exception out of the wallet's release is swallowed
  /\ pc = "release"
  /\ \/ ReleaseIfOwned(cur) /\ UNCHANGED <<locked, cur>> /\ Goto("disown")
     \/ /\ locked' = locked \ {cur} /\ cur' = NoCoin
        /\ UNCHANGED <<lease, released>> /\ Goto("cleanup")
  /\ UNCHANGED <<lc, held, rec, thrVars, recoveryVars, wanted, signed, extVars, faults>>

Release ==
  /\ pc = "release"
  /\ \/ ReleaseIfOwned(cur) /\ UNCHANGED <<lc, locked, cur>> /\ Goto("disown")
     \/ /\ lc' = CleanupFailed(lc) /\ locked' = locked \ {cur} /\ cur' = NoCoin
        /\ UNCHANGED <<lease, released>> /\ Goto("cleanup")
  /\ UNCHANGED <<held, rec, thrVars, recoveryVars, wanted, signed, extVars, faults>>

DropOwner ==
  /\ pc = "disown"
  /\ Disown(cur) /\ locked' = locked \ {cur}
  /\ \/ rec' = ReservationDone /\ NoFault /\ UNCHANGED lc
     \/ DiskFault /\ lc' = CleanupFailed(lc) /\ UNCHANGED rec
  /\ cur' = NoCoin /\ Goto("cleanup")
  /\ UNCHANGED <<lease, released, thrVars, recoveryVars, wanted, signed, extVars>>

StopRenewal ==
  /\ pc = "cleanup" /\ (lc.release => locked = {})
  /\ Goto("close")
  /\ UNCHANGED <<resVars, recoveryVars, cur, lc, wanted, locked, signed, extVars,
                 faults>>

\* adapter.close(): join the thread, then close the wallet, which may raise.
Close ==
  /\ pc = "close" /\ ThreadJoined
  /\ thr' = "off"
  /\ lc' \in {lc, CleanupFailed(lc)}
  /\ Goto("resolve")
  /\ UNCHANGED <<lease, held, released, rec, todo, outs, recoveryVars, cur,
                 wanted, locked, signed, extVars, faults>>

ResolveAt(terminal) ==
  /\ pc = "resolve"
  /\ IF ResolvableIfClean(lc, terminal)
     THEN \/ rec' = ResolveRecord(rec) /\ NoFault
          \/ DiskFault /\ UNCHANGED rec
     ELSE UNCHANGED <<rec, faults>>
  /\ flock' = "none"
  /\ held' = {} /\ wanted' = {} /\ locked' = {} /\ Goto("done")
  /\ UNCHANGED <<lease, released, thrVars, rcv, rtodo, cur, lc, signed, extVars>>

Resolve == ResolveAt("broadcast")

----------------------------------------------------------------------------
(* Interrupts, crashes and the environment.                                *)

\* A BaseException (CancelledError, KeyboardInterrupt) skips every handler
\* but the finally block.
Interrupt ==
  /\ pc \in InterruptAt
  /\ cur' = NoCoin /\ Goto("cleanup")
  /\ UNCHANGED <<resVars, recoveryVars, lc, wanted, locked, signed, extVars, faults>>

Crash ==
  /\ Live
  /\ Goto("dead") /\ AdapterLost
  /\ flock' = "none" /\ cur' = NoCoin /\ wanted' = {} /\ locked' = {}
  /\ UNCHANGED <<rcv, rtodo, lc, signed, extVars, faults>>

MutRenewalWakes ==    \* mutant: the thread does not look at the stop event
  /\ ThreadWake
  /\ UNCHANGED <<recoveryVars, opVars, extVars, faults>>

\* The thread's wait() returns at once when close() has set the stop event.
RenewalWakes ==
  /\ pc # "close" /\ ThreadWake
  /\ UNCHANGED <<recoveryVars, opVars, extVars, faults>>

RenewalSteps ==
  /\ ThreadStep
  /\ UNCHANGED <<recoveryVars, opVars, extVars, faults>>

(***************************************************************************)
(* A lease lapses when its owner is gone, or when renewal has failed and   *)
(* the operation is not within a hand-over that began with a renewal: an   *)
(* RPC is assumed to take less than LOCK_TTL_SECONDS.                      *)
(***************************************************************************)
Lapse(calls) ==
  /\ ~Live \/ (thr = "failed" /\ pc \notin calls)
  /\ \E c \in Coins : LeaseLapses(c)
  /\ UNCHANGED <<recoveryVars, opVars, extVars, faults>>

Others ==
  /\ \E c \in Coins : OtherReserves(c)
  /\ UNCHANGED <<recoveryVars, opVars, extVars, faults>>

TidyUp == Unlock \/ Release \/ DropOwner \/ StopRenewal \/ Close

CleanupStep == TidyUp \/ Resolve

----------------------------------------------------------------------------
(* What a recover process may learn of the Bitcoin side, and properties    *)
(* that every funding operation has.                                       *)

BitcoinView == IF broadcast THEN {"yes", "unknown"} ELSE {"no", "unknown"}

\* get_funding_start_status() reports WITHHELD for any in-flight funding of the
\* peer, this one or another.
StartStatus == {"WITHHELD", "ABSENT"}

\* Inside lock() or unlock() of one coin.
AtCoin == {"reserve", "own", "release", "disown"}

\* Once the funding transaction may be on the network, neither the operation
\* nor a later recovery has released any of its inputs (open_channel.py:538-540
\* and recovery.py:475-480): through lost answers, failed journal writes,
\* interrupts and crashes at every step.
BroadcastKeepsInputs == broadcast => released = {}

DiskHealthy == faults = MaxDiskFaults

\* While the record exists, it holds the owner token of every reservation the
\* wallet still gives us, even when writes of it fail: a crash at any point
\* leaves nothing unaccounted for.
LeaseJournaled == rec.present => Leased \subseteq rec.owners

\* A record is dropped only at the operation's terminal phase, or when nothing
\* is reserved any more (resolve_if_clean, and the end of _reconcile).
ResolvedCleanAt(terminal) ==
  DiskHealthy /\ ~rec.present /\ pc # "idle" => lc.phase = terminal \/ Leased = {}

ResolvedClean == ResolvedCleanAt("broadcast")

\* An operation that began ends, and gives the journal's lifetime lock back:
\* the join of the renewal thread in close() does not wait for ever.
Terminates == Live ~> ~Live
=============================================================================
