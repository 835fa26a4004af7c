---------------------------- MODULE Reservations ----------------------------
(***************************************************************************)
(* JoinMarketAdapter (adapters/joinmarket.py) as the funding operations    *)
(* use it: owned reservations of wallet inputs, journaled before and after *)
(* every change, and the daemon thread that renews them.  The actions here *)
(* are parts; an operation module gives them their program counter.        *)
(***************************************************************************)
EXTENDS Journal

CONSTANT Coins          \* the wallet's outpoints

VARIABLES
  lease,     \* persisted wallet reservation of each coin (authoritative)
  held,      \* _lock_owners / _locked_utxos: what this adapter owns
  released,  \* coins explicitly released by jm-lightning (history)
  rec,       \* this operation's durable journal record
  thr,       \* where the renewal thread is
  todo,      \* its snapshot of coins still to renew
  outs       \* its first _owner_tokens() snapshot, for locked_outpoints

resVars == <<lease, held, released, rec, thr, todo, outs>>
thrVars == <<thr, todo, outs>>

\* Who holds a persisted reservation: nobody, this operation, anyone else.
Holders == {"free", "op", "other"}

ThreadStates == {"off", "wait", "outs", "write", "renew", "renewed", "lost",
                 "failed"}

ReservationsInit ==
  /\ lease \in [Coins -> {"free", "other"}]
  /\ held = {} /\ released = {}
  /\ rec = NoRecord
  /\ thr = "off" /\ todo = {} /\ outs = {}

Leased == {c \in Coins : lease[c] = "op"}

(***************************************************************************)
(* release_coinjoin_inputs() compares the owner: a lease that lapsed, and  *)
(* may belong to someone else by now, is left alone.                       *)
(***************************************************************************)
ReleaseIfOwned(c) ==
  /\ lease' = IF lease[c] = "op" THEN [lease EXCEPT ![c] = "free"] ELSE lease
  /\ released' = IF lease[c] = "op" THEN released \union {c} ELSE released

(***************************************************************************)
(* lock(): the coin and its fresh owner token are journaled first, then    *)
(* reserved in the wallet, then recorded locally and journaled again.      *)
(***************************************************************************)
MutLockJournal(c) ==    \* mutant: journals the coin only once it is owned
  rec' = BeforeMutation(rec, "reserve", "locked", held, held, FALSE)

LockJournal(c) ==
  rec' = BeforeMutation(rec, "reserve", "locked", held \union {c},
                        held \union {c}, FALSE)

LockReserve(c) ==
  /\ lease[c] = "free"
  /\ lease' = [lease EXCEPT ![c] = "op"]

LockOwn(c) == held' = held \union {c}

ReservationDone == AfterMutation(rec, "locked", FALSE)

\* unlock(): _journal_before_reservation() reads the tokens held now.
UnlockJournal ==
  rec' = BeforeMutation(rec, "release", "locked", held, held, FALSE)

Disown(c) == held' = held \ {c}

(***************************************************************************)
(* renew() for each locked coin, by the operation itself: one journal      *)
(* write before and one after each renewal, all with the same tokens.  It  *)
(* succeeds only when the thread has not failed and every lease is ours.   *)
(***************************************************************************)
RenewPending == BeforeMutation(rec, "renew", "locked", held, held, FALSE)

RenewedRecord == AfterMutation(RenewPending, "locked", FALSE)

Renewable(coins) == coins \subseteq Leased

MutRenewLocks(coins) ==    \* mutant: the wallet's False answer is ignored
  rec' = RenewedRecord

RenewLocks(coins) ==
  /\ thr # "failed"
  /\ Renewable(coins)
  /\ rec' = RenewedRecord

\* A renewal that raises: the thread had failed, a lease is gone, or the
\* wallet or the journal failed under the pending mutation.
RenewRaises(coins) ==
  \/ thr = "failed" /\ UNCHANGED rec
  \/ thr # "failed" /\ ~Renewable(coins) /\ rec' = RenewedRecord
  \/ thr # "failed" /\ rec' = RenewPending

(***************************************************************************)
(* The renewal thread: _renew_locks_periodically, _renew_owned_outpoints   *)
(* and _journal_before_reservation, at the granularity of their lock       *)
(* sections.  The two _owner_tokens() calls of one journal write are two   *)
(* sections: the operation may drop a coin between them.                   *)
(***************************************************************************)
ThreadWake ==
  /\ thr = "wait"
  /\ todo' = held
  /\ thr' = IF held = {} THEN "off" ELSE "outs"
  /\ UNCHANGED <<lease, held, released, rec, outs>>

ThreadOutpoints ==
  /\ thr = "outs"
  /\ outs' = held
  /\ thr' = "write"
  /\ UNCHANGED <<lease, held, released, rec, todo>>

ThreadWrite ==
  /\ thr = "write"
  /\ rec' = BeforeMutation(rec, "renew", "locked", outs, held, FALSE)
  /\ outs' = {}
  /\ thr' = "renew"
  /\ UNCHANGED <<lease, held, released, todo>>

ThreadRenew ==
  /\ thr = "renew"
  /\ \E c \in todo :
       /\ thr' = IF lease[c] = "op" THEN "renewed" ELSE "lost"
       /\ todo' = todo \ {c}
  /\ UNCHANGED <<lease, held, released, rec, outs>>

ThreadAfter ==
  /\ thr \in {"renewed", "lost"}
  /\ rec' = ReservationDone
  /\ thr' = IF thr = "lost" THEN "failed" ELSE IF todo = {} THEN "wait" ELSE "outs"
  /\ todo' = IF thr = "lost" THEN {} ELSE todo
  /\ UNCHANGED <<lease, held, released, outs>>

\* The journal or the wallet raises: _renewal_error is set and the thread ends.
ThreadFails ==
  /\ thr \in {"write", "renew"}
  /\ thr' = "failed" /\ todo' = {} /\ outs' = {}
  /\ UNCHANGED <<lease, held, released, rec>>

ThreadStep ==
  ThreadOutpoints \/ ThreadWrite \/ ThreadRenew \/ ThreadAfter \/ ThreadFails

\* stop_lock_renewal() sets the stop event and joins: no renewal is under way.
ThreadJoined == thr \in {"off", "wait", "failed"}

(***************************************************************************)
(* The wallet outside this operation: a lease no one renews lapses, and    *)
(* another process may reserve a free coin.                                *)
(***************************************************************************)
LeaseLapses(c) ==
  /\ lease[c] = "op"
  /\ lease' = [lease EXCEPT ![c] = "free"]
  /\ UNCHANGED <<held, released, rec, thr, todo, outs>>

OtherReserves(c) ==
  /\ lease[c] = "free"
  /\ lease' = [lease EXCEPT ![c] = "other"]
  /\ UNCHANGED <<held, released, rec, thr, todo, outs>>

\* The process dies: everything but the wallet and the journal is lost.
AdapterLost ==
  /\ held' = {} /\ thr' = "off" /\ todo' = {} /\ outs' = {}
  /\ UNCHANGED <<lease, released, rec>>
=============================================================================
