------------------------------ MODULE PeerSwap ------------------------------
(***************************************************************************)
(* The JoinMarket side of PeerSwap (operations/peerswap.py):               *)
(* PeerSwapPrepareTxOperation's coroutines on the dispatcher's event loop, *)
(* the concurrent futures through which the worker threads wait for them,  *)
(* the cancellation watchers, and the shutdown of all of it.  A coroutine  *)
(* runs without interruption from one await to the next, which is what one *)
(* action is here.  The bridge in between is the module Rendezvous: of it  *)
(* remains that a call is answered, or its connection closed and then the  *)
(* watcher told.                                                           *)
(***************************************************************************)
EXTENDS FiniteSets, Naturals

CONSTANTS
  Txs,            \* the transactions PeerSwap asks for
  Coins,          \* the inputs of each (reservations are exclusive)
  Requests,       \* the calls PeerSwap may make: <<method, transaction>>
  MaxDiskFaults   \* journal writes that may fail

Sends == {"txsend", "txsend again"}

ASSUME RequestsAssumption ==
  /\ Requests \subseteq (Sends \union {"txprepare", "txdiscard"}) \X Txs
  /\ MaxDiskFaults \in Nat

\* The coroutines: one per call, discard() for a cancelled txprepare, and one
\* round of the loop of close() for each transaction.
Tasks == Requests \union {"reclaim", "close"} \X Txs

VARIABLES
  at,         \* where each coroutine is
  out,        \* how it ended
  cancelling, \* tasks whose cancel() the loop has still to run
  stuck,      \* the task that blocks the loop's thread in begin(), if any
  phase,      \* PeerSwapPhase of each prepared transaction
  store,      \* the keys of _prepared
  adapter,    \* its JoinMarketAdapter, and the health of its renewal thread
  owned,      \* reservations it still has the owner tokens of
  lease,      \* reservations the wallet still gives it
  given,      \* reservations explicitly released (history)
  flock,      \* holder of the journal's lifetime lock
  jr,         \* the durable record of each send
  bc,         \* the broadcast call of each send
  onNet,      \* transactions the network has
  faults,     \* journal write failures left
  conn,       \* PeerSwap's side of each call
  fut,        \* the concurrent future a worker waits for
  active,     \* _active
  wk,         \* the worker handling each call
  flag,       \* its `cancelled` event
  svc,        \* the service: on, stopping, closing, closed
  cleft       \* transactions close() has still to visit

loopVars == <<at, out, cancelling, stuck>>
txVars == <<phase, store, adapter, owned, lease, given>>
journalVars == <<flock, jr, faults>>
netVars == <<bc, onNet>>
frontVars == <<conn, fut, active, wk, flag>>
vars == <<loopVars, txVars, journalVars, netVars, frontVars, svc, cleft>>

NoTask == <<"none", "none">>

SendsOf(t) == {q \in Requests : q[1] \in Sends /\ q[2] = t}

Init ==
  /\ at = [k \in Tasks |-> "none"] /\ out = [k \in Tasks |-> "none"]
  /\ cancelling = {} /\ stuck = NoTask
  /\ phase = [t \in Txs |-> "none"] /\ store = {}
  /\ adapter = [t \in Txs |-> "none"]
  /\ owned = [t \in Txs |-> {}] /\ lease = [t \in Txs |-> {}]
  /\ given = [t \in Txs |-> {}]
  /\ flock = NoTask /\ jr = [q \in Requests |-> "none"] /\ faults = MaxDiskFaults
  /\ bc = [q \in Requests |-> "none"] /\ onNet = {}
  /\ conn = [q \in Requests |-> "new"] /\ fut = [q \in Requests |-> "none"]
  /\ active = {} /\ wk = [q \in Requests |-> "none"]
  /\ flag = [q \in Requests |-> FALSE]
  /\ svc = "on" /\ cleft = {}

----------------------------------------------------------------------------
(* The event loop.                                                         *)

\* Task k is at p and the loop's thread is free to go on with it.
At(k, p) == at[k] = p /\ stuck = NoTask /\ svc # "closed"

Await(k, p) == at' = [at EXCEPT ![k] = p] /\ UNCHANGED out

End(k, how) == at' = [at EXCEPT ![k] = "done"] /\ out' = [out EXCEPT ![k] = how]

DiskFault == faults > 0 /\ faults' = faults - 1

\* unlock() of the coins S of t: the wallet releases those it still gives us.
GiveBack(t, S) ==
  /\ owned' = [owned EXCEPT ![t] = @ \ S]
  /\ given' = [given EXCEPT ![t] = @ \union (S \cap lease[t])]
  /\ lease' = [lease EXCEPT ![t] = @ \ S]

\* close() stops the renewal, then closes the wallet, which may raise.  The
\* reservations stay until they lapse.
CloseAdapter(t, how) ==
  adapter' = [adapter EXCEPT ![t] =
                IF how = "error" /\ @ # "closed" THEN "stopped" ELSE "closed"]

\* renew_reservations() can succeed.
Renewable(t) == adapter[t] = "open" /\ lease[t] = Coins

----------------------------------------------------------------------------
(* txprepare: execute() and prepared_result().                             *)

\* Up to the awaits of connect() and get_mempool_min_fee().
PrepareStart(k) ==
  /\ k[1] = "txprepare" /\ At(k, "ready")
  /\ Await(k, "fees")
  /\ UNCHANGED <<cancelling, stuck, txVars, journalVars, netVars, frontVars, svc, cleft>>

\* Selection and the lock loop.  Coins L get locked; if anything raises, U are
\* released again, and errors of that release are swallowed.
PrepareLock(k) ==
  LET t == k[2] IN
  /\ k[1] = "txprepare" /\ At(k, "fees")
  /\ adapter' = [adapter EXCEPT ![t] = "open"]
  /\ \/ /\ owned' = [owned EXCEPT ![t] = Coins] /\ lease' = [lease EXCEPT ![t] = Coins]
        /\ UNCHANGED given /\ Await(k, "rawtx")
     \/ \E L \in SUBSET Coins : \E U \in SUBSET L :
          /\ owned' = [owned EXCEPT ![t] = L \ U] /\ lease' = [lease EXCEPT ![t] = L \ U]
          /\ given' = [given EXCEPT ![t] = U]
          /\ Await(k, "abort")
  /\ UNCHANGED <<cancelling, stuck, phase, store, journalVars, netVars, frontVars, svc,
                 cleft>>

\* Build, sign and store.  The renewal in prepared_result() may still raise,
\* after the transaction has been stored.
PrepareBuild(k) ==
  LET t == k[2] IN
  /\ k[1] = "txprepare" /\ At(k, "rawtx")
  /\ \/ /\ store' = store \union {t} /\ phase' = [phase EXCEPT ![t] = "prepared"]
        /\ \/ Renewable(t) /\ End(k, "ok")
           \/ End(k, "error")
        /\ UNCHANGED <<owned, lease, given>>
     \/ /\ \E U \in SUBSET owned[t] : GiveBack(t, U)
        /\ Await(k, "abort") /\ UNCHANGED <<store, phase>>
  /\ UNCHANGED <<cancelling, stuck, adapter, journalVars, netVars, frontVars, svc, cleft>>

PrepareAbort(k) ==
  /\ k[1] = "txprepare" /\ At(k, "abort")
  /\ CloseAdapter(k[2], "ok") /\ End(k, "error")
  /\ UNCHANGED <<cancelling, stuck, phase, store, owned, lease, given, journalVars,
                 netVars, frontVars, svc, cleft>>

----------------------------------------------------------------------------
(* txsend: send().                                                         *)

SendStart(k) ==
  LET t == k[2] IN
  /\ k[1] \in Sends /\ At(k, "ready")
  /\ \/ /\ t \in store /\ phase[t] = "prepared" /\ Renewable(t)
        /\ stuck' = k /\ Await(k, "journal")
     \/ End(k, "error") /\ UNCHANGED stuck    \* not prepared, or not renewed
  /\ UNCHANGED <<cancelling, txVars, journalVars, netVars, frontVars, svc, cleft>>

MutSendJournal(k) ==    \* mutant: the broadcast starts before the journal write
  /\ stuck = k /\ svc # "closed" /\ flock = NoTask
  /\ stuck' = NoTask /\ flock' = k
  /\ \/ /\ jr' = [jr EXCEPT ![k] = "pending"] /\ UNCHANGED <<faults, out>>
        /\ bc' = [bc EXCEPT ![k] = "flight"] /\ at' = [at EXCEPT ![k] = "sending"]
     \/ /\ DiskFault /\ jr' = [jr EXCEPT ![k] = "begun"]
        /\ bc' = [bc EXCEPT ![k] = "flight"] /\ End(k, "error")
  /\ UNCHANGED <<cancelling, txVars, onNet, frontVars, svc, cleft>>

MutNoFlock(k) ==    \* mutant: create() without taking the lifetime lock
  /\ stuck = k /\ svc # "closed"
  /\ stuck' = NoTask /\ flock' = k
  /\ jr' = [jr EXCEPT ![k] = "pending"] /\ bc' = [bc EXCEPT ![k] = "flight"]
  /\ Await(k, "sending") /\ UNCHANGED faults
  /\ UNCHANGED <<cancelling, txVars, onNet, frontVars, svc, cleft>>

\* begin() blocks the loop's thread for the lifetime lock.  When
\* before_mutation() raises, it is outside the block that releases the lock.
SendJournal(k) ==
  /\ stuck = k /\ svc # "closed" /\ flock = NoTask
  /\ stuck' = NoTask
  /\ \/ /\ flock' = k /\ jr' = [jr EXCEPT ![k] = "pending"] /\ UNCHANGED faults
        /\ bc' = [bc EXCEPT ![k] = "flight"] /\ Await(k, "sending")
     \/ DiskFault /\ UNCHANGED <<flock, jr, bc>> /\ End(k, "error")
     \/ DiskFault /\ flock' = k /\ jr' = [jr EXCEPT ![k] = "begun"]
        /\ UNCHANGED bc /\ End(k, "error")
  /\ UNCHANGED <<cancelling, txVars, onNet, frontVars, svc, cleft>>

\* after_mutation() and the transition to BROADCAST, which another coroutine
\* may have made impossible since the check in SendStart.
SendAnswered(k) ==
  LET t == k[2] IN
  /\ k[1] \in Sends /\ At(k, "sending") /\ bc[k] # "flight"
  /\ \/ /\ bc[k] = "ok" /\ phase[t] = "prepared"
        /\ jr' = [jr EXCEPT ![k] = "sent"]
        /\ phase' = [phase EXCEPT ![t] = "broadcast"] /\ Await(k, "closing")
        /\ UNCHANGED <<faults, flock>>
     \/ /\ bc[k] = "ok" /\ phase[t] # "prepared" /\ jr' = [jr EXCEPT ![k] = "sent"]
        /\ flock' = NoTask /\ End(k, "error") /\ UNCHANGED <<faults, phase>>
     \/ /\ bc[k] = "ok" /\ DiskFault /\ flock' = NoTask /\ End(k, "error")
        /\ UNCHANGED <<jr, phase>>
     \/ /\ bc[k] = "failed" /\ flock' = NoTask /\ End(k, "error")
        /\ UNCHANGED <<jr, faults, phase>>
  /\ UNCHANGED <<cancelling, stuck, store, adapter, owned, lease, given, netVars,
                 frontVars, svc, cleft>>

\* The adapter is closed, or closing it raised and everything is retained.
SendClosed(k) ==
  LET t == k[2] IN
  /\ k[1] \in Sends /\ At(k, "closing")
  /\ flock' = NoTask
  /\ \/ /\ CloseAdapter(t, "ok") /\ store' = store \ {t}
        /\ jr' = [jr EXCEPT ![k] = "resolved"] /\ End(k, "ok") /\ UNCHANGED faults
     \/ /\ CloseAdapter(t, "ok") /\ store' = store \ {t}
        /\ DiskFault /\ End(k, "error") /\ UNCHANGED jr
     \/ CloseAdapter(t, "error") /\ End(k, "ok") /\ UNCHANGED <<store, jr, faults>>
  /\ UNCHANGED <<cancelling, stuck, phase, owned, lease, given, netVars, frontVars, svc,
                 cleft>>

----------------------------------------------------------------------------
(* txdiscard, the reclaiming of a cancelled txprepare, and close().        *)

Discards == {"txdiscard", "reclaim", "close"}

\* _cleanup_prepared() gives up before the close when a release raised.
Release(k) ==
  LET t == k[2] IN
  \E S \in SUBSET owned[t] :
    /\ adapter[t] = "closed" => S = {}
    /\ GiveBack(t, S)
    /\ IF S = owned[t] THEN Await(k, "closing") ELSE End(k, "error")

DiscardStart(k) ==
  LET t == k[2] IN
  /\ k[1] \in Discards /\ At(k, "ready")
  /\ \/ t \in store /\ phase[t] = "prepared" /\ Release(k)
     \/ /\ t \in store /\ phase[t] = "broadcast" /\ Await(k, "closing sent")
        /\ UNCHANGED <<owned, lease, given>>
     \/ /\ t \notin store \/ phase[t] \notin {"prepared", "broadcast"}
        /\ End(k, "error") /\ UNCHANGED <<owned, lease, given>>
  /\ UNCHANGED <<cancelling, stuck, phase, store, adapter, journalVars, netVars,
                 frontVars, svc, cleft>>

\* When the close raises, discard() fails and close() goes on to the next one.
DiscardClosed(k) ==
  LET t == k[2] IN
  /\ k[1] \in Discards
  /\ At(k, "closing") \/ At(k, "closing sent")
  /\ \/ CloseAdapter(t, "error") /\ End(k, "error") /\ UNCHANGED <<phase, store, cleft>>
     \/ /\ at[k] = "closing" /\ phase[t] = "prepared" /\ CloseAdapter(t, "ok")
        /\ phase' = [phase EXCEPT ![t] = "discarded"] /\ store' = store \ {t}
        /\ End(k, "ok") /\ UNCHANGED cleft
     \/ /\ at[k] = "closing" /\ phase[t] # "prepared"    \* transition() raises
        /\ CloseAdapter(t, "ok") /\ End(k, "error") /\ UNCHANGED phase
        /\ IF k[1] = "close" THEN store' = store \ {t} /\ cleft' = {}
                             ELSE UNCHANGED <<store, cleft>>
     \/ /\ at[k] = "closing sent" /\ CloseAdapter(t, "ok") /\ store' = store \ {t}
        /\ End(k, "ok") /\ UNCHANGED <<phase, cleft>>
  /\ UNCHANGED <<cancelling, stuck, owned, lease, given, journalVars, netVars, frontVars,
                 svc>>

----------------------------------------------------------------------------
(* Cancellation.                                                           *)

MutThrow(k) ==    \* mutant: only `except Exception`, which CancelledError passes
  LET t == k[2] IN
  IF at[k] = "done" \/ at[k] = "sending"
    THEN UNCHANGED <<at, out, flock, owned, lease, given>>
  ELSE IF k[1] \in Sends
    THEN flock' = NoTask /\ End(k, "cancelled") /\ UNCHANGED <<owned, lease, given>>
  ELSE End(k, "cancelled") /\ UNCHANGED <<flock, owned, lease, given>>

\* What a CancelledError does where task k is suspended: a send waits on for
\* its broadcast, an execute() with locked coins releases them and closes.
Throw(k) ==
  LET t == k[2] IN
  IF at[k] = "done" \/ at[k] = "sending"
    THEN UNCHANGED <<at, out, flock, owned, lease, given>>
  ELSE IF at[k] = "rawtx"
    THEN /\ \E U \in SUBSET owned[t] : GiveBack(t, U)
         /\ Await(k, "abort") /\ UNCHANGED flock
  ELSE IF at[k] = "closing" /\ k[1] \in Sends
    THEN flock' = NoTask /\ End(k, "cancelled") /\ UNCHANGED <<owned, lease, given>>
  ELSE End(k, "cancelled") /\ UNCHANGED <<flock, owned, lease, given>>

\* Closing was under way: the renewal thread has been told to stop.
DeliverCancel(k) ==
  LET t == k[2] IN
  /\ k \in cancelling /\ stuck = NoTask /\ svc # "closed"
  /\ cancelling' = cancelling \ {k}
  /\ Throw(k)
  /\ adapter' = IF at[k] \in {"abort", "closing", "closing sent"}
                THEN [adapter EXCEPT ![t] = "stopped"] ELSE adapter
  /\ UNCHANGED <<stuck, phase, store, jr, faults, netVars, frontVars, svc, cleft>>

\* cancel_request(): Future.cancel() fails only once the future has its result.
CancelRequest(q) ==
  LET reclaim == <<"reclaim", q[2]>> IN
  IF q \notin active THEN UNCHANGED <<fut, cancelling, at>>
  ELSE IF fut[q] = "pending"
    THEN /\ fut' = [fut EXCEPT ![q] = "cancelled"]
         /\ cancelling' = cancelling \union {q} /\ UNCHANGED at
  ELSE IF fut[q] = "ok" /\ q[1] = "txprepare" /\ at[reclaim] = "none"
    THEN at' = [at EXCEPT ![reclaim] = "ready"] /\ UNCHANGED <<fut, cancelling>>
  ELSE UNCHANGED <<fut, cancelling, at>>

----------------------------------------------------------------------------
(* The workers, their watchers and PeerSwap.                               *)

\* PeerSwap makes one call at a time for a transaction, and knows it only from
\* the answer to txprepare.  A worker has been waiting for it.
Dispatch(q) ==
  /\ svc = "on" /\ conn[q] = "new"
  /\ \A p \in Requests : p[2] = q[2] => conn[p] # "open"
  /\ q[1] # "txprepare" => conn[<<"txprepare", q[2]>>] = "answered"
  /\ conn' = [conn EXCEPT ![q] = "open"]
  /\ at' = [at EXCEPT ![q] = "ready"] /\ fut' = [fut EXCEPT ![q] = "pending"]
  /\ active' = active \union {q} /\ wk' = [wk EXCEPT ![q] = "wait"]
  /\ UNCHANGED <<out, cancelling, stuck, txVars, journalVars, netVars, flag, svc, cleft>>

\* PeerSwap closes its connection.
HangUp(q) ==
  /\ conn[q] = "open" /\ conn' = [conn EXCEPT ![q] = "closed"]
  /\ UNCHANGED <<loopVars, txVars, journalVars, netVars, fut, active, wk, flag, svc,
                 cleft>>

\* watch_cancel(): the bridge has reported the request as cancelled.
WatchCancelled(q) ==
  /\ conn[q] = "closed" /\ wk[q] = "wait" /\ ~flag[q]
  /\ flag' = [flag EXCEPT ![q] = TRUE]
  /\ CancelRequest(q)
  /\ UNCHANGED <<out, stuck, txVars, journalVars, netVars, conn, active, wk, svc, cleft>>

\* The loop hands the outcome of a finished task to the concurrent future, in
\* a callback of its own.
Settle(q) ==
  /\ at[q] = "done" /\ fut[q] = "pending" /\ stuck = NoTask /\ svc # "closed"
  /\ fut' = [fut EXCEPT ![q] = IF out[q] = "ok" THEN "ok" ELSE "error"]
  /\ UNCHANGED <<loopVars, txVars, journalVars, netVars, conn, active, wk, flag, svc,
                 cleft>>

Answer(q, how) == conn' = [conn EXCEPT ![q] = IF @ = "open" THEN how ELSE @]

\* A failed task.  The error response of a closed call may raise, and then the
\* handle of the operation stays in _active.
WorkerFails(q) ==
  /\ wk[q] = "wait" /\ fut[q] \in {"error", "cancelled"}
  /\ wk' = [wk EXCEPT ![q] = "done"]
  /\ IF flag[q] THEN UNCHANGED conn ELSE Answer(q, "failed")
  /\ \/ active' = active \ {q}
     \/ ~flag[q] /\ conn[q] = "closed" /\ UNCHANGED active
  /\ UNCHANGED <<loopVars, txVars, journalVars, netVars, fut, flag, svc, cleft>>

\* A result: answered, written to a connection that is gone, or refused by the
\* bridge, and then taken back as after a cancellation.
WorkerResponds(q) ==
  /\ wk[q] = "wait" /\ fut[q] = "ok"
  /\ wk' = [wk EXCEPT ![q] = "done"] /\ active' = active \ {q}
  /\ \/ ~flag[q] /\ Answer(q, "answered") /\ UNCHANGED <<fut, cancelling, at>>
     \/ (flag[q] \/ conn[q] = "closed") /\ CancelRequest(q) /\ UNCHANGED conn
  /\ UNCHANGED <<out, stuck, txVars, journalVars, netVars, flag, svc, cleft>>

----------------------------------------------------------------------------
(* The end of the service: PeerSwapRuntime.call, stop() and close().       *)

\* The RPC that the user asked for has returned.
Stop ==
  /\ svc = "on" /\ svc' = "stopping"
  /\ UNCHANGED <<loopVars, txVars, journalVars, netVars, frontVars, cleft>>

MutSettled == active = {}    \* mutant: waits for the handles instead of the futures

\* No dispatch is active, every future has a result, every reclaiming is over.
Settled ==
  /\ \A q \in active : fut[q] # "pending"
  /\ \A t \in Txs : at[<<"reclaim", t>>] \in {"none", "done"}

MutCloseBegin ==    \* mutant: the shutdown waits for the reclaimings only
  /\ svc = "stopping" /\ \A t \in Txs : at[<<"reclaim", t>>] \in {"none", "done"}
  /\ svc' = "closing" /\ cleft' = store
  /\ UNCHANGED <<loopVars, txVars, journalVars, netVars, frontVars>>

CloseBegin ==
  /\ svc = "stopping" /\ \A q \in Requests : wk[q] # "wait"
  /\ Settled
  /\ svc' = "closing" /\ cleft' = store
  /\ UNCHANGED <<loopVars, txVars, journalVars, netVars, frontVars>>

Closing == \E t \in Txs : at[<<"close", t>>] \notin {"none", "done"}

CloseNext(t) ==
  /\ svc = "closing" /\ ~Closing /\ stuck = NoTask /\ t \in cleft
  /\ cleft' = cleft \ {t} /\ at' = [at EXCEPT ![<<"close", t>>] = "ready"]
  /\ UNCHANGED <<out, cancelling, stuck, txVars, journalVars, netVars, frontVars, svc>>

\* The loop stops, and the process ends with whatever was still suspended.
CloseEnd ==
  /\ svc = "closing" /\ ~Closing /\ cleft = {} /\ stuck = NoTask
  /\ svc' = "closed" /\ flock' = NoTask
  /\ adapter' = [t \in Txs |-> IF adapter[t] = "none" THEN "none" ELSE "closed"]
  /\ UNCHANGED <<loopVars, phase, store, owned, lease, given, jr, faults, netVars,
                 frontVars, cleft>>

----------------------------------------------------------------------------
(* The network, the wallet and the renewal threads.                        *)

NodeAccepts(q) ==
  /\ bc[q] = "flight" /\ onNet' = onNet \union {q[2]}
  /\ UNCHANGED <<loopVars, txVars, journalVars, bc, frontVars, svc, cleft>>

\* A transaction the node has may be reported as such, or the answer be lost.
BroadcastReturns(q) ==
  /\ bc[q] = "flight"
  /\ \/ bc' = [bc EXCEPT ![q] = "failed"]
     \/ q[2] \in onNet /\ bc' = [bc EXCEPT ![q] = "ok"]
  /\ UNCHANGED <<loopVars, txVars, journalVars, onNet, frontVars, svc, cleft>>

RenewalFails(t) ==
  /\ adapter[t] = "open" /\ adapter' = [adapter EXCEPT ![t] = "failing"]
  /\ UNCHANGED <<loopVars, phase, store, owned, lease, given, journalVars, netVars,
                 frontVars, svc, cleft>>

\* A broadcast call is assumed to take less than the lease lasts.
Lapse(t) ==
  /\ adapter[t] \in {"failing", "stopped", "closed"}
  /\ \A q \in SendsOf(t) : bc[q] # "flight"
  /\ \E c \in lease[t] : lease' = [lease EXCEPT ![t] = @ \ {c}]
  /\ UNCHANGED <<loopVars, phase, store, adapter, owned, given, journalVars, netVars,
                 frontVars, svc, cleft>>

\* Another jm-lightning operation, or a recover process, holds the lock.  Only
\* a send that wants it can tell, so it is taken no sooner.
Other == <<"other", "other">>

OtherLocks ==
  /\ flock = NoTask /\ stuck # NoTask /\ flock' = Other
  /\ UNCHANGED <<loopVars, txVars, jr, faults, netVars, frontVars, svc, cleft>>

OtherUnlocks ==
  /\ flock = Other /\ flock' = NoTask
  /\ UNCHANGED <<loopVars, txVars, jr, faults, netVars, frontVars, svc, cleft>>

LoopStep(k) ==
  \/ PrepareStart(k) \/ PrepareLock(k) \/ PrepareBuild(k) \/ PrepareAbort(k)
  \/ SendStart(k) \/ SendJournal(k) \/ SendAnswered(k) \/ SendClosed(k)
  \/ DiscardStart(k) \/ DiscardClosed(k) \/ DeliverCancel(k)

WorkerStep(q) == Settle(q) \/ WorkerFails(q) \/ WorkerResponds(q)

Shutdown == CloseBegin \/ CloseEnd \/ \E t \in Txs : CloseNext(t)

Next ==
  \/ \E k \in Tasks : LoopStep(k)
  \/ \E q \in Requests :
       \/ WorkerStep(q) \/ Dispatch(q) \/ HangUp(q) \/ WatchCancelled(q)
       \/ NodeAccepts(q) \/ BroadcastReturns(q)
  \/ \E t \in Txs : RenewalFails(t) \/ Lapse(t)
  \/ Stop \/ Shutdown \/ OtherLocks \/ OtherUnlocks

Spec == Init /\ [][Next]_vars

(***************************************************************************)
(* The loop and the workers run on, the wallet backend's HTTP client gives *)
(* up in the end, and other operations give the lifetime lock back; SF for *)
(* the one step that competes with them for it.                            *)
(***************************************************************************)
FairSpec ==
  /\ Spec
  /\ \A k \in Tasks : WF_vars(LoopStep(k)) /\ SF_vars(SendJournal(k))
  /\ \A q \in Requests : WF_vars(WorkerStep(q)) /\ WF_vars(BroadcastReturns(q))
  /\ WF_vars(Shutdown) /\ WF_vars(OtherUnlocks)

----------------------------------------------------------------------------
(* Properties.                                                             *)

TypeOK ==
  /\ at \in [Tasks -> {"none", "ready", "fees", "rawtx", "abort", "journal", "sending",
                       "closing", "closing sent", "done"}]
  /\ out \in [Tasks -> {"none", "ok", "error", "cancelled"}]
  /\ cancelling \subseteq Requests /\ stuck \in Requests \union {NoTask}
  /\ phase \in [Txs -> {"none", "prepared", "broadcast", "discarded"}]
  /\ store \subseteq Txs
  /\ adapter \in [Txs -> {"none", "open", "failing", "stopped", "closed"}]
  /\ \A t \in Txs : owned[t] \subseteq Coins /\ lease[t] \subseteq Coins
                    /\ given[t] \subseteq Coins
  /\ flock \in Requests \union {NoTask, Other}
  /\ jr \in [Requests -> {"none", "begun", "pending", "sent", "resolved"}]
  /\ bc \in [Requests -> {"none", "flight", "ok", "failed"}] /\ onNet \subseteq Txs
  /\ faults \in 0..MaxDiskFaults
  /\ conn \in [Requests -> {"new", "open", "answered", "failed", "closed"}]
  /\ fut \in [Requests -> {"none", "pending", "ok", "error", "cancelled"}]
  /\ active \subseteq Requests /\ wk \in [Requests -> {"none", "wait", "done"}]
  /\ flag \in [Requests -> BOOLEAN]
  /\ svc \in {"on", "stopping", "closing", "closed"} /\ cleft \subseteq Txs

\* No reservation is renewed that nobody can release any more: a live adapter
\* belongs to a txprepare in progress or to a stored transaction, through
\* errors, cancellations and failed releases (336-349, 372-386, 568-618).
NoOrphanRenewal ==
  \A t \in Txs : adapter[t] \in {"open", "failing"} =>
    t \in store \/ at[<<"txprepare", t>>] \in {"rawtx", "abort"}

\* A transaction is handed to the node only under a durable record of it, and
\* the record goes only when the network has the transaction (422-440, 486).
SendJournaled ==
  \A q \in Requests :
    /\ bc[q] # "none" => jr[q] \in {"pending", "sent", "resolved"}
    /\ jr[q] = "resolved" => q[2] \in onNet

\* One broadcast at a time: a repeated txsend does not race the first, though
\* both find the transaction PREPARED (404-430).
OneSendAtATime == Cardinality({q \in Requests : at[q] = "sending"}) <= 1

(***************************************************************************)
(* No input of a transaction is released while a send of it is in flight,  *)
(* as long as PeerSwap has hung up on none of its calls for it: discard()  *)
(* and close() look at the phase alone (655-674), which is PREPARED until  *)
(* the node has answered, so what keeps them away is that the calls come   *)
(* one by one, that a reclaiming follows a hang-up, and that the shutdown  *)
(* waits for the workers and their futures (817-829, 1119-1192, 1217-1233).*)
(***************************************************************************)
HeldForCallers ==
  \A q \in Requests :
    /\ bc[q] = "flight"
    /\ \A p \in Requests : p[2] = q[2] => conn[p] # "closed"
    => given[q[2]] = {}

\* A service that has been told to stop ends: its workers, its futures, the
\* reclaimings and the loop of close() all finish (817-829, 1199-1247).
StopEnds == svc = "stopping" ~> svc = "closed"

\* "txsend deliberately waits for an in-flight broadcast after cancellation so
\* shutdown must not race operation.close() against that work" (1210-1213).
CloseWaits == svc = "closing" => \A q \in Requests : at[q] # "sending"

\* "Ambiguous broadcast failures retain the prepared state so the transaction
\* can be retried" (README.md:913): its inputs are not released.
AmbiguousKept ==
  \A q \in Requests : bc[q] = "failed" => given[q[2]] = {}

\* Two txsend calls in flight do not stop the event loop: it never waits for a
\* lock that one of its own coroutines holds.
LoopNotStuck == stuck # NoTask => flock \notin Requests

\* "Let the cancellation watcher reclaim a completed txprepare instead of
\* leaking its prepared JoinMarket transaction" (rendezvous.py:457-460): one
\* whose caller is gone is not left behind when its worker is through with it.
Reclaimed ==
  \A t \in Txs :
    LET q == <<"txprepare", t>> IN
    conn[q] = "closed" /\ wk[q] = "done" /\ at[q] = "done" /\ q \notin cancelling
      => t \notin store \/ at[<<"reclaim", t>>] # "none"

\* "If the prepared transaction was left idle beyond the lease lifetime, do not
\* broadcast inputs that are no longer reserved by this operation" (411-413).
BroadcastLeased ==
  \A q \in Requests : bc[q] = "flight" /\ given[q[2]] = {} => lease[q[2]] = Coins
=============================================================================
