----------------------------- MODULE Rendezvous -----------------------------
(***************************************************************************)
(* PeerSwapRendezvous (jmpeerswap/rendezvous.py): PeerSwap's txprepare,    *)
(* txsend and txdiscard calls, intercepted by the proxy, are matched with  *)
(* the jmpeerswap-request calls of jm-lightning.  Each of the proxy's      *)
(* relay threads, the timers and pyln's dispatch loop ("main") enters the  *)
(* lock on its own, and answers only after it has left it: what it still   *)
(* has to say is an element of todo.                                       *)
(***************************************************************************)
EXTENDS Naturals, SequencesExt

CONSTANTS
  Requests,     \* intercepted PeerSwap calls, one deferred response each
  Calls,        \* the worker threads of jm-lightning processes
  MaxPending    \* max_pending

ASSUME MaxPendingAssumption == MaxPending \in Nat \ {0}

VARIABLES
  req,         \* PeerSwapRendezvousState of each request
  unassigned,  \* _unassigned
  waiters,     \* _waiters
  terminal,    \* _terminal
  stopped,     \* _stopped
  todo,        \* answers still to be written, outside the lock
  conn,        \* PeerSwap's connection of each request
  call,        \* what each worker is doing
  holder,      \* the worker that was given a request
  client,      \* what jm-lightning did with it
  watch,       \* its jmpeerswap-cancel call
  attempts,    \* answers written to PeerSwap, the failed ones too (history)
  delivered    \* what PeerSwap received (history)

bridgeVars == <<req, unassigned, waiters, terminal, stopped, todo>>
clientVars == <<call, holder, client, watch>>
historyVars == <<attempts, delivered>>
vars == <<bridgeVars, conn, clientVars, historyVars>>

NoCall == "no call"

States == {"new", "refused", "queued", "assigned", "completed", "cancelled",
           "timed_out"}

Effects ==
  [do : {"assign"}, by : Requests \union {"main"}, req : Requests, call : Calls]
    \union [do : {"respond"}, by : {"main"}, req : Requests, watched : BOOLEAN]
    \union [do : {"error"}, by : Requests \union {"main", "timer"}, req : Requests]
    \union [do : {"tell"}, by : Requests \union {"main"}, req : Requests]

Init ==
  /\ req = [r \in Requests |-> "new"]
  /\ unassigned = <<>> /\ waiters = <<>> /\ terminal = {} /\ stopped = FALSE
  /\ todo = {}
  /\ conn = [r \in Requests |-> "open"]
  /\ call = [w \in Calls |-> "idle"]
  /\ holder = [r \in Requests |-> NoCall]
  /\ client = [r \in Requests |-> "none"]
  /\ watch = [r \in Requests |-> "none"]
  /\ attempts = [r \in Requests |-> 0]
  /\ delivered = [r \in Requests |-> "nothing"]

\* The keys of _requests.
Pending == {r \in Requests : req[r] \in {"queued", "assigned"}}

\* A thread goes on to its next call only when it has written its answers.
Quiet(thread) == \A e \in todo : e.by # thread

Error(thread, r) == [do |-> "error", by |-> thread, req |-> r]
Tell(thread, r) == [do |-> "tell", by |-> thread, req |-> r]

----------------------------------------------------------------------------
(* _match_locked(): as many pairs as there are, oldest first; the waiter   *)
(* of a request that is no longer queued would be dropped.                 *)

Matched(ws, un, states) ==
  {i \in 1..Len(ws) : i <= Len(un) /\ states[un[i]] = "queued"}

Match(thread, ws, un, states) ==
  LET pairs == Matched(ws, un, states)
      n == IF Len(ws) < Len(un) THEN Len(ws) ELSE Len(un)
  IN /\ waiters' = SubSeq(ws, n + 1, Len(ws))
     /\ unassigned' = SubSeq(un, n + 1, Len(un))
     /\ req' = [r \in Requests |-> IF \E i \in pairs : un[i] = r THEN "assigned"
                                   ELSE states[r]]
     /\ todo' = todo \union
          {[do |-> "assign", by |-> thread, req |-> un[i], call |-> ws[i]] : i \in pairs}

\* wait(): a worker's jmpeerswap-request.
Wait(w) ==
  /\ Quiet("main") /\ call[w] = "idle"
  /\ IF stopped \/ Len(waiters) >= MaxPending
     THEN UNCHANGED <<req, unassigned, waiters, todo, call>>
     ELSE /\ call' = [call EXCEPT ![w] = "waiting"]
          /\ Match("main", Append(waiters, w), unassigned, req)
  /\ UNCHANGED <<terminal, stopped, conn, holder, client, watch, historyVars>>

\* submit(): called by the relay thread of PeerSwap's connection.
Submit(r) ==
  /\ req[r] = "new" /\ conn[r] = "open"
  /\ IF stopped \/ Cardinality(Pending) >= MaxPending
     THEN /\ req' = [req EXCEPT ![r] = "refused"]
          /\ todo' = todo \union {Error(r, r)}
          /\ UNCHANGED <<unassigned, waiters>>
     ELSE Match(r, waiters, Append(unassigned, r), [req EXCEPT ![r] = "queued"])
  /\ UNCHANGED <<terminal, stopped, conn, clientVars, historyVars>>

MutExpire(r) ==    \* mutant: the id stays in the queue of unassigned requests
  /\ req[r] = "queued" /\ ~stopped
  /\ req' = [req EXCEPT ![r] = "timed_out"]
  /\ todo' = todo \union {Error("timer", r)}
  /\ UNCHANGED <<unassigned, waiters, terminal, stopped, conn, clientVars, historyVars>>

MutTimer(r) ==    \* mutant: the test of the state is the wrong way round
  /\ req[r] = "assigned" /\ ~stopped
  /\ req' = [req EXCEPT ![r] = "timed_out"]
  /\ unassigned' = RemoveFirst(unassigned, r)
  /\ todo' = todo \union {Error("timer", r)}
  /\ UNCHANGED <<waiters, terminal, stopped, conn, clientVars, historyVars>>

\* _expire_request(): an assigned request has no deadline.
Expire(r) ==
  /\ req[r] = "queued" /\ ~stopped
  /\ req' = [req EXCEPT ![r] = "timed_out"]
  /\ unassigned' = RemoveFirst(unassigned, r)
  /\ todo' = todo \union {Error("timer", r)}
  /\ UNCHANGED <<waiters, terminal, stopped, conn, clientVars, historyVars>>

MutCancel(r) ==    \* mutant: an assigned request is not kept for its watcher
  /\ conn[r] = "closed" /\ Quiet(r) /\ r \in Pending
  /\ req' = [req EXCEPT ![r] = "cancelled"]
  /\ unassigned' = RemoveFirst(unassigned, r)
  /\ todo' = IF watch[r] = "waiting" THEN todo \union {Tell(r, r)} ELSE todo
  /\ UNCHANGED <<waiters, terminal, stopped, conn, clientVars, historyVars>>

\* cancel(): the disconnect handler of the response sink.
Cancel(r) ==
  /\ conn[r] = "closed" /\ Quiet(r) /\ r \in Pending
  /\ req' = [req EXCEPT ![r] = "cancelled"]
  /\ unassigned' = RemoveFirst(unassigned, r)
  /\ terminal' = IF req[r] = "assigned" THEN terminal \union {r} ELSE terminal
  /\ todo' = IF watch[r] = "waiting" THEN todo \union {Tell(r, r)} ELSE todo
  /\ UNCHANGED <<waiters, stopped, conn, clientVars, historyVars>>

\* wait_cancel(): the cancellation watcher of the worker that has the request.
WaitCancel(r) ==
  /\ Quiet("main") /\ client[r] # "none" /\ watch[r] = "none"
  /\ watch' = [watch EXCEPT ![r] =
                 IF req[r] = "assigned" THEN "waiting"
                 ELSE IF r \in terminal THEN req[r] ELSE "unknown"]
  /\ terminal' = terminal \ {r}
  /\ UNCHANGED <<req, unassigned, waiters, stopped, todo, conn, call, holder, client,
                 historyVars>>

MutAnswerable(r) == client[r] = "has"    \* mutant: the state is not looked at

\* respond() raises ValueError unless the request is assigned.
Answerable(r) == client[r] = "has" /\ req[r] = "assigned"

MutRespond(r) ==    \* mutant: the watcher is read after it has been cleared
  /\ Quiet("main") /\ Answerable(r)
  /\ req' = [req EXCEPT ![r] = "completed"]
  /\ terminal' = terminal \union {r}
  /\ todo' = todo \union {[do |-> "respond", by |-> "main", req |-> r,
                           watched |-> FALSE]}
  /\ client' = [client EXCEPT ![r] = "answered"]
  /\ call' = [call EXCEPT ![holder[r]] = "idle"]
  /\ UNCHANGED <<unassigned, waiters, stopped, conn, holder, watch, historyVars>>

\* respond(): a jmpeerswap-response with a result or an error.
Respond(r) ==
  /\ Quiet("main") /\ Answerable(r)
  /\ req' = [req EXCEPT ![r] = "completed"]
  /\ terminal' = terminal \union {r}
  /\ todo' = todo \union {[do |-> "respond", by |-> "main", req |-> r,
                           watched |-> watch[r] = "waiting"]}
  /\ client' = [client EXCEPT ![r] = "answered"]
  /\ call' = [call EXCEPT ![holder[r]] = "idle"]
  /\ UNCHANGED <<unassigned, waiters, stopped, conn, holder, watch, historyVars>>

RespondFails(r) ==
  /\ Quiet("main") /\ client[r] = "has" /\ ~Answerable(r)
  /\ client' = [client EXCEPT ![r] = "unanswered"]
  /\ call' = [call EXCEPT ![holder[r]] = "idle"]
  /\ UNCHANGED <<bridgeVars, conn, holder, watch, historyVars>>

\* stop(): the plugin shuts down.
Stop ==
  /\ Quiet("main") /\ ~stopped
  /\ stopped' = TRUE
  /\ waiters' = <<>> /\ unassigned' = <<>>
  /\ req' = [r \in Requests |-> IF r \in Pending THEN "cancelled" ELSE req[r]]
  /\ todo' = todo \union {Error("main", r) : r \in Pending}
                  \union {Tell("main", r) : r \in {p \in Pending : watch[p] = "waiting"}}
  /\ call' = [w \in Calls |-> IF call[w] = "waiting" /\ w \in ToSet(waiters)
                              THEN "idle" ELSE call[w]]
  /\ UNCHANGED <<terminal, conn, holder, client, watch, historyVars>>

----------------------------------------------------------------------------
(* What is written after the lock has been left.                           *)

\* _complete_assignments(): CLN drops the result of a caller that has gone.
Assign(e) ==
  /\ e.do = "assign"
  /\ IF call[e.call] = "waiting"
     THEN /\ call' = [call EXCEPT ![e.call] = "busy"]
          /\ holder' = [holder EXCEPT ![e.req] = e.call]
          /\ client' = [client EXCEPT ![e.req] = "has"]
     ELSE UNCHANGED <<call, holder, client>>
  /\ UNCHANGED <<req, terminal, watch, historyVars>>

\* _safe_respond(): an OSError of a closed connection is swallowed.
Write(r, what) ==
  /\ attempts' = [attempts EXCEPT ![r] = @ + 1]
  /\ delivered' = IF conn[r] = "open" THEN [delivered EXCEPT ![r] = what] ELSE delivered

SayError(e) ==
  /\ e.do = "error"
  /\ Write(e.req, "error")
  /\ UNCHANGED <<req, terminal, clientVars>>

MutVerdict(r) == "completed"    \* mutant: the outcome of the write is ignored

Verdict(r) == IF conn[r] = "open" THEN "completed" ELSE "cancelled"

SayResult(e) ==
  /\ e.do = "respond"
  /\ Write(e.req, "result")
  /\ req' = [req EXCEPT ![e.req] = Verdict(e.req)]
  /\ IF e.watched
     THEN /\ watch' = [watch EXCEPT ![e.req] = Verdict(e.req)]
          /\ terminal' = terminal \ {e.req}
     ELSE UNCHANGED <<watch, terminal>>
  /\ UNCHANGED <<call, holder, client>>

SayCancelled(e) ==
  /\ e.do = "tell"
  /\ watch' = [watch EXCEPT ![e.req] = "cancelled"]
  /\ terminal' = terminal \ {e.req}
  /\ UNCHANGED <<req, call, holder, client, historyVars>>

Say(e) ==
  /\ e \in todo /\ todo' = todo \ {e}
  /\ Assign(e) \/ SayError(e) \/ SayResult(e) \/ SayCancelled(e)
  /\ UNCHANGED <<unassigned, waiters, stopped, conn>>

----------------------------------------------------------------------------
(* The two processes around the bridge.                                    *)

\* PeerSwap closes the connection of a call it has made.
Disconnect(r) ==
  /\ req[r] # "new" /\ conn[r] = "open"
  /\ conn' = [conn EXCEPT ![r] = "closed"]
  /\ UNCHANGED <<bridgeVars, clientVars, historyVars>>

\* A jm-lightning process ends: its waiting calls stay with the plugin.
ClientGone(w) ==
  /\ call[w] \in {"waiting", "busy"}
  /\ call' = [call EXCEPT ![w] = "gone"]
  /\ client' = [r \in Requests |-> IF holder[r] = w /\ client[r] = "has" THEN "none"
                                   ELSE client[r]]
  /\ UNCHANGED <<bridgeVars, conn, holder, watch, historyVars>>

(***************************************************************************)
(* _purge_terminal_locked() runs first in every call, so an entry is not   *)
(* seen after its time.  A live client's watcher is assumed to register    *)
(* within the request timeout.                                             *)
(***************************************************************************)
Purge(r) ==
  /\ r \in terminal
  /\ \/ watch[r] # "none"
     \/ client[r] = "none" /\ \A e \in todo : ~(e.do = "assign" /\ e.req = r)
  /\ terminal' = terminal \ {r}
  /\ UNCHANGED <<req, unassigned, waiters, stopped, todo, conn, clientVars, historyVars>>

Next ==
  \/ Stop
  \/ \E w \in Calls : Wait(w) \/ ClientGone(w)
  \/ \E r \in Requests :
       \/ Submit(r) \/ Expire(r) \/ Cancel(r) \/ WaitCancel(r) \/ Respond(r)
       \/ RespondFails(r) \/ Disconnect(r) \/ Purge(r)
  \/ \E e \in todo : Say(e)

Spec == Init /\ [][Next]_vars

(***************************************************************************)
(* The timer of a queued request fires, and a thread that has left the     *)
(* lock writes its answers.  Clients and PeerSwap owe nothing.             *)
(***************************************************************************)
FairSpec ==
  /\ Spec
  /\ \A r \in Requests : WF_vars(Expire(r)) /\ WF_vars(Cancel(r))
  /\ WF_vars(\E e \in todo : Say(e))

----------------------------------------------------------------------------
(* Properties.                                                             *)

TypeOK ==
  /\ req \in [Requests -> States]
  /\ unassigned \in Seq(Requests) /\ waiters \in Seq(Calls)
  /\ terminal \subseteq Requests /\ stopped \in BOOLEAN /\ todo \subseteq Effects
  /\ conn \in [Requests -> {"open", "closed"}]
  /\ call \in [Calls -> {"idle", "waiting", "busy", "gone"}]
  /\ holder \in [Requests -> Calls \union {NoCall}]
  /\ client \in [Requests -> {"none", "has", "answered", "unanswered"}]
  /\ watch \in [Requests -> {"none", "waiting", "completed", "cancelled", "unknown"}]
  /\ attempts \in [Requests -> Nat]
  /\ delivered \in [Requests -> {"nothing", "result", "error"}]

\* PeerSwap gets at most one answer to a call, whichever of the response, the
\* timer, the shutdown and the disconnect come first (respond, _expire_request,
\* stop and cancel each take the request out of _requests under the lock).
AnsweredOnce == \A r \in Requests : attempts[r] <= 1

\* Between lock sections no waiter waits beside a queued request, and the queue
\* holds exactly the queued requests: _match_locked never meets an id that makes
\* it drop a waiter (rendezvous.py:371-376).
QueueConsistent ==
  /\ waiters = <<>> \/ unassigned = <<>>
  /\ ToSet(unassigned) = {r \in Requests : req[r] = "queued"}
  /\ IsInjective(unassigned)

\* The cancellation watcher is told the truth: "completed" only when PeerSwap
\* has the result, "cancelled" only when it never gets it (270-282).
VerdictTrue ==
  \A r \in Requests : /\ watch[r] = "completed" => delivered[r] = "result"
                      /\ watch[r] = "cancelled" => delivered[r] # "result"

(***************************************************************************)
(* The rendezvous, whatever its threads, timers, clients and connections   *)
(* do, answers each call at most once and never takes back a verdict       *)
(* (respond 197-283, stop, cancel and wait_cancel 285-330).                *)
(***************************************************************************)
Answers == INSTANCE CallAnswers WITH
  answer <- delivered,
  verdict <- [r \in Requests |-> IF watch[r] \in {"completed", "cancelled"} THEN watch[r]
                                 ELSE "nothing"]

KeepsAnswers == Answers!Spec

\* A client that holds a request PeerSwap has abandoned can learn of it: its
\* watcher was told, is about to be, or finds the state in _terminal (312-329).
CancelReachesClient ==
  \A r \in Requests :
    client[r] = "has" /\ req[r] = "cancelled" /\ ~stopped =>
      \/ watch[r] = "cancelled" \/ r \in terminal
      \/ Tell(r, r) \in todo

\* A queued request does not stay queued (the timer of submit, 119-125).
QueuedSettles == \A r \in Requests : req[r] = "queued" ~> req[r] # "queued"

\* A watcher that is waiting hears of the end of its request.
WatcherHears ==
  \A r \in Requests :
    watch[r] = "waiting" /\ r \notin Pending ~> watch[r] \in {"completed", "cancelled"}

\* "Once assigned, the JoinMarket operation owns cancellation and lifetime"
\* (419-421): an assigned request is with a live client, or on its way to one.
AssignedOwned ==
  \A r \in Requests :
    req[r] = "assigned" => \/ client[r] = "has"
                           \/ \E e \in todo : e.do = "assign" /\ e.req = r
=============================================================================
