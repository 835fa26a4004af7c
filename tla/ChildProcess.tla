---------------------------- MODULE ChildProcess ----------------------------
(***************************************************************************)
(* PeerSwapProcess (jmpeerswap/plugin.py): the bridge plugin runs PeerSwap *)
(* as a child process and speaks JSON-RPC with it over pipes.  The pyln    *)
(* loop starts and stops it, a thread initialises it, a reader thread      *)
(* takes its lines, and every call from CLN has a thread of its own, which *)
(* waits for the initialisation and then for its answer.  The child may    *)
(* answer, ask or exit whenever it likes.                                  *)
(***************************************************************************)
EXTENDS Naturals, Sequences, FiniteSets

CONSTANTS
  Methods,        \* calls of PeerSwap's RPC methods
  Hooks,          \* calls of its custommsg hook, which CLN waits for
  MaxNotices,     \* bound: notifications from CLN to the child
  MaxAsked        \* bound: requests of the child to CLN

PluginCalls == Methods \union Hooks
Callers == PluginCalls \union {"getmanifest", "init"}
Stoppers == PluginCalls \union {"pyln", "init"}

ASSUME CallsAssumption ==
  /\ Methods \intersect Hooks = {}
  /\ PluginCalls \intersect {"getmanifest", "init", "pyln"} = {}

VARIABLES
  child,          \* the operating-system process
  process,        \* self.process is set
  stopping,       \* _stopping
  processError,   \* _process_error is set
  initialised,    \* _initialised
  initError,      \* _initialise_error is set
  pending,        \* keys of _pending
  box,            \* the response queue of every request
  at,             \* where every request thread is
  stop,           \* where every thread is in stop()
  reader,         \* the reader thread
  loop,           \* pyln's dispatch loop, which runs init and shutdown
  got,            \* what the child has been sent
  lines,          \* its output, not read yet
  open,           \* hook calls CLN still holds open
  notices, asked  \* counters

control == <<process, stopping, processError, initialised, initError>>
threads == <<at, stop, reader, loop>>
pipes == <<child, got, lines, asked>>
childVars == <<control, pending, box, threads, pipes, open, notices>>

Settled == {"ok", "error"}

ChildInit ==
  /\ child = "none" /\ process = FALSE /\ stopping = FALSE
  /\ processError = FALSE /\ initialised = FALSE /\ initError = FALSE
  /\ pending = {} /\ box = [c \in Callers |-> "none"]
  /\ at = [c \in Callers |-> "idle"] /\ stop = [s \in Stoppers |-> "no"]
  /\ reader = "off" /\ loop = "start"
  /\ got = {} /\ lines = <<>> /\ open = {} /\ notices = 0 /\ asked = 0

----------------------------------------------------------------------------
(***************************************************************************)
(* stop(): self.process is taken, the pipe is closed and the child made to *)
(* end, and whatever is still pending fails.  The joins in between have    *)
(* time limits, so they hold nobody up for good.                           *)
(***************************************************************************)
Fail(requests) ==
  [c \in Callers |-> IF c \in requests /\ box[c] = "none" THEN "failed" ELSE box[c]]

StopTake(s) ==
  /\ stop[s] = "take"
  /\ process' = FALSE /\ stopping' = TRUE
  /\ stop' = [stop EXCEPT ![s] = IF process THEN "kill" ELSE "done"]
  /\ UNCHANGED <<processError, initialised, initError, pending, box, at, reader,
                 loop, pipes, open, notices>>

StopKill(s) ==
  /\ stop[s] = "kill"
  /\ child' = "exited" /\ stop' = [stop EXCEPT ![s] = "fail"]
  /\ UNCHANGED <<control, pending, box, at, reader, loop, got, lines, asked,
                 open, notices>>

MutStopFail(s) ==    \* mutant: nobody tells the waiting requests
  /\ stop[s] = "fail"
  /\ stop' = [stop EXCEPT ![s] = "done"]
  /\ UNCHANGED <<control, pending, box, at, reader, loop, pipes, open, notices>>

StopFail(s) ==
  /\ stop[s] = "fail"
  /\ box' = Fail(pending) /\ stop' = [stop EXCEPT ![s] = "done"]
  /\ UNCHANGED <<control, pending, at, reader, loop, pipes, open, notices>>

StopProcess(s) == StopTake(s) \/ StopKill(s) \/ StopFail(s)

----------------------------------------------------------------------------
(***************************************************************************)
(* A request: request() waits for the initialisation, _request() checks,   *)
(* registers, writes and waits for its response.                           *)
(***************************************************************************)
Goto(c, place) == at' = [at EXCEPT ![c] = place]

OnlyAt == UNCHANGED <<control, pending, box, stop, reader, loop, pipes, open, notices>>

\* wait_initialised() has seen the event.
Waited(c) ==
  /\ at[c] = "wait" /\ initialised
  /\ Goto(c, IF initError \/ processError THEN "error" ELSE "check")
  /\ OnlyAt

\* Its deadline lies after the one of init itself.
WaitTimesOut(c) ==
  /\ at[c] = "wait" /\ ~initialised
  /\ loop = "failed" \/ at["init"] = "error"
  /\ stop' = [stop EXCEPT ![c] = "take"] /\ Goto(c, "stop")
  /\ UNCHANGED <<control, pending, box, reader, loop, pipes, open, notices>>

TimedOut(c) == at[c] = "stop" /\ stop[c] = "done" /\ Goto(c, "error") /\ OnlyAt

Check(c) ==
  /\ at[c] = "check"
  /\ Goto(c, IF process /\ ~processError THEN "register" ELSE "error")
  /\ OnlyAt

Register(c) ==
  /\ at[c] = "register"
  /\ pending' = pending \union {c} /\ Goto(c, "write")
  /\ UNCHANGED <<control, box, stop, reader, loop, pipes, open, notices>>

Drop(c) ==
  /\ pending' = pending \ {c} /\ Goto(c, "error")
  /\ UNCHANGED <<control, box, stop, reader, loop, pipes, open, notices>>

\* _write() looks at self.process again, and then writes to the pipe it found.
WriteRequest(c) ==
  /\ at[c] = "write"
  /\ \/ ~process /\ Drop(c)
     \/ process /\ Goto(c, "send") /\ OnlyAt

Send(c) ==
  /\ at[c] = "send"
  /\ \/ child = "exited" /\ Drop(c)
     \/ /\ child = "alive"
        /\ got' = got \union {c} /\ Goto(c, "get")
        /\ UNCHANGED <<control, pending, box, stop, reader, loop, child, lines,
                       asked, open, notices>>

Get(c) ==
  /\ at[c] = "get" /\ box[c] # "none"
  /\ pending' = pending \ {c}
  /\ Goto(c, IF box[c] = "ok" THEN "ok" ELSE "error")
  /\ UNCHANGED <<control, box, stop, reader, loop, pipes, open, notices>>

\* Only the bridge's own two requests have a time limit.
GetTimesOut(c) ==
  /\ c \in {"getmanifest", "init"} /\ at[c] = "get" /\ box[c] = "none"
  /\ Drop(c)

Request(c) ==
  \/ Waited(c) \/ TimedOut(c) \/ Check(c) \/ Register(c) \/ WriteRequest(c) \/ Send(c)
  \/ Get(c)
----------------------------------------------------------------------------
(***************************************************************************)
(* The reader thread.  A line is a response, or a request of the child,    *)
(* which is put to CLN before the next line is read.                       *)
(***************************************************************************)
OnlyReader == UNCHANGED <<control, pending, box, at, stop, loop, pipes, open, notices>>

ReadResponse ==
  /\ reader = "read" /\ ~stopping /\ lines # <<>> /\ Head(lines) \in Callers
  /\ LET c == Head(lines)
     IN \/ c \notin pending /\ UNCHANGED box
        \/ /\ c \in pending /\ box[c] = "none"
           /\ \E answer \in {"ok", "refused"} : box' = [box EXCEPT ![c] = answer]
  /\ lines' = Tail(lines)
  /\ UNCHANGED <<control, pending, threads, child, got, asked, open, notices>>

ReadRequest ==
  /\ reader = "read" /\ ~stopping /\ lines # <<>> /\ Head(lines) = "request"
  /\ reader' = "rpc" /\ lines' = Tail(lines)
  /\ UNCHANGED <<control, pending, box, at, stop, loop, child, got, asked, open,
                 notices>>

\* CLN has answered or refused, and the child is told.
Forwarded ==
  /\ reader = "rpc"
  /\ reader' = IF process /\ child = "alive" THEN "read" ELSE "leave"
  /\ OnlyReader

EndOfOutput ==
  /\ reader = "read"
  /\ stopping \/ (child = "exited" /\ lines = <<>>)
  /\ reader' = "leave" /\ OnlyReader

MutLeave ==    \* mutant: an exit nobody asked for is only noted
  /\ reader = "leave"
  /\ reader' = "gone" /\ processError' = (processError \/ ~stopping)
  /\ UNCHANGED <<process, stopping, initialised, initError, pending, box, at,
                 stop, loop, pipes, open, notices>>

\* Its finally block: an exit nobody asked for fails what is pending.
Leave ==
  /\ reader = "leave"
  /\ \/ stopping /\ reader' = "gone" /\ UNCHANGED processError
     \/ ~stopping /\ reader' = "failing" /\ processError' = TRUE
  /\ UNCHANGED <<process, stopping, initialised, initError, pending, box, at,
                 stop, loop, pipes, open, notices>>

FailPending ==
  /\ reader = "failing"
  /\ box' = Fail(pending) /\ reader' = "gone"
  /\ UNCHANGED <<control, pending, at, stop, loop, pipes, open, notices>>

Reader ==
  ReadResponse \/ ReadRequest \/ EndOfOutput \/ Leave \/ FailPending

----------------------------------------------------------------------------
(***************************************************************************)
(* The child.                                                              *)
(***************************************************************************)
\* It handles a message in one go, payments included; CLN makes none for it
\* while it holds the hook open that brought the message.
Answer(c) ==
  /\ child = "alive" /\ c \in got /\ c \notin open
  /\ got' = got \ {c} /\ lines' = Append(lines, c)
  /\ UNCHANGED <<control, pending, box, threads, child, asked, open, notices>>

Ask ==
  /\ child = "alive" /\ asked < MaxAsked
  /\ lines' = Append(lines, "request") /\ asked' = asked + 1
  /\ UNCHANGED <<control, pending, box, threads, child, got, open, notices>>

Exit ==
  /\ child = "alive" /\ child' = "exited"
  /\ UNCHANGED <<control, pending, box, threads, got, lines, asked, open, notices>>

----------------------------------------------------------------------------
(***************************************************************************)
(* The pyln loop.                                                          *)
(***************************************************************************)
\* init(): the child is started and asked for its manifest.
Start ==
  /\ loop = "start"
  /\ loop' = "manifest" /\ child' = "alive" /\ process' = TRUE /\ reader' = "read"
  /\ Goto("getmanifest", "check")
  /\ UNCHANGED <<stopping, processError, initialised, initError, pending, box,
                 stop, got, lines, asked, open, notices>>

\* No manifest, or one that does not match the bridge's: the child is stopped.
StartFails ==
  /\ loop = "manifest" /\ at["getmanifest"] \in Settled
  /\ loop' = "failing" /\ stop' = [stop EXCEPT !["pyln"] = "take"]
  /\ UNCHANGED <<control, pending, box, at, reader, pipes, open, notices>>

StartFailed ==
  /\ loop = "failing" /\ stop["pyln"] = "done" /\ loop' = "failed"
  /\ UNCHANGED <<control, pending, box, at, stop, reader, pipes, open, notices>>

\* The init message or the proxy's socket is no good: init() raises, and the
\* child runs on.
ProxyFails ==
  /\ loop = "manifest" /\ at["getmanifest"] = "ok" /\ loop' = "failed"
  /\ UNCHANGED <<control, pending, box, at, stop, reader, pipes, open, notices>>

\* initialise_async(): a thread sends init, and the loop goes on.
InitialiseAsync ==
  /\ loop = "manifest" /\ at["getmanifest"] = "ok"
  /\ loop' = "idle" /\ Goto("init", "check")
  /\ UNCHANGED <<control, pending, box, stop, reader, pipes, open, notices>>

MutInitFails ==    \* mutant: the child is left to itself
  /\ at["init"] = "error" /\ stop["init"] = "no"
  /\ initError' = TRUE /\ stop' = [stop EXCEPT !["init"] = "done"]
  /\ UNCHANGED <<process, stopping, processError, initialised, pending, box, at,
                 reader, loop, pipes, open, notices>>

\* The initialiser, on an error: the error is kept, the child stopped, and
\* only then are those who wait let go.
InitFails ==
  /\ at["init"] = "error" /\ stop["init"] = "no"
  /\ initError' = TRUE /\ stop' = [stop EXCEPT !["init"] = "take"]
  /\ UNCHANGED <<process, stopping, processError, initialised, pending, box, at,
                 reader, loop, pipes, open, notices>>

Initialised ==
  /\ ~initialised
  /\ at["init"] = "ok" \/ (at["init"] = "error" /\ stop["init"] = "done")
  /\ initialised' = TRUE
  /\ UNCHANGED <<process, stopping, processError, initError, pending, box,
                 threads, pipes, open, notices>>

\* A method of PeerSwap runs in a thread.
CallMethod(c) ==
  /\ loop = "idle" /\ c \in Methods /\ at[c] = "idle" /\ Goto(c, "wait")
  /\ UNCHANGED <<control, pending, box, stop, reader, loop, pipes, open, notices>>

\* CLN calls the hook and waits; the loop starts a thread for it and answers.
OpenHook(c) ==
  /\ loop # "ended" /\ loop # "failed" /\ c \in Hooks
  /\ at[c] = "idle" /\ c \notin open
  /\ open' = open \union {c}
  /\ UNCHANGED <<control, pending, box, threads, pipes, notices>>

MutForwardHook(c) ==    \* mutant: the hook is answered when the child is done
  /\ loop = "idle" /\ c \in open
  /\ \/ /\ at[c] = "idle" /\ Goto(c, "wait") /\ UNCHANGED open
     \/ /\ at[c] \in Settled /\ open' = open \ {c} /\ UNCHANGED at
  /\ UNCHANGED <<control, pending, box, stop, reader, loop, pipes, notices>>

ForwardHook(c) ==
  /\ loop = "idle" /\ c \in open
  /\ open' = open \ {c} /\ Goto(c, "wait")
  /\ UNCHANGED <<control, pending, box, stop, reader, loop, pipes, notices>>

\* A notification waits for the initialisation in the loop itself.
Notify ==
  /\ loop = "idle" /\ notices < MaxNotices
  /\ loop' = "notify" /\ notices' = notices + 1
  /\ UNCHANGED <<control, pending, box, at, stop, reader, pipes, open>>

\* It is then written, or dropped with an error.
Notified ==
  /\ loop = "notify" /\ initialised /\ loop' = "idle"
  /\ UNCHANGED <<control, pending, box, at, stop, reader, pipes, open, notices>>

Shutdown ==
  /\ loop = "idle" /\ loop' = "shutdown"
  /\ stop' = [stop EXCEPT !["pyln"] = "take"]
  /\ UNCHANGED <<control, pending, box, at, reader, pipes, open, notices>>

ShutDown ==
  /\ loop = "shutdown" /\ stop["pyln"] = "done" /\ loop' = "ended"
  /\ UNCHANGED <<control, pending, box, at, stop, reader, pipes, open, notices>>

\* What the loop goes on with by itself.
Loop ==
  \/ Start \/ StartFailed \/ InitialiseAsync \/ Notified \/ ShutDown
  \/ at["getmanifest"] = "error" /\ StartFails
  \/ \E c \in Hooks : ForwardHook(c)

Initialiser == InitFails \/ Initialised

ChildNext ==
  \/ Loop \/ StartFails \/ ProxyFails \/ Notify \/ Shutdown \/ Initialiser
  \/ Reader \/ Forwarded \/ Ask \/ Exit
  \/ \E c \in Callers : Request(c) \/ GetTimesOut(c) \/ Answer(c)
  \/ \E c \in PluginCalls : WaitTimesOut(c)
  \/ \E c \in Methods : CallMethod(c)
  \/ \E c \in Hooks : OpenHook(c)
  \/ \E s \in Stoppers : StopProcess(s)

ChildSpec == ChildInit /\ [][ChildNext]_childVars

(***************************************************************************)
(* Every thread of the bridge runs, time limits expire and CLN answers the *)
(* child's requests; the child may leave everything unanswered for ever.   *)
(***************************************************************************)
ChildFairSpec ==
  /\ ChildSpec
  /\ WF_childVars(Loop) /\ WF_childVars(Initialiser)
  /\ WF_childVars(Reader) /\ WF_childVars(Forwarded)
  /\ \A c \in Callers : WF_childVars(Request(c)) /\ WF_childVars(GetTimesOut(c))
  /\ \A s \in Stoppers : WF_childVars(StopProcess(s))

----------------------------------------------------------------------------
(***************************************************************************)
(* Properties.                                                             *)
(***************************************************************************)
ChildTypeOK ==
  /\ child \in {"none", "alive", "exited"}
  /\ control \in BOOLEAN \X BOOLEAN \X BOOLEAN \X BOOLEAN \X BOOLEAN
  /\ pending \subseteq Callers
  /\ box \in [Callers -> {"none", "ok", "refused", "failed"}]
  /\ at \in [Callers -> {"idle", "wait", "stop", "check", "register", "write",
                         "send", "get"} \union Settled]
  /\ stop \in [Stoppers -> {"no", "take", "kill", "fail", "done"}]
  /\ reader \in {"off", "read", "rpc", "leave", "failing", "gone"}
  /\ loop \in {"start", "manifest", "failing", "failed", "idle", "notify",
               "shutdown", "ended"}
  /\ got \subseteq Callers /\ open \subseteq Hooks
  /\ notices \in 0 .. MaxNotices /\ asked \in 0 .. MaxAsked

\* Every call under way when the child exits, or is stopped, comes back, at
\* whatever step of _request that catches it; nobody waits for an answer that
\* can no longer come (plugin.py:342-382, 431-434 and 469-480).
CallsSettle ==
  \A c \in PluginCalls :
    (at[c] \notin {"idle"} \union Settled /\ child = "exited")
      ~> at[c] \in Settled

\* CLN's hook is answered without the child's doing, so that a payment the
\* child makes while it handles the message does not wait for the hook
\* (plugin.py:492-525); notifications that wait in the loop do not keep it.
HooksAnswered ==
  \A c \in Hooks :
    (c \in open /\ loop \notin {"shutdown", "ended"})
      ~> (c \notin open \/ loop \in {"shutdown", "ended", "failed"})

\* A child that could not be initialised is not left running
\* (plugin.py:292-299).
FailedInitEndsChild == at["init"] = "error" ~> child = "exited"

\* c is blocked until somebody puts an answer into its queue.
Waiting(c) == at[c] = "get" /\ box[c] = "none"

\* Thread s is between taking the process away and failing what is pending.
WillFail(s) == stop[s] \in {"kill", "fail"}

(***************************************************************************)
(* A call that waits for its answer is not forgotten, whichever thread     *)
(* stops the child and whenever the child exits: it is registered, and the *)
(* reader or a stopping thread is still to come past the registered calls. *)
(* It is the safety part of CallsSettle (plugin.py:431-434, 469-480).      *)
(***************************************************************************)
NobodyForgotten ==
  \A c \in Callers : Waiting(c) =>
    /\ c \in pending
    /\ \/ reader \in {"read", "rpc", "leave", "failing"}
       \/ \E s \in Stoppers : WillFail(s)
=============================================================================
