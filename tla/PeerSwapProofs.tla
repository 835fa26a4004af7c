--------------------------- MODULE PeerSwapProofs ---------------------------
(***************************************************************************)
(* Theorems about PeerSwap, for every set of transactions, inputs and      *)
(* calls, and any number of journal faults.                                *)
(***************************************************************************)
EXTENDS PeerSwap, FiniteSetTheorems, TLAPS

Places == {"none", "ready", "fees", "rawtx", "abort", "journal", "sending", "closing",
           "closing sent", "done"}

(***************************************************************************)
(* The types, by the group of variables that a step changes together.      *)
(***************************************************************************)
LoopTypes ==
  /\ at \in [Tasks -> Places]
  /\ out \in [Tasks -> {"none", "ok", "error", "cancelled"}]
  /\ cancelling \subseteq Requests /\ stuck \in Requests \union {NoTask}

TxTypes ==
  /\ phase \in [Txs -> {"none", "prepared", "broadcast", "discarded"}] /\ store \subseteq Txs
  /\ adapter \in [Txs -> {"none", "open", "failing", "stopped", "closed"}]
  /\ owned \in [Txs -> SUBSET Coins] /\ lease \in [Txs -> SUBSET Coins]
  /\ given \in [Txs -> SUBSET Coins]

JournalTypes ==
  /\ flock \in Requests \union {NoTask, Other} /\ faults \in 0..MaxDiskFaults
  /\ jr \in [Requests -> {"none", "begun", "pending", "sent", "resolved"}]

NetTypes == bc \in [Requests -> {"none", "flight", "ok", "failed"}] /\ onNet \subseteq Txs

FrontTypes ==
  /\ conn \in [Requests -> {"new", "open", "answered", "failed", "closed"}]
  /\ fut \in [Requests -> {"none", "pending", "ok", "error", "cancelled"}]
  /\ active \subseteq Requests /\ wk \in [Requests -> {"none", "wait", "done"}]
  /\ flag \in [Requests -> BOOLEAN]

CloseTypes == svc \in {"on", "stopping", "closing", "closed"} /\ cleft \subseteq Txs

Types == LoopTypes /\ TxTypes /\ JournalTypes /\ NetTypes /\ FrontTypes /\ CloseTypes

(***************************************************************************)
(* The inductive invariant.                                                *)
(***************************************************************************)
\* Only a send blocks the loop, on its way to the journal.
LoopHeld ==
  /\ stuck # NoTask => stuck[1] \in Sends /\ at[stuck] = "journal"
  /\ \A q \in Requests : at[q] = "journal" => stuck = q

\* Where a call has got to says what has become of its record and broadcast.
Reached(q) ==
  /\ conn[q] = "new" => at[q] = "none" /\ q \notin active \union cancelling
  /\ at[q] \in {"none", "ready", "journal"} => bc[q] = "none" /\ jr[q] = "none"
  /\ at[q] = "sending" => q[1] \in Sends /\ bc[q] # "none" /\ jr[q] = "pending"
  /\ q[1] \in Sends /\ at[q] = "closing" => bc[q] = "ok"
  /\ bc[q] = "ok" => q[2] \in onNet

\* From the journal to the end of its close a send has the lifetime lock.
HoldsLock(q) ==
  svc # "closed" /\ (at[q] = "sending" \/ (q[1] \in Sends /\ at[q] = "closing"))
    => flock = q

OneSending == \A p, q \in Requests : at[p] = "sending" /\ at[q] = "sending" => p = q

SendsInOrder ==
  /\ LoopHeld /\ OneSending /\ SendJournaled
  /\ \A q \in Requests : Reached(q) /\ HoldsLock(q)

Live(t) == adapter[t] \in {"open", "failing"}

\* The preparing of a transaction comes before everything else about it, and a
\* live adapter is that of a txprepare that took place.
PreparedFirst ==
  /\ \A k \in Tasks : at[k] \in {"fees", "rawtx", "abort"} => k[1] = "txprepare"
  /\ \A t \in Txs : <<"txprepare", t>> \in Requests
       /\ at[<<"txprepare", t>>] \in {"none", "ready", "fees", "rawtx"} => phase[t] = "none"
  /\ \A t \in Txs : Live(t) => <<"txprepare", t>> \in Requests

IInv == Types /\ SendsInOrder /\ PreparedFirst /\ NoOrphanRenewal

----------------------------------------------------------------------------
(***************************************************************************)
(* What kind of thing a task is.                                           *)
(***************************************************************************)
LEMMA TaskKinds ==
  /\ \A k \in Tasks : k[2] \in Txs /\ k = <<k[1], k[2]>>
  /\ \A k \in Tasks : k[1] \in Sends \union {"txprepare", "txdiscard"} => k \in Requests
  /\ \A q \in Requests : q \in Tasks /\ q[1] \in Sends \union {"txprepare", "txdiscard"}
  /\ \A t \in Txs : <<"reclaim", t>> \in Tasks \ Requests /\ <<"close", t>> \in Tasks \ Requests
  /\ NoTask \notin Tasks /\ Other \notin Tasks
<1> DEFINE Methods == Sends \union {"txprepare", "txdiscard"}
<1>1. Requests \subseteq Methods \X Txs
  BY RequestsAssumption
<1>2. ASSUME NEW k \in Tasks
      PROVE  /\ k[2] \in Txs /\ k = <<k[1], k[2]>> /\ k[1] \in Methods \union {"reclaim", "close"}
             /\ k \in Requests => k[1] \in Methods
             /\ k[1] \in Methods => k \in Requests
  <2>1. CASE k \in Requests
    <3>1. k \in Methods \X Txs
      BY <1>1, <2>1
    <3> QED
      BY <2>1, <3>1
  <2>2. CASE k \in {"reclaim", "close"} \X Txs
    <3>1. k[2] \in Txs /\ k = <<k[1], k[2]>> /\ k[1] \in {"reclaim", "close"}
      BY <2>2
    <3>2. k[1] \notin Methods
      BY <3>1 DEF Sends
    <3>3. k \notin Requests
      BY <1>1, <3>1, <3>2
    <3> QED
      BY <3>1, <3>2, <3>3
  <2> QED
    BY <2>1, <2>2 DEF Tasks
<1>3. \A t \in Txs : <<"reclaim", t>> \in Tasks /\ <<"close", t>> \in Tasks
  BY DEF Tasks
<1>4. \A t \in Txs : <<"reclaim", t>> \notin Requests /\ <<"close", t>> \notin Requests
  BY <1>1 DEF Sends
<1>5. NoTask[1] \notin Methods \union {"reclaim", "close"}
      /\ Other[1] \notin Methods \union {"reclaim", "close"}
  BY DEF NoTask, Other, Sends
<1>6. Requests \subseteq Tasks
  BY DEF Tasks
<1>7. NoTask \notin Tasks /\ Other \notin Tasks
  BY <1>2, <1>5
<1> QED
  BY <1>2, <1>3, <1>4, <1>6, <1>7

\* No call has been made.
LEMMA InitIInv == Init => IInv
<1> SUFFICES ASSUME Init PROVE IInv
  OBVIOUS
<1>1. Types
  BY TaskKinds, RequestsAssumption
  DEF Init, Types, LoopTypes, TxTypes, JournalTypes, NetTypes, FrontTypes, CloseTypes, Places
<1>2. NoOrphanRenewal
  BY DEF Init, NoOrphanRenewal
<1>3. SendsInOrder
  BY TaskKinds
  DEF Init, SendsInOrder, LoopHeld, OneSending, SendJournaled, Reached, HoldsLock
<1>4. PreparedFirst
  BY TaskKinds DEF Init, PreparedFirst, Live
<1> QED
  BY <1>1, <1>2, <1>3, <1>4 DEF IInv

----------------------------------------------------------------------------
(***************************************************************************)
(* A step that is not one of a send leaves the sends as they are.          *)
(***************************************************************************)
Aside ==
  /\ UNCHANGED <<stuck, jr, bc>> /\ onNet \subseteq onNet'
  /\ active' \subseteq active /\ cancelling' \subseteq active \union cancelling
  /\ svc' # "closed" => svc # "closed" /\ (flock' = flock \/ flock \notin Requests)
  /\ \A q \in Requests :
       /\ conn'[q] = "new" => conn[q] = "new"
       /\ \/ at'[q] = at[q]
          \/ /\ q[1] \notin Sends /\ at[q] # "none"
             /\ at'[q] \notin {"none", "ready", "journal", "sending"}

LEMMA AsideKeeps ==
  ASSUME LoopTypes, SendsInOrder, Aside
  PROVE  SendsInOrder'
<1>1. LoopHeld'
  BY TaskKinds DEF LoopTypes, SendsInOrder, LoopHeld, Aside
<1>2. OneSending' /\ SendJournaled'
  BY DEF SendsInOrder, OneSending, SendJournaled, Aside
<1>3. ASSUME NEW q \in Requests PROVE Reached(q)' /\ HoldsLock(q)'
  BY <1>3 DEF SendsInOrder, Reached, HoldsLock, Aside
<1> QED
  BY <1>1, <1>2, <1>3 DEF SendsInOrder

(***************************************************************************)
(* A step after the preparing: no adapter opens, and one that is live      *)
(* keeps its transaction in the store.                                     *)
(***************************************************************************)
Later ==
  /\ \A k \in Tasks : at'[k] = at[k]
       \/ (k[1] # "txprepare" /\ at'[k] \notin {"fees", "rawtx", "abort"})
  /\ \A t \in Txs :
       /\ phase'[t] = phase[t] \/ phase[t] # "none"
       /\ Live(t)' => Live(t) /\ (t \in store => t \in store')

LEMMA LaterKeeps ==
  ASSUME PreparedFirst, NoOrphanRenewal, Later
  PROVE  PreparedFirst' /\ NoOrphanRenewal'
<1>1. \A t \in Txs : <<"txprepare", t>> \in Requests =>
        at'[<<"txprepare", t>>] = at[<<"txprepare", t>>]
  BY TaskKinds DEF Later
<1>2. PreparedFirst'
  BY <1>1 DEF PreparedFirst, Later
<1>3. NoOrphanRenewal'
  BY <1>1 DEF PreparedFirst, NoOrphanRenewal, Later, Live
<1> QED
  BY <1>2, <1>3

\* A coroutine k that is on the loop moves to p, and every other stays.
Moves(k, p) == at'[k] = p /\ \A j \in Tasks : j # k => at'[j] = at[j]

\* What the ways to move, to give back and to close do to the types.
LEMMA AwaitMoves ==
  ASSUME LoopTypes, NEW k \in Tasks, NEW p \in Places, Await(k, p)
  PROVE  at' \in [Tasks -> Places] /\ out' = out /\ Moves(k, p)
  BY DEF LoopTypes, Await, Moves

LEMMA EndMoves ==
  ASSUME LoopTypes, NEW k \in Tasks, NEW how \in {"ok", "error", "cancelled"}, End(k, how)
  PROVE  /\ at' \in [Tasks -> Places]
         /\ out' \in [Tasks -> {"none", "ok", "error", "cancelled"}]
         /\ Moves(k, "done")
  BY DEF LoopTypes, End, Moves, Places

LEMMA GiveBackTypes ==
  ASSUME TxTypes, NEW t \in Txs, NEW S \in SUBSET Coins, GiveBack(t, S)
  PROVE  /\ owned' \in [Txs -> SUBSET Coins] /\ lease' \in [Txs -> SUBSET Coins]
         /\ given' \in [Txs -> SUBSET Coins]
  BY DEF TxTypes, GiveBack

LEMMA CloseAdapterLeaves ==
  ASSUME TxTypes, NEW t \in Txs, NEW how \in {"ok", "error"}, CloseAdapter(t, how)
  PROVE  /\ adapter' \in [Txs -> {"none", "open", "failing", "stopped", "closed"}] /\ ~Live(t)'
         /\ \A u \in Txs : u # t => adapter'[u] = adapter[u]
  BY DEF TxTypes, CloseAdapter, Live

----------------------------------------------------------------------------
(***************************************************************************)
(* The txprepare coroutine.                                                *)
(***************************************************************************)
LEMMA PrepareIInv ==
  ASSUME IInv, NEW k \in Tasks,
         PrepareStart(k) \/ PrepareLock(k) \/ PrepareBuild(k) \/ PrepareAbort(k)
  PROVE  IInv'
<1> DEFINE t == k[2]
<1>0. /\ LoopTypes /\ TxTypes /\ SendsInOrder /\ PreparedFirst /\ NoOrphanRenewal
      /\ k \in Requests /\ t \in Txs /\ k = <<"txprepare", t>> /\ k[1] \notin Sends
      /\ \A u \in Txs : <<"txprepare", u>> = k => u = t
      /\ UNCHANGED <<cancelling, stuck, journalVars, netVars, frontVars, svc, cleft>>
  BY TaskKinds DEF IInv, Types, PrepareStart, PrepareLock, PrepareBuild, PrepareAbort, Sends, txVars
<1>1. /\ LoopTypes' /\ TxTypes' /\ at[k] # "none"
      /\ \E p \in {"fees", "rawtx", "abort", "done"} : Moves(k, p)
      /\ PreparedFirst' /\ NoOrphanRenewal'
  <2>1. CASE PrepareStart(k)
    <3>1. at[k] = "ready" /\ UNCHANGED txVars /\ Await(k, "fees")
      BY <2>1 DEF PrepareStart, At
    <3>2. LoopTypes' /\ Moves(k, "fees")
      BY <1>0, <3>1, AwaitMoves DEF LoopTypes, Places
    <3>3. TxTypes'
      BY <1>0, <3>1 DEF TxTypes, txVars
    <3>4. PreparedFirst' /\ NoOrphanRenewal'
      BY <1>0, <3>1, <3>2, TaskKinds DEF PreparedFirst, NoOrphanRenewal, Live, Moves, txVars
    <3> QED
      BY <3>1, <3>2, <3>3, <3>4
  <2>2. CASE PrepareLock(k)
    <3>1. PICK p \in {"rawtx", "abort"} :
            /\ at[k] = "fees" /\ Await(k, p) /\ UNCHANGED <<phase, store>>
            /\ adapter' = [adapter EXCEPT ![t] = "open"]
      BY <2>2 DEF PrepareLock, At
    <3>2. LoopTypes' /\ Moves(k, p)
      BY <1>0, <3>1, AwaitMoves DEF LoopTypes, Places
    <3>3. TxTypes'
      <4>1. CASE /\ owned' = [owned EXCEPT ![t] = Coins] /\ lease' = [lease EXCEPT ![t] = Coins]
                 /\ UNCHANGED given
        BY <1>0, <3>1, <4>1 DEF TxTypes
      <4>2. ASSUME NEW L \in SUBSET Coins, NEW U \in SUBSET L,
                   /\ owned' = [owned EXCEPT ![t] = L \ U] /\ lease' = [lease EXCEPT ![t] = L \ U]
                   /\ given' = [given EXCEPT ![t] = U]
            PROVE  TxTypes'
        BY <1>0, <3>1, <4>2 DEF TxTypes
      <4> QED
        BY <2>2, <4>1, <4>2 DEF PrepareLock
    <3>4. PreparedFirst' /\ NoOrphanRenewal'
      BY <1>0, <3>1, <3>2, TaskKinds DEF TxTypes, PreparedFirst, NoOrphanRenewal, Live, Moves
    <3> QED
      BY <3>1, <3>2, <3>3, <3>4
  <2>3. CASE PrepareBuild(k)
    <3>1. at[k] = "rawtx" /\ UNCHANGED adapter
      BY <2>3 DEF PrepareBuild, At
    <3>2. CASE /\ store' = store \union {t} /\ phase' = [phase EXCEPT ![t] = "prepared"]
               /\ End(k, "ok") \/ End(k, "error")
               /\ UNCHANGED <<owned, lease, given>>
      <4>1. LoopTypes' /\ Moves(k, "done")
        BY <1>0, <3>2, EndMoves DEF LoopTypes
      <4>2. TxTypes'
        BY <1>0, <3>1, <3>2 DEF TxTypes
      <4>3. PreparedFirst' /\ NoOrphanRenewal'
        BY <1>0, <3>1, <3>2, <4>1, TaskKinds
        DEF TxTypes, PreparedFirst, NoOrphanRenewal, Live, Moves
      <4> QED
        BY <3>1, <4>1, <4>2, <4>3
    <3>3. CASE /\ \E U \in SUBSET owned[t] : GiveBack(t, U)
               /\ Await(k, "abort") /\ UNCHANGED <<store, phase>>
      <4>1. LoopTypes' /\ Moves(k, "abort")
        BY <1>0, <3>3, AwaitMoves DEF LoopTypes, Places
      <4>2. TxTypes'
        <5>1. PICK U \in SUBSET Coins : GiveBack(t, U)
          BY <1>0, <3>3 DEF TxTypes
        <5> QED
          BY <1>0, <3>1, <3>3, <5>1, GiveBackTypes DEF TxTypes
      <4>3. PreparedFirst' /\ NoOrphanRenewal'
        BY <1>0, <3>1, <3>3, <4>1, TaskKinds DEF PreparedFirst, NoOrphanRenewal, Live, Moves
      <4> QED
        BY <3>1, <4>1, <4>2, <4>3
    <3> QED
      BY <2>3, <3>2, <3>3 DEF PrepareBuild
  <2>4. CASE PrepareAbort(k)
    <3>1. /\ at[k] = "abort" /\ CloseAdapter(t, "ok") /\ End(k, "error")
          /\ UNCHANGED <<phase, store, owned, lease, given>>
      BY <2>4 DEF PrepareAbort, At
    <3>2. LoopTypes' /\ Moves(k, "done")
      BY <1>0, <3>1, EndMoves DEF LoopTypes
    <3>3. TxTypes' /\ ~Live(t)' /\ \A u \in Txs : u # t => adapter'[u] = adapter[u]
      BY <1>0, <3>1, CloseAdapterLeaves DEF TxTypes
    <3>4. PreparedFirst' /\ NoOrphanRenewal'
      BY <1>0, <3>1, <3>2, <3>3, TaskKinds DEF PreparedFirst, NoOrphanRenewal, Live, Moves
    <3> QED
      BY <3>1, <3>2, <3>3, <3>4
  <2> QED
    BY <2>1, <2>2, <2>3, <2>4
<1>2. Aside
  BY <1>0, <1>1, TaskKinds DEF Aside, Moves, journalVars, netVars, frontVars
<1>3. JournalTypes' /\ NetTypes' /\ FrontTypes' /\ CloseTypes'
  BY <1>0 DEF IInv, Types, JournalTypes, NetTypes, FrontTypes, CloseTypes, journalVars, netVars,
     frontVars
<1> QED
  BY <1>0, <1>1, <1>2, <1>3, AsideKeeps DEF IInv, Types

----------------------------------------------------------------------------
(***************************************************************************)
(* The sends.  Each step is Later; what it does to the order of the sends  *)
(* follows from what the invariant says of where the send is.              *)
(***************************************************************************)
\* The send wants the journal, or is refused.
LEMMA SendStartIInv ==
  ASSUME IInv, NEW k \in Tasks, SendStart(k)
  PROVE  IInv'
<1>0. /\ Types /\ LoopTypes /\ SendsInOrder /\ PreparedFirst /\ NoOrphanRenewal
      /\ k \in Requests /\ k[1] \in Sends /\ k[1] # "txprepare" /\ k # NoTask
      /\ at[k] = "ready" /\ stuck = NoTask
      /\ UNCHANGED <<cancelling, txVars, journalVars, netVars, frontVars, svc, cleft>>
  BY TaskKinds DEF IInv, Types, SendStart, At, Sends
<1>1. \/ stuck' = k /\ Await(k, "journal")
      \/ stuck' = NoTask /\ End(k, "error")
  BY <1>0 DEF SendStart
<1>2. /\ LoopTypes'
      /\ (stuck' = k /\ Moves(k, "journal")) \/ (stuck' = NoTask /\ Moves(k, "done"))
  <2>1. CASE stuck' = k /\ Await(k, "journal")
    BY <1>0, <2>1, AwaitMoves DEF LoopTypes, Places
  <2>2. CASE stuck' = NoTask /\ End(k, "error")
    BY <1>0, <2>2, EndMoves DEF LoopTypes
  <2> QED
    BY <1>1, <2>1, <2>2
<1>3. Later
  BY <1>0, <1>2 DEF Later, Moves, txVars, Live
<1>4. SendsInOrder'
  <2>1. LoopHeld' /\ OneSending' /\ SendJournaled'
    BY <1>0, <1>2, TaskKinds
    DEF SendsInOrder, LoopHeld, OneSending, SendJournaled, Moves, journalVars, netVars
  <2>2. \A q \in Requests : Reached(q)' /\ HoldsLock(q)'
    BY <1>0, <1>2, TaskKinds
    DEF SendsInOrder, Reached, HoldsLock, Moves, journalVars, netVars, frontVars
  <2> QED
    BY <2>1, <2>2 DEF SendsInOrder
<1>5. TxTypes' /\ JournalTypes' /\ NetTypes' /\ FrontTypes' /\ CloseTypes'
  BY <1>0 DEF Types, TxTypes, JournalTypes, NetTypes, FrontTypes, CloseTypes, txVars, journalVars,
     netVars, frontVars
<1> QED
  BY <1>0, <1>2, <1>3, <1>4, <1>5, LaterKeeps DEF IInv, Types

\* The lock was free, so no other send is past the journal.
LEMMA SendJournalIInv ==
  ASSUME IInv, NEW k \in Tasks, SendJournal(k)
  PROVE  IInv'
<1>0. /\ Types /\ LoopTypes /\ JournalTypes /\ NetTypes
      /\ SendsInOrder /\ PreparedFirst /\ NoOrphanRenewal
      /\ k \in Requests /\ k[1] \in Sends /\ k[1] # "txprepare" /\ k # NoTask
      /\ at[k] = "journal" /\ bc[k] = "none" /\ jr[k] = "none"
      /\ stuck' = NoTask /\ flock = NoTask /\ svc # "closed"
      /\ UNCHANGED <<cancelling, txVars, onNet, frontVars, svc, cleft>>
  BY TaskKinds DEF IInv, Types, LoopTypes, SendsInOrder, LoopHeld, Reached, SendJournal, Sends
<1>1. \A q \in Requests : /\ at[q] # "sending" /\ (q[1] \in Sends => at[q] # "closing")
                          /\ q # k => at[q] # "journal"
  BY <1>0, TaskKinds DEF SendsInOrder, HoldsLock, LoopHeld
<1>2. ASSUME flock' = k, jr' = [jr EXCEPT ![k] = "pending"], UNCHANGED faults,
             bc' = [bc EXCEPT ![k] = "flight"], Await(k, "sending")
      PROVE  LoopTypes' /\ JournalTypes' /\ NetTypes' /\ SendsInOrder' /\ Later
  <2>1. LoopTypes' /\ Moves(k, "sending")
    BY <1>0, <1>2, AwaitMoves DEF LoopTypes, Places
  <2>2. JournalTypes' /\ NetTypes'
    BY <1>0, <1>2 DEF JournalTypes, NetTypes
  <2>3. LoopHeld' /\ OneSending' /\ SendJournaled'
    BY <1>0, <1>1, <1>2, <2>1, TaskKinds
    DEF SendsInOrder, LoopHeld, OneSending, SendJournaled, Moves, JournalTypes, NetTypes
  <2>4. \A q \in Requests : Reached(q)' /\ HoldsLock(q)'
    BY <1>0, <1>1, <1>2, <2>1, TaskKinds
    DEF SendsInOrder, Reached, HoldsLock, Moves, JournalTypes, NetTypes, frontVars
  <2>5. Later
    BY <1>0, <2>1 DEF Later, Moves, txVars, Live
  <2> QED
    BY <2>1, <2>2, <2>3, <2>4, <2>5 DEF SendsInOrder
<1>3. ASSUME DiskFault, UNCHANGED bc, End(k, "error"),
             \/ UNCHANGED <<flock, jr>>
             \/ flock' = k /\ jr' = [jr EXCEPT ![k] = "begun"]
      PROVE  LoopTypes' /\ JournalTypes' /\ NetTypes' /\ SendsInOrder' /\ Later
  <2>1. LoopTypes' /\ Moves(k, "done")
    BY <1>0, <1>3, EndMoves DEF LoopTypes
  <2>2. JournalTypes' /\ NetTypes'
    BY <1>0, <1>3, RequestsAssumption DEF JournalTypes, NetTypes, DiskFault
  <2>3. LoopHeld' /\ OneSending' /\ SendJournaled'
    BY <1>0, <1>1, <1>3, <2>1, TaskKinds
    DEF SendsInOrder, LoopHeld, OneSending, SendJournaled, Moves, JournalTypes
  <2>4. \A q \in Requests : Reached(q)' /\ HoldsLock(q)'
    BY <1>0, <1>1, <1>3, <2>1, TaskKinds
    DEF SendsInOrder, Reached, HoldsLock, Moves, JournalTypes, frontVars
  <2>5. Later
    BY <1>0, <2>1 DEF Later, Moves, txVars, Live
  <2> QED
    BY <2>1, <2>2, <2>3, <2>4, <2>5 DEF SendsInOrder
<1>4. LoopTypes' /\ JournalTypes' /\ NetTypes' /\ SendsInOrder' /\ Later
  BY <1>2, <1>3 DEF SendJournal
<1>5. TxTypes' /\ FrontTypes' /\ CloseTypes'
  BY <1>0 DEF Types, TxTypes, FrontTypes, CloseTypes, txVars, frontVars
<1> QED
  BY <1>0, <1>4, <1>5, LaterKeeps DEF IInv, Types

\* The holder of the lock goes on to close, or gives the lock up.
LEMMA SendAnsweredIInv ==
  ASSUME IInv, NEW k \in Tasks, SendAnswered(k)
  PROVE  IInv'
<1>0. /\ Types /\ LoopTypes /\ JournalTypes /\ NetTypes /\ TxTypes
      /\ SendsInOrder /\ PreparedFirst /\ NoOrphanRenewal
      /\ k \in Requests /\ k[1] \in Sends /\ k[1] # "txprepare" /\ k # NoTask /\ k[2] \in Txs
      /\ at[k] = "sending" /\ jr[k] = "pending" /\ flock = k
      /\ stuck = NoTask /\ svc # "closed"
      /\ UNCHANGED <<cancelling, stuck, store, adapter, owned, lease, given, netVars,
                     frontVars, svc, cleft>>
  BY TaskKinds
  DEF IInv, Types, SendsInOrder, Reached, HoldsLock, SendAnswered, At, Sends
<1>1. \A q \in Requests : q # k => at[q] # "sending" /\ (q[1] \in Sends => at[q] # "closing")
  BY <1>0 DEF SendsInOrder, HoldsLock
<1>2. /\ \/ bc[k] = "ok" /\ Await(k, "closing") /\ flock' = k
         \/ End(k, "error") /\ flock' = NoTask
      /\ jr' = jr \/ (jr' = [jr EXCEPT ![k] = "sent"])
      /\ faults' = faults \/ DiskFault
      /\ phase' = phase \/ (phase[k[2]] = "prepared" /\ phase' = [phase EXCEPT ![k[2]] = "broadcast"])
  BY <1>0 DEF SendAnswered
<1>3. /\ LoopTypes'
      /\ \/ bc[k] = "ok" /\ Moves(k, "closing") /\ flock' = k
         \/ Moves(k, "done") /\ flock' = NoTask
  <2>1. CASE bc[k] = "ok" /\ Await(k, "closing") /\ flock' = k
    BY <1>0, <2>1, AwaitMoves DEF LoopTypes, Places
  <2>2. CASE End(k, "error") /\ flock' = NoTask
    BY <1>0, <2>2, EndMoves DEF LoopTypes
  <2> QED
    BY <1>2, <2>1, <2>2
<1>4. JournalTypes' /\ TxTypes'
  BY <1>0, <1>2, <1>3, RequestsAssumption DEF JournalTypes, TxTypes, DiskFault
<1>5. LoopHeld' /\ OneSending' /\ SendJournaled'
  BY <1>0, <1>1, <1>2, <1>3, TaskKinds
  DEF SendsInOrder, LoopHeld, OneSending, SendJournaled, Moves, JournalTypes, netVars
<1>6. \A q \in Requests : Reached(q)' /\ HoldsLock(q)'
  BY <1>0, <1>1, <1>2, <1>3, TaskKinds
  DEF SendsInOrder, Reached, HoldsLock, Moves, JournalTypes, netVars, frontVars
<1>7. Later
  BY <1>0, <1>2, <1>3 DEF Later, Moves, TxTypes, Live
<1>8. NetTypes' /\ FrontTypes' /\ CloseTypes'
  BY <1>0 DEF Types, NetTypes, FrontTypes, CloseTypes, netVars, frontVars
<1> QED
  BY <1>0, <1>3, <1>4, <1>5, <1>6, <1>7, <1>8, LaterKeeps DEF IInv, Types, SendsInOrder

\* The holder ends: the record goes only for a broadcast transaction.
LEMMA SendClosedIInv ==
  ASSUME IInv, NEW k \in Tasks, SendClosed(k)
  PROVE  IInv'
<1>0. /\ Types /\ LoopTypes /\ JournalTypes /\ NetTypes /\ TxTypes
      /\ SendsInOrder /\ PreparedFirst /\ NoOrphanRenewal
      /\ k \in Requests /\ k[1] \in Sends /\ k[1] # "txprepare" /\ k # NoTask /\ k[2] \in Txs
      /\ at[k] = "closing" /\ bc[k] = "ok" /\ k[2] \in onNet /\ flock = k /\ flock' = NoTask
      /\ stuck = NoTask /\ svc # "closed"
      /\ UNCHANGED <<cancelling, stuck, phase, owned, lease, given, netVars, frontVars, svc, cleft>>
  BY TaskKinds
  DEF IInv, Types, SendsInOrder, Reached, HoldsLock, SendClosed, At, Sends
<1>1. \A q \in Requests : q # k => at[q] # "sending" /\ (q[1] \in Sends => at[q] # "closing")
  BY <1>0 DEF SendsInOrder, HoldsLock
<1>2. /\ End(k, "ok") \/ End(k, "error")
      /\ jr' = jr \/ (jr' = [jr EXCEPT ![k] = "resolved"])
      /\ faults' = faults \/ DiskFault
      /\ CloseAdapter(k[2], "ok") \/ CloseAdapter(k[2], "error")
      /\ store' = store \/ store' = store \ {k[2]}
  BY <1>0 DEF SendClosed
<1>3. LoopTypes' /\ Moves(k, "done")
  BY <1>0, <1>2, EndMoves DEF LoopTypes
<1>4. TxTypes' /\ ~Live(k[2])' /\ \A u \in Txs : u # k[2] => adapter'[u] = adapter[u]
  BY <1>0, <1>2, CloseAdapterLeaves DEF TxTypes
<1>5. JournalTypes'
  BY <1>0, <1>2, RequestsAssumption DEF JournalTypes, DiskFault
<1>6. LoopHeld' /\ OneSending' /\ SendJournaled'
  BY <1>0, <1>1, <1>2, <1>3, TaskKinds
  DEF SendsInOrder, LoopHeld, OneSending, SendJournaled, Moves, JournalTypes, netVars
<1>7. \A q \in Requests : Reached(q)' /\ HoldsLock(q)'
  BY <1>0, <1>1, <1>2, <1>3, TaskKinds
  DEF SendsInOrder, Reached, HoldsLock, Moves, JournalTypes, netVars, frontVars
<1>8. Later
  BY <1>0, <1>2, <1>3, <1>4 DEF Later, Moves, Live
<1>9. NetTypes' /\ FrontTypes' /\ CloseTypes'
  BY <1>0 DEF Types, NetTypes, FrontTypes, CloseTypes, netVars, frontVars
<1> QED
  BY <1>0, <1>3, <1>4, <1>5, <1>6, <1>7, <1>8, <1>9, LaterKeeps DEF IInv, Types, SendsInOrder

----------------------------------------------------------------------------
(***************************************************************************)
(* txdiscard, the reclaiming and close().                                  *)
(***************************************************************************)
LEMMA DiscardIInv ==
  ASSUME IInv, NEW k \in Tasks, DiscardStart(k) \/ DiscardClosed(k)
  PROVE  IInv'
<1>0. /\ Types /\ LoopTypes /\ TxTypes /\ CloseTypes
      /\ SendsInOrder /\ PreparedFirst /\ NoOrphanRenewal
      /\ k[1] \in Discards /\ k[1] # "txprepare" /\ k[1] \notin Sends /\ k[2] \in Txs
      /\ at[k] # "none"
      /\ UNCHANGED <<cancelling, stuck, journalVars, netVars, frontVars, svc>>
  BY TaskKinds DEF IInv, Types, DiscardStart, DiscardClosed, At, Sends, Discards
<1>1. LoopTypes' /\ \E p \in {"closing", "closing sent", "done"} : Moves(k, p)
  <2>1. \/ Await(k, "closing") \/ Await(k, "closing sent")
        \/ End(k, "ok") \/ End(k, "error")
    BY DEF DiscardStart, DiscardClosed, Release
  <2>2. CASE Await(k, "closing") \/ Await(k, "closing sent")
    BY <1>0, <2>2, AwaitMoves DEF LoopTypes, Places
  <2>3. CASE End(k, "ok") \/ End(k, "error")
    BY <1>0, <2>3, EndMoves DEF LoopTypes
  <2> QED
    BY <2>1, <2>2, <2>3
<1>2. /\ TxTypes' /\ CloseTypes'
      /\ \A t \in Txs : /\ phase'[t] = phase[t] \/ phase[t] # "none"
                        /\ Live(t)' => Live(t) /\ (t \in store => t \in store')
  <2>1. CASE DiscardStart(k)
    <3>1. UNCHANGED <<phase, store, adapter, cleft>>
      BY <2>1 DEF DiscardStart
    <3>2. UNCHANGED <<owned, lease, given>> \/ \E S \in SUBSET owned[k[2]] : GiveBack(k[2], S)
      BY <2>1 DEF DiscardStart, Release
    <3>3. TxTypes'
      <4>1. CASE UNCHANGED <<owned, lease, given>>
        BY <1>0, <3>1, <4>1 DEF TxTypes
      <4>2. CASE \E S \in SUBSET owned[k[2]] : GiveBack(k[2], S)
        <5>1. PICK S \in SUBSET Coins : GiveBack(k[2], S)
          BY <1>0, <4>2 DEF TxTypes
        <5> QED
          BY <1>0, <3>1, <5>1, GiveBackTypes DEF TxTypes
      <4> QED
        BY <3>2, <4>1, <4>2
    <3> QED
      BY <1>0, <3>1, <3>3 DEF CloseTypes, Live
  <2>2. CASE DiscardClosed(k)
    <3>1. /\ UNCHANGED <<owned, lease, given>>
          /\ CloseAdapter(k[2], "ok") \/ CloseAdapter(k[2], "error")
          /\ phase' = phase \/ (phase[k[2]] = "prepared" /\ phase' = [phase EXCEPT ![k[2]] = "discarded"])
          /\ store' = store \/ store' = store \ {k[2]}
          /\ cleft' = cleft \/ cleft' = {}
      BY <2>2 DEF DiscardClosed
    <3>2. TxTypes' /\ ~Live(k[2])' /\ \A u \in Txs : u # k[2] => adapter'[u] = adapter[u]
      BY <1>0, <3>1, CloseAdapterLeaves DEF TxTypes
    <3> QED
      BY <1>0, <3>1, <3>2 DEF CloseTypes, TxTypes, Live
  <2> QED
    BY <2>1, <2>2
<1>3. Later
  BY <1>0, <1>1, <1>2 DEF Later, Moves
<1>4. Aside
  BY <1>0, <1>1, TaskKinds DEF Aside, Moves, journalVars, netVars, frontVars
<1>5. JournalTypes' /\ NetTypes' /\ FrontTypes'
  BY <1>0 DEF Types, JournalTypes, NetTypes, FrontTypes, journalVars, netVars, frontVars
<1> QED
  BY <1>0, <1>1, <1>2, <1>3, <1>4, <1>5, AsideKeeps, LaterKeeps DEF IInv, Types

(***************************************************************************)
(* A CancelledError leaves a task where it is while it broadcasts, lets an *)
(* execute() with locked coins clean up, and ends any other.               *)
(***************************************************************************)
LEMMA DeliverCancelIInv ==
  ASSUME IInv, NEW k \in Tasks, DeliverCancel(k)
  PROVE  IInv'
<1>0. /\ Types /\ LoopTypes /\ TxTypes /\ JournalTypes
      /\ SendsInOrder /\ PreparedFirst /\ NoOrphanRenewal
      /\ k \in Requests /\ k[2] \in Txs /\ stuck = NoTask /\ svc # "closed"
      /\ \A u \in Txs : <<"txprepare", u>> = k => u = k[2]
      /\ k \in cancelling /\ cancelling' = cancelling \ {k} /\ Throw(k)
      /\ UNCHANGED <<stuck, phase, store, jr, faults, netVars, frontVars, svc, cleft>>
  BY TaskKinds DEF IInv, Types, LoopTypes, DeliverCancel
<1>1. CASE at[k] \in {"done", "sending"}
  <2>1. UNCHANGED <<at, out, flock, owned, lease, given, adapter>>
    BY <1>0, <1>1 DEF Throw, DeliverCancel
  <2>2. LoopTypes' /\ TxTypes' /\ JournalTypes'
    BY <1>0, <2>1 DEF LoopTypes, TxTypes, JournalTypes
  <2>3. Aside /\ Later
    BY <1>0, <2>1 DEF Aside, Later, Live, netVars, frontVars
  <2> QED
    BY <1>0, <2>2, <2>3, AsideKeeps, LaterKeeps
    DEF IInv, Types, NetTypes, FrontTypes, CloseTypes, netVars, frontVars
<1>2. CASE at[k] = "rawtx"
  <2>1. /\ \E U \in SUBSET owned[k[2]] : GiveBack(k[2], U)
        /\ Await(k, "abort") /\ UNCHANGED <<flock, adapter>>
    BY <1>0, <1>2 DEF Throw, DeliverCancel
  <2>2. LoopTypes' /\ Moves(k, "abort")
    BY <1>0, <2>1, AwaitMoves DEF LoopTypes, Places
  <2>3. TxTypes' /\ JournalTypes'
    <3>1. PICK U \in SUBSET Coins : GiveBack(k[2], U)
      BY <1>0, <2>1 DEF TxTypes
    <3> QED
      BY <1>0, <2>1, <3>1, GiveBackTypes DEF TxTypes, JournalTypes
  <2>4. k = <<"txprepare", k[2]>> /\ k[1] \notin Sends
    BY <1>0, <1>2, TaskKinds DEF PreparedFirst, Sends
  <2>5. Aside
    BY <1>0, <1>2, <2>1, <2>2, <2>4, TaskKinds DEF Aside, Moves, netVars, frontVars
  <2>6. PreparedFirst' /\ NoOrphanRenewal'
    BY <1>0, <1>2, <2>1, <2>2, <2>4, TaskKinds DEF PreparedFirst, NoOrphanRenewal, Moves, Live
  <2> QED
    BY <1>0, <2>2, <2>3, <2>5, <2>6, AsideKeeps
    DEF IInv, Types, NetTypes, FrontTypes, CloseTypes, netVars, frontVars
<1>3. CASE at[k] \notin {"done", "sending", "rawtx"}
  <2>1. /\ End(k, "cancelled") /\ UNCHANGED <<owned, lease, given>>
        /\ IF at[k] = "closing" /\ k[1] \in Sends THEN flock' = NoTask ELSE UNCHANGED flock
        /\ adapter' = IF at[k] \in {"abort", "closing", "closing sent"}
                      THEN [adapter EXCEPT ![k[2]] = "stopped"] ELSE adapter
    BY <1>0, <1>3 DEF Throw, DeliverCancel
  <2>2. LoopTypes' /\ Moves(k, "done")
    BY <1>0, <2>1, EndMoves DEF LoopTypes
  <2>3. TxTypes' /\ JournalTypes'
    BY <1>0, <2>1 DEF TxTypes, JournalTypes
  <2>4. PreparedFirst' /\ NoOrphanRenewal'
    <3>1. \A u \in Txs : Live(u)' => Live(u) /\ (u = k[2] => at[k] # "abort")
      BY <1>0, <2>1 DEF TxTypes, Live
    <3>2. PreparedFirst'
      BY <1>0, <2>2, <3>1, TaskKinds DEF PreparedFirst, Moves
    <3>3. ASSUME NEW u \in Txs, Live(u)'
          PROVE  u \in store' \/ at'[<<"txprepare", u>>] \in {"rawtx", "abort"}
      <4>1. /\ <<"txprepare", u>> \in Tasks
            /\ u \in store \/ at[<<"txprepare", u>>] \in {"rawtx", "abort"}
        BY <1>0, <3>1, <3>3, TaskKinds DEF PreparedFirst, NoOrphanRenewal, Live
      <4> QED
        BY <1>0, <1>3, <2>2, <3>1, <3>3, <4>1 DEF Moves
    <3> QED
      BY <3>2, <3>3 DEF NoOrphanRenewal, Live
  <2>5. SendsInOrder'
    <3>1. at[k] # "journal"
      BY <1>0, TaskKinds DEF SendsInOrder, LoopHeld
    <3>2. LoopHeld' /\ OneSending' /\ SendJournaled'
      BY <1>0, <2>2, <3>1, TaskKinds
      DEF SendsInOrder, LoopHeld, OneSending, SendJournaled, Moves, netVars
    <3>3. ASSUME NEW q \in Requests PROVE Reached(q)' /\ HoldsLock(q)'
      <4>1. CASE q = k
        BY <1>0, <1>3, <2>2, <3>1, <4>1 DEF SendsInOrder, Reached, HoldsLock, Moves, netVars, frontVars
      <4>2. CASE q # k
        BY <1>0, <1>3, <2>1, <2>2, <3>1, <4>2, TaskKinds
        DEF SendsInOrder, Reached, HoldsLock, Moves, netVars, frontVars
      <4> QED
        BY <4>1, <4>2
    <3> QED
      BY <3>2, <3>3 DEF SendsInOrder
  <2> QED
    BY <1>0, <2>2, <2>3, <2>4, <2>5
    DEF IInv, Types, NetTypes, FrontTypes, CloseTypes, netVars, frontVars
<1> QED
  BY <1>1, <1>2, <1>3

----------------------------------------------------------------------------
(***************************************************************************)
(* The workers, the watchers, the shutdown and the environment.            *)
(***************************************************************************)
\* A new call: nothing has been journaled or broadcast for it.
LEMMA DispatchIInv ==
  ASSUME IInv, NEW q \in Requests, Dispatch(q)
  PROVE  IInv'
<1>0. /\ Types /\ LoopTypes /\ FrontTypes /\ SendsInOrder /\ PreparedFirst /\ NoOrphanRenewal
      /\ q \in Tasks /\ at[q] = "none" /\ bc[q] = "none" /\ jr[q] = "none"
      /\ at' = [at EXCEPT ![q] = "ready"] /\ active' = active \union {q}
      /\ conn' = [conn EXCEPT ![q] = "open"] /\ fut' = [fut EXCEPT ![q] = "pending"]
      /\ wk' = [wk EXCEPT ![q] = "wait"]
      /\ UNCHANGED <<out, cancelling, stuck, txVars, journalVars, netVars, flag, svc, cleft>>
  BY TaskKinds DEF IInv, Types, SendsInOrder, Reached, Dispatch
<1>1. LoopTypes' /\ Moves(q, "ready") /\ FrontTypes'
  BY <1>0 DEF LoopTypes, FrontTypes, Moves, Places
<1>2. LoopHeld' /\ OneSending' /\ SendJournaled'
  BY <1>0, <1>1, TaskKinds
  DEF LoopTypes, SendsInOrder, LoopHeld, OneSending, SendJournaled, Moves, journalVars, netVars
<1>3. \A r \in Requests : Reached(r)' /\ HoldsLock(r)'
  BY <1>0, <1>1, TaskKinds
  DEF SendsInOrder, Reached, HoldsLock, Moves, FrontTypes, journalVars, netVars
<1>4. PreparedFirst'
  BY <1>0, <1>1, TaskKinds DEF PreparedFirst, Moves, txVars, Live
<1>5. NoOrphanRenewal'
  BY <1>0, <1>1, TaskKinds DEF PreparedFirst, NoOrphanRenewal, Moves, txVars, Live
<1> QED
  BY <1>0, <1>1, <1>2, <1>3, <1>4, <1>5
  DEF IInv, Types, SendsInOrder, TxTypes, JournalTypes, NetTypes, CloseTypes, txVars,
      journalVars, netVars

\* A cancellation touches no call's place, and only active calls.
LEMMA CancelRequestLeaves ==
  ASSUME LoopTypes, FrontTypes, NEW q \in Requests, CancelRequest(q), UNCHANGED <<out, stuck>>
  PROVE  /\ LoopTypes' /\ fut' \in [Requests -> {"none", "pending", "ok", "error", "cancelled"}]
         /\ cancelling' \subseteq active \union cancelling
         /\ \A k \in Tasks : at'[k] = at[k] \/ (k \notin Requests /\ at'[k] = "ready")
<1>1. q[2] \in Txs /\ <<"reclaim", q[2]>> \in Tasks \ Requests
  BY TaskKinds
<1>2. CASE UNCHANGED <<fut, cancelling, at>>
  BY <1>2 DEF LoopTypes, FrontTypes
<1>3. CASE /\ q \in active /\ fut' = [fut EXCEPT ![q] = "cancelled"]
           /\ cancelling' = cancelling \union {q} /\ UNCHANGED at
  BY <1>3 DEF LoopTypes, FrontTypes
<1>4. CASE at' = [at EXCEPT ![<<"reclaim", q[2]>>] = "ready"] /\ UNCHANGED <<fut, cancelling>>
  BY <1>1, <1>4 DEF LoopTypes, FrontTypes, Places
<1> QED
  BY <1>2, <1>3, <1>4 DEF CancelRequest

\* The workers and watchers leave sends and adapters alone.
LEMMA FrontIInv ==
  ASSUME IInv, NEW q \in Requests, WorkerStep(q) \/ HangUp(q) \/ WatchCancelled(q)
  PROVE  IInv'
<1>0. /\ Types /\ LoopTypes /\ FrontTypes /\ SendsInOrder /\ PreparedFirst /\ NoOrphanRenewal
      /\ UNCHANGED <<out, stuck, txVars, journalVars, netVars, svc, cleft>>
  BY DEF IInv, Types, WorkerStep, Settle, WorkerFails, WorkerResponds, HangUp, WatchCancelled,
     loopVars
<1>1. \/ UNCHANGED <<at, cancelling, fut>>
      \/ UNCHANGED <<at, cancelling>> /\ fut' = [fut EXCEPT ![q] = IF out[q] = "ok" THEN "ok" ELSE "error"]
      \/ CancelRequest(q)
  BY DEF WorkerStep, Settle, WorkerFails, WorkerResponds, HangUp, WatchCancelled, loopVars
<1>2. /\ LoopTypes' /\ fut' \in [Requests -> {"none", "pending", "ok", "error", "cancelled"}]
      /\ cancelling' \subseteq active \union cancelling
      /\ \A k \in Tasks : at'[k] = at[k] \/ (k \notin Requests /\ at'[k] = "ready")
  <2>1. CASE UNCHANGED <<at, cancelling>>
    BY <1>0, <1>1, <2>1, CancelRequestLeaves DEF LoopTypes, FrontTypes
  <2>2. CASE CancelRequest(q)
    BY <1>0, <2>2, CancelRequestLeaves
  <2> QED
    BY <1>1, <2>1, <2>2
<1>3. /\ conn' = conn \/ conn' = [conn EXCEPT ![q] = "closed"]
         \/ conn' = [conn EXCEPT ![q] = IF @ = "open" THEN "failed" ELSE @]
         \/ conn' = [conn EXCEPT ![q] = IF @ = "open" THEN "answered" ELSE @]
      /\ active' = active \/ active' = active \ {q}
      /\ wk' = wk \/ wk' = [wk EXCEPT ![q] = "done"]
      /\ flag' = flag \/ flag' = [flag EXCEPT ![q] = TRUE]
  BY DEF WorkerStep, Settle, WorkerFails, WorkerResponds, HangUp, WatchCancelled, Answer
<1>4. FrontTypes' /\ active' \subseteq active
      /\ \A r \in Requests : conn'[r] = "new" => conn[r] = "new"
  <2>1. flag' \in [Requests -> BOOLEAN]
    BY <1>0, <1>3, Zenon DEF FrontTypes
  <2> QED
    BY <1>0, <1>2, <1>3, <2>1 DEF FrontTypes
<1>5. Aside /\ Later
  <2>1. \A r \in Requests : at'[r] = at[r]
    BY <1>2, TaskKinds
  <2>2. \A k \in Tasks : at'[k] = at[k]
          \/ (k[1] # "txprepare" /\ at'[k] \notin {"fees", "rawtx", "abort"})
    BY <1>2, TaskKinds
  <2> QED
    BY <1>0, <1>2, <1>4, <2>1, <2>2 DEF Aside, Later, Live, txVars, journalVars, netVars
<1> QED
  BY <1>0, <1>2, <1>4, <1>5, AsideKeeps, LaterKeeps
  DEF IInv, Types, TxTypes, JournalTypes, NetTypes, CloseTypes, txVars, journalVars, netVars

\* The node's answers: "ok" only for what is on the network.
LEMMA NetIInv ==
  ASSUME IInv, NEW q \in Requests, NodeAccepts(q) \/ BroadcastReturns(q)
  PROVE  IInv'
<1>0. /\ Types /\ NetTypes /\ SendsInOrder /\ PreparedFirst /\ NoOrphanRenewal
      /\ q[2] \in Txs /\ bc[q] = "flight"
      /\ UNCHANGED <<loopVars, txVars, journalVars, frontVars, svc, cleft>>
  BY TaskKinds DEF IInv, Types, NodeAccepts, BroadcastReturns
<1>1. \/ onNet' = onNet \union {q[2]} /\ bc' = bc
      \/ onNet' = onNet /\ bc' = [bc EXCEPT ![q] = "failed"]
      \/ onNet' = onNet /\ bc' = [bc EXCEPT ![q] = "ok"] /\ q[2] \in onNet
  BY DEF NodeAccepts, BroadcastReturns
<1>2. NetTypes'
  BY <1>0, <1>1 DEF NetTypes
<1>3. SendsInOrder'
  <2>1. LoopHeld' /\ OneSending' /\ SendJournaled'
    BY <1>0, <1>1
    DEF NetTypes, SendsInOrder, LoopHeld, OneSending, SendJournaled, loopVars, journalVars
  <2>2. \A r \in Requests : Reached(r)' /\ HoldsLock(r)'
    BY <1>0, <1>1
    DEF NetTypes, SendsInOrder, Reached, HoldsLock, loopVars, journalVars, frontVars
  <2> QED
    BY <2>1, <2>2 DEF SendsInOrder
<1>4. Later
  BY <1>0 DEF Later, Live, loopVars, txVars
<1> QED
  BY <1>0, <1>2, <1>3, <1>4, LaterKeeps
  DEF IInv, Types, LoopTypes, TxTypes, JournalTypes, FrontTypes, CloseTypes, loopVars, txVars,
      journalVars, frontVars

\* The lock of the others, lapses and the shutdown.
LEMMA RestIInv ==
  ASSUME IInv,
         \/ \E t \in Txs : RenewalFails(t) \/ Lapse(t)
         \/ Stop \/ Shutdown \/ OtherLocks \/ OtherUnlocks \/ UNCHANGED vars
  PROVE  IInv'
<1>0. Types /\ LoopTypes /\ TxTypes /\ JournalTypes /\ CloseTypes
      /\ SendsInOrder /\ PreparedFirst /\ NoOrphanRenewal
  BY DEF IInv, Types
<1>1. UNCHANGED <<out, cancelling, stuck, phase, store, owned, given, jr, faults, netVars, frontVars>>
  BY DEF RenewalFails, Lapse, Stop, Shutdown, CloseBegin, CloseNext, CloseEnd, OtherLocks,
     OtherUnlocks, vars, loopVars, txVars, journalVars
<1>2. /\ LoopTypes'
      /\ at' = at \/ \E t \in Txs : Moves(<<"close", t>>, "ready")
  <2>1. CASE UNCHANGED at
    BY <1>0, <1>1, <2>1 DEF LoopTypes
  <2>2. ASSUME NEW t \in Txs, CloseNext(t)
        PROVE  LoopTypes' /\ \E u \in Txs : Moves(<<"close", u>>, "ready")
    BY <1>0, <1>1, <2>2, TaskKinds DEF CloseNext, LoopTypes, Moves, Places
  <2> QED
    BY <2>1, <2>2 DEF RenewalFails, Lapse, Stop, Shutdown, CloseBegin, CloseEnd, OtherLocks,
       OtherUnlocks, vars, loopVars
<1>3. TxTypes' /\ \A t \in Txs : Live(t)' => Live(t)
  <2>1. CASE UNCHANGED <<adapter, lease>>
    BY <1>0, <1>1, <2>1 DEF TxTypes, Live
  <2>2. ASSUME NEW t \in Txs, RenewalFails(t)
        PROVE  TxTypes' /\ \A u \in Txs : Live(u)' => Live(u)
    BY <1>0, <1>1, <2>2 DEF RenewalFails, TxTypes, Live
  <2>3. ASSUME NEW t \in Txs, Lapse(t)
        PROVE  TxTypes' /\ \A u \in Txs : Live(u)' => Live(u)
    BY <1>0, <1>1, <2>3 DEF Lapse, TxTypes, Live
  <2>4. CASE CloseEnd
    BY <1>0, <1>1, <2>4 DEF CloseEnd, TxTypes, Live
  <2> QED
    BY <2>1, <2>2, <2>3, <2>4 DEF Stop, Shutdown, CloseBegin, CloseNext, OtherLocks, OtherUnlocks,
       vars, txVars
<1>4. /\ JournalTypes' /\ CloseTypes'
      /\ svc' # "closed" => svc # "closed" /\ (flock' = flock \/ flock \notin Requests)
  <2>1. /\ svc' = svc \/ svc' \in {"stopping", "closing", "closed"}
        /\ svc = "closed" => svc' = "closed"
        /\ cleft' \subseteq cleft \union store
    BY DEF RenewalFails, Lapse, Stop, Shutdown, CloseBegin, CloseNext, CloseEnd, OtherLocks,
       OtherUnlocks, vars
  <2>2. \/ flock' = flock \/ (flock' = NoTask /\ svc' = "closed")
        \/ flock = NoTask /\ flock' = Other
        \/ flock = Other /\ flock' = NoTask
    BY DEF RenewalFails, Lapse, Stop, Shutdown, CloseBegin, CloseNext, CloseEnd, OtherLocks,
       OtherUnlocks, vars, journalVars
  <2>3. NoTask \notin Requests /\ Other \notin Requests
    BY TaskKinds
  <2> QED
    BY <1>0, <1>1, <2>1, <2>2, <2>3 DEF JournalTypes, CloseTypes, TxTypes
<1>5. Aside /\ Later
  <2>1. \A q \in Requests : at'[q] = at[q]
    BY <1>2, TaskKinds DEF Moves
  <2>2. \A k \in Tasks : at'[k] = at[k]
          \/ (k[1] # "txprepare" /\ at'[k] \notin {"fees", "rawtx", "abort"})
    BY <1>2, TaskKinds DEF Moves
  <2> QED
    BY <1>1, <1>3, <1>4, <2>1, <2>2 DEF Aside, Later, netVars, frontVars
<1> QED
  BY <1>0, <1>1, <1>2, <1>3, <1>4, <1>5, AsideKeeps, LaterKeeps
  DEF IInv, Types, NetTypes, FrontTypes, netVars, frontVars

----------------------------------------------------------------------------
\* Every step keeps the invariant.
LEMMA NextIInv == IInv /\ [Next]_vars => IInv'
<1> SUFFICES ASSUME IInv, [Next]_vars PROVE IInv'
  OBVIOUS
<1>1. ASSUME NEW k \in Tasks, LoopStep(k) PROVE IInv'
  BY <1>1, PrepareIInv, SendStartIInv, SendJournalIInv, SendAnsweredIInv, SendClosedIInv,
     DiscardIInv, DeliverCancelIInv DEF LoopStep
<1>2. ASSUME NEW q \in Requests,
             \/ WorkerStep(q) \/ Dispatch(q) \/ HangUp(q) \/ WatchCancelled(q)
             \/ NodeAccepts(q) \/ BroadcastReturns(q)
      PROVE  IInv'
  BY <1>2, DispatchIInv, FrontIInv, NetIInv
<1> QED
  BY <1>1, <1>2, RestIInv DEF Next

(***************************************************************************)
(* The inductive invariant holds in every reachable state.                 *)
(***************************************************************************)
THEOREM Invariance == Spec => []IInv
<1> QED
  BY InitIInv, NextIInv, PTL DEF Spec

(***************************************************************************)
(* Every variable keeps its type.                                          *)
(***************************************************************************)
THEOREM TypeCorrect == Spec => []TypeOK
<1>1. IInv => TypeOK
  BY DEF IInv, Types, LoopTypes, TxTypes, JournalTypes, NetTypes, FrontTypes, CloseTypes, Places,
     TypeOK
<1> QED
  BY <1>1, Invariance, PTL

(***************************************************************************)
(* However many sends race, are cancelled or repeated, the node gets a     *)
(* transaction only under a durable record of it, which goes only when the *)
(* network has the transaction (peerswap.py:422-440, 486).                 *)
(***************************************************************************)
THEOREM RecordFirst == Spec => []SendJournaled
<1>1. IInv => SendJournaled
  BY DEF IInv, SendsInOrder
<1> QED
  BY <1>1, Invariance, PTL

(***************************************************************************)
(* No two sends broadcast at the same time: the lifetime lock of the       *)
(* journal admits one, and a cancellation does not make it let go          *)
(* (peerswap.py:404-430, 442-457).                                         *)
(***************************************************************************)
THEOREM OneBroadcast == Spec => []OneSendAtATime
<1>1. IInv => OneSendAtATime
  <2> SUFFICES ASSUME IInv PROVE OneSendAtATime
    OBVIOUS
  <2> DEFINE S == {q \in Requests : at[q] = "sending"}
  <2>1. CASE S = {}
    BY <2>1, FS_EmptySet DEF OneSendAtATime
  <2>2. CASE S # {}
    <3>1. PICK q : S = {q}
      BY <2>2 DEF IInv, SendsInOrder, OneSending
    <3>2. Cardinality({q}) = 1
      BY FS_Singleton
    <3> QED
      BY <3>1, <3>2 DEF OneSendAtATime
  <2> QED
    BY <2>1, <2>2
<1> QED
  BY <1>1, Invariance, PTL

(***************************************************************************)
(* No reservation is renewed that nobody can release any more, whichever   *)
(* step of preparing, sending or discarding fails or is cancelled          *)
(* (peerswap.py:336-349, 372-386, 568-618).                                *)
(***************************************************************************)
THEOREM NothingOrphaned == Spec => []NoOrphanRenewal
<1>1. IInv => NoOrphanRenewal
  BY DEF IInv
<1> QED
  BY <1>1, Invariance, PTL

----------------------------------------------------------------------------
(***************************************************************************)
(* The inputs of a send in flight, as long as nobody hangs up.  What the   *)
(* workers and the connections know of the coroutines keeps the releases   *)
(* away from the send.                                                     *)
(***************************************************************************)
\* A call that is open has a worker that waits for it; an answered one, and a
\* future with a result, belong to a coroutine that is done.
Attended(q) ==
  /\ conn[q] = "new" => wk[q] = "none" /\ fut[q] = "none" /\ ~flag[q]
  /\ conn[q] = "open" => wk[q] = "wait"
  /\ conn[q] \in {"answered", "failed"} \/ fut[q] \in {"ok", "error"} => at[q] = "done"
  /\ fut[q] = "cancelled" \/ flag[q] => conn[q] = "closed"

\* PeerSwap has one call open for a transaction.
OneOpen ==
  \A p, q \in Requests :
    conn[p] = "open" /\ conn[q] = "open" /\ p[2] = q[2] => p = q

\* What releases inputs besides the calls comes after a hang-up, or after the
\* last worker.
ReleasesLate ==
  /\ \A t \in Txs : at[<<"reclaim", t>>] # "none" =>
       <<"txprepare", t>> \in Requests /\ conn[<<"txprepare", t>>] = "closed"
  /\ \A t \in Txs : at[<<"close", t>>] # "none" => svc \in {"closing", "closed"}
  /\ svc \in {"closing", "closed"} => \A q \in Requests : wk[q] # "wait"

NoHangUp(t) == \A p \in Requests : p[2] = t => conn[p] # "closed"

\* A send that wants the journal has just renewed every input.
InputsHeld ==
  /\ \A t \in Txs :
       /\ given[t] \intersect lease[t] = {}
       /\ <<"txprepare", t>> \in Requests /\ at[<<"txprepare", t>>] \in {"none", "ready", "fees"}
            => given[t] = {}
  /\ \A q \in Requests :
       /\ bc[q] = "flight" => at[q] = "sending"
       /\ (at[q] = "journal" \/ bc[q] = "flight") /\ NoHangUp(q[2]) => given[q[2]] = {}

FrontInv == (\A q \in Requests : Attended(q)) /\ OneOpen /\ ReleasesLate /\ InputsHeld

LEMMA FrontInit == Init => FrontInv
<1> SUFFICES ASSUME Init PROVE FrontInv
  OBVIOUS
<1>1. (\A q \in Requests : Attended(q)) /\ OneOpen
  BY DEF Init, Attended, OneOpen
<1>2. ReleasesLate
  BY TaskKinds DEF Init, ReleasesLate
<1>3. InputsHeld
  BY TaskKinds DEF Init, InputsHeld
<1> QED
  BY <1>1, <1>2, <1>3 DEF FrontInv

\* The coroutines leave what is done as it is, and start none of the others.
LoopKeeps ==
  /\ UNCHANGED <<frontVars, svc>>
  /\ \A j \in Tasks : /\ at[j] = "done" => at'[j] = "done"
                      /\ j \notin Requests /\ at[j] = "none" => at'[j] = "none"

LEMMA LoopStepKeeps ==
  ASSUME IInv, NEW k \in Tasks, LoopStep(k)
  PROVE  LoopKeeps
<1>0. LoopTypes /\ SendsInOrder
  BY DEF IInv, Types
<1>1. ASSUME at[k] # "done", k \in Requests \/ at[k] # "none", UNCHANGED <<frontVars, svc>>,
             \/ \E p \in Places : Await(k, p)
             \/ \E how \in {"ok", "error", "cancelled"} : End(k, how)
      PROVE  LoopKeeps
  BY <1>0, <1>1 DEF LoopTypes, LoopKeeps, Await, End
<1>2. CASE PrepareStart(k) \/ PrepareLock(k) \/ PrepareBuild(k) \/ PrepareAbort(k)
  <2>1. k \in Requests /\ at[k] # "done" /\ UNCHANGED <<frontVars, svc>>
    BY <1>2, TaskKinds DEF PrepareStart, PrepareLock, PrepareBuild, PrepareAbort, At
  <2>2. \/ Await(k, "fees") \/ Await(k, "rawtx") \/ Await(k, "abort")
        \/ End(k, "ok") \/ End(k, "error")
    BY <1>2 DEF PrepareStart, PrepareLock, PrepareBuild, PrepareAbort
  <2> QED
    BY <1>1, <2>1, <2>2 DEF Places
<1>3. CASE SendStart(k) \/ SendJournal(k) \/ SendAnswered(k) \/ SendClosed(k)
  <2>1. k \in Requests /\ at[k] # "done" /\ UNCHANGED <<frontVars, svc>>
    BY <1>0, <1>3, TaskKinds
    DEF SendStart, SendJournal, SendAnswered, SendClosed, At, LoopTypes, SendsInOrder, LoopHeld
  <2>2. \/ Await(k, "journal") \/ Await(k, "sending") \/ Await(k, "closing")
        \/ End(k, "ok") \/ End(k, "error")
    BY <1>3 DEF SendStart, SendJournal, SendAnswered, SendClosed
  <2> QED
    BY <1>1, <2>1, <2>2 DEF Places
<1>4. CASE DiscardStart(k) \/ DiscardClosed(k)
  <2>1. at[k] # "none" /\ at[k] # "done" /\ UNCHANGED <<frontVars, svc>>
    BY <1>4 DEF DiscardStart, DiscardClosed, At
  <2>2. \/ Await(k, "closing") \/ Await(k, "closing sent")
        \/ End(k, "ok") \/ End(k, "error")
    BY <1>4 DEF DiscardStart, DiscardClosed, Release
  <2> QED
    BY <1>1, <2>1, <2>2 DEF Places
<1>5. CASE DeliverCancel(k)
  <2>1. k \in Requests /\ Throw(k) /\ UNCHANGED <<frontVars, svc>>
    BY <1>0, <1>5 DEF DeliverCancel, LoopTypes
  <2>2. \/ UNCHANGED at
        \/ at[k] # "done" /\ (Await(k, "abort") \/ End(k, "cancelled"))
    BY <2>1 DEF Throw
  <2> QED
    BY <1>1, <2>1, <2>2 DEF LoopKeeps, Places
<1> QED
  BY <1>2, <1>3, <1>4, <1>5 DEF LoopStep

\* The calls, their workers and the shutdown.
Accounted == (\A q \in Requests : Attended(q)) /\ OneOpen /\ ReleasesLate

LEMMA DispatchAccounts ==
  ASSUME IInv, Accounted, NEW q \in Requests, Dispatch(q)
  PROVE  Accounted'
<1>0. /\ LoopTypes /\ FrontTypes /\ q \in Tasks /\ conn[q] = "new" /\ svc = "on"
      /\ \A p \in Requests : p[2] = q[2] => conn[p] # "open"
      /\ at' = [at EXCEPT ![q] = "ready"] /\ conn' = [conn EXCEPT ![q] = "open"]
      /\ fut' = [fut EXCEPT ![q] = "pending"] /\ wk' = [wk EXCEPT ![q] = "wait"]
      /\ UNCHANGED <<flag, svc>>
  BY TaskKinds DEF IInv, Types, Dispatch
<1>1. \A p \in Requests : Attended(p)'
  <2>1. at[q] = "none"
    BY <1>0 DEF IInv, SendsInOrder, Reached
  <2> QED
    BY <1>0, <2>1, TaskKinds DEF Accounted, Attended, LoopTypes, FrontTypes
<1>2. OneOpen'
  BY <1>0 DEF Accounted, OneOpen, FrontTypes
<1>3. ReleasesLate'
  BY <1>0, TaskKinds DEF Accounted, ReleasesLate, LoopTypes, FrontTypes
<1> QED
  BY <1>1, <1>2, <1>3 DEF Accounted

LEMMA CancelAccounts ==
  ASSUME IInv, Accounted, NEW q \in Requests, conn[q] = "closed", CancelRequest(q)
  PROVE  /\ \/ UNCHANGED fut
            \/ fut[q] = "pending" /\ fut' = [fut EXCEPT ![q] = "cancelled"]
         /\ \A p \in Requests : at'[p] = at[p]
         /\ \A t \in Txs : /\ at'[<<"close", t>>] = at[<<"close", t>>]
                           /\ \/ at'[<<"reclaim", t>>] = at[<<"reclaim", t>>]
                              \/ <<"txprepare", t>> \in Requests /\ conn[<<"txprepare", t>>] = "closed"
<1>0. LoopTypes /\ q[2] \in Txs /\ q = <<q[1], q[2]>>
  BY TaskKinds DEF IInv, Types
<1>1. CASE UNCHANGED at
  <2>1. UNCHANGED fut \/ (fut[q] = "pending" /\ fut' = [fut EXCEPT ![q] = "cancelled"])
    BY DEF CancelRequest
  <2> QED
    BY <1>1, <2>1
<1>2. CASE /\ q[1] = "txprepare" /\ at' = [at EXCEPT ![<<"reclaim", q[2]>>] = "ready"]
           /\ UNCHANGED fut
  <2>1. q = <<"txprepare", q[2]>>
    BY <1>0, <1>2
  <2>2. \A j \in Tasks : j # <<"reclaim", q[2]>> => at'[j] = at[j]
    BY <1>0, <1>2 DEF LoopTypes
  <2>3. \A p \in Requests : p \in Tasks /\ p # <<"reclaim", q[2]>>
    BY <1>0, TaskKinds
  <2>4. ASSUME NEW t \in Txs
        PROVE  /\ at'[<<"close", t>>] = at[<<"close", t>>]
               /\ \/ at'[<<"reclaim", t>>] = at[<<"reclaim", t>>]
                  \/ t = q[2]
    BY <2>2, TaskKinds
  <2> QED
    BY <1>2, <2>1, <2>2, <2>3, <2>4
<1> QED
  BY <1>1, <1>2 DEF CancelRequest

LEMMA WorkersAccount ==
  ASSUME IInv, Accounted, NEW q \in Requests, WorkerStep(q) \/ HangUp(q) \/ WatchCancelled(q)
  PROVE  Accounted'
<1>0. LoopTypes /\ FrontTypes /\ UNCHANGED svc /\ Attended(q)
  BY DEF IInv, Types, Accounted, WorkerStep, Settle, WorkerFails, WorkerResponds, HangUp,
     WatchCancelled
<1>1. CASE HangUp(q)
  <2>1. conn[q] = "open" /\ conn' = [conn EXCEPT ![q] = "closed"] /\ UNCHANGED <<at, fut, wk, flag>>
    BY <1>1 DEF HangUp, loopVars
  <2> QED
    BY <1>0, <2>1 DEF Accounted, Attended, OneOpen, ReleasesLate, FrontTypes
<1>2. CASE Settle(q)
  <2>1. /\ at[q] = "done" /\ UNCHANGED <<at, conn, wk, flag>>
        /\ fut[q] = "pending" /\ \E r \in {"ok", "error"} : fut' = [fut EXCEPT ![q] = r]
    BY <1>2 DEF Settle, loopVars
  <2> QED
    BY <1>0, <2>1 DEF Accounted, Attended, OneOpen, ReleasesLate, FrontTypes
<1>3. CASE WatchCancelled(q)
  <2>1. /\ conn[q] = "closed" /\ UNCHANGED <<conn, wk>> /\ flag' = [flag EXCEPT ![q] = TRUE]
        /\ CancelRequest(q)
    BY <1>3 DEF WatchCancelled
  <2>2. (\A p \in Requests : Attended(p)') /\ OneOpen'
    <3>1. \A p \in Requests : p # q => fut'[p] = fut[p] /\ flag'[p] = flag[p]
      BY <1>0, <2>1, CancelAccounts DEF FrontTypes
    <3>2. fut'[q] = fut[q] \/ fut'[q] = "cancelled"
      BY <1>0, <2>1, CancelAccounts DEF FrontTypes
    <3> QED
      BY <1>0, <2>1, <3>1, <3>2, CancelAccounts DEF Accounted, Attended, OneOpen
  <2>3. ReleasesLate'
    BY <1>0, <2>1, CancelAccounts DEF Accounted, ReleasesLate
  <2> QED
    BY <2>2, <2>3 DEF Accounted
<1>4. CASE WorkerFails(q)
  <2>1. /\ fut[q] \in {"error", "cancelled"} /\ wk' = [wk EXCEPT ![q] = "done"]
        /\ UNCHANGED <<at, fut, flag>>
        /\ conn' = conn \/ conn' = [conn EXCEPT ![q] = IF @ = "open" THEN "failed" ELSE @]
        /\ ~flag[q] => conn' = [conn EXCEPT ![q] = IF @ = "open" THEN "failed" ELSE @]
    BY <1>4 DEF WorkerFails, Answer, loopVars
  <2>2. conn'[q] # "open" /\ (conn'[q] = "failed" => at[q] = "done")
        /\ (conn'[q] = conn[q] \/ (conn[q] = "open" /\ conn'[q] = "failed"))
    BY <1>0, <2>1 DEF Attended, FrontTypes
  <2>3. \A p \in Requests : p # q => conn'[p] = conn[p] /\ wk'[p] = wk[p]
    BY <1>0, <2>1 DEF FrontTypes
  <2>4. wk'[q] = "done"
    BY <1>0, <2>1 DEF FrontTypes
  <2> QED
    BY <1>0, <2>1, <2>2, <2>3, <2>4 DEF Accounted, Attended, OneOpen, ReleasesLate
<1>5. CASE WorkerResponds(q)
  <2>1. /\ fut[q] = "ok" /\ wk' = [wk EXCEPT ![q] = "done"] /\ UNCHANGED flag
        /\ \/ /\ conn' = [conn EXCEPT ![q] = IF @ = "open" THEN "answered" ELSE @]
              /\ UNCHANGED <<fut, at>>
           \/ (flag[q] \/ conn[q] = "closed") /\ CancelRequest(q) /\ UNCHANGED conn
    BY <1>5 DEF WorkerResponds, Answer
  <2>2. /\ at[q] = "done" /\ (flag[q] => conn[q] = "closed")
        /\ \A p \in Requests : p # q => wk'[p] = wk[p]
        /\ wk'[q] = "done"
    BY <1>0, <2>1 DEF Attended, FrontTypes
  <2>3. CASE /\ conn' = [conn EXCEPT ![q] = IF @ = "open" THEN "answered" ELSE @]
             /\ UNCHANGED <<fut, at>>
    <3>1. /\ \/ conn[q] # "open" /\ conn'[q] = conn[q]
             \/ conn[q] = "open" /\ conn'[q] = "answered"
          /\ \A p \in Requests : p # q => conn'[p] = conn[p]
      BY <1>0, <2>3 DEF FrontTypes
    <3> QED
      BY <1>0, <2>1, <2>2, <2>3, <3>1 DEF Accounted, Attended, OneOpen, ReleasesLate
  <2>4. CASE conn[q] = "closed" /\ CancelRequest(q) /\ UNCHANGED conn
    <3>1. UNCHANGED fut
      BY <2>1, <2>4, CancelAccounts
    <3>2. (\A p \in Requests : Attended(p)') /\ OneOpen'
      BY <1>0, <2>1, <2>2, <2>4, <3>1, CancelAccounts DEF Accounted, Attended, OneOpen
    <3>3. ReleasesLate'
      BY <1>0, <2>2, <2>4, CancelAccounts DEF Accounted, ReleasesLate
    <3> QED
      BY <3>2, <3>3 DEF Accounted
  <2> QED
    BY <2>1, <2>2, <2>3, <2>4
<1> QED
  BY <1>1, <1>2, <1>3, <1>4, <1>5 DEF WorkerStep

LEMMA RestAccounts ==
  ASSUME IInv, Accounted,
         \/ \E q \in Requests : NodeAccepts(q) \/ BroadcastReturns(q)
         \/ \E t \in Txs : RenewalFails(t) \/ Lapse(t)
         \/ Stop \/ Shutdown \/ OtherLocks \/ OtherUnlocks \/ UNCHANGED vars
  PROVE  Accounted'
<1>0. LoopTypes /\ UNCHANGED frontVars
  BY DEF IInv, Types, NodeAccepts, BroadcastReturns, RenewalFails, Lapse, Stop, Shutdown, CloseBegin,
     CloseNext, CloseEnd, OtherLocks, OtherUnlocks, vars
<1>1. /\ \A p \in Requests : at'[p] = at[p]
      /\ \A t \in Txs : at'[<<"reclaim", t>>] = at[<<"reclaim", t>>]
      /\ UNCHANGED at \/ svc' = "closing"
  <2>1. CASE UNCHANGED at
    BY <2>1
  <2>2. ASSUME NEW t \in Txs, CloseNext(t)
        PROVE  /\ \A p \in Requests : at'[p] = at[p]
               /\ \A u \in Txs : at'[<<"reclaim", u>>] = at[<<"reclaim", u>>]
               /\ svc' = "closing"
    BY <1>0, <2>2, TaskKinds DEF CloseNext, LoopTypes
  <2> QED
    BY <2>1, <2>2 DEF NodeAccepts, BroadcastReturns, RenewalFails, Lapse, Stop, Shutdown, CloseBegin,
       CloseEnd, OtherLocks, OtherUnlocks, vars, loopVars
<1>2. /\ svc \in {"closing", "closed"} => svc' \in {"closing", "closed"}
      /\ svc' \in {"closing", "closed"} =>
           svc \in {"closing", "closed"} \/ \A q \in Requests : wk[q] # "wait"
  BY DEF NodeAccepts, BroadcastReturns, RenewalFails, Lapse, Stop, Shutdown, CloseBegin, CloseNext,
     CloseEnd, OtherLocks, OtherUnlocks, vars
<1>3. (\A q \in Requests : Attended(q)') /\ OneOpen'
  BY <1>0, <1>1 DEF Accounted, Attended, OneOpen, frontVars
<1>4. ReleasesLate'
  BY <1>0, <1>1, <1>2 DEF Accounted, ReleasesLate, frontVars
<1> QED
  BY <1>3, <1>4 DEF Accounted

LEMMA AccountedNext == IInv /\ Accounted /\ [Next]_vars => Accounted'
<1> SUFFICES ASSUME IInv, Accounted, [Next]_vars PROVE Accounted'
  OBVIOUS
<1>1. ASSUME NEW k \in Tasks, LoopStep(k) PROVE Accounted'
  <2>1. LoopKeeps
    BY <1>1, LoopStepKeeps
  <2>2. (\A q \in Requests : Attended(q)') /\ OneOpen'
    BY <2>1, TaskKinds DEF Accounted, Attended, OneOpen, LoopKeeps, frontVars
  <2>3. ReleasesLate'
    BY <2>1, TaskKinds DEF Accounted, ReleasesLate, LoopKeeps, frontVars
  <2> QED
    BY <2>2, <2>3 DEF Accounted
<1> QED
  BY <1>1, DispatchAccounts, WorkersAccount, RestAccounts DEF Next

----------------------------------------------------------------------------
(***************************************************************************)
(* The steps that release inputs, and what they leave alone.               *)
(***************************************************************************)
Releases(k) ==
  /\ stuck = NoTask /\ at[k] \notin {"none", "done"} /\ k[1] \in Discards \union {"txprepare"}
  /\ k[1] \in Discards => phase[k[2]] = "prepared"
  /\ k[1] = "txprepare" => at'[k] \notin {"none", "ready", "fees"}
  /\ \A t \in Txs : t # k[2] => given'[t] = given[t] /\ lease'[t] = lease[t]
  /\ given'[k[2]] \intersect lease'[k[2]] = {}

LEMMA WhoReleases ==
  ASSUME IInv, InputsHeld, [Next]_vars
  PROVE  \/ UNCHANGED given /\ \A t \in Txs : lease'[t] \subseteq lease[t]
         \/ \E k \in Tasks : Releases(k)
<1>0. LoopTypes /\ TxTypes /\ PreparedFirst
  BY DEF IInv, Types
<1> DEFINE Kept == UNCHANGED given /\ \A t \in Txs : lease'[t] \subseteq lease[t]
<1>1. ASSUME NEW k \in Tasks, PrepareLock(k) PROVE Releases(k)
  <2> DEFINE t == k[2]
  <2>1. /\ k[1] = "txprepare" /\ at[k] = "fees" /\ stuck = NoTask /\ t \in Txs /\ k = <<"txprepare", t>>
        /\ k \in Requests /\ k[1] \notin Discards
    BY <1>1, TaskKinds DEF PrepareLock, At, Discards
  <2>2. given[t] = {}
    BY <2>1 DEF InputsHeld
  <2>3. at'[k] \in {"rawtx", "abort"}
    BY <1>0, <1>1 DEF PrepareLock, Await, LoopTypes
  <2>4. /\ \A u \in Txs : u # t => given'[u] = given[u] /\ lease'[u] = lease[u]
        /\ given'[t] \intersect lease'[t] = {}
    <3>1. CASE lease' = [lease EXCEPT ![t] = Coins] /\ UNCHANGED given
      BY <1>0, <2>1, <2>2, <3>1 DEF TxTypes
    <3>2. ASSUME NEW L \in SUBSET Coins, NEW U \in SUBSET L,
                 lease' = [lease EXCEPT ![t] = L \ U], given' = [given EXCEPT ![t] = U]
          PROVE  /\ \A u \in Txs : u # t => given'[u] = given[u] /\ lease'[u] = lease[u]
                 /\ given'[t] \intersect lease'[t] = {}
      BY <1>0, <2>1, <3>2 DEF TxTypes
    <3> QED
      BY <1>1, <3>1, <3>2 DEF PrepareLock
  <2> QED
    BY <2>1, <2>3, <2>4 DEF Releases
<1>2. ASSUME NEW t \in Txs, NEW S, GiveBack(t, S)
      PROVE  /\ \A u \in Txs : u # t => given'[u] = given[u] /\ lease'[u] = lease[u]
             /\ given'[t] \intersect lease'[t] = {}
  BY <1>0, <1>2 DEF GiveBack, TxTypes, InputsHeld
<1>3. ASSUME NEW k \in Tasks, PrepareBuild(k) PROVE Kept \/ Releases(k)
  <2>1. /\ k[1] = "txprepare" /\ at[k] = "rawtx" /\ stuck = NoTask /\ k[2] \in Txs
        /\ k[1] \notin Discards
    BY <1>3, TaskKinds DEF PrepareBuild, At, Discards
  <2>2. CASE UNCHANGED <<owned, lease, given>>
    BY <2>2
  <2>3. CASE (\E U \in SUBSET owned[k[2]] : GiveBack(k[2], U)) /\ Await(k, "abort")
    <3>1. at'[k] = "abort"
      BY <1>0, <2>3 DEF Await, LoopTypes
    <3> QED
      BY <1>2, <2>1, <2>3, <3>1 DEF Releases
  <2> QED
    BY <1>3, <2>2, <2>3 DEF PrepareBuild
<1>4. ASSUME NEW k \in Tasks, DiscardStart(k) PROVE Kept \/ Releases(k)
  <2>1. k[1] \in Discards /\ k[1] # "txprepare" /\ at[k] = "ready" /\ stuck = NoTask /\ k[2] \in Txs
    BY <1>4, TaskKinds DEF DiscardStart, At, Discards
  <2>2. CASE UNCHANGED <<owned, lease, given>>
    BY <2>2
  <2>3. CASE phase[k[2]] = "prepared" /\ \E U : GiveBack(k[2], U)
    BY <1>2, <2>1, <2>3 DEF Releases
  <2> QED
    BY <1>4, <2>2, <2>3 DEF DiscardStart, Release
<1>5. ASSUME NEW k \in Tasks, DeliverCancel(k) PROVE Kept \/ Releases(k)
  <2>1. Throw(k) /\ stuck = NoTask /\ k[2] \in Txs
    BY <1>5, TaskKinds DEF DeliverCancel
  <2>2. CASE UNCHANGED <<owned, lease, given>>
    BY <2>2
  <2>3. CASE at[k] = "rawtx" /\ (\E U \in SUBSET owned[k[2]] : GiveBack(k[2], U)) /\ Await(k, "abort")
    <3>1. at'[k] = "abort" /\ k[1] = "txprepare" /\ k[1] \notin Discards
      BY <1>0, <2>3 DEF Await, LoopTypes, PreparedFirst, Discards
    <3> QED
      BY <1>2, <2>1, <2>3, <3>1 DEF Releases
  <2> QED
    BY <2>1, <2>2, <2>3 DEF Throw
<1>6. ASSUME NEW k \in Tasks, LoopStep(k) PROVE Kept \/ Releases(k)
  <2>1. CASE PrepareStart(k) \/ PrepareAbort(k) \/ SendStart(k) \/ SendJournal(k) \/ SendAnswered(k)
             \/ SendClosed(k) \/ DiscardClosed(k)
    BY <2>1 DEF PrepareStart, PrepareAbort, SendStart, SendJournal, SendAnswered, SendClosed,
       DiscardClosed, txVars
  <2> QED
    BY <1>1, <1>3, <1>4, <1>5, <1>6, <2>1 DEF LoopStep
<1>7. ASSUME NEW q \in Requests,
             \/ WorkerStep(q) \/ Dispatch(q) \/ HangUp(q) \/ WatchCancelled(q)
             \/ NodeAccepts(q) \/ BroadcastReturns(q)
      PROVE  Kept
  BY <1>7 DEF WorkerStep, Settle, WorkerFails, WorkerResponds, Dispatch, HangUp, WatchCancelled,
     NodeAccepts, BroadcastReturns, txVars
<1>8. ASSUME NEW t \in Txs, Lapse(t) PROVE Kept
  BY <1>0, <1>8 DEF Lapse, TxTypes
<1>9. ASSUME \/ \E u \in Txs : RenewalFails(u)
             \/ Stop \/ Shutdown \/ OtherLocks \/ OtherUnlocks \/ UNCHANGED vars
      PROVE  Kept
  BY <1>9 DEF RenewalFails, Stop, Shutdown, CloseBegin, CloseNext, CloseEnd, OtherLocks,
     OtherUnlocks, vars, txVars
<1> QED
  BY <1>6, <1>7, <1>8, <1>9 DEF Next

\* Such a step is not one about a send that is under way for its caller.
LEMMA ReleasesElsewhere ==
  ASSUME IInv, FrontInv, NEW k \in Tasks, Releases(k), NEW q \in Requests,
         at[q] = "journal" \/ bc[q] = "flight", NoHangUp(q[2])
  PROVE  k[2] # q[2]
<1>0. /\ SendsInOrder /\ FrontTypes /\ (\A r \in Requests : Attended(r)) /\ OneOpen /\ ReleasesLate
      /\ stuck = NoTask /\ at[k] \notin {"none", "done"} /\ k[1] \in Discards \union {"txprepare"}
  BY DEF IInv, Types, FrontInv, Releases
<1>1. at[q] = "sending" /\ q[1] \in Sends
  BY <1>0, TaskKinds DEF FrontInv, InputsHeld, SendsInOrder, LoopHeld, Reached
<1>2. conn[q] = "open" /\ wk[q] = "wait"
  <2>1. conn[q] \notin {"new", "answered", "failed"}
    BY <1>0, <1>1 DEF SendsInOrder, Reached, Attended
  <2>2. conn[q] # "closed"
    BY DEF NoHangUp
  <2> QED
    BY <1>0, <2>1, <2>2 DEF FrontTypes, Attended
<1>3. ASSUME k[2] = q[2] PROVE FALSE
  <2>1. CASE k \in Requests
    <3>1. conn[k] \notin {"new", "answered", "failed"} /\ conn[k] # "closed"
      BY <1>0, <1>3, <2>1 DEF SendsInOrder, Reached, Attended, NoHangUp
    <3>2. k = q
      BY <1>0, <1>2, <1>3, <2>1, <3>1 DEF FrontTypes, OneOpen
    <3> QED
      BY <1>0, <1>1, <3>2 DEF Discards, Sends
  <2>2. CASE k \notin Requests
    <3>1. k[2] \in Txs /\ k = <<k[1], k[2]>> /\ k[1] \in {"reclaim", "close"}
      BY <1>0, <2>2, TaskKinds DEF Discards
    <3>2. CASE k[1] = "reclaim"
      <4>1. <<"txprepare", k[2]>> \in Requests /\ conn[<<"txprepare", k[2]>>] = "closed"
        BY <1>0, <3>1, <3>2 DEF ReleasesLate
      <4> QED
        BY <1>3, <4>1 DEF NoHangUp
    <3>3. CASE k[1] = "close"
      BY <1>0, <1>2, <3>1, <3>3 DEF ReleasesLate
    <3> QED
      BY <3>1, <3>2, <3>3
  <2> QED
    BY <2>1, <2>2
<1> QED
  BY <1>3

\* How a send gets to the journal and into flight, and a call to its end.
LEMMA SendPlaces ==
  ASSUME IInv, InputsHeld, [Next]_vars, NEW q \in Requests
  PROVE  /\ bc'[q] = "flight" => /\ at'[q] = "sending"
                                 /\ bc[q] = "flight" \/ at[q] = "journal"
         /\ at'[q] = "journal" => \/ at[q] = "journal"
                                  \/ UNCHANGED given /\ lease[q[2]] = Coins
         /\ at'[q] \in {"none", "ready", "fees"} => at[q] \in {"none", "ready", "fees"}
         /\ conn[q] = "closed" => conn'[q] = "closed"
<1> DEFINE Goal ==
         /\ bc'[q] = "flight" => /\ at'[q] = "sending"
                                 /\ bc[q] = "flight" \/ at[q] = "journal"
         /\ at'[q] = "journal" => \/ at[q] = "journal"
                                  \/ UNCHANGED given /\ lease[q[2]] = Coins
         /\ at'[q] \in {"none", "ready", "fees"} => at[q] \in {"none", "ready", "fees"}
         /\ conn[q] = "closed" => conn'[q] = "closed"
<1>0. /\ LoopTypes /\ NetTypes /\ FrontTypes /\ SendsInOrder /\ q \in Tasks
      /\ bc[q] = "flight" => at[q] = "sending"
  BY TaskKinds DEF IInv, Types, InputsHeld
<1>1. ASSUME UNCHANGED <<bc, conn>>, at'[q] = at[q] PROVE Goal
  BY <1>0, <1>1
<1>2. ASSUME NEW k \in Tasks, LoopStep(k) PROVE Goal
  <2>1. CASE SendJournal(k)
    <3>1. /\ at[k] = "journal" /\ k \in Requests /\ UNCHANGED conn
          /\ \/ Await(k, "sending") /\ bc' = [bc EXCEPT ![k] = "flight"]
             \/ End(k, "error") /\ UNCHANGED bc
      BY <1>0, <2>1, TaskKinds DEF SendJournal, SendsInOrder, LoopHeld, LoopTypes, frontVars
    <3> QED
      BY <1>0, <3>1 DEF Await, End, LoopTypes, NetTypes
  <2>2. CASE SendStart(k)
    <3>1. /\ at[k] = "ready" /\ UNCHANGED <<conn, bc, given>>
          /\ \/ Await(k, "journal") /\ lease[k[2]] = Coins
             \/ End(k, "error")
      BY <2>2 DEF SendStart, At, Renewable, frontVars, netVars, txVars
    <3> QED
      BY <1>0, <3>1 DEF Await, End, LoopTypes
  <2>3. CASE SendAnswered(k)
    <3>1. /\ bc[k] # "flight" /\ at[k] = "sending" /\ UNCHANGED <<conn, bc>>
          /\ Await(k, "closing") \/ End(k, "error")
      BY <2>3 DEF SendAnswered, At, frontVars, netVars
    <3> QED
      BY <1>0, <3>1 DEF Await, End, LoopTypes
  <2>4. CASE DeliverCancel(k)
    <3>1. /\ UNCHANGED <<conn, bc>>
          /\ \/ UNCHANGED at
             \/ at[k] # "sending" /\ (Await(k, "abort") \/ End(k, "cancelled"))
      BY <2>4 DEF DeliverCancel, Throw, frontVars, netVars
    <3> QED
      BY <1>0, <3>1 DEF Await, End, LoopTypes
  <2>5. CASE PrepareStart(k) \/ PrepareLock(k) \/ PrepareBuild(k) \/ PrepareAbort(k)
    <3>1. /\ UNCHANGED <<conn, bc>> /\ at[k] # "sending"
          /\ \/ Await(k, "fees") /\ at[k] = "ready"
             \/ Await(k, "rawtx") \/ Await(k, "abort") \/ End(k, "ok") \/ End(k, "error")
      BY <2>5 DEF PrepareStart, PrepareLock, PrepareBuild, PrepareAbort, At, frontVars, netVars
    <3> QED
      BY <1>0, <3>1 DEF Await, End, LoopTypes
  <2>6. CASE SendClosed(k) \/ DiscardStart(k) \/ DiscardClosed(k)
    <3>1. /\ UNCHANGED <<conn, bc>> /\ at[k] # "sending"
          /\ \/ Await(k, "closing") \/ Await(k, "closing sent") \/ End(k, "ok") \/ End(k, "error")
      BY <2>6 DEF SendClosed, DiscardStart, DiscardClosed, Release, At, frontVars, netVars
    <3> QED
      BY <1>0, <3>1 DEF Await, End, LoopTypes
  <2> QED
    BY <1>2, <2>1, <2>2, <2>3, <2>4, <2>5, <2>6 DEF LoopStep
<1>3. ASSUME NEW r \in Requests, Dispatch(r) PROVE Goal
  <2>1. /\ conn[r] = "new" /\ conn' = [conn EXCEPT ![r] = "open"] /\ UNCHANGED bc
        /\ at' = [at EXCEPT ![r] = "ready"] /\ at[r] = "none"
    BY <1>0, <1>3 DEF Dispatch, netVars, SendsInOrder, Reached
  <2> QED
    BY <1>0, <2>1 DEF LoopTypes, FrontTypes
<1>4. ASSUME NEW r \in Requests, WorkerStep(r) \/ HangUp(r) \/ WatchCancelled(r) PROVE Goal
  <2>1. UNCHANGED bc
    BY <1>4 DEF WorkerStep, Settle, WorkerFails, WorkerResponds, HangUp, WatchCancelled, netVars
  <2>2. at'[q] = at[q]
    <3>1. UNCHANGED at \/ CancelRequest(r)
      BY <1>4 DEF WorkerStep, Settle, WorkerFails, WorkerResponds, HangUp, WatchCancelled, loopVars
    <3>2. CancelRequest(r) => UNCHANGED at \/ at' = [at EXCEPT ![<<"reclaim", r[2]>>] = "ready"]
      BY DEF CancelRequest
    <3>3. <<"reclaim", r[2]>> # q
      BY TaskKinds
    <3> QED
      BY <1>0, <3>1, <3>2, <3>3 DEF LoopTypes
  <2>3. conn[q] = "closed" => conn'[q] = "closed"
    <3>1. \/ conn' = conn \/ conn' = [conn EXCEPT ![r] = "closed"]
          \/ \E how \in {"failed", "answered"} :
               conn' = [conn EXCEPT ![r] = IF @ = "open" THEN how ELSE @]
      BY <1>4 DEF WorkerStep, Settle, WorkerFails, WorkerResponds, HangUp, WatchCancelled, Answer
    <3> QED
      BY <1>0, <3>1 DEF FrontTypes
  <2> QED
    BY <1>0, <2>1, <2>2, <2>3
<1>5. ASSUME NEW r \in Requests, NodeAccepts(r) \/ BroadcastReturns(r) PROVE Goal
  <2>1. /\ UNCHANGED <<at, conn>>
        /\ bc' = bc \/ bc' = [bc EXCEPT ![r] = "ok"] \/ bc' = [bc EXCEPT ![r] = "failed"]
    BY <1>5 DEF NodeAccepts, BroadcastReturns, loopVars, frontVars
  <2> QED
    BY <1>0, <2>1 DEF NetTypes
<1>6. ASSUME \/ \E t \in Txs : RenewalFails(t) \/ Lapse(t)
             \/ Stop \/ Shutdown \/ OtherLocks \/ OtherUnlocks \/ UNCHANGED vars
      PROVE  Goal
  <2>1. UNCHANGED <<bc, conn>>
    BY <1>6 DEF RenewalFails, Lapse, Stop, Shutdown, CloseBegin, CloseNext, CloseEnd, OtherLocks,
       OtherUnlocks, vars, netVars, frontVars
  <2>2. UNCHANGED at \/ \E t \in Txs : at' = [at EXCEPT ![<<"close", t>>] = "ready"]
    BY <1>6 DEF RenewalFails, Lapse, Stop, Shutdown, CloseBegin, CloseNext, CloseEnd, OtherLocks,
       OtherUnlocks, vars, loopVars
  <2>3. at'[q] = at[q]
    BY <1>0, <2>2, TaskKinds DEF LoopTypes
  <2> QED
    BY <1>1, <2>1, <2>3
<1> QED
  BY <1>2, <1>3, <1>4, <1>5, <1>6 DEF Next

\* The inputs stay held.
LEMMA HeldNext == IInv /\ FrontInv /\ [Next]_vars => InputsHeld'
<1> SUFFICES ASSUME IInv, FrontInv, [Next]_vars PROVE InputsHeld'
  OBVIOUS
<1>0. TxTypes /\ LoopTypes /\ InputsHeld /\ PreparedFirst
  BY DEF IInv, Types, FrontInv
<1>1. ASSUME NEW t \in Txs PROVE given'[t] \intersect lease'[t] = {}
  <2>1. CASE UNCHANGED given /\ lease'[t] \subseteq lease[t]
    BY <1>0, <2>1 DEF InputsHeld
  <2>2. ASSUME NEW k \in Tasks, Releases(k) PROVE given'[t] \intersect lease'[t] = {}
    BY <1>0, <2>2 DEF Releases, InputsHeld
  <2> QED
    BY <1>0, <2>1, <2>2, WhoReleases
<1>2. ASSUME NEW t \in Txs, <<"txprepare", t>> \in Requests,
             at'[<<"txprepare", t>>] \in {"none", "ready", "fees"}
      PROVE  given'[t] = {}
  <2>1. at[<<"txprepare", t>>] \in {"none", "ready", "fees"}
    BY <1>0, <1>2, SendPlaces
  <2>2. given[t] = {} /\ phase[t] = "none"
    BY <1>0, <1>2, <2>1 DEF InputsHeld, PreparedFirst
  <2>3. ASSUME NEW k \in Tasks, Releases(k) PROVE given'[t] = {}
    <3>1. k[2] # t
      BY <1>2, <2>2, <2>3, TaskKinds DEF Releases
    <3> QED
      BY <2>2, <2>3, <3>1 DEF Releases
  <2> QED
    BY <1>0, <2>2, <2>3, WhoReleases
<1>3. ASSUME NEW q \in Requests PROVE bc'[q] = "flight" => at'[q] = "sending"
  BY <1>0, SendPlaces
<1>4. ASSUME NEW q \in Requests, at'[q] = "journal" \/ bc'[q] = "flight", NoHangUp(q[2])'
      PROVE  given'[q[2]] = {}
  <2>0. q[2] \in Txs /\ NoHangUp(q[2])
    BY <1>0, <1>4, TaskKinds, SendPlaces DEF NoHangUp
  <2>1. CASE at[q] = "journal" \/ bc[q] = "flight"
    <3>1. given[q[2]] = {}
      BY <1>0, <2>0, <2>1 DEF InputsHeld
    <3>2. ASSUME NEW k \in Tasks, Releases(k) PROVE given'[q[2]] = given[q[2]]
      BY <2>0, <2>1, <3>2, ReleasesElsewhere DEF Releases
    <3> QED
      BY <1>0, <3>1, <3>2, WhoReleases
  <2>2. CASE UNCHANGED given /\ lease[q[2]] = Coins
    BY <1>0, <2>0, <2>2 DEF InputsHeld, TxTypes
  <2> QED
    BY <1>0, <1>4, <2>1, <2>2, SendPlaces
<1> QED
  BY <1>1, <1>2, <1>3, <1>4 DEF InputsHeld

(***************************************************************************)
(* For any transactions, inputs and calls: as long as PeerSwap hangs up on *)
(* no call about a transaction, none of its inputs is released while it is *)
(* being broadcast, by a discard, a reclaiming or the shutdown             *)
(* (peerswap.py:655-674, 817-829, 1119-1192, 1217-1233).                   *)
(***************************************************************************)
THEOREM SendsKeepInputs == Spec => []HeldForCallers
<1>1. IInv /\ FrontInv /\ [Next]_vars => FrontInv'
  BY AccountedNext, HeldNext DEF FrontInv, Accounted
<1>2. FrontInv => HeldForCallers
  BY DEF FrontInv, InputsHeld, NoHangUp, HeldForCallers
<1> QED
  BY <1>1, <1>2, FrontInit, Invariance, PTL DEF Spec
=============================================================================
