# A formal model of jmlightning

`jmlightning` funds Lightning channels, splices and PeerSwap transactions from a
JoinMarket-NG wallet; `jmpeerswap` is the Core Lightning plugin that hands it the
transaction calls of the `peerswap` binary. This directory holds TLA+ modules of
its control logic, the TLC runs that check them on small instances, and TLAPS
proofs for the funding operations, the amounts they sign, recovery, the PeerSwap service
and the plugin. File and line references are relative to the repository
(`splice.py` is `jmlightning/src/jmlightning/operations/splice.py`, and so on).

The question behind most of it: **coins that a signed transaction may spend must
not be given back to the wallet, and coins that nothing spends must not be lost**,
whatever is refused, lost, interrupted, delayed or killed on the way.

## 1. The system

| Component | State it keeps | Operations | Talks to |
|---|---|---|---|
| `operations/open_channel.py` | its lifecycle, the list `locked` | one `execute()`: select, lock, start, sign, complete, send or cancel, clean up | adapter, journal, CLN |
| `operations/multi_open_channel.py` | the same, and which peers have started | one transaction that funds several channels | adapter, journal, CLN |
| `operations/splice.py` | the same, and the negotiated PSBT | splice-in (adds a coin), splice-out (pays an address) | adapter, journal, CLN |
| `operations/lifecycle.py` | phase, `release_locks`, errors | legal transitions, cleanup, when to drop the record | adapter, journal |
| `recovery.py` journal | the durable records, the lifetime lock | create, update, before/after a mutation, resolve, `call` | file system |
| `recovery.py` manager | none | `reconcile_all`: keep a record, or release its coins | journal, CLN, Bitcoin backend, wallet |
| `adapters/joinmarket.py` | owned reservations, the renewal thread | lock, unlock, renew, close | wallet, journal |
| `lightning/cln.py` | none | CLN's RPCs and the meaning of its answers | CLN |
| `operations/peerswap.py` operation | prepared transactions | prepare, send, discard, close | adapter, journal, node |
| `operations/peerswap.py` dispatcher and client | futures, the event loop, worker and watcher threads | dispatch, cancel, shut down | operation, plugin |
| `rendezvous.py` (plugin) | requests, queue, waiters, watchers | match calls of `peerswap` with waiting workers; timers, disconnects, stop | proxy, client |
| `proxy.py` | sockets | intercept calls, notice a hang-up | rendezvous |
| `plugin.py` | the `peerswap` child, pending requests, its reader and initialiser threads | start, initialise, forward calls, hooks and notifications, stop | child, CLN |
| `policy.py`, `planner.py` | none | which coins may be used; fee, amount and change | operations |
| `tx_builder.py`, `psbt.py` | none | funding transactions; splice PSBTs, their validation and signing | operations, wallet |
| `cli.py`, `config.py`, `models.py` | none | arguments, settings, printing | operations |

Where it is hard:

* **Ambiguous answers.** Every CLN call may be applied although it raised.
* **Two writers of one record.** The renewal thread and the operation both write
  the journal record and both use the wallet's reservations.
* **Crashes.** A kill between any two steps leaves the wallet, the journal and CLN
  as they are; `jm-lightning recover` has to decide from them.
* **Leases.** A reservation that is not renewed lapses and anyone may take the coin.
* **Cancellation.** Ctrl-C at the awaits of the funding operations; PeerSwap hanging up,
  shutdown and cancelled futures for the PeerSwap service, where a future and its
  coroutine may part ways.
* **Racing answers.** Response, timer, disconnect and shutdown in the plugin; the child's
  answers, its exit and `stop()`.
* **Negotiated amounts.** CLN and the peer rewrite a splice PSBT at every update, and CLN
  computes the fee in another way than the plan that was approved.

What makes each part correct is stated in section 3, next to the run that checks it.
`PROJECT.json` lists the hazards at their lines.

## 2. The modules

```
Lifecycle   Journal <- Reservations <- Recovery <- Funding <- OpenChannel       <- MCOpenChannel, OpenChannelProofs
                                                      ^------- MultiOpenChannel  <- MCMultiOpenChannel
                                                      ^------- SpliceIn  ------- \
                                                      ^------- SpliceOut -------- <- Splice <- MCSplice
                                                      ^------- FundingProofs
MultiOpenChannel, FundingProofs    <- MultiOpenChannelProofs
Splice, FundingProofs              <- SpliceProofs
InputPromise  (abstract; OpenChannel, MultiOpenChannel and Splice implement it)
CallAnswers   (abstract; Rendezvous implements it)
Planning    <- SplicePsbt          <- MCSplicePsbt, SplicePsbtProofs
ReconcileAll                       <- MCReconcileAll, ReconcileAllProofs
PeerSwap    <- MCPeerSwap, PeerSwapProofs (uses Lifecycle's transition table)
Rendezvous                         <- MCRendezvous
ChildProcess                       <- MCChildProcess
Rendezvous, ChildProcess           <- PluginProofs
```

* **Lifecycle**: `OperationLifecycle` as a record and pure operators.
* **Journal**: one durable record and what each write makes of it. A write replaces the
  file atomically, so a crash sees the record before or after it.
* **Reservations**: `JoinMarketAdapter`. `lease` is the wallet's persistent reservation,
  `held` what the adapter believes it owns, `thr/todo/outs` the renewal thread at the
  granularity of its lock sections (the two `_owner_tokens()` reads of one journal write
  are two steps).
* **Recovery**: `RecoveryManager` as steps of another process, kept apart from a live
  operation by the lifetime lock.
* **Funding**: what the four funding operations share: begin, plan, lock each coin in its
  three steps, renew, the two journal writes around a CLN call, the `finally` block one
  unlock at a time, interrupts, crashes, lapsing leases and the wallet's other users.
  `pc` is the place in `execute()`, `stage` the place inside `RecoveryJournal.call`.
* **OpenChannel**, **MultiOpenChannel**, **SpliceIn**, **SpliceOut**: each operation's own
  steps, what CLN does with each call, and what it answers when asked for a status.
  Each failure branch of the code is a disjunct.
* **Splice**: a run of the splice command, which is one of SpliceIn and SpliceOut over the same
  state, and the properties that are about both.
* **InputPromise**: the abstract specification: a signed transaction is handed over, sent
  or withdrawn; inputs are given back only while there is none, and never before a
  hand-over.
* **CallAnswers**: the abstract specification of the plugin's meeting point: each intercepted
  call gets at most one answer, and the watcher of its client at most one verdict, which is
  true when it is given and for ever after.
* **PeerSwap**: the PeerSwap service of `jm-lightning`. One action is one segment of a
  coroutine between two awaits of the single event loop; a concurrent future is modelled
  apart from its coroutine; worker and watcher threads, the adapter's renewal, the node
  and another journal user interleave with it.
* **Planning**: from the wallet's coins to a transaction that would be signed, with the
  amounts: policy, listing, the selection loop of each kind of operation, the plan, the
  builder. JoinMarket picks any set that reaches the target; others take coins meanwhile.
* **SplicePsbt**: the contents of the PSBT a splice-in negotiates. CLN's first PSBT, the
  coins added to it, the edits CLN and the peer may make at each update, validation and
  signing. SpliceIn has the calls and failures of the same exchange.
* **ReconcileAll**: `reconcile_all` over a journal of several records as killed operations
  of any kind left them, with the queries, the releases one coin at a time, runs that stop
  anywhere, and the last call of a dead operation still to be executed. Recovery, by
  contrast, describes one record right next to the operation that left it.
* **ChildProcess**: `PeerSwapProcess` of `plugin.py`. Every request has a thread, and
  `_request` is split at each point where the child's exit or a `stop()` can come between
  (check, registration, write, wait); the reader, the initialiser and pyln's loop are
  further processes, and the child answers, asks and exits as it likes.
* **Rendezvous**: the plugin's meeting point. One action is one lock section; the answers
  written after the lock is released are later steps (`todo`). Timers, disconnects,
  clients that die and shutdown come at any time.

Definitions keep the names of the code where they can; `PROJECT.json` maps each one to its
lines. Definitions that begin with `Mut` are deliberate bugs, used only to show that each
property can fail.

### Abstractions

In the modules about calls and crashes, amounts and PSBT contents are inputs: a plan is any
non-empty set of coins, or an error; a PSBT is valid or not, and (SpliceOut) pays the approved
output or not. Planning and SplicePsbt are about just these, and leave out the journal, crashes
and refused calls: a failure there is simply the end. In them an output is its owner and its
value, an input its outpoint, its claimed value and a copy number; scripts, serial numbers,
signatures and the size estimate of jmcore are abstracted, the latter by its formula. Fee rates
are satoshis per 1000 weight units, in which `ceil(vsize * kw / 250)` is exact. Messages, log
lines and RPC parsing are left out everywhere. A peer id, a coin, a transaction, a request is a
model value.

### Assumptions about the surroundings

* An RPC that raised was applied before it raised, or never is.
* A call that comes right after a successful renewal takes less than `LOCK_TTL_SECONDS` (`Lapse`,
  `RenewedCalls`). `fundchannel_cancel` follows none, and with several peers each loop over them is
  preceded by one: only its first call, and `sendpsbt`, are surely within the lease.
* The first Ctrl-C surfaces at an `await`; a second one anywhere in the `try` block.
* CLN may forget a funding that was started, and an unsigned splice, at any time; a withheld
  funding only after the operation has ended. It refuses to cancel a broadcast funding. It may
  not know a transaction it broadcast (the code says so at `open_channel.py:549`).
* Where recovery follows one operation (Funding, `BitcoinView`), the Bitcoin backend says "not there" only
  of a transaction that was not broadcast: no eviction. ReconcileAll has evictions, and backends that
  do not show what was sent.
* The theorems of OpenChannel and MultiOpenChannel are about a CLN that shows the withheld flag of a channel
  and about one that does not (`ReportsWithheld`); what holds only of the first says so. The passing runs
  have the first, doc_multi_broadcast the second.
* `renew_locks` of the operation's own thread is one step.
* Several peers: a second Ctrl-C while fundings are being started or withdrawn is excluded
  (`Interruptible`); one `sendpsbt` clears the withheld flag of every channel.
* Splices: CLN has an inflight from the secured commitments on, holds the signed splice and
  sends it later. For a splice with a recorded transaction id the status query
  (`recovery.py:557`) passes the channel id where a node id is taken: the model lets it answer
  truthfully or abort the reconciliation.
* PeerSwap makes one call at a time for a transaction, knows its id from the answer to
  `txprepare`, and each intercepted call has its own connection. Another user of the journal
  takes its lock only while a send waits for it (no other moment can be told apart).
* Planning: JoinMarket's selection returns approved, unreserved coins that reach the target, any
  such set; the fee rate is positive. SplicePsbt: the first PSBT is one of three (channel not yet
  credited, already credited, or not told from another P2WSH output), and the edits are those of
  `EditedIns` and `EditedOuts`, any number of times.
* ReconcileAll: outpoints are on record before they are reserved and a transaction id before
  CLN or the node gets the transaction (the other runs check this), except that a splice-out has no
  id while CLN holds it back; two transactions with a common input are not both on the network; the
  operator does not cancel a withheld channel while its `sendpsbt` is under way. The Bitcoin backend
  sees the mempool and may see what is confirmed, never what was evicted. Of a transaction that was sent CLN may
  say anything (`PeerAnswers`); of one that was not, it knows what it holds back. PeerSwap records without a transaction id are
  kept in every case and left out. The status "resolved" is never written, so its branch
  (`recovery.py:365`) is not either.
* ChildProcess: CLN answers or refuses the child's requests, and makes no payment for the child
  while it waits for the hook that brought the message (`plugin.py:505`).
* "Given back" means released by this program. A lapsed lease is a different matter: see
  `HandOffLeased` and section 5.

## 3. The runs

Every run is `tlc -config X.cfg M`, and each takes less than three minutes. Deadlock is checked in
MCSplicePsbt, where a planning that is stuck would be an error; elsewhere an operation ends, and a
service may idle for ever. The type invariants of the modules (`TypeOK`) are not part of the runs;
those of OpenChannel, MultiOpenChannel, SpliceIn, SplicePsbt, ReconcileAll, PeerSwap and (what the proofs need)
Rendezvous and ChildProcess are proved.

**open_channel** (`MCOpenChannel.cfg`; two coins, one failed journal write, interrupts anywhere in
the `try` block but right after a reservation). Two coins are what it takes for a partial lock, a
partial unlock and a renewal thread whose snapshot differs from what is held; one failed write
reaches every error branch of the journal.
* `KeepsPromise`: OpenChannel with any recovery after it implements InputPromise.
* `HandOffRecorded`: CLN never holds a signed transaction whose id is not durable, the writes of
  the renewal thread notwithstanding.
* `CancelOnlyUnbroadcast`: no cancellation after a broadcast. `SuccessMeansBroadcast`: the phase is BROADCAST only
  of a transaction that was broadcast, lost and ambiguous answers included, if CLN shows the withheld flag.
* `HandOffLeased`: the transaction is handed over only with all its inputs reserved.
* `LeaseJournaled`: a record that exists has the owner token of every reservation, failed writes or not,
  so that a crash anywhere leaves nothing unaccounted for. `ResolvedClean`: while no write has failed,
  a record goes only once the phase is BROADCAST or with nothing reserved.
* `LifecycleLegal`: no transition that raises `ValueError`. `Terminates`: see fairness.

**multi_open_channel** (`MCMultiOpenChannel.cfg`; two peers, two coins, one failed write). Two peers are
enough for one to be ahead of the other in each loop. `AllWithdrawnFirst`: while the operation runs,
inputs go back only when no channel has the signed transaction. `SentWhenReady`: the batch is sent
when every peer has it, and with every input still reserved, though the leases may have lapsed in a loop.
`HandOffRecorded`, `KeepsPromise` as above; `LifecycleLegal` of this module is proved and not part of the run.

**splice** (`MCSplice.cfg`; splice-in with two coins, splice-out with none, one failed write). `KeepsPromise`
counts from the secured commitments on: no input goes back while an inflight of the channel spends it.
`SpliceRecorded`: what CLN has signed (splice-in) or secured (splice-out, which journals its id late) is on
record. `DroppedWhenOver`: once STARTED, a record goes only with a signed splice or when CLN has none left.
`PaysDestination`: only a splice-out PSBT that pays the approved output is signed, though each update may
replace it. `HandOffLeased`, `LifecycleLegal` as above. The update loop runs any number of times.

**splice_psbt** (`MCSplicePsbt.cfg`; three coins of which one is of any kind, two types of scripts, values around the
points where a plan for 10 000 satoshis changes, two fee rates, one coin taken by others, and the five kinds of
request: a channel, a sweep, two channels, PeerSwap with and without given coins, splice-ins).
`FundingTxHonest`: what is signed spends admitted coins, pays every output, and pays the fee rate for
the size it really has, within one change output. `SelectionEnds`: every selection loop ends.
`SpliceGoesThrough`: after `splice_init`, where nothing gives the coins back any more, a splice-in of a fixed
amount, or a sweep of one coin, does not fail by the operation's own arithmetic or validation.
`SignedKeepsPlan`: whatever was edited, the signed PSBT spends the selected coins and no other of the wallet,
pays the change of the plan, and loses at most CLN's fee once the channel is credited. While it is not, the
code sets no limit (`tx_builder.py:686-691`), and the property says nothing of the fee.

**reconcile_all** (`MCReconcileAll.cfg`; two records, two coins, batches of two peers: enough for a record to be in the
way of another, for a coin to be in two records, and for a release to be half done). `FreedSafely`: a coin
that recovery gave back is never spent by the transaction of its record, late calls included, unless that
has confirmed, or neither view showed it: it was evicted, or sent after Bitcoin was asked, and CLN did not list it.
That exception is real (hazard at `recovery.py:477`): the inputs do go back, and the transaction may return.
Nor does CLN come to hold back a transaction for such a coin, unless by a call that was still to be executed
when it was asked. `TokenKept`: no reservation outlives the record of its token.

**peerswap** (`MCPeerSwap.cfg`; one transaction of two coins, prepared, sent and discarded).
`NoOrphanRenewal`: no thread renews a reservation that nobody can release. `HeldForCallers`: while a
broadcast is in flight no discard, reclaiming or shutdown releases its inputs, as long as PeerSwap has hung
up on no call for it. The code looks only at the phase, which is PREPARED until the node has answered; what
keeps the releases away is that calls come one by one and that the shutdown waits for the workers. With a
hang-up it fails: see doc_peerswap_close, and `CleanupWaits` in section 5. `StopEnds`: a service that is told
to stop ends.

**peerswap_retry** (`MCPeerSwapRetry.cfg`; a repeated send, one failed write). `SendJournaled`: nothing is handed to
the node without a record; `OneSendAtATime`: two broadcasts of one transaction do not overlap. More than one
send and a liveness property do not go together: see `LoopNotStuck`.

**child_process** (`MCChildProcess.cfg`; a call, a hook, one notification and one request of the child).
`CallsSettle`: a call under way when the child exits or is stopped comes back. `HooksAnswered`: a hook is
answered without the child's doing. `FailedInitEndsChild`: a child that could not be initialised does not run
on. `NobodyForgotten`: a call that waits is registered, and somebody is still to come past it who will fail it. An answer
that is still in the pipe when the reader leaves is lost, and its call reported as failed (hazard at `plugin.py:458`). The hook and the call are each
other's concurrent request; more of them are more copies of the same thread.

**rendezvous** (`MCRendezvous.cfg`). One answer per intercepted call (`AnsweredOnce`), queue and waiters
consistent between lock sections (`QueueConsistent`), a watcher able to learn of a cancellation
(`CancelReachesClient`) and told at all (`WatcherHears`); a queued call settles (`QueuedSettles`).
`KeepsAnswers`: the plugin implements CallAnswers, so no answer and no verdict is ever taken back or
contradicted by what comes later, which the verdict at any one moment (`VerdictTrue`) does not say. The limit of two is
reached by the waiting workers (rendezvous.py:72); the limit of the requests
(line 104) would need a third request and is not reached in this run.

### Fairness

`OpenChannel!FairSpec`: weak fairness of the operation's own steps (CLN and the operator answer, or the
call raises) and of a renewal under way, which is local file I/O. `PeerSwap!FairSpec`: the event loop runs
what is ready, threads run, the node answers. `Rendezvous!FairSpec`: timers fire, and a thread that has left
the lock writes its answers; nothing is assumed of clients or of PeerSwap. `ChildProcess!ChildFairSpec`: the
bridge's threads run, its time limits expire and CLN answers; the child may leave everything unanswered.
`SplicePsbt!FairSpec`: the operation computes; nothing is assumed of CLN, the peer or other processes. No fairness is
assumed for crashes, interrupts, lapses or other users. Splices have no liveness property: the update loop
(`splice.py:528`) is unbounded and depends on the peer.

### Runs that find the code at odds with what it says

* **doc_splice_sweep**: the first coin of a sweep is validated as if all were there, so a sweep of several
  coins fails after `splice_init`, with the coins reserved (`splice.py:476-480`).
* **doc_multi_broadcast**: the statuses are iterated by key, a BROADCAST answer is not seen and the fundings
  are cancelled (`multi_open_channel.py:348`).
* **doc_peerswap_close**: cancelling the concurrent future of a send makes it count as settled, and the
  shutdown releases the inputs of the broadcast in flight (`peerswap.py:1132`, `1211-1213`).

## 4. What is proved

For every value of the constants within the named assumptions, which TLC evaluates in the runs
(`FaultsAssumption`, `InterruptAssumption`, `MaxPendingAssumption`,
`RequestsAssumption`, `ReportAssumption`, `CallsAssumption`, `PlanningAssumption`, the two `PeersAssumption`):

| Module | Theorems (the property each states) |
|---|---|
| OpenChannelProofs | `TypeCorrect`, `InvariantHolds`, `PromiseKept` (`KeepsPromise`), `IdRecorded` (`HandOffRecorded`), `NoLateCancel` (`CancelOnlyUnbroadcast`), `SuccessIsReal` (`SuccessMeansBroadcast`), `TransitionsAllowed` (`LifecycleLegal`), `InputsLeased` (`HandOffLeased`), `LeasesJournaled` (`LeaseJournaled`), `RecordDroppedClean` (`ResolvedClean`) |
| SpliceProofs, of a splice-in | `TypeCorrect`, `InvariantHolds`, `PromiseKept` (`KeepsPromise`), `IdRecorded` (`HandOffRecorded`), `InputsLeased` (`HandOffLeased`), `TransitionsAllowed` (`LifecycleLegal`), `LeasesJournaled` |
| SpliceProofs, of either operation | `SpliceInvariantHolds`, `SplicesKeepPromise` (`KeepsPromise`), `SpliceTransitionsAllowed` (`LifecycleLegal`), `SpliceInputsLeased` (`HandOffLeased`), `RecordedForRecovery` (`SpliceRecorded`), `DestinationPaid` (`PaysDestination`), `DroppedOnlyWhenSigned` (`DroppedWhenOver`) |
| MultiOpenChannelProofs | `TypeCorrect`, `InvariantHolds`, `PromiseKept`, `IdRecorded`, `ReadyWhenSent` (`SentWhenReady`), `TransitionsAllowed` (`LifecycleLegal`), `WithdrawnFirst` (`AllWithdrawnFirst`), `LeasesJournaled` (`LeaseJournaled` and `ResolvedClean`) |
| ReconcileAllProofs | `Invariance`, `FreedIsSafe` (`FreedSafely`), `TokensAreKept` (`TokenKept`) |
| PluginProofs, of the rendezvous | `Invariance`, `OneAnswerOnly` (`AnsweredOnce`), `WatchersHearTheTruth` (`VerdictTrue`), `AnswersKept` (`KeepsAnswers`), `QueuesConsistent` (`QueueConsistent`), `CancelIsFindable` (`CancelReachesClient`), `NoWatcherIsLost` (`WatcherOwed`) |
| PeerSwapProofs | `Invariance`, `TypeCorrect`, `RecordFirst` (`SendJournaled`), `OneBroadcast` (`OneSendAtATime`), `NothingOrphaned` (`NoOrphanRenewal`), `SendsKeepInputs` (`HeldForCallers`) |
| PluginProofs, of the child process | `ChildInvariance`, `NobodyIsForgotten` (`NobodyForgotten`), `FailedInitIsStopped` (`FailedInitStops`) |
| SplicePsbtProofs | `Invariance`, `TypesHold` (`TypeOK`), `FundingIsHonest` (`FundingTxHonest`), `SplicesGoThrough` (`SpliceGoesThrough`), `SignedSplicesKeepThePlan` (`SignedKeepsPlan`), `MarginCovers`, `RetriesAskForMore` (`RetryInv`), `SelectionsGrow` (`SelectionGrows`), `NoRepeatedSelection` (`NoSelectionTwice`) |

**The funding operations.** "A broadcast transaction's inputs are not released" is not inductive: a state
could be about to release. Each `IInv` adds, in named parts:
*Exclusive*: the lifetime lock is held by a live operation or by recovery, never both, and either has a
record. *ReleaseSafe*: `release_locks` is set, and recovery is releasing, only while CLN has nothing that
can be broadcast (`Harmless`; for a splice, no secured commitments); past the point of no return it is not
set; coins have been released only from the cleanup on. *Progress*: at each program point, what must already
have happened (signed before completing, the id on record before the hand-over). MultiOpenChannel adds *Loops*
(at every point the peers that are started, and those that hold the transaction, are the ones the loop has
passed) and *Withdrawing* (a withdrawal without errors has cancelled every peer it has visited).
One lemma for each group of actions shows that `IInv` is kept; FundingProofs states once what the shared
actions may do to the record, the lifecycle, the locks and the released coins. The promise then
follows step by step: the four steps of the abstract specification are CLN's acceptance of the signed
transaction, its broadcast, the cancellation (or CLN's forgetting) and the release of a coin, and everything
else stutters. `InputsLeased` rests on a further invariant, that a call which a renewal precedes still has
every lease: nothing gives one back in between, and `Lapse` is excluded by assumption. For several peers the
same holds of `sendpsbt` alone (`LeasedToSend`). `TransitionsAllowed` needs the phase at each program point (*Phased*),
for several peers also why a withdrawal began: after a failed start it makes no transition.
`WithdrawnFirst` has the premise that no interrupt surfaces in the loop of starts or in a withdrawal; without
it an interrupted loop of starts gives the inputs back while CLN has unsigned fundings (section 2).

**What is reserved is on record.** `LeaseJournaled` needs to know of three lists which one is ahead of which:
the wallet's reservations, the adapter's `held` and the tokens of the record. *Backed* says so at every program
point: what the wallet has reserved is held, or in hand between the three steps of a lock or an unlock; what is
held is on record; and the renewal thread, which writes the tokens it finds, is off while the adapter has not
got all of them, that is while coins are being locked and once `close()` is through. A failed write changes
none of this, since the token of a coin is written before the wallet reserves it. *Listed* adds, for
`ResolvedClean`, that `locked` names everything reserved unless a write or an unlock failed, and that a cleanup
that releases goes through all of it. *Accounted* is their conjunction with the two properties; FundingProofs
shows once that every shared step keeps it, with the operation's last phase as a parameter ("broadcast", or
"signed" for a splice), and the operations need only say that their own steps do not touch reservations.
These theorems assume `"own" \notin InterruptAt`: an exception raised inside `lock()`, after the wallet has
reserved the coin and before the adapter's list has it, loses the token at the next write. It takes a second
Ctrl-C in that instant (section 2), and is the one place the runs exclude as well.

**Splice-out.** A splice-out has no inputs in the wallet, and its invariant *OutInv* is about its record. *OutKept*
says what phase, record and `release_locks` each place of the update loop implies, *OutSigned* that SIGNED
is reached only for what CLN has signed, *OutPays* that wherever a PSBT can go on to `splice_signed` it has
been validated since it was last replaced. SpliceOut is instantiated in Splice, so lemma `OutShares` first
relates its copies of the shared steps to those of Funding.
*OutPhased* says which phase goes with which place, and that a splice-out never has an input to release, so the
promise about the inputs and the legal transitions are theorems of either operation. `DroppedOnlyWhenSigned` is an action property
over both operations; for a splice-in it needs in addition that `release_locks` is cleared for good at
STARTED (*InKept*).

**Recovery of several records.** `IInv` of ReconcileAll says of every record and coin where the release has
got to: the record a run looks at is one of the journal (*AtRecord*), the coins already given back of a record under
release are no longer leased for it (*HalfReleased*), what the dead operation left is consistent: a transaction
goes out only from the state CLN has it in, with its id on record (*LeftConsistently*), and a released coin
belongs to a transaction that is out of play, confirmed, or off the network with no call outstanding that
could still send it, but for what the two views cannot show (*ReleasedAbsent*). A record is put up for release only
after the queries established just this: Bitcoin was asked first, so that a transaction in the mempool then is not
among the exceptions, and a call that sends was possible only while every channel was held back.

**The rendezvous.** `IInv` is the shapes of the requests and writes (*Shapes*), *OneAnswer* (an answer on
its way, or given, is the only one of its request: whoever settles it does so in one lock section), and *Told*
(what a watcher is told agrees with the outcome of its request). *Queues* relates queues and requests: no
request is queued twice, exactly the queued ones are in the queue, and the queue or the list of waiters is
empty. The lemma on `Match` (`MatchQueues`) carries its proof: what
is assigned is exactly the head of the queue. *Reach* follows a request to its client: it is handed out
once, while it is assigned (*GivenOnce*); a watcher that waits is one that somebody is going to tell (*Watched*);
and an abandoned request that its client has stays to be found (*Findable*), also when the abandonment comes
between the assignment and its delivery, which the property itself does not speak of. *Watched* gives
`NoWatcherIsLost`, the safety part of `WatcherHears`: what is left of it is that the thread goes on.
`AnswersKept` maps each step to a step of CallAnswers or to none: an error is an answer alone, a result is written
and reported to the watcher in one step, and a verdict given on its own comes when *OneAnswer* and *Told* leave no
way for a result to follow.

**The PeerSwap service.** `IInv` says of each call what its place means for its record and its broadcast
(*Reached*), that from the journal to the end of its close a send has the lifetime lock until the service is
closed (*HoldsLock*), that only a send on its way to the journal blocks the loop (*LoopHeld*), and that the
preparing of a transaction precedes every phase and live adapter of it (*PreparedFirst*). Two lemmas carry
most of the proof: a step that is not one of a send leaves the sends as they are (*Aside*), and one after the
preparing opens no adapter and keeps a live one's transaction in the store (*Later*). The theorems hold for
any number of transactions and repeated sends, where the runs have one transaction. `SendsKeepInputs` adds
*FrontInv*, what the workers and connections know of the coroutines: an open call has a worker that waits for it, an answered one has a
coroutine that is done (*Attended*); of a transaction one call is open (*OneOpen*); a reclaiming follows a hang-up, and the
closing the last worker (*ReleasesLate*); a send that wants the journal has just renewed every input (*InputsHeld*).

**The child process.** `NobodyForgotten` is the safety part of `CallsSettle`: a call that waits is registered,
and the reader or a thread in `stop()` is still to come past the registered calls. It needs that a call is
registered before it is written (*Attended*), that a process taken away from a living child is being ended by
somebody (*TakenToEnd*), that otherwise the reader reads (*OutputRead*), and that no thread stops twice
(*NotYetStopping*). `FailedInitIsStopped` is the safety part of `FailedInitEndsChild`: the initialiser lets the
waiting calls go only after its own `stop()` (*StopInv*), which returns when the child is dead or another thread,
which was quicker, is killing it; that this thread goes on is fairness.

**The amounts.** The theorems of SplicePsbtProofs hold for any finite set of coins with any values, any list of
amounts and any fee rate, where the run has three coins and values around the interesting points.
`PlanningAssumption` says of them what the code checks before it plans: amounts are natural numbers, positive but
for the single zero of a sweep (`planner.py:76-82`, `multi_open_channel.py:68-69`, `peerswap.py:86-91`), a splice has
one amount, and only PeerSwap names its coins.

The amounts are sums over sets of coins and over the members of a transaction, and the fees are quotients. Of
sums, the proofs need that a sum is any one element plus the sum of the rest (`SumRemove`), and that renaming
the elements one to one changes nothing (`SumRenamed`), which carries the value of the selected coins over to
the inputs of the transaction and the amounts to its outputs; that is why outputs of equal value are told apart by
their number. The induction theorems of the library cannot be applied to these sums, as they take the predicate as
a parameter. Lemma `SubsetInduction` replaces them: the predicate is the set of the subsets that satisfy it, and a
minimal subset outside of it, which exists because strict inclusion is well-founded on the subsets of a finite
set, contradicts the induction step. `SumStep`, that the recursive function which defines the sum satisfies its own
equation, is proved from it as well: a function that satisfies the equation on the subsets of every smaller set
extends to one more element (`StepsExist`), and any two agree (`StepsAgree`). Of fees, `MarginCovers` compares CLN's,
by weight and rounded down, with the plan's, by size and rounded up.

`FundingTxHonest` and `SignedKeepsPlan` speak of the signed transaction only. `IInv` says how it comes about:
*SelectionInv*, that what is selected was approved when it was listed, all of it for a sweep and one coin for a splice-in
of a fixed amount; *PlanInv*, that a plan gets as far as the locks only if it is neither short nor dust;
*BuiltInv*, which transaction that plan becomes; *Exact*, that from `splice_init` on amount, CLN's fee and change
add up to the coins; *Baseline*, that while coins are added the only output of value for validation is the channel's;
*Agreed*, that what validation compares with is the approved plan, with the whole amount and the whole fee once the
last coin is in, whatever the coins contributed one by one. Every update is validated against it, which is all that is
known of the PSBT after CLN and the peer have changed it. `SpliceGoesThrough` is inductive by *PlanInv*, *Exact*
and the margin: the only coin of a PSBT cannot be refused, because its contribution is positive and the PSBT with it
not credited yet.

`SelectionEnds` itself is liveness. Its argument is proved: after a plan that failed, the target is above what the
refused coins are worth (`RetryInv`), so every selection is worth more than the last (`SelectionsGrow`), and there
are finitely many. It also shows that the guard of the four loops against selecting the same coins twice,
`previous_outpoints`, can not fire as long as JoinMarket returns what it was asked for.

Only model-checked: the liveness properties (`CallsSettle`, `HooksAnswered`, `FailedInitEndsChild`, `QueuedSettles`,
`WatcherHears`, `SelectionEnds`, `StopEnds`, `Terminates`), since liveness under fairness and `ENABLED` are
out of the prover's reach; of `CallsSettle`, `FailedInitEndsChild`, `WatcherHears` and
`SelectionEnds` the safety part is proved.

## 5. Statements of the repository that do not hold

Besides the runs above, these are defined in the modules and refuted by TLC with the constants of the runs
(replace the properties of the `.cfg` by the one named; unless another number is given, with no failed write).

| Statement | Module | What happens |
|---|---|---|
| `TokensRecorded` | MCOpenChannel (interrupts at `Awaits` only) | `recovery.py:501`; the renewal thread reads the owner tokens twice around an unlock (`joinmarket.py:98-112`), and after a crash reconciliation raises on the record each time |
| `LiveFundingKeepsInputs` | MCOpenChannel | `open_channel.py:351` never to unlock while the funding may exist; after a refused completion that is ABSENT the inputs are unlocked and the funding is not cancelled (471) |
| `RecoveryKeepsLiveFunding` | MCOpenChannel | README 550; with a recorded id, recovery asks only for that transaction and releases while CLN has the started funding |
| `PendingCallRecorded` | MCOpenChannel | the renewal thread overwrites the pending action of a running call (`recovery.py:127`) |
| `AmbiguousKeepsInputs` | MCOpenChannel | README 539; after the operation nobody renews, and the lease lapses while CLN withholds the transaction |
| `ReservationNotForgotten` | MCOpenChannel (one failed write) | README 1295; the write after a reservation fails, the coin is not unlocked and the record is dropped (`open_channel.py:272`) |
| `AmbiguousRecorded` | MCSplice | README 437; `splice_init` succeeds with an unreadable PSBT and the record is dropped (`splice.py:1005`; splice-in keeps it) |
| `SuccessIsBroadcast` | MCOpenChannel (`ReportsWithheld = FALSE`) | `open_channel.py:550-555`, a log line: "CLN confirms" the broadcast; a channel that does not show the withheld flag counts as BROADCAST (`cln.py:556-563`), so a `sendpsbt` that failed before it broadcast anything ends as a success (543) and the record is dropped |
| `CleanupWaits` | MCPeerSwap | `peerswap.py:444-446`, the broadcast is to finish before the cleanup; PeerSwap hangs up during a send and discards: the phase is PREPARED until the node has answered (660), and the inputs are released with the broadcast in flight |
| `SendUnlocks` | MCPeerSwap | README 913 (also 881 and 908), a successful broadcast releases the JoinMarket locks; `send()` keeps them until they expire, on purpose (`peerswap.py:467-472`) |
| `AmbiguousKept` | PeerSwap | README 913; after a broadcast call that failed without telling, the end of the service releases the inputs |
| `Reclaimed` | PeerSwap | `rendezvous.py:458`; an undelivered `txprepare` stays prepared when the worker is through before the watcher hears of it |
| `BroadcastLeased` | PeerSwap | `peerswap.py:411`; the lease may lapse while a send waits in `begin()` |
| `LoopNotStuck` | PeerSwap (`Txs = {t1, t2}`, `Requests <- PrepareAndSend`, `Spec`) | `peerswap.py:428`; a second send blocks the event loop in `begin()`, which the first needs to finish |
| `AssignedOwned` | Rendezvous (`Spec`) | `rendezvous.py:419-421`; a call is assigned to a waiter whose process has ended, its timer is cancelled and nobody answers it |

Two more follow from reading ReconcileAll's actions: a PeerSwap record whose release was interrupted has the
action "recovery_release", which `recovery.py:437` takes for an unfinished `txsend`, and is kept for ever (for
channels, `test_recovery.py:353` shows the second run going on); and a coin that was freed and then spent by a
stranger makes `_bitcoin_has_transaction` answer yes for its half-released record, which is kept as well.

## 6. Not modelled, and what is left

Not modelled: `cli.py`, `config.py`, `models.py` (arguments, settings, printing); the bytes of PSBTs and the
signatures in `tx_builder.py` and `psbt.py`; the parsing of CLN's answers and `_estimate_fees` in `cln.py`; the
comparison of manifests and the paths in `plugin.py`; the relay of other RPCs in `proxy.py`; the amounts of a
splice-out; connecting to the wallet and its addresses.

Left to do, in this order:

1. A composition of Rendezvous and PeerSwap: what a disconnect does end to end.
2. The amounts of a splice-out on top of SplicePsbt.
