-------------------------- MODULE MultiOpenChannel --------------------------
(***************************************************************************)
(* MultiOpenChannelOperation.execute (operations/multi_open_channel.py):   *)
(* one transaction funds a channel with each of several peers.  CLN starts *)
(* and completes them one by one, a single sendpsbt broadcasts them all,   *)
(* and giving up means cancelling every funding that was started.          *)
(***************************************************************************)
EXTENDS Funding

CONSTANTS
  Peers,            \* the destinations
  ReportsWithheld   \* whether listpeerchannels shows the withheld flag

ASSUME PeersAssumption == ReportsWithheld \in BOOLEAN

VARIABLES
  started,   \* peers whose fundchannel_start returned
  left,      \* peers the current loop has still to visit
  peer,      \* the peer of the call under way
  states,    \* what _get_funding_states() last answered
  why        \* the failure for which the fundings are being cancelled

peerVars == <<started, left, peer, states, why>>
vars == <<fundingVars, peerVars>>

NoPeer == "no peer"

Calls == {"start", "complete", "sendpsbt"}

Reasons == {"none", "start", "prep", "declined", "complete", "sendpsbt"}

Pcs == Calls \union Renewals \union Ended \union Locking \union CleaningUp
       \union {"prep", "confirm", "withdraw"}

\* The program points of the try block.
TryBlock == Locking \union {"prep", "confirm", "withdraw"} \union Calls \union Renewals

ASSUME InterruptAssumption == InterruptAt \subseteq TryBlock

ClnStates == {"none", "started", "withheld", "open"}

Init ==
  /\ FundingInit /\ cln = [p \in Peers |-> "none"]
  /\ started = {} /\ left = {} /\ peer = NoPeer
  /\ states = [p \in Peers |-> "unasked"] /\ why = "none"

----------------------------------------------------------------------------
(* The calls.  fundchannel_cancel is not journaled here.                   *)

CallPhase == CASE pc = "start" -> "locked" [] pc = "complete" -> "started"
               [] pc = "sendpsbt" -> "withheld"

\* renew_locks(), then the next loop over the peers begins.
RenewLoop ==
  /\ Renew
  /\ left' = CASE pc = "renew_start" -> Peers [] pc = "renew_complete" -> started
               [] OTHER -> {}
  /\ UNCHANGED <<started, peer, states, why>>

SetCln(p, state) == cln' = [cln EXCEPT ![p] = state]

AppliedTo(call, p) ==
  \/ call = "start" /\ cln[p] = "none" /\ SetCln(p, "started")
  \/ call = "complete" /\ cln[p] = "started" /\ SetCln(p, "withheld")

PeerRpc ==
  /\ pc \in {"start", "complete"} /\ stage = "rpc"
  /\ \E p \in left :
       /\ peer' = p
       /\ \/ AppliedTo(pc, p) /\ stage' \in {"after", "failed"}
          \/ UNCHANGED cln /\ stage' = "failed"
  /\ UNCHANGED <<resVars, recoveryVars, pc, cur, lc, wanted, locked, signed,
                 broadcast, faults, started, left, states, why>>

\* sendpsbt clears the withheld flag of every channel of the transaction.
SendRpc ==
  /\ pc = "sendpsbt" /\ stage = "rpc"
  /\ \/ /\ cln' = [p \in Peers |-> IF cln[p] = "withheld" THEN "open" ELSE cln[p]]
        /\ broadcast' = TRUE /\ stage' \in {"after", "failed"}
     \/ UNCHANGED extVars /\ stage' = "failed"
  /\ UNCHANGED <<resVars, recoveryVars, pc, cur, lc, wanted, locked, signed, faults,
                 peerVars>>

----------------------------------------------------------------------------
(* The outcomes.                                                           *)

\* _cancel_started_channels() for the peers given, then what the reason asks.
Withdraw(reason, peers) ==
  Goto("withdraw") /\ left' = peers /\ why' = reason

StartedOne ==
  /\ pc = "start" /\ stage = "ok"
  /\ started' = started \union {peer} /\ left' = left \ {peer}
  /\ IF left = {peer}
     THEN lc' = KeepLocks(Transition(lc, "started")) /\ Goto("prep")
     ELSE UNCHANGED lc /\ Goto("start")
  /\ peer' = NoPeer
  /\ UNCHANGED <<resVars, recoveryVars, cur, wanted, locked, signed, extVars, faults,
                 states, why>>

StartFailed ==
  /\ pc = "start" /\ stage = "failed"
  /\ Withdraw("start", started) /\ peer' = NoPeer
  /\ UNCHANGED <<resVars, recoveryVars, cur, lc, wanted, locked, signed, extVars,
                 faults, started, states>>

\* Build and sign the shared transaction; _get_raw_transaction() is awaited.
Prepare ==
  /\ pc = "prep"
  /\ \/ signed' = TRUE /\ Goto("confirm") /\ UNCHANGED <<left, why>>
     \/ UNCHANGED signed /\ Withdraw("prep", started)
  /\ UNCHANGED <<resVars, recoveryVars, cur, lc, wanted, locked, extVars, faults,
                 started, peer, states>>

Confirm ==
  /\ pc = "confirm"
  /\ \/ Goto("renew_complete") /\ UNCHANGED <<left, why>>
     \/ Withdraw("declined", started)
  /\ UNCHANGED <<resVars, recoveryVars, cur, lc, wanted, locked, signed, extVars,
                 faults, started, peer, states>>

MutCompletedOne ==    \* mutant: the loop ends one peer too early
  /\ pc = "complete" /\ stage = "ok"
  /\ left' = left \ {peer}
  /\ IF \E p \in Peers : left' \subseteq {p}
     THEN lc' = Transition(lc, "withheld") /\ Goto("renew_send")
     ELSE UNCHANGED lc /\ Goto("complete")
  /\ peer' = NoPeer
  /\ UNCHANGED <<resVars, recoveryVars, cur, wanted, locked, signed, extVars, faults,
                 started, states, why>>

CompletedOne ==
  /\ pc = "complete" /\ stage = "ok"
  /\ left' = left \ {peer}
  /\ IF left = {peer}
     THEN lc' = Transition(lc, "withheld") /\ Goto("renew_send")
     ELSE UNCHANGED lc /\ Goto("complete")
  /\ peer' = NoPeer
  /\ UNCHANGED <<resVars, recoveryVars, cur, wanted, locked, signed, extVars, faults,
                 started, states, why>>

(***************************************************************************)
(* get_channel_funding_status() of one peer, which may raise.  A channel   *)
(* of the transaction that does not show the withheld flag counts as       *)
(* broadcast (cln.py:559-563).                                             *)
(***************************************************************************)
StatusOfPeer(p) ==
  IF broadcast THEN {"BROADCAST", "ABSENT"}
  ELSE IF cln[p] = "withheld"
       THEN {IF ReportsWithheld THEN "WITHHELD" ELSE "BROADCAST"}
       ELSE {"ABSENT"}

\* The answers _get_funding_states() may get, one for each peer it asks.
Answers(peers) ==
  {f \in [peers -> FundingStatus \union {"error"}] :
     \A p \in peers : f[p] \in StatusOfPeer(p) \union {"error"}}

Ask(f) == states' = [p \in Peers |-> IF p \in DOMAIN f THEN f[p] ELSE "unasked"]

(***************************************************************************)
(* fundchannel_complete raised.  The test for BROADCAST iterates over the  *)
(* keys of the dict of states (multi_open_channel.py:347-350), so it is    *)
(* never true, and every funding is cancelled unless a query raised.       *)
(***************************************************************************)
MutCompleteFailed ==    \* mutant: only the funding of the failed peer is cancelled
  /\ pc = "complete" /\ stage = "failed"
  /\ \E f \in Answers(started) :
       /\ Ask(f)
       /\ IF \E p \in started : f[p] = "error"
          THEN lc' = CleanupFailed(lc) /\ Goto("cleanup") /\ UNCHANGED <<left, why>>
          ELSE UNCHANGED lc /\ Withdraw("complete", left)
  /\ peer' = NoPeer
  /\ UNCHANGED <<resVars, recoveryVars, cur, wanted, locked, signed, extVars, faults,
                 started>>

CompleteFailed ==
  /\ pc = "complete" /\ stage = "failed"
  /\ \E f \in Answers(started) :
       /\ Ask(f)
       /\ IF \E p \in started : f[p] = "error"
          THEN lc' = CleanupFailed(lc) /\ Goto("cleanup") /\ UNCHANGED <<left, why>>
          ELSE UNCHANGED lc /\ Withdraw("complete", started)
  /\ peer' = NoPeer
  /\ UNCHANGED <<resVars, recoveryVars, cur, wanted, locked, signed, extVars, faults,
                 started>>

\* sendpsbt raised: every channel must be WITHHELD to give anything up.
SendFailed ==
  /\ pc = "sendpsbt" /\ stage = "failed"
  /\ \E f \in Answers(started) :
       /\ Ask(f)
       /\ IF \A p \in started : f[p] = "WITHHELD"
          THEN UNCHANGED lc /\ Withdraw("sendpsbt", started)
          ELSE /\ lc' = IF \E p \in started : f[p] = "error" THEN CleanupFailed(lc) ELSE lc
               /\ Goto("cleanup") /\ UNCHANGED <<left, why>>
  /\ UNCHANGED <<resVars, recoveryVars, cur, wanted, locked, signed, extVars, faults,
                 started, peer>>

\* The returned txid matches, or the funding is left for recovery.
Sent ==
  /\ pc = "sendpsbt" /\ stage = "ok"
  /\ lc' \in {KeepLocks(Transition(lc, "broadcast")), lc}
  /\ Goto("cleanup")
  /\ UNCHANGED <<resVars, recoveryVars, cur, wanted, locked, signed, extVars, faults,
                 peerVars>>

(***************************************************************************)
(* _cancel_started_channels(): each cancel may raise, whether it was       *)
(* applied or not, and the loop goes on with the next peer.                *)
(***************************************************************************)
CancelOne ==
  /\ pc = "withdraw" /\ left # {}
  /\ \E p \in left :
       /\ \/ cln[p] \in {"started", "withheld"} /\ SetCln(p, "none")
             /\ lc' \in {lc, CleanupFailed(lc)}
          \/ UNCHANGED cln /\ lc' = CleanupFailed(lc)
       /\ left' = left \ {p}
  /\ UNCHANGED <<resVars, recoveryVars, pc, stage, cur, wanted, locked, signed,
                 broadcast, faults, started, peer, states, why>>

\* Inputs are put up for release only when every cancel went through, and never
\* after a failed start.
MutWithdrawn ==     \* mutant: the errors of the cancels are not looked at
  /\ pc = "withdraw" /\ left = {}
  /\ lc' = IF why = "start" THEN KeepLocks(lc)
           ELSE Transition(ReleaseLocks(lc), "locked")
  /\ Goto("cleanup")
  /\ UNCHANGED <<resVars, recoveryVars, cur, wanted, locked, signed, extVars, faults,
                 peerVars>>

Withdrawn ==
  /\ pc = "withdraw" /\ left = {}
  /\ lc' = IF why = "start" \/ lc.errors THEN KeepLocks(lc)
           ELSE Transition(ReleaseLocks(lc), "locked")
  /\ Goto("cleanup")
  /\ UNCHANGED <<resVars, recoveryVars, cur, wanted, locked, signed, extVars, faults,
                 peerVars>>

----------------------------------------------------------------------------
(* CLN and recovery.                                                       *)

FundingForgotten ==
  /\ \E p \in Peers : /\ cln[p] = "started" \/ (cln[p] = "withheld" /\ ~Live)
                      /\ SetCln(p, "none")
  /\ UNCHANGED <<resVars, recoveryVars, opVars, broadcast, faults, peerVars>>

\* _cln_status(): the worst of the peers' answers; without a transaction id any
\* in-flight funding of a peer counts.
Worst(answers) ==
  CASE "BROADCAST" \in answers -> "BROADCAST"
    [] "WITHHELD" \in answers /\ "BROADCAST" \notin answers -> "WITHHELD"
    [] OTHER -> "ABSENT"

CheckedStatus ==
  IF rec.txid
  THEN {Worst({f[p] : p \in Peers}) :
          f \in {g \in [Peers -> FundingStatus] : \A p \in Peers : g[p] \in StatusOfPeer(p)}}
  ELSE StartStatus

RecoverStep ==
  /\ \/ RecoverBegin
     \/ \E b \in BitcoinView, s \in CheckedStatus :
          RecoverDecides(b, s) \/ RecoverKeeps(b, s)
     \/ \E c \in Coins : RecoverReleases(c)
     \/ RecoverResolves
     \/ RecoverAborts
  /\ UNCHANGED <<opVars, extVars, faults, peerVars>>

----------------------------------------------------------------------------
SharedStep ==
  /\ \/ Begin \/ Plan \/ LockNext \/ Reserve \/ Own \/ Arm \/ CleanupStep
     \/ pc \in Calls /\ (CallBefore(CallPhase) \/ CallAfter(CallPhase))
  /\ UNCHANGED <<cln, broadcast, peerVars>>

OpStep ==
  \/ SharedStep \/ RenewLoop \/ PeerRpc \/ SendRpc
  \/ StartedOne \/ StartFailed \/ Prepare \/ Confirm \/ CompletedOne \/ CompleteFailed
  \/ SendFailed \/ Sent \/ CancelOne \/ Withdrawn

\* One renewal precedes each loop over the peers, so that only its first call
\* surely ends before the leases could lapse.
RenewedCalls == IF left = Peers THEN Calls ELSE {"sendpsbt"}

EnvironmentStep ==
  /\ Interrupt \/ Crash \/ RenewalWakes \/ RenewalSteps \/ Lapse(RenewedCalls) \/ Others
  /\ UNCHANGED peerVars

Next == OpStep \/ EnvironmentStep \/ FundingForgotten \/ RecoverStep

Spec == Init /\ [][Next]_vars

----------------------------------------------------------------------------
(* Properties.                                                             *)

Actions == Calls \union {"none", "reserve", "renew", "release", "recovery_release"}

\* Every variable keeps its type.
TypeOK ==
  /\ lease \in [Coins -> Holders]
  /\ held \in SUBSET Coins /\ released \in SUBSET Coins
  /\ rec \in Records(Coins, Phases \union {"none"}, Actions)
  /\ thr \in ThreadStates /\ todo \in SUBSET Coins /\ outs \in SUBSET Coins
  /\ flock \in LockHolders /\ rcv \in {"off", "check", "release"}
  /\ rtodo \in SUBSET Coins
  /\ pc \in Pcs /\ stage \in Stages
  /\ cur \in Coins \union {NoCoin} /\ (pc \in AtCoin => cur \in Coins)
  /\ lc \in Lifecycles
  /\ wanted \in SUBSET Coins /\ locked \in SUBSET Coins /\ signed \in BOOLEAN
  /\ cln \in [Peers -> ClnStates] /\ broadcast \in BOOLEAN
  /\ faults \in 0..MaxDiskFaults
  /\ started \in SUBSET Peers /\ left \in SUBSET Peers
  /\ peer \in Peers \union {NoPeer}
  /\ states \in [Peers -> FundingStatus \union {"unasked", "error"}]
  /\ why \in Reasons

\* The operation itself gives inputs back only when none of the fundings it
\* started is left at CLN.
AllWithdrawnFirst ==
  [][Live /\ released' # released => \A p \in Peers : cln[p] = "none"]_vars

\* As soon as one channel holds the signed transaction its id is durable, and
\* stays so until the broadcast is known.
HandOffRecorded ==
  ((\E p \in Peers : cln[p] \in {"withheld", "open"}) \/ broadcast)
    /\ lc.phase # "broadcast"
    => rec.present /\ rec.txid

\* The shared transaction is sent only when every peer has committed to it, since
\* a peer left out would lose the amount its output pays, and while every input
\* is still reserved, however long the loops took (the third renew_locks).
SentWhenReady ==
  [][~broadcast /\ broadcast' =>
       (\A p \in Peers : cln[p] = "withheld") /\ locked \subseteq Leased]_vars

\* No path through the loops and the withdrawals asks OperationLifecycle for a
\* transition it would refuse.
LifecycleLegal ==
  [][lc'.phase # lc.phase => lc'.phase \in AllowedTransitions[lc.phase]]_vars

(***************************************************************************)
(* The promise about the inputs, which also holds for recovery and in the  *)
(* middle of a failure: nothing is given back while even one channel holds *)
(* the signed transaction, whichever peers failed and whichever cancels    *)
(* went through.                                                           *)
(***************************************************************************)
Promise == INSTANCE InputPromise WITH
  funding <- IF broadcast THEN "sent"
             ELSE IF \E p \in Peers : cln[p] = "withheld" THEN "withheld" ELSE "none",
  back <- released # {}

KeepsPromise == Promise!Spec
=============================================================================
