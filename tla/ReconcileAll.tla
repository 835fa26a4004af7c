---------------------------- MODULE ReconcileAll ----------------------------
(***************************************************************************)
(* RecoveryManager.reconcile_all (recovery.py) over a journal with several *)
(* records, as killed operations left them.  Recovery describes the fate   *)
(* of one record next to its operation; here are the order of the records, *)
(* the PeerSwap branch, the two queries in turn, the releases one coin at  *)
(* a time, runs that are cut short at any point, and the calls of the dead *)
(* operations that Core Lightning or the node still executes.              *)
(***************************************************************************)
EXTENDS Naturals

CONSTANTS
  Coins,      \* wallet outpoints
  Peers,      \* peers a batch opens channels with
  Size        \* number of records in the journal

Ids == 1 .. Size

Nobody == 0
Other == Size + 1

VARIABLES
  journal,    \* the durable records, in the order of the file
  lease,      \* who holds the wallet's reservation of each coin
  calls,      \* the last call of each dead operation, if not executed yet
  withheld,   \* peers whose channel holds the operation's transaction back
  sent,       \* its transaction on the network
  strangers,  \* coins spent by transactions of other wallet users
  run,        \* where the recover process is
  current,    \* the record it is dealing with
  left,       \* coins of it still to be released
  unseen,     \* history: what there is of it and the queries did not show
  freed       \* history: records recovery has given coins of, with what was unseen

world == <<lease, calls, withheld, sent, strangers>>
process == <<run, current, left, unseen>>
vars == <<journal, world, process, freed>>

\* A channel funding is a batch of one peer.
Operations == {"batch", "splice", "peerswap"}

\* Where CLN may hold the transaction back.
PeersOf(op) == IF op = "batch" THEN Peers ELSE {"the peer"}

Live == {"mempool", "evicted"}

ASSUME PeersAssumption == Peers # {} /\ Size \in Nat

----------------------------------------------------------------------------
(***************************************************************************)
(* What a killed operation can leave: its record, and what CLN and the     *)
(* network have of its transaction.  Coins are recorded before they are    *)
(* reserved, and the transaction id before the transaction is handed over. *)
(* The renewal thread may leave an outpoint without a token.               *)
(***************************************************************************)
Gone == [op |-> "gone", action |-> "none", phase |-> "none", outs |-> {},
         tokens |-> {}, txid |-> FALSE]

FundingLeft ==
  {[rec |-> [op |-> op, action |-> "pending", phase |-> "any", outs |-> outs,
             tokens |-> tokens, txid |-> txid],
    call |-> call, withheld |-> peers, sent |-> s] :
     op \in {"batch", "splice"}, outs \in SUBSET Coins,
     tokens \in SUBSET Coins, txid \in BOOLEAN,
     call \in {"none", "commit", "send"}, peers \in UNION {SUBSET PeersOf(o) : o \in Operations},
     s \in {"no", "mempool", "evicted", "confirmed"}}

PossibleFunding(l) ==
  LET peers == PeersOf(l.rec.op)
  IN /\ l.withheld \subseteq peers
     /\ l.rec.tokens \subseteq l.rec.outs
     /\ l.rec.outs = {} => ~l.rec.txid
     /\ l.call = "commit" => l.withheld # peers /\ l.sent = "no" /\ l.rec.outs # {}
     /\ l.call = "send" => l.withheld = peers /\ l.sent = "no" /\ l.rec.txid
     /\ l.sent # "no" => l.withheld = {} /\ l.rec.txid
     /\ l.withheld # {} \/ l.call = "commit" =>
          l.rec.txid \/ (l.rec.op = "splice" /\ l.rec.outs # {})

PeerSwapLeft ==
  {[rec |-> [op |-> "peerswap", action |-> action, outs |-> outs, tokens |-> outs,
             phase |-> IF action = "txsend" THEN "prepared" ELSE "broadcast",
             txid |-> TRUE],
    call |-> call, withheld |-> {}, sent |-> s] :
     action \in {"txsend", "none"}, outs \in SUBSET Coins \ {{}},
     call \in {"none", "send"}, s \in {"no", "mempool", "evicted", "confirmed"}}

PossiblePeerSwap(l) ==
  /\ l.rec.action = "none" => l.sent # "no"
  /\ l.call = "send" => l.sent = "no"

LeftBehind ==
  {l \in FundingLeft : PossibleFunding(l)}
    \union {l \in PeerSwapLeft : PossiblePeerSwap(l)}

Init ==
  \E world0 \in [Ids -> LeftBehind] :
    /\ journal = [r \in Ids |-> world0[r].rec]
    /\ calls = [r \in Ids |-> world0[r].call]
    /\ withheld = [r \in Ids |-> world0[r].withheld]
    /\ sent = [r \in Ids |-> world0[r].sent]
    \* No two transactions that spend the same coin are on the network.
    /\ \A r, s \in Ids :
         r # s /\ sent[r] # "no" /\ sent[s] # "no" =>
           journal[r].outs \intersect journal[s].outs = {}
    /\ lease \in [Coins -> Ids \union {Nobody, Other}]
    /\ \A c \in Coins : lease[c] \in Ids => c \in journal[lease[c]].outs
    /\ strangers = {}
    /\ run = "off" /\ current = Nobody /\ left = {}
    /\ unseen = {} /\ freed = {}

----------------------------------------------------------------------------
(***************************************************************************)
(* The world meanwhile.                                                    *)
(***************************************************************************)
OnNetwork(c) == \E r \in Ids : sent[r] # "no" /\ c \in journal[r].outs

\* The last call of a dead operation is executed after all.
Lands(r) ==
  \/ /\ calls[r] = "commit"
     /\ withheld' = [withheld EXCEPT ![r] = PeersOf(journal[r].op)]
     /\ calls' = [calls EXCEPT ![r] = "none"]
     /\ UNCHANGED <<journal, lease, sent, strangers, process, freed>>
  \/ /\ calls[r] = "send"
     /\ ~\E c \in journal[r].outs : c \in strangers \/ OnNetwork(c)
     /\ sent' = [sent EXCEPT ![r] = "mempool"]
     /\ withheld' = [withheld EXCEPT ![r] = {}]
     /\ calls' = [calls EXCEPT ![r] = "none"]
     /\ UNCHANGED <<journal, lease, strangers, process, freed>>

\* The operator cancels a withheld channel that nothing is about to send.
Cancelled(r, p) ==
  /\ calls[r] = "none" /\ p \in withheld[r]
  /\ withheld' = [withheld EXCEPT ![r] = @ \ {p}]
  /\ UNCHANGED <<journal, lease, calls, sent, strangers, process, freed>>

Confirms(r) ==
  /\ sent[r] \in Live /\ sent' = [sent EXCEPT ![r] = "confirmed"]
  /\ UNCHANGED <<journal, lease, calls, withheld, strangers, process, freed>>

Evicted(r) ==
  /\ sent[r] = "mempool" /\ sent' = [sent EXCEPT ![r] = "evicted"]
  /\ UNCHANGED <<journal, lease, calls, withheld, strangers, process, freed>>

Lapses(c) ==
  /\ lease[c] \in Ids /\ lease' = [lease EXCEPT ![c] = Nobody]
  /\ UNCHANGED <<journal, calls, withheld, sent, strangers, process, freed>>

Reserved(c) ==
  /\ lease[c] = Nobody /\ lease' = [lease EXCEPT ![c] = Other]
  /\ UNCHANGED <<journal, calls, withheld, sent, strangers, process, freed>>

Spent(c) ==
  /\ lease[c] = Other /\ ~OnNetwork(c) /\ strangers' = strangers \union {c}
  /\ UNCHANGED <<journal, lease, calls, withheld, sent, process, freed>>

World ==
  \/ \E r \in Ids : Lands(r) \/ Confirms(r) \/ Evicted(r)
                    \/ \E p \in withheld[r] : Cancelled(r, p)
  \/ \E c \in Coins : Lapses(c) \/ Reserved(c) \/ Spent(c)

----------------------------------------------------------------------------
(***************************************************************************)
(* What recovery can learn.                                                *)
(***************************************************************************)
\* _bitcoin_has_transaction(): the transaction, or a spender of a recorded
\* input, or neither.  A transaction out of the mempool is not seen, a
\* confirmed one not always; and the backend may fail to say.
BitcoinAnswers(r) ==
  LET inMempool ==
        \E c \in journal[r].outs :
          c \in strangers \/ \E s \in Ids : sent[s] = "mempool" /\ c \in journal[s].outs
  IN {"unknown"} \union (IF inMempool \/ sent[r] = "mempool" THEN {"yes"} ELSE {"no"})
       \union (IF sent[r] = "confirmed" THEN {"yes"} ELSE {})

\* _bitcoin_transaction_confirmed()
Confirmations(r) ==
  {"unknown"} \union (IF sent[r] = "confirmed" THEN {"yes"}
                      ELSE IF sent[r] = "mempool" THEN {"no"} ELSE {})

(***************************************************************************)
(* get_channel_funding_status() for one peer.  A transaction that was sent *)
(* may be an inflight, or not be listed (cln.py:582-602), evicted or not,  *)
(* and a channel of the transaction that does not show the withheld flag   *)
(* counts as broadcast (556-563).  Without a transaction id any inflight   *)
(* of the peer, or of the channel, counts.                                 *)
(***************************************************************************)
PeerAnswers(r, p) ==
  IF journal[r].txid
  THEN IF sent[r] # "no" THEN {"BROADCAST", "WITHHELD", "ABSENT"}
       ELSE IF p \in withheld[r] THEN {"WITHHELD", "BROADCAST"} ELSE {"ABSENT"}
  ELSE IF p \in withheld[r] THEN {"WITHHELD"} ELSE {"ABSENT", "WITHHELD"}

\* _cln_status(): one broadcast counts for all, then one withheld channel.
ClnAnswers(r) ==
  LET peers == PeersOf(journal[r].op)
      Of(said) ==
        IF \E p \in peers : said[p] = "BROADCAST" THEN "BROADCAST"
        ELSE IF \E p \in peers : said[p] = "WITHHELD" THEN "WITHHELD" ELSE "ABSENT"
  IN {Of(said) : said \in {f \in [peers -> {"BROADCAST", "WITHHELD", "ABSENT"}] :
                             \A p \in peers : f[p] \in PeerAnswers(r, p)}}

----------------------------------------------------------------------------
(***************************************************************************)
(* The recover process.                                                    *)
(***************************************************************************)
record == journal[current]

\* The record after number n, in the order of the file.
Following(n) ==
  {r \in Ids : /\ r > n /\ journal[r] # Gone
               /\ \A s \in n + 1 .. r - 1 : journal[s] = Gone}

\* Deal with the record after number n, or be done.
GoOn(n) ==
  /\ left' = {} /\ unseen' = {}
  /\ \/ current' \in Following(n) /\ run' = "record"
     \/ Following(n) = {} /\ current' = Nobody /\ run' = "off"

Advance == GoOn(current)

Halt == run' = "off" /\ current' = Nobody /\ left' = {} /\ unseen' = {}

Begin ==
  /\ run = "off" /\ Following(Nobody) # {} /\ GoOn(Nobody)
  /\ UNCHANGED <<journal, world, freed>>

TokensComplete == record.tokens = record.outs

Release == run' = "release" /\ left' = record.tokens /\ UNCHANGED current

\* The PeerSwap branch: nothing but a broadcast known to have returned, and seen
\* confirmed, is released.
PeerSwapRecord ==
  /\ run = "record" /\ record.op = "peerswap"
  /\ LET observed == record.action = "none" /\ record.phase = "broadcast" /\ record.txid
     IN \E confirmed \in Confirmations(current) :
          IF observed /\ confirmed = "yes"
          THEN TokensComplete /\ Release /\ unseen' = {} ELSE Advance
  /\ UNCHANGED <<journal, world, freed>>

\* Bitcoin does not show a transaction that is not in the mempool now.
LookAtCln ==
  /\ run' = "cln" /\ UNCHANGED <<current, left>>
  /\ unseen' = IF sent[current] = "mempool" THEN {} ELSE {"transaction"}

\* The others: a recorded transaction is looked up first.
AskBitcoin ==
  /\ run = "record" /\ record.op # "peerswap"
  /\ IF record.txid
     THEN \E b \in BitcoinAnswers(current) :
            IF b = "no" THEN LookAtCln ELSE Advance
     ELSE LookAtCln
  /\ UNCHANGED <<journal, world, freed>>

MutSafe(status) == status # "BROADCAST"   \* mutant: withheld is taken for absent

Safe(status) == status = "ABSENT"

\* Absent to both views, though there is a transaction, or a call that is still
\* to be executed.
StillUnseen ==
  (IF sent[current] \in Live THEN unseen ELSE {})
    \union (IF calls[current] = "commit" THEN {"commit"} ELSE {})

AskCln ==
  /\ run = "cln"
  /\ \E status \in ClnAnswers(current) :
       IF Safe(status)
       THEN TokensComplete /\ Release /\ unseen' = StillUnseen
       ELSE Advance
  /\ UNCHANGED <<journal, world, freed>>

\* Journaled with every token of the record, whichever are released already.
MutJournalRelease(c) ==   \* mutant: only with the token to be released
  [journal EXCEPT ![current].action = "recovery_release", ![current].tokens = {c}]

JournalRelease(c) ==
  [journal EXCEPT ![current].action = "recovery_release"]

ReleaseOne(c) ==
  /\ run = "release" /\ c \in left
  /\ journal' = JournalRelease(c)
  /\ left' = left \ {c}
  /\ lease' = IF lease[c] = current THEN [lease EXCEPT ![c] = Nobody] ELSE lease
  /\ freed' = IF lease[c] = current
              THEN freed \union {[rec |-> current, unseen |-> unseen]} ELSE freed
  /\ UNCHANGED <<calls, withheld, sent, strangers, run, current, unseen>>

\* The record is journaled, and the wallet refuses.
ReleaseFails(c) ==
  /\ run = "release" /\ c \in left
  /\ journal' = JournalRelease(c)
  /\ Halt
  /\ UNCHANGED <<world, freed>>

Resolve ==
  /\ run = "release" /\ left = {}
  /\ journal' = [journal EXCEPT ![current] = Gone] /\ Advance
  /\ UNCHANGED <<world, freed>>

\* A query, a token check or the journal raises, or the process dies: the later
\* records are not looked at in this run.
Abort ==
  /\ run # "off"
  /\ Halt
  /\ UNCHANGED <<journal, world, freed>>

Recover ==
  \/ Begin \/ PeerSwapRecord \/ AskBitcoin \/ AskCln
  \/ \E c \in left : ReleaseOne(c) \/ ReleaseFails(c)
  \/ Resolve \/ Abort

Next == World \/ Recover

Spec == Init /\ [][Next]_vars

----------------------------------------------------------------------------
(***************************************************************************)
(* Properties.                                                             *)
(***************************************************************************)
TypeOK ==
  /\ journal \in [Ids -> [op : Operations \union {"gone"},
                          action : {"none", "pending", "txsend", "recovery_release"},
                          phase : {"none", "any", "prepared", "broadcast"},
                          outs : SUBSET Coins, tokens : SUBSET Coins, txid : BOOLEAN]]
  /\ lease \in [Coins -> Ids \union {Nobody, Other}]
  /\ calls \in [Ids -> {"none", "commit", "send"}]
  /\ withheld \in [Ids -> SUBSET (Peers \union {"the peer"})]
  /\ sent \in [Ids -> Live \union {"no", "confirmed"}]
  /\ strangers \subseteq Coins
  /\ run \in {"off", "record", "cln", "release"}
  /\ current \in Ids \union {Nobody} /\ left \subseteq Coins
  /\ unseen \subseteq {"transaction", "commit"}
  /\ freed \subseteq [rec : Ids, unseen : SUBSET {"transaction", "commit"}]

(***************************************************************************)
(* A coin that recovery gave back is not spent by the transaction of its   *)
(* record, now or later, unless that has confirmed (recovery.py:469-499).  *)
(* The one exception is a transaction that neither view showed: evicted,   *)
(* or sent only after Bitcoin was asked, and not listed by CLN.  Nor does  *)
(* CLN come to hold one back for the coin, unless the call that makes it   *)
(* do so was still to be executed when recovery asked.                     *)
(***************************************************************************)
FreedSafely ==
  \A f \in freed :
    /\ "transaction" \notin f.unseen => sent[f.rec] \in {"no", "confirmed"}
    /\ f.unseen = {} => withheld[f.rec] = {}

\* A reservation whose token the journal holds does not outlive the token: in no
\* run, however it is cut short, does recovery drop the record or the token of a
\* coin the wallet still reserves for it (recovery.py:443-466 and 508-525).
TokenKept ==
  [][\A r \in Ids, c \in Coins :
       c \in journal[r].tokens /\ lease'[c] = r => c \in journal'[r].tokens]_vars
=============================================================================
