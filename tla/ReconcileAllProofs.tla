------------------------- MODULE ReconcileAllProofs -------------------------
(***************************************************************************)
(* Theorems about ReconcileAll, for every number of records, every set of  *)
(* coins and every non-empty set of peers of a batch.                      *)
(***************************************************************************)
EXTENDS ReconcileAll, TLAPS

Records ==
  [op : Operations \union {"gone"},
   action : {"none", "pending", "txsend", "recovery_release"},
   phase : {"none", "any", "prepared", "broadcast"},
   outs : SUBSET Coins, tokens : SUBSET Coins, txid : BOOLEAN]

(***************************************************************************)
(* The inductive invariant.                                                *)
(***************************************************************************)
\* While the process runs it is at a record that exists, and it asks CLN only
\* about those that are not of PeerSwap, and whose transaction was not in the
\* mempool.
AtRecord ==
  run # "off" =>
    /\ current \in Ids /\ record.op # "gone"
    /\ run = "cln" => record.op # "peerswap" /\ unseen = {"transaction"}

\* Of the record being released, the coins not in `left` are released.
HalfReleased ==
  run = "release" =>
    left \subseteq record.tokens /\ \A c \in record.tokens \ left : lease[c] # current

\* What a killed operation leaves: its transaction goes out only from the state
\* CLN has it in, and only with its id on record, and after that CLN holds
\* nothing back.
LeftConsistently ==
  \A r \in Ids :
    LET op == journal[r].op
    IN /\ op = "gone" => journal[r] = Gone
       /\ sent[r] # "no" => calls[r] = "none" /\ withheld[r] = {}
       /\ op \in {"batch", "splice"} =>
            /\ withheld[r] \subseteq PeersOf(op)
            /\ calls[r] = "send" => withheld[r] = PeersOf(op)
            /\ calls[r] = "send" \/ sent[r] # "no" => journal[r].txid

\* The transaction is not on the network and nothing will put it there, or it
\* is there for good.
OutOfPlay(r) == sent[r] = "confirmed" \/ (sent[r] = "no" /\ calls[r] # "send")

\* CLN holds nothing back, and nothing will make it.
NothingHeld(r) == withheld[r] = {} /\ calls[r] = "none"

\* What was absent to both views is, but for what they cannot show.
Absent(r, hidden) ==
  /\ "transaction" \notin hidden => OutOfPlay(r)
  /\ hidden = {} => NothingHeld(r)

\* What is being released, or has been, was absent.
ReleasedAbsent ==
  /\ run = "release" => Absent(current, unseen)
  /\ \A f \in freed : Absent(f.rec, f.unseen)

IInv ==
  TypeOK /\ AtRecord /\ HalfReleased /\ LeftConsistently /\ ReleasedAbsent

----------------------------------------------------------------------------
(***************************************************************************)
(* The next record, if any, is one of the journal that is not gone.        *)
(***************************************************************************)
LEMMA FollowingExists ==
  \A n : \A r \in Following(n) : r \in Ids /\ journal[r] # Gone
  BY DEF Following

LEMMA GoOnKeeps ==
  ASSUME IInv, NEW n, GoOn(n)
  PROVE  /\ left' = {} /\ unseen' = {} /\ run' \in {"off", "record"}
         /\ current' \in Ids \union {Nobody}
         /\ run' = "record" => current' \in Ids /\ journal[current'] # Gone
  BY FollowingExists DEF GoOn

LEMMA GoneTypes == Gone \in Records
  BY DEF Gone, Records, Operations

LEMMA IdsAreNumbers == Ids \subseteq Nat /\ Nobody \notin Ids /\ Other \notin Ids
  BY PeersAssumption DEF Ids, Nobody, Other

(***************************************************************************)
(* How a killed operation can leave things.                                *)
(***************************************************************************)
LEMMA LeftTypes ==
  ASSUME NEW l \in LeftBehind
  PROVE  /\ l.rec \in Records /\ l.rec.op # "gone"
         /\ l.call \in {"none", "commit", "send"}
         /\ l.withheld \in SUBSET (Peers \union {"the peer"})
         /\ l.sent \in Live \union {"no", "confirmed"}
         /\ l.sent # "no" => l.call = "none" /\ l.withheld = {}
         /\ l.rec.op \in {"batch", "splice"} =>
              /\ l.withheld \subseteq PeersOf(l.rec.op)
              /\ l.call = "send" => l.withheld = PeersOf(l.rec.op)
              /\ l.call = "send" \/ l.sent # "no" => l.rec.txid
<1>1. CASE l \in FundingLeft /\ PossibleFunding(l)
  <2>1. PICK op \in {"batch", "splice"}, outs \in SUBSET Coins,
             tokens \in SUBSET Coins, txid \in BOOLEAN,
             call \in {"none", "commit", "send"},
             peers \in UNION {SUBSET PeersOf(o) : o \in Operations},
             s \in {"no", "mempool", "evicted", "confirmed"} :
               l = [rec |-> [op |-> op, action |-> "pending", phase |-> "any",
                             outs |-> outs, tokens |-> tokens, txid |-> txid],
                    call |-> call, withheld |-> peers, sent |-> s]
    BY <1>1 DEF FundingLeft
  <2>2. peers \subseteq Peers \union {"the peer"}
    BY DEF PeersOf
  <2> QED
    BY <1>1, <2>1, <2>2 DEF PossibleFunding, Records, Operations, Live
<1>2. CASE l \in PeerSwapLeft /\ PossiblePeerSwap(l)
  <2>1. PICK action \in {"txsend", "none"}, outs \in SUBSET Coins \ {{}},
             call \in {"none", "send"}, s \in {"no", "mempool", "evicted", "confirmed"} :
               l = [rec |-> [op |-> "peerswap", action |-> action, outs |-> outs,
                             tokens |-> outs,
                             phase |-> IF action = "txsend" THEN "prepared" ELSE "broadcast",
                             txid |-> TRUE],
                    call |-> call, withheld |-> {}, sent |-> s]
    BY <1>2 DEF PeerSwapLeft
  <2> QED
    BY <1>2, <2>1 DEF Records, Operations, Live, PossiblePeerSwap
<1> QED
  BY <1>1, <1>2 DEF LeftBehind

LEMMA Initially == Init => IInv
<1> SUFFICES ASSUME Init PROVE IInv
  OBVIOUS
<1>1. PICK world0 \in [Ids -> LeftBehind] :
        /\ journal = [r \in Ids |-> world0[r].rec]
        /\ calls = [r \in Ids |-> world0[r].call]
        /\ withheld = [r \in Ids |-> world0[r].withheld]
        /\ sent = [r \in Ids |-> world0[r].sent]
        /\ lease \in [Coins -> Ids \union {Nobody, Other}]
        /\ strangers = {} /\ run = "off" /\ current = Nobody /\ left = {}
        /\ unseen = {} /\ freed = {}
  BY DEF Init
<1>2. \A r \in Ids : world0[r] \in LeftBehind
  BY <1>1
<1>3. TypeOK
  BY <1>1, <1>2, LeftTypes DEF TypeOK, Records
<1>4. LeftConsistently
  BY <1>1, <1>2, LeftTypes DEF LeftConsistently
<1> QED
  BY <1>1, <1>3, <1>4 DEF IInv, AtRecord, HalfReleased, ReleasedAbsent

----------------------------------------------------------------------------
(***************************************************************************)
(* What happens to the transactions meanwhile: one that is out of play     *)
(* stays out of play, and CLN does not come to hold one back again.        *)
(***************************************************************************)
LEMMA StaysAbsent ==
  ASSUME IInv, World, NEW r \in Ids, NEW hidden, Absent(r, hidden)
  PROVE  /\ "transaction" \notin hidden => OutOfPlay(r)'
         /\ hidden = {} => NothingHeld(r)'
<1> USE DEF OutOfPlay, NothingHeld, Absent
<1> DEFINE Goal == /\ "transaction" \notin hidden => OutOfPlay(r)'
                   /\ hidden = {} => NothingHeld(r)'
<1>1. ASSUME NEW s \in Ids, Lands(s) PROVE Goal
  <2>1. calls[s] # "none" => sent[s] = "no"
    BY DEF IInv, LeftConsistently
  <2>2. calls[s] # "none" /\ calls'[s] = "none" /\ (s # r => withheld'[r] = withheld[r])
    BY <1>1 DEF Lands, IInv, TypeOK
  <2>3. s # r => sent'[r] = sent[r] /\ calls'[r] = calls[r]
    BY <1>1 DEF Lands, IInv, TypeOK
  <2>4. calls[s] = "commit" => sent' = sent
    BY <1>1 DEF Lands
  <2> QED
    BY <1>1, <2>1, <2>2, <2>3, <2>4 DEF Lands
<1>2. ASSUME NEW s \in Ids, Confirms(s) PROVE Goal
  BY <1>2 DEF Confirms, IInv, TypeOK, Live
<1>3. ASSUME NEW s \in Ids, Evicted(s) PROVE Goal
  BY <1>3 DEF Evicted, IInv, TypeOK
<1>4. ASSUME NEW s \in Ids, NEW p \in withheld[s], Cancelled(s, p) PROVE Goal
  BY <1>4 DEF Cancelled, IInv, TypeOK
<1>5. ASSUME NEW c \in Coins, Lapses(c) \/ Reserved(c) \/ Spent(c) PROVE Goal
  BY <1>5 DEF Lapses, Reserved, Spent
<1> QED
  BY <1>1, <1>2, <1>3, <1>4, <1>5 DEF World

LEMMA PeersTypes == \A op : PeersOf(op) \in SUBSET (Peers \union {"the peer"})
  BY DEF PeersOf

LEMMA WorldTypes == IInv /\ World => TypeOK'
<1> SUFFICES ASSUME IInv, World PROVE TypeOK'
  OBVIOUS
<1>1. ASSUME NEW r \in Ids, Lands(r) PROVE TypeOK'
  <2>1. PeersOf(journal[r].op) \in SUBSET (Peers \union {"the peer"})
    BY PeersTypes
  <2>2. /\ withheld \in [Ids -> SUBSET (Peers \union {"the peer"})]
        /\ calls \in [Ids -> {"none", "commit", "send"}]
        /\ sent \in [Ids -> Live \union {"no", "confirmed"}]
    BY DEF IInv, TypeOK
  <2>3. /\ withheld' \in [Ids -> SUBSET (Peers \union {"the peer"})]
        /\ calls' \in [Ids -> {"none", "commit", "send"}]
    BY <1>1, <2>1, <2>2 DEF Lands
  <2>4. sent' \in [Ids -> Live \union {"no", "confirmed"}]
    BY <1>1, <2>2 DEF Lands, Live
  <2>5. UNCHANGED <<journal, lease, strangers, run, current, left, unseen, freed>>
    BY <1>1 DEF Lands, process
  <2> QED
    BY <2>3, <2>4, <2>5 DEF IInv, TypeOK
<1>2. ASSUME NEW r \in Ids, Confirms(r) \/ Evicted(r) PROVE TypeOK'
  BY <1>2 DEF Confirms, Evicted, IInv, TypeOK, process, Live
<1>3. ASSUME NEW r \in Ids, NEW p \in withheld[r], Cancelled(r, p) PROVE TypeOK'
  BY <1>3 DEF Cancelled, IInv, TypeOK, process
<1>4. ASSUME NEW c \in Coins, Lapses(c) \/ Reserved(c) \/ Spent(c) PROVE TypeOK'
  BY <1>4 DEF Lapses, Reserved, Spent, IInv, TypeOK, process
<1> QED
  BY <1>1, <1>2, <1>3, <1>4 DEF World

LEMMA WorldConsistently == IInv /\ World => LeftConsistently'
<1> SUFFICES ASSUME IInv, World PROVE LeftConsistently'
  OBVIOUS
<1>1. ASSUME NEW r \in Ids, Lands(r) PROVE LeftConsistently'
  <2>1. journal' = journal /\ calls' = [calls EXCEPT ![r] = "none"]
    BY <1>1 DEF Lands
  <2>2. \A s \in Ids \ {r} :
          calls'[s] = calls[s] /\ sent'[s] = sent[s] /\ withheld'[s] = withheld[s]
    BY <1>1 DEF Lands, IInv, TypeOK
  <2>3. calls'[r] = "none"
    BY <2>1 DEF IInv, TypeOK
  <2>4. /\ sent'[r] # "no" => calls[r] = "send" /\ withheld'[r] = {}
        /\ withheld'[r] = {} \/ withheld'[r] = PeersOf(journal[r].op)
    <3>1. calls[r] # "none" => sent[r] = "no"
      BY DEF IInv, LeftConsistently
    <3>2. \/ /\ withheld'[r] = PeersOf(journal[r].op) /\ sent' = sent
             /\ calls[r] = "commit"
          \/ withheld'[r] = {} /\ calls[r] = "send"
      BY <1>1 DEF Lands, IInv, TypeOK
    <3> QED
      BY <3>1, <3>2
  <2>5. ASSUME NEW s \in Ids \ {r} PROVE LeftConsistently!(s)'
    BY <2>1, <2>2 DEF IInv, LeftConsistently
  <2>6. LeftConsistently!(r)'
    BY <2>1, <2>3, <2>4 DEF IInv, LeftConsistently
  <2> QED
    BY <2>5, <2>6 DEF LeftConsistently
<1>2. ASSUME NEW r \in Ids, Confirms(r) \/ Evicted(r) PROVE LeftConsistently'
  BY <1>2 DEF Confirms, Evicted, IInv, TypeOK, LeftConsistently, Live
<1>3. ASSUME NEW r \in Ids, NEW p \in withheld[r], Cancelled(r, p) PROVE LeftConsistently'
  <2>1. UNCHANGED <<journal, calls, sent>> /\ sent[r] = "no" /\ calls[r] = "none"
    BY <1>3 DEF Cancelled, IInv, LeftConsistently
  <2>2. \A s \in Ids : withheld'[s] \subseteq withheld[s] /\ (s # r => withheld'[s] = withheld[s])
    BY <1>3 DEF Cancelled, IInv, TypeOK
  <2> QED
    BY <2>1, <2>2 DEF IInv, LeftConsistently
<1>4. ASSUME NEW c \in Coins, Lapses(c) \/ Reserved(c) \/ Spent(c) PROVE LeftConsistently'
  BY <1>4 DEF Lapses, Reserved, Spent, IInv, LeftConsistently
<1> QED
  BY <1>1, <1>2, <1>3, <1>4 DEF World

LEMMA WorldSteps == IInv /\ World => IInv'
<1> SUFFICES ASSUME IInv, World PROVE IInv'
  OBVIOUS
<1>1. UNCHANGED <<journal, process, freed>>
  BY DEF World, Lands, Confirms, Evicted, Cancelled, Lapses, Reserved, Spent
<1>2. AtRecord'
  BY <1>1 DEF IInv, AtRecord, record, process
<1>3. \A c \in Coins : lease'[c] = lease[c] \/ lease'[c] \in {Nobody, Other}
  BY DEF World, Lands, Confirms, Evicted, Cancelled, Lapses, Reserved, Spent, IInv, TypeOK
<1>4. HalfReleased'
  <2> SUFFICES ASSUME run' = "release" PROVE HalfReleased'
    BY DEF HalfReleased
  <2>1. run = "release" /\ current \in Ids /\ record' = record
    BY <1>1 DEF process, record, IInv, AtRecord
  <2>2. record.tokens \subseteq Coins
    BY <2>1 DEF record, IInv, TypeOK
  <2> QED
    BY <1>1, <1>3, <2>1, <2>2, IdsAreNumbers DEF process, IInv, HalfReleased
<1>5. ReleasedAbsent'
  <2> USE DEF Absent, OutOfPlay, NothingHeld
  <2>1. run' = "release" => Absent(current, unseen)'
    <3> SUFFICES ASSUME run' = "release" PROVE Absent(current, unseen)'
      OBVIOUS
    <3>1. run = "release" /\ current \in Ids /\ current' = current /\ unseen' = unseen
      BY <1>1 DEF process, IInv, AtRecord
    <3> QED
      BY <3>1, StaysAbsent DEF IInv, ReleasedAbsent
  <2>2. ASSUME NEW f \in freed PROVE Absent(f.rec, f.unseen)'
    <3>1. f.rec \in Ids /\ Absent(f.rec, f.unseen)
      BY DEF IInv, TypeOK, ReleasedAbsent
    <3> QED
      BY <3>1, StaysAbsent
  <2> QED
    BY <1>1, <2>1, <2>2 DEF ReleasedAbsent
<1> QED
  BY WorldTypes, WorldConsistently, <1>2, <1>4, <1>5 DEF IInv

----------------------------------------------------------------------------
(***************************************************************************)
(* Going on to another record, or ending, keeps the invariant.             *)
(***************************************************************************)
LEMMA MovingOn ==
  ASSUME IInv, UNCHANGED <<journal, world, freed>>,
         left' = {}, unseen' = {},
         \/ run' = "off" /\ current' = Nobody
         \/ run' = "record" /\ current' \in Ids /\ journal[current'] # Gone
  PROVE  IInv'
<1>1. TypeOK'
  BY IdsAreNumbers DEF IInv, TypeOK, world
<1>2. AtRecord'
  BY DEF IInv, LeftConsistently, AtRecord, record
<1>3. LeftConsistently'
  BY DEF IInv, LeftConsistently, world
<1>4. HalfReleased' /\ ReleasedAbsent'
  BY DEF IInv, HalfReleased, ReleasedAbsent, Absent, OutOfPlay, NothingHeld, world
<1> QED
  BY <1>1, <1>2, <1>3, <1>4 DEF IInv

\* From anywhere, to the record after number n.
LEMMA GoingOn ==
  ASSUME IInv, UNCHANGED <<journal, world, freed>>, NEW n, GoOn(n)
  PROVE  IInv'
<1>1. \A r \in Following(n) : r \in Ids /\ journal[r] # Gone
  BY FollowingExists
<1> QED
  BY <1>1, MovingOn DEF GoOn

\* From a record, to one of the later steps with the same record.
LEMMA Staying ==
  ASSUME IInv, UNCHANGED <<journal, world, freed, current>>,
         run # "off", run' \in {"cln", "release"},
         run' = "cln" =>
           record.op # "peerswap" /\ left' = left /\ unseen' = {"transaction"},
         run' = "release" =>
           /\ left' = record.tokens /\ unseen' \subseteq {"transaction", "commit"}
           /\ Absent(current, unseen')
  PROVE  IInv'
<1>1. current \in Ids /\ record.op # "gone" /\ record' = record
  BY DEF IInv, AtRecord, record
<1>2. record.tokens \subseteq Coins
  BY <1>1 DEF IInv, TypeOK, record
<1>3. TypeOK'
  BY <1>2 DEF IInv, TypeOK, world
<1>4. AtRecord'
  BY <1>1 DEF AtRecord
<1>5. HalfReleased'
  BY <1>1 DEF HalfReleased
<1>6. LeftConsistently'
  BY DEF IInv, LeftConsistently, world
<1>7. ReleasedAbsent'
  BY DEF IInv, ReleasedAbsent, Absent, OutOfPlay, NothingHeld, world
<1> QED
  BY <1>3, <1>4, <1>5, <1>6, <1>7 DEF IInv

----------------------------------------------------------------------------
(***************************************************************************)
(* The answers recovery acts on.                                           *)
(***************************************************************************)
\* A confirmation that the node reports is there.
LEMMA Confirmed ==
  \A r \in Ids : "yes" \in Confirmations(r) => sent[r] = "confirmed"
  BY DEF Confirmations

\* When CLN has nothing of a funding or a splice, nothing can send it but what
\* could not be seen: without its id on record it was never ready, and with it,
\* no channel holds it back, so that the last call of its operation was not the
\* one that sends.
LEMMA AbsentToBoth ==
  ASSUME IInv, run = "cln", "ABSENT" \in ClnAnswers(current)
  PROVE  Absent(current, StillUnseen)
<1> DEFINE peers == PeersOf(record.op)
<1>0. /\ current \in Ids /\ record.op \in {"batch", "splice"}
      /\ unseen = {"transaction"}
  BY DEF IInv, AtRecord, TypeOK, record, Operations
<1>1. PICK said \in [peers -> {"BROADCAST", "WITHHELD", "ABSENT"}] :
        /\ \A p \in peers : said[p] \in PeerAnswers(current, p)
        /\ ~\E p \in peers : said[p] = "BROADCAST"
        /\ ~\E p \in peers : said[p] = "WITHHELD"
  BY DEF ClnAnswers, record
<1>2. \A p \in peers : "ABSENT" \in PeerAnswers(current, p)
  BY <1>1
<1>3. peers # {}
  BY PeersAssumption DEF PeersOf
<1>4. CASE sent[current] # "no"
  <2>1. sent[current] \in Live \/ sent[current] = "confirmed"
    BY <1>0, <1>4 DEF IInv, TypeOK
  <2>2. NothingHeld(current)
    BY <1>0, <1>4 DEF IInv, LeftConsistently, NothingHeld
  <2> QED
    BY <1>0, <2>1, <2>2 DEF Absent, OutOfPlay, StillUnseen
<1>5. CASE sent[current] = "no"
  <2>1. \A p \in peers : p \notin withheld[current]
    BY <1>2, <1>5 DEF PeerAnswers
  <2>2. withheld[current] = {} /\ calls[current] # "send"
    BY <1>0, <1>3, <2>1 DEF IInv, LeftConsistently, record
  <2>3. calls[current] = "none" \/ "commit" \in StillUnseen
    BY <1>0, <2>2 DEF IInv, TypeOK, StillUnseen
  <2> QED
    BY <1>5, <2>2, <2>3 DEF Absent, OutOfPlay, NothingHeld
<1> QED
  BY <1>4, <1>5

----------------------------------------------------------------------------
(***************************************************************************)
(* The steps of the recover process.                                       *)
(***************************************************************************)
LEMMA PeerSwapRecordStep == IInv /\ PeerSwapRecord => IInv'
<1> SUFFICES ASSUME IInv, PeerSwapRecord PROVE IInv'
  OBVIOUS
<1>1. current \in Ids
  BY DEF PeerSwapRecord, IInv, AtRecord
<1>2. CASE Advance
  BY <1>2, GoingOn DEF PeerSwapRecord, Advance
<1>3. CASE Release /\ unseen' = {} /\ "yes" \in Confirmations(current)
  <2>1. sent[current] = "confirmed"
    BY <1>1, <1>3, Confirmed
  <2>2. Absent(current, {})
    BY <1>1, <2>1 DEF Absent, OutOfPlay, NothingHeld, IInv, LeftConsistently
  <2> QED
    BY <1>3, <2>2, Staying DEF PeerSwapRecord, Release
<1> QED
  BY <1>2, <1>3 DEF PeerSwapRecord

LEMMA AskBitcoinStep == IInv /\ AskBitcoin => IInv'
<1> SUFFICES ASSUME IInv, AskBitcoin PROVE IInv'
  OBVIOUS
<1>1. CASE Advance
  BY <1>1, GoingOn DEF AskBitcoin, Advance
<1>2. CASE LookAtCln /\ (record.txid => "no" \in BitcoinAnswers(current))
  <2>1. current \in Ids /\ record.op \in {"batch", "splice"}
    BY DEF AskBitcoin, IInv, AtRecord, TypeOK, record, Operations
  <2>2. sent[current] # "mempool"
    BY <1>2, <2>1 DEF BitcoinAnswers, IInv, LeftConsistently, record
  <2> QED
    BY <1>2, <2>2, Staying DEF AskBitcoin, LookAtCln
<1> QED
  BY <1>1, <1>2 DEF AskBitcoin

LEMMA AskClnStep == IInv /\ AskCln => IInv'
<1> SUFFICES ASSUME IInv, AskCln PROVE IInv'
  OBVIOUS
<1>1. CASE Advance
  BY <1>1, GoingOn DEF AskCln, Advance
<1>2. CASE Release /\ unseen' = StillUnseen /\ "ABSENT" \in ClnAnswers(current)
  <2>1. Absent(current, StillUnseen)
    BY <1>2, AbsentToBoth DEF AskCln
  <2>2. StillUnseen \subseteq {"transaction", "commit"}
    BY DEF StillUnseen, IInv, TypeOK
  <2> QED
    BY <1>2, <2>1, <2>2, Staying DEF AskCln, Release
<1> QED
  BY <1>1, <1>2 DEF AskCln, Safe

\* The journal after one release was recorded: the same but for the action.
LEMMA JournalReleaseKeeps ==
  ASSUME IInv, run = "release", NEW c, journal' = JournalRelease(c)
  PROVE  /\ \A r \in Ids : /\ journal'[r].op = journal[r].op
                           /\ journal'[r].tokens = journal[r].tokens
                           /\ journal'[r].outs = journal[r].outs
                           /\ journal'[r].txid = journal[r].txid
                           /\ journal[r].op = "gone" => journal'[r] = journal[r]
         /\ journal' \in [Ids -> Records]
<1>1. current \in Ids /\ journal[current] \in Records /\ journal[current].op # "gone"
  BY DEF IInv, AtRecord, TypeOK, Records, record
<1>2. journal \in [Ids -> Records]
  BY DEF IInv, TypeOK, Records
<1>3. [journal[current] EXCEPT !.action = "recovery_release"] \in Records
  BY <1>1 DEF Records
<1>4. journal' = [journal EXCEPT ![current] =
                    [journal[current] EXCEPT !.action = "recovery_release"]]
  BY DEF JournalRelease
<1>5. journal' \in [Ids -> Records]
  BY <1>2, <1>3, <1>4
<1>6. \A r \in Ids \ {current} : journal'[r] = journal[r]
  BY <1>2, <1>4
<1>7. journal'[current] = [journal[current] EXCEPT !.action = "recovery_release"]
  BY <1>1, <1>2, <1>4
<1>8. /\ journal'[current].op = journal[current].op
      /\ journal'[current].tokens = journal[current].tokens
      /\ journal'[current].outs = journal[current].outs
      /\ journal'[current].txid = journal[current].txid
  BY <1>1, <1>7 DEF Records
<1> QED
  BY <1>1, <1>5, <1>6, <1>8

LEMMA ReleaseOneStep == \A c \in left : IInv /\ ReleaseOne(c) => IInv'
<1> SUFFICES ASSUME NEW c \in left, IInv, ReleaseOne(c) PROVE IInv'
  OBVIOUS
<1> USE DEF ReleaseOne
<1>1. current \in Ids /\ c \in Coins /\ current' = current /\ run' = run
  BY DEF IInv, AtRecord, TypeOK
<1>2. /\ \A r \in Ids : /\ journal'[r].op = journal[r].op
                        /\ journal'[r].tokens = journal[r].tokens
                        /\ journal'[r].txid = journal[r].txid
                        /\ journal[r].op = "gone" => journal'[r] = journal[r]
      /\ journal' \in [Ids -> Records]
  BY JournalReleaseKeeps
<1>3. lease' \in [Coins -> Ids \union {Nobody, Other}]
  BY DEF IInv, TypeOK
<1>4. freed' \subseteq [rec : Ids, unseen : SUBSET {"transaction", "commit"}]
  <2>1. [rec |-> current, unseen |-> unseen]
          \in [rec : Ids, unseen : SUBSET {"transaction", "commit"}]
    BY <1>1 DEF IInv, TypeOK
  <2> QED
    BY <2>1 DEF IInv, TypeOK
<1>5. TypeOK'
  BY <1>2, <1>3, <1>4 DEF IInv, TypeOK, Records
<1>6. AtRecord'
  BY <1>1, <1>2 DEF IInv, AtRecord, record
<1>7. HalfReleased'
  <2>1. record'.tokens = record.tokens /\ record.tokens \subseteq Coins
    BY <1>1, <1>2 DEF record, IInv, TypeOK
  <2>2. lease'[c] # current
    BY <1>1, IdsAreNumbers DEF IInv, TypeOK
  <2>3. \A d \in Coins \ {c} : lease'[d] = lease[d]
    BY DEF IInv, TypeOK
  <2> QED
    BY <1>1, <2>1, <2>2, <2>3 DEF IInv, HalfReleased
<1>8. LeftConsistently'
  BY <1>2 DEF IInv, LeftConsistently
<1>9. ReleasedAbsent'
  BY DEF IInv, ReleasedAbsent, Absent, OutOfPlay, NothingHeld
<1> QED
  BY <1>5, <1>6, <1>7, <1>8, <1>9 DEF IInv

LEMMA ReleaseFailsStep == \A c \in left : IInv /\ ReleaseFails(c) => IInv'
<1> SUFFICES ASSUME NEW c \in left, IInv, ReleaseFails(c) PROVE IInv'
  OBVIOUS
<1> USE DEF ReleaseFails, Halt
<1>1. /\ \A r \in Ids : /\ journal'[r].op = journal[r].op
                        /\ journal'[r].txid = journal[r].txid
                        /\ journal[r].op = "gone" => journal'[r] = journal[r]
      /\ journal' \in [Ids -> Records]
  BY JournalReleaseKeeps
<1>2. TypeOK'
  BY <1>1 DEF IInv, TypeOK, Records, world
<1>3. LeftConsistently'
  BY <1>1 DEF IInv, LeftConsistently, world
<1>4. AtRecord' /\ HalfReleased' /\ ReleasedAbsent'
  BY DEF IInv, AtRecord, HalfReleased, ReleasedAbsent, Absent, OutOfPlay, NothingHeld, world
<1> QED
  BY <1>2, <1>3, <1>4 DEF IInv

LEMMA ResolveStep == IInv /\ Resolve => IInv'
<1> SUFFICES ASSUME IInv, Resolve PROVE IInv'
  OBVIOUS
<1>1. current \in Ids
  BY DEF IInv, AtRecord, Resolve
<1>2. /\ \A r \in Ids \ {current} : journal'[r] = journal[r]
      /\ journal'[current] = Gone
      /\ journal' \in [Ids -> Records]
  BY <1>1, GoneTypes DEF IInv, TypeOK, Resolve, Records
<1>3. /\ left' = {} /\ unseen' = {} /\ UNCHANGED <<world, freed>>
      /\ \/ run' = "off" /\ current' = Nobody
         \/ run' = "record" /\ current' \in Ids /\ journal[current'] # Gone
                            /\ current' > current
  BY DEF Resolve, Advance, GoOn, Following
<1>4. TypeOK'
  BY <1>2, <1>3 DEF IInv, TypeOK, Records, world
<1>5. LeftConsistently'
  <2>1. \A r \in Ids \ {current} : LeftConsistently!(r)'
    BY <1>2, <1>3 DEF IInv, LeftConsistently, world
  <2>2. Gone.op = "gone"
    BY DEF Gone
  <2>3. /\ UNCHANGED <<calls, sent, withheld>>
        /\ sent[current] # "no" => calls[current] = "none" /\ withheld[current] = {}
    BY <1>1, <1>3 DEF IInv, LeftConsistently, world
  <2>4. ASSUME NEW r \in Ids, r = current PROVE LeftConsistently!(r)'
    BY <1>2, <2>2, <2>3, <2>4
  <2> QED
    BY <2>1, <2>4 DEF LeftConsistently
<1>6. AtRecord'
  <2> SUFFICES ASSUME run' # "off" PROVE AtRecord'
    BY DEF AtRecord
  <2>1. current' \in Ids \ {current} /\ run' = "record" /\ journal[current'] # Gone
    BY <1>1, <1>3, IdsAreNumbers
  <2>2. journal'[current'] = journal[current']
    BY <1>2, <2>1
  <2> QED
    BY <2>1, <2>2 DEF AtRecord, record, IInv, LeftConsistently
<1>7. HalfReleased' /\ ReleasedAbsent'
  BY <1>3 DEF IInv, HalfReleased, ReleasedAbsent, Absent, OutOfPlay, NothingHeld, world
<1> QED
  BY <1>4, <1>5, <1>6, <1>7 DEF IInv

LEMMA AbortStep == IInv /\ Abort => IInv'
  BY MovingOn DEF Abort, Halt

LEMMA BeginStep == IInv /\ Begin => IInv'
  BY GoingOn DEF Begin

LEMMA StepKeeps == IInv /\ [Next]_vars => IInv'
<1> SUFFICES ASSUME IInv, [Next]_vars PROVE IInv'
  OBVIOUS
<1>1. CASE Recover
  BY <1>1, BeginStep, PeerSwapRecordStep, AskBitcoinStep, AskClnStep, ReleaseOneStep,
     ReleaseFailsStep, ResolveStep, AbortStep DEF Recover
<1>2. CASE UNCHANGED vars
  BY <1>2 DEF vars, world, process, IInv, TypeOK, AtRecord, record, HalfReleased,
     LeftConsistently, ReleasedAbsent, Absent, OutOfPlay, NothingHeld
<1> QED
  BY <1>1, <1>2, WorldSteps DEF Next

----------------------------------------------------------------------------
(***************************************************************************)
(* The theorems.                                                           *)
(***************************************************************************)
\* The inductive invariant holds in every state of every behaviour of
\* reconcile_all over any journal (recovery.py:355-376 and 428-525).
THEOREM Invariance == Spec => []IInv
  BY Initially, StepKeeps, PTL DEF Spec

(***************************************************************************)
(* A coin that recovery gave back is not spent, now or later, by the       *)
(* transaction of its record unless that has confirmed or was out of sight *)
(* of both views, and not held back for one by CLN unless by a call it had *)
(* still to execute: for any number of records and coins, whatever CLN     *)
(* does of the dead operations' calls (recovery.py:430-499).               *)
(***************************************************************************)
THEOREM FreedIsSafe == Spec => []FreedSafely
<1>1. IInv => FreedSafely
  BY DEF IInv, ReleasedAbsent, Absent, OutOfPlay, NothingHeld, FreedSafely
<1> QED
  BY <1>1, Invariance, PTL

\* No run, wherever it is cut short, drops the record or the token of a coin that
\* the wallet still reserves for it (recovery.py:443-466 and 508-525).
THEOREM TokensAreKept == Spec => TokenKept
<1> DEFINE Kept == \A r \in Ids, c \in Coins :
             c \in journal[r].tokens /\ lease'[c] = r => c \in journal'[r].tokens
<1>1. IInv /\ [Next]_vars => [Kept]_vars
  <2> SUFFICES ASSUME IInv, Next, NEW r \in Ids, NEW c \in Coins,
                      c \in journal[r].tokens, lease'[c] = r
               PROVE  c \in journal'[r].tokens
    BY DEF vars
  <2>1. CASE UNCHANGED journal
    BY <2>1
  <2>2. CASE \E d \in left : ReleaseOne(d) \/ ReleaseFails(d)
    BY <2>2, JournalReleaseKeeps DEF ReleaseOne, ReleaseFails
  <2>3. CASE Resolve
    <3>1. current \in Ids /\ lease' = lease /\ \A d \in record.tokens : lease[d] # current
      BY <2>3 DEF Resolve, world, IInv, AtRecord, HalfReleased
    <3>2. r # current
      BY <3>1 DEF record
    <3> QED
      BY <2>3, <3>2 DEF Resolve, IInv, TypeOK
  <2> QED
    BY <2>1, <2>2, <2>3 DEF Next, World, Lands, Cancelled, Confirms, Evicted, Lapses,
       Reserved, Spent, Recover, Begin, PeerSwapRecord, AskBitcoin, AskCln, Abort
<1> QED
  BY <1>1, Invariance, PTL DEF Spec, TokenKept
=============================================================================
