---------------------------- MODULE PluginProofs ----------------------------
(***************************************************************************)
(* Theorems about the two halves of the jmpeerswap plugin: Rendezvous, for *)
(* every set of intercepted calls and of worker threads and every limit on *)
(* the queues, and, from ChildInv on, ChildProcess, for any calls of       *)
(* methods and hooks.                                                      *)
(***************************************************************************)
EXTENDS Rendezvous, ChildProcess, SequenceTheorems, TLAPS

(***************************************************************************)
(* The inductive invariant.  It says nothing of the order of the queues:   *)
(* whatever they hold, only a queued request can be assigned.              *)
(***************************************************************************)
Shapes ==
  /\ req \in [Requests -> States]
  /\ conn \in [Requests -> {"open", "closed"}]
  /\ watch \in [Requests -> {"none", "waiting", "completed", "cancelled", "unknown"}]
  /\ attempts \in [Requests -> Nat]
  /\ delivered \in [Requests -> {"nothing", "result", "error"}]

\* e is an answer to r that is still to be written.
Owed(e, r) == e.do \in {"error", "respond"} /\ e.req = r

\* While the bridge has the request nobody has answered it or is about to, and
\* whoever takes it away owes the only answer.
OneAnswer(r) ==
  /\ attempts[r] \in {0, 1}
  /\ req[r] \in {"new", "queued", "assigned"} =>
       attempts[r] = 0 /\ \A e \in todo : ~Owed(e, r)
  /\ \A e \in todo : Owed(e, r) => attempts[r] = 0
  /\ \A e, f \in todo : Owed(e, r) /\ Owed(f, r) => e = f

\* What the states and the watcher say of the answer PeerSwap got.
Told(r) ==
  /\ attempts[r] = 0 => delivered[r] = "nothing"
  /\ \A e \in todo : e.do = "respond" /\ e.req = r =>
       e.by = "main" /\ req[r] = "completed"
  /\ \A e \in todo : e.do = "tell" /\ e.req = r => req[r] = "cancelled"
  /\ req[r] = "completed" =>
       delivered[r] = "result" \/ \E e \in todo : e.do = "respond" /\ e.req = r
  /\ req[r] = "cancelled" => delivered[r] # "result"
  /\ r \in terminal => req[r] \in {"completed", "cancelled"}
  /\ watch[r] = "cancelled" => req[r] = "cancelled"
  /\ watch[r] = "completed" => delivered[r] = "result"

IInv == Shapes /\ \A r \in Requests : OneAnswer(r) /\ Told(r)

----------------------------------------------------------------------------
(***************************************************************************)
(* The lemmas about the parts.                                             *)
(***************************************************************************)
\* Matching assigns queued requests, and owes nobody an answer for it.
LEMMA MatchAssigns ==
  ASSUME NEW thread, NEW ws, NEW un, NEW states \in [Requests -> States],
         Match(thread, ws, un, states)
  PROVE  /\ req' \in [Requests -> States]
         /\ \A r \in Requests : \/ req'[r] = states[r]
                                \/ states[r] = "queued" /\ req'[r] = "assigned"
         /\ todo \subseteq todo'
         /\ \A e \in todo' \ todo : e.do = "assign"
<1> DEFINE pairs == Matched(ws, un, states)
<1>1. /\ req' = [r \in Requests |-> IF \E i \in pairs : un[i] = r THEN "assigned"
                                    ELSE states[r]]
      /\ todo' = todo \union
           {[do |-> "assign", by |-> thread, req |-> un[i], call |-> ws[i]] : i \in pairs}
  BY DEF Match
<1>2. \A i \in pairs : states[un[i]] = "queued"
  BY DEF Matched
<1>3. \A r \in Requests : \/ req'[r] = states[r]
                          \/ states[r] = "queued" /\ req'[r] = "assigned"
  BY <1>1, <1>2
<1>4. req' \in [Requests -> States]
  BY <1>1 DEF States
<1> HIDE DEF pairs
<1>5. todo \subseteq todo' /\ \A e \in todo' \ todo : e.do = "assign"
  BY <1>1
<1> QED
  BY <1>3, <1>4, <1>5

\* A step that only assigns queued requests keeps the invariant.
LEMMA Assigning ==
  ASSUME IInv,
         UNCHANGED <<terminal, conn, watch, historyVars>>,
         NEW states \in [Requests -> States],
         \A r \in Requests : states[r] = req[r] \/ (req[r] = "new" /\ states[r] = "queued"),
         req' \in [Requests -> States],
         \A r \in Requests : \/ req'[r] = states[r]
                             \/ states[r] = "queued" /\ req'[r] = "assigned",
         todo \subseteq todo',
         \A e \in todo' \ todo : e.do = "assign"
  PROVE  IInv'
<1>1. Shapes'
  BY DEF IInv, Shapes, historyVars
<1>2. ASSUME NEW r \in Requests PROVE OneAnswer(r)' /\ Told(r)'
  <2>1. OneAnswer(r) /\ Told(r)
    BY DEF IInv
  <2>2. req'[r] = req[r] \/ (req[r] \in {"new", "queued"} /\ req'[r] \in {"queued", "assigned"})
    OBVIOUS
  <2>3. \A e \in todo' : Owed(e, r) => e \in todo
    BY DEF Owed
  <2>4. OneAnswer(r)'
    BY <2>1, <2>2, <2>3 DEF OneAnswer, Owed, historyVars
  <2>5. Told(r)'
    BY <2>1, <2>2, <2>3 DEF Told, Owed, historyVars
  <2> QED
    BY <2>4, <2>5
<1> QED
  BY <1>1, <1>2 DEF IInv

\* What is left of a queue when its first n elements have been taken.
LEMMA Left ==
  ASSUME NEW S, NEW s \in Seq(S), NEW n \in 0..Len(s)
  PROVE  LET t == SubSeq(s, n + 1, Len(s))
         IN  /\ t \in Seq(S) /\ Len(t) = Len(s) - n /\ DOMAIN t = 1..(Len(s) - n)
             /\ \A i \in 1..(Len(s) - n) : t[i] = s[n + i]
<1> DEFINE t == SubSeq(s, n + 1, Len(s))
<1>1. Len(s) \in Nat /\ n \in Int /\ n + 1 \in Int /\ n <= Len(s)
      /\ \A i \in (n + 1)..Len(s) : s[i] \in S
  BY LenProperties
<1> HIDE DEF t
<1>2. /\ t \in Seq(S) /\ Len(t) = IF n + 1 <= Len(s) THEN Len(s) - (n + 1) + 1 ELSE 0
      /\ \A i \in 1..(Len(s) - (n + 1) + 1) : t[i] = s[n + 1 + i - 1]
  BY <1>1, SubSeqProperties DEF t
<1>3. Len(t) = Len(s) - n
  <2>1. (IF n + 1 <= Len(s) THEN Len(s) - (n + 1) + 1 ELSE 0) = Len(s) - n
    BY <1>1
  <2> QED
    BY <1>2, <2>1
<1>4. ASSUME NEW i \in 1..(Len(s) - n) PROVE t[i] = s[n + i]
  <2>1. n + 1 + i - 1 = n + i /\ i \in 1..(Len(s) - (n + 1) + 1)
    BY <1>1
  <2> QED
    BY <1>2, <2>1
<1>5. DOMAIN t = 1..(Len(s) - n)
  BY <1>2, <1>3, LenProperties
<1> QED
  BY <1>2, <1>3, <1>4, <1>5 DEF t

\* An element is taken out of a queue that holds it at most once.
LEMMA TakenOut ==
  ASSUME NEW S, NEW s \in Seq(S), IsInjective(s), NEW e
  PROVE  /\ RemoveFirst(s, e) \in Seq(S)
         /\ IsInjective(RemoveFirst(s, e))
         /\ ToSet(RemoveFirst(s, e)) = ToSet(s) \ {e}
         /\ s = <<>> => RemoveFirst(s, e) = <<>>
<1>0. Len(s) \in Nat /\ DOMAIN s = 1..Len(s) /\ \A i \in 1..Len(s) : s[i] \in S
  BY LenProperties
<1>1. CASE \E i \in 1..Len(s) : s[i] = e
  <2>1. PICK k \in 1..Len(s) : s[k] = e
    BY <1>1
  <2>2. \A i \in 1..Len(s) : s[i] = e <=> i = k
    BY <1>0, <2>1 DEF IsInjective
  <2>3. SelectInSeq(s, LAMBDA v : v = e) = k
    <3>1. {i \in 1..Len(s) : s[i] = e} = {k}
      BY <2>2
    <3>2. Min({k}) = k
      BY <2>1 DEF Min
    <3> QED
      BY <3>1, <3>2 DEF SelectInSeq
  <2>4. RemoveFirst(s, e) = RemoveAt(s, k)
    BY <1>1, <2>3 DEF RemoveFirst
  <2> DEFINE t == RemoveAt(s, k)
             a == SubSeq(s, 1, k - 1)
             b == SubSeq(s, k + 1, Len(s))
  <2>5. /\ a \in Seq(S) /\ Len(a) = k - 1 /\ \A i \in 1..(k - 1) : a[i] = s[i]
        /\ b \in Seq(S) /\ Len(b) = Len(s) - k
        /\ \A i \in 1..(Len(s) - k) : b[i] = s[k + i]
    <3>1. k \in Int /\ 1 \in Int /\ k - 1 \in Int /\ k + 1 \in Int /\ Len(s) \in Int
      BY <1>0
    <3>2. a \in Seq(S) /\ Len(a) = k - 1 /\ \A i \in 1..(k - 1) : a[i] = s[i]
      <4>1. \A i \in 1..(k - 1) : s[i] \in S
        BY <1>0
      <4> HIDE DEF a
      <4>2. /\ a \in Seq(S) /\ Len(a) = IF 1 <= k - 1 THEN k - 1 - 1 + 1 ELSE 0
            /\ \A i \in 1..(k - 1 - 1 + 1) : a[i] = s[1 + i - 1]
        BY <3>1, <4>1, SubSeqProperties DEF a
      <4> QED
        BY <1>0, <4>2
    <3>3. /\ b \in Seq(S) /\ Len(b) = Len(s) - k
          /\ \A i \in 1..(Len(s) - k) : b[i] = s[k + i]
      <4>1. k \in 0..Len(s)
        BY <1>0
      <4> QED
        BY <4>1, Left
    <3> QED
      BY <3>2, <3>3
  <2>6. t = a \o b
    BY DEF RemoveAt
  <2> HIDE DEF t, a, b
  <2>7. /\ t \in Seq(S) /\ Len(t) = Len(s) - 1
        /\ \A i \in 1..(Len(s) - 1) : t[i] = IF i < k THEN s[i] ELSE s[i + 1]
    <3>1. /\ t \in Seq(S) /\ Len(t) = Len(a) + Len(b)
          /\ \A i \in 1..(Len(a) + Len(b)) : t[i] = IF i <= Len(a) THEN a[i] ELSE b[i - Len(a)]
      BY <2>5, <2>6, ConcatProperties
    <3>2. Len(a) + Len(b) = Len(s) - 1
      BY <1>0, <2>5
    <3>3. ASSUME NEW i \in 1..(Len(s) - 1), i < k PROVE t[i] = s[i]
      <4>1. i <= Len(a) /\ i \in 1..(k - 1) /\ i \in 1..(Len(a) + Len(b))
        BY <1>0, <2>5, <3>2, <3>3
      <4> QED
        BY <2>5, <3>1, <4>1
    <3>4. ASSUME NEW i \in 1..(Len(s) - 1), ~(i < k) PROVE t[i] = s[i + 1]
      <4>1. i - Len(a) \in 1..(Len(s) - k) /\ k + (i - Len(a)) = i + 1 /\ ~(i <= Len(a))
        BY <1>0, <2>5, <3>4
      <4>2. t[i] = b[i - Len(a)]
        BY <3>1, <3>2, <4>1
      <4>3. b[i - Len(a)] = s[k + (i - Len(a))]
        BY <2>5, <4>1
      <4> QED
        BY <4>1, <4>2, <4>3
    <3> QED
      BY <3>1, <3>2, <3>3, <3>4
  <2>8. DOMAIN t = 1..(Len(s) - 1)
    BY <2>7, LenProperties
  <2>9. IsInjective(t)
    BY <1>0, <2>7, <2>8 DEF IsInjective
  <2>10. ToSet(t) = ToSet(s) \ {e}
    <3>1. ASSUME NEW x \in ToSet(t) PROVE x \in ToSet(s) /\ x # e
      BY <1>0, <2>2, <2>7, <2>8, <3>1 DEF ToSet
    <3>2. ASSUME NEW x \in ToSet(s), x # e PROVE x \in ToSet(t)
      <4>1. PICK i \in 1..Len(s) : s[i] = x /\ i # k
        BY <1>0, <2>2, <3>2 DEF ToSet
      <4>2. CASE i < k
        BY <1>0, <2>7, <2>8, <4>1, <4>2 DEF ToSet
      <4>3. CASE i > k
        <5>1. i - 1 \in 1..(Len(s) - 1) /\ t[i - 1] = s[i]
          BY <1>0, <2>7, <4>1, <4>3
        <5> QED
          BY <2>8, <4>1, <5>1 DEF ToSet
      <4> QED
        BY <1>0, <4>1, <4>2, <4>3
    <3> QED
      BY <3>1, <3>2
  <2>11. s # <<>>
    BY <1>0, <2>1
  <2> QED
    BY <2>4, <2>7, <2>9, <2>10, <2>11 DEF t
<1>2. CASE ~\E i \in 1..Len(s) : s[i] = e
  <2>1. RemoveFirst(s, e) = s
    BY <1>2 DEF RemoveFirst
  <2>2. e \notin ToSet(s)
    BY <1>0, <1>2 DEF ToSet
  <2> QED
    BY <2>1, <2>2
<1> QED
  BY <1>1, <1>2
LEMMA Shorter ==
  ASSUME NEW k \in Nat, NEW l \in Nat
  PROVE  LET n == IF k < l THEN k ELSE l
         IN  /\ n \in Nat /\ n <= l /\ n <= k /\ l - n \in Nat /\ k - n \in Nat
             /\ k - n = 0 \/ l - n = 0
  OBVIOUS

LEMMA Indices ==
  ASSUME NEW n \in Nat, NEW l \in Nat, n <= l
  PROVE  /\ \A i \in 1..n : i \in 1..l
         /\ \A i \in 1..(l - n) : n + i \in 1..l /\ n + i \notin 1..n
         /\ \A i, j \in 1..(l - n) : n + i = n + j => i = j
         /\ \A j \in 1..l : j \notin 1..n => j - n \in 1..(l - n) /\ n + (j - n) = j
  OBVIOUS

\* Matching leaves one of the two queues empty, and in the other what was not
\* matched; each request that is matched gets one waiter.
LEMMA MatchQueues ==
  ASSUME NEW thread, NEW ws \in Seq(Calls), NEW un \in Seq(Requests),
         NEW states \in [Requests -> States], IsInjective(un),
         ToSet(un) = {r \in Requests : states[r] = "queued"},
         Match(thread, ws, un, states)
  PROVE  /\ waiters' \in Seq(Calls) /\ unassigned' \in Seq(Requests)
         /\ IsInjective(unassigned')
         /\ waiters' = <<>> \/ unassigned' = <<>>
         /\ ToSet(unassigned') = {r \in Requests : req'[r] = "queued"}
         /\ \A e \in todo' \ todo : e.req \in ToSet(un) /\ req'[e.req] = "assigned"
         /\ \A e, f \in todo' \ todo : e.req = f.req => e = f
<1> DEFINE n == IF Len(ws) < Len(un) THEN Len(ws) ELSE Len(un)
<1>0. /\ Len(ws) \in Nat /\ Len(un) \in Nat /\ DOMAIN un = 1..Len(un)
      /\ \A i \in 1..Len(un) : un[i] \in Requests
  BY LenProperties
<1>1. n \in 0..Len(ws) /\ n \in 0..Len(un)
  BY <1>0
<1>2. \A i \in 1..Len(un) : states[un[i]] = "queued"
  BY <1>0 DEF ToSet
<1>3. Matched(ws, un, states) = 1..n
  BY <1>0, <1>1, <1>2 DEF Matched
<1>4. /\ waiters' = SubSeq(ws, n + 1, Len(ws)) /\ unassigned' = SubSeq(un, n + 1, Len(un))
      /\ req' = [r \in Requests |-> IF \E i \in 1..n : un[i] = r THEN "assigned" ELSE states[r]]
      /\ todo' = todo \union
           {[do |-> "assign", by |-> thread, req |-> un[i], call |-> ws[i]] : i \in 1..n}
  BY <1>3 DEF Match
<1>a. n \in Nat /\ n <= Len(un) /\ n <= Len(ws) /\ Len(un) - n \in Nat /\ Len(ws) - n \in Nat
      /\ (Len(ws) - n = 0 \/ Len(un) - n = 0)
  BY <1>0, Shorter DEF n
<1> HIDE DEF n
<1>b. /\ \A i \in 1..n : i \in 1..Len(un)
      /\ \A i \in 1..(Len(un) - n) : n + i \in 1..Len(un) /\ n + i \notin 1..n
      /\ \A i, j \in 1..(Len(un) - n) : n + i = n + j => i = j
      /\ \A j \in 1..Len(un) : j \notin 1..n => j - n \in 1..(Len(un) - n) /\ n + (j - n) = j
  BY <1>0, <1>a, Indices
<1>5. /\ waiters' \in Seq(Calls) /\ Len(waiters') = Len(ws) - n
      /\ unassigned' \in Seq(Requests) /\ Len(unassigned') = Len(un) - n
      /\ DOMAIN unassigned' = 1..(Len(un) - n)
      /\ \A i \in 1..(Len(un) - n) : unassigned'[i] = un[n + i]
  BY <1>1, <1>4, Left
<1>6. IsInjective(unassigned')
  <2>1. ASSUME NEW i \in 1..(Len(un) - n), NEW j \in 1..(Len(un) - n),
               unassigned'[i] = unassigned'[j]
        PROVE  i = j
    <3>1. n + i \in 1..Len(un) /\ n + j \in 1..Len(un) /\ un[n + i] = un[n + j]
      BY <1>5, <1>b, <2>1
    <3>2. n + i = n + j
      BY <1>0, <3>1 DEF IsInjective
    <3> QED
      BY <1>b, <3>2
  <2> QED
    BY <1>5, <2>1 DEF IsInjective
<1>7. waiters' = <<>> \/ unassigned' = <<>>
  BY <1>a, <1>5, EmptySeq
<1>8. ASSUME NEW r \in Requests PROVE r \in ToSet(unassigned') <=> req'[r] = "queued"
  <2>1. req'[r] = "queued" <=> r \in ToSet(un) /\ ~\E i \in 1..n : un[i] = r
    BY <1>4
  <2>2. ASSUME r \in ToSet(unassigned') PROVE r \in ToSet(un) /\ ~\E i \in 1..n : un[i] = r
    <3>1. PICK j \in 1..(Len(un) - n) : un[n + j] = r
      BY <1>5, <2>2 DEF ToSet
    <3>2. n + j \in 1..Len(un) /\ \A i \in 1..n : i \in 1..Len(un) /\ i # n + j
      BY <1>b
    <3> QED
      BY <1>0, <3>1, <3>2 DEF ToSet, IsInjective
  <2>3. ASSUME r \in ToSet(un), ~\E i \in 1..n : un[i] = r PROVE r \in ToSet(unassigned')
    <3>1. PICK j \in 1..Len(un) : un[j] = r /\ j \notin 1..n
      BY <1>0, <2>3 DEF ToSet
    <3>2. j - n \in 1..(Len(un) - n) /\ n + (j - n) = j
      BY <1>b, <3>1
    <3>3. unassigned'[j - n] = r
      BY <1>5, <3>1, <3>2
    <3> QED
      BY <1>5, <3>2, <3>3 DEF ToSet
  <2> QED
    BY <2>1, <2>2, <2>3
<1>9. ToSet(unassigned') = {r \in Requests : req'[r] = "queued"}
  <2>1. ToSet(unassigned') \subseteq Requests
    BY <1>5, LenProperties DEF ToSet
  <2> QED
    BY <1>8, <2>1
<1>10. \A e \in todo' \ todo : \E i \in 1..n : e = [do |-> "assign", by |-> thread,
                                                 req |-> un[i], call |-> ws[i]]
  BY <1>4
<1>11. ASSUME NEW e \in todo' \ todo PROVE e.req \in ToSet(un) /\ req'[e.req] = "assigned"
  <2>1. PICK i \in 1..n : e.req = un[i]
    BY <1>10
  <2>2. i \in 1..Len(un)
    BY <1>b, <2>1
  <2> QED
    BY <1>0, <1>4, <2>1, <2>2 DEF ToSet
<1>12. ASSUME NEW e \in todo' \ todo, NEW f \in todo' \ todo, e.req = f.req PROVE e = f
  <2>1. PICK i \in 1..n : e = [do |-> "assign", by |-> thread, req |-> un[i], call |-> ws[i]]
    BY <1>10
  <2>2. PICK j \in 1..n : f = [do |-> "assign", by |-> thread, req |-> un[j], call |-> ws[j]]
    BY <1>10
  <2>3. i \in 1..Len(un) /\ j \in 1..Len(un) /\ un[i] = un[j]
    BY <1>b, <1>12, <2>1, <2>2
  <2>4. i = j
    BY <1>0, <2>3 DEF IsInjective
  <2> QED
    BY <2>1, <2>2, <2>4
<1> QED
  BY <1>5, <1>6, <1>7, <1>9, <1>11, <1>12

\* A new element joins a queue that does not hold it.
LEMMA Joined ==
  ASSUME NEW S, NEW s \in Seq(S), IsInjective(s), NEW e \in S, e \notin ToSet(s)
  PROVE  /\ Append(s, e) \in Seq(S) /\ IsInjective(Append(s, e))
         /\ ToSet(Append(s, e)) = ToSet(s) \union {e}
<1> DEFINE t == Append(s, e)
<1>1. /\ Len(s) \in Nat /\ DOMAIN s = 1..Len(s)
      /\ t \in Seq(S) /\ Len(t) = Len(s) + 1 /\ DOMAIN t = 1..(Len(s) + 1)
  BY LenProperties
<1>2. \A i \in 1..(Len(s) + 1) : t[i] = IF i = Len(s) + 1 THEN e ELSE s[i]
  OBVIOUS
<1> HIDE DEF t
<1>3. \A i \in 1..(Len(s) + 1) : i = Len(s) + 1 \/ i \in DOMAIN s
  BY <1>1
<1>4. \A i \in DOMAIN s : s[i] # e /\ s[i] \in ToSet(s) /\ i \in DOMAIN t /\ t[i] = s[i]
  BY <1>1, <1>2 DEF ToSet
<1>5. Len(s) + 1 \in DOMAIN t /\ t[Len(s) + 1] = e
  BY <1>1, <1>2
<1>6. IsInjective(t)
  BY <1>1, <1>3, <1>4, <1>5 DEF IsInjective
<1>7. ToSet(t) = ToSet(s) \union {e}
  BY <1>1, <1>3, <1>4, <1>5 DEF ToSet
<1> QED
  BY <1>1, <1>6, <1>7 DEF t


LEMMA Initially == Init => IInv
  BY DEF Init, IInv, Shapes, OneAnswer, Told, States

----------------------------------------------------------------------------
(***************************************************************************)
(* One lemma for each action.                                              *)
(***************************************************************************)
LEMMA WaitStep == \A w \in Calls : IInv /\ Wait(w) => IInv'
<1> SUFFICES ASSUME NEW w \in Calls, IInv, Wait(w) PROVE IInv'
  OBVIOUS
<1>1. req \in [Requests -> States]
  BY DEF IInv, Shapes
<1>2. CASE Match("main", Append(waiters, w), unassigned, req)
  BY <1>1, <1>2, MatchAssigns, Assigning DEF Wait
<1>3. CASE UNCHANGED <<req, unassigned, waiters, todo, call>>
  BY <1>1, <1>3, Assigning DEF Wait
<1> QED
  BY <1>2, <1>3 DEF Wait

LEMMA SubmitStep == \A r \in Requests : IInv /\ Submit(r) => IInv'
<1> SUFFICES ASSUME NEW r \in Requests, IInv, Submit(r) PROVE IInv'
  OBVIOUS
<1>1. Shapes /\ req[r] = "new" /\ UNCHANGED <<terminal, conn, watch, historyVars>>
  BY DEF Submit, IInv, clientVars
<1>2. CASE Match(r, waiters, Append(unassigned, r), [req EXCEPT ![r] = "queued"])
  <2>1. [req EXCEPT ![r] = "queued"] \in [Requests -> States]
    BY <1>1 DEF Shapes, States
  <2> DEFINE states == [req EXCEPT ![r] = "queued"]
  <2>2. states \in [Requests -> States] /\ Match(r, waiters, Append(unassigned, r), states)
    BY <1>2, <2>1
  <2>3. \A s \in Requests : states[s] = req[s] \/ (req[s] = "new" /\ states[s] = "queued")
    BY <1>1 DEF Shapes
  <2> HIDE DEF states
  <2>4. /\ req' \in [Requests -> States]
        /\ \A s \in Requests : \/ req'[s] = states[s]
                               \/ states[s] = "queued" /\ req'[s] = "assigned"
        /\ todo \subseteq todo'
        /\ \A e \in todo' \ todo : e.do = "assign"
    BY <2>2, MatchAssigns
  <2> QED
    BY <1>1, <2>2, <2>3, <2>4, Assigning
<1>3. CASE /\ req' = [req EXCEPT ![r] = "refused"]
           /\ todo' = todo \union {Error(r, r)}
  <2>1. Shapes'
    BY <1>1, <1>3 DEF Shapes, States, historyVars
  <2>2. ASSUME NEW s \in Requests PROVE OneAnswer(s)' /\ Told(s)'
    <3>1. OneAnswer(s) /\ Told(s) /\ OneAnswer(r)
      BY DEF IInv
    <3>2. \A e \in todo' : e \in todo \/ e = Error(r, r)
      BY <1>3
    <3>3. CASE s # r
      BY <1>1, <1>3, <3>1, <3>2, <3>3 DEF Shapes, OneAnswer, Told, Owed, Error, historyVars
    <3>4. CASE s = r
      <4>1. req'[s] = "refused" /\ attempts[s] = 0 /\ UNCHANGED <<terminal, watch, historyVars>>
        BY <1>1, <1>3, <3>1, <3>4 DEF Shapes, OneAnswer
      <4>2. \A e \in todo' : Owed(e, s) => e = Error(r, r)
        BY <1>1, <3>1, <3>2, <3>4 DEF OneAnswer
      <4>3. \A e \in todo' : e.do \in {"respond", "tell"} => e \in todo
        BY <3>2 DEF Error
      <4> QED
        BY <1>1, <3>1, <3>4, <4>1, <4>2, <4>3 DEF OneAnswer, Told, Owed, historyVars
    <3> QED
      BY <3>3, <3>4
  <2> QED
    BY <2>1, <2>2 DEF IInv
<1> QED
  BY <1>2, <1>3 DEF Submit

LEMMA ExpireStep == \A r \in Requests : IInv /\ Expire(r) => IInv'
<1> SUFFICES ASSUME NEW r \in Requests, IInv, Expire(r) PROVE IInv'
  OBVIOUS
<1>1. Shapes'
  BY DEF Expire, IInv, Shapes, States, clientVars, historyVars
<1>2. ASSUME NEW s \in Requests PROVE OneAnswer(s)' /\ Told(s)'
  BY DEF Expire, IInv, Shapes, OneAnswer, Told, Owed, Error, clientVars, historyVars
<1> QED
  BY <1>1, <1>2 DEF IInv

LEMMA CancelStep == \A r \in Requests : IInv /\ Cancel(r) => IInv'
<1> SUFFICES ASSUME NEW r \in Requests, IInv, Cancel(r) PROVE IInv'
  OBVIOUS
<1>1. Shapes'
  BY DEF Cancel, IInv, Shapes, States, clientVars, historyVars
<1>2. req[r] \in {"queued", "assigned"}
  BY DEF Cancel, Pending
<1>3. ASSUME NEW s \in Requests PROVE OneAnswer(s)' /\ Told(s)'
  BY <1>2 DEF Cancel, IInv, Shapes, OneAnswer, Told, Owed, Tell, clientVars, historyVars
<1> QED
  BY <1>1, <1>3 DEF IInv

LEMMA WaitCancelStep == \A r \in Requests : IInv /\ WaitCancel(r) => IInv'
<1> SUFFICES ASSUME NEW r \in Requests, IInv, WaitCancel(r) PROVE IInv'
  OBVIOUS
<1>1. Shapes'
  BY DEF WaitCancel, IInv, Shapes, Told, historyVars
<1>2. ASSUME NEW s \in Requests PROVE OneAnswer(s)'
  BY DEF WaitCancel, IInv, OneAnswer, Owed, historyVars
<1>3. ASSUME NEW s \in Requests PROVE Told(s)'
  <2>1. /\ Told(s) /\ Told(r) /\ Shapes /\ Quiet("main")
        /\ UNCHANGED <<req, todo, attempts, delivered>>
        /\ terminal' = terminal \ {r}
    BY DEF IInv, WaitCancel, historyVars
  <2>2. CASE s # r
    BY <2>1, <2>2 DEF WaitCancel, Told, Shapes
  <2>3. CASE s = r
    <3>1. watch'[r] \in {"waiting", "unknown"} \/ (r \in terminal /\ watch'[r] = req[r])
      BY <2>1 DEF WaitCancel, Shapes
    <3>2. req[r] = "completed" => delivered[r] = "result"
      BY <2>1 DEF Told, Quiet
    <3> QED
      BY <2>1, <2>3, <3>1, <3>2 DEF Told
  <2> QED
    BY <2>2, <2>3
<1> QED
  BY <1>1, <1>2, <1>3 DEF IInv

LEMMA RespondStep == \A r \in Requests : IInv /\ Respond(r) => IInv'
<1> SUFFICES ASSUME NEW r \in Requests, IInv, Respond(r) PROVE IInv'
  OBVIOUS
<1>1. Shapes'
  BY DEF Respond, IInv, Shapes, States, historyVars
<1>2. req[r] = "assigned"
  BY DEF Respond, Answerable
<1>3. ASSUME NEW s \in Requests PROVE OneAnswer(s)' /\ Told(s)'
  <2>1. OneAnswer(s) /\ Told(s) /\ Shapes /\ OneAnswer(r) /\ Told(r)
    BY DEF IInv
  <2> DEFINE answer == [do |-> "respond", by |-> "main", req |-> r,
                        watched |-> watch[r] = "waiting"]
  <2>2. /\ todo' = todo \union {answer}
        /\ answer.do = "respond" /\ answer.by = "main" /\ answer.req = r
        /\ req' = [req EXCEPT ![r] = "completed"]
        /\ terminal' = terminal \union {r}
        /\ UNCHANGED <<watch, attempts, delivered>>
    BY DEF Respond, historyVars
  <2> HIDE DEF answer
  <2>3. CASE s # r
    BY <2>1, <2>2, <2>3 DEF Shapes, OneAnswer, Told, Owed
  <2>4. CASE s = r
    <3>1. req'[s] = "completed" /\ attempts[s] = 0
      BY <1>2, <2>1, <2>2, <2>4 DEF Shapes, OneAnswer
    <3>2. \A e \in todo : ~Owed(e, s)
      BY <1>2, <2>1, <2>4 DEF OneAnswer
    <3>3. OneAnswer(s)'
      BY <2>2, <3>1, <3>2 DEF OneAnswer, Owed
    <3>4. Told(s)'
      BY <1>2, <2>1, <2>2, <2>4, <3>1, <3>2 DEF Told, Owed
    <3> QED
      BY <3>3, <3>4
  <2> QED
    BY <2>3, <2>4
<1> QED
  BY <1>1, <1>3 DEF IInv

LEMMA StopStep == IInv /\ Stop => IInv'
<1> SUFFICES ASSUME IInv, Stop PROVE IInv'
  OBVIOUS
<1>1. Shapes'
  BY DEF Stop, IInv, Shapes, States, historyVars
<1>2. ASSUME NEW s \in Requests PROVE OneAnswer(s)' /\ Told(s)'
  <2>1. OneAnswer(s) /\ Told(s)
    BY DEF IInv
  <2>2. /\ todo \subseteq todo'
        /\ \A e \in todo' : \/ e \in todo
                            \/ \E r \in Pending : e = Error("main", r)
                            \/ \E r \in Pending : e = Tell("main", r)
    BY DEF Stop
  <2>3. /\ s \in Pending => req'[s] = "cancelled"
        /\ s \notin Pending => req'[s] = req[s]
        /\ UNCHANGED <<terminal, watch, attempts, delivered>>
    BY DEF Stop, historyVars
  <2>4. CASE s \in Pending
    <3>1. req[s] \in {"queued", "assigned"}
      BY <2>4 DEF Pending
    <3>2. \A e \in todo' : Owed(e, s) => e = Error("main", s)
      BY <2>1, <2>2, <3>1 DEF OneAnswer, Owed, Error, Tell
    <3>3. \A e \in todo' : e.do = "respond" => e.req # s
      BY <3>2 DEF Owed, Error
    <3> QED
      BY <2>1, <2>3, <2>4, <3>1, <3>2, <3>3 DEF OneAnswer, Told
  <2>5. CASE s \notin Pending
    <3>1. \A e \in todo' : e.req = s => e \in todo
      BY <2>2, <2>5 DEF Error, Tell
    <3> QED
      BY <2>1, <2>2, <2>3, <2>5, <3>1 DEF OneAnswer, Told, Owed
  <2> QED
    BY <2>4, <2>5
<1> QED
  BY <1>1, <1>2 DEF IInv

----------------------------------------------------------------------------
(***************************************************************************)
(* What is written outside the lock.                                       *)
(***************************************************************************)
LEMMA AssignStep == \A e \in todo : IInv /\ Say(e) /\ Assign(e) => IInv'
<1> SUFFICES ASSUME NEW e \in todo, IInv, Say(e), Assign(e) PROVE IInv'
  OBVIOUS
<1>1. /\ UNCHANGED <<req, terminal, conn, watch, historyVars>>
      /\ todo' = todo \ {e} /\ e.do = "assign"
  BY DEF Say, Assign
<1>2. Shapes'
  BY <1>1 DEF IInv, Shapes, historyVars
<1>3. ASSUME NEW r \in Requests PROVE OneAnswer(r)' /\ Told(r)'
  BY <1>1 DEF IInv, OneAnswer, Told, Owed, historyVars
<1> QED
  BY <1>2, <1>3 DEF IInv

LEMMA SayErrorStep == \A e \in todo : IInv /\ Say(e) /\ SayError(e) => IInv'
<1> SUFFICES ASSUME NEW e \in todo, IInv, Say(e), SayError(e) PROVE IInv'
  OBVIOUS
<1>1. /\ UNCHANGED <<req, terminal, conn, watch>>
      /\ todo' = todo \ {e} /\ e.do = "error" /\ Write(e.req, "error")
  BY DEF Say, SayError, clientVars
<1>2. Shapes'
  <2>1. /\ attempts \in [Requests -> Nat]
        /\ delivered \in [Requests -> {"nothing", "result", "error"}]
    BY DEF IInv, Shapes
  <2>2. attempts' \in [Requests -> Nat]
    <3>1. CASE e.req \in Requests
      <4>1. attempts[e.req] + 1 \in Nat
        BY <2>1, <3>1
      <4> QED
        BY <1>1, <2>1, <4>1 DEF Write
    <3>2. CASE e.req \notin Requests
      BY <1>1, <2>1, <3>2 DEF Write
    <3> QED
      BY <3>1, <3>2
  <2>3. delivered' \in [Requests -> {"nothing", "result", "error"}]
    BY <1>1, <2>1 DEF Write
  <2> QED
    BY <1>1, <2>2, <2>3 DEF IInv, Shapes
<1>3. ASSUME NEW r \in Requests PROVE OneAnswer(r)' /\ Told(r)'
  <2>1. OneAnswer(r) /\ Told(r) /\ Shapes
    BY DEF IInv
  <2>2. CASE e.req # r
    BY <1>1, <2>1, <2>2 DEF OneAnswer, Told, Owed, Write, Shapes
  <2>3. CASE e.req = r
    <3>1. attempts[r] = 0 /\ \A f \in todo : Owed(f, r) => f = e
      BY <1>1, <2>1, <2>3 DEF OneAnswer, Owed
    <3>2. req[r] \notin {"new", "queued", "assigned", "completed"}
      BY <1>1, <2>1, <2>3, <3>1 DEF OneAnswer, Told, Owed
    <3>3. attempts'[r] = 1 /\ delivered'[r] \in {"nothing", "error"}
      BY <1>1, <2>1, <2>3, <3>1 DEF Write, Shapes, Told
    <3>4. \A f \in todo' : ~Owed(f, r)
      BY <1>1, <3>1
    <3> QED
      BY <1>1, <2>1, <3>1, <3>2, <3>3, <3>4 DEF OneAnswer, Told, Owed
  <2> QED
    BY <2>2, <2>3
<1> QED
  BY <1>2, <1>3 DEF IInv

LEMMA SayResultStep == \A e \in todo : IInv /\ Say(e) /\ SayResult(e) => IInv'
<1> SUFFICES ASSUME NEW e \in todo, IInv, Say(e), SayResult(e) PROVE IInv'
  OBVIOUS
<1>1. /\ conn' = conn /\ todo' = todo \ {e} /\ e.do = "respond" /\ Write(e.req, "result")
      /\ req' = [req EXCEPT ![e.req] = Verdict(e.req)]
      /\ \/ watch' = [watch EXCEPT ![e.req] = Verdict(e.req)]
         \/ watch' = watch
      /\ terminal' \subseteq terminal
  BY DEF Say, SayResult
<1>2. Shapes'
  <2>1. /\ attempts \in [Requests -> Nat]
        /\ delivered \in [Requests -> {"nothing", "result", "error"}]
        /\ req \in [Requests -> States]
        /\ watch \in [Requests -> {"none", "waiting", "completed", "cancelled", "unknown"}]
    BY DEF IInv, Shapes
  <2>2. Verdict(e.req) \in {"completed", "cancelled"}
    BY DEF Verdict
  <2>3. attempts' \in [Requests -> Nat]
    <3>1. CASE e.req \in Requests
      <4>1. attempts[e.req] + 1 \in Nat
        BY <2>1, <3>1
      <4> QED
        BY <1>1, <2>1, <4>1 DEF Write
    <3>2. CASE e.req \notin Requests
      BY <1>1, <2>1, <3>2 DEF Write
    <3> QED
      BY <3>1, <3>2
  <2>4. delivered' \in [Requests -> {"nothing", "result", "error"}]
    BY <1>1, <2>1 DEF Write
  <2>5. req' \in [Requests -> States]
    BY <1>1, <2>1, <2>2 DEF States
  <2>6. watch' \in [Requests -> {"none", "waiting", "completed", "cancelled", "unknown"}]
    BY <1>1, <2>1, <2>2
  <2> QED
    BY <1>1, <2>3, <2>4, <2>5, <2>6 DEF IInv, Shapes
<1>3. ASSUME NEW r \in Requests PROVE OneAnswer(r)' /\ Told(r)'
  <2>1. OneAnswer(r) /\ Told(r) /\ Shapes
    BY DEF IInv
  <2>2. CASE e.req # r
    <3>1. /\ attempts'[r] = attempts[r] /\ delivered'[r] = delivered[r]
          /\ req'[r] = req[r] /\ watch'[r] = watch[r]
      BY <1>1, <2>1, <2>2 DEF Write, Shapes
    <3> QED
      BY <1>1, <2>1, <2>2, <3>1 DEF OneAnswer, Told, Owed
  <2>3. CASE e.req = r
    <3>1. attempts[r] = 0 /\ \A f \in todo : Owed(f, r) => f = e
      BY <1>1, <2>1, <2>3 DEF OneAnswer, Owed
    <3>2. req[r] = "completed" /\ delivered[r] = "nothing"
      BY <1>1, <2>1, <2>3, <3>1 DEF Told
    <3>3. \A f \in todo' : ~Owed(f, r) /\ (f.do = "tell" => f.req # r)
      BY <1>1, <2>1, <3>1, <3>2 DEF Told
    <3>4. attempts'[r] = 1
      BY <1>1, <2>1, <2>3, <3>1 DEF Write, Shapes
    <3>5. OneAnswer(r)'
      BY <1>1, <2>1, <2>3, <3>3, <3>4 DEF OneAnswer, Verdict, Shapes
    <3>6. watch[r] \notin {"completed", "cancelled"}
      BY <2>1, <3>2 DEF Told
    <3>7. CASE conn[r] = "open"
      <4>1. req'[r] = "completed" /\ delivered'[r] = "result"
        BY <1>1, <2>1, <2>3, <3>7 DEF Write, Verdict, Shapes
      <4>2. watch'[r] # "cancelled"
        BY <1>1, <2>1, <2>3, <3>6, <3>7 DEF Verdict, Shapes
      <4> QED
        BY <3>3, <3>4, <3>5, <4>1, <4>2 DEF Told, Owed
    <3>8. CASE conn[r] # "open"
      <4>1. req'[r] = "cancelled" /\ delivered'[r] = "nothing"
        BY <1>1, <2>1, <2>3, <3>2, <3>8 DEF Write, Verdict, Shapes
      <4>2. watch'[r] # "completed"
        BY <1>1, <2>1, <2>3, <3>6, <3>8 DEF Verdict, Shapes
      <4> QED
        BY <3>3, <3>4, <3>5, <4>1, <4>2 DEF Told, Owed
    <3> QED
      BY <3>7, <3>8
  <2> QED
    BY <2>2, <2>3
<1> QED
  BY <1>2, <1>3 DEF IInv

LEMMA SayCancelledStep == \A e \in todo : IInv /\ Say(e) /\ SayCancelled(e) => IInv'
<1> SUFFICES ASSUME NEW e \in todo, IInv, Say(e), SayCancelled(e) PROVE IInv'
  OBVIOUS
<1>1. /\ UNCHANGED <<req, conn, historyVars>>
      /\ todo' = todo \ {e} /\ e.do = "tell"
      /\ watch' = [watch EXCEPT ![e.req] = "cancelled"]
      /\ terminal' \subseteq terminal
  BY DEF Say, SayCancelled
<1>2. Shapes'
  BY <1>1 DEF IInv, Shapes, historyVars
<1>3. ASSUME NEW r \in Requests PROVE OneAnswer(r)' /\ Told(r)'
  BY <1>1 DEF IInv, Shapes, OneAnswer, Told, Owed, historyVars
<1> QED
  BY <1>2, <1>3 DEF IInv

LEMMA StepKeeps == IInv /\ [Next]_vars => IInv'
<1> SUFFICES ASSUME IInv, [Next]_vars PROVE IInv'
  OBVIOUS
<1>1. ASSUME \/ \E r \in Requests : RespondFails(r) \/ Purge(r)
             \/ \E w \in Calls : ClientGone(w)
             \/ UNCHANGED vars
      PROVE  IInv'
  <2>1. /\ UNCHANGED <<req, todo, conn, watch, historyVars>>
        /\ terminal' \subseteq terminal
    BY <1>1 DEF RespondFails, Purge, ClientGone, vars, bridgeVars, clientVars
  <2> QED
    BY <2>1 DEF IInv, Shapes, OneAnswer, Told, historyVars
<1>2. ASSUME NEW r \in Requests, Disconnect(r) PROVE IInv'
  BY <1>2 DEF Disconnect, IInv, Shapes, OneAnswer, Told, bridgeVars, clientVars, historyVars
<1>3. ASSUME NEW e \in todo, Say(e) PROVE IInv'
  BY <1>3, AssignStep, SayErrorStep, SayResultStep, SayCancelledStep DEF Say
<1> QED
  BY <1>1, <1>2, <1>3, WaitStep, SubmitStep, ExpireStep, CancelStep, WaitCancelStep,
     RespondStep, StopStep DEF Next

----------------------------------------------------------------------------
(***************************************************************************)
(* The two queues.                                                         *)
(***************************************************************************)
Queues == unassigned \in Seq(Requests) /\ waiters \in Seq(Calls) /\ QueueConsistent

\* A step after which the queues are as before, and so is who is queued.
LEMMA QueuesStill ==
  ASSUME Queues, UNCHANGED <<unassigned, waiters>>,
         \A r \in Requests : req'[r] = "queued" <=> req[r] = "queued"
  PROVE  Queues'
  BY DEF Queues, QueueConsistent

LEMMA QueuesInit == Init => Queues
<1> SUFFICES ASSUME Init PROVE Queues
  OBVIOUS
<1>1. unassigned = <<>> /\ waiters = <<>> /\ \A r \in Requests : req[r] = "new"
  BY DEF Init
<1>2. unassigned \in Seq(Requests) /\ waiters \in Seq(Calls) /\ DOMAIN unassigned = {}
  BY <1>1, EmptySeq
<1>3. IsInjective(unassigned) /\ ToSet(unassigned) = {}
  BY <1>2 DEF IsInjective, ToSet
<1> QED
  BY <1>1, <1>2, <1>3 DEF Queues, QueueConsistent

LEMMA SubmitQueues ==
  ASSUME IInv, Queues, NEW r \in Requests, Submit(r)
  PROVE  Queues'
<1>1. req \in [Requests -> States] /\ req[r] = "new"
  BY DEF IInv, Shapes, Submit
<1>2. CASE req' = [req EXCEPT ![r] = "refused"] /\ UNCHANGED <<unassigned, waiters>>
  BY <1>1, <1>2, QueuesStill
<1>3. CASE Match(r, waiters, Append(unassigned, r), [req EXCEPT ![r] = "queued"])
  <2> DEFINE states == [req EXCEPT ![r] = "queued"]
             un == Append(unassigned, r)
  <2>1. states \in [Requests -> States]
    BY <1>1 DEF States
  <2>2. r \notin ToSet(unassigned)
    BY <1>1 DEF Queues, QueueConsistent
  <2>3. un \in Seq(Requests) /\ IsInjective(un) /\ ToSet(un) = ToSet(unassigned) \union {r}
    BY <2>2, Joined DEF Queues, QueueConsistent
  <2>4. ToSet(un) = {s \in Requests : states[s] = "queued"}
    <3>1. \A s \in Requests : states[s] = "queued" <=> s = r \/ req[s] = "queued"
      BY <1>1
    <3> HIDE DEF states
    <3> QED
      BY <2>3, <3>1 DEF Queues, QueueConsistent
  <2>5. Match(r, waiters, un, states) /\ waiters \in Seq(Calls)
    BY <1>3 DEF Queues
  <2> HIDE DEF states, un
  <2> QED
    BY <2>1, <2>3, <2>4, <2>5, MatchQueues DEF Queues, QueueConsistent
<1> QED
  BY <1>2, <1>3 DEF Submit

LEMMA QueuesNext == IInv /\ Queues /\ [Next]_vars => Queues'
<1> SUFFICES ASSUME IInv, Queues, [Next]_vars PROVE Queues'
  OBVIOUS
<1>0. req \in [Requests -> States]
  BY DEF IInv, Shapes
<1>1. ASSUME NEW w \in Calls, Wait(w) PROVE Queues'
  <2>1. CASE UNCHANGED <<req, unassigned, waiters>>
    BY <2>1, QueuesStill
  <2>2. CASE Match("main", Append(waiters, w), unassigned, req)
    <3>1. Append(waiters, w) \in Seq(Calls) /\ unassigned \in Seq(Requests)
      BY DEF Queues
    <3> QED
      BY <1>0, <2>2, <3>1, MatchQueues DEF Queues, QueueConsistent
  <2> QED
    BY <1>1, <2>1, <2>2 DEF Wait
<1>2. ASSUME NEW r \in Requests, Expire(r) \/ Cancel(r) PROVE Queues'
  <2>1. /\ unassigned' = RemoveFirst(unassigned, r) /\ waiters' = waiters
        /\ req' = [req EXCEPT ![r] = "timed_out"] \/ req' = [req EXCEPT ![r] = "cancelled"]
    BY <1>2 DEF Expire, Cancel
  <2>2. /\ unassigned' \in Seq(Requests) /\ IsInjective(unassigned')
        /\ ToSet(unassigned') = ToSet(unassigned) \ {r}
        /\ unassigned = <<>> => unassigned' = <<>>
    BY <2>1, TakenOut DEF Queues, QueueConsistent
  <2>3. \A s \in Requests : req'[s] = "queued" <=> s # r /\ req[s] = "queued"
    BY <1>0, <2>1
  <2> QED
    BY <2>1, <2>2, <2>3 DEF Queues, QueueConsistent
<1>3. CASE Stop
  <2>1. unassigned' = <<>> /\ waiters' = <<>>
        /\ req' = [r \in Requests |-> IF r \in Pending THEN "cancelled" ELSE req[r]]
    BY <1>3 DEF Stop
  <2>2. \A r \in Requests : req'[r] # "queued"
    BY <2>1 DEF Pending
  <2>3. unassigned' \in Seq(Requests) /\ waiters' \in Seq(Calls) /\ DOMAIN unassigned' = {}
    BY <2>1, EmptySeq
  <2>4. IsInjective(unassigned') /\ ToSet(unassigned') = {}
    BY <2>3 DEF IsInjective, ToSet
  <2> QED
    BY <2>1, <2>2, <2>3, <2>4 DEF Queues, QueueConsistent
<1>4. ASSUME NEW e \in todo, Say(e) PROVE Queues'
  <2>1. UNCHANGED <<unassigned, waiters>>
    BY <1>4 DEF Say
  <2>2. CASE Assign(e) \/ SayError(e) \/ SayCancelled(e)
    BY <2>1, <2>2, QueuesStill DEF Assign, SayError, SayCancelled
  <2>3. CASE SayResult(e)
    <3>1. e.req \in Requests => req[e.req] = "completed"
      BY <2>3 DEF IInv, Told, SayResult
    <3>2. \A r \in Requests : req'[r] = "queued" <=> req[r] = "queued"
      BY <1>0, <2>3, <3>1 DEF SayResult, Verdict
    <3> QED
      BY <2>1, <3>2, QueuesStill
  <2> QED
    BY <1>4, <2>2, <2>3 DEF Say
<1>5. ASSUME NEW r \in Requests, Respond(r) PROVE Queues'
  <2>1. \A s \in Requests : req'[s] = "queued" <=> req[s] = "queued"
    BY <1>0, <1>5 DEF Respond, Answerable
  <2> QED
    BY <1>5, <2>1, QueuesStill DEF Respond
<1>6. CASE \/ \E r \in Requests : WaitCancel(r) \/ RespondFails(r) \/ Disconnect(r) \/ Purge(r)
           \/ \E w \in Calls : ClientGone(w)
           \/ UNCHANGED vars
  <2>1. UNCHANGED <<req, unassigned, waiters>>
    BY <1>6 DEF WaitCancel, RespondFails, Disconnect, Purge, ClientGone, vars, bridgeVars
  <2> QED
    BY <2>1, QueuesStill
<1> QED
  BY <1>1, <1>2, <1>3, <1>4, <1>5, <1>6, SubmitQueues DEF Next

----------------------------------------------------------------------------
(***************************************************************************)
(* What a client that holds a request can learn of its end.                *)
(***************************************************************************)
Assigns(e, r) == e.do = "assign" /\ e.req = r

Tells(e, r) == e.do = "tell" /\ e.req = r

\* The client has the request, or is about to be given it.
Given(r) == client[r] = "has" \/ \E e \in todo : Assigns(e, r)

\* A request is given out once, while it is assigned.
GivenOnce(r) ==
  /\ req[r] \in {"new", "refused", "queued", "timed_out", "completed"} => ~Given(r)
  /\ req[r] \in {"new", "refused", "queued", "timed_out"} =>
       client[r] = "none" /\ watch[r] = "none"
  /\ client[r] # "none" => \A e \in todo : ~Assigns(e, r)
  /\ \A e, f \in todo : Assigns(e, r) /\ Assigns(f, r) => e = f

\* A watcher that waits for the end of a request is told of it.
Watched(r) ==
  /\ \A e \in todo : Tells(e, r) => watch[r] # "none"
  /\ watch[r] = "waiting" =>
       \/ req[r] = "assigned"
       \/ req[r] = "cancelled" /\ (Tell(r, r) \in todo \/ (stopped /\ Tell("main", r) \in todo))
       \/ req[r] = "completed" /\ \E e \in todo : e.do = "respond" /\ e.req = r /\ e.watched
  /\ watch[r] = "unknown" => stopped \/ ~Given(r)

\* The end of a request that is given to a client stays to be found.
Findable(r) ==
  Given(r) /\ req[r] = "cancelled" /\ ~stopped =>
    watch[r] = "cancelled" \/ r \in terminal \/ Tell(r, r) \in todo

Reached(r) == GivenOnce(r) /\ Watched(r) /\ Findable(r)

Reach ==
  /\ client \in [Requests -> {"none", "has", "answered", "unanswered"}]
  /\ \A r \in Requests : Reached(r)

LEMMA ReachInit == Init => Reach
  BY DEF Init, Reach, Reached, GivenOnce, Watched, Findable, Given

\* Requests are given to waiters, and nothing else happens.
LEMMA GivingReach ==
  ASSUME IInv, Reach, UNCHANGED <<terminal, stopped, client, watch>>,
         NEW states \in [Requests -> States],
         \A r \in Requests : states[r] = req[r] \/ (req[r] = "new" /\ states[r] = "queued"),
         \A r \in Requests : \/ req'[r] = states[r]
                             \/ states[r] = "queued" /\ req'[r] = "assigned",
         todo \subseteq todo',
         \A e \in todo' \ todo : /\ e.do = "assign" /\ states[e.req] = "queued"
                                 /\ req'[e.req] = "assigned",
         \A e, f \in todo' \ todo : e.req = f.req => e = f
  PROVE  Reach'
<1>1. ASSUME NEW r \in Requests PROVE Reached(r)'
  <2>0. Reached(r) /\ (watch[r] = "cancelled" => req[r] = "cancelled")
    BY DEF Reach, IInv, Told
  <2>1. CASE \E e \in todo' \ todo : e.req = r
    <3>1. req[r] \in {"new", "queued"} /\ req'[r] = "assigned"
      BY <2>1
    <3>2. client[r] = "none" /\ \A e \in todo : ~Assigns(e, r)
      BY <2>0, <3>1 DEF Reached, GivenOnce, Given
    <3>3. \A e \in todo' : Tells(e, r) => e \in todo
      BY DEF Tells
    <3>5. GivenOnce(r)'
      BY <3>1, <3>2 DEF GivenOnce, Given, Assigns
    <3>6. watch[r] = "none"
      BY <2>0, <3>1 DEF Reached, GivenOnce
    <3> QED
      BY <2>0, <3>1, <3>3, <3>5, <3>6 DEF Reached, Watched, Findable
  <2>2. CASE ~\E e \in todo' \ todo : e.req = r
    <3>1. \A e \in todo' : Assigns(e, r) \/ Tells(e, r) => e \in todo
      BY <2>2 DEF Assigns, Tells
    <3>2. Given(r)' <=> Given(r)
      BY <3>1 DEF Given, Assigns
    <3>3. req'[r] = req[r] \/ (req[r] \in {"new", "queued"} /\ req'[r] \in {"queued", "assigned"})
      OBVIOUS
    <3> QED
      BY <2>0, <3>1, <3>2, <3>3 DEF Reached, GivenOnce, Watched, Findable, Assigns, Tells
  <2> QED
    BY <2>1, <2>2
<1> QED
  BY <1>1 DEF Reach

LEMMA WaitReach ==
  ASSUME IInv, Queues, Reach, NEW w \in Calls, Wait(w)
  PROVE  Reach'
<1>0. req \in [Requests -> States]
  BY DEF IInv, Shapes
<1>1. CASE Match("main", Append(waiters, w), unassigned, req)
  <2>1. Append(waiters, w) \in Seq(Calls) /\ unassigned \in Seq(Requests)
    BY DEF Queues
  <2>2. /\ ToSet(unassigned) = {r \in Requests : req[r] = "queued"}
        /\ \A e \in todo' \ todo : e.req \in ToSet(unassigned) /\ req'[e.req] = "assigned"
        /\ \A e, f \in todo' \ todo : e.req = f.req => e = f
    BY <1>0, <1>1, <2>1, MatchQueues DEF Queues, QueueConsistent
  <2>3. /\ \A r \in Requests : req'[r] = req[r] \/ (req[r] = "queued" /\ req'[r] = "assigned")
        /\ todo \subseteq todo' /\ \A e \in todo' \ todo : e.do = "assign"
    BY <1>0, <1>1, MatchAssigns
  <2> QED
    BY <1>0, <2>2, <2>3, GivingReach DEF Wait
<1>2. CASE UNCHANGED <<req, unassigned, waiters, todo, call>>
  BY <1>0, <1>2, GivingReach DEF Wait
<1> QED
  BY <1>1, <1>2 DEF Wait

LEMMA SubmitReach ==
  ASSUME IInv, Queues, Reach, NEW r \in Requests, Submit(r)
  PROVE  Reach'
<1>0. /\ req \in [Requests -> States] /\ req[r] = "new"
      /\ UNCHANGED <<terminal, stopped, client, watch>>
  BY DEF IInv, Shapes, Submit, clientVars
<1>1. CASE Match(r, waiters, Append(unassigned, r), [req EXCEPT ![r] = "queued"])
  <2> DEFINE states == [req EXCEPT ![r] = "queued"]
             un == Append(unassigned, r)
  <2>1. /\ states \in [Requests -> States]
        /\ \A s \in Requests : states[s] = "queued" <=> s = r \/ req[s] = "queued"
        /\ \A s \in Requests : states[s] = req[s] \/ (req[s] = "new" /\ states[s] = "queued")
    BY <1>0 DEF States
  <2>2. r \notin ToSet(unassigned)
    BY <1>0 DEF Queues, QueueConsistent
  <2>3. un \in Seq(Requests) /\ IsInjective(un) /\ ToSet(un) = ToSet(unassigned) \union {r}
    BY <2>2, Joined DEF Queues, QueueConsistent
  <2>4. Match(r, waiters, un, states) /\ waiters \in Seq(Calls)
    BY <1>1 DEF Queues
  <2> HIDE DEF states, un
  <2>5. ToSet(un) = {s \in Requests : states[s] = "queued"}
    BY <2>1, <2>3 DEF Queues, QueueConsistent
  <2>6. /\ \A e \in todo' \ todo : e.req \in ToSet(un) /\ req'[e.req] = "assigned"
        /\ \A e, f \in todo' \ todo : e.req = f.req => e = f
    BY <2>1, <2>3, <2>4, <2>5, MatchQueues
  <2>7. /\ \A s \in Requests : \/ req'[s] = states[s]
                               \/ states[s] = "queued" /\ req'[s] = "assigned"
        /\ todo \subseteq todo' /\ \A e \in todo' \ todo : e.do = "assign"
    BY <2>1, <2>4, MatchAssigns
  <2>8. \A e \in todo' \ todo : states[e.req] = "queued"
    BY <2>5, <2>6
  <2> QED
    BY <1>0, <2>1, <2>6, <2>7, <2>8, GivingReach
<1>2. CASE /\ req' = [req EXCEPT ![r] = "refused"]
           /\ todo' = todo \union {Error(r, r)}
  <2>1. ASSUME NEW s \in Requests PROVE Reached(s)'
    <3>1. Reached(s)
      BY DEF Reach
    <3>2. \A e \in todo' : Assigns(e, s) \/ Tells(e, s) => e \in todo
      BY <1>2 DEF Error, Assigns, Tells
    <3>3. Given(s)' <=> Given(s)
      BY <1>0, <1>2, <3>2 DEF Given, Assigns
    <3>4. req'[s] = req[s] \/ (req[s] = "new" /\ req'[s] = "refused")
      BY <1>0, <1>2
    <3> QED
      BY <1>0, <1>2, <3>1, <3>2, <3>3, <3>4 DEF Reached, GivenOnce, Watched, Findable, Assigns,
         Tells
  <2> QED
    BY <1>0, <2>1 DEF Reach
<1> QED
  BY <1>1, <1>2 DEF Submit

LEMMA ExpireReach ==
  ASSUME IInv, Reach, NEW r \in Requests, Expire(r)
  PROVE  Reach'
<1>0. /\ req \in [Requests -> States] /\ req[r] = "queued"
      /\ req' = [req EXCEPT ![r] = "timed_out"] /\ todo' = todo \union {Error("timer", r)}
      /\ UNCHANGED <<terminal, stopped, client, watch>>
  BY DEF IInv, Shapes, Expire, clientVars
<1>1. ASSUME NEW s \in Requests PROVE Reached(s)'
  <2>1. Reached(s)
    BY DEF Reach
  <2>2. \A e \in todo' : Assigns(e, s) \/ Tells(e, s) => e \in todo
    BY <1>0 DEF Error, Assigns, Tells
  <2>3. Given(s)' <=> Given(s)
    BY <1>0, <2>2 DEF Given, Assigns
  <2>4. req'[s] = req[s] \/ (req[s] = "queued" /\ req'[s] = "timed_out")
    BY <1>0
  <2> QED
    BY <1>0, <2>1, <2>2, <2>3, <2>4 DEF Reached, GivenOnce, Watched, Findable, Assigns, Tells
<1> QED
  BY <1>0, <1>1 DEF Reach

LEMMA CancelReach ==
  ASSUME IInv, Reach, NEW r \in Requests, Cancel(r)
  PROVE  Reach'
<1>0. /\ req \in [Requests -> States] /\ req[r] \in {"queued", "assigned"}
      /\ req' = [req EXCEPT ![r] = "cancelled"]
      /\ terminal' = IF req[r] = "assigned" THEN terminal \union {r} ELSE terminal
      /\ todo' = IF watch[r] = "waiting" THEN todo \union {Tell(r, r)} ELSE todo
      /\ UNCHANGED <<stopped, client, watch>>
  BY DEF IInv, Shapes, Cancel, clientVars, Pending
<1>1. ASSUME NEW s \in Requests PROVE Reached(s)'
  <2>1. Reached(s)
    BY DEF Reach
  <2>2. /\ \A e \in todo' : Assigns(e, s) => e \in todo
        /\ \A e \in todo' : Tells(e, s) => e \in todo \/ (s = r /\ watch[s] = "waiting")
    BY <1>0 DEF Tell, Assigns, Tells
  <2>3. Given(s)' <=> Given(s)
    BY <1>0, <2>2 DEF Given, Assigns
  <2>4. todo \subseteq todo' /\ terminal \subseteq terminal'
    BY <1>0
  <2>5. CASE s # r
    <3>1. req'[s] = req[s]
      BY <1>0, <2>5
    <3> QED
      BY <1>0, <2>1, <2>2, <2>3, <2>4, <2>5, <3>1 DEF Reached, GivenOnce, Watched, Findable,
         Assigns, Tells
  <2>6. CASE s = r
    <3>1. req'[s] = "cancelled"
      BY <1>0, <2>6
    <3>2. req[s] = "assigned" => s \in terminal'
      BY <1>0, <2>6
    <3>3. req[s] = "queued" => ~Given(s)
      BY <2>1 DEF Reached, GivenOnce
    <3>4. watch[s] = "waiting" => Tell(s, s) \in todo'
      BY <1>0, <2>6
    <3>5. GivenOnce(s)'
      BY <1>0, <2>1, <2>2, <2>4, <3>1 DEF Reached, GivenOnce, Assigns
    <3>6. Watched(s)'
      <4>1. \A e \in todo' : Tells(e, s) => watch'[s] # "none"
        BY <1>0, <2>1, <2>2 DEF Reached, Watched
      <4>2. watch'[s] = "unknown" => stopped' \/ ~Given(s)'
        BY <1>0, <2>1, <2>3 DEF Reached, Watched
      <4>3. watch'[s] = "waiting" => req'[s] = "cancelled" /\ Tell(s, s) \in todo'
        BY <1>0, <3>1, <3>4
      <4> QED
        BY <4>1, <4>2, <4>3 DEF Watched, Tells, Tell
    <3>7. Findable(s)'
      BY <1>0, <2>1, <2>3, <2>4, <2>6, <3>1, <3>2, <3>3 DEF Reached, Findable
    <3> QED
      BY <3>5, <3>6, <3>7 DEF Reached
  <2> QED
    BY <2>5, <2>6
<1> QED
  BY <1>0, <1>1 DEF Reach

LEMMA WaitCancelReach ==
  ASSUME IInv, Reach, NEW r \in Requests, WaitCancel(r)
  PROVE  Reach'
<1>0. /\ watch \in [Requests -> {"none", "waiting", "completed", "cancelled", "unknown"}]
      /\ req \in [Requests -> States]
      /\ client[r] # "none" /\ watch[r] = "none" /\ terminal' = terminal \ {r}
      /\ watch' = [watch EXCEPT ![r] = IF req[r] = "assigned" THEN "waiting"
                                       ELSE IF r \in terminal THEN req[r] ELSE "unknown"]
      /\ UNCHANGED <<req, stopped, todo, client>>
  BY DEF IInv, Shapes, WaitCancel
<1>1. ASSUME NEW s \in Requests PROVE Reached(s)'
  <2>1. Reached(s) /\ (s \in terminal => req[s] \in {"completed", "cancelled"})
    BY DEF Reach, IInv, Told
  <2>2. Given(s)' <=> Given(s)
    BY <1>0 DEF Given, Assigns
  <2>3. CASE s # r
    <3>1. watch'[s] = watch[s] /\ (s \in terminal' <=> s \in terminal)
      BY <1>0, <2>3
    <3> QED
      BY <1>0, <2>1, <2>2, <3>1 DEF Reached, GivenOnce, Watched, Findable, Assigns, Tells
  <2>4. CASE s = r
    <3>1. /\ req[s] \in {"assigned", "completed", "cancelled"}
          /\ req[s] = "completed" => ~Given(s)
      BY <1>0, <2>1, <2>4 DEF Reached, GivenOnce, States
    <3>2. req[s] = "cancelled" /\ Given(s) /\ ~stopped => s \in terminal
      <4>1. Tell(s, s) \in todo => watch[s] # "none"
        BY <2>1 DEF Reached, Watched, Tells, Tell
      <4> QED
        BY <1>0, <2>1, <2>4, <4>1 DEF Reached, Findable
    <3>3. watch'[s] = IF req[s] = "assigned" THEN "waiting"
                      ELSE IF s \in terminal THEN req[s] ELSE "unknown"
      BY <1>0, <2>4
    <3> QED
      BY <1>0, <2>1, <2>2, <3>1, <3>2, <3>3 DEF Reached, GivenOnce, Watched, Findable, Assigns,
         Tells
  <2> QED
    BY <2>3, <2>4
<1> QED
  BY <1>0, <1>1 DEF Reach

LEMMA RespondReach ==
  ASSUME IInv, Reach, NEW r \in Requests, Respond(r)
  PROVE  Reach'
<1> DEFINE answer == [do |-> "respond", by |-> "main", req |-> r, watched |-> watch[r] = "waiting"]
<1>0. /\ req \in [Requests -> States] /\ client[r] = "has" /\ req[r] = "assigned"
      /\ req' = [req EXCEPT ![r] = "completed"] /\ terminal' = terminal \union {r}
      /\ todo' = todo \union {answer} /\ client' = [client EXCEPT ![r] = "answered"]
      /\ answer.do = "respond" /\ answer.req = r /\ (answer.watched <=> watch[r] = "waiting")
      /\ UNCHANGED <<stopped, watch>>
  BY DEF IInv, Shapes, Respond, Answerable
<1> HIDE DEF answer
<1>1. ASSUME NEW s \in Requests PROVE Reached(s)'
  <2>1. Reached(s) /\ client \in [Requests -> {"none", "has", "answered", "unanswered"}]
    BY DEF Reach
  <2>2. \A e \in todo' : Assigns(e, s) \/ Tells(e, s) => e \in todo
    BY <1>0 DEF Assigns, Tells
  <2>3. CASE s # r
    <3>1. req'[s] = req[s] /\ client'[s] = client[s] /\ todo \subseteq todo'
          /\ terminal \subseteq terminal'
      BY <1>0, <2>1, <2>3
    <3>2. Given(s)' <=> Given(s)
      BY <1>0, <2>2, <3>1 DEF Given, Assigns
    <3> QED
      BY <1>0, <2>1, <2>2, <3>1, <3>2 DEF Reached, GivenOnce, Watched, Findable, Assigns, Tells
  <2>4. CASE s = r
    <3>1. req'[s] = "completed" /\ client'[s] = "answered"
      BY <1>0, <2>1, <2>4
    <3>2. \A e \in todo' : ~Assigns(e, s)
      BY <1>0, <2>1, <2>2, <2>4 DEF Reached, GivenOnce
    <3>3. ~Given(s)'
      BY <3>1, <3>2 DEF Given, Assigns
    <3>4. watch[s] = "waiting" =>
            \E e \in todo' : e.do = "respond" /\ e.req = s /\ e.watched
      BY <1>0, <2>4
    <3>5. \A e \in todo' : Tells(e, s) => watch[s] # "none"
      BY <2>1, <2>2 DEF Reached, Watched
    <3> QED
      BY <1>0, <3>1, <3>2, <3>3, <3>4, <3>5 DEF Reached, GivenOnce, Watched, Findable, Assigns,
         Tells
  <2> QED
    BY <2>3, <2>4
<1> QED
  BY <1>0, <1>1 DEF Reach

\* The client loses the request, or nothing that matters happens.
LEMMA ClientReach ==
  ASSUME IInv, Reach, UNCHANGED <<req, terminal, stopped, todo, watch>>,
         client' \in [Requests -> {"none", "has", "answered", "unanswered"}],
         \A r \in Requests : client'[r] = client[r] \/ (client[r] = "has" /\ client'[r] # "has")
  PROVE  Reach'
<1>1. ASSUME NEW s \in Requests PROVE Reached(s)'
  <2>1. Reached(s)
    BY DEF Reach
  <2>2. Given(s)' => Given(s)
    BY DEF Given, Assigns
  <2>3. req[s] \in {"new", "refused", "queued", "timed_out"} => client'[s] = client[s]
    BY <2>1 DEF Reached, GivenOnce
  <2>4. client'[s] # "none" => client[s] # "none"
    OBVIOUS
  <2> QED
    BY <2>1, <2>2, <2>3, <2>4 DEF Reached, GivenOnce, Watched, Findable, Assigns, Tells
<1> QED
  BY <1>1 DEF Reach

LEMMA StopReach ==
  ASSUME IInv, Reach, Stop
  PROVE  Reach'
<1>0. /\ req' = [r \in Requests |-> IF r \in Pending THEN "cancelled" ELSE req[r]]
      /\ todo \subseteq todo' /\ stopped' = TRUE
      /\ \A e \in todo' : \/ e \in todo
                          \/ \E r \in Pending : e = Error("main", r)
                          \/ \E r \in Pending : e = Tell("main", r) /\ watch[r] = "waiting"
      /\ \A r \in Pending : watch[r] = "waiting" => Tell("main", r) \in todo'
      /\ UNCHANGED <<terminal, client, watch>>
  BY DEF Stop
<1>1. ASSUME NEW s \in Requests PROVE Reached(s)'
  <2>1. Reached(s)
    BY DEF Reach
  <2>2. \A e \in todo' : Assigns(e, s) => e \in todo
    BY <1>0 DEF Assigns, Error, Tell
  <2>3. \A e \in todo' : Tells(e, s) => e \in todo \/ watch[s] = "waiting"
    BY <1>0 DEF Tells, Error, Tell
  <2>4. Given(s)' <=> Given(s)
    BY <1>0, <2>2 DEF Given, Assigns
  <2>5. \/ req'[s] = req[s] /\ s \notin Pending
        \/ req'[s] = "cancelled" /\ req[s] \in {"queued", "assigned"}
    BY <1>0 DEF Pending
  <2> QED
    BY <1>0, <2>1, <2>2, <2>3, <2>4, <2>5 DEF Reached, GivenOnce, Watched, Findable, Assigns, Tells
<1> QED
  BY <1>0, <1>1 DEF Reach

LEMMA AssignReach ==
  ASSUME IInv, Reach, NEW e \in todo, Say(e), Assign(e)
  PROVE  Reach'
<1>0. /\ todo' = todo \ {e} /\ e.do = "assign"
      /\ client' = [client EXCEPT ![e.req] = "has"] \/ client' = client
      /\ UNCHANGED <<req, terminal, stopped, watch>>
  BY DEF Say, Assign
<1>1. client \in [Requests -> {"none", "has", "answered", "unanswered"}]
  BY DEF Reach
<1>2. ASSUME NEW s \in Requests PROVE Reached(s)'
  <2>1. Reached(s)
    BY DEF Reach
  <2>2. \A f \in todo' : f \in todo
    BY <1>0
  <2>3. /\ Tell(s, s) \in todo => Tell(s, s) \in todo'
        /\ Tell("main", s) \in todo => Tell("main", s) \in todo'
    BY <1>0 DEF Tell
  <2>4. CASE e.req # s
    <3>1. client'[s] = client[s]
      BY <1>0, <1>1, <2>4
    <3>2. \A f \in todo : f.req = s => f \in todo'
      BY <1>0, <2>4
    <3>3. Given(s)' <=> Given(s)
      BY <2>2, <3>1, <3>2 DEF Given, Assigns
    <3> QED
      BY <1>0, <2>1, <2>2, <2>3, <3>1, <3>2, <3>3 DEF Reached, GivenOnce, Watched, Findable,
         Assigns, Tells
  <2>5. CASE e.req = s
    <3>1. Given(s) /\ \A f \in todo' : ~Assigns(f, s)
      BY <1>0, <2>1, <2>5 DEF Given, Assigns, Reached, GivenOnce
    <3>2. req[s] \notin {"new", "refused", "queued", "timed_out", "completed"}
      BY <2>1, <3>1 DEF Reached, GivenOnce
    <3> QED
      BY <1>0, <2>1, <2>2, <2>3, <3>1, <3>2 DEF Reached, GivenOnce, Watched, Findable, Assigns,
         Tells
  <2> QED
    BY <2>4, <2>5
<1> QED
  BY <1>0, <1>1, <1>2 DEF Reach

LEMMA SayErrorReach ==
  ASSUME IInv, Reach, NEW e \in todo, Say(e), SayError(e)
  PROVE  Reach'
<1>0. /\ todo' = todo \ {e} /\ e.do = "error"
      /\ UNCHANGED <<req, terminal, stopped, client, watch>>
  BY DEF Say, SayError, clientVars
<1>1. ASSUME NEW s \in Requests PROVE Reached(s)'
  <2>1. Reached(s)
    BY DEF Reach
  <2>2. \A f \in todo : f.do # "error" => f \in todo'
    BY <1>0
  <2>3. /\ Tell(s, s) \in todo => Tell(s, s) \in todo'
        /\ Tell("main", s) \in todo => Tell("main", s) \in todo'
    BY <1>0 DEF Tell
  <2>4. Given(s)' <=> Given(s)
    BY <1>0, <2>2 DEF Given, Assigns
  <2> QED
    BY <1>0, <2>1, <2>2, <2>3, <2>4 DEF Reached, GivenOnce, Watched, Findable, Assigns, Tells
<1> QED
  BY <1>0, <1>1 DEF Reach

LEMMA SayResultReach ==
  ASSUME IInv, Reach, NEW e \in todo, Say(e), SayResult(e)
  PROVE  Reach'
<1>0. /\ todo' = todo \ {e} /\ e.do = "respond"
      /\ req' = [req EXCEPT ![e.req] = Verdict(e.req)]
      /\ \/ /\ e.watched /\ watch' = [watch EXCEPT ![e.req] = Verdict(e.req)]
            /\ terminal' = terminal \ {e.req}
         \/ ~e.watched /\ UNCHANGED <<watch, terminal>>
      /\ Verdict(e.req) \in {"completed", "cancelled"}
      /\ UNCHANGED <<stopped, client>>
  BY DEF Say, SayResult, Verdict
<1>1. req \in [Requests -> States]
      /\ watch \in [Requests -> {"none", "waiting", "completed", "cancelled", "unknown"}]
  BY DEF IInv, Shapes
<1>2. ASSUME NEW s \in Requests PROVE Reached(s)'
  <2>1. Reached(s) /\ OneAnswer(s) /\ Told(s)
    BY DEF Reach, IInv
  <2>2. \A f \in todo : f.do # "respond" => f \in todo'
    BY <1>0
  <2>3. /\ Tell(s, s) \in todo => Tell(s, s) \in todo'
        /\ Tell("main", s) \in todo => Tell("main", s) \in todo'
    BY <1>0 DEF Tell
  <2>4. Given(s)' <=> Given(s)
    BY <1>0, <2>2 DEF Given, Assigns
  <2>5. CASE e.req # s
    <3>1. req'[s] = req[s] /\ watch'[s] = watch[s] /\ (s \in terminal => s \in terminal')
      BY <1>0, <1>1, <2>5
    <3>2. \A f \in todo : f.req = s => f \in todo'
      BY <1>0, <2>5
    <3> QED
      BY <1>0, <2>1, <2>3, <2>4, <3>1, <3>2 DEF Reached, GivenOnce, Watched, Findable, Assigns,
         Tells
  <2>6. CASE e.req = s
    <3>1. req[s] = "completed" /\ ~Given(s)
      BY <1>0, <2>1, <2>6 DEF Told, Reached, GivenOnce
    <3>2. req'[s] \in {"completed", "cancelled"}
      BY <1>0, <1>1, <2>6
    <3>3. watch[s] = "waiting" => e.watched
      <4>1. \A f \in todo : f.do = "respond" /\ f.req = s => f = e
        BY <1>0, <2>1, <2>6 DEF OneAnswer, Owed
      <4> QED
        BY <2>1, <3>1, <4>1 DEF Reached, Watched
    <3>4. watch'[s] \in {"completed", "cancelled"} \/ (watch'[s] = watch[s] /\ watch[s] # "waiting")
      BY <1>0, <1>1, <2>6, <3>3
    <3> QED
      BY <1>0, <2>1, <2>4, <3>1, <3>2, <3>4 DEF Reached, GivenOnce, Watched, Findable, Assigns,
         Tells
  <2> QED
    BY <2>5, <2>6
<1> QED
  BY <1>0, <1>2 DEF Reach

LEMMA SayCancelledReach ==
  ASSUME IInv, Reach, NEW e \in todo, Say(e), SayCancelled(e)
  PROVE  Reach'
<1>0. /\ todo' = todo \ {e} /\ e.do = "tell"
      /\ watch' = [watch EXCEPT ![e.req] = "cancelled"] /\ terminal' = terminal \ {e.req}
      /\ UNCHANGED <<req, stopped, client>>
  BY DEF Say, SayCancelled
<1>1. watch \in [Requests -> {"none", "waiting", "completed", "cancelled", "unknown"}]
  BY DEF IInv, Shapes
<1>2. ASSUME NEW s \in Requests PROVE Reached(s)'
  <2>1. Reached(s) /\ Told(s)
    BY DEF Reach, IInv
  <2>2. \A f \in todo : f.do # "tell" => f \in todo'
    BY <1>0
  <2>3. Given(s)' <=> Given(s)
    BY <1>0, <2>2 DEF Given, Assigns
  <2>4. CASE e.req # s
    <3>1. watch'[s] = watch[s] /\ (s \in terminal => s \in terminal')
      BY <1>0, <1>1, <2>4
    <3>2. /\ Tell(s, s) \in todo => Tell(s, s) \in todo'
          /\ Tell("main", s) \in todo => Tell("main", s) \in todo'
      BY <1>0, <2>4 DEF Tell
    <3> QED
      BY <1>0, <2>1, <2>2, <2>3, <3>1, <3>2 DEF Reached, GivenOnce, Watched, Findable, Assigns,
         Tells
  <2>5. CASE e.req = s
    <3>1. watch'[s] = "cancelled" /\ req[s] = "cancelled"
      BY <1>0, <1>1, <2>1, <2>5 DEF Told
    <3> QED
      BY <1>0, <2>1, <2>3, <3>1 DEF Reached, GivenOnce, Watched, Findable, Assigns, Tells
  <2> QED
    BY <2>4, <2>5
<1> QED
  BY <1>0, <1>2 DEF Reach

\* An entry of _terminal is purged only when nobody is still to look for it.
LEMMA PurgeReach ==
  ASSUME IInv, Reach, NEW r \in Requests, Purge(r)
  PROVE  Reach'
<1>0. /\ terminal' = terminal \ {r}
      /\ watch[r] # "none" \/ ~Given(r)
      /\ UNCHANGED <<req, stopped, todo, client, watch>>
  BY DEF Purge, clientVars, Given, Assigns
<1>1. ASSUME NEW s \in Requests PROVE Reached(s)'
  <2>1. /\ Reached(s) /\ Told(s)
        /\ watch[s] \in {"none", "waiting", "completed", "cancelled", "unknown"}
    BY DEF Reach, IInv, Shapes
  <2>2. Given(s)' <=> Given(s)
    BY <1>0 DEF Given, Assigns
  <2>3. CASE s # r
    BY <1>0, <2>1, <2>2, <2>3 DEF Reached, GivenOnce, Watched, Findable, Assigns, Tells
  <2>4. CASE s = r
    <3>1. Given(s) /\ req[s] = "cancelled" /\ ~stopped =>
            watch[s] = "cancelled" \/ Tell(s, s) \in todo
      BY <1>0, <2>1, <2>4 DEF Reached, Watched, Told
    <3> QED
      BY <1>0, <2>1, <2>2, <3>1 DEF Reached, GivenOnce, Watched, Findable, Assigns, Tells
  <2> QED
    BY <2>3, <2>4
<1> QED
  BY <1>0, <1>1 DEF Reach

LEMMA ReachNext == IInv /\ Queues /\ Reach /\ [Next]_vars => Reach'
<1> SUFFICES ASSUME IInv, Queues, Reach, [Next]_vars PROVE Reach'
  OBVIOUS
<1>1. CASE \/ \E r \in Requests : RespondFails(r) \/ Disconnect(r)
           \/ \E w \in Calls : ClientGone(w)
           \/ UNCHANGED vars
  <2>1. UNCHANGED <<req, terminal, stopped, todo, watch>>
    BY <1>1 DEF RespondFails, Disconnect, ClientGone, vars, bridgeVars, clientVars
  <2>2. /\ client' \in [Requests -> {"none", "has", "answered", "unanswered"}]
        /\ \A r \in Requests : client'[r] = client[r] \/ (client[r] = "has" /\ client'[r] # "has")
    BY <1>1 DEF RespondFails, Disconnect, ClientGone, vars, clientVars, Reach
  <2> QED
    BY <2>1, <2>2, ClientReach
<1>2. ASSUME NEW e \in todo, Say(e) PROVE Reach'
  BY <1>2, AssignReach, SayErrorReach, SayResultReach, SayCancelledReach DEF Say
<1> QED
  BY <1>1, <1>2, WaitReach, SubmitReach, ExpireReach, CancelReach, WaitCancelReach, RespondReach,
     StopReach, PurgeReach DEF Next

----------------------------------------------------------------------------
(***************************************************************************)
(* The promise of CallAnswers.                                             *)
(***************************************************************************)
Verdicts == [r \in Requests |-> IF watch[r] \in {"completed", "cancelled"} THEN watch[r]
                                ELSE "nothing"]

\* One call is answered, or judged, or both, and the others are left alone.
LEMMA AnsweredStep ==
  ASSUME NEW r \in Requests, Shapes, Shapes',
         \A s \in Requests \ {r} : delivered'[s] = delivered[s] /\ watch'[s] = watch[s],
         \/ delivered'[r] = delivered[r]
         \/ /\ delivered[r] = "nothing" /\ delivered'[r] \in {"result", "error"}
            /\ delivered'[r] = "result" => Verdicts[r] # "cancelled",
         \/ Verdicts'[r] = Verdicts[r]
         \/ /\ Verdicts[r] = "nothing" /\ Verdicts'[r] \in {"completed", "cancelled"}
            /\ Verdicts'[r] = "completed" <=> delivered'[r] = "result",
         delivered'[r] # "error" \/ delivered'[r] = delivered[r] \/ Verdicts'[r] = Verdicts[r]
  PROVE  [Answers!Next]_<<delivered, Verdicts>>
<1>0. /\ delivered \in [Requests -> {"nothing", "result", "error"}]
      /\ delivered' \in [Requests -> {"nothing", "result", "error"}]
  BY DEF Shapes
<1>1. \A s \in Requests \ {r} : Verdicts'[s] = Verdicts[s]
  BY DEF Verdicts
<1>2. /\ DOMAIN Verdicts = Requests /\ DOMAIN Verdicts' = Requests
      /\ Verdicts = [s \in Requests |-> Verdicts[s]] /\ Verdicts' = [s \in Requests |-> Verdicts'[s]]
  BY DEF Verdicts
<1> HIDE DEF Verdicts
<1>3. /\ delivered' = [delivered EXCEPT ![r] = delivered'[r]]
      /\ Verdicts' = [Verdicts EXCEPT ![r] = Verdicts'[r]]
  BY <1>0, <1>1, <1>2
<1>4. delivered'[r] = delivered[r] => delivered' = delivered
  BY <1>0, <1>3
<1>5. Verdicts'[r] = Verdicts[r] => Verdicts' = Verdicts
  BY <1>2, <1>3
<1>6. \/ UNCHANGED <<delivered, Verdicts>>
      \/ \E what \in {"result", "error"} :
           /\ delivered[r] = "nothing" /\ (what = "result" => Verdicts[r] # "cancelled")
           /\ delivered' = [delivered EXCEPT ![r] = what] /\ UNCHANGED Verdicts
      \/ \E what \in {"completed", "cancelled"} :
           /\ Verdicts[r] = "nothing" /\ (what = "completed" <=> delivered'[r] = "result")
           /\ Verdicts' = [Verdicts EXCEPT ![r] = what] /\ UNCHANGED delivered
      \/ /\ delivered[r] = "nothing" /\ delivered' = [delivered EXCEPT ![r] = "result"]
         /\ Verdicts[r] = "nothing" /\ Verdicts' = [Verdicts EXCEPT ![r] = "completed"]
         /\ delivered'[r] = "result"
  BY <1>3, <1>4, <1>5
<1> QED
  BY <1>6 DEF Answers!Next, Answers!Answer, Answers!Judge, Verdicts

LEMMA StepKeepsAnswers ==
  ASSUME IInv, IInv', [Next]_vars
  PROVE  [Answers!Next]_<<delivered, Verdicts>>
<1>0. Shapes /\ Shapes' /\ \A r \in Requests : OneAnswer(r) /\ Told(r)
  BY DEF IInv
<1>1. CASE UNCHANGED <<watch, delivered>>
  BY <1>1 DEF Verdicts
<1>2. ASSUME NEW r \in Requests, WaitCancel(r) PROVE [Answers!Next]_<<delivered, Verdicts>>
  <2>1. /\ Quiet("main") /\ watch[r] = "none" /\ UNCHANGED delivered
        /\ watch' = [watch EXCEPT ![r] = IF req[r] = "assigned" THEN "waiting"
                                         ELSE IF r \in terminal THEN req[r] ELSE "unknown"]
    BY <1>2 DEF WaitCancel, historyVars
  <2>2. r \in terminal => \/ req[r] = "completed" /\ delivered[r] = "result"
                          \/ req[r] = "cancelled" /\ delivered[r] # "result"
    BY <1>0, <2>1 DEF Told, Quiet
  <2>3. /\ watch'[r] \in {"waiting", "unknown", "completed", "cancelled"}
        /\ watch'[r] = "completed" => delivered[r] = "result"
        /\ watch'[r] = "cancelled" => delivered[r] # "result"
    BY <1>0, <2>1, <2>2 DEF Shapes
  <2>4. \A s \in Requests \ {r} : watch'[s] = watch[s]
    BY <1>0, <2>1 DEF Shapes
  <2>5. Verdicts[r] = "nothing" /\ (Verdicts'[r] = "nothing" \/ Verdicts'[r] = watch'[r])
    BY <2>1 DEF Verdicts
  <2>6. Verdicts'[r] \in {"nothing", "completed", "cancelled"}
    BY DEF Verdicts
  <2> QED
    BY <1>0, <2>1, <2>3, <2>4, <2>5, <2>6, AnsweredStep
<1>3. ASSUME NEW e \in todo, e.req \in Requests, Say(e) PROVE [Answers!Next]_<<delivered, Verdicts>>
  <2> DEFINE r == e.req
  <2>1. CASE Assign(e)
    BY <1>1, <2>1 DEF Assign, historyVars
  <2>2. CASE SayError(e)
    <3>1. /\ watch' = watch /\ (delivered' = delivered \/ delivered' = [delivered EXCEPT ![r] = "error"])
      BY <2>2 DEF SayError, Write, clientVars
    <3>2. delivered[r] = "nothing"
      BY <1>0, <1>3, <2>2 DEF SayError, OneAnswer, Told, Owed
    <3> QED
      BY <1>0, <1>3, <3>1, <3>2, AnsweredStep DEF Shapes, Verdicts
  <2>3. CASE SayResult(e)
    <3>1. /\ e.do = "respond"
          /\ delivered' = IF conn[r] = "open" THEN [delivered EXCEPT ![r] = "result"] ELSE delivered
          /\ watch' = watch \/ watch' = [watch EXCEPT ![r] = Verdict(r)]
      BY <2>3 DEF SayResult, Write
    <3>2. /\ delivered[r] = "nothing" /\ req[r] = "completed"
          /\ watch[r] \notin {"completed", "cancelled"}
      BY <1>0, <1>3, <3>1 DEF OneAnswer, Told, Owed
    <3>3. /\ delivered'[r] = IF conn[r] = "open" THEN "result" ELSE "nothing"
          /\ watch'[r] \in {watch[r], IF conn[r] = "open" THEN "completed" ELSE "cancelled"}
          /\ \A s \in Requests \ {r} : delivered'[s] = delivered[s] /\ watch'[s] = watch[s]
      BY <1>0, <1>3, <3>1, <3>2 DEF Shapes, Verdict
    <3> QED
      BY <1>0, <1>3, <3>2, <3>3, AnsweredStep DEF Verdicts
  <2>4. CASE SayCancelled(e)
    <3>1. e.do = "tell" /\ watch' = [watch EXCEPT ![r] = "cancelled"] /\ UNCHANGED delivered
      BY <2>4 DEF SayCancelled, historyVars
    <3>2. delivered[r] # "result" /\ watch[r] # "completed"
      BY <1>0, <1>3, <3>1 DEF Told
    <3> QED
      BY <1>0, <1>3, <3>1, <3>2, AnsweredStep DEF Shapes, Verdicts
  <2> QED
    BY <1>3, <2>1, <2>2, <2>3, <2>4 DEF Say
<1>4. ASSUME NEW e \in todo, e.req \notin Requests, Say(e)
      PROVE  [Answers!Next]_<<delivered, Verdicts>>
  <2>1. UNCHANGED <<watch, delivered>>
    BY <1>0, <1>4 DEF Say, Assign, SayError, SayResult, SayCancelled, Write, Shapes, clientVars,
       historyVars
  <2> QED
    BY <1>1, <2>1
<1>5. CASE \/ Stop \/ \E w \in Calls : Wait(w) \/ ClientGone(w)
           \/ \E r \in Requests : \/ Submit(r) \/ Expire(r) \/ Cancel(r) \/ Respond(r)
                                  \/ RespondFails(r) \/ Disconnect(r) \/ Purge(r)
           \/ UNCHANGED vars
  <2>1. UNCHANGED <<watch, delivered>>
    BY <1>5 DEF Stop, Wait, ClientGone, Submit, Expire, Cancel, Respond, RespondFails, Disconnect,
       Purge, vars, clientVars, historyVars
  <2> QED
    BY <1>1, <2>1
<1> QED
  BY <1>2, <1>3, <1>4, <1>5 DEF Next

----------------------------------------------------------------------------
(***************************************************************************)
(* The theorems.                                                           *)
(***************************************************************************)
\* The inductive invariant holds in every state of every behaviour of the
\* rendezvous, whatever clients and PeerSwap do (rendezvous.py:107-457).
THEOREM Invariance == Spec => []IInv
  BY Initially, StepKeeps, PTL DEF Spec

\* PeerSwap gets at most one answer to each of its calls, whichever of the
\* response, the timer, the shutdown and the disconnect come first, for any
\* number of calls and threads (rendezvous.py:197-283 and 403-457).
THEOREM OneAnswerOnly == Spec => []AnsweredOnce
<1>1. IInv => AnsweredOnce
  BY DEF IInv, OneAnswer, AnsweredOnce
<1> QED
  BY <1>1, Invariance, PTL

\* The cancellation watcher is told "completed" only when PeerSwap has the
\* result, and "cancelled" only when it never gets it (rendezvous.py:270-282).
THEOREM WatchersHearTheTruth == Spec => []VerdictTrue
<1>1. IInv => VerdictTrue
  BY DEF IInv, Told, VerdictTrue
<1> QED
  BY <1>1, Invariance, PTL

\* The rendezvous implements CallAnswers: for any number of calls, clients and
\* threads, each call is answered at most once, and its watcher is told at most
\* one verdict, which what PeerSwap received bears out for ever after.
THEOREM AnswersKept == Spec => KeepsAnswers
<1>1. Init => Answers!Init
  BY DEF Init, Answers!Init
<1>2. IInv /\ IInv' /\ [Next]_vars => [Answers!Next]_<<delivered, Verdicts>>
  BY StepKeepsAnswers
<1> QED
  BY <1>1, <1>2, Invariance, PTL
     DEF Spec, KeepsAnswers, Answers!Spec, Verdicts

\* No waiter waits beside a queued request and the queue holds exactly the
\* queued requests, each once: _match_locked drops no waiter, for any number of
\* calls and any limit (rendezvous.py:369-391).
THEOREM QueuesConsistent == Spec => []QueueConsistent
<1>1. Queues => QueueConsistent
  BY DEF Queues
<1> QED
  BY <1>1, QueuesInit, QueuesNext, Invariance, PTL DEF Spec

\* A client that holds a request PeerSwap has abandoned can learn of it, in
\* every interleaving of cancel(), the watcher's registration, the purges and
\* the answers under way (rendezvous.py:285-330).
THEOREM CancelIsFindable == Spec => []CancelReachesClient
<1>1. Reach => CancelReachesClient
  BY DEF Reach, Reached, Findable, Given, CancelReachesClient
<1> QED
  BY <1>1, QueuesInit, QueuesNext, ReachInit, ReachNext, Invariance, PTL DEF Spec

\* A watcher waits only while its request is assigned or a thread that has left
\* the lock still has to tell it of the end.
WatcherOwed ==
  \A r \in Requests : watch[r] = "waiting" /\ r \notin Pending =>
    \E e \in todo : e.req = r /\ (e.do = "tell" \/ (e.do = "respond" /\ e.watched))

\* No cancellation watcher is lost, whichever of the response, cancel(), stop()
\* and its registration come first: cancel(), respond() and stop() each take the
\* watcher with them under the lock (rendezvous.py:222-330).  The safety part
\* of WatcherHears.
THEOREM NoWatcherIsLost == Spec => []WatcherOwed
<1>1. Reach => WatcherOwed
  <2> SUFFICES ASSUME Reach, NEW r \in Requests, watch[r] = "waiting", r \notin Pending
               PROVE  \E e \in todo : e.req = r /\ (e.do = "tell" \/ (e.do = "respond" /\ e.watched))
    BY DEF WatcherOwed
  <2>1. req[r] # "assigned" /\ Watched(r)
    BY DEF Reach, Reached, Pending
  <2>2. CASE Tell(r, r) \in todo \/ Tell("main", r) \in todo
    BY <2>2 DEF Tell
  <2>3. CASE \E e \in todo : e.do = "respond" /\ e.req = r /\ e.watched
    BY <2>3
  <2> QED
    BY <2>1, <2>2, <2>3 DEF Watched
<1> QED
  BY <1>1, QueuesInit, QueuesNext, ReachInit, ReachNext, Invariance, PTL DEF Spec

----------------------------------------------------------------------------
(***************************************************************************)
(* The inductive invariant.                                                *)
(***************************************************************************)
Types ==
  /\ pending \subseteq Callers
  /\ box \in [Callers -> {"none", "ok", "refused", "failed"}]
  /\ at \in [Callers -> {"idle", "wait", "stop", "check", "register", "write",
                         "send", "get"} \union Settled]
  /\ stop \in [Stoppers -> {"no", "take", "kill", "fail", "done"}]

\* Before the child is started nothing has happened.
FirstStart ==
  /\ loop = "start" =>
       /\ child = "none" /\ ~stopping
       /\ \A c \in Callers : at[c] = "idle"
       /\ \A s \in Stoppers : stop[s] = "no"
  /\ child = "none" => loop = "start"

\* Only stop() takes the process away, and it goes on to end a living child.
TakenToEnd ==
  /\ child # "none" /\ ~process => stopping
  /\ child = "alive" /\ stopping => \E s \in Stoppers : stop[s] = "kill"

\* While nobody has stopped the child its output is read.
OutputRead ==
  child = "alive" /\ ~stopping => reader \in {"read", "rpc"}

\* A call is registered before it is written, and written only to a child;
\* from then on somebody is left to answer it.
Attended(c) ==
  /\ at[c] \in {"write", "send", "get"} => c \in pending
  /\ at[c] = "get" => child # "none"
  /\ Waiting(c) /\ stopping => \E s \in Stoppers : WillFail(s)
  /\ Waiting(c) /\ ~stopping => reader \in {"read", "rpc", "leave", "failing"}

\* An open hook has no thread yet, and a thread calls stop() once.
NotYetStopping ==
  /\ open \subseteq Hooks /\ \A c \in open : at[c] = "idle"
  /\ \A c \in PluginCalls : at[c] \in {"idle", "wait"} => stop[c] = "no"
  /\ loop \in {"start", "manifest", "idle", "notify"} => stop["pyln"] = "no"

ChildInv ==
  /\ NotYetStopping
  /\ Types /\ FirstStart /\ TakenToEnd /\ OutputRead
  /\ \A c \in Callers : Attended(c)

----------------------------------------------------------------------------
\* Which threads the calls and the bridge itself have.
LEMMA ChildMembers ==
  /\ PluginCalls \subseteq Callers /\ PluginCalls \subseteq Stoppers
  /\ Methods \subseteq PluginCalls /\ Hooks \subseteq PluginCalls
  /\ "getmanifest" \in Callers /\ "init" \in Callers
  /\ "pyln" \in Stoppers /\ "init" \in Stoppers
  /\ "pyln" \notin PluginCalls /\ "init" \notin PluginCalls /\ "getmanifest" \notin PluginCalls
  /\ Methods \intersect Hooks = {}
  BY CallsAssumption DEF PluginCalls, Callers, Stoppers

\* Nothing has been started.
LEMMA ChildInitInv == ChildInit => ChildInv
  BY ChildMembers DEF ChildInit, ChildInv, NotYetStopping, Types, FirstStart, TakenToEnd, OutputRead,
     Attended, Waiting, Settled

(***************************************************************************)
(* A step of a request.                                                    *)
(***************************************************************************)
LEMMA CallerIInv ==
  ASSUME ChildInv, NEW c \in Callers, Request(c) \/ GetTimesOut(c)
  PROVE  ChildInv'
<1> USE ChildMembers DEF ChildInv
<1>1. Types'
  BY DEF Request, Waited, TimedOut, Check, Register, WriteRequest, Send, Get, GetTimesOut, Drop,
     Goto, OnlyAt, control, threads, pipes, Types, Settled
<1>2. FirstStart'
  BY DEF Request, Waited, TimedOut, Check, Register, WriteRequest, Send, Get, GetTimesOut, Drop,
     Goto, OnlyAt, control, threads, pipes, Types, FirstStart, Settled
<1>3. OutputRead'
  BY DEF Request, Waited, TimedOut, Check, Register, WriteRequest, Send, Get, GetTimesOut, Drop,
     Goto, OnlyAt, control, threads, pipes, Types, FirstStart, TakenToEnd, OutputRead
<1>4. NotYetStopping'
  BY DEF Request, Waited, TimedOut, Check, Register, WriteRequest, Send, Get, GetTimesOut, Drop,
     Goto, OnlyAt, control, threads, pipes, Types, NotYetStopping
<1>5. TakenToEnd'
  BY DEF Request, Waited, TimedOut, Check, Register, WriteRequest, Send, Get, GetTimesOut, Drop,
     Goto, OnlyAt, control, threads, pipes, Types, FirstStart, TakenToEnd, NotYetStopping
<1>6. ASSUME NEW x \in Callers PROVE Attended(x)'
  BY DEF Request, Waited, TimedOut, Check, Register, WriteRequest, Send, Get, GetTimesOut, Drop,
     Goto, OnlyAt, control, threads, pipes, Types, FirstStart, TakenToEnd, OutputRead, Attended,
     Waiting, WillFail, Settled, NotYetStopping
<1> QED
  BY <1>1, <1>2, <1>3, <1>4, <1>5, <1>6

(***************************************************************************)
(* A step of stop().                                                       *)
(***************************************************************************)
LEMMA StopIInv ==
  ASSUME ChildInv, NEW s \in Stoppers, StopProcess(s)
  PROVE  ChildInv'
<1> USE ChildMembers DEF ChildInv
<1>1. Types'
  BY DEF StopProcess, StopTake, StopKill, StopFail, Fail, control, threads, pipes, Types, Settled
<1>2. FirstStart'
  BY DEF StopProcess, StopTake, StopKill, StopFail, Fail, control, threads, pipes, Types, FirstStart,
     Settled
<1>3. OutputRead'
  BY DEF StopProcess, StopTake, StopKill, StopFail, Fail, control, threads, pipes, Types, FirstStart,
     TakenToEnd, OutputRead
<1>4. NotYetStopping'
  BY DEF StopProcess, StopTake, StopKill, StopFail, Fail, control, threads, pipes, Types,
     NotYetStopping
<1>5. TakenToEnd'
  <2>1. CASE StopTake(s)
    BY <2>1 DEF StopTake, pipes, Types, TakenToEnd
  <2>2. CASE StopKill(s)
    BY <2>2 DEF StopKill, control, TakenToEnd, FirstStart
  <2>3. CASE StopFail(s)
    BY <2>3 DEF StopFail, control, pipes, Types, TakenToEnd
  <2> QED
    BY <2>1, <2>2, <2>3 DEF StopProcess
<1>6. ASSUME NEW x \in Callers PROVE Attended(x)'
  BY DEF StopProcess, StopTake, StopKill, StopFail, Fail, control, threads, pipes, Types, FirstStart,
     TakenToEnd, OutputRead, Attended, Waiting, WillFail, Settled, NotYetStopping
<1> QED
  BY <1>1, <1>2, <1>3, <1>4, <1>5, <1>6

(***************************************************************************)
(* A step of the reader.                                                   *)
(***************************************************************************)
LEMMA ReaderIInv ==
  ASSUME ChildInv, Reader \/ Forwarded
  PROVE  ChildInv'
<1> USE ChildMembers DEF ChildInv
<1>1. Types'
  BY DEF Reader, ReadResponse, ReadRequest, EndOfOutput, Leave, FailPending, Forwarded,
     OnlyReader, Fail, control, threads, pipes, Types, Settled
<1>2. FirstStart'
  BY DEF Reader, ReadResponse, ReadRequest, EndOfOutput, Leave, FailPending, Forwarded,
     OnlyReader, Fail, control, threads, pipes, Types, FirstStart, Settled
<1>3. OutputRead'
  BY DEF Reader, ReadResponse, ReadRequest, EndOfOutput, Leave, FailPending, Forwarded,
     OnlyReader, Fail, control, threads, pipes, Types, FirstStart, TakenToEnd, OutputRead
<1>4. NotYetStopping'
  BY DEF Reader, ReadResponse, ReadRequest, EndOfOutput, Leave, FailPending, Forwarded,
     OnlyReader, Fail, control, threads, pipes, Types, NotYetStopping
<1>5. TakenToEnd'
  BY DEF Reader, ReadResponse, ReadRequest, EndOfOutput, Leave, FailPending, Forwarded,
     OnlyReader, Fail, control, threads, pipes, Types, FirstStart, TakenToEnd, NotYetStopping
<1>6. ASSUME NEW x \in Callers PROVE Attended(x)'
  BY DEF Reader, ReadResponse, ReadRequest, EndOfOutput, Leave, FailPending, Forwarded,
     OnlyReader, Fail, control, threads, pipes, Types, FirstStart, TakenToEnd, OutputRead,
     Attended, Waiting, WillFail, Settled, NotYetStopping
<1> QED
  BY <1>1, <1>2, <1>3, <1>4, <1>5, <1>6

(***************************************************************************)
(* A step of the child.                                                    *)
(***************************************************************************)
LEMMA ChildIInv ==
  ASSUME ChildInv,
         \/ Ask \/ Exit \/ \E c \in Callers : Answer(c)
  PROVE  ChildInv'
<1> USE ChildMembers DEF ChildInv
<1>1. Types'
  BY DEF Ask, Exit, Answer, control, threads, pipes, Types, Settled
<1>2. FirstStart'
  BY DEF Ask, Exit, Answer, control, threads, pipes, Types, FirstStart, Settled
<1>3. OutputRead'
  BY DEF Ask, Exit, Answer, control, threads, pipes, Types, FirstStart, TakenToEnd, OutputRead
<1>4. NotYetStopping'
  BY DEF Ask, Exit, Answer, control, threads, pipes, Types, NotYetStopping
<1>5. TakenToEnd'
  BY DEF Ask, Exit, Answer, control, threads, pipes, Types, FirstStart, TakenToEnd,
     NotYetStopping
<1>6. ASSUME NEW x \in Callers PROVE Attended(x)'
  BY DEF Ask, Exit, Answer, control, threads, pipes, Types, FirstStart, TakenToEnd,
     OutputRead, Attended, Waiting, WillFail, Settled, NotYetStopping
<1> QED
  BY <1>1, <1>2, <1>3, <1>4, <1>5, <1>6

(***************************************************************************)
(* A step of the loop or the initialiser.                                  *)
(***************************************************************************)
LEMMA LoopIInv ==
  ASSUME ChildInv,
         \/ Start \/ StartFailed \/ InitialiseAsync \/ Notified \/ ShutDown
         \/ StartFails \/ ProxyFails \/ Notify \/ Shutdown \/ Initialiser
  PROVE  ChildInv'
<1> USE ChildMembers DEF ChildInv
<1>1. Types'
  BY DEF Start, StartFailed, InitialiseAsync, Notified, ShutDown, StartFails,
     ProxyFails, Notify, Shutdown, Initialiser, InitFails, Initialised, Goto, control, threads, pipes, Types,
     Settled
<1>2. FirstStart'
  BY DEF Start, StartFailed, InitialiseAsync, Notified, ShutDown, StartFails,
     ProxyFails, Notify, Shutdown, Initialiser, InitFails, Initialised, Goto, control, threads, pipes, Types,
     FirstStart, Settled
<1>3. OutputRead'
  BY DEF Start, StartFailed, InitialiseAsync, Notified, ShutDown, StartFails,
     ProxyFails, Notify, Shutdown, Initialiser, InitFails, Initialised, Goto, control, threads, pipes, Types,
     FirstStart, TakenToEnd, OutputRead
<1>4. NotYetStopping'
  BY DEF Start, StartFailed, InitialiseAsync, Notified, ShutDown, StartFails,
     ProxyFails, Notify, Shutdown, Initialiser, InitFails, Initialised, Goto, control, threads, pipes, Types,
     NotYetStopping
<1>5. TakenToEnd'
  BY DEF Start, StartFailed, InitialiseAsync, Notified, ShutDown, StartFails,
     ProxyFails, Notify, Shutdown, Initialiser, InitFails, Initialised, Goto, control, threads, pipes, Types,
     FirstStart, TakenToEnd, NotYetStopping
<1>6. ASSUME NEW x \in Callers PROVE Attended(x)'
  BY DEF Start, StartFailed, InitialiseAsync, Notified, ShutDown, StartFails,
     ProxyFails, Notify, Shutdown, Initialiser, InitFails, Initialised, Goto, control, threads, pipes, Types,
     FirstStart, TakenToEnd, OutputRead, Attended, Waiting, WillFail, Settled, NotYetStopping
<1> QED
  BY <1>1, <1>2, <1>3, <1>4, <1>5, <1>6

(***************************************************************************)
(* A call comes in, or gives up waiting for the initialisation.            *)
(***************************************************************************)
LEMMA EnterIInv ==
  ASSUME ChildInv,
         \/ \E c \in PluginCalls : WaitTimesOut(c)
         \/ \E c \in Methods : CallMethod(c)
         \/ \E c \in Hooks : OpenHook(c) \/ ForwardHook(c)
  PROVE  ChildInv'
<1> USE ChildMembers DEF ChildInv
<1>1. Types'
  BY DEF WaitTimesOut, CallMethod, OpenHook, ForwardHook, Goto, control, threads, pipes,
     Types, Settled
<1>2. FirstStart'
  BY DEF WaitTimesOut, CallMethod, OpenHook, ForwardHook, Goto, control, threads, pipes,
     Types, FirstStart, Settled
<1>3. OutputRead'
  BY DEF WaitTimesOut, CallMethod, OpenHook, ForwardHook, Goto, control, threads, pipes,
     Types, FirstStart, TakenToEnd, OutputRead
<1>4. NotYetStopping'
  BY DEF WaitTimesOut, CallMethod, OpenHook, ForwardHook, Goto, control, threads, pipes,
     Types, NotYetStopping
<1>5. TakenToEnd'
  BY DEF WaitTimesOut, CallMethod, OpenHook, ForwardHook, Goto, control, threads, pipes,
     Types, FirstStart, TakenToEnd, NotYetStopping
<1>6. ASSUME NEW x \in Callers PROVE Attended(x)'
  BY DEF WaitTimesOut, CallMethod, OpenHook, ForwardHook, Goto, control, threads, pipes,
     Types, FirstStart, TakenToEnd, OutputRead, Attended, Waiting, WillFail, Settled,
     NotYetStopping
<1> QED
  BY <1>1, <1>2, <1>3, <1>4, <1>5, <1>6

\* Every step keeps the invariant.
LEMMA ChildNextInv == ChildInv /\ [ChildNext]_childVars => ChildInv'
<1> SUFFICES ASSUME ChildInv, [ChildNext]_childVars PROVE ChildInv'
  OBVIOUS
<1>1. CASE UNCHANGED childVars
  BY <1>1 DEF ChildInv, childVars, control, threads, pipes, Types, FirstStart, TakenToEnd, OutputRead,
     NotYetStopping, Attended, Waiting, WillFail
<1> QED
  BY <1>1, CallerIInv, StopIInv, ReaderIInv, ChildIInv, LoopIInv, EnterIInv DEF ChildNext, Loop

(***************************************************************************)
(* The inductive invariant holds in every reachable state.                 *)
(***************************************************************************)
THEOREM ChildInvariance == ChildSpec => []ChildInv
<1> QED
  BY ChildInitInv, ChildNextInv, PTL DEF ChildSpec

(***************************************************************************)
(* However many threads stop the child, and wherever the steps of a call,  *)
(* the child's exit and the reader's end fall: nobody waits for an answer  *)
(* that no thread is left to give (plugin.py:342-382, 431-434, 469-480).   *)
(***************************************************************************)
THEOREM NobodyIsForgotten == ChildSpec => []NobodyForgotten
<1>1. ChildInv => NobodyForgotten
  BY DEF ChildInv, Attended, Waiting, NobodyForgotten
<1> QED
  BY <1>1, ChildInvariance, PTL

(***************************************************************************)
(* The end of a child that could not be initialised.                       *)
(***************************************************************************)
\* The child is dead, or some thread in stop() is just killing it.
Terminating == child = "exited" \/ \E s \in Stoppers : stop[s] = "kill"

FailedInitStops == initError /\ initialised => Terminating

\* Whoever is past the beginning of stop() has taken the process away, and the
\* initialiser lets go of those who wait only after its own stop().
StopInv ==
  /\ child \in {"none", "alive", "exited"}
  /\ \A s \in Stoppers : stop[s] \in {"kill", "fail", "done"} => stopping
  /\ stopping => child # "none"
  /\ loop \in {"start", "manifest"} => at["init"] = "idle"
  /\ initError => at["init"] = "error"
  /\ initialised => at["init"] = "ok" \/ stop["init"] = "done"

\* What each step does to it.
LEMMA StopInvStep == ChildInv /\ StopInv /\ [ChildNext]_childVars => StopInv'
<1> SUFFICES ASSUME ChildInv, StopInv, [ChildNext]_childVars PROVE StopInv'
  OBVIOUS
<1> USE ChildMembers
<1>1. Types /\ FirstStart /\ NotYetStopping
  BY DEF ChildInv
<1>2. ASSUME NEW s \in Stoppers, StopProcess(s) PROVE StopInv'
  BY <1>1, <1>2 DEF StopInv, StopProcess, StopTake, StopKill, StopFail, control, pipes,
     Types, FirstStart
<1>3. CASE Initialiser
  BY <1>1, <1>3 DEF StopInv, Initialiser, InitFails, Initialised, threads, pipes, Types
<1>4. ASSUME NEW c \in Callers, Request(c) \/ GetTimesOut(c) PROVE StopInv'
  BY <1>1, <1>4 DEF StopInv, Request, Waited, TimedOut, Check, Register, WriteRequest, Send,
     Get, GetTimesOut, Drop, Goto, OnlyAt, control, threads, pipes, Types
<1>5. CASE \/ \E c \in PluginCalls : WaitTimesOut(c)
           \/ \E c \in Methods : CallMethod(c)
           \/ \E c \in Hooks : OpenHook(c) \/ ForwardHook(c)
  BY <1>1, <1>5 DEF StopInv, WaitTimesOut, CallMethod, OpenHook, ForwardHook, Goto, control,
     threads, pipes, Types, NotYetStopping
<1>6. CASE \/ Start \/ StartFailed \/ InitialiseAsync \/ Notified \/ ShutDown
           \/ StartFails \/ ProxyFails \/ Notify \/ Shutdown
  BY <1>1, <1>6 DEF StopInv, Start, StartFailed, InitialiseAsync, Notified, ShutDown,
     StartFails, ProxyFails, Notify, Shutdown, Goto, control, threads, pipes, Types,
     FirstStart, NotYetStopping
<1>7. CASE Reader \/ Forwarded \/ Ask \/ Exit \/ \E c \in Callers : Answer(c)
  BY <1>1, <1>7 DEF StopInv, Reader, ReadResponse, ReadRequest, EndOfOutput, Leave,
     FailPending, Forwarded, OnlyReader, Ask, Exit, Answer, control, threads, pipes, Types
<1>8. CASE UNCHANGED childVars
  BY <1>8 DEF StopInv, childVars, control, threads, pipes
<1> QED
  BY <1>2, <1>3, <1>4, <1>5, <1>6, <1>7, <1>8 DEF ChildNext, Loop

(***************************************************************************)
(* The initialiser lets the waiting calls go after a failure only when the *)
(* child is dead or, where it shut down meanwhile, a thread that was       *)
(* quicker is killing it: the safety part of FailedInitEndsChild           *)
(* (plugin.py:231-260, 281-306).                                           *)
(***************************************************************************)
THEOREM FailedInitIsStopped == ChildSpec => []FailedInitStops
<1>1. ChildInit => StopInv
  BY ChildMembers DEF ChildInit, StopInv
<1>2. ChildInv /\ StopInv => FailedInitStops
  <2>1. SUFFICES ASSUME ChildInv, StopInv, initError, initialised PROVE Terminating
    BY DEF FailedInitStops
  <2>2. stop["init"] = "done" /\ stopping /\ child # "none"
    BY <2>1, ChildMembers DEF StopInv
  <2>3. child \in {"none", "alive", "exited"}
    BY <2>1 DEF StopInv
  <2> QED
    BY <2>1, <2>2, <2>3 DEF ChildInv, TakenToEnd, Terminating
<1> QED
  BY <1>1, <1>2, StopInvStep, ChildInvariance, PTL DEF ChildSpec
=============================================================================
