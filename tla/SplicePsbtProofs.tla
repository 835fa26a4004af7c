---------------------------- MODULE SplicePsbtProofs -----------------------
(***************************************************************************)
(* Proofs about the contents of the transactions an operation signs:       *)
(* Planning and SplicePsbt for any wallet, request and fee rate.  Sums come *)
(* first, by induction over the subsets of a finite set; then the inductive *)
(* invariant, what it implies, and what each action does to it; last, why  *)
(* the selection loop ends.                                                *)
(***************************************************************************)
EXTENDS SplicePsbt, FiniteSetTheorems, TLAPS

(***************************************************************************)
(* The inductive invariant.                                                *)
(***************************************************************************)

SweepIn == req.op = "splice" /\ Sweep

Chosen == {"plan", "lock", "build", "refused", "signed"} \union SplicePcs

\* What is selected, and that it stays what the policy approved.
SelectionInv ==
  /\ selected \subseteq allowed
  /\ \A c \in allowed : /\ Allows(c) /\ ~wallet[c].frozen /\ ~wallet[c].bond
                        /\ wallet[c].confs >= 1
  /\ pc = "list" => selected = {}
  /\ pc \in Selecting => todo = {}
  /\ pc = "choose" => ~Sweep
  /\ pc \in Chosen =>
       /\ selected # {}
       /\ Sweep => selected = allowed
       /\ req.op = "splice" /\ ~Sweep => Cardinality(selected) = 1

\* Which plans get as far as the locks.
Approved ==
  IF SweepIn THEN plan = SpliceSweepPlan(selected) /\ ~Insufficient(plan)
  ELSE plan = BuildPlan(selected) /\ ~Short(plan) /\ ~Dust(plan)

PlanInv ==
  /\ pc \in {"lock", "build", "init"} => Approved
  /\ pc = "build" => req.op # "splice"
  /\ pc \in SplicePcs \union {"refused"} => req.op = "splice"

BuiltInv ==
  (pc = "signed" /\ req.op # "splice") =>
    /\ Approved
    /\ tx = [ins |-> {In(c) : c \in selected},
             outs |-> FundingOutputs \union ChangeOutput(plan.change)]

\* From splice_init on the plan has CLN's fee.
Exact ==
  /\ plan.amount > 0
  /\ plan.fee = SpliceFee(selected, ~Sweep)
  /\ Sweep => plan.change = 0
  /\ plan.amount + plan.fee + plan.change = Total(selected)

\* What validation compares with, once every coin is in.
Agreed ==
  /\ contrib.coin \in selected /\ contrib.channel \in Nat
  /\ contrib.baseline = {Out("channel", contrib.channel)}
  /\ contrib.change = plan.change /\ contrib.credit = plan.amount
  /\ contrib.maxFee = plan.fee

OneChannel(outs) == \E o \in outs : outs = {Out("channel", o.value)}

Baseline(outs) ==
  OneChannel(outs) \/ outs = {Out("channel", Capacity), Out("other p2wsh", 700)}

SpliceInv ==
  req.op = "splice" =>
    /\ pc \in {"add", "update", "sign", "signed"} => Exact
    /\ pc = "add" => Baseline(tx.outs) /\ (~Sweep => todo = selected)
    /\ pc \in {"update", "sign", "signed"} => Agreed
    /\ pc = "signed" =>
         /\ \A c \in selected : Spends(tx, c)
         /\ Signable /\ Valid(tx, contrib, RequiredInputs)

IInv ==
  /\ TypeOK /\ SelectionInv /\ PlanInv /\ BuiltInv /\ SpliceInv
  /\ SpliceGoesThrough

----------------------------------------------------------------------------
(***************************************************************************)
(* Sums of a function over a finite set, by the recursive function that    *)
(* defines them.                                                           *)
(***************************************************************************)

\* g is the recursive function that SumFunctionOnSet(f, S) evaluates at S.
Pick(s) == CHOOSE x \in s : TRUE
Steps(f, S, g) ==
  g = [s \in SUBSET S |-> IF s = {} THEN 0 ELSE f[Pick(s)] + g[s \ {Pick(s)}]]
Run(f, S) == CHOOSE g : Steps(f, S, g)

\* Induction over the subsets of a finite set, with the predicate as the set P
\* of the subsets that satisfy it.
LEMMA SubsetInduction ==
  ASSUME NEW S, IsFiniteSet(S), NEW P,
         \A T \in SUBSET S : (\A x \in T : T \ {x} \in P) => T \in P
  PROVE  S \in P
<1> DEFINE Bad == (SUBSET S) \ P
<1>1. FiniteSubsetsOf(S) = SUBSET S
  BY FS_FiniteSubsetsOfFinite
<1>2. IsWellFoundedOn(StrictSubsetOrdering(S), SUBSET S)
  BY <1>1, FS_StrictSubsetOrderingWellFounded
<1>3. SUFFICES ASSUME Bad # {} PROVE FALSE
  OBVIOUS
<1>4. PICK T \in Bad : \A U \in Bad : ~(<<U, T>> \in StrictSubsetOrdering(S))
  <2>1. Bad \subseteq SUBSET S
    OBVIOUS
  <2> HIDE DEF Bad
  <2>2. QED BY <1>2, <1>3, <2>1, WFMin
<1>5. \A x \in T : T \ {x} \in P
  <2>1. SUFFICES ASSUME NEW x \in T, T \ {x} \notin P PROVE FALSE
    OBVIOUS
  <2>2. T \ {x} \in Bad
    BY <2>1
  <2>3. <<T \ {x}, T>> \in StrictSubsetOrdering(S)
    BY DEF StrictSubsetOrdering
  <2>4. QED BY <1>4, <2>2, <2>3
<1>6. T \in SUBSET S /\ T \notin P
  BY <1>4
<1>7. QED BY <1>5, <1>6

LEMMA PickIn == ASSUME NEW S, S # {} PROVE Pick(S) \in S
  BY DEF Pick

LEMMA StepsAt ==
  ASSUME NEW f, NEW S, NEW g, Steps(f, S, g), NEW T \in SUBSET S
  PROVE  g[T] = IF T = {} THEN 0 ELSE f[Pick(T)] + g[T \ {Pick(T)}]
  BY DEF Steps

\* The value at a set does not depend on the domain the function is run on.
LEMMA StepsAgree ==
  ASSUME NEW f, NEW V, NEW U, NEW g, NEW h, Steps(f, V, g), Steps(f, U, h),
         NEW S, IsFiniteSet(S), S \subseteq V, S \subseteq U
  PROVE  g[S] = h[S]
<1> DEFINE P == {T \in SUBSET S : g[T] = h[T]}
<1>1. ASSUME NEW T \in SUBSET S, \A x \in T : T \ {x} \in P
      PROVE  T \in P
  <2>1. T \in SUBSET U /\ T \in SUBSET V
    OBVIOUS
  <2>2. g[T] = IF T = {} THEN 0 ELSE f[Pick(T)] + g[T \ {Pick(T)}]
    BY <2>1 DEF Steps
  <2>3. h[T] = IF T = {} THEN 0 ELSE f[Pick(T)] + h[T \ {Pick(T)}]
    BY <2>1 DEF Steps
  <2>4. T # {} => g[T \ {Pick(T)}] = h[T \ {Pick(T)}]
    BY <1>1, PickIn
  <2>5. QED BY <2>2, <2>3, <2>4
<1>2. S \in P
  <2> HIDE DEF P
  <2>1. QED BY <1>1, SubsetInduction
<1>3. QED BY <1>2

\* It exists: on the subsets of T it is put together from the functions on the
\* sets with an element less.
LEMMA StepsExist ==
  ASSUME NEW f, NEW S, IsFiniteSet(S) PROVE Steps(f, S, Run(f, S))
<1> DEFINE P == {T \in SUBSET S : Steps(f, T, Run(f, T))}
<1>1. ASSUME NEW T \in SUBSET S, \A x \in T : T \ {x} \in P
      PROVE  T \in P
  <2> DEFINE Missing(s) == CHOOSE y \in T : y \notin s
             below(s) == Run(f, T \ {Missing(s)})[s]
             g == [s \in SUBSET T |->
                     IF s = {} THEN 0
                     ELSE IF s = T THEN f[Pick(T)] + below(T \ {Pick(T)})
                     ELSE below(s)]
  <2>1. ASSUME NEW s \in SUBSET T, s # T
        PROVE  /\ Missing(s) \in T /\ s \subseteq T \ {Missing(s)}
               /\ Steps(f, T \ {Missing(s)}, Run(f, T \ {Missing(s)}))
    <3>1. Missing(s) \in T /\ Missing(s) \notin s
      BY <2>1
    <3>2. QED BY <1>1, <3>1
  <2>2. ASSUME NEW s \in SUBSET T, s # T, s # {}
        PROVE  below(s) = f[Pick(s)] + below(s \ {Pick(s)})
    <3> DEFINE u == s \ {Pick(s)}
    <3>1. Pick(s) \in s /\ u \in SUBSET T /\ u # T
      BY <2>2, PickIn
    <3>2. below(s) = f[Pick(s)] + Run(f, T \ {Missing(s)})[u]
      <4>1. s \in SUBSET (T \ {Missing(s)})
        BY <2>1, <2>2
      <4>2. QED BY <2>1, <2>2, <4>1, StepsAt
    <3>3. Run(f, T \ {Missing(s)})[u] = below(u)
      <4>1. IsFiniteSet(u) 
        BY FS_Subset
      <4>2. u \subseteq T \ {Missing(s)} /\ u \subseteq T \ {Missing(u)}
        BY <2>1, <2>2, <3>1
      <4>3. QED BY <2>1, <2>2, <3>1, <4>1, <4>2, StepsAgree
    <3>4. QED BY <3>2, <3>3
  <2>3. ASSUME T # {} PROVE below({}) = 0
    <3>1. {} \in SUBSET T /\ {} # T
      BY <2>3
    <3>2. {} \in SUBSET (T \ {Missing({})})
      OBVIOUS
    <3>3. QED BY <2>1, <3>1, <3>2, StepsAt
  <2>4. ASSUME NEW s \in SUBSET T
        PROVE  g[s] = IF s = {} THEN 0 ELSE f[Pick(s)] + g[s \ {Pick(s)}]
    <3>1. CASE s = {}
      BY <3>1
    <3>2. CASE s # {} /\ s = T
      <4>1. Pick(T) \in T
        BY <3>2, PickIn
      <4>2. g[T \ {Pick(T)}] = below(T \ {Pick(T)})
        BY <3>2, <4>1, <2>3
      <4>3. QED BY <3>2, <4>2
    <3>3. CASE s # {} /\ s # T
      <4>1. Pick(s) \in s
        BY <3>3, PickIn
      <4>2. g[s \ {Pick(s)}] = below(s \ {Pick(s)})
        BY <3>3, <4>1, <2>3
      <4>3. QED BY <3>3, <4>2, <2>2
    <3>4. QED BY <3>1, <3>2, <3>3
  <2>5. Steps(f, T, g)
    <3> HIDE DEF g
    <3>1. g = [s \in SUBSET T |-> g[s]]
      BY DEF g
    <3>2. QED BY <2>4, <3>1 DEF Steps
  <2>6. QED BY <2>5 DEF Run
<1>2. S \in P
  <2> HIDE DEF P
  <2>1. QED BY <1>1, SubsetInduction
<1>3. QED BY <1>2

----------------------------------------------------------------------------
LEMMA SumStep ==
  ASSUME NEW f, NEW S, IsFiniteSet(S)
  PROVE  SumFunctionOnSet(f, S) =
           IF S = {} THEN 0
           ELSE f[Pick(S)] + SumFunctionOnSet(f, S \ {Pick(S)})
<1>1. \A T : SumFunctionOnSet(f, T) = Run(f, T)[T]
  BY DEF SumFunctionOnSet, FoldFunctionOnSet, MapThenFoldSet, Run, Steps, Pick
<1> DEFINE U == S \ {Pick(S)}
<1>2. IsFiniteSet(U)
  BY FS_Subset
<1>3. Steps(f, S, Run(f, S)) /\ Steps(f, U, Run(f, U))
  BY <1>2, StepsExist
<1>4. Run(f, S)[U] = Run(f, U)[U]
  BY <1>2, <1>3, StepsAgree
<1>5. Run(f, S)[S] = IF S = {} THEN 0 ELSE f[Pick(S)] + Run(f, S)[U]
  BY <1>3 DEF Steps
<1>6. QED BY <1>1, <1>4, <1>5

LEMMA SumEmpty == ASSUME NEW f PROVE SumFunctionOnSet(f, {}) = 0
  BY SumStep, FS_EmptySet

LEMMA SumInt ==
  ASSUME NEW f, NEW S, IsFiniteSet(S), \A x \in S : f[x] \in Int
  PROVE  SumFunctionOnSet(f, S) \in Int
<1> DEFINE P == {T \in SUBSET S : SumFunctionOnSet(f, T) \in Int}
<1>1. ASSUME NEW T \in SUBSET S, \A x \in T : T \ {x} \in P
      PROVE  T \in P
  <2>1. SumFunctionOnSet(f, T) =
          IF T = {} THEN 0 ELSE f[Pick(T)] + SumFunctionOnSet(f, T \ {Pick(T)})
    BY FS_Subset, SumStep
  <2>2. T # {} => /\ f[Pick(T)] \in Int
                  /\ SumFunctionOnSet(f, T \ {Pick(T)}) \in Int
    BY <1>1, PickIn
  <2>3. SumFunctionOnSet(f, T) \in Int
    BY <2>1, <2>2
  <2>4. QED BY <2>3
<1>2. S \in P
  <2> HIDE DEF P
  <2>1. QED BY <1>1, SubsetInduction
<1>3. QED BY <1>2

LEMMA SumNat ==
  ASSUME NEW f, NEW S, IsFiniteSet(S), \A x \in S : f[x] \in Nat
  PROVE  SumFunctionOnSet(f, S) \in Nat
<1> DEFINE P == {T \in SUBSET S : SumFunctionOnSet(f, T) \in Nat}
<1>1. ASSUME NEW T \in SUBSET S, \A x \in T : T \ {x} \in P
      PROVE  T \in P
  <2>1. SumFunctionOnSet(f, T) =
          IF T = {} THEN 0 ELSE f[Pick(T)] + SumFunctionOnSet(f, T \ {Pick(T)})
    BY FS_Subset, SumStep
  <2>2. T # {} => /\ f[Pick(T)] \in Nat
                  /\ SumFunctionOnSet(f, T \ {Pick(T)}) \in Nat
    BY <1>1, PickIn
  <2>3. SumFunctionOnSet(f, T) \in Nat
    BY <2>1, <2>2
  <2>4. QED BY <2>3
<1>2. S \in P
  <2> HIDE DEF P
  <2>1. QED BY <1>1, SubsetInduction
<1>3. QED BY <1>2

\* Any element may be taken off, not only the one the sum picks first.
LEMMA SumRemove ==
  ASSUME NEW f, NEW S, IsFiniteSet(S), \A x \in S : f[x] \in Int, NEW y \in S
  PROVE  SumFunctionOnSet(f, S) = f[y] + SumFunctionOnSet(f, S \ {y})
<1> DEFINE Sum(T) == SumFunctionOnSet(f, T)
           P == {T \in SUBSET S : \A z \in T : Sum(T) = f[z] + Sum(T \ {z})}
<1>1. ASSUME NEW T \in SUBSET S, \A x \in T : T \ {x} \in P
      PROVE  T \in P
  <2>1. \A U \in SUBSET T : IsFiniteSet(U) /\ Sum(U) \in Int
    <3>1. ASSUME NEW U \in SUBSET T PROVE IsFiniteSet(U) /\ \A x \in U : f[x] \in Int
      BY FS_Subset
    <3>2. QED BY <3>1, SumInt
  <2>2. SUFFICES ASSUME NEW z \in T PROVE Sum(T) = f[z] + Sum(T \ {z})
    OBVIOUS
  <2> DEFINE p == Pick(T)
  <2>3. p \in T /\ Sum(T) = f[p] + Sum(T \ {p})
    BY <2>1, SumStep, PickIn
  <2>4. CASE p = z
    BY <2>3, <2>4
  <2>5. CASE p # z
    <3>1. Sum(T \ {p}) = f[z] + Sum((T \ {p}) \ {z})
      BY <1>1, <2>3, <2>5
    <3>2. Sum(T \ {z}) = f[p] + Sum((T \ {z}) \ {p})
      BY <1>1, <2>3, <2>5
    <3>3. (T \ {p}) \ {z} = (T \ {z}) \ {p}
      OBVIOUS
    <3>4. f[p] \in Int /\ f[z] \in Int /\ Sum((T \ {z}) \ {p}) \in Int
      BY <2>1, <2>3
    <3>5. Sum(T) = f[p] + (f[z] + Sum((T \ {z}) \ {p}))
      BY <2>3, <3>1, <3>3
    <3>6. QED BY <3>2, <3>4, <3>5
  <2>6. QED BY <2>4, <2>5
<1>2. S \in P
  <2> HIDE DEF P
  <2>1. QED BY <1>1, SubsetInduction
<1>3. QED BY <1>2

LEMMA SumSingleton ==
  ASSUME NEW f, NEW y, f[y] \in Int PROVE SumFunctionOnSet(f, {y}) = f[y]
<1>1. IsFiniteSet({y}) /\ Pick({y}) = y /\ {y} \ {y} = {}
  BY FS_Singleton, PickIn
<1>2. QED BY <1>1, SumStep, SumEmpty

LEMMA ImageFinite ==
  ASSUME NEW h, NEW S, IsFiniteSet(S) PROVE IsFiniteSet({h[x] : x \in S})
<1> DEFINE T == {h[x] : x \in S}
           k == [x \in S |-> h[x]]
<1>1. k \in Surjection(S, T)
  BY DEF Surjection
<1>2. QED BY <1>1, FS_Surjection

\* A sum is the same over any other names of its terms.
LEMMA SumRenamed ==
  ASSUME NEW f, NEW g, NEW h, NEW S, IsFiniteSet(S),
         \A x \in S : f[x] \in Int /\ g[h[x]] = f[x],
         \A x, y \in S : h[x] = h[y] => x = y
  PROVE  SumFunctionOnSet(g, {h[x] : x \in S}) = SumFunctionOnSet(f, S)
<1> DEFINE Image(T) == {h[x] : x \in T}
           P == {T \in SUBSET S :
                   SumFunctionOnSet(g, Image(T)) = SumFunctionOnSet(f, T)}
<1>1. ASSUME NEW T \in SUBSET S, \A x \in T : T \ {x} \in P
      PROVE  T \in P
  <2>1. CASE T = {}
    <3>1. Image(T) = {}
      BY <2>1
    <3>2. QED BY <2>1, <3>1, SumEmpty
  <2>2. CASE T # {}
    <3>1. PICK y \in T : TRUE
      BY <2>2
    <3>2. Image(T \ {y}) = Image(T) \ {h[y]}
      OBVIOUS
    <3>3. IsFiniteSet(T) /\ IsFiniteSet(Image(T))
      BY FS_Subset, ImageFinite
    <3>4. SumFunctionOnSet(g, Image(T)) = g[h[y]] + SumFunctionOnSet(g, Image(T) \ {h[y]})
      <4>1. h[y] \in Image(T) /\ \A z \in Image(T) : g[z] \in Int
        OBVIOUS
      <4> HIDE DEF Image
      <4>2. QED BY <3>3, <4>1, SumRemove
    <3>5. SumFunctionOnSet(f, T) = f[y] + SumFunctionOnSet(f, T \ {y})
      BY <3>3, SumRemove
    <3>6. SumFunctionOnSet(g, Image(T \ {y})) = SumFunctionOnSet(f, T \ {y})
      BY <1>1
    <3> HIDE DEF Image
    <3>7. QED BY <3>2, <3>4, <3>5, <3>6
  <2>3. QED BY <2>1, <2>2
<1>2. S \in P
  <2> HIDE DEF P
  <2>1. QED BY <1>1, SubsetInduction
<1>3. QED BY <1>2

----------------------------------------------------------------------------
(***************************************************************************)
(* Fees and sizes.                                                         *)
(***************************************************************************)

LEMMA CeilingBound ==
  ASSUME NEW a \in Nat, NEW b \in Nat, a <= b
  PROVE  /\ CeilDiv(a, 250) \in Nat /\ 250 * CeilDiv(a, 250) >= a
         /\ CeilDiv(a, 250) <= CeilDiv(b, 250)
  BY DEF CeilDiv

\* A fee reaches the rate, and grows with the size.
LEMMA FeeBounds ==
  ASSUME kw \in Nat, NEW v \in Nat
  PROVE  Fee(v) \in Nat /\ 250 * Fee(v) >= kw * v /\ Fee(v) <= Fee(v + 31)
<1>1. v * kw \in Nat /\ (v + 31) * kw \in Nat /\ v * kw = kw * v
  OBVIOUS
<1>2. v * kw <= (v + 31) * kw
  <2>1. (v + 31) * kw = v * kw + 31 * kw
    OBVIOUS
  <2>2. QED BY <1>1, <2>1
<1>3. QED BY <1>1, <1>2, CeilingBound DEF Fee

\* CLN's fee, rounded down, is at most one by size, rounded up.
LEMMA FeeAtMost ==
  ASSUME kw \in Nat, NEW v \in Nat, NEW weight \in Nat, weight <= 4 * v
  PROVE  (kw * weight) \div 1000 \in Nat /\ (kw * weight) \div 1000 <= Fee(v)
<1> DEFINE d == 4 * v - weight
           a == kw * weight
           b == v * kw
<1>1. d \in Nat /\ kw * d \in Nat /\ a \in Nat /\ b \in Nat
  OBVIOUS
<1>2. kw * d = 4 * b - a
  OBVIOUS
<1>3. a <= 4 * b
  <2> HIDE DEF a, b
  <2>1. QED BY <1>1, <1>2
<1>4. a \div 1000 \in Nat /\ a \div 1000 <= CeilDiv(b, 250)
  <2> HIDE DEF a, b
  <2>1. QED BY <1>1, <1>3 DEF CeilDiv
<1>5. QED BY <1>4 DEF Fee

LEMMA Holdings ==
  ASSUME wallet \in Wallets, NEW S \in SUBSET Coins
  PROVE  /\ IsFiniteSet(S) /\ Total(S) \in Nat
         /\ Cardinality(S \ Wsh(S)) \in Nat /\ Cardinality(Wsh(S)) \in Nat
         /\ S # {} => Cardinality(S \ Wsh(S)) + Cardinality(Wsh(S)) >= 1
<1>1. \A T \in SUBSET S : IsFiniteSet(T) /\ Cardinality(T) \in Nat
  BY PlanningAssumption, FS_Subset, FS_CardinalityType
<1>2. S \ Wsh(S) \in SUBSET S /\ Wsh(S) \in SUBSET S
  BY DEF Wsh
<1>3. S # {} => Cardinality(S \ Wsh(S)) + Cardinality(Wsh(S)) >= 1
  <2>1. S # {} => S \ Wsh(S) # {} \/ Wsh(S) # {}
    OBVIOUS
  <2>2. \A T \in SUBSET S : T # {} => Cardinality(T) >= 1
    BY <1>1, FS_EmptySet
  <2>3. QED BY <1>1, <1>2, <2>1, <2>2
<1>4. Total(S) \in Nat
  <2>1. \A c \in S : Values[c] \in Nat
    BY PlanningAssumption DEF Values, CoinRecord
  <2>2. QED BY <1>1, <2>1, SumNat DEF Total
<1>5. QED BY <1>1, <1>2, <1>3, <1>4

LEMMA Sizes ==
  ASSUME wallet \in Wallets, NEW S \in SUBSET Coins, NEW n \in Nat,
         NEW change \in BOOLEAN
  PROVE  /\ VSize(S, n, change) \in Nat
         /\ VSize(S, n, TRUE) = VSize(S, n, FALSE) + 31
  BY Holdings DEF VSize

\* The margin of a splice-in covers what CLN asks for, by weight and rounded
\* down, for any coins, mix of script types and fee rate (splice.py:247-260,
\* cln.py:167-206).
THEOREM MarginCovers ==
  ASSUME wallet \in Wallets, kw \in Nat, NEW S \in SUBSET Coins, S # {},
         NEW change \in BOOLEAN
  PROVE  SpliceFee(S, change) \in Nat /\ SpliceFee(S, change) <= ConservativeFee(S)
<1> DEFINE n1 == Cardinality(S \ Wsh(S))
           n2 == Cardinality(Wsh(S))
           weight == 391 + 172 + 42 + (IF change THEN 124 ELSE 0) + 271 * n1 + 387 * n2
           v == VSize(S, 1, TRUE) + 97
<1>1. n1 \in Nat /\ n2 \in Nat /\ n1 + n2 >= 1
  BY Holdings
<1>2. v = 182 + 68 * n1 + 105 * n2
  <2> HIDE DEF n1, n2
  <2>1. QED BY <1>1 DEF VSize, n1, n2
<1>3. v \in Nat /\ weight \in Nat /\ weight <= 4 * v
  <2> HIDE DEF n1, n2, v
  <2>1. QED BY <1>1, <1>2
<1>4. (kw * weight) \div 1000 \in Nat /\ (kw * weight) \div 1000 <= Fee(v)
  <2> HIDE DEF v, weight
  <2>1. QED BY <1>3, FeeAtMost
<1>5. QED BY <1>4 DEF SpliceFee, ConservativeFee

LEMMA Typed ==
  ASSUME wallet \in Wallets, req \in Requests, kw \in FeeRates
  PROVE  /\ wallet \in [Coins -> CoinRecord] /\ kw \in Nat
         /\ req \in RequestRecord /\ req.amounts \in Seq(Nat)
         /\ req.op \in {"open", "multi", "swap", "splice"}
         /\ Outputs \in Nat /\ Wanted \in Nat
         /\ Sweep => Outputs = 1
         /\ req.explicit # {} => req.op = "swap"
<1>1. /\ wallet \in [Coins -> CoinRecord] /\ kw \in Nat /\ req \in RequestRecord
      /\ req.explicit # {} => req.op = "swap"
  BY PlanningAssumption
<1>2. /\ req.amounts \in Seq(Nat) /\ req.op \in {"open", "multi", "swap", "splice"}
  BY <1>1 DEF RequestRecord
<1>3. Outputs \in Nat /\ (Sweep => Outputs = 1)
  <2>1. Len(req.amounts) \in Nat /\ Len(<<0>>) = 1
    BY <1>2
  <2>2. QED BY <2>1 DEF Outputs, Sweep
<1>4. Wanted \in Nat
  <2>1. DOMAIN req.amounts = 1 .. Len(req.amounts)
    BY <1>2
  <2>2. \A i \in DOMAIN req.amounts : req.amounts[i] \in Nat
    BY <1>2
  <2>3. IsFiniteSet(DOMAIN req.amounts)
    BY <1>3, <2>1, FS_Interval DEF Outputs
  <2>4. QED BY <2>2, <2>3, SumNat DEF Wanted, SumFunction
<1>5. QED BY <1>1, <1>2, <1>3, <1>4

LEMMA InsValue ==
  ASSUME wallet \in Wallets, selected \subseteq Coins
  PROVE  ValueOf({In(c) : c \in selected}) = Total(selected)
<1> DEFINE h == [c \in selected |-> In(c)]
           ins == {In(c) : c \in selected}
           g == [x \in ins |-> x.value]
<1>1. ins = {h[c] : c \in selected}
  OBVIOUS
<1>2. \A c \in selected : Values[c] \in Int /\ g[h[c]] = Values[c]
  BY PlanningAssumption DEF Values, In, CoinRecord
<1>3. \A c, d \in selected : h[c] = h[d] => c = d
  BY DEF In
<1>4. IsFiniteSet(selected)
  BY Holdings
<1>5. SumFunctionOnSet(g, {h[c] : c \in selected}) = SumFunctionOnSet(Values, selected)
  <2> HIDE DEF g, h
  <2>1. QED BY <1>2, <1>3, <1>4, SumRenamed
<1>6. ValueOf(ins) = SumFunctionOnSet(g, ins)
  BY DEF ValueOf, SumFunction
<1>7. QED BY <1>1, <1>5, <1>6 DEF Total

\* The funding outputs are as many as the amounts, and no two are the same.
LEMMA FundingValue ==
  ASSUME req.amounts \in Seq(Nat), plan.amount \in Nat,
         NEW g, \A x \in FundingOutputs : g[x] = x.value
  PROVE  /\ IsFiniteSet(FundingOutputs)
         /\ SumFunctionOnSet(g, FundingOutputs) = IF Sweep THEN plan.amount ELSE Wanted
<1>1. CASE Sweep
  <2>1. FundingOutputs = {FundingOut(1, plan.amount)}
    BY <1>1 DEF FundingOutputs
  <2> DEFINE y == FundingOut(1, plan.amount)
  <2>2. g[y] \in Int /\ g[y] = plan.amount
    BY <2>1 DEF FundingOut
  <2> HIDE DEF y
  <2>3. SumFunctionOnSet(g, {y}) = g[y]
    BY <2>2, SumSingleton
  <2> USE DEF y
  <2>4. QED BY <1>1, <2>1, <2>2, <2>3, FS_Singleton
<1>2. CASE ~Sweep
  <2> DEFINE h == [i \in 1 .. Outputs |-> FundingOut(i, req.amounts[i])]
  <2>1. FundingOutputs = {h[i] : i \in 1 .. Outputs}
    BY <1>2 DEF FundingOutputs
  <2>2. Outputs \in Nat /\ DOMAIN req.amounts = 1 .. Outputs
    BY DEF Outputs
  <2>3. \A i \in 1 .. Outputs : req.amounts[i] \in Int /\ g[h[i]] = req.amounts[i]
    BY <2>1, <2>2 DEF FundingOut
  <2>4. \A i, j \in 1 .. Outputs : h[i] = h[j] => i = j
    BY DEF FundingOut
  <2>5. IsFiniteSet(1 .. Outputs)
    BY <2>2, FS_Interval
  <2> DEFINE N == 1 .. Outputs
             f == req.amounts
  <2>6. /\ IsFiniteSet({h[i] : i \in N})
        /\ SumFunctionOnSet(g, {h[i] : i \in N}) = SumFunctionOnSet(f, N)
    <3>1. \A i \in N : f[i] \in Int /\ g[h[i]] = f[i]
      BY <2>3
    <3>2. \A i, j \in N : h[i] = h[j] => i = j
      BY <2>4
    <3>3. IsFiniteSet(N)
      BY <2>5
    <3> HIDE DEF h, N, f
    <3>4. SumFunctionOnSet(g, {h[i] : i \in N}) = SumFunctionOnSet(f, N)
      BY <3>1, <3>2, <3>3, SumRenamed
    <3>5. IsFiniteSet({h[i] : i \in N})
      BY <3>3, ImageFinite
    <3>6. QED BY <3>4, <3>5
  <2>7. QED BY <1>2, <2>1, <2>2, <2>6 DEF Wanted, SumFunction
<1>3. QED BY <1>1, <1>2

LEMMA OutsValue ==
  ASSUME wallet \in Wallets, req \in Requests, kw \in FeeRates,
         plan.amount \in Nat, plan.change \in Nat
  PROVE  LET outs == FundingOutputs \union ChangeOutput(plan.change)
         IN  /\ ValueOf(outs) = (IF Sweep THEN plan.amount ELSE Wanted) + plan.change
             /\ {o \in outs : o.to = "change"} = ChangeOutput(plan.change)
<1> DEFINE y == Out("change", plan.change)
           outs == FundingOutputs \union ChangeOutput(plan.change)
           g == [x \in outs |-> x.value]
           w == IF Sweep THEN plan.amount ELSE Wanted
<1>0. w \in Nat
  BY Typed
<1>1. /\ \A x \in FundingOutputs : x.to = "funding" /\ x.value \in Nat
      /\ y.to = "change" /\ y.value = plan.change
  BY Typed DEF FundingOutputs, FundingOut, Out, Outputs
<1>2. {o \in outs : o.to = "change"} = ChangeOutput(plan.change)
  BY <1>1 DEF ChangeOutput
<1>3. \A x \in FundingOutputs : g[x] = x.value
  OBVIOUS
<1>4. ValueOf(outs) = SumFunctionOnSet(g, outs)
  BY DEF ValueOf, SumFunction
<1>5. /\ IsFiniteSet(FundingOutputs)
      /\ SumFunctionOnSet(g, FundingOutputs) = w
  <2> HIDE DEF g
  <2>1. QED BY <1>3, Typed, FundingValue
<1>6. CASE plan.change = 0
  <2>1. outs = FundingOutputs
    BY <1>6 DEF ChangeOutput
  <2>2. ValueOf(outs) = w + plan.change
    <3> HIDE DEF w, g
    <3>1. QED BY <1>0, <1>4, <1>5, <1>6, <2>1
  <2>3. QED BY <1>2, <2>2
<1>7. CASE plan.change > 0
  <2>1. outs = FundingOutputs \union {y}
    BY <1>7 DEF ChangeOutput
  <2>2. outs \ {y} = FundingOutputs /\ y \in outs
    BY <1>1, <2>1
  <2>3. IsFiniteSet(outs)
    <3>1. IsFiniteSet(FundingOutputs \union {y})
      BY <1>5, FS_AddElement
    <3>2. QED BY <2>1, <3>1
  <2>4. g[y] = plan.change /\ g[y] \in Int /\ \A x \in outs : g[x] \in Int
    BY <1>1, <2>1
  <2>5. SumFunctionOnSet(g, outs) = g[y] + SumFunctionOnSet(g, outs \ {y})
    <3> HIDE DEF g, y, outs
    <3>1. QED BY <2>2, <2>3, <2>4, SumRemove
  <2>6. ValueOf(outs) = w + plan.change
    <3> HIDE DEF w, g, y, outs
    <3>1. SumFunctionOnSet(g, outs) = plan.change + w
      BY <1>5, <2>2, <2>4, <2>5
    <3>2. QED BY <1>0, <1>4, <3>1
  <2>7. QED BY <1>2, <2>6
<1>8. QED BY <1>6, <1>7

----------------------------------------------------------------------------
(***************************************************************************)
(* What the invariant implies.                                             *)
(***************************************************************************)

\* What the planner's own plan is made of.
LEMMA PlanFacts ==
  ASSUME wallet \in Wallets, req \in Requests, kw \in FeeRates,
         NEW S \in SUBSET Coins, NEW p, p = BuildPlan(S), ~Insufficient(p)
  PROVE  /\ p \in [fee : Nat, amount : Nat, change : Nat]
         /\ p.amount > 0
         /\ p.fee = Fee(VSize(S, Outputs, ~Sweep))
         /\ p.amount = IF Sweep THEN Total(S) - p.fee ELSE Wanted
         /\ p.amount + p.fee + p.change = Total(S)
         /\ Sweep => p.change = 0
<1> DEFINE fee == Fee(VSize(S, Outputs, ~Sweep))
           amount == IF Sweep THEN Total(S) - fee ELSE Wanted
<1>1. fee \in Nat /\ Total(S) \in Nat /\ amount \in Int
  <2>1. /\ Total(S) \in Nat /\ VSize(S, Outputs, TRUE) \in Nat
        /\ VSize(S, Outputs, FALSE) \in Nat /\ Wanted \in Nat /\ kw \in Nat
    BY Typed, Sizes, Holdings
  <2>2. VSize(S, Outputs, ~Sweep) \in Nat
    BY <2>1 DEF VSize
  <2>3. fee \in Nat
    BY <2>1, <2>2, FeeBounds
  <2>4. QED BY <2>1, <2>3
<1>2. p = [fee |-> fee, amount |-> amount, change |-> Total(S) - amount - fee]
  BY DEF BuildPlan
<1>3. p.amount > 0 /\ p.change >= 0
  <2>1. ~(p.amount <= 0) /\ ~(p.change < 0) /\ p.amount \in Int /\ p.change \in Int
    BY <1>1, <1>2 DEF Insufficient
  <2>2. QED BY <2>1
<1>4. Sweep => p.change = 0
  BY <1>1, <1>2
<1> HIDE DEF fee, amount
<1>5. p.fee = fee /\ p.amount = amount /\ p.change = Total(S) - amount - fee
  BY <1>2
<1>6. p.fee \in Nat /\ p.amount \in Nat /\ p.change \in Nat
  BY <1>1, <1>3, <1>5
<1>7. p \in [fee : Nat, amount : Nat, change : Nat]
  BY <1>2, <1>6
<1>8. p.amount + p.fee + p.change = Total(S)
  BY <1>1, <1>5
<1>9. QED BY <1>3, <1>4, <1>5, <1>7, <1>8 DEF fee, amount

LEMMA InvHonest == IInv => FundingTxHonest
<1> SUFFICES ASSUME IInv, pc = "signed", req.op # "splice" PROVE FundingTxHonest
  BY DEF FundingTxHonest
<1> DEFINE paid == ValueOf(tx.ins) - ValueOf(tx.outs)
           change == {o \in tx.outs : o.to = "change"}
           size == VSize(selected, Outputs, change # {})
<1>1. /\ wallet \in Wallets /\ req \in Requests /\ kw \in FeeRates
      /\ selected \in SUBSET Coins /\ selected \subseteq allowed
      /\ selected # {} /\ (Sweep => selected = allowed)
  BY DEF IInv, TypeOK, SelectionInv, Chosen
<1>2. plan = BuildPlan(selected) /\ ~Short(plan) /\ ~Dust(plan)
  BY DEF IInv, BuiltInv, Approved, SweepIn
<1>3. /\ plan \in [fee : Nat, amount : Nat, change : Nat] /\ plan.amount > 0
      /\ plan.fee = Fee(VSize(selected, Outputs, ~Sweep))
      /\ plan.amount = IF Sweep THEN Total(selected) - plan.fee ELSE Wanted
      /\ plan.amount + plan.fee + plan.change = Total(selected)
      /\ Sweep => plan.change = 0
  BY <1>1, <1>2, PlanFacts DEF Short
<1>4. /\ tx.ins = {In(c) : c \in selected}
      /\ tx.outs = FundingOutputs \union ChangeOutput(plan.change)
  BY DEF IInv, BuiltInv
<1>5. paid = plan.fee /\ change = ChangeOutput(plan.change)
  <2>1. ValueOf(tx.ins) = Total(selected)
    BY <1>1, <1>4, InsValue
  <2>2. /\ ValueOf(tx.outs) = (IF Sweep THEN plan.amount ELSE Wanted) + plan.change
        /\ change = ChangeOutput(plan.change)
    BY <1>1, <1>3, <1>4, OutsValue
  <2>3. ValueOf(tx.outs) = plan.amount + plan.change
    BY <1>3, <2>2
  <2>4. plan.amount \in Nat /\ plan.fee \in Nat /\ plan.change \in Nat
    BY <1>3
  <2>5. QED BY <1>3, <2>1, <2>2, <2>3, <2>4
<1>6. plan.change \in Nat /\ (change # {} <=> plan.change > 0)
  BY <1>3, <1>5 DEF ChangeOutput
<1>7. \A c \in selected : /\ Required \in POLICIES[wallet[c].status]
                          /\ ~wallet[c].frozen /\ ~wallet[c].bond /\ wallet[c].confs > 0
  <2>1. ASSUME NEW c \in selected
        PROVE  Allows(c) /\ ~wallet[c].frozen /\ ~wallet[c].bond /\ wallet[c].confs >= 1
    BY <1>1 DEF IInv, SelectionInv
  <2>2. \A c \in selected : wallet[c].confs \in Nat
    BY <1>1, Typed DEF CoinRecord
  <2>3. QED BY <2>1, <2>2 DEF Allows
<1>8. \A i \in 1 .. Outputs : FundingOut(i, req.amounts[i]) \in tx.outs \/ Sweep
  BY <1>4 DEF FundingOutputs
<1>9. Sweep => selected = allowed /\ change = {}
  BY <1>1, <1>3, <1>6
<1>10. 250 * paid >= kw * size /\ paid <= Fee(size + 31)
  <2> DEFINE big == VSize(selected, Outputs, TRUE)
             small == VSize(selected, Outputs, FALSE)
  <2>1. small \in Nat /\ big \in Nat /\ big = small + 31 /\ kw \in Nat
    BY <1>1, Typed, Sizes
  <2>2. \A v \in Nat : 250 * Fee(v) >= kw * v /\ Fee(v) <= Fee(v + 31) /\ Fee(v) \in Nat
    BY <2>1, FeeBounds
  <2> HIDE DEF big, small, paid, change
  <2>3. CASE plan.change > 0
    <3>1. size = big /\ paid = Fee(big)
      BY <1>3, <1>5, <1>6, <2>3 DEF big, VSize
    <3>2. QED BY <2>1, <2>2, <3>1
  <2>4. CASE plan.change = 0 /\ Sweep
    <3>1. size = small /\ paid = Fee(small)
      BY <1>3, <1>5, <1>6, <2>4 DEF small, VSize
    <3>2. QED BY <2>1, <2>2, <3>1
  <2>5. CASE plan.change = 0 /\ ~Sweep
    <3>1. size = small /\ paid = Fee(small + 31)
      <4>1. size = small /\ paid = Fee(big)
        BY <1>3, <1>5, <1>6, <2>5 DEF small, big, VSize
      <4>2. QED BY <2>1, <4>1
    <3>2. 250 * Fee(small + 31) >= kw * (small + 31)
      BY <2>1, <2>2
    <3>3. kw * (small + 31) = kw * small + 31 * kw
      BY <2>1
    <3>4. kw * small \in Nat /\ Fee(small + 31) \in Nat
      BY <2>1, <2>2
    <3>5. QED BY <2>1, <3>1, <3>2, <3>3, <3>4
  <2>6. QED BY <1>6, <2>3, <2>4, <2>5
<1>11. \A o \in change : o.value >= DUST_THRESHOLD
  <2>1. plan.change > 0 => plan.change >= DUST_THRESHOLD
    BY <1>2, <1>6 DEF Dust, DUST_THRESHOLD
  <2>2. QED BY <1>5, <1>6, <2>1 DEF ChangeOutput, Out
<1>12. QED
  <2> HIDE DEF paid, size, change
  <2>1. QED BY <1>4, <1>7, <1>8, <1>9, <1>10, <1>11 DEF FundingTxHonest, paid, size, change

----------------------------------------------------------------------------
LEMMA OneValue ==
  ASSUME NEW x, x.value \in Int PROVE ValueOf({x}) = x.value
<1> DEFINE g == [y \in {x} |-> y.value]
<1>1. g[x] = x.value /\ g[x] \in Int
  OBVIOUS
<1>2. ValueOf({x}) = SumFunctionOnSet(g, {x})
  BY DEF ValueOf, SumFunction
<1>3. SumFunctionOnSet(g, {x}) = g[x]
  <2> HIDE DEF g
  <2>1. QED BY <1>1, SumSingleton
<1>4. QED BY <1>1, <1>2, <1>3

LEMMA NoValue == ValueOf({}) = 0
  BY SumEmpty DEF ValueOf, SumFunction

LEMMA InvKeepsPlan == IInv => SignedKeepsPlan
<1> SUFFICES ASSUME IInv, pc = "signed", req.op = "splice" PROVE SignedKeepsPlan
  BY DEF SignedKeepsPlan
<1> DEFINE channel == {o \in tx.outs : o.to = "channel"}
           gained == ValueOf(channel) - contrib.channel
           changes == {o \in tx.outs : o.to = "change"}
<1>1. /\ plan.amount \in Nat /\ plan.change \in Nat /\ plan.fee \in Nat
      /\ plan.amount > 0 /\ plan.fee = SpliceFee(selected, ~Sweep)
      /\ plan.amount + plan.fee + plan.change = Total(selected)
  BY DEF IInv, TypeOK, SpliceInv, Exact
<1>2. /\ contrib.channel \in Nat
      /\ contrib.baseline = {Out("channel", contrib.channel)}
      /\ contrib.change = plan.change /\ contrib.credit = plan.amount
      /\ contrib.maxFee = plan.fee
  BY DEF IInv, SpliceInv, Agreed
<1>3. /\ \A c \in selected : Spends(tx, c)
      /\ {i.of : i \in tx.ins} \intersect Coins = selected
      /\ tx.outs \in {Uncredited(contrib), Credited(contrib)}
      /\ tx.outs = Credited(contrib) =>
           ValueOf(tx.ins) - ValueOf(tx.outs) \in 0 .. contrib.maxFee
  BY DEF IInv, SpliceInv, Valid, Signable
<1>4. \A v \in Nat : /\ Out("channel", v).to = "channel" /\ Out("channel", v).value = v
                     /\ Out("change", v).to = "change" /\ Out("change", v).value = v
  BY DEF Out
<1>5. /\ changes = ChangeOutput(plan.change)
      /\ \/ tx.outs = Credited(contrib)
            /\ channel = {Out("channel", contrib.channel + plan.amount)}
         \/ channel = {Out("channel", contrib.channel)}
  <2> DEFINE old == Out("channel", contrib.channel)
             new == Out("channel", contrib.channel + plan.amount)
             rest == ChangeOutput(plan.change)
  <2>1. \A o \in rest : o.to = "change"
    BY DEF ChangeOutput, Out
  <2>2. old.to = "channel" /\ new.to = "channel"
    BY DEF Out
  <2>3. CASE tx.outs = Uncredited(contrib)
    <3>1. tx.outs = {old} \union rest
      BY <1>2, <2>3 DEF Uncredited
    <3> HIDE DEF old, rest
    <3>2. channel = {old} /\ changes = rest
      BY <2>1, <2>2, <3>1
    <3>3. QED BY <3>2 DEF old, rest
  <2>4. CASE tx.outs = Credited(contrib)
    <3>1. tx.outs = {new} \union rest
      BY <1>2, <2>4 DEF Credited
    <3> HIDE DEF new, rest
    <3>2. channel = {new} /\ changes = rest
      BY <2>1, <2>2, <3>1
    <3>3. QED BY <2>4, <3>2 DEF new, rest
  <2>5. QED BY <1>3, <2>3, <2>4
<1>6. ValueOf(changes) = plan.change
  <2>1. CASE plan.change = 0
    BY <1>5, <2>1, NoValue DEF ChangeOutput
  <2>2. CASE plan.change > 0
    <3> DEFINE y == Out("change", plan.change)
    <3>1. y.value = plan.change /\ y.value \in Int
      BY <1>1, <1>4
    <3>2. changes = {y}
      BY <1>5, <2>2 DEF ChangeOutput
    <3> HIDE DEF y, changes
    <3>3. QED BY <3>1, <3>2, OneValue
  <2>3. QED BY <1>1, <2>1, <2>2
<1>7. Cardinality(channel) = 1
  BY <1>5, FS_Singleton
<1>8. /\ gained \in {0, plan.amount}
      /\ gained = plan.amount => tx.outs = Credited(contrib)
  <2>1. \A v \in Nat : ValueOf({Out("channel", v)}) = v
    BY <1>4, OneValue
  <2>2. contrib.channel + plan.amount \in Nat
    BY <1>1, <1>2
  <2>3. CASE tx.outs = Credited(contrib)
             /\ channel = {Out("channel", contrib.channel + plan.amount)}
    <3>1. gained = (contrib.channel + plan.amount) - contrib.channel
      BY <2>1, <2>2, <2>3
    <3>2. QED BY <1>1, <1>2, <2>3, <3>1
  <2>4. CASE channel = {Out("channel", contrib.channel)}
    <3>1. gained = contrib.channel - contrib.channel
      BY <1>2, <2>1, <2>4
    <3>2. gained = 0 
      BY <1>2, <3>1
    <3>3. QED BY <1>1, <3>2
  <2>5. QED BY <1>5, <2>3, <2>4
<1>9. ASSUME gained = plan.amount
      PROVE  /\ Total(selected) - plan.change - gained <= SpliceFee(selected, ~Sweep)
             /\ ValueOf(tx.ins) - ValueOf(tx.outs) <= SpliceFee(selected, ~Sweep)
  <2>1. ValueOf(tx.ins) - ValueOf(tx.outs) \in 0 .. plan.fee
    BY <1>2, <1>3, <1>8, <1>9
  <2>2. ValueOf(tx.ins) - ValueOf(tx.outs) <= SpliceFee(selected, ~Sweep)
    BY <1>1, <2>1
  <2> HIDE DEF gained
  <2>3. Total(selected) - plan.change - gained = plan.fee
    BY <1>1, <1>9
  <2>4. QED BY <1>1, <2>2, <2>3
<1>10. QED
  <2> HIDE DEF gained, channel, changes
  <2>1. QED BY <1>3, <1>6, <1>7, <1>8, <1>9 DEF SignedKeepsPlan, gained, channel, changes

----------------------------------------------------------------------------
(***************************************************************************)
(* Every step keeps the invariant.                                         *)
(***************************************************************************)

\* An operation that has selected nothing satisfies the inductive invariant
\* (open_channel.py:88-110, splice.py:83-118).
THEOREM InitIInv == Init => IInv
<1> SUFFICES ASSUME Init PROVE IInv
  OBVIOUS
<1>1. TypeOK
  BY DEF Init, PlanInit, TypeOK, NoPlan, NoTx, Selecting
<1>2. SelectionInv
  BY DEF Init, PlanInit, SelectionInv, Chosen, SplicePcs, Selecting
<1>3. PlanInv /\ BuiltInv /\ SpliceInv /\ SpliceGoesThrough
  BY DEF Init, PlanInit, PlanInv, BuiltInv, SpliceInv, SpliceGoesThrough, SplicePcs
<1>4. QED BY <1>1, <1>2, <1>3 DEF IInv

----------------------------------------------------------------------------
(***************************************************************************)
(* What an action leaves as it was when it leaves these variables alone.   *)
(***************************************************************************)
LEMMA FrameRequest ==
  ASSUME UNCHANGED <<wallet, req, kw>>
  PROVE  /\ Sweep' <=> Sweep
         /\ SweepIn' <=> SweepIn
         /\ \A c : Allows(c)' <=> Allows(c)
  BY DEF Sweep, SweepIn, Allows, Required

LEMMA FrameSelected ==
  ASSUME UNCHANGED <<wallet, req, kw, selected>>
  PROVE  /\ Total(selected)' = Total(selected) /\ Wanted' = Wanted
         /\ SpliceFee(selected, ~Sweep)' = SpliceFee(selected, ~Sweep)
         /\ SpliceSweepPlan(selected)' = SpliceSweepPlan(selected)
         /\ BuildPlan(selected)' = BuildPlan(selected)
         /\ ConservativeFee(selected)' = ConservativeFee(selected)
<1>1. /\ Total(selected)' = Total(selected) /\ (Sweep' <=> Sweep)
      /\ Wsh(selected)' = Wsh(selected) /\ Outputs' = Outputs /\ Wanted' = Wanted
  BY DEF Total, Values, Sweep, Wsh, Outputs, Wanted
<1>2. /\ SpliceFee(selected, ~Sweep)' = SpliceFee(selected, ~Sweep)
      /\ SpliceSweepPlan(selected)' = SpliceSweepPlan(selected)
  BY <1>1 DEF SpliceFee, SpliceSweepPlan
<1>3. BuildPlan(selected)' = BuildPlan(selected)
  BY <1>1 DEF BuildPlan, VSize, Fee, CeilDiv
<1>4. ConservativeFee(selected)' = ConservativeFee(selected)
  BY <1>1 DEF ConservativeFee, VSize, Fee, CeilDiv
<1>5. QED BY <1>1, <1>2, <1>3, <1>4

LEMMA FramePlan ==
  ASSUME UNCHANGED <<wallet, req, kw, selected, plan>>
  PROVE  (Approved' <=> Approved) /\ (Exact' <=> Exact)
<1>1. /\ Insufficient(plan)' <=> Insufficient(plan)
      /\ Dust(plan)' <=> Dust(plan)
  BY DEF Insufficient, Dust
<1>2. Short(plan)' <=> Short(plan)
  BY <1>1, FrameSelected, FrameRequest DEF Short
<1>3. Approved' <=> Approved
  BY <1>1, <1>2, FrameSelected, FrameRequest DEF Approved
<1>4. Exact' <=> Exact
  BY FrameSelected, FrameRequest DEF Exact
<1>5. QED BY <1>3, <1>4

LEMMA FrameTx ==
  ASSUME UNCHANGED <<wallet, req, kw, selected, plan, tx, contrib>>
  PROVE  /\ {In(c) : c \in selected}' = {In(c) : c \in selected}
         /\ (FundingOutputs \union ChangeOutput(plan.change))'
              = FundingOutputs \union ChangeOutput(plan.change)
         /\ \A c : Spends(tx, c)' <=> Spends(tx, c)
         /\ Signable' <=> Signable
         /\ Valid(tx, contrib, RequiredInputs)' <=> Valid(tx, contrib, RequiredInputs)
<1>1. \A c : Spends(tx, c)' <=> Spends(tx, c)
  BY DEF Spends, Copies
<1>2. RequiredInputs' = RequiredInputs
  BY DEF RequiredInputs, Sweep
<1>3. /\ Uncredited(contrib)' = Uncredited(contrib)
      /\ Credited(contrib)' = Credited(contrib)
  BY DEF Uncredited, Credited, ChangeOutput, Out
<1>4. /\ ValueOf(tx.ins)' = ValueOf(tx.ins)
      /\ ValueOf(tx.outs)' = ValueOf(tx.outs)
  BY DEF ValueOf
<1>5. Valid(tx, contrib, RequiredInputs)' <=> Valid(tx, contrib, RequiredInputs)
  BY <1>1, <1>2, <1>3, <1>4 DEF Valid
<1>6. Signable' <=> Signable
  BY DEF Signable
<1>7. {In(c) : c \in selected}' = {In(c) : c \in selected}
  BY DEF In
<1>8. (FundingOutputs \union ChangeOutput(plan.change))'
        = FundingOutputs \union ChangeOutput(plan.change)
  BY DEF FundingOutputs, ChangeOutput, FundingOut, Out, Sweep, Outputs
<1>9. QED BY <1>1, <1>5, <1>6, <1>7, <1>8

\* Another process's reservation, and a step that changes nothing.
LEMMA TakenKeeps ==
  ASSUME IInv, taken' \subseteq Coins,
         UNCHANGED <<wallet, req, kw, pc, allowed, target, reserve, selected,
                     previous, plan, tx, todo, feeLeft, contrib>>
  PROVE  IInv'
<1>1. TypeOK'
  BY DEF IInv, TypeOK
<1>2. SelectionInv'
  BY FrameRequest DEF IInv, SelectionInv
<1>3. PlanInv' /\ SpliceGoesThrough'
  BY FramePlan DEF IInv, PlanInv, SpliceGoesThrough
<1>4. BuiltInv'
  BY FramePlan, FrameTx DEF IInv, BuiltInv
<1>5. SpliceInv'
  <2>1. (Agreed' <=> Agreed) /\ (Baseline(tx.outs)' <=> Baseline(tx.outs))
    BY DEF Agreed, Baseline, OneChannel, Out, Capacity
  <2>2. QED BY <2>1, FramePlan, FrameTx, FrameRequest DEF IInv, SpliceInv
<1>6. QED BY <1>1, <1>2, <1>3, <1>4, <1>5 DEF IInv

\* A failure, wherever it comes from.
LEMMA FailedKeeps ==
  ASSUME IInv, pc' = "failed",
         UNCHANGED <<wallet, req, kw, allowed, taken, target, reserve, selected,
                     previous, plan, tx, todo, feeLeft, contrib>>
  PROVE  IInv'
<1>1. TypeOK'
  BY DEF IInv, TypeOK, Final
<1>2. SelectionInv'
  BY FrameRequest DEF IInv, SelectionInv, Chosen, SplicePcs, Selecting
<1>3. PlanInv' /\ BuiltInv' /\ SpliceInv' /\ SpliceGoesThrough'
  BY DEF PlanInv, BuiltInv, SpliceInv, SpliceGoesThrough, SplicePcs
<1>4. QED BY <1>1, <1>2, <1>3 DEF IInv

NoSplice == UNCHANGED <<todo, feeLeft, contrib>>

\* Clauses about program points that are not reached yet.
LEMMA EarlyKeeps ==
  ASSUME IInv, pc' \in {"plan", "choose"}
  PROVE  PlanInv' /\ BuiltInv' /\ SpliceInv' /\ SpliceGoesThrough'
  BY DEF PlanInv, BuiltInv, SpliceInv, SpliceGoesThrough, SplicePcs

LEMMA ListKeeps == ASSUME IInv, ListCoins, NoSplice PROVE IInv'
<1>1. CASE Fail
  BY <1>1, FailedKeeps DEF Fail, NoSplice
<1>2. CASE ~Fail
  <2>1. /\ pc = "list" /\ selected = {} /\ UNCHANGED <<wallet, req, kw>>
        /\ wallet \in Wallets /\ req \in Requests /\ kw \in FeeRates
    BY <1>2 DEF ListCoins, IInv, TypeOK, SelectionInv
  <2>2. /\ Permitted # {} /\ req.explicit \subseteq Permitted /\ allowed' = Permitted
        /\ \/ pc' = "plan" /\ Sweep /\ selected' = Permitted /\ target' = target
           \/ /\ pc' = "plan" /\ ~Sweep /\ req.explicit # {}
              /\ selected' = req.explicit /\ target' = target
           \/ /\ pc' = "choose" /\ ~Sweep /\ target' = FirstTarget /\ selected' = {}
    BY <1>2, <2>1 DEF ListCoins
  <2>3. FirstTarget \in Nat
    <3>1. Wanted \in Nat /\ kw \in Nat /\ OneInput \in Nat
      BY <2>1, Typed DEF OneInput
    <3>2. QED BY <3>1, FeeBounds DEF FirstTarget
  <2>4. TypeOK'
    BY <1>2, <2>1, <2>2, <2>3 DEF ListCoins, IInv, TypeOK, NoSplice, Permitted, Selecting
  <2>5. SelectionInv'
    <3>1. \A c \in Permitted : /\ Allows(c) /\ ~wallet[c].frozen /\ ~wallet[c].bond
                               /\ wallet[c].confs >= 1
      BY DEF Permitted, Offered
    <3>2. (Sweep' <=> Sweep) /\ (\A c : Allows(c)' <=> Allows(c))
      BY <2>1, FrameRequest
    <3>3. req.explicit # {} => req.op # "splice"
      BY <2>1, Typed
    <3>4. QED BY <2>1, <2>2, <3>1, <3>2, <3>3 DEF IInv, SelectionInv, Chosen, SplicePcs, NoSplice, Selecting
  <2>6. QED BY <2>2, <2>4, <2>5, EarlyKeeps DEF IInv
<1>3. QED BY <1>1, <1>2

LEMMA ChooseKeeps == ASSUME IInv, Choose, NoSplice PROVE IInv'
<1>1. CASE Fail
  BY <1>1, FailedKeeps DEF Fail, NoSplice
<1>2. CASE ~Fail
  <2>1. /\ pc = "choose" /\ UNCHANGED <<wallet, req, kw, allowed>> /\ pc' = "plan"
        /\ selected' \subseteq allowed /\ selected' # {}
        /\ req.op = "splice" => Cardinality(selected') = 1
    BY <1>2 DEF Choose
  <2>2. TypeOK'
    BY <1>2, <2>1 DEF Choose, IInv, TypeOK, SelectionInv, NoSplice, Selecting
  <2>3. SelectionInv'
    BY <2>1, FrameRequest DEF IInv, SelectionInv, NoSplice, Selecting
  <2>4. QED BY <2>1, <2>2, <2>3, EarlyKeeps DEF IInv
<1>3. QED BY <1>1, <1>2

LEMMA AgainKeeps ==
  ASSUME IInv, NEW p, pc = "plan", Again(p), ~Sweep, NoSplice PROVE IInv'
<1>1. /\ wallet \in Wallets /\ req \in Requests /\ kw \in FeeRates
      /\ selected \in SUBSET Coins /\ reserve \in Nat
  BY DEF IInv, TypeOK
<1>2. kw \in Nat /\ Wanted \in Nat /\ Outputs \in Nat
  BY <1>1, Typed
<1>3. reserve' \in Nat
  BY <1>1, <1>2, CeilingBound DEF Again
<1>4. target' \in Nat
  <2> DEFINE vn == VSize(selected, Outputs, TRUE)
             v1 == VSize(selected, 1, TRUE)
             margin == ConservativeFee(selected)
  <2>1. vn \in Nat /\ v1 \in Nat
    BY <1>1, <1>2, Sizes
  <2>2. /\ \A v \in Nat : Fee(v) \in Nat
        /\ margin = Fee(v1 + 97)
    BY <1>2, FeeBounds DEF ConservativeFee
  <2>3. NextTarget(p) \in {Wanted + Fee(vn), Wanted + Fee(vn) + reserve',
                          Wanted + Fee(v1), Wanted + margin}
    <3>1. req.op \in {"open", "multi", "swap", "splice"}
      BY <1>1, Typed
    <3> HIDE DEF margin
    <3>2. QED BY <3>1 DEF NextTarget, margin
  <2>4. Fee(vn) \in Nat /\ Fee(v1) \in Nat /\ margin \in Nat
    <3> HIDE DEF vn, v1, margin
    <3>1. QED BY <2>1, <2>2
  <2>5. target' = NextTarget(p)
    BY DEF Again
  <2> HIDE DEF vn, v1, margin
  <2>6. QED BY <1>2, <1>3, <2>3, <2>4, <2>5
<1>5. TypeOK'
  BY <1>3, <1>4 DEF Again, IInv, TypeOK, NoSplice, Selecting
<1>6. SelectionInv'
  BY FrameRequest DEF Again, IInv, SelectionInv, Chosen, SplicePcs, NoSplice, Selecting
<1>7. QED BY <1>5, <1>6, EarlyKeeps DEF Again, IInv

\* A plan that a sweep into a channel settles on.
LEMMA SweptFacts ==
  ASSUME wallet \in Wallets, req \in Requests, kw \in FeeRates,
         NEW S \in SUBSET Coins, S # {}, NEW p, p = SpliceSweepPlan(S), ~Insufficient(p)
  PROVE  /\ p \in [fee : Nat, amount : Nat, change : Nat]
         /\ p.amount > 0 /\ p.fee = SpliceFee(S, FALSE) /\ p.change = 0
         /\ p.amount + p.fee = Total(S)
<1> DEFINE fee == SpliceFee(S, FALSE)
<1>1. fee \in Nat /\ Total(S) \in Nat
  BY Typed, Holdings, MarginCovers
<1>2. p = [fee |-> fee, amount |-> Total(S) - fee, change |-> 0]
  BY DEF SpliceSweepPlan
<1> HIDE DEF fee
<1>3. p.fee = fee /\ p.amount = Total(S) - fee /\ p.change = 0
  BY <1>2
<1>4. ~(p.amount <= 0) /\ p.amount \in Int
  BY <1>1, <1>3 DEF Insufficient
<1>5. p.amount \in Nat /\ p.amount > 0
  BY <1>4
<1>6. p \in [fee : Nat, amount : Nat, change : Nat]
  BY <1>1, <1>2, <1>3, <1>5
<1>7. p.amount + p.fee = Total(S)
  BY <1>1, <1>3
<1>8. QED BY <1>3, <1>5, <1>6, <1>7 DEF fee

LEMMA SettleKeeps ==
  ASSUME IInv, pc = "plan", NoSplice, NEW p, Settle(p),
         IF SweepIn THEN p = SpliceSweepPlan(selected) /\ ~Insufficient(p)
         ELSE p = BuildPlan(selected) /\ ~Short(p) /\ ~Dust(p)
  PROVE  IInv'
<1>1. /\ wallet \in Wallets /\ req \in Requests /\ kw \in FeeRates
      /\ selected \in SUBSET Coins /\ selected # {}
  BY DEF IInv, TypeOK, SelectionInv, Chosen
<1>2. /\ plan' = p /\ pc' = "lock"
      /\ UNCHANGED <<wallet, req, kw, allowed, taken, target, reserve, selected,
                     previous, tx>>
  BY DEF Settle
<1>3. p \in [fee : Nat, amount : Nat, change : Nat]
  BY <1>1, SweptFacts, PlanFacts DEF Short
<1>4. TypeOK'
  BY <1>2, <1>3 DEF IInv, TypeOK, NoSplice
<1>5. SelectionInv'
  BY <1>2, FrameRequest DEF IInv, SelectionInv, Chosen, Selecting
<1>6. Approved'
  <2>1. /\ Insufficient(plan)' <=> Insufficient(p)
        /\ Dust(plan)' <=> Dust(p)
    BY <1>2 DEF Insufficient, Dust
  <2>2. Short(plan)' <=> Short(p)
    BY <1>2, <2>1, FrameSelected, FrameRequest DEF Short
  <2>3. QED BY <1>2, <2>1, <2>2, FrameSelected, FrameRequest DEF Approved
<1>7. PlanInv' /\ BuiltInv' /\ SpliceInv' /\ SpliceGoesThrough'
  BY <1>2, <1>6 DEF PlanInv, BuiltInv, SpliceInv, SpliceGoesThrough, SplicePcs
<1>8. QED BY <1>4, <1>5, <1>7 DEF IInv

LEMMA PlanKeeps == ASSUME IInv, MakePlan, NoSplice PROVE IInv'
<1> DEFINE p == BuildPlan(selected)
           swept == SpliceSweepPlan(selected)
<1>1. pc = "plan"
  BY DEF MakePlan
<1>2. \/ Again(p) /\ ~Sweep
      \/ Fail
      \/ SweepIn /\ ~Insufficient(swept) /\ Settle(swept)
      \/ ~SweepIn /\ ~Short(p) /\ ~Dust(p) /\ Settle(p)
  BY DEF MakePlan, SweepIn
<1>3. CASE Fail
  BY <1>3, FailedKeeps DEF Fail, NoSplice
<1>4. QED BY <1>1, <1>2, <1>3, AgainKeeps, SettleKeeps

LEMMA LockKeeps == ASSUME IInv, LockCoins, NoSplice PROVE IInv'
<1>1. CASE Fail
  BY <1>1, FailedKeeps DEF Fail, NoSplice
<1>2. CASE ~Fail
  <2>1. /\ pc = "lock" /\ pc' = IF req.op = "splice" THEN "init" ELSE "build"
        /\ UNCHANGED <<wallet, req, kw, allowed, taken, target, reserve,
                       selected, previous, plan, tx>>
    BY <1>2 DEF LockCoins
  <2>2. TypeOK'
    BY <2>1 DEF IInv, TypeOK, NoSplice, SplicePcs
  <2>3. SelectionInv'
    BY <2>1, FrameRequest DEF IInv, SelectionInv, Chosen, Selecting
  <2>4. PlanInv' /\ BuiltInv' /\ SpliceInv' /\ SpliceGoesThrough'
    BY <2>1, FramePlan DEF IInv, PlanInv, BuiltInv, SpliceInv, SpliceGoesThrough, SplicePcs
  <2>5. QED BY <2>2, <2>3, <2>4 DEF IInv
<1>3. QED BY <1>1, <1>2

LEMMA BuildKeeps == ASSUME IInv, BuildTx, NoSplice PROVE IInv'
<1>1. CASE Fail
  BY <1>1, FailedKeeps DEF Fail, NoSplice
<1>2. CASE ~Fail
  <2> DEFINE built == [ins |-> {In(c) : c \in selected},
                       outs |-> FundingOutputs \union ChangeOutput(plan.change)]
  <2>1. /\ pc = "build" /\ pc' = "signed" /\ tx' = built
        /\ UNCHANGED <<wallet, req, kw, allowed, taken, target, reserve,
                       selected, previous, plan>>
    BY <1>2 DEF BuildTx
  <2>2. /\ wallet \in Wallets /\ req \in Requests /\ kw \in FeeRates
        /\ selected \subseteq Coins /\ req.op # "splice" /\ Approved
        /\ plan \in [fee : Nat, amount : Nat, change : Nat]
    BY <2>1 DEF IInv, TypeOK, PlanInv
  <2>3. /\ \A i \in built.ins : i.of \in Outpoints /\ i.value \in Nat
        /\ \A o \in built.outs : o.value \in Nat
    BY <2>2, Typed DEF In, CoinRecord, Outpoints, FundingOutputs, FundingOut,
       ChangeOutput, Out, Outputs
  <2>4. TypeOK'
    <3> HIDE DEF built
    <3>1. QED BY <2>1, <2>3 DEF IInv, TypeOK, NoSplice, Final, Outpoints
  <2>5. SelectionInv'
    BY <2>1, FrameRequest DEF IInv, SelectionInv, Chosen, Selecting
  <2>6. BuiltInv'
    <3>1. built' = built
      BY <2>1 DEF In, FundingOutputs, ChangeOutput, FundingOut, Out, Sweep, Outputs
    <3>2. Approved'
      BY <2>1, <2>2, FramePlan
    <3>3. QED BY <2>1, <3>1, <3>2 DEF BuiltInv
  <2>7. PlanInv' /\ SpliceInv' /\ SpliceGoesThrough'
    BY <2>1, <2>2 DEF PlanInv, SpliceInv, SpliceGoesThrough, SplicePcs
  <2>8. QED BY <2>4, <2>5, <2>6, <2>7 DEF IInv
<1>3. QED BY <1>1, <1>2

----------------------------------------------------------------------------
(***************************************************************************)
(* The negotiation of a splice.                                            *)
(***************************************************************************)

LEMMA StopFailed == ASSUME IInv, Stop("failed") PROVE IInv'
  BY FailedKeeps DEF Stop

\* The margin of the plan is enough for CLN's own fee.
LEMMA InitAffordable ==
  ASSUME IInv, pc = "init"
  PROVE  LET fee == SpliceFee(selected, ~Sweep)
             change == IF Sweep THEN 0 ELSE Total(selected) - plan.amount - fee
         IN /\ fee \in Nat /\ change \in Nat
            /\ plan.amount > 0 /\ plan.amount + fee + change = Total(selected)
<1> DEFINE fee == SpliceFee(selected, ~Sweep)
           change == IF Sweep THEN 0 ELSE Total(selected) - plan.amount - fee
<1>1. /\ wallet \in Wallets /\ req \in Requests /\ kw \in FeeRates
      /\ selected \in SUBSET Coins /\ selected # {} /\ req.op = "splice" /\ Approved
      /\ plan.amount \in Nat
  BY DEF IInv, TypeOK, SelectionInv, PlanInv, Chosen, SplicePcs
<1>2. fee \in Nat /\ Total(selected) \in Nat /\ Wanted \in Nat
      /\ fee <= ConservativeFee(selected)
  <2>1. (~Sweep) \in BOOLEAN
    BY DEF Sweep
  <2>2. QED BY <1>1, <2>1, Typed, Holdings, MarginCovers
<1>3. CASE Sweep
  <2>1. plan = SpliceSweepPlan(selected) /\ ~Insufficient(plan)
    BY <1>1, <1>3 DEF Approved, SweepIn
  <2>2. plan.amount > 0 /\ plan.fee = SpliceFee(selected, FALSE)
        /\ plan.amount + plan.fee = Total(selected)
    BY <1>1, <2>1, SweptFacts
  <2>3. plan.fee = fee /\ change = 0
    BY <1>3, <2>2 DEF SpliceFee
  <2> HIDE DEF fee, change
  <2>4. fee \in Nat /\ change \in Nat /\ plan.amount > 0
        /\ plan.amount + fee + change = Total(selected)
    <3>1. plan.amount + fee = Total(selected) /\ change = 0
      BY <2>2, <2>3
    <3>2. QED BY <1>1, <1>2, <2>2, <3>1
  <2>5. QED BY <2>4 DEF fee, change
<1>4. CASE ~Sweep
  <2>1. plan = BuildPlan(selected) /\ ~Short(plan) /\ ~Dust(plan)
    BY <1>1, <1>4 DEF Approved, SweepIn
  <2>2. plan.amount > 0 /\ plan.amount = Wanted
    BY <1>1, <1>4, <2>1, PlanFacts DEF Short
  <2>3. ~(Total(selected) < Wanted + ConservativeFee(selected))
    BY <1>1, <1>4, <2>1 DEF Short
  <2>4. ConservativeFee(selected) \in Nat
    <3>1. VSize(selected, 1, TRUE) \in Nat /\ kw \in Nat
      BY <1>1, Sizes, Typed
    <3> DEFINE v == VSize(selected, 1, TRUE)
    <3>2. ConservativeFee(selected) = Fee(v + 97)
      BY DEF ConservativeFee
    <3>3. v \in Nat
      BY <3>1
    <3> HIDE DEF v
    <3>4. v + 97 \in Nat
      BY <3>3
    <3>5. QED BY <3>1, <3>2, <3>4, FeeBounds
  <2>5. change = Total(selected) - Wanted - fee
    BY <1>4, <2>2
  <2> HIDE DEF fee, change
  <2>6. fee \in Nat /\ change \in Nat /\ plan.amount > 0
        /\ plan.amount + fee + change = Total(selected)
    BY <1>2, <2>2, <2>3, <2>4, <2>5
  <2>7. QED BY <2>6 DEF fee, change
<1>5. QED BY <1>3, <1>4

LEMMA InitKeeps == ASSUME IInv, SpliceInit PROVE IInv'
<1> DEFINE fee == SpliceFee(selected, ~Sweep)
           change == IF Sweep THEN 0 ELSE Total(selected) - plan.amount - fee
<1>1. pc = "init"
  BY DEF SpliceInit
<1>2. /\ fee \in Nat /\ change \in Nat
      /\ plan.amount > 0 /\ plan.amount + fee + change = Total(selected)
  BY <1>1, InitAffordable
<1>3. /\ tx' \in FirstPsbts /\ todo' = selected /\ pc' = "add"
      /\ plan' = [plan EXCEPT !.fee = fee, !.change = change]
      /\ feeLeft' = IF Sweep THEN fee ELSE 0
      /\ UNCHANGED <<wallet, req, kw, allowed, taken, target, reserve, selected,
                     previous, contrib>>
  BY <1>2 DEF SpliceInit, Continue
<1>4. plan \in [fee : Nat, amount : Nat, change : Nat]
  BY DEF IInv, TypeOK
<1> HIDE DEF fee, change
<1>5. /\ plan' \in [fee : Nat, amount : Nat, change : Nat] /\ feeLeft' \in Nat
      /\ plan'.fee = fee /\ plan'.change = change /\ plan'.amount = plan.amount
  BY <1>2, <1>3, <1>4
<1>6. /\ \A i \in tx'.ins : i.of \in {"channel", "peer"} /\ i.value \in Nat
      /\ \A o \in tx'.outs : o.value \in Nat
      /\ \/ \E o \in tx'.outs : tx'.outs = {Out("channel", o.value)}
         \/ tx'.outs = {Out("channel", Capacity), Out("other p2wsh", 700)}
  <2> DEFINE old == Out("channel", Capacity)
             new == Out("channel", Capacity + plan.amount)
             other == Out("other p2wsh", 700)
  <2>1. /\ ChannelIn.of = "channel" /\ ChannelIn.value \in Nat
        /\ PeerIn.of = "peer" /\ PeerIn.value \in Nat
    BY DEF ChannelIn, PeerIn, Capacity
  <2>2. /\ old.value \in Nat /\ old = Out("channel", old.value)
        /\ new.value \in Nat /\ new = Out("channel", new.value)
        /\ other.value \in Nat
    BY <1>4 DEF Capacity, Out
  <2>3. /\ tx'.ins \subseteq {ChannelIn, PeerIn}
        /\ tx'.outs \in {{old}, {new}, {old, other}}
    <3>1. \A t \in FirstPsbts : /\ t.ins \subseteq {ChannelIn, PeerIn}
                               /\ t.outs \in {{old}, {new}, {old, other}}
      <4>1. SUFFICES ASSUME NEW t \in FirstPsbts
            PROVE  /\ t.ins \subseteq {ChannelIn, PeerIn}
                   /\ t.outs \in {{old}, {new}, {old, other}}
        OBVIOUS
      <4>2. \/ t = [ins |-> {ChannelIn}, outs |-> {old}]
            \/ t = [ins |-> {ChannelIn}, outs |-> {new}]
            \/ t = [ins |-> {ChannelIn, PeerIn}, outs |-> {old, other}]
        BY DEF FirstPsbts
      <4> HIDE DEF old, new, other
      <4>3. QED BY <4>2
    <3>2. QED BY <1>3, <3>1
  <2> HIDE DEF old, new, other
  <2>4. /\ \A o \in tx'.outs : o.value \in Nat
        /\ \/ \E o \in tx'.outs : tx'.outs = {Out("channel", o.value)}
           \/ tx'.outs = {old, other}
    BY <2>2, <2>3
  <2>5. \A i \in tx'.ins : i.of \in {"channel", "peer"} /\ i.value \in Nat
    BY <2>1, <2>3
  <2>6. QED BY <2>4, <2>5 DEF old, other
<1>7. TypeOK'
  BY <1>3, <1>5, <1>6 DEF IInv, TypeOK, SplicePcs, Outpoints
<1>8. SelectionInv'
  BY <1>1, <1>3, FrameRequest DEF IInv, SelectionInv, Chosen, SplicePcs, Selecting
<1>9. req.op = "splice"
  BY <1>1 DEF IInv, PlanInv, SplicePcs
<1>10. SpliceInv'
  <2>1. Sweep => change = 0
    BY DEF change
  <2>2. Exact'
    BY <1>2, <1>3, <1>5, <2>1, FrameRequest, FrameSelected DEF Exact, fee
  <2>3. Baseline(tx.outs)'
    BY <1>6 DEF Baseline, OneChannel
  <2>4. QED BY <1>3, <2>2, <2>3 DEF SpliceInv
<1>11. PlanInv' /\ BuiltInv' /\ SpliceGoesThrough'
  BY <1>3, <1>9 DEF PlanInv, BuiltInv, SpliceGoesThrough
<1>12. QED BY <1>7, <1>8, <1>10, <1>11 DEF IInv

\* What validation lets through has amounts that are none the worse.
LEMMA ValidOuts ==
  ASSUME plan.amount \in Nat, plan.change \in Nat, Agreed, NEW t, NEW required,
         Valid(t, contrib, required)
  PROVE  \A o \in t.outs : o.value \in Nat
<1>1. contrib.channel \in Nat /\ contrib.change \in Nat
      /\ contrib.channel + contrib.credit \in Nat
  BY DEF Agreed
<1>2. /\ \A o \in Uncredited(contrib) : o.value \in Nat
      /\ \A o \in Credited(contrib) : o.value \in Nat
  BY <1>1 DEF Agreed, Uncredited, Credited, ChangeOutput, Out
<1>3. QED BY <1>2 DEF Valid

LEMMA UpdateKeeps == ASSUME IInv, Update PROVE IInv'
<1>1. PICK ins \in EditedIns, outs \in EditedOuts, secured \in BOOLEAN :
        LET t == [ins |-> ins, outs |-> outs]
        IN \/ ~Valid(t, contrib, RequiredInputs) /\ Stop("failed")
           \/ /\ Valid(t, contrib, RequiredInputs)
              /\ tx' = t /\ pc' = IF secured THEN "sign" ELSE "update"
              /\ Continue /\ UNCHANGED <<plan, todo, feeLeft, contrib>>
  BY DEF Update
<1> DEFINE t == [ins |-> ins, outs |-> outs]
<1>2. CASE Stop("failed")
  BY <1>2, StopFailed
<1>3. CASE /\ Valid(t, contrib, RequiredInputs)
           /\ tx' = t /\ pc' = IF secured THEN "sign" ELSE "update"
           /\ Continue /\ UNCHANGED <<plan, todo, feeLeft, contrib>>
  <2>1. /\ pc = "update" /\ req.op = "splice" /\ Exact /\ Agreed
        /\ wallet \in Wallets /\ req \in Requests /\ kw \in FeeRates
        /\ selected \subseteq Coins /\ plan.amount \in Nat /\ plan.change \in Nat
        /\ \A i \in tx.ins : i.of \in Outpoints /\ i.value \in Nat
    BY DEF Update, IInv, TypeOK, PlanInv, SpliceInv, SplicePcs
  <2>2. \A o \in t.outs : o.value \in Nat
    BY <1>3, <2>1, ValidOuts
  <2>3. \A i \in ins : i.of \in Outpoints /\ i.value \in Nat
    <3>1. \A c \in Coins : /\ In(c).of = c /\ In(c).value \in Nat
      BY <2>1, Typed DEF In, CoinRecord
    <3>2. contrib.coin \in Coins /\ \A c \in Coins : c \in Outpoints
      BY <2>1 DEF Agreed, Outpoints
    <3>3. /\ PeerIn.of \in Outpoints /\ PeerIn.value \in Nat
      BY DEF PeerIn, Outpoints
    <3>4. QED BY <2>1, <3>1, <3>2, <3>3 DEF EditedIns, In
  <2>4. pc' \in {"update", "sign"} /\ Continue
    BY <1>3
  <2>5. TypeOK'
    BY <1>3, <2>2, <2>3, <2>4 DEF IInv, TypeOK, Continue, SplicePcs, Outpoints
  <2>6. SelectionInv'
    BY <1>3, <2>1, <2>4, FrameRequest
    DEF IInv, SelectionInv, Continue, Chosen, SplicePcs, Selecting
  <2>7. SpliceInv'
    <3>1. Agreed'
      BY <1>3, <2>1 DEF Agreed, Continue, Out
    <3>2. Exact'
      BY <1>3, <2>1, FramePlan DEF Continue
    <3>3. QED BY <2>4, <3>1, <3>2 DEF SpliceInv
  <2>8. PlanInv' /\ BuiltInv' /\ SpliceGoesThrough'
    BY <2>1, <2>4 DEF PlanInv, BuiltInv, SpliceGoesThrough, Continue
  <2>9. QED BY <2>5, <2>6, <2>7, <2>8 DEF IInv
<1>4. QED BY <1>1, <1>2, <1>3

LEMMA SignKeeps == ASSUME IInv, Sign PROVE IInv'
<1>1. CASE Stop("failed")
  BY <1>1, StopFailed
<1>2. CASE ~Stop("failed")
  <2>1. /\ pc = "sign" /\ Stop("signed") /\ \A c \in selected : Spends(tx, c)
        /\ Signable /\ Valid(tx, contrib, RequiredInputs)
    BY <1>2 DEF Sign
  <2>2. /\ pc' = "signed"
        /\ UNCHANGED <<wallet, req, kw, allowed, taken, target, reserve, selected,
                       previous, plan, tx, todo, feeLeft, contrib>>
    BY <2>1 DEF Stop
  <2>3. req.op = "splice" /\ Exact /\ Agreed
    BY <2>1 DEF IInv, PlanInv, SpliceInv, SplicePcs
  <2>4. TypeOK'
    BY <2>2 DEF IInv, TypeOK, Final
  <2>5. SelectionInv'
    BY <2>1, <2>2, FrameRequest DEF IInv, SelectionInv, Chosen, SplicePcs, Selecting
  <2>6. SpliceInv'
    <3>1. Agreed'
      BY <2>2, <2>3 DEF Agreed, Out
    <3>2. Exact'
      BY <2>2, <2>3, FramePlan
    <3>3. QED BY <2>1, <2>2, <3>1, <3>2, FrameTx DEF SpliceInv
  <2>7. PlanInv' /\ BuiltInv' /\ SpliceGoesThrough'
    BY <2>2, <2>3 DEF PlanInv, BuiltInv, SpliceGoesThrough, SplicePcs
  <2>8. QED BY <2>4, <2>5, <2>6, <2>7 DEF IInv
<1>3. QED BY <1>1, <1>2

\* A coin pays no more than is left of the fee or than it has, and keeps
\* something if it has anything.
LEMMA ShareBounds ==
  ASSUME Sweep, feeLeft \in Nat, NEW c, wallet[c].value \in Nat
  PROVE  /\ FeeShare(c) \in Int /\ FeeShare(c) <= feeLeft
         /\ FeeShare(c) <= wallet[c].value
         /\ wallet[c].value > 0 => FeeShare(c) < wallet[c].value
<1> DEFINE v == wallet[c].value
           a == feeLeft
           b == Max({v - 1, 0})
<1>1. b \in Int /\ b <= v /\ (v > 0 => b < v)
  <2>1. \E x \in {v - 1, 0} : \A y \in {v - 1, 0} : x >= y
    OBVIOUS
  <2>2. b \in {v - 1, 0} /\ \A y \in {v - 1, 0} : b >= y
    BY <2>1 DEF Max
  <2> HIDE DEF b
  <2>3. QED BY <2>2
<1>2. FeeShare(c) = Min({a, b})
  BY DEF FeeShare
<1>3. Min({a, b}) \in {a, b} /\ \A y \in {a, b} : Min({a, b}) <= y
  <2> HIDE DEF b
  <2>1. \E x \in {a, b} : \A y \in {a, b} : x <= y
    BY <1>1
  <2>2. QED BY <2>1 DEF Min
<1>4. FeeShare(c) \in Int /\ FeeShare(c) <= a /\ FeeShare(c) <= b
  <2> HIDE DEF b
  <2>1. QED BY <1>1, <1>2, <1>3
<1>5. QED
  <2> HIDE DEF b
  <2>1. QED BY <1>1, <1>4

\* What is known of a PSBT that still tells the channel from other outputs.
LEMMA ChannelFound ==
  ASSUME NEW t, Baseline(t.outs), \A o \in t.outs : o.value \in Nat,
         Cardinality(ChannelOutputs(t)) = 1
  PROVE  \E v \in Nat : /\ t.outs = {Out("channel", v)}
                        /\ (CHOOSE o \in ChannelOutputs(t) : TRUE).value = v
<1>1. CASE OneChannel(t.outs)
  <2>1. PICK o \in t.outs : t.outs = {Out("channel", o.value)}
    BY <1>1 DEF OneChannel
  <2>2. o = Out("channel", o.value) /\ o.value \in Nat
    BY <2>1
  <2>3. ChannelOutputs(t) = {o}
    <3>1. o.to = "channel"
      BY <2>2 DEF Out
    <3>2. t.outs = {o}
      BY <2>1
    <3>3. QED BY <3>1, <3>2 DEF ChannelOutputs
  <2>4. (CHOOSE x \in ChannelOutputs(t) : TRUE) = o
    BY <2>3
  <2>5. QED BY <2>1, <2>2, <2>4
<1>2. CASE t.outs = {Out("channel", Capacity), Out("other p2wsh", 700)}
  <2> DEFINE a == Out("channel", Capacity)
             b == Out("other p2wsh", 700)
  <2>1. a.to = "channel" /\ b.to = "other p2wsh"
    BY DEF Out
  <2>0. t.outs = {a, b}
    BY <1>2
  <2> HIDE DEF a, b
  <2>2. ChannelOutputs(t) = {a, b} /\ a # b
    BY <2>0, <2>1 DEF ChannelOutputs
  <2>3. IsFiniteSet({a, b})
    <3>1. IsFiniteSet({a} \union {b}) /\ {a} \union {b} = {a, b}
      BY FS_Singleton, FS_AddElement
    <3>2. QED BY <3>1
  <2>4. PICK x : {a, b} = {x}
    BY <2>2, <2>3, FS_Singleton
  <2>5. QED BY <2>2, <2>4
<1>3. QED BY <1>1, <1>2 DEF Baseline

\* The contribution of a coin to a PSBT with one channel output.
LEMMA ContributionFacts ==
  ASSUME IInv, pc = "add", NEW c \in todo, Cardinality(ChannelOutputs(tx)) = 1
  PROVE  LET k == Contribution(c, tx)
         IN  \E v \in Nat :
               /\ tx.outs = {Out("channel", v)}
               /\ k.coin = c /\ k.channel = v /\ k.change = plan.change
               /\ k.baseline = {Out("channel", v)}
               /\ k.credit \in Nat /\ (selected = {c} => k.credit > 0)
               /\ ~Sweep => k.credit = plan.amount /\ k.maxFee = plan.fee
<1>1. /\ wallet \in Wallets /\ req \in Requests /\ kw \in FeeRates
      /\ selected \subseteq Coins /\ todo \subseteq selected /\ feeLeft \in Nat
      /\ plan \in [fee : Nat, amount : Nat, change : Nat]
      /\ \A o \in tx.outs : o.value \in Nat
  BY DEF IInv, TypeOK
<1>2. /\ req.op = "splice" /\ Exact /\ Baseline(tx.outs) /\ (~Sweep => todo = selected)
      /\ ~Sweep => Cardinality(selected) = 1
  BY DEF IInv, PlanInv, SpliceInv, SelectionInv, Chosen, SplicePcs
<1>3. PICK v \in Nat : /\ tx.outs = {Out("channel", v)}
                       /\ (CHOOSE o \in ChannelOutputs(tx) : TRUE).value = v
  BY <1>1, <1>2, ChannelFound
<1> DEFINE k == Contribution(c, tx)
           value == wallet[c].value
<1>4. c \in Coins /\ value \in Nat
  BY <1>1, Typed DEF CoinRecord
<1>5. /\ k.coin = c /\ k.channel = v /\ k.baseline = {Out("channel", v)}
      /\ k.change = (IF Sweep THEN 0 ELSE plan.change)
      /\ k.credit = value - FeeShare(c) - (IF Sweep THEN 0 ELSE plan.change)
      /\ k.maxFee = FeeShare(c)
  BY <1>3 DEF Contribution
<1>6. k.change = plan.change
  BY <1>2, <1>5 DEF Exact
<1>7. ASSUME selected = {c}
      PROVE  /\ plan.amount + plan.fee + plan.change = value /\ value > 0
             /\ plan.amount > 0
  <2>1. Values[c] = value
    BY <1>4 DEF Values
  <2>2. SumFunctionOnSet(Values, {c}) = Values[c]
    BY <1>4, <2>1, SumSingleton
  <2>3. Total(selected) = value
    BY <1>7, <2>1, <2>2 DEF Total
  <2> HIDE DEF value
  <2>4. QED BY <1>1, <1>2, <2>3 DEF Exact
<1>8. CASE Sweep
  <2>1. /\ FeeShare(c) \in Int /\ FeeShare(c) <= value
        /\ value > 0 => FeeShare(c) < value
    BY <1>1, <1>4, <1>8, ShareBounds
  <2>2. k.credit = value - FeeShare(c)
    BY <1>4, <1>5, <1>8, <2>1
  <2> HIDE DEF k, value
  <2>3. k.credit \in Nat /\ (selected = {c} => k.credit > 0)
    BY <1>4, <1>7, <2>1, <2>2
  <2>4. QED BY <1>3, <1>5, <1>6, <1>8, <2>3 DEF k
<1>9. CASE ~Sweep
  <2>1. selected = {c}
    <3>1. IsFiniteSet(selected)
      BY <1>1, Holdings
    <3>2. PICK x : selected = {x}
      BY <1>2, <1>9, <3>1, FS_Singleton
    <3>3. QED BY <1>1, <3>2
  <2>2. FeeShare(c) = plan.fee
    BY <1>9 DEF FeeShare
  <2>3. k.credit = value - plan.fee - plan.change /\ k.maxFee = plan.fee
    BY <1>5, <1>9, <2>2
  <2> HIDE DEF k, value
  <2>4. k.credit = plan.amount
    BY <1>1, <1>4, <1>7, <2>1, <2>3
  <2>5. k.credit \in Nat /\ k.credit > 0
    BY <1>1, <1>7, <2>1, <2>4
  <2>6. QED BY <1>3, <1>5, <1>6, <1>9, <2>3, <2>4, <2>5 DEF k
<1>10. QED BY <1>8, <1>9

\* A coin that is the only one is not refused.
LEMMA OnlyCoinValid ==
  ASSUME NEW c \in Coins, NEW k, NEW v \in Nat, NEW required \in SUBSET {c},
         Copies(tx, c) = {}, k.coin = c, k.channel = v,
         k.baseline = {Out("channel", v)}, k.credit \in Nat, k.credit > 0
  PROVE  Valid([ins |-> tx.ins \union {In(c)}, outs |-> Uncredited(k)], k, required)
<1> DEFINE added == [ins |-> tx.ins \union {In(c)}, outs |-> Uncredited(k)]
           old == Out("channel", v)
           new == Out("channel", v + k.credit)
           rest == ChangeOutput(k.change)
<1>1. Spends(added, c)
  <2>1. In(c).of = c /\ In(c).value = wallet[c].value
    BY DEF In
  <2>2. Copies(added, c) = {In(c)}
    BY <2>1 DEF Copies
  <2>3. QED BY <2>1, <2>2 DEF Spends
<1>2. Uncredited(k) # Credited(k)
  <2>1. old \in Uncredited(k)
    BY DEF Uncredited
  <2>2. old # new /\ old \notin rest
    <3>1. v # v + k.credit
      OBVIOUS
    <3>2. old.value = v /\ new.value = v + k.credit /\ old.to = "channel"
      BY DEF Out
    <3>3. \A o \in rest : o.to = "change"
      BY DEF ChangeOutput, Out
    <3> HIDE DEF old, new, rest
    <3>4. QED BY <3>1, <3>2, <3>3
  <2>3. Credited(k) = {new} \union rest
    BY DEF Credited
  <2> HIDE DEF old, new, rest
  <2>4. QED BY <2>1, <2>2, <2>3
<1>3. added.outs = Uncredited(k)
  OBVIOUS
<1> HIDE DEF added
<1>4. Valid(added, k, required)
  BY <1>1, <1>2, <1>3 DEF Valid
<1>5. QED BY <1>4 DEF added

\* The next coin of a sweep, or the last coin.
LEMMA AddedKeeps ==
  ASSUME IInv, pc = "add", NEW c \in todo, Cardinality(ChannelOutputs(tx)) = 1,
         NEW k, NEW left, k = Contribution(c, tx),
         left = (IF Sweep THEN feeLeft - FeeShare(c) ELSE 0),
         tx' = [ins |-> tx.ins \union {In(c)}, outs |-> Uncredited(k)],
         todo' = todo \ {c}, feeLeft' = left, todo = {c} => left = 0,
         contrib' = IF Sweep /\ todo = {c}
                    THEN [k EXCEPT !.credit = plan.amount, !.maxFee = plan.fee]
                    ELSE k,
         pc' = (IF todo = {c} THEN "update" ELSE "add"), Continue, plan' = plan
  PROVE  IInv'
<1>1. /\ wallet \in Wallets /\ req \in Requests /\ kw \in FeeRates
      /\ selected \subseteq Coins /\ todo \subseteq selected /\ feeLeft \in Nat
      /\ plan \in [fee : Nat, amount : Nat, change : Nat]
      /\ \A i \in tx.ins : i.of \in Outpoints /\ i.value \in Nat
  BY DEF IInv, TypeOK
<1>2. /\ req.op = "splice" /\ Exact /\ (~Sweep => todo = selected)
      /\ ~Sweep => Cardinality(selected) = 1
  BY DEF IInv, PlanInv, SpliceInv, SelectionInv, Chosen, SplicePcs
<1>3. PICK v \in Nat :
        /\ tx.outs = {Out("channel", v)}
        /\ k.coin = c /\ k.channel = v /\ k.change = plan.change
        /\ k.baseline = {Out("channel", v)}
        /\ ~Sweep => k.credit = plan.amount /\ k.maxFee = plan.fee
  BY ContributionFacts
<1>4. /\ UNCHANGED <<wallet, req, kw, allowed, taken, target, reserve, selected,
                     previous, plan>>
  BY DEF Continue
<1>5. ~Sweep => todo = {c}
  <2>1. ASSUME ~Sweep PROVE todo = {c}
    <3>1. IsFiniteSet(todo) /\ Cardinality(todo) = 1
      BY <1>1, <1>2, <2>1, Holdings
    <3>2. PICK x : todo = {x}
      BY <3>1, FS_Singleton
    <3>3. QED BY <3>2
  <2>2. QED BY <2>1
<1>6. c \in Coins /\ wallet[c].value \in Nat
  BY <1>1, Typed DEF CoinRecord
<1>7. feeLeft' \in Nat
  <2>1. CASE Sweep
    <3>1. FeeShare(c) \in Int /\ FeeShare(c) <= feeLeft
      BY <1>1, <1>6, <2>1, ShareBounds
    <3>2. feeLeft' = feeLeft - FeeShare(c)
      BY <2>1
    <3>3. QED BY <1>1, <3>1, <3>2
  <2>2. CASE ~Sweep
    BY <2>2
  <2>3. QED BY <2>1, <2>2
<1>8. tx'.outs = {Out("channel", v)} \union ChangeOutput(plan.change)
      /\ tx'.ins = tx.ins \union {In(c)}
  BY <1>3 DEF Uncredited
<1>9. TypeOK'
  <2>1. \A i \in tx'.ins : i.of \in Outpoints /\ i.value \in Nat
    BY <1>1, <1>6, <1>8 DEF In, Outpoints
  <2>2. \A o \in tx'.outs : o.value \in Nat
    BY <1>1, <1>8 DEF Out, ChangeOutput
  <2>3. pc' \in {"add", "update"} /\ todo' \subseteq selected
    BY <1>1
  <2>4. QED BY <1>4, <1>7, <2>1, <2>2, <2>3 DEF IInv, TypeOK, SplicePcs, Outpoints
<1>10. pc' \in {"add", "update"}
  OBVIOUS
<1>11. SelectionInv'
  BY <1>4, <1>10, FrameRequest DEF IInv, SelectionInv, Chosen, SplicePcs, Selecting
<1>12. SpliceInv'
  <2>1. Exact'
    BY <1>2, <1>4, FramePlan
  <2>2. ASSUME pc' = "add"
        PROVE  Baseline(tx.outs)' /\ (~Sweep => todo = selected)'
    <3>1. Sweep /\ Sweep'
      BY <1>4, <1>5, <2>2, FrameRequest
    <3>2. plan.change = 0
      BY <1>2, <3>1 DEF Exact
    <3>3. tx'.outs = tx.outs
      BY <1>3, <1>8, <3>2 DEF ChangeOutput
    <3>4. Baseline(tx.outs)
      BY DEF IInv, PlanInv, SpliceInv, SplicePcs
    <3>5. Baseline(tx.outs)'
      BY <3>3, <3>4 DEF Baseline, OneChannel
    <3>6. QED BY <3>1, <3>5
  <2>3. ASSUME pc' = "update" PROVE Agreed'
    <3>1. todo = {c}
      BY <2>3
    <3>2. /\ contrib'.coin = c /\ contrib'.channel = v /\ contrib'.change = plan.change
          /\ contrib'.baseline = {Out("channel", v)}
          /\ contrib'.credit = plan.amount /\ contrib'.maxFee = plan.fee
      <4>1. CASE Sweep
        <5>1. /\ k = [coin |-> k.coin, value |-> k.value, change |-> k.change,
                      channel |-> k.channel, credit |-> k.credit,
                      baseline |-> k.baseline, maxFee |-> k.maxFee]
          BY DEF Contribution
        <5>2. contrib' = [k EXCEPT !.credit = plan.amount, !.maxFee = plan.fee]
          BY <3>1, <4>1
        <5>3. QED BY <1>3, <5>1, <5>2
      <4>2. CASE ~Sweep
        BY <1>3, <4>2
      <4>3. QED BY <4>1, <4>2
    <3>3. c \in selected'
      BY <1>1, <1>4
    <3>4. QED BY <1>4, <3>2, <3>3 DEF Agreed, Out
  <2>4. QED BY <1>10, <2>1, <2>2, <2>3 DEF SpliceInv
<1>13. PlanInv' /\ BuiltInv' /\ SpliceGoesThrough'
  BY <1>2, <1>4, <1>10 DEF PlanInv, BuiltInv, SpliceGoesThrough, SplicePcs
<1>14. QED BY <1>9, <1>11, <1>12, <1>13 DEF IInv

LEMMA RefusedKeeps ==
  ASSUME IInv, pc = "add", NEW c \in todo, Cardinality(ChannelOutputs(tx)) = 1,
         Copies(tx, c) = {}, NEW k, k = Contribution(c, tx),
         ~Valid([ins |-> tx.ins \union {In(c)}, outs |-> Uncredited(k)], k,
                RequiredInputs),
         Stop("refused")
  PROVE  IInv'
<1>1. /\ wallet \in Wallets /\ selected \subseteq Coins /\ todo \subseteq selected
      /\ req.op = "splice"
  BY DEF IInv, TypeOK, PlanInv, SplicePcs
<1>2. Cardinality(selected) > 1
  <2>1. IsFiniteSet(selected) /\ Cardinality(selected) \in Nat /\ c \in selected
    BY <1>1, Holdings, FS_CardinalityType
  <2>2. SUFFICES ASSUME Cardinality(selected) <= 1 PROVE FALSE
    BY <2>1
  <2>3. selected = {c}
    <3>1. Cardinality(selected) = 1
      BY <2>1, <2>2, FS_EmptySet
    <3>2. PICK x : selected = {x}
      BY <2>1, <3>1, FS_Singleton
    <3>3. QED BY <2>1, <3>2
  <2>4. RequiredInputs \in SUBSET {c} /\ c \in Coins
    BY <1>1, <2>1, <2>3 DEF RequiredInputs
  <2>5. PICK v \in Nat :
          /\ k.coin = c /\ k.channel = v /\ k.baseline = {Out("channel", v)}
          /\ k.credit \in Nat /\ k.credit > 0
    BY <2>3, ContributionFacts
  <2>6. QED BY <2>4, <2>5, OnlyCoinValid
<1>3. /\ pc' = "refused"
      /\ UNCHANGED <<wallet, req, kw, allowed, taken, target, reserve, selected,
                     previous, plan, tx, todo, feeLeft, contrib>>
  BY DEF Stop
<1>4. TypeOK'
  BY <1>3 DEF IInv, TypeOK, Final
<1>5. SelectionInv'
  BY <1>3, FrameRequest DEF IInv, SelectionInv, Chosen, SplicePcs, Selecting
<1>6. PlanInv' /\ BuiltInv' /\ SpliceInv' /\ SpliceGoesThrough'
  BY <1>1, <1>2, <1>3
  DEF PlanInv, BuiltInv, SpliceInv, SpliceGoesThrough, SplicePcs
<1>7. QED BY <1>4, <1>5, <1>6 DEF IInv

LEMMA AddKeeps == ASSUME IInv, NEW c \in Coins, AddInput(c) PROVE IInv'
<1> DEFINE k == Contribution(c, tx)
           added == [ins |-> tx.ins \union {In(c)}, outs |-> Uncredited(k)]
           left == IF Sweep THEN feeLeft - FeeShare(c) ELSE 0
<1>1. pc = "add" /\ c \in todo
  BY DEF AddInput
<1>2. CASE Stop("failed")
  BY <1>2, StopFailed
<1>3. CASE ~Stop("failed")
  <2>1. Cardinality(ChannelOutputs(tx)) = 1 /\ Copies(tx, c) = {}
    BY <1>3 DEF AddInput
  <2>2. \/ ~Valid(added, k, RequiredInputs) /\ Stop("refused")
        \/ /\ todo = {c} => left = 0
           /\ tx' = added /\ todo' = todo \ {c} /\ feeLeft' = left
           /\ contrib' = IF Sweep /\ todo = {c}
                         THEN [k EXCEPT !.credit = plan.amount, !.maxFee = plan.fee]
                         ELSE k
           /\ pc' = (IF todo = {c} THEN "update" ELSE "add")
           /\ Continue /\ plan' = plan
    BY <1>3 DEF AddInput
  <2>3. CASE ~Valid(added, k, RequiredInputs) /\ Stop("refused")
    <3> HIDE DEF k
    <3>1. QED BY <1>1, <2>1, <2>3, RefusedKeeps DEF k
  <2>4. CASE /\ todo = {c} => left = 0
             /\ tx' = added /\ todo' = todo \ {c} /\ feeLeft' = left
             /\ contrib' = IF Sweep /\ todo = {c}
                           THEN [k EXCEPT !.credit = plan.amount, !.maxFee = plan.fee]
                           ELSE k
             /\ pc' = (IF todo = {c} THEN "update" ELSE "add")
             /\ Continue /\ plan' = plan
    BY <1>1, <2>1, <2>4, AddedKeeps
  <2>5. QED BY <2>2, <2>3, <2>4
<1>4. QED BY <1>2, <1>3

----------------------------------------------------------------------------
\* Every step of planning, building and negotiating, of CLN, the peer and other
\* processes keeps the inductive invariant.
THEOREM NextIInv == IInv /\ [Next]_vars => IInv'
<1> SUFFICES ASSUME IInv, [Next]_vars PROVE IInv'
  OBVIOUS
<1>1. CASE Planned
  <2>1. NoSplice
    BY <1>1 DEF Planned, NoSplice
  <2>2. CASE ListCoins
    BY <2>1, <2>2, ListKeeps
  <2>3. CASE Choose
    BY <2>1, <2>3, ChooseKeeps
  <2>4. CASE MakePlan
    BY <2>1, <2>4, PlanKeeps
  <2>5. CASE LockCoins
    BY <2>1, <2>5, LockKeeps
  <2>6. CASE BuildTx
    BY <2>1, <2>6, BuildKeeps
  <2>7. QED BY <1>1, <2>2, <2>3, <2>4, <2>5, <2>6 DEF Planned, PlanStep
<1>2. CASE SpliceInit
  BY <1>2, InitKeeps
<1>3. CASE \E c \in Coins : AddInput(c)
  BY <1>3, AddKeeps
<1>4. CASE Update
  BY <1>4, UpdateKeeps
<1>5. CASE Sign
  BY <1>5, SignKeeps
<1>6. CASE Decline
  BY <1>6, StopFailed DEF Decline
<1>7. CASE \E c \in Coins : Reserved(c)
  <2>1. PICK c \in Coins : Reserved(c)
    BY <1>7
  <2>2. taken \subseteq Coins
    BY DEF IInv, TypeOK
  <2>3. QED BY <2>1, <2>2, TakenKeeps DEF Reserved, OtherReserves
<1>8. CASE Ended \/ UNCHANGED vars
  <2>1. UNCHANGED vars
    BY <1>8 DEF Ended
  <2>2. taken \subseteq Coins
    BY DEF IInv, TypeOK
  <2>3. QED BY <2>1, <2>2, TakenKeeps DEF vars, planVars
<1>9. QED BY <1>1, <1>2, <1>3, <1>4, <1>5, <1>6, <1>7, <1>8 DEF Next, Own

\* The inductive invariant holds for any wallet, request and fee rate.
THEOREM Invariance == Spec => []IInv
  BY InitIInv, NextIInv, PTL DEF Spec

\* The variables keep their types: no amount, fee, change or part of a sweep's
\* fee that is left ever becomes negative (planner.py:83-133, splice.py:440-463).
THEOREM TypesHold == Spec => []TypeOK
<1>1. IInv => TypeOK
  BY DEF IInv
<1>2. QED BY <1>1, Invariance, PTL

\* Every signed funding transaction, whatever the wallet, the amounts, the fee
\* rate and JoinMarket's choice, pays what was asked from coins the policy
\* admits, and a fee that reaches the rate and exceeds it by a change output's
\* at most (planner.py:57-133, tx_builder.py:76-105).
THEOREM FundingIsHonest == Spec => []FundingTxHonest
  BY Invariance, InvHonest, PTL

\* No approved plan is short of CLN's own fee, and no single coin's PSBT fails
\* the operation's validation, once splice_init has opened the splice
\* (splice.py:247-259, 393-402 and 477-491).
THEOREM SplicesGoThrough == Spec => []SpliceGoesThrough
<1>1. IInv => SpliceGoesThrough
  BY DEF IInv
<1>2. QED BY <1>1, Invariance, PTL

\* A signed splice spends the selected coins and pays what was approved, after
\* any number of updates by CLN and the peer (tx_builder.py:612-704).
THEOREM SignedSplicesKeepThePlan == Spec => []SignedKeepsPlan
  BY Invariance, InvKeepsPlan, PTL

----------------------------------------------------------------------------
(***************************************************************************)
(* Why the selection loop ends, JoinMarket's choice being what it may.     *)
(***************************************************************************)

\* A retry asks for more than it has, and gets it.
RetryInv ==
  /\ pc = "list" => previous = {}
  /\ pc = "choose" => previous = selected /\ Total(selected) < target
  /\ pc = "plan" => previous = {} \/ Total(previous) < Total(selected)

SelectionGrows ==
  [][pc = "choose" /\ pc' = "plan" => Total(selected) < Total(selected')]_vars

NoSelectionTwice == pc = "plan" => previous # selected

LEMMA WantedPositive ==
  ASSUME req \in Requests, ~Sweep PROVE Wanted \in Nat /\ Wanted > 0
<1> DEFINE f == req.amounts
           D == 1 .. Len(f)
<1>1. f \in Seq(Nat) /\ f # <<>> /\ Range(f) \subseteq Nat \ {0}
  BY PlanningAssumption DEF RequestRecord, Sweep
<1>2. DOMAIN f = D /\ 1 \in D /\ IsFiniteSet(D)
  BY <1>1, FS_Interval
<1>3. \A i \in D : f[i] \in Int /\ f[i] \in Nat /\ f[i] > 0
  <2>1. ASSUME NEW i \in D PROVE f[i] \in Nat \ {0}
    BY <1>1, <1>2 DEF Range
  <2>2. QED BY <2>1
<1>4. IsFiniteSet(D \ {1})
  BY <1>2, FS_RemoveElement
<1> HIDE DEF f, D
<1>5. SumFunctionOnSet(f, D) = f[1] + SumFunctionOnSet(f, D \ {1})
  BY <1>2, <1>3, SumRemove
<1>6. SumFunctionOnSet(f, D \ {1}) \in Nat
  BY <1>3, <1>4, SumNat
<1>7. f[1] \in Nat /\ f[1] > 0
  BY <1>2, <1>3
<1>8. Wanted = SumFunctionOnSet(f, D)
  BY <1>2 DEF Wanted, SumFunction, f
<1>9. QED BY <1>5, <1>6, <1>7, <1>8

LEMMA RetryRaises ==
  ASSUME wallet \in Wallets, req \in Requests, kw \in FeeRates, reserve \in Nat,
         selected \in SUBSET Coins, NEW p, p = BuildPlan(selected),
         Short(p), ~Sweep, Again(p)
  PROVE  Total(selected) < target'
<1> DEFINE fee == Fee(VSize(selected, Outputs, TRUE))
           margin == ConservativeFee(selected)
           total == Total(selected)
<1>1. /\ total \in Nat /\ fee \in Nat /\ margin \in Nat
      /\ Wanted \in Nat /\ Wanted > 0
  <2> DEFINE v1 == VSize(selected, 1, TRUE)
  <2>0. kw \in Nat /\ Outputs \in Nat /\ v1 \in Nat
    BY Typed, Sizes
  <2>1. VSize(selected, Outputs, TRUE) \in Nat
    BY <2>0, Sizes
  <2>2. v1 + 97 \in Nat
    <3> HIDE DEF v1
    <3>1. QED BY <2>0
  <2>3. fee \in Nat /\ margin \in Nat
    BY <2>0, <2>1, <2>2, FeeBounds DEF ConservativeFee
  <2>4. QED BY <2>3, Holdings, WantedPositive
<1>2. reserve' \in Nat
  <2>1. kw \in Nat /\ kw <= kw
    BY Typed
  <2>2. CeilDiv(kw, 250) \in Nat
    BY <2>1, CeilingBound
  <2>3. QED BY <2>2 DEF Again
<1>3. p.amount = Wanted /\ p.change = total - Wanted - fee
  BY DEF BuildPlan, Sweep
<1>4. req.op = "splice" => Fee(VSize(selected, 1, TRUE)) = fee
  BY PlanningAssumption DEF Outputs
<1>5. Insufficient(p) => total < Wanted + fee
  <2> HIDE DEF total, fee
  <2>1. QED BY <1>1, <1>3 DEF Insufficient
<1>6. ~Insufficient(p) => req.op = "splice" /\ total < Wanted + margin
  BY DEF Short
<1>7. target' = NextTarget(p) /\ req.op \in {"open", "multi", "swap", "splice"}
  BY Typed DEF Again
<1>8. CASE req.op \in {"open", "swap"}
  <2>1. target' = Wanted + fee
    BY <1>7, <1>8 DEF NextTarget
  <2> HIDE DEF fee, margin
  <2>2. QED BY <1>5, <1>6, <1>8, <2>1
<1>9. CASE req.op = "multi"
  <2>1. target' = Wanted + fee + reserve'
    BY <1>7, <1>9 DEF NextTarget
  <2> HIDE DEF fee, margin
  <2>2. QED BY <1>1, <1>2, <1>5, <1>6, <1>9, <2>1
<1>10. CASE req.op = "splice"
  <2>1. target' = IF Insufficient(p) THEN Wanted + fee ELSE Wanted + margin
    BY <1>4, <1>7, <1>10 DEF NextTarget
  <2> HIDE DEF fee, margin
  <2>2. QED BY <1>5, <1>6, <2>1
<1>11. QED BY <1>7, <1>8, <1>9, <1>10

LEMMA TotalPrimed ==
  ASSUME wallet' = wallet
  PROVE  Values' = Values /\ \A S : Total(S)' = Total(S)
  BY DEF Total, Values

LEMMA EmptyTotal == Total({}) = 0
  BY SumEmpty DEF Total

LEMMA ListRaises ==
  ASSUME IInv, RetryInv, ListCoins PROVE RetryInv'
<1>1. CASE Fail
  BY <1>1 DEF Fail, RetryInv
<1>2. CASE ~Fail
  <2>1. /\ pc = "list" /\ selected = {} /\ previous = {}
        /\ wallet \in Wallets /\ req \in Requests /\ kw \in FeeRates
    BY <1>2 DEF ListCoins, IInv, TypeOK, SelectionInv, RetryInv
  <2>2. /\ wallet' = wallet /\ previous' = previous
        /\ \/ pc' = "plan"
           \/ pc' = "choose" /\ ~Sweep /\ target' = FirstTarget /\ selected' = selected
    BY <1>2, <2>1 DEF ListCoins
  <2>3. CASE pc' = "plan"
    BY <2>1, <2>2, <2>3 DEF RetryInv
  <2>4. CASE pc' = "choose" /\ ~Sweep /\ target' = FirstTarget /\ selected' = selected
    <3>1. FirstTarget > 0
      <4>1. kw \in Nat /\ OneInput \in Nat /\ Wanted \in Nat /\ Wanted > 0
        BY <2>1, <2>4, Typed, WantedPositive DEF OneInput
      <4>2. Fee(OneInput) \in Nat
        BY <4>1, FeeBounds
      <4>3. QED BY <4>1, <4>2 DEF FirstTarget
    <3>2. Total(selected)' = 0
      BY <2>1, <2>2, <2>4, TotalPrimed, EmptyTotal DEF Total
    <3>3. QED BY <2>1, <2>2, <2>4, <3>1, <3>2 DEF RetryInv
  <2>5. QED BY <2>2, <2>3, <2>4
<1>3. QED BY <1>1, <1>2

\* What JoinMarket selects is worth more than the coins just refused.
LEMMA ChooseRaises ==
  ASSUME IInv, RetryInv, Choose, pc' = "plan"
  PROVE  /\ Total(selected) < Total(selected') /\ previous' = selected
         /\ wallet' = wallet
<1>1. /\ pc = "choose" /\ wallet' = wallet /\ previous' = previous
      /\ selected' \in SUBSET Coins /\ Total(selected') >= target
  BY DEF Choose, Fail, IInv, TypeOK
<1>2. /\ previous = selected /\ Total(selected) < target /\ target \in Nat
      /\ wallet \in Wallets /\ selected \in SUBSET Coins
  BY <1>1 DEF RetryInv, IInv, TypeOK
<1>3. Total(selected) \in Nat /\ Total(selected') \in Nat
  BY <1>1, <1>2, Holdings
<1>4. QED BY <1>1, <1>2, <1>3

LEMMA NextRetryInv == IInv /\ RetryInv /\ [Next]_vars => RetryInv'
<1> SUFFICES ASSUME IInv, RetryInv, [Next]_vars PROVE RetryInv'
  OBVIOUS
<1>1. CASE ListCoins
  BY <1>1, ListRaises
<1>2. CASE Choose
  <2>1. CASE pc' = "plan"
    <3>1. Total(selected) < Total(selected') /\ previous' = selected /\ wallet' = wallet
      BY <1>2, <2>1, ChooseRaises
    <3>2. Total(previous)' = Total(selected) /\ Total(selected)' = Total(selected')
      BY <3>1, TotalPrimed DEF Total
    <3>3. QED BY <2>1, <3>1, <3>2 DEF RetryInv
  <2>2. CASE pc' # "plan"
    BY <1>2, <2>2 DEF Choose, Fail, RetryInv
  <2>3. QED BY <2>1, <2>2
<1>3. CASE MakePlan
  <2> DEFINE p == BuildPlan(selected)
  <2>1. pc' \in {"failed", "lock"} \/ (Again(p) /\ Short(p) /\ ~Sweep)
    BY <1>3 DEF MakePlan, Fail, Settle
  <2>2. CASE pc' \in {"failed", "lock"}
    BY <2>2 DEF RetryInv
  <2>3. CASE Again(p) /\ Short(p) /\ ~Sweep
    <3>1. Total(selected) < target'
      <4> HIDE DEF p
      <4>1. p = BuildPlan(selected)
        BY DEF p
      <4>2. QED BY <2>3, <4>1, RetryRaises DEF IInv, TypeOK
    <3>2. pc' = "choose" /\ previous' = selected /\ selected' = selected /\ wallet' = wallet
      BY <2>3 DEF Again
    <3>3. Total(selected)' = Total(selected)
      BY <3>2, TotalPrimed DEF Total
    <3>4. QED BY <3>1, <3>2, <3>3 DEF RetryInv
  <2>4. QED BY <2>1, <2>2, <2>3
<1>4. CASE \/ LockCoins \/ BuildTx \/ SpliceInit \/ Update \/ Sign \/ Decline
           \/ \E c \in Coins : AddInput(c)
  <2>1. pc' \notin Selecting
    BY <1>4 DEF LockCoins, BuildTx, SpliceInit, Update, Sign, Decline, AddInput,
       Stop, Fail, Selecting
  <2>2. QED BY <2>1 DEF RetryInv, Selecting
<1>5. CASE Ended \/ UNCHANGED vars \/ \E c \in Coins : Reserved(c)
  <2>1. UNCHANGED <<wallet, pc, target, selected, previous>>
    BY <1>5 DEF Ended, vars, planVars, Reserved, OtherReserves
  <2>2. Total(selected)' = Total(selected) /\ Total(previous)' = Total(previous)
    BY <2>1, TotalPrimed DEF Total
  <2>3. QED BY <2>1, <2>2 DEF RetryInv
<1>6. QED BY <1>1, <1>2, <1>3, <1>4, <1>5 DEF Next, Own, Planned, PlanStep

\* Each retry asks JoinMarket for more than the coins it has just refused are
\* worth (open_channel.py:220-248, splice.py:247-296).
THEOREM RetriesAskForMore == Spec => []RetryInv
<1>1. Init => RetryInv
  BY DEF Init, PlanInit, RetryInv
<1>2. QED BY <1>1, NextRetryInv, Invariance, PTL DEF Spec

\* Each selection is worth more than the one before, the first more than
\* nothing: the measure by which the loops end (open_channel.py:189-248).
THEOREM SelectionsGrow == Spec => SelectionGrows
<1>1. IInv /\ RetryInv /\ [Next]_vars
        => [pc = "choose" /\ pc' = "plan" => Total(selected) < Total(selected')]_vars
  <2>1. SUFFICES ASSUME IInv, RetryInv, Next, pc = "choose", pc' = "plan"
                 PROVE  Total(selected) < Total(selected')
    BY DEF vars, planVars
  <2>2. Choose
    BY <2>1 DEF Next, Own, Planned, PlanStep, ListCoins, MakePlan, LockCoins, BuildTx,
       SpliceInit, Update, Sign, Decline, AddInput, Ended, vars, planVars, Reserved,
       OtherReserves
  <2>3. QED BY <2>1, <2>2, ChooseRaises
<1>2. QED BY <1>1, Invariance, RetriesAskForMore, PTL DEF Spec, SelectionGrows

\* The loops' own guard against a repeated selection, previous_outpoints, never
\* fires: no coins are selected twice in a row (open_channel.py:231-238).
THEOREM NoRepeatedSelection == Spec => []NoSelectionTwice
<1>1. IInv /\ RetryInv => NoSelectionTwice
  <2>1. SUFFICES ASSUME IInv, RetryInv, pc = "plan", previous = selected PROVE FALSE
    BY DEF NoSelectionTwice
  <2>2. selected # {} /\ selected \in SUBSET Coins /\ wallet \in Wallets
    BY <2>1 DEF IInv, SelectionInv, TypeOK, Chosen
  <2>3. Total(selected) \in Nat /\ Total(selected) < Total(selected)
    BY <2>1, <2>2, Holdings DEF RetryInv
  <2>4. QED BY <2>3
<1>2. QED BY <1>1, Invariance, RetriesAskForMore, PTL
=============================================================================
