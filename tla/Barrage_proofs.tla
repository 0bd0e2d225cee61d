--------------------------- MODULE Barrage_proofs ---------------------------
(***************************************************************************)
(* Proofs about the barrage, for any finite set of workers and every       *)
(* capacity: the statistics collector with its HTTP handlers, the workers  *)
(* and their shutdown, and the command around them.                        *)
(***************************************************************************)
EXTENDS BarrageCommand, StatsHandlers, Integers, FiniteSetTheorems, WellFoundedInduction, TLAPS

-----------------------------------------------------------------------------
(* Induction, and sums over the workers *)

\* A set of natural numbers has a least one.
LEMMA LeastNatural ==
    ASSUME NEW T \in SUBSET Nat, T # {}
    PROVE  \E x \in T : \A y \in T : x <= y
  <1>1. PICK x \in T : \A y \in T : ~(<<y, x>> \in OpToRel(<, Nat))
    BY NatLessThanWellFounded, WFMin
  <1>2. ASSUME NEW y \in T PROVE x <= y
    <2>1. x \in Nat /\ y \in Nat
      OBVIOUS
    <2>2. ~(y < x)
      <3>1. ~(<<y, x>> \in OpToRel(<, Nat))
        BY <1>1
      <3> QED
        BY <2>1, <3>1 DEF OpToRel
    <2> QED
      BY <2>1, <2>2
  <1> QED
    BY <1>2

\* Induction over the natural numbers, for a set of them.
LEMMA SetInduction ==
    ASSUME NEW G \in SUBSET Nat, 0 \in G, \A n \in G : n + 1 \in G
    PROVE  G = Nat
  <1> SUFFICES ASSUME Nat \ G # {} PROVE FALSE
    OBVIOUS
  <1>1. PICK x \in Nat \ G : \A y \in Nat \ G : x <= y
    BY LeastNatural
  <1>2. x # 0 /\ x - 1 \in Nat
    BY <1>1
  <1>3. x - 1 \in G
    BY <1>1, <1>2
  <1> QED
    BY <1>1, <1>2, <1>3

\* MapThenSumSet over the component c of the elements of map, in the form of the
\* recursive function that defines it: f is that function on the sets of D.
Choice(s) == CHOOSE x \in s : TRUE
PlusRest(map, c, f, s) == IF s = {} THEN 0 ELSE map[Choice(s)][c] + f[s \ {Choice(s)}]
Adds(map, c, D, f) == f = [s \in D |-> PlusRest(map, c, f, s)]
SumFcn(map, c, S) == CHOOSE f : Adds(map, c, SUBSET S, f)
FieldSum(map, c, S) == SumFcn(map, c, S)[S]

\* The summands are natural numbers, or no larger than those of another map.
Natural(map, c, S) == \A x \in S : map[x][c] \in Nat
Below(m, k, c, S) == \A x \in S : m[x][c] \in Nat /\ m[x][c] <= k[x][c]

\* Totals adds the components with the sums below.
LEMMA TotalsAreSums ==
  ASSUME NEW map
  PROVE  Totals(map) = [cycles |-> FieldSum(map, "cycles", DOMAIN map),
                        flows |-> FieldSum(map, "flows", DOMAIN map)]
  <1>1. MapThenSumSet(LAMBDA w : map[w].cycles, DOMAIN map) = FieldSum(map, "cycles", DOMAIN map)
    BY DEF FieldSum, SumFcn, Adds, PlusRest, Choice, MapThenSumSet, MapThenFoldSet
  <1>2. MapThenSumSet(LAMBDA w : map[w].flows, DOMAIN map) = FieldSum(map, "flows", DOMAIN map)
    BY DEF FieldSum, SumFcn, Adds, PlusRest, Choice, MapThenSumSet, MapThenFoldSet
  <1> QED BY <1>1, <1>2 DEF Totals

\* What is chosen from a set is in it.
LEMMA Chosen == \A s : s # {} => Choice(s) \in s
  BY DEF Choice

\* Removing the chosen element
LEMMA Smaller ==
  ASSUME NEW s, IsFiniteSet(s), s # {}, NEW x \in s
  PROVE  /\ IsFiniteSet(s \ {x}) /\ Cardinality(s \ {x}) = Cardinality(s) - 1
         /\ Cardinality(s) \in Nat \ {0}
  BY FS_RemoveElement, FS_CardinalityType, FS_EmptySet

\* The recursion has a solution: on small sets first, then on larger ones.
LEMMA SumExists ==
  ASSUME NEW map, NEW c, NEW S, IsFiniteSet(S)
  PROVE  Adds(map, c, SUBSET S, SumFcn(map, c, S))
  <1> DEFINE Small(n) == {s \in SUBSET S : Cardinality(s) <= n}
             G == {n \in Nat : \E f : Adds(map, c, Small(n), f)}
  <1>0. \A s \in SUBSET S : IsFiniteSet(s) /\ Cardinality(s) \in Nat
    BY FS_Subset, FS_CardinalityType
  <1>1. 0 \in G
    <2>1. Small(0) = {{}}
      <3>1. \A s \in Small(0) : Cardinality(s) = 0
        BY <1>0
      <3> QED BY <1>0, <3>1, FS_EmptySet
    <2>2. Adds(map, c, {{}}, [s \in {{}} |-> 0])
      BY DEF Adds, PlusRest
    <2> QED BY <2>1, <2>2
  <1>2. ASSUME NEW n \in G PROVE n + 1 \in G
    <2>1. PICK f : Adds(map, c, Small(n), f)
      OBVIOUS
    <2> DEFINE g == [s \in Small(n + 1) |-> PlusRest(map, c, f, s)]
    <2>2. Small(n) \subseteq Small(n + 1)
      BY <1>0
    <2>3. \A s \in Small(n) : g[s] = f[s]
      BY <2>1, <2>2 DEF Adds
    <2>4. ASSUME NEW s \in Small(n + 1) PROVE PlusRest(map, c, f, s) = PlusRest(map, c, g, s)
      <3>1. CASE s = {}
        BY <3>1 DEF PlusRest
      <3>2. CASE s # {}
        <4> DEFINE r == s \ {Choice(s)}
        <4>1. Choice(s) \in s
          BY <3>2, Chosen
        <4>2. Cardinality(r) = Cardinality(s) - 1
          BY <4>1, <1>0, Smaller
        <4>3. r \in Small(n)
          BY <4>2, <1>0
        <4>4. g[r] = f[r]
          BY <4>3, <2>3
        <4> QED BY <4>4 DEF PlusRest
      <3> QED BY <3>1, <3>2
    <2>5. g = [s \in Small(n + 1) |-> PlusRest(map, c, g, s)]
      BY <2>4
    <2>6. Adds(map, c, Small(n + 1), g)
      BY <2>5 DEF Adds
    <2> HIDE DEF g, Small
    <2> QED BY <2>6
  <1>3. Cardinality(S) \in G
    BY <1>0, <1>1, <1>2, SetInduction
  <1>4. Small(Cardinality(S)) = SUBSET S
    BY <1>0, FS_Subset
  <1>5. \E f : Adds(map, c, SUBSET S, f)
    BY <1>3, <1>4
  <1> QED BY <1>5 DEF SumFcn

\* On a subset it is the sum over the subset.
LEMMA SumRestricts ==
  ASSUME NEW map, NEW c, NEW S, IsFiniteSet(S), NEW T \in SUBSET S
  PROVE  SumFcn(map, c, S)[T] = FieldSum(map, c, T)
  <1> DEFINE F == SumFcn(map, c, S)
             H == SumFcn(map, c, T)
             G == {n \in Nat : \A s \in SUBSET T : Cardinality(s) <= n => F[s] = H[s]}
  <1>0. \A s \in SUBSET S : IsFiniteSet(s) /\ Cardinality(s) \in Nat
    BY FS_Subset, FS_CardinalityType
  <1>1. \A s \in SUBSET T : F[s] = PlusRest(map, c, F, s) /\ H[s] = PlusRest(map, c, H, s)
    <2>1. Adds(map, c, SUBSET S, F) /\ Adds(map, c, SUBSET T, H)
      BY <1>0, SumExists
    <2> HIDE DEF F, H
    <2> QED BY <2>1 DEF Adds
  <1> HIDE DEF F, H
  <1>2. 0 \in G
    <2> SUFFICES ASSUME NEW s \in SUBSET T, Cardinality(s) <= 0 PROVE F[s] = H[s]
      OBVIOUS
    <2>1. s = {}
      BY <1>0, FS_EmptySet
    <2> QED BY <2>1, <1>1 DEF PlusRest
  <1>3. ASSUME NEW n \in G PROVE n + 1 \in G
    <2> SUFFICES ASSUME NEW s \in SUBSET T, Cardinality(s) <= n + 1 PROVE F[s] = H[s]
      OBVIOUS
    <2>1. CASE s = {}
      BY <2>1, <1>1 DEF PlusRest
    <2>2. CASE s # {}
      <3> DEFINE r == s \ {Choice(s)}
      <3>1. Choice(s) \in s
        BY <2>2, Chosen
      <3>2. Cardinality(r) = Cardinality(s) - 1
        BY <3>1, <1>0, Smaller
      <3>3. F[r] = H[r]
        BY <3>2, <1>0
      <3> QED BY <2>2, <3>3, <1>1 DEF PlusRest
    <2> QED BY <2>1, <2>2
  <1>4. Cardinality(T) \in G
    BY <1>0, <1>2, <1>3, SetInduction
  <1> QED BY <1>4, <1>0 DEF FieldSum, F, H

\* The sum takes its summands out of the set one by one.
LEMMA SumStep ==
  ASSUME NEW map, NEW c, NEW S, IsFiniteSet(S)
  PROVE  /\ S = {} => FieldSum(map, c, S) = 0
         /\ S # {} => FieldSum(map, c, S) = map[Choice(S)][c] + FieldSum(map, c, S \ {Choice(S)})
  <1> DEFINE F == SumFcn(map, c, S)
  <1>1. F[S] = PlusRest(map, c, F, S)
    <2>1. Adds(map, c, SUBSET S, F)
      BY SumExists
    <2> HIDE DEF F
    <2> QED BY <2>1 DEF Adds
  <1>2. F[S \ {Choice(S)}] = FieldSum(map, c, S \ {Choice(S)})
    BY SumRestricts
  <1> QED BY <1>1, <1>2 DEF FieldSum, PlusRest

\* The order does not matter: any summand can be taken out.
LEMMA SumRemove ==
  ASSUME NEW map, NEW c, NEW S, IsFiniteSet(S), Natural(map, c, S)
  PROVE  /\ FieldSum(map, c, S) \in Nat
         /\ \A x \in S : FieldSum(map, c, S) = map[x][c] + FieldSum(map, c, S \ {x})
  <1> DEFINE Good(s) == /\ FieldSum(map, c, s) \in Nat
                        /\ \A x \in s : FieldSum(map, c, s) = map[x][c] + FieldSum(map, c, s \ {x})
             G == {n \in Nat : \A s \in SUBSET S : Cardinality(s) <= n => Good(s)}
  <1>0. \A s \in SUBSET S : IsFiniteSet(s) /\ Cardinality(s) \in Nat
    BY FS_Subset, FS_CardinalityType
  <1>e. Good({})
    <2>1. FieldSum(map, c, {}) = 0
      BY SumStep, FS_EmptySet
    <2> QED BY <2>1
  <1>1. 0 \in G
    BY <1>0, <1>e, FS_EmptySet
  <1>2. ASSUME NEW n \in G PROVE n + 1 \in G
    <2> SUFFICES ASSUME NEW s \in SUBSET S, Cardinality(s) <= n + 1, s # {} PROVE Good(s)
      BY <1>e
    <2> DEFINE y == Choice(s)
    <2>1. y \in s
      BY Chosen
    <2>2. \A x \in s : Cardinality(s \ {x}) = Cardinality(s) - 1
      BY <1>0, Smaller
    <2>3. \A x \in s : Good(s \ {x})
      BY <2>2, <1>0
    <2>4. FieldSum(map, c, s) = map[y][c] + FieldSum(map, c, s \ {y})
      BY <1>0, SumStep
    <2> HIDE DEF y
    <2>5. FieldSum(map, c, s) \in Nat
      BY <2>1, <2>3, <2>4 DEF Natural
    <2>6. ASSUME NEW x \in s PROVE FieldSum(map, c, s) = map[x][c] + FieldSum(map, c, s \ {x})
      <3>1. CASE x = y
        BY <3>1, <2>4
      <3>2. CASE x # y
        <4> DEFINE z == (s \ {y}) \ {x}
        <4>1. x \in s \ {y} /\ y \in s \ {x} /\ z = (s \ {x}) \ {y}
          BY <3>2, <2>1
        <4>2. FieldSum(map, c, s \ {y}) = map[x][c] + FieldSum(map, c, z)
          BY <4>1, <2>1, <2>3
        <4>3. FieldSum(map, c, s \ {x}) = map[y][c] + FieldSum(map, c, z)
          BY <4>1, <2>3
        <4>4. FieldSum(map, c, z) \in Nat
          <5>1. Cardinality(z) = Cardinality(s \ {y}) - 1
            BY <4>1, <1>0, Smaller
          <5>2. Cardinality(z) <= n
            BY <5>1, <2>1, <2>2, <1>0
          <5> QED BY <5>2
        <4>5. map[x][c] \in Nat /\ map[y][c] \in Nat
          BY <2>1 DEF Natural
        <4> HIDE DEF z, G, Good
        <4> QED BY <2>4, <4>2, <4>3, <4>4, <4>5
      <3> QED BY <3>1, <3>2
    <2> QED BY <2>5, <2>6
  <1>3. G = Nat
    <2>1. G \in SUBSET Nat
      OBVIOUS
    <2> HIDE DEF G
    <2> QED BY <2>1, <1>1, <1>2, SetInduction
  <1>4. Cardinality(S) \in Nat /\ S \in SUBSET S
    BY <1>0
  <1>5. Good(S)
    BY <1>3, <1>4
  <1> QED BY <1>5

\* Larger summands have a larger sum.
LEMMA SumMonotone ==
  ASSUME NEW m, NEW k, NEW c, NEW S, IsFiniteSet(S), Below(m, k, c, S), Natural(k, c, S)
  PROVE  FieldSum(m, c, S) <= FieldSum(k, c, S)
  <1> DEFINE Good(s) == FieldSum(m, c, s) <= FieldSum(k, c, s)
             G == {n \in Nat : \A s \in SUBSET S : Cardinality(s) <= n => Good(s)}
  <1>0. \A s \in SUBSET S : IsFiniteSet(s) /\ Cardinality(s) \in Nat
    BY FS_Subset, FS_CardinalityType
  <1>s. \A s \in SUBSET S : FieldSum(k, c, s) \in Nat /\ FieldSum(m, c, s) \in Nat
    BY <1>0, SumRemove DEF Natural, Below
  <1>e. Good({})
    <2>1. FieldSum(m, c, {}) = 0 /\ FieldSum(k, c, {}) = 0
      BY SumStep, FS_EmptySet
    <2> QED BY <2>1
  <1>1. 0 \in G
    BY <1>0, <1>e, FS_EmptySet
  <1>2. ASSUME NEW n \in G PROVE n + 1 \in G
    <2> SUFFICES ASSUME NEW s \in SUBSET S, Cardinality(s) <= n + 1, s # {} PROVE Good(s)
      BY <1>e
    <2>1. PICK x \in s : TRUE
      OBVIOUS
    <2>2. Cardinality(s \ {x}) = Cardinality(s) - 1
      BY <1>0, <2>1, Smaller
    <2>3. Good(s \ {x})
      BY <1>0, <2>2
    <2>4. FieldSum(k, c, s) = k[x][c] + FieldSum(k, c, s \ {x})
      BY <1>0, <2>1, SumRemove DEF Natural
    <2>5. FieldSum(m, c, s) = m[x][c] + FieldSum(m, c, s \ {x})
      BY <1>0, <2>1, SumRemove DEF Natural, Below
    <2>6. m[x][c] \in Nat /\ k[x][c] \in Nat /\ m[x][c] <= k[x][c]
      BY DEF Natural, Below
    <2>7. FieldSum(k, c, s \ {x}) \in Nat /\ FieldSum(m, c, s \ {x}) \in Nat
      BY <1>s
    <2> HIDE DEF G
    <2> QED BY <2>3, <2>4, <2>5, <2>6, <2>7
  <1>3. G = Nat
    <2>1. G \in SUBSET Nat
      OBVIOUS
    <2> HIDE DEF G
    <2> QED BY <2>1, <1>1, <1>2, SetInduction
  <1>4. Cardinality(S) \in Nat /\ S \in SUBSET S
    BY <1>0
  <1> QED BY <1>3, <1>4

\* A larger set has a larger sum.
LEMMA SumWiden ==
  ASSUME NEW m, NEW c, NEW S, NEW T \in SUBSET S, IsFiniteSet(S), Natural(m, c, S)
  PROVE  FieldSum(m, c, T) <= FieldSum(m, c, S)
  <1> DEFINE Good(s) == T \subseteq s => FieldSum(m, c, T) <= FieldSum(m, c, s)
             G == {n \in Nat : \A s \in SUBSET S : Cardinality(s) <= n => Good(s)}
  <1>0. \A s \in SUBSET S : IsFiniteSet(s) /\ Cardinality(s) \in Nat
    BY FS_Subset, FS_CardinalityType
  <1>s. \A s \in SUBSET S : FieldSum(m, c, s) \in Nat
    BY <1>0, SumRemove DEF Natural
  <1>e. Good(T)
    BY <1>s
  <1>1. 0 \in G
    <2> SUFFICES ASSUME NEW s \in SUBSET S, Cardinality(s) <= 0, T \subseteq s PROVE s = T
      BY <1>e
    <2> QED BY <1>0, FS_EmptySet
  <1>2. ASSUME NEW n \in G PROVE n + 1 \in G
    <2> SUFFICES ASSUME NEW s \in SUBSET S, Cardinality(s) <= n + 1, T \subseteq s, s # T
                 PROVE  FieldSum(m, c, T) <= FieldSum(m, c, s)
      BY <1>e
    <2>1. PICK x \in s : x \notin T
      OBVIOUS
    <2>2. Cardinality(s \ {x}) = Cardinality(s) - 1
      BY <1>0, <2>1, Smaller
    <2>3. FieldSum(m, c, T) <= FieldSum(m, c, s \ {x})
      BY <1>0, <2>1, <2>2
    <2>4. FieldSum(m, c, s) = m[x][c] + FieldSum(m, c, s \ {x})
      BY <1>0, <2>1, SumRemove DEF Natural
    <2>5. m[x][c] \in Nat
      BY DEF Natural
    <2>6. FieldSum(m, c, s \ {x}) \in Nat /\ FieldSum(m, c, T) \in Nat
      BY <1>s
    <2> HIDE DEF G, Good
    <2> QED BY <2>3, <2>4, <2>5, <2>6
  <1>3. G = Nat
    <2>1. G \in SUBSET Nat
      OBVIOUS
    <2> HIDE DEF G
    <2> QED BY <2>1, <1>1, <1>2, SetInduction
  <1>4. Cardinality(S) \in Nat /\ S \in SUBSET S
    BY <1>0
  <1> QED BY <1>3, <1>4

-----------------------------------------------------------------------------
(* The collector: its types, its totals, and the order of its reports *)

USE CapacityAssumption, WorkersAssumption, FlowAssumption

\* The maps the collector may keep, and the snapshots of one.
Maps == UNION {[D -> Counters] : D \in SUBSET Workers}
Snapshots == [totals : Counters, workers : Maps]

\* A report taken off the channel is a report.
Held == cpc = "update" => received \in Reports

\* The totals are those of the map, every snapshot adds up, and the last one is
\* the present state.
Recorded ==
    /\ statsMap \in Maps
    /\ statsTotals = Totals(statsMap)
    /\ history \in Seq(Snapshots)
    /\ \A i \in 1..Len(history) : history[i].totals = Totals(history[i].workers)
    /\ history = <<>> => statsMap = <<>>
    /\ history # <<>> => history[Len(history)] = Snapshot(statsTotals, statsMap)

\* The reports of a worker are on the channel in the order it counted.
ChanInOrder ==
    \A i, j \in 1..Len(statsChan) :
        i <= j /\ statsChan[i].worker = statsChan[j].worker
            => Leq(statsChan[i].stat, statsChan[j].stat)

\* What a worker has reported is no more than it has counted.
BelowWorkers ==
    /\ \A i \in 1..Len(statsChan) : Leq(statsChan[i].stat, wStats[statsChan[i].worker])
    /\ cpc = "update" => Leq(received.stat, wStats[received.worker])
    /\ \A w \in DOMAIN statsMap : Leq(statsMap[w], wStats[w])

\* What is on the channel is no less than what was taken off it.
BelowChan ==
    /\ \A i \in 1..Len(statsChan) :
          cpc = "update" /\ statsChan[i].worker = received.worker
              => Leq(received.stat, statsChan[i].stat)
    /\ \A i \in 1..Len(statsChan) : statsChan[i].worker \in DOMAIN statsMap
              => Leq(statsMap[statsChan[i].worker], statsChan[i].stat)
    /\ cpc = "update" /\ received.worker \in DOMAIN statsMap
              => Leq(statsMap[received.worker], received.stat)

\* Together: the counters of a worker grow from the map to the worker.
InOrder == ChanInOrder /\ BelowWorkers /\ BelowChan

\* The inductive invariant of the collector.
CollectorInv == TypeOK /\ Held /\ Recorded /\ InOrder /\ HistoryMonotone

\* What the others do to the collector's world: counters grow, and a worker's
\* newest counters may be sent.
Raises == wStats' \in [Workers -> Counters] /\ \A w \in Workers : Leq(wStats[w], wStats'[w])

\* w reports what it has counted.
Sends(w) == Room /\ statsChan' = Append(statsChan, [worker |-> w, stat |-> wStats'[w]])

\* A step that is not the collector's.
OthersAct ==
    /\ Raises
    /\ UNCHANGED statsChan \/ \E w \in Workers : Sends(w)
    /\ cancelled' \in BOOLEAN /\ closed' \in BOOLEAN
    /\ UNCHANGED collectorVars

\* A step of the collector.
CollectorActs == CollectorReceive \/ CollectorUpdate \/ CollectorClosed \/ CollectorExit

\* Counters can only be compared one way round in a chain.
LEMMA LeqOrder ==
    /\ \A a \in Counters : Leq(a, a)
    /\ \A a, b, c \in Counters : Leq(a, b) /\ Leq(b, c) => Leq(a, c)
  BY DEF Leq, Counters

\* The totals of a map of counters are counters.
LEMMA TotalsType ==
    ASSUME NEW m \in Maps
    PROVE  Totals(m) \in Counters
  <1>1. IsFiniteSet(DOMAIN m) /\ \A w \in DOMAIN m : m[w] \in Counters
    BY FS_Subset DEF Maps
  <1>2. Natural(m, "cycles", DOMAIN m) /\ Natural(m, "flows", DOMAIN m)
    BY <1>1 DEF Natural, Counters
  <1>3. /\ FieldSum(m, "cycles", DOMAIN m) \in Nat
        /\ FieldSum(m, "flows", DOMAIN m) \in Nat
    BY <1>1, <1>2, SumRemove
  <1> QED
    BY <1>3, TotalsAreSums DEF Counters

\* The totals of no reports are zero.
LEMMA TotalsEmpty == Totals(<<>>) = Zero
  <1>1. DOMAIN <<>> = {}
    OBVIOUS
  <1>2. FieldSum(<<>>, "cycles", {}) = 0 /\ FieldSum(<<>>, "flows", {}) = 0
    BY SumStep, FS_EmptySet
  <1> QED
    BY <1>1, <1>2, TotalsAreSums DEF Zero

\* A map that gains workers and whose counters grow has totals that grow.
LEMMA TotalsMonotone ==
    ASSUME NEW m \in Maps, NEW k \in Maps, DOMAIN m \subseteq DOMAIN k,
           \A w \in DOMAIN m : Leq(m[w], k[w])
    PROVE  Leq(Totals(m), Totals(k))
  <1>1. /\ IsFiniteSet(DOMAIN k) /\ IsFiniteSet(DOMAIN m)
        /\ \A w \in DOMAIN k : k[w] \in Counters
        /\ \A w \in DOMAIN m : m[w] \in Counters
    BY FS_Subset DEF Maps
  <1>2. ASSUME NEW c \in {"cycles", "flows"}
        PROVE  FieldSum(m, c, DOMAIN m) <= FieldSum(k, c, DOMAIN k)
    <2>1. Below(m, k, c, DOMAIN m) /\ Natural(k, c, DOMAIN k) /\ Natural(k, c, DOMAIN m)
          /\ Natural(m, c, DOMAIN m)
      BY <1>1 DEF Below, Natural, Leq, Counters
    <2>2. FieldSum(m, c, DOMAIN m) <= FieldSum(k, c, DOMAIN m)
      BY <1>1, <2>1, SumMonotone
    <2>3. FieldSum(k, c, DOMAIN m) <= FieldSum(k, c, DOMAIN k)
      BY <1>1, <2>1, SumWiden
    <2>4. /\ FieldSum(m, c, DOMAIN m) \in Nat /\ FieldSum(k, c, DOMAIN m) \in Nat
          /\ FieldSum(k, c, DOMAIN k) \in Nat
      BY <1>1, <2>1, SumRemove
    <2> QED
      BY <2>2, <2>3, <2>4
  <1> QED
    BY <1>2, TotalsAreSums DEF Leq

\* A collector that has not run yet.
LEMMA CollectorInit == Init => CollectorInv
  <1> SUFFICES ASSUME Init PROVE CollectorInv
    OBVIOUS
  <1> USE DEF Init
  <1>1. Zero \in Counters
    BY DEF Zero, Counters
  <1>2. <<>> \in Maps /\ DOMAIN <<>> = {}
    <2>1. <<>> \in [{} -> Counters]
      OBVIOUS
    <2> QED
      BY <2>1 DEF Maps
  <1>3. TypeOK
    <2>1. wStats \in [Workers -> Counters] /\ statsTotals \in Counters
      BY <1>1
    <2>2. DOMAIN statsMap \subseteq Workers /\ \A w \in DOMAIN statsMap : statsMap[w] \in Counters
      BY <1>2
    <2>3. statsChan \in Seq(Reports) /\ Len(statsChan) <= ChanCap /\ Len(history) <= MaxHistory
      OBVIOUS
    <2> QED
      BY <2>1, <2>2, <2>3 DEF TypeOK
  <1>4. Held /\ Recorded
    BY <1>2, TotalsEmpty DEF Held, Recorded
  <1>5. InOrder
    BY <1>2 DEF InOrder, ChanInOrder, BelowWorkers, BelowChan
  <1>6. HistoryMonotone
    BY DEF HistoryMonotone
  <1> QED
    BY <1>3, <1>4, <1>5, <1>6 DEF CollectorInv

\* Taking a report off the channel.
LEMMA ReceiveKeeps == CollectorInv /\ CollectorReceive => CollectorInv'
  <1> SUFFICES ASSUME CollectorInv, CollectorReceive PROVE CollectorInv'
    OBVIOUS
  <1> USE DEF CollectorInv, CollectorReceive
  <1>1. /\ statsChan \in Seq(Reports) /\ statsChan # <<>> /\ Len(statsChan) <= ChanCap
        /\ statsChan' = Tail(statsChan)
        /\ received' = statsChan[1] /\ cpc' = "update" /\ received' \in Reports
    BY DEF TypeOK
  <1>2. /\ statsChan' \in Seq(Reports) /\ Len(statsChan') = Len(statsChan) - 1
        /\ Len(statsChan) \in Nat \ {0}
        /\ \A i \in 1..Len(statsChan') : statsChan'[i] = statsChan[i + 1]
                                         /\ i + 1 \in 1..Len(statsChan)
    BY <1>1
  <1>3. TypeOK'
    BY <1>1, <1>2 DEF TypeOK
  <1>4. Held' /\ Recorded'
    BY <1>1 DEF Held, Recorded
  <1>5. ChanInOrder'
    BY <1>2 DEF InOrder, ChanInOrder
  <1>6. BelowWorkers'
    BY <1>1, <1>2 DEF InOrder, BelowWorkers
  <1>7. BelowChan'
    BY <1>1, <1>2 DEF InOrder, BelowChan, ChanInOrder
  <1>8. HistoryMonotone'
    BY DEF HistoryMonotone
  <1> QED
    BY <1>3, <1>4, <1>5, <1>6, <1>7, <1>8 DEF InOrder

\* Leaving, by the closed channel or by the context.
LEMMA LeaveKeeps == CollectorInv /\ (CollectorClosed \/ CollectorExit) => CollectorInv'
  BY DEF CollectorInv, CollectorClosed, CollectorExit, TypeOK, Held, Recorded, InOrder,
         ChanInOrder, BelowWorkers, BelowChan, HistoryMonotone

\* Workers count and report, the context ends, the channel is closed.
LEMMA OthersKeep == CollectorInv /\ OthersAct => CollectorInv'
  <1> SUFFICES ASSUME CollectorInv, OthersAct PROVE CollectorInv'
    OBVIOUS
  <1> USE DEF CollectorInv, OthersAct
  <1>1. /\ \A w \in Workers : /\ wStats[w] \in Counters /\ wStats'[w] \in Counters
                              /\ Leq(wStats[w], wStats'[w])
        /\ statsChan \in Seq(Reports)
        /\ \A i \in 1..Len(statsChan) : statsChan[i].worker \in Workers
                                        /\ statsChan[i].stat \in Counters
    <2>1. \A w \in Workers : /\ wStats[w] \in Counters /\ wStats'[w] \in Counters
                             /\ Leq(wStats[w], wStats'[w])
      BY DEF Raises, TypeOK
    <2>2. statsChan \in Seq(Reports) /\ \A i \in 1..Len(statsChan) : statsChan[i] \in Reports
      BY DEF TypeOK
    <2>3. \A e \in Reports : e.worker \in Workers /\ e.stat \in Counters
      BY DEF Reports
    <2> QED
      BY <2>1, <2>2, <2>3
  <1>2. BelowWorkers' /\ ChanInOrder' /\ BelowChan' /\ statsChan' \in Seq(Reports) /\ Len(statsChan') <= ChanCap
    <2>1. /\ \A i \in 1..Len(statsChan) : Leq(statsChan[i].stat, wStats'[statsChan[i].worker])
          /\ cpc = "update" => Leq(received.stat, wStats'[received.worker])
          /\ \A w \in DOMAIN statsMap : Leq(statsMap[w], wStats'[w])
      <3>1. \A i \in 1..Len(statsChan) : Leq(statsChan[i].stat, wStats'[statsChan[i].worker])
        BY <1>1, LeqOrder DEF InOrder, BelowWorkers
      <3>2. ASSUME cpc = "update" PROVE Leq(received.stat, wStats'[received.worker])
        <4>1. received.worker \in Workers /\ received.stat \in Counters
          BY <3>2 DEF Held, Reports
        <4> QED
          BY <1>1, <3>2, <4>1, LeqOrder DEF InOrder, BelowWorkers
      <3>3. ASSUME NEW w \in DOMAIN statsMap PROVE Leq(statsMap[w], wStats'[w])
        <4>1. w \in Workers /\ statsMap[w] \in Counters
          BY DEF TypeOK
        <4> QED
          BY <1>1, <4>1, LeqOrder DEF InOrder, BelowWorkers
      <3> QED
        BY <3>1, <3>2, <3>3
    <2>2. CASE UNCHANGED statsChan
      BY <2>1, <2>2 DEF InOrder, BelowWorkers, ChanInOrder, BelowChan, collectorVars, TypeOK
    <2>3. ASSUME NEW w \in Workers, Sends(w)
          PROVE  /\ BelowWorkers' /\ ChanInOrder' /\ BelowChan'
                 /\ statsChan' \in Seq(Reports) /\ Len(statsChan') <= ChanCap
      <3> DEFINE r == [worker |-> w, stat |-> wStats'[w]]
                 n == Len(statsChan)
      <3>1. /\ r \in Reports /\ r.worker = w /\ r.stat = wStats'[w]
            /\ statsChan' = Append(statsChan, r) /\ n \in Nat /\ n < ChanCap
        BY <1>1, <2>3 DEF Sends, Room, Reports
      <3>2. /\ statsChan' \in Seq(Reports) /\ Len(statsChan') = n + 1 /\ statsChan'[n + 1] = r
            /\ \A i \in 1..n : statsChan'[i] = statsChan[i]
        BY <3>1, <1>1
      <3>3. \A i \in 1..(n + 1) : i \in 1..n \/ i = n + 1
        BY <3>1
      <3>4. Len(statsChan') <= ChanCap
        BY <3>1, <3>2
      <3>5. Leq(r.stat, r.stat)
        BY <1>1, <3>1, LeqOrder
      <3> HIDE DEF r, n
      <3>6. BelowWorkers'
        BY <2>1, <3>1, <3>2, <3>3, <3>5 DEF BelowWorkers, collectorVars
      <3>7. ChanInOrder'
        <4> SUFFICES ASSUME NEW i \in 1..(n + 1), NEW j \in 1..(n + 1), i <= j,
                            statsChan'[i].worker = statsChan'[j].worker
                     PROVE  Leq(statsChan'[i].stat, statsChan'[j].stat)
          BY <3>2 DEF ChanInOrder
        <4>1. CASE j \in 1..n
          <5>1. i \in 1..n
            BY <4>1, <3>1
          <5>2. statsChan'[i] = statsChan[i] /\ statsChan'[j] = statsChan[j]
            BY <4>1, <5>1, <3>2
          <5> QED
            BY <4>1, <5>1, <5>2 DEF InOrder, ChanInOrder, n
        <4>2. CASE j = n + 1 /\ i \in 1..n
          BY <4>2, <3>1, <3>2, <2>1 DEF n
        <4>3. CASE j = n + 1 /\ i = n + 1
          BY <4>3, <3>2, <3>5
        <4> QED
          BY <4>1, <4>2, <4>3, <3>3
      <3>8. BelowChan'
        BY <2>1, <3>1, <3>2, <3>3 DEF InOrder, BelowChan, collectorVars, n
      <3> QED
        BY <3>2, <3>4, <3>6, <3>7, <3>8
    <2> QED
      BY <2>2, <2>3
  <1>3. TypeOK'
    BY <1>2 DEF TypeOK, Raises, collectorVars
  <1>4. Held' /\ Recorded' /\ HistoryMonotone'
    BY DEF Held, Recorded, HistoryMonotone, collectorVars
  <1> QED
    BY <1>2, <1>3, <1>4 DEF InOrder

\* t is h with its first d snapshots gone and e at the end.
Shifted(h, e, t, d) ==
    /\ t \in Seq(Snapshots)
    /\ Len(t) = Len(h) + 1 - d /\ Len(t) <= MaxHistory /\ Len(t) \in Nat \ {0}
    /\ t[Len(t)] = e
    /\ \A i \in 1..(Len(t) - 1) : t[i] = h[i + d] /\ i + d \in 1..Len(h)
    /\ d = 1 => Len(h) = MaxHistory

\* Appending a snapshot keeps the end of the history, shifted by the one that
\* had to go.
LEMMA TrimmedAppend ==
    ASSUME NEW h \in Seq(Snapshots), Len(h) <= MaxHistory, NEW e \in Snapshots
    PROVE  \E d \in {0, 1} : Shifted(h, e, Trimmed(Append(h, e)), d)
  <1> DEFINE a == Append(h, e)
  <1>1. /\ a \in Seq(Snapshots) /\ Len(a) = Len(h) + 1 /\ a[Len(h) + 1] = e
        /\ \A i \in 1..Len(h) : a[i] = h[i]
        /\ Len(h) \in Nat
    OBVIOUS
  <1> HIDE DEF a
  <1>2. CASE Len(h) < MaxHistory
    <2>1. Trimmed(a) = a
      BY <1>1, <1>2 DEF Trimmed
    <2>2. \A i \in 1..(Len(a) - 1) : a[i] = h[i + 0] /\ i + 0 \in 1..Len(h)
      BY <1>1
    <2> QED
      BY <1>1, <1>2, <2>1, <2>2 DEF a, Shifted
  <1>3. CASE Len(h) = MaxHistory
    <2> DEFINE t == SubSeq(a, 2, Len(a))
    <2>1. Trimmed(a) = t
      BY <1>1, <1>3 DEF Trimmed
    <2>2. /\ t \in Seq(Snapshots) /\ Len(t) = Len(h)
          /\ \A i \in 1..Len(h) : t[i] = a[i + 1]
      BY <1>1, <1>3
    <2> HIDE DEF t
    <2>3. t[Len(h)] = e
      BY <1>1, <1>3, <2>2
    <2>4. \A i \in 1..(Len(h) - 1) : t[i] = h[i + 1] /\ i + 1 \in 1..Len(h)
      BY <1>1, <2>2
    <2> QED
      BY <1>1, <1>3, <2>1, <2>2, <2>3, <2>4 DEF a, Shifted
  <1> QED
    BY <1>1, <1>2, <1>3

\* Applying a report under the lock.
LEMMA UpdateKeeps == CollectorInv /\ CollectorUpdate => CollectorInv'
  <1> SUFFICES ASSUME CollectorInv, CollectorUpdate PROVE CollectorInv'
    OBVIOUS
  <1> DEFINE w == received.worker
             map == [x \in DOMAIN statsMap \cup {w} |-> IF x = w THEN received.stat ELSE statsMap[x]]
             e == Snapshot(Totals(map), map)
  <1>1. /\ cpc = "update" /\ cpc' = "select" /\ received' = NoReport
        /\ UNCHANGED <<cancelled, wStats, statsChan, closed>>
        /\ statsMap' = map /\ statsTotals' = Totals(map)
        /\ history' = Trimmed(Append(history, e))
    BY DEF CollectorUpdate
  <1>2. w \in Workers /\ received.stat \in Counters
    BY <1>1 DEF CollectorInv, Held, Reports
  <1>3. map \in Maps /\ statsMap \in Maps
    <2>1. DOMAIN map \in SUBSET Workers /\ \A x \in DOMAIN map : map[x] \in Counters
      BY <1>2 DEF CollectorInv, TypeOK
    <2>2. map \in [DOMAIN map -> Counters]
      BY <2>1
    <2> HIDE DEF map
    <2> QED
      BY <2>1, <2>2 DEF Maps, CollectorInv, Recorded
  <1>4. /\ DOMAIN statsMap \subseteq DOMAIN map /\ w \in DOMAIN map
        /\ \A x \in DOMAIN statsMap : Leq(statsMap[x], map[x])
        /\ \A x \in DOMAIN map : x \in Workers /\ (x = w => map[x] = received.stat)
                                 /\ (x # w => x \in DOMAIN statsMap /\ map[x] = statsMap[x])
    <2>1. \A x \in DOMAIN statsMap : x \in Workers /\ Leq(statsMap[x], statsMap[x])
      BY LeqOrder DEF CollectorInv, TypeOK
    <2>2. w \in DOMAIN statsMap => Leq(statsMap[w], received.stat)
      BY <1>1 DEF CollectorInv, InOrder, BelowChan
    <2> QED
      BY <1>2, <2>1, <2>2
  <1>5. Totals(map) \in Counters /\ Leq(statsTotals, Totals(map)) /\ statsTotals \in Counters
    BY <1>3, <1>4, TotalsType, TotalsMonotone DEF CollectorInv, Recorded, TypeOK
  <1>6. e \in Snapshots /\ e.totals = Totals(e.workers) /\ e.totals = Totals(map) /\ e.workers = map
    BY <1>3, <1>5 DEF Snapshot, Snapshots
  <1> HIDE DEF map, e
  <1>7. PICK d \in {0, 1} : Shifted(history, e, history', d)
    <2>1. history \in Seq(Snapshots) /\ Len(history) <= MaxHistory
      BY DEF CollectorInv, TypeOK, Recorded
    <2>2. \E d \in {0, 1} : Shifted(history, e, Trimmed(Append(history, e)), d)
      BY <1>6, <2>1, TrimmedAppend
    <2> QED
      BY <1>1, <2>2
  <1>8. TypeOK'
    <2>1. DOMAIN statsMap' \subseteq Workers /\ \A x \in DOMAIN statsMap' : statsMap'[x] \in Counters
      BY <1>1, <1>2, <1>4 DEF CollectorInv, TypeOK
    <2> QED
      BY <1>1, <1>5, <1>7, <2>1 DEF CollectorInv, TypeOK, Shifted
  <1>9. Held'
    BY <1>1 DEF Held
  <1>10. Recorded'
    <2>1. history' # <<>>
      BY <1>7 DEF Shifted
    <2>2. \A i \in 1..Len(history') : history'[i].totals = Totals(history'[i].workers)
      <3> TAKE i \in 1..Len(history')
      <3>1. CASE i = Len(history')
        BY <3>1, <1>6, <1>7 DEF Shifted
      <3>2. CASE i \in 1..(Len(history') - 1)
        BY <3>2, <1>7 DEF CollectorInv, Recorded, Shifted
      <3> QED
        BY <3>1, <3>2, <1>7 DEF Shifted
    <2>3. history'[Len(history')] = Snapshot(statsTotals', statsMap')
      BY <1>1, <1>7 DEF e, Shifted
    <2> QED
      BY <1>1, <1>3, <1>7, <2>1, <2>2, <2>3 DEF Recorded, Shifted
  <1>11. InOrder'
    <2>1. ChanInOrder'
      BY <1>1 DEF CollectorInv, InOrder, ChanInOrder
    <2>2. BelowWorkers'
      BY <1>1, <1>4 DEF CollectorInv, InOrder, BelowWorkers
    <2>3. BelowChan'
      BY <1>1, <1>4 DEF CollectorInv, InOrder, BelowChan
    <2> QED
      BY <2>1, <2>2, <2>3 DEF InOrder
  <1>12. HistoryMonotone'
    <2> DEFINE n == Len(history')
    <2>1. \A i \in 1..(Len(history) - 1) : Advances(history[i], history[i + 1])
      BY DEF CollectorInv, HistoryMonotone
    <2>2. history # <<>> => Advances(history[Len(history)], e)
      <3> SUFFICES ASSUME history # <<>> PROVE Advances(history[Len(history)], e)
        OBVIOUS
      <3>1. history[Len(history)].totals = statsTotals /\ history[Len(history)].workers = statsMap
        BY DEF CollectorInv, Recorded, Snapshot
      <3> QED
        BY <3>1, <1>4, <1>5, <1>6 DEF Advances
    <2>3. ASSUME NEW i \in 1..(n - 1) PROVE Advances(history'[i], history'[i + 1])
      <3>1. history'[i] = history[i + d] /\ i + d \in 1..Len(history) /\ Len(history) \in Nat
        BY <1>7 DEF CollectorInv, Recorded, Shifted
      <3>2. CASE i + 1 = n
        <4>1. i + d = Len(history)
          BY <3>2, <1>7, <3>1 DEF Shifted
        <4>2. history # <<>>
          BY <3>1
        <4> QED
          BY <3>1, <3>2, <4>1, <4>2, <2>2, <1>7 DEF Shifted
      <3>3. CASE i + 1 \in 1..(n - 1)
        <4>1. history'[i + 1] = history[(i + 1) + d] /\ (i + 1) + d \in 1..Len(history)
          BY <1>7, <3>3 DEF Shifted
        <4>2. i + d \in 1..(Len(history) - 1) /\ (i + 1) + d = (i + d) + 1
          BY <4>1, <3>1, <1>7 DEF Shifted
        <4> QED
          BY <3>1, <4>1, <4>2, <2>1
      <3> QED
        BY <3>2, <3>3, <1>7 DEF Shifted
    <2> QED
      BY <2>3 DEF HistoryMonotone
  <1> QED
    BY <1>8, <1>9, <1>10, <1>11, <1>12 DEF CollectorInv

\* The collector's invariant is preserved whatever collector and workers do.
LEMMA CollectorStepKeeps == CollectorInv /\ (CollectorActs \/ OthersAct) => CollectorInv'
  BY ReceiveKeeps, UpdateKeeps, LeaveKeeps, OthersKeep DEF CollectorActs


-----------------------------------------------------------------------------
(* Where the newest report of a worker is *)

\* Newest, as a function of the channel, the report held and the map.
NewestOf(chan, at, rec, map, w) ==
    LET inChan == {i \in DOMAIN chan : chan[i].worker = w}
    IN  IF inChan # {} THEN chan[Max(inChan)].stat
        ELSE IF at = "update" /\ rec.worker = w THEN rec.stat
        ELSE IF w \in DOMAIN map THEN map[w] ELSE Zero

\* The counters of w known behind the channel.
Behind(at, rec, map, w) ==
    IF at = "update" /\ rec.worker = w THEN rec.stat ELSE IF w \in DOMAIN map THEN map[w] ELSE Zero

\* No report of w is on the channel, or i is the place of its newest one.
NoneIn(chan, w) == \A i \in 1..Len(chan) : chan[i].worker # w
LastIn(chan, w, i) ==
    i \in 1..Len(chan) /\ chan[i].worker = w
        /\ \A j \in 1..Len(chan) : chan[j].worker = w => j <= i

\* A set of positions has a last one, and Max returns it.
LEMMA LastPosition ==
    ASSUME NEW n \in Nat, NEW S \in SUBSET (1..n), S # {}
    PROVE  Max(S) \in S /\ \A y \in S : y <= Max(S)
  <1> DEFINE T == {n - i : i \in S}
  <1>1. T \in SUBSET Nat /\ T # {}
    <2>1. \A i \in S : n - i \in Nat
      OBVIOUS
    <2> QED
      BY <2>1
  <1>2. PICK x \in T : \A y \in T : x <= y
    BY <1>1, LeastNatural
  <1>3. PICK i \in S : x = n - i
    BY <1>2
  <1>4. \A j \in S : i >= j
    BY <1>2, <1>3
  <1> QED
    BY <1>4 DEF Max

\* The newest report is the last one in the channel, or else the one behind it.
LEMMA NewestPlace ==
    ASSUME NEW chan \in Seq(Reports), NEW at, NEW rec, NEW map, NEW w
    PROVE  /\ NoneIn(chan, w) => NewestOf(chan, at, rec, map, w) = Behind(at, rec, map, w)
           /\ \A i : LastIn(chan, w, i) => NewestOf(chan, at, rec, map, w) = chan[i].stat
           /\ NoneIn(chan, w) \/ \E i : LastIn(chan, w, i)
  <1> DEFINE S == {i \in DOMAIN chan : chan[i].worker = w}
  <1>1. Len(chan) \in Nat /\ DOMAIN chan = 1..Len(chan)
    OBVIOUS
  <1>2. S \in SUBSET (1..Len(chan))
    BY <1>1
  <1>3. NoneIn(chan, w) <=> S = {}
    BY <1>1 DEF NoneIn
  <1>4. S # {} => LastIn(chan, w, Max(S))
    <2> SUFFICES ASSUME S # {} PROVE LastIn(chan, w, Max(S))
      OBVIOUS
    <2>1. Max(S) \in S /\ \A y \in S : y <= Max(S)
      BY <1>1, <1>2, LastPosition
    <2> QED
      BY <1>1, <2>1 DEF LastIn
  <1>5. ASSUME NEW i, LastIn(chan, w, i) PROVE S # {} /\ i = Max(S)
    <2>1. i \in S
      BY <1>1, <1>5 DEF LastIn
    <2>2. LastIn(chan, w, Max(S))
      BY <1>4, <2>1
    <2> QED
      BY <1>1, <1>5, <2>1, <2>2 DEF LastIn
  <1>6. NewestOf(chan, at, rec, map, w)
          = IF S # {} THEN chan[Max(S)].stat ELSE Behind(at, rec, map, w)
    BY DEF NewestOf, Behind
  <1> HIDE DEF S
  <1> QED
    BY <1>3, <1>4, <1>5, <1>6

\* The collector takes the first report: nobody's newest report changes.
LEMMA NewestTaken ==
    ASSUME NEW chan \in Seq(Reports), chan # <<>>, NEW rec, NEW map, NEW w
    PROVE  NewestOf(Tail(chan), "update", Head(chan), map, w) = NewestOf(chan, "select", rec, map, w)
  <1> DEFINE t == Tail(chan)
             h == Head(chan)
  <1>1. /\ t \in Seq(Reports) /\ Len(chan) \in Nat \ {0} /\ Len(t) = Len(chan) - 1
        /\ \A i \in 1..Len(t) : t[i] = chan[i + 1] /\ i + 1 \in 1..Len(chan)
        /\ h = chan[1]
    OBVIOUS
  <1> HIDE DEF t, h
  <1>2. CASE \E i : LastIn(t, w, i)
    <2>1. PICK i : LastIn(t, w, i)
      BY <1>2
    <2>2. LastIn(chan, w, i + 1)
      <3>1. i \in 1..Len(t) /\ t[i].worker = w /\ \A j \in 1..Len(t) : t[j].worker = w => j <= i
        BY <2>1 DEF LastIn
      <3>2. ASSUME NEW j \in 1..Len(chan), chan[j].worker = w PROVE j <= i + 1
        <4>1. CASE j = 1
          BY <1>1, <3>1, <4>1
        <4>2. CASE j # 1
          <5>1. j - 1 \in 1..Len(t) /\ (j - 1) + 1 = j
            BY <1>1, <4>2
          <5>2. t[j - 1] = chan[j]
            BY <1>1, <5>1
          <5>3. j - 1 <= i
            BY <3>1, <3>2, <5>1, <5>2
          <5> QED
            BY <1>1, <3>1, <5>3
        <4> QED
          BY <4>1, <4>2
      <3> QED
        BY <1>1, <3>1, <3>2 DEF LastIn
    <2>3. t[i] = chan[i + 1]
      BY <1>1, <2>1 DEF LastIn
    <2>4. NewestOf(t, "update", h, map, w) = t[i].stat
      BY <1>1, <2>1, NewestPlace
    <2>5. NewestOf(chan, "select", rec, map, w) = chan[i + 1].stat
      BY <2>2, NewestPlace
    <2> QED
      BY <2>3, <2>4, <2>5 DEF t, h
  <1>3. CASE NoneIn(t, w)
    <2>1. NewestOf(t, "update", h, map, w) = Behind("update", h, map, w)
      BY <1>1, <1>3, NewestPlace
    <2>2. \A j \in 1..Len(chan) : chan[j].worker = w => j = 1
      <3> SUFFICES ASSUME NEW j \in 1..Len(chan), j # 1 PROVE chan[j].worker # w
        OBVIOUS
      <3>1. j - 1 \in 1..Len(t) /\ (j - 1) + 1 = j
        BY <1>1
      <3>2. t[j - 1] = chan[j]
        BY <1>1, <3>1
      <3> QED
        BY <1>3, <3>1, <3>2 DEF NoneIn
    <2>3. CASE chan[1].worker = w
      <3>1. LastIn(chan, w, 1)
        BY <1>1, <2>2, <2>3 DEF LastIn
      <3>2. NewestOf(chan, "select", rec, map, w) = chan[1].stat
        BY <3>1, NewestPlace
      <3> QED
        BY <1>1, <2>1, <2>3, <3>2 DEF Behind, t, h
    <2>4. CASE chan[1].worker # w
      <3>1. NoneIn(chan, w)
        BY <2>2, <2>4 DEF NoneIn
      <3>2. NewestOf(chan, "select", rec, map, w) = Behind("select", rec, map, w)
        BY <3>1, NewestPlace
      <3> QED
        BY <1>1, <2>1, <2>4, <3>2 DEF Behind, t, h
    <2> QED
      BY <2>3, <2>4
  <1> QED
    BY <1>1, <1>2, <1>3, NewestPlace

\* A report is sent: it is its worker's newest, the others' are unchanged.
LEMMA NewestSent ==
    ASSUME NEW chan \in Seq(Reports), NEW at, NEW rec, NEW map, NEW w, NEW r \in Reports
    PROVE  NewestOf(Append(chan, r), at, rec, map, w)
             = IF r.worker = w THEN r.stat ELSE NewestOf(chan, at, rec, map, w)
  <1> DEFINE a == Append(chan, r)
             n == Len(chan)
  <1>1. /\ a \in Seq(Reports) /\ n \in Nat /\ Len(a) = n + 1 /\ a[n + 1] = r
        /\ \A i \in 1..n : a[i] = chan[i]
        /\ \A i \in 1..(n + 1) : i \in 1..n \/ i = n + 1
    OBVIOUS
  <1> HIDE DEF a
  <1>2. CASE r.worker = w
    <2>1. LastIn(a, w, n + 1)
      BY <1>1, <1>2 DEF LastIn
    <2>2. NewestOf(a, at, rec, map, w) = a[n + 1].stat
      BY <1>1, <2>1, NewestPlace
    <2> QED
      BY <1>1, <1>2, <2>2 DEF a
  <1>3. CASE r.worker # w /\ NoneIn(chan, w)
    <2>1. NoneIn(a, w)
      BY <1>1, <1>3 DEF NoneIn
    <2>2. NewestOf(a, at, rec, map, w) = NewestOf(chan, at, rec, map, w)
      BY <1>1, <1>3, <2>1, NewestPlace
    <2> QED
      BY <1>3, <2>2 DEF a
  <1>4. ASSUME r.worker # w, NEW i, LastIn(chan, w, i)
        PROVE  NewestOf(a, at, rec, map, w) = NewestOf(chan, at, rec, map, w)
    <2>1. LastIn(a, w, i)
      BY <1>1, <1>4 DEF LastIn
    <2>2. a[i] = chan[i]
      BY <1>1, <1>4 DEF LastIn
    <2> QED
      BY <1>1, <1>4, <2>1, <2>2, NewestPlace
  <1> QED
    BY <1>2, <1>3, <1>4, NewestPlace DEF a

\* Collector steps move reports from the channel to the map, and change no
\* worker's newest one.
LEMMA CollectorKeepsNewest ==
    ASSUME CollectorInv, CollectorActs, NEW w \in Workers
    PROVE  Newest(w)' = Newest(w)
  <1>1. /\ Newest(w) = NewestOf(statsChan, cpc, received, statsMap, w)
        /\ Newest(w)' = NewestOf(statsChan', cpc', received', statsMap', w)
    BY DEF Newest, NewestOf
  <1>2. statsChan \in Seq(Reports)
    BY DEF CollectorInv, TypeOK
  <1>3. CASE CollectorReceive
    BY <1>1, <1>2, <1>3, NewestTaken DEF CollectorReceive
  <1>4. CASE CollectorUpdate
    <2>1. received \in Reports /\ cpc = "update" /\ cpc' = "select" /\ statsChan' = statsChan
          /\ statsMap' = [x \in DOMAIN statsMap \cup {received.worker} |->
                             IF x = received.worker THEN received.stat ELSE statsMap[x]]
      BY <1>4 DEF CollectorInv, Held, CollectorUpdate
    <2>2. Behind("update", received, statsMap, w) = Behind("select", received', statsMap', w)
      BY <2>1 DEF Behind
    <2>3. NewestOf(statsChan, "update", received, statsMap, w)
            = NewestOf(statsChan, "select", received', statsMap', w)
      BY <1>2, <2>2, NewestPlace
    <2> QED
      BY <1>1, <2>1, <2>3
  <1>5. CASE CollectorClosed \/ CollectorExit
    <2>1. /\ UNCHANGED <<statsChan, received, statsMap>>
          /\ cpc = "select" /\ cpc' = "done"
      BY <1>5 DEF CollectorClosed, CollectorExit
    <2>2. Behind(cpc, received, statsMap, w) = Behind(cpc', received, statsMap, w)
      BY <2>1 DEF Behind
    <2>3. NewestOf(statsChan, cpc, received, statsMap, w)
            = NewestOf(statsChan, cpc', received, statsMap, w)
      BY <1>2, <2>2, NewestPlace
    <2> QED
      BY <1>1, <2>1, <2>3
  <1> QED
    BY <1>3, <1>4, <1>5 DEF CollectorActs

\* A worker's report is the newest there is of that worker.
LEMMA SendsKeepsNewest ==
    ASSUME CollectorInv, UNCHANGED collectorVars, NEW v \in Workers,
           wStats' \in [Workers -> Counters], Sends(v), NEW w \in Workers
    PROVE  Newest(w)' = IF w = v THEN wStats'[w] ELSE Newest(w)
  <1> DEFINE r == [worker |-> v, stat |-> wStats'[v]]
  <1>1. /\ Newest(w) = NewestOf(statsChan, cpc, received, statsMap, w)
        /\ Newest(w)' = NewestOf(statsChan', cpc, received, statsMap, w)
    BY DEF Newest, NewestOf, collectorVars
  <1>2. statsChan \in Seq(Reports) /\ statsChan' = Append(statsChan, r) /\ r \in Reports
    BY DEF CollectorInv, TypeOK, Sends, Reports
  <1>3. r.worker = v /\ r.stat = wStats'[v]
    OBVIOUS
  <1> HIDE DEF r
  <1> QED
    BY <1>1, <1>2, <1>3, NewestSent


-----------------------------------------------------------------------------
(* The collector beside its HTTP handlers (HandlersSpec) *)

\* A step of StatsCollector's Next is the collector's or one of the others'.
LEMMA NextActs ==
    ASSUME CollectorInv, Next
    PROVE  \/ CollectorActs /\ UNCHANGED wStats
           \/ OthersAct /\ UNCHANGED statsChan /\ UNCHANGED wStats
                 /\ (cancelled => cancelled') /\ (closed => closed')
           \/ ~closed /\ OthersAct /\ UNCHANGED <<cancelled, closed>>
                 /\ \E w \in Workers : Sends(w) /\ \A v \in Workers : v # w => wStats'[v] = wStats[v]
  <1>1. wStats \in [Workers -> Counters]
    BY DEF CollectorInv, TypeOK
  <1>2. CASE CollectorActs
    BY <1>2 DEF CollectorActs, CollectorReceive, CollectorUpdate, CollectorClosed, CollectorExit
  <1>3. CASE Stop \/ CancelContext
    <2>1. Raises
      BY <1>1, <1>3, LeqOrder DEF Raises, Stop, CancelContext
    <2>2. cancelled \in BOOLEAN /\ closed \in BOOLEAN
      BY DEF CollectorInv, TypeOK
    <2> QED
      BY <1>3, <2>1, <2>2 DEF OthersAct, Stop, CancelContext
  <1>4. ASSUME NEW w \in Workers, Produce(w)
        PROVE  /\ ~closed /\ OthersAct /\ UNCHANGED <<cancelled, closed>> /\ Sends(w)
               /\ \A v \in Workers : v # w => wStats'[v] = wStats[v]
    <2>1. PICK n \in FlowCounts : wStats' = Counted(w, 1, n)
      BY <1>4 DEF Produce
    <2>2. n \in Nat
      OBVIOUS
    <2>3. Raises /\ \A v \in Workers : v # w => wStats'[v] = wStats[v]
      <3>1. wStats[w] \in Counters
        BY <1>1
      <3>2. [cycles |-> wStats[w].cycles + 1, flows |-> wStats[w].flows + n] \in Counters
        BY <2>2, <3>1 DEF Counters
      <3>3. Leq(wStats[w], [cycles |-> wStats[w].cycles + 1, flows |-> wStats[w].flows + n])
        BY <2>2, <3>1 DEF Counters, Leq
      <3>4. wStats' = [wStats EXCEPT ![w] =
                          [cycles |-> wStats[w].cycles + 1, flows |-> wStats[w].flows + n]]
        BY <2>1 DEF Counted
      <3> QED
        BY <1>1, <3>2, <3>3, <3>4, LeqOrder DEF Raises
    <2>4. Sends(w)
      BY <1>4 DEF Produce, Sends
    <2>5. cancelled \in BOOLEAN /\ closed \in BOOLEAN
      BY DEF CollectorInv, TypeOK
    <2> QED
      BY <1>4, <2>3, <2>4, <2>5 DEF OthersAct, Produce
  <1> QED
    BY <1>2, <1>3, <1>4 DEF Next, CollectorStep, CollectorActs

\* Snapshots are ordered in time.
LEMMA AdvancesOrder ==
    /\ \A a \in Snapshots : Advances(a, a)
    /\ \A a, b, c \in Snapshots : Advances(a, b) /\ Advances(b, c) => Advances(a, c)
  <1>1. \A a \in Snapshots : /\ a.totals \in Counters
                             /\ \A w \in DOMAIN a.workers : a.workers[w] \in Counters
    BY DEF Snapshots, Maps
  <1>2. ASSUME NEW a \in Snapshots PROVE Advances(a, a)
    BY <1>1, LeqOrder DEF Advances
  <1>3. ASSUME NEW a \in Snapshots, NEW b \in Snapshots, NEW c \in Snapshots,
               Advances(a, b), Advances(b, c)
        PROVE  Advances(a, c)
    <2>1. Leq(a.totals, c.totals)
      BY <1>1, <1>3, LeqOrder DEF Advances
    <2>2. ASSUME NEW w \in DOMAIN a.workers
          PROVE  w \in DOMAIN c.workers /\ Leq(a.workers[w], c.workers[w])
      BY <1>1, <1>3, LeqOrder DEF Advances
    <2> QED
      BY <2>1, <2>2 DEF Advances
  <1> QED
    BY <1>2, <1>3

\* The collector's present state, as a handler would copy it.
Present == Snapshot(statsTotals, statsMap)

\* It is a snapshot that adds up.
LEMMA PresentType ==
    CollectorInv => /\ Present \in Snapshots /\ Present.totals = statsTotals
                    /\ Present.workers = statsMap /\ Present.totals = Totals(Present.workers)
  BY DEF CollectorInv, TypeOK, Recorded, Present, Snapshot, Snapshots

\* The collector's totals and maps never run backwards.
LEMMA PresentAdvances ==
    ASSUME CollectorInv, CollectorActs \/ OthersAct
    PROVE  Advances(Present, Present')
  <1>1. Advances(Present, Present)
    BY PresentType, AdvancesOrder
  <1>2. CASE UNCHANGED <<statsTotals, statsMap>>
    BY <1>1, <1>2 DEF Present, Snapshot
  <1>3. CASE CollectorUpdate
    <2>1. /\ received \in Reports
          /\ statsMap' = [x \in DOMAIN statsMap \cup {received.worker} |->
                             IF x = received.worker THEN received.stat ELSE statsMap[x]]
          /\ statsTotals = Totals(statsMap)
          /\ received.worker \in DOMAIN statsMap
                => Leq(statsMap[received.worker], received.stat)
      BY <1>3 DEF CollectorInv, Held, Recorded, InOrder, BelowChan, CollectorUpdate
    <2>2. statsMap \in Maps /\ statsMap' \in Maps /\ statsTotals' = Totals(statsMap')
      BY <1>3, UpdateKeeps DEF CollectorInv, Recorded
    <2>3. \A x \in DOMAIN statsMap : x \in DOMAIN statsMap' /\ Leq(statsMap[x], statsMap'[x])
      <3>1. \A x \in DOMAIN statsMap : Leq(statsMap[x], statsMap[x])
        BY LeqOrder DEF CollectorInv, TypeOK
      <3> QED
        BY <2>1, <3>1
    <2>4. Leq(Totals(statsMap), Totals(statsMap')) /\ Totals(statsMap') \in Counters
      <3>1. DOMAIN statsMap \subseteq DOMAIN statsMap'
        BY <2>3
      <3> QED
        BY <2>2, <2>3, <3>1, TotalsMonotone, TotalsType
    <2> QED
      BY <2>1, <2>2, <2>3, <2>4 DEF Present, Snapshot, Advances
  <1> QED
    BY <1>2, <1>3 DEF CollectorActs, OthersAct, CollectorReceive, CollectorClosed, CollectorExit,
                      collectorVars

\* A response, and the handler's copy of it, is made of snapshots that add up.
AddUp(r) == r \in Seq(Snapshots) /\ \A i \in 1..Len(r) : r[i].totals = Totals(r[i].workers)

\* No counter shown, or about to be, is ahead of the collector's, and what is
\* about to be shown is not behind what has been.
Shown ==
    /\ Advances(Latest(reply), Present)
    /\ request # "none" => Advances(Latest(reply), Latest(copy)) /\ Advances(Latest(copy), Present)

\* The newest report of every worker is its counters; the collector has left
\* by itself only once the channel was closed and empty.
Drained ==
    /\ \A w \in Workers : Newest(w) = wStats[w]
    /\ cpc = "done" /\ ~cancelled => closed /\ statsChan = <<>>

\* The inductive invariant of HandlersSpec.
HandlersInv == CollectorInv /\ AddUp(copy) /\ AddUp(reply) /\ Shown /\ Drained

\* The last snapshot of a response is one.
LEMMA LatestType ==
    ASSUME NEW r \in Seq(Snapshots)
    PROVE  Latest(r) \in Snapshots
  <1>1. Zero \in Counters /\ <<>> \in Maps
    <2>1. <<>> \in [{} -> Counters]
      OBVIOUS
    <2> QED
      BY <2>1 DEF Zero, Counters, Maps
  <1>2. r # <<>> => r[Len(r)] \in Snapshots
    OBVIOUS
  <1> QED
    BY <1>1, <1>2 DEF Latest, Snapshots, Snapshot

\* The history ends with the present state.
LEMMA LatestOfHistory == CollectorInv => Latest(history) = Present /\ AddUp(history)
  BY TotalsEmpty DEF CollectorInv, Recorded, Latest, Present, Snapshot, AddUp

\* The handlers start with nothing answered.
LEMMA HandlersInitInv == HandlersInit => HandlersInv
  <1> SUFFICES ASSUME HandlersInit PROVE HandlersInv
    OBVIOUS
  <1> USE DEF HandlersInit
  <1>1. CollectorInv
    BY CollectorInit
  <1>2. AddUp(copy) /\ AddUp(reply)
    BY DEF AddUp
  <1>3. Shown
    <2>1. reply = <<>> /\ request = "none" /\ Latest(reply) = Present
      BY DEF Latest, Present, Init
    <2>2. Latest(reply) \in Snapshots
      BY <2>1, <1>1, PresentType
    <2> QED
      BY <2>1, <2>2, AdvancesOrder DEF Shown
  <1>4. Drained
    BY DEF Drained, Init, Newest
  <1> QED
    BY <1>1, <1>2, <1>3, <1>4 DEF HandlersInv

\* Drained is kept by the collector and by the others.
LEMMA DrainedKeeps == CollectorInv /\ Drained /\ Next => Drained'
  <1> SUFFICES ASSUME CollectorInv, Drained, Next PROVE Drained'
    OBVIOUS
  <1>1. CASE CollectorActs /\ UNCHANGED wStats
    <2>1. \A w \in Workers : Newest(w)' = wStats'[w]
      BY <1>1, CollectorKeepsNewest DEF Drained
    <2>2. cpc' = "done" /\ ~cancelled' => closed' /\ statsChan' = <<>>
      BY <1>1 DEF CollectorActs, CollectorReceive, CollectorUpdate, CollectorClosed, CollectorExit
    <2> QED
      BY <2>1, <2>2 DEF Drained
  <1>2. CASE OthersAct /\ UNCHANGED statsChan /\ UNCHANGED wStats
               /\ (cancelled => cancelled') /\ (closed => closed')
    <2>1. \A w \in Workers : Newest(w)' = Newest(w)
      BY <1>2 DEF OthersAct, collectorVars, Newest
    <2>2. cpc' = cpc
      BY <1>2 DEF OthersAct, collectorVars
    <2> QED
      BY <1>2, <2>1, <2>2 DEF Drained
  <1>3. ASSUME ~closed, OthersAct, UNCHANGED <<cancelled, closed>>, NEW w \in Workers, Sends(w),
               \A v \in Workers : v # w => wStats'[v] = wStats[v]
        PROVE  Drained'
    <2>1. \A v \in Workers : Newest(v)' = IF v = w THEN wStats'[v] ELSE Newest(v)
      BY <1>3, SendsKeepsNewest DEF OthersAct, Raises
    <2>2. \A v \in Workers : Newest(v)' = wStats'[v]
      BY <1>3, <2>1 DEF Drained
    <2>3. ~(cpc' = "done" /\ ~cancelled')
      BY <1>3 DEF Drained, OthersAct, collectorVars
    <2> QED
      BY <2>2, <2>3 DEF Drained
  <1> QED
    BY <1>1, <1>2, <1>3, NextActs

\* Collector, handlers and the others keep the invariant.
LEMMA HandlersNextInv == HandlersInv /\ [HandlersNext]_hvars => HandlersInv'
  <1> SUFFICES ASSUME HandlersInv, [HandlersNext]_hvars PROVE HandlersInv'
    OBVIOUS
  <1>0. /\ CollectorInv /\ Present \in Snapshots
        /\ Latest(reply) \in Snapshots /\ Latest(copy) \in Snapshots
    BY LatestType, PresentType DEF HandlersInv, AddUp
  <1>1. CASE Next /\ UNCHANGED responseVars
    <2>1. CollectorActs \/ OthersAct
      BY <1>0, <1>1, NextActs
    <2>2. CollectorInv'
      BY <1>0, <2>1, CollectorStepKeeps
    <2>3. AddUp(copy)' /\ AddUp(reply)'
      BY <1>1 DEF HandlersInv, AddUp, responseVars
    <2>4. Shown'
      <3>1. Advances(Present, Present') /\ Present' \in Snapshots
        <4>1. Present' \in Snapshots
          BY <2>2 DEF CollectorInv, TypeOK, Recorded, Present, Snapshot, Snapshots
        <4> QED
          BY <1>0, <2>1, <2>2, <4>1, PresentAdvances
      <3>2. Latest(reply)' = Latest(reply) /\ Latest(copy)' = Latest(copy) /\ request' = request
        BY <1>1 DEF responseVars, Latest
      <3> QED
        BY <1>0, <3>1, <3>2, AdvancesOrder DEF HandlersInv, Shown
    <2>5. Drained'
      BY <1>0, <1>1, DrainedKeeps DEF HandlersInv
    <2> QED
      BY <2>2, <2>3, <2>4, <2>5 DEF HandlersInv
  <1>2. ASSUME UNCHANGED vars PROVE CollectorInv' /\ Drained' /\ Present' = Present
    BY <1>0, <1>2 DEF vars, collectorVars, HandlersInv, CollectorInv, TypeOK, Held, Recorded,
                      InOrder, ChanInOrder, BelowWorkers, BelowChan, HistoryMonotone,
                      Drained, Newest, Present
  <1>3. CASE CopyLive
    <2>1. /\ copy' = <<Present>> /\ UNCHANGED vars /\ reply' = reply /\ request' = "live"
      BY <1>3 DEF CopyLive, Present
    <2>2. Present \in Snapshots /\ Present.totals = Totals(Present.workers)
      BY <1>0, PresentType
    <2>3. AddUp(copy')
      BY <2>1, <2>2 DEF AddUp
    <2>4. Latest(copy') = Present
      BY <2>1 DEF Latest
    <2>5. Shown'
      BY <1>0, <1>2, <2>1, <2>4, AdvancesOrder DEF HandlersInv, Shown
    <2> QED
      BY <1>2, <2>1, <2>3, <2>5 DEF HandlersInv
  <1>4. CASE HistoryHandler
    <2>1. copy' = history /\ UNCHANGED vars /\ reply' = reply /\ request' = "history"
      BY <1>4 DEF HistoryHandler
    <2>2. AddUp(copy') /\ Latest(copy') = Present
      BY <1>0, <2>1, LatestOfHistory
    <2>3. Shown'
      BY <1>0, <1>2, <2>1, <2>2, AdvancesOrder DEF HandlersInv, Shown
    <2> QED
      BY <1>2, <2>1, <2>2, <2>3 DEF HandlersInv
  <1>5. CASE Encode
    <2>1. request # "none" /\ reply' = copy /\ copy' = <<>> /\ UNCHANGED vars /\ request' = "none"
      BY <1>5 DEF Encode
    <2>2. AddUp(reply') /\ AddUp(copy')
      BY <2>1 DEF HandlersInv, AddUp
    <2>3. Shown'
      BY <1>2, <2>1 DEF HandlersInv, Shown
    <2> QED
      BY <1>2, <2>1, <2>2, <2>3 DEF HandlersInv
  <1>6. CASE UNCHANGED hvars
    <2>1. UNCHANGED vars /\ UNCHANGED <<request, copy, reply>>
      BY <1>6 DEF hvars, responseVars
    <2> QED
      BY <1>2, <2>1 DEF HandlersInv, AddUp, Shown
  <1> QED
    BY <1>1, <1>3, <1>4, <1>5, <1>6 DEF HandlersNext, StatsHandler, DashboardHandler

\* The invariant holds of the collector, its producers and its handlers.
THEOREM HandlersCorrect == HandlersSpec => []HandlersInv
  <1> QED
    BY HandlersInitInv, HandlersNextInv, PTL DEF HandlersSpec

\* The channel and the history keep their capacities and the counters their types.
THEOREM CollectorTypeOK == HandlersSpec => []TypeOK
  <1>1. HandlersInv => TypeOK
    BY DEF HandlersInv, CollectorInv
  <1> QED
    BY <1>1, HandlersCorrect, PTL

\* Every response adds up, whatever the collector does while it is written.
THEOREM CollectorRepliesAddUp == HandlersSpec => []RepliesAddUp
  <1>1. HandlersInv => RepliesAddUp
    BY DEF HandlersInv, AddUp, RepliesAddUp
  <1> QED
    BY <1>1, HandlersCorrect, PTL

\* Along the history no counter runs backwards and no worker disappears.
THEOREM CollectorHistoryMonotone == HandlersSpec => []HistoryMonotone
  <1>1. HandlersInv => HistoryMonotone
    BY DEF HandlersInv, CollectorInv
  <1> QED
    BY <1>1, HandlersCorrect, PTL

\* A collector that was stopped, and not cancelled, has lost no report.
THEOREM CollectorStopDrains == HandlersSpec => []StopDrains
  <1>1. HandlersInv => StopDrains
    <2> SUFFICES ASSUME HandlersInv, cpc = "done", ~cancelled, NEW w \in Workers, wStats[w] # Zero
                 PROVE  w \in DOMAIN statsMap /\ statsMap[w] = wStats[w]
      BY DEF StopDrains
    <2>1. statsChan = <<>> /\ Newest(w) = wStats[w]
      BY DEF HandlersInv, Drained
    <2>2. Newest(w) = IF w \in DOMAIN statsMap THEN statsMap[w] ELSE Zero
      BY <2>1 DEF Newest
    <2> QED
      BY <2>1, <2>2
  <1> QED
    BY <1>1, HandlersCorrect, PTL

\* No response takes back what an earlier one showed: the totals and every worker's
\* counters only grow, and no worker disappears.
THEOREM CollectorPollsNeverGoBack == HandlersSpec => PollsNeverGoBack
  <1>1. HandlersInv /\ [HandlersNext]_hvars
          => [Advances(Latest(reply), Latest(reply'))]_hvars
    <2> SUFFICES ASSUME HandlersInv, HandlersNext
                 PROVE  Advances(Latest(reply), Latest(reply'))
      OBVIOUS
    <2>1. Latest(reply) \in Snapshots
      BY LatestType DEF HandlersInv, AddUp
    <2>2. CASE UNCHANGED reply
      BY <2>1, <2>2, AdvancesOrder
    <2>3. CASE Encode
      BY <2>3 DEF Encode, HandlersInv, Shown
    <2> QED
      BY <2>2, <2>3 DEF HandlersNext, StatsHandler, DashboardHandler, CopyLive, HistoryHandler,
                        responseVars
  <1> QED
    BY <1>1, HandlersCorrect, PTL DEF HandlersSpec, PollsNeverGoBack


-----------------------------------------------------------------------------
(* The workers, the WaitGroup and RunCtx (BSpec) *)

\* Where a worker may be.
Places == {"listen", "loop", "report", "done"}

\* RunCtx has gone on from Wg.Wait only when workers and collector have left,
\* and the channel is closed by nobody before that.
Finished ==
    /\ mpc # "wait" => Live = {} /\ cpc = "done"
    /\ closed <=> mpc = "returned"

\* The part of the invariant that does not look at the WaitGroup.
BarrageInv ==
    /\ CollectorInv
    /\ wpc \in [Workers -> Places]
    /\ mpc \in {"wait", "stop", "returned"}
    /\ ReportsCurrent
    /\ Finished

\* The WaitGroup members that are neither workers nor the collector.
Others == wg - (Cardinality(Live) + CollectorCount)

\* A step of a worker or of the collector.
GoroutineStep == (\E w \in Workers : WorkerStep(w)) \/ CollectorRuns \/ CollectorLeaves

\* The same, or the end of the context.
BarrageStep == GoroutineStep \/ Cancel

\* The running workers are finitely many.
LEMMA LiveType ==
    /\ IsFiniteSet(Live) /\ Cardinality(Live) \in Nat
    /\ Cardinality(Live) <= Cardinality(Workers) /\ Cardinality(Workers) \in Nat
    /\ Live \subseteq Workers
    /\ Cardinality(Live) = 0 => Live = {}
  <1>1. Live \subseteq Workers
    BY DEF Live
  <1>2. IsFiniteSet(Live) /\ Cardinality(Live) <= Cardinality(Workers)
    BY <1>1, FS_Subset
  <1> QED
    BY <1>1, <1>2, FS_CardinalityType, FS_EmptySet

\* A worker that goes elsewhere still runs; one that is done is one less.
LEMMA LiveAfter ==
    ASSUME wpc \in [Workers -> Places], NEW w \in Workers, wpc[w] # "done",
           NEW to \in Places, Goto(w, to)
    PROVE  /\ wpc' \in [Workers -> Places]
           /\ to # "done" => Live' = Live
           /\ to = "done" => Cardinality(Live') = Cardinality(Live) - 1
  <1>1. wpc' = [wpc EXCEPT ![w] = to]
    BY DEF Goto
  <1>2. w \in Live
    BY DEF Live
  <1>3. CASE to # "done"
    BY <1>1, <1>3 DEF Live
  <1>4. CASE to = "done"
    <2>1. Live' = Live \ {w}
      BY <1>1, <1>4 DEF Live
    <2>2. Cardinality(Live \ {w}) = Cardinality(Live) - 1
      BY <1>2, LiveType, FS_RemoveElement
    <2> QED
      BY <1>1, <1>4, <2>1, <2>2
  <1> QED
    BY <1>1, <1>3, <1>4

\* A worker that leaves takes itself off the WaitGroup and changes nothing else.
Leaves(w) ==
    /\ wpc[w] \in {"listen", "loop"} /\ WorkerDone(w)
    /\ UNCHANGED <<vars, mpc>>
\* A worker that moves on without having counted or reported anything.
Binds(w) ==
    /\ wpc[w] = "listen" /\ Goto(w, "loop")
    /\ UNCHANGED <<vars, mpc, wg>>
\* A worker that counts a packet it has sent.
Counts(w) ==
    /\ wpc[w] = "loop"
    /\ \E cycles, flows \in Nat : Sent(w, cycles, flows)

\* What a step of a worker does to the others.
LEMMA WorkerCases ==
    ASSUME NEW w \in Workers, WorkerStep(w)
    PROVE  Leaves(w) \/ Binds(w) \/ Counts(w) \/ WorkerReport(w)
  <1>1. WorkerListen(w) => Leaves(w) \/ Binds(w)
    BY DEF WorkerListen, Leaves, Binds
  <1>2. WorkerSendFails(w) \/ WorkerExit(w) => Leaves(w)
    BY DEF WorkerSendFails, WorkerExit, Leaves
  <1>3. WorkerData(w) => Counts(w)
    <2> SUFFICES ASSUME WorkerData(w) PROVE Counts(w)
      OBVIOUS
    <2>1. wpc[w] = "loop" /\ \E n \in FlowCounts : Sent(w, 1, n)
      BY DEF WorkerData
    <2>2. 1 \in Nat /\ FlowCounts \subseteq Nat
      OBVIOUS
    <2> QED
      BY <2>1, <2>2 DEF Counts
  <1>4. WorkerTemplate(w) => Counts(w)
    BY DEF WorkerTemplate, Counts
  <1> QED
    BY <1>1, <1>2, <1>3, <1>4 DEF WorkerStep

\* Counting raises one worker's counters and no other's.
LEMMA CountedRaises ==
    ASSUME wStats \in [Workers -> Counters], NEW w \in Workers,
           NEW cycles \in Nat, NEW flows \in Nat, wStats' = Counted(w, cycles, flows)
    PROVE  Raises /\ \A v \in Workers : v # w => wStats'[v] = wStats[v]
  <1> DEFINE r == [cycles |-> wStats[w].cycles + cycles, flows |-> wStats[w].flows + flows]
  <1>1. wStats[w] \in Counters
    OBVIOUS
  <1>2. r \in Counters /\ Leq(wStats[w], r)
    BY <1>1 DEF Counters, Leq
  <1>3. wStats' = [wStats EXCEPT ![w] = r]
    BY DEF Counted
  <1> HIDE DEF r
  <1> QED
    BY <1>2, <1>3, LeqOrder DEF Raises

\* Worker, collector and context keep the invariant and the other members of
\* the WaitGroup.
LEMMA BarrageKeeps ==
    ASSUME BarrageInv, wg \in Int, BarrageStep
    PROVE  BarrageInv' /\ wg' \in Int /\ Others' = Others
  <1>0. /\ CollectorInv /\ wpc \in [Workers -> Places] /\ ReportsCurrent /\ Finished
        /\ wStats \in [Workers -> Counters]
        /\ cancelled \in BOOLEAN /\ closed \in BOOLEAN
        /\ Cardinality(Live) \in Nat /\ CollectorCount \in {0, 1}
        /\ mpc \in {"wait", "stop", "returned"}
    BY LiveType DEF BarrageInv, CollectorInv, TypeOK, CollectorCount
  <1>1. ASSUME NEW w \in Workers, WorkerStep(w)
        PROVE  BarrageInv' /\ wg' \in Int /\ Others' = Others
    <2>0. wpc[w] # "done" /\ mpc = "wait" /\ ~closed
      <3>1. wpc[w] # "done"
        BY <1>1, WorkerCases DEF Leaves, Binds, Counts, WorkerReport
      <3>2. Live # {}
        BY <3>1 DEF Live
      <3> QED
        BY <1>0, <3>1, <3>2 DEF Finished
    <2>1. CASE Leaves(w)
      <3>1. UNCHANGED <<vars, mpc>> /\ Goto(w, "done") /\ wg' = wg - 1 /\ wpc[w] # "report"
        BY <2>1 DEF Leaves, WorkerDone
      <3>2. wpc' \in [Workers -> Places] /\ Cardinality(Live') = Cardinality(Live) - 1
        BY <1>0, <2>0, <3>1, LiveAfter DEF Places
      <3>3. CollectorInv'
        <4>1. OthersAct
          BY <1>0, <3>1, LeqOrder DEF OthersAct, Raises, vars
        <4> QED
          BY <1>0, <4>1, CollectorStepKeeps
      <3>4. ReportsCurrent'
        BY <1>0, <3>1 DEF ReportsCurrent, Newest, Goto, vars, collectorVars
      <3>5. Finished'
        BY <1>0, <2>0, <3>1 DEF Finished, vars
      <3>6. Others' = Others /\ wg' \in Int
        BY <1>0, <3>1, <3>2 DEF Others, CollectorCount, vars, collectorVars
      <3> QED
        BY <1>0, <3>1, <3>2, <3>3, <3>4, <3>5, <3>6 DEF BarrageInv
    <2>2. CASE Binds(w)
      <3>1. UNCHANGED <<vars, mpc, wg>> /\ Goto(w, "loop") /\ wpc[w] = "listen"
        BY <2>2 DEF Binds
      <3>2. wpc' \in [Workers -> Places] /\ Live' = Live
        BY <1>0, <2>0, <3>1, LiveAfter DEF Places
      <3>3. CollectorInv'
        <4>1. OthersAct
          BY <1>0, <3>1, LeqOrder DEF OthersAct, Raises, vars
        <4> QED
          BY <1>0, <4>1, CollectorStepKeeps
      <3>4. ReportsCurrent'
        BY <1>0, <3>1 DEF ReportsCurrent, Newest, Goto, vars, collectorVars
      <3>5. Finished'
        BY <1>0, <2>0, <3>1 DEF Finished, vars
      <3>6. Others' = Others /\ wg' \in Int
        BY <1>0, <3>1, <3>2 DEF Others, CollectorCount, vars, collectorVars
      <3> QED
        BY <1>0, <3>1, <3>2, <3>3, <3>4, <3>5, <3>6 DEF BarrageInv
    <2>3. CASE Counts(w)
      <3>1. PICK cycles \in Nat, flows \in Nat : Sent(w, cycles, flows)
        BY <2>3 DEF Counts
      <3>2. /\ wStats' = Counted(w, cycles, flows) /\ Goto(w, "report")
            /\ UNCHANGED <<cancelled, statsChan, closed, collectorVars, wg, mpc>>
        BY <3>1 DEF Sent
      <3>3. Raises /\ \A v \in Workers : v # w => wStats'[v] = wStats[v]
        BY <1>0, <3>2, CountedRaises
      <3>4. wpc' \in [Workers -> Places] /\ Live' = Live
        BY <1>0, <2>0, <3>2, LiveAfter DEF Places
      <3>5. CollectorInv'
        <4>1. OthersAct
          BY <1>0, <3>2, <3>3 DEF OthersAct
        <4> QED
          BY <1>0, <4>1, CollectorStepKeeps
      <3>6. ReportsCurrent'
        <4>1. \A v \in Workers : Newest(v)' = Newest(v)
          BY <3>2 DEF Newest, collectorVars
        <4> QED
          BY <1>0, <3>2, <3>3, <4>1 DEF ReportsCurrent, Goto
      <3>7. Finished'
        BY <1>0, <2>0, <3>2 DEF Finished
      <3>8. Others' = Others /\ wg' \in Int
        BY <1>0, <3>2, <3>4 DEF Others, CollectorCount, collectorVars
      <3> QED
        BY <1>0, <3>2, <3>4, <3>5, <3>6, <3>7, <3>8 DEF BarrageInv
    <2>4. CASE WorkerReport(w)
      <3>1. /\ Room /\ statsChan' = Append(statsChan, [worker |-> w, stat |-> wStats[w]])
            /\ Goto(w, "loop")
            /\ UNCHANGED <<cancelled, wStats, closed, collectorVars, wg, mpc>>
        BY <2>4 DEF WorkerReport, Report
      <3>2. wpc' \in [Workers -> Places] /\ Live' = Live
        BY <1>0, <2>0, <3>1, LiveAfter DEF Places
      <3>3. Sends(w) /\ wStats' \in [Workers -> Counters]
        BY <1>0, <3>1 DEF Sends
      <3>4. CollectorInv'
        <4>1. OthersAct
          BY <1>0, <3>1, <3>3, LeqOrder DEF OthersAct, Raises
        <4> QED
          BY <1>0, <4>1, CollectorStepKeeps
      <3>5. ReportsCurrent'
        <4>1. \A v \in Workers : Newest(v)' = IF v = w THEN wStats'[v] ELSE Newest(v)
          BY <1>0, <3>1, <3>3, SendsKeepsNewest
        <4> QED
          BY <1>0, <3>1, <4>1 DEF ReportsCurrent, Goto
      <3>6. Finished'
        BY <1>0, <2>0, <3>1 DEF Finished
      <3>7. Others' = Others /\ wg' \in Int
        BY <1>0, <3>1, <3>2 DEF Others, CollectorCount, collectorVars
      <3> QED
        BY <1>0, <3>1, <3>2, <3>4, <3>5, <3>6, <3>7 DEF BarrageInv
    <2> QED
      BY <1>1, <2>1, <2>2, <2>3, <2>4, WorkerCases
  <1>2. ASSUME CollectorReceive \/ CollectorUpdate \/ CollectorExit, UNCHANGED <<wpc, mpc>>,
               wg' = wg - (CollectorCount - CollectorCount')
        PROVE  BarrageInv' /\ wg' \in Int /\ Others' = Others
    <2>1. CollectorActs /\ UNCHANGED <<wStats, closed>> /\ cpc # "done"
      BY <1>2 DEF CollectorActs, CollectorReceive, CollectorUpdate, CollectorExit
    <2>2. CollectorInv'
      BY <1>0, <2>1, CollectorStepKeeps
    <2>3. ReportsCurrent'
      BY <1>0, <1>2, <2>1, CollectorKeepsNewest DEF ReportsCurrent
    <2>4. Finished'
      BY <1>0, <1>2, <2>1 DEF Finished
    <2>5. Live' = Live /\ CollectorCount' \in {0, 1}
      BY <1>2 DEF Live, CollectorCount
    <2>6. Others' = Others /\ wg' \in Int
      BY <1>0, <1>2, <2>5 DEF Others
    <2> QED
      BY <1>0, <1>2, <2>2, <2>3, <2>4, <2>6 DEF BarrageInv
  <1>3. CASE CollectorRuns
    <2>1. CollectorCount' = CollectorCount
      BY <1>3 DEF CollectorRuns, CollectorReceive, CollectorUpdate, CollectorCount
    <2>2. wg' = wg - (CollectorCount - CollectorCount')
      BY <1>0, <1>3, <2>1 DEF CollectorRuns
    <2> QED
      BY <1>2, <1>3, <2>2 DEF CollectorRuns
  <1>4. CASE CollectorLeaves
    <2>1. CollectorCount = 1 /\ CollectorCount' = 0
      BY <1>4 DEF CollectorLeaves, CollectorExit, CollectorCount
    <2>2. wg' = wg - (CollectorCount - CollectorCount')
      BY <1>4, <2>1 DEF CollectorLeaves
    <2> QED
      BY <1>2, <1>4, <2>2 DEF CollectorLeaves
  <1>5. CASE Cancel
    <2>1. /\ cancelled' = TRUE
          /\ UNCHANGED <<wStats, statsChan, closed, collectorVars, wpc, wg, mpc>>
      BY <1>5 DEF Cancel, CancelContext
    <2>2. CollectorInv'
      <3>1. OthersAct
        BY <1>0, <2>1, LeqOrder DEF OthersAct, Raises
      <3> QED
        BY <1>0, <3>1, CollectorStepKeeps
    <2>3. ReportsCurrent' /\ Finished'
      BY <1>0, <2>1 DEF ReportsCurrent, Newest, Finished, Live, collectorVars
    <2>4. Others' = Others /\ wg' \in Int
      BY <2>1 DEF Others, Live, CollectorCount, collectorVars
    <2> QED
      BY <1>0, <2>1, <2>2, <2>3, <2>4 DEF BarrageInv
  <1> QED
    BY <1>1, <1>3, <1>4, <1>5 DEF BarrageStep, GoroutineStep


\* RunCtx goes on from Wg.Wait when nobody is left in the WaitGroup.
LEMMA WaitKeeps ==
    ASSUME BarrageInv, wg \in Int, Others \in Nat, MainWait
    PROVE  BarrageInv' /\ wg' \in Int /\ Others' = Others
  <1>1. Cardinality(Live) \in Nat /\ CollectorCount \in {0, 1} /\ wg = 0
        /\ mpc = "wait" /\ mpc' = "stop" /\ UNCHANGED <<vars, wpc, wg>>
    BY LiveType DEF CollectorCount, MainWait
  <1>2. Cardinality(Live) = 0 /\ CollectorCount = 0
    BY <1>1 DEF Others
  <1>3. Live = {} /\ cpc = "done"
    BY <1>1, <1>2, LiveType DEF CollectorCount
  <1>4. OthersAct
    BY <1>1, LeqOrder DEF OthersAct, Raises, vars, BarrageInv, CollectorInv, TypeOK
  <1>5. CollectorInv'
    BY <1>4, CollectorStepKeeps DEF BarrageInv
  <1>6. ReportsCurrent' /\ Finished'
    BY <1>1, <1>3 DEF BarrageInv, ReportsCurrent, Newest, Finished, Live, vars, collectorVars
  <1> QED
    BY <1>1, <1>5, <1>6 DEF BarrageInv, Others, Live, CollectorCount, vars, collectorVars

\* RunCtx closes the channel and returns.
LEMMA StopKeeps ==
    ASSUME BarrageInv, wg \in Int, MainStop
    PROVE  BarrageInv' /\ wg' \in Int /\ Others' = Others
  <1>1. mpc = "stop" /\ mpc' = "returned" /\ closed' = TRUE
        /\ UNCHANGED <<cancelled, wStats, statsChan, collectorVars, wpc, wg>>
    BY DEF MainStop, Stop
  <1>2. OthersAct
    BY <1>1, LeqOrder DEF OthersAct, Raises, BarrageInv, CollectorInv, TypeOK
  <1>3. CollectorInv'
    BY <1>2, CollectorStepKeeps DEF BarrageInv
  <1>4. ReportsCurrent' /\ Finished'
    BY <1>1 DEF BarrageInv, ReportsCurrent, Newest, Finished, Live, collectorVars
  <1> QED
    BY <1>1, <1>3, <1>4 DEF BarrageInv, Others, Live, CollectorCount, collectorVars

\* Steps outside the barrage.
LEMMA BarrageUnchanged ==
    ASSUME BarrageInv, UNCHANGED <<vars, wpc, mpc>>
    PROVE  BarrageInv' /\ Live' = Live /\ CollectorCount' = CollectorCount
  <1>1. OthersAct
    BY LeqOrder DEF OthersAct, Raises, vars, BarrageInv, CollectorInv, TypeOK
  <1>2. CollectorInv'
    BY <1>1, CollectorStepKeeps DEF BarrageInv
  <1>3. ReportsCurrent' /\ Finished'
    BY DEF BarrageInv, ReportsCurrent, Newest, Finished, Live, vars, collectorVars
  <1> QED
    BY <1>2, <1>3 DEF BarrageInv, Live, CollectorCount, vars, collectorVars

\* StartCtx has counted the workers and the collector.
LEMMA BarrageInitInv == BInit => BarrageInv /\ wg \in Int /\ Others = 0
  <1> SUFFICES ASSUME BInit PROVE BarrageInv /\ wg \in Int /\ Others = 0
    OBVIOUS
  <1>1. CollectorInv
    BY CollectorInit DEF BInit
  <1>2. Live = Workers /\ Cardinality(Workers) \in Nat /\ CollectorCount = 1
    BY LiveType DEF BInit, Init, Live, CollectorCount
  <1>3. ReportsCurrent
    BY DEF BInit, Init, ReportsCurrent, Newest
  <1>4. Finished
    BY DEF BInit, Init, Finished
  <1> QED
    BY <1>1, <1>2, <1>3, <1>4 DEF BInit, BarrageInv, Others, Places

\* The inductive invariant of BSpec: nobody but workers and collector is in the
\* WaitGroup.
BInv == BarrageInv /\ wg \in Int /\ Others = 0

\* Every step of the barrage keeps its invariant.
LEMMA BNextInv == BInv /\ [BNext]_bvars => BInv'
  <1> SUFFICES ASSUME BInv, [BNext]_bvars PROVE BInv'
    OBVIOUS
  <1> USE DEF BInv
  <1>1. CASE BarrageStep
    BY <1>1, BarrageKeeps
  <1>2. CASE MainWait
    BY <1>2, WaitKeeps
  <1>3. CASE MainStop
    BY <1>3, StopKeeps
  <1>4. CASE UNCHANGED bvars
    BY <1>4, BarrageUnchanged DEF bvars, Others
  <1> QED
    BY <1>1, <1>2, <1>3, <1>4 DEF BNext, BarrageStep, GoroutineStep

\* The invariant holds of the barrage.
THEOREM BarrageCorrect == BSpec => []BInv
  <1> QED
    BY BarrageInitInv, BNextInv, PTL DEF BSpec, BInv

\* The WaitGroup counts exactly the goroutines still running.
THEOREM BarrageWaitGroupExact == BSpec => []WaitGroupExact
  <1>1. BInv => WaitGroupExact
    BY LiveType DEF BInv, Others, WaitGroupExact, CollectorCount
  <1> QED
    BY <1>1, BarrageCorrect, PTL

\* It never goes below zero, the channel never beyond its capacity.
THEOREM BarrageTypeOK == BSpec => []BTypeOK
  <1>1. BInv => BTypeOK
    BY LiveType DEF BInv, BarrageInv, Others, CollectorCount, CollectorInv, BTypeOK, Places
  <1> QED
    BY <1>1, BarrageCorrect, PTL

\* No report is lost or overtaken between a worker and the statistics.
THEOREM BarrageReportsCurrent == BSpec => []ReportsCurrent
  <1>1. BInv => ReportsCurrent
    BY DEF BInv, BarrageInv
  <1> QED
    BY <1>1, BarrageCorrect, PTL

\* No worker finds the channel closed: a send on it would panic.
NoSendOnClosed == closed => \A w \in Workers : wpc[w] # "report"

\* stats.Stop closes the channel only when no worker is left to send on it
\* (Barrage.WorkerReport, Barrage.Stop).
THEOREM BarrageNoSendOnClosed == BSpec => []NoSendOnClosed
  <1>1. BInv => NoSendOnClosed
    BY DEF BInv, BarrageInv, Finished, NoSendOnClosed, Live
  <1> QED
    BY <1>1, BarrageCorrect, PTL


-----------------------------------------------------------------------------
(* The command around the barrage (CSpec) *)

\* The web server joins the WaitGroup before Execute waits for it, and its
\* listener is closed when it leaves.
WebInv ==
    /\ mpc # "wait" => place \in {"run", "exit", "over"} /\ WebCount = 0
    /\ web \in {"none", "start"} => listener = "none"
    /\ web = "done" => listener # "serving"
    /\ place \in {"setup", "start", "web"} => web = "none"

\* A signal on its way to the context has been sent.
SignalInv ==
    /\ sigChan > 0 \/ handler = "cancel" => signals > 0
    /\ CancelledForAReason

\* The types of what BarrageCommand adds to the barrage.
CommandTypes ==
    /\ LifecycleTypeOK
    /\ place \in {"setup", "start", "web", "run", "exit", "over"}
    /\ webOn \in BOOLEAN
    /\ web \in {"none", "start", "select", "shutdown", "done"}
    /\ listener \in {"none", "start", "serving", "failed", "closed"}

\* The inductive invariant of CSpec.
CInv ==
    /\ BarrageInv
    /\ wg \in Int /\ Others = WebCount
    /\ CommandTypes
    /\ WebInv
    /\ SignalInv

\* The command starts with the barrage's goroutines and the web server's.
LEMMA CInitInv == CInit => CInv
  <1> SUFFICES ASSUME CInit PROVE CInv
    OBVIOUS
  <1>1. BarrageInv /\ wg \in Int /\ Others = 0
    BY BarrageInitInv DEF CInit
  <1>2. WebCount = 0 /\ mpc = "wait"
    BY DEF CInit, BInit, WebCount
  <1>3. LifecycleTypeOK
    <2>1. cancelled = FALSE /\ notified = FALSE /\ killed = FALSE
      BY DEF CInit, ManagerInit
    <2>2. sigChan = 0 /\ signals = 0 /\ handler = "none"
      BY DEF CInit, ManagerInit
    <2>3. sigChan \in 0..SigCap /\ signals \in 0..MaxSignals
      BY <2>2, SignalsAssumption DEF SigCap
    <2> QED
      BY <2>1, <2>2, <2>3 DEF LifecycleTypeOK
  <1>4. CommandTypes
    BY <1>3 DEF CInit, CommandTypes
  <1>5. SignalInv
    BY DEF CInit, ManagerInit, SignalInv, CancelledForAReason
  <1>6. WebInv
    BY <1>2 DEF CInit, WebInv
  <1> QED
    BY <1>1, <1>2, <1>4, <1>5, <1>6 DEF CInv

\* What a step of the command may do to the barrage: nothing, a step of the
\* barrage, or a change of the WaitGroup by the web server alone.
LEMMA CommandSteps ==
    ASSUME CInv, CNext
    PROVE  \/ GoroutineStep /\ UNCHANGED <<handlerVars, commandVars>>
           \/ (MainWait \/ MainStop) /\ place = "run" /\ UNCHANGED <<handlerVars, commandVars>>
           \/ /\ UNCHANGED <<barrageRest, commandVars>> /\ UNCHANGED wg
              /\ HandlerStep \/ Signal
           \/ place = "run" /\ mpc = "returned" /\ ManagerCancel /\ place' = "exit"
                 /\ UNCHANGED <<barrageRest, wg, webVars>>
           \/ UNCHANGED bvars /\ UNCHANGED handlerVars /\ UNCHANGED webVars
                 /\ \/ place = "start" /\ place' = "web"
                    \/ place = "exit" /\ place' = "over"
           \/ MainSetup
           \/ UNCHANGED <<cancelled, barrageRest, handlerVars, webOn>> /\ (MainWeb \/ WebStep)
  <1>1. CASE Main
    BY <1>1 DEF Main, MainStep, MainStart, MainBarrage, MainCancel, MainExit, MainWeb
  <1>2. CASE Handler \/ Environment
    BY <1>2 DEF Handler, Environment
  <1>3. CASE Web
    BY <1>3 DEF Web, WebStep, WebStart, WebListen, WebContext, WebError, WebShutdown, webRest
  <1>4. CASE \E w \in Workers : InBarrage(WorkerStep(w))
    BY <1>4 DEF InBarrage, GoroutineStep
  <1>5. CASE InBarrage(CollectorRuns) \/ InBarrage(CollectorLeaves)
    BY <1>5 DEF InBarrage, GoroutineStep
  <1> QED
    BY <1>1, <1>2, <1>3, <1>4, <1>5 DEF CNext

\* The context may end at any time without harm to the barrage.
LEMMA CancelKeeps ==
    ASSUME BarrageInv, wg \in Int, UNCHANGED <<barrageRest, wg>>,
           UNCHANGED cancelled \/ cancelled' = TRUE
    PROVE  BarrageInv' /\ wg' \in Int /\ Others' = Others
  <1>1. CASE UNCHANGED cancelled
    <2>1. UNCHANGED <<vars, wpc, mpc>>
      BY <1>1 DEF barrageRest, vars
    <2> QED
      BY <2>1, BarrageUnchanged DEF Others, barrageRest
  <1>2. CASE ~cancelled /\ cancelled' = TRUE
    <2>1. Cancel
      BY <1>2 DEF Cancel, CancelContext, barrageRest
    <2> QED
      BY <2>1, BarrageKeeps DEF BarrageStep
  <1> QED
    BY <1>1, <1>2 DEF BarrageInv, CollectorInv, TypeOK

\* Workers and collector touch neither the context nor RunCtx.
LEMMA GoroutineFrame == GoroutineStep => UNCHANGED <<mpc, cancelled>>
  <1>1. ASSUME NEW w \in Workers, WorkerStep(w) PROVE UNCHANGED <<mpc, cancelled>>
    BY <1>1, WorkerCases DEF Leaves, Binds, Counts, Sent, WorkerReport, vars
  <1>2. CollectorRuns \/ CollectorLeaves => UNCHANGED <<mpc, cancelled>>
    BY DEF CollectorRuns, CollectorLeaves, CollectorReceive, CollectorUpdate, CollectorExit
  <1> QED
    BY <1>1, <1>2 DEF GoroutineStep

\* Every step of the command keeps its invariant.
LEMMA CNextInv == CInv /\ [CNext]_cvars => CInv'
  <1> SUFFICES ASSUME CInv, [CNext]_cvars PROVE CInv'
    OBVIOUS
  <1>0. /\ BarrageInv /\ wg \in Int /\ Others = WebCount /\ CommandTypes /\ WebInv /\ SignalInv
        /\ WebCount \in {0, 1} /\ mpc \in {"wait", "stop", "returned"}
    BY DEF CInv, WebCount, BarrageInv
  <1>1. CASE GoroutineStep /\ UNCHANGED <<handlerVars, commandVars>>
    <2>1. BarrageInv' /\ wg' \in Int /\ Others' = Others
      BY <1>0, <1>1, BarrageKeeps DEF BarrageStep
    <2>2. UNCHANGED <<sigChan, handler, notified, signals, killed, place, webOn, web, listener>>
          /\ WebCount' = WebCount /\ UNCHANGED <<mpc, cancelled>>
      BY <1>1, GoroutineFrame DEF handlerVars, commandVars, webVars, WebCount
    <2> QED
      BY <1>0, <2>1, <2>2
         DEF CInv, CommandTypes, LifecycleTypeOK, WebInv, SignalInv, CancelledForAReason
  <1>2. CASE (MainWait \/ MainStop) /\ place = "run" /\ UNCHANGED <<handlerVars, commandVars>>
    <2>1. BarrageInv' /\ wg' \in Int /\ Others' = Others
      BY <1>0, <1>2, WaitKeeps, StopKeeps
    <2>2. UNCHANGED <<sigChan, handler, notified, signals, killed, place, webOn, web, listener>>
          /\ WebCount' = WebCount /\ UNCHANGED cancelled
      BY <1>2 DEF handlerVars, commandVars, webVars, WebCount, MainWait, MainStop, Stop, vars
    <2>3. WebCount = 0
      <3>1. CASE MainWait
        BY <1>0, <3>1, LiveType DEF MainWait, Others, CollectorCount
      <3>2. CASE MainStop
        BY <1>0, <3>2 DEF MainStop, WebInv
      <3> QED
        BY <1>2, <3>1, <3>2
    <2>4. WebInv'
      BY <1>0, <1>2, <2>2, <2>3 DEF WebInv
    <2>5. SignalInv'
      BY <1>0, <1>2, <2>2 DEF SignalInv, CancelledForAReason, MainWait, MainStop
    <2> QED
      BY <1>0, <2>1, <2>2, <2>4, <2>5 DEF CInv, CommandTypes, LifecycleTypeOK
  <1>3. CASE UNCHANGED <<barrageRest, commandVars, wg>> /\ (HandlerStep \/ Signal)
    <2>1. UNCHANGED cancelled \/ (handler = "cancel" /\ cancelled' = TRUE)
      BY <1>3 DEF HandlerStep, HandlerStart, HandlerSignal, HandlerCancel, HandlerContext,
                  HandlerStop, Signal
    <2>2. BarrageInv' /\ wg' \in Int /\ Others' = Others
      BY <1>0, <1>3, <2>1, CancelKeeps
    <2>3. UNCHANGED <<mpc, place, webOn, web, listener>> /\ WebCount' = WebCount
      BY <1>3 DEF commandVars, webVars, WebCount, barrageRest
    <2>4. LifecycleTypeOK' /\ SignalInv'
      <3>1. LifecycleTypeOK /\ signals \in 0..MaxSignals /\ sigChan \in 0..1
        BY <1>0 DEF CommandTypes, LifecycleTypeOK, SigCap
      <3>0. cancelled \in BOOLEAN /\ notified \in BOOLEAN /\ killed \in BOOLEAN
        BY <1>0 DEF CommandTypes, LifecycleTypeOK
      <3>2. CASE HandlerStep
        <4> USE <3>2 DEF HandlerStep, HandlerStart, HandlerSignal, HandlerCancel, HandlerContext,
                         HandlerStop
        <4>1. sigChan' \in 0..1 /\ signals' \in 0..MaxSignals /\ signals' = signals
          BY <3>1
        <4>2. handler' \in {"none", "start", "select", "cancel", "stop", "gone"}
          OBVIOUS
        <4>3. cancelled' \in BOOLEAN /\ notified' \in BOOLEAN /\ killed' \in BOOLEAN
          BY <3>0
        <4>4. sigChan' > 0 \/ handler' = "cancel" => signals' > 0
          BY <1>0, <3>1 DEF SignalInv
        <4>5. CancelledForAReason'
          BY <1>0, <2>1, <2>3, <4>1 DEF SignalInv, CancelledForAReason
        <4> QED
          BY <4>1, <4>2, <4>3, <4>4, <4>5 DEF LifecycleTypeOK, SigCap, SignalInv
      <3>3. CASE Signal
        <4>1. signals' = signals + 1 /\ signals' \in 0..MaxSignals /\ signals' > 0
              /\ UNCHANGED <<cancelled, handler, notified>>
          BY <3>1, <3>3, SignalsAssumption DEF Signal
        <4>2. sigChan' \in 0..1
          BY <3>1, <3>3 DEF Signal, Enqueue, SigCap
        <4>3. killed' \in BOOLEAN
          <5>1. UNCHANGED killed \/ killed' = TRUE
            BY <3>3 DEF Signal
          <5> QED
            BY <3>0, <5>1
        <4> QED
          BY <3>0, <3>1, <4>1, <4>2, <4>3, <1>0
             DEF LifecycleTypeOK, SigCap, SignalInv, CancelledForAReason, CommandTypes
      <3> QED
        BY <1>3, <3>2, <3>3
    <2> QED
      BY <1>0, <2>2, <2>3, <2>4 DEF CInv, CommandTypes, WebInv
  <1>4. CASE /\ place = "run" /\ mpc = "returned" /\ ManagerCancel /\ place' = "exit"
             /\ UNCHANGED <<barrageRest, wg, webVars>>
    <2>1. BarrageInv' /\ wg' \in Int /\ Others' = Others
      BY <1>0, <1>4, CancelKeeps DEF ManagerCancel
    <2>2. UNCHANGED <<mpc, webOn, web, listener>> /\ WebCount' = WebCount
      BY <1>4 DEF webVars, WebCount, barrageRest
    <2> QED
      BY <1>0, <1>4, <2>1, <2>2
         DEF CInv, CommandTypes, LifecycleTypeOK, WebInv, SignalInv, CancelledForAReason,
             ManagerCancel
  <1>5. CASE /\ UNCHANGED bvars /\ UNCHANGED handlerVars /\ UNCHANGED webVars
             /\ \/ place = "start" /\ place' = "web"
                \/ place = "exit" /\ place' = "over"
    <2>1. UNCHANGED <<vars, wpc, mpc>> /\ wg' = wg /\ cancelled' = cancelled
      BY <1>5 DEF bvars, vars
    <2>2. BarrageInv' /\ wg' \in Int /\ Others' = Others
      BY <1>0, <2>1, BarrageUnchanged DEF Others
    <2>3. UNCHANGED <<sigChan, handler, notified, signals, killed, webOn, web, listener>>
          /\ WebCount' = WebCount
      BY <1>5 DEF handlerVars, webVars, WebCount
    <2> QED
      BY <1>0, <1>5, <2>1, <2>2, <2>3
         DEF CInv, CommandTypes, LifecycleTypeOK, WebInv, SignalInv, CancelledForAReason
  <1>6. CASE MainSetup
    <2>1. UNCHANGED <<barrageRest, wg, webVars, cancelled, sigChan, signals, killed>>
          /\ place = "setup" /\ place' = "start" /\ handler' = "start" /\ notified' = TRUE
      BY <1>6 DEF MainSetup, SetupSignalHandler
    <2>2. BarrageInv' /\ wg' \in Int /\ Others' = Others
      BY <1>0, <2>1, CancelKeeps
    <2>3. UNCHANGED <<mpc, webOn, web, listener>> /\ WebCount' = WebCount
      BY <2>1 DEF webVars, WebCount, barrageRest
    <2> QED
      BY <1>0, <2>1, <2>2, <2>3
         DEF CInv, CommandTypes, LifecycleTypeOK, WebInv, SignalInv, CancelledForAReason
  <1>7. CASE UNCHANGED <<cancelled, barrageRest, handlerVars, webOn>> /\ (MainWeb \/ WebStep)
    <2>1. UNCHANGED <<vars, wpc, mpc, cancelled>>
          /\ UNCHANGED <<sigChan, handler, notified, signals, killed, webOn>>
      BY <1>7 DEF barrageRest, vars, handlerVars
    <2>2. BarrageInv' /\ Live' = Live /\ CollectorCount' = CollectorCount
      BY <1>0, <2>1, BarrageUnchanged
    <2>3. wg' \in Int /\ wg' - wg = WebCount' - WebCount
      <3>1. CASE MainWeb
        BY <1>0, <3>1 DEF MainWeb, AddWeb, WebCount, WebInv
      <3>2. CASE WebStep
        BY <1>0, <3>2 DEF WebStep, WebStart, WebListen, WebContext, WebError, WebShutdown, WebCount
      <3> QED
        BY <1>7, <3>1, <3>2
    <2>4. Others' = WebCount'
      <3>1. Cardinality(Live) \in Nat /\ CollectorCount \in {0, 1} /\ WebCount' \in {0, 1}
        BY LiveType DEF CollectorCount, WebCount
      <3> QED
        BY <1>0, <2>2, <2>3, <3>1 DEF Others
    <2>5. CommandTypes' /\ WebInv'
      <3>1. CASE MainWeb
        BY <1>0, <2>1, <3>1 DEF MainWeb, AddWeb, WebCount, WebInv, CommandTypes, LifecycleTypeOK
      <3>2. CASE WebStep
        BY <1>0, <2>1, <3>2
           DEF WebStep, WebStart, WebListen, WebContext, WebError, WebShutdown, WebCount,
               WebInv, CommandTypes, LifecycleTypeOK, webRest
      <3> QED
        BY <1>7, <3>1, <3>2
    <2>6. SignalInv'
      BY <1>0, <2>1 DEF SignalInv, CancelledForAReason
    <2> QED
      BY <2>2, <2>3, <2>4, <2>5, <2>6 DEF CInv
  <1>8. CASE UNCHANGED cvars
    <2>1. UNCHANGED <<vars, wpc, wg, mpc, cancelled>>
          /\ UNCHANGED <<sigChan, handler, notified, signals, killed, place, webOn, web, listener>>
      BY <1>8 DEF cvars, bvars, vars, handlerVars, commandVars, webVars
    <2>2. BarrageInv' /\ Live' = Live /\ CollectorCount' = CollectorCount
      BY <1>0, <2>1, BarrageUnchanged
    <2> QED
      BY <1>0, <2>1, <2>2
         DEF CInv, CommandTypes, LifecycleTypeOK, WebInv, SignalInv, CancelledForAReason, WebCount,
             Others
  <1>9. CASE CNext
    BY <1>1, <1>2, <1>3, <1>4, <1>5, <1>6, <1>7, <1>9, CommandSteps
  <1> QED
    BY <1>8, <1>9

\* The invariant holds of the command.
THEOREM CommandCorrect == CSpec => []CInv
  <1> QED
    BY CInitInv, CNextInv, PTL DEF CSpec

\* The command keeps its types; the WaitGroup counts the web server too.
THEOREM CommandTypeOK == CSpec => []CTypeOK
  <1>1. CInv => CTypeOK
    BY LiveType DEF CInv, BarrageInv, CollectorInv, CommandTypes, CTypeOK, Others, WebCount,
                    CollectorCount, Places
  <1> QED
    BY <1>1, CommandCorrect, PTL

\* Execute goes on from Wg.Wait only when everybody else has left.
THEOREM CommandEndsAfterEveryone == CSpec => []EndsAfterEveryone
  <1>1. CInv => EndsAfterEveryone
    BY DEF CInv, BarrageInv, Finished, WebInv, WebCount, EndsAfterEveryone, CommandTypes
  <1> QED
    BY <1>1, CommandCorrect, PTL

\* Only a signal or Execute's return ends the context.
THEOREM CommandCancelledForAReason == CSpec => []CancelledForAReason
  <1>1. CInv => CancelledForAReason
    BY DEF CInv, SignalInv
  <1> QED
    BY <1>1, CommandCorrect, PTL


-----------------------------------------------------------------------------
(* The command implements the barrage *)

\* The totals and the number of workers of the barrage are the command's.
LEMMA SameTotals ==
    ASSUME NEW map
    PROVE  B!Totals(map) = Totals(map)
  <1>1. B!MapThenSumSet(LAMBDA w : map[w].cycles, DOMAIN map) = FieldSum(map, "cycles", DOMAIN map)
    BY DEF FieldSum, SumFcn, Adds, PlusRest, Choice, B!MapThenSumSet, B!MapThenFoldSet
  <1>2. B!MapThenSumSet(LAMBDA w : map[w].flows, DOMAIN map) = FieldSum(map, "flows", DOMAIN map)
    BY DEF FieldSum, SumFcn, Adds, PlusRest, Choice, B!MapThenSumSet, B!MapThenFoldSet
  <1>3. B!Totals(map) = [cycles |-> FieldSum(map, "cycles", DOMAIN map),
                         flows |-> FieldSum(map, "flows", DOMAIN map)]
    BY <1>1, <1>2 DEF B!Totals
  <1> QED
    BY <1>3, TotalsAreSums

\* The number of workers is the command's, too.
LEMMA SameNumber == B!Cardinality(Workers) = Cardinality(Workers)
  BY DEF Cardinality, B!Cardinality

\* The command starts as the barrage does.
LEMMA CommandStartsBarrage == CInit => B!BInit
  <1> SUFFICES ASSUME CInit PROVE B!BInit
    OBVIOUS
  <1>1. WebCount = 0 /\ wg = Cardinality(Workers) + 1 /\ wg - WebCount = wg
    BY LiveType DEF CInit, BInit, WebCount
  <1>2. B!Init
    BY DEF CInit, BInit, Init, B!Init, Zero, B!Zero, NoReport, B!NoReport
  <1> QED
    BY <1>1, <1>2, SameNumber DEF CInit, BInit, B!BInit

\* A step of a goroutine of the barrage is one of the barrage by itself.
LEMMA GoroutineMaps ==
    ASSUME wg \in Int, WebCount \in {0, 1}, UNCHANGED commandVars, GoroutineStep
    PROVE  B!BNext
  <1>1. WebCount' = WebCount
    BY DEF commandVars, webVars, WebCount
  <1>2. /\ UNCHANGED wg => (wg - WebCount)' = wg - WebCount
        /\ wg' = wg - 1 => (wg - WebCount)' = (wg - WebCount) - 1
    BY <1>1
  <1>3. ASSUME NEW w \in Workers, WorkerStep(w) PROVE B!WorkerStep(w)
    <2>1. WorkerListen(w) => B!WorkerListen(w)
      BY <1>2 DEF WorkerListen, B!WorkerListen, Goto, B!Goto, WorkerDone, B!WorkerDone, vars, B!vars,
                  collectorVars, B!collectorVars
    <2>2. WorkerData(w) => B!WorkerData(w)
      BY <1>2 DEF WorkerData, B!WorkerData, Sent, B!Sent, Counted, B!Counted, Goto, B!Goto,
                  collectorVars, B!collectorVars
    <2>3. WorkerTemplate(w) => B!WorkerTemplate(w)
      BY <1>2 DEF WorkerTemplate, B!WorkerTemplate, Sent, B!Sent, Counted, B!Counted, Goto, B!Goto,
                  collectorVars, B!collectorVars
    <2>4. WorkerSendFails(w) => B!WorkerSendFails(w)
      BY <1>2 DEF WorkerSendFails, B!WorkerSendFails, WorkerDone, B!WorkerDone, Goto, B!Goto,
                  vars, B!vars, collectorVars, B!collectorVars
    <2>5. WorkerReport(w) => B!WorkerReport(w)
      BY <1>2 DEF WorkerReport, B!WorkerReport, Room, B!Room, Report, B!Report, Goto, B!Goto,
                  collectorVars, B!collectorVars
    <2>6. WorkerExit(w) => B!WorkerExit(w)
      BY <1>2 DEF WorkerExit, B!WorkerExit, WorkerDone, B!WorkerDone, Goto, B!Goto,
                  vars, B!vars, collectorVars, B!collectorVars
    <2> QED
      BY <1>3, <2>1, <2>2, <2>3, <2>4, <2>5, <2>6 DEF WorkerStep, B!WorkerStep
  <1>4. CollectorRuns => B!CollectorRuns
    <2>1. CollectorReceive => B!CollectorReceive
      BY DEF CollectorReceive, B!CollectorReceive
    <2>2. CollectorUpdate => B!CollectorUpdate
      <3>1. \A h : B!Trimmed(h) = Trimmed(h)
        BY DEF Trimmed, B!Trimmed
      <3>2. B!NoReport = NoReport /\ \A t, m : B!Snapshot(t, m) = Snapshot(t, m)
        BY DEF NoReport, B!NoReport, Zero, B!Zero, Snapshot, B!Snapshot
      <3> QED
        BY <3>1, <3>2, SameTotals DEF CollectorUpdate, B!CollectorUpdate
    <2> QED
      BY <1>2, <2>1, <2>2 DEF CollectorRuns, B!CollectorRuns
  <1>5. CollectorLeaves => B!CollectorLeaves
    BY <1>2 DEF CollectorLeaves, B!CollectorLeaves, CollectorExit, B!CollectorExit
  <1> QED
    BY <1>3, <1>4, <1>5 DEF GoroutineStep, B!BNext

\* Leaving the barrage as it is, except perhaps for its context.
LEMMA CancelMaps ==
    ASSUME UNCHANGED barrageRest, cancelled \in BOOLEAN, (wg - WebCount)' = wg - WebCount,
           UNCHANGED cancelled \/ cancelled' = TRUE
    PROVE  [B!BNext]_(B!bvars)
  <1>1. CASE UNCHANGED cancelled
    BY <1>1 DEF barrageRest, collectorVars, B!bvars, B!vars, B!collectorVars
  <1>2. CASE ~cancelled /\ cancelled' = TRUE
    BY <1>2 DEF barrageRest, collectorVars, B!collectorVars, B!BNext, B!Cancel, B!CancelContext
  <1> QED
    BY <1>1, <1>2

\* Every step of the command is a step of the barrage or leaves it alone.
LEMMA CommandMaps == CInv /\ [CNext]_cvars => [B!BNext]_(B!bvars)
  <1> SUFFICES ASSUME CInv, [CNext]_cvars PROVE [B!BNext]_(B!bvars)
    OBVIOUS
  <1>0. /\ BarrageInv /\ wg \in Int /\ Others = WebCount /\ WebInv
        /\ WebCount \in {0, 1} /\ cancelled \in BOOLEAN
    BY DEF CInv, WebCount, BarrageInv, CollectorInv, TypeOK
  <1>1. CASE GoroutineStep /\ UNCHANGED <<handlerVars, commandVars>>
    BY <1>0, <1>1, GoroutineMaps
  <1>2. CASE (MainWait \/ MainStop) /\ place = "run" /\ UNCHANGED <<handlerVars, commandVars>>
    <2>1. WebCount' = WebCount
      BY <1>2 DEF commandVars, webVars, WebCount
    <2>2. CASE MainWait
      <3>1. WebCount = 0
        BY <1>0, <2>2, LiveType DEF MainWait, Others, CollectorCount
      <3>2. B!MainWait
        BY <1>0, <2>1, <2>2, <3>1 DEF MainWait, B!MainWait, vars, B!vars, collectorVars, B!collectorVars
      <3> QED
        BY <3>2 DEF B!BNext
    <2>3. CASE MainStop
      <3>1. B!MainStop
        BY <1>0, <2>1, <2>3 DEF MainStop, B!MainStop, Stop, B!Stop, collectorVars, B!collectorVars
      <3> QED
        BY <3>1 DEF B!BNext
    <2> QED
      BY <1>2, <2>2, <2>3
  <1>3. CASE UNCHANGED <<barrageRest, commandVars, wg>> /\ (HandlerStep \/ Signal)
    <2>1. UNCHANGED cancelled \/ cancelled' = TRUE
      BY <1>3 DEF HandlerStep, HandlerStart, HandlerSignal, HandlerCancel, HandlerContext,
                  HandlerStop, Signal
    <2>2. UNCHANGED barrageRest /\ (wg - WebCount)' = wg - WebCount
      BY <1>3 DEF commandVars, webVars, WebCount
    <2> QED
      BY <1>0, <2>1, <2>2, CancelMaps
  <1>4. CASE /\ place = "run" /\ mpc = "returned" /\ ManagerCancel /\ place' = "exit"
             /\ UNCHANGED <<barrageRest, wg, webVars>>
    <2>1. UNCHANGED barrageRest /\ (wg - WebCount)' = wg - WebCount /\ cancelled' = TRUE
      BY <1>4 DEF webVars, WebCount, ManagerCancel
    <2> QED
      BY <1>0, <2>1, CancelMaps
  <1>5. CASE /\ UNCHANGED bvars /\ UNCHANGED handlerVars /\ UNCHANGED webVars
             /\ \/ place = "start" /\ place' = "web"
                \/ place = "exit" /\ place' = "over"
    <2>1. UNCHANGED barrageRest /\ (wg - WebCount)' = wg - WebCount /\ cancelled' = cancelled
      BY <1>5 DEF bvars, vars, webVars, WebCount, barrageRest
    <2> QED
      BY <1>0, <2>1, CancelMaps
  <1>6. CASE MainSetup
    <2>1. UNCHANGED barrageRest /\ (wg - WebCount)' = wg - WebCount /\ cancelled' = cancelled
      BY <1>6 DEF MainSetup, SetupSignalHandler, webVars, WebCount
    <2> QED
      BY <1>0, <2>1, CancelMaps
  <1>7. CASE UNCHANGED <<cancelled, barrageRest, handlerVars, webOn>> /\ (MainWeb \/ WebStep)
    <2>1. (wg - WebCount)' = wg - WebCount
      <3>1. CASE MainWeb
        BY <1>0, <3>1 DEF MainWeb, AddWeb, WebCount, WebInv
      <3>2. CASE WebStep
        BY <1>0, <3>2 DEF WebStep, WebStart, WebListen, WebContext, WebError, WebShutdown, WebCount
      <3> QED
        BY <1>7, <3>1, <3>2
    <2> QED
      BY <1>0, <1>7, <2>1, CancelMaps
  <1>8. CASE UNCHANGED cvars
    <2>1. UNCHANGED barrageRest /\ (wg - WebCount)' = wg - WebCount /\ cancelled' = cancelled
      BY <1>8 DEF cvars, bvars, vars, commandVars, webVars, WebCount, barrageRest
    <2> QED
      BY <1>0, <2>1, CancelMaps
  <1>9. CASE CNext
    BY <1>1, <1>2, <1>3, <1>4, <1>5, <1>6, <1>7, <1>9, CommandSteps
  <1> QED
    BY <1>8, <1>9

\* Signals and the web server add no behaviour to the barrage.
THEOREM CommandImplementsBarrage == CSpec => ImplementsBarrage
  <1> QED
    BY CommandStartsBarrage, CommandMaps, CommandCorrect, PTL
       DEF CSpec, ImplementsBarrage, B!BSpec
=============================================================================
