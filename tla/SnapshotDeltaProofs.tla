------------------------ MODULE SnapshotDeltaProofs ------------------------
(***************************************************************************)
(* Proofs about SnapshotDelta, for every set of types, every TOP_N, every     *)
(* target and any number of snapshots.                                        *)
(***************************************************************************)
EXTENDS SnapshotDelta, FiniteSetTheorems, TLAPS

\* Every snapshot is of its world, under a ranking the collector may choose.
Taken ==
  /\ worlds \in Seq(Worlds) /\ snapshots \in Seq({Sections(w, r) : w \in Worlds, r \in SUBSET Types})
  /\ Len(worlds) = Len(snapshots)
  /\ \A i \in DOMAIN snapshots :
       \E ranking \in Rankings(worlds[i]) : snapshots[i] = Sections(worlds[i], ranking)

\* There is no snapshot at first.
LEMMA InitTaken == Init => Taken
  BY DEF Init, Taken

\* One snapshot more.
LEMMA TakeSnapshotTaken == ASSUME Taken, TakeSnapshot PROVE Taken'
<1>1. PICK w \in Worlds : \E ranking \in Rankings(w) :
        worlds' = Append(worlds, w) /\ snapshots' = Append(snapshots, Sections(w, ranking))
  BY DEF TakeSnapshot
<1>2. PICK ranking \in Rankings(w) :
        worlds' = Append(worlds, w) /\ snapshots' = Append(snapshots, Sections(w, ranking))
  BY <1>1
<1>3. ranking \in SUBSET Types
  BY DEF Rankings, Tracked
<1> DEFINE new == Sections(w, ranking)
           Every == {Sections(v, r) : v \in Worlds, r \in SUBSET Types}
<1>4. new \in Every
  BY <1>3
<1> HIDE DEF new, Every
<1>5. /\ worlds \in Seq(Worlds) /\ snapshots \in Seq(Every) /\ Len(worlds) = Len(snapshots)
      /\ worlds' = Append(worlds, w) /\ snapshots' = Append(snapshots, new)
  BY <1>2 DEF Taken, new, Every
<1>6. /\ worlds' \in Seq(Worlds) /\ snapshots' \in Seq(Every) /\ Len(worlds') = Len(snapshots')
      /\ \A i \in DOMAIN snapshots' :
           \/ i \in DOMAIN snapshots /\ snapshots'[i] = snapshots[i] /\ worlds'[i] = worlds[i]
           \/ snapshots'[i] = new /\ worlds'[i] = w
  BY <1>4, <1>5
<1>7. \A i \in DOMAIN snapshots' :
        \E r \in Rankings(worlds'[i]) : snapshots'[i] = Sections(worlds'[i], r)
  BY <1>6 DEF Taken, new
<1> QED
  BY <1>6, <1>7 DEF Taken, Every

\* The invariant behind all theorems.
LEMMA TakenHolds == Spec => []Taken
<1>1. Taken /\ UNCHANGED vars => Taken'
  BY DEF Taken, vars
<1> QED
  BY <1>1, InitTaken, TakeSnapshotTaken, PTL DEF Spec

-----------------------------------------------------------------------------
(* The collectors. *)

\* The smaller of two numbers.
LEMMA MinOfTwo == ASSUME NEW m \in Nat, NEW n \in Nat
                  PROVE  Min({m, n}) = IF m <= n THEN m ELSE n
  BY DEF Min

\* What a ranking leaves out: types that have no more instances than any it
\* lists, and none at all when it is not full.
LEMMA RankingOmits ==
  ASSUME NEW w \in Worlds, NEW ranking \in Rankings(w), NEW t \in Types \ ranking
  PROVE  /\ w.count[t] \in Nat
         /\ \A u \in ranking : u \in Types /\ w.count[u] \in Nat /\ w.count[t] <= w.count[u]
         /\ Cardinality(ranking) < TopN => w.count[t] = 0
<1>1. w.count \in [Types -> Nat] /\ IsFiniteSet(Types) /\ TopN \in Nat
  BY WorldAssumption
<1>2. IsFiniteSet(Tracked(w)) /\ Cardinality(Tracked(w)) \in Nat
  BY <1>1, FS_Subset, FS_CardinalityType DEF Tracked
<1>3. /\ ranking \subseteq Tracked(w)
      /\ Cardinality(ranking) = Min({TopN, Cardinality(Tracked(w))})
      /\ \A u \in ranking : \A v \in Tracked(w) \ ranking : w.count[u] >= w.count[v]
  BY DEF Rankings
<1>4. \A u \in ranking : u \in Types /\ w.count[u] \in Nat /\ w.count[t] <= w.count[u]
  BY <1>1, <1>3 DEF Tracked
<1>5. ASSUME Cardinality(ranking) < TopN PROVE w.count[t] = 0
  <2>1. Cardinality(ranking) = Cardinality(Tracked(w))
    BY <1>1, <1>2, <1>3, <1>5, MinOfTwo
  <2>2. ranking = Tracked(w)
    BY <1>2, <1>3, <2>1, FS_Subset
  <2> QED
    BY <1>1, <2>2 DEF Tracked
<1> QED
  BY <1>1, <1>4, <1>5

\* A snapshot that has an objects section lists the real counts of its world.
LEMMA ObjectsOf ==
  ASSUME Taken, NEW i \in DOMAIN snapshots, snapshots[i].objects # Null
  PROVE  LET top == snapshots[i].objects.top
         IN  /\ worlds[i] \in Worlds
             /\ DOMAIN top \in Rankings(worlds[i]) /\ DOMAIN top \subseteq Types
             /\ \A t \in DOMAIN top : top[t] = worlds[i].count[t] /\ top[t] \in Nat \ {0}
<1>1. PICK ranking \in Rankings(worlds[i]) : snapshots[i] = Sections(worlds[i], ranking)
  BY DEF Taken
<1>2. worlds[i] \in Worlds
  BY DEF Taken
<1>3. snapshots[i].objects = Objects(worlds[i], ranking)
  BY <1>1 DEF Sections, Section
<1>4. snapshots[i].objects.top = [t \in ranking |-> worlds[i].count[t]]
  BY <1>3 DEF Objects
<1>5. ranking \subseteq Tracked(worlds[i])
  BY DEF Rankings
<1>6. \A t \in ranking : t \in Types /\ worlds[i].count[t] \in Nat \ {0}
  BY <1>2, <1>5, WorldAssumption DEF Tracked
<1> QED
  BY <1>2, <1>4, <1>6

\* What a snapshot's ranking may omit is what its world really has more.
LEMMA OmissionsAreAllowed ==
  ASSUME Taken, NEW i \in DOMAIN snapshots, snapshots[i].objects # Null,
         NEW t \in Types \ DOMAIN snapshots[i].objects.top
  PROVE  MayOmit(i, worlds[i].count[t])
  BY ObjectsOf, RankingOmits DEF MayOmit

-----------------------------------------------------------------------------
(* Sums: what SumFunction computes, whatever the order it takes the elements  *)
(* in. The induction looks for a smallest subset that fails.                  *)

\* A set of numbers has a least one: induction without an operator parameter.
LEMMA LeastNumber ==
  ASSUME NEW T \in SUBSET Nat, T # {}
  PROVE  \E n \in T : \A m \in T : n <= m
<1>1. IsWellFoundedOn(OpToRel(<, Nat), Nat)
  BY NatLessThanWellFounded
<1>2. PICK n \in T : \A m \in T : ~ (<<m, n>> \in OpToRel(<, Nat))
  BY <1>1, WFMin
<1>3. \A m \in T : ~ (m < n)
  BY <1>2 DEF OpToRel
<1> QED
  BY <1>3

\* Induction over the subsets of a finite set: what holds of a subset whenever
\* it holds of that subset without any one element holds of every subset.
LEMMA SubsetInduction ==
  ASSUME NEW S, IsFiniteSet(S), NEW Good,
         \A s \in SUBSET S : (\A x \in s : s \ {x} \in Good) => s \in Good
  PROVE  \A s \in SUBSET S : s \in Good
<1> DEFINE Sizes == {n \in Nat : \E s \in SUBSET S : Cardinality(s) = n /\ s \notin Good}
<1> SUFFICES ASSUME NEW bad \in SUBSET S, bad \notin Good PROVE FALSE
  OBVIOUS
<1>1. \A s \in SUBSET S : IsFiniteSet(s) /\ Cardinality(s) \in Nat
  BY FS_Subset, FS_CardinalityType
<1>2. Cardinality(bad) \in Sizes
  BY <1>1
<1>3. PICK n \in Sizes : \A m \in Sizes : n <= m
  BY <1>2, LeastNumber
<1>4. PICK s \in SUBSET S : Cardinality(s) = n /\ s \notin Good
  BY <1>3
<1>5. PICK x \in s : s \ {x} \notin Good
  BY <1>4
<1>6. Cardinality(s \ {x}) = n - 1
  BY <1>1, <1>4, FS_RemoveElement
<1>7. n - 1 \in Sizes
  BY <1>1, <1>5, <1>6
<1> QED
  BY <1>3, <1>7

\* The element a sum takes next.
AnyOf(s) == CHOOSE x \in s : TRUE

\* The sums of the values of fun over the subsets of its domain.
Sums(fun, sum) ==
  \A s \in SUBSET DOMAIN fun :
    sum[s] = IF s = {} THEN 0 ELSE fun[AnyOf(s)] + sum[s \ {AnyOf(s)}]

\* A finite function whose values are numbers, and sums in which any element
\* may be taken first.
Numbers(fun) == IsFiniteSet(DOMAIN fun) /\ \A x \in DOMAIN fun : fun[x] \in Int
InAnyOrder(fun, sum) ==
  \A s \in SUBSET DOMAIN fun : sum[s] \in Int /\ \A x \in s : sum[s] = fun[x] + sum[s \ {x}]

\* SumFunction is a sum over the whole domain.
LEMMA SumFunctionSums ==
  ASSUME NEW fun, IsFiniteSet(DOMAIN fun)
  PROVE  \E sum : Sums(fun, sum) /\ SumFunction(fun) = sum[DOMAIN fun]
<1> DEFINE D == DOMAIN fun
           UpTo(n) == {s \in SUBSET D : Cardinality(s) <= n}
           Step(g, s) == IF s = {} THEN 0 ELSE fun[AnyOf(s)] + g[s \ {AnyOf(s)}]
           IsSum(g, dom) == g = [s \in dom |-> Step(g, s)]
           Reached == {n \in Nat : \E g : IsSum(g, UpTo(n))}
<1>1. PICK sum : /\ sum = CHOOSE f : IsSum(f, SUBSET D)
                 /\ SumFunction(fun) = sum[D]
  BY DEF SumFunction, SumFunctionOnSet, FoldFunction, FoldFunctionOnSet, MapThenFoldSet, AnyOf
<1>2. \A s \in SUBSET D : IsFiniteSet(s) /\ Cardinality(s) \in Nat /\ Cardinality(s) <= Cardinality(D)
  BY FS_Subset, FS_CardinalityType
<1>3. \A s \in SUBSET D : s # {} =>
        AnyOf(s) \in s /\ s \ {AnyOf(s)} \in SUBSET D /\ Cardinality(s \ {AnyOf(s)}) = Cardinality(s) - 1
  BY <1>2, FS_RemoveElement DEF AnyOf
<1>4. 0 \in Reached
  <2>1. UpTo(0) = {{}}
    BY <1>2, FS_EmptySet
  <2>2. IsSum([s \in UpTo(0) |-> 0], UpTo(0))
    BY <2>1
  <2> HIDE DEF IsSum, UpTo
  <2> QED
    BY <2>2
<1>5. ASSUME NEW n \in Nat, n \in Reached PROVE n + 1 \in Reached
  <2>1. PICK g : IsSum(g, UpTo(n))
    BY <1>5
  <2> DEFINE h == [s \in UpTo(n + 1) |-> Step(g, s)]
  <2>2. \A s \in UpTo(n) : g[s] = Step(g, s)
    BY <2>1
  <2>3. \A s \in UpTo(n) : s \in UpTo(n + 1) /\ h[s] = g[s]
    <3>1. ASSUME NEW s \in UpTo(n) PROVE s \in UpTo(n + 1)
      BY <1>2
    <3>2. \A s \in UpTo(n + 1) : h[s] = Step(g, s)
      OBVIOUS
    <3> HIDE DEF UpTo, h, Step
    <3> QED
      BY <2>2, <3>1, <3>2
  <2>4. \A s \in UpTo(n + 1) : s # {} => s \ {AnyOf(s)} \in UpTo(n)
    BY <1>2, <1>3
  <2>5. \A s \in UpTo(n + 1) : Step(h, s) = Step(g, s)
    BY <2>3, <2>4
  <2>6. IsSum(h, UpTo(n + 1))
    BY <2>5
  <2> HIDE DEF IsSum, UpTo, h
  <2> QED
    BY <2>6
<1>6. Cardinality(D) \in Reached
  <2> SUFFICES ASSUME Cardinality(D) \notin Reached PROVE FALSE
    OBVIOUS
  <2> HIDE DEF Reached
  <2>1. Nat \ Reached # {}
    BY <1>2
  <2>2. PICK n \in Nat \ Reached : \A m \in Nat \ Reached : n <= m
    BY <2>1, LeastNumber
  <2>3. n # 0 /\ n - 1 \in Nat
    BY <1>4, <2>2
  <2>4. n - 1 \in Reached
    BY <2>2, <2>3
  <2> QED
    BY <1>5, <2>2, <2>3, <2>4
<1>7. UpTo(Cardinality(D)) = SUBSET D
  BY <1>2
<1>8. \E g : IsSum(g, SUBSET D)
  BY <1>6, <1>7
<1>9. IsSum(sum, SUBSET D)
  <2> HIDE DEF IsSum
  <2> QED
    BY <1>1, <1>8
<1>10. \A s \in SUBSET D : sum[s] = Step(sum, s)
  BY <1>9
<1>11. Sums(fun, sum)
  BY <1>10 DEF Sums
<1> QED
  BY <1>1, <1>11

\* A sum of numbers is a number.
LEMMA SumOfNumbers ==
  ASSUME NEW fun, Numbers(fun), NEW sum, Sums(fun, sum)
  PROVE  \A s \in SUBSET DOMAIN fun : sum[s] \in Int
<1> USE DEF Numbers
<1> DEFINE Good == {s \in SUBSET DOMAIN fun : sum[s] \in Int}
<1>1. ASSUME NEW s \in SUBSET DOMAIN fun, \A x \in s : s \ {x} \in Good PROVE s \in Good
  <2> SUFFICES sum[s] \in Int
    OBVIOUS
  <2>1. sum[s] = IF s = {} THEN 0 ELSE fun[AnyOf(s)] + sum[s \ {AnyOf(s)}]
    BY DEF Sums
  <2>2. CASE s # {}
    <3>1. AnyOf(s) \in s
      BY <2>2 DEF AnyOf
    <3>2. fun[AnyOf(s)] \in Int /\ sum[s \ {AnyOf(s)}] \in Int
      BY <1>1, <3>1
    <3> QED
      BY <2>1, <2>2, <3>2
  <2> QED
    BY <2>1, <2>2
<1> HIDE DEF Good
<1>2. \A s \in SUBSET DOMAIN fun : s \in Good
  BY <1>1, SubsetInduction
<1> QED
  BY <1>2 DEF Good

\* A sum is the same in whatever order the elements are taken.
LEMMA SumInAnyOrder ==
  ASSUME NEW fun, Numbers(fun), NEW sum, Sums(fun, sum)
  PROVE  InAnyOrder(fun, sum)
<1> DEFINE Good == {s \in SUBSET DOMAIN fun : \A x \in s : sum[s] = fun[x] + sum[s \ {x}]}
<1>1. ASSUME NEW s \in SUBSET DOMAIN fun, \A x \in s : s \ {x} \in Good PROVE s \in Good
  <2> SUFFICES ASSUME NEW x \in s PROVE sum[s] = fun[x] + sum[s \ {x}]
    OBVIOUS
  <2> DEFINE p == AnyOf(s)
             rest == (s \ {p}) \ {x}
  <2>1. p \in s /\ sum[s] = fun[p] + sum[s \ {p}]
    BY DEF Sums, AnyOf
  <2> HIDE DEF p
  <2>2. CASE x # p
    <3>1. x \in s \ {p} /\ p \in s \ {x} /\ rest = (s \ {x}) \ {p}
      BY <2>1, <2>2
    <3>2. sum[s \ {p}] = fun[x] + sum[rest] /\ sum[s \ {x}] = fun[p] + sum[rest]
      BY <1>1, <2>1, <3>1
    <3>3. sum[rest] \in Int /\ fun[x] \in Int /\ fun[p] \in Int
      BY <2>1, SumOfNumbers DEF Numbers
    <3> QED
      BY <2>1, <3>2, <3>3
  <2> QED
    BY <2>1, <2>2
<1> HIDE DEF Good
<1>2. \A s \in SUBSET DOMAIN fun : s \in Good
  BY <1>1, SubsetInduction DEF Numbers
<1> QED
  BY <1>2, SumOfNumbers DEF Good, InAnyOrder

\* The sum of what moved is the difference of the sums: elements at which two
\* functions agree add nothing to it.
LEMMA SumOfChanges ==
  ASSUME NEW S, IsFiniteSet(S), NEW was \in [S -> Int], NEW now \in [S -> Int], NEW change,
         DOMAIN change = {x \in S : was[x] # now[x]},
         \A x \in DOMAIN change : change[x] = now[x] - was[x]
  PROVE  /\ SumFunction(was) \in Int /\ SumFunction(now) \in Int
         /\ SumFunction(change) = SumFunction(now) - SumFunction(was)
<1> DEFINE M == DOMAIN change
<1>1. IsFiniteSet(M) /\ Numbers(was) /\ Numbers(now) /\ Numbers(change)
  BY FS_Subset DEF Numbers
<1>2. PICK a : Sums(was, a) /\ SumFunction(was) = a[S]
  BY SumFunctionSums
<1>3. PICK b : Sums(now, b) /\ SumFunction(now) = b[S]
  BY SumFunctionSums
<1>4. PICK c : Sums(change, c) /\ SumFunction(change) = c[M]
  BY <1>1, SumFunctionSums
<1>5. InAnyOrder(was, a) /\ InAnyOrder(now, b) /\ InAnyOrder(change, c)
  BY <1>1, <1>2, <1>3, <1>4, SumInAnyOrder
<1>6. \A s \in SUBSET S :
        /\ a[s] \in Int /\ \A x \in s : a[s] = was[x] + a[s \ {x}]
        /\ b[s] \in Int /\ \A x \in s : b[s] = now[x] + b[s \ {x}]
  BY <1>5 DEF InAnyOrder
<1>7. \A s \in SUBSET M : \A x \in s : c[s] = change[x] + c[s \ {x}]
  BY <1>5 DEF InAnyOrder
<1>8. a[{}] = 0 /\ b[{}] = 0 /\ c[{}] = 0
  BY <1>2, <1>3, <1>4 DEF Sums
<1> DEFINE Good == {s \in SUBSET S : c[s \cap M] = b[s] - a[s]}
<1>9. ASSUME NEW s \in SUBSET S, \A x \in s : s \ {x} \in Good PROVE s \in Good
  <2>1. CASE s = {}
    <3>1. s \cap M = {}
      BY <2>1
    <3> QED
      BY <1>8, <2>1, <3>1
  <2>2. ASSUME NEW x \in s PROVE s \in Good
    <3>1. c[(s \ {x}) \cap M] = b[s \ {x}] - a[s \ {x}]
      BY <1>9, <2>2
    <3>2. /\ a[s] = was[x] + a[s \ {x}] /\ b[s] = now[x] + b[s \ {x}]
          /\ a[s \ {x}] \in Int /\ b[s \ {x}] \in Int /\ was[x] \in Int /\ now[x] \in Int
      BY <1>6, <2>2
    <3>3. CASE x \in M
      <4>1. (s \ {x}) \cap M = (s \cap M) \ {x} /\ x \in s \cap M
        BY <2>2, <3>3
      <4>2. c[s \cap M] = change[x] + c[(s \ {x}) \cap M] /\ change[x] = now[x] - was[x]
        BY <1>7, <3>3, <4>1
      <4> QED
        BY <3>1, <3>2, <4>2
    <3>4. CASE x \notin M
      <4>1. (s \ {x}) \cap M = s \cap M /\ was[x] = now[x]
        BY <2>2, <3>4
      <4>2. c[s \cap M] = b[s \ {x}] - a[s \ {x}]
        BY <3>1, <4>1
      <4>3. b[s \ {x}] - a[s \ {x}] = b[s] - a[s]
        BY <3>2, <4>1
      <4> QED
        BY <4>2, <4>3
    <3> QED
      BY <3>3, <3>4
  <2> QED
    BY <2>1, <2>2
<1> HIDE DEF Good
<1>10. S \in Good
  BY <1>9, SubsetInduction
<1>11. c[M] = b[S] - a[S]
  <2>1. S \cap M = M
    OBVIOUS
  <2> QED
    BY <1>10, <2>1 DEF Good
<1> QED
  BY <1>2, <1>3, <1>4, <1>6, <1>11

-----------------------------------------------------------------------------
(* The deltas. *)

\* A delta of types exists only where both snapshots have the section.
LEMMA TypesNeedBoth ==
  ASSUME NEW i, NEW j
  PROVE  /\ TypesOf(i, j) # Null => snapshots[i].objects # Null /\ snapshots[j].objects # Null
         /\ snapshots[i].objects # Null /\ snapshots[j].objects # Null =>
              TypesOf(i, j).types = TypeDeltas(snapshots[i].objects.top, snapshots[j].objects.top)
  BY DEF TypesOf, ObjectsDelta

\* The row of a type is the difference of what the rankings list, and a type
\* without a row has none.
LEMMA RowOf ==
  ASSUME NEW was, NEW now, NEW t, \A u \in DOMAIN was : was[u] \in Nat \ {0},
         \A u \in DOMAIN now : now[u] \in Nat \ {0}
  PROVE  LET rows == TypeDeltas(was, now)
             m == IF t \in DOMAIN was THEN was[t] ELSE 0
             n == IF t \in DOMAIN now THEN now[t] ELSE 0
         IN  /\ t \in DOMAIN rows <=> m # n
             /\ t \in DOMAIN rows => /\ rows[t].delta = n - m
                                     /\ rows[t].before = Null <=> t \notin DOMAIN was
                                     /\ rows[t].after = Null <=> t \notin DOMAIN now
<1> DEFINE m == IF t \in DOMAIN was THEN was[t] ELSE 0
           n == IF t \in DOMAIN now THEN now[t] ELSE 0
           row(u) == [before |-> Get(was, u), after |-> Get(now, u),
                      delta  |-> OrZero(Get(now, u)) - OrZero(Get(was, u))]
           moved == {u \in DOMAIN was \cup DOMAIN now : row(u).delta # 0}
<1>1. OrZero(Get(was, t)) = m /\ OrZero(Get(now, t)) = n
  BY NullAssumption DEF OrZero, Get
<1>2. m \in Nat /\ n \in Nat
  OBVIOUS
<1>3. /\ Get(was, t) = Null <=> t \notin DOMAIN was
      /\ Get(now, t) = Null <=> t \notin DOMAIN now
  BY NullAssumption DEF Get
<1>4. row(t).delta = n - m /\ row(t).before = Get(was, t) /\ row(t).after = Get(now, t)
  BY <1>1
<1>5. TypeDeltas(was, now) = [u \in moved |-> row(u)]
  BY DEF TypeDeltas
<1>6. t \in moved <=> m # n
  BY <1>2, <1>4
<1> HIDE DEF m, n, row, moved
<1>7. t \in DOMAIN TypeDeltas(was, now) <=> m # n
  BY <1>5, <1>6
<1>8. t \in DOMAIN TypeDeltas(was, now) => TypeDeltas(was, now)[t] = row(t)
  BY <1>5
<1> QED
  BY <1>3, <1>4, <1>7, <1>8 DEF m, n

\* Each delta bounds the real change of its type, whatever the rankings omit.
LEMMA TakenBounds == Taken => DeltasBoundTheChange
<1> SUFFICES ASSUME Taken, NEW i \in DOMAIN snapshots, NEW j \in DOMAIN snapshots,
                    TypesOf(i, j) # Null, NEW t \in Types
             PROVE  LET real == worlds[j].count[t] - worlds[i].count[t]
                        rows == TypesOf(i, j).types
                    IN  IF t \in DOMAIN rows
                        THEN /\ rows[t].before # Null /\ rows[t].after # Null => rows[t].delta = real
                             /\ rows[t].before = Null => MayOmit(i, rows[t].delta - real)
                             /\ rows[t].after = Null  => MayOmit(j, real - rows[t].delta)
                        ELSE \/ real = 0
                             \/ t \notin DOMAIN snapshots[i].objects.top \cup DOMAIN snapshots[j].objects.top
  BY DEF DeltasBoundTheChange, Pairs
<1> DEFINE was == snapshots[i].objects.top
           now == snapshots[j].objects.top
           rows == TypesOf(i, j).types
           a == worlds[i].count[t]
           b == worlds[j].count[t]
<1>1. snapshots[i].objects # Null /\ snapshots[j].objects # Null /\ rows = TypeDeltas(was, now)
  BY TypesNeedBoth
<1>2. /\ worlds[i] \in Worlds /\ \A u \in DOMAIN was : was[u] = worlds[i].count[u] /\ was[u] \in Nat \ {0}
      /\ worlds[j] \in Worlds /\ \A u \in DOMAIN now : now[u] = worlds[j].count[u] /\ now[u] \in Nat \ {0}
  BY <1>1, ObjectsOf
<1>3. a \in Nat /\ b \in Nat
  BY <1>2, WorldAssumption
<1>4. /\ t \in DOMAIN was => was[t] = a /\ a # 0
      /\ t \in DOMAIN now => now[t] = b /\ b # 0
  BY <1>2
<1>5. /\ t \notin DOMAIN was => MayOmit(i, a)
      /\ t \notin DOMAIN now => MayOmit(j, b)
  BY <1>1, OmissionsAreAllowed
<1> DEFINE m == IF t \in DOMAIN was THEN was[t] ELSE 0
           n == IF t \in DOMAIN now THEN now[t] ELSE 0
<1>6. /\ t \in DOMAIN rows <=> m # n
      /\ t \in DOMAIN rows => /\ rows[t].delta = n - m
                              /\ rows[t].before = Null <=> t \notin DOMAIN was
                              /\ rows[t].after = Null <=> t \notin DOMAIN now
  BY <1>1, <1>2, RowOf
<1> HIDE DEF was, now, rows, a, b
<1>7. CASE t \in DOMAIN was /\ t \in DOMAIN now
  <2>1. m = a /\ n = b
    BY <1>4, <1>7
  <2> QED
    BY <1>3, <1>6, <1>7, <2>1 DEF rows, a, b
<1>8. CASE t \notin DOMAIN was /\ t \in DOMAIN now
  <2>1. m = 0 /\ n = b /\ n - m = b /\ b - (b - a) = a
    BY <1>3, <1>4, <1>8
  <2>2. t \in DOMAIN rows /\ rows[t].delta = b /\ rows[t].before = Null /\ rows[t].after # Null
    BY <1>4, <1>6, <1>8, <2>1
  <2> QED
    BY <1>5, <1>8, <2>1, <2>2 DEF rows, a, b
<1>9. CASE t \in DOMAIN was /\ t \notin DOMAIN now
  <2>1. m = a /\ n = 0 /\ n - m = -a /\ (b - a) - (-a) = b
    BY <1>3, <1>4, <1>9
  <2>2. t \in DOMAIN rows /\ rows[t].delta = -a /\ rows[t].before # Null /\ rows[t].after = Null
    BY <1>4, <1>6, <1>9, <2>1
  <2> QED
    BY <1>5, <1>9, <2>1, <2>2 DEF rows, a, b
<1>10. CASE t \notin DOMAIN was /\ t \notin DOMAIN now
  <2>1. t \notin DOMAIN rows
    BY <1>6, <1>10
  <2> QED
    BY <1>10, <2>1 DEF rows, was, now
<1> QED
  BY <1>7, <1>8, <1>9, <1>10

\* What a type contributes to a ranking, listed or not.
Listed(i, t) ==
  LET top == snapshots[i].objects.top IN IF t \in DOMAIN top THEN top[t] ELSE 0

\* The delta of a type is a difference of two numbers that belong to one
\* snapshot each: that is why deltas add up.
LEMMA DeltaIsDifference ==
  ASSUME Taken, NEW i \in DOMAIN snapshots, NEW j \in DOMAIN snapshots, NEW t \in Types,
         snapshots[i].objects # Null, snapshots[j].objects # Null
  PROVE  /\ Listed(i, t) \in Nat /\ Listed(j, t) \in Nat
         /\ DeltaOf(i, j, t) = Listed(j, t) - Listed(i, t)
<1> DEFINE was == snapshots[i].objects.top
           now == snapshots[j].objects.top
           rows == TypesOf(i, j).types
<1>1. rows = TypeDeltas(was, now)
  BY TypesNeedBoth
<1>2. /\ \A u \in DOMAIN was : was[u] \in Nat \ {0}
      /\ \A u \in DOMAIN now : now[u] \in Nat \ {0}
  BY ObjectsOf
<1>3. Listed(i, t) \in Nat /\ Listed(j, t) \in Nat
  BY <1>2 DEF Listed
<1>4. /\ t \in DOMAIN rows <=> Listed(i, t) # Listed(j, t)
      /\ t \in DOMAIN rows => rows[t].delta = Listed(j, t) - Listed(i, t)
  BY <1>1, <1>2, RowOf DEF Listed
<1>5. DeltaOf(i, j, t) = IF t \in DOMAIN rows THEN rows[t].delta ELSE 0
  BY DEF DeltaOf
<1> QED
  BY <1>3, <1>4, <1>5

\* The steps of a series sum to the change over the whole of it.
LEMMA TakenAddsUp == Taken => DeltasAddUp
<1> SUFFICES ASSUME Taken, NEW i \in DOMAIN snapshots, NEW j \in DOMAIN snapshots,
                    NEW k \in DOMAIN snapshots
             PROVE  /\ Null \notin {snapshots[n].objects : n \in {i, j, k}} =>
                         \A t \in Types : DeltaOf(i, j, t) + DeltaOf(j, k, t) = DeltaOf(i, k, t)
                    /\ Null \notin {snapshots[n].fds : n \in {i, j, k}} =>
                         FdsDelta(snapshots[i].fds, snapshots[j].fds).delta
                           + FdsDelta(snapshots[j].fds, snapshots[k].fds).delta
                           = FdsDelta(snapshots[i].fds, snapshots[k].fds).delta
  BY DEF DeltasAddUp
<1>1. ASSUME Null \notin {snapshots[n].objects : n \in {i, j, k}}, NEW t \in Types
      PROVE  DeltaOf(i, j, t) + DeltaOf(j, k, t) = DeltaOf(i, k, t)
  <2>1. snapshots[i].objects # Null /\ snapshots[j].objects # Null /\ snapshots[k].objects # Null
    BY <1>1
  <2>2. /\ Listed(i, t) \in Nat /\ Listed(j, t) \in Nat /\ Listed(k, t) \in Nat
        /\ DeltaOf(i, j, t) = Listed(j, t) - Listed(i, t)
        /\ DeltaOf(j, k, t) = Listed(k, t) - Listed(j, t)
        /\ DeltaOf(i, k, t) = Listed(k, t) - Listed(i, t)
    BY <2>1, DeltaIsDifference
  <2> QED
    BY <2>2
<1>2. ASSUME Null \notin {snapshots[n].fds : n \in {i, j, k}}
      PROVE  FdsDelta(snapshots[i].fds, snapshots[j].fds).delta
               + FdsDelta(snapshots[j].fds, snapshots[k].fds).delta
               = FdsDelta(snapshots[i].fds, snapshots[k].fds).delta
  <2>1. \A n \in DOMAIN snapshots : snapshots[n].fds # Null => snapshots[n].fds \in Nat
    BY WorldAssumption DEF Taken, Sections, Section
  <2>2. /\ snapshots[i].fds # Null /\ snapshots[j].fds # Null /\ snapshots[k].fds # Null
        /\ snapshots[i].fds \in Nat /\ snapshots[j].fds \in Nat /\ snapshots[k].fds \in Nat
    BY <1>2, <2>1
  <2> QED
    BY <2>2 DEF FdsDelta, Change
<1> QED
  BY <1>1, <1>2

\* A snapshot that has an objects section counts all the instances there are.
LEMMA TotalOf ==
  ASSUME Taken, NEW i \in DOMAIN snapshots, snapshots[i].objects # Null
  PROVE  snapshots[i].objects.total_tracked = SumFunction(worlds[i].count)
  BY DEF Taken, Sections, Section, Objects

\* A ranking that need not leave out any type is the whole count.
LEMMA WholeRanking ==
  ASSUME Taken, NEW i \in DOMAIN snapshots, snapshots[i].objects # Null,
         snapshots[i].objects.distinct_types <= TopN, NEW t \in Types
  PROVE  Listed(i, t) = worlds[i].count[t]
<1> DEFINE w == worlds[i]
           top == snapshots[i].objects.top
<1>1. PICK ranking \in Rankings(w) : snapshots[i] = Sections(w, ranking)
  BY DEF Taken
<1>2. snapshots[i].objects = Objects(w, ranking)
  BY <1>1 DEF Sections, Section
<1>3. top = [u \in ranking |-> w.count[u]] /\ Cardinality(Tracked(w)) <= TopN
  BY <1>2 DEF Objects
<1>4. w \in Worlds /\ w.count \in [Types -> Nat] /\ IsFiniteSet(Types) /\ TopN \in Nat
  BY WorldAssumption DEF Taken
<1>5. IsFiniteSet(Tracked(w)) /\ Cardinality(Tracked(w)) \in Nat
  BY <1>4, FS_Subset, FS_CardinalityType DEF Tracked
<1>6. ranking \subseteq Tracked(w) /\ Cardinality(ranking) = Min({TopN, Cardinality(Tracked(w))})
  BY DEF Rankings
<1>7. Cardinality(ranking) = Cardinality(Tracked(w))
  BY <1>3, <1>4, <1>5, <1>6, MinOfTwo
<1>8. ranking = Tracked(w)
  BY <1>5, <1>6, <1>7, FS_Subset
<1> QED
  BY <1>3, <1>4, <1>8 DEF Listed, Tracked

\* The rows of a delta are of the types that the rankings list differently.
LEMMA RowsAreTypes ==
  ASSUME Taken, NEW i \in DOMAIN snapshots, NEW j \in DOMAIN snapshots,
         snapshots[i].objects # Null, snapshots[j].objects # Null
  PROVE  \A t : t \in DOMAIN TypesOf(i, j).types <=> t \in Types /\ Listed(i, t) # Listed(j, t)
<1> DEFINE was == snapshots[i].objects.top
           now == snapshots[j].objects.top
<1>1. TypesOf(i, j).types = TypeDeltas(was, now)
  BY TypesNeedBoth
<1>2. /\ DOMAIN was \subseteq Types /\ \A u \in DOMAIN was : was[u] \in Nat \ {0}
      /\ DOMAIN now \subseteq Types /\ \A u \in DOMAIN now : now[u] \in Nat \ {0}
  BY ObjectsOf
<1>3. \A t : t \in DOMAIN TypeDeltas(was, now) <=> Listed(i, t) # Listed(j, t)
  BY <1>2, RowOf DEF Listed
<1>4. \A t : Listed(i, t) # Listed(j, t) => t \in Types
  BY <1>2 DEF Listed
<1> QED
  BY <1>1, <1>3, <1>4

\* Where TopN covers every type, the rankings are the whole counts, and the
\* changes of the types sum to the change of the total.
LEMMA TakenSums == Taken => TypesSumToTotal
<1> SUFFICES ASSUME Taken, NEW i \in DOMAIN snapshots, NEW j \in DOMAIN snapshots,
                    TypesOf(i, j) # Null,
                    snapshots[i].objects.distinct_types <= TopN,
                    snapshots[j].objects.distinct_types <= TopN
             PROVE  SumFunction([t \in DOMAIN TypesOf(i, j).types |-> TypesOf(i, j).types[t].delta])
                      = TypesOf(i, j).total_tracked.delta
  BY DEF TypesSumToTotal, Pairs
<1> DEFINE was == worlds[i].count
           now == worlds[j].count
           rows == TypesOf(i, j).types
           change == [t \in DOMAIN rows |-> rows[t].delta]
<1>1. snapshots[i].objects # Null /\ snapshots[j].objects # Null
  BY TypesNeedBoth
<1>2. was \in [Types -> Int] /\ now \in [Types -> Int] /\ IsFiniteSet(Types)
  BY <1>1, ObjectsOf, WorldAssumption
<1>3. ASSUME NEW t \in Types PROVE Listed(i, t) = was[t] /\ Listed(j, t) = now[t]
  BY <1>1, WholeRanking
<1>4. \A t \in Types : DeltaOf(i, j, t) = now[t] - was[t]
  BY <1>1, <1>3, DeltaIsDifference
<1>5. \A t : t \in DOMAIN rows <=> t \in Types /\ was[t] # now[t]
  BY <1>1, <1>3, RowsAreTypes
<1>6. \A t \in DOMAIN rows : rows[t].delta = now[t] - was[t]
  BY <1>4, <1>5 DEF DeltaOf
<1>7. TypesOf(i, j).total_tracked = Change(SumFunction(was), SumFunction(now))
  BY <1>1, TotalOf DEF TypesOf, ObjectsDelta
<1> HIDE DEF was, now, rows
<1>8. /\ DOMAIN change = {t \in Types : was[t] # now[t]}
      /\ \A t \in DOMAIN change : change[t] = now[t] - was[t]
  BY <1>5, <1>6
<1> HIDE DEF change
<1>9. /\ SumFunction(was) \in Int /\ SumFunction(now) \in Int
      /\ SumFunction(change) = SumFunction(now) - SumFunction(was)
  BY <1>2, <1>8, SumOfChanges
<1>10. Change(SumFunction(was), SumFunction(now)).delta = SumFunction(now) - SumFunction(was)
  BY <1>9, NullAssumption DEF Change
<1> QED
  BY <1>7, <1>9, <1>10 DEF change, rows

\* The gc section reports what both snapshots read, or nothing.
LEMMA TakenAbsence == Taken => AbsenceIsNotZero
<1> SUFFICES ASSUME Taken, NEW i \in DOMAIN snapshots, NEW j \in DOMAIN snapshots
             PROVE  ReportsWhatWasRead(worlds[i], worlds[j], GcDelta(snapshots[i].gc, snapshots[j].gc))
  BY DEF AbsenceIsNotZero, Pairs
<1> DEFINE v == worlds[i]
           w == worlds[j]
           was == snapshots[i].gc
           now == snapshots[j].gc
           delta == GcDelta(was, now)
<1>1. /\ v \in Worlds /\ w \in Worlds
      /\ was = Section(v, "gc", Gc(v)) /\ now = Section(w, "gc", Gc(w))
  BY DEF Taken, Sections
<1> HIDE DEF v, w, was, now
<1>2. CASE "gc" \in v.failed \cup w.failed
  BY <1>1, <1>2 DEF Section, GcDelta, ReportsWhatWasRead, v, w, was, now
<1>3. CASE "gc" \notin v.failed \cup w.failed
  <2>1. was = Gc(v) /\ now = Gc(w) /\ was # Null /\ now # Null
    BY <1>1, <1>3, NullAssumption DEF Section
  <2> SUFFICES ASSUME NEW g \in DOMAIN delta, NEW k \in DOMAIN delta[g]
               PROVE  /\ g \in DOMAIN Statistic(v, k) \cap DOMAIN Statistic(w, k)
                      /\ delta[g][k].delta = Statistic(w, k)[g] - Statistic(v, k)[g]
    BY <1>3 DEF ReportsWhatWasRead, v, w, was, now
  <2> DEFINE change(key) == Change(Get(was[g], key), now[g][key])
  <2>2. delta = [h \in DOMAIN was \cap DOMAIN now |->
                   [key \in {key \in DOMAIN now[h] : Change(Get(was[h], key), now[h][key]) # Null} |->
                      Change(Get(was[h], key), now[h][key])]]
    BY <2>1 DEF GcDelta
  <2>3. g \in DOMAIN was \cap DOMAIN now
    BY <2>2
  <2>4. delta[g] = [key \in {key \in DOMAIN now[g] : change(key) # Null} |-> change(key)]
    BY <2>2, <2>3
  <2> HIDE DEF delta
  <2>5. k \in DOMAIN now[g] /\ change(k) # Null /\ delta[g][k] = change(k)
    BY <2>4
  <2>6. k \in DOMAIN was[g] /\ delta[g][k].delta = now[g][k] - was[g][k]
    BY <2>5 DEF Change, Get
  <2>7. \A x \in Worlds : \A h \in DOMAIN Gc(x) : \A key \in DOMAIN Gc(x)[h] :
          h \in DOMAIN Statistic(x, key) /\ Gc(x)[h][key] = Statistic(x, key)[h]
    BY DEF Gc, Statistic
  <2> QED
    BY <1>1, <2>1, <2>3, <2>5, <2>6, <2>7
<1> QED
  BY <1>2, <1>3 DEF v, w, was, now

\* As many snapshots as the bound allows: with Taken, what TypeOK says.
Bounded == Len(snapshots) <= MaxSnapshots

\* A snapshot is taken only below the bound.
LEMMA BoundedHolds == Spec => []Bounded
<1>1. Init => Bounded
  BY WorldAssumption DEF Init, Bounded
<1>2. ASSUME Taken, Bounded, [TakeSnapshot]_vars PROVE Bounded'
  <2>1. CASE TakeSnapshot
    <3>1. PICK new : snapshots' = Append(snapshots, new) /\ Len(snapshots) < MaxSnapshots
      BY <2>1 DEF TakeSnapshot
    <3>2. Len(snapshots) \in Nat /\ Len(snapshots') = Len(snapshots) + 1
      BY <1>2, <3>1 DEF Taken
    <3> QED
      BY <3>1, <3>2, WorldAssumption DEF Bounded
  <2>2. CASE UNCHANGED vars
    BY <1>2, <2>2 DEF Bounded, vars
  <2> QED
    BY <1>2, <2>1, <2>2
<1> QED
  BY <1>1, <1>2, TakenHolds, PTL DEF Spec

\* Snapshots have the sections that their worlds have, and TopN types at most.
LEMMA TakenTypes == Taken /\ Bounded => TypeOK
<1> SUFFICES ASSUME Taken, Bounded, NEW i \in DOMAIN snapshots
             PROVE  /\ snapshots[i].fds \in Nat \cup {Null}
                    /\ snapshots[i].objects # Null =>
                         \E ranking \in SUBSET Types :
                           /\ Cardinality(ranking) <= TopN
                           /\ snapshots[i].objects = Objects(worlds[i], ranking)
  BY DEF Taken, Bounded, TypeOK
<1> DEFINE w == worlds[i]
<1>1. PICK ranking \in Rankings(w) : snapshots[i] = Sections(w, ranking)
  BY DEF Taken
<1>2. w \in Worlds /\ IsFiniteSet(Types) /\ TopN \in Nat /\ w.fds \in Nat
  BY WorldAssumption DEF Taken
<1>3. snapshots[i].fds \in Nat \cup {Null} /\ snapshots[i].objects \in {Null, Objects(w, ranking)}
  BY <1>1, <1>2 DEF Sections, Section
<1>4. Cardinality(Tracked(w)) \in Nat
  BY <1>2, FS_Subset, FS_CardinalityType DEF Tracked
<1>5. ranking \subseteq Types /\ Cardinality(ranking) = Min({TopN, Cardinality(Tracked(w))})
  BY DEF Rankings, Tracked
<1>6. Cardinality(ranking) <= TopN
  BY <1>2, <1>4, <1>5, MinOfTwo
<1> QED
  BY <1>3, <1>5, <1>6

-----------------------------------------------------------------------------
(* The theorems. *)

\* A delta bounds the real change of each type, for every TOP_N.
THEOREM DeltasBound == Spec => []DeltasBoundTheChange
  BY TakenHolds, TakenBounds, PTL

\* The deltas of a series add up, for every TOP_N.
THEOREM SeriesAddsUp == Spec => []DeltasAddUp
  BY TakenHolds, TakenAddsUp, PTL

\* What a snapshot lacks is never counted as zero in the gc section.
THEOREM AbsenceStaysAbsent == Spec => []AbsenceIsNotZero
  BY TakenHolds, TakenAbsence, PTL

\* When both rankings hold every type, nothing is counted twice or lost between
\* the types and the total, for every set of types.
THEOREM TotalsAgree == Spec => []TypesSumToTotal
  BY TakenHolds, TakenSums, PTL

\* Snapshots are typed, for every TOP_N.
THEOREM SnapshotsTyped == Spec => []TypeOK
  BY TakenHolds, BoundedHolds, TakenTypes, PTL
===========================================================================
