--------------------------- MODULE RegistryProofs ---------------------------
(***************************************************************************)
(* Proofs about the discovery of plugins in Snapshot, for every installation, *)
(* every list of built-in collectors and any number of threads.               *)
(***************************************************************************)
EXTENDS Snapshot, SequenceTheorems, WellFoundedInduction, TLAPS

Labels == {"capture", "load", "accept", "release", "compose", "drive", "failed", "document", "done"}
Results == {"none", "exit", "ok", "warn", "ValueError", "ProbeError", "TargetError", "document"}

\* The types that discovery rests on.
Shape ==
  /\ points \in Seq(EntryPoint)
  /\ pc \in [Threads -> Labels] /\ asked \in [Threads -> {"default", "unmasked", "given"}]
  /\ outcome \in [Threads -> Results]
  /\ todo \in [Threads -> SUBSET DOMAIN points]
  /\ loaded \in [Threads -> Seq(DOMAIN points)] /\ accepted \in [Threads -> Seq(DOMAIN points)]

\* What the code's own order makes of a discovery: an entry point is there when
\* it is a candidate, and every other sound claimant of its section comes later.
Winners ==
  {i \in DOMAIN points :
     /\ Sound(i) /\ points[i].section \notin BuiltinNames
     /\ \A j \in DOMAIN points \ {i} :
          Sound(j) /\ points[j].section = points[i].section => Before(i, j)}

Members(s) == {s[k] : k \in DOMAIN s}

Waiting(t) == Members(loaded[t])
Kept(t)    == Members(accepted[t])

\* The sound collectors that _accepted has decided about.
Settled(t) == {i \in DOMAIN points : Sound(i)} \ (todo[t] \cup Waiting(t))

Sorted(s) == \A k, m \in DOMAIN s : k < m => Before(s[k], s[m])

\* Discovery goes through the entry points in order. What it has decided about
\* comes before what waits, that before what is not loaded yet; the winners
\* among the decided are kept, and the section of each of them is taken.
RegistryInv(t) ==
  asked[t] # "given" /\ outcome[t] # "exit" =>
    /\ pc[t] \in {"capture", "load"} => accepted[t] = << >> /\ Settled(t) = {}
    /\ pc[t] \notin {"capture", "load"} => todo[t] = {}
    /\ pc[t] \notin {"capture", "load", "accept"} => loaded[t] = << >>
    /\ Sorted(loaded[t]) /\ Sorted(accepted[t])
    /\ \A i \in DOMAIN points \ todo[t] : \A j \in todo[t] : Before(i, j)
    /\ Waiting(t) \subseteq {i \in DOMAIN points : Sound(i)} \ todo[t]
    /\ \A i \in Settled(t) : \A j \in Waiting(t) : Before(i, j)
    /\ Kept(t) = Settled(t) \cap Winners
    /\ \A i \in Settled(t) : Taken(t, points[i].section)

\* A discovery that raised is over, and one that was not asked for never runs.
OrderInv(t) ==
  /\ outcome[t] = "exit" => pc[t] \in {"release", "done"}
  /\ outcome[t] = "exit" /\ t \in Snappers => pc[t] = "done"
  /\ asked[t] = "given" => pc[t] \notin {"capture", "load", "accept", "release"}
  /\ t \in Snappers => pc[t] # "release"

Inv == Shape /\ \A t \in Threads : RegistryInv(t) /\ OrderInv(t)

-----------------------------------------------------------------------------
(* The order of entry points. *)

\* It is a strict total order, whatever names repeat.
LEMMA BeforeIsOrder ==
  ASSUME points \in Seq(EntryPoint),
         NEW i \in DOMAIN points, NEW j \in DOMAIN points, NEW k \in DOMAIN points
  PROVE  /\ ~Before(i, i)
         /\ Before(i, j) => ~Before(j, i)
         /\ i # j => Before(i, j) \/ Before(j, i)
         /\ Before(i, j) /\ Before(j, k) => Before(i, k)
<1>1. points[i] \in EntryPoint /\ points[j] \in EntryPoint /\ points[k] \in EntryPoint
  OBVIOUS
<1>2. /\ points[i].entry \in Nat /\ points[j].entry \in Nat /\ points[k].entry \in Nat
      /\ i \in Nat /\ j \in Nat /\ k \in Nat
  BY <1>1 DEF EntryPoint
<1> QED
  BY <1>2 DEF Before

-----------------------------------------------------------------------------
(* Steps that leave a discovery alone. *)

LEMMA RegistryFrame ==
  ASSUME NEW u, RegistryInv(u),
         UNCHANGED <<points, asked[u], pc[u], outcome[u], todo[u], loaded[u], accepted[u]>>
  PROVE  RegistryInv(u)'
<1>1. /\ Waiting(u)' = Waiting(u) /\ Kept(u)' = Kept(u) /\ Winners' = Winners
      /\ Sections(u)' = Sections(u) /\ Settled(u)' = Settled(u)
  BY DEF Waiting, Kept, Winners, Before, Sections, Settled, Sound
<1>2. /\ Sorted(loaded[u])' <=> Sorted(loaded[u])
      /\ Sorted(accepted[u])' <=> Sorted(accepted[u])
  BY DEF Sorted, Before
<1>3. \A i : Sound(i)' <=> Sound(i)
  BY DEF Sound
<1>4. \A i, j : Before(i, j)' <=> Before(i, j)
  BY DEF Before
<1>5. \A name : Taken(u, name)' <=> Taken(u, name)
  BY <1>1 DEF Taken
<1> QED
  BY <1>1, <1>2, <1>3, <1>4, <1>5 DEF RegistryInv

\* A discovery that is over stays as it was, whatever its thread does next.
LEMMA RegistryIsOver ==
  ASSUME NEW u, RegistryInv(u), UNCHANGED <<points, asked[u], todo[u], loaded[u], accepted[u]>>,
         pc[u] \notin {"capture", "load", "accept"}, pc'[u] \notin {"capture", "load", "accept"},
         outcome[u] = "exit" => outcome'[u] = "exit"
  PROVE  RegistryInv(u)'
<1>1. /\ Waiting(u)' = Waiting(u) /\ Kept(u)' = Kept(u) /\ Winners' = Winners
      /\ Sections(u)' = Sections(u) /\ Settled(u)' = Settled(u)
  BY DEF Waiting, Kept, Winners, Before, Sections, Settled, Sound
<1>2. /\ Sorted(loaded[u])' <=> Sorted(loaded[u])
      /\ Sorted(accepted[u])' <=> Sorted(accepted[u])
  BY DEF Sorted, Before
<1>3. \A i : Sound(i)' <=> Sound(i)
  BY DEF Sound
<1>4. \A i, j : Before(i, j)' <=> Before(i, j)
  BY DEF Before
<1>5. \A name : Taken(u, name)' <=> Taken(u, name)
  BY <1>1 DEF Taken
<1> QED
  BY <1>1, <1>2, <1>3, <1>4, <1>5 DEF RegistryInv

-----------------------------------------------------------------------------
(* The steps of a discovery. *)

\* Appending a later element, or dropping the first, keeps a list in order.
LEMMA SortedAppend ==
  ASSUME NEW D, NEW s \in Seq(D), NEW i \in D, Sorted(s), \A k \in DOMAIN s : Before(s[k], i)
  PROVE  /\ Append(s, i) \in Seq(D) /\ Sorted(Append(s, i))
         /\ Members(Append(s, i)) = Members(s) \cup {i}
<1> DEFINE a == Append(s, i)
<1>1. /\ a \in Seq(D) /\ Len(s) \in Nat /\ DOMAIN s = 1..Len(s) /\ DOMAIN a = 1..(Len(s) + 1)
      /\ \A k \in 1..Len(s) : a[k] = s[k]
      /\ a[Len(s) + 1] = i
  OBVIOUS
<1> HIDE DEF a
<1>2. Sorted(a)
  <2> SUFFICES ASSUME NEW k \in 1..(Len(s) + 1), NEW m \in 1..(Len(s) + 1), k < m
               PROVE  Before(a[k], a[m])
    BY <1>1 DEF Sorted
  <2>1. k \in 1..Len(s) /\ a[k] = s[k]
    BY <1>1
  <2>2. CASE m \in 1..Len(s)
    BY <1>1, <2>1, <2>2 DEF Sorted
  <2>3. CASE m = Len(s) + 1
    BY <1>1, <2>1, <2>3
  <2> QED
    BY <1>1, <2>2, <2>3
<1>3. Members(a) = Members(s) \cup {i}
  <2>1. ASSUME NEW x \in {a[k] : k \in DOMAIN a} PROVE x \in {s[k] : k \in DOMAIN s} \cup {i}
    BY <1>1
  <2>2. ASSUME NEW x \in {s[k] : k \in DOMAIN s} PROVE x \in {a[k] : k \in DOMAIN a}
    BY <1>1
  <2>3. i \in {a[k] : k \in DOMAIN a}
    BY <1>1
  <2> QED
    BY <2>1, <2>2, <2>3 DEF Members
<1> QED
  BY <1>1, <1>2, <1>3 DEF a

\* What remains of a list in order comes after its first element.
LEMMA SortedTail ==
  ASSUME NEW D, NEW s \in Seq(D), s # << >>, Sorted(s), \A i \in D : ~Before(i, i)
  PROVE  /\ Head(s) \in D /\ Tail(s) \in Seq(D) /\ Sorted(Tail(s))
         /\ \A k \in DOMAIN Tail(s) : Before(Head(s), Tail(s)[k])
         /\ Members(Tail(s)) = Members(s) \ {Head(s)}
<1> DEFINE b == Tail(s)
<1>1. /\ b \in Seq(D) /\ Len(s) \in Nat \ {0} /\ DOMAIN s = 1..Len(s) /\ DOMAIN b = 1..(Len(s) - 1)
      /\ \A k \in 1..(Len(s) - 1) : b[k] = s[k + 1]
      /\ Head(s) = s[1] /\ Head(s) \in D
  OBVIOUS
<1> HIDE DEF b
<1>2. \A k \in 1..(Len(s) - 1) : k + 1 \in 1..Len(s) /\ 1 \in 1..Len(s) /\ 1 < k + 1
  BY <1>1
<1>3. \A k \in DOMAIN b : Before(Head(s), b[k])
  BY <1>1, <1>2 DEF Sorted
<1>4. Sorted(b)
  <2> SUFFICES ASSUME NEW k \in 1..(Len(s) - 1), NEW m \in 1..(Len(s) - 1), k < m
               PROVE  Before(b[k], b[m])
    BY <1>1 DEF Sorted
  <2>1. k + 1 \in DOMAIN s /\ m + 1 \in DOMAIN s /\ k + 1 < m + 1
    BY <1>1
  <2>2. Before(s[k + 1], s[m + 1])
    BY <2>1 DEF Sorted
  <2> QED
    BY <1>1, <2>2
<1>5. Members(b) = Members(s) \ {Head(s)}
  <2>1. ASSUME NEW k \in DOMAIN b PROVE b[k] \in {s[m] : m \in DOMAIN s} \ {Head(s)}
    <3>1. b[k] = s[k + 1] /\ k + 1 \in DOMAIN s
      BY <1>1, <1>2, <2>1
    <3>2. b[k] # Head(s)
      BY <1>1, <1>3, <2>1
    <3> QED
      BY <3>1, <3>2
  <2>2. ASSUME NEW m \in DOMAIN s, s[m] # Head(s) PROVE s[m] \in {b[k] : k \in DOMAIN b}
    <3>1. m - 1 \in 1..(Len(s) - 1) /\ (m - 1) + 1 = m
      BY <1>1, <2>2
    <3> QED
      BY <1>1, <3>1
  <2> QED
    BY <2>1, <2>2 DEF Members
<1> QED
  BY <1>1, <1>3, <1>4, <1>5 DEF b

\* Loading the next entry point: it comes after all that are loaded, and before
\* all that are not.
LEMMA LoadRegistry ==
  ASSUME Shape, NEW t \in Threads, RegistryInv(t), Load(t)
  PROVE  RegistryInv(t)'
<1> SUFFICES ASSUME asked[t] # "given", outcome[t] # "exit" PROVE RegistryInv(t)'
  BY DEF Load, RegistryInv
<1>1. PICK i \in todo[t] :
        /\ IsNext(t, i) /\ todo' = [todo EXCEPT ![t] = @ \ {i}]
        /\ IF Loads(i) THEN loaded' = [loaded EXCEPT ![t] = Append(@, i)] ELSE UNCHANGED loaded
  BY DEF Load
<1>2. /\ pc[t] = "load" /\ UNCHANGED <<points, asked, pc, outcome, accepted>>
      /\ points \in Seq(EntryPoint) /\ loaded[t] \in Seq(DOMAIN points)
      /\ todo[t] \subseteq DOMAIN points /\ i \in DOMAIN points
      /\ \A j \in todo[t] \ {i} : Before(i, j)
      /\ todo'[t] = todo[t] \ {i} /\ (Loads(i) <=> Sound(i))
  BY <1>1 DEF Load, Shape, IsNext, Loads, Sound
<1>3. /\ accepted[t] = << >> /\ Settled(t) = {} /\ Sorted(loaded[t])
      /\ \A k \in DOMAIN points \ todo[t] : \A j \in todo[t] : Before(k, j)
      /\ Waiting(t) \subseteq {k \in DOMAIN points : Sound(k)} \ todo[t]
      /\ Kept(t) = Settled(t) \cap Winners
  BY <1>2 DEF RegistryInv
<1>4. /\ Kept(t)' = Kept(t) /\ Winners' = Winners /\ accepted'[t] = << >>
      /\ \A k : Sound(k)' <=> Sound(k)
      /\ \A k, j : Before(k, j)' <=> Before(k, j)
  BY <1>2, <1>3 DEF Kept, Winners, Sound, Before
<1>5. \A k \in DOMAIN points' \ todo'[t] : \A j \in todo'[t] : Before(k, j)'
  BY <1>2, <1>3, <1>4
<1>6. \A k \in DOMAIN loaded[t] : Before(loaded[t][k], i)
  <2>1. \A k \in DOMAIN loaded[t] : loaded[t][k] \in DOMAIN points \ todo[t]
    BY <1>3 DEF Waiting, Members
  <2> QED
    BY <1>1, <1>3, <2>1
<1>7. CASE Sound(i)
  <2>1. loaded'[t] = Append(loaded[t], i)
    BY <1>1, <1>2, <1>7 DEF Shape
  <2>2. Sorted(Append(loaded[t], i)) /\ Members(Append(loaded[t], i)) = Members(loaded[t]) \cup {i}
    BY <1>2, <1>3, <1>6, SortedAppend
  <2>3. Waiting(t)' = Waiting(t) \cup {i} /\ Sorted(loaded[t])'
    BY <1>4, <2>1, <2>2 DEF Waiting, Sorted
  <2>4. Settled(t)' = {}
    BY <1>2, <1>3, <1>4, <2>3 DEF Settled
  <2>5. Waiting(t)' \subseteq ({k \in DOMAIN points : Sound(k)} \ todo[t])'
    BY <1>2, <1>3, <1>4, <1>7, <2>3
  <2>6. Sorted(accepted[t])'
    BY <1>4 DEF Sorted
  <2> QED
    BY <1>2, <1>3, <1>4, <1>5, <2>3, <2>4, <2>5, <2>6 DEF RegistryInv
<1>8. CASE ~Sound(i)
  <2>1. loaded' = loaded
    BY <1>1, <1>2, <1>8
  <2>2. Waiting(t)' = Waiting(t) /\ Sorted(loaded[t])'
    BY <1>3, <1>4, <2>1 DEF Waiting, Sorted
  <2>3. Settled(t)' = {}
    BY <1>2, <1>3, <1>4, <1>8, <2>2 DEF Settled
  <2>4. Waiting(t)' \subseteq ({k \in DOMAIN points : Sound(k)} \ todo[t])'
    BY <1>2, <1>3, <1>4, <2>2
  <2>5. Sorted(accepted[t])'
    BY <1>4 DEF Sorted
  <2> QED
    BY <1>2, <1>3, <1>4, <1>5, <2>2, <2>3, <2>4, <2>5 DEF RegistryInv
<1> QED
  BY <1>7, <1>8

\* Everything is loaded.
LEMMA LoadedAllRegistry ==
  ASSUME Shape, NEW t \in Threads, RegistryInv(t), LoadedAll(t)
  PROVE  RegistryInv(t)'
<1>1. /\ pc[t] = "load" /\ pc'[t] = "accept" /\ todo[t] = {}
      /\ UNCHANGED <<points, asked, outcome, todo, loaded, accepted>>
  BY DEF LoadedAll, Goto, registryVars, Shape
<1>2. /\ Waiting(t)' = Waiting(t) /\ Kept(t)' = Kept(t) /\ Winners' = Winners
      /\ Sections(t)' = Sections(t) /\ Settled(t)' = Settled(t)
  BY <1>1 DEF Waiting, Kept, Winners, Before, Sections, Settled, Sound
<1>3. /\ Sorted(loaded[t])' <=> Sorted(loaded[t])
      /\ Sorted(accepted[t])' <=> Sorted(accepted[t])
  BY <1>1 DEF Sorted, Before
<1>4. /\ \A i : Sound(i)' <=> Sound(i)
      /\ \A i, j : Before(i, j)' <=> Before(i, j)
  BY <1>1 DEF Sound, Before
<1>5. \A name : Taken(t, name)' <=> Taken(t, name)
  BY <1>1, <1>2 DEF Taken
<1> QED
  BY <1>1, <1>2, <1>3, <1>4, <1>5 DEF RegistryInv

\* Deciding about the first that waits: it wins unless its section is taken,
\* and either way its section is taken from then on.
LEMMA AcceptRegistry ==
  ASSUME Shape, NEW t \in Threads, RegistryInv(t), Accept(t)
  PROVE  RegistryInv(t)'
<1> SUFFICES ASSUME asked[t] # "given", outcome[t] # "exit" PROVE RegistryInv(t)'
  BY DEF Accept, RegistryInv
<1> DEFINE i == Head(loaded[t])
           D == DOMAIN points
<1>1. /\ pc[t] = "accept" /\ loaded[t] # << >>
      /\ UNCHANGED <<points, asked, pc, outcome, todo>> /\ loaded'[t] = Tail(loaded[t])
      /\ points \in Seq(EntryPoint) /\ loaded[t] \in Seq(D) /\ accepted[t] \in Seq(D)
      /\ IF Taken(t, points[i].section) THEN accepted' = accepted
         ELSE accepted'[t] = Append(accepted[t], i)
  BY DEF Accept, Shape
<1>2. /\ todo[t] = {} /\ Sorted(loaded[t]) /\ Sorted(accepted[t])
      /\ Waiting(t) \subseteq {k \in D : Sound(k)}
      /\ \A k \in Settled(t) : \A j \in Waiting(t) : Before(k, j)
      /\ Kept(t) = Settled(t) \cap Winners
      /\ \A k \in Settled(t) : Taken(t, points[k].section)
  BY <1>1 DEF RegistryInv
<1>3. /\ Winners' = Winners /\ \A k : Sound(k)' <=> Sound(k)
      /\ \A k, j : Before(k, j)' <=> Before(k, j)
  BY <1>1 DEF Winners, Sound, Before
<1>4. \A k \in D : ~Before(k, k)
  BY <1>1, BeforeIsOrder
<1>5. /\ i \in D /\ Sorted(Tail(loaded[t])) /\ \A k \in DOMAIN Tail(loaded[t]) : Before(i, Tail(loaded[t])[k])
      /\ Members(Tail(loaded[t])) = Waiting(t) \ {i}
  <2> HIDE DEF D
  <2> QED
    BY <1>1, <1>2, <1>4, SortedTail DEF Waiting
<1>6. Waiting(t)' = Waiting(t) \ {i} /\ Sorted(loaded[t])' /\ \A j \in Waiting(t)' : Before(i, j)
  BY <1>1, <1>3, <1>5 DEF Waiting, Sorted, Members
<1>7. i \in Waiting(t) /\ Sound(i)
  <2>1. 1 \in DOMAIN loaded[t] /\ i = loaded[t][1]
    BY <1>1
  <2> QED
    BY <1>2, <2>1 DEF Waiting, Members
<1> HIDE DEF i
<1>8. Settled(t)' = Settled(t) \cup {i}
  BY <1>1, <1>2, <1>3, <1>5, <1>6, <1>7 DEF Settled
<1>9. \A k \in Settled(t)' : \A j \in Waiting(t)' : Before(k, j)'
  BY <1>2, <1>3, <1>6, <1>8
<1>10. Waiting(t)' \subseteq ({k \in DOMAIN points : Sound(k)} \ todo[t])'
  BY <1>1, <1>2, <1>3, <1>6
<1>11. \A j \in D : Sound(j) /\ j # i => j \in Settled(t) \/ j \in Waiting(t)'
  BY <1>2, <1>6 DEF Settled
<1>12. CASE Taken(t, points[i].section)
  <2>1. /\ accepted' = accepted /\ Kept(t)' = Kept(t) /\ Sections(t)' = Sections(t) /\ Sorted(accepted[t])'
        /\ \A name : Taken(t, name)' <=> Taken(t, name)
    BY <1>1, <1>2, <1>3, <1>12 DEF Kept, Sections, Sorted, Taken
  <2>2. i \notin Winners
    <3>1. CASE points[i].section \in BuiltinNames
      BY <3>1 DEF Winners
    <3>2. CASE points[i].section \in Sections(t)
      <4>1. PICK k \in DOMAIN accepted[t] : points[i].section = points[accepted[t][k]].section
        BY <3>2 DEF Sections
      <4> DEFINE j == accepted[t][k]
      <4>2. j \in Settled(t) /\ j \in D /\ Sound(j)
        BY <1>1, <1>2 DEF Kept, Settled, Members
      <4>3. Before(j, i)
        BY <1>2, <1>7, <4>2
      <4>4. j # i /\ ~Before(i, j)
        BY <1>1, <1>4, <1>5, <4>2, <4>3, BeforeIsOrder
      <4> QED
        BY <4>1, <4>2, <4>4 DEF Winners
    <3> QED
      BY <1>12, <3>1, <3>2 DEF Taken
  <2>3. Kept(t)' = Settled(t)' \cap Winners'
    BY <1>2, <1>3, <1>8, <2>1, <2>2
  <2>4. (\A k \in Settled(t) : Taken(t, points[k].section))'
    BY <1>1, <1>2, <1>8, <1>12, <2>1
  <2> QED
    BY <1>1, <1>2, <1>6, <1>9, <1>10, <2>1, <2>3, <2>4 DEF RegistryInv
<1>13. CASE ~Taken(t, points[i].section)
  <2>1. accepted'[t] = Append(accepted[t], i)
    BY <1>1, <1>13
  <2>2. \A k \in DOMAIN accepted[t] : accepted[t][k] \in Settled(t)
    BY <1>2 DEF Kept, Members
  <2>3. \A k \in DOMAIN accepted[t] : Before(accepted[t][k], i)
    BY <1>2, <1>7, <2>2
  <2>4. Sorted(Append(accepted[t], i)) /\ Members(Append(accepted[t], i)) = Kept(t) \cup {i}
    BY <1>1, <1>2, <1>5, <2>3, SortedAppend DEF Kept
  <2>5. Kept(t)' = Kept(t) \cup {i} /\ Sorted(accepted[t])'
    BY <1>3, <2>1, <2>4 DEF Kept, Sorted
  <2>6. /\ \A k \in Kept(t)' : points[k].section \in Sections(t)'
        /\ Sections(t) \subseteq Sections(t)'
    <3>1. Sections(t)' = {points[k].section : k \in Kept(t)'}
      BY <1>1 DEF Sections, Kept, Members
    <3>2. Sections(t) = {points[k].section : k \in Kept(t)}
      BY DEF Sections, Kept, Members
    <3> QED
      BY <2>5, <3>1, <3>2
  <2>7. i \in Winners
    <3>1. ASSUME NEW j \in D \ {i}, Sound(j), points[j].section = points[i].section
          PROVE  Before(i, j)
      <4>1. j \notin Settled(t)
        BY <1>2, <1>13, <3>1
      <4> QED
        BY <1>6, <1>11, <3>1, <4>1
    <3> QED
      BY <1>5, <1>7, <1>13, <3>1 DEF Winners, Taken
  <2>8. Kept(t)' = Settled(t)' \cap Winners'
    BY <1>2, <1>3, <1>8, <2>5, <2>7
  <2>9. (\A k \in Settled(t) : Taken(t, points[k].section))'
    BY <1>1, <1>2, <1>8, <2>5, <2>6 DEF Taken
  <2> QED
    BY <1>1, <1>2, <1>6, <1>9, <1>10, <2>5, <2>8, <2>9 DEF RegistryInv
<1> QED
  BY <1>12, <1>13

-----------------------------------------------------------------------------
(* All threads together. *)

\* A step of t moves no other thread.
Alone(t) ==
  /\ UNCHANGED <<points, asked>>
  /\ \A u \in Threads \ {t} : UNCHANGED <<pc[u], outcome[u], todo[u], loaded[u], accepted[u]>>

\* So what it does to t decides.
LEMMA ThreadStep ==
  ASSUME Inv, NEW t \in Threads, Alone(t), Shape', RegistryInv(t)', OrderInv(t)'
  PROVE  Inv'
<1>1. ASSUME NEW u \in Threads, u # t PROVE RegistryInv(u)' /\ OrderInv(u)'
  <2>1. UNCHANGED <<points, asked[u], pc[u], outcome[u], todo[u], loaded[u], accepted[u]>>
    BY <1>1 DEF Alone
  <2>2. RegistryInv(u)'
    BY <2>1, RegistryFrame DEF Inv
  <2>3. OrderInv(u)'
    BY <2>1 DEF Inv, OrderInv
  <2> QED
    BY <2>2, <2>3
<1> QED
  BY <1>1 DEF Inv

\* The step of a thread that is not discovering.
LEMMA LaterStep ==
  ASSUME Inv, NEW t \in Threads, NEW label \in Labels, NEW result \in Results,
         UNCHANGED <<points, asked, registryVars>>,
         pc' = [pc EXCEPT ![t] = label], outcome' = [outcome EXCEPT ![t] = result],
         pc[t] \notin {"capture", "load", "accept"}, label \in {"drive", "failed", "document", "done"},
         result = "exit" <=> outcome[t] = "exit", outcome[t] = "exit" => label = "done"
  PROVE  Inv'
<1>1. Shape' /\ Alone(t) /\ pc'[t] = label /\ outcome'[t] = result
  BY DEF Inv, Shape, Alone, registryVars
<1>2. RegistryInv(t)'
  BY <1>1, RegistryIsOver DEF Inv, Alone, registryVars
<1>3. OrderInv(t)'
  BY <1>1 DEF Inv, OrderInv, Alone
<1> QED
  BY <1>1, <1>2, <1>3, ThreadStep

\* The steps of discovery.
LEMMA DiscoverInv == ASSUME Inv, NEW t \in Threads, Discover(t) PROVE Inv'
<1>1. CASE Load(t)
  <2>1. RegistryInv(t)'
    BY <1>1, LoadRegistry DEF Inv
  <2>2. /\ UNCHANGED <<points, pc, asked, outcome, accepted>>
        /\ \E i \in todo[t] :
             /\ todo' = [todo EXCEPT ![t] = @ \ {i}]
             /\ loaded' = [loaded EXCEPT ![t] = Append(@, i)] \/ loaded' = loaded
    BY <1>1 DEF Load
  <2>3. todo' \in [Threads -> SUBSET DOMAIN points] /\ loaded' \in [Threads -> Seq(DOMAIN points)]
    <3> DEFINE D == DOMAIN points
    <3>1. loaded \in [Threads -> Seq(D)] /\ todo \in [Threads -> SUBSET D]
      BY DEF Inv, Shape
    <3> HIDE DEF D
    <3>2. PICK i \in todo[t] :
            /\ todo' = [todo EXCEPT ![t] = todo[t] \ {i}]
            /\ loaded' = [loaded EXCEPT ![t] = Append(loaded[t], i)] \/ loaded' = loaded
      BY <2>2
    <3>3. todo[t] \ {i} \in SUBSET D /\ Append(loaded[t], i) \in Seq(D)
      BY <3>1
    <3>4. todo' \in [Threads -> SUBSET D] /\ loaded' \in [Threads -> Seq(D)]
      BY <3>1, <3>2, <3>3
    <3> QED
      BY <3>4 DEF D
  <2>4. Shape' /\ OrderInv(t)'
    BY <2>2, <2>3 DEF Inv, Shape, OrderInv
  <2>5. Alone(t)
    BY <2>2 DEF Inv, Shape, Alone
  <2> QED
    BY <2>1, <2>4, <2>5, ThreadStep
<1>2. CASE LoadExits(t)
  <2>1. /\ pc[t] = "load" /\ outcome' = [outcome EXCEPT ![t] = "exit"]
        /\ pc' = [pc EXCEPT ![t] = IF t \in Doctors THEN "release" ELSE "done"]
        /\ UNCHANGED <<points, asked, todo, loaded, accepted>>
    BY <1>2 DEF LoadExits, Goto, registryVars
  <2>2. Shape' /\ Alone(t) /\ outcome'[t] = "exit" /\ pc'[t] = IF t \in Doctors THEN "release" ELSE "done"
    BY <2>1 DEF Inv, Shape, Alone, Labels, Results
  <2>3. RegistryInv(t)' /\ OrderInv(t)'
    BY <2>1, <2>2, ThreadAssumption DEF Inv, RegistryInv, OrderInv
  <2> QED
    BY <2>2, <2>3, ThreadStep
<1>3. CASE LoadedAll(t)
  <2>1. RegistryInv(t)'
    BY <1>3, LoadedAllRegistry DEF Inv
  <2>2. /\ pc[t] = "load" /\ pc' = [pc EXCEPT ![t] = "accept"]
        /\ UNCHANGED <<points, asked, outcome, todo, loaded, accepted>>
    BY <1>3 DEF LoadedAll, Goto, registryVars
  <2>3. Shape' /\ Alone(t) /\ OrderInv(t)'
    BY <2>2 DEF Inv, Shape, Alone, OrderInv, Labels
  <2> QED
    BY <2>1, <2>3, ThreadStep
<1>4. CASE Accept(t)
  <2>1. RegistryInv(t)'
    BY <1>4, AcceptRegistry DEF Inv
  <2>2. /\ UNCHANGED <<points, pc, asked, outcome, todo>> /\ loaded[t] # << >>
        /\ loaded' = [loaded EXCEPT ![t] = Tail(@)]
        /\ accepted' = accepted \/ accepted' = [accepted EXCEPT ![t] = Append(@, Head(loaded[t]))]
    BY <1>4 DEF Accept
  <2>3. Head(loaded[t]) \in DOMAIN points /\ Tail(loaded[t]) \in Seq(DOMAIN points)
    BY <2>2 DEF Inv, Shape
  <2>4. accepted' \in [Threads -> Seq(DOMAIN points)] /\ loaded' \in [Threads -> Seq(DOMAIN points)]
    <3> DEFINE D == DOMAIN points
               h == Head(loaded[t])
               rest == Tail(loaded[t])
    <3>1. /\ loaded \in [Threads -> Seq(D)] /\ accepted \in [Threads -> Seq(D)] /\ h \in D /\ rest \in Seq(D)
          /\ loaded' = [loaded EXCEPT ![t] = rest]
          /\ accepted' = accepted \/ accepted' = [accepted EXCEPT ![t] = Append(accepted[t], h)]
      BY <2>2, <2>3 DEF Inv, Shape
    <3> HIDE DEF D, h, rest
    <3>2. Append(accepted[t], h) \in Seq(D)
      BY <3>1
    <3>3. loaded' \in [Threads -> Seq(D)] /\ accepted' \in [Threads -> Seq(D)]
      BY <3>1, <3>2
    <3> QED
      BY <3>3 DEF D
  <2>5. Shape' /\ OrderInv(t)'
    BY <2>2, <2>4 DEF Inv, Shape, OrderInv
  <2>6. Alone(t)
    BY <2>2 DEF Inv, Shape, Alone
  <2> QED
    BY <2>1, <2>5, <2>6, ThreadStep
<1>5. CASE Choose(t)
  <2>1. /\ pc[t] = "accept" /\ loaded[t] = << >>
        /\ pc' = [pc EXCEPT ![t] = IF t \in Doctors THEN "release" ELSE "compose"]
        /\ UNCHANGED <<points, asked, outcome, todo, loaded, accepted>>
    BY <1>5 DEF Choose, Goto, registryVars
  <2>2. Shape' /\ Alone(t) /\ pc'[t] = IF t \in Doctors THEN "release" ELSE "compose"
    BY <2>1 DEF Inv, Shape, Alone, Labels
  <2>3. /\ Waiting(t)' = Waiting(t) /\ Kept(t)' = Kept(t) /\ Winners' = Winners
        /\ Sections(t)' = Sections(t) /\ Settled(t)' = Settled(t)
    BY <2>1 DEF Waiting, Kept, Winners, Before, Sections, Settled, Sound
  <2>4. /\ Sorted(loaded[t])' <=> Sorted(loaded[t])
        /\ Sorted(accepted[t])' <=> Sorted(accepted[t])
        /\ \A i : Sound(i)' <=> Sound(i)
        /\ \A i, j : Before(i, j)' <=> Before(i, j)
    BY <2>1 DEF Sorted, Before, Sound
  <2>5. \A name : Taken(t, name)' <=> Taken(t, name)
    BY <2>1, <2>3 DEF Taken
  <2>6. RegistryInv(t)'
    BY <2>1, <2>2, <2>3, <2>4, <2>5 DEF Inv, RegistryInv
  <2>7. OrderInv(t)'
    BY <2>1, <2>2, ThreadAssumption DEF Inv, OrderInv
  <2> QED
    BY <2>2, <2>6, <2>7, ThreadStep
<1> QED
  BY <1>1, <1>2, <1>3, <1>4, <1>5 DEF Discover

\* The doctor's listening.
LEMMA CaptureInv == ASSUME Inv, NEW d \in Doctors, BeginCapture(d) \/ EndCapture(d) PROVE Inv'
<1>1. d \in Threads /\ d \notin Snappers
  BY ThreadAssumption DEF Threads
<1>2. CASE BeginCapture(d)
  <2>1. /\ pc[d] = "capture" /\ pc' = [pc EXCEPT ![d] = "load"]
        /\ UNCHANGED <<points, asked, outcome, todo, loaded, accepted>>
    BY <1>2 DEF BeginCapture, Goto, registryVars
  <2>2. Shape' /\ Alone(d) /\ pc'[d] = "load" /\ OrderInv(d)'
    BY <1>1, <2>1 DEF Inv, Shape, Alone, Labels, OrderInv
  <2>3. /\ Waiting(d)' = Waiting(d) /\ Kept(d)' = Kept(d) /\ Winners' = Winners
        /\ Sections(d)' = Sections(d) /\ Settled(d)' = Settled(d)
    BY <2>1 DEF Waiting, Kept, Winners, Before, Sections, Settled, Sound
  <2>4. /\ Sorted(loaded[d])' <=> Sorted(loaded[d])
        /\ Sorted(accepted[d])' <=> Sorted(accepted[d])
        /\ \A i : Sound(i)' <=> Sound(i)
        /\ \A i, j : Before(i, j)' <=> Before(i, j)
    BY <2>1 DEF Sorted, Before, Sound
  <2>5. \A name : Taken(d, name)' <=> Taken(d, name)
    BY <2>1, <2>3 DEF Taken
  <2>6. RegistryInv(d)'
    BY <1>1, <2>1, <2>2, <2>3, <2>4, <2>5 DEF Inv, RegistryInv
  <2> QED
    BY <1>1, <2>2, <2>6, ThreadStep
<1>3. CASE EndCapture(d)
  <2> DEFINE result == IF outcome[d] = "exit" THEN "exit" ELSE IF messages[d] = 0 THEN "ok" ELSE "warn"
  <2>1. /\ pc[d] = "release" /\ pc' = [pc EXCEPT ![d] = "done"]
        /\ outcome' = [outcome EXCEPT ![d] = result]
        /\ UNCHANGED <<points, asked, registryVars>>
    BY <1>1, <1>3 DEF EndCapture, Goto, Inv, Shape
  <2> QED
    BY <1>1, <2>1, LaterStep DEF Labels, Results
<1> QED
  BY <1>2, <1>3

\* The steps of a snapshot after its choice of collectors.
LEMMA SnapInv ==
  ASSUME Inv, NEW t \in Snappers, Compose(t) \/ Drive(t) \/ Answer(t) \/ Fail(t) \/ Document(t)
  PROVE  Inv'
<1>1. t \in Threads /\ UNCHANGED <<points, asked, registryVars>>
  BY DEF Threads, Compose, Drive, Answer, Fail, Document
<1>2. pc[t] \in {"compose", "drive", "failed", "document"} /\ outcome[t] # "exit" /\ outcome[t] \in Results
  BY <1>1 DEF Inv, OrderInv, Shape, Compose, Drive, Answer, Fail, Document
<1>3. /\ \E label \in {"drive", "failed", "document", "done"} : pc' = [pc EXCEPT ![t] = label]
      /\ \E result \in Results \ {"exit"} : outcome' = [outcome EXCEPT ![t] = result]
  <2>1. /\ outcome = [outcome EXCEPT ![t] = outcome[t]]
        /\ pc = [pc EXCEPT ![t] = pc[t]]
    BY <1>1 DEF Inv, Shape
  <2>2. CASE Compose(t)
    BY <1>2, <2>1, <2>2 DEF Compose, Goto, End, Results
  <2>3. CASE Drive(t)
    BY <1>2, <2>1, <2>3 DEF Drive, Goto
  <2>4. CASE Answer(t) \/ Fail(t) \/ Document(t)
    BY <1>2, <2>1, <2>4 DEF Answer, Fail, Document, Goto, End, Results
  <2> QED
    BY <2>2, <2>3, <2>4
<1> QED
  BY <1>1, <1>2, <1>3, LaterStep DEF Labels

\* At first nothing is loaded.
LEMMA InitInv == Init => Inv
<1> SUFFICES ASSUME Init PROVE Inv
  OBVIOUS
<1>1. points \in Seq(EntryPoint) /\ << >> \in Seq(DOMAIN points)
  BY InstallationAssumption DEF Init
<1>2. /\ \A t \in Threads : pc[t] \in {"capture", "compose", "load"}
      /\ \A t \in Snappers : pc[t] # "capture"
      /\ \A t \in Threads : IF asked[t] = "given" THEN pc[t] = "compose"
                             ELSE pc[t] \in {"capture", "load"}
      /\ pc \in [Threads -> Labels]
  BY ThreadAssumption DEF Init, Labels, Threads
<1>3. Shape
  BY <1>1, <1>2 DEF Init, Shape, Results
<1>4. ASSUME NEW t \in Threads PROVE RegistryInv(t) /\ OrderInv(t)
  <2>1. todo[t] = DOMAIN points /\ loaded[t] = << >> /\ accepted[t] = << >> /\ outcome[t] = "none"
    BY <1>4 DEF Init
  <2>2. Waiting(t) = {} /\ Kept(t) = {} /\ Settled(t) = {} /\ Sorted(<< >>)
    BY <2>1 DEF Waiting, Kept, Settled, Sorted, Members
  <2>3. RegistryInv(t)
    BY <1>2, <1>4, <2>1, <2>2 DEF RegistryInv
  <2>4. OrderInv(t)
    BY <1>2, <1>4, <2>1 DEF OrderInv
  <2> QED
    BY <2>3, <2>4
<1> QED
  BY <1>3, <1>4 DEF Inv

\* One step of any thread.
LEMMA NextInv == ASSUME Inv, [Next]_vars PROVE Inv'
<1>1. CASE Next
  BY <1>1, DiscoverInv, CaptureInv, SnapInv DEF Next
<1>2. CASE UNCHANGED vars
  <2>1. UNCHANGED <<points, asked, pc, outcome, todo, loaded, accepted>>
    BY <1>2 DEF vars, registryVars
  <2>2. Shape'
    BY <2>1 DEF Inv, Shape
  <2>3. ASSUME NEW t \in Threads PROVE RegistryInv(t)' /\ OrderInv(t)'
    BY <2>1, <2>3, RegistryFrame DEF Inv, OrderInv
  <2> QED
    BY <2>2, <2>3 DEF Inv
<1> QED
  BY <1>1, <1>2

\* The invariant of the whole development.
LEMMA InvHolds == Spec => []Inv
  BY InitInv, NextInv, PTL DEF Spec

-----------------------------------------------------------------------------
(* The theorems. *)

\* A finished discovery has one plugin of the least name for every section that
\* a candidate claims, in order, whatever is installed and in whichever order.
\* No minimum has to be found: the section of every candidate that was decided
\* about is taken, by a winner that is that candidate or comes before it.
THEOREM Precedence == Spec => []FirstClaimWins
<1>1. Inv => FirstClaimWins
  <2> SUFFICES ASSUME Inv, NEW t \in Threads, Discovered(t)
               PROVE  /\ Kept(t) \subseteq Candidates
                      /\ \A j \in Candidates : \E i \in Kept(t) :
                           points[i].section = points[j].section /\ points[i].entry <= points[j].entry
                      /\ \A i, j \in Kept(t) : points[i].section = points[j].section => i = j
                      /\ \A k, m \in DOMAIN accepted[t] :
                           k < m => points[accepted[t][k]].entry <= points[accepted[t][m]].entry
    BY DEF FirstClaimWins, Kept, Members
  <2>1. /\ todo[t] = {} /\ loaded[t] = << >> /\ Kept(t) = Settled(t) \cap Winners /\ Sorted(accepted[t])
        /\ \A i \in Settled(t) : Taken(t, points[i].section)
    BY DEF Inv, RegistryInv, Discovered
  <2>2. Settled(t) = {i \in DOMAIN points : Sound(i)}
    BY <2>1 DEF Settled, Waiting, Members
  <2>3. Kept(t) = Winners
    BY <2>1, <2>2 DEF Winners
  <2>4. points \in Seq(EntryPoint) /\ accepted[t] \in Seq(DOMAIN points)
    BY DEF Inv, Shape
  <2>5. ASSUME NEW i \in DOMAIN points, NEW j \in DOMAIN points, Before(i, j)
        PROVE  points[i].entry <= points[j].entry
    <3>1. points[i] \in EntryPoint /\ points[j] \in EntryPoint
      BY <2>4
    <3> QED
      BY <2>5, <3>1 DEF Before, EntryPoint
  <2>6. Kept(t) \subseteq Candidates
    BY <2>3 DEF Winners, Candidates
  <2>7. ASSUME NEW j \in Candidates
        PROVE  \E i \in Kept(t) :
                 points[i].section = points[j].section /\ points[i].entry <= points[j].entry
    <3>1. j \in DOMAIN points /\ Sound(j) /\ points[j].section \notin BuiltinNames
      BY DEF Candidates
    <3>2. points[j].section \in Sections(t)
      BY <2>1, <2>2, <3>1 DEF Taken
    <3>3. PICK k \in DOMAIN accepted[t] : points[accepted[t][k]].section = points[j].section
      BY <3>2 DEF Sections
    <3> DEFINE i == accepted[t][k]
    <3>4. i \in Kept(t) /\ i \in DOMAIN points /\ points[i].section = points[j].section
      BY <2>4, <3>3 DEF Kept, Members
    <3> HIDE DEF i
    <3>5. CASE i = j
      <4>1. points[j] \in EntryPoint
        BY <2>4, <3>1
      <4>2. points[j].entry <= points[j].entry
        BY <4>1 DEF EntryPoint
      <4> QED
        BY <3>4, <3>5, <4>2
    <3>6. CASE i # j
      <4>1. Before(i, j)
        BY <2>3, <3>1, <3>4, <3>6 DEF Winners
      <4> QED
        BY <2>5, <3>1, <3>4, <4>1
    <3> QED
      BY <3>5, <3>6
  <2>8. ASSUME NEW i \in Kept(t), NEW j \in Kept(t), points[i].section = points[j].section, i # j
        PROVE  FALSE
    <3>1. /\ i \in DOMAIN points /\ j \in DOMAIN points
          /\ Before(i, j) /\ Before(j, i)
      BY <2>3, <2>8 DEF Winners
    <3> QED
      BY <2>4, <3>1, BeforeIsOrder
  <2>9. ASSUME NEW k \in DOMAIN accepted[t], NEW m \in DOMAIN accepted[t], k < m
        PROVE  points[accepted[t][k]].entry <= points[accepted[t][m]].entry
    <3>1. Before(accepted[t][k], accepted[t][m])
      BY <2>1, <2>9 DEF Sorted
    <3>2. accepted[t][k] \in DOMAIN points /\ accepted[t][m] \in DOMAIN points
      BY <2>4
    <3> QED
      BY <2>5, <3>1, <3>2
  <2> QED
    BY <2>6, <2>7, <2>8, <2>9
<1> QED
  BY <1>1, InvHolds, PTL

-----------------------------------------------------------------------------
(* Discovery is deterministic. *)

\* A set of numbers has a least one.
LEMMA LeastIndex ==
  ASSUME NEW T \in SUBSET Nat, T # {}
  PROVE  \E n \in T : \A m \in T : n <= m
<1>1. IsWellFoundedOn(OpToRel(<, Nat), Nat)
  BY NatLessThanWellFounded
<1>2. PICK n \in T : \A m \in T : ~ (<<m, n>> \in OpToRel(<, Nat))
  BY <1>1, WFMin
<1>3. \A m \in T : ~ (m < n)
  BY <1>2 DEF OpToRel
<1> QED
  BY <1>3

\* n is the first place at which two lists differ.
FirstDiffer(s, u, n) ==
  /\ n \in DOMAIN s /\ n \in DOMAIN u /\ s[n] # u[n]
  /\ \A k \in DOMAIN s : k \in DOMAIN u /\ k < n => s[k] = u[k]

\* There an element of the first that the second also has comes later in the
\* second.
LEMMA FirstDifference ==
  ASSUME points \in Seq(EntryPoint), NEW s \in Seq(DOMAIN points), NEW u \in Seq(DOMAIN points),
         Sorted(s), Sorted(u), Members(s) = Members(u), NEW n, FirstDiffer(s, u, n)
  PROVE  Before(u[n], s[n])
<1>1. /\ DOMAIN s = 1..Len(s) /\ DOMAIN u = 1..Len(u) /\ Len(s) \in Nat /\ Len(u) \in Nat
      /\ n \in DOMAIN s /\ n \in DOMAIN u /\ s[n] # u[n] /\ s[n] \in DOMAIN points
      /\ \A k \in DOMAIN s : k \in DOMAIN u /\ k < n => s[k] = u[k]
  BY DEF FirstDiffer
<1>2. PICK m \in DOMAIN u : u[m] = s[n]
  BY <1>1 DEF Members
<1>3. CASE m < n
  <2>1. m \in DOMAIN s /\ s[m] = u[m]
    BY <1>1, <1>3
  <2>2. Before(s[m], s[n])
    BY <1>1, <1>3, <2>1 DEF Sorted
  <2> QED
    BY <1>1, <1>2, <2>1, <2>2, BeforeIsOrder
<1>4. CASE m > n
  BY <1>1, <1>2, <1>4 DEF Sorted
<1> QED
  BY <1>1, <1>2, <1>3, <1>4

\* A list whose elements another has from the start on is no longer than it.
LEMMA NoLonger ==
  ASSUME points \in Seq(EntryPoint), NEW s \in Seq(DOMAIN points), NEW u \in Seq(DOMAIN points),
         Sorted(u), Members(u) \subseteq Members(s),
         \A k \in DOMAIN s \cap DOMAIN u : s[k] = u[k]
  PROVE  Len(u) <= Len(s)
<1> SUFFICES ASSUME Len(s) < Len(u) PROVE FALSE
  OBVIOUS
<1> DEFINE n == Len(s) + 1
<1>1. /\ DOMAIN s = 1..Len(s) /\ DOMAIN u = 1..Len(u) /\ Len(s) \in Nat
      /\ n \in DOMAIN u /\ u[n] \in DOMAIN points
  OBVIOUS
<1>2. PICK k \in DOMAIN s : s[k] = u[n]
  BY <1>1 DEF Members
<1>3. k \in DOMAIN u /\ k < n /\ u[k] = u[n]
  BY <1>1, <1>2
<1>4. Before(u[k], u[n])
  BY <1>1, <1>3 DEF Sorted
<1> QED
  BY <1>1, <1>3, <1>4, BeforeIsOrder

\* A set of entry points can be put in order in one way only.
LEMMA OneOrder ==
  ASSUME points \in Seq(EntryPoint), NEW s \in Seq(DOMAIN points), NEW u \in Seq(DOMAIN points),
         Sorted(s), Sorted(u), Members(s) = Members(u)
  PROVE  s = u
<1>1. /\ DOMAIN s = 1..Len(s) /\ DOMAIN u = 1..Len(u) /\ Len(s) \in Nat /\ Len(u) \in Nat
      /\ \A k \in DOMAIN s : s[k] \in DOMAIN points
      /\ \A k \in DOMAIN u : u[k] \in DOMAIN points
  OBVIOUS
<1>2. \A k \in DOMAIN s \cap DOMAIN u : s[k] = u[k]
  <2> DEFINE Different == {k \in DOMAIN s \cap DOMAIN u : s[k] # u[k]}
  <2> SUFFICES ASSUME Different # {} PROVE FALSE
    OBVIOUS
  <2>1. Different \in SUBSET Nat
    BY <1>1
  <2>2. PICK n \in Different : \A k \in Different : n <= k
    BY <2>1, LeastIndex
  <2>3. FirstDiffer(s, u, n) /\ FirstDiffer(u, s, n)
    BY <1>1, <2>2 DEF FirstDiffer
  <2>4. Before(u[n], s[n])
    BY <2>3, FirstDifference
  <2>5. Before(s[n], u[n])
    BY <2>3, FirstDifference
  <2> QED
    BY <1>1, <2>2, <2>4, <2>5, BeforeIsOrder
<1>3. Len(u) <= Len(s) /\ Len(s) <= Len(u)
  BY <1>2, NoLonger
<1>4. Len(s) = Len(u)
  <2>1. Len(s) \in Int /\ Len(u) \in Int
    OBVIOUS
  <2> DEFINE a == Len(s)
             b == Len(u)
  <2>2. a \in Int /\ b \in Int /\ b <= a /\ a <= b
    BY <1>3, <2>1
  <2> HIDE DEF a, b
  <2>3. a = b
    BY ONLY <2>2
  <2> QED
    BY ONLY <2>3 DEF a, b
<1>5. ASSUME NEW k \in 1..Len(s) PROVE s[k] = u[k]
  <2>1. k \in DOMAIN s /\ k \in DOMAIN u
    BY <1>1, <1>4
  <2> QED
    BY <1>2, <2>1
<1> QED
  BY ONLY s \in Seq(DOMAIN points), u \in Seq(DOMAIN points), <1>4, <1>5, SeqEqual

\* Two discoveries of one installation find the same plugins in the same order,
\* at whatever speed they run and however their steps interleave: the doctor
\* warns of the plugins a snapshot will miss and not of others, and two
\* snapshots have the same sections (discover_collectors is called anew for
\* each of them).
THEOREM DiscoveriesAgree ==
  Spec => [](\A t, u \in Threads : Discovered(t) /\ Discovered(u) => accepted[t] = accepted[u])
<1>1. Inv => \A t, u \in Threads : Discovered(t) /\ Discovered(u) => accepted[t] = accepted[u]
  <2> SUFFICES ASSUME Inv, NEW t \in Threads, NEW u \in Threads, Discovered(t), Discovered(u)
               PROVE  accepted[t] = accepted[u]
    OBVIOUS
  <2>1. ASSUME NEW v \in Threads, Discovered(v)
        PROVE  /\ accepted[v] \in Seq(DOMAIN points) /\ Sorted(accepted[v])
               /\ Members(accepted[v]) = Winners
    <3>1. /\ todo[v] = {} /\ loaded[v] = << >> /\ Kept(v) = Settled(v) \cap Winners
          /\ Sorted(accepted[v])
      BY <2>1 DEF Inv, RegistryInv, Discovered
    <3>2. Settled(v) = {i \in DOMAIN points : Sound(i)}
      BY <3>1 DEF Settled, Waiting, Members
    <3> QED
      BY <3>1, <3>2 DEF Inv, Shape, Kept, Winners
  <2>2. points \in Seq(EntryPoint)
    BY DEF Inv, Shape
  <2> QED
    BY <2>1, <2>2, OneOrder
<1> QED
  BY <1>1, InvHolds, PTL
=============================================================================
