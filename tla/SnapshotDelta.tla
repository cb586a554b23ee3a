--------------------------- MODULE SnapshotDelta ---------------------------
(***************************************************************************)
(* What a delta says of its target: the objects, gc and fds collectors        *)
(* (src/pidprobe/collectors) look at a process, and diff_snapshots of         *)
(* _diff.py compares what they reported. The collectors leave things out: the *)
(* objects section holds the TopN types with the most instances, a generation *)
(* may lack its count, a collector that failed leaves no section.             *)
(*                                                                           *)
(* Sections are functions: the ranking maps each type it lists to its count,  *)
(* the gc section each generation to its statistics. The order of the rows is *)
(* layout and left out.                                                       *)
(***************************************************************************)
EXTENDS Integers, Sequences, FiniteSetsExt, Functions

CONSTANTS
    Types,        \* the types the target has instances of
    TopN,         \* TOP_N
    Worlds,       \* what the target may be like when a snapshot is taken
    MaxSnapshots, \* bound on the snapshots
    Null          \* JSON null, and a key that is not there

\* A world: instances per type, collections per generation, the counts that
\* gc.get_count() returns, which may be fewer, the open descriptors, and the
\* collectors that fail.
ASSUME WorldAssumption ==
  /\ TopN \in Nat /\ MaxSnapshots \in Nat /\ IsFiniteSet(Types)
  /\ \A w \in Worlds :
       /\ w.count \in [Types -> Nat]
       /\ w.collections \in Seq(Nat) /\ w.young \in Seq(Nat)
       /\ w.fds \in Nat
       /\ w.failed \subseteq {"objects", "gc", "fds"}

VARIABLES
    worlds,   \* history: the target at each snapshot
    snapshots \* the snapshots

vars == <<worlds, snapshots>>

Init == worlds = << >> /\ snapshots = << >>

-----------------------------------------------------------------------------
(* The collectors. *)

Tracked(w) == {t \in Types : w.count[t] > 0}

\* Mutants of Rankings: types are taken as they come, whatever their counts;
\* one type more than TopN is taken.
AnyTypes(w) ==
  {S \in SUBSET Tracked(w) : Cardinality(S) = Min({TopN, Cardinality(Tracked(w))})}
OneMore(w) ==
  {S \in SUBSET Tracked(w) : Cardinality(S) = Min({TopN + 1, Cardinality(Tracked(w))})}

\* Counter.most_common(TOP_N); between equal counts the heap's order decides.
Rankings(w) ==
  {S \in SUBSET Tracked(w) :
     /\ Cardinality(S) = Min({TopN, Cardinality(Tracked(w))})
     /\ \A t \in S : \A u \in Tracked(w) \ S : w.count[t] >= w.count[u]}

Objects(w, ranking) ==
  [total_tracked  |-> SumFunction(w.count),
   distinct_types |-> Cardinality(Tracked(w)),
   top            |-> [t \in ranking |-> w.count[t]]]

\* The row of a generation has a count only if gc.get_count() reaches so far.
Gc(w) ==
  [g \in DOMAIN w.collections |->
     [k \in {"collections"} \cup (IF g \in DOMAIN w.young THEN {"count"} ELSE {}) |->
        IF k = "count" THEN w.young[g] ELSE w.collections[g]]]

Section(w, name, data) == IF name \in w.failed THEN Null ELSE data

Sections(w, ranking) == [objects |-> Section(w, "objects", Objects(w, ranking)),
                         gc      |-> Section(w, "gc", Gc(w)),
                         fds     |-> Section(w, "fds", w.fds)]

\* null is neither a number nor a section.
ASSUME NullAssumption == Null \notin Int /\ \A w \in Worlds : Gc(w) # Null

\* A snapshot is taken of whatever the target is like by then.
TakeSnapshot ==
  /\ Len(snapshots) < MaxSnapshots
  /\ \E w \in Worlds : \E ranking \in Rankings(w) :
       /\ worlds' = Append(worlds, w)
       /\ snapshots' = Append(snapshots, Sections(w, ranking))

Spec == Init /\ [][TakeSnapshot]_vars

-----------------------------------------------------------------------------
(* diff_snapshots *)

Get(f, key) == IF key \in DOMAIN f THEN f[key] ELSE Null

\* Mutant of Change: a side that is missing counts as zero.
ChangeFromZero(was, now) ==
  LET n(v) == IF v = Null THEN 0 ELSE v
  IN  [before |-> n(was), after |-> n(now), delta |-> n(now) - n(was)]

\* _change: a number on both sides, or nothing.
Change(was, now) ==
  IF was = Null \/ now = Null THEN Null
  ELSE [before |-> was, after |-> now, delta |-> now - was]

\* `(now or 0)`
OrZero(n) == IF n = Null THEN 0 ELSE n

\* Mutants of TypeDeltas: a type that one ranking leaves out is left out of the
\* delta; so is a type that the later ranking does not have.
TypeDeltasOfBoth(was, now) ==
  LET both == {t \in DOMAIN was \cap DOMAIN now : now[t] # was[t]}
  IN  [t \in both |-> [before |-> was[t], after |-> now[t], delta |-> now[t] - was[t]]]
TypeDeltasOfLater(was, now) ==
  LET row(t) == [before |-> Get(was, t), after |-> now[t], delta |-> now[t] - OrZero(Get(was, t))]
  IN  [t \in {t \in DOMAIN now : row(t).delta # 0} |-> row(t)]

\* _type_deltas: the types whose count moved. A side whose ranking leaves the
\* type out is null and counts as zero.
TypeDeltas(was, now) ==
  LET row(t) == [before |-> Get(was, t), after |-> Get(now, t),
                 delta  |-> OrZero(Get(now, t)) - OrZero(Get(was, t))]
      moved  == {t \in DOMAIN was \cup DOMAIN now : row(t).delta # 0}
  IN  [t \in moved |-> row(t)]

ObjectsDelta(was, now) ==
  IF was = Null \/ now = Null THEN Null
  ELSE [total_tracked  |-> Change(was.total_tracked, now.total_tracked),
        distinct_types |-> Change(was.distinct_types, now.distinct_types),
        types          |-> TypeDeltas(was.top, now.top)]

\* _generation_deltas: generations are paired by their number, and a statistic
\* that has no change to report gets no key.
GcDelta(was, now) ==
  IF was = Null \/ now = Null THEN Null
  ELSE [g \in DOMAIN was \cap DOMAIN now |->
          LET change(k) == Change(Get(was[g], k), now[g][k])
          IN  [k \in {k \in DOMAIN now[g] : change(k) # Null} |-> change(k)]]

FdsDelta(was, now) == Change(was, now)

-----------------------------------------------------------------------------
(* Properties. *)

Pairs == {p \in (DOMAIN snapshots) \X (DOMAIN snapshots) : p[1] < p[2]}

TypesOf(i, j) == ObjectsDelta(snapshots[i].objects, snapshots[j].objects)

\* Snapshots and the worlds they were taken of go together.
TypeOK ==
  /\ worlds \in Seq(Worlds) /\ Len(worlds) = Len(snapshots) /\ Len(snapshots) <= MaxSnapshots
  /\ \A i \in DOMAIN snapshots :
       /\ snapshots[i].fds \in Nat \cup {Null}
       /\ snapshots[i].objects # Null =>
            \E ranking \in SUBSET Types :
              /\ Cardinality(ranking) <= TopN
              /\ snapshots[i].objects = Objects(worlds[i], ranking)

\* A ranking may leave out a type with n instances: it lists none with fewer,
\* and if it lists fewer than TopN it leaves out nothing there is.
MayOmit(i, n) ==
  LET top == snapshots[i].objects.top
  IN  /\ n >= 0 /\ \A t \in DOMAIN top : n <= top[t]
      /\ Cardinality(DOMAIN top) < TopN => n = 0

\* What the docstring of _type_deltas promises: the delta of a type that both
\* rankings list is its real change; where one left it out, the delta bounds
\* the change from the side that docstring gives, and is off by what that
\* ranking may omit; and a type that is not reported did not move, or is
\* outside both rankings.
DeltasBoundTheChange ==
  \A p \in Pairs :
    LET i == p[1]
        j == p[2]
    IN  TypesOf(i, j) # Null =>
          \A t \in Types :
            LET real == worlds[j].count[t] - worlds[i].count[t]
            IN  IF t \in DOMAIN TypesOf(i, j).types
                THEN LET row == TypesOf(i, j).types[t]
                     IN  /\ row.before # Null /\ row.after # Null => row.delta = real
                         /\ row.before = Null => MayOmit(i, row.delta - real)
                         /\ row.after = Null  => MayOmit(j, real - row.delta)
                ELSE \/ real = 0
                     \/ t \notin DOMAIN snapshots[i].objects.top \cup DOMAIN snapshots[j].objects.top

\* When both rankings hold every type, the types' deltas sum to the change of
\* the total: nothing is counted twice or lost between the two parts of the
\* section (_objects_delta).
TypesSumToTotal ==
  \A p \in Pairs :
    LET delta == TypesOf(p[1], p[2])
        small(i) == snapshots[i].objects.distinct_types <= TopN
    IN  delta # Null /\ small(p[1]) /\ small(p[2]) =>
          SumFunction([t \in DOMAIN delta.types |-> delta.types[t].delta]) = delta.total_tracked.delta

DeltaOf(i, j, t) ==
  LET types == TypesOf(i, j).types IN IF t \in DOMAIN types THEN types[t].delta ELSE 0

\* The deltas of a series add up: over any three snapshots, whatever the
\* rankings left out on the way, the two steps of a type and of the descriptors
\* sum to the delta from the first to the last, so that a reader may drop lines
\* of the series or join them (iter_snapshot_deltas, _type_deltas).
DeltasAddUp ==
  \A i, j, k \in DOMAIN snapshots : i < j /\ j < k =>
    /\ Null \notin {snapshots[n].objects : n \in {i, j, k}} =>
         \A t \in Types : DeltaOf(i, j, t) + DeltaOf(j, k, t) = DeltaOf(i, k, t)
    /\ Null \notin {snapshots[n].fds : n \in {i, j, k}} =>
         FdsDelta(snapshots[i].fds, snapshots[j].fds).delta
           + FdsDelta(snapshots[j].fds, snapshots[k].fds).delta
           = FdsDelta(snapshots[i].fds, snapshots[k].fds).delta

Statistic(w, k) == IF k = "count" THEN w.young ELSE w.collections

\* Every change that a gc delta reports is between two values that were read.
ReportsWhatWasRead(v, w, delta) ==
  IF "gc" \in v.failed \cup w.failed THEN delta = Null
  ELSE \A g \in DOMAIN delta : \A k \in DOMAIN delta[g] :
         /\ g \in DOMAIN Statistic(v, k) \cap DOMAIN Statistic(w, k)
         /\ delta[g][k].delta = Statistic(w, k)[g] - Statistic(v, k)[g]

\* A collector that failed, a generation or a statistic that one side does not
\* have never becomes a number: every change the gc section reports is the real
\* one between two values both snapshots read, under one generation
\* (_gc_delta, _generation_deltas, _change).
AbsenceIsNotZero ==
  \A p \in Pairs : ReportsWhatWasRead(worlds[p[1]], worlds[p[2]],
                                     GcDelta(snapshots[p[1]].gc, snapshots[p[2]].gc))
===========================================================================
