--------------------------- MODULE SnapshotProofs ---------------------------
(***************************************************************************)
(* Proofs about what a snapshot makes of its collectors in Snapshot, for any  *)
(* number of threads, plugins and collectors, and whatever each of them does. *)
(***************************************************************************)
EXTENDS RegistryProofs

Choice == [section : STRING \ RESERVED_SECTION_NAMES, by : Int]
Report == [name : STRING, status : {"ok", "error"}]

\* The k-th section and report are those of the k-th collector.
Turn(k, cs, es, rs, found) ==
  /\ k \in DOMAIN cs /\ k \in DOMAIN es /\ Caught(es[k])
  /\ rs[k] = [name |-> cs[k].section, status |-> Status(es[k])]
  /\ cs[k].section \in DOMAIN found /\ found[cs[k].section] = Filed(es[k])

Odd(es) == \E k \in DOMAIN es : es[k] \notin {"data", "nothing", "exception"}

Layout(found) ==
  [n \in RESERVED_SECTION_NAMES \cup DOMAIN found |-> IF n \in DOMAIN found THEN found[n] ELSE "own"]

\* The driver goes through the collectors in order; a payload that arrives is
\* complete and plain. Of a snapshot that is at `at` and came to `came`.
Good(at, came, cs, es, rs, found, doc) ==
  /\ cs \in Seq(Choice) /\ es \in Seq(Effects) /\ rs \in Seq(Report)
  /\ at \in {"load", "accept", "compose"} => es = << >>
  /\ Len(rs) <= Len(es) /\ Len(rs) <= Len(cs)
  /\ at \in {"drive", "failed", "document"} \/ es # << >> \/ came = "document" => Composable(cs)
  /\ at = "drive" => Len(es) = Len(rs)
  /\ \A k \in 1..Len(rs) : Turn(k, cs, es, rs, found)
  /\ DOMAIN found = {cs[k].section : k \in 1..Len(rs)}
  /\ at = "failed" \/ (came \in {"TargetError", "ProbeError"} /\ es # << >>) => Odd(es)
  /\ at = "document" \/ came = "document" =>
       Len(rs) = Len(cs) /\ \A n \in DOMAIN found : found[n] # "odd data"
  /\ came = "document" => doc = Layout(found)
  /\ at # "done" => came = "none"

DriverInv(t) ==
  Good(pc[t], outcome[t], chosen[t], effects[t], reports[t], sections[t], document[t])

DriverShape ==
  /\ chosen = [t \in Snappers |-> chosen[t]] /\ effects = [t \in Snappers |-> effects[t]]
  /\ reports = [t \in Snappers |-> reports[t]] /\ sections = [t \in Snappers |-> sections[t]]
  /\ document = [t \in Snappers |-> document[t]]

SInv == Inv /\ DriverShape /\ \A t \in Snappers : DriverInv(t)

-----------------------------------------------------------------------------
(* From the invariant to the properties. *)

\* The three properties are read off the invariant.
LEMMA SInvImplies == SInv => EachSectionStandsAlone /\ OnlyOddFailuresSpread /\ SectionsNeverCollide
<1> SUFFICES ASSUME SInv PROVE EachSectionStandsAlone /\ OnlyOddFailuresSpread /\ SectionsNeverCollide
  OBVIOUS
<1>0. ASSUME NEW t \in Snappers
      PROVE  /\ DriverInv(t)
             /\ Len(chosen[t]) \in Nat /\ DOMAIN chosen[t] = 1..Len(chosen[t])
             /\ Len(reports[t]) \in Nat
             /\ \A k \in DOMAIN chosen[t] : chosen[t][k] \in Choice
  <2>1. DriverInv(t)
    BY <1>0 DEF SInv
  <2>2. chosen[t] \in Seq(Choice) /\ reports[t] \in Seq(Report)
    BY <2>1 DEF DriverInv, Good
  <2> QED
    BY <2>1, <2>2
<1>1. ASSUME NEW t \in Snappers, outcome[t] = "document", NEW k \in DOMAIN chosen[t]
      PROVE  /\ chosen[t][k].section \in DOMAIN document[t]
             /\ reports[t][k].name = chosen[t][k].section
             /\ document[t][chosen[t][k].section] =
                  (IF effects[t][k] \in {"exception", "nothing"} THEN "null" ELSE "data")
             /\ reports[t][k].status = "error" <=> effects[t][k] = "exception"
  <2>1. k \in 1..Len(reports[t])
    BY <1>0, <1>1 DEF DriverInv, Good
  <2>2. Turn(k, chosen[t], effects[t], reports[t], sections[t])
    BY <1>0, <1>1, <2>1 DEF DriverInv, Good
  <2>3. sections[t][chosen[t][k].section] # "odd data"
    BY <1>0, <1>1, <2>2 DEF DriverInv, Good, Turn
  <2>4. effects[t][k] \in {"data", "nothing", "exception"}
    BY <2>2, <2>3 DEF Turn, Caught, Filed
  <2>5. document[t] = Layout(sections[t])
    BY <1>0, <1>1 DEF DriverInv, Good
  <2>6. /\ chosen[t][k].section \in DOMAIN document[t]
        /\ document[t][chosen[t][k].section] = sections[t][chosen[t][k].section]
    BY <2>2, <2>5 DEF Turn, Layout
  <2> QED
    BY <2>2, <2>4, <2>6 DEF Turn, Filed, Status
<1>2. EachSectionStandsAlone
  BY <1>0, <1>1 DEF EachSectionStandsAlone, DriverInv, Good
<1>3. OnlyOddFailuresSpread
  BY <1>0 DEF OnlyOddFailuresSpread, DriverInv, Good, Odd
<1>4. ASSUME NEW t \in Snappers, effects[t] # << >>
      PROVE  \A i, j \in DOMAIN chosen[t] : i # j => chosen[t][i].section # chosen[t][j].section
  <2>1. Composable(chosen[t])
    BY <1>0, <1>4 DEF DriverInv, Good
  <2> QED
    BY <2>1 DEF Composable
<1>5. ASSUME NEW t \in Snappers, outcome[t] = "document", NEW n \in RESERVED_SECTION_NAMES
      PROVE  document[t][n] = "own"
  <2>1. DOMAIN sections[t] = {chosen[t][k].section : k \in 1..Len(reports[t])} /\ document[t] = Layout(sections[t])
        /\ Len(reports[t]) = Len(chosen[t])
    BY <1>0, <1>5 DEF DriverInv, Good
  <2>2. \A k \in 1..Len(reports[t]) : chosen[t][k].section \notin RESERVED_SECTION_NAMES
    BY <1>0, <2>1 DEF Choice
  <2>3. n \notin DOMAIN sections[t]
    BY <1>5, <2>1, <2>2
  <2> QED
    BY <1>5, <2>1, <2>3 DEF Layout
<1>6. SectionsNeverCollide
  BY <1>4, <1>5 DEF SectionsNeverCollide
<1> QED
  BY <1>2, <1>3, <1>6

-----------------------------------------------------------------------------
(* What each step makes of a good snapshot. *)

\* Before the driver runs there is nothing to keep but the choice.
LEMMA GoodEarly ==
  ASSUME NEW at, NEW came, NEW cs, NEW es, NEW rs, NEW found, NEW doc, NEW next, NEW result, NEW ds,
         Good(at, came, cs, es, rs, found, doc), at \in {"load", "accept", "compose"},
         ds \in Seq(Choice),
         \/ next \in {"load", "accept", "compose"} /\ result = "none"
         \/ next = "done" /\ result \in {"exit", "ValueError", "ProbeError"}
         \/ next = "drive" /\ result = "none" /\ Composable(ds)
  PROVE  Good(next, result, ds, es, rs, found, doc)
<1>1. /\ es = << >> /\ rs \in Seq(Report) /\ Len(rs) <= Len(es) /\ es \in Seq(Effects)
      /\ DOMAIN found = {cs[k].section : k \in 1..Len(rs)}
  BY DEF Good
<1>2. Len(rs) = 0 /\ Len(es) = 0 /\ 1..Len(rs) = {} /\ Len(ds) \in Nat
  BY <1>1
<1>3. DOMAIN found = {} /\ {ds[k].section : k \in 1..Len(rs)} = {}
  BY <1>1, <1>2
<1>4. \A k \in 1..Len(rs) : Turn(k, ds, es, rs, found)
  BY <1>2
<1>5. Len(rs) <= Len(es) /\ Len(rs) <= Len(ds) /\ Len(es) = Len(rs)
  BY <1>2
<1> QED
  BY <1>1, <1>3, <1>4, <1>5 DEF Good

\* A turn of the loop.
LEMMA GoodTurn ==
  ASSUME NEW cs, NEW es, NEW rs, NEW found, NEW doc, NEW effect \in Effects,
         Good("drive", "none", cs, es, rs, found, doc), Len(rs) # Len(cs), Caught(effect)
  PROVE  LET name == cs[Len(rs) + 1].section
         IN  Good("drive", "none", cs, Append(es, effect),
                  Append(rs, [name |-> name, status |-> Status(effect)]),
                  With(found, name, Filed(effect)), doc)
<1> DEFINE n == Len(rs) + 1
           name == cs[n].section
           report == [name |-> name, status |-> Status(effect)]
           es2 == Append(es, effect)
           rs2 == Append(rs, report)
           found2 == With(found, name, Filed(effect))
<1>1. /\ cs \in Seq(Choice) /\ es \in Seq(Effects) /\ rs \in Seq(Report) /\ Composable(cs)
      /\ Len(rs) <= Len(cs) /\ Len(es) = Len(rs)
      /\ \A k \in 1..Len(rs) : Turn(k, cs, es, rs, found)
      /\ DOMAIN found = {cs[k].section : k \in 1..Len(rs)}
  BY DEF Good
<1>2. /\ Len(rs) \in Nat /\ Len(cs) \in Nat /\ n \in 1..Len(cs) /\ n \notin 1..Len(rs)
      /\ 1..n = 1..Len(rs) \cup {n} /\ DOMAIN cs = 1..Len(cs) /\ DOMAIN es = 1..Len(rs)
      /\ 1..Len(rs) \subseteq 1..Len(cs) /\ n <= Len(cs)
  BY <1>1
<1>3. report \in Report
  <2>1. cs[n] \in Choice
    <3>1. cs \in Seq(Choice) /\ n \in 1..Len(cs)
      BY <1>1, <1>2
    <3> HIDE DEF n
    <3> QED
      BY <3>1
  <2>2. name \in STRING
    BY <2>1 DEF Choice
  <2>3. Status(effect) \in {"ok", "error"}
    BY DEF Status
  <2> QED
    BY <2>2, <2>3 DEF Report
<1>4. /\ es2 \in Seq(Effects) /\ Len(es2) = n /\ DOMAIN es2 = 1..n /\ es2[n] = effect
      /\ \A k \in 1..Len(rs) : es2[k] = es[k]
  BY <1>1
<1>5. /\ rs2 \in Seq(Report) /\ Len(rs2) = n /\ rs2[n] = report
      /\ \A k \in 1..Len(rs) : rs2[k] = rs[k]
  <2> HIDE DEF report
  <2> QED
    BY <1>1, <1>3
<1>6. \A k \in 1..Len(rs) : cs[k].section # name
  BY <1>1, <1>2 DEF Composable
<1>7. /\ DOMAIN found2 = DOMAIN found \cup {name} /\ found2[name] = Filed(effect)
      /\ \A m \in DOMAIN found : m # name => found2[m] = found[m]
  BY DEF With
<1> HIDE DEF es2, rs2, found2
<1>8. \A k \in 1..n : Turn(k, cs, es2, rs2, found2)
  <2>1. Turn(n, cs, es2, rs2, found2)
    BY <1>2, <1>4, <1>5, <1>7 DEF Turn
  <2>2. ASSUME NEW k \in 1..Len(rs) PROVE Turn(k, cs, es2, rs2, found2)
    <3>1. Turn(k, cs, es, rs, found) /\ k \in 1..n
      BY <1>1, <1>2
    <3>2. /\ cs[k].section \in DOMAIN found2
          /\ found2[cs[k].section] = found[cs[k].section]
      BY <1>6, <1>7, <3>1 DEF Turn
    <3> QED
      BY <1>4, <1>5, <3>1, <3>2 DEF Turn
  <2> QED
    BY <1>2, <2>1, <2>2
<1>9. DOMAIN found2 = {cs[k].section : k \in 1..n}
  BY <1>1, <1>2, <1>7
<1>10. n \in Nat
  BY <1>2
<1> HIDE DEF n, name, report
<1>11. Len(rs2) = Len(es2) /\ Len(rs2) <= Len(es2) /\ Len(rs2) <= Len(cs)
  BY <1>2, <1>4, <1>5, <1>10
<1>12. /\ \A k \in 1..Len(rs2) : Turn(k, cs, es2, rs2, found2)
       /\ DOMAIN found2 = {cs[k].section : k \in 1..Len(rs2)}
  BY <1>5, <1>8, <1>9
<1>13. Good("drive", "none", cs, es2, rs2, found2, doc)
  BY <1>1, <1>4, <1>5, <1>11, <1>12 DEF Good
<1> QED
  BY <1>13 DEF es2, rs2, found2, report, name, n

\* An effect that nothing catches.
LEMMA GoodFailure ==
  ASSUME NEW cs, NEW es, NEW rs, NEW found, NEW doc, NEW effect \in Effects,
         Good("drive", "none", cs, es, rs, found, doc), ~Caught(effect)
  PROVE  Good("failed", "none", cs, Append(es, effect), rs, found, doc)
<1> DEFINE es2 == Append(es, effect)
<1>1. /\ cs \in Seq(Choice) /\ es \in Seq(Effects) /\ rs \in Seq(Report) /\ Composable(cs)
      /\ Len(rs) <= Len(cs) /\ Len(es) = Len(rs)
      /\ \A k \in 1..Len(rs) : Turn(k, cs, es, rs, found)
      /\ DOMAIN found = {cs[k].section : k \in 1..Len(rs)}
  BY DEF Good
<1>2. /\ es2 \in Seq(Effects) /\ DOMAIN es2 = 1..(Len(es) + 1) /\ Len(es2) = Len(es) + 1
      /\ es2[Len(es) + 1] = effect /\ Len(es) \in Nat
      /\ \A k \in DOMAIN es : k \in DOMAIN es2 /\ es2[k] = es[k]
  BY <1>1
<1> HIDE DEF es2
<1>3. Len(rs) <= Len(es2) /\ Len(es) + 1 \in DOMAIN es2
  BY <1>1, <1>2
<1>4. Odd(es2)
  BY <1>2, <1>3 DEF Odd, Caught
<1>5. \A k \in 1..Len(rs) : Turn(k, cs, es2, rs, found)
  BY <1>1, <1>2 DEF Turn
<1>6. Good("failed", "none", cs, es2, rs, found, doc)
  BY <1>1, <1>2, <1>3, <1>4, <1>5 DEF Good
<1> QED
  BY <1>6 DEF es2

\* The payload is written, or a section of odd data keeps json from it.
LEMMA GoodAnswer ==
  ASSUME NEW cs, NEW es, NEW rs, NEW found, NEW doc, NEW next,
         Good("drive", "none", cs, es, rs, found, doc), Len(rs) = Len(cs),
         next = IF \E n \in DOMAIN found : found[n] = "odd data" THEN "failed" ELSE "document"
  PROVE  Good(next, "none", cs, es, rs, found, doc)
<1>1. ASSUME NEW n \in DOMAIN found, found[n] = "odd data" PROVE Odd(es)
  <2>1. PICK k \in 1..Len(rs) : n = cs[k].section
    BY <1>1 DEF Good
  <2>2. Turn(k, cs, es, rs, found)
    BY <2>1 DEF Good
  <2>3. es[k] = "odd data" /\ k \in DOMAIN es
    BY <1>1, <2>1, <2>2 DEF Turn, Filed
  <2> QED
    BY <2>3 DEF Odd
<1>2. next = "failed" => Odd(es)
  BY <1>1
<1>3. next = "document" => \A n \in DOMAIN found : found[n] # "odd data"
  OBVIOUS
<1> QED
  BY <1>2, <1>3 DEF Good

\* The two ends of a snapshot whose driver ran.
LEMMA GoodEnd ==
  ASSUME NEW cs, NEW es, NEW rs, NEW found, NEW doc
  PROVE  /\ Good("failed", "none", cs, es, rs, found, doc) =>
              /\ Good("done", "TargetError", cs, es, rs, found, doc)
              /\ Good("done", "ProbeError", cs, es, rs, found, doc)
         /\ Good("document", "none", cs, es, rs, found, doc) =>
              Good("done", "document", cs, es, rs, found, Layout(found))
  BY DEF Good

-----------------------------------------------------------------------------
(* The steps. *)

\* A step of t moves no other snapshot.
AloneDriving(t) ==
  \A u \in Snappers \ {t} :
    UNCHANGED <<pc[u], outcome[u], chosen[u], effects[u], reports[u], sections[u], document[u]>>

\* So what a step does to t decides.
LEMMA DriverStep ==
  ASSUME SInv, NEW t, AloneDriving(t), Inv', DriverShape', t \in Snappers => DriverInv(t)'
  PROVE  SInv'
<1>1. ASSUME NEW u \in Snappers, u # t PROVE DriverInv(u)'
  BY <1>1 DEF SInv, AloneDriving, DriverInv
<1> QED
  BY <1>1 DEF SInv

\* A step that leaves the driver's variables alone.
LEMMA QuietStep ==
  ASSUME SInv, NEW t \in Threads, NEW label, NEW result,
         pc' = [pc EXCEPT ![t] = label], outcome' = [outcome EXCEPT ![t] = result],
         UNCHANGED <<chosen, driverVars>>, Inv',
         t \in Snappers => Good(label, result, chosen[t], effects[t], reports[t], sections[t], document[t])
  PROVE  SInv'
<1>1. AloneDriving(t)
  BY DEF SInv, Inv, Shape, AloneDriving, driverVars, Threads
<1>2. DriverShape'
  BY DEF SInv, DriverShape, driverVars
<1>3. t \in Snappers => DriverInv(t)'
  <2>1. pc'[t] = label /\ outcome'[t] = result
    BY DEF SInv, Inv, Shape
  <2> QED
    BY <2>1 DEF DriverInv, driverVars
<1> QED
  BY <1>1, <1>2, <1>3, DriverStep

\* Discovery up to the choice.
LEMMA DiscoverQuiet ==
  ASSUME SInv, NEW t \in Threads, Load(t) \/ LoadExits(t) \/ LoadedAll(t) \/ Accept(t)
  PROVE  SInv'
<1>1. Inv'
  BY DiscoverInv DEF SInv, Discover
<1>2. UNCHANGED <<chosen, driverVars>> /\ pc[t] \in {"load", "accept"}
  BY DEF Load, LoadExits, LoadedAll, Accept
<1>3. pc \in [Threads -> Labels] /\ outcome \in [Threads -> Results]
  BY DEF SInv, Inv, Shape
<1>4. PICK label, result :
        /\ pc' = [pc EXCEPT ![t] = label] /\ outcome' = [outcome EXCEPT ![t] = result]
        /\ \/ label \in {"load", "accept"} /\ result = outcome[t]
           \/ label = (IF t \in Doctors THEN "release" ELSE "done") /\ result = "exit"
  <2>1. pc = [pc EXCEPT ![t] = pc[t]] /\ outcome = [outcome EXCEPT ![t] = outcome[t]]
    BY <1>3
  <2>2. CASE Load(t) \/ Accept(t)
    BY <1>2, <2>1, <2>2 DEF Load, Accept
  <2>3. CASE LoadExits(t)
    BY <2>3 DEF LoadExits, Goto
  <2>4. CASE LoadedAll(t)
    BY <2>1, <2>4 DEF LoadedAll, Goto
  <2> QED
    BY <2>2, <2>3, <2>4
<1>5. t \in Snappers => Good(label, result, chosen[t], effects[t], reports[t], sections[t], document[t])
  <2> SUFFICES ASSUME t \in Snappers
               PROVE  Good(label, result, chosen[t], effects[t], reports[t], sections[t], document[t])
    OBVIOUS
  <2>1. /\ Good(pc[t], outcome[t], chosen[t], effects[t], reports[t], sections[t], document[t])
        /\ t \notin Doctors
    BY ThreadAssumption DEF SInv, DriverInv
  <2>2. outcome[t] = "none" /\ chosen[t] \in Seq(Choice)
    BY <1>2, <2>1 DEF Good
  <2> QED
    BY <1>2, <1>4, <2>1, <2>2, GoodEarly
<1> QED
  BY <1>1, <1>2, <1>4, <1>5, QuietStep

\* The collectors that discovery chooses have names of their own kind.
LEMMA AvailableCollectors ==
  ASSUME Inv, NEW t \in Threads, pc[t] = "accept"
  PROVE  available_collectors(t) \in Seq(Choice)
<1>1. asked[t] # "given" /\ outcome[t] # "exit"
  BY DEF Inv, OrderInv
<1>2. \A k \in DOMAIN accepted[t] : accepted[t][k] \in DOMAIN points /\ Sound(accepted[t][k])
  <2>1. Kept(t) \subseteq Settled(t)
    BY <1>1 DEF Inv, RegistryInv
  <2> QED
    BY <2>1 DEF Kept, Members, Settled
<1>3. \A i \in DOMAIN points : points[i] \in EntryPoint
  BY DEF Inv, Shape
<1> DEFINE b == [k \in DOMAIN Builtins |-> [section |-> Builtins[k], by |-> 0]]
           row(k) == [section |-> points[accepted[t][k]].section, by |-> accepted[t][k]]
           p == [k \in DOMAIN accepted[t] |-> row(k)]
<1>4. b \in Seq(Choice)
  <2>1. Builtins \in Seq(STRING \ RESERVED_SECTION_NAMES)
    BY BuiltinAssumption
  <2>2. b \in [1..Len(Builtins) -> Choice]
    BY <2>1 DEF Choice
  <2> QED
    BY <2>1, <2>2, SeqDef
<1>5. p \in Seq(Choice)
  <2>1. accepted[t] \in Seq(DOMAIN points) /\ points \in Seq(EntryPoint)
    BY DEF Inv, Shape
  <2>2. ASSUME NEW k \in DOMAIN accepted[t] PROVE row(k) \in Choice
    <3>1. points[accepted[t][k]].section \in STRING \ RESERVED_SECTION_NAMES
      BY <1>2, <1>3, <2>2 DEF Sound, EntryPoint
    <3>2. accepted[t][k] \in Int
      BY <1>2, <2>1, <2>2
    <3> QED
      BY <3>1, <3>2 DEF Choice
  <2> HIDE DEF row
  <2>3. Len(accepted[t]) \in Nat /\ DOMAIN accepted[t] = 1..Len(accepted[t])
    BY <2>1
  <2>4. p \in [1..Len(accepted[t]) -> Choice]
    BY <2>2, <2>3
  <2> HIDE DEF p
  <2> QED
    BY <2>3, <2>4, SeqDef
<1> HIDE DEF b, p
<1>6. b \o p \in Seq(Choice)
  BY <1>4, <1>5
<1> QED
  BY <1>6 DEF available_collectors, b, row, p

\* The choice itself.
LEMMA ChooseStep == ASSUME SInv, NEW t \in Threads, Choose(t) PROVE SInv'
<1>1. Inv'
  BY DiscoverInv DEF SInv, Discover
<1> DEFINE list == available_collectors(t)
           c == [k \in DOMAIN list |-> IF asked[t] = "unmasked" /\ list[k].section = "stacks"
                                       THEN [section |-> "stacks", by |-> -1] ELSE list[k]]
<1>2. /\ pc[t] = "accept" /\ UNCHANGED <<outcome, driverVars>>
      /\ pc' = [pc EXCEPT ![t] = IF t \in Doctors THEN "release" ELSE "compose"]
      /\ t \in Doctors => chosen' = chosen
      /\ t \notin Doctors => chosen' = [chosen EXCEPT ![t] = c]
  BY DEF Choose, Goto
<1>3. c \in Seq(Choice)
  <2>1. list \in Seq(Choice)
    BY <1>2, AvailableCollectors DEF SInv
  <2> HIDE DEF list
  <2>2. Len(list) \in Nat /\ DOMAIN list = 1..Len(list) /\ \A k \in 1..Len(list) : list[k] \in Choice
    BY <2>1
  <2>3. ASSUME NEW k \in 1..Len(list), list[k].section = "stacks"
        PROVE  [section |-> "stacks", by |-> -1] \in Choice
    <3>1. list[k].section \in STRING \ RESERVED_SECTION_NAMES
      BY <2>2 DEF Choice
    <3> QED
      BY <2>3, <3>1 DEF Choice
  <2>4. c \in [1..Len(list) -> Choice]
    BY <2>2, <2>3
  <2> HIDE DEF c
  <2> QED
    BY <2>2, <2>4, SeqDef
<1> HIDE DEF c
<1>4. t \in Doctors \/ (t \in Snappers /\ t \notin Doctors /\ chosen' = [chosen EXCEPT ![t] = c])
  BY <1>2 DEF Threads
<1>5. DriverShape'
  BY <1>2, <1>4 DEF SInv, DriverShape, driverVars
<1>6. AloneDriving(t)
  BY <1>2, <1>4, ThreadAssumption DEF SInv, Inv, Shape, DriverShape, AloneDriving, driverVars, Threads
<1>7. t \in Snappers => DriverInv(t)'
  <2> SUFFICES ASSUME t \in Snappers PROVE DriverInv(t)'
    OBVIOUS
  <2>1. Good(pc[t], outcome[t], chosen[t], effects[t], reports[t], sections[t], document[t])
    BY DEF SInv, DriverInv
  <2>2. outcome[t] = "none"
    BY <1>2, <2>1 DEF Good
  <2>3. Good("compose", "none", c, effects[t], reports[t], sections[t], document[t])
    BY <1>2, <1>3, <2>1, GoodEarly
  <2>4. /\ pc'[t] = "compose" /\ outcome'[t] = "none" /\ chosen'[t] = c
        /\ UNCHANGED <<effects[t], reports[t], sections[t], document[t]>>
    BY <1>2, <1>4, <2>2, ThreadAssumption DEF SInv, Inv, Shape, DriverShape, driverVars
  <2> QED
    BY <2>3, <2>4 DEF DriverInv
<1> QED
  BY <1>1, <1>5, <1>6, <1>7, DriverStep

\* A diagnosis listens to the logger only.
LEMMA CaptureQuiet == ASSUME SInv, NEW d \in Doctors, BeginCapture(d) \/ EndCapture(d) PROVE SInv'
<1>1. Inv' /\ d \in Threads /\ d \notin Snappers
  BY CaptureInv, ThreadAssumption DEF SInv, Threads
<1>2. /\ UNCHANGED <<chosen, driverVars>>
      /\ \E label : pc' = [pc EXCEPT ![d] = label]
      /\ \E result : outcome' = [outcome EXCEPT ![d] = result]
  <2>1. outcome = [outcome EXCEPT ![d] = outcome[d]]
    BY <1>1 DEF SInv, Inv, Shape
  <2>2. CASE BeginCapture(d)
    BY <2>1, <2>2 DEF BeginCapture, Goto
  <2>3. CASE EndCapture(d)
    BY <2>3 DEF EndCapture, Goto
  <2> QED
    BY <2>2, <2>3
<1> QED
  BY <1>1, <1>2, QuietStep

\* The injection starts, or is refused.
LEMMA ComposeStep == ASSUME SInv, NEW t \in Snappers, Compose(t) PROVE SInv'
<1>1. Inv' /\ t \in Threads
  BY SnapInv DEF SInv, Threads
<1>2. Good("compose", outcome[t], chosen[t], effects[t], reports[t], sections[t], document[t])
  BY DEF SInv, DriverInv, Compose
<1>3. outcome[t] = "none" /\ chosen[t] \in Seq(Choice)
  BY <1>2 DEF Good
<1>4. PICK label, result :
        /\ pc' = [pc EXCEPT ![t] = label] /\ outcome' = [outcome EXCEPT ![t] = result]
        /\ \/ label = "done" /\ result \in {"ValueError", "ProbeError"}
           \/ label = "drive" /\ result = "none" /\ Composable(chosen[t])
  <2>1. outcome = [outcome EXCEPT ![t] = outcome[t]]
    BY <1>1 DEF SInv, Inv, Shape
  <2> QED
    BY <1>3, <2>1 DEF Compose, Goto, End
<1>5. Good(label, result, chosen[t], effects[t], reports[t], sections[t], document[t])
  BY <1>2, <1>3, <1>4, GoodEarly
<1> QED
  BY <1>1, <1>4, <1>5, QuietStep DEF Compose

\* A turn of the loop, whatever its collector does.
LEMMA DriveStep == ASSUME SInv, NEW t \in Snappers, Drive(t) PROVE SInv'
<1>1. Inv' /\ t \in Threads
  BY SnapInv DEF SInv, Threads
<1>2. /\ Good("drive", outcome[t], chosen[t], effects[t], reports[t], sections[t], document[t])
      /\ Len(reports[t]) # Len(chosen[t]) /\ UNCHANGED <<outcome, chosen, document>>
  BY DEF SInv, DriverInv, Drive, Exhausted
<1>3. outcome[t] = "none"
  BY <1>2 DEF Good
<1> DEFINE name == chosen[t][Len(reports[t]) + 1].section
<1>4. PICK effect \in Effects :
        /\ effects' = [effects EXCEPT ![t] = Append(@, effect)]
        /\ IF Caught(effect)
           THEN /\ sections' = [sections EXCEPT ![t] = With(@, name, Filed(effect))]
                /\ reports' = [reports EXCEPT ![t] = Append(@, [name |-> name, status |-> Status(effect)])]
                /\ UNCHANGED pc
           ELSE Goto(t, "failed") /\ UNCHANGED <<reports, sections>>
  BY DEF Drive, Filed, Status
<1> HIDE DEF name
<1>5. DriverShape'
  BY <1>2, <1>4 DEF SInv, DriverShape
<1>6. AloneDriving(t)
  BY <1>2, <1>4 DEF SInv, Inv, Shape, DriverShape, AloneDriving, Threads, Goto
<1>7. /\ effects'[t] = Append(effects[t], effect) /\ outcome'[t] = "none"
      /\ UNCHANGED <<chosen[t], document[t]>>
  BY <1>2, <1>3, <1>4 DEF SInv, DriverShape
<1>8. DriverInv(t)'
  <2>1. CASE Caught(effect)
    <3>1. /\ sections'[t] = With(sections[t], name, Filed(effect)) /\ pc'[t] = "drive"
          /\ reports'[t] = Append(reports[t], [name |-> name, status |-> Status(effect)])
      BY <1>4, <2>1 DEF SInv, DriverShape, Drive
    <3>2. Good("drive", "none", chosen[t], effects'[t], reports'[t], sections'[t], document[t])
      BY <1>2, <1>3, <1>7, <2>1, <3>1, GoodTurn DEF name
    <3> QED
      BY <1>7, <3>1, <3>2 DEF DriverInv
  <2>2. CASE ~Caught(effect)
    <3>1. pc'[t] = "failed" /\ UNCHANGED <<reports[t], sections[t]>>
      BY <1>1, <1>4, <2>2 DEF SInv, Inv, Shape, Goto
    <3>2. Good("failed", "none", chosen[t], effects'[t], reports[t], sections[t], document[t])
      BY <1>2, <1>3, <1>7, <2>2, GoodFailure
    <3> QED
      BY <1>7, <3>1, <3>2 DEF DriverInv
  <2> QED
    BY <2>1, <2>2
<1> QED
  BY <1>1, <1>5, <1>6, <1>8, DriverStep

\* The end of the loop, and of a snapshot that failed.
LEMMA AnswerStep == ASSUME SInv, NEW t \in Snappers, Answer(t) \/ Fail(t) PROVE SInv'
<1>1. Inv' /\ t \in Threads
  BY SnapInv DEF SInv, Threads
<1>2. Good(pc[t], outcome[t], chosen[t], effects[t], reports[t], sections[t], document[t])
  BY DEF SInv, DriverInv
<1>3. outcome[t] = "none"
  BY <1>2 DEF Good, Answer, Fail
<1>4. CASE Answer(t)
  <2> DEFINE label == IF \E n \in DOMAIN sections[t] : sections[t][n] = "odd data" THEN "failed" ELSE "document"
  <2>1. outcome' = [outcome EXCEPT ![t] = "none"] /\ pc' = [pc EXCEPT ![t] = label]
    BY <1>1, <1>3, <1>4 DEF SInv, Inv, Shape, Answer, Goto
  <2>2. Good(label, "none", chosen[t], effects[t], reports[t], sections[t], document[t])
    BY <1>2, <1>3, <1>4, GoodAnswer DEF Answer, Exhausted
  <2> HIDE DEF label
  <2> QED
    BY <1>1, <1>4, <2>1, <2>2, QuietStep DEF Answer
<1>5. CASE Fail(t)
  <2>1. PICK result \in {"TargetError", "ProbeError"} :
          outcome' = [outcome EXCEPT ![t] = result] /\ pc' = [pc EXCEPT ![t] = "done"]
    BY <1>5 DEF Fail, End, Goto
  <2>2. Good("done", result, chosen[t], effects[t], reports[t], sections[t], document[t])
    BY <1>2, <1>3, <1>5, <2>1, GoodEnd DEF Fail
  <2> QED
    BY <1>1, <1>5, <2>1, <2>2, QuietStep DEF Fail
<1> QED
  BY <1>4, <1>5

\* The document.
LEMMA DocumentStep == ASSUME SInv, NEW t \in Snappers, Document(t) PROVE SInv'
<1>1. Inv' /\ t \in Threads
  BY SnapInv DEF SInv, Threads
<1>2. /\ Good("document", outcome[t], chosen[t], effects[t], reports[t], sections[t], document[t])
      /\ document' = [document EXCEPT ![t] = Layout(sections[t])]
      /\ pc' = [pc EXCEPT ![t] = "done"] /\ outcome' = [outcome EXCEPT ![t] = "document"]
      /\ UNCHANGED <<chosen, effects, reports, sections>>
  BY DEF SInv, DriverInv, Document, Layout, End, Goto
<1>3. outcome[t] = "none"
  BY <1>2 DEF Good
<1>4. DriverShape'
  BY <1>2 DEF SInv, DriverShape
<1>5. AloneDriving(t)
  BY <1>2 DEF SInv, Inv, Shape, DriverShape, AloneDriving, Threads
<1>6. Good("done", "document", chosen[t], effects[t], reports[t], sections[t], Layout(sections[t]))
  BY <1>2, <1>3, GoodEnd
<1>7. pc'[t] = "done" /\ outcome'[t] = "document" /\ document'[t] = Layout(sections[t])
  BY <1>1, <1>2 DEF SInv, Inv, Shape, DriverShape
<1>8. DriverInv(t)'
  BY <1>2, <1>6, <1>7 DEF DriverInv
<1> QED
  BY <1>1, <1>4, <1>5, <1>8, DriverStep

\* At first there is nothing but the choice of who passed one.
LEMMA InitSInv == Init => SInv
<1> SUFFICES ASSUME Init PROVE SInv
  OBVIOUS
<1>1. Inv
  BY InitInv
<1>2. chosen \in [Snappers -> {<< >>} \cup {Given(names) : names \in Selections}]
  BY DEF Init
<1>3. DriverShape
  BY <1>2 DEF Init, DriverShape
<1>4. ASSUME NEW names \in Selections PROVE Given(names) \in Seq(Choice)
  <2>1. names \in Seq(STRING \ RESERVED_SECTION_NAMES)
    BY <1>4, SelectionAssumption
  <2>2. Given(names) \in [1..Len(names) -> Choice] /\ Len(names) \in Nat
    BY <2>1 DEF Given, Choice
  <2> QED
    BY <2>2, SeqDef
<1>5. ASSUME NEW t \in Snappers PROVE DriverInv(t)
  <2>1. /\ pc[t] \in {"compose", "load"} /\ outcome[t] = "none"
        /\ effects[t] = << >> /\ reports[t] = << >> /\ sections[t] = << >>
    BY <1>5, ThreadAssumption DEF Init, Threads
  <2>2. chosen[t] \in Seq(Choice)
    <3>1. << >> \in Seq(Choice)
      OBVIOUS
    <3>2. chosen[t] = << >> \/ \E names \in Selections : chosen[t] = Given(names)
      BY <1>2, <1>5
    <3> QED
      BY <1>4, <3>1, <3>2
  <2>3. /\ << >> \in Seq(Effects) /\ << >> \in Seq(Report) /\ Len(<< >>) = 0 /\ Len(chosen[t]) \in Nat
        /\ 1..0 = {} /\ DOMAIN << >> = {} /\ Len(<< >>) <= Len(chosen[t])
    BY <2>2
  <2>4. /\ \A k \in 1..Len(<< >>) : Turn(k, chosen[t], << >>, << >>, << >>)
        /\ DOMAIN << >> = {chosen[t][k].section : k \in 1..Len(<< >>)}
    BY <2>3
  <2> QED
    BY <2>1, <2>2, <2>3, <2>4 DEF DriverInv, Good
<1> QED
  BY <1>1, <1>3, <1>5 DEF SInv

\* One step of any thread.
LEMMA NextSInv == ASSUME SInv, [Next]_vars PROVE SInv'
<1>1. CASE Next
  BY <1>1, DiscoverQuiet, ChooseStep, CaptureQuiet, ComposeStep, DriveStep, AnswerStep, DocumentStep
  DEF Next, Discover
<1>2. CASE UNCHANGED vars
  <2>1. Inv'
    BY <1>2, NextInv DEF SInv
  <2>2. UNCHANGED <<pc, outcome, chosen, effects, reports, sections, document>>
    BY <1>2 DEF vars, driverVars
  <2> QED
    BY <2>1, <2>2 DEF SInv, DriverShape, DriverInv
<1> QED
  BY <1>1, <1>2

\* The invariant of a snapshot.
LEMMA SInvHolds == Spec => []SInv
  BY InitSInv, NextSInv, PTL DEF Spec

-----------------------------------------------------------------------------
(* Types. *)

\* The types that the invariants above do not speak of: those of the logger, of
\* an outcome by the kind of its thread, and that no collector runs twice.
Typed ==
  /\ points \in Installations /\ root \in RootLevels
  /\ level \in {0, WARNING} /\ propagate \in BOOLEAN /\ handlers \subseteq Doctors
  /\ saved \in [Doctors -> [level : {0, WARNING}, propagate : BOOLEAN]]
  /\ messages \in [Doctors -> Nat]
  /\ \A t \in Threads : outcome[t] \in Outcomes(t)
  /\ \A t \in Snappers : Len(effects[t]) <= Len(chosen[t])

\* Nothing is saved, logged or run at first.
LEMMA InitTyped == Init => Typed
<1> SUFFICES ASSUME Init PROVE Typed
  OBVIOUS
<1>1. \A t \in Snappers : effects[t] = << >> /\ chosen[t] \in Seq(Choice)
  BY InitSInv DEF Init, SInv, DriverInv, Good
<1>2. \A t \in Snappers : Len(effects[t]) <= Len(chosen[t])
  BY <1>1
<1>3. \A t \in Threads : outcome[t] \in Outcomes(t)
  BY DEF Init, Outcomes
<1> QED
  BY <1>2, <1>3 DEF Init, Typed

\* A record adds one or nothing to what each handler has.
LEMMA LogTyped ==
  ASSUME messages \in [Doctors -> Nat], NEW severity, Log(severity)
  PROVE  messages' \in [Doctors -> Nat]
  BY DEF Log

\* The steps of a discovery touch messages, and may raise.
LEMMA DiscoverTyped ==
  ASSUME SInv, Typed, NEW t \in Threads, Discover(t) PROVE Typed'
<1>1. UNCHANGED <<points, root, level, propagate, handlers, saved, effects>>
  BY DEF Discover, Load, LoadExits, LoadedAll, Accept, Choose, loggerVars, driverVars
<1>2. messages' \in [Doctors -> Nat]
  BY LogTyped DEF Typed, Discover, Load, LoadExits, LoadedAll, Accept, Choose, loggerVars
<1>3. \A u \in Threads : outcome'[u] \in Outcomes(u)
  <2>1. outcome' = outcome \/ outcome' = [outcome EXCEPT ![t] = "exit"]
    BY DEF Discover, Load, LoadExits, LoadedAll, Accept, Choose
  <2> QED
    BY <2>1 DEF SInv, Inv, Shape, Typed, Outcomes
<1>4. \A u \in Snappers : Len(effects'[u]) <= Len(chosen'[u])
  <2>1. CASE chosen' = chosen
    BY <1>1, <2>1 DEF Typed
  <2>2. CASE Choose(t)
    <3>1. SInv'
      BY <2>2, ChooseStep
    <3>2. \A u \in Snappers : u # t => chosen'[u] = chosen[u]
      BY <2>2 DEF Choose, SInv, DriverShape
    <3>3. \A u \in Snappers : u = t => effects'[u] = << >> /\ chosen'[u] \in Seq(Choice)
      BY <1>1, <2>2, <3>1 DEF Choose, SInv, DriverInv, Good
    <3> QED
      BY <1>1, <3>2, <3>3 DEF Typed
  <2> QED
    BY <2>1, <2>2 DEF Discover, Load, LoadExits, LoadedAll, Accept
<1> QED
  BY <1>1, <1>2, <1>3, <1>4 DEF Typed

\* A diagnosis saves what it finds, and puts it back.
LEMMA CaptureTyped ==
  ASSUME SInv, Typed, NEW d \in Doctors, BeginCapture(d) \/ EndCapture(d) PROVE Typed'
<1>1. UNCHANGED <<points, root, messages, effects, chosen>>
  BY DEF BeginCapture, EndCapture, driverVars
<1>2. /\ level' \in {0, WARNING} /\ propagate' \in BOOLEAN /\ handlers' \subseteq Doctors
      /\ saved' \in [Doctors -> [level : {0, WARNING}, propagate : BOOLEAN]]
  <2>1. CASE BeginCapture(d)
    BY <2>1 DEF BeginCapture, RaiseLevel, Typed
  <2>2. CASE EndCapture(d)
    BY <2>2 DEF EndCapture, Restore, Typed
  <2> QED
    BY <2>1, <2>2
<1>3. \A u \in Threads : outcome'[u] \in Outcomes(u)
  <2>1. outcome' = outcome \/ \E r \in {"exit", "ok", "warn"} : outcome' = [outcome EXCEPT ![d] = r]
    BY DEF BeginCapture, EndCapture
  <2> QED
    BY <2>1 DEF SInv, Inv, Shape, Typed, Outcomes
<1> QED
  BY <1>1, <1>2, <1>3 DEF Typed

\* A snapshot leaves the logger alone, and runs each collector once at most.
LEMMA SnapTyped ==
  ASSUME SInv, Typed, NEW t \in Snappers,
         Compose(t) \/ Drive(t) \/ Answer(t) \/ Fail(t) \/ Document(t)
  PROVE  Typed'
<1>1. UNCHANGED <<points, root, level, propagate, handlers, saved, messages, chosen>>
  BY DEF Compose, Drive, Answer, Fail, Document, loggerVars
<1>2. \A u \in Threads : outcome'[u] \in Outcomes(u)
  <2>1. \/ outcome' = outcome
        \/ \E r \in {"ValueError", "ProbeError", "TargetError", "document"} :
             outcome' = [outcome EXCEPT ![t] = r]
    BY DEF Compose, Drive, Answer, Fail, Document, End
  <2> QED
    BY <2>1, ThreadAssumption DEF SInv, Inv, Shape, Typed, Outcomes
<1>3. \A u \in Snappers : Len(effects'[u]) <= Len(chosen'[u])
  <2>1. CASE effects' = effects
    BY <1>1, <2>1 DEF Typed
  <2>2. CASE Drive(t)
    <3>1. PICK effect \in Effects : effects' = [effects EXCEPT ![t] = Append(@, effect)]
      BY <2>2 DEF Drive
    <3>2. \A u \in Snappers : u # t => effects'[u] = effects[u]
      BY <3>1 DEF SInv, DriverShape
    <3>3. effects'[t] = Append(effects[t], effect)
      BY <3>1 DEF SInv, DriverShape
    <3>4. /\ effects[t] \in Seq(Effects) /\ chosen[t] \in Seq(Choice) /\ reports[t] \in Seq(Report)
          /\ Len(effects[t]) = Len(reports[t]) /\ Len(reports[t]) <= Len(chosen[t])
          /\ Len(reports[t]) # Len(chosen[t])
      BY <2>2 DEF Drive, Exhausted, SInv, DriverInv, Good
    <3>5. Len(effects'[t]) <= Len(chosen[t])
      BY <3>3, <3>4
    <3> QED
      BY <1>1, <3>2, <3>5 DEF Typed
  <2> QED
    BY <2>1, <2>2 DEF Compose, Answer, Fail, Document, driverVars
<1> QED
  BY <1>1, <1>2, <1>3 DEF Typed

\* One step of any thread.
LEMMA NextTyped == ASSUME SInv, Typed, [Next]_vars PROVE Typed'
<1>1. CASE Next
  BY <1>1, DiscoverTyped, CaptureTyped, SnapTyped DEF Next
<1>2. CASE UNCHANGED vars
  BY <1>2 DEF Typed, vars, loggerVars, driverVars
<1> QED
  BY <1>1, <1>2

\* Both invariants together are the types.
LEMMA TypedImplies == SInv /\ Typed => TypeOK
<1> SUFFICES ASSUME SInv, Typed PROVE TypeOK
  OBVIOUS
<1>1. ASSUME NEW t \in Threads
      PROVE  /\ pc[t] \in Labels /\ todo[t] \subseteq DOMAIN points
             /\ loaded[t] \in Seq(DOMAIN points) /\ accepted[t] \in Seq(DOMAIN points)
  BY DEF SInv, Inv, Shape
<1>2. ASSUME NEW t \in Snappers
      PROVE  /\ reports[t] \in Seq([name : {chosen[t][k].section : k \in DOMAIN chosen[t]},
                                    status : {"ok", "error"}])
             /\ Len(reports[t]) <= Len(effects[t])
  <2> DEFINE cs == chosen[t]
             rs == reports[t]
             Filled == [name : {cs[k].section : k \in DOMAIN cs}, status : {"ok", "error"}]
  <2>1. /\ rs \in Seq(Report) /\ Len(rs) <= Len(effects[t])
        /\ \A k \in 1..Len(rs) : Turn(k, cs, effects[t], rs, sections[t])
    BY DEF SInv, DriverInv, Good
  <2>2. Len(rs) \in Nat /\ DOMAIN rs = 1..Len(rs) /\ rs = [k \in 1..Len(rs) |-> rs[k]]
    BY <2>1
  <2>3. ASSUME NEW k \in 1..Len(rs) PROVE rs[k] \in Filled
    <3>1. k \in DOMAIN cs /\ rs[k] = [name |-> cs[k].section, status |-> Status(effects[t][k])]
      BY <2>1 DEF Turn
    <3>2. Status(effects[t][k]) \in {"ok", "error"}
      BY DEF Status
    <3> HIDE DEF rs, cs
    <3> QED
      BY <3>1, <3>2
  <2>4. rs \in [1..Len(rs) -> Filled]
    <3> HIDE DEF Filled, rs
    <3> QED
      BY <2>2, <2>3
  <2>5. rs \in Seq(Filled)
    <3> HIDE DEF Filled, rs
    <3> QED
      BY <2>2, <2>4, SeqDef
  <2> QED
    BY <2>1, <2>5
<1> QED
  BY <1>1, <1>2 DEF TypeOK, Typed, Labels

-----------------------------------------------------------------------------
(* The theorems. *)

\* In a document, a section's report is an error exactly when its own collector
\* raised, and the section null exactly then or when that collector returned
\* None, whatever the others did.
THEOREM SectionsStandAlone == Spec => []EachSectionStandsAlone
  BY SInvHolds, SInvImplies, PTL

\* No failure of the ordinary kind costs the whole snapshot, neither by an error
\* envelope nor by the lack of one.
THEOREM OddFailuresOnly == Spec => []OnlyOddFailuresSpread
  BY SInvHolds, SInvImplies, PTL

\* No two sections of a payload have one name, and none has that of a key of
\* the document.
THEOREM NoCollisions == Spec => []SectionsNeverCollide
  BY SInvHolds, SInvImplies, PTL

\* Every variable of discovery, of the logger and of the driver has its type,
\* and no collector is run that was not chosen.
THEOREM SnapshotTypes == Spec => []TypeOK
<1>1. Spec => []Typed
  BY SInvHolds, InitTyped, NextTyped, PTL DEF Spec
<1> QED
  BY <1>1, SInvHolds, TypedImplies, PTL
===========================================================================
