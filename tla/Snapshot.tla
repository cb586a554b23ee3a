------------------------------ MODULE Snapshot ------------------------------
(***************************************************************************)
(* Plugin discovery (src/pidprobe/registry.py) and what rests on it: the      *)
(* snapshot, from the choice of its collectors (_commands.py, _snapshot.py)   *)
(* over the driver that runs them inside the target (collectors/_base.py) to  *)
(* the document; and the doctor's plugin check (_doctor.py), which listens to *)
(* the logger that every discovery of the process shares.                     *)
(*                                                                           *)
(* Threads of one process take snapshots and run diagnoses at the same time.  *)
(* The injection is one step here: it is the subject of ProbeSession.         *)
(***************************************************************************)
EXTENDS Integers, Sequences, FiniteSets

CONSTANTS
    Snappers,      \* threads that take a snapshot
    Doctors,       \* threads that run a diagnosis
    Builtins,      \* BUILTIN_COLLECTORS: section names, in order
    Installations, \* sequences of entry points, in installation order
    Selections,    \* collectors= arguments: sequences of section names
    RootLevels     \* levels the application may have set on the root logger

Threads == Snappers \cup Doctors
WARNING == 30
ERROR == 40
RESERVED_SECTION_NAMES == {"meta", "schema_version"}

ASSUME ThreadAssumption == Snappers \cap Doctors = {} /\ RootLevels \subseteq Nat
ASSUME BuiltinAssumption ==
  /\ Builtins \in Seq(STRING \ RESERVED_SECTION_NAMES)
  /\ \A i, j \in DOMAIN Builtins : Builtins[i] = Builtins[j] => i = j

\* An entry point: its name (a number, for its place in the alphabet), the
\* section its collector claims, and what becomes of loading it: a collector,
\* something that _as_collector rejects, or a BaseException.
EntryPoint == [entry : Nat, section : STRING, load : {"collector", "exception", "exit"}]

ASSUME InstallationAssumption == Installations \subseteq Seq(EntryPoint)

\* Who passes collectors has made them, and a Collector has no reserved name.
ASSUME SelectionAssumption == Selections \subseteq Seq(STRING \ RESERVED_SECTION_NAMES)

VARIABLES
    points,    \* the entry points of the group, in installation order
    root,      \* level of the root logger
    level, propagate, handlers, \* of the logger pidprobe.registry
    saved,     \* per diagnosis: level and propagate as it found them
    messages,  \* per diagnosis: records its handler got
    pc, asked, \* per thread: where it is, and which collectors it was asked for
    todo,      \* per thread: entry points not loaded yet
    loaded,    \* per thread: those that loaded, in order
    accepted,  \* per thread: those whose section was free, in order
    outcome,   \* per thread: what came of it
    chosen,    \* per snapshot: its collectors
    effects,   \* history, per snapshot: what each collector did
    reports, sections, \* per snapshot: as the driver builds them
    document   \* per snapshot: the document

loggerVars   == <<level, propagate, handlers, saved, messages>>
registryVars == <<todo, loaded, accepted>>
driverVars   == <<effects, reports, sections, document>>
vars == <<points, root, asked, pc, outcome, chosen, loggerVars, registryVars, driverVars>>

Given(names) == [k \in DOMAIN names |-> [section |-> names[k], by |-> 0]]

Init ==
  /\ points \in Installations
  /\ root \in RootLevels
  /\ level = 0 /\ propagate = TRUE /\ handlers = {}
  /\ saved = [t \in Doctors |-> [level |-> 0, propagate |-> TRUE]]
  /\ messages = [t \in Doctors |-> 0]
  /\ asked \in [Threads -> {"default", "unmasked", "given"}]
  /\ \A t \in Doctors : asked[t] = "default"
  /\ pc = [t \in Threads |-> CASE t \in Doctors           -> "capture"
                             [] asked[t] = "given" -> "compose"
                             [] OTHER                  -> "load"]
  /\ todo = [t \in Threads |-> DOMAIN points]
  /\ loaded = [t \in Threads |-> << >>] /\ accepted = [t \in Threads |-> << >>]
  /\ outcome = [t \in Threads |-> "none"]
  /\ chosen \in [Snappers -> {<< >>} \cup {Given(names) : names \in Selections}]
  /\ \A t \in Snappers : asked[t] # "given" => chosen[t] = << >>
  /\ effects = [t \in Snappers |-> << >>] /\ reports = [t \in Snappers |-> << >>]
  /\ sections = [t \in Snappers |-> << >>] /\ document = [t \in Snappers |-> << >>]

Goto(t, label) == pc' = [pc EXCEPT ![t] = label]

-----------------------------------------------------------------------------
(* The logger pidprobe.registry, and the doctor that listens to it. *)

EffectiveLevel == IF level = 0 THEN root ELSE level

\* A record reaches every handler of the logger, whoever caused it.
Log(severity) ==
  messages' = [d \in Doctors |->
                 messages[d] + IF d \in handlers /\ EffectiveLevel <= severity THEN 1 ELSE 0]

\* Mutants of RaiseLevel: the level is left as the application set it; only
\* errors are let through.
LeaveLevel == UNCHANGED level
RaiseToError == level' = IF EffectiveLevel > WARNING THEN ERROR ELSE level

RaiseLevel == level' = IF EffectiveLevel > WARNING THEN WARNING ELSE level

\* _captured_registry_warnings, up to its yield.
BeginCapture(d) ==
  /\ pc[d] = "capture"
  /\ saved' = [saved EXCEPT ![d] = [level |-> level, propagate |-> propagate]]
  /\ handlers' = handlers \cup {d}
  /\ propagate' = FALSE
  /\ RaiseLevel
  /\ Goto(d, "load")
  /\ UNCHANGED <<points, root, asked, outcome, chosen, messages, registryVars, driverVars>>

\* Mutant of Restore: there is no `finally`.
RestoreUnlessRaised(d) ==
  IF outcome[d] = "exit" THEN UNCHANGED <<handlers, level, propagate>>
  ELSE handlers' = handlers \ {d} /\ level' = saved[d].level /\ propagate' = saved[d].propagate

Restore(d) ==
  handlers' = handlers \ {d} /\ level' = saved[d].level /\ propagate' = saved[d].propagate

\* Its `finally` restores the logger; and the check that _check_collector_plugins makes of the
\* messages when discovery did not raise.
EndCapture(d) ==
  /\ pc[d] = "release"
  /\ Restore(d)
  /\ outcome' = [outcome EXCEPT ![d] = IF @ = "exit" THEN @
                                       ELSE IF messages[d] = 0 THEN "ok" ELSE "warn"]
  /\ Goto(d, "done")
  /\ UNCHANGED <<points, root, asked, chosen, saved, messages, registryVars, driverVars>>

-----------------------------------------------------------------------------
(* Discovery. *)

\* Mutant of Before: entry points are taken as they were installed.
InstalledBefore(i, j) == i < j

\* sorted() by entry point name keeps the order of equal names as it finds it,
\* which is that of installation.
Before(i, j) ==
  points[i].entry < points[j].entry \/ (points[i].entry = points[j].entry /\ i < j)

IsNext(t, i) == i \in todo[t] /\ \A j \in todo[t] \ {i} : Before(i, j)

\* Mutant of Loads: a section name is not compared with the reserved ones.
LoadsAnyName(i) == points[i].load = "collector"

\* _as_collector: Collector.__post_init__ rejects a reserved name.
Loads(i) == points[i].load = "collector" /\ points[i].section \notin RESERVED_SECTION_NAMES

Load(t) ==
  /\ pc[t] = "load"
  /\ \E i \in todo[t] :
       /\ IsNext(t, i) /\ points[i].load # "exit"
       /\ todo' = [todo EXCEPT ![t] = @ \ {i}]
       /\ IF Loads(i) THEN loaded' = [loaded EXCEPT ![t] = Append(@, i)] /\ UNCHANGED messages
          ELSE Log(ERROR) /\ UNCHANGED loaded
  /\ UNCHANGED <<points, root, asked, pc, outcome, chosen, level, propagate, handlers, saved,
                 accepted, driverVars>>

\* `except Exception` lets a SystemExit or KeyboardInterrupt pass.
LoadExits(t) ==
  /\ pc[t] = "load"
  /\ \E i \in todo[t] : IsNext(t, i) /\ points[i].load = "exit"
  /\ outcome' = [outcome EXCEPT ![t] = "exit"]
  /\ Goto(t, IF t \in Doctors THEN "release" ELSE "done")
  /\ UNCHANGED <<points, root, asked, chosen, loggerVars, registryVars, driverVars>>

LoadedAll(t) ==
  /\ pc[t] = "load" /\ todo[t] = {}
  /\ Goto(t, "accept")
  /\ UNCHANGED <<points, root, asked, outcome, chosen, loggerVars, registryVars, driverVars>>

Sections(t) == {points[accepted[t][k]].section : k \in DOMAIN accepted[t]}

BuiltinNames == {Builtins[k] : k \in DOMAIN Builtins}

Taken(t, name) == name \in BuiltinNames \cup Sections(t)

\* _accepted, one candidate at a time. Discovery runs it once over the plugins
\* and available_collectors once more with the built-in names taken: what
\* either rejects is logged once, and only the order of those records is lost.
Accept(t) ==
  /\ pc[t] = "accept" /\ loaded[t] # << >>
  /\ LET i == Head(loaded[t])
     IN  IF Taken(t, points[i].section) THEN Log(WARNING) /\ UNCHANGED accepted
         ELSE accepted' = [accepted EXCEPT ![t] = Append(@, i)] /\ UNCHANGED messages
  /\ loaded' = [loaded EXCEPT ![t] = Tail(@)]
  /\ UNCHANGED <<points, root, asked, pc, outcome, chosen, level, propagate, handlers, saved,
                 todo, driverVars>>

\* available_collectors returns; _snap_collectors swaps the stacks collector
\* for one that does not mask.
available_collectors(t) ==
  [k \in DOMAIN Builtins |-> [section |-> Builtins[k], by |-> 0]]
    \o [k \in DOMAIN accepted[t] |-> [section |-> points[accepted[t][k]].section, by |-> accepted[t][k]]]

Choose(t) ==
  /\ pc[t] = "accept" /\ loaded[t] = << >>
  /\ IF t \in Doctors THEN Goto(t, "release") /\ UNCHANGED chosen
     ELSE /\ Goto(t, "compose")
          /\ chosen' = [chosen EXCEPT ![t] =
               [k \in DOMAIN available_collectors(t) |->
                  IF asked[t] = "unmasked" /\ available_collectors(t)[k].section = "stacks"
                  THEN [section |-> "stacks", by |-> -1] ELSE available_collectors(t)[k]]]
  /\ UNCHANGED <<points, root, asked, outcome, loggerVars, registryVars, driverVars>>

-----------------------------------------------------------------------------
(* The snapshot. *)

End(t, result) == outcome' = [outcome EXCEPT ![t] = result] /\ Goto(t, "done")

\* Mutant of Composable: repeated names are not looked for.
ComposableOnce(cs) == cs # << >>

Composable(cs) == cs # << >> /\ \A i, j \in DOMAIN cs : cs[i].section = cs[j].section => i = j

\* compose_collector_source raises before anything is injected; so may
\* execute_in_target.
Compose(t) ==
  /\ pc[t] = "compose"
  /\ CASE ~Composable(chosen[t]) -> End(t, "ValueError")
       [] OTHER -> \/ Goto(t, "drive") /\ UNCHANGED outcome
                   \/ End(t, "ProbeError")
  /\ UNCHANGED <<points, root, asked, chosen, loggerVars, registryVars, driverVars>>

\* What a collector may do: return data, nothing, or data that json cannot
\* write; raise an Exception, with or without a str(); raise something that is
\* none.
Effects == {"data", "nothing", "odd data", "exception", "odd exception", "exit"}

\* Mutant of Caught: the driver has no `try`.
CaughtNothing(effect) == effect \in {"data", "nothing", "odd data"}

Caught(effect) == effect \in {"data", "nothing", "odd data", "exception"}

\* What becomes of the section, and of its report. None is data like any other.
Filed(effect) == IF effect \in {"exception", "nothing"} THEN "null" ELSE effect

Status(effect) == IF effect = "exception" THEN "error" ELSE "ok"

\* Mutant of Exhausted: a failure ends the loop.
ExhaustedOrFailed(t) ==
  Len(reports[t]) = Len(chosen[t]) \/ \E k \in DOMAIN reports[t] : reports[t][k].status = "error"

Exhausted(t) == Len(reports[t]) = Len(chosen[t])

With(f, name, value) == [n \in DOMAIN f \cup {name} |-> IF n = name THEN value ELSE f[n]]

\* One turn of the driver's loop: the section and its report.
Drive(t) ==
  /\ pc[t] = "drive" /\ ~Exhausted(t)
  /\ \E effect \in Effects :
       /\ effects' = [effects EXCEPT ![t] = Append(@, effect)]
       /\ IF Caught(effect)
          THEN LET name == chosen[t][Len(reports[t]) + 1].section
               IN  /\ sections' = [sections EXCEPT ![t] = With(@, name, Filed(effect))]
                   /\ reports' = [reports EXCEPT ![t] =
                        Append(@, [name |-> name, status |-> Status(effect)])]
                   /\ UNCHANGED pc
          ELSE Goto(t, "failed") /\ UNCHANGED <<reports, sections>>
  /\ UNCHANGED <<points, root, asked, outcome, chosen, loggerVars, registryVars, document>>

\* The payload is complete and json.dumps writes it, or raises.
Answer(t) ==
  /\ pc[t] = "drive" /\ Exhausted(t)
  /\ Goto(t, IF \E n \in DOMAIN sections[t] : sections[t][n] = "odd data" THEN "failed" ELSE "document")
  /\ UNCHANGED <<points, root, asked, outcome, chosen, loggerVars, registryVars, driverVars>>

\* payload_of raises a TargetError for an error envelope; building that
\* envelope may fail in its turn, and the call runs out of time.
Fail(t) ==
  /\ pc[t] = "failed"
  /\ \E result \in {"TargetError", "ProbeError"} : End(t, result)
  /\ UNCHANGED <<points, root, asked, chosen, loggerVars, registryVars, driverVars>>

\* _document puts the sections next to its own keys.
Document(t) ==
  /\ pc[t] = "document"
  /\ document' = [document EXCEPT ![t] =
       [n \in RESERVED_SECTION_NAMES \cup DOMAIN sections[t] |->
          IF n \in DOMAIN sections[t] THEN sections[t][n] ELSE "own"]]
  /\ End(t, "document")
  /\ UNCHANGED <<points, root, asked, chosen, loggerVars, registryVars, effects, reports, sections>>

Discover(t) == Load(t) \/ LoadExits(t) \/ LoadedAll(t) \/ Accept(t) \/ Choose(t)

Next ==
  \/ \E t \in Threads : Discover(t)
  \/ \E t \in Doctors : BeginCapture(t) \/ EndCapture(t)
  \/ \E t \in Snappers : Compose(t) \/ Drive(t) \/ Answer(t) \/ Fail(t) \/ Document(t)

Spec == Init /\ [][Next]_vars

-----------------------------------------------------------------------------
(* Properties. *)

Outcomes(t) == IF t \in Doctors THEN {"none", "exit", "ok", "warn"}
               ELSE {"none", "exit", "ValueError", "ProbeError", "TargetError", "document"}

\* Every variable has its type; discovered lists hold entry points of the group.
TypeOK ==
  /\ points \in Installations /\ root \in RootLevels
  /\ level \in {0, WARNING} /\ propagate \in BOOLEAN /\ handlers \subseteq Doctors
  /\ saved \in [Doctors -> [level : {0, WARNING}, propagate : BOOLEAN]]
  /\ messages \in [Doctors -> Nat]
  /\ \A t \in Threads :
       /\ pc[t] \in {"capture", "load", "accept", "release", "compose", "drive", "failed", "document", "done"}
       /\ todo[t] \subseteq DOMAIN points
       /\ loaded[t] \in Seq(DOMAIN points) /\ accepted[t] \in Seq(DOMAIN points)
       /\ outcome[t] \in Outcomes(t)
  /\ \A t \in Snappers :
       /\ reports[t] \in Seq([name : {chosen[t][k].section : k \in DOMAIN chosen[t]},
                              status : {"ok", "error"}])
       /\ Len(reports[t]) <= Len(effects[t]) /\ Len(effects[t]) <= Len(chosen[t])

Sound(i) == points[i].load = "collector" /\ points[i].section \notin RESERVED_SECTION_NAMES

\* The plugins that may have the section they claim.
Candidates == {i \in DOMAIN points : Sound(i) /\ points[i].section \notin BuiltinNames}

Discovered(t) == pc[t] \notin {"capture", "load", "accept"} /\ outcome[t] # "exit" /\ asked[t] # "given"

\* A finished discovery has one plugin for every section that a candidate
\* claims, in the order of entry point names, and no claimant of that section
\* has a smaller name: however plugins were installed, it is the same one
\* unless two names are equal (discover_collectors, available_collectors).
FirstClaimWins ==
  \A t \in Threads : Discovered(t) =>
    LET plugins == {accepted[t][k] : k \in DOMAIN accepted[t]}
    IN  /\ plugins \subseteq Candidates
        /\ \A j \in Candidates : \E i \in plugins :
             points[i].section = points[j].section /\ points[i].entry <= points[j].entry
        /\ \A i, j \in plugins : points[i].section = points[j].section => i = j
        /\ \A k, m \in DOMAIN accepted[t] :
             k < m => points[accepted[t][k]].entry <= points[accepted[t][m]].entry

\* Every plugin is a candidate, and no two claim one section.
NothingToSkip ==
  /\ DOMAIN points = Candidates
  /\ \A i, j \in DOMAIN points : points[i].section = points[j].section => i = j

\* Whatever level the application gave its loggers, and whatever other threads
\* discover at the same time, a diagnosis warns of plugins exactly when some
\* plugin is missing from what a snapshot would run
\* (_check_collector_plugins).
CheckTellsSkips ==
  \A d \in Doctors : outcome[d] \in {"ok", "warn"} =>
    (outcome[d] = "ok" <=> NothingToSkip)

\* When no diagnosis is under way, the logger is as the application left it,
\* also after a discovery that raised (_captured_registry_warnings).
LoggerRestored ==
  (\A d \in Doctors : pc[d] \in {"capture", "done"}) =>
    level = 0 /\ propagate /\ handlers = {}

\* A document has every chosen section and a report for each, in order; the
\* report is an error exactly when its own collector raised, and the section is
\* null exactly then or when that collector returned None (the driver of
\* _base.py, _document).
EachSectionStandsAlone ==
  \A t \in Snappers : outcome[t] = "document" =>
    /\ Len(reports[t]) = Len(chosen[t])
    /\ \A k \in DOMAIN chosen[t] :
         /\ chosen[t][k].section \in DOMAIN document[t]
         /\ reports[t][k].name = chosen[t][k].section
         /\ document[t][chosen[t][k].section] =
              (IF effects[t][k] \in {"exception", "nothing"} THEN "null" ELSE "data")
         /\ reports[t][k].status = "error" <=> effects[t][k] = "exception"

\* What collectors do loses a snapshot as a whole, to an error envelope or to
\* none at all, only when one of them did what its own `except` cannot contain;
\* a failure of the ordinary kind never costs it (the driver of _base.py).
\* Where the channel itself fails the driver is not followed: see Compose.
OnlyOddFailuresSpread ==
  \A t \in Snappers :
    outcome[t] \in {"TargetError", "ProbeError"} /\ effects[t] # << >> =>
      \E k \in DOMAIN effects[t] : effects[t][k] \notin {"data", "nothing", "exception"}

\* Nothing runs in the target unless the sections have distinct names, and no
\* section takes the place of the document's own keys
\* (compose_collector_source, _document).
SectionsNeverCollide ==
  \A t \in Snappers :
    /\ effects[t] # << >> => \A i, j \in DOMAIN chosen[t] :
                               i # j => chosen[t][i].section # chosen[t][j].section
    /\ outcome[t] = "document" => \A n \in RESERVED_SECTION_NAMES : document[t][n] = "own"
===========================================================================
