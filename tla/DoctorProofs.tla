---------------------------- MODULE DoctorProofs ----------------------------
(***************************************************************************)
(* Proofs about Doctor, for every set of hosts and of processes, every        *)
(* version of the prober, and however often the pid changes hands.            *)
(***************************************************************************)
EXTENDS Doctor, TLAPS

Statuses == {"ok", "warn", "fail", "skipped"}

\* What one check may say of an obstacle that is there, or is not.
Honest(c) ==
  /\ c.status = "ok" => \/ Sought[c.name] \notin Obstacles(c.about)
                        \/ Sought[c.name] \in Unseen(c.about)
  /\ c.status = "fail" =>
       Sought[c.name] \in Obstacles(c.about) \cup Overstated(c.about) \cup Unseen(c.about)

HonestChecks == \A i \in DOMAIN checks : Honest(checks[i])

\* Only what looks like an interpreter is ever about to be run.
QueryInOrder == pc = "query" => found \in Processes /\ found.executable = "python"

CodeIsLast == pc # "done" => code = -1 /\ ~delivered

Inv == TypeOK /\ HonestChecks /\ QueryInOrder /\ CodeIsLast /\ OnlyInterpretersAreRun

-----------------------------------------------------------------------------
(* What the checks look for. *)

\* Each check is about one obstacle.
LEMMA SoughtBy ==
  /\ Sought["prober_remote_debug"] = "debugging" /\ Sought["return_channel"] = "channel"
  /\ Sought["collector_plugins"] = "plugins" /\ Sought["ptrace_scope"] = "scope"
  /\ Sought["task_for_pid"] = "task port" /\ Sought["target_process"] = "process"
  /\ Sought["target_owner"] = "owner" /\ Sought["pid_namespace"] = "namespace"
  /\ Sought["target_python"] = "python" /\ Sought["target_python_version"] = "python"
  /\ Sought["target_python_match"] = "release" /\ Sought["target_remote_debug"] = "switch"
  /\ DOMAIN Sought = {"prober_remote_debug", "return_channel", "collector_plugins",
       "ptrace_scope", "task_for_pid", "target_process", "target_owner", "pid_namespace",
       "target_python", "target_python_version", "target_python_match", "target_remote_debug"}
  BY DEF Sought

\* The obstacles of the prober's own host.
LEMMA HostObstacleMeaning ==
  ASSUME NEW p
  PROVE  /\ "debugging" \in Obstacles(p) <=> host.debugging # "enabled"
         /\ "channel" \in Obstacles(p) <=> ~host.socket /\ ~host.tempdir
         /\ "scope" \in Obstacles(p) <=> /\ Linux /\ host.scope # NoKnob /\ host.scope > 1
                                         /\ host.scope = 2 => ~Privileged
         /\ "task port" \in Obstacles(p) <=> MacOS /\ ~Privileged
         /\ "plugins" \notin Obstacles(p)
  BY DEF Obstacles, HostObstacles, TargetObstacles

\* The obstacles of a target.
LEMMA TargetObstacleMeaning ==
  ASSUME NEW p, p # NoProcess
  PROVE  /\ "process" \in Obstacles(p) <=> ~Permitted(p)
         /\ "owner" \in Obstacles(p) <=> ~Permitted(p)
         /\ "namespace" \in Obstacles(p) <=> p.namespace # "own"
         /\ "python" \in Obstacles(p) <=>
              \/ p.python.implementation # "cpython"
              \/ p.python.version[1] < 3 \/ (p.python.version[1] = 3 /\ p.python.version[2] < 14)
         /\ "release" \in Obstacles(p) <=> p.python.version # ProberVersion
         /\ "switch" \in Obstacles(p) <=> p.disabled
  BY DEF Obstacles, HostObstacles, TargetObstacles

\* What the checks cannot see, and what they overstate.
LEMMA BlindSpots ==
  ASSUME NEW p
  PROVE  /\ "scope" \in Unseen(p) <=> ~host.readable
         /\ p # NoProcess /\ p.atPath # p.python => {"python", "release"} \subseteq Unseen(p)
         /\ Privileged /\ host.scope = 2 => "scope" \in Overstated(p)
         /\ host.capable => "task port" \in Overstated(p)
         /\ host.capable /\ p # NoProcess => {"process", "owner"} \subseteq Overstated(p)
  BY DEF Unseen, Overstated, Elsewhere

\* Nobody can attach to a process that is not there.
LEMMA AbsenceMeaning ==
  {"process", "owner", "namespace", "python", "release", "switch"} \subseteq Obstacles(NoProcess)
  BY DEF Obstacles, TargetObstacles

-----------------------------------------------------------------------------
(* Adding a check to the list. *)

\* Honesty is a matter of the host, which does not change.
LEMMA HonestyStays == ASSUME UNCHANGED host, NEW c PROVE Honest(c)' <=> Honest(c)
  BY DEF Honest, Obstacles, HostObstacles, TargetObstacles, Overstated, Unseen, Elsewhere, Linux,
         MacOS, Permitted, SameUser, Privileged

\* One honest check more.
LEMMA AddHonest ==
  ASSUME TypeOK, HonestChecks, UNCHANGED host,
         NEW c \in CheckType, Honest(c), checks' = Append(checks, c)
  PROVE  HonestChecks' /\ checks' \in Seq(CheckType)
<1>1. checks \in Seq(CheckType) /\ checks' \in Seq(CheckType)
  BY DEF TypeOK
<1>2. \A i \in DOMAIN checks' : Honest(checks'[i])
  BY <1>1 DEF HonestChecks
<1> QED
  BY <1>1, <1>2, HonestyStays DEF HonestChecks

\* A check that concludes honestly keeps the whole invariant.
LEMMA ConcludeInv ==
  ASSUME Inv, NEW name \in DOMAIN Sought, NEW status \in Statuses, NEW next \in Pcs \ {"query"},
         Conclude(name, status, next), Honest(Check(name, status, holder))
  PROVE  Inv'
<1>1. Check(name, status, holder) \in CheckType
  BY DEF Inv, TypeOK, CheckType, Check, Statuses
<1>2. HonestChecks' /\ checks' \in Seq(CheckType)
  BY <1>1, AddHonest DEF Inv, Conclude, worldVars
<1>3. TypeOK'
  BY <1>2 DEF Inv, TypeOK, Conclude, worldVars
<1>4. QueryInOrder' /\ OnlyInterpretersAreRun'
  BY DEF Inv, Conclude, QueryInOrder, OnlyInterpretersAreRun
<1>5. CodeIsLast'
  BY SoughtBy DEF Inv, Conclude, CodeIsLast
<1> QED
  BY <1>2, <1>3, <1>4, <1>5 DEF Inv

\* Checks of the prober's own host.
LEMMA HostChecks ==
  ASSUME Inv, \/ CheckProberRemoteDebug \/ CheckReturnChannel \/ CheckCollectorPlugins
              \/ CheckPtraceScope \/ CheckTaskForPid
  PROVE  Inv'
<1>1. host \in HostType
  BY WorldAssumption DEF Inv, TypeOK
<1>2. CASE CheckProberRemoteDebug
  <2> DEFINE s == IF host.debugging = "enabled" THEN "ok" ELSE "fail"
  <2>1. Honest(Check("prober_remote_debug", s, holder))
    BY HostObstacleMeaning, SoughtBy DEF Honest, Check
  <2> QED
    BY <1>2, <2>1, ConcludeInv, SoughtBy DEF CheckProberRemoteDebug, Statuses, Pcs
<1>3. CASE CheckReturnChannel
  <2> DEFINE s == CASE host.socket -> "ok" [] host.tempdir -> "warn" [] OTHER -> "fail"
  <2>1. s \in Statuses /\ Conclude("return_channel", s, "collector_plugins")
    BY <1>3 DEF CheckReturnChannel, Statuses
  <2>2. (s = "ok" => host.socket) /\ (s = "fail" => ~host.socket /\ ~host.tempdir)
    OBVIOUS
  <2>3. Honest(Check("return_channel", s, holder))
    BY <2>2, HostObstacleMeaning, SoughtBy DEF Honest, Check
  <2> QED
    BY <2>1, <2>3, ConcludeInv, SoughtBy DEF Pcs
<1>4. CASE CheckCollectorPlugins
  <2> DEFINE s == IF host.plugins = "load" THEN "ok" ELSE "warn"
  <2>1. Honest(Check("collector_plugins", s, holder))
    BY HostObstacleMeaning, SoughtBy DEF Honest, Check
  <2> QED
    BY <1>4, <2>1, ConcludeInv, SoughtBy DEF CheckCollectorPlugins, Statuses, Pcs
<1>5. CASE CheckPtraceScope
  <2> DEFINE s == CASE ~Linux             -> "skipped"
                    [] ScopeRead = NoKnob -> "ok"
                    [] OTHER -> CASE ScopeRead <= 0 -> "ok" [] ScopeRead = 1 -> "warn" [] OTHER -> "fail"
  <2>1. Conclude("ptrace_scope", s, "task_for_pid")
    BY <1>5 DEF CheckPtraceScope
  <2>2. /\ s \in Statuses
        /\ s = "ok" => ~Linux \/ ScopeRead = NoKnob \/ ScopeRead <= 0
        /\ s = "fail" => Linux /\ ScopeRead # NoKnob /\ ~(ScopeRead <= 0) /\ ScopeRead # 1
    <3>1. CASE ~Linux
      BY <3>1 DEF Statuses
    <3>2. CASE Linux /\ ScopeRead = NoKnob
      BY <3>2 DEF Statuses
    <3>3. CASE Linux /\ ScopeRead # NoKnob
      BY <3>3 DEF Statuses
    <3> QED
      BY <3>1, <3>2, <3>3
  <2> HIDE DEF s
  <2>3. host.scope # NoKnob => host.scope \in Int
    BY <1>1 DEF HostType
  <2>4. /\ s = "ok" => ~host.readable \/ ~Linux \/ host.scope = NoKnob \/ ~(host.scope > 1)
        /\ s = "fail" => Linux /\ host.scope # NoKnob /\ host.scope > 1
    BY <2>2, <2>3 DEF ScopeRead
  <2>5. /\ s = "ok" => "scope" \notin Obstacles(holder) \/ "scope" \in Unseen(holder)
        /\ s = "fail" => "scope" \in Obstacles(holder) \cup Overstated(holder)
    BY <2>4, HostObstacleMeaning, BlindSpots
  <2>6. Honest(Check("ptrace_scope", s, holder))
    BY <2>5, SoughtBy DEF Honest, Check
  <2> QED
    BY <2>1, <2>2, <2>6, ConcludeInv, SoughtBy DEF Pcs
<1>6. CASE CheckTaskForPid
  <2> DEFINE s == CASE ~MacOS -> "skipped" [] host.euid = "root" -> "ok" [] OTHER -> "fail"
             n == IF withPid THEN "target_process" ELSE "report"
  <2>1. s \in Statuses /\ n \in Pcs \ {"query"} /\ Conclude("task_for_pid", s, n)
    BY <1>6 DEF CheckTaskForPid, Statuses, Pcs
  <2>2. /\ s = "ok" => ~MacOS \/ Privileged
        /\ s = "fail" => MacOS /\ (~Privileged \/ host.capable)
    BY DEF Privileged
  <2> HIDE DEF s
  <2>3. Honest(Check("task_for_pid", s, holder))
    BY <2>2, HostObstacleMeaning, BlindSpots, SoughtBy DEF Honest, Check
  <2> QED
    BY <2>1, <2>3, ConcludeInv, SoughtBy DEF s
<1> QED
  BY <1>2, <1>3, <1>4, <1>5, <1>6

\* Who is let through although the users differ.
LEMMA PermittedMeaning ==
  ASSUME NEW p
  PROVE  (SameUser(p) => Permitted(p)) /\ (~SameUser(p) /\ Permitted(p) => host.capable)
  BY DEF Permitted, SameUser, Privileged

\* Checks of whoever bears the pid at the moment of the check.
LEMMA TargetChecks ==
  ASSUME Inv, CheckTargetProcess \/ CheckTargetOwner \/ CheckPidNamespace \/ CheckTargetRemoteDebug
  PROVE  Inv'
<1>1. host \in HostType /\ (holder # NoProcess => holder \in ProcessType)
  BY WorldAssumption DEF Inv, TypeOK
<1>2. CASE CheckTargetProcess
  <2> DEFINE s == IF holder # NoProcess /\ SameUser(holder) THEN "ok" ELSE "fail"
  <2>1. Honest(Check("target_process", s, holder))
    BY PermittedMeaning, TargetObstacleMeaning, AbsenceMeaning, BlindSpots, SoughtBy
       DEF Honest, Check
  <2> QED
    BY <1>2, <2>1, ConcludeInv, SoughtBy DEF CheckTargetProcess, Statuses, Pcs
<1>3. CASE CheckTargetOwner
  <2>1. PICK known \in UidKnown(holder) :
          Conclude("target_owner",
                   CASE ~known -> "skipped" [] known /\ SameUser(holder) -> "ok" [] OTHER -> "fail",
                   "pid_namespace")
    BY <1>3 DEF CheckTargetOwner
  <2>2. known \in BOOLEAN /\ (known => holder # NoProcess)
    BY <2>1 DEF UidKnown, PsAnswers
  <2> DEFINE s == CASE ~known -> "skipped" [] known /\ SameUser(holder) -> "ok" [] OTHER -> "fail"
  <2>3. s \in Statuses
    BY <2>2 DEF Statuses
  <2>4. Honest(Check("target_owner", s, holder))
    BY <2>2, PermittedMeaning, TargetObstacleMeaning, BlindSpots, SoughtBy DEF Honest, Check
  <2> QED
    BY <2>1, <2>3, <2>4, ConcludeInv, SoughtBy DEF Pcs
<1>4. CASE CheckPidNamespace
  <2> DEFINE s == CASE ~ProcfsKnown(holder) -> "skipped"
                    [] OTHER -> IF holder.namespace = "own" THEN "ok" ELSE "fail"
  <2>1. s \in Statuses /\ Conclude("pid_namespace", s, "target_python")
    BY <1>4 DEF CheckPidNamespace, Statuses
  <2>2. Honest(Check("pid_namespace", s, holder))
    BY TargetObstacleMeaning, SoughtBy DEF Honest, Check, ProcfsKnown
  <2> QED
    BY <2>1, <2>2, ConcludeInv, SoughtBy DEF Pcs
<1>5. CASE CheckTargetRemoteDebug
  <2>1. RemoteDebugStatus(holder) \in Statuses
    BY DEF RemoteDebugStatus, Statuses
  <2>2. Honest(Check("target_remote_debug", RemoteDebugStatus(holder), holder))
    BY <1>1, TargetObstacleMeaning, SoughtBy DEF Honest, Check, ProcfsKnown, RemoteDebugStatus, ProcessType
  <2> QED
    BY <1>5, <2>1, <2>2, ConcludeInv, SoughtBy DEF CheckTargetRemoteDebug, Pcs
<1> QED
  BY <1>2, <1>3, <1>4, <1>5

\* Looking at the executable: what cannot be run is a warning.
LEMMA FindInv == ASSUME Inv, FindExecutable PROVE Inv'
<1>1. PICK known \in ExecutableKnown(holder) :
        IF known /\ Interpreter(holder)
        THEN found' = holder /\ pc' = "query" /\ UNCHANGED checks
        ELSE /\ checks' = Append(checks, Check("target_python", "warn", holder))
             /\ pc' = "target_remote_debug" /\ UNCHANGED found
  BY DEF FindExecutable
<1>2. /\ pc = "target_python" /\ UNCHANGED <<host, withPid, holder, changes, ran, delivered, code>>
      /\ code = -1
  BY DEF FindExecutable, worldVars, Inv, CodeIsLast
<1>3. CASE known /\ Interpreter(holder)
  <2>1. known => holder # NoProcess
    BY <1>1 DEF ExecutableKnown, PsAnswers
  <2>2. found' \in Processes /\ found'.executable = "python" /\ pc' = "query" /\ UNCHANGED checks
    BY <1>1, <1>3, <2>1 DEF Inv, TypeOK, Interpreter
  <2>3. HonestChecks'
    BY <1>2, <2>2, HonestyStays DEF Inv, HonestChecks
  <2>4. TypeOK'
    BY <1>2, <2>2 DEF Inv, TypeOK, Pcs
  <2> QED
    BY <1>2, <2>2, <2>3, <2>4 DEF Inv, QueryInOrder, CodeIsLast, OnlyInterpretersAreRun
<1>4. CASE ~(known /\ Interpreter(holder))
  <2> DEFINE c == Check("target_python", "warn", holder)
  <2>1. c \in CheckType /\ Honest(c)
    BY SoughtBy DEF Inv, TypeOK, CheckType, Check, Honest
  <2>2. checks' = Append(checks, c) /\ pc' = "target_remote_debug" /\ UNCHANGED found
    BY <1>1, <1>4
  <2> HIDE DEF c
  <2>3. HonestChecks' /\ checks' \in Seq(CheckType)
    BY <1>2, <2>1, <2>2, AddHonest DEF Inv
  <2>4. TypeOK'
    BY <1>2, <2>2, <2>3 DEF Inv, TypeOK, Pcs
  <2> QED
    BY <1>2, <2>2, <2>3, <2>4 DEF Inv, QueryInOrder, CodeIsLast, OnlyInterpretersAreRun
<1> QED
  BY <1>3, <1>4

\* What the version check concludes, of every pair of numbers.
LEMMA VersionHonest ==
  ASSUME NEW p \in Processes
  PROVE  /\ Honest(CheckVersion(p)) /\ Honest(CheckMatchesProber(p))
         /\ CheckVersion(p) \in CheckType /\ CheckMatchesProber(p) \in CheckType
<1> DEFINE v == p.atPath.version
<1>1. p # NoProcess /\ v[1] \in Int /\ v[2] \in Int
  BY WorldAssumption DEF ProcessType, PythonType
<1>2. Older(v, MINIMUM_TARGET_VERSION) <=> v[1] < 3 \/ (v[1] = 3 /\ v[2] < 14)
  BY <1>1 DEF Older, MINIMUM_TARGET_VERSION
<1>3. p.atPath = p.python \/ {"python", "release"} \subseteq Unseen(p)
  BY <1>1, BlindSpots
<1> DEFINE c == CheckVersion(p)
           d == CheckMatchesProber(p)
<1>4. /\ c.name = "target_python_version" /\ c.about = p
      /\ c.status = IF p.atPath.implementation # "cpython" \/ v[1] < 3 \/ (v[1] = 3 /\ v[2] < 14)
                    THEN "fail" ELSE "ok"
      /\ d.name = "target_python_match" /\ d.about = p
      /\ d.status = IF v = ProberVersion THEN "ok" ELSE "fail"
  BY <1>2 DEF CheckVersion, CheckMatchesProber, Check
<1> HIDE DEF c, d
<1>5. Honest(c) /\ Honest(d)
  <2>1. CASE p.atPath = p.python
    <3>1. /\ "python" \in Obstacles(p) <=> c.status = "fail"
          /\ "release" \in Obstacles(p) <=> d.status = "fail"
          /\ c.status \in {"ok", "fail"} /\ d.status \in {"ok", "fail"}
      BY <1>1, <1>4, <2>1, TargetObstacleMeaning
    <3> QED
      BY <1>4, <3>1, SoughtBy DEF Honest
  <2>2. CASE {"python", "release"} \subseteq Unseen(p)
    BY <1>4, <2>2, SoughtBy DEF Honest
  <2> QED
    BY <1>3, <2>1, <2>2
<1> QED
  BY <1>5, SoughtBy DEF c, d, CheckVersion, CheckMatchesProber, Check, CheckType

\* The answer of the executable is reported of the process it was found for,
\* whoever bears the pid by then.
LEMMA QueryInv == ASSUME Inv, QueryInterpreter PROVE Inv'
<1>1. /\ pc = "query" /\ pc' = "target_remote_debug" /\ ran' = ran \cup {found}
      /\ UNCHANGED <<host, withPid, holder, changes, found, delivered, code>> /\ code = -1
      /\ found \in Processes /\ found.executable = "python"
  BY DEF QueryInterpreter, Queried, worldVars, Inv, CodeIsLast, QueryInOrder
<1>2. HonestChecks' /\ checks' \in Seq(CheckType)
  <2>1. CASE checks' = Append(checks, Check("target_python", "warn", found))
    <3>1. Check("target_python", "warn", found) \in CheckType /\ Honest(Check("target_python", "warn", found))
      BY <1>1, SoughtBy DEF CheckType, Check, Honest
    <3> QED
      BY <1>1, <2>1, <3>1, AddHonest DEF Inv
  <2>2. CASE checks' = checks \o <<CheckVersion(found), CheckMatchesProber(found)>>
    <3> DEFINE a == CheckVersion(found)
               b == CheckMatchesProber(found)
    <3>1. a \in CheckType /\ b \in CheckType /\ Honest(a) /\ Honest(b)
      BY <1>1, VersionHonest
    <3>2. checks \in Seq(CheckType)
      BY DEF Inv, TypeOK
    <3> HIDE DEF a, b
    <3>3. checks' = checks \o <<a, b>>
      BY <2>2 DEF a, b
    <3>4. checks' \in Seq(CheckType) /\ \A i \in DOMAIN checks' : Honest(checks'[i])
      BY <3>1, <3>2, <3>3 DEF Inv, HonestChecks
    <3> QED
      BY <1>1, <3>4, HonestyStays DEF HonestChecks
  <2> QED
    BY <2>1, <2>2 DEF QueryInterpreter, Queried
<1>3. TypeOK'
  BY <1>1, <1>2 DEF Inv, TypeOK, Pcs
<1> QED
  BY <1>1, <1>2, <1>3 DEF Inv, QueryInOrder, CodeIsLast, OnlyInterpretersAreRun

\* How main() ends when nobody reads the report, or nobody waits for it.
LEMMA CodesOfEnds == CodeOf("BrokenPipeError") = 141 /\ CodeOf("KeyboardInterrupt") = 130
  BY DEF CodeOf, ProbeErrors, EXIT_BROKEN_PIPE, EXIT_INTERRUPTED

\* The end, with a report or without one.
LEMMA EndInv == ASSUME Inv, Report \/ Interrupt \/ PluginExits PROVE Inv'
<1>1. /\ UNCHANGED <<host, withPid, holder, changes, found, ran, checks>>
      /\ pc' = "done" /\ delivered' \in BOOLEAN
  BY DEF Report, Interrupt, PluginExits, Return, worldVars, Inv, TypeOK
<1>2. code' \in -1..255
  <2>1. CASE Report
    BY <2>1, CodesOfEnds DEF Report, Return, EXIT_OK, EXIT_DIAGNOSIS_FAILED
  <2>2. CASE Interrupt
    BY <2>2, CodesOfEnds DEF Interrupt, Return
  <2>3. CASE PluginExits
    BY <2>3 DEF PluginExits, Return
  <2> QED
    BY <2>1, <2>2, <2>3
<1>3. HonestChecks'
  BY <1>1, HonestyStays DEF Inv, HonestChecks
<1> QED
  BY <1>1, <1>2, <1>3 DEF Inv, TypeOK, Pcs, QueryInOrder, CodeIsLast, OnlyInterpretersAreRun

\* The world moves on, and what was concluded stays.
LEMMA WorldInv == ASSUME Inv, TargetExits \/ PidIsReused PROVE Inv'
<1>1. /\ UNCHANGED <<host, withPid, pc, found, ran, checks, delivered, code>>
      /\ holder' \in Processes \cup {NoProcess} /\ changes' \in 0..MaxChanges
  BY WorldAssumption DEF TargetExits, PidIsReused, ChangesHands, Inv, TypeOK
<1>2. HonestChecks'
  BY <1>1, HonestyStays DEF Inv, HonestChecks
<1> QED
  BY <1>1, <1>2 DEF Inv, TypeOK, QueryInOrder, CodeIsLast, OnlyInterpretersAreRun

\* A diagnosis starts with nothing said.
LEMMA InitInv == Init => Inv
<1> SUFFICES ASSUME Init PROVE Inv
  OBVIOUS
<1>1. holder \in Processes \cup {NoProcess} /\ checks \in Seq(CheckType) /\ changes \in 0..MaxChanges
  BY WorldAssumption DEF Init
<1>2. pc \in Pcs /\ code \in -1..255 /\ ran \subseteq Processes
  BY DEF Init, Pcs
<1>3. TypeOK
  BY <1>1, <1>2 DEF Init, TypeOK
<1>4. DOMAIN checks = {}
  BY DEF Init
<1> QED
  BY <1>3, <1>4 DEF Init, Inv, HonestChecks, QueryInOrder, CodeIsLast, OnlyInterpretersAreRun

\* One step of the diagnosis or of the world.
LEMMA NextInv == ASSUME Inv, [Next]_vars PROVE Inv'
<1>1. CASE Next
  BY <1>1, HostChecks, TargetChecks, FindInv, QueryInv, EndInv, WorldInv DEF Next, Step
<1>2. CASE UNCHANGED vars
  <2>1. HonestChecks'
    BY <1>2, HonestyStays DEF vars, worldVars, Inv, HonestChecks
  <2> QED
    BY <1>2, <2>1 DEF vars, worldVars, Inv, TypeOK, QueryInOrder, CodeIsLast, OnlyInterpretersAreRun
<1> QED
  BY <1>1, <1>2

\* The invariant of the whole development.
LEMMA InvHolds == Spec => []Inv
<1>1. Init => Inv
  BY InitInv
<1>2. Inv /\ [Next]_vars => Inv'
  BY NextInv
<1> QED
  BY <1>1, <1>2, PTL DEF Spec

-----------------------------------------------------------------------------
(* What a finished report mentions. *)

\* The obstacles that the checks before each position look for.
Settled ==
  LET host1 == {"debugging", "channel"}
      host2 == host1 \cup {"scope", "task port"}
      target1 == host2 \cup {"process", "owner", "namespace"}
  IN  [prober_remote_debug |-> {}, return_channel |-> {"debugging"},
       collector_plugins |-> host1, ptrace_scope |-> host1, task_for_pid |-> host1 \cup {"scope"},
       target_process |-> host2, target_owner |-> host2 \cup {"process"},
       pid_namespace |-> host2 \cup {"process", "owner"},
       target_python |-> target1, query |-> target1,
       target_remote_debug |-> target1 \cup {"python", "release"},
       report |-> target1 \cup {"python", "release", "switch"}, done |-> {}]

\* A check that did not say OK mentions what it looks for; an unknown version
\* leaves the release open as well.
Mentions(c, o) ==
  /\ c.status # "ok"
  /\ Sought[c.name] = o \/ (c.name = "target_python" /\ o = "release")

Mentioned(o) == \E i \in DOMAIN checks : Mentions(checks[i], o)

\* What a complete list has to mention.
Visible == Obstacles(holder) \ Unseen(holder)

Thorough ==
  withPid /\ changes = 0 =>
    /\ \A o \in Settled[pc] \cap Visible : Mentioned(o)
    /\ pc = "query" => found = holder
    /\ NoObstacleUnmentioned

\* What is visible is a matter of the host and of who bears the pid.
LEMMA VisibleStays == ASSUME UNCHANGED <<host, holder>> PROVE Visible' = Visible
  BY DEF Visible, Obstacles, HostObstacles, TargetObstacles, Unseen, Elsewhere, Linux, MacOS,
         Permitted, SameUser, Privileged

\* What was mentioned stays so.
LEMMA MentionStays ==
  ASSUME TypeOK, NEW s \in Seq(CheckType), checks' = checks \o s, NEW o, Mentioned(o)
  PROVE  Mentioned(o)'
<1>1. PICK i \in DOMAIN checks : Mentions(checks[i], o)
  BY DEF Mentioned
<1>2. i \in DOMAIN checks' /\ checks'[i] = checks[i]
  BY DEF TypeOK
<1> QED
  BY <1>1, <1>2 DEF Mentioned, Mentions

\* An honest check mentions the obstacle it meets.
LEMMA MeetsMentions ==
  ASSUME TypeOK, NEW s \in Seq(CheckType), checks' = checks \o s,
         NEW k \in DOMAIN s, Honest(s[k]), NEW o, Sought[s[k].name] = o,
         o \in Obstacles(s[k].about) \ Unseen(s[k].about)
  PROVE  Mentioned(o)'
<1>1. Mentions(s[k], o)
  BY DEF Honest, Mentions
<1>2. Len(checks) + k \in DOMAIN checks' /\ checks'[Len(checks) + k] = s[k]
  BY DEF TypeOK
<1> QED
  BY <1>1, <1>2 DEF Mentioned, Mentions

\* Where each check leaves the list.
LEMMA SettledBy ==
  /\ Settled["prober_remote_debug"] = {}
  /\ Settled["return_channel"] = Settled["prober_remote_debug"] \cup {"debugging"}
  /\ Settled["collector_plugins"] = Settled["return_channel"] \cup {"channel"}
  /\ Settled["ptrace_scope"] = Settled["collector_plugins"]
  /\ Settled["task_for_pid"] = Settled["ptrace_scope"] \cup {"scope"}
  /\ Settled["target_process"] = Settled["task_for_pid"] \cup {"task port"}
  /\ Settled["target_owner"] = Settled["target_process"] \cup {"process"}
  /\ Settled["pid_namespace"] = Settled["target_owner"] \cup {"owner"}
  /\ Settled["target_python"] = Settled["pid_namespace"] \cup {"namespace"}
  /\ Settled["query"] = Settled["target_python"]
  /\ Settled["target_remote_debug"] = Settled["query"] \cup {"python", "release"}
  /\ Settled["report"] = Settled["target_remote_debug"] \cup {"switch"}
  /\ Settled["done"] = {}
  BY DEF Settled

\* Nothing else stands in the way than what a complete list looks for.
LEMMA AllSettled == Visible \subseteq Settled["report"]
  BY SettledBy DEF Visible, Obstacles, HostObstacles, TargetObstacles

\* A check that settles what it looks for keeps the list complete.
LEMMA ConcludeThorough ==
  ASSUME Inv, Inv', Thorough, NEW name \in DOMAIN Sought, NEW status,
         NEW next \in Pcs \ {"query"}, Conclude(name, status, next),
         withPid => Settled[next] \subseteq Settled[name] \cup {Sought[name]}
  PROVE  Thorough'
<1> SUFFICES ASSUME withPid, changes = 0 PROVE Thorough'
  BY DEF Thorough, Conclude, worldVars
<1>1. /\ UNCHANGED <<host, withPid, holder, changes, found, delivered>>
      /\ pc = name /\ pc' = next /\ next # "query" /\ ~delivered
  BY SoughtBy DEF Conclude, worldVars, Inv, CodeIsLast
<1>2. Visible' = Visible
  BY <1>1, VisibleStays
<1> DEFINE c == Check(name, status, holder)
<1>3. /\ TypeOK /\ checks' \in Seq(CheckType) /\ HonestChecks'
      /\ checks' = Append(checks, c) /\ checks \in Seq(CheckType)
  BY DEF Inv, TypeOK, Conclude
<1>4. checks'[Len(checks) + 1] = c /\ Len(checks) + 1 \in DOMAIN checks'
  BY <1>3
<1>5. c \in CheckType /\ Honest(c)
  BY <1>1, <1>3, <1>4, HonestyStays DEF HonestChecks
<1>6. checks' = checks \o <<c>> /\ <<c>> \in Seq(CheckType) /\ 1 \in DOMAIN <<c>> /\ <<c>>[1] = c
  BY <1>3, <1>5
<1>7. c.name = name /\ c.about = holder
  BY DEF Check
<1> HIDE DEF c
<1>8. ASSUME NEW o \in Settled[next] \cap Visible PROVE Mentioned(o)'
  <2>1. CASE o = Sought[name]
    BY <1>3, <1>5, <1>6, <1>7, <1>8, <2>1, MeetsMentions DEF Visible
  <2>2. CASE o \in Settled[name]
    <3>1. Mentioned(o)
      BY <1>1, <1>8, <2>2 DEF Thorough
    <3> QED
      BY <1>3, <1>6, <3>1, MentionStays
  <2> QED
    BY <1>8, <2>1, <2>2
<1>9. NoObstacleUnmentioned'
  BY <1>1 DEF NoObstacleUnmentioned
<1> QED
  BY <1>1, <1>2, <1>8, <1>9 DEF Thorough

\* Every check but the one of the target's Python settles one obstacle.
LEMMA ChecksThorough ==
  ASSUME Inv, Inv', Thorough,
         \/ CheckProberRemoteDebug \/ CheckReturnChannel \/ CheckCollectorPlugins
         \/ CheckPtraceScope \/ CheckTaskForPid \/ CheckTargetProcess \/ CheckTargetOwner
         \/ CheckPidNamespace \/ CheckTargetRemoteDebug
  PROVE  Thorough'
<1>1. CASE CheckProberRemoteDebug
  <2>1. PICK s : Conclude("prober_remote_debug", s, "return_channel")
    BY <1>1 DEF CheckProberRemoteDebug
  <2>2. Settled["return_channel"] \subseteq Settled["prober_remote_debug"] \cup {Sought["prober_remote_debug"]}
    BY SoughtBy, SettledBy
  <2> QED
    BY <2>1, <2>2, ConcludeThorough, SoughtBy DEF Pcs
<1>2. CASE CheckReturnChannel
  <2>1. PICK s : Conclude("return_channel", s, "collector_plugins")
    BY <1>2 DEF CheckReturnChannel
  <2>2. Settled["collector_plugins"] \subseteq Settled["return_channel"] \cup {Sought["return_channel"]}
    BY SoughtBy, SettledBy
  <2> QED
    BY <2>1, <2>2, ConcludeThorough, SoughtBy DEF Pcs
<1>3. CASE CheckCollectorPlugins
  <2>1. PICK s : Conclude("collector_plugins", s, "ptrace_scope")
    BY <1>3 DEF CheckCollectorPlugins
  <2>2. Settled["ptrace_scope"] \subseteq Settled["collector_plugins"] \cup {Sought["collector_plugins"]}
    BY SoughtBy, SettledBy
  <2> QED
    BY <2>1, <2>2, ConcludeThorough, SoughtBy DEF Pcs
<1>4. CASE CheckPtraceScope
  <2>1. PICK s : Conclude("ptrace_scope", s, "task_for_pid")
    BY <1>4 DEF CheckPtraceScope
  <2>2. Settled["task_for_pid"] \subseteq Settled["ptrace_scope"] \cup {Sought["ptrace_scope"]}
    BY SoughtBy, SettledBy
  <2> QED
    BY <2>1, <2>2, ConcludeThorough, SoughtBy DEF Pcs
<1>5. CASE CheckTaskForPid
  <2>1. PICK s : Conclude("task_for_pid", s, IF withPid THEN "target_process" ELSE "report")
    BY <1>5 DEF CheckTaskForPid
  <2>2. CASE withPid
    BY <2>1, <2>2, ConcludeThorough, SoughtBy, SettledBy DEF Pcs
  <2>3. CASE ~withPid
    BY <2>1, <2>3, ConcludeThorough, SoughtBy DEF Pcs
  <2> QED
    BY <2>2, <2>3
<1>6. CASE CheckTargetProcess
  <2>1. PICK s : Conclude("target_process", s, "target_owner")
    BY <1>6 DEF CheckTargetProcess
  <2>2. Settled["target_owner"] \subseteq Settled["target_process"] \cup {Sought["target_process"]}
    BY SoughtBy, SettledBy
  <2> QED
    BY <2>1, <2>2, ConcludeThorough, SoughtBy DEF Pcs
<1>7. CASE CheckTargetOwner
  <2>1. PICK s : Conclude("target_owner", s, "pid_namespace")
    BY <1>7 DEF CheckTargetOwner
  <2>2. Settled["pid_namespace"] \subseteq Settled["target_owner"] \cup {Sought["target_owner"]}
    BY SoughtBy, SettledBy
  <2> QED
    BY <2>1, <2>2, ConcludeThorough, SoughtBy DEF Pcs
<1>8. CASE CheckPidNamespace
  <2>1. PICK s : Conclude("pid_namespace", s, "target_python")
    BY <1>8 DEF CheckPidNamespace
  <2>2. Settled["target_python"] \subseteq Settled["pid_namespace"] \cup {Sought["pid_namespace"]}
    BY SoughtBy, SettledBy
  <2> QED
    BY <2>1, <2>2, ConcludeThorough, SoughtBy DEF Pcs
<1>9. CASE CheckTargetRemoteDebug
  <2>1. PICK s : Conclude("target_remote_debug", s, "report")
    BY <1>9 DEF CheckTargetRemoteDebug
  <2>2. Settled["report"] \subseteq Settled["target_remote_debug"] \cup {Sought["target_remote_debug"]}
    BY SoughtBy, SettledBy
  <2> QED
    BY <2>1, <2>2, ConcludeThorough, SoughtBy DEF Pcs
<1> QED
  BY <1>1, <1>2, <1>3, <1>4, <1>5, <1>6, <1>7, <1>8, <1>9

\* A warning of the target's Python mentions its version and its release.
LEMMA WarningThorough ==
  ASSUME Inv, Inv', Thorough, UNCHANGED <<host, withPid, holder, changes, delivered>>,
         pc \in {"target_python", "query"}, pc' = "target_remote_debug",
         NEW p, checks' = Append(checks, Check("target_python", "warn", p))
  PROVE  Thorough'
<1> SUFFICES ASSUME withPid, changes = 0 PROVE Thorough'
  BY DEF Thorough
<1>1. Visible' = Visible /\ ~delivered
  BY VisibleStays DEF Inv, CodeIsLast
<1> DEFINE c == Check("target_python", "warn", p)
<1>2. checks \in Seq(CheckType) /\ checks' \in Seq(CheckType) /\ TypeOK
  BY DEF Inv, TypeOK
<1>3. c.name = "target_python" /\ c.status = "warn"
  BY DEF Check
<1>4. checks' = Append(checks, c)
  OBVIOUS
<1> HIDE DEF c
<1>5. checks'[Len(checks) + 1] = c /\ Len(checks) + 1 \in DOMAIN checks'
  BY <1>2, <1>4
<1>6. c \in CheckType
  BY <1>2, <1>5
<1>7. checks' = checks \o <<c>> /\ <<c>> \in Seq(CheckType)
  BY <1>2, <1>4, <1>6
<1>8. ASSUME NEW o \in Settled["target_remote_debug"] \cap Visible PROVE Mentioned(o)'
  <2>1. CASE o \in {"python", "release"}
    BY <1>3, <1>5, <2>1, SoughtBy DEF Mentioned, Mentions
  <2>2. CASE o \in Settled["target_python"]
    <3>1. Mentioned(o)
      BY <1>8, <2>2, SettledBy DEF Thorough
    <3> QED
      BY <1>2, <1>7, <3>1, MentionStays
  <2> QED
    BY <1>8, <2>1, <2>2, SettledBy
<1>9. NoObstacleUnmentioned'
  BY <1>1 DEF NoObstacleUnmentioned
<1> QED
  BY <1>1, <1>8, <1>9 DEF Thorough

\* Looking at the executable: a warning, or the holder found.
LEMMA FindThorough == ASSUME Inv, Inv', Thorough, FindExecutable PROVE Thorough'
<1>1. PICK known \in ExecutableKnown(holder) :
        IF known /\ Interpreter(holder)
        THEN found' = holder /\ pc' = "query" /\ UNCHANGED checks
        ELSE /\ checks' = Append(checks, Check("target_python", "warn", holder))
             /\ pc' = "target_remote_debug" /\ UNCHANGED found
  BY DEF FindExecutable
<1>2. /\ pc = "target_python" /\ UNCHANGED <<host, withPid, holder, changes, delivered>> /\ ~delivered
  BY DEF FindExecutable, worldVars, Inv, CodeIsLast
<1>3. CASE known /\ Interpreter(holder)
  <2>1. found' = holder /\ pc' = "query" /\ UNCHANGED checks
    BY <1>1, <1>3
  <2>2. Visible' = Visible /\ \A o : Mentioned(o)' <=> Mentioned(o)
    BY <1>2, <2>1, VisibleStays DEF Mentioned, Mentions
  <2>3. NoObstacleUnmentioned'
    BY <1>2 DEF NoObstacleUnmentioned
  <2> QED
    BY <1>2, <2>1, <2>2, <2>3, SettledBy DEF Thorough
<1>4. CASE ~(known /\ Interpreter(holder))
  BY <1>1, <1>2, <1>4, WarningThorough
<1> QED
  BY <1>3, <1>4

\* Asking the executable: its version and its release, or a warning. It is the
\* holder's while the pid has not changed hands.
LEMMA QueryThorough == ASSUME Inv, Inv', Thorough, QueryInterpreter PROVE Thorough'
<1>1. /\ pc = "query" /\ pc' = "target_remote_debug"
      /\ UNCHANGED <<host, withPid, holder, changes, delivered>> /\ ~delivered /\ found \in Processes
  BY DEF QueryInterpreter, worldVars, Inv, CodeIsLast, QueryInOrder
<1>2. CASE checks' = Append(checks, Check("target_python", "warn", found))
  BY <1>1, <1>2, WarningThorough
<1>3. CASE checks' = checks \o <<CheckVersion(found), CheckMatchesProber(found)>>
  <2> SUFFICES ASSUME withPid, changes = 0 PROVE Thorough'
    BY <1>1 DEF Thorough
  <2> DEFINE s == <<CheckVersion(found), CheckMatchesProber(found)>>
  <2>1. s \in Seq(CheckType) /\ Honest(s[1]) /\ Honest(s[2]) /\ 1 \in DOMAIN s /\ 2 \in DOMAIN s
    BY <1>1, VersionHonest
  <2>2. found = holder
    BY <1>1 DEF Thorough
  <2>3. /\ s[1].name = "target_python_version" /\ s[1].about = holder
        /\ s[2].name = "target_python_match" /\ s[2].about = holder
    BY <2>2 DEF CheckVersion, CheckMatchesProber, Check
  <2>4. TypeOK /\ checks' = checks \o s
    BY <1>3 DEF Inv
  <2> HIDE DEF s
  <2>5. ASSUME NEW o \in Settled["target_remote_debug"] \cap Visible PROVE Mentioned(o)'
    <3>1. CASE o = "python"
      BY <2>1, <2>3, <2>4, <2>5, <3>1, MeetsMentions, SoughtBy DEF Visible
    <3>2. CASE o = "release"
      BY <2>1, <2>3, <2>4, <2>5, <3>2, MeetsMentions, SoughtBy DEF Visible
    <3>3. CASE o \in Settled["query"]
      <4>1. Mentioned(o)
        BY <1>1, <2>5, <3>3 DEF Thorough
      <4> QED
        BY <2>1, <2>4, <4>1, MentionStays
    <3> QED
      BY <2>5, <3>1, <3>2, <3>3, SettledBy
  <2>6. NoObstacleUnmentioned'
    BY <1>1 DEF NoObstacleUnmentioned
  <2>7. Visible' = Visible
    BY <1>1, VisibleStays
  <2> QED
    BY <1>1, <2>5, <2>6, <2>7 DEF Thorough
<1> QED
  BY <1>2, <1>3 DEF QueryInterpreter, Queried

\* The report is made of a complete list, or another code tells of its end.
LEMMA EndThorough ==
  ASSUME Inv, Thorough, Report \/ Interrupt \/ PluginExits
  PROVE  Thorough'
<1> SUFFICES ASSUME withPid, changes = 0 PROVE Thorough'
  BY DEF Thorough, Report, Interrupt, PluginExits, worldVars
<1>1. UNCHANGED <<host, withPid, holder, changes, checks>> /\ pc' = "done"
  BY DEF Report, Interrupt, PluginExits, Return, worldVars
<1>2. Visible' = Visible
  BY <1>1, VisibleStays
<1>3. ASSUME delivered' PROVE \A o \in Visible : Mentioned(o)
  <2>1. Report
    BY <1>3 DEF Interrupt, PluginExits, Inv, CodeIsLast
  <2> QED
    BY <2>1, AllSettled DEF Report, Thorough
<1>4. NoObstacleUnmentioned'
  BY <1>1, <1>2, <1>3 DEF NoObstacleUnmentioned, Visible, Mentioned, Mentions
<1> QED
  BY <1>1, <1>4, SettledBy DEF Thorough

\* A pid that changes hands ends what is promised of its first holder.
LEMMA WorldThorough == ASSUME Inv, TargetExits \/ PidIsReused PROVE Thorough'
<1>1. changes' # 0
  BY WorldAssumption DEF TargetExits, PidIsReused, ChangesHands, Inv, TypeOK
<1> QED
  BY <1>1 DEF Thorough

\* The list is complete up to where the diagnosis stands.
LEMMA ThoroughHolds == Spec => []Thorough
<1>1. Init => Thorough
  <2> SUFFICES ASSUME Init PROVE Thorough
    OBVIOUS
  <2>1. Settled[pc] = {} /\ pc # "query" /\ ~delivered
    BY SettledBy DEF Init
  <2> QED
    BY <2>1 DEF Thorough, NoObstacleUnmentioned, EXIT_OK, EXIT_DIAGNOSIS_FAILED
<1>2. Inv /\ Inv' /\ Thorough /\ [Next]_vars => Thorough'
  <2> SUFFICES ASSUME Inv, Inv', Thorough, [Next]_vars PROVE Thorough'
    OBVIOUS
  <2>1. CASE Next
    BY <2>1, ChecksThorough, FindThorough, QueryThorough, EndThorough, WorldThorough DEF Next, Step
  <2>2. CASE UNCHANGED vars
    <3>1. Visible' = Visible /\ \A o : Mentioned(o)' <=> Mentioned(o)
      BY <2>2, VisibleStays DEF vars, worldVars, Mentioned, Mentions
    <3>2. NoObstacleUnmentioned' <=> NoObstacleUnmentioned
      BY <2>2, <3>1 DEF vars, worldVars, NoObstacleUnmentioned, Visible
    <3> QED
      BY <2>2, <3>1, <3>2 DEF vars, worldVars, Thorough
  <2> QED
    BY <2>1, <2>2
<1> QED
  BY <1>1, <1>2, InvHolds, PTL DEF Spec

-----------------------------------------------------------------------------
(* The theorems. *)

\* Every reachable diagnosis is well typed, whatever the processes that bear
\* the pid in turn are like.
THEOREM DoctorTypes == Spec => []TypeOK
<1>1. Inv => TypeOK
  BY DEF Inv
<1> QED
  BY <1>1, InvHolds, PTL

\* No check says OK of an obstacle that was there when it looked, the two that
\* the code cannot see excepted.
THEOREM EveryOkIsEarned == Spec => []OkIsEarned
<1>1. Inv => OkIsEarned
  BY DEF Inv, HonestChecks, Honest, OkIsEarned
<1> QED
  BY <1>1, InvHolds, PTL

\* No check fails a target or a host for an obstacle that was not there, but
\* for the named exceptions.
THEOREM EveryFailIsReal == Spec => []FailIsReal
<1>1. Inv => FailIsReal
  BY DEF Inv, HonestChecks, Honest, FailIsReal
<1> QED
  BY <1>1, InvHolds, PTL

\* The doctor runs no binary but one it took for an interpreter.
THEOREM RunsInterpretersOnly == Spec => []OnlyInterpretersAreRun
<1>1. Inv => OnlyInterpretersAreRun
  BY DEF Inv
<1> QED
  BY <1>1, InvHolds, PTL

\* Where no plugin can end the doctor, the exit code tells the verdict of a
\* report that was read: it is set once, by the step that delivers the report,
\* and no check is added afterwards.
THEOREM VerdictIsTold == Spec => []ExitCodeTellsVerdict
<1> DEFINE Told == Inv /\ ExitCodeTellsVerdict
<1>1. Init => Told
  BY InitInv DEF Init, ExitCodeTellsVerdict, EXIT_OK, EXIT_DIAGNOSIS_FAILED
<1>2. ASSUME Told, [Next]_vars PROVE Told'
  <2>1. Inv'
    BY <1>2, NextInv
  <2> SUFFICES ExitCodeTellsVerdict'
    BY <2>1
  <2>2. CASE pc' # "done"
    BY <2>1, <2>2 DEF Inv, CodeIsLast, ExitCodeTellsVerdict, EXIT_OK, EXIT_DIAGNOSIS_FAILED
  <2>3. CASE UNCHANGED <<host, checks, delivered, code>>
    <3>1. failures' = failures
      BY <2>3 DEF failures
    <3> QED
      BY <1>2, <2>3, <3>1 DEF ExitCodeTellsVerdict
  <2>4. CASE Report
    <3>1. failures' = failures
      BY <2>4 DEF Report, failures
    <3> QED
      BY <2>4, <3>1, CodesOfEnds DEF Report, Return, ExitCodeTellsVerdict, is_attachable, EXIT_OK,
                                     EXIT_DIAGNOSIS_FAILED
  <2>5. CASE Interrupt
    BY <2>5, CodesOfEnds DEF Interrupt, Return, ExitCodeTellsVerdict, EXIT_OK, EXIT_DIAGNOSIS_FAILED
  <2>6. CASE TargetExits \/ PidIsReused \/ UNCHANGED vars
    BY <2>3, <2>6 DEF TargetExits, PidIsReused, ChangesHands, vars, worldVars
  <2>8. CASE PluginExits
    BY <2>8 DEF PluginExits, worldVars, ExitCodeTellsVerdict
  <2>7. CASE \/ CheckProberRemoteDebug \/ CheckReturnChannel \/ CheckCollectorPlugins
             \/ CheckPtraceScope \/ CheckTaskForPid \/ CheckTargetProcess \/ CheckTargetOwner
             \/ CheckPidNamespace \/ FindExecutable \/ QueryInterpreter \/ CheckTargetRemoteDebug
    <3>1. pc' # "done"
      BY <2>7 DEF CheckProberRemoteDebug, CheckReturnChannel, CheckCollectorPlugins, CheckPtraceScope,
                  CheckTaskForPid, CheckTargetProcess, CheckTargetOwner, CheckPidNamespace,
                  FindExecutable, QueryInterpreter, CheckTargetRemoteDebug, Conclude
    <3> QED
      BY <2>2, <3>1
  <2> QED
    BY <1>2, <2>4, <2>5, <2>6, <2>7, <2>8 DEF Next, Step
<1>3. Told => ExitCodeTellsVerdict
  OBVIOUS
<1> QED
  BY <1>1, <1>2, <1>3, PTL DEF Spec

\* While the pid stays with one process, a report that was read leaves out no
\* obstacle but the unseen ones, whatever that process is like.
THEOREM NothingUnmentioned == Spec => []NoObstacleUnmentioned
<1>1. Thorough => NoObstacleUnmentioned
  BY DEF Thorough, NoObstacleUnmentioned
<1> QED
  BY <1>1, ThoroughHolds, PTL

-----------------------------------------------------------------------------
(* A diagnosis goes forward. *)

\* The place of each check in a report, and of each position of the doctor.
Place ==
  [prober_remote_debug |-> 1, return_channel |-> 2, collector_plugins |-> 3, ptrace_scope |-> 4,
   task_for_pid |-> 5, target_process |-> 6, target_owner |-> 7, pid_namespace |-> 8,
   target_python |-> 9, query |-> 10, target_python_version |-> 11, target_python_match |-> 12,
   target_remote_debug |-> 13, report |-> 14, done |-> 15]

\* Everything that has been said comes before this: at the query the doctor
\* may still say that the target's Python is unknown.
Ahead(p) == IF p = "query" THEN Place["target_python"] ELSE Place[p]

\* The checks s are in order, each at most once, and all before place n.
Ascending(s, n) ==
  /\ s \in Seq(CheckType)
  /\ \A i, j \in 1..Len(s) : i < j => Place[s[i].name] < Place[s[j].name]
  /\ \A i \in 1..Len(s) : Place[s[i].name] < n

\* A report lists its checks in the order in which diagnose makes them, and
\* none of them twice, although the world changes in between.
ReportInOrder ==
  \A i, j \in DOMAIN checks : i < j => Place[checks[i].name] < Place[checks[j].name]

InOrder == Inv /\ Ascending(checks, Ahead(pc))

\* The places, one by one.
LEMMA PlaceValues ==
  /\ Place["prober_remote_debug"] = 1 /\ Place["return_channel"] = 2
  /\ Place["collector_plugins"] = 3 /\ Place["ptrace_scope"] = 4 /\ Place["task_for_pid"] = 5
  /\ Place["target_process"] = 6 /\ Place["target_owner"] = 7 /\ Place["pid_namespace"] = 8
  /\ Place["target_python"] = 9 /\ Place["query"] = 10 /\ Place["target_python_version"] = 11
  /\ Place["target_python_match"] = 12 /\ Place["target_remote_debug"] = 13
  /\ Place["report"] = 14 /\ Place["done"] = 15
  BY DEF Place

\* Every check and every position has a place.
LEMMA Places ==
  /\ \A c \in CheckType : Place[c.name] \in 1..13
  /\ \A p \in Pcs : Place[p] \in 1..15 /\ Ahead(p) \in 1..15 /\ Ahead(p) <= Place[p]
<1>1. \A name \in DOMAIN Sought : Place[name] \in 1..13
  <2> SUFFICES ASSUME NEW name \in DOMAIN Sought  PROVE Place[name] \in 1..13
    OBVIOUS
  <2>1. name \in {"prober_remote_debug", "return_channel", "collector_plugins", "ptrace_scope",
          "task_for_pid", "target_process", "target_owner", "pid_namespace", "target_python",
          "target_python_version", "target_python_match", "target_remote_debug"}
    BY SoughtBy, Zenon
  <2> QED
    BY ONLY <2>1, PlaceValues
<1>2. \A c \in CheckType : c.name \in DOMAIN Sought
  BY DEF CheckType
<1>3. \A p \in Pcs : Place[p] \in 1..15 /\ Ahead(p) \in 1..15 /\ Ahead(p) <= Place[p]
  BY PlaceValues DEF Pcs, Ahead
<1> QED
  BY <1>1, <1>2, <1>3

\* A later check may follow.
LEMMA AddAscending ==
  ASSUME NEW s, NEW n \in Int, NEW m \in Int, Ascending(s, n),
         NEW c \in CheckType, n <= Place[c.name], Place[c.name] < m
  PROVE  Ascending(Append(s, c), m)
<1> DEFINE t == Append(s, c)
<1>1. s \in Seq(CheckType) /\ Len(s) \in Nat
  BY DEF Ascending
<1>2. /\ t \in Seq(CheckType) /\ Len(t) = Len(s) + 1 /\ t[Len(s) + 1] = c
      /\ \A i \in 1..Len(s) : t[i] = s[i]
  BY <1>1
<1>3. Place[c.name] \in Int
  BY Places
<1>4. ASSUME NEW i \in 1..Len(s)
      PROVE  Place[s[i].name] < Place[c.name] /\ Place[s[i].name] < m
  <2>1. s[i] \in CheckType
    BY <1>1
  <2>2. Place[s[i].name] < n
    BY DEF Ascending
  <2>3. Place[s[i].name] \in Int
    BY ONLY <2>1, Places
  <2> QED
    BY <1>3, <2>2, <2>3
<1> HIDE DEF t
<1>5. \A i \in 1..Len(t) : Place[t[i].name] < m
  <2> SUFFICES ASSUME NEW i \in 1..(Len(s) + 1)  PROVE Place[t[i].name] < m
    BY <1>2
  <2>1. CASE i = Len(s) + 1
    BY <1>2, <2>1
  <2>2. CASE i # Len(s) + 1
    <3>1. i \in 1..Len(s)
      BY <1>1, <2>2
    <3> QED
      BY <1>2, <1>4, <3>1
  <2> QED
    BY <2>1, <2>2
<1>6. \A i, j \in 1..Len(t) : i < j => Place[t[i].name] < Place[t[j].name]
  <2> SUFFICES ASSUME NEW i \in 1..(Len(s) + 1), NEW j \in 1..(Len(s) + 1), i < j
               PROVE  Place[t[i].name] < Place[t[j].name]
    BY <1>2
  <2>1. i \in 1..Len(s)
    BY <1>1
  <2>2. CASE j = Len(s) + 1
    BY <1>2, <1>4, <2>1, <2>2
  <2>3. CASE j # Len(s) + 1
    <3>1. j \in 1..Len(s)
      BY <1>1, <2>3
    <3> QED
      BY <1>2, <2>1, <3>1 DEF Ascending
  <2> QED
    BY <2>2, <2>3
<1> QED
  BY <1>2, <1>5, <1>6 DEF Ascending, t

\* What comes before a place comes before every later one.
LEMMA StillAscending ==
  ASSUME NEW s, NEW n \in Int, NEW m \in Int, Ascending(s, n), n <= m
  PROVE  Ascending(s, m)
<1>1. ASSUME NEW i \in 1..Len(s)  PROVE Place[s[i].name] < m
  <2>1. s[i] \in CheckType
    BY DEF Ascending
  <2>2. Place[s[i].name] < n
    BY DEF Ascending
  <2>3. Place[s[i].name] \in Int
    BY ONLY <2>1, Places
  <2> QED
    BY <2>2, <2>3
<1> QED
  BY <1>1 DEF Ascending

\* How each step moves the doctor: on with nothing to say, or with one check or
\* two of the next places.
Moves ==
  \/ pc' = "done" /\ pc # "done" /\ checks' = checks
  \/ pc = "target_python" /\ pc' = "query" /\ checks' = checks
  \/ \E c \in CheckType :
       /\ Ahead(pc) <= Place[c.name] /\ Place[c.name] < Ahead(pc') /\ Place[pc] < Place[pc']
       /\ checks' = Append(checks, c)
  \/ \E a, b \in CheckType :
       /\ Ahead(pc) <= Place[a.name] /\ Place[a.name] < Place[b.name]
       /\ Place[b.name] < Ahead(pc') /\ Place[pc] < Place[pc']
       /\ checks' = Append(Append(checks, a), b)

\* Position next follows on the check of that name.
Follows(name, next) ==
  /\ name \in DOMAIN Sought /\ name \in Pcs /\ next \in Pcs /\ next # "query"
  /\ Place[name] < Place[next]

\* Which positions follow on which checks.
LEMMA Order ==
  /\ Follows("prober_remote_debug", "return_channel")
  /\ Follows("return_channel", "collector_plugins")
  /\ Follows("collector_plugins", "ptrace_scope") /\ Follows("ptrace_scope", "task_for_pid")
  /\ Follows("task_for_pid", "target_process") /\ Follows("task_for_pid", "report")
  /\ Follows("target_process", "target_owner") /\ Follows("target_owner", "pid_namespace")
  /\ Follows("pid_namespace", "target_python") /\ Follows("target_remote_debug", "report")
<1>1. {"prober_remote_debug", "return_channel", "collector_plugins", "ptrace_scope",
       "task_for_pid", "target_process", "target_owner", "pid_namespace",
       "target_remote_debug"} \subseteq DOMAIN Sought
  BY SoughtBy, Zenon
<1> QED
  BY ONLY <1>1, PlaceValues DEF Follows, Pcs

\* A check that concludes is a move.
LEMMA ConcludeMoves ==
  ASSUME Inv, NEW name, NEW status \in Statuses, NEW next,
         Conclude(name, status, next), Follows(name, next)
  PROVE  Moves
<1>1. Check(name, status, holder) \in CheckType /\ Check(name, status, holder).name = name
  BY DEF Inv, TypeOK, CheckType, Check, Statuses, Follows
<1>2. /\ Ahead(pc) <= Place[pc] /\ Ahead(pc') = Place[next] /\ pc = name /\ pc' = next
      /\ Place[name] < Place[next]
  BY Places DEF Conclude, Ahead, Follows
<1> QED
  BY <1>1, <1>2 DEF Moves, Conclude

\* Every step goes forward.
LEMMA StepMoves == ASSUME Inv, Step \/ Interrupt PROVE Moves
<1>1. CASE CheckProberRemoteDebug \/ CheckReturnChannel \/ CheckCollectorPlugins
  <2>1. \E s \in Statuses :
          \/ Conclude("prober_remote_debug", s, "return_channel")
          \/ Conclude("return_channel", s, "collector_plugins")
          \/ Conclude("collector_plugins", s, "ptrace_scope")
    BY <1>1 DEF CheckProberRemoteDebug, CheckReturnChannel, CheckCollectorPlugins, Statuses
  <2> QED
    BY <2>1, ConcludeMoves, Order
<1>2. CASE CheckPtraceScope
  <2>1. \E s \in Statuses : Conclude("ptrace_scope", s, "task_for_pid")
    BY <1>2 DEF CheckPtraceScope, Statuses
  <2> QED
    BY <2>1, ConcludeMoves, Order
<1>3. CASE CheckTaskForPid
  <2>1. \E s \in Statuses, p \in {"target_process", "report"} : Conclude("task_for_pid", s, p)
    BY <1>3 DEF CheckTaskForPid, Statuses
  <2> QED
    BY <2>1, ConcludeMoves, Order
<1>4. CASE CheckTargetProcess \/ CheckPidNamespace \/ CheckTargetRemoteDebug
  <2>1. \E s \in Statuses :
          \/ Conclude("target_process", s, "target_owner")
          \/ Conclude("pid_namespace", s, "target_python")
          \/ Conclude("target_remote_debug", s, "report")
    BY <1>4 DEF CheckTargetProcess, CheckPidNamespace, CheckTargetRemoteDebug,
                RemoteDebugStatus, Statuses
  <2> QED
    BY <2>1, ConcludeMoves, Order
<1>5. CASE CheckTargetOwner
  <2>1. PICK known \in UidKnown(holder) :
          Conclude("target_owner",
                   CASE ~known -> "skipped" [] known /\ SameUser(holder) -> "ok" [] OTHER -> "fail",
                   "pid_namespace")
    BY <1>5 DEF CheckTargetOwner
  <2>2. (CASE ~known -> "skipped" [] known /\ SameUser(holder) -> "ok" [] OTHER -> "fail") \in Statuses
    <3>1. known \in BOOLEAN
      BY DEF UidKnown, PsAnswers
    <3> QED
      BY <3>1 DEF Statuses
  <2> QED
    BY <2>1, <2>2, ConcludeMoves, Order
<1>6. CASE FindExecutable
  <2> DEFINE c == Check("target_python", "warn", holder)
  <2>1. c \in CheckType /\ c.name = "target_python"
    BY SoughtBy DEF Inv, TypeOK, CheckType, Check
  <2>2. /\ pc = "target_python"
        /\ \/ pc' = "query" /\ checks' = checks
           \/ pc' = "target_remote_debug" /\ checks' = Append(checks, c)
    BY <1>6 DEF FindExecutable
  <2> HIDE DEF c
  <2> QED
    BY <2>1, <2>2 DEF Moves, Ahead, Place
<1>7. CASE QueryInterpreter
  <2>1. /\ pc = "query" /\ pc' = "target_remote_debug" /\ found \in Processes
        /\ \/ checks' = Append(checks, Check("target_python", "warn", found))
           \/ checks' = checks \o <<CheckVersion(found), CheckMatchesProber(found)>>
    BY <1>7 DEF QueryInterpreter, Queried, Inv, QueryInOrder
  <2>2. Place["query"] < Place["target_remote_debug"] /\ Ahead("query") = 9
        /\ Ahead("target_remote_debug") = 13
    BY DEF Place, Ahead
  <2>3. CASE checks' = Append(checks, Check("target_python", "warn", found))
    <3> DEFINE c == Check("target_python", "warn", found)
    <3>1. c \in CheckType /\ c.name = "target_python"
      BY <2>1, SoughtBy DEF CheckType, Check
    <3>2. Place[c.name] = 9
      BY <3>1 DEF Place
    <3> HIDE DEF c
    <3>3. checks' = Append(checks, c)
      BY <2>3 DEF c
    <3>4. /\ Ahead(pc) <= Place[c.name] /\ Place[c.name] < Ahead(pc')
          /\ Place[pc] < Place[pc']
      BY <2>1, <2>2, <3>2
    <3> QED
      BY ONLY <3>1, <3>3, <3>4 DEF Moves
  <2>4. CASE checks' = checks \o <<CheckVersion(found), CheckMatchesProber(found)>>
    <3> DEFINE a == CheckVersion(found)
               b == CheckMatchesProber(found)
    <3>1. /\ a \in CheckType /\ a.name = "target_python_version"
          /\ b \in CheckType /\ b.name = "target_python_match"
      BY <2>1, SoughtBy DEF CheckType, Check, CheckVersion, CheckMatchesProber
    <3>2. Place[a.name] = 11 /\ Place[b.name] = 12
      BY <3>1 DEF Place
    <3> HIDE DEF a, b
    <3>3. checks' = Append(Append(checks, a), b)
      <4>1. checks' = checks \o <<a, b>> /\ checks \in Seq(CheckType)
        BY <2>4 DEF a, b, Inv, TypeOK
      <4>2. checks \o <<a, b>> = Append(Append(checks, a), b)
        BY <3>1, <4>1
      <4> QED
        BY <4>1, <4>2
    <3>4. /\ Ahead(pc) <= Place[a.name] /\ Place[a.name] < Place[b.name]
          /\ Place[b.name] < Ahead(pc') /\ Place[pc] < Place[pc']
      BY <2>1, <2>2, <3>2
    <3> QED
      BY ONLY <3>1, <3>3, <3>4 DEF Moves
  <2> QED
    BY <2>1, <2>3, <2>4
<1>8. CASE PluginExits \/ Report \/ Interrupt
  BY <1>8 DEF PluginExits, Report, Interrupt, Return, Moves
<1> QED
  BY <1>1, <1>2, <1>3, <1>4, <1>5, <1>6, <1>7, <1>8 DEF Step

\* What has been said stays in order when the doctor moves.
LEMMA MovesInOrder ==
  ASSUME Inv, Inv', Ascending(checks, Ahead(pc)), Moves
  PROVE  Ascending(checks', Ahead(pc')) /\ Place[pc] < Place[pc']
<1>1. pc \in Pcs /\ pc' \in Pcs
  BY DEF Inv, TypeOK
<1>2. Ahead(pc) \in Int /\ Ahead(pc') \in Int
  BY <1>1, Places
<1>3. CASE pc' = "done" /\ pc # "done" /\ checks' = checks
  <2>1. Ahead(pc) <= Ahead(pc') /\ Place[pc] < Place[pc']
    BY <1>1, <1>3 DEF Ahead, Place, Pcs
  <2> QED
    BY <1>2, <1>3, <2>1, StillAscending
<1>4. CASE pc = "target_python" /\ pc' = "query" /\ checks' = checks
  <2>1. Ahead(pc) <= Ahead(pc') /\ Place[pc] < Place[pc']
    BY <1>4 DEF Ahead, Place
  <2> QED
    BY <1>2, <1>4, <2>1, StillAscending
<1>5. ASSUME NEW c \in CheckType, Ahead(pc) <= Place[c.name], Place[c.name] < Ahead(pc'),
             Place[pc] < Place[pc'], checks' = Append(checks, c)
      PROVE  Ascending(checks', Ahead(pc'))
  BY <1>2, <1>5, AddAscending
<1>6. ASSUME NEW a \in CheckType, NEW b \in CheckType, Ahead(pc) <= Place[a.name],
             Place[a.name] < Place[b.name], Place[b.name] < Ahead(pc'),
             checks' = Append(Append(checks, a), b)
      PROVE  Ascending(checks', Ahead(pc'))
  <2>1. Place[b.name] \in Int
    BY Places
  <2>2. Ascending(Append(checks, a), Place[b.name])
    BY <1>2, <1>6, <2>1, AddAscending
  <2> QED
    BY <1>2, <1>6, <2>1, <2>2, AddAscending
<1> QED
  BY <1>3, <1>4, <1>5, <1>6 DEF Moves

\* Every step of the doctor, an end included, takes it to a later place, and
\* what happens to the pid meanwhile leaves it where it is.
GoesForward ==
  /\ Place[pc] \in 1..15 /\ Place[pc'] \in 1..15
  /\ Step \/ Interrupt => Place[pc] < Place[pc']
  /\ ~(Step \/ Interrupt) => pc' = pc

\* A diagnosis starts in order.
LEMMA InitInOrder == Init => InOrder
<1> SUFFICES ASSUME Init  PROVE Inv /\ Ascending(checks, Ahead(pc))
  BY DEF InOrder
<1>1. checks = << >> /\ Len(checks) = 0
  BY DEF Init
<1> QED
  BY <1>1, InitInv DEF Ascending

\* ... and stays so.
LEMMA NextInOrder == InOrder /\ [Next]_vars => InOrder' /\ GoesForward
<1> SUFFICES ASSUME InOrder, [Next]_vars  PROVE InOrder' /\ GoesForward
  OBVIOUS
<1>1. Inv /\ Inv' /\ Ascending(checks, Ahead(pc))
  BY NextInv DEF InOrder
<1>2. Place[pc] \in 1..15 /\ Place[pc'] \in 1..15
  BY <1>1, Places DEF Inv, TypeOK
<1>3. CASE Step \/ Interrupt
  BY <1>1, <1>2, <1>3, StepMoves, MovesInOrder DEF InOrder, GoesForward
<1>4. CASE ~(Step \/ Interrupt)
  <2>1. UNCHANGED <<pc, checks>>
    BY <1>4 DEF Next, TargetExits, PidIsReused, ChangesHands, vars
  <2> QED
    BY <1>1, <1>2, <1>4, <2>1 DEF InOrder, GoesForward
<1> QED
  BY <1>3, <1>4

\* A report says each thing once and in its order, whoever bears the pid when
\* it is asked.
THEOREM ReportsInOrder == Spec => []ReportInOrder
<1>1. InOrder => ReportInOrder
  <2> SUFFICES ASSUME InOrder  PROVE ReportInOrder
    OBVIOUS
  <2>1. DOMAIN checks = 1..Len(checks)
    BY DEF InOrder, Ascending
  <2> QED
    BY <2>1 DEF InOrder, Ascending, ReportInOrder
<1>2. InOrder /\ [Next]_vars => InOrder'
  BY NextInOrder
<1> QED
  BY <1>1, <1>2, InitInOrder, PTL DEF Spec

\* A diagnosis has at most 14 steps, whatever its checks answer and however
\* often the pid changes hands: what DiagnosisReturns needs besides fairness.
THEOREM DiagnosisGoesForward == Spec => [][GoesForward]_vars
<1>1. InOrder /\ [Next]_vars => InOrder' /\ [GoesForward]_vars
  BY NextInOrder
<1> QED
  BY <1>1, InitInOrder, PTL DEF Spec
===========================================================================
