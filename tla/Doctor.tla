------------------------------- MODULE Doctor -------------------------------
(***************************************************************************)
(* `pidprobe doctor [PID]`: run_doctor of src/pidprobe/_commands.py and       *)
(* diagnose of _doctor.py, with the checks of _attach_policy.py and           *)
(* _target_python.py and the lookups of _procinfo.py they rest on.            *)
(*                                                                           *)
(* Every check reads the world as it is at that moment: between two checks    *)
(* the target may exit and its pid may pass to another process. A check's     *)
(* texts are left out; its status is what it concludes, and `about`           *)
(* remembers which process bore the pid when it was asked.                    *)
(***************************************************************************)
EXTENDS ExitCodes, Sequences

CONSTANTS
    Hosts,         \* environments a prober runs in
    Processes,     \* processes that may bear the pid
    NoProcess,     \* the pid is not in use
    NoKnob,        \* the kernel has no Yama LSM
    ProberVersion, \* sys.version_info[:2] of the prober, a pair
    MaxChanges     \* bound on the times the pid changes hands

Users == {"root", "user", "other"}

\* `readable`: the file with the scope can be read and holds a number.
\* `capable`: the prober holds CAP_SYS_PTRACE, or the entitlement of macOS.
HostType ==
  [platform : {"linux", "macos", "other"}, scope : Int \cup {NoKnob}, readable : BOOLEAN,
   euid : Users, capable : BOOLEAN, debugging : {"absent", "disabled", "enabled"},
   socket : BOOLEAN, tempdir : BOOLEAN, plugins : {"load", "skipped", "exit"}]

PythonType == [implementation : {"cpython", "pypy"}, version : Int \X Int]

\* `executable` is the name in the path the system reports for the process.
\* The prober runs that path for itself: `answer` and `atPath` are of the binary
\* it finds there, `python` is what the process runs. They differ across mount
\* namespaces, and after an upgrade in place.
ProcessType ==
  [uid : Users, namespace : {"own", "inner"}, executable : {"python", "program"},
   answer : {"version", "failure", "hang"}, atPath : PythonType, python : PythonType,
   disabled : BOOLEAN]

ASSUME WorldAssumption ==
  /\ Hosts \subseteq HostType /\ Processes \subseteq ProcessType
  /\ NoProcess \notin Processes /\ NoKnob \notin Int
  /\ ProberVersion \in Int \X Int /\ MaxChanges \in Nat

VARIABLES
    host,      \* the prober's environment
    withPid,   \* a pid was given
    holder,    \* the process that bears it
    changes,   \* how often it changed hands
    pc,        \* the next check, "query", "report" or "done"
    found,     \* the process whose executable target_interpreter found
    ran,       \* history: the processes whose executable the doctor ran
    checks,    \* the checks so far, in order
    delivered, \* the report reached it
    code       \* exit code of main(), -1 until it returns

worldVars == <<host, withPid, holder, changes>>
vars == <<worldVars, pc, found, ran, checks, delivered, code>>

Init ==
  /\ host \in Hosts
  /\ withPid \in BOOLEAN
  /\ holder \in IF withPid THEN Processes \cup {NoProcess} ELSE {NoProcess}
  /\ changes = 0
  /\ pc = "prober_remote_debug"
  /\ found = NoProcess /\ ran = {} /\ checks = << >>
  /\ delivered = FALSE /\ code = -1

-----------------------------------------------------------------------------
(* What the lookups of _procinfo.py answer. *)

Linux == host.platform = "linux"
MacOS == host.platform = "macos"

\* What the doctor compares for itself, and what a signal needs.
SameUser(p) == host.euid \in {"root", p.uid}

\* Who may attach to the processes of others: root, or a holder of the
\* capability, which no check asks for.
Privileged == host.euid = "root" \/ host.capable

\* Who may read what procfs says of the process, and attach to it.
Permitted(p) == SameUser(p) \/ Privileged

\* ptrace_scope(): None also stands for a file that cannot be read.
ScopeRead == IF host.readable THEN host.scope ELSE NoKnob

\* /bin/ps may fail or time out.
PsAnswers(p) == IF p = NoProcess THEN {FALSE} ELSE BOOLEAN

\* process_uid: anybody may stat a directory of procfs.
UidKnown(p) ==
  CASE Linux -> {p # NoProcess} [] MacOS -> PsAnswers(p) [] OTHER -> {FALSE}

\* process_executable
ExecutableKnown(p) ==
  CASE Linux -> {p # NoProcess /\ Permitted(p)} [] MacOS -> PsAnswers(p) [] OTHER -> {FALSE}

\* pid_namespace and process_environ: only procfs has them.
ProcfsKnown(p) == Linux /\ p # NoProcess /\ Permitted(p)

MINIMUM_TARGET_VERSION == <<3, 14>>

\* Mutant of Older: the minor releases are compared, whatever the major ones.
OlderMinor(v, w) == v[2] < w[2]

Older(v, w) == v[1] < w[1] \/ (v[1] = w[1] /\ v[2] < w[2])

-----------------------------------------------------------------------------
(* The checks. *)

Check(name, status, process) == [name |-> name, status |-> status, about |-> process]

Conclude(name, status, next) ==
  /\ pc = name
  /\ checks' = Append(checks, Check(name, status, holder))
  /\ pc' = next
  /\ UNCHANGED <<worldVars, found, ran, delivered, code>>

CheckProberRemoteDebug ==
  Conclude("prober_remote_debug", IF host.debugging = "enabled" THEN "ok" ELSE "fail",
           "return_channel")

CheckReturnChannel ==
  Conclude("return_channel",
           CASE host.socket -> "ok" [] host.tempdir -> "warn" [] OTHER -> "fail",
           "collector_plugins")

\* Discovery is the subject of Snapshot; here it finds every plugin in order,
\* skips some, or passes on the SystemExit of a plugin's import.
CheckCollectorPlugins ==
  /\ host.plugins # "exit"
  /\ Conclude("collector_plugins", IF host.plugins = "load" THEN "ok" ELSE "warn",
              "ptrace_scope")


\* _PTRACE_ADVICE; a scope it does not list is treated as the locked one.
CheckPtraceScope ==
  Conclude("ptrace_scope",
           CASE ~Linux              -> "skipped"
             [] ScopeRead = NoKnob  -> "ok"
             [] OTHER -> CASE ScopeRead <= 0 -> "ok" [] ScopeRead = 1 -> "warn" [] OTHER -> "fail",
           "task_for_pid")

CheckTaskForPid ==
  Conclude("task_for_pid",
           CASE ~MacOS -> "skipped" [] host.euid = "root" -> "ok" [] OTHER -> "fail",
           IF withPid THEN "target_process" ELSE "report")

\* os.kill(pid, 0)
CheckTargetProcess ==
  Conclude("target_process", IF holder # NoProcess /\ SameUser(holder) THEN "ok" ELSE "fail",
           "target_owner")

CheckTargetOwner ==
  \E known \in UidKnown(holder) :
    Conclude("target_owner",
             CASE ~known -> "skipped" [] known /\ SameUser(holder) -> "ok" [] OTHER -> "fail",
             "pid_namespace")

CheckPidNamespace ==
  Conclude("pid_namespace",
           CASE ~ProcfsKnown(holder) -> "skipped"
             [] OTHER -> IF holder.namespace = "own" THEN "ok" ELSE "fail",
           "target_python")

\* _looks_like_interpreter
Interpreter(p) == p.executable = "python"

\* The first half of target_interpreter: find the executable, look at its name.
FindExecutable ==
  /\ pc = "target_python"
  /\ \E known \in ExecutableKnown(holder) :
       IF known /\ Interpreter(holder)
       THEN found' = holder /\ pc' = "query" /\ UNCHANGED checks
       ELSE /\ checks' = Append(checks, Check("target_python", "warn", holder))
            /\ pc' = "target_remote_debug" /\ UNCHANGED found
  /\ UNCHANGED <<worldVars, ran, delivered, code>>

CheckVersion(p) ==
  Check("target_python_version",
        IF p.atPath.implementation # "cpython"
             \/ Older(p.atPath.version, MINIMUM_TARGET_VERSION)
        THEN "fail" ELSE "ok", p)

\* Mutant of CheckMatchesProber: any CPython 3 will do.
CheckMatchesMajor(p) ==
  Check("target_python_match", IF p.atPath.version[1] = ProberVersion[1] THEN "ok" ELSE "fail", p)

CheckMatchesProber(p) ==
  Check("target_python_match", IF p.atPath.version = ProberVersion THEN "ok" ELSE "fail", p)

\* Mutant of Queried: the pid is looked up again.
QueriedAfresh == IF holder = NoProcess THEN found ELSE holder

\* The process whose path is run: the one whose path was looked at.
Queried == found

\* Mutant of GivesUp: the executable is run without a timeout.
WaitsForAnswer(p) == p.answer = "failure"

\* _run: the command failed, or the timeout ended it.
GivesUp(p) == p.answer \in {"failure", "hang"}

\* The second half: run what was found, whoever bears the pid by now.
QueryInterpreter ==
  /\ pc = "query"
  /\ ran' = ran \cup {Queried}
  /\ \/ /\ GivesUp(Queried)
        /\ checks' = Append(checks, Check("target_python", "warn", Queried))
     \/ /\ Queried.answer = "version"
        /\ checks' = checks \o <<CheckVersion(Queried), CheckMatchesProber(Queried)>>
  /\ pc' = "target_remote_debug"
  /\ UNCHANGED <<worldVars, found, delivered, code>>

\* Mutant of RemoteDebugStatus: an environment that cannot be read is taken
\* for an empty one.
RemoteDebugUnread(p) == IF ~ProcfsKnown(p) THEN "ok" ELSE IF p.disabled THEN "fail" ELSE "ok"

RemoteDebugStatus(p) ==
  IF ~ProcfsKnown(p) THEN "skipped" ELSE IF p.disabled THEN "fail" ELSE "ok"

CheckTargetRemoteDebug ==
  Conclude("target_remote_debug", RemoteDebugStatus(holder), "report")

-----------------------------------------------------------------------------
(* The report and the exit code. *)

EXIT_DIAGNOSIS_FAILED == 7

failures == {i \in DOMAIN checks : checks[i].status = "fail"}

is_attachable == failures = {}

Return(c) == pc' = "done" /\ code' = c

\* Mutant of Report: the report is left in the buffer of stdout, which the
\* interpreter flushes after main() returned.
ReportUnflushed ==
  /\ pc = "report"
  /\ Return(IF is_attachable THEN EXIT_OK ELSE EXIT_DIAGNOSIS_FAILED)
  /\ delivered' \in BOOLEAN
  /\ UNCHANGED <<worldVars, found, ran, checks>>

\* run_doctor writes the report and main() flushes it, which fails when the
\* reader of stdout has gone.
Report ==
  /\ pc = "report"
  /\ \/ /\ delivered' = TRUE
        /\ Return(IF is_attachable THEN EXIT_OK ELSE EXIT_DIAGNOSIS_FAILED)
     \/ /\ UNCHANGED delivered
        /\ Return(CodeOf("BrokenPipeError"))
  /\ UNCHANGED <<worldVars, found, ran, checks>>

\* main() does not catch SystemExit: the process ends with the plugin's code,
\* which may be any, and nothing was written.
PluginExits ==
  /\ pc = "collector_plugins"
  /\ host.plugins = "exit"
  /\ \E c \in 0..255 : Return(c)
  /\ UNCHANGED <<worldVars, found, ran, checks, delivered>>

Interrupt ==
  /\ pc # "done"
  /\ Return(CodeOf("KeyboardInterrupt"))
  /\ UNCHANGED <<worldVars, found, ran, checks, delivered>>

Step ==
  \/ CheckProberRemoteDebug \/ CheckReturnChannel \/ CheckCollectorPlugins \/ PluginExits
  \/ CheckPtraceScope \/ CheckTaskForPid
  \/ CheckTargetProcess \/ CheckTargetOwner \/ CheckPidNamespace
  \/ FindExecutable \/ QueryInterpreter \/ CheckTargetRemoteDebug
  \/ Report

-----------------------------------------------------------------------------
(* The world. *)

ChangesHands(p) ==
  /\ withPid /\ pc # "done"
  /\ changes < MaxChanges
  /\ changes' = changes + 1
  /\ holder' = p
  /\ UNCHANGED <<host, withPid, pc, found, ran, checks, delivered, code>>

TargetExits == holder # NoProcess /\ ChangesHands(NoProcess)

PidIsReused == holder = NoProcess /\ \E p \in Processes : ChangesHands(p)

Next == Step \/ Interrupt \/ TargetExits \/ PidIsReused

Spec == Init /\ [][Next]_vars

\* The doctor goes on: its own steps end by themselves or by a timeout.
FairSpec == Spec /\ WF_vars(Step)

-----------------------------------------------------------------------------
(* What stands in the way of an injection, by the rules of the kernel and of  *)
(* CPython as the texts of the checks give them. An ancestor of the target    *)
(* may attach at scope 1, so that scope is no obstacle here; a scope above 3, *)
(* which no kernel has, is one.                                               *)

HostObstacles ==
  {o \in {"debugging", "channel", "scope", "task port"} :
     CASE o = "debugging" -> host.debugging # "enabled"
       [] o = "channel"   -> ~host.socket /\ ~host.tempdir
       [] o = "scope"     -> /\ Linux /\ host.scope # NoKnob
                             /\ host.scope > 1
                             /\ host.scope = 2 => ~Privileged
       [] o = "task port" -> MacOS /\ ~Privileged}

TargetObstacles(p) ==
  IF p = NoProcess THEN {"process", "owner", "namespace", "python", "release", "switch"}
  ELSE {o \in {"process", "owner", "namespace", "python", "release", "switch"} :
          CASE o \in {"process", "owner"} -> ~Permitted(p)
            [] o = "namespace" -> p.namespace # "own"
            [] o = "python"    -> LET v == p.python.version
                                  IN  \/ p.python.implementation # "cpython"
                                      \/ v[1] < 3 \/ (v[1] = 3 /\ v[2] < 14)
            [] o = "release"   -> p.python.version # ProberVersion
            [] o = "switch"    -> p.disabled}

\* What each check is there to find.
Sought == [prober_remote_debug   |-> "debugging", return_channel |-> "channel",
           collector_plugins     |-> "plugins",   ptrace_scope   |-> "scope",
           task_for_pid          |-> "task port", target_process |-> "process",
           target_owner          |-> "owner",     pid_namespace  |-> "namespace",
           target_python         |-> "python",    target_python_version |-> "python",
           target_python_match   |-> "release",   target_remote_debug |-> "switch"]

Obstacles(p) == HostObstacles \cup TargetObstacles(p)

\* The path of the process leads the prober to another Python.
Elsewhere(p) == p # NoProcess /\ p.atPath # p.python

\* What a check cannot see: a scope that cannot be read, and the Python of a
\* process whose path leads elsewhere.
Unseen(p) == (IF host.readable THEN {} ELSE {"scope"})
               \cup (IF Elsewhere(p) THEN {"python", "release"} ELSE {})

\* What a check forbids although it may be done: whatever only the capability
\* allows, and scope 2 even where the prober is root.
Overstated(p) == (IF Privileged /\ host.scope = 2 THEN {"scope"} ELSE {})
                   \cup (IF host.capable THEN {"task port"} ELSE {})
                   \cup (IF host.capable /\ p # NoProcess THEN {"process", "owner"} ELSE {})

-----------------------------------------------------------------------------
Pcs == {"prober_remote_debug", "return_channel", "collector_plugins", "ptrace_scope",
        "task_for_pid", "target_process", "target_owner", "pid_namespace", "target_python",
        "query", "target_remote_debug", "report", "done"}

CheckType == [name : DOMAIN Sought, status : {"ok", "warn", "fail", "skipped"},
              about : Processes \cup {NoProcess}]

\* Every variable has its type; in particular every check has a status, what is
\* run is the executable of a process, and the exit code is one that a process
\* can have.
TypeOK ==
  /\ host \in Hosts /\ withPid \in BOOLEAN /\ holder \in Processes \cup {NoProcess}
  /\ changes \in 0..MaxChanges
  /\ pc \in Pcs
  /\ found \in Processes \cup {NoProcess} /\ ran \subseteq Processes
  /\ checks \in Seq(CheckType)
  /\ delivered \in BOOLEAN
  /\ code \in -1..255

\* An OK was true of the process that was asked: a target that exits in
\* mid-diagnosis, or that may not be read, turns the checks that follow into
\* warnings and skips, never into an OK (diagnose, _attach_policy,
\* _target_python). The code has two blind spots, and no other: an unreadable
\* scope passes for none, and the Python at a process's path for its own.
OkIsEarned ==
  \A i \in DOMAIN checks :
    LET p == checks[i].about
        o == Sought[checks[i].name]
    IN  checks[i].status = "ok" => o \notin Obstacles(p) \/ o \in Unseen(p)

\* A FAIL names an obstacle that was there: nobody is sent to fix what would
\* not have stopped the injection (CheckStatus.FAIL), whatever happens to the
\* pid meanwhile. The exceptions are the capability, which no check asks for,
\* scope 2, where not even root is, and a path that leads elsewhere.
FailIsReal ==
  \A i \in DOMAIN checks :
    LET p == checks[i].about
        o == Sought[checks[i].name]
    IN  checks[i].status = "fail" => o \in Obstacles(p) \cup Overstated(p) \cup Unseen(p)

\* While the pid stays with one process, a report that reached its reader
\* leaves out no obstacle but the unseen ones: each has a check that did not
\* say OK, or that was not reached because the version is unknown (diagnose).
NoObstacleUnmentioned ==
  delivered /\ withPid /\ changes = 0 =>
    \A o \in Obstacles(holder) \ Unseen(holder) :
      \E i \in DOMAIN checks :
        /\ checks[i].status # "ok"
        /\ \/ Sought[checks[i].name] = o
           \/ checks[i].name = "target_python" /\ o = "release"

\* A path is run only when its name is an interpreter's, although the pid
\* may pass to another program between the look and the run
\* (target_interpreter).
OnlyInterpretersAreRun == \A p \in ran : p.executable = "python"

\* Exit codes 0 and 7 both say that the report was read, and tell its verdict;
\* a report that could not be delivered has another code (run_doctor, main).
\* Only a plugin whose import raises SystemExit can end the doctor with
\* either of them and no report.
ExitCodeTellsVerdict ==
  host.plugins # "exit" =>
    /\ code = EXIT_OK => delivered /\ failures = {}
    /\ code = EXIT_DIAGNOSIS_FAILED => delivered /\ failures # {}

\* The doctor returns although the target's executable hangs when it is run.
DiagnosisReturns == <>(pc = "done")
===========================================================================
