---------------------------- MODULE ProbeState ----------------------------
(***************************************************************************)
(* The state shared by the two ends of a pidprobe probe: the probers (calls  *)
(* of execute_in_target in src/pidprobe/_channel.py), the target process     *)
(* that runs the script of src/pidprobe/_inject.py, the temporary            *)
(* directories, the return channel and the clock of _deadline.py.            *)
(*                                                                           *)
(* Every prober attaches to the same target. Time is a countdown: one Tick   *)
(* lowers every running timer, so no absolute clock has to be bounded.       *)
(***************************************************************************)
EXTENDS Integers, Sequences, FiniteSets

CONSTANTS
    Probers,      \* concurrent execute_in_target calls on one pid
    NoProber,     \* "no script pending", not a prober
    Budget,       \* timeout_seconds, in ticks
    Pieces,       \* length of an envelope, in units one send or recv moves
    Capacity,     \* pieces the kernel buffers before sendall blocks
    AllowSocket,  \* the values of the allow_socket argument callers use
    Faults        \* what the environment may do besides the normal course

FaultKinds ==
  { "no_socket",      \* AF_UNIX missing, no short path, bind or listen fails
    "socket_call",    \* the prober is out of descriptors: socket(), accept(), open()
    "disk",           \* mkdtemp or write_text fails
    "refused",        \* sys.remote_exec raises although the process exists
    "interrupt",      \* Ctrl-C in the prober
    "raises",         \* a collector raises, or its payload does not serialize
    "import",         \* the target cannot import what the script needs
    "unprintable",    \* the error envelope cannot be built either
    "target_fds",     \* the target is out of descriptors
    "short_write",    \* os.write writes less than it was given
    "target_exit",    \* the target process ends
    "sigpipe" }       \* the target restored the default action of SIGPIPE

ASSUME ProberAssumption == NoProber \notin Probers
ASSUME BudgetAssumption == Budget \in Nat \ {0}
ASSUME PieceAssumption  == Pieces \in Nat \ {0} /\ Capacity \in Nat \ {0}
ASSUME FaultAssumption  == Faults \subseteq FaultKinds
ASSUME AllowAssumption  == AllowSocket \subseteq BOOLEAN

VARIABLES
    \* the probers
    pc,         \* where each call stands
    outcome,    \* what the call returned or raised, "none" until it is known
    remaining,  \* Deadline.remaining; -1 stands for every negative value
    kind,       \* the channel's ChannelKind
    \* the file system, per prober
    dirs,       \* which of its temporary directories exist
    files,      \* which files exist in them
    \* the return channel, per prober
    listening,  \* the server socket is open
    conn,       \* the connection as the prober's end sees it
    sent,       \* pieces the target wrote, to the socket or to the file
    rcvd,       \* pieces the prober read
    eof,        \* the target closed its end
    \* the target process
    alive,
    pending,    \* whose script CPython's one pending-script slot names
    stack,      \* scripts being executed, innermost first
    step,       \* where each script stands
    env,        \* status of the envelope the script built
    sendLeft,   \* time left of the script's own socket timeout
    passedOver  \* history: a safe point left the prober waiting, its script not begun

proberVars == <<pc, outcome, remaining, kind>>
fsVars     == <<dirs, files>>
sockVars   == <<listening, conn, sent, rcvd, eof>>
targetVars == <<alive, pending, stack, step, env, sendLeft, passedOver>>
vars == <<proberVars, fsVars, sockVars, targetVars>>

Waiting   == {"check", "arm", "wait", "read", "expiry"}
Locations == Waiting \cup {"idle", "open", "write_script", "remote_exec",
                           "rm_script", "close", "rmdir", "parse", "done"}
Answers   == {"ok", "error"}
Failures  == {"timeout", "attach_error", "no_process", "channel_error",
              "interrupted", "os_error", "raw_error"}
Running   == {"collect", "connect", "send", "close",
              "create", "write", "replace", "del_main"}

\* _pidprobe_main has returned or raised: the script has nothing left to say.
Ended     == {"del_main", "done"}

Active(p) == pc[p] \notin {"idle", "done"}
InFlight(p) == sent[p] - rcvd[p]

\* Deadline.is_expired
Expired(p) == remaining[p] <= 0

Init ==
  /\ pc = [p \in Probers |-> "idle"]
  /\ outcome = [p \in Probers |-> "none"]
  /\ remaining = [p \in Probers |-> Budget]
  /\ kind = [p \in Probers |-> "none"]
  /\ dirs = [p \in Probers |-> {}]
  /\ files = [p \in Probers |-> {}]
  /\ listening = [p \in Probers |-> FALSE]
  /\ conn = [p \in Probers |-> "none"]
  /\ sent = [p \in Probers |-> 0]
  /\ rcvd = [p \in Probers |-> 0]
  /\ eof = [p \in Probers |-> FALSE]
  /\ alive = TRUE
  /\ pending = NoProber
  /\ stack = << >>
  /\ step = [p \in Probers |-> "none"]
  /\ env = [p \in Probers |-> "none"]
  /\ sendLeft = [p \in Probers |-> 0]
  /\ passedOver = [p \in Probers |-> FALSE]

\* A running deadline keeps counting below zero: its sign is what matters.
Elapse(t) == IF t > -1 THEN t - 1 ELSE t

\* One unit of time passes for every running deadline and socket timeout.
Tick ==
  /\ \E p \in Probers : \/ Active(p) /\ remaining[p] > -1
                        \/ step[p] = "send" /\ sendLeft[p] > 0
  /\ remaining' = [p \in Probers |->
                     IF Active(p) THEN Elapse(remaining[p]) ELSE remaining[p]]
  /\ sendLeft' = [p \in Probers |->
                     IF step[p] = "send" /\ sendLeft[p] > 0
                     THEN sendLeft[p] - 1 ELSE sendLeft[p]]
  /\ UNCHANGED <<pc, outcome, kind, fsVars, sockVars,
                 alive, pending, stack, step, env, passedOver>>
===========================================================================
