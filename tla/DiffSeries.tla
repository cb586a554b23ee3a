---------------------------- MODULE DiffSeries ----------------------------
(***************************************************************************)
(* `pidprobe diff`: run_diff of src/pidprobe/_commands.py consuming the      *)
(* generator iter_snapshot_deltas of _diff.py, under main() of cli.py. The    *)
(* target may exit and its pid may be taken by another process, a sample may  *)
(* fail, the reader of stdout may go away, and Ctrl-C may arrive.             *)
(*                                                                           *)
(* Time passes where the command can block: in a sample, in a write, and in   *)
(* the sleep before a sample is due. It does not pass while the command is    *)
(* ready to go on, so a delay that the model shows is one the code causes.    *)
(***************************************************************************)
EXTENDS ExitCodes, Sequences

CONSTANTS
    Interval,    \* interval_seconds, in ticks
    Counts,      \* the values of the count argument callers use
    NoCount,     \* count=None
    MaxSamples,  \* bound on the samples of a series without a count
    MaxTime,     \* bound on the clock
    MaxProcess   \* bound on the processes that bear the pid in turn

ASSUME IntervalAssumption == Interval \in Nat \ {0}
ASSUME CountAssumption == \A c \in Counts : c # NoCount => c \in Int
ASSUME BoundAssumption == MaxSamples \in Nat /\ MaxTime \in Nat /\ MaxProcess \in Nat

VARIABLES
    pc,        \* "idle", "next", "sleep", "sample", "yield" or "done"
    count,     \* the argument
    now,       \* time.monotonic()
    started,   \* the origin of the schedule
    asked,     \* when the series last came to _wait_until
    began,     \* when the sample under way began
    taken,     \* snapshots taken so far
    previous,  \* the snapshot before the current one: at most one
    current,   \* the snapshot last taken: at most one
    stdout,    \* the delta lines printed so far
    code,      \* exit code of main(), -1 until it returns
    process,   \* which process bears the pid; processes are numbered in turn
    exists,    \* ... and whether it is still there
    reading,   \* stdout has a reader
    samples    \* history: every snapshot taken

clockVars == <<now, started, asked, began>>
loopVars  == <<taken, previous, current, samples>>
envVars   == <<process, exists, reading>>
vars == <<pc, count, clockVars, loopVars, stdout, code, envVars>>

Init ==
  /\ pc = "idle"
  /\ count \in Counts
  /\ now = 0 /\ started = 0 /\ asked = 0 /\ began = 0
  /\ taken = 0 /\ previous = << >> /\ current = << >> /\ samples = << >>
  /\ stdout = << >>
  /\ code = -1
  /\ process = 1 /\ exists = TRUE /\ reading = TRUE

\* run_diff creates the generator and asks it for the first delta.
Begin ==
  /\ pc = "idle"
  /\ pc' = "next"
  /\ started' = now
  /\ UNCHANGED <<count, now, asked, began, loopVars, stdout, code, envVars>>

\* Mutants of MoreToTake: count is taken for the number of deltas; count is
\* not looked at.
MoreDeltas == IF count = NoCount THEN taken < MaxSamples ELSE taken <= count
MoreForever == TRUE

\* `while count is None or taken < count`; a series without a count has no
\* end but the bound.
MoreToTake == IF count = NoCount THEN taken < MaxSamples ELSE taken < count

Continue ==
  /\ pc = "next"
  /\ MoreToTake
  /\ pc' = "sleep"
  /\ asked' = now
  /\ UNCHANGED <<count, now, started, began, loopVars, stdout, code, envVars>>

Return(c) == pc' = "done" /\ code' = c

\* The generator is exhausted. Every line was flushed when it was written, so
\* main()'s own flush finds nothing to send.
Finish ==
  /\ pc = "next"
  /\ count # NoCount /\ ~MoreToTake
  /\ Return(EXIT_OK)
  /\ UNCHANGED <<count, clockVars, loopVars, stdout, envVars>>

\* Mutant of Due: every wait is interval_seconds long.
DueAfterWork == IF taken = 0 THEN started ELSE asked + Interval

Due == started + taken * Interval

\* _wait_until returns and the sample begins.
WakeUp ==
  /\ pc = "sleep"
  /\ now >= Due
  /\ pc' = "sample"
  /\ began' = now
  /\ UNCHANGED <<count, now, started, asked, loopVars, stdout, code, envVars>>

\* take_snapshot returns what the process that bears the pid answered; the
\* first snapshot has nothing to be compared with.
SampleTaken ==
  /\ pc = "sample"
  /\ exists
  /\ LET snapshot == [asked |-> asked, start |-> began, process |-> process]
     IN  /\ samples' = Append(samples, snapshot)
         /\ IF previous = << >>
            THEN pc' = "next" /\ previous' = <<snapshot>> /\ UNCHANGED current
            ELSE pc' = "yield" /\ current' = <<snapshot>> /\ UNCHANGED previous
  /\ taken' = taken + 1
  /\ UNCHANGED <<count, clockVars, stdout, code, envVars>>

\* A failed sample ends the series.
SampleFails ==
  /\ pc = "sample"
  /\ \E exception \in ProbeErrors \cup OtherErrors :
       /\ exception = "NoSuchProcessError" => ~exists
       /\ Return(CodeOf(exception))
  /\ UNCHANGED <<count, clockVars, loopVars, stdout, envVars>>

\* Mutant of Rebase: every delta is taken against the first snapshot.
KeepBase == previous

\* What the next delta is taken against.
Rebase == current

\* diff_snapshots and write_json, which flushes; then the generator resumes.
PrintLine ==
  /\ pc = "yield"
  /\ reading
  /\ stdout' = Append(stdout, previous \o current)
  /\ previous' = Rebase
  /\ pc' = "next"
  /\ UNCHANGED <<count, clockVars, taken, current, samples, code, envVars>>

PrintFails ==
  /\ pc = "yield"
  /\ ~reading
  /\ Return(CodeOf("BrokenPipeError"))
  /\ UNCHANGED <<count, clockVars, loopVars, stdout, envVars>>

\* Ctrl-C. A line that was written and not yet flushed is still sent when the
\* interpreter exits.
Interrupt ==
  /\ pc \in {"next", "sleep", "sample", "yield"}
  /\ \/ UNCHANGED stdout
     \/ pc = "yield" /\ reading /\ stdout' = Append(stdout, previous \o current)
  /\ Return(CodeOf("KeyboardInterrupt"))
  /\ UNCHANGED <<count, clockVars, loopVars, envVars>>

---------------------------------------------------------------------------
(* The environment *)

Tick ==
  /\ pc \in {"sample", "yield"} \/ (pc = "sleep" /\ now < Due)
  /\ now < MaxTime
  /\ now' = now + 1
  /\ UNCHANGED <<pc, count, started, asked, began, loopVars, stdout, code, envVars>>

TargetExits ==
  /\ exists
  /\ exists' = FALSE
  /\ UNCHANGED <<pc, count, clockVars, loopVars, stdout, code, process, reading>>

PidIsReused ==
  /\ ~exists
  /\ process < MaxProcess
  /\ process' = process + 1
  /\ exists' = TRUE
  /\ UNCHANGED <<pc, count, clockVars, loopVars, stdout, code, reading>>

ReaderLeaves ==
  /\ reading
  /\ reading' = FALSE
  /\ UNCHANGED <<pc, count, clockVars, loopVars, stdout, code, process, exists>>

Step == \/ Begin \/ Continue \/ Finish \/ WakeUp
        \/ SampleTaken \/ SampleFails \/ PrintLine \/ PrintFails

Next == \/ Step \/ Interrupt
        \/ Tick \/ TargetExits \/ PidIsReused \/ ReaderLeaves

Spec == Init /\ [][Next]_vars

\* The command is scheduled, time passes, and every sample comes back
\* (EveryCallReturns of ProbeSession).
FairSpec == Spec /\ WF_vars(Step) /\ WF_vars(Tick)

---------------------------------------------------------------------------
(* Properties *)

Snapshot == [asked : Nat, start : Nat, process : Nat]

\* Every variable has a value the code can produce.
TypeOK ==
  /\ pc \in {"idle", "next", "sleep", "sample", "yield", "done"}
  /\ count \in Counts
  /\ now \in Nat /\ started \in Nat /\ asked \in Nat /\ began \in Nat
  /\ taken \in Nat /\ taken = Len(samples)
  /\ samples \in Seq(Snapshot) /\ previous \in Seq(Snapshot)
  /\ current \in Seq(Snapshot)
  /\ stdout \in Seq(Seq(Snapshot))
  /\ code \in -1..255
  /\ process \in Nat /\ exists \in BOOLEAN /\ reading \in BOOLEAN

Pairs(n) == IF n > 0 THEN n - 1 ELSE 0

\* Where the loop stands between the snapshots and the lines: between two
\* samples the base of the next delta is the last snapshot and every pair so
\* far has its line; at the yield the last pair has not.
LoopInvariant ==
  LET n == Len(samples) IN
  /\ pc \in {"idle", "next", "sleep", "sample"} =>
       /\ Len(stdout) = Pairs(n)
       /\ previous = IF n = 0 THEN << >> ELSE <<samples[n]>>
  /\ pc = "yield" =>
       /\ n >= 2 /\ Len(stdout) = n - 2
       /\ previous = <<samples[n - 1]>> /\ current = <<samples[n]>>

\* The printed deltas join the snapshots into one chain: line i goes from
\* snapshot i to snapshot i+1, none is skipped and none repeated, so the sum
\* of the lines is the whole change.
DeltasChain ==
  /\ Len(stdout) <= Pairs(Len(samples))
  /\ \A i \in 1..Len(stdout) : stdout[i] = <<samples[i], samples[i + 1]>>

\* What the exit code says of the output: success means every delta asked for,
\* a failed sample takes no delta away that was complete before it, and a
\* broken pipe loses exactly the line that was being written.
ExitCodeTellsOutput ==
  /\ code = EXIT_OK =>
       Len(samples) = Pairs(count + 1) /\ Len(stdout) = Pairs(count)
  /\ code \in (1..70) => Len(stdout) = Pairs(Len(samples))
  /\ code = EXIT_BROKEN_PIPE => ~reading /\ Len(stdout) = Len(samples) - 2

\* "The probes themselves cannot make the series drift": a sample begins in
\* its slot, counted from the origin, whenever the sample before it and the
\* line after that were out in time; otherwise it begins at once.
BackOnSchedule ==
  \A k \in 1..Len(samples) :
    LET slot == started + (k - 1) * Interval
    IN  samples[k].start = IF samples[k].asked > slot THEN samples[k].asked ELSE slot

\* A series with a count ends.
SeriesEnds == count # NoCount ~> pc = "done"

---------------------------------------------------------------------------
(* What documentation says and the code does not do *)

\* diff_snapshots raises "if the snapshots describe different processes".
DeltaOfOneProcess ==
  \A i \in 1..Len(stdout) : stdout[i][1].process = stdout[i][2].process
===========================================================================
