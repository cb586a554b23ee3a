# pidprobe in TLA+

pidprobe looks into a running CPython 3.14 process: it has the target run a
script through `sys.remote_exec`, waits for the script's answer on a channel of
its own, and prints what it learned as JSON. The difficult part is that two
programs that do not trust each other's timing share a socket, a few files and a
deadline. This directory holds models of that program, TLC runs over small
instances, and TLAPS proofs for arbitrary ones.

Paths below are relative to `src/src/pidprobe/`.

## 1. The system

| Component | Keeps | Does | Talks to |
|---|---|---|---|
| Prober and channels (`_channel.py`, `_deadline.py`) | deadline, channel, script directory | opens a channel, writes and injects the script, waits, cleans up, parses | the script, through file system and socket; the target, through `sys.remote_exec` |
| Injected script (`_inject.py`) | envelope, socket or result file | runs the collector, builds an envelope, writes it back | the channel of its prober |
| Envelope (`_envelope.py`) | – | validates an answer | – |
| Errors, exit codes (`_errors.py`, `_exits.py`) | – | name a failure and its exit code | `cli.py` |
| Command line (`cli.py`, `_commands.py`, `_parsers.py`) | stdout, exit code | runs one command and turns exceptions into codes | everything below |
| Diff series (`_diff.py`) | last snapshot, schedule | samples repeatedly and yields deltas | `_snapshot.py` for each sample, `_commands.py` for each line |
| Collectors and driver (`collectors/`) | sections, reports | run each collector in isolation inside the target | the injected script |
| Registry (`registry.py`) | – | finds plugins and settles names | entry points, the `pidprobe.registry` logger |
| Snapshot, eval (`_snapshot.py`, `_eval.py`) | – | compose a probe and its document | driver, prober |
| Safe repr (`_saferepr.py`) | – | bounded, masked renderings | runs inside the target |
| Doctor (`_doctor.py`, `_diagnosis.py`, `_attach_policy.py`, `_target_python.py`, `_procinfo.py`) | the logger's level for a while | decides whether attaching would work | procfs, registry |
| SQLAlchemy plugin, schema, package surface, demo, scripts | – | – | – |

What is hard about it, component by component (`PROJECT.json` lists each hazard
at its line):

- **Prober and script.** The target may answer late, never, partly, or after the
  prober gave up and removed its files. Several probers may inject into one
  target: CPython keeps a single pending script, and a script may begin inside
  another. The deadline is read more than once. The target or the prober may
  run out of descriptors, disk or life at any step. *Right means:* a call returns
  in time, with its own answer or a failure; its script runs at most once and not
  after the call returned; the target is never held up for longer than the budget;
  what is left behind is known.
- **Diff series.** Samples are slow, fail, and may see a different process under
  the same pid; the reader of stdout may leave in mid-series. *Right means:* the
  lines form a chain over the snapshots, the exit code tells what was printed, and
  the schedule does not drift.
- **Driver.** One collector's failure must cost its own section only.
- **Registry.** A plugin must not take a built-in name, and which of two wins must
  not depend on installation order (it does between equal entry point names).
- **Doctor.** The verdict must follow from the facts, some of which a check can only
  guess from outside the target; listening to a shared logger
  must not leave it changed.
- **Safe repr.** Bounds, masking and containers that change while they are read.

## 2. The modules

| Module | Models |
|---|---|
| `ProbeState` | the variables both ends share, their initial values, the passing of time |
| `Prober` | `execute_in_target`, `open_channel` and both channels, one action per call that may block, fail, or be seen by the target |
| `Target` | CPython's pending-script slot and the script of `_inject.py`, one action per system call |
| `ProbeSession` | the two composed; every property of a session; the refinement |
| `OneShotProbe` | the abstract specification: what `execute_in_target` promises |
| `ExitCodes` | the table of `_exits.py` and the `except` clauses of `main()` |
| `DiffSeries` | `run_diff` over `iter_snapshot_deltas` under `main()` |
| `Snapshot` | plugin discovery, the choice of collectors, the driver in the target, the document, and the doctor listening to the registry's logger |
| `SnapshotDelta` | what the objects, gc and fds collectors report of a process, and `diff_snapshots` over it |
| `Doctor` | `run_doctor` and `diagnose`: every check in order against a world that moves on, the report and its exit code |
| `MCProbeSession`, `MCDiffSeries`, `MCSnapshot`, `MCSnapshotDelta`, `MCDoctor` | instances for TLC |
| `ProbeSessionProofs`, `SessionSafetyProofs` | theorems about `ProbeSession` |
| `DiffSeriesProofs`, `SnapshotDeltaProofs`, `DoctorProofs` | theorems about the module each is named after |
| `RegistryProofs`, `CaptureProofs`, `SnapshotProofs` | theorems about `Snapshot`: its discovery, the doctor's listening, the driver and the document |

### A probe session

`pc[p]` is where a call stands: `open` (`open_channel`), `write_script`,
`remote_exec`, then either the socket's `check`/`arm`/`wait` loop or the file's
`read`/`expiry` loop, then the two `finally` clauses `rm_script` and `close`
(with `rmdir` for the second half of `rmtree`), `parse` and `done`. `outcome[p]`
is the exception or the envelope's status; an exception is recorded where it is
raised and the call then goes through its `finally` clauses, as `Leave` says.

`step[p]` is where its script stands in the target: `none` (never begun),
`collect`, then `connect`/`send`/`close` or `create`/`write`/`replace`, then
`del_main`, where `_pidprobe_main` is over and the module still has to delete its one
name, then `done`. The target runs scripts on a `stack`: it loads the pending one at
a safe point, which may come anywhere in another script, between the rename and
its end and between two pieces of a `sendall` included.

Data is reduced to what the properties tell apart. An envelope is a status and a
number of *pieces*; the kernel buffers `Capacity` of them, `recv` returns any
positive number of those buffered, and an answer parses exactly when all
of them were read, because no proper prefix of a JSON object is one. A directory
is present or absent, and a file is a name in it.

Time is a countdown. `remaining[p]` is `Deadline.remaining` in ticks; every value
below zero is -1, since only the sign is looked at. `Tick` lowers all timers at
once and may happen between any two steps, so a process may be delayed
anywhere: between `is_expired` and `settimeout`, say, which `CheckBudget` and
`ArmTimeout` keep apart.

`Faults` names what the environment may do besides the normal course: no socket
available, no descriptors, a failing disk, a refused injection, Ctrl-C, a collector
that raises, an exception that cannot be printed, a failing import at the head of the
script, a short write, an exit, SIGPIPE. A run enables
the ones its question is about.

External code (CPython's slot, the kernel's sockets, the target's own life) is
modelled from how `src/` uses it: a second `remote_exec` overwrites the first, a
missing script file runs nothing, closing a listener resets a connection nobody
accepted, and the exit of a process closes its sockets.

### A diff series

`DiffSeries` follows one snapshot at a time through the generator: `next` is the
loop condition, `sleep` is `_wait_until`, `sample` is `take_snapshot` (one step
here; `ProbeSession` is its detail), `yield` is the printing of a delta. A
snapshot is when it was asked for, when it began, and which process answered;
the numbers inside its sections are not modelled. Between steps the environment
may end the target, give its pid to another process, or close stdout. Time
passes only where the command can block, so a delay that the model shows is one
the code causes.

### A snapshot

Threads of one process discover plugins at the same time; each is a list of
steps. `load` is one turn of the loop of `discover_collectors`: the next entry
point by name loads, is rejected and logged, or raises a `SystemExit` that
nothing there catches. `accept` is one turn of `_accepted`. A thread that takes a
snapshot then composes its source (`compose`), runs one collector per step
(`drive`), and builds the document; a thread that diagnoses raises the level of
the logger before its discovery (`capture`) and restores it in a `finally`
(`release`). The logger's level, its `propagate` flag and its handlers are shared;
a record reaches whoever listens, whoever caused it.

A collector is the section it claims and the place of its entry point (0 for a
built-in one, -1 for the stacks collector that does not mask). What it does is one
of six effects: data, nothing (`None`), data that `json` cannot write, an exception
with or without a printable message, and something that is no `Exception`. The injection is
one step; its detail is `ProbeSession`.

### A delta

A *world* is what the collectors look at: instances per type, collections and
young objects per generation, descriptors, and which collectors fail. A snapshot
is taken of an arbitrary world with an arbitrary ranking that
`Counter.most_common(TOP_N)` may return, so between equal counts any type may be
left out. `diff_snapshots` is translated operator by operator. Rows are
functions from types or generations; their order is layout.

### A diagnosis

`pc` is the name of the check that comes next. Each reads the world when it runs:
`holder` is the process that bears the pid at that moment, and between two checks it
may exit and the pid may be given away. `about` remembers which process a check
spoke of. `target_interpreter` is two steps, because the pid may change hands between
the look at the executable and its run. A lookup of `_procinfo.py` answers or does
not: procfs by permission, `/bin/ps` at its own pleasure. `main()` writes the report
and flushes it, or meets a reader that has gone, or Ctrl-C; a plugin's `SystemExit`
ends it with any code and no report.

The rules by which the kernel and CPython refuse an injection are stated apart from
the checks (`HostObstacles`, `TargetObstacles`); `Sought` says which of them a check is
there to find. The two can disagree, and the model has where. `Unseen`: a scope that
exists but cannot be read, which passes for none, and the Python of a process whose
path leads the prober to another binary (`atPath` against `python`), because the path
is run in the prober's own mount namespace and may have been replaced since the
process started. `Overstated`: what only `CAP_SYS_PTRACE` or the entitlement of
macOS allows, which no check asks for, and scope 2 for root.

## 3. What is checked

Runs expected to pass (`TypeOK`, checked in each module, is not repeated):

| Run | Instance | Shows |
|---|---|---|
| `one_prober` | one call, both channels, budget 2, 3 pieces, every fault, fair prober | `LifeCycle`, `TargetOutwaitsProber`, `CutOnlyByExit`, `AnsweredLeavesNothing`, `LeftoversAreExplained`, `EveryCallReturns`, and that the call implements `OneShotProbe`, its liveness included |
| `two_probers` | two calls, both channels, budget 1, 2 pieces, collectors that raise, the target may exit | `LifeCycle`, `ScriptsNest`, `AnswerHasAPlace`, `EnvelopeIsWritten`, `LostOnlyToAnother`, `OneShot` |
| `target_released` | two calls over sockets, fair scripts, probers that may stop | `TargetIsReleased` |
| `diff_series` | counts 0, 1, 3 and none; interval 2; clock to 7; fair command | `LoopInvariant`, `DeltasChain`, `ExitCodeTellsOutput`, `BackOnSchedule`, `SeriesEnds` |
| `snapshot` | one snapshot beside one diagnosis, seven installations of up to two plugins, three explicit selections, two root levels | `FirstClaimWins`, `CheckTellsSkips`, `LoggerRestored`, `EachSectionStandsAlone`, `OnlyOddFailuresSpread`, `SectionsNeverCollide` |
| `snapshot_delta` | three snapshots, rankings of two out of three types with counts to two, generations that come and go, failing collectors | `DeltasBoundTheChange`, `TypesSumToTotal`, `DeltasAddUp`, `AbsenceIsNotZero` |
| `doctor` | 21 hosts, nine processes that differ from a good one in a respect or two, or all, with and without a pid, two changes of hands, fair doctor | `OkIsEarned`, `FailIsReal`, `NoObstacleUnmentioned`, `OnlyInterpretersAreRun`, `ExitCodeTellsVerdict`, `DiagnosisReturns` |

The statements, with their reasons, are in the modules. In short:

- *LifeCycle* – nothing reaches the target before the injection, the script file
  lives only while the call is open, nothing is read that was not sent, and an
  outcome is known exactly when a try block has been left.
- *TargetOutwaitsProber* – the script's socket timeout never ends a write back that
  the prober would still have waited for.
- *CutOnlyByExit* – an incomplete answer read to its end means the target exited,
  `os.write` wrote short, or the budget was spent.
- *AnsweredLeavesNothing* – a call that was answered cleans up completely: the
  race of `rmtree` with the script is over by then.
- *LeftoversAreExplained* – however a call ends, its script, listener and
  connection are gone; a result directory stays only with a late script's file
  in it, a socket directory only after a failed `socket()`.
- *LostOnlyToAnother* – an injected script that was not loaded at a safe point was
  overwritten by another call's.
- *ScriptsNest* – the scripts that were begun and have not ended are those on the
  target's stack, each once: one that interrupts another ends before it and is not
  begun again.
- *EnvelopeIsWritten* – a script that has ended, in a live target and while its prober
  still waits with time left, put its whole envelope where that prober finds it. The
  exceptions are faults of the target: an import, an exception that cannot be
  described, descriptors, the disk, a short write.
- *BackOnSchedule* – every sample starts in its slot, or at once if it is late.
- *ExitCodeTellsOutput* – success prints every delta asked for; a failed sample
  takes no complete delta away; a broken pipe loses exactly one line.
- *FirstClaimWins* – a discovery has one plugin for every free section that a sound
  plugin claims, no claimant of that section has a smaller entry point name, and
  the result is in the order of those names. Between equal names the property leaves
  the choice open; the code takes the one installed first.
- *CheckTellsSkips*, *LoggerRestored* – the doctor's plugin check warns exactly when a
  plugin is missing, whatever the root logger's level and whoever else discovers
  plugins meanwhile, and gives the logger back as it found it.
- *EachSectionStandsAlone*, *OnlyOddFailuresSpread* – in a document a report is an error
  exactly when its own collector raised, and the section is null exactly then or when
  that collector returned `None`; collectors lose a whole snapshot, to an error envelope
  or to none at all, only by what the driver's `except` cannot contain.
- *SectionsNeverCollide* – nothing is injected unless the sections differ, and no
  section replaces a key of the document's own.
- *DeltasBoundTheChange* – the docstring of `_type_deltas`, made exact: by how much a
  delta may be off, in which direction, and when a type that is not reported may
  have moved.
- *TypesSumToTotal*, *DeltasAddUp* – types sum to the total when nothing was left out;
  the lines of a series may be dropped or joined, whatever was.
- *AbsenceIsNotZero* – what a snapshot does not have never becomes a number in the gc
  section.
- *OkIsEarned*, *FailIsReal*, *NoObstacleUnmentioned* – a check's OK and FAIL are true of
  the process that was asked, and a delivered report on one process leaves no
  obstacle out; the exceptions are `Unseen` and, for a FAIL, `Overstated`.
- *OnlyInterpretersAreRun* – although the pid changes hands between the look and the
  run.
- *ExitCodeTellsVerdict* – 0 and 7 are exit codes of reports that were delivered, unless a
  plugin's `SystemExit` ended the doctor.

Runs that refute a statement of the documentation (details and quotations under
`findings` in `PROJECT.json`):

| Run | Statement | What happens |
|---|---|---|
| `expiry_race` | every failure is a `ProbeError` | the clock passes the deadline between `is_expired` and `settimeout`: `ValueError` or `BlockingIOError` |
| `late_writer` | the result directory is removed | a running script writes during `rmtree` |
| `silent_failure` | always one envelope | `str()` of the exception raises |
| `lost_injection` | timeout means no safe point | another injection overwrote the slot |
| `diff_pid_reuse` | a delta is of one process | the pid was reused between samples |

Each has the smallest instance in which the case arises, with the one fault it
needs, or none; section 4 proves where each of the texts is right. More disagreements the models can show have no run, because the
passing properties name them as exceptions or because the wording can be read
both ways:

- a socket directory left by a `socket()` that fails after `mkdtemp`
  (`_channel.py:110`, in `LeftoversAreExplained`);
- a truncated file published after a short `os.write` (`_inject.py:171`, in
  `CutOnlyByExit`);
- a target with the default action of SIGPIPE that `sendall` kills
  (`_inject.py:156`, the action `SendKills`);
- samples less than an interval apart while a series catches up (`_diff.py:133`, in
  `BackOnSchedule`);
- a failed import at the head of the script, outside its inner `try`, which leaves no
  envelope (`_inject.py:69-72`, in `EnvelopeIsWritten`);
- "target never reached a safe eval point" (`_errors.py:18`) of a target that reached
  one and runs a slow collector: the message is the same for every timeout;
- a FAIL for root at ptrace scope 2, which lets root attach (`_diagnosis.py:30`:
  "Attaching cannot work until this is fixed"; in `Overstated`);
- FAILs for a prober that holds `CAP_SYS_PTRACE` or the entitlement, although the texts of
  the checks say that it is let through (`_attach_policy.py:24-36`, `:100-103`; in
  `Overstated`);
- an OK for a `ptrace_scope` that exists and cannot be read (`ptrace_scope`, `_procinfo.py:87-101`,
  documents `None` for a knob that is missing or no number, and gives it for every
  `OSError`; `_attach_policy.py:56-61`; in `Unseen`);
- the version of another Python, reported as the target's, where the path of its
  executable leads elsewhere (`_procinfo.py:174`: "running the target's own
  executable"; in `Unseen`);
- a section that is null because its collector returned `None`, whose report is ok
  (`../../docs/output-schema.md:87`: "null exactly when its collector raised"; in
  `EachSectionStandsAlone`);
- plugins of equal entry point names, of which the one installed first wins
  (`registry.py:78-79`: "the result does not depend on installation order"; `sorted` at
  `registry.py:81` is stable; left open by `FirstClaimWins`);
- a plugin whose import raises `SystemExit`, which ends discovery although
  `registry.py:13` says that it never raises, and the doctor with the plugin's exit
  code, 0 and 7 included, and no report (the actions `LoadExits` and `PluginExits`; in
  `ExitCodeTellsVerdict`);
- two diagnoses that overlap, after which the logger keeps what one of them set:
  `LoggerRestored` does not hold with a second doctor in the instance, and no text
  promises that it would.

**Bounds.** Two probers suffice for what calls do to each other: they meet only in
the one pending slot and on the target's stack, and the properties speak of
one call and "another". A budget of 1 or 2 ticks separates before, at and after
the deadline; two or three pieces against a buffer of one make `sendall` block,
time out and be cut in the middle. Four snapshots' worth of clock lets a sample
overrun by more than a slot and the series catch up; two processes are enough for
a change of process; `MaxSamples` stands for the end that a series without a
count does not have. Two plugins can already conflict, in installation order or in
name, and one snapshot beside one diagnosis is enough for one to cause the
records another hears. Three snapshots are what `DeltasAddUp` speaks of, and with
rankings of two, three types leave one out, tie and change places. Two changes of
hands let a pid be freed and taken again between any two checks.

**Deadlock.** Every configuration turns TLC's deadlock check off: once all calls
are done and no script runs nothing remains to be done, and so with a series, a
diagnosis or the bounded number of snapshots. That a call does not stop
earlier is `EveryCallReturns`, that a script does not is `TargetIsReleased`, that a
series does not is `SeriesEnds`, that a diagnosis does not is `DiagnosisReturns`.

**Fairness.** `ProberFairness` is weak fairness of each prober's own steps and of
time: the operating system schedules a runnable process, and every wait of a
prober has a timeout. Ctrl-C is not in it, and nothing is assumed of the target.
`ScriptFairness` is the mirror image: a script that was begun is scheduled, and
nothing is assumed of the probers. `FairSpec` of `DiffSeries` lets the command
run, time pass and samples return, the last of which is `EveryCallReturns`.
`FairSpec` of `Doctor` is weak fairness of the doctor's own steps: each ends by
itself or, where it runs another program, by the timeout of `_run`. The
target's reaching a safe point is never assumed.

**Symmetry** is used in `two_probers` only, which has no liveness property.

## 4. What is proved

All constants are arbitrary within the assumptions their modules name: for a
session, any set of probers that does not contain `NoProber`, a positive budget,
positive numbers of pieces and of buffered pieces, any set of faults.

- `TypeCorrect`: `Spec => []TypeOK`. The types are inductive only
  together with `LifeCycle`: that a script in `sendall` has sent less than the
  whole envelope is what keeps `sent` within its bound, and that the
  answer is a status when a call returns it is what types `outcome`.
- `LifeCycleHolds`: `Spec => []LifeCycle`. `TypeOK /\ LifeCycle` is the inductive
  invariant of the whole development. Each action is a case; the three
  groups of conjuncts (`InjectionInOrder`, `AnswerInOrder`, `OutcomeInOrder`) are
  shown separately.
- `SessionIsOneShot`: `Spec => OneShot`. Each step maps to a step of
  `OneShotProbe` or to a stutter: `Start` to `Open`, `LoadScript` to `Run`,
  `Collect` to `Answer`, the last step of a call to `Return` or `Fail`. `LifeCycle`
  supplies what the abstract guards ask for: that a script that begins has its
  file and so belongs to an open call, that a refused call was never run,
  that an answer is the script's own.
- `TargetIsPatient`: `Spec => []TargetOutwaitsProber`. Inductive over `TypeOK` and
  `LifeCycle`: a script comes to `sendall` with the whole budget, no prober begins to
  wait when its script is already there, and time lowers both timers alike.
- `AnswersHaveAPlace`: `Spec => []AnswerHasAPlace`. The strengthening `HoldsChannel` drops
  the target from the statement: from opening its channel to its last wait
  a prober holds it, and no step of anybody else touches it.
- `ScriptsAreNested`: `Spec => []ScriptsNest`, from one lemma each for pushing, popping
  and moving the script on top of the stack, with no assumption on where a safe
  point may come. That the pending script is not on the stack already is `LifeCycle`.
- `EnvelopesAreWritten`: `Spec => []EnvelopeIsWritten`. `Puts` says for every place of a script,
  and not only for its end, that what it has written so far is still there: it needs
  the place (`AnswersHaveAPlace`), the script's timer (`TargetIsPatient`) and that a
  waiting prober has not closed its end (`PlacesHold`).
- `LeftoversKnown`: `Spec => []LeftoversAreExplained`. `PlacesHold` says, for every
  place in the code, which of a call's directories, listener and connection exist: what a
  `finally` clause removes must have been opened before it and by nobody else.
- `CutsAreExplained` (`CutOnlyByExit`) and `AnsweredIsClean` (`AnsweredLeavesNothing`), from
  `PlacesHold` and `AnswersAreWhole`: a script that closes its end has sent everything or
  is *excused*, and a prober that stops waiting without an exception has read
  everything its script will ever send. The hard case is a `sendall` that fails: if its
  prober still waits, the connection is open, so it was the script's timer that
  ran out, and by `TargetOutwaitsProber` the prober's has too.
- `LossesAreExplained`: `Spec => []LostOnlyToAnother`. `NotLost` drops the safe point
  from the statement: the slot of a waiting prober is emptied only by a load, which
  finds its file, by another injection, or by the end of the target.
- `SeriesChains`, `LoopHolds`, `SeriesTypes`: `DeltasChain`, `LoopInvariant` and `TypeOK` of
  `DiffSeries`, from `Chain`, for a series of any length.
- `ExitCodeIsHonest`: `ExitCodeTellsOutput`, with the number of snapshots bounded by the
  count that was asked for (`Counted`).
- `SeriesStaysOnSchedule`: `BackOnSchedule`. `Timed` adds that a sleeping series has not slept
  past its slot, or past the moment it asked when that was later, and that a sample begins
  then. The step that needs it is `SampleTaken`.
- `DoctorTypes`, `EveryOkIsEarned`, `EveryFailIsReal`, `RunsInterpretersOnly`,
  `VerdictIsTold`: five of the six invariants of `Doctor`. `Inv` serves the first four: that
  each check is `Honest` about the process it names is a statement about the check
  alone, so that later changes of hands cannot undo it; one lemma per check. The
  exceptions enter through `BlindSpots` and `PermittedMeaning`, which say what they are.
  For `VerdictIsTold`, `Inv` says that the exit code is set last.
- `NothingUnmentioned`: the sixth, `NoObstacleUnmentioned`. `Settled` lists, for each value of
  `pc`, the obstacles that the checks before it look for, and `Thorough` says that those
  which are there and `Visible` have been mentioned: an honest check cannot say OK of
  an obstacle that it can see.
- `Precedence`: `Spec => []FirstClaimWins` for any set of threads and any
  installations and any order among equal names. `RegistryInv` cuts the entry points of a discovery into those that are
  decided, those that wait and those not loaded yet, in that order, and says that
  the accepted ones are exactly the winners among the decided. That `Before` is a
  strict total order, equal names included, is a lemma.
- `LoggerIsRestored`, `SkipsAreTold`: `LoggerRestored` and `CheckTellsSkips`, under the
  stated assumption that there is at most one diagnosing thread, beside any number of
  snapshots. `Listening` relates the messages heard so far to what has been decided
  by that diagnosis; a message that another thread caused is of a skip too, because
  the winners do not depend on the thread.
- `SectionsStandAlone`, `OddFailuresOnly`, `NoCollisions`: the three driver properties,
  a collector that returns `None` and a lost error envelope included, from `Good`, which relates the turns of the loop done so far to the effects of their
  collectors.
- `DiscoveriesAgree`: finished discoveries of one installation accept the same plugins in the
  same order, whichever thread ran them. `RegistryInv` says that each accepted list
  holds the winners in ascending order; `OneOrder`, that a set has one ascending list, takes
  the first place where two lists differ (`FirstDifference`).
- `SnapshotTypes`: `TypeOK` of `Snapshot`, from `Typed`, which holds what the other
  invariants of that module leave out: the saved settings of the logger, the counts of
  messages, the outcomes, and that no more effects are there than collectors were chosen.
- `DeltasBound`, `SeriesAddsUp`, `AbsenceStaysAbsent`: three invariants of `SnapshotDelta`, for
  any set of types, `TopN` and worlds. A row is the difference of what either
  ranking lists, counting zero for what it leaves out; that is why deltas
  telescope, and by how much they are off.
- `TotalsAgree`: `TypesSumToTotal`. Sums over a set are a fold, so this needs an induction on
  finite sets, and the library's induction theorems cannot be used. Instead a set for
  which a sum went wrong would have a smallest such subset, because `<` is well founded
  on the numbers (`WellFoundedInduction`, a fact without operator parameter), and taking
  one element out of that one gives a smaller. That the recursive function of the fold exists is shown in
  the same way, by approximations on the subsets of a bounded cardinality. `SumInAnyOrder`
  is the result.
- `SnapshotsTyped`: `TypeOK` of `SnapshotDelta`; `Bounded` adds that no more snapshots
  are taken than `MaxSnapshots`.

**How far the documentation is right.** A violated property says that a text is wrong in some
instance; these theorems say in which instances it is right, so that the two together draw
the line.

- `PassedOverMeansOutrun`: a safe point passes over a waiting prober whose script has not
  begun only where another call injected into the same target: `lost_injection` needs
  two. The other way to the same message, a script that began and is slow, is not
  excluded by anything.
- `EnvelopesAreWritten` (above) names what can keep a script from writing its envelope:
  a collector that raises is not among it.
- `PolledExpiryIsATimeout`: where no socket is allowed, `ExpiryIsATimeout`; and
  `RawErrorsAreLate`, with no assumption: an error that is no `ProbeError` comes from a
  socket channel whose deadline has passed.
- `SocketLeavesNothing`: where the socket is allowed and neither its absence, a failing
  `socket()` nor a full disk forces the fallback, `NothingLeftBehind`, whatever else fails.
- `OnlyReuseMixesProcesses`: while the pid was not reused, `DeltaOfOneProcess`; and
  `LinesFollowTheProcesses`, with no assumption: the processes of a series come in
  turn, so a takeover shows in at most one line.

Those about the session, but for `EnvelopesAreWritten`, rest on `AllIsExplained`, which gives
for each call the reason of what a property would forbid: another injection for a script that
was passed over (`Outrun`), the deadline for a raw error, a reason of `open_channel` for the
kind of the channel. The last two rest on `InTurn`.

**Why things end.** Liveness itself is outside the prover's reach, but its safety half is not:
that a number of steps, which the code bounds, is left, and that nothing else raises it. What
remains for TLC is that fairness lets those steps happen.

- `ExpiredCallsRunDown`: a call whose deadline has passed keeps it so, and each of its steps, an
  interrupt included, lowers `StepsLeft`, which no step of the target, of another call or
  of the clock raises: there is no loop in a call but the one that the deadline ends.
- `ScriptsRunDown`: each step of a script lowers `WorkLeft`, which starts at `Pieces` + 6, and
  nothing raises it.
- `SeriesRunsDown`: with a count, `SeriesLeft` - four for each sample to take and the rank of the
  place in the loop - falls at each step of the command and never rises.
- `DiagnosisGoesForward`: each step of a diagnosis goes to a later `Place`. With it
  `ReportsInOrder`: no check is made twice and the report has them in the order of
  `diagnose`, although the pid may change hands between them.

Every invariant of every passing run is proved for all constants, the two that concern the
shared logger for at most one diagnosing thread. Model-checked only:
liveness (`EveryCallReturns`, `TargetIsReleased`, `SeriesEnds`, `DiagnosisReturns`, the
liveness of the refinement), which is outside the prover's reach.

## 5. What is not modelled

- **Session.** The message texts; the frame walk of the script; the shape checks of a
  foreign envelope (the only writer of a channel is the script); signals of the
  target; interrupts of the prober between two bytecodes of its clean-up; reading
  the result file in the middle of a rename, which is atomic; a file created between
  `rmtree`'s scan and its unlinks, which ends as one created after them does, with a
  directory that cannot be removed.
- **Registry's logger.** A level, a `disabled` flag or a handler that the application set on
  `pidprobe.registry` itself, and `logging.disable`: any of them can keep a skip from the
  doctor. The model has the level that it inherits.
- **Doctor.** Processes that are not dumpable, and root without its capabilities, whom the
  kernel refuses and no check notices.
- **Diff.** `interval_ms`, one subtraction of two stamps of a wall clock that may be set;
  the keys that a delta copies.
- **Command line.** Parsing of arguments, `--debug`, and `eval`, which is a snapshot
  with one collector of its own.
- **Collectors.** The walks of the stacks and fds collectors: they read and keep
  nothing.
- **Safe repr.** Its promises are about the characters of a text (bounds, masking), which these
  models abstract from; two hazards of it are listed in `PROJECT.json` without a property.
- **SQLAlchemy plugin, schema, package surface, demo, scripts.** A read-only report, a
  static document, re-exports, and code that is not part of the program.

## 6. Plan

Done: the session with its abstract specification and refinement; the diff series;
exit codes; the registry, the driver and the document; the deltas; the doctor and
its listening; proofs of the refinement and of every safety invariant of the passing runs.

Left:

1. `TargetFrames`: `_pidprobe_target_frames` under nested scripts, on top of `Target`'s stack.
2. `Cli`: every command under `main()`, with usage errors, `--debug` and `eval`.
3. `SafeRepr`: the budget that the nested renderings share, as a recursive function,
   with a container that changes while it is rendered.
