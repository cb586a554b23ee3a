------------------------- MODULE DiffSeriesProofs -------------------------
(***************************************************************************)
(* Proofs about DiffSeries, for every interval, count and length of series.  *)
(***************************************************************************)
EXTENDS DiffSeries, SequenceTheorems, TLAPS

\* TypeOK without the bounds on numbers that the chain does not need.
Shape ==
  /\ samples \in Seq(Snapshot) /\ previous \in Seq(Snapshot)
  /\ current \in Seq(Snapshot) /\ stdout \in Seq(Seq(Snapshot))
  /\ asked \in Nat /\ began \in Nat /\ process \in Nat /\ now \in Nat

\* What the loop keeps true together.
Chain == Shape /\ LoopInvariant /\ DeltasChain

\* Initially there is neither snapshot nor line.
LEMMA InitChain == Init => Chain
  BY DEF Init, Chain, Shape, LoopInvariant, DeltasChain, Pairs

\* A new snapshot leaves the lines as they are.
LEMMA SampleChain == Chain /\ SampleTaken => Chain'
<1> SUFFICES ASSUME Chain, SampleTaken  PROVE Chain'
  OBVIOUS
<1> DEFINE snapshot == [asked |-> asked, start |-> began, process |-> process]
<1>1. snapshot \in Snapshot
  BY DEF Chain, Shape, Snapshot
<1>2. samples' = Append(samples, snapshot) /\ pc = "sample" /\ UNCHANGED <<stdout, clockVars, process>>
  BY DEF SampleTaken, envVars
<1>3. /\ samples' \in Seq(Snapshot) /\ Len(samples') = Len(samples) + 1
      /\ samples'[Len(samples) + 1] = snapshot
      /\ \A i \in 1..Len(samples) : samples'[i] = samples[i]
  BY <1>1, <1>2 DEF Chain, Shape
<1>4. <<snapshot>> \in Seq(Snapshot)
  BY <1>1
<1> HIDE DEF snapshot
<1>5. Shape'
  BY <1>2, <1>3, <1>4 DEF SampleTaken, Chain, Shape, clockVars, snapshot
<1>6. DeltasChain'
  <2>1. /\ stdout' = stdout /\ Len(stdout) \in Nat /\ Len(samples) \in Nat
        /\ Len(stdout) = Pairs(Len(samples))
    BY <1>2 DEF Chain, Shape, LoopInvariant
  <2>2. /\ Len(stdout) <= Pairs(Len(samples) + 1)
        /\ \A i \in 1..Len(stdout) :
             i \in 1..Len(samples) /\ i + 1 \in 1..Len(samples)
    BY ONLY <2>1 DEF Pairs
  <2>3. \A i \in 1..Len(stdout) : stdout[i] = <<samples[i], samples[i + 1]>>
    BY DEF Chain, DeltasChain
  <2> QED
    BY <1>3, <2>1, <2>2, <2>3 DEF DeltasChain
<1>7. CASE previous = << >>
  <2>1. Len(samples) = 0
    BY <1>2, <1>7 DEF Chain, Shape, LoopInvariant
  <2>2. pc' = "next" /\ previous' = <<snapshot>>
    BY <1>7 DEF SampleTaken, snapshot
  <2> QED
    BY <1>2, <1>3, <1>5, <1>6, <2>1, <2>2 DEF Chain, LoopInvariant, Pairs, Shape
<1>8. CASE previous # << >>
  <2>1. Len(samples) > 0 /\ previous = <<samples[Len(samples)]>>
    BY <1>2, <1>8 DEF Chain, Shape, LoopInvariant
  <2>2. pc' = "yield" /\ current' = <<snapshot>> /\ previous' = previous
    BY <1>8 DEF SampleTaken, snapshot
  <2> QED
    BY <1>2, <1>3, <1>5, <1>6, <2>1, <2>2 DEF Chain, LoopInvariant, Pairs, Shape
<1> QED
  BY <1>7, <1>8

\* The line written at the yield is the next link of the chain.
LEMMA LineChain ==
  ASSUME Chain, pc = "yield", stdout' = Append(stdout, previous \o current),
         UNCHANGED samples
  PROVE  DeltasChain' /\ stdout' \in Seq(Seq(Snapshot)) /\ Len(stdout') = Pairs(Len(samples))
<1> DEFINE n == Len(samples)
<1>1. /\ n \in Nat /\ n >= 2 /\ Len(stdout) = n - 2
      /\ previous = <<samples[n - 1]>> /\ current = <<samples[n]>>
  BY DEF Chain, Shape, LoopInvariant
<1>2. previous \o current = <<samples[n - 1], samples[n]>>
  <2> DEFINE a == samples[n - 1]
             b == samples[n]
  <2>1. a \in Snapshot /\ b \in Snapshot
    BY <1>1 DEF Chain, Shape
  <2> HIDE DEF a, b
  <2>2. <<a>> \in Seq(Snapshot) /\ <<b>> \in Seq(Snapshot)
    BY <2>1
  <2>3. Len(<<a>> \o <<b>>) = 2 /\ (<<a>> \o <<b>>)[1] = a /\ (<<a>> \o <<b>>)[2] = b
    BY <2>2
  <2>4. <<a>> \o <<b>> \in Seq(Snapshot)
    BY <2>2
  <2>5. <<a>> \o <<b>> = <<a, b>>
    <3>1. <<a, b>> \in Seq(Snapshot) /\ Len(<<a, b>>) = 2
      BY <2>1
    <3>2. \A i \in 1..2 : (<<a>> \o <<b>>)[i] = <<a, b>>[i]
      BY <2>3
    <3> QED
      BY <2>3, <2>4, <3>1, <3>2, SeqEqual
  <2> QED
    BY <1>1, <2>5 DEF a, b
<1>3. previous \o current \in Seq(Snapshot)
  BY DEF Chain, Shape
<1>4. /\ stdout' \in Seq(Seq(Snapshot)) /\ Len(stdout') = n - 1
      /\ stdout'[n - 1] = <<samples[n - 1], samples[n]>>
      /\ \A i \in 1..(n - 2) : stdout'[i] = stdout[i]
  BY <1>1, <1>2, <1>3 DEF Chain, Shape
<1>5. \A i \in 1..Len(stdout') : stdout'[i] = <<samples[i], samples[i + 1]>>
  <2> SUFFICES ASSUME NEW i \in 1..(n - 1)
               PROVE  stdout'[i] = <<samples[i], samples[i + 1]>>
    BY <1>4
  <2>1. CASE i = n - 1
    BY <1>1, <1>4, <2>1
  <2>2. CASE i # n - 1
    BY <1>1, <1>4, <2>2 DEF Chain, DeltasChain
  <2> QED
    BY <2>1, <2>2
<1> QED
  BY <1>1, <1>4, <1>5 DEF DeltasChain, Pairs

\* Every step keeps the chain.
LEMMA NextChain == Chain /\ [Next]_vars => Chain'
<1> SUFFICES ASSUME Chain, [Next]_vars  PROVE Chain'
  OBVIOUS
<1> USE DEF clockVars, loopVars, envVars
<1>1. CASE SampleTaken
  BY <1>1, SampleChain
<1>2. CASE PrintLine
  <2>1. DeltasChain' /\ stdout' \in Seq(Seq(Snapshot)) /\ Len(stdout') = Pairs(Len(samples))
    BY <1>2, LineChain DEF PrintLine
  <2>2. previous' = <<samples[Len(samples)]>> /\ Len(samples) >= 2
    BY <1>2 DEF PrintLine, Rebase, Chain, LoopInvariant
  <2>3. Shape'
    BY <1>2, <2>1 DEF PrintLine, Rebase, Chain, Shape
  <2>4. LoopInvariant'
    BY <1>2, <2>1, <2>2 DEF PrintLine, LoopInvariant, Pairs, Chain, Shape
  <2> QED
    BY <2>1, <2>3, <2>4 DEF Chain
<1>3. CASE Interrupt
  <2>1. CASE UNCHANGED stdout
    BY <1>3, <2>1 DEF Interrupt, Return, Chain, Shape, LoopInvariant, DeltasChain
  <2>2. CASE pc = "yield" /\ stdout' = Append(stdout, previous \o current)
    <3>1. DeltasChain' /\ stdout' \in Seq(Seq(Snapshot))
      BY <1>3, <2>2, LineChain DEF Interrupt
    <3> QED
      BY <1>3, <3>1 DEF Interrupt, Return, Chain, Shape, LoopInvariant
  <2> QED
    BY <1>3, <2>1, <2>2 DEF Interrupt
<1>4. CASE Begin \/ Continue \/ WakeUp
  BY <1>4 DEF Begin, Continue, WakeUp, Chain, Shape, LoopInvariant, DeltasChain
<1>5. CASE Finish \/ SampleFails \/ PrintFails
  BY <1>5 DEF Finish, SampleFails, PrintFails, Return, Chain, Shape, LoopInvariant,
              DeltasChain
<1>6. CASE Tick \/ TargetExits \/ PidIsReused \/ ReaderLeaves
  <2>1. UNCHANGED <<pc, asked, began, taken, previous, current, samples, stdout>>
    BY <1>6 DEF Tick, TargetExits, PidIsReused, ReaderLeaves
  <2>2. now' \in Nat /\ process' \in Nat
    BY <1>6 DEF Tick, TargetExits, PidIsReused, ReaderLeaves, Chain, Shape
  <2> QED
    BY <2>1, <2>2 DEF Chain, Shape, LoopInvariant, DeltasChain
<1>7. CASE UNCHANGED vars
  BY <1>7 DEF vars, Chain, Shape, LoopInvariant, DeltasChain
<1> QED
  BY <1>1, <1>2, <1>3, <1>4, <1>5, <1>6, <1>7 DEF Next, Step

\* The lines of a series join its snapshots into one unbroken chain, however
\* long it runs and however it ends.
THEOREM SeriesChains == Spec => []DeltasChain
<1>1. Chain => DeltasChain
  BY DEF Chain
<1> QED
  BY <1>1, InitChain, NextChain, PTL DEF Spec

\* Where a series stands between its snapshots and its lines, at every step.
THEOREM LoopHolds == Spec => []LoopInvariant
<1>1. Chain => LoopInvariant
  BY DEF Chain
<1> QED
  BY <1>1, InitChain, NextChain, PTL DEF Spec

---------------------------------------------------------------------------
(* Types, exit codes and the schedule *)

\* main() turns every exception into an exit code of its table.
LEMMA CodesInRange ==
  /\ \A e \in ProbeErrors \cup OtherErrors : CodeOf(e) \in 1..70
  /\ CodeOf("KeyboardInterrupt") = 130
  /\ CodeOf("BrokenPipeError") = 141
  BY DEF CodeOf, exit_code_for, ProbeErrors, OtherErrors, EXIT_INTERNAL_ERROR,
         EXIT_INTERRUPTED, EXIT_BROKEN_PIPE

\* What Chain says of the types, and the rest of TypeOK.
LEMMA InitType == Init => TypeOK
  BY DEF Init, TypeOK

LEMMA NextType == TypeOK /\ Chain /\ Chain' /\ [Next]_vars => TypeOK'
<1> SUFFICES ASSUME TypeOK, Chain, Chain', [Next]_vars  PROVE TypeOK'
  OBVIOUS
<1>1. Shape'
  BY DEF Chain
<1>2. /\ taken' \in Nat /\ taken' = Len(samples')
      /\ pc' \in {"idle", "next", "sleep", "sample", "yield", "done"}
      /\ count' = count /\ started' \in Nat
      /\ process' \in Nat /\ exists' \in BOOLEAN /\ reading' \in BOOLEAN
  <2> USE DEF TypeOK, clockVars, loopVars, envVars
  <2>1. CASE SampleTaken
    <3>1. Len(samples') = Len(samples) + 1
      BY <2>1 DEF SampleTaken
    <3> QED
      BY <2>1, <3>1 DEF SampleTaken
  <2>2. CASE Begin \/ Continue \/ WakeUp \/ PrintLine
    BY <2>2 DEF Begin, Continue, WakeUp, PrintLine
  <2>3. CASE Finish \/ SampleFails \/ PrintFails \/ Interrupt
    BY <2>3 DEF Finish, SampleFails, PrintFails, Interrupt, Return
  <2>4. CASE Tick \/ TargetExits \/ PidIsReused \/ ReaderLeaves
    <3>1. UNCHANGED <<pc, count, started, taken, samples>>
      BY <2>4 DEF Tick, TargetExits, PidIsReused, ReaderLeaves
    <3>2. process' \in Nat
      <4>1. process' = process \/ process' = process + 1
        BY <2>4 DEF Tick, TargetExits, PidIsReused, ReaderLeaves
      <4> QED
        BY <4>1
    <3>3. exists' \in BOOLEAN /\ reading' \in BOOLEAN
      BY <2>4, Zenon DEF Tick, TargetExits, PidIsReused, ReaderLeaves
    <3> QED
      BY <3>1, <3>2, <3>3
  <2>5. CASE UNCHANGED vars
    BY <2>5 DEF vars
  <2> QED
    BY <2>1, <2>2, <2>3, <2>4, <2>5 DEF Next, Step
<1>3. code' \in -1..255
  <2> USE DEF TypeOK
  <2>1. CASE Finish
    BY <2>1 DEF Finish, Return, EXIT_OK
  <2>2. CASE SampleFails
    <3>1. PICK e \in ProbeErrors \cup OtherErrors : code' = CodeOf(e)
      BY <2>2 DEF SampleFails, Return
    <3>2. CodeOf(e) \in 1..70
      BY ONLY <3>1, CodesInRange
    <3> QED
      BY ONLY <3>1, <3>2
  <2>3. CASE PrintFails
    BY <2>3, CodesInRange DEF PrintFails, Return
  <2>4. CASE Interrupt
    BY <2>4, CodesInRange DEF Interrupt, Return
  <2>5. CASE Begin \/ Continue \/ WakeUp \/ SampleTaken \/ PrintLine
    BY <2>5 DEF Begin, Continue, WakeUp, SampleTaken, PrintLine
  <2>6. CASE Tick \/ TargetExits \/ PidIsReused \/ ReaderLeaves \/ UNCHANGED vars
    BY <2>6 DEF Tick, TargetExits, PidIsReused, ReaderLeaves, vars
  <2> QED
    BY <2>1, <2>2, <2>3, <2>4, <2>5, <2>6 DEF Next, Step
<1> QED
  BY <1>1, <1>2, <1>3 DEF TypeOK, Shape

\* Every state of a series is well typed, its exit code included.
THEOREM SeriesTypes == Spec => []TypeOK
<1>1. Init => TypeOK /\ Chain
  BY InitType, InitChain
<1>2. TypeOK /\ Chain /\ [Next]_vars => (TypeOK /\ Chain)'
  BY NextType, NextChain
<1> QED
  BY <1>1, <1>2, PTL DEF Spec

\* No series takes more snapshots than it was asked for, and none has an exit
\* code before it returns.
Counted ==
  /\ pc # "done" => code = -1
  /\ count # NoCount => /\ taken = 0 \/ taken <= count
                        /\ pc \in {"sleep", "sample"} => taken < count

Told == TypeOK /\ Chain /\ Counted /\ ExitCodeTellsOutput

LEMMA InitTold == Init => Told
  BY InitType, InitChain
     DEF Init, Told, Counted, ExitCodeTellsOutput, EXIT_OK, EXIT_BROKEN_PIPE

LEMMA NextTold == Told /\ [Next]_vars => Told'
<1> SUFFICES ASSUME Told, [Next]_vars  PROVE Counted' /\ ExitCodeTellsOutput'
  BY NextType, NextChain DEF Told
<1>0. /\ count # NoCount => count \in Int
      /\ taken \in Nat /\ taken = Len(samples)
  BY CountAssumption DEF Told, TypeOK
<1>a. Counted /\ ExitCodeTellsOutput /\ LoopInvariant
  BY DEF Told, Chain
<1> USE DEF clockVars, loopVars, envVars
<1>1. CASE Begin \/ Continue \/ WakeUp \/ SampleTaken \/ PrintLine
  <2>1. /\ pc # "done" /\ pc' # "done" /\ UNCHANGED <<code, count>>
    BY <1>1 DEF Begin, Continue, WakeUp, SampleTaken, PrintLine
  <2>2. code' = -1
    BY <1>a, <2>1 DEF Counted
  <2>3. ASSUME count # NoCount
        PROVE  /\ taken' = 0 \/ taken' <= count
               /\ pc' \in {"sleep", "sample"} => taken' < count
    <3>1. CASE Begin \/ PrintLine
      BY <1>a, <2>3, <3>1 DEF Begin, PrintLine, Counted
    <3>2. CASE Continue \/ WakeUp
      BY <1>a, <2>3, <3>2 DEF Continue, WakeUp, MoreToTake, Counted
    <3>3. CASE SampleTaken
      BY <1>0, <1>a, <2>3, <3>3 DEF SampleTaken, Counted
    <3> QED
      BY <1>1, <3>1, <3>2, <3>3
  <2>4. -1 # 0 /\ -1 \notin 1..70 /\ -1 # 141
    OBVIOUS
  <2> QED
    BY <2>1, <2>2, <2>3, <2>4
       DEF Counted, ExitCodeTellsOutput, EXIT_OK, EXIT_BROKEN_PIPE
<1>2. CASE Finish
  <2>1. count \in Int /\ taken >= count /\ (taken = 0 \/ taken <= count)
    BY <1>0, <1>2, <1>a DEF Finish, MoreToTake, Counted
  <2>2. Len(stdout) = Pairs(Len(samples))
    BY <1>2, <1>a DEF Finish, LoopInvariant
  <2>3. taken = Pairs(count + 1) /\ Pairs(taken) = Pairs(count)
    BY <1>0, <2>1 DEF Pairs
  <2>4. /\ UNCHANGED <<count, taken, samples, stdout>>
        /\ pc = "next" /\ pc' = "done" /\ code' = 0
    BY <1>2 DEF Finish, Return, EXIT_OK
  <2>5. Counted'
    BY <1>a, <2>4 DEF Counted
  <2>6. Len(samples) = Pairs(count + 1) /\ Len(stdout) = Pairs(count)
    BY <1>0, <2>2, <2>3
  <2>7. ExitCodeTellsOutput'
    BY <2>4, <2>6 DEF ExitCodeTellsOutput, EXIT_BROKEN_PIPE
  <2> QED
    BY <2>5, <2>7
<1>3. CASE SampleFails
  <2>1. code' \in 1..70 /\ code' # 0 /\ code' # 141
    BY <1>3, CodesInRange DEF SampleFails, Return
  <2>2. Len(stdout) = Pairs(Len(samples))
    BY <1>3, <1>a DEF SampleFails, LoopInvariant
  <2>3. UNCHANGED <<count, taken, samples, stdout>> /\ pc' = "done" /\ pc = "sample"
    BY <1>3 DEF SampleFails, Return
  <2> QED
    BY <1>a, <2>1, <2>2, <2>3 DEF Counted, ExitCodeTellsOutput, EXIT_OK, EXIT_BROKEN_PIPE
<1>4. CASE PrintFails
  <2>1. /\ UNCHANGED <<count, taken, samples, stdout, reading>>
        /\ pc = "yield" /\ pc' = "done" /\ ~reading /\ code' = 141
    BY <1>4, CodesInRange DEF PrintFails, Return
  <2>2. Len(stdout) = Len(samples) - 2
    BY <1>a, <2>1 DEF LoopInvariant
  <2> QED
    BY <1>a, <2>1, <2>2 DEF Counted, ExitCodeTellsOutput, EXIT_OK
<1>5. CASE Interrupt
  <2>1. UNCHANGED <<count, taken>> /\ pc' = "done" /\ code' = 130
    BY <1>5, CodesInRange DEF Interrupt, Return
  <2> QED
    BY <1>a, <2>1 DEF Counted, ExitCodeTellsOutput, EXIT_OK, EXIT_BROKEN_PIPE
<1>6. CASE Tick \/ TargetExits \/ PidIsReused \/ ReaderLeaves \/ UNCHANGED vars
  <2>1. /\ UNCHANGED <<pc, count, taken, samples, stdout, code>>
        /\ reading' => reading
    BY <1>6 DEF Tick, TargetExits, PidIsReused, ReaderLeaves, vars
  <2> QED
    BY <1>a, <2>1 DEF Counted, ExitCodeTellsOutput
<1> QED
  BY <1>1, <1>2, <1>3, <1>4, <1>5, <1>6 DEF Next, Step

\* The exit code of a series tells exactly which deltas were printed, for
\* every count and however the series ends.
THEOREM ExitCodeIsHonest == Spec => []ExitCodeTellsOutput
<1>1. Told => ExitCodeTellsOutput
  BY DEF Told
<1> QED
  BY <1>1, InitTold, NextTold, PTL DEF Spec

\* The later of two times.
Later(a, b) == IF a > b THEN a ELSE b

\* The wait is over at once when the slot has passed and exactly at the slot
\* otherwise; the origin is fixed before the first snapshot.
Timed ==
  /\ pc = "idle" => Len(samples) = 0
  /\ pc = "sleep" => asked <= now /\ now <= Later(asked, Due)
  /\ pc = "sample" => began = Later(asked, Due)
  /\ BackOnSchedule

OnTime == TypeOK /\ Chain /\ Timed

LEMMA InitOnTime == Init => OnTime
  BY InitType, InitChain DEF Init, OnTime, Timed, BackOnSchedule

LEMMA NextOnTime == OnTime /\ [Next]_vars => OnTime'
<1> SUFFICES ASSUME OnTime, [Next]_vars  PROVE Timed'
  BY NextType, NextChain DEF OnTime
<1> USE IntervalAssumption DEF OnTime, clockVars, loopVars, envVars
<1>0. now \in Nat /\ asked \in Nat /\ began \in Nat /\ Due \in Nat /\ taken = Len(samples)
  <2>1. taken * Interval \in Nat
    BY DEF TypeOK
  <2> QED
    BY <2>1 DEF TypeOK, Due
<1>1. CASE Begin
  BY <1>1 DEF Begin, Timed, BackOnSchedule, TypeOK
<1>2. CASE Continue
  BY <1>0, <1>2 DEF Continue, Timed, BackOnSchedule, Due, Later
<1>3. CASE WakeUp
  <2>1. now = Later(asked, Due)
    BY <1>0, <1>3 DEF WakeUp, Timed, Later
  <2> QED
    BY <1>3, <2>1 DEF WakeUp, Timed, BackOnSchedule, Due
<1>4. CASE SampleTaken
  <2> DEFINE snapshot == [asked |-> asked, start |-> began, process |-> process]
  <2>1. /\ samples' = Append(samples, snapshot) /\ UNCHANGED <<started, asked>>
        /\ pc' \in {"next", "yield"}
    BY <1>4 DEF SampleTaken
  <2>2. /\ Len(samples') = Len(samples) + 1 /\ samples'[Len(samples) + 1] = snapshot
        /\ \A k \in 1..Len(samples) : samples'[k] = samples[k]
    BY <2>1 DEF TypeOK
  <2>3. snapshot.start = Later(snapshot.asked, started + taken * Interval)
    BY <1>4 DEF SampleTaken, Timed, Due
  <2> HIDE DEF snapshot
  <2>4. BackOnSchedule'
    <3> SUFFICES ASSUME NEW k \in 1..(Len(samples) + 1)
                 PROVE  samples'[k].start
                          = Later(samples'[k].asked, started + (k - 1) * Interval)
      BY <2>1, <2>2 DEF BackOnSchedule, Later
    <3>1. CASE k = Len(samples) + 1
      <4>1. k - 1 = taken
        BY <1>0, <3>1
      <4> QED
        BY <2>2, <2>3, <3>1, <4>1
    <3>2. CASE k # Len(samples) + 1
      <4>1. Len(samples) \in Nat
        BY <1>0 DEF TypeOK
      <4>2. k \in 1..Len(samples)
        BY <3>2, <4>1
      <4> QED
        BY <2>1, <2>2, <4>2 DEF Timed, BackOnSchedule, Later
    <3> QED
      BY <3>1, <3>2
  <2> QED
    BY <2>1, <2>4 DEF Timed
<1>5. CASE PrintLine
  BY <1>5 DEF PrintLine, Timed, BackOnSchedule
<1>6. CASE Finish \/ SampleFails \/ PrintFails \/ Interrupt
  BY <1>6 DEF Finish, SampleFails, PrintFails, Interrupt, Return, Timed, BackOnSchedule
<1>7. CASE Tick
  <2>1. pc = "sleep" => now' = now + 1 /\ now < Due
    BY <1>7 DEF Tick
  <2>2. pc = "sleep" => asked <= now' /\ now' <= Later(asked, Due)
    BY <1>0, <2>1 DEF Timed, Later
  <2> QED
    BY <1>7, <2>2 DEF Tick, Timed, BackOnSchedule, Due
<1>8. CASE TargetExits \/ PidIsReused \/ ReaderLeaves \/ UNCHANGED vars
  BY <1>8 DEF TargetExits, PidIsReused, ReaderLeaves, vars, Timed, BackOnSchedule, Due
<1> QED
  BY <1>1, <1>2, <1>3, <1>4, <1>5, <1>6, <1>7, <1>8 DEF Next, Step

\* No delay accumulates: whatever the samples and the lines took, each sample
\* begins in its own slot or at once when that has passed.
THEOREM SeriesStaysOnSchedule == Spec => []BackOnSchedule
<1>1. OnTime => BackOnSchedule
  BY DEF OnTime, Timed
<1> QED
  BY <1>1, InitOnTime, NextOnTime, PTL DEF Spec

---------------------------------------------------------------------------
(* Which deltas compare two processes *)

\* The snapshots of a series meet the processes in the order in which they
\* bore the pid.
InTurn ==
  /\ \A k \in 1..Len(samples) : samples[k].process \in 1..process
  /\ \A j, k \in 1..Len(samples) : j <= k => samples[j].process <= samples[k].process

Succession == Chain /\ process >= 1 /\ InTurn

LEMMA InitSuccession == Init => Succession
  BY InitChain DEF Init, Succession, InTurn

LEMMA NextSuccession == Succession /\ [Next]_vars => Succession'
<1> SUFFICES ASSUME Succession, [Next]_vars  PROVE process' >= 1 /\ InTurn'
  BY NextChain DEF Succession
<1> USE DEF Succession, clockVars, loopVars, envVars
<1>0. process \in Nat /\ Len(samples) \in Nat
  BY DEF Chain, Shape
<1>a. \A k \in 1..Len(samples) : samples[k].process \in Nat
  <2>1. \A k \in 1..Len(samples) : samples[k] \in Snapshot
    BY DEF Chain, Shape
  <2> QED
    BY <2>1 DEF Snapshot
<1>1. CASE SampleTaken
  <2> DEFINE snapshot == [asked |-> asked, start |-> began, process |-> process]
             n == Len(samples)
  <2>1. samples' = Append(samples, snapshot) /\ process' = process
    BY <1>1 DEF SampleTaken
  <2>2. /\ Len(samples') = n + 1 /\ samples'[n + 1].process = process
        /\ \A k \in 1..n : samples'[k] = samples[k]
    BY <2>1 DEF Chain, Shape
  <2>3. \A k \in 1..(n + 1) : k = n + 1 \/ k \in 1..n
    BY <1>0
  <2>4. \A k \in 1..(n + 1) : samples'[k].process \in 1..process
    BY <1>0, <2>2, <2>3 DEF InTurn
  <2>5. \A j, k \in 1..(n + 1) : j <= k => samples'[j].process <= samples'[k].process
    <3> SUFFICES ASSUME NEW j \in 1..(n + 1), NEW k \in 1..(n + 1), j <= k
                 PROVE  samples'[j].process <= samples'[k].process
      OBVIOUS
    <3>1. CASE k = n + 1
      BY <1>0, <2>2, <2>4, <3>1
    <3>2. CASE k \in 1..n
      <4>1. j \in 1..n
        BY <1>0, <3>2
      <4> QED
        BY <2>2, <3>2, <4>1 DEF InTurn
    <3> QED
      BY <2>3, <3>1, <3>2
  <2> QED
    BY <2>1, <2>2, <2>4, <2>5 DEF InTurn
<1>2. CASE PidIsReused
  <2>1. process' = process + 1 /\ samples' = samples
    BY <1>2 DEF PidIsReused
  <2> QED
    BY <1>0, <1>a, <2>1 DEF InTurn
<1>3. CASE UNCHANGED <<samples, process>>
  BY <1>3 DEF InTurn
<1> QED
  BY <1>1, <1>2, <1>3 DEF Next, Step, Begin, Continue, Finish, WakeUp, SampleFails, PrintLine,
     PrintFails, Interrupt, Tick, TargetExits, ReaderLeaves, vars

\* Each line compares a process with itself or with a later bearer of the pid,
\* and no two lines that mix processes mix the same ones.
LinesInTurn ==
  /\ \A i \in 1..Len(stdout) : stdout[i][1].process <= stdout[i][2].process
  /\ \A i, j \in 1..Len(stdout) : i < j => stdout[i][2].process <= stdout[j][1].process

\* What the finding about DeltaOfOneProcess rests on: only a pid that changed
\* hands while the series ran can mix two processes in a line.
LEMMA SuccessionOfLines ==
  Succession => LinesInTurn /\ (process = 1 => DeltaOfOneProcess)
<1> SUFFICES ASSUME Succession  PROVE LinesInTurn /\ (process = 1 => DeltaOfOneProcess)
  OBVIOUS
<1>1. /\ Len(samples) \in Nat /\ Len(stdout) \in Nat /\ Len(stdout) <= Pairs(Len(samples))
      /\ \A i \in 1..Len(stdout) : stdout[i] = <<samples[i], samples[i + 1]>>
  BY DEF Succession, Chain, Shape, DeltasChain
<1>2. \A i \in 1..Len(stdout) : i \in 1..Len(samples) /\ i + 1 \in 1..Len(samples)
  BY ONLY <1>1 DEF Pairs
<1>3. \A i \in 1..Len(stdout) : /\ stdout[i][1].process = samples[i].process
                                /\ stdout[i][2].process = samples[i + 1].process
  BY <1>1
<1>4. LinesInTurn
  <2>1. \A i \in 1..Len(stdout) : stdout[i][1].process <= stdout[i][2].process
    BY <1>2, <1>3 DEF Succession, InTurn
  <2>2. ASSUME NEW i \in 1..Len(stdout), NEW j \in 1..Len(stdout), i < j
        PROVE  stdout[i][2].process <= stdout[j][1].process
    <3>1. i + 1 <= j
      BY <1>1, <2>2
    <3> QED
      BY <1>2, <1>3, <3>1 DEF Succession, InTurn
  <2> QED
    BY <2>1, <2>2 DEF LinesInTurn
<1>5. ASSUME process = 1  PROVE DeltaOfOneProcess
  <2>1. \A k \in 1..Len(samples) : samples[k].process = 1
    BY <1>5 DEF Succession, InTurn
  <2> QED
    BY <1>2, <1>3, <2>1 DEF DeltaOfOneProcess
<1> QED
  BY <1>4, <1>5

\* A delta mixes two processes only when the pid was taken over while the
\* series ran (the documented check of diff_snapshots is needed for nothing
\* else).
THEOREM OnlyReuseMixesProcesses == Spec => [](process = 1 => DeltaOfOneProcess)
<1>1. Succession => (process = 1 => DeltaOfOneProcess)
  BY SuccessionOfLines
<1> QED
  BY <1>1, InitSuccession, NextSuccession, PTL DEF Spec

\* The lines go through the bearers of the pid in turn, so that each takeover
\* shows in at most one line.
THEOREM LinesFollowTheProcesses == Spec => []LinesInTurn
<1>1. Succession => LinesInTurn
  BY SuccessionOfLines
<1> QED
  BY <1>1, InitSuccession, NextSuccession, PTL DEF Spec

---------------------------------------------------------------------------
(* Why a series with a count ends *)

\* How far the loop is from asking for the next sample.
Rank(p) ==
  CASE p = "idle" -> 5 [] p = "yield" -> 4 [] p = "next" -> 3
    [] p = "sleep" -> 2 [] p = "sample" -> 1 [] OTHER -> 0

ToTake == IF taken < count THEN count - taken ELSE 0

\* The steps that a series with a count has left at most.
SeriesLeft == 4 * ToTake + Rank(pc)

\* Every step of the command, a Ctrl-C included, takes it nearer to its end,
\* and nothing that happens around it takes it back.
GoesOn ==
  count # NoCount =>
    /\ SeriesLeft \in Nat /\ SeriesLeft' \in Nat /\ SeriesLeft' <= SeriesLeft
    /\ Step \/ Interrupt => SeriesLeft' < SeriesLeft

\* One move of the loop either leaves the samples to take as they are and goes
\* down in rank, or takes one of them.
LEMMA LoopMoves ==
  ASSUME Told, count # NoCount, Step \/ Interrupt
  PROVE  \/ ToTake' = ToTake /\ Rank(pc') < Rank(pc)
         \/ ToTake' = ToTake - 1 /\ Rank(pc') <= Rank(pc) + 3
<1> USE DEF clockVars, loopVars, envVars
<1>1. count \in Int /\ taken \in Nat /\ pc \in {"idle", "next", "sleep", "sample", "yield", "done"}
  BY CountAssumption DEF Told, TypeOK
<1>2. CASE SampleTaken
  <2>1. /\ pc = "sample" /\ pc' \in {"next", "yield"} /\ taken' = taken + 1 /\ count' = count
    BY <1>2 DEF SampleTaken
  <2>2. taken < count
    BY <2>1 DEF Told, Counted
  <2>3. ToTake' = ToTake - 1
    BY <1>1, <2>1, <2>2 DEF ToTake
  <2>4. Rank(pc') <= Rank(pc) + 3
    BY ONLY <2>1 DEF Rank
  <2> QED
    BY <2>3, <2>4
<1>3. CASE Begin \/ Continue \/ Finish \/ WakeUp \/ SampleFails \/ PrintLine \/ PrintFails \/ Interrupt
  <2>1. UNCHANGED <<taken, count>>
    BY <1>3 DEF Begin, Continue, Finish, WakeUp, SampleFails, PrintLine, PrintFails, Interrupt
  <2>2. \/ pc = "idle" /\ pc' = "next"
        \/ pc = "next" /\ pc' = "sleep"
        \/ pc = "sleep" /\ pc' = "sample"
        \/ pc = "yield" /\ pc' = "next"
        \/ pc \in {"next", "sleep", "sample", "yield"} /\ pc' = "done"
    BY <1>3 DEF Begin, Continue, Finish, WakeUp, SampleFails, PrintLine, PrintFails, Interrupt, Return
  <2>3. Rank(pc') < Rank(pc)
    BY ONLY <2>2 DEF Rank
  <2> QED
    BY <2>1, <2>3 DEF ToTake
<1> QED
  BY <1>2, <1>3 DEF Step

LEMMA NextGoesOn == Told /\ Told' /\ [Next]_vars => GoesOn
<1> SUFFICES ASSUME Told, Told', [Next]_vars, count # NoCount
             PROVE  /\ SeriesLeft \in Nat /\ SeriesLeft' \in Nat /\ SeriesLeft' <= SeriesLeft
                    /\ Step \/ Interrupt => SeriesLeft' < SeriesLeft
  BY DEF GoesOn
<1>0. count' = count
  BY DEF Next, Step, Begin, Continue, Finish, WakeUp, SampleTaken, SampleFails, PrintLine,
     PrintFails, Interrupt, Tick, TargetExits, PidIsReused, ReaderLeaves, vars, clockVars,
     loopVars, envVars
<1>1. count \in Int /\ taken \in Nat /\ taken' \in Nat
  BY CountAssumption DEF Told, TypeOK
<1>2. ToTake \in Nat /\ ToTake' \in Nat
  <2>1. ASSUME NEW c \in Int, NEW n \in Nat  PROVE (IF n < c THEN c - n ELSE 0) \in Nat
    OBVIOUS
  <2> QED
    BY ONLY <1>0, <1>1, <2>1 DEF ToTake
<1>3. Rank(pc) \in 0..5 /\ Rank(pc') \in 0..5
  BY DEF Rank
<1>4. ASSUME Step \/ Interrupt  PROVE SeriesLeft' < SeriesLeft
  <2>1. \/ ToTake' = ToTake /\ Rank(pc') < Rank(pc)
        \/ ToTake' = ToTake - 1 /\ Rank(pc') <= Rank(pc) + 3
    BY <1>4, LoopMoves
  <2> QED
    BY ONLY <1>2, <1>3, <2>1 DEF SeriesLeft
<1>5. ASSUME ~(Step \/ Interrupt)  PROVE SeriesLeft' = SeriesLeft
  <2>1. UNCHANGED <<pc, count, taken>>
    BY <1>5 DEF Next, Tick, TargetExits, PidIsReused, ReaderLeaves, vars, clockVars, loopVars, envVars
  <2> QED
    BY <2>1 DEF SeriesLeft, ToTake
<1>6. SeriesLeft \in Nat /\ SeriesLeft' \in Nat
  BY ONLY <1>2, <1>3 DEF SeriesLeft
<1> QED
  BY <1>4, <1>5, <1>6

\* A series with a count has a bounded number of steps left, whatever the
\* target, the clock and the reader of stdout do: what SeriesEnds needs besides
\* the fairness of its steps.
THEOREM SeriesRunsDown == Spec => [][GoesOn]_vars
<1>1. Told /\ Told' /\ [Next]_vars => [GoesOn]_vars
  BY NextGoesOn
<1> QED
  BY <1>1, InitTold, NextTold, PTL DEF Spec
===========================================================================
