------------------------ MODULE SessionSafetyProofs ------------------------
(***************************************************************************)
(* Safety invariants of ProbeSession beyond its life cycle: the two timers   *)
(* of a write back, the place an answer goes to, the nesting of scripts, what *)
(* a call leaves behind and what an incomplete answer or a lost script means. *)
(***************************************************************************)
EXTENDS ProbeSessionProofs, SequenceTheorems

---------------------------------------------------------------------------
(* The timers *)

Outwaits(q) == step[q] = "send" /\ pc[q] \in Waiting => sendLeft[q] >= remaining[q]

\* A step of a prober touches no timer and no script, and begins to wait only
\* from remote_exec.
LEMMA ProberTimers ==
  ASSUME TypeOK, NEW p \in Probers, ProberStep(p)
  PROVE  /\ UNCHANGED <<remaining, step, sendLeft, stack>>
         /\ \A q \in Probers : pc'[q] \in Waiting =>
              pc[q] \in Waiting \cup {"remote_exec"}
<1> USE DEF TypeOK, At, Goto, Conclude, Leave, Waiting, targetVars
<1>1. CASE OpenSocket(p) \/ OpenTempFile(p) \/ OpenFails(p)
  <2>1. /\ UNCHANGED <<remaining, step, sendLeft, stack>>
        /\ Goto(p, "write_script") \/ Goto(p, "done")
    BY <1>1 DEF OpenSocket, OpenTempFile, OpenFails
  <2> QED
    BY <2>1
<1>2. CASE WriteScript(p) \/ WriteScriptFails(p)
  BY <1>2 DEF WriteScript, WriteScriptFails
<1>3. CASE RemoteExec(p) \/ RemoteExecFails(p)
  BY <1>3 DEF RemoteExec, RemoteExecFails
<1>4. CASE CheckBudget(p) \/ ArmTimeout(p) \/ WaitTimesOut(p)
  BY <1>4 DEF CheckBudget, ArmTimeout, WaitTimesOut
<1>5. CASE Accept(p) \/ AcceptFails(p) \/ ReadFails(p) \/ Receive(p) \/ ReceiveEnd(p)
  BY <1>5 DEF Accept, AcceptFails, ReadFails, Receive, ReceiveEnd
<1>6. CASE ReadResult(p) \/ PollAgain(p)
  BY <1>6 DEF ReadResult, PollAgain
<1>7. CASE RemoveScriptDir(p) \/ CloseSocketChannel(p) \/ ClearResultDir(p)
             \/ RemoveResultDir(p) \/ Parse(p)
  BY <1>7 DEF RemoveScriptDir, CloseSocketChannel, ClearResultDir, RemoveResultDir,
              AfterClose, Parse
<1> QED
  BY <1>1, <1>2, <1>3, <1>4, <1>5, <1>6, <1>7 DEF ProberStep

\* A script that comes to sendall has just been given the whole budget.
LEMMA ScriptTimers ==
  ASSUME TypeOK, NEW p \in Probers, ScriptStep(p)
  PROVE  /\ UNCHANGED <<pc, remaining>>
         /\ \A q \in Probers : step'[q] = "send" =>
              \/ step[q] = "send" /\ sendLeft'[q] = sendLeft[q]
              \/ sendLeft'[q] = Budget
<1> USE DEF TypeOK, AtStep, Advance, EndMain, Finish, proberVars
<1>1. CASE Collect(p) \/ CollectSilently(p) \/ ImportsFail(p) \/ WriteBackFails(p)
  BY <1>1 DEF Collect, Statuses, WriteBackEntry, CollectSilently, ImportsFail, WriteBackFails
<1>2. CASE Connect(p)
  <2>1. CASE listening[p]
    BY <1>2, <2>1 DEF Connect, SendBudget
  <2>2. CASE ~listening[p]
    BY <1>2, <2>2 DEF Connect
  <2> QED
    BY <2>1, <2>2
<1>3. CASE Send(p) \/ SendFails(p) \/ CloseSocket(p)
  BY <1>3 DEF Send, HangUp, SendFails, CloseSocket
<1>4. CASE SendKills(p)
  BY <1>4 DEF SendKills, Exits, Running
<1>5. CASE CreateTmp(p)
  BY <1>5 DEF CreateTmp
<1>6. CASE WriteTmp(p) \/ WriteTmpFails(p)
  BY <1>6 DEF WriteTmp, WriteTmpFails
<1>7. CASE ReplaceResult(p) \/ DeleteMain(p)
  BY <1>7 DEF ReplaceResult, DeleteMain
<1> QED
  BY <1>1, <1>2, <1>3, <1>4, <1>5, <1>6, <1>7 DEF ScriptStep

\* A budget that is spent stays spent.
LEMMA ExpiredStays ==
  ASSUME TypeOK, [Next]_vars, NEW q \in Probers, Expired(q)
  PROVE  Expired(q)'
<1>1. remaining'[q] = remaining[q] \/ remaining'[q] = Elapse(remaining[q])
  <2>1. CASE Tick
    BY <2>1 DEF Tick, TypeOK
  <2>2. ASSUME NEW p \in Probers, ProberStep(p) \/ ScriptStep(p) PROVE UNCHANGED remaining
    BY <2>2, ProberTimers, ScriptTimers
  <2>3. ASSUME NEW p \in Probers, Start(p) \/ Interrupt(p) PROVE UNCHANGED remaining
    BY <2>3 DEF Start, Interrupt
  <2>4. CASE LoadScript \/ TargetExits \/ UNCHANGED vars
    BY <2>4 DEF LoadScript, TargetExits, Exits, vars, proberVars
  <2> QED
    BY <2>1, <2>2, <2>3, <2>4 DEF Next
<1> QED
  BY <1>1 DEF TypeOK, Elapse, Expired

LEMMA NextOutwaits ==
  ASSUME TypeOK, LifeCycle, [Next]_vars, NEW q \in Probers, Outwaits(q)
  PROVE  Outwaits(q)'
<1> USE DEF Outwaits
<1>1. ASSUME NEW p \in Probers, Start(p) PROVE Outwaits(q)'
  BY <1>1 DEF Start, At, Goto, Waiting, targetVars, TypeOK
<1>2. ASSUME NEW p \in Probers, ProberStep(p) PROVE Outwaits(q)'
  <2>1. pc[q] = "remote_exec" => step[q] = "none"
    BY DEF LifeCycle, InjectionInOrder, Early
  <2> QED
    BY <1>2, <2>1, ProberTimers
<1>3. ASSUME NEW p \in Probers, Interrupt(p) PROVE Outwaits(q)'
  BY <1>3 DEF Interrupt, Leave, Goto, Waiting, targetVars, TypeOK
<1>4. ASSUME NEW p \in Probers, ScriptStep(p) PROVE Outwaits(q)'
  <2>1. remaining[q] <= Budget
    BY BudgetAssumption DEF TypeOK
  <2> QED
    BY <1>4, <2>1, ScriptTimers, BudgetAssumption
<1>5. CASE LoadScript
  BY <1>5 DEF LoadScript, proberVars, TypeOK
<1>6. CASE TargetExits
  BY <1>6 DEF TargetExits, Exits, Running, TypeOK
<1>7. CASE Tick
  <2>1. remaining[q] \in -1..Budget /\ sendLeft[q] \in 0..Budget
    BY DEF TypeOK
  <2>2. pc[q] \in Waiting => Active(q)
    BY DEF Waiting, Active
  <2>3. /\ pc' = pc /\ step' = step
        /\ remaining'[q] = IF Active(q) THEN Elapse(remaining[q]) ELSE remaining[q]
        /\ sendLeft'[q] = IF step[q] = "send" /\ sendLeft[q] > 0
                          THEN sendLeft[q] - 1 ELSE sendLeft[q]
    BY <1>7 DEF Tick
  <2> QED
    BY <2>1, <2>2, <2>3, BudgetAssumption DEF Elapse
<1>8. CASE UNCHANGED vars
  BY <1>8 DEF vars, proberVars, targetVars
<1> QED
  BY <1>1, <1>2, <1>3, <1>4, <1>5, <1>6, <1>7, <1>8 DEF Next

\* The script's own socket timeout (_inject.py) never ends a write back that
\* its prober (_channel.py) would still have waited for, whatever the budget
\* and the speed of either side.
THEOREM TargetIsPatient == Spec => []TargetOutwaitsProber
<1>1. Init => TargetOutwaitsProber
  BY DEF Init, TargetOutwaitsProber
<1>2. TypeOK /\ LifeCycle /\ TargetOutwaitsProber /\ [Next]_vars => TargetOutwaitsProber'
  BY NextOutwaits DEF TargetOutwaitsProber, Outwaits
<1> QED
  BY <1>1, <1>2, TypeCorrect, LifeCycleHolds, PTL DEF Spec

---------------------------------------------------------------------------
(* The place of an answer *)

\* What makes AnswerHasAPlace inductive: from the opening of its channel to its
\* last wait a prober holds that channel, and nobody else can close it.
HoldsChannel(q) ==
  pc[q] \in {"write_script", "remote_exec"} \cup Waiting =>
    IF kind[q] = "unix_socket" THEN listening[q] ELSE "result" \in dirs[q]

LEMMA ProberHolds ==
  ASSUME TypeOK, NEW p \in Probers, ProberStep(p), NEW q \in Probers, HoldsChannel(q)
  PROVE  HoldsChannel(q)'
<1> USE DEF TypeOK, HoldsChannel, At, Goto, Conclude, Leave, Waiting, fsVars, sockVars
<1>1. CASE OpenSocket(p)
  BY <1>1 DEF OpenSocket
<1>2. CASE OpenTempFile(p)
  BY <1>2 DEF OpenTempFile
<1>3. CASE OpenFails(p)
  BY <1>3 DEF OpenFails
<1>4. CASE WriteScript(p)
  BY <1>4 DEF WriteScript
<1>5. CASE WriteScriptFails(p)
  BY <1>5 DEF WriteScriptFails
<1>6. CASE RemoteExec(p) \/ RemoteExecFails(p)
  BY <1>6 DEF RemoteExec, RemoteExecFails
<1>7. CASE CheckBudget(p) \/ ArmTimeout(p) \/ WaitTimesOut(p)
  BY <1>7 DEF CheckBudget, ArmTimeout, WaitTimesOut
<1>8. CASE Accept(p) \/ AcceptFails(p) \/ ReadFails(p) \/ Receive(p) \/ ReceiveEnd(p)
  BY <1>8 DEF Accept, AcceptFails, ReadFails, Receive, ReceiveEnd
<1>9. CASE ReadResult(p) \/ PollAgain(p)
  BY <1>9 DEF ReadResult, PollAgain
<1>10. CASE RemoveScriptDir(p)
  BY <1>10 DEF RemoveScriptDir
<1>11. CASE CloseSocketChannel(p)
  BY <1>11 DEF CloseSocketChannel, AfterClose
<1>12. CASE ClearResultDir(p)
  BY <1>12 DEF ClearResultDir
<1>13. CASE RemoveResultDir(p)
  BY <1>13 DEF RemoveResultDir, AfterClose
<1>14. CASE Parse(p)
  BY <1>14 DEF Parse
<1> QED
  BY <1>1, <1>2, <1>3, <1>4, <1>5, <1>6, <1>7, <1>8, <1>9, <1>10, <1>11, <1>12, <1>13,
     <1>14 DEF ProberStep

LEMMA ScriptHolds ==
  ASSUME NEW p \in Probers, ScriptStep(p)
  PROVE  UNCHANGED <<pc, kind, listening, dirs>>
<1> USE DEF proberVars, fsVars, sockVars
<1>1. CASE Collect(p) \/ CollectSilently(p) \/ ImportsFail(p) \/ WriteBackFails(p)
  BY <1>1 DEF Collect, Statuses, CollectSilently, ImportsFail, WriteBackFails
<1>2. CASE Connect(p) \/ Send(p) \/ SendFails(p) \/ CloseSocket(p)
  BY <1>2 DEF Connect, Send, HangUp, SendFails, CloseSocket
<1>3. CASE SendKills(p)
  BY <1>3 DEF SendKills, Exits
<1>4. CASE CreateTmp(p) \/ WriteTmp(p) \/ WriteTmpFails(p) \/ ReplaceResult(p)
              \/ DeleteMain(p)
  BY <1>4 DEF CreateTmp, WriteTmp, WriteTmpFails, ReplaceResult, DeleteMain
<1> QED
  BY <1>1, <1>2, <1>3, <1>4 DEF ScriptStep

LEMMA NextHolds ==
  ASSUME TypeOK, [Next]_vars, NEW q \in Probers, HoldsChannel(q)
  PROVE  HoldsChannel(q)'
<1> USE DEF HoldsChannel
<1>1. ASSUME NEW p \in Probers, Start(p) PROVE HoldsChannel(q)'
  BY <1>1 DEF Start, At, Goto, Waiting, fsVars, sockVars, TypeOK
<1>2. ASSUME NEW p \in Probers, Interrupt(p) PROVE HoldsChannel(q)'
  BY <1>2 DEF Interrupt, Leave, Goto, Waiting, fsVars, TypeOK
<1>3. ASSUME NEW p \in Probers, ScriptStep(p) PROVE HoldsChannel(q)'
  BY <1>3, ScriptHolds
<1>4. CASE LoadScript \/ TargetExits \/ Tick \/ UNCHANGED vars
  BY <1>4 DEF LoadScript, TargetExits, Exits, Tick, vars, proberVars, fsVars, sockVars
<1> QED
  BY <1>1, <1>2, <1>3, <1>4, ProberHolds DEF Next

\* "The target can never answer before the prober is listening"
\* (execute_in_target, _channel.py): whenever a script may answer a prober that
\* still waits, its socket listens or its result directory exists.
THEOREM AnswersHaveAPlace == Spec => []AnswerHasAPlace
<1> DEFINE Holds == \A q \in Probers : HoldsChannel(q)
<1>1. Init => Holds
  BY DEF Init, HoldsChannel, Waiting
<1>2. TypeOK /\ Holds /\ [Next]_vars => Holds'
  BY NextHolds
<1>3. Holds => AnswerHasAPlace
  BY DEF HoldsChannel, AnswerHasAPlace
<1> QED
  BY <1>1, <1>2, <1>3, TypeCorrect, PTL DEF Spec

---------------------------------------------------------------------------
(* The nesting of scripts *)

\* Loading a script puts it on top of the one it interrupts.
LEMMA PushNests ==
  ASSUME TypeOK, ScriptsNest, NEW q \in Probers, step[q] = "none",
         stack' = <<q>> \o stack, step' = [step EXCEPT ![q] = "collect"]
  PROVE  ScriptsNest'
<1>1. /\ stack \in Seq(Probers) /\ <<q>> \in Seq(Probers) /\ Len(<<q>>) = 1
      /\ Len(stack) \in Nat /\ <<q>>[1] = q
  BY DEF TypeOK
<1>2. /\ Len(stack') = Len(stack) + 1
      /\ \A i \in 1..Len(stack') : stack'[i] = IF i = 1 THEN q ELSE stack[i - 1]
  BY <1>1, ConcatProperties
<1>3. \A p \in Probers : step'[p] = IF p = q THEN "collect" ELSE step[p]
  BY DEF TypeOK
<1>4. \A i \in 1..Len(stack) : stack[i] # q /\ stack[i] \in Probers
  BY <1>1, ElementOfSeq DEF ScriptsNest, Running
<1>5. ASSUME NEW i \in 1..Len(stack'), NEW j \in 1..Len(stack'), i # j
      PROVE  stack'[i] # stack'[j]
  <2>1. CASE i = 1
    <3>1. j - 1 \in 1..Len(stack) /\ stack'[j] = stack[j - 1] /\ stack'[i] = q
      BY <1>1, <1>2, <1>5, <2>1
    <3> QED
      BY <3>1, <1>4
  <2>2. CASE j = 1
    <3>1. i - 1 \in 1..Len(stack) /\ stack'[i] = stack[i - 1] /\ stack'[j] = q
      BY <1>1, <1>2, <1>5, <2>2
    <3> QED
      BY <3>1, <1>4
  <2>3. CASE i # 1 /\ j # 1
    <3>1. /\ i - 1 \in 1..Len(stack) /\ j - 1 \in 1..Len(stack) /\ i - 1 # j - 1
          /\ stack'[i] = stack[i - 1] /\ stack'[j] = stack[j - 1]
      BY <1>1, <1>2, <1>5, <2>3
    <3>2. \A a, b \in 1..Len(stack) : a # b => stack[a] # stack[b]
      BY DEF ScriptsNest
    <3> QED
      BY ONLY <3>1, <3>2
  <2> QED
    BY <2>1, <2>2, <2>3
<1>6. ASSUME NEW p \in Probers
      PROVE  step'[p] \in Running <=> \E i \in 1..Len(stack') : stack'[i] = p
  <2>1. CASE p = q
    BY <2>1, <1>1, <1>2, <1>3 DEF Running
  <2>2. CASE p # q
    <3>1. (\E i \in 1..Len(stack') : stack'[i] = p)
             <=> (\E i \in 1..Len(stack) : stack[i] = p)
      <4>1. ASSUME NEW i \in 1..Len(stack), stack[i] = p
            PROVE  i + 1 \in 1..Len(stack') /\ stack'[i + 1] = p
        BY <4>1, <1>1, <1>2
      <4>2. ASSUME NEW i \in 1..Len(stack'), stack'[i] = p
            PROVE  i - 1 \in 1..Len(stack) /\ stack[i - 1] = p
        BY <4>2, <2>2, <1>1, <1>2
      <4> QED
        BY <4>1, <4>2
    <3> QED
      BY <2>2, <3>1, <1>3 DEF ScriptsNest
  <2> QED
    BY <2>1, <2>2
<1> QED
  BY <1>5, <1>6 DEF ScriptsNest

\* The innermost script ends and uncovers the one it interrupted.
LEMMA PopNests ==
  ASSUME TypeOK, ScriptsNest, NEW p \in Probers, Top(p), Finish(p)
  PROVE  ScriptsNest'
<1>1. stack \in Seq(Probers) /\ stack # << >> /\ Len(stack) \in Nat \ {0} /\ stack[1] = p
  BY DEF TypeOK, Top
<1>2. /\ Len(stack') = Len(stack) - 1
      /\ \A i \in 1..Len(stack') : stack'[i] = stack[i + 1]
  BY <1>1, HeadTailProperties DEF Finish
<1>3. \A q \in Probers : step'[q] = IF q = p THEN "done" ELSE step[q]
  BY DEF Finish, TypeOK
<1>4. \A i \in 1..Len(stack') : stack'[i] # p /\ stack'[i] \in Probers
  BY <1>1, <1>2, ElementOfSeq DEF ScriptsNest
<1>5. \A i, j \in 1..Len(stack') : i # j => stack'[i] # stack'[j]
  BY <1>1, <1>2 DEF ScriptsNest
<1>6. ASSUME NEW q \in Probers
      PROVE  step'[q] \in Running <=> \E i \in 1..Len(stack') : stack'[i] = q
  <2>1. CASE q = p
    BY <2>1, <1>3, <1>4 DEF Running
  <2>2. CASE q # p
    <3>1. (\E i \in 1..Len(stack') : stack'[i] = q)
             <=> (\E i \in 1..Len(stack) : stack[i] = q)
      <4>1. ASSUME NEW i \in 1..Len(stack), stack[i] = q
            PROVE  i - 1 \in 1..Len(stack') /\ stack'[i - 1] = q
        BY <4>1, <2>2, <1>1, <1>2
      <4>2. ASSUME NEW i \in 1..Len(stack'), stack'[i] = q
            PROVE  i + 1 \in 1..Len(stack) /\ stack[i + 1] = q
        BY <4>2, <1>1, <1>2
      <4> QED
        BY <4>1, <4>2
    <3> QED
      BY <2>2, <3>1, <1>3 DEF ScriptsNest
  <2> QED
    BY <2>1, <2>2
<1> QED
  BY <1>5, <1>6 DEF ScriptsNest

\* The innermost script goes on.
LEMMA MoveNests ==
  ASSUME TypeOK, ScriptsNest, NEW p \in Probers, Top(p), NEW there \in Running,
         Advance(p, there)
  PROVE  ScriptsNest'
<1>1. stack \in Seq(Probers) /\ Len(stack) \in Nat \ {0} /\ stack[1] = p
  BY DEF TypeOK, Top
<1>2. stack' = stack /\ \A q \in Probers : step'[q] = IF q = p THEN there ELSE step[q]
  BY DEF Advance, TypeOK
<1>3. \A q \in Probers : step'[q] \in Running <=> step[q] \in Running
  BY <1>1, <1>2 DEF ScriptsNest
<1>4. \A i \in 2..Len(stack) : stack[i] \in Probers /\ stack[i] # p
  BY <1>1, ElementOfSeq DEF ScriptsNest
<1> QED
  BY <1>1, <1>2, <1>3, <1>4 DEF ScriptsNest

LEMMA ExitNests == Exits => ScriptsNest'
<1> SUFFICES ASSUME Exits PROVE ScriptsNest'
  OBVIOUS
<1>1. stack' = << >> /\ Len(stack') = 0
  BY DEF Exits
<1>2. \A p \in Probers : step'[p] \notin Running
  BY DEF Exits, Running
<1> QED
  BY <1>1, <1>2 DEF ScriptsNest

LEMMA ScriptStepNests ==
  ASSUME TypeOK, ScriptsNest, NEW p \in Probers, ScriptStep(p)
  PROVE  ScriptsNest'
<1>1. CASE SendKills(p)
  BY <1>1, ExitNests DEF SendKills
<1>2. CASE ~SendKills(p)
  <2>1. Top(p) /\ (Finish(p) \/ \E there \in Running : Advance(p, there))
    BY <1>2 DEF ScriptStep, AtStep, EndMain, Running, Collect, WriteBackEntry, CollectSilently, ImportsFail,
                WriteBackFails, Connect, Send, SendFails, CloseSocket, CreateTmp,
                WriteTmp, WriteTmpFails, ReplaceResult, DeleteMain
  <2> QED
    BY <2>1, PopNests, MoveNests
<1> QED
  BY <1>1, <1>2

LEMMA NextNests == TypeOK /\ LifeCycle /\ ScriptsNest /\ [Next]_vars => ScriptsNest'
<1> SUFFICES ASSUME TypeOK, LifeCycle, ScriptsNest, [Next]_vars PROVE ScriptsNest'
  OBVIOUS
<1>1. CASE LoadScript
  <2>1. CASE "script" \in files[pending]
    <3>1. PICK q \in Probers : q = pending
      BY <1>1 DEF LoadScript, TypeOK
    <3>2. step[q] = "none"
      BY <3>1 DEF LifeCycle, InjectionInOrder
    <3> QED
      BY <1>1, <2>1, <3>1, <3>2, PushNests DEF LoadScript
  <2>2. CASE "script" \notin files[pending]
    BY <1>1, <2>2 DEF LoadScript, ScriptsNest
  <2> QED
    BY <2>1, <2>2
<1>2. ASSUME NEW p \in Probers, ProberStep(p) PROVE ScriptsNest'
  BY <1>2, ProberTimers DEF ScriptsNest
<1>3. ASSUME NEW p \in Probers, Start(p) \/ Interrupt(p) PROVE ScriptsNest'
  BY <1>3 DEF Start, Interrupt, targetVars, ScriptsNest
<1>4. CASE TargetExits
  BY <1>4, ExitNests DEF TargetExits
<1>5. CASE Tick \/ UNCHANGED vars
  BY <1>5 DEF Tick, vars, targetVars, ScriptsNest
<1> QED
  BY <1>1, <1>2, <1>3, <1>4, <1>5, ScriptStepNests DEF Next

\* The script of _inject.py reaches bytecode boundaries too, so the script of
\* another prober may begin inside it, even inside its sendall: they end in the
\* opposite order, each is on the stack once and none is begun again.
THEOREM ScriptsAreNested == Spec => []ScriptsNest
<1>1. Init => ScriptsNest
  BY DEF Init, ScriptsNest, Running
<1> QED
  BY <1>1, NextNests, TypeCorrect, LifeCycleHolds, PTL DEF Spec

---------------------------------------------------------------------------
(* What is left behind, and what an incomplete answer means *)

\* What may keep a script from its last piece.
Excused(p) == ~alive \/ (kind[p] = "tempfile" /\ "short_write" \in Faults) \/ Expired(p)

\* The files in the result directory.
Made(p) == files[p] \cap {"tmp", "result"}

\* A call's directories, listener and connection against where it stands.
PlacesInOrder(p) ==
  /\ pc[p] \in {"idle", "open"} => kind[p] = "none" /\ dirs[p] = {} /\ ~listening[p]
  /\ pc[p] \in {"check", "arm", "wait"} => kind[p] = "unix_socket"
  /\ pc[p] \in {"read", "expiry", "rmdir"} => kind[p] = "tempfile"
  /\ kind[p] = "none" => pc[p] \in {"idle", "open", "done"}
  /\ pc[p] \in Waiting \cup {"remote_exec"} => "script" \in files[p]
  /\ "script" \in dirs[p] => pc[p] \in Waiting \cup {"remote_exec", "rm_script"}
  /\ "socket" \in dirs[p] => IF kind[p] = "unix_socket" THEN pc[p] \notin {"parse", "done"}
                                                        ELSE "socket_call" \in Faults
  /\ "result" \in dirs[p] => /\ kind[p] = "tempfile"
                             /\ pc[p] \in {"parse", "done"} => Made(p) # {}
  /\ listening[p] => kind[p] = "unix_socket" /\ pc[p] \notin {"parse", "done"}
  /\ conn[p] = "queued" => listening[p]
  /\ conn[p] = "accepted" => pc[p] \in Waiting
  /\ conn[p] = "closed" => pc[p] \notin Early \cup Waiting

PlacesHold == \A p \in Probers : PlacesInOrder(p)

\* A step of a prober changes nothing of another call.
OthersStay(p) ==
  \A r \in Probers \ {p} :
    /\ pc'[r] = pc[r] /\ outcome'[r] = outcome[r] /\ remaining'[r] = remaining[r]
    /\ kind'[r] = kind[r] /\ dirs'[r] = dirs[r] /\ files'[r] = files[r]
    /\ listening'[r] = listening[r] /\ conn'[r] = conn[r]
    /\ sent'[r] = sent[r] /\ rcvd'[r] = rcvd[r] /\ eof'[r] = eof[r] /\ step'[r] = step[r]

LEMMA ProberAlone ==
  ASSUME TypeOK, NEW p \in Probers, ProberStep(p)
  PROVE  OthersStay(p) /\ UNCHANGED alive
<1> USE DEF TypeOK, At, Goto, Conclude, Leave, fsVars, sockVars, targetVars, OthersStay
<1>1. CASE OpenSocket(p)
  BY <1>1 DEF OpenSocket
<1>2. CASE OpenTempFile(p)
  BY <1>2 DEF OpenTempFile
<1>3. CASE OpenFails(p)
  BY <1>3 DEF OpenFails
<1>4. CASE WriteScript(p)
  BY <1>4 DEF WriteScript
<1>5. CASE WriteScriptFails(p)
  BY <1>5 DEF WriteScriptFails
<1>6. CASE RemoteExec(p)
  BY <1>6 DEF RemoteExec
<1>7. CASE RemoteExecFails(p)
  BY <1>7 DEF RemoteExecFails
<1>8. CASE CheckBudget(p)
  BY <1>8 DEF CheckBudget
<1>9. CASE ArmTimeout(p)
  BY <1>9 DEF ArmTimeout
<1>10. CASE Accept(p)
  BY <1>10 DEF Accept
<1>11. CASE AcceptFails(p) \/ ReadFails(p)
  BY <1>11 DEF AcceptFails, ReadFails
<1>12. CASE Receive(p)
  BY <1>12 DEF Receive
<1>13. CASE ReceiveEnd(p)
  BY <1>13 DEF ReceiveEnd
<1>14. CASE WaitTimesOut(p)
  BY <1>14 DEF WaitTimesOut
<1>15. CASE ReadResult(p)
  BY <1>15 DEF ReadResult
<1>16. CASE PollAgain(p)
  BY <1>16 DEF PollAgain
<1>17. CASE RemoveScriptDir(p)
  BY <1>17 DEF RemoveScriptDir
<1>18. CASE CloseSocketChannel(p)
  BY <1>18 DEF CloseSocketChannel
<1>19. CASE ClearResultDir(p)
  BY <1>19 DEF ClearResultDir
<1>20. CASE RemoveResultDir(p)
  BY <1>20 DEF RemoveResultDir
<1>21. CASE Parse(p)
  BY <1>21 DEF Parse
<1> QED
  BY <1>1, <1>2, <1>3, <1>4, <1>5, <1>6, <1>7, <1>8, <1>9, <1>10, <1>11,
     <1>12, <1>13, <1>14, <1>15, <1>16, <1>17, <1>18, <1>19, <1>20, <1>21
     DEF ProberStep

\* So does a step of a script, unless it ends the target.
LEMMA ScriptAlone ==
  ASSUME TypeOK, NEW p \in Probers, ScriptStep(p)
  PROVE  SendKills(p) \/ (OthersStay(p) /\ UNCHANGED alive)
<1> USE DEF TypeOK, AtStep, Advance, EndMain, Finish, proberVars, fsVars, sockVars, OthersStay
<1>1. CASE Collect(p)
  BY <1>1 DEF Collect, Statuses
<1>2. CASE CollectSilently(p) \/ ImportsFail(p)
  BY <1>2 DEF CollectSilently, ImportsFail
<1>3. CASE WriteBackFails(p)
  BY <1>3 DEF WriteBackFails
<1>4. CASE Connect(p)
  BY <1>4 DEF Connect
<1>5. CASE Send(p)
  BY <1>5 DEF Send
<1>6. CASE SendFails(p)
  BY <1>6 DEF HangUp, SendFails
<1>7. CASE CloseSocket(p)
  BY <1>7 DEF HangUp, CloseSocket
<1>8. CASE CreateTmp(p)
  BY <1>8 DEF CreateTmp
<1>9. CASE WriteTmp(p)
  BY <1>9 DEF WriteTmp
<1>10. CASE WriteTmpFails(p)
  BY <1>10 DEF WriteTmpFails
<1>11. CASE ReplaceResult(p) \/ DeleteMain(p)
  BY <1>11 DEF ReplaceResult, DeleteMain
<1> QED
  BY <1>1, <1>2, <1>3, <1>4, <1>5, <1>6, <1>7, <1>8, <1>9, <1>10, <1>11
     DEF ScriptStep

\* A prober opens and closes its places in the order in which it stands.
LEMMA ProberPlaces ==
  ASSUME TypeOK, LifeCycle, PlacesHold, NEW p \in Probers, ProberStep(p)
  PROVE  PlacesInOrder(p)'
<1> USE DEF TypeOK, At, Goto, Conclude, Leave, proberVars, fsVars, sockVars, targetVars,
            Waiting, Early, PlacesInOrder, Made
<1>0. PlacesInOrder(p)
  BY DEF PlacesHold
<1>1. CASE OpenSocket(p)
  BY <1>0, <1>1 DEF OpenSocket
<1>2. CASE OpenTempFile(p)
  <2>1. PICK reason \in FallbackReasons :
           dirs' = [dirs EXCEPT ![p] = {"result"} \cup AbandonedBy(reason)]
    BY <1>2 DEF OpenTempFile
  <2>2. "socket" \in AbandonedBy(reason) => "socket_call" \in Faults
    BY DEF FallbackReasons, AbandonedBy
  <2>3. "script" \notin AbandonedBy(reason)
    BY DEF AbandonedBy
  <2> QED
    BY <1>0, <1>2, <2>1, <2>2, <2>3 DEF OpenTempFile
<1>3. CASE OpenFails(p)
  <2>1. PICK reason \in FallbackReasons : dirs' = [dirs EXCEPT ![p] = AbandonedBy(reason)]
    BY <1>3 DEF OpenFails
  <2>2. "socket" \in AbandonedBy(reason) => "socket_call" \in Faults
    BY DEF FallbackReasons, AbandonedBy
  <2>3. "script" \notin AbandonedBy(reason) /\ "result" \notin AbandonedBy(reason)
    BY DEF AbandonedBy
  <2> QED
    BY <1>0, <1>3, <2>1, <2>2, <2>3 DEF OpenFails
<1>4. CASE WriteScript(p)
  BY <1>0, <1>4 DEF WriteScript
<1>5. CASE WriteScriptFails(p)
  <2>1. CASE UNCHANGED dirs
    BY <1>0, <1>5, <2>1 DEF WriteScriptFails
  <2>2. CASE dirs' = [dirs EXCEPT ![p] = @ \cup {"script"}] /\ Goto(p, "rm_script")
    BY <1>0, <1>5, <2>2 DEF WriteScriptFails
  <2> QED
    BY <1>5, <2>1, <2>2 DEF WriteScriptFails
<1>6. CASE RemoteExec(p)
  BY <1>0, <1>6 DEF RemoteExec
<1>7. CASE RemoteExecFails(p)
  BY <1>0, <1>7 DEF RemoteExecFails, AttachFailures
<1>8. CASE CheckBudget(p)
  BY <1>0, <1>8 DEF CheckBudget
<1>9. CASE ArmTimeout(p)
  BY <1>0, <1>9 DEF ArmTimeout
<1>10. CASE Accept(p)
  BY <1>0, <1>10 DEF Accept
<1>11. CASE AcceptFails(p) \/ ReadFails(p)
  BY <1>0, <1>11 DEF AcceptFails, ReadFails
<1>12. CASE Receive(p)
  BY <1>0, <1>12 DEF Receive, InFlight
<1>13. CASE ReceiveEnd(p)
  BY <1>0, <1>13 DEF ReceiveEnd
<1>14. CASE WaitTimesOut(p)
  BY <1>0, <1>14 DEF WaitTimesOut
<1>15. CASE ReadResult(p)
  BY <1>0, <1>15 DEF ReadResult, Answered
<1>16. CASE PollAgain(p)
  BY <1>0, <1>16 DEF PollAgain
<1>17. CASE RemoveScriptDir(p)
  BY <1>0, <1>17 DEF RemoveScriptDir
<1>18. CASE CloseSocketChannel(p)
  BY <1>0, <1>18 DEF CloseSocketChannel, AfterClose
<1>19. CASE ClearResultDir(p)
  BY <1>0, <1>19 DEF ClearResultDir
<1>20. CASE RemoveResultDir(p)
  BY <1>0, <1>20 DEF RemoveResultDir, AfterClose
<1>21. CASE Parse(p)
  BY <1>0, <1>21 DEF Parse
<1> QED
  BY <1>1, <1>2, <1>3, <1>4, <1>5, <1>6, <1>7, <1>8, <1>9, <1>10, <1>11, <1>12, <1>13,
     <1>14, <1>15, <1>16, <1>17, <1>18, <1>19, <1>20, <1>21 DEF ProberStep

\* A script writes only into what its prober holds open.
LEMMA ScriptPlaces ==
  ASSUME TypeOK, LifeCycle, PlacesHold, NEW p \in Probers, ScriptStep(p)
  PROVE  PlacesInOrder(p)'
<1> USE DEF TypeOK, AtStep, Advance, EndMain, Finish, proberVars, fsVars, sockVars, PlacesInOrder,
            Made, Running
<1>0. PlacesInOrder(p)
  BY DEF PlacesHold
<1>1. CASE Collect(p) \/ CollectSilently(p) \/ ImportsFail(p) \/ WriteBackFails(p)
             \/ DeleteMain(p)
  <2>1. UNCHANGED <<pc, kind, dirs, files, listening, conn>>
    BY <1>1 DEF Collect, CollectSilently, ImportsFail, WriteBackFails, DeleteMain
  <2> QED
    BY ONLY <1>0, <2>1 DEF PlacesInOrder, Made
<1>2. CASE Connect(p)
  <2>1. CASE listening[p]
    <3>1. conn' = [conn EXCEPT ![p] = "queued"]
      BY <1>2, <2>1 DEF Connect
    <3> QED
      BY <1>0, <1>2, <2>1, <3>1 DEF Connect
  <2>2. CASE ~listening[p]
    BY <1>0, <1>2, <2>2 DEF Connect
  <2> QED
    BY <2>1, <2>2
<1>3. CASE Send(p) \/ SendFails(p) \/ CloseSocket(p)
  <2>1. UNCHANGED <<pc, kind, dirs, files, listening, conn>>
    BY <1>3 DEF Send, HangUp, SendFails, CloseSocket
  <2> QED
    BY ONLY <1>0, <2>1 DEF PlacesInOrder, Made
<1>4. CASE SendKills(p)
  BY <1>0, <1>4 DEF SendKills, Exits
<1>5. CASE CreateTmp(p)
  <2>1. CASE "result" \in dirs[p]
    <3>1. files' = [files EXCEPT ![p] = @ \cup {"tmp"}]
      BY <1>5, <2>1 DEF CreateTmp
    <3>2. files'[p] = files[p] \cup {"tmp"}
      BY <3>1
    <3>3. UNCHANGED <<pc, kind, dirs, listening, conn>>
      BY <1>5 DEF CreateTmp
    <3> QED
      BY ONLY <1>0, <3>2, <3>3 DEF PlacesInOrder, Made, Waiting, Early
  <2>2. CASE "result" \notin dirs[p]
    BY <1>0, <1>5, <2>2 DEF CreateTmp
  <2> QED
    BY <2>1, <2>2
<1>6. CASE WriteTmp(p) \/ WriteTmpFails(p)
  BY <1>0, <1>6 DEF WriteTmp, WriteTmpFails
<1>7. CASE ReplaceResult(p)
  BY <1>0, <1>7 DEF ReplaceResult
<1> QED
  BY <1>1, <1>2, <1>3, <1>4, <1>5, <1>6, <1>7 DEF ScriptStep

\* One step of anybody.
LEMMA NextPlaces == TypeOK /\ LifeCycle /\ PlacesHold /\ [Next]_vars => PlacesHold'
<1> SUFFICES ASSUME TypeOK, LifeCycle, PlacesHold, [Next]_vars, NEW q \in Probers
             PROVE  PlacesInOrder(q)'
  BY DEF PlacesHold
<1>0. PlacesInOrder(q)
  BY DEF PlacesHold
<1> USE DEF proberVars, fsVars, sockVars, PlacesInOrder, Made, Waiting, Early
<1>1. ASSUME NEW p \in Probers, Start(p) PROVE PlacesInOrder(q)'
  BY <1>0, <1>1 DEF Start, At, Goto, TypeOK
<1>2. ASSUME NEW p \in Probers, Interrupt(p) PROVE PlacesInOrder(q)'
  BY <1>0, <1>2 DEF Interrupt, Leave, Conclude, Goto, TypeOK
<1>3. CASE LoadScript \/ TargetExits \/ Tick \/ UNCHANGED vars
  BY <1>0, <1>3 DEF LoadScript, TargetExits, Exits, Tick, vars
<1>4. ASSUME NEW p \in Probers, ProberStep(p) PROVE PlacesInOrder(q)'
  <2>1. CASE q # p
    <3>1. OthersStay(p)
      BY <1>4, ProberAlone
    <3> QED
      BY ONLY <1>0, <2>1, <3>1 DEF OthersStay, PlacesInOrder, Made
  <2> QED
    BY <1>4, <2>1, ProberPlaces
<1>5. ASSUME NEW p \in Probers, ScriptStep(p) PROVE PlacesInOrder(q)'
  <2>1. CASE SendKills(p)
    BY <1>0, <2>1 DEF SendKills, Exits
  <2>2. CASE OthersStay(p) /\ q # p
    BY ONLY <1>0, <2>2 DEF OthersStay, PlacesInOrder, Made
  <2> QED
    BY <1>5, <2>1, <2>2, ScriptAlone, ScriptPlaces
<1> QED
  BY <1>1, <1>2, <1>3, <1>4, <1>5 DEF Next

\* However a call ends, its script, its listener and its connection are gone,
\* and a directory that remains is explained: by a file that a script made
\* there after the clean-up had looked, or by a socket() that failed
\* (the finally clauses of execute_in_target and the channels' close).
THEOREM LeftoversKnown == Spec => []LeftoversAreExplained
<1>1. Init => PlacesHold
  BY DEF Init, PlacesHold, PlacesInOrder, Waiting, Early, Made
<1>2. TypeOK /\ LifeCycle /\ PlacesHold => LeftoversAreExplained
  <2> SUFFICES ASSUME TypeOK, LifeCycle, PlacesHold, NEW p \in Probers, pc[p] = "done"
               PROVE  /\ "script" \notin dirs[p] /\ "script" \notin files[p]
                      /\ ~listening[p] /\ conn[p] \in {"none", "closed"}
                      /\ "result" \in dirs[p] => files[p] # {} /\ step[p] \in Running \cup {"done"}
                      /\ "socket" \in dirs[p] => kind[p] # "unix_socket" /\ "socket_call" \in Faults
    BY DEF LeftoversAreExplained
  <2>1. PlacesInOrder(p) /\ InjectionInOrder(p) /\ AnswerInOrder(p)
    BY DEF PlacesHold, LifeCycle
  <2> QED
    BY <2>1 DEF TypeOK, PlacesInOrder, InjectionInOrder, AnswerInOrder, Waiting, Made
<1> QED
  BY <1>1, <1>2, NextPlaces, TypeCorrect, LifeCycleHolds, PTL DEF Spec

---------------------------------------------------------------------------
\* A script against its channel: which return channel it uses, what a file that
\* it published holds, and what a prober has read when it stops waiting without
\* an exception.
AnswerIsWhole(p) ==
  /\ step[p] # "none" => kind[p] # "none"
  /\ step[p] \in {"connect", "send", "close"} => kind[p] = "unix_socket"
  /\ step[p] \in {"create", "write", "replace"} => kind[p] = "tempfile"
  /\ Made(p) # {} => kind[p] = "tempfile"
  /\ "result" \in files[p] =>
       step[p] \in Ended /\ (sent[p] = Pieces \/ "short_write" \in Faults)
  /\ step[p] = "replace" => sent[p] = Pieces \/ "short_write" \in Faults
  /\ step[p] = "close" => sent[p] = Pieces
  /\ eof[p] => step[p] \in Ended
  /\ eof[p] /\ outcome[p] = "none" => sent[p] = Pieces \/ Excused(p)
  /\ outcome[p] = "none" /\ pc[p] \in {"rm_script", "close", "rmdir", "parse"} =>
       step[p] \in Ended /\ (rcvd[p] = Pieces \/ Excused(p))
  /\ outcome[p] = "none" /\ pc[p] = "rmdir" => Made(p) = {}
  /\ pc[p] = "parse" \/ outcome[p] \in Answers =>
       step[p] \in Ended /\ files[p] = {} /\ "result" \notin dirs[p]
  /\ outcome[p] = "channel_error" => Excused(p)

AnswersAreWhole == \A p \in Probers : AnswerIsWhole(p)

\* What a prober reads, and what it concludes from it.
LEMMA ProberWhole ==
  ASSUME TypeOK, LifeCycle, PlacesHold, AnswersAreWhole, NEW p \in Probers, ProberStep(p)
  PROVE  AnswerIsWhole(p)'
<1> USE PieceAssumption
        DEF TypeOK, At, Goto, Conclude, Leave, proberVars, fsVars, sockVars, targetVars,
            Waiting, Early, Final, Answers, Ended, AnswerIsWhole, Made, Excused, Expired
<1>0. AnswerIsWhole(p)
  BY DEF AnswersAreWhole
<1>p. PlacesInOrder(p)
  BY DEF PlacesHold
<1>l. InjectionInOrder(p) /\ AnswerInOrder(p) /\ OutcomeInOrder(p)
  BY DEF LifeCycle
<1>1. CASE OpenSocket(p)
  <2>1. step[p] = "none" /\ Made(p) = {} /\ outcome[p] = "none"
    BY <1>1, <1>l DEF OpenSocket, InjectionInOrder, AnswerInOrder, OutcomeInOrder
  <2> QED
    BY <1>0, <1>1, <2>1 DEF OpenSocket
<1>2. CASE OpenTempFile(p)
  <2>1. step[p] = "none" /\ Made(p) = {} /\ outcome[p] = "none" /\ ~eof[p]
    BY <1>2, <1>l DEF OpenTempFile, InjectionInOrder, AnswerInOrder, OutcomeInOrder
  <2>2. \A r \in Probers : r # p => dirs'[r] = dirs[r]
    BY <1>2 DEF OpenTempFile
  <2> QED
    BY <1>0, <1>2, <2>1, <2>2 DEF OpenTempFile
<1>3. CASE OpenFails(p)
  <2>1. \A r \in Probers : r # p => dirs'[r] = dirs[r]
    BY <1>3 DEF OpenFails
  <2> QED
    BY <1>0, <1>3, <2>1 DEF OpenFails
<1>4. CASE WriteScript(p)
  <2>1. outcome[p] = "none"
    BY <1>4, <1>l DEF WriteScript, OutcomeInOrder
  <2> QED
    BY <1>0, <1>4, <2>1 DEF WriteScript
<1>5. CASE WriteScriptFails(p)
  <2>1. UNCHANGED dirs \/ dirs' = [dirs EXCEPT ![p] = @ \cup {"script"}]
    BY <1>5 DEF WriteScriptFails
  <2>2. pc' = [pc EXCEPT ![p] = "close"] \/ pc' = [pc EXCEPT ![p] = "rm_script"]
    BY <1>5 DEF WriteScriptFails
  <2> QED
    BY <1>0, <1>5, <2>1, <2>2 DEF WriteScriptFails
<1>6. CASE RemoteExec(p)
  BY <1>0, <1>6 DEF RemoteExec
<1>7. CASE RemoteExecFails(p)
  <2>1. PICK failure \in {"attach_error", "no_process"} : Leave(p, failure)
    BY <1>7 DEF RemoteExecFails, AttachFailures
  <2> QED
    BY <1>0, <1>7, <2>1 DEF RemoteExecFails
<1>8. CASE CheckBudget(p)
  <2>1. CASE Expired(p)
    BY <1>0, <1>8, <2>1 DEF CheckBudget
  <2>2. CASE ~Expired(p)
    BY <1>0, <1>8, <2>2 DEF CheckBudget
  <2> QED
    BY <2>1, <2>2
<1>9. CASE ArmTimeout(p)
  <2>1. CASE ArmRaises(p)
    BY <1>0, <1>9, <2>1 DEF ArmTimeout
  <2>2. CASE ~ArmRaises(p)
    BY <1>0, <1>9, <2>2 DEF ArmTimeout
  <2> QED
    BY <2>1, <2>2
<1>10. CASE Accept(p)
  BY <1>0, <1>10 DEF Accept
<1>11. CASE AcceptFails(p) \/ ReadFails(p)
  BY <1>0, <1>11 DEF AcceptFails, ReadFails
<1>12. CASE Receive(p)
  <2>1. outcome[p] = "none"
    BY <1>12, <1>l DEF Receive, OutcomeInOrder
  <2> QED
    BY <1>0, <1>12, <2>1 DEF Receive
<1>13. CASE ReceiveEnd(p)
  <2>1. outcome[p] = "none" /\ step[p] \in Ended /\ rcvd[p] = sent[p]
    BY <1>0, <1>13, <1>l DEF ReceiveEnd, OutcomeInOrder, InFlight
  <2>2. rcvd[p] = Pieces \/ Excused(p)
    BY <1>0, <1>13, <2>1 DEF ReceiveEnd
  <2>3. rcvd[p] = 0 => Excused(p)
    BY <2>2
  <2> QED
    BY <1>0, <1>13, <2>1, <2>2, <2>3 DEF ReceiveEnd
<1>14. CASE WaitTimesOut(p)
  BY <1>0, <1>14 DEF WaitTimesOut
<1>15. CASE ReadResult(p)
  <2>1. CASE Answered(p)
    <3>1. step[p] \in Ended /\ (sent[p] = Pieces \/ Excused(p))
      BY <1>0, <1>15, <1>p, <2>1 DEF Answered, ReadResult, PlacesInOrder
    <3> QED
      BY <1>0, <1>15, <2>1, <3>1 DEF ReadResult
  <2>2. CASE ~Answered(p)
    BY <1>0, <1>15, <2>2 DEF ReadResult
  <2> QED
    BY <2>1, <2>2
<1>16. CASE PollAgain(p)
  <2>1. CASE Expired(p)
    BY <1>0, <1>16, <2>1 DEF PollAgain
  <2>2. CASE ~Expired(p)
    BY <1>0, <1>16, <2>2 DEF PollAgain
  <2> QED
    BY <2>1, <2>2
<1>17. CASE RemoveScriptDir(p)
  BY <1>0, <1>17 DEF RemoveScriptDir
<1>18. CASE CloseSocketChannel(p)
  <2>1. "script" \notin files[p] /\ "result" \notin dirs[p] /\ Made(p) = {}
    BY <1>0, <1>18, <1>p, <1>l DEF CloseSocketChannel, InjectionInOrder, PlacesInOrder
  <2>2. files[p] = {}
    BY <2>1
  <2> QED
    BY <1>0, <1>18, <2>1, <2>2 DEF CloseSocketChannel, AfterClose
<1>19. CASE ClearResultDir(p)
  BY <1>0, <1>19 DEF ClearResultDir
<1>20. CASE RemoveResultDir(p)
  <2>1. "script" \notin files[p]
    BY <1>20, <1>l DEF RemoveResultDir, InjectionInOrder
  <2>2. outcome[p] = "none" => files[p] = {}
    BY <1>0, <1>20, <2>1 DEF RemoveResultDir
  <2> QED
    BY <1>0, <1>20, <2>1, <2>2 DEF RemoveResultDir, AfterClose
<1>21. CASE Parse(p)
  <2>1. outcome[p] = "none" /\ (rcvd[p] = Pieces \/ Excused(p))
    BY <1>0, <1>21, <1>l DEF Parse, OutcomeInOrder
  <2>2. env[p] # "channel_error"
    OBVIOUS
  <2> QED
    BY <1>0, <1>21, <2>1, <2>2 DEF Parse
<1> QED
  BY <1>1, <1>2, <1>3, <1>4, <1>5, <1>6, <1>7, <1>8, <1>9, <1>10, <1>11, <1>12, <1>13,
     <1>14, <1>15, <1>16, <1>17, <1>18, <1>19, <1>20, <1>21 DEF ProberStep

\* The end of the target excuses every script.
LEMMA ExitWhole ==
  ASSUME TypeOK, Exits, NEW q \in Probers, AnswerIsWhole(q)
  PROVE  AnswerIsWhole(q)'
  BY DEF TypeOK, Exits, proberVars, fsVars, Running, Ended, AnswerIsWhole, Made, Excused, Expired

\* A prober that reads on knows that its script has not ended, and one that has
\* closed the connection has read to the end or has an exception to tell of.
LEMMA ScriptWhole ==
  ASSUME TypeOK, LifeCycle, TargetOutwaitsProber, PlacesHold, AnswersAreWhole,
         NEW p \in Probers, ScriptStep(p)
  PROVE  AnswerIsWhole(p)'
<1> USE PieceAssumption
        DEF TypeOK, AtStep, Advance, EndMain, Finish, proberVars, fsVars, sockVars,
            Running, Waiting, Early, Final, Answers, Ended, AnswerIsWhole, Made, Excused, Expired
<1>0. AnswerIsWhole(p)
  BY DEF AnswersAreWhole
<1>p. PlacesInOrder(p)
  BY DEF PlacesHold
<1>l. InjectionInOrder(p) /\ AnswerInOrder(p) /\ OutcomeInOrder(p)
  BY DEF LifeCycle
<1>s. step[p] \in Running \ {"del_main"} => pc[p] # "parse" /\ outcome[p] \notin Answers
  BY <1>0
<1>1. CASE Collect(p)
  BY <1>0, <1>1, <1>s DEF Collect, Statuses, WriteBackEntry
<1>2. CASE CollectSilently(p) \/ ImportsFail(p)
  BY <1>0, <1>2, <1>s DEF CollectSilently, ImportsFail
<1>3. CASE WriteBackFails(p)
  BY <1>0, <1>3, <1>s DEF WriteBackFails
<1>4. CASE Connect(p)
  <2>1. CASE listening[p]
    BY <1>0, <1>4, <1>s, <2>1 DEF Connect
  <2>2. CASE ~listening[p]
    BY <1>0, <1>4, <1>s, <2>2 DEF Connect
  <2> QED
    BY <2>1, <2>2
<1>5. CASE Send(p)
  <2>1. ~eof[p] /\ "result" \notin files[p]
    BY <1>0, <1>5 DEF Send
  <2> QED
    BY <1>0, <1>5, <1>s, <2>1 DEF Send
<1>6. CASE SendFails(p)
  <2>1. outcome[p] = "none" => Excused(p)
    <3>1. SUFFICES ASSUME outcome[p] = "none"  PROVE Excused(p)
      OBVIOUS
    <3>2. pc[p] \in Waiting
      BY <1>0, <1>6, <1>l, <3>1 DEF SendFails, InjectionInOrder, OutcomeInOrder, Locations
    <3>3. sendLeft[p] = 0
      BY <1>6, <1>p, <3>2 DEF SendFails, SendRaises, PlacesInOrder
    <3>4. sendLeft[p] >= remaining[p]
      BY <1>6, <3>2 DEF SendFails, TargetOutwaitsProber
    <3>5. remaining[p] \in -1..Budget
      OBVIOUS
    <3>6. remaining[p] <= 0
      BY ONLY <3>3, <3>4, <3>5, BudgetAssumption
    <3> QED
      BY <3>6
  <2> QED
    BY <1>0, <1>6, <1>s, <2>1 DEF HangUp, SendFails
<1>7. CASE SendKills(p)
  BY <1>0, <1>7, ExitWhole DEF SendKills
<1>8. CASE CloseSocket(p)
  BY <1>0, <1>8, <1>s DEF HangUp, CloseSocket
<1>9. CASE CreateTmp(p)
  <2>1. CASE "result" \in dirs[p]
    <3>1. files' = [files EXCEPT ![p] = @ \cup {"tmp"}] /\ step' = [step EXCEPT ![p] = "write"]
      BY <1>9, <2>1 DEF CreateTmp
    <3>2. /\ files'[p] = files[p] \cup {"tmp"} /\ step'[p] = "write" /\ step[p] = "create"
          /\ \A r \in Probers \ {p} : files'[r] = files[r] /\ step'[r] = step[r]
      BY <1>9, <3>1 DEF CreateTmp
    <3>3. UNCHANGED <<pc, kind, dirs, outcome, remaining, sent, rcvd, eof, alive>>
      BY <1>9 DEF CreateTmp
    <3>4. "result" \notin files[p]
      BY <1>0, <3>2
    <3> QED
      BY ONLY <1>0, <1>s, <3>2, <3>3, <3>4
         DEF Ended, AnswerIsWhole, Made, Excused, Expired, Running, Answers
  <2>2. CASE "result" \notin dirs[p]
    BY <1>0, <1>9, <1>s, <2>2 DEF CreateTmp
  <2> QED
    BY <2>1, <2>2
<1>10. CASE WriteTmp(p)
  <2>1. PICK n \in WriteLengths : sent' = [sent EXCEPT ![p] = n]
    BY <1>10 DEF WriteTmp
  <2>2. n = Pieces \/ "short_write" \in Faults
    BY DEF WriteLengths
  <2>3. ~eof[p] /\ "result" \notin files[p]
    BY <1>0, <1>10 DEF WriteTmp
  <2> QED
    BY <1>0, <1>10, <1>s, <2>1, <2>2, <2>3 DEF WriteTmp
<1>11. CASE WriteTmpFails(p)
  BY <1>0, <1>11, <1>s DEF WriteTmpFails
<1>12. CASE ReplaceResult(p)
  BY <1>0, <1>12, <1>s DEF ReplaceResult
<1>13. CASE DeleteMain(p)
  <2>1. /\ step[p] = "del_main" /\ step' = [step EXCEPT ![p] = "done"]
        /\ UNCHANGED <<pc, outcome, remaining, kind, dirs, files, sent, rcvd, eof, alive>>
    BY <1>13 DEF DeleteMain
  <2> QED
    BY ONLY <1>0, <2>1 DEF AnswerIsWhole, Ended, Made, Excused, Expired, Answers, TypeOK
<1> QED
  BY <1>1, <1>2, <1>3, <1>4, <1>5, <1>6, <1>7, <1>8, <1>9, <1>10, <1>11, <1>12, <1>13
     DEF ScriptStep

\* One step of anybody.
LEMMA NextWhole ==
  TypeOK /\ LifeCycle /\ TargetOutwaitsProber /\ PlacesHold /\ AnswersAreWhole /\ [Next]_vars
    => AnswersAreWhole'
<1> SUFFICES ASSUME TypeOK, LifeCycle, TargetOutwaitsProber, PlacesHold, AnswersAreWhole,
                    [Next]_vars, NEW q \in Probers
             PROVE  AnswerIsWhole(q)'
  BY DEF AnswersAreWhole
<1>0. AnswerIsWhole(q)
  BY DEF AnswersAreWhole
<1> USE DEF proberVars, fsVars, sockVars, targetVars, Ended, AnswerIsWhole, Made, Excused, Expired
<1>1. ASSUME NEW p \in Probers, Start(p) PROVE AnswerIsWhole(q)'
  BY <1>0, <1>1 DEF Start, At, Goto, TypeOK
<1>2. ASSUME NEW p \in Probers, Interrupt(p) PROVE AnswerIsWhole(q)'
  BY <1>0, <1>2 DEF Interrupt, Leave, Conclude, Goto, TypeOK, Waiting, Answers
<1>3. CASE LoadScript
  <2>1. CASE "script" \in files[pending]
    <3>1. pending \in Probers /\ step' = [step EXCEPT ![pending] = "collect"]
      BY <1>3, <2>1 DEF LoadScript, TypeOK
    <3>2. /\ pc[pending] \in Waiting \cup {"remote_exec", "rm_script"} /\ kind[pending] # "none"
          /\ step[pending] = "none" /\ pc[pending] # "remote_exec"
      BY <2>1, <3>1 DEF LifeCycle, InjectionInOrder, PlacesHold, PlacesInOrder, Waiting, Early
    <3>3. /\ ~eof[pending] /\ files[pending] \cap {"tmp", "result"} = {}
          /\ outcome[pending] \notin Answers
      BY <3>1, <3>2 DEF LifeCycle, AnswerInOrder, OutcomeInOrder, Waiting
    <3>4. step[pending] # "done"
      BY <3>2
    <3> QED
      BY <1>0, <1>3, <3>1, <3>2, <3>3, <3>4 DEF LoadScript, TypeOK, Waiting
  <2>2. CASE "script" \notin files[pending]
    BY <1>0, <1>3, <2>2 DEF LoadScript
  <2> QED
    BY <2>1, <2>2
<1>4. CASE TargetExits
  BY <1>0, <1>4, ExitWhole DEF TargetExits
<1>5. CASE Tick
  <2>1. Expired(q) => Expired(q)'
    BY ExpiredStays
  <2>2. /\ UNCHANGED <<pc, outcome, kind, dirs, files, sent, rcvd, eof, alive, step>>
        /\ Excused(q) => Excused(q)'
    BY <1>5, <2>1 DEF Tick
  <2> QED
    BY ONLY <1>0, <2>2 DEF Ended, AnswerIsWhole, Made
<1>6. CASE UNCHANGED vars
  BY <1>0, <1>6 DEF vars
<1>7. ASSUME NEW p \in Probers, ProberStep(p) PROVE AnswerIsWhole(q)'
  <2>1. CASE q # p
    <3>1. OthersStay(p) /\ UNCHANGED alive
      BY <1>7, ProberAlone
    <3> QED
      BY ONLY <1>0, <2>1, <3>1 DEF OthersStay, Ended, AnswerIsWhole, Made, Excused, Expired
  <2> QED
    BY <1>7, <2>1, ProberWhole
<1>8. ASSUME NEW p \in Probers, ScriptStep(p) PROVE AnswerIsWhole(q)'
  <2>1. CASE SendKills(p)
    BY <1>0, <2>1, ExitWhole DEF SendKills
  <2>2. CASE OthersStay(p) /\ UNCHANGED alive /\ q # p
    BY ONLY <1>0, <2>2 DEF OthersStay, Ended, AnswerIsWhole, Made, Excused, Expired
  <2> QED
    BY <1>8, <2>1, <2>2, ScriptAlone, ScriptWhole
<1> QED
  BY <1>1, <1>2, <1>3, <1>4, <1>5, <1>6, <1>7, <1>8 DEF Next

\* The invariant behind the theorems that follow.
LEMMA WholeHolds == Spec => [](PlacesHold /\ AnswersAreWhole)
<1>1. Init => PlacesHold
  BY DEF Init, PlacesHold, PlacesInOrder, Waiting, Early, Made
<1>2. Init => AnswersAreWhole
  BY DEF Init, AnswersAreWhole, AnswerIsWhole, Made, Answers
<1> QED
  BY <1>1, <1>2, NextPlaces, NextWhole, TypeCorrect, LifeCycleHolds, TargetIsPatient, PTL DEF Spec

\* An answer that was read to its end is incomplete only if the target exited,
\* os.write wrote short, or the budget is spent: a script that meets a closed
\* connection has a prober that gave up, and one that ran out of time has a
\* prober that did, by TargetIsPatient.
THEOREM CutsAreExplained == Spec => []CutOnlyByExit
<1>1. AnswersAreWhole => CutOnlyByExit
  BY DEF AnswersAreWhole, AnswerIsWhole, Excused, CutOnlyByExit
<1> QED
  BY <1>1, WholeHolds, PTL

\* A call that returned an answer has removed all there was: its script has
\* ended, so nothing can be written after the clean-up.
THEOREM AnsweredIsClean == Spec => []AnsweredLeavesNothing
<1>1. TypeOK /\ PlacesHold /\ AnswersAreWhole => AnsweredLeavesNothing
  <2> SUFFICES ASSUME TypeOK, PlacesHold, AnswersAreWhole, NEW p \in Probers, Prompt(p)
               PROVE  /\ dirs[p] \subseteq (IF kind[p] = "tempfile" THEN {"socket"} ELSE {})
                      /\ files[p] = {}
                      /\ step[p] \in Ended
    BY DEF AnsweredLeavesNothing
  <2>1. PlacesInOrder(p) /\ AnswerIsWhole(p)
    BY DEF PlacesHold, AnswersAreWhole
  <2>2. step[p] \in Ended /\ files[p] = {} /\ "result" \notin dirs[p] /\ kind[p] # "none"
    BY <2>1 DEF Prompt, AnswerIsWhole, Ended
  <2>3. "script" \notin dirs[p] /\ ("socket" \in dirs[p] => kind[p] # "unix_socket")
    BY <2>1 DEF Prompt, PlacesInOrder, Waiting
  <2>4. /\ dirs[p] \subseteq {"socket", "result", "script"}
        /\ kind[p] \in {"none", "unix_socket", "tempfile"}
    BY DEF TypeOK
  <2> QED
    BY <2>2, <2>3, <2>4
<1> QED
  BY <1>1, WholeHolds, TypeCorrect, PTL

---------------------------------------------------------------------------
(* That the envelope is written *)

\* Nothing keeps a script from its write back.
Unhindered(p) ==
  alive /\ pc[p] \in Waiting /\ ~Expired(p) /\ Faults \cap WriteBackFaults = {}

\* How far a script has got with it.
Puts(p) ==
  Unhindered(p) => /\ step[p] \in {"write", "replace"} => "tmp" \in files[p]
                   /\ step[p] \in Ended => Written(p)

PutsAll == \A p \in Probers : Puts(p)

\* While a prober waits it takes nothing away from its channel.
LEMMA ProberPuts ==
  ASSUME TypeOK, LifeCycle, NEW p \in Probers, ProberStep(p), pc'[p] \in Waiting
  PROVE  step[p] = "none" \/ (pc[p] \in Waiting /\ UNCHANGED <<kind, files, sent, eof>>)
<1>0. pc[p] = "remote_exec" => step[p] = "none"
  BY DEF LifeCycle, InjectionInOrder, Early
<1> USE DEF TypeOK, At, Goto, Leave, Waiting, fsVars, sockVars
<1>1. CASE OpenSocket(p) \/ OpenTempFile(p) \/ OpenFails(p)
  <2>1. pc' = [pc EXCEPT ![p] = "write_script"] \/ pc' = [pc EXCEPT ![p] = "done"]
    BY <1>1 DEF OpenSocket, OpenTempFile, OpenFails
  <2> QED
    BY <2>1
<1>2. CASE WriteScript(p) \/ WriteScriptFails(p)
  BY <1>2 DEF WriteScript, WriteScriptFails
<1>3. CASE RemoteExec(p) \/ RemoteExecFails(p)
  BY <1>0, <1>3 DEF RemoteExec, RemoteExecFails
<1>4. CASE CheckBudget(p) \/ ArmTimeout(p) \/ WaitTimesOut(p)
  BY <1>4 DEF CheckBudget, ArmTimeout, WaitTimesOut
<1>5. CASE Accept(p) \/ AcceptFails(p) \/ ReadFails(p) \/ Receive(p) \/ ReceiveEnd(p)
  BY <1>5 DEF Accept, AcceptFails, ReadFails, Receive, ReceiveEnd
<1>6. CASE ReadResult(p) \/ PollAgain(p)
  BY <1>6 DEF ReadResult, PollAgain
<1>7. CASE RemoveScriptDir(p) \/ CloseSocketChannel(p) \/ ClearResultDir(p)
             \/ RemoveResultDir(p) \/ Parse(p)
  BY <1>7 DEF RemoveScriptDir, CloseSocketChannel, ClearResultDir, RemoveResultDir,
              AfterClose, Parse
<1> QED
  BY <1>1, <1>2, <1>3, <1>4, <1>5, <1>6, <1>7 DEF ProberStep

\* A script that nothing hinders finds its channel open, is never short of time
\* before its prober is, and gets through with all it has.
LEMMA ScriptPuts ==
  ASSUME TypeOK, TargetOutwaitsProber, AnswerHasAPlace, PlacesHold, AnswersAreWhole,
         NEW p \in Probers, ScriptStep(p), Unhindered(p), alive', Puts(p)
  PROVE  Puts(p)'
<1>w. AnswerIsWhole(p) /\ PlacesInOrder(p)
  BY DEF AnswersAreWhole, PlacesHold
<1>p. /\ step[p] \in {"connect", "send", "close"} => kind[p] = "unix_socket"
      /\ step[p] \in {"create", "write", "replace"} => kind[p] = "tempfile"
      /\ step[p] \in {"close", "replace"} => sent[p] = Pieces
  BY <1>w DEF Unhindered, AnswerIsWhole, WriteBackFaults
<1>h. /\ step[p] = "connect" => listening[p]
      /\ step[p] = "create" => "result" \in dirs[p]
  BY <1>p DEF Unhindered, AnswerHasAPlace, Running
<1>0. Faults \cap {"import", "unprintable", "target_fds", "short_write", "disk"} = {}
  BY DEF Unhindered, WriteBackFaults
<1> USE DEF TypeOK, AtStep, Advance, EndMain, Finish, Puts, Written, Ended, fsVars, sockVars
<1>1. CASE Collect(p)
  BY <1>1 DEF Collect, WriteBackEntry
<1>2. CASE CollectSilently(p) \/ ImportsFail(p) \/ WriteBackFails(p) \/ WriteTmpFails(p)
  <2>1. Faults \cap {"import", "unprintable", "target_fds", "disk"} # {}
    BY <1>2 DEF CollectSilently, ImportsFail, WriteBackFails, WriteTmpFails
  <2> QED
    BY ONLY <1>0, <2>1
<1>3. CASE Connect(p)
  BY <1>h, <1>3 DEF Connect
<1>11. CASE Send(p)
  BY <1>11 DEF Send
<1>4. CASE SendFails(p)
  <2>1. conn[p] # "closed" /\ sendLeft[p] >= remaining[p] /\ remaining[p] > 0
    BY <1>4, <1>w DEF SendFails, Unhindered, PlacesInOrder, TargetOutwaitsProber, Expired
  <2> QED
    BY <1>4, <2>1 DEF SendFails, SendRaises
<1>5. CASE SendKills(p)
  BY <1>5 DEF SendKills, Exits
<1>6. CASE CloseSocket(p)
  BY <1>p, <1>6 DEF CloseSocket, HangUp, proberVars
<1>7. CASE CreateTmp(p)
  <2>1. files' = [files EXCEPT ![p] = @ \cup {"tmp"}] /\ step'[p] = "write"
    BY <1>h, <1>7 DEF CreateTmp
  <2> QED
    BY <2>1
<1>8. CASE WriteTmp(p)
  BY <1>8 DEF WriteTmp
<1>9. CASE ReplaceResult(p)
  BY <1>p, <1>9 DEF ReplaceResult, proberVars
<1>10. CASE DeleteMain(p)
  BY <1>10 DEF DeleteMain, proberVars
<1> QED
  BY <1>1, <1>2, <1>3, <1>4, <1>5, <1>6, <1>7, <1>8, <1>9, <1>10, <1>11 DEF ScriptStep

\* One step of anybody.
LEMMA NextPuts ==
  ASSUME TypeOK, LifeCycle, TargetOutwaitsProber, AnswerHasAPlace, PlacesHold, AnswersAreWhole,
         PutsAll, [Next]_vars, NEW q \in Probers
  PROVE  Puts(q)'
<1> SUFFICES ASSUME Unhindered(q)'  PROVE Puts(q)'
  BY DEF Puts
<1>0. Puts(q) /\ alive' /\ pc'[q] \in Waiting /\ ~Expired(q)
      /\ Faults \cap WriteBackFaults = {}
  BY ExpiredStays DEF PutsAll, Unhindered
<1>1. CASE UNCHANGED <<alive, kind, files, sent, eof, step>> /\ pc[q] \in Waiting
  <2>1. Unhindered(q)
    BY <1>0, <1>1 DEF Unhindered
  <2> QED
    BY <1>0, <1>1, <2>1 DEF Puts, Written
<1>2. CASE step'[q] \in {"none", "collect"}
  BY <1>2 DEF Puts, Ended
<1>3. ASSUME NEW p \in Probers, Start(p) PROVE Puts(q)'
  BY <1>0, <1>1, <1>3 DEF Start, At, Goto, TypeOK, Waiting, fsVars, sockVars, targetVars
<1>4. ASSUME NEW p \in Probers, Interrupt(p) PROVE Puts(q)'
  BY <1>0, <1>1, <1>4 DEF Interrupt, Leave, Goto, TypeOK, Waiting, fsVars, targetVars
<1>5. CASE LoadScript
  <2>1. UNCHANGED <<alive, pc, kind, files, sent, eof>> /\ (step'[q] = step[q] \/ step'[q] = "collect")
    BY <1>5 DEF LoadScript, TypeOK, proberVars, fsVars, sockVars
  <2>2. Unhindered(q)
    BY <1>0, <2>1 DEF Unhindered
  <2> QED
    BY <1>0, <1>2, <2>1, <2>2 DEF Puts, Written
<1>6. CASE TargetExits
  BY <1>0, <1>6 DEF TargetExits, Exits
<1>7. CASE Tick \/ UNCHANGED vars
  BY <1>0, <1>1, <1>7 DEF Tick, vars, proberVars, fsVars, sockVars, targetVars
<1>8. ASSUME NEW p \in Probers, ProberStep(p) PROVE Puts(q)'
  <2>1. OthersStay(p) /\ UNCHANGED <<alive, step>>
    BY <1>8, ProberAlone, ProberTimers
  <2>2. CASE q = p
    <3>1. step[q] = "none" \/ (pc[q] \in Waiting /\ UNCHANGED <<kind, files, sent, eof>>)
      BY <1>0, <1>8, <2>2, ProberPuts
    <3> QED
      BY <1>1, <1>2, <2>1, <3>1
  <2>3. CASE q # p
    <3>1. /\ pc'[q] = pc[q] /\ kind'[q] = kind[q] /\ files'[q] = files[q] /\ step'[q] = step[q]
          /\ sent'[q] = sent[q] /\ eof'[q] = eof[q] /\ alive' = alive
      BY <2>1, <2>3 DEF OthersStay
    <3> QED
      BY ONLY <1>0, <3>1 DEF Puts, Written, Unhindered
  <2> QED
    BY <2>2, <2>3
<1>9. ASSUME NEW p \in Probers, ScriptStep(p) PROVE Puts(q)'
  <2>1. OthersStay(p) /\ UNCHANGED alive /\ UNCHANGED pc
    BY <1>0, <1>9, ScriptAlone, ScriptFrame DEF SendKills, Exits
  <2>2. CASE q = p
    <3>1. Unhindered(p)
      BY <1>0, <2>1, <2>2 DEF Unhindered
    <3> QED
      BY <1>0, <1>9, <2>2, <3>1, ScriptPuts
  <2>3. CASE q # p
    <3>1. /\ pc'[q] = pc[q] /\ kind'[q] = kind[q] /\ files'[q] = files[q] /\ step'[q] = step[q]
          /\ sent'[q] = sent[q] /\ eof'[q] = eof[q] /\ alive' = alive
      BY <2>1, <2>3 DEF OthersStay
    <3> QED
      BY ONLY <1>0, <3>1 DEF Puts, Written, Unhindered
  <2> QED
    BY <2>2, <2>3
<1> QED
  BY <1>3, <1>4, <1>5, <1>6, <1>7, <1>8, <1>9 DEF Next

\* "It always writes exactly one envelope back, including when the collector
\* raises" (_inject.py): while its prober waits with time left and its target
\* lives, a script that has ended has put the whole envelope in the socket or in
\* the result file, unless an import, the description of the exception, a
\* descriptor, the disk or os.write failed in the target.
THEOREM EnvelopesAreWritten == Spec => []EnvelopeIsWritten
<1>1. Init => PutsAll
  BY DEF Init, PutsAll, Puts, Unhindered, Waiting
<1>2. TypeOK /\ LifeCycle /\ TargetOutwaitsProber /\ AnswerHasAPlace /\ PlacesHold
        /\ AnswersAreWhole /\ PutsAll /\ [Next]_vars => PutsAll'
  BY NextPuts DEF PutsAll
<1>3. PutsAll => EnvelopeIsWritten
  BY DEF PutsAll, Puts, Unhindered, EnvelopeIsWritten
<1> QED
  BY <1>1, <1>2, <1>3, WholeHolds, TargetIsPatient, AnswersHaveAPlace, TypeCorrect,
     LifeCycleHolds, PTL DEF Spec

---------------------------------------------------------------------------
(* Lost scripts *)

\* A script that is neither pending nor begun while its prober waits was
\* overwritten, or its target has ended.
NotLost(p) ==
  pc[p] \in Waiting /\ step[p] = "none" /\ pending # p =>
    ~alive \/ \E r \in Probers \ {p} : Injected(r)

\* A call that injected never goes back; it begins to wait only as the owner of
\* the pending slot.
LEMMA ProberMovesOn ==
  ASSUME TypeOK, NEW p \in Probers, ProberStep(p)
  PROVE  /\ Injected(p) => Injected(p)'
         /\ \/ UNCHANGED <<alive, pending>> /\ (pc'[p] \in Waiting => pc[p] \in Waiting)
            \/ UNCHANGED alive /\ pending' = p /\ pc'[p] \in Waiting
<1> USE DEF TypeOK, At, Goto, Conclude, Leave, Waiting, Injected, targetVars
<1>1. CASE OpenSocket(p) \/ OpenTempFile(p) \/ OpenFails(p)
  <2>1. /\ UNCHANGED <<alive, pending>>
        /\ pc[p] = "open"
        /\ pc' = [pc EXCEPT ![p] = "write_script"] \/ pc' = [pc EXCEPT ![p] = "done"]
    BY <1>1 DEF OpenSocket, OpenTempFile, OpenFails
  <2> QED
    BY <2>1
<1>2. CASE WriteScript(p) \/ WriteScriptFails(p)
  BY <1>2 DEF WriteScript, WriteScriptFails
<1>3. CASE RemoteExec(p) \/ RemoteExecFails(p)
  BY <1>3 DEF RemoteExec, RemoteExecFails
<1>4. CASE CheckBudget(p) \/ ArmTimeout(p) \/ WaitTimesOut(p)
  BY <1>4 DEF CheckBudget, ArmTimeout, WaitTimesOut
<1>5. CASE Accept(p) \/ AcceptFails(p) \/ ReadFails(p) \/ Receive(p) \/ ReceiveEnd(p)
  BY <1>5 DEF Accept, AcceptFails, ReadFails, Receive, ReceiveEnd
<1>6. CASE ReadResult(p) \/ PollAgain(p)
  BY <1>6 DEF ReadResult, PollAgain
<1>7. CASE RemoveScriptDir(p) \/ CloseSocketChannel(p) \/ ClearResultDir(p)
             \/ RemoveResultDir(p) \/ Parse(p)
  BY <1>7 DEF RemoveScriptDir, CloseSocketChannel, ClearResultDir, RemoveResultDir,
              AfterClose, Parse
<1> QED
  BY <1>1, <1>2, <1>3, <1>4, <1>5, <1>6, <1>7 DEF ProberStep

\* The slot changes by a load, which finds the script of a prober that waits, by
\* another injection, or with the end of the target.
LEMMA NextNotLost ==
  ASSUME TypeOK, LifeCycle, PlacesHold, [Next]_vars, NEW q \in Probers, NotLost(q)
  PROVE  NotLost(q)'
<1>1. ASSUME NEW p \in Probers, Start(p) PROVE NotLost(q)'
  BY <1>1 DEF Start, At, Goto, TypeOK, targetVars, NotLost, Injected, Waiting
<1>2. ASSUME NEW p \in Probers, Interrupt(p) PROVE NotLost(q)'
  BY <1>2 DEF Interrupt, Leave, Goto, TypeOK, targetVars, NotLost, Injected, Waiting
<1>3. ASSUME NEW p \in Probers, ScriptStep(p) PROVE NotLost(q)'
  <2>1. /\ UNCHANGED pc
        /\ (step'[q] = "none") = (step[q] = "none")
    BY <1>3, ScriptFrame
  <2>2. UNCHANGED <<alive, pending>> \/ ~alive'
    BY <1>3 DEF ScriptStep, Collect, CollectSilently, ImportsFail, WriteBackFails, Connect, Send, HangUp, SendFails,
       SendKills, CloseSocket, CreateTmp, WriteTmp, WriteTmpFails, ReplaceResult, DeleteMain, Exits
  <2> QED
    BY <2>1, <2>2 DEF NotLost, Injected
<1>4. CASE LoadScript
  <2>1. pending = q => "script" \in files[q] \/ pc[q] \notin Waiting
    BY DEF PlacesHold, PlacesInOrder
  <2> QED
    BY <1>4, <2>1 DEF LoadScript, proberVars, TypeOK, NotLost, Injected
<1>5. CASE TargetExits
  BY <1>5 DEF TargetExits, Exits, NotLost
<1>6. CASE Tick \/ UNCHANGED vars
  BY <1>6 DEF Tick, vars, proberVars, targetVars, NotLost, Injected
<1>7. ASSUME NEW p \in Probers, ProberStep(p) PROVE NotLost(q)'
  <2>1. /\ \A r \in Probers \ {p} : pc'[r] = pc[r]
        /\ step' = step
    BY <1>7, ProberFrame
  <2>2. Injected(p) => Injected(p)'
    BY <1>7, ProberMovesOn
  <2>3. \/ UNCHANGED <<alive, pending>> /\ (pc'[p] \in Waiting => pc[p] \in Waiting)
        \/ UNCHANGED alive /\ pending' = p /\ pc'[p] \in Waiting
    BY <1>7, ProberMovesOn
  <2>4. \A r \in Probers : Injected(r) => Injected(r)'
    BY <2>1, <2>2 DEF Injected
  <2>5. pc'[p] \in Waiting => Injected(p)'
    BY DEF Injected, Waiting
  <2> QED
    BY <2>1, <2>3, <2>4, <2>5 DEF NotLost
<1> QED
  BY <1>1, <1>2, <1>3, <1>4, <1>5, <1>6, <1>7 DEF Next

\* An injected script that was not begun at a safe point was overwritten by the
\* injection of another call, or its target is gone (sys.remote_exec has one
\* slot).
THEOREM LossesAreExplained == Spec => []LostOnlyToAnother
<1> DEFINE NoneLost == \A p \in Probers : NotLost(p)
<1>1. Init => NoneLost
  BY DEF Init, NotLost, Waiting
<1>2. TypeOK /\ LifeCycle /\ PlacesHold /\ NoneLost /\ [Next]_vars => NoneLost'
  BY NextNotLost
<1>3. NoneLost => LostOnlyToAnother
  BY DEF NotLost, LostOnlyToAnother
<1> HIDE DEF NoneLost
<1> QED
  BY <1>1, <1>2, <1>3, WholeHolds, TypeCorrect, LifeCycleHolds, PTL DEF Spec

---------------------------------------------------------------------------
(* How far the documentation is right                                        *)
(*                                                                           *)
(* ProbeSession ends with four sentences of the documentation that runs      *)
(* refute. Here is what the code supports of each of them.                   *)

\* A script the target passed over at a safe point has been outrun by the
\* injection of another call.
Outrun(p) ==
  passedOver[p] => \E r \in Probers \ {p} : Injected(r)

\* An error that is no ProbeError comes from settimeout, too late.
RawErrorIsLate(p) == outcome[p] = "raw_error" => kind[p] = "unix_socket" /\ Expired(p)

\* A channel is of a kind that open_channel had a reason for.
KindIsChosen(p) == /\ kind[p] = "unix_socket" => TRUE \in AllowSocket
                   /\ kind[p] = "tempfile" => FallbackReasons # {}

IsExplained(p) == Outrun(p) /\ RawErrorIsLate(p) /\ KindIsChosen(p)
AllIsExplained == \A p \in Probers : IsExplained(p)

\* A step of a prober starts no script and looks at the clock before it gives
\* up on settimeout.
LEMMA ProberExplains ==
  ASSUME TypeOK, LifeCycle, PlacesHold, NEW p \in Probers, ProberStep(p),
         RawErrorIsLate(p), KindIsChosen(p)
  PROVE  /\ UNCHANGED <<remaining, passedOver>>
         /\ RawErrorIsLate(p)' /\ KindIsChosen(p)'
<1> USE DEF TypeOK, At, Goto, Conclude, Leave, targetVars, RawErrorIsLate, KindIsChosen, Expired
<1>1. CASE OpenSocket(p) \/ OpenFails(p)
  BY <1>1 DEF OpenSocket, OpenFails
<1>2. CASE OpenTempFile(p)
  <2>1. FallbackReasons # {}
    BY <1>2 DEF OpenTempFile
  <2>2. outcome[p] = "none"
    BY <1>2 DEF OpenTempFile, LifeCycle, OutcomeInOrder, Early
  <2> QED
    BY <1>2, <2>1, <2>2 DEF OpenTempFile
<1>3. CASE WriteScript(p) \/ WriteScriptFails(p)
  BY <1>3 DEF WriteScript, WriteScriptFails
<1>4. CASE RemoteExec(p)
  BY <1>4 DEF RemoteExec
<1>r. CASE RemoteExecFails(p)
  <2>1. PICK failure \in AttachFailures : Leave(p, failure)
    BY <1>r DEF RemoteExecFails
  <2>2. failure # "raw_error"
    BY DEF AttachFailures
  <2> QED
    BY <1>r, <2>1, <2>2 DEF RemoteExecFails
<1>5. CASE ArmTimeout(p)
  <2>1. kind[p] = "unix_socket"
    BY <1>5 DEF ArmTimeout, PlacesHold, PlacesInOrder
  <2>2. ArmRaises(p) => Expired(p)
    BY BudgetAssumption DEF ArmRaises
  <2> QED
    BY <1>5, <2>1, <2>2 DEF ArmTimeout
<1>6. CASE CheckBudget(p) \/ WaitTimesOut(p) \/ PollAgain(p)
  BY <1>6 DEF CheckBudget, WaitTimesOut, PollAgain
<1>7. CASE Accept(p) \/ AcceptFails(p) \/ ReadFails(p) \/ Receive(p) \/ ReceiveEnd(p)
  BY <1>7 DEF Accept, AcceptFails, ReadFails, Receive, ReceiveEnd
<1>8. CASE ReadResult(p)
  BY <1>8 DEF ReadResult
<1>9. CASE RemoveScriptDir(p) \/ CloseSocketChannel(p) \/ ClearResultDir(p)
             \/ RemoveResultDir(p)
  BY <1>9 DEF RemoveScriptDir, CloseSocketChannel, ClearResultDir, RemoveResultDir
<1>10. CASE Parse(p)
  <2>1. env[p] # "raw_error"
    BY DEF Answers
  <2> QED
    BY <1>10, <2>1 DEF Parse
<1> QED
  BY <1>1, <1>2, <1>3, <1>4, <1>r, <1>5, <1>6, <1>7, <1>8, <1>9, <1>10 DEF ProberStep

\* A step of a script is no step of any call.
LEMMA ScriptExplains ==
  ASSUME NEW p \in Probers, ScriptStep(p)
  PROVE  UNCHANGED <<pc, outcome, kind, remaining, passedOver>>
  BY DEF ScriptStep, ImportsFail, Collect, CollectSilently, WriteBackFails, Connect, Send,
         SendFails, SendKills, Exits, CloseSocket, CreateTmp, WriteTmp, WriteTmpFails,
         ReplaceResult, DeleteMain, proberVars

\* A safe point passes over the script of a prober that waits only if another
\* prober holds the slot.
LEMMA LoadExplains ==
  ASSUME TypeOK, LifeCycle, PlacesHold, LoadScript, NEW q \in Probers, Outrun(q)
  PROVE  Outrun(q)'
<1>1. UNCHANGED pc
  BY DEF LoadScript, proberVars
<1>p. PICK p \in Probers : p = pending
  BY DEF LoadScript, TypeOK
<1>2. \A r \in Probers : Injected(r)' = Injected(r)
  BY <1>1 DEF Injected
<1>3. \A r \in Probers \ {q} : r = pending => Injected(r)'
  BY <1>2 DEF LifeCycle, InjectionInOrder, Injected, Early
<1>4. CASE passedOver[q]
  BY <1>2, <1>4 DEF Outrun
<1>5. CASE ~passedOver[q]
  <2>1. passedOver'[q] => pending # q
    BY <1>5 DEF LoadScript
  <2> QED
    BY <1>p, <1>3, <2>1 DEF Outrun
<1> QED
  BY <1>4, <1>5

LEMMA NextExplains ==
  ASSUME TypeOK, LifeCycle, PlacesHold, AllIsExplained, [Next]_vars, NEW q \in Probers
  PROVE  IsExplained(q)'
<1>0. Outrun(q) /\ RawErrorIsLate(q) /\ KindIsChosen(q)
  BY DEF AllIsExplained, IsExplained
<1> USE DEF IsExplained
<1>1. ASSUME NEW p \in Probers, Start(p) PROVE IsExplained(q)'
  BY <1>0, <1>1 DEF Start, At, Goto, TypeOK, targetVars, Outrun, RawErrorIsLate, KindIsChosen,
                    Expired, Injected
<1>2. ASSUME NEW p \in Probers, Interrupt(p) PROVE IsExplained(q)'
  BY <1>0, <1>2 DEF Interrupt, Leave, Conclude, Goto, Waiting, TypeOK, targetVars, Outrun,
                    RawErrorIsLate, KindIsChosen, Expired, Injected
<1>3. CASE LoadScript
  <2>1. Outrun(q)'
    BY <1>0, <1>3, LoadExplains
  <2>2. RawErrorIsLate(q)' /\ KindIsChosen(q)'
    BY <1>0, <1>3 DEF LoadScript, proberVars, RawErrorIsLate, KindIsChosen, Expired
  <2> QED
    BY <2>1, <2>2
<1>4. CASE TargetExits
  BY <1>0, <1>4 DEF TargetExits, Exits, proberVars, Outrun, RawErrorIsLate, KindIsChosen, Expired, Injected
<1>5. CASE Tick
  <2>1. Expired(q) => Expired(q)'
    BY ExpiredStays
  <2>2. UNCHANGED <<pc, outcome, kind, passedOver>>
    BY <1>5 DEF Tick
  <2> QED
    BY <1>0, <2>1, <2>2 DEF Outrun, RawErrorIsLate, KindIsChosen, Injected
<1>6. CASE UNCHANGED vars
  BY <1>0, <1>6 DEF vars, proberVars, targetVars, Outrun, RawErrorIsLate, KindIsChosen,
                    Expired, Injected
<1>7. ASSUME NEW p \in Probers, ProberStep(p) PROVE IsExplained(q)'
  <2>0. RawErrorIsLate(p) /\ KindIsChosen(p)
    BY DEF AllIsExplained, IsExplained
  <2>1. UNCHANGED <<remaining, passedOver>>
    BY <1>7, <2>0, ProberExplains
  <2>2. /\ Injected(p) => Injected(p)'
        /\ OthersStay(p)
    BY <1>7, ProberMovesOn, ProberAlone
  <2>3. \A r \in Probers : Injected(r) => Injected(r)'
    BY <2>2 DEF OthersStay, Injected
  <2>4. Outrun(q)'
    BY <1>0, <2>1, <2>3 DEF Outrun
  <2>5. RawErrorIsLate(q)' /\ KindIsChosen(q)'
    <3>1. CASE q = p
      BY <1>7, <2>0, <3>1, ProberExplains
    <3>2. CASE q # p
      BY ONLY <1>0, <2>2, <3>2 DEF OthersStay, RawErrorIsLate, KindIsChosen, Expired
    <3> QED
      BY <3>1, <3>2
  <2> QED
    BY <2>4, <2>5
<1>8. ASSUME NEW p \in Probers, ScriptStep(p) PROVE IsExplained(q)'
  <2>1. UNCHANGED <<pc, outcome, kind, remaining, passedOver>>
    BY <1>8, ScriptExplains
  <2> QED
    BY <1>0, <2>1 DEF Outrun, RawErrorIsLate, KindIsChosen, Expired, Injected
<1> QED
  BY <1>1, <1>2, <1>3, <1>4, <1>5, <1>6, <1>7, <1>8 DEF Next

LEMMA ExplanationsHold == Spec => []AllIsExplained
<1>1. Init => AllIsExplained
  BY DEF Init, AllIsExplained, IsExplained, Outrun, RawErrorIsLate, KindIsChosen
<1>2. TypeOK /\ LifeCycle /\ PlacesHold /\ AllIsExplained /\ [Next]_vars => AllIsExplained'
  BY NextExplains DEF AllIsExplained
<1> QED
  BY <1>1, <1>2, WholeHolds, TypeCorrect, LifeCycleHolds, PTL DEF Spec

\* sys.remote_exec keeps one script: a safe point leaves a waiting prober with
\* its script not begun only where another call injected into the same target
\* too. (A timeout that names no safe point has a second cause, which is left
\* out here: a script that was begun and is slow.)
THEOREM PassedOverMeansOutrun == Spec => [](\A p \in Probers : Outrun(p))
<1>1. AllIsExplained => \A p \in Probers : Outrun(p)
  BY DEF AllIsExplained, IsExplained
<1> QED
  BY <1>1, ExplanationsHold, PTL

\* "Every failure mode surfaces as a subclass of ProbeError" (_errors.py): so it
\* does with a deadline that passes, where the socket is not allowed.
THEOREM PolledExpiryIsATimeout ==
  ASSUME TRUE \notin AllowSocket
  PROVE  Spec => []ExpiryIsATimeout
<1>1. AllIsExplained => ExpiryIsATimeout
  BY DEF AllIsExplained, IsExplained, RawErrorIsLate, KindIsChosen, ExpiryIsATimeout
<1> QED
  BY <1>1, ExplanationsHold, PTL

\* ... and where it is allowed, an error of another kind needs a spent budget.
THEOREM RawErrorsAreLate == Spec => [](\A p \in Probers : RawErrorIsLate(p))
<1>1. AllIsExplained => \A p \in Probers : RawErrorIsLate(p)
  BY DEF AllIsExplained, IsExplained
<1> QED
  BY <1>1, ExplanationsHold, PTL

\* ReturnChannel.close "removes the temporary directory": a call that the code
\* gives no reason to leave the socket leaves nothing behind, whatever else
\* fails and however late its script runs.
THEOREM SocketLeavesNothing ==
  ASSUME AllowSocket = {TRUE}, Faults \cap {"no_socket", "socket_call", "disk"} = {}
  PROVE  Spec => []NothingLeftBehind
<1>1. FallbackReasons = {}
  BY DEF FallbackReasons
<1>2. TypeOK /\ PlacesHold /\ AllIsExplained => NothingLeftBehind
  <2> SUFFICES ASSUME TypeOK, PlacesHold, AllIsExplained, NEW p \in Probers, pc[p] = "done"
               PROVE  dirs[p] = {}
    BY DEF NothingLeftBehind
  <2>1. kind[p] # "tempfile" /\ PlacesInOrder(p)
    BY <1>1 DEF AllIsExplained, IsExplained, KindIsChosen, PlacesHold
  <2>2. dirs[p] \subseteq {"socket", "result", "script"}
    BY DEF TypeOK
  <2>3. "result" \notin dirs[p] /\ "script" \notin dirs[p] /\ "socket" \notin dirs[p]
    BY <2>1 DEF PlacesInOrder, Waiting
  <2> QED
    BY <2>2, <2>3
<1> QED
  BY <1>2, ExplanationsHold, WholeHolds, TypeCorrect, PTL

---------------------------------------------------------------------------
(* Why the calls return and the scripts end                                  *)
(*                                                                           *)
(* EveryCallReturns and TargetIsReleased need fairness, which is TLC's to    *)
(* check. What is behind them is not: each step of a call whose budget is    *)
(* spent, and each step of a script, takes it nearer to its end, and nothing *)
(* that anybody else does takes it back.                                     *)

\* The steps an expired call has left, at most.
StepsLeft(p) ==
  CASE pc[p] = "idle" -> 12
    [] pc[p] = "open" -> 11
    [] pc[p] = "write_script" -> 10
    [] pc[p] = "remote_exec" -> 9
    [] pc[p] = "arm" -> 8
    [] pc[p] \in {"wait", "read"} -> 7
    [] pc[p] \in {"check", "expiry"} -> 6
    [] pc[p] = "rm_script" -> 5
    [] pc[p] = "close" -> 4
    [] pc[p] = "rmdir" -> 3
    [] pc[p] = "parse" -> 2
    [] pc[p] = "done" -> 0

\* The steps a script has left, at most: one for each piece and a few around.
WorkLeft(p) ==
  CASE step[p] = "none" -> Pieces + 7
    [] step[p] = "collect" -> Pieces + 6
    [] step[p] = "connect" -> Pieces + 4
    [] step[p] = "send" -> Pieces + 3 - sent[p]
    [] step[p] = "create" -> 5
    [] step[p] = "write" -> 3
    [] step[p] \in {"close", "replace"} -> 2
    [] step[p] = "del_main" -> 1
    [] step[p] = "done" -> 0

\* Where a call goes from each place once its budget is spent: from its check,
\* its wait or its poll to the clean-up.
ExpiredRoute ==
  { <<"open", "write_script">>, <<"open", "done">>,
    <<"write_script", "remote_exec">>, <<"write_script", "rm_script">>,
    <<"write_script", "close">>,
    <<"remote_exec", "check">>, <<"remote_exec", "read">>, <<"remote_exec", "rm_script">>,
    <<"arm", "wait">>, <<"arm", "rm_script">>,
    <<"wait", "check">>, <<"wait", "rm_script">>, <<"check", "rm_script">>,
    <<"read", "expiry">>, <<"read", "rm_script">>, <<"expiry", "rm_script">>,
    <<"rm_script", "close">>,
    <<"close", "rmdir">>, <<"close", "parse">>, <<"close", "done">>,
    <<"rmdir", "parse">>, <<"rmdir", "done">>, <<"parse", "done">> }

LEMMA ExpiredMoves ==
  ASSUME TypeOK, NEW p \in Probers, Expired(p), ProberStep(p) \/ Interrupt(p)
  PROVE  <<pc[p], pc'[p]>> \in ExpiredRoute
<1>0. pc \in [Probers -> Locations]
  BY DEF TypeOK
<1> USE <1>0 DEF At, Goto, Leave, Waiting, ExpiredRoute
<1>1. CASE OpenSocket(p)
  BY <1>1 DEF OpenSocket
<1>2. CASE OpenTempFile(p) \/ OpenFails(p)
  BY <1>2 DEF OpenTempFile, OpenFails
<1>3. CASE WriteScript(p) \/ WriteScriptFails(p)
  BY <1>3 DEF WriteScript, WriteScriptFails
<1>4. CASE RemoteExec(p) \/ RemoteExecFails(p)
  BY <1>4 DEF RemoteExec, RemoteExecFails
<1>5. CASE CheckBudget(p) \/ ArmTimeout(p)
  BY <1>5 DEF CheckBudget, ArmTimeout
<1>6. CASE Accept(p) \/ AcceptFails(p) \/ ReadFails(p) \/ Receive(p) \/ ReceiveEnd(p) \/ WaitTimesOut(p)
  BY <1>6 DEF Accept, AcceptFails, ReadFails, Receive, ReceiveEnd, WaitTimesOut
<1>7. CASE ReadResult(p) \/ PollAgain(p)
  BY <1>7 DEF ReadResult, PollAgain
<1>8. CASE RemoveScriptDir(p) \/ ClearResultDir(p) \/ Parse(p)
  BY <1>8 DEF RemoveScriptDir, ClearResultDir, Parse
<1>9. CASE CloseSocketChannel(p) \/ RemoveResultDir(p)
  BY <1>9 DEF CloseSocketChannel, RemoveResultDir, AfterClose
<1>10. CASE Interrupt(p)
  BY <1>10 DEF Interrupt
<1> QED
  BY <1>1, <1>2, <1>3, <1>4, <1>5, <1>6, <1>7, <1>8, <1>9, <1>10 DEF ProberStep

LEMMA RouteShortens ==
  ASSUME NEW p \in Probers, <<pc[p], pc'[p]>> \in ExpiredRoute
  PROVE  StepsLeft(p)' < StepsLeft(p)
  BY DEF ExpiredRoute, StepsLeft

\* An expired call stays expired, its own steps take it nearer to its return,
\* and no other step takes it back.
RunsDown(p) ==
  Expired(p) =>
    /\ Expired(p)'
    /\ StepsLeft(p)' <= StepsLeft(p)
    /\ ProberStep(p) \/ Interrupt(p) => StepsLeft(p)' < StepsLeft(p)

LEMMA NextRunsDown ==
  ASSUME TypeOK, LifeCycle, TypeOK', [Next]_vars, NEW q \in Probers, Expired(q)
  PROVE  RunsDown(q)
<1>0. StepsLeft(q) \in Int /\ StepsLeft(q)' \in Int
  <2>1. pc[q] \in Locations /\ pc'[q] \in Locations
    BY DEF TypeOK
  <2>2. StepsLeft(q) \in Int
    BY ONLY <2>1 DEF Locations, Waiting, StepsLeft
  <2>3. StepsLeft(q)' \in Int
    BY ONLY <2>1 DEF Locations, Waiting, StepsLeft
  <2> QED
    BY <2>2, <2>3
<1>1. Expired(q)'
  BY ExpiredStays
<1>2. CASE ProberStep(q) \/ Interrupt(q)
  <2>1. StepsLeft(q)' < StepsLeft(q)
    BY <1>2, ExpiredMoves, RouteShortens
  <2> QED
    BY ONLY <1>0, <1>1, <2>1 DEF RunsDown
<1>3. CASE ~ProberStep(q) /\ ~Interrupt(q)
  <2>1. pc'[q] = pc[q] \/ (pc[q] = "idle" /\ pc'[q] = "open")
    <3>1. ASSUME NEW p \in Probers, Start(p)
          PROVE  pc'[q] = pc[q] \/ (pc[q] = "idle" /\ pc'[q] = "open")
      BY <3>1 DEF Start, At, Goto, TypeOK
    <3>2. ASSUME NEW p \in Probers \ {q}, ProberStep(p) PROVE pc'[q] = pc[q]
      BY <3>2, ProberAlone DEF OthersStay
    <3>3. ASSUME NEW p \in Probers \ {q}, Interrupt(p) PROVE pc'[q] = pc[q]
      BY <3>3 DEF Interrupt, Leave, Goto, TypeOK
    <3>4. ASSUME NEW p \in Probers, ScriptStep(p) PROVE pc'[q] = pc[q]
      BY <3>4, ScriptFrame
    <3>5. CASE LoadScript \/ TargetExits \/ Tick \/ UNCHANGED vars
      BY <3>5 DEF LoadScript, TargetExits, Exits, Tick, vars, proberVars
    <3> QED
      BY <1>3, <3>1, <3>2, <3>3, <3>4, <3>5 DEF Next
  <2>2. CASE pc'[q] = pc[q]
    <3>1. StepsLeft(q)' = StepsLeft(q)
      BY <2>2 DEF StepsLeft
    <3> QED
      BY ONLY <1>0, <1>1, <1>3, <3>1 DEF RunsDown
  <2>3. CASE pc[q] = "idle" /\ pc'[q] = "open"
    <3>1. StepsLeft(q) = 12 /\ StepsLeft(q)' = 11
      BY <2>3 DEF StepsLeft
    <3> QED
      BY ONLY <1>1, <1>3, <3>1 DEF RunsDown
  <2> QED
    BY <2>1, <2>2, <2>3
<1> QED
  BY <1>2, <1>3

\* "One probe can never exceed the budget" (execute_in_target): once the budget
\* of a call is spent it stays spent, every further step of the call brings it
\* nearer to its return - it polls, checks or waits no more than once - and no
\* step of the target or of another call sends it back.
THEOREM ExpiredCallsRunDown == Spec => [][\A p \in Probers : RunsDown(p)]_vars
<1>1. TypeOK /\ LifeCycle /\ TypeOK' /\ [Next]_vars => [\A p \in Probers : RunsDown(p)]_vars
  BY NextRunsDown DEF RunsDown
<1> QED
  BY <1>1, TypeCorrect, LifeCycleHolds, PTL DEF Spec

\* Each step of a script does some of its work.
LEMMA ScriptWorks ==
  ASSUME TypeOK, LifeCycle, NEW p \in Probers, ScriptStep(p)
  PROVE  WorkLeft(p)' < WorkLeft(p)
<1>0. /\ step \in [Probers -> Running \cup {"none", "done"}]
      /\ sent \in [Probers -> 0..Pieces]
      /\ Pieces \in Nat \ {0}
  BY PieceAssumption DEF TypeOK
<1>s. step[p] = "send" => sent[p] < Pieces
  BY DEF LifeCycle, AnswerInOrder
<1> USE <1>0 DEF AtStep, Advance, EndMain, Finish
<1>1. CASE Collect(p) \/ CollectSilently(p) \/ ImportsFail(p)
  <2>1. step[p] = "collect" /\ step'[p] \in {"connect", "create", "del_main"}
    BY <1>1 DEF Collect, Statuses, CollectSilently, ImportsFail, WriteBackEntry
  <2> QED
    BY ONLY <1>0, <2>1 DEF WorkLeft
<1>2. CASE Connect(p)
  <2>1. /\ step[p] = "connect" /\ step'[p] \in {"send", "del_main"}
        /\ sent'[p] = sent[p]
    BY <1>2 DEF Connect
  <2> QED
    BY ONLY <1>0, <2>1 DEF WorkLeft
<1>3. CASE WriteBackFails(p) \/ CreateTmp(p)
  <2>1. \/ step[p] = "connect" /\ step'[p] = "del_main"
        \/ step[p] = "create" /\ step'[p] \in {"write", "del_main"}
    BY <1>3 DEF WriteBackFails, CreateTmp
  <2> QED
    BY ONLY <1>0, <2>1 DEF WorkLeft
<1>4. CASE Send(p)
  <2>1. /\ step[p] = "send" /\ sent'[p] = sent[p] + 1
        /\ step'[p] = IF sent[p] + 1 = Pieces THEN "close" ELSE "send"
    BY <1>4 DEF Send
  <2> QED
    BY ONLY <1>0, <1>s, <2>1 DEF WorkLeft
<1>5. CASE SendFails(p) \/ SendKills(p)
  <2>1. step[p] = "send" /\ step'[p] \in {"del_main", "done"}
    BY <1>5 DEF SendFails, SendKills, Exits, Running
  <2> QED
    BY ONLY <1>0, <2>1 DEF WorkLeft
<1>6. CASE WriteTmp(p) \/ WriteTmpFails(p)
  <2>1. step[p] = "write" /\ step'[p] \in {"replace", "del_main"}
    BY <1>6 DEF WriteTmp, WriteTmpFails
  <2> QED
    BY ONLY <1>0, <2>1 DEF WorkLeft
<1>7. CASE CloseSocket(p) \/ ReplaceResult(p)
  <2>1. step[p] \in {"close", "replace"} /\ step'[p] = "del_main"
    BY <1>7 DEF CloseSocket, ReplaceResult
  <2> QED
    BY ONLY <1>0, <2>1 DEF WorkLeft
<1>8. CASE DeleteMain(p)
  <2>1. step[p] = "del_main" /\ step'[p] = "done"
    BY <1>8 DEF DeleteMain
  <2> QED
    BY ONLY <1>0, <2>1 DEF WorkLeft
<1> QED
  BY <1>1, <1>2, <1>3, <1>4, <1>5, <1>6, <1>7, <1>8 DEF ScriptStep

\* Nobody else gives a script work or takes it back: it is begun, ended by the
\* exit of its target, or left alone.
LEMMA OthersWork ==
  ASSUME TypeOK, LifeCycle, [Next]_vars, NEW q \in Probers, ~ScriptStep(q)
  PROVE  \/ step'[q] = step[q] /\ sent'[q] = sent[q]
         \/ step[q] = "none" /\ step'[q] = "collect"
         \/ step[q] \in Running /\ step'[q] = "done"
<1>1. ASSUME NEW p \in Probers, Start(p) \/ Interrupt(p)
      PROVE  step'[q] = step[q] /\ sent'[q] = sent[q]
  BY <1>1 DEF Start, Interrupt, sockVars, targetVars
<1>2. ASSUME NEW p \in Probers, ProberStep(p)
      PROVE  step'[q] = step[q] /\ sent'[q] = sent[q]
  BY <1>2 DEF ProberStep, OpenSocket, OpenTempFile, OpenFails, WriteScript, WriteScriptFails,
     RemoteExec, RemoteExecFails, CheckBudget, ArmTimeout, Accept, AcceptFails, ReadFails, Receive,
     ReceiveEnd, WaitTimesOut, ReadResult, PollAgain, RemoveScriptDir, CloseSocketChannel,
     ClearResultDir, RemoveResultDir, Parse, fsVars, sockVars, targetVars
<1>3. CASE Exits
  BY <1>3 DEF Exits, TypeOK
<1>4. ASSUME NEW p \in Probers \ {q}, ScriptStep(p), ~SendKills(p)
      PROVE  step'[q] = step[q] /\ sent'[q] = sent[q]
  BY <1>4, ScriptAlone DEF OthersStay
<1>5. CASE LoadScript
  <2>1. step[pending] = "none"
    BY <1>5 DEF LoadScript, TypeOK, LifeCycle, InjectionInOrder
  <2> QED
    BY <1>5, <2>1 DEF LoadScript, TypeOK, sockVars
<1>6. CASE Tick \/ UNCHANGED vars
  BY <1>6 DEF Tick, vars, sockVars, targetVars
<1> QED
  BY <1>1, <1>2, <1>3, <1>4, <1>5, <1>6 DEF Next, TargetExits, SendKills

\* Each step of a script lessens its work, and no other step adds to it.
WorksOn(p) ==
  /\ WorkLeft(p)' <= WorkLeft(p)
  /\ ScriptStep(p) => WorkLeft(p)' < WorkLeft(p)

LEMMA NextWorksOn ==
  ASSUME TypeOK, LifeCycle, TypeOK', [Next]_vars, NEW q \in Probers
  PROVE  WorksOn(q)
<1>0. /\ step[q] \in Running \cup {"none", "done"} /\ step'[q] \in Running \cup {"none", "done"}
      /\ sent[q] \in 0..Pieces /\ sent'[q] \in 0..Pieces
      /\ Pieces \in Nat \ {0}
  BY PieceAssumption DEF TypeOK
<1>1. WorkLeft(q) \in Int /\ WorkLeft(q)' \in Int
  BY ONLY <1>0 DEF Running, WorkLeft
<1>2. CASE ScriptStep(q)
  BY <1>1, <1>2, ScriptWorks DEF WorksOn
<1>3. CASE ~ScriptStep(q)
  <2>1. WorkLeft(q)' <= WorkLeft(q)
    <3>1. CASE step'[q] = step[q] /\ sent'[q] = sent[q]
      <4>1. WorkLeft(q)' = WorkLeft(q)
        BY <3>1 DEF WorkLeft
      <4> QED
        BY ONLY <1>1, <4>1
    <3>2. CASE step[q] = "none" /\ step'[q] = "collect"
      BY ONLY <1>0, <3>2 DEF WorkLeft
    <3>3. CASE step[q] \in Running /\ step'[q] = "done"
      BY ONLY <1>0, <3>3 DEF Running, WorkLeft
    <3> QED
      BY <1>3, <3>1, <3>2, <3>3, OthersWork
  <2> QED
    BY <1>3, <2>1 DEF WorksOn
<1> QED
  BY <1>2, <1>3

\* "A stuck channel cannot block the target forever" (_inject.py): a script makes
\* at most Pieces + 6 steps, whatever its prober and other scripts do meanwhile,
\* so only a sendall that waits can hold the target, and that has a timeout.
THEOREM ScriptsRunDown == Spec => [][\A p \in Probers : WorksOn(p)]_vars
<1>1. TypeOK /\ LifeCycle /\ TypeOK' /\ [Next]_vars => [\A p \in Probers : WorksOn(p)]_vars
  BY NextWorksOn
<1> QED
  BY <1>1, TypeCorrect, LifeCycleHolds, PTL DEF Spec
===========================================================================
