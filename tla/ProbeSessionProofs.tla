------------------------ MODULE ProbeSessionProofs ------------------------
(***************************************************************************)
(* Proofs about ProbeSession, for every set of probers, budget, envelope      *)
(* length, buffer size and set of faults.                                    *)
(***************************************************************************)
EXTENDS ProbeSession, TLAPS

\* The initial states are well typed.
LEMMA InitType == Init => TypeOK
  BY BudgetAssumption, PieceAssumption DEF Init, TypeOK, Locations, Waiting

\* What Leave and Goto do to the types, once for all the actions that use them.
LEMMA LeaveKeepsTypes ==
  ASSUME TypeOK, NEW p \in Probers, NEW what \in {"none"} \cup Answers \cup Failures,
         Leave(p, what),
         UNCHANGED <<remaining, kind, fsVars, listening, sent, rcvd, eof, targetVars>>
  PROVE  TypeOK'
<1>1. pc' \in [Probers -> Locations]
  <2>1. "rm_script" \in Locations
    BY DEF Locations
  <2> QED
    BY <2>1 DEF TypeOK, Leave, Goto
<1>2. outcome' \in [Probers -> {"none"} \cup Answers \cup Failures]
  BY DEF TypeOK, Leave, Conclude
<1>3. conn' \in [Probers -> {"none", "queued", "accepted", "closed"}]
  <2>1. conn \in [Probers -> {"none", "queued", "accepted", "closed"}]
    BY DEF TypeOK
  <2>2. conn' = [conn EXCEPT ![p] = IF @ = "accepted" THEN "closed" ELSE @]
    BY DEF Leave
  <2> QED
    BY ONLY <2>1, <2>2
<1> QED
  BY <1>1, <1>2, <1>3 DEF TypeOK, fsVars, targetVars

LEMMA GotoType ==
  ASSUME TypeOK, NEW p \in Probers, NEW there \in Locations, Goto(p, there)
  PROVE  pc' \in [Probers -> Locations]
  BY DEF TypeOK, Goto

LEMMA GotoKeepsTypes ==
  ASSUME TypeOK, NEW p \in Probers, NEW there \in Locations, Goto(p, there),
         UNCHANGED <<outcome, remaining, kind, fsVars, sockVars, targetVars>>
  PROVE  TypeOK'
<1>1. pc' \in [Probers -> Locations]
  BY GotoType
<1> QED
  BY <1>1 DEF TypeOK, fsVars, sockVars, targetVars

\* A step of a prober keeps the types.
LEMMA ProberType ==
  ASSUME TypeOK, LifeCycle, NEW p \in Probers, ProberStep(p)
  PROVE  TypeOK'
<1>0. /\ Locations = {"check", "arm", "wait", "read", "expiry", "idle", "open",
                      "write_script", "remote_exec", "rm_script", "close", "rmdir",
                      "parse", "done"}
      /\ {"none"} \cup Answers \cup Failures
           = {"none", "ok", "error", "timeout", "attach_error", "no_process",
              "channel_error", "interrupted", "os_error", "raw_error"}
  BY DEF Locations, Waiting, Answers, Failures
<1>1. CASE OpenSocket(p)
  <2>1. pc' \in [Probers -> Locations]
    BY <1>0, <1>1, GotoType DEF OpenSocket
  <2>2. /\ kind' \in [Probers -> {"none", "unix_socket", "tempfile"}]
        /\ dirs' \in [Probers -> SUBSET {"socket", "result", "script"}]
        /\ listening' \in [Probers -> BOOLEAN]
    BY <1>1 DEF OpenSocket, TypeOK
  <2> QED
    BY <1>1, <2>1, <2>2 DEF OpenSocket, TypeOK, targetVars
<1>2. CASE OpenTempFile(p)
  <2>1. pc' \in [Probers -> Locations]
    BY <1>0, <1>2, GotoType DEF OpenTempFile
  <2>2. kind' \in [Probers -> {"none", "unix_socket", "tempfile"}]
    BY <1>2 DEF OpenTempFile, TypeOK
  <2>3. dirs' \in [Probers -> SUBSET {"socket", "result", "script"}]
    BY <1>2 DEF OpenTempFile, AbandonedBy, TypeOK
  <2> QED
    BY <1>2, <2>1, <2>2, <2>3 DEF OpenTempFile, TypeOK, sockVars, targetVars
<1>3. CASE OpenFails(p)
  <2>1. pc' \in [Probers -> Locations]
    BY <1>0, <1>3, GotoType DEF OpenFails
  <2>2. outcome' \in [Probers -> {"none"} \cup Answers \cup Failures]
    BY <1>0, <1>3 DEF OpenFails, Conclude, TypeOK
  <2>3. dirs' \in [Probers -> SUBSET {"socket", "result", "script"}]
    BY <1>3 DEF OpenFails, AbandonedBy, TypeOK
  <2> QED
    BY <1>3, <2>1, <2>2, <2>3 DEF OpenFails, TypeOK, sockVars, targetVars
<1>4. CASE WriteScript(p)
  <2>1. pc' \in [Probers -> Locations]
    BY <1>0, <1>4, GotoType DEF WriteScript
  <2>2. dirs' \in [Probers -> SUBSET {"socket", "result", "script"}]
    BY <1>4 DEF WriteScript, TypeOK
  <2>3. files' \in [Probers -> SUBSET {"script", "tmp", "result"}]
    BY <1>4 DEF WriteScript, TypeOK
  <2> QED
    BY <1>4, <2>1, <2>2, <2>3 DEF WriteScript, TypeOK, sockVars, targetVars
<1>5. CASE WriteScriptFails(p)
  <2>1. pc' \in [Probers -> Locations]
    BY <1>0, <1>5, GotoType DEF WriteScriptFails
  <2>2. outcome' \in [Probers -> {"none"} \cup Answers \cup Failures]
    BY <1>0, <1>5 DEF WriteScriptFails, Conclude, TypeOK
  <2>3. dirs' \in [Probers -> SUBSET {"socket", "result", "script"}]
    <3>1. \/ UNCHANGED dirs
          \/ dirs' = [dirs EXCEPT ![p] = @ \cup {"script"}]
      BY <1>5 DEF WriteScriptFails
    <3>2. dirs \in [Probers -> SUBSET {"socket", "result", "script"}]
      BY DEF TypeOK
    <3>3. CASE dirs' = [dirs EXCEPT ![p] = @ \cup {"script"}]
      BY ONLY <3>2, <3>3
    <3> QED
      BY <3>1, <3>2, <3>3
  <2> QED
    BY <1>5, <2>1, <2>2, <2>3 DEF WriteScriptFails, TypeOK, sockVars, targetVars
<1>6. CASE RemoteExec(p)
  <2>1. pc' \in [Probers -> Locations]
    BY <1>0, <1>6, GotoType DEF RemoteExec
  <2> QED
    BY <1>6, <2>1 DEF RemoteExec, TypeOK, fsVars, sockVars
<1>7. CASE RemoteExecFails(p)
  <2>1. PICK failure \in AttachFailures : Leave(p, failure)
    BY <1>7 DEF RemoteExecFails
  <2>2. failure \in {"none"} \cup Answers \cup Failures
    BY <1>0 DEF AttachFailures
  <2> QED
    BY <1>7, <2>1, <2>2, LeaveKeepsTypes DEF RemoteExecFails
<1>8. CASE CheckBudget(p)
  <2>1. CASE Expired(p)
    BY <1>0, <1>8, <2>1, LeaveKeepsTypes DEF CheckBudget
  <2>2. CASE ~Expired(p)
    BY <1>0, <1>8, <2>2, GotoKeepsTypes DEF CheckBudget, sockVars
  <2> QED
    BY <2>1, <2>2
<1>9. CASE ArmTimeout(p)
  <2>1. CASE ArmRaises(p)
    BY <1>0, <1>9, <2>1, LeaveKeepsTypes DEF ArmTimeout
  <2>2. CASE ~ArmRaises(p)
    BY <1>0, <1>9, <2>2, GotoKeepsTypes DEF ArmTimeout, sockVars
  <2> QED
    BY <2>1, <2>2
<1>10. CASE Accept(p)
  <2>1. pc' \in [Probers -> Locations]
    BY <1>0, <1>10, GotoType DEF Accept
  <2>2. conn' \in [Probers -> {"none", "queued", "accepted", "closed"}]
    BY <1>10 DEF Accept, TypeOK
  <2> QED
    BY <1>10, <2>1, <2>2 DEF Accept, TypeOK, fsVars, targetVars
<1>11. CASE AcceptFails(p) \/ ReadFails(p)
  BY <1>0, <1>11, LeaveKeepsTypes DEF AcceptFails, ReadFails
<1>12. CASE Receive(p)
  <2>1. PICK n \in 1..InFlight(p) : rcvd' = [rcvd EXCEPT ![p] = @ + n]
    BY <1>12 DEF Receive
  <2>2. /\ Pieces \in Nat /\ rcvd \in [Probers -> 0..Pieces]
        /\ sent[p] \in 0..Pieces /\ rcvd[p] \in 0..Pieces
    BY PieceAssumption DEF TypeOK
  <2>3. rcvd[p] + n \in 0..Pieces
    BY ONLY <2>1, <2>2 DEF InFlight
  <2>4. rcvd' \in [Probers -> 0..Pieces]
    BY ONLY <2>1, <2>2, <2>3
  <2>5. pc' \in [Probers -> Locations]
    BY <1>0, <1>12, GotoType DEF Receive
  <2> QED
    BY <1>12, <2>4, <2>5 DEF Receive, TypeOK, fsVars, targetVars
<1>13. CASE ReceiveEnd(p)
  <2>1. CASE rcvd[p] = 0
    BY <1>0, <1>13, <2>1, LeaveKeepsTypes DEF ReceiveEnd
  <2>2. CASE rcvd[p] # 0
    BY <1>0, <1>13, <2>2, LeaveKeepsTypes DEF ReceiveEnd
  <2> QED
    BY <2>1, <2>2
<1>14. CASE WaitTimesOut(p)
  BY <1>0, <1>14, LeaveKeepsTypes DEF WaitTimesOut
<1>15. CASE ReadResult(p)
  <2>1. CASE Answered(p)
    <3>1. sent[p] \in 0..Pieces /\ rcvd \in [Probers -> 0..Pieces]
      BY DEF TypeOK
    <3>2. rcvd' = [rcvd EXCEPT ![p] = sent[p]]
      BY <1>15, <2>1 DEF ReadResult
    <3>3. rcvd' \in [Probers -> 0..Pieces]
      BY ONLY <3>1, <3>2
    <3>4. /\ pc' = [pc EXCEPT ![p] = "rm_script"]
          /\ outcome' = [outcome EXCEPT ![p] = "none"]
          /\ conn' = [conn EXCEPT ![p] = IF @ = "accepted" THEN "closed" ELSE @]
      BY <1>15, <2>1 DEF ReadResult, Leave, Conclude, Goto
    <3>5. /\ pc' \in [Probers -> Locations]
          /\ outcome' \in [Probers -> {"none"} \cup Answers \cup Failures]
      BY <1>0, <3>4 DEF TypeOK
    <3>6. conn' \in [Probers -> {"none", "queued", "accepted", "closed"}]
      BY <3>4 DEF TypeOK
    <3> QED
      BY <1>15, <3>3, <3>5, <3>6 DEF ReadResult, TypeOK, fsVars, targetVars
  <2>2. CASE ~Answered(p)
    BY <1>0, <1>15, <2>2, GotoKeepsTypes DEF ReadResult, sockVars
  <2> QED
    BY <2>1, <2>2
<1>16. CASE PollAgain(p)
  <2>1. CASE Expired(p)
    BY <1>0, <1>16, <2>1, LeaveKeepsTypes DEF PollAgain
  <2>2. CASE ~Expired(p)
    BY <1>0, <1>16, <2>2, GotoKeepsTypes DEF PollAgain, sockVars
  <2> QED
    BY <2>1, <2>2
<1>17. CASE RemoveScriptDir(p)
  <2>1. pc' \in [Probers -> Locations]
    BY <1>0, <1>17, GotoType DEF RemoveScriptDir
  <2>2. dirs' \in [Probers -> SUBSET {"socket", "result", "script"}]
    BY <1>17 DEF RemoveScriptDir, TypeOK
  <2>3. files' \in [Probers -> SUBSET {"script", "tmp", "result"}]
    BY <1>17 DEF RemoveScriptDir, TypeOK
  <2> QED
    BY <1>17, <2>1, <2>2, <2>3 DEF RemoveScriptDir, TypeOK, sockVars, targetVars
<1>18. CASE CloseSocketChannel(p)
  <2>1. pc' \in [Probers -> Locations]
    BY <1>0, <1>18, GotoType DEF CloseSocketChannel, AfterClose
  <2>2. /\ listening' \in [Probers -> BOOLEAN]
        /\ dirs' \in [Probers -> SUBSET {"socket", "result", "script"}]
    BY <1>18 DEF CloseSocketChannel, TypeOK
  <2>3. conn' \in [Probers -> {"none", "queued", "accepted", "closed"}]
    BY <1>18 DEF CloseSocketChannel, TypeOK
  <2> QED
    BY <1>18, <2>1, <2>2, <2>3 DEF CloseSocketChannel, TypeOK, targetVars
<1>19. CASE ClearResultDir(p)
  <2>1. pc' \in [Probers -> Locations]
    BY <1>0, <1>19, GotoType DEF ClearResultDir
  <2>2. files' \in [Probers -> SUBSET {"script", "tmp", "result"}]
    BY <1>19 DEF ClearResultDir, TypeOK
  <2> QED
    BY <1>19, <2>1, <2>2 DEF ClearResultDir, TypeOK, sockVars, targetVars
<1>20. CASE RemoveResultDir(p)
  <2>1. pc' \in [Probers -> Locations]
    BY <1>0, <1>20, GotoType DEF RemoveResultDir, AfterClose
  <2>2. dirs' \in [Probers -> SUBSET {"socket", "result", "script"}]
    BY <1>20 DEF RemoveResultDir, TypeOK
  <2> QED
    BY <1>20, <2>1, <2>2 DEF RemoveResultDir, TypeOK, sockVars, targetVars
<1>21. CASE Parse(p)
  <2>1. pc' \in [Probers -> Locations]
    BY <1>0, <1>21, GotoType DEF Parse
  <2>2. outcome' \in [Probers -> {"none"} \cup Answers \cup Failures]
    <3>1. /\ env[p] \in {"none"} \cup Answers \cup Failures
          /\ "channel_error" \in {"none"} \cup Answers \cup Failures
      BY <1>0 DEF TypeOK
    <3> QED
      BY <1>21, <3>1 DEF Parse, Conclude, TypeOK
  <2> QED
    BY <1>21, <2>1, <2>2 DEF Parse, TypeOK, fsVars, sockVars, targetVars
<1> QED
  BY <1>1, <1>2, <1>3, <1>4, <1>5, <1>6, <1>7, <1>8, <1>9, <1>10, <1>11, <1>12,
     <1>13, <1>14, <1>15, <1>16, <1>17, <1>18, <1>19, <1>20, <1>21 DEF ProberStep

\* The end of the target keeps the types.
LEMMA ExitType == TypeOK /\ Exits => TypeOK'
<1> SUFFICES ASSUME TypeOK, Exits  PROVE TypeOK'
  OBVIOUS
<1>1. step' \in [Probers -> Running \cup {"none", "done"}]
  BY DEF TypeOK, Exits
<1>2. eof' \in [Probers -> BOOLEAN]
  BY Zenon DEF Exits
<1>3. << >> \in Seq(Probers)
  OBVIOUS
<1>4. sendLeft' \in [Probers -> 0..Budget]
  BY BudgetAssumption DEF Exits
<1> QED
  BY <1>1, <1>2, <1>3, <1>4 DEF TypeOK, Exits, proberVars, fsVars

\* What Advance and Finish do to the types.
LEMMA AdvanceTypes ==
  ASSUME TypeOK, NEW p \in Probers, NEW there \in Running, Advance(p, there)
  PROVE  /\ step' \in [Probers -> Running \cup {"none", "done"}]
         /\ stack' \in Seq(Probers)
  BY DEF TypeOK, Advance

LEMMA FinishTypes ==
  ASSUME TypeOK, NEW p \in Probers, Top(p), EndMain(p) \/ Finish(p)
  PROVE  /\ step' \in [Probers -> Running \cup {"none", "done"}]
         /\ stack' \in Seq(Probers)
<1>1. step' \in [Probers -> Running \cup {"none", "done"}]
  BY DEF TypeOK, EndMain, Advance, Finish, Running
<1>2. stack \in Seq(Probers) /\ stack # << >> /\ (stack' = Tail(stack) \/ stack' = stack)
  BY DEF TypeOK, EndMain, Advance, Finish, Top
<1>3. stack' \in Seq(Probers)
  BY ONLY <1>2
<1> QED
  BY <1>1, <1>3

\* A script that ends and changes nothing else.
LEMMA FinishKeepsTypes ==
  ASSUME TypeOK, NEW p \in Probers, Top(p), EndMain(p) \/ Finish(p),
         UNCHANGED <<proberVars, fsVars, sockVars, alive, pending, env, sendLeft, passedOver>>
  PROVE  TypeOK'
<1>1. step' \in [Probers -> Running \cup {"none", "done"}] /\ stack' \in Seq(Probers)
  BY FinishTypes
<1> QED
  BY <1>1 DEF TypeOK, proberVars, fsVars, sockVars

\* A step of a script keeps the types.
LEMMA ScriptType ==
  ASSUME TypeOK, LifeCycle, NEW p \in Probers, ScriptStep(p)
  PROVE  TypeOK'
<1>0. /\ Running = {"collect", "connect", "send", "close", "create", "write", "replace",
                 "del_main"}
      /\ Pieces \in Nat /\ Budget \in Nat
  BY BudgetAssumption, PieceAssumption DEF Running
<1>1. CASE Collect(p)
  <2>1. PICK status \in Statuses : env' = [env EXCEPT ![p] = status]
    BY <1>1 DEF Collect, Statuses
  <2>2. env' \in [Probers -> {"none"} \cup Answers]
    BY <2>1 DEF TypeOK, Statuses, Answers
  <2>3. Advance(p, WriteBackEntry(p)) /\ WriteBackEntry(p) \in Running
    BY <1>0, <1>1 DEF Collect, Statuses, WriteBackEntry
  <2>4. step' \in [Probers -> Running \cup {"none", "done"}] /\ stack' \in Seq(Probers)
    BY <2>3, AdvanceTypes
  <2> QED
    BY <1>1, <2>2, <2>4 DEF Collect, Statuses, TypeOK, proberVars, fsVars, sockVars
<1>2. CASE CollectSilently(p) \/ ImportsFail(p)
  BY <1>2, FinishKeepsTypes DEF CollectSilently, ImportsFail, AtStep
<1>3. CASE WriteBackFails(p)
  BY <1>3, FinishKeepsTypes DEF WriteBackFails, AtStep
<1>4. CASE Connect(p)
  <2>1. CASE listening[p]
    <3>1. sendLeft' = [sendLeft EXCEPT ![p] = Budget] /\ Budget \in 0..Budget
      BY <1>0, <1>4, <2>1 DEF Connect, SendBudget
    <3>2. sendLeft' \in [Probers -> 0..Budget]
      BY <3>1 DEF TypeOK
    <3>3. conn' \in [Probers -> {"none", "queued", "accepted", "closed"}]
      BY <1>4, <2>1 DEF Connect, TypeOK
    <3>4. step' \in [Probers -> Running \cup {"none", "done"}] /\ stack' \in Seq(Probers)
      BY <1>0, <1>4, <2>1, AdvanceTypes DEF Connect
    <3> QED
      BY <1>4, <3>2, <3>3, <3>4 DEF Connect, TypeOK, proberVars, fsVars
  <2>2. CASE ~listening[p]
    BY <1>4, <2>2, FinishKeepsTypes DEF Connect, AtStep, sockVars
  <2> QED
    BY <2>1, <2>2
<1>5. CASE Send(p)
  <2>1. sent[p] < Pieces /\ sent \in [Probers -> 0..Pieces]
    BY <1>5 DEF Send, AtStep, LifeCycle, AnswerInOrder, TypeOK
  <2>2. sent[p] + 1 \in 0..Pieces
    BY <1>0, <2>1
  <2>3. sent' \in [Probers -> 0..Pieces]
    BY <1>5, <2>1, <2>2 DEF Send
  <2>4. step' \in [Probers -> Running \cup {"none", "done"}] /\ stack' \in Seq(Probers)
    BY <1>0, <1>5, AdvanceTypes DEF Send
  <2> QED
    BY <1>5, <2>3, <2>4 DEF Send, TypeOK, proberVars, fsVars
<1>6. CASE SendFails(p) \/ CloseSocket(p)
  <2>0. HangUp(p) /\ 0 \in 0..Budget
    BY <1>0, <1>6 DEF SendFails, CloseSocket
  <2>1. eof' \in [Probers -> BOOLEAN] /\ sendLeft' \in [Probers -> 0..Budget]
    <3>1. eof' \in [Probers -> BOOLEAN]
      BY <2>0 DEF HangUp, TypeOK
    <3>2. sendLeft' \in [Probers -> 0..Budget]
      BY <2>0 DEF HangUp, TypeOK
    <3> QED
      BY <3>1, <3>2
  <2>2. step' \in [Probers -> Running \cup {"none", "done"}] /\ stack' \in Seq(Probers)
    BY <1>6, FinishTypes DEF SendFails, CloseSocket, AtStep
  <2> QED
    BY <1>6, <2>1, <2>2 DEF SendFails, CloseSocket, TypeOK, proberVars, fsVars
<1>7. CASE SendKills(p)
  BY <1>7, ExitType DEF SendKills
<1>8. CASE CreateTmp(p)
  <2>1. CASE "result" \in dirs[p]
    <3>1. files' = [files EXCEPT ![p] = @ \cup {"tmp"}]
      BY <1>8, <2>1 DEF CreateTmp
    <3>2. files' \in [Probers -> SUBSET {"script", "tmp", "result"}]
      BY <3>1 DEF TypeOK
    <3>3. step' \in [Probers -> Running \cup {"none", "done"}] /\ stack' \in Seq(Probers)
      BY <1>0, <1>8, <2>1, AdvanceTypes DEF CreateTmp
    <3> QED
      BY <1>8, <3>2, <3>3 DEF CreateTmp, TypeOK, proberVars, sockVars
  <2>2. CASE "result" \notin dirs[p]
    BY <1>8, <2>2, FinishKeepsTypes DEF CreateTmp, AtStep, fsVars
  <2> QED
    BY <2>1, <2>2
<1>9. CASE WriteTmp(p)
  <2>1. PICK n \in WriteLengths : sent' = [sent EXCEPT ![p] = n]
    BY <1>9 DEF WriteTmp
  <2>2. n \in 0..Pieces
    BY <1>0, <2>1 DEF WriteLengths
  <2>3. sent' \in [Probers -> 0..Pieces]
    BY <2>1, <2>2 DEF TypeOK
  <2>4. step' \in [Probers -> Running \cup {"none", "done"}] /\ stack' \in Seq(Probers)
    BY <1>0, <1>9, AdvanceTypes DEF WriteTmp
  <2> QED
    BY <1>9, <2>3, <2>4 DEF WriteTmp, TypeOK, proberVars, fsVars
<1>10. CASE WriteTmpFails(p)
  BY <1>10, FinishKeepsTypes DEF WriteTmpFails, AtStep
<1>12. CASE DeleteMain(p)
  BY <1>12, FinishKeepsTypes DEF DeleteMain, AtStep
<1>11. CASE ReplaceResult(p)
  <2>1. files' \in [Probers -> SUBSET {"script", "tmp", "result"}]
    BY <1>11 DEF ReplaceResult, TypeOK
  <2>2. step' \in [Probers -> Running \cup {"none", "done"}] /\ stack' \in Seq(Probers)
    BY <1>11, FinishTypes DEF ReplaceResult, AtStep
  <2> QED
    BY <1>11, <2>1, <2>2 DEF ReplaceResult, TypeOK, proberVars, sockVars
<1> QED
  BY <1>1, <1>2, <1>3, <1>4, <1>5, <1>6, <1>7, <1>8, <1>9, <1>10, <1>11, <1>12
     DEF ScriptStep

\* The steps of the session keep the types.
LEMMA NextType == TypeOK /\ LifeCycle /\ [Next]_vars => TypeOK'
<1> SUFFICES ASSUME TypeOK, LifeCycle, [Next]_vars  PROVE TypeOK'
  OBVIOUS
<1> USE DEF proberVars, fsVars, sockVars, targetVars
<1>1. ASSUME NEW p \in Probers, Start(p)  PROVE TypeOK'
  BY <1>1 DEF TypeOK, Start, At, Goto, Locations
<1>2. ASSUME NEW p \in Probers, Interrupt(p)  PROVE TypeOK'
  BY <1>2 DEF TypeOK, Interrupt, Leave, Conclude, Goto, Locations, Failures
<1>3. CASE LoadScript
  <2>1. <<pending>> \o stack \in Seq(Probers)
    BY <1>3 DEF LoadScript, TypeOK
  <2> QED
    BY <1>3, <2>1 DEF LoadScript, TypeOK, Running
<1>4. CASE TargetExits
  BY <1>4, ExitType DEF TargetExits
<1>5. CASE Tick
  <2>1. \A t \in -1..Budget : Elapse(t) \in -1..Budget
    BY BudgetAssumption DEF Elapse
  <2>2. remaining' \in [Probers -> -1..Budget]
    BY <1>5, <2>1 DEF Tick, TypeOK
  <2>3. \A t \in 0..Budget : t > 0 => t - 1 \in 0..Budget
    BY BudgetAssumption
  <2>4. sendLeft' \in [Probers -> 0..Budget]
    BY <1>5, <2>3 DEF Tick, TypeOK
  <2> QED
    BY <1>5, <2>2, <2>4 DEF Tick, TypeOK
<1>6. CASE UNCHANGED vars
  BY <1>6 DEF TypeOK, vars
<1> QED
  BY <1>1, <1>2, <1>3, <1>4, <1>5, <1>6, ProberType, ScriptType DEF Next

\* A step of a prober keeps the life cycles.
LEMMA ProberLifeCycle ==
  ASSUME TypeOK, LifeCycle, NEW p \in Probers, ProberStep(p), NEW q \in Probers
  PROVE  (InjectionInOrder(q) /\ AnswerInOrder(q) /\ OutcomeInOrder(q))'
<1> USE DEF TypeOK, At, Goto, Conclude, Leave, proberVars, fsVars, sockVars, targetVars,
            Waiting, Early, Final, Answers, InjectionInOrder, AnswerInOrder, OutcomeInOrder
<1>0. /\ InjectionInOrder(p) /\ AnswerInOrder(p) /\ OutcomeInOrder(p)
      /\ InjectionInOrder(q) /\ AnswerInOrder(q) /\ OutcomeInOrder(q)
  BY DEF LifeCycle
<1>1. CASE OpenSocket(p)
  BY <1>0, <1>1 DEF OpenSocket
<1>2. CASE OpenTempFile(p)
  BY <1>0, <1>2 DEF OpenTempFile
<1>3. CASE OpenFails(p)
  BY <1>0, <1>3 DEF OpenFails
<1>4. CASE WriteScript(p)
  BY <1>0, <1>4 DEF WriteScript
<1>5. CASE WriteScriptFails(p)
  BY <1>0, <1>5 DEF WriteScriptFails
<1>6. CASE RemoteExec(p)
  BY <1>0, <1>6 DEF RemoteExec
<1>7. CASE RemoteExecFails(p)
  BY <1>0, <1>7 DEF RemoteExecFails, AttachFailures
<1>8. CASE CheckBudget(p)
  BY <1>0, <1>8 DEF CheckBudget
<1>9. CASE ArmTimeout(p)
  BY <1>0, <1>9 DEF ArmTimeout
<1>10. CASE Accept(p)
  BY <1>0, <1>10 DEF Accept
<1>11. CASE AcceptFails(p) \/ ReadFails(p)
  BY <1>0, <1>11 DEF AcceptFails, ReadFails
<1>12. CASE Receive(p)
  BY <1>0, <1>12 DEF Receive, InFlight
<1>13. CASE ReceiveEnd(p)
  BY <1>0, <1>13 DEF ReceiveEnd
<1>14. CASE WaitTimesOut(p)
  BY <1>0, <1>14 DEF WaitTimesOut
<1>15. CASE ReadResult(p)
  BY <1>0, <1>15 DEF ReadResult, Answered
<1>16. CASE PollAgain(p)
  BY <1>0, <1>16 DEF PollAgain
<1>17. CASE RemoveScriptDir(p)
  BY <1>0, <1>17 DEF RemoveScriptDir
<1>18. CASE CloseSocketChannel(p)
  BY <1>0, <1>18 DEF CloseSocketChannel, AfterClose
<1>19. CASE ClearResultDir(p)
  BY <1>0, <1>19 DEF ClearResultDir
<1>20. CASE RemoveResultDir(p)
  BY <1>0, <1>20 DEF RemoveResultDir, AfterClose
<1>21. CASE Parse(p)
  BY <1>0, <1>21, PieceAssumption DEF Parse
<1> QED
  BY <1>1, <1>2, <1>3, <1>4, <1>5, <1>6, <1>7, <1>8, <1>9, <1>10, <1>11, <1>12, <1>13, <1>14, <1>15, <1>16, <1>17, <1>18, <1>19, <1>20, <1>21 DEF ProberStep

\* The end of the target keeps the life cycles.
LEMMA ExitLifeCycle ==
  ASSUME TypeOK, Exits, NEW q \in Probers,
         InjectionInOrder(q), AnswerInOrder(q), OutcomeInOrder(q)
  PROVE  (InjectionInOrder(q) /\ AnswerInOrder(q) /\ OutcomeInOrder(q))'
  BY ProberAssumption
     DEF Exits, TypeOK, Running, proberVars, fsVars, Waiting, Early, Final, Answers,
         InjectionInOrder, AnswerInOrder, OutcomeInOrder

\* A step of a script keeps the life cycles.
LEMMA ScriptLifeCycle ==
  ASSUME TypeOK, LifeCycle, NEW p \in Probers, ScriptStep(p), NEW q \in Probers
  PROVE  (InjectionInOrder(q) /\ AnswerInOrder(q) /\ OutcomeInOrder(q))'
<1> USE PieceAssumption
     DEF TypeOK, AtStep, Advance, EndMain, Finish, proberVars, fsVars, sockVars, targetVars,
         Running, Waiting, Early, Final, Answers,
         InjectionInOrder, AnswerInOrder, OutcomeInOrder
<1>0. /\ InjectionInOrder(p) /\ AnswerInOrder(p) /\ OutcomeInOrder(p)
      /\ InjectionInOrder(q) /\ AnswerInOrder(q) /\ OutcomeInOrder(q)
  BY DEF LifeCycle
<1>1. CASE Collect(p)
  BY <1>0, <1>1 DEF Collect, Statuses, WriteBackEntry
<1>2. CASE CollectSilently(p) \/ ImportsFail(p)
  BY <1>0, <1>2 DEF CollectSilently, ImportsFail
<1>3. CASE WriteBackFails(p)
  BY <1>0, <1>3 DEF WriteBackFails
<1>4. CASE Connect(p)
  <2>1. CASE listening[p]
    BY <1>0, <1>4, <2>1 DEF Connect
  <2>2. CASE ~(listening[p])
    BY <1>0, <1>4, <2>2 DEF Connect
  <2> QED
    BY <2>1, <2>2
<1>5. CASE Send(p)
  BY <1>0, <1>5 DEF Send
<1>6. CASE SendFails(p)
  BY <1>0, <1>6 DEF HangUp, SendFails
<1>7. CASE SendKills(p)
  BY <1>0, <1>7, ExitLifeCycle DEF SendKills
<1>8. CASE CloseSocket(p)
  BY <1>0, <1>8 DEF HangUp, CloseSocket
<1>9. CASE CreateTmp(p)
  <2>1. CASE "result" \in dirs[p]
    BY <1>0, <1>9, <2>1 DEF CreateTmp
  <2>2. CASE ~("result" \in dirs[p])
    BY <1>0, <1>9, <2>2 DEF CreateTmp
  <2> QED
    BY <2>1, <2>2
<1>10. CASE WriteTmp(p)
  BY <1>0, <1>10 DEF WriteTmp, WriteLengths
<1>11. CASE WriteTmpFails(p)
  BY <1>0, <1>11 DEF WriteTmpFails
<1>12. CASE ReplaceResult(p)
  BY <1>0, <1>12 DEF ReplaceResult
<1>13. CASE DeleteMain(p)
  BY <1>0, <1>13 DEF DeleteMain
<1> QED
  BY <1>1, <1>2, <1>3, <1>4, <1>5, <1>6, <1>7, <1>8, <1>9, <1>10, <1>11, <1>12, <1>13
     DEF ScriptStep

\* The steps of the session keep the life cycles.
LEMMA NextLifeCycle == TypeOK /\ LifeCycle /\ [Next]_vars => LifeCycle'
<1> SUFFICES ASSUME TypeOK, LifeCycle, [Next]_vars, NEW q \in Probers
             PROVE  (InjectionInOrder(q) /\ AnswerInOrder(q) /\ OutcomeInOrder(q))'
  BY DEF LifeCycle
<1>0. InjectionInOrder(q) /\ AnswerInOrder(q) /\ OutcomeInOrder(q)
  BY DEF LifeCycle
<1> USE DEF proberVars, fsVars, sockVars, targetVars, Waiting, Early, Final,
            InjectionInOrder, AnswerInOrder, OutcomeInOrder
<1>1. ASSUME NEW p \in Probers, Start(p)
      PROVE  (InjectionInOrder(q) /\ AnswerInOrder(q) /\ OutcomeInOrder(q))'
  BY <1>0, <1>1 DEF TypeOK, Start, At, Goto
<1>2. ASSUME NEW p \in Probers, Interrupt(p)
      PROVE  (InjectionInOrder(q) /\ AnswerInOrder(q) /\ OutcomeInOrder(q))'
  <2>1. InjectionInOrder(p) /\ AnswerInOrder(p) /\ OutcomeInOrder(p)
    BY DEF LifeCycle
  <2> QED
    BY <1>0, <1>2, <2>1 DEF TypeOK, Interrupt, Leave, Conclude, Goto, Answers
<1>3. CASE LoadScript
  <2>1. pending \in Probers => InjectionInOrder(pending)
    BY DEF LifeCycle
  <2> QED
    BY <1>0, <1>3, <2>1, ProberAssumption DEF LoadScript, TypeOK, Running
<1>4. CASE TargetExits
  BY <1>0, <1>4, ExitLifeCycle DEF TargetExits
<1>5. CASE Tick
  BY <1>0, <1>5 DEF Tick
<1>6. CASE UNCHANGED vars
  BY <1>0, <1>6 DEF vars
<1> QED
  BY <1>1, <1>2, <1>3, <1>4, <1>5, <1>6, ProberLifeCycle, ScriptLifeCycle DEF Next

\* Initially nothing has happened.
LEMMA InitLifeCycle == Init => LifeCycle
  BY ProberAssumption
     DEF Init, LifeCycle, InjectionInOrder, AnswerInOrder, OutcomeInOrder,
         Early, Final, Waiting, Running, Answers

\* Every state is well typed: the program counters, files and timers of the
\* model never leave the values the code can produce.
THEOREM TypeCorrect == Spec => []TypeOK
<1>1. Init => TypeOK /\ LifeCycle
  BY InitType, InitLifeCycle
<1>2. TypeOK /\ LifeCycle /\ [Next]_vars => (TypeOK /\ LifeCycle)'
  BY NextType, NextLifeCycle
<1> QED
  BY <1>1, <1>2, PTL DEF Spec

\* In every state the life of a script agrees with that of its call.
THEOREM LifeCycleHolds == Spec => []LifeCycle
<1>1. Init => TypeOK /\ LifeCycle
  BY InitType, InitLifeCycle
<1>2. TypeOK /\ LifeCycle /\ [Next]_vars => (TypeOK /\ LifeCycle)'
  BY NextType, NextLifeCycle
<1> QED
  BY <1>1, <1>2, PTL DEF Spec

---------------------------------------------------------------------------
(* The refinement of OneShotProbe *)

\* A step of a prober changes no call but its own, moves it on between its
\* first and its last location, and leaves the scripts alone.
LEMMA ProberFrame ==
  ASSUME TypeOK, NEW p \in Probers, ProberStep(p)
  PROVE  /\ pc[p] \notin {"idle", "done"} /\ pc'[p] # "idle"
         /\ \A q \in Probers \ {p} : pc'[q] = pc[q] /\ outcome'[q] = outcome[q]
         /\ UNCHANGED <<step, env>>
<1> USE DEF TypeOK, At, Goto, Conclude, Leave, Waiting, targetVars
<1>1. CASE OpenSocket(p)
  BY <1>1 DEF OpenSocket
<1>2. CASE OpenTempFile(p)
  BY <1>2 DEF OpenTempFile
<1>3. CASE OpenFails(p)
  BY <1>3 DEF OpenFails
<1>4. CASE WriteScript(p)
  BY <1>4 DEF WriteScript
<1>5. CASE WriteScriptFails(p)
  BY <1>5 DEF WriteScriptFails
<1>6. CASE RemoteExec(p)
  BY <1>6 DEF RemoteExec
<1>7. CASE RemoteExecFails(p)
  BY <1>7 DEF RemoteExecFails
<1>8. CASE CheckBudget(p)
  BY <1>8 DEF CheckBudget
<1>9. CASE ArmTimeout(p)
  BY <1>9 DEF ArmTimeout
<1>10. CASE Accept(p)
  BY <1>10 DEF Accept
<1>11. CASE AcceptFails(p) \/ ReadFails(p)
  BY <1>11 DEF AcceptFails, ReadFails
<1>12. CASE Receive(p)
  BY <1>12 DEF Receive
<1>13. CASE ReceiveEnd(p)
  BY <1>13 DEF ReceiveEnd
<1>14. CASE WaitTimesOut(p)
  BY <1>14 DEF WaitTimesOut
<1>15. CASE ReadResult(p)
  BY <1>15 DEF ReadResult
<1>16. CASE PollAgain(p)
  BY <1>16 DEF PollAgain
<1>17. CASE RemoveScriptDir(p)
  BY <1>17 DEF RemoveScriptDir
<1>18. CASE CloseSocketChannel(p)
  BY <1>18 DEF CloseSocketChannel, AfterClose
<1>19. CASE ClearResultDir(p)
  BY <1>19 DEF ClearResultDir
<1>20. CASE RemoveResultDir(p)
  BY <1>20 DEF RemoveResultDir, AfterClose
<1>21. CASE Parse(p)
  BY <1>21 DEF Parse
<1> QED
  BY <1>1, <1>2, <1>3, <1>4, <1>5, <1>6, <1>7, <1>8, <1>9, <1>10, <1>11, <1>12, <1>13, <1>14, <1>15, <1>16, <1>17, <1>18, <1>19, <1>20, <1>21 DEF ProberStep

\* A step of a script begins and takes back no script; only Collect builds an
\* envelope, once.
LEMMA ScriptFrame ==
  ASSUME TypeOK, LifeCycle, NEW p \in Probers, ScriptStep(p)
  PROVE  /\ UNCHANGED <<pc, outcome>>
         /\ \A q \in Probers : step'[q] = "none" <=> step[q] = "none"
         /\ \/ UNCHANGED env
            \/ /\ step[p] # "none" /\ env[p] = "none"
               /\ \E status \in Answers : env' = [env EXCEPT ![p] = status]
<1> USE DEF TypeOK, AtStep, Advance, EndMain, Finish, proberVars
<1>1. CASE Collect(p)
  BY <1>1 DEF Collect, Statuses, Answers, WriteBackEntry, LifeCycle, AnswerInOrder
<1>2. CASE CollectSilently(p) \/ ImportsFail(p) \/ WriteBackFails(p) \/ DeleteMain(p)
  BY <1>2 DEF CollectSilently, ImportsFail, WriteBackFails, DeleteMain
<1>3. CASE Connect(p) \/ Send(p) \/ SendFails(p) \/ CloseSocket(p)
  BY <1>3 DEF Connect, Send, HangUp, SendFails, CloseSocket
<1>4. CASE SendKills(p)
  BY <1>4 DEF SendKills, Exits, Running
<1>5. CASE CreateTmp(p) \/ WriteTmp(p) \/ WriteTmpFails(p) \/ ReplaceResult(p)
  BY <1>5 DEF CreateTmp, WriteTmp, WriteTmpFails, ReplaceResult
<1> QED
  BY <1>1, <1>2, <1>3, <1>4, <1>5 DEF ScriptStep

\* A step that changes nothing a caller can see is a stutter.
LEMMA Invisible ==
  ASSUME \A q \in Probers : CallOf(q)' = CallOf(q) /\ ScriptOf(q)' = ScriptOf(q)
  PROVE  UNCHANGED Abstract!promiseVars
  BY DEF Abstract!promiseVars

\* A step of a prober returns the script's answer, fails, or shows nothing.
LEMMA ProberRefines ==
  ASSUME TypeOK, LifeCycle, TypeOK', LifeCycle', NEW p \in Probers, ProberStep(p)
  PROVE  [Abstract!PromiseNext]_(Abstract!promiseVars)
<1>1. \A q \in Probers : ScriptOf(q)' = ScriptOf(q)
  BY ProberFrame DEF ScriptOf
<1>2. \A q \in Probers \ {p} : CallOf(q)' = CallOf(q)
  BY ProberFrame DEF CallOf
<1>3. CallOf(p) = "open"
  BY ProberFrame DEF CallOf
<1>4. CASE pc'[p] # "done"
  <2>1. CallOf(p)' = "open"
    BY <1>4, ProberFrame DEF CallOf
  <2> QED
    BY <1>1, <1>2, <1>3, <2>1, Invisible
<1>5. CASE pc'[p] = "done"
  <2>1. CallOf(p)' = outcome'[p] /\ outcome'[p] \in Answers \cup Failures
    BY <1>5 DEF CallOf, TypeOK, LifeCycle, OutcomeInOrder
  <2>2. /\ [q \in Probers |-> CallOf(q)]'
             = [[q \in Probers |-> CallOf(q)] EXCEPT ![p] = outcome'[p]]
        /\ UNCHANGED [q \in Probers |-> ScriptOf(q)]
    BY <1>1, <1>2, <2>1
  <2>3. CASE outcome'[p] \in Answers
    <3>1. ScriptOf(p) = outcome'[p]
      <4>1. outcome'[p] = env'[p] /\ env' = env /\ step' = step
        BY <2>3, ProberFrame DEF LifeCycle, OutcomeInOrder
      <4>2. env[p] # "none" /\ step[p] # "none"
        BY <2>3, <4>1 DEF LifeCycle, AnswerInOrder, Answers
      <4> QED
        BY <4>1, <4>2 DEF ScriptOf
    <3>2. Abstract!Return(p)
      BY <1>3, <2>2, <2>3, <3>1 DEF Abstract!Return
    <3> QED
      BY <3>2 DEF Abstract!PromiseNext
  <2>4. CASE outcome'[p] \in Failures
    <3>1. /\ outcome'[p] \in {"attach_error", "no_process"} => ScriptOf(p) = "unseen"
          /\ outcome'[p] = "channel_error" => ScriptOf(p) # "unseen"
      BY ProberFrame, <1>1
         DEF LifeCycle, InjectionInOrder, OutcomeInOrder, TypeOK, ScriptOf, Answers
    <3>2. Abstract!Fail(p)
      BY <1>3, <2>2, <2>4, <3>1 DEF Abstract!Fail, Failures
    <3> QED
      BY <3>2 DEF Abstract!PromiseNext
  <2> QED
    BY <2>1, <2>3, <2>4
<1> QED
  BY <1>4, <1>5

\* A step of a script gives its answer or shows nothing.
LEMMA ScriptRefines ==
  ASSUME TypeOK, LifeCycle, NEW p \in Probers, ScriptStep(p)
  PROVE  [Abstract!PromiseNext]_(Abstract!promiseVars)
<1>1. \A q \in Probers : CallOf(q)' = CallOf(q)
  BY ScriptFrame DEF CallOf
<1>2. CASE UNCHANGED env
  <2>1. \A q \in Probers : ScriptOf(q)' = ScriptOf(q)
    BY <1>2, ScriptFrame DEF ScriptOf
  <2> QED
    BY <1>1, <2>1, Invisible
<1>3. CASE /\ step[p] # "none" /\ env[p] = "none"
           /\ \E status \in Answers : env' = [env EXCEPT ![p] = status]
  <2>1. PICK status \in Answers : env' = [env EXCEPT ![p] = status]
    BY <1>3
  <2>2. ScriptOf(p) = "running" /\ ScriptOf(p)' = status
    BY <1>3, <2>1, ScriptFrame DEF ScriptOf, TypeOK, Answers
  <2>3. \A q \in Probers \ {p} : ScriptOf(q)' = ScriptOf(q)
    BY <2>1, ScriptFrame DEF ScriptOf, TypeOK
  <2>4. Abstract!Answer(p)
    BY <1>1, <2>2, <2>3 DEF Abstract!Answer
  <2> QED
    BY <2>4 DEF Abstract!PromiseNext
<1> QED
  BY <1>2, <1>3, ScriptFrame

\* Loading a script is the abstract Run: its call is still open, because the
\* script file is removed before the call returns.
LEMMA LoadRefines ==
  ASSUME TypeOK, LifeCycle, LoadScript
  PROVE  [Abstract!PromiseNext]_(Abstract!promiseVars)
<1>1. \A q \in Probers : CallOf(q)' = CallOf(q)
  BY DEF LoadScript, proberVars, CallOf
<1>2. CASE "script" \in files[pending]
  <2>1. PICK p \in Probers : p = pending
    BY DEF LoadScript, TypeOK
  <2>2. step' = [step EXCEPT ![p] = "collect"] /\ UNCHANGED env
    BY <1>2, <2>1 DEF LoadScript
  <2>3. InjectionInOrder(p) /\ AnswerInOrder(p)
    BY DEF LifeCycle
  <2>4. CallOf(p) = "open"
    BY <1>2, <2>1, <2>3 DEF InjectionInOrder, CallOf, Waiting
  <2>5. ScriptOf(p) = "unseen" /\ ScriptOf(p)' = "running"
    BY <2>1, <2>2, <2>3 DEF InjectionInOrder, AnswerInOrder, ScriptOf, TypeOK
  <2>6. \A q \in Probers \ {p} : ScriptOf(q)' = ScriptOf(q)
    BY <2>2 DEF ScriptOf, TypeOK
  <2>7. Abstract!Run(p)
    BY <1>1, <2>4, <2>5, <2>6 DEF Abstract!Run
  <2> QED
    BY <2>7 DEF Abstract!PromiseNext
<1>3. CASE "script" \notin files[pending]
  <2>1. \A q \in Probers : ScriptOf(q)' = ScriptOf(q)
    BY <1>3 DEF LoadScript, ScriptOf
  <2> QED
    BY <1>1, <2>1, Invisible
<1> QED
  BY <1>2, <1>3

\* Every step of the session is a step of the one-shot probe or a stutter.
LEMMA NextRefines ==
  TypeOK /\ LifeCycle /\ TypeOK' /\ LifeCycle' /\ [Next]_vars
    => [Abstract!PromiseNext]_(Abstract!promiseVars)
<1> SUFFICES ASSUME TypeOK, LifeCycle, TypeOK', LifeCycle', [Next]_vars
             PROVE  [Abstract!PromiseNext]_(Abstract!promiseVars)
  OBVIOUS
<1>1. ASSUME NEW p \in Probers, Start(p)
      PROVE  [Abstract!PromiseNext]_(Abstract!promiseVars)
  <2>1. CallOf(p) = "idle" /\ CallOf(p)' = "open"
    BY <1>1 DEF Start, At, Goto, CallOf, TypeOK
  <2>2. /\ \A q \in Probers \ {p} : CallOf(q)' = CallOf(q)
        /\ \A q \in Probers : ScriptOf(q)' = ScriptOf(q)
    BY <1>1 DEF Start, At, Goto, CallOf, ScriptOf, TypeOK, targetVars
  <2>3. Abstract!Open(p)
    BY <2>1, <2>2 DEF Abstract!Open
  <2> QED
    BY <2>3 DEF Abstract!PromiseNext
<1>2. ASSUME NEW p \in Probers, Interrupt(p)
      PROVE  [Abstract!PromiseNext]_(Abstract!promiseVars)
  <2>1. \A q \in Probers : CallOf(q)' = CallOf(q) /\ ScriptOf(q)' = ScriptOf(q)
    BY <1>2 DEF Interrupt, Leave, Conclude, Goto, Waiting, CallOf, ScriptOf, TypeOK,
                targetVars
  <2> QED
    BY <2>1, Invisible
<1>3. CASE TargetExits
  <2>1. \A q \in Probers : CallOf(q)' = CallOf(q) /\ ScriptOf(q)' = ScriptOf(q)
    BY <1>3 DEF TargetExits, Exits, Running, CallOf, ScriptOf, proberVars
  <2> QED
    BY <2>1, Invisible
<1>4. CASE Tick \/ UNCHANGED vars
  <2>1. \A q \in Probers : CallOf(q)' = CallOf(q) /\ ScriptOf(q)' = ScriptOf(q)
    BY <1>4 DEF Tick, vars, proberVars, targetVars, CallOf, ScriptOf
  <2> QED
    BY <2>1, Invisible
<1> QED
  BY <1>1, <1>2, <1>3, <1>4, ProberRefines, ScriptRefines, LoadRefines DEF Next

\* execute_in_target is a one-shot probe: whatever the probers, the target and
\* the clock do, a script begins only while its call is open and at most once,
\* a call that returns an answer returns its own script's, and one that was
\* refused left nothing behind in the target.
THEOREM SessionIsOneShot == Spec => OneShot
<1>1. Init => Abstract!PromiseInit
  BY DEF Init, Abstract!PromiseInit, CallOf, ScriptOf
<1>2. Init => TypeOK /\ LifeCycle
  BY InitType, InitLifeCycle
<1>3. TypeOK /\ LifeCycle /\ [Next]_vars => (TypeOK /\ LifeCycle)'
  BY NextType, NextLifeCycle
<1> QED
  BY <1>1, <1>2, <1>3, NextRefines, PTL DEF Spec, OneShot, Abstract!PromiseSafety
===========================================================================
