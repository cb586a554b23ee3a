------------------------------ MODULE Target ------------------------------
(***************************************************************************)
(* The target's end of a probe: CPython's pending-script slot, as            *)
(* sys.remote_exec and src/pidprobe/_channel.py use it, and the script that  *)
(* src/pidprobe/_inject.py generates. Scripts nest: an injection that        *)
(* arrives while a script runs is executed inside it.                        *)
(***************************************************************************)
EXTENDS ProbeState

Top(p) == stack # << >> /\ Head(stack) = p
AtStep(p, here) == Top(p) /\ step[p] = here
Advance(p, there) == step' = [step EXCEPT ![p] = there] /\ UNCHANGED stack

\* The script ends and what it interrupted goes on.
Finish(p) ==
  /\ step' = [step EXCEPT ![p] = "done"]
  /\ stack' = Tail(stack)

\* _pidprobe_main ends: whatever it raised is swallowed, and the script goes
\* on to delete its one name.
EndMain(p) == Advance(p, "del_main")

\* The target reaches a safe point, and a script is as good a place for one as
\* any: between two of its bytecodes, or inside sendall, which lets pending
\* work run after each piece it sent. CPython clears the slot and opens the
\* file; a missing file is reported as unraisable and nothing runs.
LoadScript ==
  /\ alive
  /\ pending # NoProber
  /\ pending' = NoProber
  /\ passedOver' = [p \in Probers |->
                      \/ passedOver[p]
                      \/ pc[p] \in Waiting /\ step[p] = "none" /\ pending # p]
  /\ IF "script" \in files[pending]
     THEN /\ stack' = <<pending>> \o stack
          /\ step' = [step EXCEPT ![pending] = "collect"]
     ELSE UNCHANGED <<stack, step>>
  /\ UNCHANGED <<proberVars, fsVars, sockVars, alive, env, sendLeft>>

WriteBackEntry(p) == IF kind[p] = "unix_socket" THEN "connect" ELSE "create"

\* The collector returns a payload that serializes, or raises and is
\* reported by _pidprobe_error_envelope.
Statuses == {"ok"} \cup (IF "raises" \in Faults THEN {"error"} ELSE {})

Collect(p) ==
  /\ AtStep(p, "collect")
  /\ \E status \in Statuses : env' = [env EXCEPT ![p] = status]
  /\ Advance(p, WriteBackEntry(p))
  /\ UNCHANGED <<proberVars, fsVars, sockVars, alive, pending, sendLeft, passedOver>>

\* An import at the head of _pidprobe_main fails, outside its inner try: no
\* envelope is built.
ImportsFail(p) ==
  /\ AtStep(p, "collect")
  /\ "import" \in Faults
  /\ EndMain(p)
  /\ UNCHANGED <<proberVars, fsVars, sockVars, alive, pending, env, sendLeft,
                 passedOver>>

\* The handler raises in its turn (str(exc) fails): the outer try swallows
\* it before the write back.
CollectSilently(p) ==
  /\ AtStep(p, "collect")
  /\ "unprintable" \in Faults
  /\ EndMain(p)
  /\ UNCHANGED <<proberVars, fsVars, sockVars, alive, pending, env, sendLeft,
                 passedOver>>

\* socket() or os.open() fails in the target before anything is sent.
WriteBackFails(p) ==
  /\ AtStep(p, "connect") \/ AtStep(p, "create")
  /\ "target_fds" \in Faults
  /\ EndMain(p)
  /\ UNCHANGED <<proberVars, fsVars, sockVars, alive, pending, env, sendLeft,
                 passedOver>>

---------------------------------------------------------------------------
(* _SOCKET_WRITE_BACK *)

\* Mutants of SendBudget: a target that waits longer, or less long, than the
\* prober asked for.
LongSendBudget  == Budget + 1
ShortSendBudget == Budget - 1

\* settimeout(timeout_seconds) bounds the whole sendall.
SendBudget == Budget

Connect(p) ==
  /\ AtStep(p, "connect")
  /\ IF listening[p]
     THEN /\ conn' = [conn EXCEPT ![p] = "queued"]
          /\ sendLeft' = [sendLeft EXCEPT ![p] = SendBudget]
          /\ Advance(p, "send")
     ELSE /\ EndMain(p)
          /\ UNCHANGED <<conn, sendLeft>>
  /\ UNCHANGED <<proberVars, fsVars, listening, sent, rcvd, eof,
                 alive, pending, env, passedOver>>

\* sendall moves a piece into the kernel buffer; the last one ends it.
Send(p) ==
  /\ AtStep(p, "send")
  /\ conn[p] # "closed" /\ InFlight(p) < Capacity
  /\ sent' = [sent EXCEPT ![p] = @ + 1]
  /\ Advance(p, IF sent[p] + 1 = Pieces THEN "close" ELSE "send")
  /\ UNCHANGED <<proberVars, fsVars, listening, conn, rcvd, eof,
                 alive, pending, env, sendLeft, passedOver>>

\* The process is gone: the kernel closes its end of every connection.
Exits ==
  /\ alive' = FALSE
  /\ pending' = NoProber
  /\ stack' = << >>
  /\ step' = [p \in Probers |-> IF step[p] \in Running THEN "done" ELSE step[p]]
  /\ eof' = [p \in Probers |-> eof[p] \/ step[p] \in {"send", "close"}]
  /\ sendLeft' = [p \in Probers |-> 0]
  /\ UNCHANGED <<proberVars, fsVars, listening, conn, sent, rcvd, env, passedOver>>

\* Mutant of SendRaises: the script's socket has no timeout.
SendRaisesOnReset(p) == conn[p] = "closed"

SendRaises(p) == sendLeft[p] = 0 \/ conn[p] = "closed"

\* The script's socket is closed, and its timeout is gone with it.
HangUp(p) ==
  /\ eof' = [eof EXCEPT ![p] = TRUE]
  /\ sendLeft' = [sendLeft EXCEPT ![p] = 0]

\* sendall times out or meets a closed peer; `finally` closes the socket and
\* the outer try swallows the exception.
SendFails(p) ==
  /\ AtStep(p, "send")
  /\ SendRaises(p)
  /\ HangUp(p)
  /\ EndMain(p)
  /\ UNCHANGED <<proberVars, fsVars, listening, conn, sent, rcvd,
                 alive, pending, env, passedOver>>

\* Where the target restored the default action of SIGPIPE, writing to a
\* closed peer does not raise: it ends the process.
SendKills(p) ==
  /\ AtStep(p, "send")
  /\ "sigpipe" \in Faults /\ conn[p] = "closed"
  /\ Exits

CloseSocket(p) ==
  /\ AtStep(p, "close")
  /\ HangUp(p)
  /\ EndMain(p)
  /\ UNCHANGED <<proberVars, fsVars, listening, conn, sent, rcvd,
                 alive, pending, env, passedOver>>

---------------------------------------------------------------------------
(* _TEMPFILE_WRITE_BACK *)

CreateTmp(p) ==
  /\ AtStep(p, "create")
  /\ IF "result" \in dirs[p]
     THEN /\ files' = [files EXCEPT ![p] = @ \cup {"tmp"}]
          /\ Advance(p, "write")
     ELSE /\ EndMain(p)
          /\ UNCHANGED files
  /\ UNCHANGED <<proberVars, dirs, sockVars, alive, pending, env, sendLeft,
                 passedOver>>

\* os.write is called once; its return value is not looked at.
WriteLengths == {Pieces} \cup (IF "short_write" \in Faults
                               THEN 1..(Pieces - 1) ELSE {})

WriteTmp(p) ==
  /\ AtStep(p, "write")
  /\ \E n \in WriteLengths : sent' = [sent EXCEPT ![p] = n]
  /\ Advance(p, "replace")
  /\ UNCHANGED <<proberVars, fsVars, listening, conn, rcvd, eof,
                 alive, pending, env, sendLeft, passedOver>>

\* Nothing could be written (ENOSPC): the temporary file stays behind.
WriteTmpFails(p) ==
  /\ AtStep(p, "write")
  /\ "disk" \in Faults
  /\ EndMain(p)
  /\ UNCHANGED <<proberVars, fsVars, sockVars, alive, pending, env, sendLeft,
                 passedOver>>

\* os.replace fails when rmtree has already unlinked the temporary file.
ReplaceResult(p) ==
  /\ AtStep(p, "replace")
  /\ files' = [files EXCEPT ![p] =
                 IF "tmp" \in @ THEN (@ \ {"tmp"}) \cup {"result"} ELSE @]
  /\ EndMain(p)
  /\ UNCHANGED <<proberVars, dirs, sockVars, alive, pending, env, sendLeft,
                 passedOver>>

---------------------------------------------------------------------------
\* The module body ends. Its answer may have been read long before, and another
\* script may have run inside it meanwhile.
DeleteMain(p) ==
  /\ AtStep(p, "del_main")
  /\ Finish(p)
  /\ UNCHANGED <<proberVars, fsVars, sockVars, alive, pending, env, sendLeft,
                 passedOver>>

\* What the target does once a script runs.
ScriptStep(p) ==
  \/ ImportsFail(p) \/ Collect(p) \/ CollectSilently(p) \/ WriteBackFails(p)
  \/ Connect(p) \/ Send(p) \/ SendFails(p) \/ SendKills(p) \/ CloseSocket(p)
  \/ CreateTmp(p) \/ WriteTmp(p) \/ WriteTmpFails(p) \/ ReplaceResult(p)
  \/ DeleteMain(p)

\* The process ends for reasons of its own.
TargetExits == "target_exit" \in Faults /\ alive /\ Exits
===========================================================================
