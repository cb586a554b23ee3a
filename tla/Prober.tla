------------------------------ MODULE Prober ------------------------------
(***************************************************************************)
(* The prober's end of a probe: execute_in_target, open_channel and the two  *)
(* return channels of src/pidprobe/_channel.py, one action per call that can  *)
(* block, fail or be seen by the target.                                     *)
(***************************************************************************)
EXTENDS ProbeState

At(p, here) == pc[p] = here
Goto(p, there) == pc' = [pc EXCEPT ![p] = there]
Conclude(p, what) == outcome' = [outcome EXCEPT ![p] = what]

\* The call begins: Deadline.start.
Start(p) ==
  /\ At(p, "idle")
  /\ Goto(p, "open")
  /\ UNCHANGED <<outcome, remaining, kind, fsVars, sockVars, targetVars>>

---------------------------------------------------------------------------
(* open_channel *)

\* Mutant of OpenSocket: listen() is not called before the injection.
OpenUnlistened(p) ==
  /\ At(p, "open")
  /\ TRUE \in AllowSocket
  /\ kind' = [kind EXCEPT ![p] = "unix_socket"]
  /\ dirs' = [dirs EXCEPT ![p] = @ \cup {"socket"}]
  /\ Goto(p, "write_script")
  /\ UNCHANGED <<outcome, remaining, files, sockVars, targetVars>>

\* UnixSocketChannel(): directory, socket, bind and listen all succeed.
OpenSocket(p) ==
  /\ At(p, "open")
  /\ TRUE \in AllowSocket
  /\ kind' = [kind EXCEPT ![p] = "unix_socket"]
  /\ dirs' = [dirs EXCEPT ![p] = @ \cup {"socket"}]
  /\ listening' = [listening EXCEPT ![p] = TRUE]
  /\ Goto(p, "write_script")
  /\ UNCHANGED <<outcome, remaining, files, conn, sent, rcvd, eof, targetVars>>

\* Why open_channel goes on to the file: the caller asked for it, or
\* UnixSocketChannel() raised OSError.
FallbackReasons ==
  {"disallowed" : allow \in AllowSocket \ {TRUE}}
    \cup {reason \in Faults \cap {"no_socket", "socket_call", "disk"} :
            TRUE \in AllowSocket}

\* A failing bind removes the directory before it raises; a failing
\* socket.socket() comes after mkdtemp and outside that try.
AbandonedBy(reason) == IF reason = "socket_call" THEN {"socket"} ELSE {}

OpenTempFile(p) ==
  /\ At(p, "open")
  /\ \E reason \in FallbackReasons :
       dirs' = [dirs EXCEPT ![p] = {"result"} \cup AbandonedBy(reason)]
  /\ kind' = [kind EXCEPT ![p] = "tempfile"]
  /\ Goto(p, "write_script")
  /\ UNCHANGED <<outcome, remaining, files, sockVars, targetVars>>

\* mkdtemp fails in TempFileChannel() as well: nothing is open yet.
OpenFails(p) ==
  /\ At(p, "open")
  /\ "disk" \in Faults
  /\ \E reason \in FallbackReasons :
       dirs' = [dirs EXCEPT ![p] = AbandonedBy(reason)]
  /\ Conclude(p, "os_error")
  /\ Goto(p, "done")
  /\ UNCHANGED <<remaining, kind, files, sockVars, targetVars>>

---------------------------------------------------------------------------
(* The script and sys.remote_exec *)

\* Mutant of WriteScript: the file is not there yet when the target looks.
WriteNothing(p) ==
  /\ At(p, "write_script")
  /\ dirs' = [dirs EXCEPT ![p] = @ \cup {"script"}]
  /\ Goto(p, "remote_exec")
  /\ UNCHANGED <<outcome, remaining, kind, files, sockVars, targetVars>>

WriteScript(p) ==
  /\ At(p, "write_script")
  /\ dirs' = [dirs EXCEPT ![p] = @ \cup {"script"}]
  /\ files' = [files EXCEPT ![p] = @ \cup {"script"}]
  /\ Goto(p, "remote_exec")
  /\ UNCHANGED <<outcome, remaining, kind, sockVars, targetVars>>

\* Mutant of Leave: `except Exception` where the code has `finally`.
LeaveHandled(p, what) ==
  /\ Conclude(p, what)
  /\ conn' = [conn EXCEPT ![p] = IF @ = "accepted" THEN "closed" ELSE @]
  /\ Goto(p, IF what = "interrupted" THEN "close" ELSE "rm_script")

\* Leaving the inner try, with an exception or with the raw answer
\* (outcome "none"): `with conn` has closed an accepted connection.
Leave(p, what) ==
  /\ Conclude(p, what)
  /\ conn' = [conn EXCEPT ![p] = IF @ = "accepted" THEN "closed" ELSE @]
  /\ Goto(p, "rm_script")

\* Either mkdtemp fails, outside the inner try, or write_text inside it.
WriteScriptFails(p) ==
  /\ At(p, "write_script")
  /\ "disk" \in Faults
  /\ \/ /\ Goto(p, "close")
        /\ UNCHANGED dirs
     \/ /\ Goto(p, "rm_script")
        /\ dirs' = [dirs EXCEPT ![p] = @ \cup {"script"}]
  /\ Conclude(p, "os_error")
  /\ UNCHANGED <<remaining, kind, files, sockVars, targetVars>>

\* Mutant of RemoteExec: an injection is tried again although it may have
\* succeeded.
RemoteExecRetried(p) ==
  /\ At(p, "remote_exec")
  /\ alive
  /\ pending' = p
  /\ \/ Goto(p, IF kind[p] = "unix_socket" THEN "check" ELSE "read")
     \/ UNCHANGED pc
  /\ UNCHANGED <<outcome, remaining, kind, fsVars, sockVars,
                 alive, stack, step, env, sendLeft, passedOver>>

\* sys.remote_exec overwrites whatever script is still pending.
RemoteExec(p) ==
  /\ At(p, "remote_exec")
  /\ alive
  /\ pending' = p
  /\ Goto(p, IF kind[p] = "unix_socket" THEN "check" ELSE "read")
  /\ UNCHANGED <<outcome, remaining, kind, fsVars, sockVars,
                 alive, stack, step, env, sendLeft, passedOver>>

\* AttachError.from_cause tells a vanished process from a refusal.
AttachFailures ==
  IF alive THEN (IF "refused" \in Faults THEN {"attach_error"} ELSE {})
           ELSE {"no_process"}

RemoteExecFails(p) ==
  /\ At(p, "remote_exec")
  /\ \E failure \in AttachFailures : Leave(p, failure)
  /\ UNCHANGED <<remaining, kind, fsVars, listening, sent, rcvd, eof, targetVars>>

---------------------------------------------------------------------------
(* UnixSocketChannel.receive: "check" is `deadline.is_expired`, "arm" is     *)
(* `settimeout(deadline.remaining)`, which reads the clock again, and "wait" *)
(* is accept() or, once a connection was accepted, recv().                   *)

Accepting(p) == conn[p] \in {"none", "queued"}

\* accept() or recv() would return without waiting.
Ready(p) == IF Accepting(p) THEN conn[p] = "queued"
                            ELSE InFlight(p) > 0 \/ eof[p]

CheckBudget(p) ==
  /\ At(p, "check")
  /\ IF Expired(p)
     THEN Leave(p, "timeout")
     ELSE Goto(p, "arm") /\ UNCHANGED <<outcome, conn>>
  /\ UNCHANGED <<remaining, kind, fsVars, listening, sent, rcvd, eof, targetVars>>

\* settimeout raises ValueError below zero; zero means non-blocking, where
\* accept and recv raise BlockingIOError unless they can return at once.
ArmRaises(p) == remaining[p] < 0 \/ (remaining[p] = 0 /\ ~Ready(p))

ArmTimeout(p) ==
  /\ At(p, "arm")
  /\ IF ArmRaises(p)
     THEN Leave(p, "raw_error")
     ELSE Goto(p, "wait") /\ UNCHANGED <<outcome, conn>>
  /\ UNCHANGED <<remaining, kind, fsVars, listening, sent, rcvd, eof, targetVars>>

Accept(p) ==
  /\ At(p, "wait")
  /\ conn[p] = "queued"
  /\ conn' = [conn EXCEPT ![p] = "accepted"]
  /\ Goto(p, "check")
  /\ UNCHANGED <<outcome, remaining, kind, fsVars, listening, sent, rcvd, eof,
                 targetVars>>

\* EMFILE: the connection stays in the backlog.
AcceptFails(p) ==
  /\ At(p, "wait")
  /\ "socket_call" \in Faults /\ conn[p] = "queued"
  /\ Leave(p, "os_error")
  /\ UNCHANGED <<remaining, kind, fsVars, listening, sent, rcvd, eof, targetVars>>

Receive(p) ==
  /\ At(p, "wait")
  /\ conn[p] = "accepted"
  /\ \E n \in 1..InFlight(p) : rcvd' = [rcvd EXCEPT ![p] = @ + n]
  /\ Goto(p, "check")
  /\ UNCHANGED <<outcome, remaining, kind, fsVars, listening, conn, sent, eof,
                 targetVars>>

\* recv() returns b"": the loop ends, and ChannelError if nothing came.
ReceiveEnd(p) ==
  /\ At(p, "wait")
  /\ conn[p] = "accepted" /\ eof[p] /\ InFlight(p) = 0
  /\ Leave(p, IF rcvd[p] = 0 THEN "channel_error" ELSE "none")
  /\ UNCHANGED <<remaining, kind, fsVars, listening, sent, rcvd, eof, targetVars>>

\* Mutant of WaitTimesOut: the socket was left without a timeout.
WaitForever(p) == FALSE

\* The armed timeout runs out exactly when the deadline does.
WaitTimesOut(p) ==
  /\ At(p, "wait")
  /\ Expired(p) /\ ~Ready(p)
  /\ Leave(p, "timeout")
  /\ UNCHANGED <<remaining, kind, fsVars, listening, sent, rcvd, eof, targetVars>>

---------------------------------------------------------------------------
(* TempFileChannel.receive: read first, consult the deadline after. *)

\* Mutant of Answered: the script writes the result file in place.
AnsweredInPlace(p) == files[p] \cap {"tmp", "result"} # {}

Answered(p) == "result" \in files[p]

ReadResult(p) ==
  /\ At(p, "read")
  /\ IF Answered(p)
     THEN /\ rcvd' = [rcvd EXCEPT ![p] = sent[p]]
          /\ Leave(p, "none")
     ELSE /\ Goto(p, "expiry")
          /\ UNCHANGED <<outcome, conn, rcvd>>
  /\ UNCHANGED <<remaining, kind, fsVars, listening, sent, eof, targetVars>>

\* read_text raises an OSError that is not FileNotFoundError (EMFILE): nothing
\* in receive catches it.
ReadFails(p) ==
  /\ At(p, "read")
  /\ "socket_call" \in Faults
  /\ Leave(p, "os_error")
  /\ UNCHANGED <<remaining, kind, fsVars, listening, sent, rcvd, eof, targetVars>>

\* Mutant of PollAgain: the loop never consults the deadline.
PollForever(p) ==
  /\ At(p, "expiry")
  /\ Goto(p, "read")
  /\ UNCHANGED <<outcome, remaining, kind, fsVars, sockVars, targetVars>>

\* The sleep clamps its argument at zero, so unlike settimeout it cannot raise.
PollAgain(p) ==
  /\ At(p, "expiry")
  /\ IF Expired(p)
     THEN Leave(p, "timeout")
     ELSE Goto(p, "read") /\ UNCHANGED <<outcome, conn>>
  /\ UNCHANGED <<remaining, kind, fsVars, listening, sent, rcvd, eof, targetVars>>

\* Ctrl-C while the script is injected or the answer awaited.
Interrupt(p) ==
  /\ "interrupt" \in Faults
  /\ pc[p] \in Waiting \cup {"remote_exec"}
  /\ Leave(p, "interrupted")
  /\ UNCHANGED <<remaining, kind, fsVars, listening, sent, rcvd, eof, targetVars>>

---------------------------------------------------------------------------
(* The two finally clauses and parse_envelope *)

\* Mutant of RemoveScriptDir: the script is left for the target to find.
KeepScriptDir(p) ==
  /\ At(p, "rm_script")
  /\ Goto(p, "close")
  /\ UNCHANGED <<outcome, remaining, kind, fsVars, sockVars, targetVars>>

RemoveScriptDir(p) ==
  /\ At(p, "rm_script")
  /\ dirs' = [dirs EXCEPT ![p] = @ \ {"script"}]
  /\ files' = [files EXCEPT ![p] = @ \ {"script"}]
  /\ Goto(p, "close")
  /\ UNCHANGED <<outcome, remaining, kind, sockVars, targetVars>>

\* A raw answer is still to be parsed; an exception propagates.
AfterClose(p) == IF outcome[p] = "none" THEN "parse" ELSE "done"

\* Closing the listener resets a connection nobody accepted.
CloseSocketChannel(p) ==
  /\ At(p, "close") /\ kind[p] = "unix_socket"
  /\ listening' = [listening EXCEPT ![p] = FALSE]
  /\ conn' = [conn EXCEPT ![p] = IF @ = "queued" THEN "closed" ELSE @]
  /\ dirs' = [dirs EXCEPT ![p] = @ \ {"socket"}]
  /\ Goto(p, AfterClose(p))
  /\ UNCHANGED <<outcome, remaining, kind, files, sent, rcvd, eof, targetVars>>

\* rmtree unlinks the files it finds ...
ClearResultDir(p) ==
  /\ At(p, "close") /\ kind[p] = "tempfile"
  /\ files' = [files EXCEPT ![p] = @ \ {"tmp", "result"}]
  /\ Goto(p, "rmdir")
  /\ UNCHANGED <<outcome, remaining, kind, dirs, sockVars, targetVars>>

\* ... and then removes the directory; ignore_errors hides ENOTEMPTY.
RemoveResultDir(p) ==
  /\ At(p, "rmdir")
  /\ dirs' = [dirs EXCEPT ![p] =
                IF files[p] \cap {"tmp", "result"} = {} THEN @ \ {"result"} ELSE @]
  /\ Goto(p, AfterClose(p))
  /\ UNCHANGED <<outcome, remaining, kind, files, sockVars, targetVars>>

\* A proper prefix of an envelope is never a JSON object.
Parse(p) ==
  /\ At(p, "parse")
  /\ Conclude(p, IF rcvd[p] = Pieces THEN env[p] ELSE "channel_error")
  /\ Goto(p, "done")
  /\ UNCHANGED <<remaining, kind, fsVars, sockVars, targetVars>>

---------------------------------------------------------------------------
\* What a prober does by itself; an interrupt comes from its terminal.
ProberStep(p) ==
  \/ OpenSocket(p) \/ OpenTempFile(p) \/ OpenFails(p)
  \/ WriteScript(p) \/ WriteScriptFails(p)
  \/ RemoteExec(p) \/ RemoteExecFails(p)
  \/ CheckBudget(p) \/ ArmTimeout(p)
  \/ Accept(p) \/ AcceptFails(p) \/ Receive(p) \/ ReceiveEnd(p)
  \/ WaitTimesOut(p)
  \/ ReadResult(p) \/ ReadFails(p) \/ PollAgain(p)
  \/ RemoveScriptDir(p) \/ CloseSocketChannel(p)
  \/ ClearResultDir(p) \/ RemoveResultDir(p) \/ Parse(p)
===========================================================================
