--------------------------- MODULE ProbeSession ---------------------------
(***************************************************************************)
(* Probers and their common target composed: a probe session from the call  *)
(* of execute_in_target to its return, and the target's script, which may    *)
(* outlive the call.                                                         *)
(***************************************************************************)
EXTENDS Prober, Target

Next ==
  \/ \E p \in Probers : Start(p) \/ ProberStep(p) \/ Interrupt(p) \/ ScriptStep(p)
  \/ LoadScript
  \/ TargetExits
  \/ Tick

Spec == Init /\ [][Next]_vars

\* The operating system schedules a prober; nothing is assumed of the target.
ProberFairness == /\ \A p \in Probers : WF_vars(ProberStep(p))
                  /\ WF_vars(Tick)

\* A script that was begun keeps running; nothing is assumed of the probers.
ScriptFairness == /\ \A p \in Probers : WF_vars(ScriptStep(p))
                  /\ WF_vars(Tick)

ProberSpec == Spec /\ ProberFairness
ScriptSpec == Spec /\ ScriptFairness

Prompt(p) == pc[p] = "done" /\ outcome[p] \in Answers

---------------------------------------------------------------------------
(* Invariants *)

\* Every variable has a value the code can produce: the program counters are
\* those of execute_in_target and of the generated script.
TypeOK ==
  /\ pc \in [Probers -> Locations]
  /\ outcome \in [Probers -> {"none"} \cup Answers \cup Failures]
  /\ remaining \in [Probers -> -1..Budget]
  /\ kind \in [Probers -> {"none", "unix_socket", "tempfile"}]
  /\ dirs \in [Probers -> SUBSET {"socket", "result", "script"}]
  /\ files \in [Probers -> SUBSET {"script", "tmp", "result"}]
  /\ listening \in [Probers -> BOOLEAN]
  /\ conn \in [Probers -> {"none", "queued", "accepted", "closed"}]
  /\ sent \in [Probers -> 0..Pieces]
  /\ rcvd \in [Probers -> 0..Pieces]
  /\ eof \in [Probers -> BOOLEAN]
  /\ alive \in BOOLEAN
  /\ pending \in Probers \cup {NoProber}
  /\ stack \in Seq(Probers)
  /\ step \in [Probers -> Running \cup {"none", "done"}]
  /\ env \in [Probers -> {"none"} \cup Answers]
  /\ sendLeft \in [Probers -> 0..Budget]
  /\ passedOver \in [Probers -> BOOLEAN]

\* The life of a script against the life of its call; together with TypeOK
\* this is the inductive invariant behind OneShot.
\*
\* Until sys.remote_exec the target knows nothing of a call, the pending slot
\* names a script that has not begun, the script file exists only while the
\* call is open, and a refused injection leaves no trace in the target.
Early == {"idle", "open", "write_script", "remote_exec"}
Final == {"rm_script", "close", "rmdir", "done"}

InjectionInOrder(p) ==
  /\ pc[p] \in Early => step[p] = "none" /\ pending # p
  /\ pending = p => step[p] = "none"
  /\ "script" \in files[p] => pc[p] \in Waiting \cup {"remote_exec", "rm_script"}
  /\ outcome[p] \in {"attach_error", "no_process"} =>
       step[p] = "none" /\ pending # p /\ pc[p] \in Final

\* Nothing is sent before the envelope is built, nothing is read that was not
\* sent, and the channel shows no trace of a script that has not begun.
AnswerInOrder(p) ==
  /\ step[p] \in {"none", "collect"} => env[p] = "none"
  /\ step[p] \in Running \ {"collect", "del_main"} => env[p] # "none"
  /\ step[p] \in {"none", "collect", "connect", "create", "write"} => sent[p] = 0
  /\ step[p] = "send" => sent[p] < Pieces
  /\ sent[p] > 0 \/ rcvd[p] > 0 => env[p] # "none"
  /\ step[p] = "none" =>
       conn[p] = "none" /\ ~eof[p] /\ files[p] \cap {"tmp", "result"} = {}

\* A call knows its outcome once it has left its try blocks with an exception
\* and not before; without one it has read an answer of its script.
OutcomeInOrder(p) ==
  /\ pc[p] \in Early \cup Waiting \cup {"parse"} => outcome[p] = "none"
  /\ pc[p] = "done" => outcome[p] # "none"
  /\ outcome[p] = "none" /\ pc[p] \in Final \cup {"parse"} => step[p] # "none"
  /\ outcome[p] = "channel_error" => step[p] # "none"
  /\ outcome[p] \in Answers => pc[p] = "done" /\ outcome[p] = env[p]

LifeCycle ==
  \A p \in Probers : InjectionInOrder(p) /\ AnswerInOrder(p) /\ OutcomeInOrder(p)

\* The scripts the target has begun and not ended are exactly those on its
\* call stack, each once: an injection that interrupts another is executed
\* within it, ends before it and is not begun again.
ScriptsNest ==
  /\ \A i, j \in 1..Len(stack) : i # j => stack[i] # stack[j]
  /\ \A p \in Probers : step[p] \in Running <=> \E i \in 1..Len(stack) : stack[i] = p

\* "The target can never answer before the prober is listening": while the
\* prober still waits, the place its script writes to exists.
AnswerHasAPlace ==
  \A p \in Probers :
    (pending = p \/ step[p] \in Running) /\ pc[p] \in Waiting =>
      IF kind[p] = "unix_socket" THEN listening[p] ELSE "result" \in dirs[p]

\* The target's own socket timeout never ends a write back that the prober
\* would still have waited for: both start from timeout_seconds, the target's
\* later.
TargetOutwaitsProber ==
  \A p \in Probers :
    step[p] = "send" /\ pc[p] \in Waiting => sendLeft[p] >= remaining[p]

\* A live target never makes its prober read a malformed or empty answer
\* before the deadline: an incomplete answer that the prober has read to its
\* end needs an exit of the target, a short os.write, or a spent budget.
CutOnlyByExit ==
  \A p \in Probers :
    outcome[p] = "channel_error" =>
      \/ ~alive
      \/ kind[p] = "tempfile" /\ "short_write" \in Faults
      \/ Expired(p)

\* Once a call has returned an answer its channel is gone: a target that
\* answered has nothing left to write, so rmtree cannot lose a race. Only the
\* directory of a socket() that failed remains.
AnsweredLeavesNothing ==
  \A p \in Probers :
    Prompt(p) => /\ dirs[p] \subseteq (IF kind[p] = "tempfile" THEN {"socket"} ELSE {})
                 /\ files[p] = {}
                 /\ step[p] \in Ended

\* However a call ends, its script and its sockets are gone, and a result
\* directory survives only with a file in it that a late script put there.
LeftoversAreExplained ==
  \A p \in Probers :
    pc[p] = "done" =>
      /\ "script" \notin dirs[p] /\ "script" \notin files[p]
      /\ ~listening[p] /\ conn[p] \in {"none", "closed"}
      /\ "result" \in dirs[p] => files[p] # {} /\ step[p] \in Running \cup {"done"}
      /\ "socket" \in dirs[p] => kind[p] # "unix_socket" /\ "socket_call" \in Faults

\* The call got as far as sys.remote_exec.
Injected(p) == pc[p] \notin {"idle", "open", "write_script", "remote_exec"}

\* "It always writes exactly one envelope back" (_inject.py): a script that has
\* ended on a live target, while its prober still waits and has time left, put
\* the whole envelope where that prober finds it. Only a fault of the target's
\* own keeps it from that.
WriteBackFaults == {"import", "unprintable", "target_fds", "short_write", "disk"}

Written(p) == /\ sent[p] = Pieces
              /\ IF kind[p] = "unix_socket" THEN eof[p] ELSE "result" \in files[p]

EnvelopeIsWritten ==
  \A p \in Probers :
    alive /\ step[p] \in Ended /\ pc[p] \in Waiting /\ ~Expired(p) =>
      Written(p) \/ Faults \cap WriteBackFaults # {}

\* A script that is neither pending nor begun while its prober waits for it was
\* lost to another prober's injection, never to anything else.
LostOnlyToAnother ==
  \A p \in Probers :
    pc[p] \in Waiting /\ step[p] = "none" /\ pending # p =>
      ~alive \/ \E q \in Probers \ {p} : Injected(q)

---------------------------------------------------------------------------
(* Liveness *)

\* "One probe can never exceed the budget": every call returns although the
\* target may do nothing at all.
EveryCallReturns == \A p \in Probers : pc[p] = "open" ~> pc[p] = "done"

\* "A stuck channel cannot block the target forever": every script that was
\* begun ends although its prober may have stopped.
TargetIsReleased ==
  \A p \in Probers : step[p] = "collect" ~> step[p] = "done"

---------------------------------------------------------------------------
(* Refinement: what execute_in_target promises *)

\* What the caller of execute_in_target has seen of its call so far.
CallOf(p) == CASE pc[p] = "idle" -> "idle"
               [] pc[p] = "done" -> outcome[p]
               [] OTHER -> "open"

\* What has become of its script.
ScriptOf(p) == CASE step[p] = "none" -> "unseen"
                 [] step[p] # "none" /\ env[p] # "none" -> env[p]
                 [] OTHER -> "running"

Abstract == INSTANCE OneShotProbe WITH
  Callers    <- Probers,
  Replies    <- Answers,
  Refusals   <- {"attach_error", "no_process"},
  Breakdowns <- {"channel_error"},
  Troubles   <- {"timeout", "interrupted", "os_error", "raw_error"},
  call       <- [p \in Probers |-> CallOf(p)],
  script     <- [p \in Probers |-> ScriptOf(p)]

\* execute_in_target implements the one-shot probe: no script begins after
\* its call has returned, and an answer is the one its own script built.
OneShot == Abstract!PromiseSafety

\* ... and the call comes back.
OneShotAndReturns == Abstract!Promise

---------------------------------------------------------------------------
(* What documentation says and the code does not do; each is a run of its own *)

\* _errors.py: "Every failure mode surfaces as a subclass of ProbeError";
\* execute_in_target raises ProbeTimeoutError when the target is not in time.
ExpiryIsATimeout == \A p \in Probers : outcome[p] # "raw_error"

\* ReturnChannel.close: "remove the temporary directory".
NothingLeftBehind == \A p \in Probers : pc[p] = "done" => dirs[p] = {}

\* _inject.py: the script "always writes exactly one envelope back ...
\* including when the collector raises".
FailureIsReported ==
  \A p \in Probers : alive /\ step[p] \in Ended => env[p] # "none"

\* ProbeTimeoutError: "target never reached a safe eval point within ...".
TimeoutMeansNoSafePoint ==
  \A p \in Probers : outcome[p] = "timeout" /\ step[p] = "none" => ~passedOver[p]
===========================================================================
