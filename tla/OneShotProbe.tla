--------------------------- MODULE OneShotProbe ---------------------------
(***************************************************************************)
(* What execute_in_target promises, without sockets, files or clocks: a call *)
(* runs its script in the target at most once and only while the call is     *)
(* open, and it returns that script's own answer or fails, once.             *)
(***************************************************************************)
CONSTANTS Callers,    \* concurrent calls
          Replies,    \* what a script may answer
          Refusals,   \* failures that mean the script was never run
          Breakdowns, \* failures that mean the script did run
          Troubles    \* failures that leave it open

VARIABLES call,       \* "idle", "open", or what the call returned or raised
          script      \* "unseen", "running", or its answer

promiseVars == <<call, script>>

PromiseInit == /\ call = [c \in Callers |-> "idle"]
               /\ script = [c \in Callers |-> "unseen"]

Open(c) == /\ call[c] = "idle"
           /\ call' = [call EXCEPT ![c] = "open"]
           /\ UNCHANGED script

\* The target begins to run the script of a call that is still open.
Run(c) == /\ call[c] = "open" /\ script[c] = "unseen"
          /\ script' = [script EXCEPT ![c] = "running"]
          /\ UNCHANGED call

\* The script has an answer; the call may have given up meanwhile.
Answer(c) == /\ script[c] = "running"
             /\ \E r \in Replies : script' = [script EXCEPT ![c] = r]
             /\ UNCHANGED call

Return(c) == /\ call[c] = "open" /\ script[c] \in Replies
             /\ call' = [call EXCEPT ![c] = script[c]]
             /\ UNCHANGED script

Fail(c) == /\ call[c] = "open"
           /\ \E f \in Refusals \cup Breakdowns \cup Troubles :
                /\ f \in Refusals => script[c] = "unseen"
                /\ f \in Breakdowns => script[c] # "unseen"
                /\ call' = [call EXCEPT ![c] = f]
           /\ UNCHANGED script

PromiseNext == \E c \in Callers :
                 Open(c) \/ Run(c) \/ Answer(c) \/ Return(c) \/ Fail(c)

PromiseSafety == PromiseInit /\ [][PromiseNext]_promiseVars

\* A call that was opened always comes back.
Promise == /\ PromiseSafety
           /\ \A c \in Callers : WF_promiseVars(Return(c) \/ Fail(c))
===========================================================================
