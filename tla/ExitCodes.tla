----------------------------- MODULE ExitCodes -----------------------------
(***************************************************************************)
(* How src/pidprobe/cli.py ends a command: the table of _exits.py and the    *)
(* except clauses of main(), which are tried in this order.                  *)
(***************************************************************************)
EXTENDS Integers

EXIT_OK == 0
EXIT_INTERNAL_ERROR == 70
EXIT_INTERRUPTED == 130

\* Mutant of EXIT_BROKEN_PIPE: the number subprocess uses for a signal.
MINUS_SIGPIPE == -13

EXIT_BROKEN_PIPE == 141

\* What take_snapshot raises: the ProbeError types, and anything else, which
\* main() treats as a bug in pidprobe.
ProbeErrors == {"NoSuchProcessError", "AttachError", "ProbeTimeoutError",
                "TargetError", "ChannelError"}
OtherErrors == {"OSError", "ValueError"}

\* exit_code_for: a NoSuchProcessError is an AttachError too, so its case
\* comes first.
exit_code_for(error) == CASE error = "NoSuchProcessError" -> 3
                          [] error = "AttachError"        -> 4
                          [] error = "ProbeTimeoutError"  -> 5
                          [] error = "TargetError"        -> 6
                          [] OTHER                        -> 1

\* The code main() returns for an exception out of a command's handler.
CodeOf(exception) ==
  CASE exception = "KeyboardInterrupt" -> EXIT_INTERRUPTED
    [] exception = "BrokenPipeError"   -> EXIT_BROKEN_PIPE
    [] exception \in ProbeErrors       -> exit_code_for(exception)
    [] OTHER                           -> EXIT_INTERNAL_ERROR
===========================================================================
