------------------------------ MODULE MCDoctor ------------------------------
(* An instance of Doctor for TLC. *)
EXTENDS Doctor

Prober == <<3, 14>>

\* A host on which everything works, and a target that can be probed.
Good == [platform |-> "linux", scope |-> 0, readable |-> TRUE, euid |-> "user", capable |-> FALSE,
         debugging |-> "enabled", socket |-> TRUE, tempdir |-> TRUE, plugins |-> "load"]
Right == [implementation |-> "cpython", version |-> Prober]
Fine == [uid |-> "user", namespace |-> "own", executable |-> "python", answer |-> "version",
         atPath |-> Right, python |-> Right, disabled |-> FALSE]

\* Every scope on Linux, read or not, with every kind of prober, every kind of
\* prober elsewhere, and what its own interpreter, channels and plugins may be like.
SomeHosts ==
  {[Good EXCEPT !.scope = s] : s \in {0, 1, 2, 4, NoKnob}}
    \cup {[Good EXCEPT !.scope = s, !.euid = "root"] : s \in {0, 2}}
    \cup {[Good EXCEPT !.scope = 2, !.readable = r, !.capable = ~r] : r \in BOOLEAN}
    \cup {[Good EXCEPT !.platform = "macos", !.euid = u, !.capable = c] :
             u \in {"root", "user"}, c \in BOOLEAN}
    \cup {[Good EXCEPT !.platform = "other"], [Good EXCEPT !.debugging = "absent"],
          [Good EXCEPT !.debugging = "disabled"]}
    \cup {[Good EXCEPT !.socket = FALSE, !.tempdir = t] : t \in BOOLEAN}
    \cup {[Good EXCEPT !.plugins = l] : l \in {"skipped", "exit"}}

Python(implementation, version) == [implementation |-> implementation, version |-> version]
Runs(p, python) == [p EXCEPT !.python = python, !.atPath = python]

\* Targets that differ from a good one in a respect or two, or in all; the path of
\* a container's Python, or of an upgraded one, leads to another.
SomeProcesses ==
  {Fine, [Fine EXCEPT !.uid = "other"], [Fine EXCEPT !.executable = "program"],
   [Fine EXCEPT !.answer = "hang"], Runs(Fine, Python("cpython", <<3, 13>>)),
   [Runs(Fine, Python("cpython", <<4, 0>>)) EXCEPT !.disabled = TRUE],
   [Fine EXCEPT !.namespace = "inner", !.python = Python("cpython", <<3, 13>>)],
   [Fine EXCEPT !.atPath = Python("cpython", <<3, 15>>)],
   [uid |-> "other", namespace |-> "inner", executable |-> "python", answer |-> "version",
    atPath |-> Python("pypy", <<2, 15>>), python |-> Python("pypy", <<2, 15>>),
    disabled |-> TRUE]}
===========================================================================
