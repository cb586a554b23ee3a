-------------------------- MODULE MCProbeSession --------------------------
(* Instances of ProbeSession for TLC. *)
EXTENDS ProbeSession, TLC

CONSTANTS p1, p2

OneProber  == {p1}
TwoProbers == {p1, p2}

\* Probers are interchangeable; used in runs that check safety only.
ProberSymmetry == Permutations(TwoProbers)

BothKinds   == BOOLEAN
SocketOnly  == {TRUE}
FileOnly    == {FALSE}

NoFaults    == {}
ExitOrRaise == {"target_exit", "raises"}
Unprintable == {"unprintable"}
EveryFault  == FaultKinds
===========================================================================
