-------------------------- MODULE MCSnapshotDelta --------------------------
(* An instance of SnapshotDelta for TLC. *)
EXTENDS SnapshotDelta

ThreeTypes == {"dict", "list", "set"}

Ordinary == [count |-> [t \in ThreeTypes |-> 1], collections |-> <<1, 1>>, young |-> <<0>>,
             fds |-> 2, failed |-> {}]

\* Every count of three types up to two, with rankings of two; generations
\* that come and go, and counts that reach all of them, some or none; and each
\* collector that fails.
SomeWorlds ==
  {[Ordinary EXCEPT !.count = c] : c \in [ThreeTypes -> 0..2]}
    \cup {[Ordinary EXCEPT !.collections = c, !.young = y] :
            c \in {<<3>>, <<3, 2>>}, y \in {<< >>, <<1>>, <<1, 2>>}}
    \cup {[Ordinary EXCEPT !.fds = 5, !.failed = f] : f \in {{}, {"objects"}, {"gc"}, {"fds"}}}
===========================================================================
