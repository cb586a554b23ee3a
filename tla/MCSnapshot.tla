----------------------------- MODULE MCSnapshot -----------------------------
(* An instance of Snapshot for TLC. *)
EXTENDS Snapshot

CONSTANTS s1, d1

OneSnapper == {s1}
OneDoctor  == {d1}

TwoBuiltins == <<"stacks", "gc">>

Point(entry, section, load) == [entry |-> entry, section |-> section, load |-> load]

\* No plugin, one, two that claim one section under different and under equal
\* names, and each way in which a plugin is left out or ends discovery.
SomeInstallations ==
  {<< >>,
   <<Point(1, "pool", "collector")>>,
   <<Point(2, "pool", "collector"), Point(1, "pool", "collector")>>,
   <<Point(1, "pool", "collector"), Point(1, "pool", "collector")>>,
   <<Point(2, "pool", "exception"), Point(1, "gc", "collector")>>,
   <<Point(1, "meta", "collector"), Point(2, "pool", "collector")>>,
   <<Point(1, "pool", "collector"), Point(2, "pool", "exit")>>}

\* Arguments of take_snapshot: none, one section, and one twice.
SomeSelections == {<< >>, <<"gc">>, <<"gc", "gc">>}

\* The default, and an application that silences warnings.
SomeLevels == {30, 50}
===========================================================================
