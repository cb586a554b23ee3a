--------------------------- MODULE MCDiffSeries ---------------------------
(* An instance of DiffSeries for TLC. *)
EXTENDS DiffSeries

\* No snapshot at all, one, three, and a series without an end.
SomeCounts == {0, 1, 3, NoCount}
===========================================================================
