------------------------------- MODULE MCDayClose -------------------------------
(* Instances of DayClose for TLC.                                               *)
EXTENDS DayClose, TLC

Interchangeable == Permutations(Registers) \cup Permutations(Requests)
=============================================================================
