------------------------------- MODULE MCLineEdit -------------------------------
(* Instances of LineEdit for TLC.                                               *)
EXTENDS LineEdit, TLC

Interchangeable == Permutations(Requests) \cup Permutations(Coperti)
=============================================================================
