------------------------------ MODULE MCPrintQueue ------------------------------
(* Instances of PrintQueue for TLC.                                             *)
EXTENDS PrintQueue

CONSTANTS table, counter, spritz, beer, pizza, cola

\* A table and a takeaway.
TwoOrders ==
  [r \in {spritz, beer, pizza, cola} |-> IF r \in {spritz, beer} THEN table ELSE counter]
=============================================================================
