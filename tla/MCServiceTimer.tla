----------------------------- MODULE MCServiceTimer -----------------------------
(* Instances of ServiceTimer for TLC.  With one dish and nothing served before it  *)
(* no course waits, so that the dish can be ready, held back again and due without *)
(* an alert for the course: the case in which the timer has to fire it although it *)
(* was ready once.  Two answers at a time exceed the limit of two together.        *)
EXTENDS ServiceTimer, TLC
=============================================================================
