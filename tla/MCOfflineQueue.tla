----------------------------- MODULE MCOfflineQueue -----------------------------
(* Instances of OfflineQueue for TLC.  Two tabs and three requests under way are  *)
(* enough for a first attempt that is still at work, a round that sends the       *)
(* action again and another that holds a stale list.                              *)
EXTENDS OfflineQueue, TLC
=============================================================================
