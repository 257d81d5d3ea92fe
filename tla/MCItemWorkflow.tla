----------------------------- MODULE MCItemWorkflow -----------------------------
(* Instances of ItemWorkflow for TLC: one dish.  No statement but              *)
(* dispatchOrder, fireTakeawayItems and the batches writes more than one       *)
(* dish, and none of these writes one dish because of another.                 *)
EXTENDS ItemWorkflow
=============================================================================
