--------------------------------- MODULE Outbox ---------------------------------
(***************************************************************************)
(* What the offline queue of the tablets promises of a waiter's action     *)
(* ("Salvato in coda offline. Sincronizzo al ripristino della rete"): it   *)
(* is confirmed, or disappears from the queue, only after it was carried   *)
(* out.  Until then it is kept, or known to have been given up; one that   *)
(* was given up may still be settled late.                                 *)
(***************************************************************************)
CONSTANT Actions       \* mutations the waiters send

VARIABLES
  state,               \* what the waiter's side knows of each action
  happened             \* the actions that the server carried out

States == {"open", "rejected", "kept", "settled", "givenUp"}

Init ==
  /\ state = [a \in Actions |-> "open"]
  /\ happened = {}

Happen(a) ==
  /\ happened' = happened \cup {a}
  /\ UNCHANGED state

Become(a, from, to) ==
  /\ state[a] \in from
  /\ state' = [state EXCEPT ![a] = to]
  /\ UNCHANGED happened

Reject(a) == Become(a, {"open"}, "rejected")
Keep(a)   == Become(a, {"open", "givenUp"}, "kept")
GiveUp(a) == Become(a, {"kept"}, "givenUp")
Settle(a) == a \in happened /\ Become(a, {"open", "kept", "givenUp"}, "settled")

Next == \E a \in Actions : Happen(a) \/ Reject(a) \/ Keep(a) \/ GiveUp(a) \/ Settle(a)

Spec == Init /\ [][Next]_<<state, happened>>
=============================================================================
