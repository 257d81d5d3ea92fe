--------------------------- MODULE MCTableOccupancy ---------------------------
(* Instances of TableOccupancy for TLC.                                         *)
EXTENDS TableOccupancy, TLC

\* Everything but the move, which trusts the status of the table it moves to.
WithoutMove == AllHandlers \ {"moveOrderTable"}

\* The handlers that mean to keep the status of a table and its orders together.
\* A self-order joins whoever sits at the table, a booking that is seated and a
\* status set by hand say nothing of orders.
Syncing == AllHandlers \ {"createPublicOrder", "setTableStatus", "seatReservation"}

Interchangeable ==
  Permutations(Tables) \cup Permutations(Orders) \cup Permutations(Requests)
=============================================================================
