----------------------------- MODULE MCOrderLedger -----------------------------
(* Instances of OrderLedger for TLC.  The orders share nothing but the rows      *)
(* they are given, so one order and the requests on it show every race.          *)
EXTENDS OrderLedger, TLC

\* Nothing is added to an order once it exists; the order from the QR menu is left
\* out, its races are those of the order of the staff.
Shrinking == AllHandlers \ {"addItems", "createPublicOrder"}

\* The till and the pick-up counter of a takeaway.
TillAndCounter == {"createOrder", "processPayment", "markAsportoRitirato"}

Interchangeable == Permutations(Items) \cup Permutations(Requests)
=============================================================================
