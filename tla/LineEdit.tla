-------------------------------- MODULE LineEdit --------------------------------
(***************************************************************************)
(* The edits of an open order in place (orders.controller.js): price,      *)
(* quantity and weight of a row, and the number of guests with the row     *)
(* 'Coperto' that charges them.                                            *)
(*                                                                         *)
(* setItemPrice, setItemQuantity and setItemWeight read the row, compute   *)
(* its subtotal and write it in a later statement, whose trigger sums the  *)
(* order.  setOrderCovers is a transaction that locks the order first and  *)
(* its row after it; the trigger of the others locks them the other way    *)
(* round, and PostgreSQL aborts one of two that wait for each other.       *)
(*                                                                         *)
(* One order at a table, whose rows other than the coperto exist from the  *)
(* start; modifiers, and roles that may not edit, are left out.            *)
(***************************************************************************)
EXTENDS Naturals, FiniteSets, Functions

CONSTANTS
  Rows,          \* rows of order_items of the order
  Coperti,       \* those that setOrderCovers or createOrder insert as 'Coperto'
  PerKg,         \* rows of a dish with pricing_type 'per_kg'
  Quantities,    \* bound: quantities and numbers of guests
  Prices,        \* bound: prices
  CopertoPrice,  \* coperto_price of the tenant
  Requests,      \* HTTP requests the server works on at the same time
  NoRow          \* the row of a request that has none

ASSUME EditAssumption ==
  /\ IsFiniteSet(Rows) /\ NoRow \notin Rows
  /\ Coperti \subseteq Rows /\ PerKg \subseteq Rows
  /\ Quantities \subseteq Nat \ {0} /\ Prices \subseteq Nat
  /\ 1 \in Quantities /\ CopertoPrice \in Prices

VARIABLES
  open,    \* status of the order
  covers,  \* its number of guests
  total,   \* its total_amount
  row,     \* committed rows
  req      \* what each request has read, and what it has written and not committed

vars == <<open, covers, total, row, req>>

-----------------------------------------------------------------------------
Row == [status : {"none", "live", "cancelled"}, qty : Quantities, price : Prices, subtotal : Nat]

\* Of a request: the row it edits, the new value, and what it read of the row; the sum
\* that the last statement of its transaction computed.
Request ==
  [pc : {"idle", "update", "trigger", "coperto", "sum", "commit"},
   kind : {"none", "price", "quantity", "weight", "covers"},
   item : Rows \cup {NoRow}, arg : Nat, qty : Nat, price : Nat, sum : Nat]

Idle == [pc |-> "idle", kind |-> "none", item |-> NoRow, arg |-> 0, qty |-> 0, price |-> 0,
         sum |-> 0]

NewRow(status, qty, price) ==
  [status |-> status, qty |-> qty, price |-> price, subtotal |-> qty * price]

\* SUM(subtotal) over the rows that are not cancelled.
Sum(rows) ==
  FoldFunction(+, 0, [i \in Rows |-> IF rows[i].status = "live" THEN rows[i].subtotal ELSE 0])

\* The transactions that have locked the order, or have written a row.
OrderLocked == \E q \in Requests : req[q].pc \in {"coperto", "sum", "commit"}
RowLocked(i) == \E q \in Requests : req[q].pc \in {"trigger", "sum", "commit"} /\ req[q].item = i

\* The order as createOrder leaves it: one dish of each kind, and the coperto if there was one.
Init ==
  /\ open = TRUE /\ covers = 1
  /\ \E charged \in SUBSET Coperti :
       /\ \A i, j \in charged : i = j
       /\ row = [i \in Rows |->
                   IF i \notin Coperti THEN NewRow("live", 1, CopertoPrice)
                   ELSE NewRow(IF i \in charged THEN "live" ELSE "none", 1, CopertoPrice)]
  /\ total = Sum(row)
  /\ req = [r \in Requests |-> Idle]

-----------------------------------------------------------------------------
(* setItemPrice, setItemQuantity, setItemWeight.                           *)

EditRead(r, kind, i, arg) ==
  /\ req[r].pc = "idle" /\ open /\ row[i].status = "live"
  /\ req' = [req EXCEPT ![r] =
       [pc |-> "update", kind |-> kind, item |-> i, arg |-> arg,
        qty |-> row[i].qty, price |-> row[i].price, sum |-> 0]]
  /\ UNCHANGED <<open, covers, total, row>>

\* Mistake: the subtotal of one portion.
PricedOnce(old, price, qty) == [old EXCEPT !.price = price, !.subtotal = price]

Priced(old, price, qty) == [old EXCEPT !.price = price, !.subtotal = price * qty]

\* Mistake: the row loses one portion, whatever number was asked for.
OneLess(old, price, qty) == [old EXCEPT !.qty = @ - 1, !.subtotal = price * (old.qty - 1)]

Counted(old, price, qty) == [old EXCEPT !.qty = qty, !.subtotal = price * qty]

\* Nobody reads what a cancelled row still says.
Gone == NewRow("cancelled", 1, CopertoPrice)

\* The weight of a dish with a fixed price writes back the price that was read.
NewPrice(q) == IF q.kind = "weight" /\ q.item \notin PerKg THEN q.price ELSE q.arg

\* The row as the UPDATE leaves it: columns it does not name keep what another edit wrote.
Written(q, old) ==
  IF old.status = "cancelled" THEN old
  ELSE IF q.kind = "covers" THEN NewRow("live", q.arg, CopertoPrice)
  ELSE IF q.kind # "quantity" THEN Priced(old, NewPrice(q), q.qty)
  ELSE IF q.arg = 0 THEN Gone ELSE Counted(old, q.price, q.arg)

Changed(r) == [row EXCEPT ![req[r].item] = Written(req[r], @)]

\* The row is locked and written; the trigger sums what it sees, and may have to wait.
EditUpdate(r) ==
  /\ req[r].pc = "update" /\ ~RowLocked(req[r].item)
  /\ req' = [req EXCEPT ![r].pc = "trigger", ![r].sum = Sum(Changed(r))]
  /\ UNCHANGED <<open, covers, total, row>>

EditCommit(r) ==
  /\ req[r].pc = "trigger" /\ ~OrderLocked
  /\ row' = Changed(r) /\ total' = req[r].sum
  /\ req' = [req EXCEPT ![r] = Idle]
  /\ UNCHANGED <<open, covers>>

-----------------------------------------------------------------------------
(* setOrderCovers.                                                         *)

\* Mistake: the status is looked up, and the order is not locked.
CoversUnlocked(r, n) ==
  /\ req[r].pc = "idle" /\ open
  /\ req' = [req EXCEPT ![r] = [Idle EXCEPT !.pc = "coperto", !.kind = "covers", !.arg = n]]
  /\ UNCHANGED <<open, covers, total, row>>

\* UPDATE orders ... WHERE status = 'open': waits for those that hold the order.
CoversLock(r, n) ==
  /\ req[r].pc = "idle" /\ open /\ ~OrderLocked
  /\ req' = [req EXCEPT ![r] = [Idle EXCEPT !.pc = "coperto", !.kind = "covers", !.arg = n]]
  /\ UNCHANGED <<open, covers, total, row>>

\* Mistake: a row that was cancelled is taken for the coperto of the order.
CopertiEver == {i \in Coperti : row[i].status # "none"}

LiveCoperti == {i \in Coperti : row[i].status = "live"}

\* The UPDATE of the coperto, or its INSERT if there is none.
CoversRow(r, i) ==
  /\ req[r].pc = "coperto" /\ ~RowLocked(i)
  /\ IF LiveCoperti # {} THEN i \in LiveCoperti ELSE row[i].status = "none"
  /\ req' = [req EXCEPT ![r].pc = "sum", ![r].item = i]
  /\ UNCHANGED <<open, covers, total, row>>

CoversSum(r) ==
  /\ req[r].pc = "sum"
  /\ req' = [req EXCEPT ![r].pc = "commit", ![r].sum = Sum(Changed(r))]
  /\ UNCHANGED <<open, covers, total, row>>

CoversCommit(r) ==
  /\ req[r].pc = "commit"
  /\ covers' = req[r].arg /\ row' = Changed(r) /\ total' = req[r].sum
  /\ req' = [req EXCEPT ![r] = Idle]
  /\ UNCHANGED open

-----------------------------------------------------------------------------
\* A statement fails, or the transaction is the victim of a deadlock: ROLLBACK.
Rollback(r) ==
  /\ req[r].pc # "idle"
  /\ req' = [req EXCEPT ![r] = Idle]
  /\ UNCHANGED <<open, covers, total, row>>

\* The payment that completes the order.
ProcessPayment ==
  /\ open /\ ~OrderLocked
  /\ open' = FALSE
  /\ UNCHANGED <<covers, total, row, req>>

Next ==
  \/ \E r \in Requests :
       \/ \E i \in Rows :
            \/ \E p \in Prices : EditRead(r, "price", i, p)
            \/ \E n \in Quantities \cup {0} : EditRead(r, "quantity", i, n)
            \/ i \notin Coperti /\ \E p \in Prices : EditRead(r, "weight", i, p)
       \/ EditUpdate(r) \/ EditCommit(r)
       \/ \E n \in Quantities : CoversLock(r, n)
       \/ \E i \in Coperti : CoversRow(r, i)
       \/ CoversSum(r) \/ CoversCommit(r) \/ Rollback(r)
  \/ ProcessPayment

Spec == Init /\ [][Next]_vars

-----------------------------------------------------------------------------
(* Properties.                                                             *)

TypeOK ==
  /\ open \in BOOLEAN /\ covers \in Quantities /\ total \in Nat
  /\ row \in [Rows -> Row]
  /\ req \in [Requests -> Request]

\* Two changes of the number of guests at once, with the cashier taking the coperto off in
\* between, never charge it twice: an order has one row 'Coperto' at most.
OneCoperto == \A i, j \in LiveCoperti : i = j

\* "se arrivavano altre persone i loro coperti si perdevano": once the number of guests was
\* changed, so many are charged, even if somebody edits or cancels that row meanwhile.
GuestsAreCharged ==
  [][covers' # covers => \E i \in Coperti : /\ row'[i].status = "live"
                                            /\ row'[i].qty = covers'
                                            /\ row'[i].price = CopertoPrice]_vars

\* setOrderCovers leaves a total that is the sum of the rows, though edits that wait for the
\* order have written rows already, and earlier ones may have left it wrong.
CoversRepairTotal ==
  [][covers' # covers => total' = Sum(row')]_vars

\* The subtotal of a row parts from quantity and price only by the write of a request that
\* read the row before another one wrote it.
Consistent(i) == row[i].subtotal = row[i].qty * row[i].price

SubtotalOnlyStale ==
  [][\A i \in Rows : Consistent(i) /\ ~Consistent(i)' =>
       \E r \in Requests : /\ req[r].pc = "trigger" /\ req[r].item = i
                           /\ <<req[r].qty, req[r].price>> # <<row[i].qty, row[i].price>>]_vars
=============================================================================
