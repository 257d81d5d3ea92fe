------------------------------ MODULE OrderLedger ------------------------------
(***************************************************************************)
(* The money side of an order: its row in "orders", its rows in            *)
(* "order_items", the sum of its rows in "payments", and the requests that *)
(* change them (orders.controller.js, billing.controller.js).              *)
(*                                                                         *)
(* Every handler runs in READ COMMITTED: a statement reads the rows that   *)
(* are committed when it starts.  A request is therefore a sequence of     *)
(* steps, one per statement whose reads another request can overtake, and  *)
(* its writes become visible in its last step, the COMMIT.  The UPDATE of  *)
(* the orders row locks it until the COMMIT; no handler reads, after that, *)
(* anything another request may still change, so taking that lock and      *)
(* committing are one step.                                                *)
(*                                                                         *)
(* Money is counted in units of one item: the total of an order is the     *)
(* number of its items that are not cancelled.                             *)
(***************************************************************************)
EXTENDS Naturals, FiniteSets

CONSTANTS
  Orders,      \* orders the restaurant may open
  Items,       \* rows order_items may come to hold
  Requests,    \* HTTP requests the server works on at the same time
  Handlers,    \* the handlers that are called in this instance
  Displays,    \* the statuses the kitchen display gives a row in this instance
  SentBack,    \* rows it may bring back: from cancelled, or to the stove again
  Methods,     \* payment methods in use: "cash", "card"
  MaxTender,   \* largest amount handed over in one payment
  MaxPaid,     \* bound: no payment starts beyond this sum on an order
  NoOrder      \* the order of an item row that does not exist

AllHandlers ==
  {"createOrder", "createPublicOrder", "addItems", "cancelItem", "updateItemStatus",
   "processPayment", "markAsportoRitirato", "markAsportoNoShow", "cancelOrder"}

\* The statuses of a row that is charged: waiting for the kitchen or being cooked;
\* out of the oven and still to be finished; ready; served.
Live == {"pending", "oven_done", "ready", "served"}

ASSUME LedgerAssumption ==
  /\ IsFiniteSet(Items)
  /\ Handlers \subseteq AllHandlers
  /\ Displays \subseteq {"cancelled"} \cup Live
  /\ SentBack \subseteq Items
  /\ Methods \subseteq {"cash", "card"}
  /\ MaxTender \in Nat /\ MaxPaid \in Nat
  /\ NoOrder \notin Orders

VARIABLES
  orders,   \* committed orders rows
  items,    \* committed order_items rows
  paid,     \* sum of the committed payments of each order
  handed,   \* takeaways answered "ritirato" or "no-show" with success
  req       \* what each request in flight has read and written so far

vars == <<orders, items, paid, handed, req>>

-----------------------------------------------------------------------------
Kept     == "kept"                             \* a row this request left alone
OrderRow == [status  : {"absent", "open", "completed", "cancelled"},
             payment : {"unpaid", "partial", "paid"},
             type    : {"table", "takeaway"},
             source  : {"staff", "qr"},
             total   : Nat]
ItemRow  == [order  : Orders \cup {NoOrder},
             status : {"absent", "cancelled"} \cup Live]
Request  == [pc      : {"idle", "addItems", "sumPaid", "insertPayment",
                        "commitPayment", "serveItems", "closeRitirato",
                        "stopItems", "closeNoShow", "cancelItems",
                        "commitCancel", "commitItems"},
             order   : Orders \cup {NoOrder},
             total   : Nat,                    \* total_amount as it was read
             payment : {"unpaid", "partial", "paid"},
             paid    : Nat,                    \* SUM(amount) as it was read
             method  : {"cash", "card"},
             amount  : Nat,
             pend    : [Items -> {Kept, "cancelled"} \cup Live],
             snap    : Nat]                    \* SUM(subtotal) the trigger saw

Idle == [pc |-> "idle", order |-> NoOrder, total |-> 0, payment |-> "unpaid",
         paid |-> 0, method |-> "cash", amount |-> 0,
         pend |-> [i \in Items |-> Kept], snap |-> 0]

Init ==
  /\ orders = [o \in Orders |-> [status |-> "absent", payment |-> "unpaid",
                                 type |-> "table", source |-> "staff", total |-> 0]]
  /\ items = [i \in Items |-> [order |-> NoOrder, status |-> "absent"]]
  /\ paid = [o \in Orders |-> 0]
  /\ handed = [o \in Orders |-> 0]
  /\ req = [r \in Requests |-> Idle]

-----------------------------------------------------------------------------
(* What a request sees and writes of order_items.                          *)

\* Rows the request changed and did not commit yet: it holds their locks.
Touched(q) == {i \in Items : q.pend[i] # Kept}

Unlocked(r, S) == \A q \in Requests \ {r} : Touched(req[q]) \cap S = {}

\* The rows of order o that some transaction committed.
RowsOf(o) == {i \in Items : items[i].order = o}

\* The live rows of the order of q, seen by the transaction of q itself.
Seen(q) ==
  {i \in Items : IF q.pend[i] = Kept
                 THEN items[i].order = q.order /\ items[i].status \in Live
                 ELSE q.pend[i] \in Live}

\* What the trigger order_items_total_sync, run once per changed row, may leave
\* in the orders row.  Its first UPDATE may have to wait for another request, and
\* then writes the sum of the snapshot it started from; a later one finds the row
\* locked by its own transaction and writes the current sum.
TriggerTotals(q) ==
  CASE Touched(q) = {}              -> {orders[q.order].total}
    [] Cardinality(Touched(q)) = 1  -> {q.snap, Cardinality(Seen(q))}
    [] OTHER                        -> {Cardinality(Seen(q))}

\* The request as it is after a statement that gives the rows in S status st.
WithRows(q, S, st) ==
  [q EXCEPT !.pend = [i \in Items |-> IF i \in S THEN st ELSE q.pend[i]]]

Snapshot(q) == [q EXCEPT !.snap = Cardinality(Seen(q))]

\* COMMIT of the item rows of q, and of its order row as given.
CommitItems(q) ==
  items' = [i \in Items |-> IF q.pend[i] = Kept THEN items[i]
                            ELSE [order |-> q.order, status |-> q.pend[i]]]

Finish(r) == req' = [req EXCEPT ![r] = Idle]

Idling(r, h) == req[r].pc = "idle" /\ h \in Handlers

\* An order as the handlers' first SELECT finds it: only if it is open.
Open(o) == orders[o].status = "open"

Prepaid(o) == orders[o].type = "takeaway" \/ orders[o].source = "qr"

\* Mistake: the closing UPDATE forgets its WHERE status = 'open'.
CloseUnchecked(o) == TRUE

\* WHERE status = 'open' of the UPDATE that closes a takeaway.
StillOpen(o) == Open(o)

\* Mistake: the amount of a payment is not checked.
AnyAmount(a) == TRUE

\* CHECK (amount > 0) of the table payments.
AmountAllowed(a) == a > 0

-----------------------------------------------------------------------------
(* Opening an order.  Nothing of it is visible before its COMMIT.          *)

\* Rows no order and no request in flight uses.
FreshRows == {i \in Items : items[i].status = "absent"
                            /\ \A q \in Requests : req[q].pend[i] = Kept}

InsertOrder(o, S, D, type, source) ==
  /\ orders[o].status = "absent"
  /\ orders' = [orders EXCEPT ![o] =
                  [status |-> "open", payment |-> "unpaid", type |-> type,
                   source |-> source, total |-> Cardinality(S)]]
  /\ items' = [i \in Items |->
                 IF i \in S
                 THEN [order |-> o, status |-> IF i \in D THEN "served" ELSE "pending"]
                 ELSE items[i]]
  /\ UNCHANGED <<paid, handed, req>>

\* Staff order, at a table or to take away; the rows of D are handed over on
\* the spot (workflow 'delivered') or are the cover charge.
CreateOrder(o) ==
  /\ "createOrder" \in Handlers
  /\ \E S \in SUBSET FreshRows \ {{}}, type \in {"table", "takeaway"} :
       \E D \in SUBSET S : InsertOrder(o, S, D, type, "staff")

\* Self-order from the QR menu; only the cover charge of a table is born served.
CreatePublicOrder(o) ==
  /\ "createPublicOrder" \in Handlers
  /\ \E S \in SUBSET FreshRows \ {{}}, type \in {"table", "takeaway"} :
       \E D \in SUBSET S :
         /\ Cardinality(D) <= (IF type = "table" THEN 1 ELSE 0) /\ D # S
         /\ InsertOrder(o, S, D, type, "qr")

-----------------------------------------------------------------------------
(* addItems, cancelItem and updateItemStatus.                              *)

AddItemsCheck(r, o) ==
  /\ Idling(r, "addItems") /\ Open(o)
  /\ req' = [req EXCEPT ![r] = [Idle EXCEPT !.pc = "addItems", !.order = o]]
  /\ UNCHANGED <<orders, items, paid, handed>>

AddItemsInsert(r) ==
  /\ req[r].pc = "addItems"
  /\ \E S \in SUBSET FreshRows \ {{}}, st \in {"pending", "served"} :
       req' = [req EXCEPT ![r] =
                 Snapshot([WithRows(req[r], S, st) EXCEPT !.pc = "commitItems"])]
  /\ UNCHANGED <<orders, items, paid, handed>>

\* The connection may break, or no row be left: the transaction is rolled back.
AddItemsFail(r) ==
  /\ req[r].pc = "addItems"
  /\ Finish(r)
  /\ UNCHANGED <<orders, items, paid, handed>>

\* One autocommitted UPDATE of one row; the order itself is not looked at.
UpdateRow(r, i, st) ==
  /\ items[i].status # "absent" /\ Unlocked(r, {i})
  /\ LET q == [Idle EXCEPT !.pc = "commitItems", !.order = items[i].order]
     IN  req' = [req EXCEPT ![r] = Snapshot(WithRows(q, {i}, st))]
  /\ UNCHANGED <<orders, items, paid, handed>>

\* WHERE status <> 'cancelled'.
CancelItem(r, i) ==
  /\ Idling(r, "cancelItem") /\ items[i].status \in Live
  /\ UpdateRow(r, i, "cancelled")

\* A cancelled row comes back, or one that left the stove is put on it again.
Back(from, to) ==
  from = "cancelled" \/ (from # "pending" /\ to = "pending")

\* The kitchen display: any status after any other ('cooking' counts as "pending").
\* What it may not do to a dish in 'waiting' or 'served' does not show here; to one
\* that is cancelled it may do anything.
UpdateItemStatus(r, i, st) ==
  /\ Idling(r, "updateItemStatus")
  /\ Back(items[i].status, st) => i \in SentBack
  /\ UpdateRow(r, i, st)

CommitItemRows(r) ==
  /\ req[r].pc = "commitItems"
  /\ CommitItems(req[r])
  /\ \E t \in TriggerTotals(req[r]) :
       orders' = [orders EXCEPT ![req[r].order].total = t]
  /\ Finish(r)
  /\ UNCHANGED <<paid, handed>>

-----------------------------------------------------------------------------
(* processPayment.                                                         *)

PaymentCheck(r, o) ==
  /\ Idling(r, "processPayment") /\ Open(o)
  /\ \E amount \in 1..MaxTender, method \in Methods :
       /\ paid[o] + amount <= MaxPaid
       /\ req' = [req EXCEPT ![r] =
                    [Idle EXCEPT !.pc = "sumPaid", !.order = o, !.amount = amount,
                                 !.method = method, !.total = orders[o].total]]
  /\ UNCHANGED <<orders, items, paid, handed>>

PaymentSum(r) ==
  /\ req[r].pc = "sumPaid"
  /\ req' = [req EXCEPT ![r].pc = "insertPayment", ![r].paid = paid[req[r].order]]
  /\ UNCHANGED <<orders, items, paid, handed>>

\* Cash handed over beyond what remains is given back as change.
EffectiveAmount(q) ==
  IF q.method = "cash" /\ q.amount + q.paid > q.total
  THEN IF q.total > q.paid THEN q.total - q.paid ELSE 0
  ELSE q.amount

\* Mistake: one unit less than the total is taken for the total.
PaymentStatusTolerant(q, a) ==
  IF paid[q.order] + a + 1 >= q.total THEN "paid" ELSE "partial"

\* Decided by a second sum, the new payment included, and the total read before.
PaymentStatus(q, a) ==
  IF paid[q.order] + a >= q.total THEN "paid" ELSE "partial"

\* INSERT INTO payments.
PaymentInsert(r) ==
  /\ req[r].pc = "insertPayment"
  /\ LET q == req[r]
         a == EffectiveAmount(q)
     IN  /\ AmountAllowed(a)
         /\ req' = [req EXCEPT ![r] =
                      [q EXCEPT !.pc = "commitPayment", !.amount = a,
                                !.payment = PaymentStatus(q, a)]]
  /\ UNCHANGED <<orders, items, paid, handed>>

\* CHECK (amount > 0) of payments: the transaction is rolled back.
PaymentRefused(r) ==
  /\ req[r].pc = "insertPayment"
  /\ ~AmountAllowed(EffectiveAmount(req[r]))
  /\ Finish(r)
  /\ UNCHANGED <<orders, items, paid, handed>>

\* Mistake: a payment that completes nothing writes back the status it had read.
StatusReadBefore(q) ==
  IF q.payment = "paid" /\ ~Prepaid(q.order) THEN "completed" ELSE "open"

\* Mistake: a status the column does not know.
StatusSettled(q) ==
  IF q.payment = "paid" THEN "paid" ELSE orders[q.order].status

\* Mistake: what was paid is complete, wherever the order came from.
StatusOfAnyOrder(q) ==
  IF q.payment = "paid" THEN "completed" ELSE orders[q.order].status

\* A prepaid order stays open: its kitchen starts now.
StatusAfterPayment(q) ==
  IF q.payment = "paid" /\ ~Prepaid(q.order) THEN "completed"
                                              ELSE orders[q.order].status

PaymentCommit(r) ==
  /\ req[r].pc = "commitPayment"
  /\ LET q == req[r] IN
       /\ paid' = [paid EXCEPT ![q.order] = @ + q.amount]
       /\ orders' = [orders EXCEPT ![q.order].payment = q.payment,
                                   ![q.order].status = StatusAfterPayment(q)]
  /\ Finish(r)
  /\ UNCHANGED <<items, handed>>

-----------------------------------------------------------------------------
(* The two ends of a takeaway.                                             *)

RitiratoCheck(r, o) ==
  /\ Idling(r, "markAsportoRitirato") /\ Open(o) /\ orders[o].type = "takeaway"
  /\ req' = [req EXCEPT ![r] =
               [Idle EXCEPT !.pc = "serveItems", !.order = o,
                            !.total = orders[o].total, !.payment = orders[o].payment]]
  /\ UNCHANGED <<orders, items, paid, handed>>

\* One UPDATE over the rows of the order that are in status from.
UpdateRows(r, pc, from, st, next) ==
  /\ req[r].pc = pc
  /\ LET S == {i \in RowsOf(req[r].order) : items[i].status \in from} IN
       /\ Unlocked(r, S)
       /\ req' = [req EXCEPT ![r] =
                    Snapshot([WithRows(req[r], S, st) EXCEPT !.pc = next])]
  /\ UNCHANGED <<orders, items, paid, handed>>

\* WHERE status NOT IN ('served', 'cancelled').
RitiratoServe(r) ==
  UpdateRows(r, "serveItems", Live \ {"served"}, "served", "closeRitirato")

\* What is still to be collected at the counter, if it was not paid before.
DueAtPickup(q) == IF q.payment = "paid" THEN 0 ELSE q.total

\* Nothing due, or a payment the database accepts.
Collectable(q) == q.payment = "paid" \/ AmountAllowed(DueAtPickup(q))

\* UPDATE orders ... WHERE status = 'open', then payment and receipt.
RitiratoClose(r) ==
  /\ req[r].pc = "closeRitirato"
  /\ StillOpen(req[r].order) /\ Collectable(req[r])
  /\ LET q == req[r] IN
       /\ CommitItems(q)
       /\ \E t \in TriggerTotals(q) :
            orders' = [orders EXCEPT ![q.order].status = "completed",
                                     ![q.order].payment = "paid",
                                     ![q.order].total = t]
       /\ paid' = [paid EXCEPT ![q.order] = @ + DueAtPickup(q)]
       /\ handed' = [handed EXCEPT ![q.order] = @ + 1]
  /\ Finish(r)

\* Mistake: the UPDATE that found no open order is not answered.
RitiratoUnanswered(r) ==
  /\ req[r].pc = "closeRitirato"
  /\ StillOpen(req[r].order) /\ ~Collectable(req[r])
  /\ Finish(r)
  /\ UNCHANGED <<orders, items, paid, handed>>

\* Closed by another request meanwhile (409), or CHECK (amount > 0): ROLLBACK.
RitiratoRefused(r) ==
  /\ req[r].pc = "closeRitirato"
  /\ ~StillOpen(req[r].order) \/ ~Collectable(req[r])
  /\ Finish(r)
  /\ UNCHANGED <<orders, items, paid, handed>>

NoShowCheck(r, o) ==
  /\ Idling(r, "markAsportoNoShow") /\ Open(o) /\ orders[o].type = "takeaway"
  /\ req' = [req EXCEPT ![r] = [Idle EXCEPT !.pc = "stopItems", !.order = o]]
  /\ UNCHANGED <<orders, items, paid, handed>>

\* WHERE status IN ('pending', 'cooking'): what left the oven stays, finished or not.
NoShowStop(r) == UpdateRows(r, "stopItems", {"pending"}, "cancelled", "closeNoShow")

NoShowClose(r) ==
  /\ req[r].pc = "closeNoShow"
  /\ StillOpen(req[r].order)
  /\ LET q == req[r] IN
       /\ CommitItems(q)
       /\ \E t \in TriggerTotals(q) :
            orders' = [orders EXCEPT ![q.order].status = "cancelled",
                                     ![q.order].total = t]
       /\ handed' = [handed EXCEPT ![q.order] = @ + 1]
  /\ Finish(r)
  /\ UNCHANGED paid

NoShowRefused(r) ==
  /\ req[r].pc = "closeNoShow"
  /\ ~StillOpen(req[r].order)
  /\ Finish(r)
  /\ UNCHANGED <<orders, items, paid, handed>>

-----------------------------------------------------------------------------
(* cancelOrder: it looks at the status once, before its transaction.       *)

CancelCheck(r, o) ==
  /\ Idling(r, "cancelOrder") /\ Open(o)
  /\ req' = [req EXCEPT ![r] = [Idle EXCEPT !.pc = "cancelItems", !.order = o]]
  /\ UNCHANGED <<orders, items, paid, handed>>

\* Mistake: dishes that are ready are taken for sold.
CancelUnserved(r) == UpdateRows(r, "cancelItems", {"pending"}, "cancelled", "commitCancel")

CancelItems(r) == UpdateRows(r, "cancelItems", Live, "cancelled", "commitCancel")

CancelCommit(r) ==
  /\ req[r].pc = "commitCancel"
  /\ LET q == req[r] IN
       /\ CommitItems(q)
       /\ \E t \in TriggerTotals(q) :
            orders' = [orders EXCEPT ![q.order].status = "cancelled",
                                     ![q.order].total = t]
  /\ Finish(r)
  /\ UNCHANGED <<paid, handed>>

-----------------------------------------------------------------------------
Arrive(r) ==
  \/ \E o \in Orders : \/ AddItemsCheck(r, o) \/ PaymentCheck(r, o)
                       \/ RitiratoCheck(r, o) \/ NoShowCheck(r, o)
                       \/ CancelCheck(r, o)
  \/ \E i \in Items : CancelItem(r, i)
  \/ \E i \in Items, st \in Displays : UpdateItemStatus(r, i, st)

Continue(r) ==
  \/ AddItemsInsert(r) \/ AddItemsFail(r) \/ CommitItemRows(r)
  \/ PaymentSum(r) \/ PaymentInsert(r) \/ PaymentRefused(r) \/ PaymentCommit(r)
  \/ RitiratoServe(r) \/ RitiratoClose(r) \/ RitiratoRefused(r)
  \/ NoShowStop(r) \/ NoShowClose(r) \/ NoShowRefused(r)
  \/ CancelItems(r) \/ CancelCommit(r)

Next ==
  \/ \E o \in Orders : CreateOrder(o) \/ CreatePublicOrder(o)
  \/ \E r \in Requests : Arrive(r) \/ Continue(r)

Spec == Init /\ [][Next]_vars

\* A request that started goes on: the event loop and the database serve it.  The
\* statements that wait for row locks get their turn even if others come between,
\* because PostgreSQL serves the waiters for a row in order.
Fairness ==
  \A r \in Requests : /\ WF_vars(Continue(r))
                      /\ SF_vars(RitiratoServe(r))
                      /\ SF_vars(NoShowStop(r))
                      /\ SF_vars(CancelItems(r))

FairSpec == Spec /\ Fairness

-----------------------------------------------------------------------------
(* Properties.                                                             *)

TypeOK ==
  /\ orders \in [Orders -> OrderRow]
  /\ items \in [Items -> ItemRow]
  /\ paid \in [Orders -> Nat]
  /\ handed \in [Orders -> Nat]
  /\ req \in [Requests -> Request]

\* The payment flag of an order and its payments are written by one transaction
\* in two handlers: whatever they race with, an order is flagged as (partly)
\* paid exactly if money was recorded for it.
FlagMatchesPayments ==
  \A o \in Orders : orders[o].payment = "unpaid" <=> paid[o] = 0

\* "Ritirato" and "no-show" recheck status = 'open' in their UPDATE: of all the
\* clicks on one takeaway, by any number of clients, one is answered with success.
OneHandover == \A o \in Orders : handed[o] <= 1

\* A closed order never opens again, whatever the stale reads of the requests
\* that were under way when it closed.
ClosedForGood ==
  [][\A o \in Orders : orders[o].status \in {"completed", "cancelled"}
                          => orders'[o].status \in {"completed", "cancelled"}]_vars

\* Where nothing is added to a bill that is being paid and the kitchen brings no
\* cancelled dish back (SentBack is empty): a staff order of a table that was completed
\* is covered by its payments, although they were computed from totals that concurrent
\* cancellations made stale.
CompletedIsCovered ==
  \A o \in Orders :
    orders[o].status = "completed" /\ ~Prepaid(o)
      => paid[o] >= Cardinality({i \in RowsOf(o) : items[i].status \in Live})

\* Where nothing is added to an order, and the kitchen display neither brings a
\* cancelled dish back nor puts one back on the stove (SentBack is empty; releases,
\* which could do either, are the subject of ItemWorkflow): whatever
\* races with the cancellation, cancelOrder leaves no live row behind, and a no-show
\* only rows that had left the oven.  Of these the kitchen may still have
\* to finish some: markAsportoNoShow does not cancel a row in 'oven_done'.
CancelledIsEmpty ==
  \A o \in Orders :
    orders[o].status = "cancelled"
      => \A i \in RowsOf(o) : items[i].status \in Live =>
            items[i].status # "pending" /\ handed[o] > 0

\* Every request is answered: no one waits for ever for rows another one locked.
Answered == \A r \in Requests : req[r].pc # "idle" ~> req[r].pc = "idle"

\* A takeaway that was paid at the till is not collected again when it is handed
\* over: with cash alone, never more than all its rows are worth is recorded.
NoDoubleCollection ==
  \A o \in Orders : paid[o] <= Cardinality(RowsOf(o))

\* How an order was opened, for its life.
KindOf(o) ==
  IF orders[o].status = "absent" THEN "none"
  ELSE IF orders[o].type = "table" /\ orders[o].source = "qr" THEN "qrTable"
  ELSE orders[o].type

Opening    == [o \in Orders |-> KindOf(o)]
Progress   == [o \in Orders |-> orders[o].status]
HandedOver == {o \in Orders : handed[o] > 0}

Life == INSTANCE OrderLife WITH
          kind <- Opening, life <- Progress, money <- paid, handed <- HandedOver

\* The ledger keeps the promise of OrderLife: which event completes an order depends on
\* how it was opened, through all races, and nothing completes one from the QR menu at a
\* table.
ImplementsOrderLife == Life!Spec
=============================================================================
