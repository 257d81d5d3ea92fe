----------------------------- MODULE TableOccupancy -----------------------------
(***************************************************************************)
(* The status of the tables of the room, and the handlers that write it:   *)
(* orders that open, move and close, guests who are seated, bookings, the  *)
(* opening of the day, and the trigger orders_sync_table_status.           *)
(*                                                                         *)
(* A request is split where another one can come between two of its        *)
(* statements: after a read or a write outside a transaction, and before   *)
(* an UPDATE of the table that follows the COMMIT.  SELECT ... FOR UPDATE  *)
(* on the row of a table makes every other writer of that row wait.        *)
(***************************************************************************)
CONSTANTS
  Tables,      \* tables of the room
  Orders,      \* orders that may be opened at a table
  Bookings,    \* rows of reservations, each for one table
  Requests,    \* HTTP requests the server works on at the same time
  Handlers,    \* the handlers that are called in this instance
  NoTable,     \* the table of an order or request that has none
  Nothing      \* a request that is about no order and no reservation

AllHandlers ==
  {"createOrder", "createPublicOrder", "processPayment", "cancelOrder",
   "moveOrderTable", "setTableStatus", "seatTable", "openDay",
   "createReservation", "seatReservation", "cancelReservation", "deleteReservation"}

ASSUME OccupancyAssumption ==
  /\ Handlers \subseteq AllHandlers
  /\ NoTable \notin Tables
  /\ Nothing \notin Orders \cup Bookings

VARIABLES
  tables,      \* status of each table
  orders,      \* status, table and source of each order
  bookings,    \* status, table and nearness of each reservation
  req          \* where each request in flight is

vars == <<tables, orders, bookings, req>>

-----------------------------------------------------------------------------
Statuses == {"free", "seated", "occupied", "parked", "dirty", "reserved"}
OrderRow == [status : {"absent", "open", "completed", "cancelled"},
             table  : Tables \cup {NoTable},
             source : {"staff", "qr"}]
Booking  == [status : {"none", "confirmed", "seated", "cancelled", "deleted"},
             table  : Tables \cup {NoTable},
             due    : {"later", "within4h", "within1h", "past"}]
Request  == [pc    : {"idle", "insertOrder", "occupyTable", "commitPayment",
                      "commitCancel", "freeTable", "seat", "reserve", "occupySeated",
                      "lookUpOrders", "unreserve"},
             table : Tables \cup {NoTable},
             about : Orders \cup Bookings \cup {Nothing}]

Idle == [pc |-> "idle", table |-> NoTable, about |-> Nothing]

Init ==
  /\ tables = [t \in Tables |-> "free"]
  /\ orders = [o \in Orders |-> [status |-> "absent", table |-> NoTable, source |-> "staff"]]
  /\ bookings = [b \in Bookings |-> [status |-> "none", table |-> NoTable, due |-> "later"]]
  /\ req = [r \in Requests |-> Idle]

-----------------------------------------------------------------------------
OpenAt(t) == {o \in Orders : orders[o].status = "open" /\ orders[o].table = t}

StaffAt(t) == {o \in OpenAt(t) : orders[o].source = "staff"}

Idling(r, h) == req[r].pc = "idle" /\ h \in Handlers

Go(r, pc, t, x) == req' = [req EXCEPT ![r] = [pc |-> pc, table |-> t, about |-> x]]

Finish(r) == req' = [req EXCEPT ![r] = Idle]

\* Only createOrder holds the row of a table from one step to a later one.
Locked(t) == \E r \in Requests : req[r].pc = "insertOrder" /\ req[r].table = t

\* Mistake: the table is given the status of its order.
AfterOpeningAsOrder(t) == [tables EXCEPT ![t] = "open"]

\* The two branches of the trigger orders_sync_table_status.
AfterOpening(t) ==
  [tables EXCEPT ![t] = IF @ \in {"occupied", "seated"} THEN @ ELSE "occupied"]

AfterClosing(o) ==
  [t \in Tables |->
     IF /\ orders[o].status = "open" /\ orders[o].table = t
        /\ tables[t] \in {"occupied", "seated"}
     THEN "dirty" ELSE tables[t]]

-----------------------------------------------------------------------------
(* createOrder and createPublicOrder.                                      *)

\* Mistake: the table is not locked while its open orders are looked up.
CreateCheckUnguarded(r, t) ==
  /\ Idling(r, "createOrder")
  /\ OpenAt(t) = {}
  /\ Go(r, "insertOrder", t, Nothing)
  /\ UNCHANGED <<tables, orders, bookings>>

\* SELECT ... FOR UPDATE on the table, then: no open order there.
CreateCheck(r, t) ==
  /\ Idling(r, "createOrder")
  /\ ~Locked(t) /\ OpenAt(t) = {}
  /\ Go(r, "insertOrder", t, Nothing)
  /\ UNCHANGED <<tables, orders, bookings>>

\* INSERT, trigger and COMMIT: the lock is released.
CreateInsert(r, o) ==
  /\ req[r].pc = "insertOrder" /\ orders[o].status = "absent"
  /\ orders' = [orders EXCEPT ![o] = [status |-> "open", table |-> req[r].table,
                                      source |-> "staff"]]
  /\ tables' = AfterOpening(req[r].table)
  /\ Go(r, "occupyTable", req[r].table, o)
  /\ UNCHANGED bookings

\* An item that cannot be inserted: ROLLBACK.
CreateFail(r) ==
  /\ req[r].pc = "insertOrder"
  /\ Finish(r)
  /\ UNCHANGED <<tables, orders, bookings>>

\* After the COMMIT, whatever became of the order since.
CreateOccupy(r) ==
  /\ req[r].pc = "occupyTable" /\ ~Locked(req[r].table)
  /\ tables' = [tables EXCEPT ![req[r].table] = "occupied"]
  /\ Finish(r)
  /\ UNCHANGED <<orders, bookings>>

\* The self-order inserts without looking; its foreign key waits for the lock.
CreatePublicOrder(r, o, t) ==
  /\ Idling(r, "createPublicOrder")
  /\ orders[o].status = "absent" /\ ~Locked(t)
  /\ orders' = [orders EXCEPT ![o] = [status |-> "open", table |-> t, source |-> "qr"]]
  /\ tables' = AfterOpening(t)
  /\ UNCHANGED <<bookings, req>>

-----------------------------------------------------------------------------
(* processPayment of the last part of a bill, cancelOrder, moveOrderTable. *)

\* A self-order is prepaid: its payment touches neither its status nor the table.
PayCheck(r, o) ==
  /\ Idling(r, "processPayment")
  /\ orders[o].status = "open" /\ orders[o].source = "staff"
  /\ Go(r, "commitPayment", orders[o].table, o)
  /\ UNCHANGED <<tables, orders, bookings>>

\* The trigger looks at the table the order is at now, the handler at the one it
\* read before.
PayCommit(r) ==
  /\ req[r].pc = "commitPayment"
  /\ ~Locked(req[r].table) /\ ~Locked(orders[req[r].about].table)
  /\ orders' = [orders EXCEPT ![req[r].about].status = "completed"]
  /\ tables' = [AfterClosing(req[r].about) EXCEPT ![req[r].table] = "dirty"]
  /\ Finish(r)
  /\ UNCHANGED bookings

CancelCheck(r, o) ==
  /\ Idling(r, "cancelOrder") /\ orders[o].status = "open"
  /\ Go(r, "commitCancel", orders[o].table, o)
  /\ UNCHANGED <<tables, orders, bookings>>

CancelCommit(r) ==
  /\ req[r].pc = "commitCancel" /\ ~Locked(orders[req[r].about].table)
  /\ orders' = [orders EXCEPT ![req[r].about].status = "cancelled"]
  /\ tables' = AfterClosing(req[r].about)
  /\ Go(r, "freeTable", req[r].table, req[r].about)
  /\ UNCHANGED bookings

\* After the COMMIT, whoever sits at the table by then.
CancelFree(r) ==
  /\ req[r].pc = "freeTable" /\ ~Locked(req[r].table)
  /\ tables' = [tables EXCEPT ![req[r].table] = "free"]
  /\ Finish(r)
  /\ UNCHANGED <<orders, bookings>>

\* Mistake: the table the guests left is not updated.
MoveKeepsOrigin(r, o, t) ==
  /\ Idling(r, "moveOrderTable")
  /\ orders[o].status = "open" /\ orders[o].table # t
  /\ tables[t] \in {"free", "dirty", "reserved"}
  /\ ~Locked(t) /\ ~Locked(orders[o].table)
  /\ orders' = [orders EXCEPT ![o].table = t]
  /\ tables' = [tables EXCEPT ![t] = "occupied"]
  /\ UNCHANGED <<bookings, req>>

\* One transaction that locks the order and both tables.
MoveOrderTable(r, o, t) ==
  /\ Idling(r, "moveOrderTable")
  /\ orders[o].status = "open" /\ orders[o].table # t
  /\ tables[t] \in {"free", "dirty", "reserved"}
  /\ ~Locked(t) /\ ~Locked(orders[o].table)
  /\ orders' = [orders EXCEPT ![o].table = t]
  /\ tables' = [tables EXCEPT ![orders[o].table] = "dirty", ![t] = "occupied"]
  /\ UNCHANGED <<bookings, req>>

-----------------------------------------------------------------------------
(* The room: setTableStatus, seatTable, openDay.                           *)

SetTableStatus(r, t, status) ==
  /\ Idling(r, "setTableStatus") /\ ~Locked(t)
  /\ tables' = [tables EXCEPT ![t] = status]
  /\ UNCHANGED <<orders, bookings, req>>

SeatCheck(r, t) ==
  /\ Idling(r, "seatTable") /\ tables[t] \in {"free", "reserved"}
  /\ Go(r, "seat", t, Nothing)
  /\ UNCHANGED <<tables, orders, bookings>>

SeatTable(r) ==
  /\ req[r].pc = "seat" /\ ~Locked(req[r].table)
  /\ tables' = [tables EXCEPT ![req[r].table] = "seated"]
  /\ Finish(r)
  /\ UNCHANGED <<orders, bookings>>

OpenDay(r) ==
  /\ Idling(r, "openDay")
  /\ \A t \in Tables : tables[t] = "dirty" => ~Locked(t)
  /\ tables' = [t \in Tables |-> IF tables[t] = "dirty" THEN "free" ELSE tables[t]]
  /\ UNCHANGED <<orders, bookings, req>>

-----------------------------------------------------------------------------
(* Bookings.                                                               *)

\* The INSERT commits by itself; its foreign key waits for the lock.
CreateReservation(r, b, t, due) ==
  /\ Idling(r, "createReservation")
  /\ bookings[b].status = "none" /\ ~Locked(t)
  /\ bookings' = [bookings EXCEPT ![b] = [status |-> "confirmed", table |-> t, due |-> due]]
  /\ Go(r, "reserve", t, b)
  /\ UNCHANGED <<tables, orders>>

\* Then the table, if it is free and the booking is for today and within four hours,
\* whatever became of the booking since.
ReserveBooked(r) ==
  /\ req[r].pc = "reserve" /\ ~Locked(req[r].table)
  /\ tables' = [tables EXCEPT ![req[r].table] =
       IF @ = "free" /\ bookings[req[r].about].due # "later" THEN "reserved" ELSE @]
  /\ Finish(r)
  /\ UNCHANGED <<orders, bookings>>

\* updateReservation with status 'seated' or 'cancelled', of a booking in any status:
\* the reservation first, its table by a later UPDATE.
SeatReservation(r, b) ==
  /\ Idling(r, "seatReservation")
  /\ bookings[b].status \notin {"none", "deleted"}
  /\ bookings' = [bookings EXCEPT ![b].status = "seated"]
  /\ Go(r, "occupySeated", bookings[b].table, Nothing)
  /\ UNCHANGED <<tables, orders>>

OccupySeated(r) ==
  /\ req[r].pc = "occupySeated" /\ ~Locked(req[r].table)
  /\ tables' = [tables EXCEPT ![req[r].table] = "occupied"]
  /\ Finish(r)
  /\ UNCHANGED <<orders, bookings>>

CancelReservation(r, b) ==
  /\ Idling(r, "cancelReservation")
  /\ bookings[b].status \notin {"none", "deleted"}
  /\ bookings' = [bookings EXCEPT ![b].status = "cancelled"]
  /\ Go(r, "lookUpOrders", bookings[b].table, Nothing)
  /\ UNCHANGED <<tables, orders>>

\* The table is freed only if it has no open order.
LookUpOrders(r) ==
  /\ req[r].pc = "lookUpOrders"
  /\ IF OpenAt(req[r].table) = {} THEN Go(r, "unreserve", req[r].table, Nothing) ELSE Finish(r)
  /\ UNCHANGED <<tables, orders, bookings>>

\* UPDATE ... SET status = 'free' ... WHERE status = 'reserved'.
Unreserved(t) == [tables EXCEPT ![t] = IF @ = "reserved" THEN "free" ELSE @]

Unreserve(r) ==
  /\ req[r].pc = "unreserve" /\ ~Locked(req[r].table)
  /\ tables' = Unreserved(req[r].table)
  /\ Finish(r)
  /\ UNCHANGED <<orders, bookings>>

\* DELETE, then the same UPDATE without looking at the orders of the table.
DeleteReservation(r, b) ==
  /\ Idling(r, "deleteReservation")
  /\ bookings[b].status \notin {"none", "deleted"}
  /\ bookings' = [bookings EXCEPT ![b].status = "deleted"]
  /\ Go(r, "unreserve", bookings[b].table, Nothing)
  /\ UNCHANGED <<tables, orders>>

\* A confirmed booking of table t that is as near as due says.
Awaited(t, due) ==
  \E b \in Bookings : bookings[b] = [status |-> "confirmed", table |-> t, due |-> due]

\* One UPDATE over the free tables with such a booking.
ReserveAwaited(due) ==
  /\ \E t \in Tables : tables[t] = "free" /\ Awaited(t, due)
  /\ \A t \in Tables : tables[t] = "free" /\ Awaited(t, due) => ~Locked(t)
  /\ tables' = [t \in Tables |-> IF tables[t] = "free" /\ Awaited(t, due)
                                 THEN "reserved" ELSE tables[t]]
  /\ UNCHANGED <<orders, bookings, req>>

\* Mistake: the guests of a booking are expected when their hour has passed.
CheckTooLate == ReserveAwaited("past")

\* serviceTimer, every 30 seconds: the bookings that begin within the hour, or
\* began in the last half hour.
CheckUpcomingReservations == ReserveAwaited("within1h")

TimePasses(b) ==
  /\ bookings[b].status # "none" /\ bookings[b].due # "past"
  /\ bookings' = [bookings EXCEPT ![b].due =
                    CASE @ = "later" -> "within4h"
                      [] @ = "within4h" -> "within1h"
                      [] @ = "within1h" -> "past"]
  /\ UNCHANGED <<tables, orders, req>>

-----------------------------------------------------------------------------
Arrive(r) ==
  \/ \E t \in Tables : CreateCheck(r, t) \/ SeatCheck(r, t)
  \/ \E o \in Orders : PayCheck(r, o) \/ CancelCheck(r, o)
  \/ \E b \in Bookings, t \in Tables, due \in {"later", "within4h", "within1h", "past"} :
       CreateReservation(r, b, t, due)
  \/ \E b \in Bookings :
       SeatReservation(r, b) \/ CancelReservation(r, b) \/ DeleteReservation(r, b)

Continue(r) ==
  \/ \E o \in Orders : CreateInsert(r, o)
  \/ CreateFail(r) \/ CreateOccupy(r) \/ PayCommit(r) \/ CancelCommit(r)
  \/ CancelFree(r) \/ SeatTable(r) \/ ReserveBooked(r) \/ OccupySeated(r)
  \/ LookUpOrders(r) \/ Unreserve(r)

\* Requests of a single statement or a single transaction.
AtOnce(r) ==
  \/ \E o \in Orders, t \in Tables : CreatePublicOrder(r, o, t) \/ MoveOrderTable(r, o, t)
  \/ \E t \in Tables, status \in Statuses : SetTableStatus(r, t, status)
  \/ OpenDay(r)

Next ==
  \/ \E r \in Requests : Arrive(r) \/ Continue(r) \/ AtOnce(r)
  \/ \E b \in Bookings : TimePasses(b)
  \/ CheckUpcomingReservations

Spec == Init /\ [][Next]_vars

\* The timer ticks for ever, requests that started go on, and the waiters for a
\* locked row are served in order.
Fairness ==
  /\ SF_vars(CheckUpcomingReservations)
  /\ \A r \in Requests : SF_vars(Continue(r))

FairSpec == Spec /\ Fairness

-----------------------------------------------------------------------------
(* Properties.                                                             *)

TypeOK ==
  /\ tables \in [Tables -> Statuses]
  /\ orders \in [Orders -> OrderRow]
  /\ bookings \in [Bookings -> Booking]
  /\ req \in [Requests -> Request]

\* createOrder answers "Tavolo ha gia' un ordine aperto" for a table that has one:
\* two waiters who open the same table at the same time do not open it twice.
OneStaffOrder ==
  \A t \in Tables : \A o, p \in StaffAt(t) : o = p

Quiet == \A r \in Requests : req[r].pc = "idle"

\* "Auto-sync table status when order opens/closes": when nothing is under way, a
\* table with an open order is shown as occupied ...
OpenOrderIsShown ==
  Quiet => \A t \in Tables : OpenAt(t) # {} => tables[t] = "occupied"

\* ... and a table shown as occupied has an open order.
OccupiedHasOrder ==
  Quiet => \A t \in Tables : tables[t] = "occupied" => OpenAt(t) # {}

\* The trigger and the UPDATEs of the handlers, one request at a time, keep the
\* status of a table and its orders together.
TableInSync == OpenOrderIsShown /\ OccupiedHasOrder

\* A free table whose booking is due is reserved in time, even if the
\* cancellation of an order or of another booking frees it again in between: as long as
\* the ticks of the timer commit (a due alert may undo them, see ServiceTimer).
ReservedInTime ==
  \A t \in Tables : (tables[t] = "free" /\ Awaited(t, "within1h"))
                       ~> (tables[t] # "free" \/ ~Awaited(t, "within1h"))
=============================================================================
