------------------------ MODULE TableOccupancy_proofs ------------------------
(* What the lock of createOrder guarantees for any number of tables, orders and *)
(* waiters, and what the trigger and the handlers guarantee for requests that do*)
(* not overlap.                                                                 *)
EXTENDS TableOccupancy, TLAPS

\* Between its check and its INSERT, createOrder is alone with its table.
LockedAlone ==
  \A r \in Requests : req[r].pc = "insertOrder" =>
    /\ req[r].table \in Tables
    /\ StaffAt(req[r].table) = {}
    /\ \A q \in Requests :
         req[q].pc = "insertOrder" /\ req[q].table = req[r].table => q = r

\* OneStaffOrder is not inductive: what a request found at its check must still be
\* true at its INSERT.
OccupancyInv == TypeOK /\ LockedAlone /\ OneStaffOrder
-----------------------------------------------------------------------------
\* A request that goes on to its next statement is a well-formed request.
LEMMA GoType ==
  ASSUME TypeOK, NEW r \in Requests, NEW t \in Tables \cup {NoTable},
         NEW o \in Orders \cup Bookings \cup {Nothing},
         NEW pc \in {"idle", "insertOrder", "occupyTable", "commitPayment",
                     "commitCancel", "freeTable", "seat", "reserve", "occupySeated",
                     "lookUpOrders", "unreserve"},
         Go(r, pc, t, o)
  PROVE  req' \in [Requests -> Request]
BY DEF TypeOK, Go, Request

\* So is one that has been answered.
LEMMA FinishType ==
  ASSUME TypeOK, NEW r \in Requests, Finish(r)
  PROVE  req' \in [Requests -> Request]
BY DEF TypeOK, Finish, Idle, Request

\* The trigger writes statuses of tables only.
LEMMA TriggerType ==
  ASSUME TypeOK
  PROVE  /\ \A t \in Tables \cup {NoTable} : AfterOpening(t) \in [Tables -> Statuses]
         /\ \A o : AfterClosing(o) \in [Tables -> Statuses]
         /\ \A t \in Tables \cup {NoTable} : Unreserved(t) \in [Tables -> Statuses]
BY DEF TypeOK, AfterOpening, AfterClosing, Unreserved, Statuses

\* The rows that requests refer to.
LEMMA RequestType ==
  ASSUME TypeOK, NEW r \in Requests
  PROVE  /\ req[r].table \in Tables \cup {NoTable}
         /\ req[r].about \in Orders \cup Bookings \cup {Nothing}
BY DEF TypeOK, Request

\* Every step keeps statuses, rows and requests well formed.
LEMMA TypeStep == TypeOK /\ [Next]_vars => TypeOK'
<1> SUFFICES ASSUME TypeOK, [Next]_vars PROVE TypeOK'
  OBVIOUS
<1>1. ASSUME NEW r \in Requests, NEW t \in Tables, CreateCheck(r, t) \/ SeatCheck(r, t)
      PROVE  TypeOK'
  <2>1. req' \in [Requests -> Request]
    BY <1>1, GoType DEF CreateCheck, SeatCheck
  <2> QED
    BY <1>1, <2>1 DEF CreateCheck, SeatCheck, TypeOK
<1>2. ASSUME NEW r \in Requests, NEW o \in Orders, PayCheck(r, o) \/ CancelCheck(r, o)
      PROVE  TypeOK'
  <2>1. orders[o].table \in Tables \cup {NoTable}
    BY DEF TypeOK, OrderRow
  <2>2. req' \in [Requests -> Request]
    BY <1>2, <2>1, GoType DEF PayCheck, CancelCheck
  <2> QED
    BY <1>2, <2>2 DEF PayCheck, CancelCheck, TypeOK
<1>3. ASSUME NEW r \in Requests, NEW b \in Bookings,
             SeatReservation(r, b) \/ CancelReservation(r, b) \/ DeleteReservation(r, b)
      PROVE  TypeOK'
  <2>1. bookings[b].table \in Tables \cup {NoTable}
    BY DEF TypeOK, Booking
  <2>2. req' \in [Requests -> Request]
    BY <1>3, <2>1, GoType DEF SeatReservation, CancelReservation, DeleteReservation
  <2>3. bookings' \in [Bookings -> Booking]
    BY <1>3 DEF SeatReservation, CancelReservation, DeleteReservation, TypeOK, Booking
  <2> QED
    BY <1>3, <2>2, <2>3 DEF SeatReservation, CancelReservation, DeleteReservation, TypeOK
<1>4. ASSUME NEW r \in Requests, NEW o \in Orders, CreateInsert(r, o) PROVE TypeOK'
  <2>1. req' \in [Requests -> Request]
    BY <1>4, RequestType, GoType DEF CreateInsert
  <2>2. tables' \in [Tables -> Statuses]
    BY <1>4, RequestType, TriggerType DEF CreateInsert
  <2>3. orders' \in [Orders -> OrderRow]
    BY <1>4, RequestType DEF CreateInsert, TypeOK, OrderRow
  <2> QED
    BY <1>4, <2>1, <2>2, <2>3 DEF CreateInsert, TypeOK
<1>5. ASSUME NEW r \in Requests,
             \/ CreateFail(r) \/ CreateOccupy(r) \/ SeatTable(r) \/ CancelFree(r)
             \/ ReserveBooked(r) \/ OccupySeated(r)
      PROVE  TypeOK'
  <2>1. req' \in [Requests -> Request]
    BY <1>5, FinishType
       DEF CreateFail, CreateOccupy, SeatTable, CancelFree, ReserveBooked, OccupySeated
  <2>2. tables' \in [Tables -> Statuses]
    BY <1>5 DEF CreateFail, CreateOccupy, SeatTable, CancelFree, ReserveBooked, OccupySeated,
                TypeOK, Statuses
  <2> QED
    BY <1>5, <2>1, <2>2
       DEF CreateFail, CreateOccupy, SeatTable, CancelFree, ReserveBooked, OccupySeated, TypeOK
<1>6. ASSUME NEW r \in Requests, PayCommit(r) PROVE TypeOK'
  <2>1. req' \in [Requests -> Request]
    BY <1>6, FinishType DEF PayCommit
  <2>2. tables' \in [Tables -> Statuses]
    BY <1>6, RequestType, TriggerType DEF PayCommit, Statuses
  <2>3. orders' \in [Orders -> OrderRow]
    BY <1>6 DEF PayCommit, TypeOK, OrderRow
  <2> QED
    BY <1>6, <2>1, <2>2, <2>3 DEF PayCommit, TypeOK
<1>7. ASSUME NEW r \in Requests, CancelCommit(r) PROVE TypeOK'
  <2>1. req' \in [Requests -> Request]
    BY <1>7, RequestType, GoType DEF CancelCommit
  <2>2. tables' \in [Tables -> Statuses]
    BY <1>7, RequestType, TriggerType DEF CancelCommit
  <2>3. orders' \in [Orders -> OrderRow]
    BY <1>7 DEF CancelCommit, TypeOK, OrderRow
  <2> QED
    BY <1>7, <2>1, <2>2, <2>3 DEF CancelCommit, TypeOK
<1>8. ASSUME NEW r \in Requests, Unreserve(r) PROVE TypeOK'
  <2>1. req' \in [Requests -> Request]
    BY <1>8, FinishType DEF Unreserve
  <2> QED
    BY <1>8, <2>1, RequestType, TriggerType DEF Unreserve, TypeOK
<1>9. ASSUME NEW r \in Requests, AtOnce(r) PROVE TypeOK'
  BY <1>9 DEF AtOnce, CreatePublicOrder, MoveOrderTable, SetTableStatus, OpenDay, AfterOpening,
              TypeOK, OrderRow, Statuses
<1>10. CASE CheckUpcomingReservations
  BY <1>10 DEF CheckUpcomingReservations, ReserveAwaited, TypeOK, Statuses
<1>11. ASSUME NEW b \in Bookings, TimePasses(b) PROVE TypeOK'
  BY <1>11 DEF TimePasses, TypeOK, Booking
<1>12. ASSUME NEW r \in Requests, NEW b \in Bookings, NEW t \in Tables,
              NEW due \in {"later", "within4h", "within1h", "past"},
              CreateReservation(r, b, t, due)
       PROVE  TypeOK'
  <2>1. req' \in [Requests -> Request]
    BY <1>12, GoType DEF CreateReservation
  <2>2. bookings' \in [Bookings -> Booking]
    BY <1>12 DEF CreateReservation, TypeOK, Booking
  <2> QED
    BY <1>12, <2>1, <2>2 DEF CreateReservation, TypeOK
<1>13. ASSUME NEW r \in Requests, LookUpOrders(r) PROVE TypeOK'
  <2>1. req' \in [Requests -> Request]
    BY <1>13, RequestType, GoType, FinishType DEF LookUpOrders
  <2> QED
    BY <1>13, <2>1 DEF LookUpOrders, TypeOK
<1>14. CASE UNCHANGED vars
  BY <1>14 DEF vars, TypeOK
<1> QED
  BY <1>1, <1>2, <1>3, <1>4, <1>5, <1>6, <1>7, <1>8, <1>9, <1>10, <1>11, <1>12, <1>13, <1>14
     DEF Next, Arrive, Continue

\* In the initial state no order is open and no request is under way.
LEMMA InitOccupancy == Init => OccupancyInv
<1> SUFFICES ASSUME Init PROVE OccupancyInv
  OBVIOUS
<1>1. TypeOK
  BY DEF Init, TypeOK, Statuses, OrderRow, Booking, Request, Idle
<1>2. LockedAlone
  BY DEF Init, LockedAlone, Idle
<1>3. OneStaffOrder
  BY DEF Init, OneStaffOrder, StaffAt, OpenAt
<1> QED
  BY <1>1, <1>2, <1>3 DEF OccupancyInv

\* Statuses, rows and requests stay well formed in every reachable state.
THEOREM TypeCorrect == Spec => []TypeOK
<1>1. Init => TypeOK
  BY InitOccupancy DEF OccupancyInv
<1> QED
  BY <1>1, TypeStep, PTL DEF Spec

\* A step after which no staff order is open that was not open before, and in which
\* nobody passes the check of createOrder, keeps the invariant.
LEMMA NothingOpened ==
  ASSUME OccupancyInv, TypeOK',
         \A t \in Tables : StaffAt(t)' \subseteq StaffAt(t),
         \A r \in Requests : req'[r].pc = "insertOrder" => req'[r] = req[r]
  PROVE  OccupancyInv'
<1>1. OneStaffOrder'
  BY DEF OccupancyInv, OneStaffOrder
<1>2. LockedAlone'
  <2> SUFFICES ASSUME NEW r \in Requests, req'[r].pc = "insertOrder"
               PROVE  /\ req'[r].table \in Tables
                      /\ StaffAt(req[r].table)' = {}
                      /\ \A q \in Requests :
                           req'[q].pc = "insertOrder" /\ req'[q].table = req'[r].table
                             => q = r
    BY DEF LockedAlone
  <2> QED
    BY DEF OccupancyInv, LockedAlone
<1> QED
  BY <1>1, <1>2 DEF OccupancyInv

\* A request that goes on to anything but the INSERT of createOrder, and one that is
\* answered, passes no check of createOrder.
LEMMA NobodyEnters ==
  ASSUME TypeOK, NEW r \in Requests,
         \/ Finish(r)
         \/ UNCHANGED req
         \/ \E pc \in {"occupyTable", "commitPayment", "commitCancel", "freeTable",
                       "seat", "reserve", "occupySeated", "lookUpOrders", "unreserve"} :
              \E t \in Tables \cup {NoTable}, x \in Orders \cup Bookings \cup {Nothing} :
                Go(r, pc, t, x)
  PROVE  \A q \in Requests : req'[q].pc = "insertOrder" => req'[q] = req[q]
BY DEF TypeOK, Finish, Idle, Go

\* Orders that are untouched, or only lose their status 'open', open nothing.
LEMMA NoOrderOpened ==
  ASSUME TypeOK,
         \A o \in Orders : \/ orders'[o] = orders[o]
                           \/ orders'[o].status # "open"
                           \/ orders'[o].source = "qr"
  PROVE  \A t \in Tables : StaffAt(t)' \subseteq StaffAt(t)
BY DEF StaffAt, OpenAt

\* The check of createOrder: its table is locked and has no open order.
LEMMA CheckStep ==
  ASSUME OccupancyInv, TypeOK', NEW r \in Requests, NEW t \in Tables, CreateCheck(r, t)
  PROVE  OccupancyInv'
<1>1. \A u \in Tables : StaffAt(u)' = StaffAt(u)
  BY DEF CreateCheck, StaffAt, OpenAt
<1>2. OneStaffOrder'
  BY <1>1 DEF OccupancyInv, OneStaffOrder
<1>3. /\ req'[r].table = t
      /\ \A q \in Requests \ {r} : req'[q] = req[q]
  BY DEF CreateCheck, Go, OccupancyInv, TypeOK
<1>4. StaffAt(t) = {}
  BY DEF CreateCheck, StaffAt
<1>5. \A q \in Requests \ {r} : req[q].pc = "insertOrder" => req[q].table # t
  BY DEF CreateCheck, Locked
<1>6. LockedAlone'
  <2> SUFFICES ASSUME NEW q \in Requests, req'[q].pc = "insertOrder"
               PROVE  /\ req'[q].table \in Tables
                      /\ StaffAt(req[q].table)' = {}
                      /\ \A p \in Requests :
                           req'[p].pc = "insertOrder" /\ req'[p].table = req'[q].table
                             => p = q
    BY DEF LockedAlone
  <2>1. CASE q = r
    BY <2>1, <1>1, <1>3, <1>4, <1>5
  <2>2. CASE q # r
    BY <2>2, <1>1, <1>3, <1>5 DEF OccupancyInv, LockedAlone
  <2> QED
    BY <2>1, <2>2
<1> QED
  BY <1>2, <1>6 DEF OccupancyInv

\* The INSERT of createOrder: the only staff order at a table nobody else has locked.
LEMMA InsertStep ==
  ASSUME OccupancyInv, TypeOK', NEW r \in Requests, NEW o \in Orders, CreateInsert(r, o)
  PROVE  OccupancyInv'
<1>1. PICK t \in Tables : req[r].table = t /\ StaffAt(t) = {}
  BY DEF CreateInsert, OccupancyInv, LockedAlone
<1>2. /\ orders'[o] = [status |-> "open", table |-> t, source |-> "staff"]
      /\ \A p \in Orders \ {o} : orders'[p] = orders[p]
  BY <1>1 DEF CreateInsert, OccupancyInv, TypeOK
<1>3. StaffAt(t)' \subseteq {o} /\ \A u \in Tables \ {t} : StaffAt(u)' \subseteq StaffAt(u)
  BY <1>1, <1>2 DEF StaffAt, OpenAt
<1>4. OneStaffOrder'
  <2> SUFFICES ASSUME NEW u \in Tables PROVE \A p, q \in StaffAt(u)' : p = q
    BY DEF OneStaffOrder
  <2> QED
    BY <1>3 DEF OccupancyInv, OneStaffOrder
<1>5. \A q \in Requests : req'[q].pc = "insertOrder" =>
        req'[q] = req[q] /\ req[q].table # t
  <2>1. req'[r].pc # "insertOrder" /\ \A q \in Requests \ {r} : req'[q] = req[q]
    BY DEF CreateInsert, Go, OccupancyInv, TypeOK
  <2> QED
    BY <2>1, <1>1 DEF CreateInsert, OccupancyInv, LockedAlone
<1>6. LockedAlone'
  <2> SUFFICES ASSUME NEW q \in Requests, req'[q].pc = "insertOrder"
               PROVE  /\ req'[q].table \in Tables
                      /\ StaffAt(req[q].table)' = {}
                      /\ \A p \in Requests :
                           req'[p].pc = "insertOrder" /\ req'[p].table = req'[q].table
                             => p = q
    BY DEF LockedAlone
  <2>1. req[q].table \in Tables \ {t} /\ StaffAt(req[q].table) = {}
    BY <1>5 DEF OccupancyInv, LockedAlone
  <2>2. PICK u \in Tables \ {t} : req[q].table = u /\ req'[q].table = u
    BY <2>1, <1>5
  <2>3. StaffAt(u)' = {}
    BY <2>1, <2>2, <1>3
  <2> QED
    BY <2>2, <2>3, <1>5 DEF OccupancyInv, LockedAlone
<1> QED
  BY <1>4, <1>6 DEF OccupancyInv

\* Without moveOrderTable, which trusts the status of the table it moves to, every
\* step keeps the invariant.
LEMMA OccupancyStep ==
  ASSUME "moveOrderTable" \notin Handlers, OccupancyInv, [Next]_vars
  PROVE  OccupancyInv'
<1>1. TypeOK'
  BY TypeStep DEF OccupancyInv
<1>2. ASSUME NEW r \in Requests, NEW t \in Tables, CreateCheck(r, t) PROVE OccupancyInv'
  BY <1>1, <1>2, CheckStep
<1>3. ASSUME NEW r \in Requests, NEW o \in Orders, CreateInsert(r, o) PROVE OccupancyInv'
  BY <1>1, <1>3, InsertStep
<1>4. ASSUME NEW r \in Requests, NEW t \in Tables, SeatCheck(r, t) PROVE OccupancyInv'
  <2>1. \A u \in Tables : StaffAt(u)' \subseteq StaffAt(u)
    BY <1>4, NoOrderOpened DEF SeatCheck, OccupancyInv
  <2>2. \A q \in Requests : req'[q].pc = "insertOrder" => req'[q] = req[q]
    BY <1>4, NobodyEnters DEF SeatCheck, OccupancyInv
  <2> QED
    BY <1>1, <2>1, <2>2, NothingOpened
<1>5. ASSUME NEW r \in Requests, NEW o \in Orders, PayCheck(r, o) \/ CancelCheck(r, o)
      PROVE  OccupancyInv'
  <2>1. \A u \in Tables : StaffAt(u)' \subseteq StaffAt(u)
    BY <1>5, NoOrderOpened DEF PayCheck, CancelCheck, OccupancyInv
  <2>2. orders[o].table \in Tables \cup {NoTable}
    BY DEF OccupancyInv, TypeOK, OrderRow
  <2>3. \A q \in Requests : req'[q].pc = "insertOrder" => req'[q] = req[q]
    BY <1>5, <2>2, NobodyEnters DEF PayCheck, CancelCheck, OccupancyInv
  <2> QED
    BY <1>1, <2>1, <2>3, NothingOpened
<1>6. ASSUME NEW r \in Requests, NEW b \in Bookings,
             SeatReservation(r, b) \/ CancelReservation(r, b) \/ DeleteReservation(r, b)
      PROVE  OccupancyInv'
  <2>1. \A u \in Tables : StaffAt(u)' \subseteq StaffAt(u)
    BY <1>6, NoOrderOpened
       DEF SeatReservation, CancelReservation, DeleteReservation, OccupancyInv
  <2>2. bookings[b].table \in Tables \cup {NoTable}
    BY DEF OccupancyInv, TypeOK, Booking
  <2>3. \A q \in Requests : req'[q].pc = "insertOrder" => req'[q] = req[q]
    BY <1>6, <2>2, NobodyEnters
       DEF SeatReservation, CancelReservation, DeleteReservation, OccupancyInv
  <2> QED
    BY <1>1, <2>1, <2>3, NothingOpened
<1>7. ASSUME NEW r \in Requests,
             \/ CreateFail(r) \/ CreateOccupy(r) \/ CancelFree(r) \/ SeatTable(r)
             \/ ReserveBooked(r) \/ OccupySeated(r) \/ LookUpOrders(r) \/ Unreserve(r)
      PROVE  OccupancyInv'
  <2>1. \A u \in Tables : StaffAt(u)' \subseteq StaffAt(u)
    BY <1>7, NoOrderOpened
       DEF CreateFail, CreateOccupy, CancelFree, SeatTable, ReserveBooked, OccupySeated,
           LookUpOrders, Unreserve, OccupancyInv
  <2>2. \A q \in Requests : req'[q].pc = "insertOrder" => req'[q] = req[q]
    BY <1>7, RequestType, NobodyEnters
       DEF CreateFail, CreateOccupy, CancelFree, SeatTable, ReserveBooked, OccupySeated,
           LookUpOrders, Unreserve, OccupancyInv
  <2> QED
    BY <1>1, <2>1, <2>2, NothingOpened
<1>8. ASSUME NEW r \in Requests, PayCommit(r) \/ CancelCommit(r) PROVE OccupancyInv'
  <2>1. \A o \in Orders : orders'[o] = orders[o] \/ orders'[o].status # "open"
    BY <1>8 DEF PayCommit, CancelCommit, OccupancyInv, TypeOK, OrderRow
  <2>2. \A u \in Tables : StaffAt(u)' \subseteq StaffAt(u)
    BY <2>1, NoOrderOpened DEF OccupancyInv
  <2>3. \A q \in Requests : req'[q].pc = "insertOrder" => req'[q] = req[q]
    BY <1>8, RequestType, NobodyEnters DEF PayCommit, CancelCommit, OccupancyInv
  <2> QED
    BY <1>1, <2>2, <2>3, NothingOpened
<1>9. ASSUME NEW r \in Requests, AtOnce(r) PROVE OccupancyInv'
  <2>1. \A o \in Orders : orders'[o] = orders[o] \/ orders'[o].source = "qr"
    <3>1. \A o \in Orders, t \in Tables : ~MoveOrderTable(r, o, t)
      BY DEF MoveOrderTable, Idling
    <3> QED
      BY <1>9, <3>1 DEF AtOnce, CreatePublicOrder, SetTableStatus, OpenDay, OccupancyInv, TypeOK
  <2>2. \A u \in Tables : StaffAt(u)' \subseteq StaffAt(u)
    BY <2>1, NoOrderOpened DEF OccupancyInv
  <2>3. UNCHANGED req
    BY <1>9 DEF AtOnce, CreatePublicOrder, MoveOrderTable, SetTableStatus, OpenDay
  <2> QED
    BY <1>1, <2>2, <2>3, NothingOpened
<1>10. ASSUME UNCHANGED <<orders, req>> PROVE OccupancyInv'
  <2>1. \A u \in Tables : StaffAt(u)' \subseteq StaffAt(u)
    BY <1>10, NoOrderOpened DEF OccupancyInv
  <2> QED
    BY <1>1, <1>10, <2>1, NothingOpened
<1>11. ASSUME NEW r \in Requests, NEW b \in Bookings, NEW t \in Tables,
              NEW due \in {"later", "within4h", "within1h", "past"},
              CreateReservation(r, b, t, due)
       PROVE  OccupancyInv'
  <2>1. \A u \in Tables : StaffAt(u)' \subseteq StaffAt(u)
    BY <1>11, NoOrderOpened DEF CreateReservation, OccupancyInv
  <2>2. \A q \in Requests : req'[q].pc = "insertOrder" => req'[q] = req[q]
    BY <1>11, NobodyEnters DEF CreateReservation, OccupancyInv
  <2> QED
    BY <1>1, <2>1, <2>2, NothingOpened
<1> QED
  BY <1>2, <1>3, <1>4, <1>5, <1>6, <1>7, <1>8, <1>9, <1>10, <1>11
     DEF Next, Arrive, Continue, TimePasses, CheckUpcomingReservations, ReserveAwaited, vars

\* However many waiters open, pay and cancel orders, seat and book at however many
\* tables, no table has two open orders of the staff: as long as no order is moved.
THEOREM OneStaffOrderAtATable ==
  ASSUME "moveOrderTable" \notin Handlers
  PROVE  Spec => []OneStaffOrder
<1>1. OccupancyInv /\ [Next]_vars => OccupancyInv'
  BY OccupancyStep
<1>2. OccupancyInv => OneStaffOrder
  BY DEF OccupancyInv
<1> QED
  BY <1>1, <1>2, InitOccupancy, PTL DEF Spec

-----------------------------------------------------------------------------
(* One request at a time: the trigger and the UPDATEs of the handlers agree.    *)

\* The handlers that say nothing of orders, or join whoever sits at the table.
NotSyncing == {"createPublicOrder", "setTableStatus", "seatReservation"}

\* A table is shown as occupied exactly when it has an open order; createOrder may
\* still have to say so.
Shown(t) ==
  \/ tables[t] = "occupied" <=> OpenAt(t) # {}
  \/ OpenAt(t) # {} /\ \E r \in Requests : req[r].pc = "occupyTable" /\ req[r].table = t

OneOpenOrder ==
  \A o \in Orders : orders[o].status = "open" =>
    /\ orders[o].table \in Tables
    /\ \A p \in OpenAt(orders[o].table) : p = o

\* What a request read is still so when it writes; nobody has seated a booking.
StillSo(r) ==
  /\ req[r].pc # "occupySeated"
  /\ req[r].pc \in {"insertOrder", "freeTable", "seat"} =>
       req[r].table \in Tables /\ OpenAt(req[r].table) = {}
  /\ req[r].pc = "occupyTable" =>
       req[r].table \in Tables /\ OpenAt(req[r].table) # {}
  /\ req[r].pc \in {"commitPayment", "commitCancel"} =>
       req[r].about \in OpenAt(req[r].table)

SerialInv ==
  /\ TypeOK
  /\ OneOpenOrder
  /\ \A t \in Tables : Shown(t)
  /\ \A r \in Requests : StillSo(r)

\* In the initial state no table is occupied and no order is open.
LEMMA InitSerial == Init => SerialInv
<1> SUFFICES ASSUME Init PROVE SerialInv
  OBVIOUS
<1>1. TypeOK
  BY InitOccupancy DEF OccupancyInv
<1>2. OneOpenOrder /\ \A t \in Tables : Shown(t)
  BY DEF Init, OneOpenOrder, Shown, OpenAt
<1>3. \A r \in Requests : StillSo(r)
  BY DEF Init, StillSo, Idle
<1> QED
  BY <1>1, <1>2, <1>3 DEF SerialInv

\* A step that leaves the orders alone, makes no table occupied or not occupied, and
\* does not answer a createOrder that has something to say.
LEMMA Quietly ==
  ASSUME SerialInv, TypeOK', UNCHANGED orders,
         \A t \in Tables : tables'[t] = "occupied" <=> tables[t] = "occupied",
         \A r \in Requests : req[r].pc = "occupyTable" => req'[r] = req[r],
         \A r \in Requests : req'[r] = req[r] \/ StillSo(r)'
  PROVE  SerialInv'
<1>1. \A t : OpenAt(t)' = OpenAt(t)
  BY DEF OpenAt
<1>2. OneOpenOrder'
  BY <1>1 DEF SerialInv, OneOpenOrder
<1>3. \A t \in Tables : Shown(t)'
  BY <1>1 DEF SerialInv, Shown
<1>4. \A r \in Requests : StillSo(r)'
  BY <1>1 DEF SerialInv, StillSo
<1> QED
  BY <1>2, <1>3, <1>4 DEF SerialInv

\* With one request in flight, a table that has no open order is not occupied, and a
\* table that has one is, unless the request is createOrder's last UPDATE.
LEMMA ShownNow ==
  ASSUME SerialInv, NEW r \in Requests, \A q \in Requests : q = r,
         NEW t \in Tables, OpenAt(t) = {} \/ req[r].pc # "occupyTable"
  PROVE  tables[t] = "occupied" <=> OpenAt(t) # {}
BY DEF SerialInv, Shown

\* The steps that only read, and those that write statuses of tables without orders.
LEMMA QuietStep ==
  ASSUME SerialInv, TypeOK', NEW r \in Requests, \A q \in Requests : q = r,
         \/ \E t \in Tables : CreateCheck(r, t) \/ SeatCheck(r, t)
         \/ \E o \in Orders : PayCheck(r, o) \/ CancelCheck(r, o)
         \/ \E b \in Bookings :
              \/ CancelReservation(r, b) \/ DeleteReservation(r, b)
              \/ \E t \in Tables, due \in {"later", "within4h", "within1h", "past"} :
                   CreateReservation(r, b, t, due)
         \/ CreateFail(r) \/ CancelFree(r) \/ SeatTable(r) \/ ReserveBooked(r)
         \/ LookUpOrders(r) \/ Unreserve(r)
  PROVE  SerialInv'
<1>1. UNCHANGED orders /\ \A t : OpenAt(t)' = OpenAt(t)
  BY DEF CreateCheck, SeatCheck, PayCheck, CancelCheck, CancelReservation, DeleteReservation,
         CreateReservation, CreateFail, CancelFree, SeatTable, ReserveBooked, LookUpOrders,
         Unreserve, OpenAt
<1>2. req[r].pc # "occupyTable"
  BY DEF CreateCheck, SeatCheck, PayCheck, CancelCheck, CancelReservation, DeleteReservation,
         CreateReservation, CreateFail, CancelFree, SeatTable, ReserveBooked, LookUpOrders,
         Unreserve, Idling
<1>3. \A t \in Tables : tables'[t] = "occupied" <=> tables[t] = "occupied"
  <2>1. CASE UNCHANGED tables
    BY <2>1
  <2>2. CASE CancelFree(r) \/ SeatTable(r)
    <3>1. PICK u \in Tables : u = req[r].table /\ OpenAt(u) = {}
      BY <2>2 DEF CancelFree, SeatTable, SerialInv, StillSo
    <3>2. tables[u] # "occupied"
      BY <3>1, ShownNow
    <3> QED
      BY <2>2, <3>1, <3>2 DEF CancelFree, SeatTable, SerialInv, TypeOK
  <2>3. CASE Unreserve(r) \/ ReserveBooked(r)
    BY <2>3 DEF Unreserve, Unreserved, ReserveBooked, SerialInv, TypeOK
  <2> QED
    BY <2>1, <2>2, <2>3 DEF CreateCheck, SeatCheck, PayCheck, CancelCheck, CancelReservation,
                            DeleteReservation, CreateReservation, CreateFail, LookUpOrders
<1>4. req' = req \/ StillSo(r)'
  <2>1. ASSUME NEW t \in Tables, CreateCheck(r, t) PROVE StillSo(r)'
    BY <2>1, <1>1 DEF CreateCheck, Go, StillSo, SerialInv, TypeOK
  <2>2. ASSUME NEW t \in Tables, SeatCheck(r, t) PROVE StillSo(r)'
    <3>1. OpenAt(t) = {}
      BY <2>2, <1>2, ShownNow DEF SeatCheck
    <3> QED
      BY <2>2, <3>1, <1>1 DEF SeatCheck, Go, StillSo, SerialInv, TypeOK
  <2>3. ASSUME NEW o \in Orders, PayCheck(r, o) \/ CancelCheck(r, o) PROVE StillSo(r)'
    <3>1. o \in OpenAt(orders[o].table)
      BY <2>3 DEF PayCheck, CancelCheck, OpenAt
    <3>2. req'[r].pc \in {"commitPayment", "commitCancel"}
          /\ req'[r].about = o /\ req'[r].table = orders[o].table
      BY <2>3 DEF PayCheck, CancelCheck, Go, SerialInv, TypeOK
    <3> QED
      BY <3>1, <3>2, <1>1 DEF StillSo
  <2>4. ASSUME NEW b \in Bookings, CancelReservation(r, b) \/ DeleteReservation(r, b)
        PROVE  req' = req \/ StillSo(r)'
    BY <2>4 DEF CancelReservation, DeleteReservation, Go, StillSo, SerialInv, TypeOK
  <2>5. CASE Finish(r)
    BY <2>5 DEF Finish, Idle, StillSo, SerialInv, TypeOK
  <2>6. ASSUME NEW b \in Bookings, NEW t \in Tables,
               NEW due \in {"later", "within4h", "within1h", "past"},
               CreateReservation(r, b, t, due)
        PROVE  StillSo(r)'
    BY <2>6 DEF CreateReservation, Go, StillSo, SerialInv, TypeOK
  <2>7. CASE LookUpOrders(r)
    BY <2>5, <2>7 DEF LookUpOrders, Go, StillSo, SerialInv, TypeOK
  <2> QED
    BY <2>1, <2>2, <2>3, <2>4, <2>5, <2>6, <2>7
       DEF CreateFail, CancelFree, SeatTable, ReserveBooked, Unreserve
<1> QED
  BY <1>1, <1>2, <1>3, <1>4, Quietly

\* The opening of the day and the timer: free, dirty and reserved tables.
LEMMA RoomStep ==
  ASSUME SerialInv, TypeOK', UNCHANGED <<orders, req>>,
         \A t \in Tables : \/ tables'[t] = tables[t]
                           \/ /\ tables[t] \in {"free", "dirty"}
                              /\ tables'[t] \in {"free", "reserved"}
  PROVE  SerialInv'
BY Quietly

\* The INSERT of createOrder, with the trigger.
LEMMA SerialInsert ==
  ASSUME SerialInv, TypeOK', NEW r \in Requests, \A q \in Requests : q = r,
         NEW o \in Orders, CreateInsert(r, o)
  PROVE  SerialInv'
<1>1. PICK t \in Tables : req[r].table = t /\ OpenAt(t) = {}
  BY DEF CreateInsert, SerialInv, StillSo
<1>2. /\ orders'[o] = [status |-> "open", table |-> t, source |-> "staff"]
      /\ \A p \in Orders \ {o} : orders'[p] = orders[p]
  BY <1>1 DEF CreateInsert, SerialInv, TypeOK
<1>3. orders[o].status = "absent"
  BY DEF CreateInsert
<1>4. OpenAt(t)' = {o} /\ \A u \in Tables \ {t} : OpenAt(u)' = OpenAt(u)
  BY <1>1, <1>2, <1>3 DEF OpenAt
<1>5. req'[r].pc = "occupyTable" /\ req'[r].table = t
  BY <1>1 DEF CreateInsert, Go, SerialInv, TypeOK
<1>6. OneOpenOrder'
  <2> SUFFICES ASSUME NEW p \in Orders, orders'[p].status = "open"
               PROVE  orders'[p].table \in Tables /\ \A q \in OpenAt(orders[p].table)' : q = p
    BY DEF OneOpenOrder
  <2>1. CASE p = o
    BY <2>1, <1>2, <1>4
  <2>2. CASE p # o
    <3>1. PICK u \in Tables : u = orders[p].table /\ u = orders'[p].table /\ p \in OpenAt(u)
      BY <2>2, <1>2 DEF SerialInv, OneOpenOrder, OpenAt
    <3>2. u # t
      BY <3>1, <1>1
    <3> QED
      BY <3>1, <3>2, <2>2, <1>2, <1>4 DEF SerialInv, OneOpenOrder
  <2> QED
    BY <2>1, <2>2
<1>7. \A u \in Tables : Shown(u)'
  <2> SUFFICES ASSUME NEW u \in Tables PROVE Shown(u)'
    OBVIOUS
  <2>1. CASE u = t
    BY <2>1, <1>4, <1>5 DEF Shown
  <2>2. CASE u # t
    <3>1. tables[u] = "occupied" <=> OpenAt(u) # {}
      BY ShownNow DEF CreateInsert
    <3>2. tables'[u] = tables[u]
      BY <2>2, <1>1 DEF CreateInsert, AfterOpening, SerialInv, TypeOK
    <3> QED
      BY <3>1, <3>2, <2>2, <1>4 DEF Shown
  <2> QED
    BY <2>1, <2>2
<1>8. \A q \in Requests : StillSo(q)'
  BY <1>4, <1>5 DEF StillSo
<1> QED
  BY <1>6, <1>7, <1>8 DEF SerialInv

\* The UPDATE after the COMMIT of createOrder.
LEMMA SerialOccupy ==
  ASSUME SerialInv, TypeOK', NEW r \in Requests, \A q \in Requests : q = r, CreateOccupy(r)
  PROVE  SerialInv'
<1>1. PICK t \in Tables : req[r].table = t /\ OpenAt(t) # {}
  BY DEF CreateOccupy, SerialInv, StillSo
<1>2. \A u : OpenAt(u)' = OpenAt(u)
  BY DEF CreateOccupy, OpenAt
<1>3. tables'[t] = "occupied" /\ \A u \in Tables \ {t} : tables'[u] = tables[u]
  BY <1>1 DEF CreateOccupy, SerialInv, TypeOK
<1>4. \A u \in Tables : Shown(u)'
  BY <1>1, <1>2, <1>3 DEF SerialInv, Shown
<1>5. \A q \in Requests : StillSo(q)'
  BY DEF CreateOccupy, Finish, Idle, StillSo, SerialInv, TypeOK
<1>6. OneOpenOrder'
  BY <1>2 DEF CreateOccupy, SerialInv, OneOpenOrder
<1> QED
  BY <1>4, <1>5, <1>6 DEF SerialInv

\* The COMMIT of the last payment or of the cancellation, with the trigger: the one
\* open order of a table closes, and the table is dirty.
LEMMA SerialClose ==
  ASSUME SerialInv, TypeOK', NEW r \in Requests, \A q \in Requests : q = r,
         PayCommit(r) \/ CancelCommit(r)
  PROVE  SerialInv'
<1>1. PICK o \in Orders : req[r].about = o /\ o \in OpenAt(req[r].table)
  BY DEF PayCommit, CancelCommit, SerialInv, StillSo, OpenAt
<1>2. PICK t \in Tables : t = req[r].table /\ t = orders[o].table
                          /\ orders[o].status = "open" /\ \A p \in OpenAt(t) : p = o
  BY <1>1 DEF SerialInv, OneOpenOrder, OpenAt
<1>3. /\ orders'[o].status # "open"
      /\ \A p \in Orders \ {o} : orders'[p] = orders[p]
  BY <1>1 DEF PayCommit, CancelCommit, SerialInv, TypeOK, OrderRow
<1>4. OpenAt(t)' = {} /\ \A u \in Tables \ {t} : OpenAt(u)' = OpenAt(u)
  BY <1>2, <1>3 DEF OpenAt
<1>5. tables[t] = "occupied"
  BY <1>2, <1>1, ShownNow DEF PayCommit, CancelCommit
<1>6. tables'[t] = "dirty" /\ \A u \in Tables \ {t} : tables'[u] = tables[u]
  <2>1. AfterClosing(o)[t] = "dirty" /\ \A u \in Tables \ {t} : AfterClosing(o)[u] = tables[u]
    BY <1>2, <1>5 DEF AfterClosing
  <2>2. tables' = AfterClosing(o) \/ tables' = [AfterClosing(o) EXCEPT ![t] = "dirty"]
    BY <1>1, <1>2 DEF PayCommit, CancelCommit
  <2>3. DOMAIN AfterClosing(o) = Tables
    BY DEF AfterClosing
  <2> QED
    BY <2>1, <2>2, <2>3
<1>7. OneOpenOrder'
  <2> SUFFICES ASSUME NEW p \in Orders, orders'[p].status = "open"
               PROVE  orders'[p].table \in Tables /\ \A q \in OpenAt(orders[p].table)' : q = p
    BY DEF OneOpenOrder
  <2>1. p # o /\ orders'[p] = orders[p]
    BY <1>3
  <2>2. orders[p].table \in Tables /\ \A q \in OpenAt(orders[p].table) : q = p
    BY <2>1 DEF SerialInv, OneOpenOrder
  <2>3. OpenAt(orders[p].table)' \subseteq OpenAt(orders[p].table)
    BY <2>1, <2>2, <1>3 DEF OpenAt
  <2> QED
    BY <2>1, <2>2, <2>3, <1>4
<1>8. \A u \in Tables : Shown(u)'
  <2> SUFFICES ASSUME NEW u \in Tables PROVE tables'[u] = "occupied" <=> OpenAt(u)' # {}
    BY DEF Shown
  <2>1. CASE u = t
    BY <2>1, <1>4, <1>6
  <2>2. CASE u # t
    <3>1. tables[u] = "occupied" <=> OpenAt(u) # {}
      BY ShownNow DEF PayCommit, CancelCommit
    <3> QED
      BY <3>1, <2>2, <1>4, <1>6
  <2> QED
    BY <2>1, <2>2
<1>9. \A q \in Requests : StillSo(q)'
  <2>1. req'[r].pc = "idle" \/ (req'[r].pc = "freeTable" /\ req'[r].table = t)
    BY <1>2 DEF PayCommit, CancelCommit, Go, Finish, Idle, SerialInv, TypeOK
  <2> QED
    BY <2>1, <1>4 DEF StillSo
<1> QED
  BY <1>7, <1>8, <1>9 DEF SerialInv

\* A move: the one open order of a table goes to a table that is not occupied.
LEMMA SerialMove ==
  ASSUME SerialInv, TypeOK', NEW r \in Requests, \A q \in Requests : q = r,
         NEW o \in Orders, NEW t \in Tables, MoveOrderTable(r, o, t)
  PROVE  SerialInv'
<1>1. PICK s \in Tables \ {t} : s = orders[o].table /\ orders[o].status = "open"
                                /\ \A p \in OpenAt(s) : p = o
  BY DEF MoveOrderTable, SerialInv, OneOpenOrder
<1>2. OpenAt(t) = {}
  BY ShownNow DEF MoveOrderTable, Idling
<1>3. /\ orders'[o].status = "open" /\ orders'[o].table = t
      /\ \A p \in Orders \ {o} : orders'[p] = orders[p]
  BY <1>1 DEF MoveOrderTable, SerialInv, TypeOK, OrderRow
<1>4. /\ OpenAt(t)' = {o} /\ OpenAt(s)' = {}
      /\ \A u \in Tables \ {s, t} : OpenAt(u)' = OpenAt(u)
  BY <1>1, <1>2, <1>3 DEF OpenAt
<1>5. /\ tables'[t] = "occupied" /\ tables'[s] = "dirty"
      /\ \A u \in Tables \ {s, t} : tables'[u] = tables[u]
  BY <1>1 DEF MoveOrderTable, SerialInv, TypeOK
<1>6. OneOpenOrder'
  <2> SUFFICES ASSUME NEW p \in Orders, orders'[p].status = "open"
               PROVE  orders'[p].table \in Tables /\ \A q \in OpenAt(orders[p].table)' : q = p
    BY DEF OneOpenOrder
  <2>1. CASE p = o
    BY <2>1, <1>3, <1>4
  <2>2. CASE p # o
    <3>1. PICK u \in Tables : u = orders[p].table /\ u = orders'[p].table /\ p \in OpenAt(u)
                              /\ \A q \in OpenAt(u) : q = p
      BY <2>2, <1>3 DEF SerialInv, OneOpenOrder, OpenAt
    <3>2. u # t /\ u # s
      BY <3>1, <2>2, <1>1, <1>2
    <3> QED
      BY <3>1, <3>2, <1>4
  <2> QED
    BY <2>1, <2>2
<1>7. \A u \in Tables : Shown(u)'
  <2> SUFFICES ASSUME NEW u \in Tables PROVE tables'[u] = "occupied" <=> OpenAt(u)' # {}
    BY DEF Shown
  <2>1. CASE u \in {s, t}
    BY <2>1, <1>4, <1>5
  <2>2. CASE u \notin {s, t}
    <3>1. tables[u] = "occupied" <=> OpenAt(u) # {}
      BY ShownNow DEF MoveOrderTable, Idling
    <3> QED
      BY <3>1, <2>2, <1>4, <1>5
  <2> QED
    BY <2>1, <2>2
<1>8. \A q \in Requests : StillSo(q)'
  BY DEF MoveOrderTable, Idling, StillSo
<1> QED
  BY <1>6, <1>7, <1>8 DEF SerialInv

\* Every step of a server that works on one request at a time.
LEMMA SerialStep ==
  ASSUME \A q, r \in Requests : q = r, Handlers \cap NotSyncing = {},
         SerialInv, [Next]_vars
  PROVE  SerialInv'
<1>1. TypeOK'
  BY TypeStep DEF SerialInv
<1>2. ASSUME NEW r \in Requests, Arrive(r) PROVE SerialInv'
  <2>1. \A b \in Bookings : ~SeatReservation(r, b)
    BY DEF NotSyncing, SeatReservation, Idling
  <2> QED
    BY <1>1, <1>2, <2>1, QuietStep DEF Arrive
<1>3. ASSUME NEW r \in Requests, Continue(r) PROVE SerialInv'
  <2>1. ~OccupySeated(r)
    BY DEF OccupySeated, SerialInv, StillSo
  <2> QED
    BY <1>1, <1>3, <2>1, QuietStep, SerialInsert, SerialOccupy, SerialClose DEF Continue
<1>4. ASSUME NEW r \in Requests, AtOnce(r) PROVE SerialInv'
  <2>1. ASSUME NEW o \in Orders, NEW t \in Tables, MoveOrderTable(r, o, t) PROVE SerialInv'
    BY <1>1, <2>1, SerialMove
  <2>2. CASE OpenDay(r)
    <3>1. \A u \in Tables : \/ tables'[u] = tables[u]
                            \/ tables[u] = "dirty" /\ tables'[u] = "free"
      BY <2>2 DEF OpenDay
    <3> QED
      BY <1>1, <2>2, <3>1, RoomStep DEF OpenDay
  <2>3. /\ \A o \in Orders, t \in Tables : ~CreatePublicOrder(r, o, t)
        /\ \A t \in Tables, status \in Statuses : ~SetTableStatus(r, t, status)
    BY DEF NotSyncing, CreatePublicOrder, SetTableStatus, Idling
  <2> QED
    BY <1>4, <2>1, <2>2, <2>3 DEF AtOnce
<1>5. CASE CheckUpcomingReservations
  <2>1. \A u \in Tables : \/ tables'[u] = tables[u]
                          \/ tables[u] = "free" /\ tables'[u] = "reserved"
    BY <1>5 DEF CheckUpcomingReservations, ReserveAwaited
  <2> QED
    BY <1>1, <1>5, <2>1, RoomStep DEF CheckUpcomingReservations, ReserveAwaited
<1>6. ASSUME UNCHANGED <<tables, orders, req>> PROVE SerialInv'
  BY <1>1, <1>6, RoomStep
<1> QED
  BY <1>2, <1>3, <1>4, <1>5, <1>6 DEF Next, TimePasses, vars

\* One request at a time: the trigger and the UPDATEs of createOrder, processPayment,
\* cancelOrder and moveOrderTable, each of which writes the table its own way, agree
\* that a table is occupied exactly while it has an open order.
THEOREM TablesInSync ==
  ASSUME \A q, r \in Requests : q = r, Handlers \cap NotSyncing = {}
  PROVE  Spec => []TableInSync
<1>1. SerialInv /\ [Next]_vars => SerialInv'
  BY SerialStep
<1>2. SerialInv => TableInSync
  BY DEF SerialInv, Shown, TableInSync, OpenOrderIsShown, OccupiedHasOrder, Quiet
<1> QED
  BY <1>1, <1>2, InitSerial, PTL DEF Spec

\* One request at a time the moves of orders are harmless too: moveOrderTable then finds
\* at its target what the status of the target says, and joins no two open orders.
THEOREM OneStaffOrderInTurn ==
  ASSUME \A q, r \in Requests : q = r, Handlers \cap NotSyncing = {}
  PROVE  Spec => []OneStaffOrder
<1>1. SerialInv /\ [Next]_vars => SerialInv'
  BY SerialStep
<1>2. SerialInv => OneStaffOrder
  BY DEF SerialInv, OneOpenOrder, OneStaffOrder, StaffAt, OpenAt
<1> QED
  BY <1>1, <1>2, InitSerial, PTL DEF Spec
=============================================================================
