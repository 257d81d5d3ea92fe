------------------------------ MODULE ItemWorkflow ------------------------------
(***************************************************************************)
(* The dishes of one order on their way through the house: held back by    *)
(* the waiter, by the comandista or until a takeaway is paid; scheduled;   *)
(* released; cooked; served or cancelled.  Written by the kitchen          *)
(* (kds.controller.js), the room (workflow.controller.js,                  *)
(* orders.controller.js), the pass (comandista.controller.js,              *)
(* pushAction.controller.js), the till and the service timer.              *)
(*                                                                         *)
(* A handler that looks at a dish in one statement and writes it in        *)
(* another is two actions; one whose UPDATE carries its own condition is   *)
(* one.  Left out are rows of extra charges, which are no dishes, and      *)
(* released_at, which only says on which screen a waiting dish is shown.   *)
(***************************************************************************)
CONSTANTS
  Dishes,      \* rows of order_items the order may come to hold
  Requests,    \* HTTP requests the server works on at the same time
  NoDish       \* the dish of a request that has none

ASSUME WorkflowAssumption == NoDish \notin Dishes

VARIABLES
  order,       \* kind of the order, whether it is open and paid, and the tenant's
               \* requires_dispatch
  dishes,      \* order_items
  req          \* what each request in flight found and means to write

vars == <<order, dishes, req>>

-----------------------------------------------------------------------------
Order == [kind       : {"table", "qrTable", "takeaway"},
          open       : BOOLEAN,
          paid       : BOOLEAN,
          comandista : BOOLEAN]
Dish  == [workflow : {"none", "waiting", "production", "delivered"},
          status   : {"none", "pending", "cooking", "oven_done", "ready", "served",
                     "cancelled"},
          timer    : {"none", "future", "due"},       \* fire_at
          hold     : BOOLEAN,                         \* is_manual_hold
          stamped  : BOOLEAN]                         \* served_at IS NOT NULL
Request == [pc   : {"idle", "insert", "kds", "release", "deliver", "answer",
                    "setTimer", "clearTimer", "dispatch", "fireTakeaway"},
            dish : Dishes \cup {NoDish},
            want : {"none", "cooking", "oven_done", "ready", "served"}]

Idle   == [pc |-> "idle", dish |-> NoDish, want |-> "none"]
NoRow  == [workflow |-> "none", status |-> "none", timer |-> "none", hold |-> FALSE,
           stamped |-> FALSE]

Init ==
  /\ order \in {o \in Order : o.open /\ ~o.paid}
  /\ dishes = [d \in Dishes |-> NoRow]
  /\ req = [r \in Requests |-> Idle]

-----------------------------------------------------------------------------
Exists(d) == dishes[d].status # "none"

Waiting(d) == dishes[d].workflow = "waiting"

Over(d) == dishes[d].status \in {"served", "cancelled"}

Go(r, pc, d, want) == req' = [req EXCEPT ![r] = [pc |-> pc, dish |-> d, want |-> want]]

Finish(r) == req' = [req EXCEPT ![r] = Idle]

\* UPDATE order_items SET ... WHERE id = d.
Write(d, row) == dishes' = [dishes EXCEPT ![d] = row]

\* UPDATE order_items SET ... of every dish in S.
WriteAll(S, Row(_)) ==
  dishes' = [d \in Dishes |-> IF d \in S THEN Row(dishes[d]) ELSE dishes[d]]

Released(row) == [row EXCEPT !.workflow = "production", !.status = "pending"]

\* Mistake: the name that the other column has for a dish that was brought.
ServedAsDelivered(row) == [row EXCEPT !.status = "delivered", !.stamped = TRUE]

Served(row) == [row EXCEPT !.status = "served", !.stamped = TRUE]

Cancelled(row) == [row EXCEPT !.status = "cancelled"]

-----------------------------------------------------------------------------
(* The room: dishes are ordered, held, scheduled and released.             *)

\* A dish as it is inserted: choice and timed are the waiter's, held says whether
\* the server holds back what the waiter wants cooked.
Born(choice, timed, held) ==
  LET workflow == IF choice = "production" /\ held THEN "waiting" ELSE choice IN
  [NoRow EXCEPT !.workflow = workflow,
                !.status   = IF workflow = "delivered" THEN "served" ELSE "pending",
                !.stamped  = workflow = "delivered",
                !.timer    = IF workflow = "waiting" /\ timed THEN "future" ELSE "none",
                !.hold     = choice = "waiting" /\ ~timed]

InsertCheck(r) ==
  /\ req[r].pc = "idle" /\ order.open
  /\ Go(r, "insert", NoDish, "none")
  /\ UNCHANGED <<order, dishes>>

\* The server holds back a dish of a takeaway or of the QR menu, and one for the
\* comandista; a combo, a drink or a pizza it never holds back for the comandista.
\* The client sends minutes only along with the choice to wait.
Insert(r, d) ==
  /\ req[r].pc = "insert" /\ ~Exists(d)
  /\ \E choice \in {"waiting", "production", "delivered"}, timed, held \in BOOLEAN :
       /\ timed => choice = "waiting"
       /\ held => order.kind # "table" \/ order.comandista
       /\ Write(d, Born(choice, timed, held))
  /\ Finish(r)
  /\ UNCHANGED order

\* changeWorkflowStatus: the transition is checked before BEGIN.
WorkflowCheck(r, d) ==
  /\ req[r].pc = "idle"
  /\ \/ Waiting(d) /\ Go(r, "release", d, "none")
     \/ dishes[d].workflow = "production" /\ Go(r, "deliver", d, "none")
  /\ UNCHANGED <<order, dishes>>

Release(r) ==
  /\ req[r].pc = "release"
  /\ LET d == req[r].dish IN Write(d, [Released(dishes[d]) EXCEPT !.hold = FALSE])
  /\ Finish(r)
  /\ UNCHANGED order

Deliver(r) ==
  /\ req[r].pc = "deliver"
  /\ LET d == req[r].dish IN Write(d, [dishes[d] EXCEPT !.workflow = "delivered"])
  /\ Finish(r)
  /\ UNCHANGED order

\* respondToAlert(release), for a dish that was found waiting.  The timer raises
\* that alert where there is no comandista; an alert is supposed for every dish.
AnswerCheck(r, d) ==
  /\ req[r].pc = "idle" /\ ~order.comandista /\ Waiting(d)
  /\ Go(r, "answer", d, "none")
  /\ UNCHANGED <<order, dishes>>

Answer(r) ==
  /\ req[r].pc = "answer"
  /\ LET d == req[r].dish IN Write(d, Released(dishes[d]))
  /\ Finish(r)
  /\ UNCHANGED order

\* setItemFireAt: with minutes, or without.
FireAtCheck(r, d) ==
  /\ req[r].pc = "idle" /\ order.open
  /\ dishes[d].status \in {"pending", "cooking"}
  /\ \E pc \in {"setTimer", "clearTimer"} : Go(r, pc, d, "none")
  /\ UNCHANGED <<order, dishes>>

\* Mistake: a timer leaves the manual hold as it is.
ScheduledKeepingHold(row) == [row EXCEPT !.timer = "future", !.workflow = "waiting"]

Scheduled(row) ==
  [row EXCEPT !.timer = "future", !.workflow = "waiting", !.hold = FALSE]

SetTimer(r) ==
  /\ req[r].pc = "setTimer"
  /\ LET d == req[r].dish IN Write(d, Scheduled(dishes[d]))
  /\ Finish(r)
  /\ UNCHANGED order

ClearTimer(r) ==
  /\ req[r].pc = "clearTimer"
  /\ LET d == req[r].dish IN
       Write(d, [dishes[d] EXCEPT !.timer = "none", !.hold = Waiting(d) \/ @])
  /\ Finish(r)
  /\ UNCHANGED order

\* dispatchOrder, "INIZIA TAVOLO".
DispatchCheck(r) ==
  /\ req[r].pc = "idle" /\ order.open
  /\ Go(r, "dispatch", NoDish, "none")
  /\ UNCHANGED <<order, dishes>>

DispatchOrder(r) ==
  /\ req[r].pc = "dispatch"
  /\ WriteAll({d \in Dishes : Waiting(d) /\ ~dishes[d].hold /\ dishes[d].timer # "future"},
              LAMBDA row : [row EXCEPT !.workflow = "production", !.timer = "none"])
  /\ Finish(r)
  /\ UNCHANGED order

-----------------------------------------------------------------------------
(* The kitchen and the pass.                                               *)

\* updateItemStatus refuses dishes that wait, and lets no served one come back.
KdsCheck(r, d, status) ==
  /\ req[r].pc = "idle"
  /\ Exists(d) /\ ~Waiting(d)
  /\ (dishes[d].status = "served" \/ dishes[d].stamped) => status = "served"
  /\ Go(r, "kds", d, status)
  /\ UNCHANGED <<order, dishes>>

KdsUpdate(r) ==
  /\ req[r].pc = "kds"
  /\ LET d == req[r].dish IN
       Write(d, IF req[r].want = "served" THEN Served(dishes[d])
                ELSE [dishes[d] EXCEPT !.status = req[r].want])
  /\ Finish(r)
  /\ UNCHANGED order

\* Mistake: only the status is looked at, never the stamp, and a served dish is
\* left out of nothing.
BatchAnything(d, status) ==
  Exists(d) /\ (status # "cancelled" => ~Waiting(d))

\* The conditions that batchUpdateStatus has in its UPDATE.
BatchAllowed(d, status) ==
  /\ Exists(d)
  /\ status # "cancelled" => ~Waiting(d)
  /\ status \in {"cooking", "oven_done", "ready"} => dishes[d].status # "served" /\ ~dishes[d].stamped

BatchUpdateStatus(S, status) ==
  /\ WriteAll({d \in S : BatchAllowed(d, status)},
              LAMBDA row : IF status = "served" THEN Served(row)
                           ELSE [row EXCEPT !.status = status])
  /\ UNCHANGED <<order, req>>

\* confirmPickup, and the buttons of a push notification.
ConfirmPickup(S) ==
  /\ WriteAll({d \in S : dishes[d].status = "ready"}, Served)
  /\ UNCHANGED <<order, req>>

-----------------------------------------------------------------------------
(* The timer.                                                              *)

TimePasses(d) ==
  /\ dishes[d].timer = "future"
  /\ Write(d, [dishes[d] EXCEPT !.timer = "due"])
  /\ UNCHANGED <<order, req>>

Due(d) == Waiting(d) /\ dishes[d].timer = "due"

\* One statement of the tick's transaction, and with it rolled back when an alert
\* cannot be stored (ServiceTimer): nothing is assumed about when it happens.
CheckScheduledFires ==
  /\ \E d \in Dishes : Due(d)
  /\ WriteAll({d \in Dishes : Due(d)}, Released)
  /\ UNCHANGED <<order, req>>

-----------------------------------------------------------------------------
(* Cancelling, paying and closing.                                         *)

\* cancelItem: takes back the stamp of a served dish.
CancelItem(d) ==
  /\ Exists(d) /\ dishes[d].status # "cancelled"
  /\ Write(d, [Cancelled(dishes[d]) EXCEPT !.stamped = @ /\ dishes[d].status # "served"])
  /\ UNCHANGED <<order, req>>

\* deleteItem, setItemQuantity(0) and the status "cancelled" from the kitchen.
DeleteItem(d) ==
  /\ Exists(d)
  /\ Write(d, Cancelled(dishes[d]))
  /\ UNCHANGED <<order, req>>

\* processPayment in full: an order of the staff at a table closes, any other one
\* goes on, and its dishes are fired after the COMMIT.
ProcessPayment(r) ==
  /\ order.open /\ req[r].pc = "idle"
  /\ order' = [order EXCEPT !.paid = TRUE, !.open = order.kind # "table"]
  /\ IF order.kind = "table" THEN UNCHANGED req
                             ELSE Go(r, "fireTakeaway", NoDish, "none")
  /\ UNCHANGED dishes

FireTakeawayItems(r) ==
  /\ req[r].pc = "fireTakeaway"
  /\ WriteAll({d \in Dishes : Waiting(d) /\ dishes[d].status # "cancelled"},
              LAMBDA row : [row EXCEPT !.workflow = "production", !.timer = "none",
                                       !.hold = FALSE])
  /\ Finish(r)
  /\ UNCHANGED order

\* "Best effort": an error is logged, and the payment stands.
FireTakeawayFails(r) ==
  /\ req[r].pc = "fireTakeaway"
  /\ Finish(r)
  /\ UNCHANGED <<order, dishes>>

MarkAsportoRitirato ==
  /\ order.open /\ order.kind = "takeaway"
  /\ order' = [order EXCEPT !.open = FALSE, !.paid = TRUE]
  /\ WriteAll({d \in Dishes : Exists(d) /\ ~Over(d)}, Served)
  /\ UNCHANGED req

MarkAsportoNoShow ==
  /\ order.open /\ order.kind = "takeaway"
  /\ order' = [order EXCEPT !.open = FALSE]
  /\ WriteAll({d \in Dishes : dishes[d].status \in {"pending", "cooking"}}, Cancelled)
  /\ UNCHANGED req

CancelOrder ==
  /\ order.open
  /\ order' = [order EXCEPT !.open = FALSE]
  /\ WriteAll({d \in Dishes : Exists(d)}, Cancelled)
  /\ UNCHANGED req

-----------------------------------------------------------------------------
Room(r) ==
  \/ InsertCheck(r) \/ DispatchCheck(r) \/ DispatchOrder(r)
  \/ \E d \in Dishes : \/ Insert(r, d) \/ WorkflowCheck(r, d)
                       \/ AnswerCheck(r, d) \/ FireAtCheck(r, d)
  \/ Release(r) \/ Deliver(r) \/ Answer(r) \/ SetTimer(r) \/ ClearTimer(r)

Kitchen(r) ==
  \/ \E d \in Dishes, status \in {"cooking", "oven_done", "ready", "served"} :
       KdsCheck(r, d, status)
  \/ KdsUpdate(r)

Pass ==
  \E S \in SUBSET Dishes :
    \/ \E status \in {"cooking", "oven_done", "ready", "served", "cancelled"} :
         BatchUpdateStatus(S, status)
    \/ ConfirmPickup(S)

Till(r) == ProcessPayment(r) \/ FireTakeawayItems(r) \/ FireTakeawayFails(r)

Closing == MarkAsportoRitirato \/ MarkAsportoNoShow \/ CancelOrder

Next ==
  \/ \E r \in Requests : Room(r) \/ Kitchen(r) \/ Till(r)
  \/ Pass \/ Closing
  \/ \E d \in Dishes : CancelItem(d) \/ DeleteItem(d) \/ TimePasses(d)
  \/ CheckScheduledFires

Spec == Init /\ [][Next]_vars

-----------------------------------------------------------------------------
(* Properties.                                                             *)

TypeOK ==
  /\ order \in Order
  /\ dishes \in [Dishes -> Dish]
  /\ req \in [Requests -> Request]

\* "INIZIA TAVOLO e auto-fire non lo toccano": a dish the waiter holds back by hand
\* stops waiting only when a waiter releases it, or answers its alert, or when a
\* takeaway is paid; or when a waiter's "delivered" arrives late, for a dish that was
\* being cooked when it was checked and was held back since.
HeldByHandIsRespected ==
  [][\A d \in Dishes :
       Waiting(d) /\ dishes[d].hold /\ dishes'[d].workflow # "waiting"
         => \E r \in Requests :
              /\ \/ req[r].pc \in {"release", "answer", "deliver"} /\ req[r].dish = d
                 \/ req[r].pc = "fireTakeaway"
              /\ req'[r] = Idle]_vars

\* "un piatto GIA' SERVITO non torna indietro": of a served dish in production this
\* is so, but for the UPDATE of a request that looked at it before it was served.  A
\* dish that was served while it waited is not meant: a release cooks it again.
ServedComesBackOnlyStale ==
  [][\A d \in Dishes :
       dishes[d].workflow = "production" /\ dishes[d].status = "served"
         => \/ Over(d)'
            \/ \E r \in Requests : /\ req[r].pc \in {"kds", "release", "answer"}
                                    /\ req[r].dish = d
                                    /\ req'[r] = Idle]_vars
=============================================================================
