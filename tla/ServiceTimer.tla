------------------------------ MODULE ServiceTimer ------------------------------
(***************************************************************************)
(* The alerts about dishes that stand ready and about courses that wait:   *)
(* raised by the tick of serviceTimer.js, postponed, acknowledged and      *)
(* answered by the waiters (service.controller.js, workflow.controller.js) *)
(* and deleted when the dish is served or cancelled.                       *)
(*                                                                         *)
(* A tick is one transaction of several statements: what it found when it  *)
(* looked it stores when it commits, and any failing statement rolls all   *)
(* of it back.  The tick also fires the dishes whose time has come, in the *)
(* same transaction.                                                       *)
(*                                                                         *)
(* A handler of the kitchen is one step here; what may happen between its  *)
(* check and its write is the subject of ItemWorkflow, and an alert that   *)
(* is deleted late is raised again by a later tick.  Of the alert to the   *)
(* manager only its existence matters; the delegate's, raised in the same  *)
(* way before it, is left out.                                             *)
(* The order stays open: once it is closed no tick looks at its dishes.    *)
(***************************************************************************)
EXTENDS Naturals, FiniteSets

CONSTANTS
  Dishes,             \* rows of order_items of one order
  CourseServed,       \* whether other dishes of the order were served before
  Requests,           \* HTTP requests the server works on at the same time
  Answered,           \* types of the alerts the waiters answer or put off
  NoDish,             \* the dish of a request that has none
  MaxPostpone,        \* MAX_POSTPONE_COUNT (2 in the code)
  RequiresDispatch,   \* requires_dispatch of the tenant
  Schemas             \* whether service_alerts has the column order_id: FALSE as the
                      \* migrations leave it, TRUE where somebody added the column

ASSUME TimerAssumption ==
  /\ IsFiniteSet(Requests) /\ NoDish \notin Dishes
  /\ Answered \subseteq {"waiter", "course"}
  /\ MaxPostpone \in Nat \ {0} /\ CourseServed \in BOOLEAN
  /\ RequiresDispatch \in BOOLEAN /\ Schemas \subseteq BOOLEAN

VARIABLES
  dishes,   \* order_items
  alerts,   \* service_alerts, by dish and type
  req,      \* what each request in flight found and means to write
  tick      \* the transaction of the timer, and the schema it runs on

vars == <<dishes, alerts, req, tick>>

-----------------------------------------------------------------------------
Chain == {"waiter", "manager"}                \* waiter_20min, manager_25min
Owned == {"waiter", "course"}                 \* have a target_user_id
Types == Chain \cup Owned

\* How many of the THRESHOLDS have passed since ready_at.
After(t) == IF t = "waiter" THEN 1 ELSE 2
Ages == 0..2

MaxTaps == MaxPostpone + Cardinality(Requests)

Stamped == {"ready", "served"}

Dish == [status : {"making", "ready", "served", "cancelled"},   \* making: not ready yet
         place  : {"waiting", "production"},        \* workflow_status
         stamps : SUBSET Stamped,                   \* ready_at, served_at: those that are not NULL
         age    : Ages,                             \* time since ready_at
         fireAt : {"none", "future", "due"}]

Alert == [stored : BOOLEAN,
          acked  : BOOLEAN,                         \* acknowledged
          later  : {"no", "running", "over"},       \* postponed_until
          count  : 0..MaxPostpone,                  \* defer_count, counted up to the limit
          taps   : 0..MaxTaps]                      \* entries of postponeAlert in defer_history

Request == [pc   : {"idle", "postpone", "respond"},
            dish : Dishes \cup {NoDish},
            type : Types \cup {"none", "gone"},     \* gone: the alert was deleted meanwhile
            act  : {"none", "release", "defer"}]

Tick == [column  : BOOLEAN,                        \* the column order_id is there
         running : BOOLEAN,
         fresh   : SUBSET (Dishes \X Types),        \* alerts it inserts
         again   : SUBSET (Dishes \X Owned)]        \* alerts it rings again

NoAlert == [stored |-> FALSE, acked |-> FALSE, later |-> "no", count |-> 0, taps |-> 0]
NewAlert == [stored |-> TRUE, acked |-> FALSE, later |-> "no", count |-> 0, taps |-> 0]
Idle == [pc |-> "idle", dish |-> NoDish, type |-> "none", act |-> "none"]
NoTick(column) == [column |-> column, running |-> FALSE, fresh |-> {}, again |-> {}]

Init ==
  /\ dishes \in [Dishes -> [status : {"making"}, place : {"waiting", "production"},
                             stamps : {{}}, age : {0}, fireAt : {"none"}]]
  /\ alerts = [d \in Dishes |-> [t \in Types |-> NoAlert]]
  /\ req = [r \in Requests |-> Idle]
  /\ \E column \in Schemas : tick = NoTick(column)

-----------------------------------------------------------------------------
\* The rows checkReadyItemsForTenant looks at.
Unserved(d) == dishes[d].status = "ready" /\ dishes[d].stamps = {"ready"}

Held(d) == dishes[d].place = "waiting"

Overdue(d) ==
  Held(d) /\ dishes[d].fireAt = "due" /\ dishes[d].status \notin {"served", "cancelled"}

Start(r, pc, d, t, act) ==
  /\ req[r].pc = "idle"
  /\ req' = [req EXCEPT ![r] = [pc |-> pc, dish |-> d, type |-> t, act |-> act]]

Finish(r) == req' = [req EXCEPT ![r] = Idle]

-----------------------------------------------------------------------------
(* The kitchen and the room.                                               *)

\* Mistake: the moment is not written down.
Undated(dish, status) == [dish EXCEPT !.status = status]

\* The UPDATE of updateItemStatus and batchUpdateStatus.
Written(dish, status) ==
  [dish EXCEPT !.status = status, !.stamps = dish.stamps \cup ({status} \cap Stamped)]

MayBecome(d, status) ==
  \/ status = "cancelled"
  \/ /\ ~Held(d)
     /\ dishes[d].status = "served" \/ "served" \in dishes[d].stamps => status = "served"

\* DELETE FROM service_alerts: a request that was about to write one of them finds it gone.
Cleanup(d) ==
  /\ alerts' = [alerts EXCEPT ![d] = [t \in Types |-> NoAlert]]
  /\ req' = [r \in Requests |->
       IF req[r].dish # d THEN req[r]
       ELSE IF req[r].pc = "postpone" THEN Idle
       ELSE [req[r] EXCEPT !.type = "gone"]]

\* updateItemStatus: a dish that is served loses its alerts.
UpdateItemStatus(d, status) ==
  /\ MayBecome(d, status) /\ dishes[d].status # status
  /\ dishes' = [dishes EXCEPT ![d] = Written(@, status)]
  /\ IF status = "served" THEN Cleanup(d) ELSE UNCHANGED <<alerts, req>>
  /\ UNCHANGED tick

\* batchUpdateStatus, confirmPickup, deleteItem, the button "Ritirato": the alerts stay.
BatchUpdateStatus(d, status) ==
  /\ MayBecome(d, status) /\ dishes[d].status # status
  /\ dishes' = [dishes EXCEPT ![d] = Written(@, status)]
  /\ UNCHANGED <<alerts, req, tick>>

\* The button "Servito" of a notification.
PushServed(d) ==
  /\ dishes[d].status = "ready"
  /\ dishes' = [dishes EXCEPT ![d] = Written(@, "served")]
  /\ Cleanup(d)
  /\ UNCHANGED tick

Cancelled(dish) ==
  IF dish.status \notin {"served", "ready"} THEN [dish EXCEPT !.status = "cancelled"]
  ELSE [dish EXCEPT !.status = "cancelled", !.age = 0,
                    !.stamps = dish.stamps \ {"ready", dish.status}]

CancelItem(d) ==
  /\ dishes[d].status # "cancelled"
  /\ dishes' = [dishes EXCEPT ![d] = Cancelled(@)]
  /\ Cleanup(d)
  /\ UNCHANGED tick

HeldBack(dish) == [dish EXCEPT !.place = "waiting", !.fireAt = "future"]

\* setItemFireAt holds a dish that is not ready back for some minutes.
SetItemFireAt(d) ==
  /\ dishes[d].status = "making"
  /\ dishes' = [dishes EXCEPT ![d] = HeldBack(@)]
  /\ UNCHANGED <<alerts, req, tick>>

\* Zero minutes take the timer away, and the dish stays where it is.
ClearItemFireAt(d) ==
  /\ dishes[d].status = "making" /\ dishes[d].fireAt # "none"
  /\ dishes' = [dishes EXCEPT ![d].fireAt = "none"]
  /\ UNCHANGED <<alerts, req, tick>>

Sent(dish) == [dish EXCEPT !.place = "production", !.status = "making"]

\* changeWorkflowStatus sends a dish to the kitchen, whatever became of it.
Release(d) ==
  /\ Held(d)
  /\ dishes' = [dishes EXCEPT ![d] = Sent(@)]
  /\ UNCHANGED <<alerts, req, tick>>

-----------------------------------------------------------------------------
(* The waiter and the alert.                                               *)

\* Mistake: the limit is left to the button in the client.
PostponeUnlimited(d, t) == alerts[d][t].stored

PostponeAllowed(d, t) == alerts[d][t].stored /\ alerts[d][t].count < MaxPostpone

PostponeCheck(r, d, t) ==
  /\ PostponeAllowed(d, t)
  /\ Start(r, "postpone", d, t, "none")
  /\ UNCHANGED <<dishes, alerts, tick>>

Deferred(a) ==
  [a EXCEPT !.later = "running", !.count = IF @ < MaxPostpone THEN @ + 1 ELSE @]

Tapped(a) == [Deferred(a) EXCEPT !.taps = IF @ < MaxTaps THEN @ + 1 ELSE @]

PostponeAlert(r) ==
  /\ req[r].pc = "postpone"
  /\ LET d == req[r].dish  t == req[r].type IN
       alerts' = [alerts EXCEPT ![d][t] = Tapped(@)]
  /\ Finish(r)
  /\ UNCHANGED <<dishes, tick>>

Acked(a) == [a EXCEPT !.acked = TRUE]

AcknowledgeAlert(d, t) ==
  /\ alerts[d][t].stored
  /\ alerts' = [alerts EXCEPT ![d][t] = Acked(@)]
  /\ UNCHANGED <<dishes, req, tick>>

\* A release of a dish that does not wait only acknowledges the alert.
RespondCheck(r, d, t, act) ==
  /\ alerts[d][t].stored /\ ~alerts[d][t].acked
  /\ act = "release" => Held(d)
  /\ Start(r, "respond", d, t, act)
  /\ UNCHANGED <<dishes, alerts, tick>>

\* The dish goes to the kitchen whatever became of it, the alert is dealt with.
RespondRelease(r) ==
  /\ req[r].pc = "respond" /\ req[r].act = "release"
  /\ LET d == req[r].dish  t == req[r].type IN
       /\ dishes' = [dishes EXCEPT ![d] = Sent(@)]
       /\ IF t = "gone" THEN UNCHANGED alerts
          ELSE alerts' = [alerts EXCEPT ![d][t] = Acked(@)]
  /\ Finish(r)
  /\ UNCHANGED tick

\* No limit here.
RespondDefer(r) ==
  /\ req[r].pc = "respond" /\ req[r].act = "defer"
  /\ LET d == req[r].dish  t == req[r].type IN
       IF t = "gone" THEN UNCHANGED alerts
       ELSE alerts' = [alerts EXCEPT ![d][t] = Deferred(@)]
  /\ Finish(r)
  /\ UNCHANGED <<dishes, tick>>

-----------------------------------------------------------------------------
(* The timer.                                                              *)

Due(d, t) == Unserved(d) /\ dishes[d].age >= After(t)

\* checkMandatoryAlerts: a dish waits while another one of the order was served.
Called(d) ==
  /\ ~RequiresDispatch
  /\ Held(d) /\ dishes[d].status \notin {"served", "cancelled"}
  /\ CourseServed \/ \E e \in Dishes \ {d} : dishes[e].status = "served"

RingsAgain(a) == ~a.acked /\ a.later = "over"

Wanted ==
  {p \in Dishes \X Chain : Due(p[1], p[2])} \cup {p \in Dishes \X {"course"} : Called(p[1])}

\* What the tick finds: alerts to insert, and alerts to ring again (maybeResendAlert).
\* tryInsertAlert names the column order_id, whether there is a conflict or not: where
\* the column is missing, a tick with an alert to insert is rolled back as it starts.
TickStart ==
  /\ ~tick.running
  /\ tick.column \/ Wanted = {}
  /\ tick' = [column |-> tick.column, running |-> TRUE,
              fresh |-> {p \in Wanted : ~alerts[p[1]][p[2]].stored},
              again |-> {p \in Wanted : /\ p[2] \in Owned /\ alerts[p[1]][p[2]].stored
                                        /\ RingsAgain(alerts[p[1]][p[2]])}]
  /\ UNCHANGED <<dishes, alerts, req>>

Later(a, when) == [a EXCEPT !.later = when]

\* Mistake: a dish that is held back again after it was ready is left out.
FiresUnready(d) == Overdue(d) /\ "ready" \notin dishes[d].stamps

Fires(d) == Held(d) /\ dishes[d].fireAt = "due"

\* checkScheduledFires and COMMIT.  The UPDATE of an alert looks at nothing but its id.
TickCommit ==
  /\ tick.running
  /\ dishes' = [d \in Dishes |->
       IF Fires(d) THEN Sent(dishes[d])
       ELSE dishes[d]]
  /\ alerts' = [d \in Dishes |-> [t \in Types |->
       IF <<d, t>> \in tick.fresh THEN NewAlert
       ELSE IF <<d, t>> \in tick.again /\ alerts[d][t].stored
         THEN Later(alerts[d][t], "no")
       ELSE alerts[d][t]]]
  /\ tick' = NoTick(tick.column)
  /\ UNCHANGED req

\* Any statement fails: ROLLBACK, and the next tick starts afresh.
TickFails ==
  /\ tick.running /\ tick' = NoTick(tick.column)
  /\ UNCHANGED <<dishes, alerts, req>>

Age(d) ==
  /\ "ready" \in dishes[d].stamps /\ dishes[d].age < 2
  /\ dishes' = [dishes EXCEPT ![d].age = @ + 1]
  /\ UNCHANGED <<alerts, req, tick>>

FireAtComes(d) ==
  /\ dishes[d].fireAt = "future"
  /\ dishes' = [dishes EXCEPT ![d].fireAt = "due"]
  /\ UNCHANGED <<alerts, req, tick>>

PostponeEnds(d, t) ==
  /\ alerts[d][t].later = "running"
  /\ alerts' = [alerts EXCEPT ![d][t] = Later(@, "over")]
  /\ UNCHANGED <<dishes, req, tick>>

-----------------------------------------------------------------------------
TickNext == TickStart \/ TickCommit

Kitchen(d) ==
  \/ \E s \in {"making", "ready", "served", "cancelled"} :
       UpdateItemStatus(d, s) \/ BatchUpdateStatus(d, s)
  \/ PushServed(d) \/ CancelItem(d)
  \/ SetItemFireAt(d) \/ ClearItemFireAt(d) \/ Release(d)

Waiter(d, t) ==
  \/ AcknowledgeAlert(d, t)
  \/ \E r \in Requests : \/ PostponeCheck(r, d, t)
                         \/ \E act \in {"release", "defer"} : RespondCheck(r, d, t, act)

Continue(r) == PostponeAlert(r) \/ RespondRelease(r) \/ RespondDefer(r)

TimePasses(d) == Age(d) \/ FireAtComes(d) \/ \E t \in Answered : PostponeEnds(d, t)

Next ==
  \/ \E d \in Dishes : Kitchen(d) \/ TimePasses(d) \/ \E t \in Answered : Waiter(d, t)
  \/ \E r \in Requests : Continue(r)
  \/ TickNext \/ TickFails

Spec == Init /\ [][Next]_vars

\* The clock goes on, and the timer ticks for ever.  A tick that got past its alerts
\* fails only for passing reasons (the connection, a deadlock): one that can commit
\* again and again does so some time.  Nothing is assumed of the ticks that fail for
\* the missing column: they do not get that far.
FairSpec ==
  /\ Spec
  /\ \A d \in Dishes : /\ WF_vars(Age(d)) /\ WF_vars(FireAtComes(d))
                      /\ \A t \in Answered : WF_vars(PostponeEnds(d, t))
  /\ WF_vars(TickNext) /\ SF_vars(TickCommit)

-----------------------------------------------------------------------------
(* Properties.                                                             *)

\* Types; a dish is ready since some moment, and an answer under way is about an alert
\* that exists, or knows that it was deleted.
TypeOK ==
  /\ dishes \in [Dishes -> Dish]
  /\ alerts \in [Dishes -> [Types -> Alert]]
  /\ req \in [Requests -> Request]
  /\ tick \in Tick
  /\ \A d \in Dishes : dishes[d].status = "ready" => "ready" \in dishes[d].stamps
  /\ \A r \in Requests : req[r].pc # "idle" =>
       /\ req[r].dish \in Dishes
       /\ req[r].type # "none"
       /\ req[r].pc = "postpone" => req[r].type \in Types
       /\ req[r].type \in Types => alerts[req[r].dish][req[r].type].stored

\* "Limite massimo di posticipi consecutivi per alert": postponeAlert reads the count in
\* one statement and adds to it in another, so that taps at the same time exceed the
\* limit, but by no more than the requests that are under way; answers that defer the
\* alert count against it, and a new alert starts from nothing.  There is an alert to
\* postpone only where the column order_id was added: as the migrations are, none is
\* ever stored.
PostponesBounded ==
  \A d \in Dishes, t \in Answered : alerts[d][t].taps < MaxTaps

\* A dish whose fire_at has come is fired, whatever the kitchen and the waiters do with
\* it, unless the schema is that of the migrations and an alert falls due meanwhile:
\* then the firing, which shares the transaction of the alerts, is rolled back.
FiredUnlessAlertDue ==
  \A d \in Dishes : Overdue(d) ~> ~Overdue(d) \/ (~tick.column /\ Wanted # {})

\* "Quando scade, le passiamo a 'production'": what serviceTimer.js says of the dishes
\* with a fire_at, without that condition.
ScheduledIsFired == \A d \in Dishes : Overdue(d) ~> ~Overdue(d)
=============================================================================
