-------------------------- MODULE ItemWorkflow_proofs --------------------------
(***************************************************************************)
(* Proofs about ItemWorkflow for any dishes and requests.                  *)
(*                                                                         *)
(* HeldByHandIsRespected is about steps, and what the timer may fire is    *)
(* decided by fire_at alone: it needs that a dish held by hand has no      *)
(* timer, which every statement that sets one of the two columns upholds,  *)
(* and that no request is about to write a row that was never inserted.    *)
(***************************************************************************)
EXTENDS ItemWorkflow, TLAPS

\* What the kitchen and the pass may make of a dish.
NewStatus == {"cooking", "oven_done", "ready", "served", "cancelled"}
USE DEF NewStatus

\* A row is with somebody only if it was inserted, and it has no fire_at while it is held by hand.
SoundRow(row) ==
  /\ row \in Dish
  /\ row.workflow # "none" => row.status # "none"
  /\ row.workflow = "waiting" /\ row.hold => row.timer = "none"

RowsSound == \A d \in Dishes : SoundRow(dishes[d])

OneDish == {"kds", "release", "deliver", "answer", "setTimer", "clearTimer"}

\* A request that means to change one dish found it in the table.
RequestHasDish ==
  \A r \in Requests :
    req[r].pc \in OneDish
      => /\ req[r].dish \in Dishes /\ Exists(req[r].dish)
         /\ req[r].pc = "kds" => req[r].want # "none"

WorkflowInv == TypeOK /\ RowsSound /\ RequestHasDish

\* What a step may do to the rows: they stay sound, and none disappears.
RowsKept ==
  /\ dishes' \in [Dishes -> Dish]
  /\ RowsSound'
  /\ \A d \in Dishes : Exists(d) => Exists(d)'

-----------------------------------------------------------------------------
LEMMA InitInv == Init => WorkflowInv
  BY DEF Init, WorkflowInv, TypeOK, RowsSound, SoundRow, RequestHasDish, OneDish, Order, Dish,
         Request, NoRow, Idle

\* Changes of the status that every handler may make keep a row sound.
LEMMA StatusIsSound ==
  ASSUME NEW row, SoundRow(row), NEW status \in NewStatus
  PROVE  /\ SoundRow([row EXCEPT !.status = status])
         /\ SoundRow(Served(row)) /\ SoundRow(Cancelled(row)) /\ SoundRow(Released(row))
  BY DEF SoundRow, Dish, Served, Cancelled, Released

\* One row is replaced by a sound one.
LEMMA WriteKeeps ==
  ASSUME TypeOK, RowsSound, NEW d \in Dishes, NEW row, SoundRow(row), row.status # "none",
         Write(d, row)
  PROVE  RowsKept
  BY DEF TypeOK, RowsSound, RowsKept, Write, Exists, SoundRow

\* Every row stays or becomes a sound one.
LEMMA AllKeep ==
  ASSUME dishes' = [d \in Dishes |-> dishes'[d]], \A d \in Dishes : SoundRow(dishes'[d]),
         \A d \in Dishes : Exists(d) => Exists(d)'
  PROVE  RowsKept
  BY DEF RowsSound, RowsKept, SoundRow

\* A request stores what it means to do.
LEMMA GoKeeps ==
  ASSUME TypeOK, RequestHasDish, NEW r \in Requests, NEW pc, NEW d, NEW want,
         [pc |-> pc, dish |-> d, want |-> want] \in Request,
         pc \in OneDish => d \in Dishes /\ Exists(d) /\ (pc = "kds" => want # "none"),
         Go(r, pc, d, want), UNCHANGED dishes
  PROVE  req' \in [Requests -> Request] /\ RequestHasDish'
  BY DEF TypeOK, RequestHasDish, Go, Exists

\* A request that is answered is idle, and the others still have their dishes.
LEMMA FinishKeeps ==
  ASSUME TypeOK, RequestHasDish, RowsKept, NEW r \in Requests, Finish(r)
  PROVE  req' \in [Requests -> Request] /\ RequestHasDish'
  BY DEF TypeOK, RequestHasDish, RowsKept, Finish, Idle, Request, OneDish, Exists

-----------------------------------------------------------------------------
\* The steps that change dishes only, whatever the requests do.
LEMMA RowsKeep ==
  ASSUME WorkflowInv,
         \/ \E S \in SUBSET Dishes : ConfirmPickup(S)
         \/ \E S \in SUBSET Dishes, status \in NewStatus :
              BatchUpdateStatus(S, status)
         \/ \E d \in Dishes : CancelItem(d) \/ DeleteItem(d) \/ TimePasses(d)
         \/ CheckScheduledFires \/ Closing
  PROVE  order' \in Order /\ RowsKept
<1>1. order' \in Order
  BY DEF WorkflowInv, TypeOK, Order, ConfirmPickup, BatchUpdateStatus, CancelItem, DeleteItem,
     TimePasses, CheckScheduledFires, Closing, MarkAsportoRitirato, MarkAsportoNoShow,
     CancelOrder
<1>2. \A d \in Dishes : SoundRow(dishes[d])
  BY DEF WorkflowInv, RowsSound
<1>3. CASE \E d \in Dishes : CancelItem(d) \/ DeleteItem(d) \/ TimePasses(d)
  <2>1. PICK d \in Dishes : CancelItem(d) \/ DeleteItem(d) \/ TimePasses(d)
    BY <1>3
  <2> DEFINE cancelled == [Cancelled(dishes[d]) EXCEPT
                            !.stamped = @ /\ dishes[d].status # "served"]
             timedOut  == [dishes[d] EXCEPT !.timer = "due"]
  <2>2. SoundRow(cancelled) /\ cancelled.status # "none"
    BY <1>2 DEF SoundRow, Dish, Cancelled
  <2>3. SoundRow(Cancelled(dishes[d])) /\ Cancelled(dishes[d]).status # "none"
    BY <1>2 DEF SoundRow, Dish, Cancelled
  <2>4. CASE CancelItem(d) \/ DeleteItem(d)
    <3>1. Write(d, cancelled) \/ Write(d, Cancelled(dishes[d]))
      BY <2>4 DEF CancelItem, DeleteItem
    <3> HIDE DEF cancelled
    <3> QED BY <1>1, <2>2, <2>3, <3>1, WriteKeeps DEF WorkflowInv
  <2>5. CASE TimePasses(d)
    <3>1. SoundRow(timedOut) /\ timedOut.status = dishes[d].status
      BY <1>2, <2>5 DEF SoundRow, Dish, TimePasses
    <3> QED
      BY <2>5, <3>1 DEF WorkflowInv, TypeOK, RowsSound, RowsKept, TimePasses, Write, Exists,
                        SoundRow
  <2> QED BY <2>1, <2>4, <2>5
<1>4. CASE ~ \E d \in Dishes : CancelItem(d) \/ DeleteItem(d) \/ TimePasses(d)
  <2>1. /\ dishes' = [d \in Dishes |-> dishes'[d]]
        /\ \A d \in Dishes :
             \/ dishes'[d] \in {dishes[d], Served(dishes[d]), Cancelled(dishes[d]),
                               Released(dishes[d])}
             \/ \E status \in NewStatus :
                  dishes'[d] = [dishes[d] EXCEPT !.status = status]
    <3>1. CASE \E S \in SUBSET Dishes : ConfirmPickup(S)
      BY <3>1 DEF ConfirmPickup, WriteAll
    <3>2. CASE \E S \in SUBSET Dishes, status \in NewStatus :
                 BatchUpdateStatus(S, status)
      BY <3>2 DEF BatchUpdateStatus, WriteAll
    <3>3. CASE CheckScheduledFires
      BY <3>3 DEF CheckScheduledFires, WriteAll
    <3>4. CASE Closing
      BY <3>4 DEF Closing, MarkAsportoRitirato, MarkAsportoNoShow, CancelOrder, WriteAll
    <3> QED BY <1>4, <3>1, <3>2, <3>3, <3>4
  <2>2. \A d \in Dishes : SoundRow(dishes'[d])
    <3>1. \A d \in Dishes :
            /\ SoundRow(dishes[d]) /\ SoundRow(Served(dishes[d]))
            /\ SoundRow(Cancelled(dishes[d])) /\ SoundRow(Released(dishes[d]))
            /\ \A status \in NewStatus :
                 SoundRow([dishes[d] EXCEPT !.status = status])
      BY <1>2, StatusIsSound
    <3> QED BY <2>1, <3>1
  <2>3. \A d \in Dishes : Exists(d) => Exists(d)'
    BY <1>2, <2>1 DEF Exists, SoundRow, Dish, Served, Cancelled, Released
  <2> QED BY <1>1, <2>1, <2>2, <2>3, AllKeep
<1> QED BY <1>1, <1>3, <1>4

\* The steps in which a request finds out what it will do.
LEMMA ChecksKeep ==
  ASSUME WorkflowInv, NEW r \in Requests, UNCHANGED dishes,
         \/ InsertCheck(r) \/ DispatchCheck(r) \/ ProcessPayment(r)
         \/ \E d \in Dishes : WorkflowCheck(r, d) \/ AnswerCheck(r, d) \/ FireAtCheck(r, d)
         \/ \E d \in Dishes, status \in NewStatus \ {"cancelled"} :
              KdsCheck(r, d, status)
  PROVE  WorkflowInv'
<1>1. RowsSound' /\ \A d \in Dishes : dishes[d].workflow # "none" => Exists(d)
  BY DEF WorkflowInv, RowsSound, SoundRow, Exists
<1>2. /\ order' \in Order
      /\ req' \in [Requests -> Request] /\ RequestHasDish'
  <2>1. CASE InsertCheck(r) \/ DispatchCheck(r)
    BY <2>1, GoKeeps DEF WorkflowInv, TypeOK, Request, OneDish, InsertCheck, DispatchCheck
  <2>2. CASE ProcessPayment(r)
    <3>1. order' \in Order
      BY <2>2 DEF WorkflowInv, TypeOK, Order, ProcessPayment
    <3> QED
      BY <2>2, <3>1, GoKeeps
      DEF WorkflowInv, TypeOK, RequestHasDish, Request, OneDish, Exists, ProcessPayment
  <2>3. CASE \E d \in Dishes : WorkflowCheck(r, d) \/ AnswerCheck(r, d) \/ FireAtCheck(r, d)
    <3>1. PICK d \in Dishes : WorkflowCheck(r, d) \/ AnswerCheck(r, d) \/ FireAtCheck(r, d)
      BY <2>3
    <3>2. /\ UNCHANGED order /\ Exists(d)
          /\ \E pc \in {"release", "deliver", "answer", "setTimer", "clearTimer"} :
               Go(r, pc, d, "none")
      <4>1. CASE WorkflowCheck(r, d) \/ AnswerCheck(r, d)
        <5>1. Exists(d)
          BY <1>1, <4>1 DEF WorkflowCheck, AnswerCheck, Waiting
        <5> QED BY <4>1, <5>1 DEF WorkflowCheck, AnswerCheck
      <4>2. CASE FireAtCheck(r, d)
        BY <4>2 DEF FireAtCheck, Exists
      <4> QED BY <3>1, <4>1, <4>2
    <3> QED BY <3>2, GoKeeps DEF WorkflowInv, TypeOK, Request, OneDish
  <2>4. CASE \E d \in Dishes, status \in NewStatus \ {"cancelled"} :
               KdsCheck(r, d, status)
    BY <2>4, GoKeeps DEF WorkflowInv, TypeOK, Request, KdsCheck
  <2> QED BY <2>1, <2>2, <2>3, <2>4
<1> QED BY <1>1, <1>2 DEF WorkflowInv, TypeOK

\* The steps in which a request does it and is answered.
LEMMA WritesKeep ==
  ASSUME WorkflowInv, NEW r \in Requests, Finish(r),
         \/ \E d \in Dishes : Insert(r, d)
         \/ Release(r) \/ Deliver(r) \/ Answer(r) \/ SetTimer(r) \/ ClearTimer(r)
         \/ DispatchOrder(r) \/ KdsUpdate(r)
         \/ FireTakeawayItems(r) \/ FireTakeawayFails(r)
  PROVE  WorkflowInv'
<1>1. UNCHANGED order
  BY DEF Insert, Release, Deliver, Answer, SetTimer, ClearTimer, DispatchOrder, KdsUpdate,
     FireTakeawayItems, FireTakeawayFails
<1>2. \A d \in Dishes : SoundRow(dishes[d])
  BY DEF WorkflowInv, RowsSound
<1>3. RowsKept
  <2> DEFINE d == req[r].dish
  <2>1. CASE \E e \in Dishes : Insert(r, e)
    <3>1. PICK e \in Dishes, choice \in {"waiting", "production", "delivered"},
               timed \in BOOLEAN, held \in BOOLEAN :
            Write(e, Born(choice, timed, held))
      BY <2>1 DEF Insert
    <3>2. SoundRow(Born(choice, timed, held)) /\ Born(choice, timed, held).status # "none"
      BY DEF SoundRow, Dish, Born, NoRow
    <3> QED BY <3>1, <3>2, WriteKeeps DEF WorkflowInv
  <2>2. ASSUME req[r].pc \in OneDish
        PROVE  d \in Dishes /\ SoundRow(dishes[d]) /\ dishes[d].status # "none"
    BY <1>2, <2>2 DEF WorkflowInv, RequestHasDish, Exists
  <2>3. CASE Release(r) \/ Deliver(r) \/ Answer(r)
    <3>1. d \in Dishes /\ SoundRow(dishes[d]) /\ dishes[d].status # "none"
      BY <2>2, <2>3 DEF OneDish, Release, Deliver, Answer
    <3> DEFINE released == [Released(dishes[d]) EXCEPT !.hold = FALSE]
               delivered == [dishes[d] EXCEPT !.workflow = "delivered"]
    <3>2. \/ Write(d, released) \/ Write(d, delivered) \/ Write(d, Released(dishes[d]))
      BY <2>3 DEF Release, Deliver, Answer
    <3>3. \A row \in {released, delivered, Released(dishes[d])} :
            SoundRow(row) /\ row.status # "none"
      BY <3>1 DEF SoundRow, Dish, Released
    <3> HIDE DEF released, delivered
    <3> QED BY <3>1, <3>2, <3>3, WriteKeeps DEF WorkflowInv
  <2>4. CASE SetTimer(r) \/ ClearTimer(r)
    <3>1. d \in Dishes /\ SoundRow(dishes[d]) /\ dishes[d].status # "none"
      BY <2>2, <2>4 DEF OneDish, SetTimer, ClearTimer
    <3> DEFINE cleared == [dishes[d] EXCEPT !.timer = "none", !.hold = Waiting(d) \/ @]
    <3>2. Write(d, Scheduled(dishes[d])) \/ Write(d, cleared)
      BY <2>4 DEF SetTimer, ClearTimer
    <3>3. SoundRow(Scheduled(dishes[d])) /\ Scheduled(dishes[d]).status # "none"
      BY <3>1 DEF SoundRow, Dish, Scheduled
    <3>4. SoundRow(cleared) /\ cleared.status # "none"
      BY <3>1 DEF SoundRow, Dish, Waiting
    <3> HIDE DEF cleared
    <3> QED BY <3>1, <3>2, <3>3, <3>4, WriteKeeps DEF WorkflowInv
  <2>5. CASE KdsUpdate(r)
    <3>1. d \in Dishes /\ SoundRow(dishes[d]) /\ req[r].want \in NewStatus \ {"cancelled"}
      BY <2>2, <2>5 DEF OneDish, WorkflowInv, TypeOK, RequestHasDish, Request, KdsUpdate
    <3> DEFINE cooked == [dishes[d] EXCEPT !.status = req[r].want]
    <3>2. Write(d, Served(dishes[d])) \/ Write(d, cooked)
      BY <2>5 DEF KdsUpdate
    <3>3. SoundRow(Served(dishes[d])) /\ Served(dishes[d]).status # "none"
      BY <3>1 DEF SoundRow, Dish, Served
    <3>4. SoundRow(cooked) /\ cooked.status # "none"
      BY <3>1 DEF SoundRow, Dish
    <3> HIDE DEF cooked
    <3> QED BY <3>1, <3>2, <3>3, <3>4, WriteKeeps DEF WorkflowInv
  <2>6. CASE DispatchOrder(r) \/ FireTakeawayItems(r)
    <3>1. /\ dishes' = [e \in Dishes |-> dishes'[e]]
          /\ \A e \in Dishes :
               dishes'[e] \in {dishes[e],
                              [dishes[e] EXCEPT !.workflow = "production", !.timer = "none"],
                              [dishes[e] EXCEPT !.workflow = "production", !.timer = "none",
                                                !.hold = FALSE]}
      BY <2>6 DEF DispatchOrder, FireTakeawayItems, WriteAll
    <3>2. \A e \in Dishes : dishes'[e] # dishes[e] => dishes[e].status # "none"
      BY <1>2, <2>6 DEF DispatchOrder, FireTakeawayItems, WriteAll, Waiting, SoundRow
    <3>3. ASSUME NEW e \in Dishes
          PROVE  SoundRow(dishes'[e]) /\ (Exists(e) => Exists(e)')
      BY <1>2, <3>1, <3>2 DEF SoundRow, Dish, Exists
    <3> QED BY <3>1, <3>3, AllKeep
  <2>7. CASE FireTakeawayFails(r)
    BY <1>2, <2>7 DEF WorkflowInv, TypeOK, RowsKept, RowsSound, Exists, FireTakeawayFails
  <2> QED BY <2>1, <2>3, <2>4, <2>5, <2>6, <2>7
<1>4. req' \in [Requests -> Request] /\ RequestHasDish'
  BY <1>3, FinishKeeps DEF WorkflowInv
<1> QED BY <1>1, <1>3, <1>4 DEF WorkflowInv, TypeOK, RowsKept

LEMMA StepInv == WorkflowInv /\ [Next]_vars => WorkflowInv'
<1> SUFFICES ASSUME WorkflowInv, [Next]_vars PROVE WorkflowInv'
  OBVIOUS
<1>1. CASE \E r \in Requests : Room(r)
  BY <1>1, ChecksKeep, WritesKeep
  DEF Room, InsertCheck, DispatchCheck, DispatchOrder, Insert, WorkflowCheck, AnswerCheck,
      FireAtCheck, Release, Deliver, Answer, SetTimer, ClearTimer
<1>2. CASE \E r \in Requests : Kitchen(r) \/ Till(r)
  BY <1>2, ChecksKeep, WritesKeep
  DEF Kitchen, Till, KdsCheck, KdsUpdate, ProcessPayment, FireTakeawayItems,
      FireTakeawayFails
<1>3. CASE \/ Pass \/ Closing \/ CheckScheduledFires
           \/ \E d \in Dishes : CancelItem(d) \/ DeleteItem(d) \/ TimePasses(d)
  <2>1. UNCHANGED req
    BY <1>3 DEF Pass, Closing, CheckScheduledFires, CancelItem, DeleteItem, TimePasses,
       BatchUpdateStatus, ConfirmPickup, MarkAsportoRitirato, MarkAsportoNoShow, CancelOrder
  <2>2. order' \in Order /\ RowsKept
    BY <1>3, RowsKeep DEF Pass
  <2> QED
    BY <2>1, <2>2 DEF WorkflowInv, TypeOK, RequestHasDish, RowsKept, Exists
<1>4. CASE UNCHANGED vars
  BY <1>4 DEF WorkflowInv, TypeOK, RowsSound, RequestHasDish, Exists, vars
<1> QED BY <1>1, <1>2, <1>3, <1>4 DEF Next

-----------------------------------------------------------------------------
\* The inductive invariant: types, no timer on a dish held by hand, and a row that
\* exists for every request that is about to change one.
THEOREM WorkflowInvariant == Spec => []WorkflowInv
BY InitInv, StepInv, PTL DEF Spec

\* Whatever the kitchen, the room, the till and the timer do, the rows stay
\* well formed.
THEOREM TypeCorrect == Spec => []TypeOK
BY WorkflowInvariant, PTL DEF WorkflowInv

\* A step that takes a dish out of a manual hold is one of the four that may.
LEMMA HoldStep ==
  ASSUME WorkflowInv, Next, NEW d \in Dishes,
         Waiting(d), dishes[d].hold, dishes'[d].workflow # "waiting"
  PROVE  \E r \in Requests :
           /\ \/ req[r].pc \in {"release", "answer", "deliver"} /\ req[r].dish = d
              \/ req[r].pc = "fireTakeaway"
           /\ req'[r] = Idle
<1>1. dishes[d].timer = "none" /\ dishes[d].workflow = "waiting"
  BY DEF WorkflowInv, RowsSound, SoundRow, Waiting
<1>2. dishes[d] \in Dish /\ dishes \in [Dishes -> Dish] /\ req \in [Requests -> Request]
  BY DEF WorkflowInv, TypeOK
<1>3. CASE \E r \in Requests : Room(r)
  <2>1. PICK r \in Requests : Room(r)
    BY <1>3
  <2>2. CASE Release(r) \/ Answer(r) \/ Deliver(r)
    BY <1>1, <1>2, <2>2 DEF Release, Answer, Deliver, Write, Finish
  <2>3. ASSUME NEW e \in Dishes, Insert(r, e) PROVE FALSE
    <3>1. e # d
      BY <1>1, <2>3 DEF WorkflowInv, RowsSound, SoundRow, Insert, Exists
    <3> QED BY <1>1, <1>2, <2>3, <3>1 DEF Insert, Write
  <2>4. ~DispatchOrder(r)
    BY <1>1, <1>2 DEF DispatchOrder, WriteAll
  <2>5. ASSUME SetTimer(r) \/ ClearTimer(r) PROVE FALSE
    <3>1. CASE req[r].dish = d
      BY <1>1, <1>2, <2>5, <3>1 DEF SetTimer, ClearTimer, Write, Scheduled, Dish
    <3>2. CASE req[r].dish # d
      BY <1>1, <1>2, <2>5, <3>2 DEF SetTimer, ClearTimer, Write
    <3> QED BY <3>1, <3>2
  <2>6. dishes' # dishes
    BY <1>1
  <2> QED
    BY <2>1, <2>2, <2>3, <2>4, <2>5, <2>6
    DEF Room, InsertCheck, DispatchCheck, WorkflowCheck, AnswerCheck, FireAtCheck
<1>4. CASE \E r \in Requests : Kitchen(r)
  <2>1. PICK r \in Requests : KdsUpdate(r)
    BY <1>1, <1>4 DEF Kitchen, KdsCheck
  <2> QED BY <1>1, <1>2, <2>1 DEF KdsUpdate, Write, Served, Dish
<1>5. CASE \E r \in Requests : Till(r)
  BY <1>1, <1>2, <1>5 DEF Till, ProcessPayment, FireTakeawayItems, FireTakeawayFails, Finish
<1>6. CASE Pass
  <2>1. dishes'[d] = dishes[d] \/ dishes'[d] = Served(dishes[d])
          \/ \E status \in NewStatus :
               dishes'[d] = [dishes[d] EXCEPT !.status = status]
    BY <1>6 DEF Pass, BatchUpdateStatus, ConfirmPickup, WriteAll
  <2> QED BY <1>1, <1>2, <2>1 DEF Dish, Served
<1>7. CASE Closing
  <2>1. dishes'[d] \in {dishes[d], Served(dishes[d]), Cancelled(dishes[d])}
    BY <1>7 DEF Closing, MarkAsportoRitirato, MarkAsportoNoShow, CancelOrder, WriteAll
  <2> QED BY <1>1, <1>2, <2>1 DEF Dish, Served, Cancelled
<1>8. CASE \E e \in Dishes : CancelItem(e) \/ DeleteItem(e) \/ TimePasses(e)
  <2>1. PICK e \in Dishes : CancelItem(e) \/ DeleteItem(e) \/ TimePasses(e)
    BY <1>8
  <2>2. CASE e = d
    BY <1>1, <1>2, <2>1, <2>2 DEF CancelItem, DeleteItem, TimePasses, Write, Cancelled, Dish
  <2>3. CASE e # d
    BY <1>1, <1>2, <2>1, <2>3 DEF CancelItem, DeleteItem, TimePasses, Write
  <2> QED BY <2>2, <2>3
<1>9. CASE CheckScheduledFires
  BY <1>1, <1>2, <1>9 DEF CheckScheduledFires, Due, WriteAll
<1> QED BY <1>3, <1>4, <1>5, <1>6, <1>7, <1>8, <1>9 DEF Next

\* For any number of dishes and requests: neither the start of the order nor the
\* timer takes away a manual hold.
THEOREM HeldByHand == Spec => HeldByHandIsRespected
<1>1. WorkflowInv /\ [Next]_vars =>
        [\A d \in Dishes :
           Waiting(d) /\ dishes[d].hold /\ dishes'[d].workflow # "waiting"
             => \E r \in Requests :
                  /\ \/ req[r].pc \in {"release", "answer", "deliver"} /\ req[r].dish = d
                     \/ req[r].pc = "fireTakeaway"
                  /\ req'[r] = Idle]_vars
  BY HoldStep
<1> QED BY <1>1, WorkflowInvariant, PTL DEF Spec, HeldByHandIsRespected

\* A step that takes a served dish of the kitchen back is the write of a request that
\* looked at the dish before.
LEMMA ServedStep ==
  ASSUME WorkflowInv, Next, NEW d \in Dishes,
         dishes[d].workflow = "production", dishes[d].status = "served", ~Over(d)'
  PROVE  \E r \in Requests : /\ req[r].pc \in {"kds", "release", "answer"}
                             /\ req[r].dish = d
                             /\ req'[r] = Idle
<1>1. /\ dishes[d] \in Dish /\ dishes \in [Dishes -> Dish]
      /\ req \in [Requests -> Request]
  BY DEF WorkflowInv, TypeOK
<1>2. dishes'[d].status # "served" /\ dishes'[d].status # "cancelled"
  BY DEF Over
<1>3. CASE \E r \in Requests : Room(r)
  <2>1. PICK r \in Requests : Room(r)
    BY <1>3
  <2>2. CASE Release(r) \/ Answer(r)
    BY <1>1, <1>2, <2>2 DEF Release, Answer, Write, Finish
  <2>3. ASSUME NEW e \in Dishes, Insert(r, e) PROVE FALSE
    <3>1. e # d
      BY <2>3 DEF Insert, Exists
    <3> QED BY <1>1, <1>2, <2>3, <3>1 DEF Insert, Write
  <2>4. ASSUME Deliver(r) \/ SetTimer(r) \/ ClearTimer(r) PROVE FALSE
    <3>1. CASE req[r].dish = d
      BY <1>1, <1>2, <2>4, <3>1 DEF Deliver, SetTimer, ClearTimer, Write, Scheduled, Dish
    <3>2. CASE req[r].dish # d
      BY <1>1, <1>2, <2>4, <3>2 DEF Deliver, SetTimer, ClearTimer, Write
    <3> QED BY <3>1, <3>2
  <2>5. ~DispatchOrder(r)
    BY <1>1, <1>2 DEF DispatchOrder, WriteAll, Waiting
  <2>6. dishes' # dishes
    BY <1>2
  <2> QED
    BY <2>1, <2>2, <2>3, <2>4, <2>5, <2>6
    DEF Room, InsertCheck, DispatchCheck, WorkflowCheck, AnswerCheck, FireAtCheck
<1>4. CASE \E r \in Requests : Kitchen(r)
  <2>1. PICK r \in Requests : KdsUpdate(r)
    BY <1>2, <1>4 DEF Kitchen, KdsCheck
  <2> QED BY <1>1, <1>2, <2>1 DEF KdsUpdate, Write, Finish
<1>5. CASE \E r \in Requests : Till(r)
  BY <1>1, <1>2, <1>5
  DEF Till, ProcessPayment, FireTakeawayItems, FireTakeawayFails, WriteAll, Waiting
<1>6. CASE Pass
  <2>1. ASSUME NEW S \in SUBSET Dishes, ConfirmPickup(S) PROVE FALSE
    BY <1>2, <2>1 DEF ConfirmPickup, WriteAll
  <2>2. ASSUME NEW S \in SUBSET Dishes,
               NEW status \in NewStatus,
               BatchUpdateStatus(S, status)
        PROVE  FALSE
    <3>1. dishes'[d] = IF d \in S /\ BatchAllowed(d, status)
                       THEN IF status = "served" THEN Served(dishes[d])
                                                 ELSE [dishes[d] EXCEPT !.status = status]
                       ELSE dishes[d]
      BY <2>2 DEF BatchUpdateStatus, WriteAll
    <3> QED BY <1>1, <1>2, <3>1 DEF BatchAllowed, Served, Dish
  <2> QED BY <1>6, <2>1, <2>2 DEF Pass
<1>7. CASE Closing
  <2>1. dishes'[d] \in {dishes[d], Served(dishes[d]), Cancelled(dishes[d])}
    BY <1>7 DEF Closing, MarkAsportoRitirato, MarkAsportoNoShow, CancelOrder, WriteAll
  <2> QED BY <1>1, <1>2, <2>1 DEF Dish, Served, Cancelled
<1>8. CASE \E e \in Dishes : CancelItem(e) \/ DeleteItem(e) \/ TimePasses(e)
  <2>1. PICK e \in Dishes : CancelItem(e) \/ DeleteItem(e) \/ TimePasses(e)
    BY <1>8
  <2>2. CASE e = d
    BY <1>1, <1>2, <2>1, <2>2 DEF CancelItem, DeleteItem, TimePasses, Write, Cancelled, Dish
  <2>3. CASE e # d
    BY <1>1, <1>2, <2>1, <2>3 DEF CancelItem, DeleteItem, TimePasses, Write
  <2> QED BY <2>2, <2>3
<1>9. CASE CheckScheduledFires
  BY <1>1, <1>2, <1>9 DEF CheckScheduledFires, Due, Waiting, WriteAll
<1> QED BY <1>3, <1>4, <1>5, <1>6, <1>7, <1>8, <1>9 DEF Next

\* For any number of dishes and requests: what was served comes back to the kitchen
\* only by a request that overlaps with the serving.
THEOREM ServedComesBack == Spec => ServedComesBackOnlyStale
<1>1. WorkflowInv /\ [Next]_vars =>
        [\A d \in Dishes :
           dishes[d].workflow = "production" /\ dishes[d].status = "served"
             => \/ Over(d)'
                \/ \E r \in Requests : /\ req[r].pc \in {"kds", "release", "answer"}
                                        /\ req[r].dish = d
                                        /\ req'[r] = Idle]_vars
  BY ServedStep
<1> QED BY <1>1, WorkflowInvariant, PTL DEF Spec, ServedComesBackOnlyStale
=============================================================================
