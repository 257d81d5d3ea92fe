-------------------------- MODULE ServiceTimer_proofs --------------------------
(***************************************************************************)
(* Proofs about ServiceTimer for any dishes, requests and limits: types,   *)
(* and the bound on postponements.                                         *)
(*                                                                         *)
(* A tap that passed the check is counted before it writes: the entries of *)
(* an alert and the taps under way together stay below the limit plus the  *)
(* number of requests, because a tap passes only while defer_count, and    *)
(* with it the number of entries, is below the limit.                      *)
(***************************************************************************)
EXTENDS ServiceTimer, FiniteSetTheorems, TLAPS

\* Postponements that passed the check and have not written yet.
Tapping(d, t) ==
  {r \in Requests : req[r].pc = "postpone" /\ req[r].dish = d /\ req[r].type = t}

EntriesCounted ==
  \A d \in Dishes, t \in Types :
    alerts[d][t].count < MaxPostpone => alerts[d][t].taps <= alerts[d][t].count

TapsCounted ==
  \A d \in Dishes, t \in Types :
    alerts[d][t].taps + Cardinality(Tapping(d, t)) < MaxTaps

TimerInv == TypeOK /\ EntriesCounted /\ TapsCounted

-----------------------------------------------------------------------------
\* A part of the requests is no larger than all of them.
LEMMA FewTaps ==
  ASSUME NEW S \in SUBSET Requests
  PROVE  IsFiniteSet(S) /\ Cardinality(S) \in Nat /\ Cardinality(S) <= Cardinality(Requests)
         /\ Cardinality(Requests) \in Nat
  BY FS_Subset, FS_CardinalityType, TimerAssumption

LEMMA Bounds == MaxTaps \in Nat /\ MaxPostpone \in Nat \ {0}
  BY FewTaps, TimerAssumption DEF MaxTaps

LEMMA Constants ==
  /\ NoAlert \in Alert /\ NewAlert \in Alert
  /\ Idle \in Request /\ \A c \in BOOLEAN : NoTick(c) \in Tick
  <1>1. NoAlert \in Alert /\ NewAlert \in Alert
    BY Bounds DEF NoAlert, NewAlert, Alert
  <1>2. Idle \in Request
    BY DEF Idle, Request
  <1>3. \A c \in BOOLEAN : NoTick(c) \in Tick
    BY DEF NoTick, Tick
  <1> QED
    BY <1>1, <1>2, <1>3

LEMMA InitInv == Init => TimerInv
  <1> SUFFICES ASSUME Init PROVE TimerInv
    OBVIOUS
  <1>1. dishes \in [Dishes -> Dish]
    BY DEF Init, Dish, Ages
  <1>2. TypeOK
    BY <1>1, Constants, TimerAssumption DEF Init, TypeOK, Idle, NoAlert
  <1>3. EntriesCounted
    BY Bounds DEF Init, EntriesCounted, NoAlert
  <1>4. ASSUME NEW d \in Dishes, NEW t \in Types
        PROVE  alerts[d][t].taps + Cardinality(Tapping(d, t)) < MaxTaps
    <2>1. Tapping(d, t) = {}
      BY DEF Init, Tapping, Idle
    <2> QED
      BY <2>1, FS_EmptySet, FewTaps, Bounds DEF Init, NoAlert, MaxTaps
  <1> QED
    BY <1>2, <1>3, <1>4 DEF TimerInv, TapsCounted

-----------------------------------------------------------------------------
\* What a step writes into a dish.
DishStep ==
  /\ dishes' \in [Dishes -> Dish]
  /\ \A e \in Dishes : dishes'[e].status = "ready" => "ready" \in dishes'[e].stamps

\* One dish is replaced.
LEMMA ReplaceDish ==
  ASSUME TypeOK, NEW d \in Dishes, NEW n \in Dish, dishes' = [dishes EXCEPT ![d] = n],
         n.status = "ready" => "ready" \in n.stamps
  PROVE  DishStep
  BY DEF TypeOK, DishStep

\* What the handlers make of a dish is a dish, and if it is ready it says since when.
LEMMA NewDishes ==
  ASSUME NEW x \in Dish, x.status = "ready" => "ready" \in x.stamps
  PROVE  /\ \A s \in {"making", "ready", "served", "cancelled"} :
              /\ Written(x, s) \in Dish
              /\ Written(x, s).status = "ready" => "ready" \in Written(x, s).stamps
         /\ Cancelled(x) \in Dish /\ Cancelled(x).status = "cancelled"
         /\ Sent(x) \in Dish /\ Sent(x).status = "making"
         /\ HeldBack(x) \in Dish /\ HeldBack(x).status = x.status
  <1>1. ASSUME NEW s \in {"making", "ready", "served", "cancelled"}
        PROVE  /\ Written(x, s) \in Dish
               /\ Written(x, s).status = "ready" => "ready" \in Written(x, s).stamps
    BY DEF Written, Dish, Stamped
  <1>2. Cancelled(x) \in Dish /\ Cancelled(x).status = "cancelled"
    <2>1. CASE x.status \notin {"served", "ready"}
      BY <2>1 DEF Cancelled, Dish
    <2>2. CASE x.status \in {"served", "ready"}
      <3> DEFINE w == x.stamps \ {"ready", x.status}
      <3>1. Cancelled(x) = [x EXCEPT !.status = "cancelled", !.age = 0, !.stamps = w]
        BY <2>2 DEF Cancelled
      <3>2. w \in SUBSET Stamped
        BY DEF Dish
      <3>3. 0 \in Ages
        BY DEF Ages
      <3> HIDE DEF w
      <3> QED
        BY <3>1, <3>2, <3>3 DEF Dish
    <2> QED
      BY <2>1, <2>2
  <1>3. /\ Sent(x) \in Dish /\ Sent(x).status = "making"
        /\ HeldBack(x) \in Dish /\ HeldBack(x).status = x.status
    BY DEF Sent, HeldBack, Dish
  <1> QED
    BY <1>1, <1>2, <1>3

-----------------------------------------------------------------------------
\* The alerts of a dish are deleted: nobody is about to postpone one of them.
LEMMA CleanupStep ==
  ASSUME TimerInv, NEW d \in Dishes, Cleanup(d), DishStep, tick' = tick
  PROVE  TimerInv'
  <1> USE DEF TimerInv
  <1>1. /\ alerts' = [alerts EXCEPT ![d] = [t \in Types |-> NoAlert]]
        /\ alerts' \in [Dishes -> [Types -> Alert]]
    BY Constants DEF TypeOK, Cleanup
  <1>2. \A r \in Requests : req[r].dish # d => req'[r] = req[r]
    BY DEF Cleanup
  <1>3. \A r \in Requests : req[r].dish = d /\ req[r].pc = "postpone" => req'[r] = Idle
    BY DEF Cleanup
  <1>4. ASSUME NEW r \in Requests, req[r].dish = d, req[r].pc # "postpone"
        PROVE  /\ req'[r] \in Request /\ req'[r].pc = req[r].pc
               /\ req'[r].dish = d /\ req'[r].type = "gone"
    <2>1. req[r] \in Request
      BY DEF TypeOK
    <2>2. req'[r] = [pc |-> req[r].pc, dish |-> req[r].dish, type |-> "gone", act |-> req[r].act]
      BY <1>4, <2>1 DEF Cleanup, Request
    <2> QED
      BY <1>4, <2>1, <2>2 DEF Request
  <1>5. req' \in [Requests -> Request]
    BY <1>2, <1>3, <1>4, Constants DEF TypeOK, Cleanup
  <1>6. ASSUME NEW r \in Requests, req'[r].pc # "idle"
        PROVE  /\ req'[r].dish \in Dishes
               /\ req'[r].type # "none"
               /\ req'[r].pc = "postpone" => req'[r].type \in Types
               /\ req'[r].type \in Types => alerts'[req'[r].dish][req'[r].type].stored
    BY <1>1, <1>2, <1>3, <1>4, <1>6 DEF TypeOK, Idle, Types, Chain, Owned
  <1>7. TypeOK'
    BY <1>1, <1>5, <1>6 DEF TypeOK, DishStep
  <1>8. EntriesCounted'
    BY <1>1, Bounds DEF EntriesCounted, TypeOK, NoAlert
  <1>9. ASSUME NEW e \in Dishes, NEW t \in Types
        PROVE  alerts'[e][t].taps + Cardinality(Tapping(e, t)') < MaxTaps
    <2>1. Tapping(e, t)' \subseteq Tapping(e, t)
      BY <1>2, <1>3, <1>4 DEF Tapping, Idle
    <2>2. alerts'[e][t].taps <= alerts[e][t].taps /\ alerts'[e][t].taps \in Nat
          /\ alerts[e][t].taps \in Nat
      BY <1>1, Bounds DEF TypeOK, NoAlert, Alert
    <2>3. /\ Cardinality(Tapping(e, t)') \in Nat /\ Cardinality(Tapping(e, t)) \in Nat
          /\ Cardinality(Tapping(e, t)') <= Cardinality(Tapping(e, t))
      <3>1. Tapping(e, t) \in SUBSET Requests
        BY DEF Tapping
      <3> QED
        BY <2>1, <3>1, FewTaps, FS_Subset
    <2> QED
      BY <2>2, <2>3, Bounds DEF TapsCounted
  <1> QED
    BY <1>7, <1>8, <1>9 DEF TapsCounted

-----------------------------------------------------------------------------
\* No entry is added and no request starts: what the requests know stays true.
LEMMA AlertStep ==
  ASSUME TimerInv, DishStep, tick' \in Tick,
         alerts' \in [Dishes -> [Types -> Alert]], req' \in [Requests -> Request],
         EntriesCounted',
         \A d \in Dishes, t \in Types :
           /\ alerts'[d][t].taps <= alerts[d][t].taps
           /\ alerts[d][t].stored => alerts'[d][t].stored,
         \A r \in Requests : req'[r] = req[r] \/ req'[r] = Idle
  PROVE  TimerInv'
  <1> USE DEF TimerInv
  <1>1. ASSUME NEW r \in Requests, req'[r].pc # "idle"
        PROVE  /\ req'[r].dish \in Dishes
               /\ req'[r].type # "none"
               /\ req'[r].pc = "postpone" => req'[r].type \in Types
               /\ req'[r].type \in Types => alerts'[req'[r].dish][req'[r].type].stored
    BY <1>1 DEF TypeOK, Idle
  <1>2. TypeOK'
    BY <1>1 DEF TypeOK, DishStep
  <1>3. ASSUME NEW d \in Dishes, NEW t \in Types
        PROVE  alerts'[d][t].taps + Cardinality(Tapping(d, t)') < MaxTaps
    <2>1. Tapping(d, t)' \subseteq Tapping(d, t) /\ Tapping(d, t) \in SUBSET Requests
      BY DEF Tapping, Idle
    <2>2. alerts'[d][t].taps \in Nat /\ alerts[d][t].taps \in Nat
      BY Bounds DEF TypeOK, Alert
    <2>3. /\ Cardinality(Tapping(d, t)') \in Nat /\ Cardinality(Tapping(d, t)) \in Nat
          /\ Cardinality(Tapping(d, t)') <= Cardinality(Tapping(d, t))
      BY <2>1, FewTaps, FS_Subset
    <2> QED
      BY <2>2, <2>3, Bounds DEF TapsCounted
  <1> QED
    BY <1>2, <1>3 DEF TapsCounted

\* One alert is replaced by one with no more entries.
LEMMA ReplaceAlert ==
  ASSUME TimerInv, NEW d \in Dishes, NEW t \in Types, NEW a \in Alert,
         alerts' = [alerts EXCEPT ![d][t] = a],
         a.taps = alerts[d][t].taps, a.stored = alerts[d][t].stored,
         a.count >= alerts[d][t].count
  PROVE  /\ alerts' \in [Dishes -> [Types -> Alert]] /\ EntriesCounted'
         /\ \A e \in Dishes, s \in Types :
              /\ alerts'[e][s].taps <= alerts[e][s].taps
              /\ alerts[e][s].stored => alerts'[e][s].stored
  <1>1. alerts \in [Dishes -> [Types -> Alert]]
    BY DEF TimerInv, TypeOK
  <1>2. \A e \in Dishes, s \in Types :
          alerts'[e][s] = IF e = d /\ s = t THEN a ELSE alerts[e][s]
    BY <1>1
  <1>3. \A e \in Dishes, s \in Types :
          alerts[e][s].taps \in Nat /\ alerts[e][s].count \in Nat
    BY <1>1, Bounds DEF Alert
  <1>4. a.count \in Nat
    BY Bounds DEF Alert
  <1>5. EntriesCounted'
    BY <1>2, <1>3, <1>4, Bounds DEF TimerInv, EntriesCounted
  <1> QED
    BY <1>1, <1>2, <1>3, <1>5

LEMMA DeferredAlert ==
  ASSUME NEW a \in Alert
  PROVE  /\ Deferred(a) \in Alert /\ Deferred(a).taps = a.taps
         /\ Deferred(a).stored = a.stored /\ Deferred(a).count >= a.count
         /\ Deferred(a).count = IF a.count < MaxPostpone THEN a.count + 1 ELSE a.count
  <1> DEFINE n == IF a.count < MaxPostpone THEN a.count + 1 ELSE a.count
  <1>1. Deferred(a) = [a EXCEPT !.later = "running", !.count = n]
    BY DEF Deferred
  <1>2. n \in 0..MaxPostpone /\ n >= a.count
    BY Bounds DEF Alert
  <1> HIDE DEF n
  <1>3. /\ Deferred(a) \in Alert /\ Deferred(a).taps = a.taps
        /\ Deferred(a).stored = a.stored /\ Deferred(a).count = n
    BY <1>1, <1>2 DEF Alert
  <1> QED
    BY <1>2, <1>3 DEF n

\* Nothing happens to the alerts and the requests.
LEMMA QuietStep ==
  ASSUME TimerInv, DishStep, tick' \in Tick, alerts' = alerts, req' = req
  PROVE  TimerInv'
  <1>1. EntriesCounted'
    BY DEF TimerInv, EntriesCounted
  <1>2. \A d \in Dishes, t \in Types : alerts'[d][t].taps <= alerts[d][t].taps
    BY Bounds DEF TimerInv, TypeOK, Alert
  <1> QED
    BY <1>1, <1>2, AlertStep DEF TimerInv, TypeOK

LEMMA SameDishes ==
  ASSUME TimerInv, dishes' = dishes
  PROVE  DishStep
  BY DEF TimerInv, TypeOK, DishStep

LEMMA OtherAlerts ==
  ASSUME NEW a \in Alert
  PROVE  /\ Acked(a) \in Alert /\ Acked(a).taps = a.taps
         /\ Acked(a).stored = a.stored /\ Acked(a).count = a.count
         /\ \A w \in {"no", "running", "over"} :
              /\ Later(a, w) \in Alert /\ Later(a, w).taps = a.taps
              /\ Later(a, w).stored = a.stored /\ Later(a, w).count = a.count
  BY DEF Acked, Later, Alert

\* A postponement adds one entry, unless there are as many as are counted.
LEMMA TappedAlert ==
  ASSUME NEW a \in Alert
  PROVE  /\ Tapped(a) \in Alert /\ Tapped(a).stored = a.stored
         /\ Tapped(a).taps <= a.taps + 1
         /\ Tapped(a).count = IF a.count < MaxPostpone THEN a.count + 1 ELSE a.count
  <1> DEFINE n == IF Deferred(a).taps < MaxTaps THEN Deferred(a).taps + 1 ELSE Deferred(a).taps
  <1>1. Tapped(a) = [Deferred(a) EXCEPT !.taps = n]
    BY DEF Tapped
  <1>2. Deferred(a) \in Alert /\ Deferred(a).taps = a.taps
    BY DeferredAlert
  <1>3. n \in 0..MaxTaps /\ n <= a.taps + 1
    BY <1>2, Bounds DEF Alert
  <1> HIDE DEF n
  <1> QED
    BY <1>1, <1>2, <1>3, DeferredAlert DEF Alert

-----------------------------------------------------------------------------
\* A request starts that is not about to write an entry, or that found the limit not reached.
LEMMA StartStep ==
  ASSUME TimerInv, NEW r \in Requests, NEW d \in Dishes, NEW t \in Types,
         NEW pc \in {"postpone", "respond"}, NEW act \in {"none", "release", "defer"},
         Start(r, pc, d, t, act), alerts[d][t].stored,
         pc = "postpone" => alerts[d][t].count < MaxPostpone,
         UNCHANGED <<dishes, alerts, tick>>
  PROVE  TimerInv'
  <1> USE DEF TimerInv
  <1> DEFINE q == [pc |-> pc, dish |-> d, type |-> t, act |-> act]
  <1>1. q \in Request
    BY DEF Request
  <1>2. /\ req' = [req EXCEPT ![r] = q] /\ q.pc = pc /\ q.dish = d /\ q.type = t
        /\ req[r].pc = "idle"
    BY DEF Start
  <1> HIDE DEF q
  <1>3. req' \in [Requests -> Request]
        /\ \A s \in Requests : req'[s] = IF s = r THEN q ELSE req[s]
    BY <1>1, <1>2 DEF TypeOK
  <1>4. \A s \in Requests : req'[s].pc # "idle" =>
          /\ req'[s].dish \in Dishes
          /\ req'[s].type # "none"
          /\ req'[s].pc = "postpone" => req'[s].type \in Types
          /\ req'[s].type \in Types => alerts'[req'[s].dish][req'[s].type].stored
    BY <1>2, <1>3 DEF TypeOK, Types, Chain, Owned
  <1>5. TypeOK'
    BY <1>3, <1>4 DEF TypeOK
  <1>6. EntriesCounted'
    BY DEF EntriesCounted
  <1>7. ASSUME NEW e \in Dishes, NEW s \in Types
        PROVE  alerts'[e][s].taps + Cardinality(Tapping(e, s)') < MaxTaps
    <2>1. CASE pc = "postpone" /\ e = d /\ s = t
      <3>1. alerts[e][s].taps <= alerts[e][s].count /\ alerts[e][s].count < MaxPostpone
        BY <2>1 DEF EntriesCounted
      <3>2. Tapping(e, s)' \in SUBSET Requests
        BY DEF Tapping
      <3>3. alerts[e][s].taps \in Nat /\ alerts[e][s].count \in Nat
        BY Bounds DEF TypeOK, Alert
      <3> QED
        BY <3>1, <3>2, <3>3, FewTaps, Bounds DEF MaxTaps
    <2>2. CASE ~(pc = "postpone" /\ e = d /\ s = t)
      <3>1. Tapping(e, s)' = Tapping(e, s)
        BY <1>2, <1>3, <2>2 DEF Tapping
      <3> QED
        BY <3>1 DEF TapsCounted
    <2> QED
      BY <2>1, <2>2
  <1> QED
    BY <1>5, <1>6, <1>7 DEF TapsCounted

LEMMA PostponeStep ==
  ASSUME TimerInv, NEW r \in Requests, PostponeAlert(r)
  PROVE  TimerInv'
  <1> USE DEF TimerInv
  <1> DEFINE d == req[r].dish  t == req[r].type
  <1>1. d \in Dishes /\ t \in Types /\ alerts[d][t] \in Alert
    BY DEF PostponeAlert, TypeOK
  <1> DEFINE a == Tapped(alerts[d][t])
  <1>2. /\ a \in Alert /\ a.stored = alerts[d][t].stored /\ a.taps <= alerts[d][t].taps + 1
        /\ a.count = IF alerts[d][t].count < MaxPostpone THEN alerts[d][t].count + 1
                     ELSE alerts[d][t].count
    BY <1>1, TappedAlert
  <1>3. /\ alerts' = [alerts EXCEPT ![d][t] = a] /\ req' = [req EXCEPT ![r] = Idle]
        /\ req[r].pc = "postpone" /\ dishes' = dishes /\ tick' = tick
    BY DEF PostponeAlert, Finish
  <1> DEFINE T(e, s) == Tapping(e, s)
  <1>4. T(d, t) \in SUBSET Requests /\ r \in T(d, t)
    BY <1>3 DEF Tapping
  <1> HIDE DEF a
  <1>5. \A e \in Dishes, s \in Types :
          alerts'[e][s] = IF e = d /\ s = t THEN a ELSE alerts[e][s]
    BY <1>1, <1>3 DEF TypeOK
  <1>6. alerts' \in [Dishes -> [Types -> Alert]] /\ req' \in [Requests -> Request]
        /\ \A q \in Requests : req'[q] = IF q = r THEN Idle ELSE req[q]
    BY <1>1, <1>2, <1>3, Constants DEF TypeOK
  <1>7. \A e \in Dishes, s \in Types :
          /\ alerts[e][s].taps \in Nat /\ alerts[e][s].count \in Nat
          /\ alerts'[e][s].taps \in Nat
    BY <1>6, Bounds DEF TypeOK, Alert
  <1>8. TypeOK'
    BY <1>2, <1>3, <1>5, <1>6 DEF TypeOK, Idle
  <1>9. ASSUME NEW e \in Dishes, NEW s \in Types, alerts'[e][s].count < MaxPostpone
        PROVE  alerts'[e][s].taps <= alerts'[e][s].count
    <2>1. alerts[e][s].count < MaxPostpone => alerts[e][s].taps <= alerts[e][s].count
      BY DEF EntriesCounted
    <2>2. CASE e = d /\ s = t
      <3>1. alerts'[e][s] = a
        BY <1>5, <2>2
      <3>2. a.count = IF alerts[e][s].count < MaxPostpone THEN alerts[e][s].count + 1
                      ELSE alerts[e][s].count
        BY <1>2, <2>2
      <3>3. a.taps <= alerts[e][s].taps + 1
        BY <1>2, <2>2
      <3>4. /\ alerts[e][s].taps \in Nat /\ alerts[e][s].count \in Nat
            /\ a.taps \in Nat /\ MaxPostpone \in Nat
        BY <1>7, <3>1, Bounds
      <3>5. a.count < MaxPostpone
        BY <1>9, <3>1
      <3> QED
        BY <2>1, <3>1, <3>2, <3>3, <3>4, <3>5
    <2>3. CASE ~(e = d /\ s = t)
      <3>1. alerts'[e][s] = alerts[e][s]
        BY <1>5, <2>3
      <3> QED
        BY <1>9, <2>1, <3>1
    <2> QED
      BY <2>2, <2>3
  <1>10. ASSUME NEW e \in Dishes, NEW s \in Types
         PROVE  alerts'[e][s].taps + Cardinality(Tapping(e, s)') < MaxTaps
    <2>1. CASE e = d /\ s = t
      <3>1. Tapping(e, s)' = Tapping(e, s) \ {r}
        BY <1>6, <2>1 DEF Tapping, Idle
      <3>2. Tapping(e, s) \in SUBSET Requests /\ r \in Tapping(e, s)
        BY <1>4, <2>1
      <3>3. /\ Cardinality(Tapping(e, s)') = Cardinality(Tapping(e, s)) - 1
            /\ Cardinality(Tapping(e, s)) \in Nat
        BY <3>1, <3>2, FewTaps, FS_RemoveElement
      <3>4. alerts'[e][s].taps <= alerts[e][s].taps + 1
        BY <1>2, <1>5, <2>1
      <3> QED
        BY <1>7, <3>3, <3>4, Bounds DEF TapsCounted
    <2>2. CASE ~(e = d /\ s = t)
      <3>1. Tapping(e, s)' = Tapping(e, s)
        BY <1>6, <2>2 DEF Tapping, Idle
      <3> QED
        BY <1>5, <2>2, <3>1 DEF TapsCounted
    <2> QED
      BY <2>1, <2>2
  <1> QED
    BY <1>8, <1>9, <1>10 DEF EntriesCounted, TapsCounted

-----------------------------------------------------------------------------
LEMMA KitchenStep ==
  ASSUME TimerInv, NEW d \in Dishes, Kitchen(d)
  PROVE  TimerInv'
  <1>0. dishes[d] \in Dish /\ (dishes[d].status = "ready" => "ready" \in dishes[d].stamps)
        /\ tick \in Tick /\ TypeOK
    BY DEF TimerInv, TypeOK
  <1>1. ASSUME NEW s \in {"making", "ready", "served", "cancelled"},
               dishes' = [dishes EXCEPT ![d] = Written(@, s)]
        PROVE  DishStep
    BY <1>0, <1>1, NewDishes, ReplaceDish
  <1>2. ASSUME NEW s \in {"making", "ready", "served", "cancelled"}, UpdateItemStatus(d, s)
        PROVE  TimerInv'
    <2>1. DishStep /\ tick' = tick
      BY <1>1, <1>2 DEF UpdateItemStatus
    <2>2. CASE s = "served"
      BY <1>2, <2>1, <2>2, CleanupStep DEF UpdateItemStatus
    <2>3. CASE s # "served"
      BY <1>0, <1>2, <2>1, <2>3, QuietStep DEF UpdateItemStatus
    <2> QED
      BY <2>2, <2>3
  <1>3. ASSUME NEW s \in {"making", "ready", "served", "cancelled"}, BatchUpdateStatus(d, s)
        PROVE  TimerInv'
    BY <1>0, <1>1, <1>3, QuietStep DEF BatchUpdateStatus
  <1>4. CASE PushServed(d)
    BY <1>1, <1>4, CleanupStep DEF PushServed
  <1>5. CASE CancelItem(d)
    <2>1. DishStep
      BY <1>0, <1>5, NewDishes, ReplaceDish DEF CancelItem
    <2> QED
      BY <1>5, <2>1, CleanupStep DEF CancelItem
  <1>6. CASE SetItemFireAt(d)
    <2>1. DishStep
      BY <1>0, <1>6, NewDishes, ReplaceDish DEF SetItemFireAt
    <2> QED
      BY <1>0, <1>6, <2>1, QuietStep DEF SetItemFireAt
  <1>7. CASE ClearItemFireAt(d)
    <2>1. dishes' = [dishes EXCEPT ![d] = [dishes[d] EXCEPT !.fireAt = "none"]]
      BY <1>7 DEF ClearItemFireAt
    <2>2. /\ [dishes[d] EXCEPT !.fireAt = "none"] \in Dish
          /\ [dishes[d] EXCEPT !.fireAt = "none"].status = "making"
      BY <1>0, <1>7 DEF ClearItemFireAt, Dish
    <2>3. DishStep
      BY <1>0, <2>1, <2>2, ReplaceDish
    <2> QED
      BY <1>0, <1>7, <2>3, QuietStep DEF ClearItemFireAt
  <1>8. CASE Release(d)
    <2>1. DishStep
      BY <1>0, <1>8, NewDishes, ReplaceDish DEF Release
    <2> QED
      BY <1>0, <1>8, <2>1, QuietStep DEF Release
  <1> QED
    BY <1>2, <1>3, <1>4, <1>5, <1>6, <1>7, <1>8 DEF Kitchen

LEMMA TimeStep ==
  ASSUME TimerInv, NEW d \in Dishes, TimePasses(d)
  PROVE  TimerInv'
  <1>0. dishes[d] \in Dish /\ (dishes[d].status = "ready" => "ready" \in dishes[d].stamps)
        /\ tick \in Tick /\ TypeOK
    BY DEF TimerInv, TypeOK
  <1>1. CASE Age(d)
    <2> DEFINE n == [dishes[d] EXCEPT !.age = dishes[d].age + 1]
    <2>1. dishes' = [dishes EXCEPT ![d] = n] /\ dishes[d].age < 2
      BY <1>1 DEF Age
    <2>2. dishes[d].age + 1 \in Ages
      BY <1>0, <2>1 DEF Dish, Ages
    <2>3. n \in Dish /\ n.status = dishes[d].status /\ n.stamps = dishes[d].stamps
      BY <1>0, <2>2 DEF Dish
    <2> HIDE DEF n
    <2>4. DishStep
      BY <1>0, <2>1, <2>3, ReplaceDish
    <2> QED
      BY <1>0, <1>1, <2>4, QuietStep DEF Age
  <1>2. CASE FireAtComes(d)
    <2> DEFINE n == [dishes[d] EXCEPT !.fireAt = "due"]
    <2>1. dishes' = [dishes EXCEPT ![d] = n]
      BY <1>2 DEF FireAtComes
    <2>2. n \in Dish /\ n.status = dishes[d].status /\ n.stamps = dishes[d].stamps
      BY <1>0 DEF Dish
    <2> HIDE DEF n
    <2>3. DishStep
      BY <1>0, <2>1, <2>2, ReplaceDish
    <2> QED
      BY <1>0, <1>2, <2>3, QuietStep DEF FireAtComes
  <1>3. ASSUME NEW t \in Answered, PostponeEnds(d, t)
        PROVE  TimerInv'
    <2>1. t \in Types /\ alerts[d][t] \in Alert
      BY <1>0, TimerAssumption DEF Types, Chain, Owned, TypeOK
    <2> DEFINE a == Later(alerts[d][t], "over")
    <2>2. a \in Alert /\ a.taps = alerts[d][t].taps /\ a.stored = alerts[d][t].stored
          /\ a.count = alerts[d][t].count
      BY <2>1, OtherAlerts
    <2>3. alerts' = [alerts EXCEPT ![d][t] = a] /\ dishes' = dishes /\ req' = req /\ tick' = tick
      BY <1>3 DEF PostponeEnds
    <2> HIDE DEF a
    <2>4. a.count >= alerts[d][t].count
      BY <2>1, <2>2, Bounds DEF Alert
    <2>5. DishStep
      BY <2>3, SameDishes
    <2> QED
      BY <1>0, <2>1, <2>2, <2>3, <2>4, <2>5, ReplaceAlert, AlertStep DEF TypeOK
  <1> QED
    BY <1>1, <1>2, <1>3 DEF TimePasses

LEMMA WaiterStep ==
  ASSUME TimerInv, NEW d \in Dishes, NEW t \in Answered, Waiter(d, t)
  PROVE  TimerInv'
  <1>0. t \in Types /\ alerts[d][t] \in Alert /\ TypeOK
    BY TimerAssumption DEF Types, Chain, Owned, TypeOK, TimerInv
  <1>1. CASE AcknowledgeAlert(d, t)
    <2> DEFINE a == Acked(alerts[d][t])
    <2>1. a \in Alert /\ a.taps = alerts[d][t].taps /\ a.stored = alerts[d][t].stored
          /\ a.count = alerts[d][t].count
      BY <1>0, OtherAlerts
    <2>2. alerts' = [alerts EXCEPT ![d][t] = a] /\ dishes' = dishes /\ req' = req /\ tick' = tick
      BY <1>1 DEF AcknowledgeAlert
    <2> HIDE DEF a
    <2>3. a.count >= alerts[d][t].count
      BY <1>0, <2>1, Bounds DEF Alert
    <2>4. DishStep
      BY <2>2, SameDishes
    <2> QED
      BY <1>0, <2>1, <2>2, <2>3, <2>4, ReplaceAlert, AlertStep DEF TypeOK
  <1>2. ASSUME NEW r \in Requests, PostponeCheck(r, d, t)
        PROVE  TimerInv'
    BY <1>0, <1>2, StartStep DEF PostponeCheck, PostponeAllowed
  <1>3. ASSUME NEW r \in Requests, NEW act \in {"release", "defer"}, RespondCheck(r, d, t, act)
        PROVE  TimerInv'
    BY <1>0, <1>3, StartStep DEF RespondCheck
  <1> QED
    BY <1>1, <1>2, <1>3 DEF Waiter

\* An answer writes the alert it is about, if there still is one.
LEMMA RespondStep ==
  ASSUME TimerInv, NEW r \in Requests, RespondRelease(r) \/ RespondDefer(r)
  PROVE  TimerInv'
  <1> DEFINE d == req[r].dish  t == req[r].type
  <1>0. /\ req[r].pc = "respond" /\ req' = [req EXCEPT ![r] = Idle] /\ tick' = tick
    BY DEF RespondRelease, RespondDefer, Finish
  <1>1. TypeOK /\ d \in Dishes /\ dishes[d] \in Dish
        /\ (dishes[d].status = "ready" => "ready" \in dishes[d].stamps)
    BY <1>0 DEF TimerInv, TypeOK
  <1>2. DishStep
    <2>1. CASE RespondRelease(r)
      BY <1>1, <2>1, NewDishes, ReplaceDish DEF RespondRelease
    <2>2. CASE RespondDefer(r)
      BY <2>2, SameDishes DEF RespondDefer
    <2> QED
      BY <2>1, <2>2
  <1>3. req' \in [Requests -> Request] /\ \A q \in Requests : req'[q] = req[q] \/ req'[q] = Idle
    BY <1>0, <1>1, Constants DEF TypeOK
  <1>4. CASE alerts' = alerts
    <2>1. EntriesCounted'
      BY <1>4 DEF TimerInv, EntriesCounted
    <2>2. \A e \in Dishes, s \in Types : alerts'[e][s].taps <= alerts[e][s].taps
      BY <1>1, <1>4, Bounds DEF TypeOK, Alert
    <2> QED
      BY <1>0, <1>1, <1>2, <1>3, <1>4, <2>1, <2>2, AlertStep DEF TypeOK
  <1>5. CASE t \in Types /\ \/ alerts' = [alerts EXCEPT ![d][t] = Acked(@)]
                            \/ alerts' = [alerts EXCEPT ![d][t] = Deferred(@)]
    <2>1. PICK a \in Alert : /\ alerts' = [alerts EXCEPT ![d][t] = a]
                             /\ a.taps = alerts[d][t].taps /\ a.stored = alerts[d][t].stored
                             /\ a.count >= alerts[d][t].count
      <3>1. alerts[d][t] \in Alert /\ alerts[d][t].count \in Nat
        BY <1>1, <1>5, Bounds DEF TypeOK, Alert
      <3>2. CASE alerts' = [alerts EXCEPT ![d][t] = Acked(@)]
        <4> DEFINE a == Acked(alerts[d][t])
        <4>1. /\ a \in Alert /\ a.taps = alerts[d][t].taps /\ a.stored = alerts[d][t].stored
              /\ a.count = alerts[d][t].count /\ alerts' = [alerts EXCEPT ![d][t] = a]
          BY <3>1, <3>2, OtherAlerts
        <4> HIDE DEF a
        <4>2. a.count >= alerts[d][t].count
          BY <3>1, <4>1
        <4> QED
          BY <4>1, <4>2
      <3>3. CASE alerts' = [alerts EXCEPT ![d][t] = Deferred(@)]
        <4> DEFINE a == Deferred(alerts[d][t])
        <4>1. /\ a \in Alert /\ a.taps = alerts[d][t].taps /\ a.stored = alerts[d][t].stored
              /\ a.count >= alerts[d][t].count /\ alerts' = [alerts EXCEPT ![d][t] = a]
          BY <3>1, <3>3, DeferredAlert
        <4> HIDE DEF a
        <4> QED
          BY <4>1
      <3> QED
        BY <1>5, <3>2, <3>3
    <2> QED
      BY <1>0, <1>1, <1>2, <1>3, <1>5, <2>1, ReplaceAlert, AlertStep DEF TypeOK
  <1>6. t \in Types \/ t = "gone" \/ t = "none"
    BY <1>1 DEF TypeOK, Request
  <1>7. t # "none"
    BY <1>0, <1>1 DEF TypeOK
  <1> QED
    BY <1>4, <1>5, <1>6, <1>7 DEF RespondRelease, RespondDefer

LEMMA TickStep ==
  ASSUME TimerInv, TickNext \/ TickFails
  PROVE  TimerInv'
  <1>1. TypeOK
    BY DEF TimerInv
  <1>2. CASE TickStart
    <2> DEFINE f == {p \in Wanted : ~alerts[p[1]][p[2]].stored}
               g == {p \in Wanted : /\ p[2] \in Owned /\ alerts[p[1]][p[2]].stored
                                    /\ RingsAgain(alerts[p[1]][p[2]])}
    <2>1. f \in SUBSET (Dishes \X Types) /\ g \in SUBSET (Dishes \X Owned)
      BY DEF Wanted, Types, Chain, Owned
    <2>2. /\ tick' = [column |-> tick.column, running |-> TRUE, fresh |-> f, again |-> g]
          /\ dishes' = dishes /\ alerts' = alerts /\ req' = req
      BY <1>2 DEF TickStart
    <2>0. tick.column \in BOOLEAN
      BY <1>1 DEF TypeOK, Tick
    <2> HIDE DEF f, g
    <2>3. tick' \in Tick
      BY <2>0, <2>1, <2>2 DEF Tick
    <2> QED
      BY <2>2, <2>3, QuietStep, SameDishes
  <1>3. CASE TickCommit
    <2>1. DishStep
      <3>1. \A d \in Dishes : /\ dishes[d] \in Dish
                              /\ dishes[d].status = "ready" => "ready" \in dishes[d].stamps
        BY <1>1 DEF TypeOK
      <3>2. dishes' = [d \in Dishes |-> IF Fires(d) THEN Sent(dishes[d]) ELSE dishes[d]]
        BY <1>3 DEF TickCommit
      <3>3. \A d \in Dishes : /\ dishes'[d] \in Dish
                              /\ dishes'[d].status = "ready" => "ready" \in dishes'[d].stamps
        BY <3>1, <3>2, NewDishes
      <3> QED
        BY <3>2, <3>3 DEF DishStep
    <2>2. ASSUME NEW d \in Dishes, NEW t \in Types
          PROVE  /\ alerts'[d][t] \in Alert
                 /\ alerts'[d][t].taps <= alerts[d][t].taps
                 /\ alerts[d][t].stored => alerts'[d][t].stored
                 /\ alerts'[d][t].count < MaxPostpone => alerts'[d][t].taps <= alerts'[d][t].count
      <3>1. alerts[d][t] \in Alert /\ alerts[d][t].taps \in Nat /\ MaxPostpone \in Nat
        BY <1>1, Bounds DEF TypeOK, Alert
      <3>2. alerts[d][t].count < MaxPostpone => alerts[d][t].taps <= alerts[d][t].count
        BY DEF TimerInv, EntriesCounted
      <3>3. \/ alerts'[d][t] = NewAlert
            \/ alerts'[d][t] = Later(alerts[d][t], "no")
            \/ alerts'[d][t] = alerts[d][t]
        BY <1>3 DEF TickCommit
      <3>4. NewAlert \in Alert /\ NewAlert.taps = 0 /\ NewAlert.count = 0 /\ NewAlert.stored
        BY Constants DEF NewAlert
      <3>5. CASE alerts'[d][t] = NewAlert
        BY <3>1, <3>4, <3>5
      <3>6. CASE alerts'[d][t] = Later(alerts[d][t], "no")
        <4> DEFINE a == Later(alerts[d][t], "no")
        <4>1. /\ a \in Alert /\ a.taps = alerts[d][t].taps
              /\ a.stored = alerts[d][t].stored /\ a.count = alerts[d][t].count
          BY <3>1, OtherAlerts
        <4> HIDE DEF a
        <4> QED
          BY <3>1, <3>2, <3>6, <4>1 DEF a
      <3>7. CASE alerts'[d][t] = alerts[d][t]
        BY <3>1, <3>2, <3>7
      <3> QED
        BY <3>3, <3>5, <3>6, <3>7
    <2>3. alerts' \in [Dishes -> [Types -> Alert]]
      BY <1>3, <2>2 DEF TickCommit
    <2>4. EntriesCounted'
      BY <2>2 DEF EntriesCounted
    <2>5. req' = req /\ tick' \in Tick
      BY <1>1, <1>3, Constants DEF TickCommit, TypeOK, Tick
    <2> QED
      BY <1>1, <2>1, <2>2, <2>3, <2>4, <2>5, AlertStep DEF TypeOK
  <1>4. CASE TickFails
    <2>1. tick' \in Tick /\ dishes' = dishes /\ alerts' = alerts /\ req' = req
      BY <1>1, <1>4, Constants DEF TickFails, TypeOK, Tick
    <2> QED
      BY <2>1, QuietStep, SameDishes
  <1> QED
    BY <1>2, <1>3, <1>4 DEF TickNext

LEMMA NextInv == TimerInv /\ [Next]_vars => TimerInv'
  <1> SUFFICES ASSUME TimerInv, [Next]_vars PROVE TimerInv'
    OBVIOUS
  <1>1. ASSUME NEW d \in Dishes, Kitchen(d) PROVE TimerInv'
    BY <1>1, KitchenStep
  <1>2. ASSUME NEW d \in Dishes, TimePasses(d) PROVE TimerInv'
    BY <1>2, TimeStep
  <1>3. ASSUME NEW d \in Dishes, NEW t \in Answered, Waiter(d, t) PROVE TimerInv'
    BY <1>3, WaiterStep
  <1>4. ASSUME NEW r \in Requests, Continue(r) PROVE TimerInv'
    BY <1>4, PostponeStep, RespondStep DEF Continue
  <1>5. CASE TickNext \/ TickFails
    BY <1>5, TickStep
  <1>6. CASE UNCHANGED vars
    <2>1. dishes' = dishes /\ alerts' = alerts /\ req' = req /\ tick' = tick
      BY <1>6 DEF vars
    <2> QED
      BY <2>1, QuietStep, SameDishes DEF TimerInv, TypeOK
  <1> QED
    BY <1>1, <1>2, <1>3, <1>4, <1>5, <1>6 DEF Next

\* The inductive invariant behind the alerts: well-formed rows, and a bound on the entries
\* of an alert together with the taps that passed the check and have not written yet.
THEOREM TimerInvariant == Spec => []TimerInv
  BY InitInv, NextInv, PTL DEF Spec

\* Rows, alerts, answers and ticks stay well formed, for any dishes and requests.
THEOREM TypeCorrect == Spec => []TypeOK
  <1>1. TimerInv => TypeOK
    BY DEF TimerInv
  <1> QED
    BY <1>1, TimerInvariant, PTL

\* postponeAlert reads the count and adds to it in two statements: an alert gets more
\* entries than the limit, but never by as many as there are requests under way.  (At
\* this commit no alert that can be postponed is stored; see TickStart.)
THEOREM Bounded == Spec => []PostponesBounded
  <1>1. TimerInv => PostponesBounded
    <2> SUFFICES ASSUME TimerInv, NEW d \in Dishes, NEW t \in Answered
                 PROVE  alerts[d][t].taps < MaxTaps
      BY DEF PostponesBounded
    <2>1. t \in Types
      BY TimerAssumption DEF Types, Chain, Owned
    <2>2. Tapping(d, t) \in SUBSET Requests
      BY DEF Tapping
    <2>3. alerts[d][t].taps \in Nat
      BY <2>1, Bounds DEF TimerInv, TypeOK, Alert
    <2> QED
      BY <2>1, <2>2, <2>3, FewTaps, Bounds DEF TimerInv, TapsCounted
  <1> QED
    BY <1>1, TimerInvariant, PTL
=============================================================================
