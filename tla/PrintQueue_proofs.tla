--------------------------- MODULE PrintQueue_proofs ---------------------------
(***************************************************************************)
(* Proofs about PrintQueue for any orders, rows, requests and callbacks: a *)
(* ticket that was undertaken stays on its way until something disposes of *)
(* it, and a row comes out at the bar once.                                *)
(***************************************************************************)
EXTENDS PrintQueue, SequenceTheorems, TLAPS

\* A request that has something to hand over knows its order; nothing is owed for a row
\* that was given up.
Sound ==
  /\ \A q \in Requests : req[q].pc # "idle" => req[q].order \in Orders
  /\ \A t \in owed : row[t[2]] # "cancelled"

PrintInv == TypeOK /\ Sound /\ NothingForgotten

-----------------------------------------------------------------------------
(* The queue.                                                              *)

LEMMA TicketIsPair ==
  ASSUME NEW t \in Ticket
  PROVE  t[1] \in Kinds /\ t[2] \in Rows
  BY DEF Ticket

LEMMA MemberOfJobs ==
  ASSUME NEW jobs \in Seq(Job), NEW t \in Ticket
  PROVE  t \in InJobs(jobs) <=>
           \E i \in 1..Len(jobs) : t[1] = jobs[i].kind /\ t[2] \in jobs[i].rows
  BY DEF InJobs, TicketsOf

LEMMA OneJob ==
  ASSUME NEW kind \in Kinds \cup {"other"}, NEW S \in SUBSET Rows
  PROVE  /\ JobOf(kind, S) \in Seq(Job)
         /\ \A t \in Ticket : t[1] = kind /\ t[2] \in S => t \in InJobs(JobOf(kind, S))
  <1> DEFINE job == [kind |-> kind, rows |-> S]
  <1>1. job \in Job
    BY DEF Job
  <1>2. CASE S = {}
    BY <1>2 DEF JobOf
  <1>3. CASE S # {}
    <2>1. JobOf(kind, S) = <<job>> /\ <<job>> \in Seq(Job)
      BY <1>1, <1>3 DEF JobOf
    <2>2. Len(<<job>>) = 1 /\ <<job>>[1] = job
      OBVIOUS
    <2> QED
      BY <2>1, <2>2, MemberOfJobs
  <1> QED
    BY <1>2, <1>3

LEMMA JobsTogether ==
  ASSUME NEW jobs \in Seq(Job), NEW more \in Seq(Job), NEW t \in Ticket,
         t \in InJobs(jobs) \/ t \in InJobs(more)
  PROVE  /\ jobs \o more \in Seq(Job)
         /\ t \in InJobs(jobs \o more)
  <1>1. /\ jobs \o more \in Seq(Job)
        /\ Len(jobs \o more) = Len(jobs) + Len(more)
        /\ \A i \in 1..Len(jobs) : (jobs \o more)[i] = jobs[i]
        /\ \A i \in 1..Len(more) : (jobs \o more)[Len(jobs) + i] = more[i]
    BY ConcatProperties, LenProperties
  <1>2. CASE t \in InJobs(jobs)
    <2>1. PICK i \in 1..Len(jobs) : t[1] = jobs[i].kind /\ t[2] \in jobs[i].rows
      BY <1>2, MemberOfJobs
    <2>2. i \in 1..Len(jobs \o more) /\ (jobs \o more)[i] = jobs[i]
      BY <1>1, LenProperties
    <2> QED
      BY <1>1, <2>1, <2>2, MemberOfJobs
  <1>3. CASE t \in InJobs(more)
    <2>1. PICK i \in 1..Len(more) : t[1] = more[i].kind /\ t[2] \in more[i].rows
      BY <1>3, MemberOfJobs
    <2>2. Len(jobs) + i \in 1..Len(jobs \o more) /\ (jobs \o more)[Len(jobs) + i] = more[i]
      BY <1>1, LenProperties
    <2> QED
      BY <1>1, <2>1, <2>2, MemberOfJobs
  <1> QED
    BY <1>1, <1>2, <1>3

\* What the limit leaves over, and that what is not left over was counted as dropped.
LEMMA KeptOrDropped ==
  ASSUME NEW jobs \in Seq(Job)
  PROVE  /\ Kept(jobs) \in Seq(Job)
         /\ Len(Kept(jobs)) <= MaxQueue
         /\ \A t \in Ticket : t \in InJobs(jobs) => t \in InJobs(Kept(jobs)) \/ t \in Dropped(jobs)
  <1> DEFINE n == Len(jobs) - MaxQueue
             old == SubSeq(jobs, 1, n)
             new == SubSeq(jobs, n + 1, Len(jobs))
  <1>0. MaxQueue \in Nat \ {0} /\ Len(jobs) \in Nat
    BY PrintAssumption, LenProperties
  <1>1. CASE Len(jobs) <= MaxQueue
    BY <1>0, <1>1 DEF Kept, Dropped
  <1>2. CASE ~(Len(jobs) <= MaxQueue)
    <2>1. n \in Nat /\ n + 1 \in Int /\ n < Len(jobs) /\ n >= 1
      BY <1>0, <1>2
    <2>2. \A i \in 1..Len(jobs) : jobs[i] \in Job
      BY ElementOfSeq
    <2>3. \A i \in 1..n : jobs[i] \in Job
      BY <1>0, <2>1, <2>2
    <2>4. \A i \in n + 1..Len(jobs) : jobs[i] \in Job
      BY <1>0, <2>1, <2>2
    <2>5. /\ old \in Seq(Job) /\ Len(old) = n
          /\ \A i \in 1..n : old[i] = jobs[i]
      <3>1. n - 1 + 1 = n /\ \A i \in 1..n : 1 + i - 1 = i
        BY <2>1
      <3> QED
        BY <2>1, <2>3, <3>1, SubSeqProperties
    <2>6. /\ new \in Seq(Job) /\ Len(new) = MaxQueue
          /\ \A i \in 1..MaxQueue : new[i] = jobs[n + i]
      <3>1. /\ Len(jobs) - (n + 1) + 1 = MaxQueue /\ n + 1 <= Len(jobs)
            /\ \A i \in 1..MaxQueue : n + 1 + i - 1 = n + i
        BY <1>0, <2>1
      <3> QED
        BY <1>0, <2>1, <2>4, <3>1, SubSeqProperties
    <2>7. Kept(jobs) = new /\ Dropped(jobs) = InJobs(old)
      BY <1>2 DEF Kept, Dropped
    <2>8. ASSUME NEW t \in Ticket, t \in InJobs(jobs)
          PROVE  t \in InJobs(new) \/ t \in InJobs(old)
      <3> HIDE DEF n, old, new
      <3>1. PICK i \in 1..Len(jobs) : t[1] = jobs[i].kind /\ t[2] \in jobs[i].rows
        BY <2>8, MemberOfJobs
      <3>2. CASE i <= n
        <4>1. i \in 1..Len(old) /\ old[i] = jobs[i]
          BY <2>1, <2>5, <3>2
        <4> QED
          BY <2>5, <3>1, <4>1, MemberOfJobs
      <3>3. CASE i > n
        <4>1. i - n \in 1..MaxQueue /\ n + (i - n) = i
          BY <1>0, <2>1, <3>3 DEF n
        <4>2. i - n \in 1..Len(new) /\ new[i - n] = jobs[i]
          BY <2>6, <4>1
        <4> QED
          BY <2>6, <3>1, <4>2, MemberOfJobs
      <3> QED
        BY <2>1, <3>2, <3>3
    <2> QED
      BY <1>0, <2>6, <2>7, <2>8
  <1> QED
    BY <1>1, <1>2

LEMMA Pushed ==
  ASSUME NEW jobs \in Seq(Job), TypeOK, Push(jobs)
  PROVE  /\ queue' \in Seq(Job) /\ Len(queue') <= MaxQueue
         /\ owed' \subseteq owed
         /\ \A t \in owed' : t \in InJobs(queue) \/ t \in InJobs(jobs) => t \in InJobs(queue')
  <1> DEFINE all == queue \o jobs
  <1>1. queue \in Seq(Job) /\ owed \subseteq Ticket
    BY DEF TypeOK
  <1>2. all \in Seq(Job)
    BY <1>1, ConcatProperties
  <1>3. queue' = Kept(all) /\ owed' = owed \ Dropped(all)
    BY DEF Push
  <1>4. \A t \in Ticket : t \in InJobs(queue) \/ t \in InJobs(jobs) => t \in InJobs(all)
    BY <1>1, JobsTogether
  <1> HIDE DEF all
  <1> QED
    BY <1>1, <1>2, <1>3, <1>4, KeptOrDropped

-----------------------------------------------------------------------------
(* Nothing is forgotten.                                                   *)

LEMMA InitInv == Init => PrintInv
  <1> SUFFICES ASSUME Init PROVE PrintInv
    OBVIOUS
  <1>1. <<>> \in Seq(Job) /\ Len(<<>>) = 0
    OBVIOUS
  <1>2. TypeOK
    BY <1>1, PrintAssumption DEF Init, TypeOK, RowStatus, Request, Entry, Callback, Idle, NoEntry,
       NoCallback
  <1> QED
    BY <1>2 DEF Init, PrintInv, Sound, NothingForgotten, Idle

\* A step that keeps a ticket's dish in the kitchen and takes nothing from the memory.
LEMMA StillOnItsWay ==
  ASSUME PrintInv, NEW t \in Ticket, t \in owed,
         t[1] = "kitchen" /\ row[t[2]] = "production" => row'[t[2]] = "production",
         \A q \in Requests : req[q].pc # "idle" => req'[q] = req[q],
         UNCHANGED <<bar, kitchen, read, queue>>
  PROVE  InRequests(t)' \/ InTimers(t)' \/ InCallbacks(t)' \/ t \in InJobs(queue)'
  <1>1. t[1] \in Kinds /\ t[2] \in Rows
    BY TicketIsPair
  <1>2. \A o : t[1] = "kitchen" /\ t[2] \in Cooked(o) => t[2] \in Cooked(o)'
    BY <1>1 DEF Cooked, With
  <1>3. InRequests(t) \/ InTimers(t) \/ InCallbacks(t) \/ t \in InJobs(queue)
    BY DEF PrintInv, NothingForgotten
  <1>4. CASE InRequests(t)
    <2>1. PICK q \in Requests : t \in HandedOver(q)
      BY <1>4 DEF InRequests
    <2>2. req[q].pc # "idle"
      BY <2>1 DEF HandedOver, Undertaken
    <2>3. req'[q] = req[q]
      BY <2>2
    <2>4. t \in HandedOver(q)'
      BY <1>2, <2>1, <2>3 DEF HandedOver, Undertaken
    <2> QED
      BY <2>4 DEF InRequests
  <1>5. CASE InTimers(t)
    BY <1>2, <1>5 DEF InTimers
  <1>6. CASE InCallbacks(t)
    <2>1. PICK s \in Reads : t \in Announced(read[s])
      BY <1>6 DEF InCallbacks
    <2>2. t \in Announced(read[s])'
      BY <1>2, <2>1 DEF Announced
    <2> QED
      BY <2>2 DEF InCallbacks
  <1> QED
    BY <1>3, <1>4, <1>5, <1>6

\* What a handler commits is owed, and is in its hands.
LEMMA CommitKeeps ==
  ASSUME PrintInv, NEW q \in Requests, NEW pc \in {"insert", "cook", "fire"},
         NEW o \in Orders, NEW S \in SUBSET Rows, Commit(q, pc, o, S),
         row' \in [Rows -> RowStatus], paid' \subseteq Takeaway, grown' \subseteq Takeaway,
         \A r \in Rows : row[r] = "production" => row'[r] = "production",
         \A r \in Rows : row[r] # "cancelled" => row'[r] # "cancelled",
         \A r \in S : row'[r] # "cancelled"
  PROVE  PrintInv'
  <1> DEFINE cooked == {r \in Rows : OrderOf[r] = o /\ row'[r] = "production"} \ Bar
             new == Undertaken(pc, S, cooked)
  <1>1. /\ req' = [req EXCEPT ![q] = [pc |-> pc, order |-> o, rows |-> S]]
        /\ req[q].pc = "idle"
        /\ owed' = owed \cup new
        /\ UNCHANGED <<bar, kitchen, read, queue, copies>>
    BY DEF Commit
  <1>2. [pc |-> pc, order |-> o, rows |-> S] \in Request
    BY DEF Request
  <1>3. new \subseteq Ticket
    BY DEF Undertaken
  <1>4. TypeOK'
    BY <1>1, <1>2, <1>3 DEF PrintInv, TypeOK
  <1>5. \A t \in new : row'[t[2]] # "cancelled"
    BY DEF Undertaken
  <1>6. Sound'
    <2>1. \A p \in Requests : req'[p].pc # "idle" => req'[p].order \in Orders
      BY <1>1 DEF PrintInv, TypeOK, Sound
    <2>2. \A t \in owed : row'[t[2]] # "cancelled"
      BY TicketIsPair DEF PrintInv, TypeOK, Sound
    <2> QED
      BY <1>1, <1>5, <2>1, <2>2 DEF Sound
  <1>7. ASSUME NEW t \in owed'
        PROVE  InRequests(t)' \/ InTimers(t)' \/ InCallbacks(t)' \/ t \in InJobs(queue)'
    <2>1. t \in Ticket
      BY <1>4 DEF TypeOK
    <2>2. CASE t \in owed
      <3>1. \A p \in Requests : req[p].pc # "idle" => req'[p] = req[p]
        BY <1>1 DEF PrintInv, TypeOK
      <3>2. row[t[2]] = "production" => row'[t[2]] = "production"
        BY <2>1, TicketIsPair
      <3> QED
        BY <1>1, <2>1, <2>2, <3>1, <3>2, StillOnItsWay
    <2>3. CASE t \in new
      <3>1. Cooked(o)' = cooked
        BY DEF Cooked, With
      <3>2. req'[q] = [pc |-> pc, order |-> o, rows |-> S]
        BY <1>1 DEF PrintInv, TypeOK
      <3>3. t \in HandedOver(q)'
        BY <2>3, <3>1, <3>2 DEF HandedOver
      <3> QED
        BY <3>3 DEF InRequests
    <2> QED
      BY <1>1, <2>2, <2>3
  <1> QED
    BY <1>4, <1>6, <1>7 DEF PrintInv, NothingForgotten

LEMMA BecomesKeeps ==
  ASSUME PrintInv, NEW r \in Rows, NEW status \in RowStatus, NEW needless \in SUBSET Kinds,
         Becomes(r, status, needless),
         row[r] = "production" => status = "production" \/ "kitchen" \in needless,
         status = "cancelled" => needless = Kinds
  PROVE  PrintInv'
  <1>1. /\ row' = [row EXCEPT ![r] = status] /\ UNCHANGED <<paid, grown>>
        /\ owed' = {t \in owed : t[2] = r => t[1] \notin needless}
        /\ UNCHANGED <<req, bar, kitchen, read, queue, copies>>
    BY DEF Becomes
  <1>2. TypeOK'
    BY <1>1 DEF PrintInv, TypeOK
  <1>3. Sound'
    <2>1. \A q \in Requests : req'[q].pc # "idle" => req'[q].order \in Orders
      BY <1>1 DEF PrintInv, Sound
    <2>2. ASSUME NEW t \in owed'
          PROVE  row'[t[2]] # "cancelled"
      <3>1. t \in owed /\ t[1] \in Kinds /\ t[2] \in Rows
        BY <1>1, <2>2, TicketIsPair DEF PrintInv, TypeOK
      <3>2. row[t[2]] # "cancelled"
        BY <3>1 DEF PrintInv, Sound
      <3> QED
        BY <1>1, <2>2, <3>1, <3>2 DEF PrintInv, TypeOK
    <2> QED
      BY <2>1, <2>2 DEF Sound
  <1>4. ASSUME NEW t \in owed'
        PROVE  InRequests(t)' \/ InTimers(t)' \/ InCallbacks(t)' \/ t \in InJobs(queue)'
    <2>1. t \in owed /\ t \in Ticket /\ t[2] \in Rows
      BY <1>1, <1>4, TicketIsPair DEF PrintInv, TypeOK
    <2>2. t[1] = "kitchen" /\ row[t[2]] = "production" => row'[t[2]] = "production"
      BY <1>1, <1>4, <2>1 DEF PrintInv, TypeOK
    <2> QED
      BY <1>1, <2>1, <2>2, StillOnItsWay
  <1> QED
    BY <1>2, <1>3, <1>4 DEF PrintInv, NothingForgotten

\* A ticket stays where it is if its place is left alone, and the rows do not change.
LEMMA OnItsWay ==
  ASSUME PrintInv, NEW t \in Ticket, t \in owed, UNCHANGED row,
         \A q \in Requests : t \in HandedOver(q) /\ req'[q] # req[q] =>
            InTimers(t)' \/ InCallbacks(t)' \/ t \in InJobs(queue)',
         InTimers(t) => InTimers(t)' \/ InCallbacks(t)',
         \A s \in Reads : t \in Announced(read[s]) /\ read'[s] # read[s] =>
            InCallbacks(t)' \/ t \in InJobs(queue)',
         t \in InJobs(queue) => t \in InJobs(queue)'
  PROVE  InRequests(t)' \/ InTimers(t)' \/ InCallbacks(t)' \/ t \in InJobs(queue)'
  <1>1. InRequests(t) \/ InTimers(t) \/ InCallbacks(t) \/ t \in InJobs(queue)
    BY DEF PrintInv, NothingForgotten
  <1>2. \A o : Cooked(o)' = Cooked(o)
    BY DEF Cooked, With
  <1>3. CASE InRequests(t)
    <2>1. PICK q \in Requests : t \in HandedOver(q)
      BY <1>3 DEF InRequests
    <2>2. CASE req'[q] = req[q]
      <3>1. t \in HandedOver(q)'
        BY <1>2, <2>1, <2>2 DEF HandedOver
      <3> QED
        BY <3>1 DEF InRequests
    <2> QED
      BY <2>1, <2>2
  <1>4. CASE InCallbacks(t)
    <2>1. PICK s \in Reads : t \in Announced(read[s])
      BY <1>4 DEF InCallbacks
    <2>2. CASE read'[s] = read[s]
      <3>1. t \in Announced(read[s])'
        BY <1>2, <2>1, <2>2 DEF Announced
      <3> QED
        BY <3>1 DEF InCallbacks
    <2> QED
      BY <2>1, <2>2
  <1> QED
    BY <1>1, <1>3, <1>4

LEMMA HandOverKeeps ==
  ASSUME PrintInv, NEW q \in Requests, HandOver(q)
  PROVE  PrintInv'
  <1> DEFINE o == req[q].order
             S == req[q].rows
             jobs == JobOf("auto", S \cap AutoPrint)
  <1>1. /\ req[q].pc # "idle"
        /\ bar' = IF S \cap Bar = {} THEN bar ELSE [bar EXCEPT ![o] = Gathered(@, S \cap Bar)]
        /\ kitchen' = IF req[q].pc = "insert" THEN kitchen ELSE kitchen \cup {o}
        /\ Push(jobs)
        /\ req' = [req EXCEPT ![q] = Idle]
        /\ UNCHANGED <<row, paid, grown, read, copies>>
    BY DEF HandOver
  <1>2. TypeOK
    BY DEF PrintInv
  <1>3. o \in Orders /\ S \in SUBSET Rows /\ req[q] \in Request
    BY <1>1 DEF PrintInv, TypeOK, Sound, Request
  <1>4. /\ jobs \in Seq(Job)
        /\ \A t \in Ticket : t[1] = "auto" /\ t[2] \in S \cap AutoPrint => t \in InJobs(jobs)
    <2>1. "auto" \in Kinds \cup {"other"} /\ S \cap AutoPrint \in SUBSET Rows
      BY <1>3 DEF Kinds
    <2> QED
      BY <2>1, OneJob
  <1> HIDE DEF jobs
  <1>5. /\ queue' \in Seq(Job) /\ Len(queue') <= MaxQueue /\ owed' \subseteq owed
        /\ \A t \in owed' : t \in InJobs(queue) \/ t \in InJobs(jobs) => t \in InJobs(queue')
    BY <1>1, <1>2, <1>4, Pushed
  <1>6. bar' \in [Orders -> Entry]
    <2>1. bar[o] \in Entry
      BY <1>2, <1>3 DEF TypeOK
    <2>2. Gathered(bar[o], S \cap Bar) \in Entry
      BY <1>3, <2>1 DEF Gathered, Entry
    <2> QED
      BY <1>1, <1>2, <1>3, <2>2 DEF TypeOK
  <1>7. req' \in [Requests -> Request] /\ Idle \in Request
    <2>1. Idle \in Request
      BY DEF Idle, Request
    <2> QED
      BY <1>1, <1>2, <2>1 DEF TypeOK
  <1>8. TypeOK'
    BY <1>1, <1>2, <1>3, <1>5, <1>6, <1>7 DEF TypeOK
  <1>9. Sound'
    BY <1>1, <1>2, <1>5 DEF PrintInv, TypeOK, Sound, Idle
  <1>10. ASSUME NEW t \in owed'
         PROVE  InRequests(t)' \/ InTimers(t)' \/ InCallbacks(t)' \/ t \in InJobs(queue)'
    <2>1. t \in owed /\ t \in Ticket /\ t[1] \in Kinds /\ t[2] \in Rows
      BY <1>2, <1>5, <1>10, TicketIsPair DEF TypeOK
    <2>2. \A x : Cooked(x)' = Cooked(x)
      BY <1>1 DEF Cooked, With
    <2>3. ASSUME t \in HandedOver(q)
          PROVE  InTimers(t)' \/ t \in InJobs(queue)'
      <3>1. CASE t[1] = "bar" /\ t[2] \in S \cap Bar
        <4>1. bar'[o].armed /\ t[2] \in bar'[o].ids
          BY <1>1, <1>2, <1>3, <3>1 DEF Gathered, TypeOK, Entry
        <4> QED
          BY <1>3, <3>1, <4>1 DEF InTimers
      <3>2. CASE t[1] = "auto" /\ t[2] \in S \cap AutoPrint
        BY <1>4, <1>5, <1>10, <2>1, <3>2
      <3>3. CASE t[1] = "kitchen" /\ req[q].pc \in {"cook", "fire"} /\ t[2] \in Cooked(o)
        BY <1>1, <2>2, <3>3 DEF InTimers
      <3> QED
        BY <2>3, <3>1, <3>2, <3>3 DEF HandedOver, Undertaken
    <2>4. \A p \in Requests : req'[p] # req[p] => p = q
      BY <1>1, <1>2 DEF TypeOK
    <2>5. InTimers(t) => InTimers(t)'
      <3>1. ASSUME NEW x \in Orders, bar[x].armed, t[2] \in bar[x].ids
            PROVE  bar'[x].armed /\ t[2] \in bar'[x].ids
        BY <1>1, <1>2, <1>3, <3>1 DEF Gathered, TypeOK, Entry
      <3>2. ASSUME NEW x \in kitchen
            PROVE  x \in kitchen' /\ Cooked(x)' = Cooked(x)
        BY <1>1, <2>2
      <3> QED
        BY <3>1, <3>2 DEF InTimers
    <2> QED
      BY <1>1, <1>5, <1>10, <2>1, <2>3, <2>4, <2>5, OnItsWay
  <1> QED
    BY <1>8, <1>9, <1>10 DEF PrintInv, NothingForgotten

LEMMA HandOverFailsKeeps ==
  ASSUME PrintInv, NEW q \in Requests, HandOverFails(q)
  PROVE  PrintInv'
  <1>1. /\ owed' = owed \ HandedOver(q)
        /\ req' = [req EXCEPT ![q] = Idle]
        /\ UNCHANGED <<row, paid, grown, bar, kitchen, read, queue, copies>>
    BY DEF HandOverFails
  <1>2. Idle \in Request
    BY DEF Idle, Request
  <1>3. TypeOK'
    BY <1>1, <1>2 DEF PrintInv, TypeOK
  <1>4. Sound'
    BY <1>1 DEF PrintInv, TypeOK, Sound, Idle
  <1>5. ASSUME NEW t \in owed'
        PROVE  InRequests(t)' \/ InTimers(t)' \/ InCallbacks(t)' \/ t \in InJobs(queue)'
    <2>1. t \in owed /\ t \in Ticket /\ t \notin HandedOver(q)
      BY <1>1, <1>5 DEF PrintInv, TypeOK
    <2>2. \A p \in Requests : req'[p] # req[p] => p = q
      BY <1>1 DEF PrintInv, TypeOK
    <2>3. InTimers(t)' <=> InTimers(t)
      BY <1>1 DEF InTimers, Cooked, With
    <2> QED
      BY <1>1, <2>1, <2>2, <2>3, OnItsWay
  <1> QED
    BY <1>3, <1>4, <1>5 DEF PrintInv, NothingForgotten

\* A timer that expires leaves its tickets to the callback.
LEMMA ExpiryKeeps ==
  ASSUME PrintInv, NEW s \in Reads, NEW o \in Orders, BarExpires(s, o) \/ KitchenExpires(s, o)
  PROVE  PrintInv'
  <1>1. UNCHANGED <<row, paid, grown, req, queue, owed, copies>>
    BY DEF BarExpires, KitchenExpires
  <1>2. TypeOK
    BY DEF PrintInv
  <1>3. TypeOK'
    <2>1. CASE BarExpires(s, o)
      <3>1. [kind |-> "bar", order |-> o, known |-> FALSE, ids |-> bar[o].ids] \in Callback
        BY <1>2 DEF TypeOK, Callback, Entry
      <3>2. Expired(bar[o]) \in Entry
        BY DEF Expired, NoEntry, Entry
      <3> QED
        BY <1>1, <1>2, <2>1, <3>1, <3>2 DEF BarExpires, TypeOK
    <2>2. CASE KitchenExpires(s, o)
      <3>1. [kind |-> "kitchen", order |-> o, known |-> FALSE, ids |-> {}] \in Callback
        BY DEF Callback
      <3> QED
        BY <1>1, <1>2, <2>2, <3>1 DEF KitchenExpires, TypeOK
    <2> QED
      BY <2>1, <2>2
  <1>4. Sound'
    BY <1>1 DEF PrintInv, Sound
  <1>5. ASSUME NEW t \in owed'
        PROVE  InRequests(t)' \/ InTimers(t)' \/ InCallbacks(t)' \/ t \in InJobs(queue)'
    <2>1. t \in owed /\ t \in Ticket
      BY <1>1, <1>2, <1>5 DEF TypeOK
    <2>2. read[s].kind = "none" /\ \A x \in Reads : read'[x] # read[x] => x = s
      BY <1>2 DEF BarExpires, KitchenExpires, TypeOK
    <2>3. \A x \in Reads : t \in Announced(read[x]) => read'[x] = read[x]
      BY <2>2 DEF Announced
    <2>4. \A x : Cooked(x)' = Cooked(x)
      BY <1>1 DEF Cooked, With
    <2>5. InTimers(t) => InTimers(t)' \/ InCallbacks(t)'
      <3>1. CASE BarExpires(s, o)
        <4>1. /\ kitchen' = kitchen
              /\ \A x \in Orders \ {o} : bar'[x] = bar[x]
              /\ read'[s] = [kind |-> "bar", order |-> o, known |-> FALSE, ids |-> bar[o].ids]
          BY <1>2, <3>1 DEF BarExpires, TypeOK
        <4>2. t[1] = "bar" /\ t[2] \in bar[o].ids => t \in Announced(read[s])'
          BY <2>1, <4>1 DEF Announced
        <4>3. t[1] = "bar" /\ t[2] \in bar[o].ids => InCallbacks(t)'
          BY <4>2 DEF InCallbacks
        <4> QED
          BY <2>4, <4>1, <4>3 DEF InTimers
      <3>2. CASE KitchenExpires(s, o)
        <4>1. /\ bar' = bar /\ kitchen' = kitchen \ {o}
              /\ read'[s] = [kind |-> "kitchen", order |-> o, known |-> FALSE, ids |-> {}]
          BY <1>2, <3>2 DEF KitchenExpires, TypeOK
        <4>2. t[1] = "kitchen" /\ t[2] \in Cooked(o) => t \in Announced(read[s])'
          BY <2>1, <2>4, <4>1 DEF Announced
        <4>3. t[1] = "kitchen" /\ t[2] \in Cooked(o) => InCallbacks(t)'
          BY <4>2 DEF InCallbacks
        <4> QED
          BY <2>4, <4>1, <4>3 DEF InTimers
      <3> QED
        BY <3>1, <3>2
    <2> QED
      BY <1>1, <2>1, <2>3, <2>5, OnItsWay
  <1> QED
    BY <1>3, <1>4, <1>5 DEF PrintInv, NothingForgotten

\* Of what a callback announced it finds everything but the rows that were given up.
LEMMA ReadRowsKeeps ==
  ASSUME PrintInv, NEW s \in Reads, ReadRows(s)
  PROVE  PrintInv'
  <1> DEFINE c == read[s]
             seen == [c EXCEPT !.known = TRUE, !.ids = Found(c)]
  <1>1. /\ c.kind # "none" /\ ~c.known
        /\ read' = [read EXCEPT ![s] = seen]
        /\ UNCHANGED <<row, paid, grown, req, bar, kitchen, queue, owed, copies>>
    BY DEF ReadRows
  <1>2. TypeOK /\ c \in Callback
    BY DEF PrintInv, TypeOK
  <1>3. Found(c) \subseteq Rows
    BY <1>2 DEF Found, Cooked, With, Callback
  <1>4. seen \in Callback /\ seen.known = TRUE /\ seen.ids = Found(c) /\ seen.kind = c.kind
    BY <1>2, <1>3 DEF Callback
  <1>5. TypeOK'
    BY <1>1, <1>2, <1>4 DEF TypeOK
  <1>6. Sound'
    BY <1>1 DEF PrintInv, Sound
  <1>7. ASSUME NEW t \in owed'
        PROVE  InRequests(t)' \/ InTimers(t)' \/ InCallbacks(t)' \/ t \in InJobs(queue)'
    <2>1. t \in owed /\ t \in Ticket /\ row[t[2]] # "cancelled"
      BY <1>1, <1>2, <1>7 DEF TypeOK, PrintInv, Sound
    <2>2. \A x \in Reads : read'[x] # read[x] => x = s
      BY <1>1, <1>2 DEF TypeOK
    <2>3. t \in Announced(c) => t \in Announced(seen)
      BY <1>1, <1>4, <2>1 DEF Announced, Found
    <2>4. t \in Announced(c) => InCallbacks(t)'
      <3>1. read'[s] = seen
        BY <1>1, <1>2 DEF TypeOK
      <3>2. Announced(seen) = Announced(read[s])'
        BY <1>1, <1>4, <3>1 DEF Announced
      <3> QED
        BY <2>3, <3>2 DEF InCallbacks
    <2>5. InTimers(t)' <=> InTimers(t)
      BY <1>1 DEF InTimers, Cooked, With
    <2> QED
      BY <1>1, <2>1, <2>2, <2>4, <2>5, OnItsWay
  <1> QED
    BY <1>5, <1>6, <1>7 DEF PrintInv, NothingForgotten

LEMMA PushTicketKeeps ==
  ASSUME PrintInv, NEW s \in Reads, PushTicket(s)
  PROVE  PrintInv'
  <1> DEFINE c == read[s]
             cucina == JobOf("kitchen", c.ids \ Pizzeria)
             pizzeria == JobOf("kitchen", c.ids \cap Pizzeria)
             jobs == IF c.kind = "bar" THEN JobOf("bar", c.ids) ELSE cucina \o pizzeria
  <1>1. /\ c.kind # "none" /\ c.known
        /\ Push(jobs)
        /\ read' = [read EXCEPT ![s] = NoCallback]
        /\ UNCHANGED <<row, paid, grown, req, bar, kitchen>>
    BY DEF PushTicket
  <1>2. copies' = copies \/ copies' = [r \in Rows |->
                   IF r \in c.ids /\ copies[r] < 2 THEN copies[r] + 1 ELSE copies[r]]
    BY DEF PushTicket
  <1>3. TypeOK /\ c \in Callback /\ c.ids \subseteq Rows
    BY DEF PrintInv, TypeOK, Callback
  <1>4. /\ jobs \in Seq(Job)
        /\ \A t \in Ticket : t \in Announced(c) => t \in InJobs(jobs)
    <2>1. CASE c.kind = "bar"
      <3>1. "bar" \in Kinds \cup {"other"}
        BY DEF Kinds
      <3>2. JobOf("bar", c.ids) \in Seq(Job)
        BY <1>3, <3>1, OneJob
      <3>3. \A t \in Ticket : t[1] = "bar" /\ t[2] \in c.ids => t \in InJobs(JobOf("bar", c.ids))
        BY <1>3, <3>1, OneJob
      <3> QED
        BY <2>1, <3>2, <3>3 DEF Announced
    <2>2. CASE c.kind # "bar"
      <3>1. "kitchen" \in Kinds \cup {"other"}
        BY DEF Kinds
      <3>2. c.ids \ Pizzeria \in SUBSET Rows /\ c.ids \cap Pizzeria \in SUBSET Rows
        BY <1>3
      <3>3. /\ cucina \in Seq(Job)
            /\ \A t \in Ticket : t[1] = "kitchen" /\ t[2] \in c.ids \ Pizzeria => t \in InJobs(cucina)
        BY <3>1, <3>2, OneJob
      <3>4. /\ pizzeria \in Seq(Job)
            /\ \A t \in Ticket : t[1] = "kitchen" /\ t[2] \in c.ids \cap Pizzeria => t \in InJobs(pizzeria)
        BY <3>1, <3>2, OneJob
      <3> HIDE DEF cucina, pizzeria
      <3>5. \A t \in Ticket : t \in Announced(c) => t[1] = "kitchen" /\ t[2] \in c.ids
        BY <1>1, <2>2 DEF Announced
      <3>6. cucina \o pizzeria \in Seq(Job)
        BY <3>3, <3>4, ConcatProperties
      <3>7. \A t \in Ticket : t \in Announced(c) => t \in InJobs(cucina) \/ t \in InJobs(pizzeria)
        BY <3>3, <3>4, <3>5
      <3>8. \A t \in Ticket : t \in Announced(c) => t \in InJobs(cucina \o pizzeria)
        BY <3>3, <3>4, <3>7, JobsTogether
      <3> QED
        BY <2>2, <3>6, <3>8
    <2> QED
      BY <2>1, <2>2
  <1> HIDE DEF jobs
  <1>5. /\ queue' \in Seq(Job) /\ Len(queue') <= MaxQueue /\ owed' \subseteq owed
        /\ \A t \in owed' : t \in InJobs(queue) \/ t \in InJobs(jobs) => t \in InJobs(queue')
    BY <1>1, <1>3, <1>4, Pushed
  <1>6. copies' \in [Rows -> 0..2]
    BY <1>2, <1>3 DEF TypeOK
  <1>7. NoCallback \in Callback
    BY DEF NoCallback, Callback
  <1>8. TypeOK'
    BY <1>1, <1>3, <1>5, <1>6, <1>7 DEF TypeOK
  <1>9. Sound'
    BY <1>1, <1>5 DEF PrintInv, Sound
  <1>10. ASSUME NEW t \in owed'
         PROVE  InRequests(t)' \/ InTimers(t)' \/ InCallbacks(t)' \/ t \in InJobs(queue)'
    <2>1. t \in owed /\ t \in Ticket
      BY <1>3, <1>5, <1>10 DEF TypeOK
    <2>2. \A x \in Reads : read'[x] # read[x] => x = s
      BY <1>1, <1>3 DEF TypeOK
    <2>3. InTimers(t)' <=> InTimers(t)
      BY <1>1 DEF InTimers, Cooked, With
    <2> QED
      BY <1>1, <1>4, <1>5, <1>10, <2>1, <2>2, <2>3, OnItsWay
  <1> QED
    BY <1>8, <1>9, <1>10 DEF PrintInv, NothingForgotten

LEMMA ReadFailsKeeps ==
  ASSUME PrintInv, NEW s \in Reads, ReadFails(s)
  PROVE  PrintInv'
  <1>1. /\ owed' = owed \ Announced(read[s])
        /\ read' = [read EXCEPT ![s] = NoCallback]
        /\ UNCHANGED <<row, paid, grown, req, bar, kitchen, queue, copies>>
    BY DEF ReadFails
  <1>2. NoCallback \in Callback
    BY DEF NoCallback, Callback
  <1>3. TypeOK'
    BY <1>1, <1>2 DEF PrintInv, TypeOK
  <1>4. Sound'
    BY <1>1 DEF PrintInv, Sound
  <1>5. ASSUME NEW t \in owed'
        PROVE  InRequests(t)' \/ InTimers(t)' \/ InCallbacks(t)' \/ t \in InJobs(queue)'
    <2>1. t \in owed /\ t \in Ticket /\ t \notin Announced(read[s])
      BY <1>1, <1>5 DEF PrintInv, TypeOK
    <2>2. \A x \in Reads : read'[x] # read[x] => x = s
      BY <1>1 DEF PrintInv, TypeOK
    <2>3. InTimers(t)' <=> InTimers(t)
      BY <1>1 DEF InTimers, Cooked, With
    <2> QED
      BY <1>1, <2>1, <2>2, <2>3, OnItsWay
  <1> QED
    BY <1>3, <1>4, <1>5 DEF PrintInv, NothingForgotten

\* Jobs of other kinds may push a ticket out; the agent takes all there are.
LEMMA QueueKeeps ==
  ASSUME PrintInv, EnqueueOther \/ GetPendingJobs
  PROVE  PrintInv'
  <1>1. UNCHANGED <<row, paid, grown, req, bar, kitchen, read, copies>>
    BY DEF EnqueueOther, GetPendingJobs
  <1>2. TypeOK
    BY DEF PrintInv
  <1>3. /\ queue' \in Seq(Job) /\ Len(queue') <= MaxQueue /\ owed' \subseteq owed
        /\ \A t \in owed' : t \in InJobs(queue) => t \in InJobs(queue')
    <2>1. CASE EnqueueOther
      <3>1. [kind |-> "other", rows |-> {}] \in Job
        BY DEF Job
      <3>2. <<[kind |-> "other", rows |-> {}]>> \in Seq(Job)
        BY <3>1
      <3> QED
        BY <1>2, <2>1, <3>2, Pushed DEF EnqueueOther
    <2>2. CASE GetPendingJobs
      <3>1. <<>> \in Seq(Job) /\ Len(<<>>) = 0 /\ 0 <= MaxQueue
        BY PrintAssumption
      <3> QED
        BY <2>2, <3>1 DEF GetPendingJobs
    <2> QED
      BY <2>1, <2>2
  <1>4. TypeOK'
    BY <1>1, <1>2, <1>3 DEF TypeOK
  <1>5. Sound'
    BY <1>1, <1>3 DEF PrintInv, Sound
  <1>6. ASSUME NEW t \in owed'
        PROVE  InRequests(t)' \/ InTimers(t)' \/ InCallbacks(t)' \/ t \in InJobs(queue)'
    <2>1. t \in owed /\ t \in Ticket
      BY <1>2, <1>3, <1>6 DEF TypeOK
    <2>2. InTimers(t)' <=> InTimers(t)
      BY <1>1 DEF InTimers, Cooked, With
    <2> QED
      BY <1>1, <1>3, <1>6, <2>1, <2>2, OnItsWay
  <1> QED
    BY <1>4, <1>5, <1>6 DEF PrintInv, NothingForgotten

LEMMA CrashKeeps ==
  ASSUME PrintInv, Crash
  PROVE  PrintInv'
  <1>1. /\ req' = [q \in Requests |-> Idle]
        /\ bar' = [o \in Orders |-> NoEntry]
        /\ kitchen' = {} /\ queue' = <<>> /\ owed' = {}
        /\ read' = [s \in Reads |-> NoCallback]
        /\ UNCHANGED <<row, paid, grown, copies>>
    BY DEF Crash
  <1>2. /\ Idle \in Request /\ NoEntry \in Entry /\ NoCallback \in Callback
        /\ <<>> \in Seq(Job) /\ Len(<<>>) = 0 /\ 0 <= MaxQueue
    BY PrintAssumption DEF Idle, Request, NoEntry, Entry, NoCallback, Callback
  <1>3. TypeOK'
    BY <1>1, <1>2 DEF PrintInv, TypeOK
  <1> QED
    BY <1>1, <1>3 DEF PrintInv, Sound, NothingForgotten, Idle

\* A takeaway that is ordered only adds rows that wait.
LEMMA CreateOrderKeeps ==
  ASSUME PrintInv, NEW q \in Requests, NEW o \in Orders, NEW S \in SUBSET With(o, "none"),
         NEW place \in {"waiting", "production"}, CreateOrder(q, o, S, place)
  PROVE  PrintInv'
  <1>1. /\ row' = [r \in Rows |-> IF r \in S THEN place ELSE row[r]] /\ UNCHANGED <<paid, grown>>
        /\ S \in SUBSET Rows /\ \A r \in S : row[r] = "none"
    BY DEF CreateOrder, Placed, With
  <1>2. /\ row' \in [Rows -> RowStatus]
        /\ \A r \in Rows : row[r] = "production" => row'[r] = "production"
        /\ \A r \in Rows : row[r] # "cancelled" => row'[r] # "cancelled"
        /\ \A r \in S : row'[r] # "cancelled"
    BY <1>1 DEF PrintInv, TypeOK, RowStatus
  <1>3. CASE o \notin Takeaway
    <2>1. Commit(q, "insert", o, S)
      BY <1>3 DEF CreateOrder
    <2>2. paid' \subseteq Takeaway /\ grown' \subseteq Takeaway
      BY <1>1 DEF PrintInv, TypeOK
    <2> QED
      BY <1>1, <1>2, <2>1, <2>2, CommitKeeps
  <1>4. CASE o \in Takeaway
    <2>1. UNCHANGED <<paid, grown, req, bar, kitchen, read, queue, owed, copies>>
      BY <1>1, <1>4 DEF CreateOrder
    <2>2. TypeOK'
      BY <1>2, <2>1 DEF PrintInv, TypeOK
    <2>3. Sound'
      BY <1>2, <2>1, TicketIsPair DEF PrintInv, TypeOK, Sound
    <2>4. ASSUME NEW t \in owed'
          PROVE  InRequests(t)' \/ InTimers(t)' \/ InCallbacks(t)' \/ t \in InJobs(queue)'
      <3>1. t \in owed /\ t \in Ticket /\ t[2] \in Rows
        BY <2>1, <2>4, TicketIsPair DEF PrintInv, TypeOK
      <3>2. row[t[2]] = "production" => row'[t[2]] = "production"
        BY <1>2, <3>1
      <3> QED
        BY <2>1, <3>1, <3>2, StillOnItsWay
    <2> QED
      BY <2>2, <2>3, <2>4 DEF PrintInv, NothingForgotten
  <1> QED
    BY <1>3, <1>4

\* The other handlers that end in a commit.
LEMMA CommitsKeep ==
  ASSUME PrintInv, NEW q \in Requests, NEW o \in Orders, NEW S \in SUBSET Rows,
         NEW status \in {"none", "waiting"}, \A r \in S : row[r] = status,
         NEW place \in {"waiting", "production"}, Placed(S, place), paid' \subseteq Takeaway,
         grown' \subseteq Takeaway,
         NEW pc \in {"insert", "cook", "fire"}, NEW T \in SUBSET S, Commit(q, pc, o, T)
  PROVE  PrintInv'
  <1>1. /\ row' \in [Rows -> RowStatus]
        /\ \A r \in Rows : row[r] = "production" => row'[r] = "production"
        /\ \A r \in Rows : row[r] # "cancelled" => row'[r] # "cancelled"
        /\ \A r \in T : row'[r] # "cancelled"
    BY DEF Placed, PrintInv, TypeOK, RowStatus
  <1> QED
    BY <1>1, CommitKeeps

LEMMA HandlerKeeps ==
  ASSUME PrintInv, NEW q \in Requests, Handler(q)
  PROVE  PrintInv'
  <1>0. paid \subseteq Takeaway /\ grown \subseteq Takeaway /\ row \in [Rows -> RowStatus]
    BY DEF PrintInv, TypeOK
  <1>1. ASSUME NEW o \in Orders, NEW S \in SUBSET With(o, "none"),
               NEW place \in {"waiting", "production"}, AddItems(q, o, S, place)
        PROVE  PrintInv'
    <2>1. /\ S \in SUBSET Rows /\ \A r \in S : row[r] = "none"
          /\ Placed(S, place) /\ paid' \subseteq Takeaway
          /\ grown' \subseteq Takeaway /\ Commit(q, "insert", o, S)
      BY <1>0, <1>1 DEF AddItems, With
    <2> QED
      BY <2>1, CommitsKeep
  <1>2. ASSUME NEW o \in Orders, NEW S \in SUBSET With(o, "waiting"), DispatchOrder(q, o, S)
        PROVE  PrintInv'
    <2>1. /\ S \in SUBSET Rows /\ \A r \in S : row[r] = "waiting" /\ {} \in SUBSET S
          /\ Placed(S, "production") /\ paid' \subseteq Takeaway
          /\ grown' \subseteq Takeaway /\ Commit(q, "cook", o, {})
      BY <1>0, <1>2 DEF DispatchOrder, With
    <2> QED
      BY <2>1, CommitsKeep
  <1>3. ASSUME NEW o \in Orders, NEW S \in SUBSET With(o, "waiting"), FireTakeawayItems(q, o, S)
        PROVE  PrintInv'
    <2>1. /\ S \in SUBSET Rows /\ \A r \in S : row[r] = "waiting"
          /\ Placed(S, "production") /\ paid' \subseteq Takeaway
          /\ grown' \subseteq Takeaway /\ Commit(q, "fire", o, S)
      BY <1>0, <1>3 DEF FireTakeawayItems, With
    <2> QED
      BY <2>1, CommitsKeep
  <1>4. ASSUME NEW r \in Rows, StartCooking(q, r)
        PROVE  PrintInv'
    <2>1. /\ UNCHANGED <<row, paid, grown>> /\ OrderOf[r] \in Orders /\ {} \in SUBSET Rows
          /\ Commit(q, "cook", OrderOf[r], {})
      BY <1>4, PrintAssumption DEF StartCooking
    <2> QED
      BY <1>0, <2>1, CommitKeeps
  <1> QED
    BY <1>1, <1>2, <1>3, <1>4, CreateOrderKeeps, HandOverKeeps, HandOverFailsKeeps DEF Handler

LEMMA RowChangesKeep ==
  ASSUME PrintInv, NEW r \in Changed, RowChanges(r)
  PROVE  PrintInv'
  <1>1. r \in Rows
    BY PrintAssumption
  <1>2. {} \in SUBSET Kinds /\ {"kitchen"} \in SUBSET Kinds /\ Kinds \in SUBSET Kinds
    BY DEF Kinds
  <1>3. CASE ReleaseRow(r)
    BY <1>1, <1>2, <1>3, BecomesKeeps DEF ReleaseRow, RowStatus
  <1>4. CASE HoldRow(r)
    BY <1>1, <1>2, <1>4, BecomesKeeps DEF HoldRow, RowStatus
  <1>5. CASE ServeRow(r)
    BY <1>1, <1>2, <1>5, BecomesKeeps DEF ServeRow, RowStatus
  <1>6. CASE CancelRow(r)
    <2>1. "kitchen" \in Kinds /\ "cancelled" \in RowStatus
      BY DEF Kinds, RowStatus
    <2> QED
      BY <1>1, <1>2, <1>6, <2>1, BecomesKeeps DEF CancelRow
  <1> QED
    BY <1>3, <1>4, <1>5, <1>6 DEF RowChanges

LEMMA PrintStep == PrintInv /\ [Next]_vars => PrintInv'
  <1> SUFFICES ASSUME PrintInv, [Next]_vars PROVE PrintInv'
    OBVIOUS
  <1>1. CASE UNCHANGED vars
    BY <1>1 DEF vars, PrintInv, TypeOK, Sound, NothingForgotten, InRequests, InTimers, InCallbacks,
       HandedOver, Announced, Undertaken, Cooked, With
  <1>2. ASSUME NEW s \in Reads, Timer(s)
        PROVE  PrintInv'
    BY <1>2, ExpiryKeeps, ReadRowsKeeps, PushTicketKeeps, ReadFailsKeeps DEF Timer
  <1> QED
    BY <1>1, <1>2, HandlerKeeps, RowChangesKeep, QueueKeeps, CrashKeeps DEF Next

\* The inductive invariant: the types, that nothing is owed for a row that was given up, and
\* that every owed ticket has a place.
THEOREM PrintInvariant == Spec => []PrintInv
  BY InitInv, PrintStep, PTL DEF Spec

\* The types, and that the queue never holds more than MaxQueue jobs.
THEOREM TypeCorrect == Spec => []TypeOK
  <1>1. PrintInv => TypeOK
    BY DEF PrintInv
  <1> QED
    BY <1>1, PrintInvariant, PTL

\* However calls, timers, changes of rows and restarts interleave, a ticket that was
\* undertaken and not lost by a failure, a restart or the limit is still on its way.
THEOREM NothingIsForgotten == Spec => []NothingForgotten
  <1>1. PrintInv => NothingForgotten
    BY DEF PrintInv
  <1> QED
    BY <1>1, PrintInvariant, PTL

-----------------------------------------------------------------------------
(* Bar tickets come out once.                                              *)

Asking(q, r) == req[q].pc \in {"insert", "fire"} /\ r \in req[q].rows
Gathering(o, r) == r \in bar[o].ids
Carrying(s, r) == read[s].kind = "bar" /\ r \in read[s].ids

\* Only a row that was ordered, and of a takeaway only a row that was paid for, is anywhere.
Printable(r) == row[r] # "none" /\ (OrderOf[r] \in Takeaway => OrderOf[r] \in paid)

Somewhere(r) ==
  \/ \E q \in Requests : Asking(q, r)
  \/ \E o \in Orders : Gathering(o, r)
  \/ \E s \in Reads : Carrying(s, r)
  \/ copies[r] # 0

\* A row is with one request, or one timer, or one callback, or printed.
OnePlace(r) ==
  /\ copies[r] <= 1
  /\ Somewhere(r) => Printable(r)
  /\ \A q \in Requests : Asking(q, r) =>
       /\ copies[r] = 0
       /\ \A p \in Requests : Asking(p, r) => p = q
       /\ \A o \in Orders : ~Gathering(o, r)
       /\ \A s \in Reads : ~Carrying(s, r)
  /\ \A o \in Orders : Gathering(o, r) =>
       /\ copies[r] = 0
       /\ \A x \in Orders : Gathering(x, r) => x = o
       /\ \A s \in Reads : ~Carrying(s, r)
  /\ \A s \in Reads : Carrying(s, r) =>
       /\ copies[r] = 0
       /\ \A x \in Reads : Carrying(x, r) => x = s

CooksHaveNoRows == \A q \in Requests : req[q].pc = "cook" => req[q].rows = {}

OnceInv ==
  /\ PrintInv
  /\ CooksHaveNoRows
  /\ \A r \in Rows : OnePlace(r) \/ OrderOf[r] \in grown

LEMMA OnceInit == Init => OnceInv
  <1> SUFFICES ASSUME Init PROVE OnceInv
    OBVIOUS
  <1>1. \A r \in Rows : OnePlace(r)
    BY DEF Init, OnePlace, Somewhere, Asking, Gathering, Carrying, Idle, NoEntry, NoCallback
  <1> QED
    BY <1>1, InitInv DEF Init, OnceInv, CooksHaveNoRows, Idle

\* A row of S becomes printable with the step, and any other stays so.
FreshlyPrintable(S, r) ==
  /\ Printable(r) => Printable(r)'
  /\ r \in S => ~Printable(r) /\ Printable(r)'

\* A commit that gives the request rows nobody had.
LEMMA CommitOnce ==
  ASSUME OnceInv, NEW q \in Requests, NEW pc \in {"insert", "cook", "fire"},
         NEW o \in Orders, NEW S \in SUBSET Rows, Commit(q, pc, o, S),
         pc = "cook" => S = {}
  PROVE  /\ CooksHaveNoRows'
         /\ \A r \in Rows : OnePlace(r) /\ FreshlyPrintable(S, r) => OnePlace(r)'
  <1>1. /\ req' = [req EXCEPT ![q] = [pc |-> pc, order |-> o, rows |-> S]]
        /\ req[q].pc = "idle" /\ req \in [Requests -> Request]
        /\ UNCHANGED <<bar, kitchen, read, queue, copies>>
    BY DEF Commit, OnceInv, PrintInv, TypeOK
  <1>2. \A p \in Requests : p # q => req'[p] = req[p]
    BY <1>1
  <1>3. req'[q].pc = pc /\ req'[q].rows = S
    BY <1>1
  <1>4. CooksHaveNoRows'
    BY <1>2, <1>3 DEF OnceInv, CooksHaveNoRows
  <1>5. ASSUME NEW r \in Rows, OnePlace(r), FreshlyPrintable(S, r)
        PROVE  OnePlace(r)'
    <2>1. OnePlace(r)
      BY <1>5
    <2>2. ~Asking(q, r)
      BY <1>1 DEF Asking
    <2>3. \A p \in Requests \ {q} : Asking(p, r)' <=> Asking(p, r)
      BY <1>2 DEF Asking
    <2>4. \A x : Gathering(x, r)' <=> Gathering(x, r)
      BY <1>1 DEF Gathering
    <2>5. \A x : Carrying(x, r)' <=> Carrying(x, r)
      BY <1>1 DEF Carrying
    <2>6. copies' = copies
      BY <1>1
    <2>7. Asking(q, r)' => r \in S
      BY <1>3 DEF Asking
    <2>8. CASE r \in S
      <3>1. ~Somewhere(r) /\ Printable(r)'
        BY <1>5, <2>1, <2>8 DEF OnePlace, FreshlyPrintable
      <3> QED
        BY <2>1, <2>2, <2>3, <2>4, <2>5, <2>6, <3>1 DEF OnePlace, Somewhere
    <2>9. CASE r \notin S
      <3>1. \A p \in Requests : Asking(p, r)' <=> Asking(p, r)
        BY <2>2, <2>3, <2>7, <2>9
      <3>2. Printable(r) => Printable(r)'
        BY <1>5 DEF FreshlyPrintable
      <3> QED
        BY <2>1, <2>4, <2>5, <2>6, <3>1, <3>2 DEF OnePlace, Somewhere
    <2> QED
      BY <2>8, <2>9
  <1> QED
    BY <1>4, <1>5

\* A step that leaves every row where it is, or takes it away.
LEMMA QuietOnce ==
  ASSUME UNCHANGED copies, NEW r \in Rows, OnePlace(r),
         Printable(r) => Printable(r)',
         \A q \in Requests : Asking(q, r)' => Asking(q, r),
         \A o \in Orders : Gathering(o, r)' => Gathering(o, r),
         \A s \in Reads : Carrying(s, r)' => Carrying(s, r)
  PROVE  OnePlace(r)'
  BY DEF OnePlace, Somewhere

LEMMA HandlerOnce ==
  ASSUME OnceInv, NEW q \in Requests, Handler(q),
         ~HandOver(q), ~HandOverFails(q)
  PROVE  CooksHaveNoRows' /\ \A r \in Rows : OnePlace(r) => OnePlace(r)' \/ OrderOf[r] \in grown'
  <1>0. row \in [Rows -> RowStatus] /\ paid \subseteq Takeaway
    BY DEF OnceInv, PrintInv, TypeOK
  <1>1. ASSUME NEW o \in Orders, NEW S \in SUBSET With(o, "none"),
               NEW place \in {"waiting", "production"}, CreateOrder(q, o, S, place)
        PROVE  CooksHaveNoRows' /\ \A r \in Rows : OnePlace(r) => OnePlace(r)'
    <2>1. /\ row' = [r \in Rows |-> IF r \in S THEN place ELSE row[r]] /\ UNCHANGED paid
          /\ S \in SUBSET Rows /\ \A r \in S : row[r] = "none" /\ OrderOf[r] = o
      BY <1>1 DEF CreateOrder, Placed, With
    <2>2. \A r \in Rows : Printable(r) => Printable(r)'
      BY <2>1 DEF Printable
    <2>3. CASE o \in Takeaway
      <3>1. UNCHANGED <<req, bar, read, copies>>
        BY <1>1, <2>3 DEF CreateOrder
      <3>2. CooksHaveNoRows'
        BY <3>1 DEF OnceInv, CooksHaveNoRows
      <3> QED
        BY <2>2, <3>1, <3>2, QuietOnce DEF Asking, Gathering, Carrying
    <2>4. CASE o \notin Takeaway
      <3>1. Commit(q, "insert", o, S)
        BY <1>1, <2>4 DEF CreateOrder
      <3>2. \A r \in Rows : FreshlyPrintable(S, r)
        BY <2>1, <2>4 DEF FreshlyPrintable, Printable
      <3> QED
        BY <2>1, <3>1, <3>2, CommitOnce
    <2> QED
      BY <2>3, <2>4
  <1>2. ASSUME NEW o \in Orders, NEW S \in SUBSET With(o, "none"),
               NEW place \in {"waiting", "production"}, AddItems(q, o, S, place)
        PROVE  /\ CooksHaveNoRows'
               /\ \A r \in Rows : OnePlace(r) => OnePlace(r)' \/ OrderOf[r] \in grown'
    <2>1. /\ row' = [r \in Rows |-> IF r \in S THEN place ELSE row[r]] /\ paid' = paid \ {o}
          /\ S \in SUBSET Rows /\ \A r \in S : row[r] = "none" /\ OrderOf[r] = o
          /\ Commit(q, "insert", o, S) /\ grown' = grown \cup ({o} \cap Takeaway)
      BY <1>2 DEF AddItems, Placed, With
    <2>2. \A r \in Rows : OrderOf[r] \notin grown' => FreshlyPrintable(S, r)
      BY <2>1 DEF FreshlyPrintable, Printable
    <2> QED
      BY <2>1, <2>2, CommitOnce
  <1>3. ASSUME NEW o \in Orders, NEW S \in SUBSET With(o, "waiting"), DispatchOrder(q, o, S)
        PROVE  CooksHaveNoRows' /\ \A r \in Rows : OnePlace(r) => OnePlace(r)'
    <2>1. /\ row' = [r \in Rows |-> IF r \in S THEN "production" ELSE row[r]] /\ UNCHANGED paid
          /\ {} \in SUBSET Rows /\ Commit(q, "cook", o, {})
      BY <1>3 DEF DispatchOrder, Placed
    <2>2. \A r \in Rows : FreshlyPrintable({}, r)
      BY <2>1 DEF FreshlyPrintable, Printable
    <2> QED
      BY <2>1, <2>2, CommitOnce
  <1>4. ASSUME NEW o \in Orders, NEW S \in SUBSET With(o, "waiting"), FireTakeawayItems(q, o, S)
        PROVE  CooksHaveNoRows' /\ \A r \in Rows : OnePlace(r) => OnePlace(r)'
    <2>1. /\ row' = [r \in Rows |-> IF r \in S THEN "production" ELSE row[r]]
          /\ paid' = paid \cup {o} /\ o \in Takeaway \ paid
          /\ S \in SUBSET Rows /\ \A r \in S : row[r] = "waiting" /\ OrderOf[r] = o
          /\ Commit(q, "fire", o, S)
      BY <1>4 DEF FireTakeawayItems, Placed, With
    <2>2. \A r \in Rows : FreshlyPrintable(S, r)
      BY <2>1 DEF FreshlyPrintable, Printable
    <2> QED
      BY <2>1, <2>2, CommitOnce
  <1>5. ASSUME NEW r \in Rows, StartCooking(q, r)
        PROVE  CooksHaveNoRows' /\ \A x \in Rows : OnePlace(x) => OnePlace(x)'
    <2>1. /\ UNCHANGED <<row, paid>> /\ OrderOf[r] \in Orders /\ {} \in SUBSET Rows
          /\ Commit(q, "cook", OrderOf[r], {})
      BY <1>5, PrintAssumption DEF StartCooking
    <2>2. \A x \in Rows : FreshlyPrintable({}, x)
      BY <2>1 DEF FreshlyPrintable, Printable
    <2> QED
      BY <2>1, <2>2, CommitOnce
  <1> QED
    BY <1>1, <1>2, <1>3, <1>4, <1>5 DEF Handler

\* The rows of the request are with the timer now; nobody else had them.
LEMMA HandOverOnce ==
  ASSUME OnceInv, NEW q \in Requests, HandOver(q)
  PROVE  CooksHaveNoRows' /\ \A r \in Rows : OnePlace(r) => OnePlace(r)'
  <1> DEFINE o == req[q].order
             S == req[q].rows
  <1>1. /\ req[q].pc # "idle"
        /\ bar' = IF S \cap Bar = {} THEN bar ELSE [bar EXCEPT ![o] = Gathered(@, S \cap Bar)]
        /\ req' = [req EXCEPT ![q] = Idle]
        /\ UNCHANGED <<row, paid, read, copies>>
    BY DEF HandOver
  <1>2. /\ req \in [Requests -> Request] /\ bar \in [Orders -> Entry] /\ o \in Orders
        /\ req[q].pc \in {"insert", "cook", "fire"}
    BY <1>1 DEF OnceInv, PrintInv, Sound, TypeOK, Request
  <1>3. req'[q] = Idle /\ \A p \in Requests \ {q} : req'[p] = req[p]
    BY <1>1, <1>2
  <1>4. CooksHaveNoRows'
    BY <1>3 DEF OnceInv, CooksHaveNoRows, Idle
  <1>5. ASSUME NEW r \in Rows, OnePlace(r)
        PROVE  OnePlace(r)'
    <2>1. OnePlace(r)
      BY <1>5
    <2>2. Printable(r)' <=> Printable(r)
      BY <1>1 DEF Printable
    <2>3. ~Asking(q, r)' /\ \A p \in Requests \ {q} : Asking(p, r)' <=> Asking(p, r)
      BY <1>3 DEF Asking, Idle
    <2>4. \A s : Carrying(s, r)' <=> Carrying(s, r)
      BY <1>1 DEF Carrying
    <2>5. \A x \in Orders : Gathering(x, r)' => Gathering(x, r) \/ (x = o /\ r \in S)
      BY <1>1, <1>2 DEF Gathering, Gathered, Entry
    <2>6. r \in S => Asking(q, r)
      BY <1>2 DEF OnceInv, CooksHaveNoRows, Asking
    <2>7. CASE r \in S
      <3>1. Asking(q, r)
        BY <2>6, <2>7
      <3>2. /\ copies[r] = 0 /\ Printable(r)
            /\ \A p \in Requests \ {q} : ~Asking(p, r)
            /\ \A x \in Orders : ~Gathering(x, r)
            /\ \A s \in Reads : ~Carrying(s, r)
        BY <2>1, <3>1 DEF OnePlace, Somewhere
      <3>3. /\ copies'[r] = 0 /\ Printable(r)'
            /\ \A p \in Requests : ~Asking(p, r)'
            /\ \A x \in Orders : Gathering(x, r)' => x = o
            /\ \A s \in Reads : ~Carrying(s, r)'
        BY <1>1, <2>2, <2>3, <2>4, <2>5, <3>2
      <3> QED
        BY <1>2, <3>3 DEF OnePlace
    <2>8. CASE r \notin S
      <3>1. \A p \in Requests : Asking(p, r)' => Asking(p, r)
        BY <2>3
      <3>2. \A x \in Orders : Gathering(x, r)' => Gathering(x, r)
        BY <2>5, <2>8
      <3> QED
        BY <1>1, <2>1, <2>2, <2>4, <3>1, <3>2, QuietOnce
    <2> QED
      BY <2>7, <2>8
  <1> QED
    BY <1>4, <1>5

LEMMA HandOverFailsOnce ==
  ASSUME OnceInv, NEW q \in Requests, HandOverFails(q)
  PROVE  CooksHaveNoRows' /\ \A r \in Rows : OnePlace(r) => OnePlace(r)'
  <1>1. /\ req' = [req EXCEPT ![q] = Idle] /\ req \in [Requests -> Request]
        /\ UNCHANGED <<row, paid, bar, read, copies>>
    BY DEF HandOverFails, OnceInv, PrintInv, TypeOK
  <1>2. req'[q] = Idle /\ \A p \in Requests \ {q} : req'[p] = req[p]
    BY <1>1
  <1>3. CooksHaveNoRows'
    BY <1>2 DEF OnceInv, CooksHaveNoRows, Idle
  <1>4. \A r \in Rows, p \in Requests : Asking(p, r)' => Asking(p, r)
    BY <1>2 DEF Asking, Idle
  <1>5. \A r \in Rows : Printable(r) => Printable(r)'
    BY <1>1 DEF Printable
  <1> QED
    BY <1>1, <1>3, <1>4, <1>5, QuietOnce DEF Gathering, Carrying

LEMMA RowChangesOnce ==
  ASSUME OnceInv, NEW r \in Changed, RowChanges(r)
  PROVE  CooksHaveNoRows' /\ \A x \in Rows : OnePlace(x) => OnePlace(x)'
  <1>1. /\ \E status \in RowStatus \ {"none"} : row' = [row EXCEPT ![r] = status]
        /\ UNCHANGED <<paid, req, bar, read, copies>>
    BY DEF RowChanges, ReleaseRow, HoldRow, ServeRow, CancelRow, Becomes, RowStatus
  <1>2. \A x \in Rows : Printable(x) => Printable(x)'
    BY <1>1 DEF Printable, OnceInv, PrintInv, TypeOK
  <1>3. CooksHaveNoRows'
    BY <1>1 DEF OnceInv, CooksHaveNoRows
  <1> QED
    BY <1>1, <1>2, <1>3, QuietOnce DEF Asking, Gathering, Carrying

\* The callback takes the rows of the entry, and the entry goes.
LEMMA BarExpiresOnce ==
  ASSUME OnceInv, NEW s \in Reads, NEW o \in Orders, BarExpires(s, o)
  PROVE  CooksHaveNoRows' /\ \A r \in Rows : OnePlace(r) => OnePlace(r)'
  <1>1. /\ read[s].kind = "none" /\ read \in [Reads -> Callback] /\ bar \in [Orders -> Entry]
        /\ read'[s] = [kind |-> "bar", order |-> o, known |-> FALSE, ids |-> bar[o].ids]
        /\ \A x \in Reads \ {s} : read'[x] = read[x]
        /\ bar'[o] = NoEntry /\ \A x \in Orders \ {o} : bar'[x] = bar[x]
        /\ UNCHANGED <<row, paid, req, copies>>
    BY DEF BarExpires, Expired, OnceInv, PrintInv, TypeOK
  <1>2. CooksHaveNoRows'
    BY <1>1 DEF OnceInv, CooksHaveNoRows
  <1>3. ASSUME NEW r \in Rows, OnePlace(r)
        PROVE  OnePlace(r)'
    <2>1. OnePlace(r)
      BY <1>3
    <2>2. Printable(r)' <=> Printable(r)
      BY <1>1 DEF Printable
    <2>3. \A p : Asking(p, r)' <=> Asking(p, r)
      BY <1>1 DEF Asking
    <2>4. ~Gathering(o, r)' /\ \A x \in Orders \ {o} : Gathering(x, r)' <=> Gathering(x, r)
      BY <1>1 DEF Gathering, NoEntry
    <2>5. /\ \A x \in Reads \ {s} : Carrying(x, r)' <=> Carrying(x, r)
          /\ ~Carrying(s, r)
          /\ Carrying(s, r)' <=> Gathering(o, r)
      BY <1>1 DEF Carrying, Gathering
    <2>6. CASE Gathering(o, r)
      <3>1. /\ copies[r] = 0 /\ Printable(r)
            /\ \A p \in Requests : ~Asking(p, r)
            /\ \A x \in Orders \ {o} : ~Gathering(x, r)
            /\ \A x \in Reads : ~Carrying(x, r)
        BY <2>1, <2>6 DEF OnePlace, Somewhere
      <3>2. /\ copies'[r] = 0 /\ Printable(r)'
            /\ \A p \in Requests : ~Asking(p, r)'
            /\ \A x \in Orders : ~Gathering(x, r)'
            /\ \A x \in Reads : Carrying(x, r)' => x = s
        BY <1>1, <2>2, <2>3, <2>4, <2>5, <3>1
      <3> QED
        BY <3>2 DEF OnePlace
    <2>7. CASE ~Gathering(o, r)
      <3>1. \A x \in Reads : Carrying(x, r)' => Carrying(x, r)
        BY <2>5, <2>7
      <3>2. \A x \in Orders : Gathering(x, r)' => Gathering(x, r)
        BY <2>4
      <3> QED
        BY <1>1, <2>1, <2>2, <2>3, <3>1, <3>2, QuietOnce
    <2> QED
      BY <2>6, <2>7
  <1> QED
    BY <1>2, <1>3

\* The callback looks its rows up, fails, or is one of the kitchen.
LEMMA CallbackOnce ==
  ASSUME OnceInv, NEW s \in Reads,
         ReadRows(s) \/ ReadFails(s) \/ \E o \in Orders : KitchenExpires(s, o)
  PROVE  CooksHaveNoRows' /\ \A r \in Rows : OnePlace(r) => OnePlace(r)'
  <1>1. UNCHANGED <<row, paid, req, bar, copies>> /\ read \in [Reads -> Callback]
    BY DEF ReadRows, ReadFails, KitchenExpires, OnceInv, PrintInv, TypeOK
  <1>2. /\ \A x \in Reads \ {s} : read'[x] = read[x]
        /\ read'[s].kind = "bar" => read[s].kind = "bar" /\ read'[s].ids \subseteq read[s].ids
    BY <1>1 DEF ReadRows, ReadFails, KitchenExpires, NoCallback, Callback, Found
  <1>3. \A r \in Rows, x \in Reads : Carrying(x, r)' => Carrying(x, r)
    BY <1>2 DEF Carrying
  <1>4. CooksHaveNoRows'
    BY <1>1 DEF OnceInv, CooksHaveNoRows
  <1>5. \A r \in Rows : Printable(r) => Printable(r)'
    BY <1>1 DEF Printable
  <1> QED
    BY <1>1, <1>3, <1>4, <1>5, QuietOnce DEF Asking, Gathering

LEMMA PushTicketOnce ==
  ASSUME OnceInv, NEW s \in Reads, PushTicket(s)
  PROVE  CooksHaveNoRows' /\ \A r \in Rows : OnePlace(r) => OnePlace(r)'
  <1>1. /\ read' = [read EXCEPT ![s] = NoCallback] /\ read \in [Reads -> Callback]
        /\ copies \in [Rows -> 0..2]
        /\ UNCHANGED <<row, paid, req, bar>>
    BY DEF PushTicket, OnceInv, PrintInv, TypeOK
  <1>2. IF read[s].kind = "bar"
          THEN copies' = [r \in Rows |->
                 IF r \in read[s].ids /\ copies[r] < 2 THEN copies[r] + 1 ELSE copies[r]]
          ELSE copies' = copies
    BY DEF PushTicket
  <1>3. CooksHaveNoRows'
    BY <1>1 DEF OnceInv, CooksHaveNoRows
  <1>4. ASSUME NEW r \in Rows, OnePlace(r)
        PROVE  OnePlace(r)'
    <2>1. OnePlace(r)
      BY <1>4
    <2>2. Printable(r)' <=> Printable(r)
      BY <1>1 DEF Printable
    <2>3. \A p : Asking(p, r)' <=> Asking(p, r)
      BY <1>1 DEF Asking
    <2>4. \A x : Gathering(x, r)' <=> Gathering(x, r)
      BY <1>1 DEF Gathering
    <2>5. ~Carrying(s, r)' /\ \A x \in Reads \ {s} : Carrying(x, r)' <=> Carrying(x, r)
      BY <1>1 DEF Carrying, NoCallback
    <2>6. CASE Carrying(s, r)
      <3>1. /\ copies[r] = 0 /\ Printable(r)
            /\ \A p \in Requests : ~Asking(p, r)
            /\ \A x \in Orders : ~Gathering(x, r)
            /\ \A x \in Reads \ {s} : ~Carrying(x, r)
        BY <2>1, <2>6 DEF OnePlace, Somewhere
      <3>2. copies'[r] <= 1
        BY <1>1, <1>2, <3>1
      <3> QED
        BY <2>2, <2>3, <2>4, <2>5, <3>1, <3>2 DEF OnePlace
    <2>7. CASE ~Carrying(s, r)
      <3>1. copies'[r] = copies[r]
        BY <1>1, <1>2, <2>7 DEF Carrying
      <3> QED
        BY <2>1, <2>2, <2>3, <2>4, <2>5, <3>1 DEF OnePlace, Somewhere
    <2> QED
      BY <2>6, <2>7
  <1> QED
    BY <1>3, <1>4

LEMMA CrashOnce ==
  ASSUME OnceInv, Crash
  PROVE  CooksHaveNoRows' /\ \A r \in Rows : OnePlace(r) => OnePlace(r)'
  <1>1. /\ req' = [q \in Requests |-> Idle]
        /\ bar' = [o \in Orders |-> NoEntry]
        /\ read' = [s \in Reads |-> NoCallback]
        /\ UNCHANGED <<row, paid, copies>>
    BY DEF Crash
  <1>2. CooksHaveNoRows'
    BY <1>1 DEF CooksHaveNoRows, Idle
  <1>3. \A r \in Rows : Printable(r) => Printable(r)'
    BY <1>1 DEF Printable
  <1>4. \A r \in Rows : /\ \A q \in Requests : ~Asking(q, r)'
                        /\ \A o \in Orders : ~Gathering(o, r)'
                        /\ \A s \in Reads : ~Carrying(s, r)'
    BY <1>1 DEF Asking, Gathering, Carrying, Idle, NoEntry, NoCallback
  <1> QED
    BY <1>1, <1>2, <1>3, <1>4, QuietOnce

\* A takeaway that addItems enlarged stays so.
LEMMA GrownGrows ==
  ASSUME [Next]_vars
  PROVE  grown \subseteq grown'
  <1>1. ASSUME NEW q \in Requests, Handler(q)
        PROVE  grown \subseteq grown'
    BY <1>1 DEF Handler, CreateOrder, AddItems, DispatchOrder, FireTakeawayItems, StartCooking,
       HandOver, HandOverFails
  <1>2. ASSUME NEW r \in Changed, RowChanges(r)
        PROVE  UNCHANGED grown
    BY <1>2 DEF RowChanges, ReleaseRow, HoldRow, ServeRow, CancelRow, Becomes
  <1>3. ASSUME NEW s \in Reads, Timer(s)
        PROVE  UNCHANGED grown
    BY <1>3 DEF Timer, BarExpires, KitchenExpires, ReadRows, PushTicket, ReadFails
  <1> QED
    BY <1>1, <1>2, <1>3 DEF Next, EnqueueOther, GetPendingJobs, Crash, vars

LEMMA OnceStep == OnceInv /\ [Next]_vars => OnceInv'
  <1> SUFFICES ASSUME OnceInv, [Next]_vars PROVE OnceInv'
    OBVIOUS
  <1> DEFINE Stays == /\ CooksHaveNoRows'
                      /\ \A r \in Rows : OnePlace(r) => OnePlace(r)' \/ OrderOf[r] \in grown'
  <1>1. PrintInv' /\ grown \subseteq grown'
    BY PrintStep, GrownGrows DEF OnceInv
  <1>2. ASSUME UNCHANGED <<row, paid, req, bar, read, copies>>
        PROVE  Stays
    <2>1. CooksHaveNoRows'
      BY <1>2 DEF OnceInv, CooksHaveNoRows
    <2> QED
      BY <1>2, <2>1, QuietOnce DEF Asking, Gathering, Carrying, Printable
  <1>3. ASSUME NEW s \in Reads, Timer(s)
        PROVE  Stays
    BY <1>3, BarExpiresOnce, CallbackOnce, PushTicketOnce DEF Timer
  <1>4. ASSUME NEW q \in Requests, Handler(q)
        PROVE  Stays
    BY <1>4, HandlerOnce, HandOverOnce, HandOverFailsOnce
  <1>5. EnqueueOther \/ GetPendingJobs \/ UNCHANGED vars => Stays
    BY <1>2 DEF EnqueueOther, GetPendingJobs, vars
  <1>6. Stays
    BY <1>3, <1>4, <1>5, RowChangesOnce, CrashOnce DEF Next
  <1> QED
    BY <1>1, <1>6 DEF OnceInv

\* Unless addItems added rows to its order and that is a takeaway, a row does not come out
\* at the bar twice: it is with one request, one timer or one callback at a time, and what is
\* printed is with none.
THEOREM OnceAtTheBar == Spec => []BarOnce
  <1>1. OnceInv => BarOnce
    BY DEF OnceInv, OnePlace, BarOnce
  <1> QED
    BY <1>1, OnceInit, OnceStep, PTL DEF Spec
=============================================================================
