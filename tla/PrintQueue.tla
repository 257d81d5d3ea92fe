------------------------------- MODULE PrintQueue -------------------------------
(***************************************************************************)
(* The tickets for bar, kitchen and room (print.controller.js): rows of an *)
(* order are gathered per order until a timer expires, looked up in the    *)
(* database, put as jobs into a queue in memory, and handed to the agent   *)
(* of the restaurant when it asks.                                         *)
(*                                                                         *)
(* Everything but the rows is in the memory of one process: a restart      *)
(* forgets the timers and the queue, and an answer that does not reach the *)
(* agent takes its jobs with it.  The agent itself is not in src/backend;  *)
(* it asks again and again and prints what it gets.                        *)
(*                                                                         *)
(* A timer is restarted by every call for the same order; how long it runs *)
(* is left open.  Rows of one order only; the closing of an order prints   *)
(* nothing.                                                                *)
(***************************************************************************)
EXTENDS Naturals, Sequences, FiniteSets

CONSTANTS
  Orders, Rows,      \* orders and rows of order_items
  OrderOf,           \* the order of a row
  Bar, AutoPrint,    \* rows with goes_to_bar, with auto_print
  Pizzeria,          \* rows with prep_station = 'pizzeria'
  Takeaway,          \* orders of type takeaway: nothing is printed before they are paid
  Changed,           \* bound: rows that are released, held, served, cancelled one by one
  Requests,          \* HTTP requests the server works on at the same time
  Reads,             \* bound: callbacks of expired timers under way at the same time
  NoOrder,           \* the order of a request or callback that has none
  MaxQueue           \* MAX_PER_TENANT (100 in the code)

ASSUME PrintAssumption ==
  /\ OrderOf \in [Rows -> Orders] /\ NoOrder \notin Orders
  /\ Bar \subseteq Rows /\ AutoPrint \subseteq Rows /\ Pizzeria \subseteq Rows
  /\ Changed \subseteq Rows
  /\ Takeaway \subseteq Orders
  /\ MaxQueue \in Nat \ {0}

VARIABLES
  row,       \* status and workflow_status of each row
  paid,      \* takeaways that are paid, and have not grown since
  req,       \* what each request has committed and not handed over yet
  bar,       \* _barDebounce: timer and itemIds of each order
  kitchen,   \* _kitchenDebounce: the orders with a timer
  read,      \* the callbacks of expired timers
  queue,     \* queues, of one tenant
  owed,      \* tickets the handlers undertook to print and that nothing has disposed of
  copies,    \* bar tickets with a row, counted up to two
  grown      \* takeaways that addItems added rows to: read by no action

vars == <<row, paid, req, bar, kitchen, read, queue, owed, copies, grown>>

-----------------------------------------------------------------------------
RowStatus == {"none", "waiting", "production", "served", "cancelled"}
Kinds == {"bar", "kitchen", "auto"}
Ticket == Kinds \X Rows
Job == [kind : Kinds \cup {"other"}, rows : SUBSET Rows]

Request == [pc : {"idle", "insert", "cook", "fire"}, order : Orders \cup {NoOrder},
            rows : SUBSET Rows]
Entry == [armed : BOOLEAN, ids : SUBSET Rows]
Callback == [kind : {"none", "bar", "kitchen"}, order : Orders \cup {NoOrder},
             known : BOOLEAN, ids : SUBSET Rows]

Idle == [pc |-> "idle", order |-> NoOrder, rows |-> {}]
NoEntry == [armed |-> FALSE, ids |-> {}]
NoCallback == [kind |-> "none", order |-> NoOrder, known |-> FALSE, ids |-> {}]

With(o, status) == {r \in Rows : OrderOf[r] = o /\ row[r] = status}
Exists(o) == \E r \in Rows : OrderOf[r] = o /\ row[r] # "none"

\* The rows of a kitchen ticket.
Cooked(o) == With(o, "production") \ Bar

Init ==
  /\ row = [r \in Rows |-> "none"]
  /\ paid = {}
  /\ req = [q \in Requests |-> Idle]
  /\ bar = [o \in Orders |-> NoEntry]
  /\ kitchen = {}
  /\ read = [s \in Reads |-> NoCallback]
  /\ queue = <<>>
  /\ owed = {}
  /\ copies = [r \in Rows |-> 0]
  /\ grown = {}

-----------------------------------------------------------------------------
(* The queue.                                                              *)

JobOf(kind, S) == IF S = {} THEN <<>> ELSE <<[kind |-> kind, rows |-> S]>>

TicketsOf(job) == {t \in Ticket : t[1] = job.kind /\ t[2] \in job.rows}

InJobs(jobs) == UNION {TicketsOf(jobs[i]) : i \in 1..Len(jobs)}

\* Mistake: nothing limits the queue.
Unlimited(jobs) == jobs

\* The jobs that are left when the oldest ones beyond the limit have been shifted out.
Kept(jobs) ==
  IF Len(jobs) <= MaxQueue THEN jobs
  ELSE SubSeq(jobs, Len(jobs) - MaxQueue + 1, Len(jobs))

Dropped(jobs) ==
  IF Len(jobs) <= MaxQueue THEN {} ELSE InJobs(SubSeq(jobs, 1, Len(jobs) - MaxQueue))

\* pushJob, once or twice in a row.
Push(jobs) ==
  /\ queue' = Kept(queue \o jobs)
  /\ owed' = owed \ Dropped(queue \o jobs)

\* enqueuePrintJob, enqueuePassTicketJob, enqueueFiscalJob.
EnqueueOther ==
  /\ Push(<<[kind |-> "other", rows |-> {}]>>)
  /\ UNCHANGED <<row, paid, grown, req, bar, kitchen, read, copies>>

-----------------------------------------------------------------------------
(* The handlers.  What they commit is one step, what they hand over to the *)
(* timers and to the queue afterwards another one.                         *)

\* What a request will hand over.
Undertaken(pc, S, cooked) ==
  {t \in Ticket :
     \/ t[1] = "bar" /\ pc \in {"insert", "fire"} /\ t[2] \in S \cap Bar
     \/ t[1] = "auto" /\ pc \in {"insert", "fire"} /\ t[2] \in S \cap AutoPrint
     \/ t[1] = "kitchen" /\ pc \in {"cook", "fire"} /\ t[2] \in cooked}

HandedOver(q) == Undertaken(req[q].pc, req[q].rows, Cooked(req[q].order))

Commit(q, pc, o, S) ==
  /\ req[q].pc = "idle"
  /\ req' = [req EXCEPT ![q] = [pc |-> pc, order |-> o, rows |-> S]]
  /\ owed' = owed \cup
       Undertaken(pc, S, {r \in Rows : OrderOf[r] = o /\ row'[r] = "production"} \ Bar)
  /\ UNCHANGED <<bar, kitchen, read, queue, copies>>

Placed(S, place) == row' = [r \in Rows |-> IF r \in S THEN place ELSE row[r]]

\* createOrder: nothing of a takeaway is handed over.
CreateOrder(q, o, S, place) ==
  /\ S # {} /\ ~Exists(o)
  /\ Placed(S, place) /\ UNCHANGED <<paid, grown>>
  /\ IF o \in Takeaway
       THEN /\ place = "waiting"
            /\ UNCHANGED <<req, bar, kitchen, read, queue, owed, copies>>
       ELSE Commit(q, "insert", o, S)

\* addItems does not ask for the type of the order.
AddItems(q, o, S, place) ==
  /\ S # {} /\ Exists(o)
  /\ o \in Takeaway => place = "waiting"
  /\ Placed(S, place) /\ paid' = paid \ {o}
  /\ grown' = grown \cup ({o} \cap Takeaway)
  /\ Commit(q, "insert", o, S)

\* dispatchOrder: some wait on, held by hand or by their timer.
DispatchOrder(q, o, S) ==
  /\ S # {} /\ Placed(S, "production") /\ UNCHANGED <<paid, grown>>
  /\ Commit(q, "cook", o, {})

\* START, for one dish or for several: updateItemStatus, batchUpdateStatus.
StartCooking(q, r) ==
  /\ row[r] = "production"
  /\ UNCHANGED <<row, paid, grown>>
  /\ Commit(q, "cook", OrderOf[r], {})

\* fireTakeawayItems, after the payment that settles the order.
FireTakeawayItems(q, o, S) ==
  /\ o \in Takeaway \ paid /\ S = With(o, "waiting") /\ S # {}
  /\ Placed(S, "production") /\ paid' = paid \cup {o} /\ UNCHANGED grown
  /\ Commit(q, "fire", o, S)

\* Mistake: the rows of the last call only.
Replaced(entry, S) == [armed |-> TRUE, ids |-> S]

Gathered(entry, S) == [armed |-> TRUE, ids |-> entry.ids \cup S]

\* scheduleBarTicket, scheduleKitchenTicket, enqueueAutoPrintJob.
HandOver(q) ==
  /\ req[q].pc # "idle"
  /\ LET o == req[q].order
         S == req[q].rows
     IN /\ bar' = IF S \cap Bar = {} THEN bar
                  ELSE [bar EXCEPT ![o] = Gathered(@, S \cap Bar)]
        /\ kitchen' = IF req[q].pc = "insert" THEN kitchen ELSE kitchen \cup {o}
        /\ Push(JobOf("auto", S \cap AutoPrint))
  /\ req' = [req EXCEPT ![q] = Idle]
  /\ UNCHANGED <<row, paid, grown, read, copies>>

\* A query between the COMMIT and the printing fails: the rows stay, nothing is printed.
HandOverFails(q) ==
  /\ req[q].pc # "idle"
  /\ owed' = owed \ HandedOver(q)
  /\ req' = [req EXCEPT ![q] = Idle]
  /\ UNCHANGED <<row, paid, grown, bar, kitchen, read, queue, copies>>

\* What becomes of a row otherwise.  A row sent to the kitchen by changeWorkflowStatus,
\* by the answer to an alert or by the timer gets no ticket; one that is held back,
\* taken or given up needs none.
Becomes(r, status, needless) ==
  /\ row' = [row EXCEPT ![r] = status] /\ UNCHANGED <<paid, grown>>
  /\ owed' = {t \in owed : t[2] = r => t[1] \notin needless}
  /\ UNCHANGED <<req, bar, kitchen, read, queue, copies>>

ReleaseRow(r) == row[r] = "waiting" /\ Becomes(r, "production", {})
HoldRow(r) == row[r] = "production" /\ Becomes(r, "waiting", {"kitchen"})
ServeRow(r) == row[r] = "production" /\ Becomes(r, "served", {"kitchen"})
CancelRow(r) == row[r] \notin {"none", "cancelled"} /\ Becomes(r, "cancelled", Kinds)

-----------------------------------------------------------------------------
(* The timers.                                                             *)

\* Mistake: the entry is deleted when the ticket is out, not when the timer expires.
StillThere(entry) == [armed |-> FALSE, ids |-> entry.ids]

Expired(entry) == NoEntry

BarExpires(s, o) ==
  /\ bar[o].armed /\ read[s].kind = "none"
  /\ read' = [read EXCEPT ![s] =
       [kind |-> "bar", order |-> o, known |-> FALSE, ids |-> bar[o].ids]]
  /\ bar' = [bar EXCEPT ![o] = Expired(@)]
  /\ UNCHANGED <<row, paid, grown, req, kitchen, queue, owed, copies>>

KitchenExpires(s, o) ==
  /\ o \in kitchen /\ read[s].kind = "none"
  /\ read' = [read EXCEPT ![s] =
       [kind |-> "kitchen", order |-> o, known |-> FALSE, ids |-> {}]]
  /\ kitchen' = kitchen \ {o}
  /\ UNCHANGED <<row, paid, grown, req, bar, queue, owed, copies>>

\* The rows a callback finds.
Found(c) ==
  IF c.kind = "bar" THEN {r \in c.ids : row[r] # "cancelled"} ELSE Cooked(c.order)

ReadRows(s) ==
  /\ read[s].kind # "none" /\ ~read[s].known
  /\ read' = [read EXCEPT ![s].known = TRUE, ![s].ids = Found(read[s])]
  /\ UNCHANGED <<row, paid, grown, req, bar, kitchen, queue, owed, copies>>

PushTicket(s) ==
  /\ read[s].kind # "none" /\ read[s].known
  /\ LET c == read[s] IN
       IF c.kind = "bar"
         THEN /\ Push(JobOf("bar", c.ids))
              /\ copies' = [r \in Rows |->
                   IF r \in c.ids /\ copies[r] < 2 THEN copies[r] + 1 ELSE copies[r]]
         ELSE /\ Push(JobOf("kitchen", c.ids \ Pizzeria) \o JobOf("kitchen", c.ids \cap Pizzeria))
              /\ UNCHANGED copies
  /\ read' = [read EXCEPT ![s] = NoCallback]
  /\ UNCHANGED <<row, paid, grown, req, bar, kitchen>>

\* What the callback of a timer will print.
Announced(c) ==
  {t \in Ticket :
     \/ t[1] = "bar" /\ c.kind = "bar" /\ t[2] \in c.ids
     \/ t[1] = "kitchen" /\ c.kind = "kitchen" /\ t[2] \in (IF c.known THEN c.ids ELSE Cooked(c.order))}

\* The error is written to the console.
ReadFails(s) ==
  /\ read[s].kind # "none" /\ ~read[s].known
  /\ owed' = owed \ Announced(read[s])
  /\ read' = [read EXCEPT ![s] = NoCallback]
  /\ UNCHANGED <<row, paid, grown, req, bar, kitchen, queue, copies>>

-----------------------------------------------------------------------------
(* The agent and the server.                                               *)

\* getPendingJobs: the queue is emptied before the answer is sent, and an answer that
\* does not reach the agent is not sent again.
GetPendingJobs ==
  /\ queue # <<>> /\ queue' = <<>>
  /\ owed' = owed \ InJobs(queue)
  /\ UNCHANGED <<row, paid, grown, req, bar, kitchen, read, copies>>

Crash ==
  /\ req' = [q \in Requests |-> Idle]
  /\ bar' = [o \in Orders |-> NoEntry]
  /\ kitchen' = {}
  /\ read' = [s \in Reads |-> NoCallback]
  /\ queue' = <<>>
  /\ owed' = {}
  /\ UNCHANGED <<row, paid, grown, copies>>

-----------------------------------------------------------------------------
Handler(q) ==
  \/ \E o \in Orders :
       \/ \E S \in SUBSET With(o, "none"), place \in {"waiting", "production"} :
            CreateOrder(q, o, S, place) \/ AddItems(q, o, S, place)
       \/ \E S \in SUBSET With(o, "waiting") : DispatchOrder(q, o, S) \/ FireTakeawayItems(q, o, S)
  \/ \E r \in Rows : StartCooking(q, r)
  \/ HandOver(q) \/ HandOverFails(q)

RowChanges(r) == ReleaseRow(r) \/ HoldRow(r) \/ ServeRow(r) \/ CancelRow(r)

Timer(s) ==
  \/ \E o \in Orders : BarExpires(s, o) \/ KitchenExpires(s, o)
  \/ ReadRows(s) \/ PushTicket(s) \/ ReadFails(s)

Next ==
  \/ \E q \in Requests : Handler(q)
  \/ \E r \in Changed : RowChanges(r)
  \/ \E s \in Reads : Timer(s)
  \/ EnqueueOther \/ GetPendingJobs \/ Crash

Spec == Init /\ [][Next]_vars

-----------------------------------------------------------------------------
(* Properties.                                                             *)

\* Types; "Coda: in-memory per tenant (LRU 100)": the queue is never longer than that.
TypeOK ==
  /\ row \in [Rows -> RowStatus] /\ paid \subseteq Takeaway
  /\ req \in [Requests -> Request]
  /\ bar \in [Orders -> Entry]
  /\ kitchen \subseteq Orders
  /\ read \in [Reads -> Callback]
  /\ queue \in Seq(Job) /\ Len(queue) <= MaxQueue
  /\ owed \subseteq Ticket
  /\ copies \in [Rows -> 0..2] /\ grown \subseteq Takeaway

InTimers(t) ==
  \/ t[1] = "bar" /\ \E o \in Orders : bar[o].armed /\ t[2] \in bar[o].ids
  \/ t[1] = "kitchen" /\ \E o \in kitchen : t[2] \in Cooked(o)

InRequests(t) == \E q \in Requests : t \in HandedOver(q)

InCallbacks(t) == \E s \in Reads : t \in Announced(read[s])

\* However calls for one order race with its timers, a ticket that was undertaken and
\* that no failure, restart or limit took away is still on its way: in a request, in the
\* memory of a timer that runs, in a callback, or in the queue.
NothingForgotten ==
  \A t \in owed : InRequests(t) \/ InTimers(t) \/ InCallbacks(t) \/ t \in InJobs(queue)

\* "deve uscire UNA stampa al bar": a row comes out at the bar once, whatever calls for
\* its order meet the timer when it expires, unless addItems added rows to its order
\* and that is a takeaway.  There the code itself prints twice: addItems prints the new
\* drinks at once, the payment prints them again.
BarOnce == \A r \in Rows : copies[r] <= 1 \/ OrderOf[r] \in grown
=============================================================================
