-------------------------- MODULE OrderLedger_proofs --------------------------
(* What OrderLedger keeps true for any number of orders, rows, requests and     *)
(* units of money.                                                              *)
EXTENDS OrderLedger, FiniteSetTheorems, TLAPS

Closed == {"completed", "cancelled"}

\* A request in flight works on an order that exists.  One that is about to commit
\* a payment carries money, and one that took its takeaway for paid was right.
Sound(q) ==
  /\ q \in Request
  /\ q.pc # "idle" => q.order \in Orders /\ orders[q.order].status # "absent"
  /\ q.pc = "commitPayment" => q.amount > 0 /\ q.payment # "unpaid"
  /\ q.pc \in {"serveItems", "closeRitirato"} /\ q.payment = "paid"
       => paid[q.order] > 0

\* A row of order_items belongs to an order that exists.
RowsKnown ==
  \A i \in Items : items[i].status # "absent"
    => items[i].order \in Orders /\ orders[items[i].order].status # "absent"

\* Before an order is opened nothing is recorded for it; after it was handed over
\* it is closed.
Lifecycle ==
  \A o \in Orders : /\ orders[o].status = "absent"
                         => orders[o].payment = "unpaid" /\ handed[o] = 0
                    /\ handed[o] > 0 => orders[o].status \in Closed

\* The inductive invariant: none of FlagMatchesPayments, OneHandover is one by
\* itself, as both depend on what the requests in flight have read.
LedgerInv ==
  /\ TypeOK
  /\ \A r \in Requests : Sound(req[r])
  /\ RowsKnown
  /\ Lifecycle
  /\ FlagMatchesPayments
  /\ OneHandover
-----------------------------------------------------------------------------
(* The operators the actions are built from.                                *)

\* A sum over the live rows is a number, whatever the rows.
LEMMA SeenIsNat == \A q : Cardinality(Seen(q)) \in Nat
<1>1. TAKE q
<1>2. Seen(q) \subseteq Items
  BY DEF Seen
<1>3. IsFiniteSet(Items)
  BY LedgerAssumption
<1>4. IsFiniteSet(Seen(q))
  BY <1>2, <1>3, FS_Subset
<1> QED
  BY <1>4, FS_CardinalityType

\* The total the trigger leaves behind is a number.
LEMMA TriggerTotalsAreNat ==
  ASSUME TypeOK, NEW q \in Request, q.order \in Orders
  PROVE  TriggerTotals(q) \subseteq Nat
<1>1. orders[q.order].total \in Nat
  BY DEF TypeOK, OrderRow
<1>2. q.snap \in Nat
  BY DEF Request
<1>3. Cardinality(Seen(q)) \in Nat
  BY SeenIsNat
<1> QED
  BY <1>1, <1>2, <1>3 DEF TriggerTotals

\* An idle request is well formed.
LEMMA IdleIsRequest == Idle \in Request /\ Idle.pc = "idle"
BY DEF Idle, Request

\* A statement on item rows keeps a request well formed and changes nothing but
\* its rows and its snapshot.
LEMMA RowStatement ==
  ASSUME NEW q \in Request, NEW S \in SUBSET Items,
         NEW st \in {"cancelled"} \cup Live
  PROVE  LET p == Snapshot(WithRows(q, S, st)) IN
         /\ p \in Request
         /\ p.pc = q.pc /\ p.order = q.order
         /\ p.payment = q.payment /\ p.amount = q.amount
<1>1. [i \in Items |-> IF i \in S THEN st ELSE q.pend[i]]
        \in [Items -> {Kept, "cancelled"} \cup Live]
  BY DEF Request
<1>2. Cardinality(Seen(WithRows(q, S, st))) \in Nat
  BY SeenIsNat
<1>3. WithRows(q, S, st) \in Request
  BY <1>1 DEF WithRows, Request
<1> QED
  BY <1>2, <1>3 DEF Snapshot, WithRows, Request

\* COMMIT writes well-formed rows, of the order of the request.
LEMMA CommittedRows ==
  ASSUME TypeOK, RowsKnown, NEW q \in Request, q.order \in Orders, CommitItems(q),
         \A o \in Orders : orders[o].status # "absent" => orders'[o].status # "absent",
         orders[q.order].status # "absent"
  PROVE  items' \in [Items -> ItemRow] /\ RowsKnown'
<1>1. ASSUME NEW i \in Items
      PROVE  /\ items'[i] \in ItemRow
             /\ items'[i].status # "absent" => /\ items'[i].order \in Orders
                                               /\ orders'[items'[i].order].status # "absent"
  <2>1. CASE q.pend[i] = Kept
    <3>1. items'[i] = items[i]
      BY <2>1 DEF CommitItems
    <3> QED
      BY <3>1 DEF TypeOK, RowsKnown
  <2>2. CASE q.pend[i] # Kept
    <3>1. items'[i] = [order |-> q.order, status |-> q.pend[i]]
      BY <2>2 DEF CommitItems
    <3>2. q.pend[i] \in {"cancelled"} \cup Live
      BY <2>2 DEF Request
    <3> QED
      BY <3>1, <3>2 DEF ItemRow
  <2> QED
    BY <2>1, <2>2
<1>2. items' = [i \in Items |-> items'[i]]
  BY DEF CommitItems
<1> QED
  BY <1>1, <1>2 DEF RowsKnown
-----------------------------------------------------------------------------
(* Two shapes of steps.                                                     *)

\* What a request knows stays true while orders do not vanish and payments only
\* add up.
LEMMA StaysSound ==
  ASSUME NEW q, Sound(q), TypeOK, paid' \in [Orders -> Nat],
         \A o \in Orders : /\ orders[o].status # "absent" => orders'[o].status # "absent"
                           /\ paid'[o] >= paid[o]
  PROVE  Sound(q)'
<1>1. q.pc # "idle" => q.order \in Orders /\ orders'[q.order].status # "absent"
  BY DEF Sound
<1>2. ASSUME q.pc \in {"serveItems", "closeRitirato"}, q.payment = "paid"
      PROVE  paid'[q.order] > 0
  <2>1. q.order \in Orders /\ paid[q.order] > 0
    BY <1>2 DEF Sound
  <2> QED
    BY <2>1 DEF TypeOK
<1> QED
  BY <1>1, <1>2 DEF Sound, Request, Live, Kept

\* A step that only moves one request on.
LEMMA RequestStep ==
  ASSUME LedgerInv, NEW r \in Requests, NEW q, Sound(q),
         req' = [req EXCEPT ![r] = q], UNCHANGED <<orders, items, paid, handed>>
  PROVE  LedgerInv'
<1>1. req' \in [Requests -> Request]
  BY DEF LedgerInv, TypeOK, Sound
<1>2. TypeOK'
  BY <1>1 DEF LedgerInv, TypeOK
<1>3. ASSUME NEW s \in Requests PROVE Sound(req[s])'
  <2>1. Sound(req'[s])
    BY DEF LedgerInv, TypeOK
  <2> QED
    BY <2>1 DEF Sound
<1>4. RowsKnown' /\ Lifecycle' /\ FlagMatchesPayments' /\ OneHandover'
  BY DEF LedgerInv, RowsKnown, Lifecycle, FlagMatchesPayments, OneHandover
<1> QED
  BY <1>2, <1>3, <1>4 DEF LedgerInv

\* Giving up, for whatever reason, changes nothing but the request.
LEMMA Rollback ==
  ASSUME LedgerInv, NEW r \in Requests, Finish(r),
         UNCHANGED <<orders, items, paid, handed>>
  PROVE  LedgerInv'
<1>1. Sound(Idle)
  BY IdleIsRequest DEF Sound, Idle
<1> QED
  BY <1>1, RequestStep DEF Finish
\* A step that ends request r and leaves order o with this row, this sum of its
\* payments and this number of handovers.
CommitTo(r, o, row, sum, n) ==
  /\ row \in OrderRow /\ sum \in Nat /\ n \in Nat
  /\ orders[o].status # "absent" /\ row.status # "absent"
  /\ orders' = [orders EXCEPT ![o] = row]
  /\ paid' = [paid EXCEPT ![o] = sum] /\ sum >= paid[o]
  /\ handed' = [handed EXCEPT ![o] = n]
  /\ items' \in [Items -> ItemRow] /\ RowsKnown' /\ Finish(r)
  /\ row.payment = "unpaid" <=> sum = 0
  /\ orders[o].status \in Closed => row.status \in Closed
  /\ \/ n = handed[o]
     \/ n = handed[o] + 1 /\ orders[o].status = "open" /\ row.status \in Closed

\* It is enough to look at what a commit does to its own order.
LEMMA CommitStep ==
  ASSUME LedgerInv, NEW r \in Requests, NEW o \in Orders, NEW row, NEW sum, NEW n,
         CommitTo(r, o, row, sum, n)
  PROVE  LedgerInv'
<1>1. orders' \in [Orders -> OrderRow] /\ paid' \in [Orders -> Nat]
      /\ handed' \in [Orders -> Nat]
  BY DEF CommitTo, LedgerInv, TypeOK
<1>2. req' \in [Requests -> Request]
  BY IdleIsRequest DEF CommitTo, LedgerInv, TypeOK, Finish
<1>3. TypeOK'
  BY <1>1, <1>2 DEF CommitTo, TypeOK
<1>4. ASSUME NEW s \in Requests PROVE Sound(req[s])'
  <2>1. Sound(req[s])
    BY DEF LedgerInv
  <2>2. \A p \in Orders : /\ orders[p].status # "absent" => orders'[p].status # "absent"
                          /\ paid'[p] >= paid[p]
    BY DEF CommitTo, LedgerInv, TypeOK
  <2>3. CASE s = r
    <3>1. req'[s] = Idle
      BY <2>3 DEF CommitTo, Finish, LedgerInv, TypeOK
    <3> QED
      BY <3>1, IdleIsRequest DEF Sound, Idle
  <2>4. CASE s # r
    <3>1. req'[s] = req[s]
      BY <2>4 DEF CommitTo, Finish, LedgerInv, TypeOK
    <3>2. \A q : Sound(q) => Sound(q)'
      BY <1>1, <2>2, StaysSound DEF LedgerInv
    <3> QED
      BY <3>1, <3>2, <2>1 DEF Sound
  <2> QED
    BY <2>3, <2>4
<1>5. Lifecycle'
  BY DEF CommitTo, LedgerInv, TypeOK, Lifecycle, Closed
<1>6. FlagMatchesPayments'
  BY DEF CommitTo, LedgerInv, TypeOK, FlagMatchesPayments
<1>7. OneHandover'
  BY DEF CommitTo, LedgerInv, TypeOK, Lifecycle, OneHandover, Closed
<1> QED
  BY <1>3, <1>4, <1>5, <1>6, <1>7 DEF CommitTo, LedgerInv
-----------------------------------------------------------------------------
(* The actions, handler by handler.                                         *)

\* Opening an order takes rows nobody uses, for an order nobody knows.
LEMMA OpeningKeeps ==
  ASSUME LedgerInv, NEW o \in Orders, CreateOrder(o) \/ CreatePublicOrder(o)
  PROVE  LedgerInv'
<1>1. PICK S \in SUBSET FreshRows, D \in SUBSET Items, type \in {"table", "takeaway"},
           source \in {"staff", "qr"} : InsertOrder(o, S, D, type, source)
  BY DEF CreateOrder, CreatePublicOrder, FreshRows
<1>2. S \subseteq Items /\ \A i \in S : items[i].status = "absent"
  BY DEF FreshRows
<1>3. Cardinality(S) \in Nat
  BY <1>2, LedgerAssumption, FS_Subset, FS_CardinalityType
<1>4. orders[o].status = "absent" /\ UNCHANGED <<paid, handed, req>>
  BY <1>1 DEF InsertOrder
<1>5. orders' \in [Orders -> OrderRow]
  BY <1>1, <1>3 DEF InsertOrder, LedgerInv, TypeOK, OrderRow
<1>6. orders'[o].payment = "unpaid" /\ orders'[o].status = "open"
      /\ \A p \in Orders \ {o} : orders'[p] = orders[p]
  BY <1>1 DEF InsertOrder, LedgerInv, TypeOK
<1>7. items' \in [Items -> ItemRow]
  BY <1>1, <1>2 DEF InsertOrder, LedgerInv, TypeOK, ItemRow, Live
<1>8. TypeOK'
  BY <1>4, <1>5, <1>7 DEF LedgerInv, TypeOK
<1>9. ASSUME NEW r \in Requests PROVE Sound(req[r])'
  BY <1>4, <1>6, StaysSound DEF LedgerInv, TypeOK, Sound
<1>10. RowsKnown'
  <2>1. ASSUME NEW i \in Items, items'[i].status # "absent"
        PROVE  items'[i].order \in Orders /\ orders'[items'[i].order].status # "absent"
    <3>1. CASE i \in S
      BY <1>1, <1>6, <3>1 DEF InsertOrder
    <3>2. CASE i \notin S
      <4>1. items'[i] = items[i]
        BY <1>1, <3>2 DEF InsertOrder
      <4> QED
        BY <4>1, <2>1, <1>6 DEF LedgerInv, RowsKnown
    <3> QED
      BY <3>1, <3>2
  <2> QED
    BY <2>1 DEF RowsKnown
<1>11. Lifecycle' /\ FlagMatchesPayments' /\ OneHandover'
  BY <1>4, <1>6 DEF LedgerInv, TypeOK, Lifecycle, FlagMatchesPayments, OneHandover, Closed
<1> QED
  BY <1>8, <1>9, <1>10, <1>11 DEF LedgerInv

\* The first SELECT of a handler: the request knows an order that is open.
LEMMA ChecksKeep ==
  ASSUME LedgerInv, NEW r \in Requests, NEW o \in Orders,
         \/ AddItemsCheck(r, o) \/ PaymentCheck(r, o) \/ RitiratoCheck(r, o)
         \/ NoShowCheck(r, o) \/ CancelCheck(r, o)
  PROVE  LedgerInv'
<1>1. Open(o) /\ UNCHANGED <<orders, items, paid, handed>>
  BY DEF AddItemsCheck, PaymentCheck, RitiratoCheck, NoShowCheck, CancelCheck
<1>2. orders[o] \in OrderRow /\ orders[o].total \in Nat
      /\ (orders[o].payment = "paid" => paid[o] > 0) /\ orders[o].status # "absent"
  BY <1>1 DEF LedgerInv, TypeOK, OrderRow, FlagMatchesPayments, Open
<1>3. CASE AddItemsCheck(r, o)
  <2> DEFINE q == [Idle EXCEPT !.pc = "addItems", !.order = o]
  <2>1. Sound(q)
    BY <1>2 DEF Sound, Idle, Request
  <2> QED
    BY <1>3, <1>1, <2>1, RequestStep DEF AddItemsCheck
<1>4. CASE PaymentCheck(r, o)
  <2>1. PICK amount \in 1..MaxTender, method \in Methods :
          req' = [req EXCEPT ![r] =
                    [Idle EXCEPT !.pc = "sumPaid", !.order = o, !.amount = amount,
                                 !.method = method, !.total = orders[o].total]]
    BY <1>4 DEF PaymentCheck
  <2> DEFINE q == [Idle EXCEPT !.pc = "sumPaid", !.order = o, !.amount = amount,
                               !.method = method, !.total = orders[o].total]
  <2>2. amount \in Nat /\ method \in {"cash", "card"}
    BY LedgerAssumption
  <2>3. q \in Request
    BY <1>2, <2>2 DEF Idle, Request
  <2>4. Sound(q)
    BY <1>2, <2>3 DEF Sound, Idle
  <2> QED
    BY <1>1, <2>1, <2>4, RequestStep
<1>5. CASE RitiratoCheck(r, o)
  <2> DEFINE q == [Idle EXCEPT !.pc = "serveItems", !.order = o,
                     !.total = orders[o].total, !.payment = orders[o].payment]
  <2>1. Sound(q)
    BY <1>2 DEF Sound, Idle, Request, OrderRow
  <2> QED
    BY <1>5, <1>1, <2>1, RequestStep DEF RitiratoCheck
<1>6. CASE NoShowCheck(r, o)
  <2> DEFINE q == [Idle EXCEPT !.pc = "stopItems", !.order = o]
  <2>1. Sound(q)
    BY <1>2 DEF Sound, Idle, Request
  <2> QED
    BY <1>6, <1>1, <2>1, RequestStep DEF NoShowCheck
<1>7. CASE CancelCheck(r, o)
  <2> DEFINE q == [Idle EXCEPT !.pc = "cancelItems", !.order = o]
  <2>1. Sound(q)
    BY <1>2 DEF Sound, Idle, Request
  <2> QED
    BY <1>7, <1>1, <2>1, RequestStep DEF CancelCheck
<1> QED
  BY <1>3, <1>4, <1>5, <1>6, <1>7

\* A statement on item rows of a request in flight.
LEMMA RowStatementKeeps ==
  ASSUME LedgerInv, NEW r \in Requests, NEW S \in SUBSET Items,
         NEW st \in {"cancelled"} \cup Live, NEW q, Sound(q), q.pc # "idle",
         NEW pc \in {"commitItems", "closeRitirato", "closeNoShow", "commitCancel"},
         pc = "closeRitirato" => q.pc = "serveItems",
         req' = [req EXCEPT ![r] = Snapshot([WithRows(q, S, st) EXCEPT !.pc = pc])],
         UNCHANGED <<orders, items, paid, handed>>
  PROVE  LedgerInv'
<1> DEFINE w == [WithRows(q, S, st) EXCEPT !.pc = pc]
           p == Snapshot(w)
<1>1. WithRows(q, S, st) \in Request /\ WithRows(q, S, st).order = q.order
      /\ WithRows(q, S, st).payment = q.payment
  <2>1. [i \in Items |-> IF i \in S THEN st ELSE q.pend[i]]
          \in [Items -> {Kept, "cancelled"} \cup Live]
    BY DEF Sound, Request
  <2> QED
    BY <2>1 DEF WithRows, Sound, Request
<1>2. w \in Request /\ w.pc = pc /\ w.order = q.order /\ w.payment = q.payment
  BY <1>1 DEF Request
<1>3. Cardinality(Seen(w)) \in Nat
  BY SeenIsNat
<1>4. p \in Request /\ p.pc = pc /\ p.order = q.order /\ p.payment = q.payment
  BY <1>2, <1>3 DEF Snapshot, Request
<1>5. Sound(p)
  BY <1>4 DEF Sound
<1>6. req' = [req EXCEPT ![r] = p]
  OBVIOUS
<1> HIDE DEF p
<1> QED
  BY <1>5, <1>6, RequestStep

\* addItems, cancelItem and the UPDATEs over the rows of an order.
LEMMA ItemStatementsKeep ==
  ASSUME LedgerInv, NEW r \in Requests,
         \/ AddItemsInsert(r) \/ RitiratoServe(r) \/ NoShowStop(r) \/ CancelItems(r)
         \/ \E i \in Items : CancelItem(r, i)
         \/ \E i \in Items, st \in Displays : UpdateItemStatus(r, i, st)
  PROVE  LedgerInv'
<1>1. Sound(req[r])
  BY DEF LedgerInv
<1>2. CASE AddItemsInsert(r)
  <2>1. PICK S \in SUBSET FreshRows, st \in Live :
          req' = [req EXCEPT ![r] =
                    Snapshot([WithRows(req[r], S, st) EXCEPT !.pc = "commitItems"])]
    BY <1>2 DEF AddItemsInsert, Live
  <2>2. S \subseteq Items
    BY DEF FreshRows
  <2>3. req[r].pc # "idle" /\ UNCHANGED <<orders, items, paid, handed>>
    BY <1>2 DEF AddItemsInsert
  <2> QED
    BY <1>1, <2>1, <2>2, <2>3, RowStatementKeeps
<1>3. ASSUME NEW from, NEW st \in {"cancelled"} \cup Live,
             NEW pc \in {"serveItems", "stopItems", "cancelItems"},
             NEW next \in {"closeRitirato", "closeNoShow", "commitCancel"},
             next = "closeRitirato" => pc = "serveItems",
             UpdateRows(r, pc, from, st, next)
      PROVE  LedgerInv'
  <2> DEFINE S == {i \in RowsOf(req[r].order) : items[i].status \in from}
  <2>1. S \subseteq Items
    BY DEF RowsOf
  <2>2. /\ req[r].pc = pc
        /\ req' = [req EXCEPT ![r] = Snapshot([WithRows(req[r], S, st) EXCEPT !.pc = next])]
        /\ UNCHANGED <<orders, items, paid, handed>>
    BY <1>3 DEF UpdateRows
  <2> HIDE DEF S
  <2> QED
    BY <1>1, <1>3, <2>1, <2>2, RowStatementKeeps
<1>4. CASE RitiratoServe(r)
  BY <1>4, <1>3 DEF RitiratoServe, Live
<1>5. CASE NoShowStop(r)
  BY <1>5, <1>3 DEF NoShowStop, Live
<1>6. CASE CancelItems(r)
  BY <1>6, <1>3 DEF CancelItems, Live
<1>7. ASSUME NEW i \in Items, NEW st \in {"cancelled"} \cup Live, UpdateRow(r, i, st)
      PROVE  LedgerInv'
  <2> DEFINE q == [Idle EXCEPT !.pc = "commitItems", !.order = items[i].order]
  <2>1. items[i].order \in Orders /\ orders[items[i].order].status # "absent"
    BY <1>7 DEF UpdateRow, LedgerInv, RowsKnown, TypeOK, ItemRow, Live
  <2>2. q \in Request /\ q.pc = "commitItems" /\ q.order = items[i].order
        /\ q.payment = "unpaid"
    BY <2>1 DEF Idle, Request
  <2>3. Sound(q)
    BY <2>1, <2>2 DEF Sound
  <2>4. req' = [req EXCEPT ![r] = Snapshot(WithRows(q, {i}, st))]
        /\ UNCHANGED <<orders, items, paid, handed>>
    BY <1>7 DEF UpdateRow
  <2> DEFINE p == Snapshot(WithRows(q, {i}, st))
  <2> HIDE DEF q
  <2>5. p \in Request /\ p.pc = q.pc /\ p.order = q.order /\ p.payment = q.payment
    <3>1. {i} \in SUBSET Items
      OBVIOUS
    <3> QED
      BY <2>2, <3>1, RowStatement
  <2> HIDE DEF p
  <2>6. Sound(p)
    BY <2>1, <2>2, <2>5 DEF Sound
  <2> QED
    BY <2>4, <2>6, RequestStep DEF p
<1> QED
  BY <1>2, <1>4, <1>5, <1>6, <1>7, LedgerAssumption DEF CancelItem, UpdateItemStatus

\* Requests that end without a COMMIT.
LEMMA RefusalsKeep ==
  ASSUME LedgerInv, NEW r \in Requests,
         \/ AddItemsFail(r) \/ PaymentRefused(r) \/ RitiratoRefused(r) \/ NoShowRefused(r)
  PROVE  LedgerInv'
BY Rollback DEF AddItemsFail, PaymentRefused, RitiratoRefused, NoShowRefused

\* The statements of processPayment before its COMMIT.
LEMMA PayingKeeps ==
  ASSUME LedgerInv, NEW r \in Requests, PaymentSum(r) \/ PaymentInsert(r)
  PROVE  LedgerInv'
<1> DEFINE q == req[r]
<1>1. Sound(q) /\ q \in Request
  BY DEF LedgerInv, Sound
<1>2. CASE PaymentSum(r)
  <2> DEFINE p == [q EXCEPT !.pc = "insertPayment", !.paid = paid[q.order]]
  <2>1. paid[q.order] \in Nat /\ q.order \in Orders /\ orders[q.order].status # "absent"
    BY <1>1, <1>2 DEF PaymentSum, Sound, LedgerInv, TypeOK
  <2>2. p \in Request /\ p.pc = "insertPayment" /\ p.order = q.order
    BY <1>1, <2>1 DEF Request
  <2>3. Sound(p)
    BY <2>1, <2>2 DEF Sound
  <2>4. req' = [req EXCEPT ![r] = p]
    BY <1>1, <1>2 DEF PaymentSum, LedgerInv, TypeOK
  <2> QED
    BY <1>2, <2>3, <2>4, RequestStep DEF PaymentSum
<1>3. CASE PaymentInsert(r)
  <2> DEFINE a == EffectiveAmount(q)
             p == [q EXCEPT !.pc = "commitPayment", !.amount = a,
                            !.payment = PaymentStatus(q, a)]
  <2>1. a > 0 /\ req' = [req EXCEPT ![r] = p] /\ UNCHANGED <<orders, items, paid, handed>>
    BY <1>3 DEF PaymentInsert, AmountAllowed
  <2>2. a \in Nat
    BY <1>1 DEF EffectiveAmount, Request
  <2>3. PaymentStatus(q, a) \in {"partial", "paid"}
    BY DEF PaymentStatus
  <2>4. q.order \in Orders /\ orders[q.order].status # "absent"
    BY <1>1, <1>3 DEF PaymentInsert, Sound
  <2>5. p \in Request /\ p.pc = "commitPayment" /\ p.order = q.order
        /\ p.amount = a /\ p.payment # "unpaid"
    BY <1>1, <2>2, <2>3 DEF Request
  <2>6. Sound(p)
    BY <2>1, <2>4, <2>5 DEF Sound
  <2> HIDE DEF p
  <2> QED
    BY <2>1, <2>6, RequestStep
<1> QED
  BY <1>2, <1>3

\* The COMMITs: CommitStep, applied to the row each of them leaves behind.
LEMMA CommitsKeep ==
  ASSUME LedgerInv, NEW r \in Requests,
         \/ CommitItemRows(r) \/ PaymentCommit(r) \/ RitiratoClose(r)
         \/ NoShowClose(r) \/ CancelCommit(r)
  PROVE  LedgerInv'
<1> DEFINE q == req[r]
           o == req[r].order
<1>1. q \in Request /\ o \in Orders /\ orders[o].status # "absent"
      /\ orders[o] \in OrderRow
  BY DEF LedgerInv, TypeOK, Sound, CommitItemRows, PaymentCommit, RitiratoClose,
         NoShowClose, CancelCommit
<1>2. TriggerTotals(q) \subseteq Nat
  BY <1>1, TriggerTotalsAreNat DEF LedgerInv
<1>3. ASSUME CommitItems(q),
             \A p \in Orders : orders[p].status # "absent" => orders'[p].status # "absent"
      PROVE  items' \in [Items -> ItemRow] /\ RowsKnown'
  BY <1>1, <1>3, CommittedRows DEF LedgerInv
<1>4. /\ paid[o] \in Nat /\ handed[o] \in Nat
      /\ paid' = paid => paid' = [paid EXCEPT ![o] = paid[o]]
      /\ handed' = handed => handed' = [handed EXCEPT ![o] = handed[o]]
      /\ orders[o].payment = "unpaid" <=> paid[o] = 0
  BY <1>1 DEF LedgerInv, TypeOK, FlagMatchesPayments
<1>5. CASE CommitItemRows(r)
  <2>1. PICK t \in TriggerTotals(q) : orders' = [orders EXCEPT ![o].total = t]
    BY <1>5 DEF CommitItemRows
  <2> DEFINE row == [orders[o] EXCEPT !.total = t]
  <2>2. row \in OrderRow /\ row.status = orders[o].status /\ row.payment = orders[o].payment
    BY <1>1, <1>2 DEF OrderRow
  <2>3. orders' = [orders EXCEPT ![o] = row]
    BY <2>1, <1>1 DEF LedgerInv, TypeOK
  <2>4. items' \in [Items -> ItemRow] /\ RowsKnown'
    BY <1>1, <1>3, <1>5, <2>2, <2>3 DEF CommitItemRows, LedgerInv, TypeOK
  <2>5. /\ Finish(r)
        /\ paid' = [paid EXCEPT ![o] = paid[o]]
        /\ handed' = [handed EXCEPT ![o] = handed[o]]
    BY <1>4, <1>5 DEF CommitItemRows
  <2> HIDE DEF row
  <2>6. CommitTo(r, o, row, paid[o], handed[o])
    BY <1>1, <1>4, <2>2, <2>3, <2>4, <2>5 DEF CommitTo
  <2> QED
    BY <1>1, <2>6, CommitStep
<1>6. CASE PaymentCommit(r)
  <2> DEFINE row == [orders[o] EXCEPT !.payment = q.payment, !.status = StatusAfterPayment(q)]
  <2>1. q.amount > 0 /\ q.amount \in Nat /\ q.payment \in {"partial", "paid"}
    BY <1>6, <1>1 DEF PaymentCommit, LedgerInv, Sound, Request
  <2>2. StatusAfterPayment(q) \in {"completed", orders[o].status}
    BY DEF StatusAfterPayment
  <2>3. row \in OrderRow /\ row.status \in {"completed", orders[o].status}
        /\ row.payment # "unpaid"
    BY <1>1, <2>1, <2>2 DEF OrderRow
  <2>4. /\ orders' = [orders EXCEPT ![o] = row]
        /\ paid' = [paid EXCEPT ![o] = paid[o] + q.amount]
        /\ handed' = [handed EXCEPT ![o] = handed[o]]
        /\ Finish(r) /\ items' = items
    BY <1>4, <1>6, <1>1 DEF PaymentCommit, LedgerInv, TypeOK
  <2>5. items' \in [Items -> ItemRow] /\ RowsKnown'
    BY <1>1, <2>3, <2>4 DEF LedgerInv, TypeOK, RowsKnown
  <2> HIDE DEF row
  <2>6. paid[o] + q.amount \in Nat /\ paid[o] + q.amount > 0
    BY <1>4, <2>1
  <2>7. CommitTo(r, o, row, paid[o] + q.amount, handed[o])
    BY <1>1, <1>4, <2>1, <2>3, <2>4, <2>5, <2>6 DEF CommitTo, Closed
  <2> QED
    BY <1>1, <2>7, CommitStep
<1>7. CASE RitiratoClose(r)
  <2>1. PICK t \in TriggerTotals(q) :
          orders' = [orders EXCEPT ![o].status = "completed", ![o].payment = "paid",
                                   ![o].total = t]
    BY <1>7 DEF RitiratoClose
  <2> DEFINE row == [orders[o] EXCEPT !.status = "completed", !.payment = "paid", !.total = t]
  <2>2. row \in OrderRow /\ row.status = "completed" /\ row.payment = "paid"
    BY <1>1, <1>2 DEF OrderRow
  <2>3. orders' = [orders EXCEPT ![o] = row]
    BY <2>1, <1>1 DEF LedgerInv, TypeOK
  <2>4. items' \in [Items -> ItemRow] /\ RowsKnown'
    BY <1>1, <1>3, <1>7, <2>2, <2>3 DEF RitiratoClose, LedgerInv, TypeOK
  <2>5. /\ Finish(r) /\ orders[o].status = "open"
        /\ paid' = [paid EXCEPT ![o] = paid[o] + DueAtPickup(q)]
        /\ handed' = [handed EXCEPT ![o] = handed[o] + 1]
    BY <1>1, <1>7 DEF RitiratoClose, StillOpen, Open, LedgerInv, TypeOK
  <2>6. DueAtPickup(q) \in Nat
    BY <1>1 DEF DueAtPickup, Request
  <2>7. orders[o].payment = "unpaid" => DueAtPickup(q) # 0
    <3>1. CASE q.payment = "paid"
      BY <1>1, <1>7, <3>1 DEF RitiratoClose, LedgerInv, Sound, FlagMatchesPayments
    <3>2. CASE q.payment # "paid"
      BY <1>7, <3>2 DEF RitiratoClose, Collectable, AmountAllowed
    <3> QED
      BY <3>1, <3>2
  <2>8. paid[o] + DueAtPickup(q) \in Nat /\ paid[o] + DueAtPickup(q) > 0
        /\ handed[o] + 1 \in Nat
    BY <1>4, <2>6, <2>7
  <2> HIDE DEF row
  <2>9. CommitTo(r, o, row, paid[o] + DueAtPickup(q), handed[o] + 1)
    BY <1>1, <1>4, <2>2, <2>3, <2>4, <2>5, <2>6, <2>8 DEF CommitTo, Closed
  <2> QED
    BY <1>1, <2>9, CommitStep
<1>8. ASSUME NEW n \in Nat,
             n = handed[o] \/ (n = handed[o] + 1 /\ orders[o].status = "open"),
             NEW t \in TriggerTotals(q),
             orders' = [orders EXCEPT ![o].status = "cancelled", ![o].total = t],
             CommitItems(q), Finish(r), paid' = paid,
             handed' = [handed EXCEPT ![o] = n]
      PROVE  LedgerInv'
  <2> DEFINE row == [orders[o] EXCEPT !.status = "cancelled", !.total = t]
  <2>1. row \in OrderRow /\ row.status = "cancelled" /\ row.payment = orders[o].payment
    BY <1>1, <1>2 DEF OrderRow
  <2>2. orders' = [orders EXCEPT ![o] = row]
    BY <1>8, <1>1 DEF LedgerInv, TypeOK
  <2>3. items' \in [Items -> ItemRow] /\ RowsKnown'
    BY <1>1, <1>3, <1>8, <2>1, <2>2 DEF LedgerInv, TypeOK
  <2> HIDE DEF row
  <2>4. paid' = [paid EXCEPT ![o] = paid[o]] /\ paid[o] \in Nat
        /\ (row.payment = "unpaid" <=> paid[o] = 0)
    BY <1>4, <1>8, <2>1
  <2>5. \/ n = handed[o]
        \/ n = handed[o] + 1 /\ orders[o].status = "open" /\ row.status \in Closed
    BY <1>8, <2>1 DEF Closed
  <2>6. handed' = [handed EXCEPT ![o] = n] /\ Finish(r)
    BY <1>8
  <2>7. CommitTo(r, o, row, paid[o], n)
    BY <1>1, <2>1, <2>2, <2>3, <2>4, <2>5, <2>6 DEF CommitTo, Closed
  <2> QED
    BY <1>1, <2>7, CommitStep
<1>9. CASE NoShowClose(r)
  <2>1. handed' = [handed EXCEPT ![o] = handed[o] + 1] /\ handed[o] + 1 \in Nat
    BY <1>1, <1>4, <1>9 DEF NoShowClose, LedgerInv, TypeOK
  <2> QED
    BY <1>8, <1>9, <2>1 DEF NoShowClose, StillOpen, Open
<1>10. CASE CancelCommit(r)
  BY <1>4, <1>8, <1>10 DEF CancelCommit
<1> QED
  BY <1>5, <1>6, <1>7, <1>9, <1>10
-----------------------------------------------------------------------------
(* The theorems.                                                            *)

\* Every step keeps the inductive invariant.
LEMMA LedgerInvStep == LedgerInv /\ [Next]_vars => LedgerInv'
<1> SUFFICES ASSUME LedgerInv, [Next]_vars PROVE LedgerInv'
  OBVIOUS
<1>1. ASSUME NEW o \in Orders, CreateOrder(o) \/ CreatePublicOrder(o) PROVE LedgerInv'
  BY <1>1, OpeningKeeps
<1>2. ASSUME NEW r \in Requests, Arrive(r) PROVE LedgerInv'
  BY <1>2, ChecksKeep, ItemStatementsKeep DEF Arrive
<1>3. ASSUME NEW r \in Requests, Continue(r) PROVE LedgerInv'
  BY <1>3, ItemStatementsKeep, RefusalsKeep, PayingKeeps, CommitsKeep DEF Continue
<1>4. CASE UNCHANGED vars
  BY <1>4 DEF vars, LedgerInv, TypeOK, Sound, RowsKnown, Lifecycle,
              FlagMatchesPayments, OneHandover
<1> QED
  BY <1>1, <1>2, <1>3, <1>4 DEF Next

\* The server starts with no order, no row and no request.
LEMMA LedgerInvInit == Init => LedgerInv
<1> SUFFICES ASSUME Init PROVE LedgerInv
  OBVIOUS
<1>1. TypeOK
  BY IdleIsRequest DEF Init, TypeOK, OrderRow, ItemRow
<1>2. \A r \in Requests : Sound(req[r])
  BY IdleIsRequest DEF Init, Sound, Idle
<1>3. RowsKnown /\ Lifecycle /\ FlagMatchesPayments /\ OneHandover
  BY DEF Init, RowsKnown, Lifecycle, FlagMatchesPayments, OneHandover
<1> QED
  BY <1>1, <1>2, <1>3 DEF LedgerInv

\* The inductive invariant holds in every state of the ledger.
THEOREM LedgerInvariant == Spec => []LedgerInv
BY LedgerInvInit, LedgerInvStep, PTL DEF Spec

\* Every field of every row and request keeps to what its column allows.
THEOREM TypeCorrect == Spec => []TypeOK
BY LedgerInvariant, PTL DEF LedgerInv

\* processPayment and markAsportoRitirato keep the payment flag of an order and
\* its payments together.
THEOREM FlagAndPaymentsAgree == Spec => []FlagMatchesPayments
BY LedgerInvariant, PTL DEF LedgerInv

\* Of all the "ritirato" and "no-show" clicks on a takeaway one succeeds.
THEOREM HandedOverOnce == Spec => []OneHandover
BY LedgerInvariant, PTL DEF LedgerInv

\* No statement takes an order out of its two closed states: only PaymentCommit
\* writes a status that is not a closed one, and then the one it finds.
LEMMA ClosedStep ==
  ASSUME LedgerInv, [Next]_vars, NEW o \in Orders,
         orders[o].status \in {"completed", "cancelled"}
  PROVE  orders'[o].status \in {"completed", "cancelled"}
<1>1. orders \in [Orders -> OrderRow]
  BY DEF LedgerInv, TypeOK
<1>2. ASSUME NEW p \in Orders, CreateOrder(p) \/ CreatePublicOrder(p)
      PROVE  orders'[o].status \in {"completed", "cancelled"}
  <2>1. orders[p].status = "absent" /\ \E row : orders' = [orders EXCEPT ![p] = row]
    BY <1>2 DEF CreateOrder, CreatePublicOrder, InsertOrder
  <2>2. o # p
    BY <2>1
  <2> QED
    BY <1>1, <2>1, <2>2
<1>3. ASSUME NEW r \in Requests, Arrive(r) PROVE orders' = orders
  BY <1>3 DEF Arrive, AddItemsCheck, PaymentCheck, RitiratoCheck, NoShowCheck,
              CancelCheck, CancelItem, UpdateItemStatus, UpdateRow
<1>4. ASSUME NEW r \in Requests, Continue(r)
      PROVE  orders'[o].status \in {"completed", "cancelled"}
  <2>1. CASE CommitItemRows(r)
    <3>1. PICK t : orders' = [orders EXCEPT ![req[r].order].total = t]
      BY <2>1 DEF CommitItemRows
    <3> QED
      BY <1>1, <3>1 DEF OrderRow
  <2>2. CASE PaymentCommit(r)
    <3>1. orders' = [orders EXCEPT ![req[r].order].payment = req[r].payment,
                                   ![req[r].order].status = StatusAfterPayment(req[r])]
      BY <2>2 DEF PaymentCommit
    <3>2. StatusAfterPayment(req[r]) \in {"completed", orders[req[r].order].status}
      BY DEF StatusAfterPayment
    <3> QED
      BY <1>1, <3>1, <3>2 DEF OrderRow
  <2>3. CASE RitiratoClose(r)
    <3>1. PICK t : orders' = [orders EXCEPT ![req[r].order].status = "completed",
                                            ![req[r].order].payment = "paid",
                                            ![req[r].order].total = t]
      BY <2>3 DEF RitiratoClose
    <3> QED
      BY <1>1, <3>1 DEF OrderRow
  <2>4. CASE NoShowClose(r) \/ CancelCommit(r)
    <3>1. PICK t : orders' = [orders EXCEPT ![req[r].order].status = "cancelled",
                                            ![req[r].order].total = t]
      BY <2>4 DEF NoShowClose, CancelCommit
    <3> QED
      BY <1>1, <3>1 DEF OrderRow
  <2>5. CASE \/ AddItemsInsert(r) \/ AddItemsFail(r) \/ PaymentSum(r) \/ PaymentInsert(r)
             \/ PaymentRefused(r) \/ RitiratoServe(r) \/ RitiratoRefused(r)
             \/ NoShowStop(r) \/ NoShowRefused(r) \/ CancelItems(r)
    BY <2>5 DEF AddItemsInsert, AddItemsFail, PaymentSum, PaymentInsert, PaymentRefused,
         RitiratoServe, RitiratoRefused, NoShowStop, NoShowRefused, CancelItems, UpdateRows
  <2> QED
    BY <1>4, <2>1, <2>2, <2>3, <2>4, <2>5 DEF Continue
<1>5. CASE UNCHANGED vars
  BY <1>5 DEF vars
<1> QED
  BY <1>2, <1>3, <1>4, <1>5 DEF Next

\* A closed order stays closed, whatever stale reads the requests under way act on.
THEOREM ClosedIsFinal == Spec => ClosedForGood
<1>1. LedgerInv /\ [Next]_vars
        => [\A o \in Orders : orders[o].status \in {"completed", "cancelled"}
              => orders'[o].status \in {"completed", "cancelled"}]_vars
  BY ClosedStep
<1> QED
  BY <1>1, LedgerInvariant, PTL DEF Spec, ClosedForGood
-----------------------------------------------------------------------------
(* Where nothing is added to an order and the kitchen display sends nothing     *)
(* back.                                                                        *)

Shrinking == "addItems" \notin Handlers /\ SentBack = {}

\* The statements after which a request holds locks.
Writing == {"commitItems", "closeRitirato", "closeNoShow", "commitCancel"}

\* What a statement may write in a row: "ritirato" serves, the kitchen display writes
\* any status, the others cancel.
WrittenBy(pc) ==
  IF pc = "closeRitirato" THEN {"served"}
  ELSE IF pc = "commitItems" THEN {"cancelled"} \cup Live
  ELSE {"cancelled"}

LiveOf(o) == {i \in Items : items[i].order = o /\ items[i].status \in Live}

\* A request has locked live rows of its order, and all those its handler stops; the
\* sums it has read are not smaller than what is left of the order.
Fits(q) ==
  /\ q.pc # "addItems"
  /\ \A i \in Items : q.pend[i] # Kept =>
       /\ i \in LiveOf(q.order) /\ q.pc \in Writing
       /\ q.pend[i] \in WrittenBy(q.pc)
       /\ q.pend[i] = "pending" => items[i].status = "pending"
  /\ q.pc = "commitCancel" => \A i \in LiveOf(q.order) : q.pend[i] # Kept
  /\ q.pc = "closeNoShow" =>
       \A i \in LiveOf(q.order) : items[i].status = "pending" => q.pend[i] # Kept
  /\ q.pc \in {"serveItems", "closeRitirato"} => orders[q.order].type = "takeaway"
  /\ q.pc \in {"sumPaid", "insertPayment", "commitPayment"}
       => q.total >= Cardinality(LiveOf(q.order))
  /\ q.pc = "commitPayment" /\ q.payment = "paid" => paid[q.order] + q.amount >= q.total
  /\ q.pc \in Writing => q.snap >= Cardinality(Seen(q))

LocksExclusive ==
  \A r, s \in Requests : \A i \in Items :
    req[r].pend[i] # Kept /\ req[s].pend[i] # Kept => r = s

TotalCovers ==
  \A o \in Orders : orders[o].status # "absent" => orders[o].total >= Cardinality(LiveOf(o))

PaidCovers ==
  \A o \in Orders : orders[o].status = "completed" /\ ~Prepaid(o)
    => paid[o] >= Cardinality(LiveOf(o))

NothingLeft ==
  \A o \in Orders : orders[o].status = "cancelled"
    => \A i \in LiveOf(o) : items[i].status # "pending" /\ handed[o] > 0

ShrinkInv ==
  /\ LedgerInv
  /\ \A r \in Requests : Fits(req[r])
  /\ LocksExclusive /\ TotalCovers /\ PaidCovers /\ NothingLeft

\* Fewer rows are worth no more.
LEMMA FewerRows ==
  ASSUME NEW S \in SUBSET Items, NEW T \in SUBSET S
  PROVE  Cardinality(T) \in Nat /\ Cardinality(S) \in Nat /\ Cardinality(T) <= Cardinality(S)
<1>1. IsFiniteSet(S)
  BY LedgerAssumption, FS_Subset
<1>2. IsFiniteSet(T)
  BY <1>1, FS_Subset
<1> QED
  BY <1>1, <1>2, FS_Subset, FS_CardinalityType

\* What a request knows stays true while others take rows away that it did not lock.
LEMMA StaysFit ==
  ASSUME NEW q \in Request, Fits(q),
         q.pc # "idle" =>
           /\ \A i \in Items : q.pend[i] # Kept => items'[i] = items[i]
           /\ \A i \in Items : items'[i].order = q.order /\ items'[i].status \in Live =>
                /\ items[i].order = q.order /\ items[i].status \in Live
                /\ items'[i].status = "pending" => items[i].status = "pending"
           /\ orders'[q.order].type = orders[q.order].type
           /\ paid[q.order] \in Nat /\ paid'[q.order] \in Nat /\ paid'[q.order] >= paid[q.order]
  PROVE  Fits(q)'
<1>1. CASE q.pc = "idle"
  BY <1>1 DEF Fits, Writing
<1>2. CASE q.pc # "idle"
  <2>1. LiveOf(q.order)' \subseteq LiveOf(q.order) /\ Seen(q)' \subseteq Seen(q)
    BY <1>2 DEF LiveOf, Seen
  <2>2. /\ LiveOf(q.order) \subseteq Items /\ Seen(q) \subseteq Items
        /\ q.total \in Nat /\ q.amount \in Nat /\ q.snap \in Nat
    BY DEF LiveOf, Seen, Request
  <2>3. /\ Cardinality(LiveOf(q.order)') <= Cardinality(LiveOf(q.order))
        /\ Cardinality(LiveOf(q.order)') \in Nat /\ Cardinality(LiveOf(q.order)) \in Nat
    BY <2>1, <2>2, FewerRows
  <2>4. /\ Cardinality(Seen(q)') <= Cardinality(Seen(q))
        /\ Cardinality(Seen(q)') \in Nat /\ Cardinality(Seen(q)) \in Nat
    BY <2>1, <2>2, FewerRows
  <2>5. /\ q.pc # "addItems"
        /\ \A i \in Items : q.pend[i] # Kept =>
             /\ i \in LiveOf(q.order)' /\ q.pc \in Writing
             /\ q.pend[i] \in WrittenBy(q.pc)
             /\ q.pend[i] = "pending" => items'[i].status = "pending"
    BY <1>2 DEF Fits, LiveOf
  <2>6. /\ q.pc = "commitCancel" => \A i \in LiveOf(q.order)' : q.pend[i] # Kept
        /\ q.pc = "closeNoShow" =>
             \A i \in LiveOf(q.order)' : items'[i].status = "pending" => q.pend[i] # Kept
    BY <1>2, <2>1 DEF Fits, LiveOf
  <2>7. /\ q.pc \in {"serveItems", "closeRitirato"} => orders'[q.order].type = "takeaway"
        /\ q.pc \in {"sumPaid", "insertPayment", "commitPayment"}
             => q.total >= Cardinality(LiveOf(q.order)')
    BY <1>2, <2>2, <2>3 DEF Fits
  <2>8. /\ q.pc = "commitPayment" /\ q.payment = "paid" => paid'[q.order] + q.amount >= q.total
        /\ q.pc \in Writing => q.snap >= Cardinality(Seen(q)')
    BY <1>2, <2>2, <2>4 DEF Fits
  <2> QED
    BY <2>5, <2>6, <2>7, <2>8 DEF Fits
<1> QED
  BY <1>1, <1>2

\* A step that only moves one request on.
LEMMA FitStep ==
  ASSUME ShrinkInv, LedgerInv', NEW r \in Requests, NEW q, Fits(q),
         req' = [req EXCEPT ![r] = q], UNCHANGED <<orders, items, paid, handed>>,
         \A s \in Requests \ {r} : \A i \in Items : q.pend[i] # Kept => req[s].pend[i] = Kept
  PROVE  ShrinkInv'
<1>1. req'[r] = q /\ \A s \in Requests \ {r} : req'[s] = req[s]
  BY DEF ShrinkInv, LedgerInv, TypeOK
<1>2. ASSUME NEW s \in Requests PROVE Fits(req[s])'
  <2>1. Fits(req'[s])
    BY <1>1 DEF ShrinkInv
  <2> QED
    BY <2>1 DEF Fits, LiveOf, Seen
<1>3. LocksExclusive'
  BY <1>1 DEF ShrinkInv, LocksExclusive
<1>4. TotalCovers' /\ PaidCovers' /\ NothingLeft'
  BY DEF ShrinkInv, TotalCovers, PaidCovers, NothingLeft, LiveOf, Prepaid
<1> QED
  BY <1>2, <1>3, <1>4 DEF ShrinkInv

\* A request that holds no lock and has read nothing that rows or payments change.
LEMMA NoLocksFit ==
  ASSUME NEW q, q.pend = [i \in Items |-> Kept],
         q.pc \in {"idle", "stopItems", "cancelItems"}
           \/ (q.pc = "serveItems" /\ orders[q.order].type = "takeaway")
  PROVE  Fits(q)
BY DEF Fits, Writing

\* Opening an order changes no row and no order that a request knows.
LEMMA OpeningFits ==
  ASSUME ShrinkInv, LedgerInv', NEW o \in Orders, CreateOrder(o) \/ CreatePublicOrder(o)
  PROVE  ShrinkInv'
<1>1. PICK S \in SUBSET FreshRows, D \in SUBSET Items, type \in {"table", "takeaway"},
           source \in {"staff", "qr"} : InsertOrder(o, S, D, type, source)
  BY DEF CreateOrder, CreatePublicOrder, FreshRows
<1>2. /\ S \subseteq Items
      /\ \A i \in S : items[i].status = "absent" /\ \A s \in Requests : req[s].pend[i] = Kept
  BY DEF FreshRows
<1>3. /\ orders[o].status = "absent" /\ UNCHANGED <<paid, handed, req>>
      /\ orders'[o].status = "open" /\ orders'[o].total = Cardinality(S)
      /\ \A p \in Orders \ {o} : orders'[p] = orders[p]
      /\ \A i \in S : items'[i].order = o
      /\ \A i \in Items \ S : items'[i] = items[i]
  BY <1>1, <1>2 DEF InsertOrder, ShrinkInv, LedgerInv, TypeOK
<1>4. \A i \in Items : items[i].status \in Live => items[i].order # o
  BY <1>3 DEF ShrinkInv, LedgerInv, RowsKnown, Live
<1>5. ASSUME NEW s \in Requests PROVE Fits(req[s])'
  <2>1. PICK q \in Request : q = req[s]
    BY DEF ShrinkInv, LedgerInv, TypeOK
  <2>2. Fits(q) /\ Sound(q) /\ req'[s] = q /\ \A i \in S : q.pend[i] = Kept
    BY <1>2, <1>3, <2>1 DEF ShrinkInv, LedgerInv
  <2>3. q.pc # "idle" => q.order \in Orders /\ q.order # o
    BY <1>3, <2>2 DEF Sound
  <2>4. \A p \in Orders : paid[p] \in Nat
    BY DEF ShrinkInv, LedgerInv, TypeOK
  <2>5. Fits(q)'
    BY <1>2, <1>3, <2>2, <2>3, <2>4, StaysFit
  <2> QED
    BY <2>2, <2>5 DEF Fits, LiveOf, Seen
<1>6. LiveOf(o)' \subseteq S /\ \A p \in Orders \ {o} : LiveOf(p)' = LiveOf(p)
  BY <1>2, <1>3, <1>4 DEF LiveOf, Live
<1>7. Cardinality(LiveOf(o)') \in Nat /\ Cardinality(S) \in Nat
      /\ Cardinality(LiveOf(o)') <= Cardinality(S)
  BY <1>2, <1>6, FewerRows
<1>8. TotalCovers'
  BY <1>3, <1>6, <1>7 DEF ShrinkInv, TotalCovers
<1>9. LocksExclusive' /\ PaidCovers'
  BY <1>3, <1>6 DEF ShrinkInv, LocksExclusive, PaidCovers, Prepaid
<1>10. NothingLeft'
  <2>1. ASSUME NEW p \in Orders, orders'[p].status = "cancelled", NEW i \in LiveOf(p)'
        PROVE  items'[i].status # "pending" /\ handed'[p] > 0
    <3>1. p # o /\ orders[p].status = "cancelled" /\ i \in LiveOf(p)
      BY <1>3, <1>6, <2>1
    <3>2. i \notin S
      BY <1>2, <3>1 DEF LiveOf, Live
    <3> QED
      BY <1>3, <3>1, <3>2 DEF ShrinkInv, NothingLeft, LiveOf
  <2> QED
    BY <2>1 DEF NothingLeft
<1> QED
  BY <1>5, <1>8, <1>9, <1>10 DEF ShrinkInv

\* The first SELECT of a handler.
LEMMA ChecksFit ==
  ASSUME Shrinking, ShrinkInv, LedgerInv', NEW r \in Requests, NEW o \in Orders,
         \/ AddItemsCheck(r, o) \/ PaymentCheck(r, o) \/ RitiratoCheck(r, o)
         \/ NoShowCheck(r, o) \/ CancelCheck(r, o)
  PROVE  ShrinkInv'
<1>1. Open(o) /\ UNCHANGED <<orders, items, paid, handed>>
  BY DEF AddItemsCheck, PaymentCheck, RitiratoCheck, NoShowCheck, CancelCheck
<1>2. ASSUME NEW q, Fits(q), q.pend = [i \in Items |-> Kept], req' = [req EXCEPT ![r] = q]
      PROVE  ShrinkInv'
  BY <1>1, <1>2, FitStep
<1>3. ~AddItemsCheck(r, o)
  BY DEF Shrinking, AddItemsCheck, Idling
<1>4. CASE PaymentCheck(r, o)
  <2>1. PICK amount \in 1..MaxTender, method \in Methods :
          req' = [req EXCEPT ![r] =
                    [Idle EXCEPT !.pc = "sumPaid", !.order = o, !.amount = amount,
                                 !.method = method, !.total = orders[o].total]]
    BY <1>4 DEF PaymentCheck
  <2> DEFINE q == [Idle EXCEPT !.pc = "sumPaid", !.order = o, !.amount = amount,
                               !.method = method, !.total = orders[o].total]
  <2>2. orders[o].total >= Cardinality(LiveOf(o))
    BY <1>1 DEF Open, ShrinkInv, TotalCovers
  <2>3. Fits(q) /\ q.pend = [i \in Items |-> Kept]
    BY <2>2 DEF Fits, Idle, Writing
  <2> QED
    BY <1>2, <2>1, <2>3
<1>5. CASE RitiratoCheck(r, o)
  <2> DEFINE q == [Idle EXCEPT !.pc = "serveItems", !.order = o,
                     !.total = orders[o].total, !.payment = orders[o].payment]
  <2>1. req' = [req EXCEPT ![r] = q] /\ orders[o].type = "takeaway"
    BY <1>5 DEF RitiratoCheck
  <2>2. q.pend = [i \in Items |-> Kept] /\ q.pc = "serveItems" /\ q.order = o
    BY DEF Idle
  <2> HIDE DEF q
  <2> QED
    BY <1>2, <2>1, <2>2, NoLocksFit
<1>6. CASE NoShowCheck(r, o)
  <2> DEFINE q == [Idle EXCEPT !.pc = "stopItems", !.order = o]
  <2>1. req' = [req EXCEPT ![r] = q]
    BY <1>6 DEF NoShowCheck
  <2>2. q.pend = [i \in Items |-> Kept] /\ q.pc = "stopItems"
    BY DEF Idle
  <2> HIDE DEF q
  <2> QED
    BY <1>2, <2>1, <2>2, NoLocksFit
<1>7. CASE CancelCheck(r, o)
  <2> DEFINE q == [Idle EXCEPT !.pc = "cancelItems", !.order = o]
  <2>1. req' = [req EXCEPT ![r] = q]
    BY <1>7 DEF CancelCheck
  <2>2. q.pend = [i \in Items |-> Kept] /\ q.pc = "cancelItems"
    BY DEF Idle
  <2> HIDE DEF q
  <2> QED
    BY <1>2, <2>1, <2>2, NoLocksFit
<1> QED
  BY <1>3, <1>4, <1>5, <1>6, <1>7

\* A statement that locks rows of its order that nobody else has locked.
LEMMA LockingFits ==
  ASSUME ShrinkInv, LedgerInv', NEW r \in Requests, NEW q \in Request,
         q.pend = [i \in Items |-> Kept], q.order \in Orders,
         NEW S \in SUBSET LiveOf(q.order), Unlocked(r, S),
         NEW pc \in Writing, NEW st \in WrittenBy(pc),
         st = "pending" => \A i \in S : items[i].status = "pending",
         pc = "commitCancel" => S = LiveOf(q.order),
         pc = "closeNoShow" => \A i \in LiveOf(q.order) : items[i].status = "pending" => i \in S,
         pc = "closeRitirato" => orders[q.order].type = "takeaway",
         req' = [req EXCEPT ![r] = Snapshot([WithRows(q, S, st) EXCEPT !.pc = pc])],
         UNCHANGED <<orders, items, paid, handed>>
  PROVE  ShrinkInv'
<1> DEFINE w == [WithRows(q, S, st) EXCEPT !.pc = pc]
<1>1. /\ w.pc = pc /\ w.order = q.order
      /\ w.pend = [i \in Items |-> IF i \in S THEN st ELSE Kept]
      /\ w = [w EXCEPT !.snap = w.snap]
  BY DEF WithRows, Request
<1>2. /\ Snapshot(w).pc = pc /\ Snapshot(w).order = q.order /\ Snapshot(w).pend = w.pend
      /\ Snapshot(w).snap = Cardinality(Seen(w))
  BY <1>1 DEF Snapshot, WithRows, Request
<1>3. Seen(Snapshot(w)) = Seen(w)
  BY <1>1, <1>2 DEF Seen
<1>4. Cardinality(Seen(w)) \in Nat
  BY SeenIsNat
<1>5. \A i \in Items : w.pend[i] # Kept <=> i \in S
  BY <1>1 DEF Kept, WrittenBy, Live
<1>6. Fits(Snapshot(w))
  <2> HIDE DEF w
  <2>1. LiveOf(q.order) \subseteq Items
    BY DEF LiveOf
  <2>2. pc # "addItems" /\ pc \notin {"serveItems", "sumPaid", "insertPayment", "commitPayment"}
    BY DEF Writing
  <2>3. \A i \in Items : w.pend[i] # Kept => i \in LiveOf(q.order) /\ w.pend[i] = st
    BY <1>1, <1>5
  <2>4. Snapshot(w).snap >= Cardinality(Seen(Snapshot(w)))
    BY <1>2, <1>3, <1>4
  <2> QED
    BY <1>2, <1>5, <2>1, <2>2, <2>3, <2>4 DEF Fits
<1>7. \A s \in Requests \ {r} : \A i \in Items : w.pend[i] # Kept => req[s].pend[i] = Kept
  BY <1>5 DEF Unlocked, Touched
<1> DEFINE p == Snapshot(w)
<1>8. /\ Fits(p) /\ req' = [req EXCEPT ![r] = p]
      /\ \A s \in Requests \ {r} : \A i \in Items : p.pend[i] # Kept => req[s].pend[i] = Kept
  BY <1>2, <1>6, <1>7
<1> HIDE DEF p
<1> QED
  BY <1>8, FitStep

\* cancelItem, and the UPDATEs over the rows of an order.
LEMMA ItemStatementsFit ==
  ASSUME Shrinking, ShrinkInv, LedgerInv', NEW r \in Requests,
         \/ \E i \in Items : CancelItem(r, i)
         \/ \E i \in Items, st \in Displays : UpdateItemStatus(r, i, st)
         \/ AddItemsInsert(r) \/ RitiratoServe(r) \/ NoShowStop(r) \/ CancelItems(r)
  PROVE  ShrinkInv'
<1>1. /\ req[r] \in Request /\ Fits(req[r])
      /\ req[r].pc # "idle" => req[r].order \in Orders /\ orders[req[r].order].status # "absent"
  BY DEF ShrinkInv, LedgerInv, Sound
<1>2. ~AddItemsInsert(r)
  BY <1>1 DEF AddItemsInsert, Fits
<1>3. ASSUME NEW i \in Items, NEW st \in WrittenBy("commitItems"), items[i].status \in Live,
             st = "pending" => items[i].status = "pending", UpdateRow(r, i, st)
      PROVE  ShrinkInv'
  <2>1. Unlocked(r, {i}) /\ UNCHANGED <<orders, items, paid, handed>>
    BY <1>3 DEF UpdateRow
  <2>2. items[i].order \in Orders
    BY <1>3 DEF ShrinkInv, LedgerInv, RowsKnown, Live
  <2>3. PICK q \in Request : q = [Idle EXCEPT !.pc = "commitItems", !.order = items[i].order]
    BY <2>2 DEF Idle, Request
  <2>4. /\ q.pend = [j \in Items |-> Kept] /\ q.order = items[i].order /\ q.pc = "commitItems"
        /\ req' = [req EXCEPT ![r] = Snapshot(WithRows(q, {i}, st))]
    BY <1>3, <2>3 DEF UpdateRow, Idle
  <2>5. [WithRows(q, {i}, st) EXCEPT !.pc = "commitItems"] = WithRows(q, {i}, st)
    BY <2>4 DEF WithRows, Request
  <2>6. PICK S \in SUBSET LiveOf(q.order), pc \in Writing :
          /\ pc = "commitItems" /\ Unlocked(r, S) /\ S = {i}
          /\ req' = [req EXCEPT ![r] = Snapshot([WithRows(q, S, st) EXCEPT !.pc = pc])]
    BY <1>3, <2>1, <2>4, <2>5 DEF LiveOf, Writing
  <2>7. pc \notin {"commitCancel", "closeNoShow", "closeRitirato"} /\ st \in WrittenBy(pc)
        /\ (st = "pending" => \A j \in S : items[j].status = "pending")
    BY <1>3, <2>6
  <2>8. /\ pc = "commitCancel" => S = LiveOf(q.order)
        /\ pc = "closeNoShow" => \A j \in LiveOf(q.order) : items[j].status = "pending" => j \in S
        /\ pc = "closeRitirato" => orders[q.order].type = "takeaway"
    BY <2>7
  <2>9. q.pend = [j \in Items |-> Kept] /\ q.order \in Orders
    BY <2>2, <2>4
  <2>10. UNCHANGED <<orders, items, paid, handed>> /\ Unlocked(r, S)
        /\ req' = [req EXCEPT ![r] = Snapshot([WithRows(q, S, st) EXCEPT !.pc = pc])]
    BY <2>1, <2>6
  <2>11. S \in SUBSET LiveOf(q.order) /\ pc \in Writing
    BY <2>6
  <2> QED
    BY <2>7, <2>8, <2>9, <2>10, <2>11, LockingFits
<1>4. ASSUME NEW pc, NEW from \in SUBSET Live, NEW st,
             NEW next \in {"closeRitirato", "closeNoShow", "commitCancel"},
             UpdateRows(r, pc, from, st, next),
             pc \in {"serveItems", "stopItems", "cancelItems"},
             st \in WrittenBy(next), st # "pending",
             next = "closeRitirato" => pc = "serveItems",
             next = "commitCancel" => from = Live,
             next = "closeNoShow" => "pending" \in from
      PROVE  ShrinkInv'
  <2> DEFINE S == {i \in RowsOf(req[r].order) : items[i].status \in from}
  <2>1. /\ req[r].pc = pc /\ Unlocked(r, S)
        /\ req' = [req EXCEPT ![r] = Snapshot([WithRows(req[r], S, st) EXCEPT !.pc = next])]
        /\ UNCHANGED <<orders, items, paid, handed>>
    BY <1>4 DEF UpdateRows
  <2>2. req[r].order \in Orders
    BY <1>1, <1>4, <2>1
  <2>3. req[r].pend = [i \in Items |-> Kept]
    <3>1. \A i \in Items : req[r].pend[i] = Kept
      BY <1>1, <1>4, <2>1 DEF Fits, Writing
    <3> QED
      BY <1>1, <3>1 DEF Request
  <2>4. /\ S \in SUBSET LiveOf(req[r].order)
        /\ next = "commitCancel" => S = LiveOf(req[r].order)
        /\ next = "closeNoShow"
             => \A i \in LiveOf(req[r].order) : items[i].status = "pending" => i \in S
    BY <1>4 DEF LiveOf, RowsOf
  <2>5. next = "closeRitirato" => orders[req[r].order].type = "takeaway"
    BY <1>1, <1>4, <2>1 DEF Fits
  <2>6. next \in Writing
    BY DEF Writing
  <2> HIDE DEF S
  <2> QED
    BY <1>1, <1>4, <2>1, <2>2, <2>3, <2>4, <2>5, <2>6, LockingFits
<1>5. CASE RitiratoServe(r)
  BY <1>4, <1>5 DEF RitiratoServe, Live, WrittenBy
<1>6. CASE NoShowStop(r)
  BY <1>4, <1>6 DEF NoShowStop, Live, WrittenBy
<1>7. CASE CancelItems(r)
  BY <1>4, <1>7 DEF CancelItems, WrittenBy
<1>8. ASSUME NEW i \in Items, CancelItem(r, i) PROVE ShrinkInv'
  BY <1>3, <1>8 DEF CancelItem, WrittenBy
<1>9. ASSUME NEW i \in Items, NEW st \in Displays, UpdateItemStatus(r, i, st)
      PROVE  ShrinkInv'
  <2>1. /\ UpdateRow(r, i, st) /\ items[i].status # "cancelled" /\ items[i].status # "absent"
        /\ st = "pending" => items[i].status = "pending"
    BY <1>9 DEF UpdateItemStatus, UpdateRow, Shrinking, Back
  <2>2. items[i].status \in Live
    BY <2>1 DEF ShrinkInv, LedgerInv, TypeOK, ItemRow
  <2>3. st \in WrittenBy("commitItems")
    BY LedgerAssumption DEF WrittenBy
  <2> QED
    BY <1>3, <2>1, <2>2, <2>3
<1> QED
  BY <1>2, <1>5, <1>6, <1>7, <1>8, <1>9

\* Giving up, and the two steps of a payment before it is committed.
LEMMA OthersFit ==
  ASSUME Shrinking, ShrinkInv, LedgerInv', NEW r \in Requests,
         \/ AddItemsFail(r) \/ PaymentRefused(r) \/ RitiratoRefused(r) \/ NoShowRefused(r)
         \/ PaymentSum(r) \/ PaymentInsert(r)
  PROVE  ShrinkInv'
<1>1. /\ req[r] \in Request /\ Fits(req[r])
      /\ req[r].pc # "idle" => req[r].order \in Orders
  BY DEF ShrinkInv, LedgerInv, Sound
<1>2. CASE AddItemsFail(r) \/ PaymentRefused(r) \/ RitiratoRefused(r) \/ NoShowRefused(r)
  <2>1. req' = [req EXCEPT ![r] = Idle] /\ UNCHANGED <<orders, items, paid, handed>>
    BY <1>2 DEF AddItemsFail, PaymentRefused, RitiratoRefused, NoShowRefused, Finish
  <2>2. Idle.pc = "idle" /\ Idle.pend = [i \in Items |-> Kept]
    BY DEF Idle
  <2>3. Fits(Idle)
    BY <2>2, NoLocksFit
  <2> QED
    BY <2>1, <2>2, <2>3, FitStep
<1>3. CASE PaymentSum(r)
  <2> DEFINE q == [req[r] EXCEPT !.pc = "insertPayment", !.paid = paid[req[r].order]]
  <2>1. /\ req[r].pc = "sumPaid" /\ req' = [req EXCEPT ![r] = q]
        /\ UNCHANGED <<orders, items, paid, handed>>
    BY <1>3 DEF PaymentSum
  <2>2. /\ q.pc = "insertPayment" /\ q.order = req[r].order /\ q.pend = req[r].pend
        /\ q.total = req[r].total
    BY <1>1 DEF Request
  <2> HIDE DEF q
  <2>3. \A i \in Items : q.pend[i] = Kept
    BY <1>1, <2>1, <2>2 DEF Fits, Writing
  <2>4. Fits(q)
    BY <1>1, <2>1, <2>2, <2>3 DEF Fits, Writing
  <2> QED
    BY <2>1, <2>3, <2>4, FitStep
<1>4. CASE PaymentInsert(r)
  <2> DEFINE a == EffectiveAmount(req[r])
             q == [req[r] EXCEPT !.pc = "commitPayment", !.amount = a,
                                 !.payment = PaymentStatus(req[r], a)]
  <2>1. /\ req[r].pc = "insertPayment" /\ req' = [req EXCEPT ![r] = q]
        /\ UNCHANGED <<orders, items, paid, handed>>
    BY <1>4 DEF PaymentInsert
  <2>2. /\ q.pc = "commitPayment" /\ q.order = req[r].order /\ q.pend = req[r].pend
        /\ q.total = req[r].total /\ q.amount = a /\ q.payment = PaymentStatus(req[r], a)
    BY <1>1 DEF Request
  <2> HIDE DEF q, a
  <2>3. \A i \in Items : q.pend[i] = Kept
    BY <1>1, <2>1, <2>2 DEF Fits, Writing
  <2>4. q.payment = "paid" => paid[q.order] + q.amount >= q.total
    BY <2>2 DEF PaymentStatus
  <2>5. Fits(q)
    BY <1>1, <2>1, <2>2, <2>3, <2>4 DEF Fits, Writing
  <2> QED
    BY <2>1, <2>3, <2>5, FitStep
<1> QED
  BY <1>2, <1>3, <1>4

\* A commit of request r that leaves its order with this row.
CommitRow(r, row) ==
  LET q == req[r] IN
  /\ q.pc # "idle" /\ Finish(r)
  /\ \A i \in Items :
       items'[i] = IF q.pend[i] = Kept THEN items[i] ELSE [order |-> q.order, status |-> q.pend[i]]
  /\ orders' = [orders EXCEPT ![q.order] = row]
  /\ row.type = orders[q.order].type /\ row.source = orders[q.order].source
  /\ row.total >= Cardinality(Seen(q))
  /\ \A o \in Orders : paid'[o] >= paid[o] /\ handed'[o] >= handed[o]
  /\ row.status = "completed" /\ ~Prepaid(q.order) => paid'[q.order] >= Cardinality(Seen(q))
  /\ row.status = "cancelled" =>
       \A i \in Seen(q) : items[i].status # "pending" /\ handed'[q.order] > 0

\* The live rows of an order after the commit are those its transaction saw.
LEMMA CommitLeaves ==
  ASSUME ShrinkInv, NEW r \in Requests, NEW row, CommitRow(r, row)
  PROVE  /\ \A o \in Orders : o = req[r].order => /\ LiveOf(o)' = Seen(req[r])
                                                  /\ Seen(req[r]) \subseteq LiveOf(o)
         /\ \A o \in Orders : LiveOf(o)' \subseteq LiveOf(o)
         /\ \A i \in Items : /\ req[r].pend[i] = Kept => items'[i] = items[i]
                             /\ req[r].pend[i] # Kept => /\ items[i].order = req[r].order
                                                         /\ items'[i].order = req[r].order
                                                         /\ items[i].status \in Live
         /\ \A i \in Items : items'[i].status = "pending" => items[i].status = "pending"
<1>1. Fits(req[r])
  BY DEF ShrinkInv
<1>2. \A i \in Items :
        items'[i] = IF req[r].pend[i] = Kept THEN items[i]
                    ELSE [order |-> req[r].order, status |-> req[r].pend[i]]
  BY DEF CommitRow
<1>3. \A i \in Items : req[r].pend[i] # Kept => /\ items[i].order = req[r].order
                                                /\ items[i].status \in Live
                                                /\ req[r].pend[i] = "pending"
                                                     => items[i].status = "pending"
  BY <1>1 DEF Fits, LiveOf
<1>4. \A i \in Items :
        /\ req[r].pend[i] = Kept => items'[i] = items[i]
        /\ req[r].pend[i] # Kept => /\ items[i].order = req[r].order
                                    /\ items'[i].order = req[r].order
                                    /\ items[i].status \in Live
                                    /\ items'[i].status = req[r].pend[i]
        /\ items'[i].status = "pending" => items[i].status = "pending"
  <2>1. ASSUME NEW i \in Items, req[r].pend[i] = Kept PROVE items'[i] = items[i]
    BY <1>2, <2>1
  <2>2. ASSUME NEW i \in Items, req[r].pend[i] # Kept
        PROVE  items'[i].order = req[r].order /\ items'[i].status = req[r].pend[i]
    <3>1. items'[i] = [order |-> req[r].order, status |-> req[r].pend[i]]
      BY <1>2, <2>2
    <3> QED
      BY <3>1
  <2> QED
    BY <1>3, <2>1, <2>2
<1>5. \A o \in Orders : LiveOf(o)' \subseteq LiveOf(o)
  BY <1>4 DEF LiveOf
<1>6. ASSUME NEW o \in Orders, o = req[r].order
      PROVE  LiveOf(o)' = Seen(req[r]) /\ Seen(req[r]) \subseteq LiveOf(o)
  <2>1. \A i \in Items : i \in LiveOf(o)' <=> i \in Seen(req[r])
    BY <1>4, <1>6 DEF LiveOf, Seen
  <2>2. LiveOf(o)' \subseteq Items /\ Seen(req[r]) \subseteq Items
    BY DEF LiveOf, Seen
  <2>3. LiveOf(o)' = Seen(req[r])
    BY <2>1, <2>2
  <2> QED
    BY <1>5, <2>3
<1> QED
  BY <1>4, <1>5, <1>6

LEMMA CommitFits ==
  ASSUME ShrinkInv, LedgerInv', NEW r \in Requests, NEW row, CommitRow(r, row)
  PROVE  ShrinkInv'
<1>0. PICK o \in Orders : o = req[r].order
  BY DEF CommitRow, ShrinkInv, LedgerInv, Sound
<1>1. /\ req'[r] = Idle /\ \A s \in Requests \ {r} : req'[s] = req[s]
      /\ orders'[o] = row /\ \A p \in Orders \ {o} : orders'[p] = orders[p]
      /\ orders \in [Orders -> OrderRow] /\ paid \in [Orders -> Nat] /\ handed \in [Orders -> Nat]
      /\ paid' \in [Orders -> Nat] /\ handed' \in [Orders -> Nat]
      /\ \A p \in Orders : paid'[p] >= paid[p] /\ handed'[p] >= handed[p]
  BY <1>0 DEF CommitRow, ShrinkInv, LedgerInv, TypeOK, Finish
<1>2. \A p \in Orders : orders'[p].type = orders[p].type /\ orders'[p].source = orders[p].source
  BY <1>0, <1>1 DEF CommitRow
<1>3. ASSUME NEW s \in Requests PROVE Fits(req[s])'
  <2>1. CASE s = r
    <3>1. Fits(Idle)'
      BY DEF Idle, Fits, Writing
    <3> QED
      BY <1>1, <2>1, <3>1 DEF Fits, LiveOf, Seen
  <2>2. CASE s # r
    <3>1. PICK q \in Request : q = req[s]
      BY DEF ShrinkInv, LedgerInv, TypeOK
    <3>2. Fits(q) /\ (q.pc # "idle" => q.order \in Orders) /\ req'[s] = q
      BY <1>1, <2>2, <3>1 DEF ShrinkInv, LedgerInv, Sound
    <3>3. \A i \in Items : q.pend[i] # Kept => items'[i] = items[i]
      BY <2>2, <3>1, CommitLeaves DEF ShrinkInv, LocksExclusive
    <3>4. \A i \in Items : items'[i].order = q.order /\ items'[i].status \in Live =>
            /\ items[i].order = q.order /\ items[i].status \in Live
            /\ items'[i].status = "pending" => items[i].status = "pending"
      BY CommitLeaves
    <3>5. Fits(q)'
      BY <1>1, <1>2, <3>2, <3>3, <3>4, StaysFit
    <3> QED
      BY <3>2, <3>5 DEF Fits, LiveOf, Seen
  <2> QED
    BY <2>1, <2>2
<1>4. LocksExclusive'
  <2>1. \A i \in Items : req'[r].pend[i] = Kept
    BY <1>1 DEF Idle
  <2> QED
    BY <1>1, <2>1 DEF ShrinkInv, LocksExclusive
<1>5. \A p \in Orders : /\ Cardinality(LiveOf(p)') <= Cardinality(LiveOf(p))
                        /\ Cardinality(LiveOf(p)') \in Nat /\ Cardinality(LiveOf(p)) \in Nat
  <2>1. \A p \in Orders : LiveOf(p) \subseteq Items
    BY DEF LiveOf
  <2> QED
    BY <2>1, CommitLeaves, FewerRows
<1>6. TotalCovers'
  <2>1. orders'[o].total >= Cardinality(LiveOf(o)')
    BY <1>0, <1>1, CommitLeaves DEF CommitRow, Prepaid
  <2>2. ASSUME NEW p \in Orders \ {o}, orders'[p].status # "absent"
        PROVE  orders'[p].total >= Cardinality(LiveOf(p)')
    <3>1. orders[p].total >= Cardinality(LiveOf(p)) /\ orders'[p] = orders[p]
      BY <1>1, <2>2 DEF ShrinkInv, TotalCovers
    <3>2. orders[p].total \in Nat
      BY <1>1 DEF OrderRow
    <3> QED
      BY <1>5, <3>1, <3>2
  <2> QED
    BY <2>1, <2>2 DEF TotalCovers
<1>7. PaidCovers'
  <2>1. orders'[o].status = "completed" /\ ~Prepaid(o) => paid'[o] >= Cardinality(LiveOf(o)')
    BY <1>0, <1>1, CommitLeaves DEF CommitRow, Prepaid
  <2>2. ASSUME NEW p \in Orders \ {o}, orders'[p].status = "completed", ~Prepaid(p)
        PROVE  paid'[p] >= Cardinality(LiveOf(p)')
    <3>1. paid[p] >= Cardinality(LiveOf(p)) /\ paid[p] \in Nat /\ paid'[p] \in Nat
      BY <1>1, <2>2 DEF ShrinkInv, PaidCovers
    <3> QED
      BY <1>1, <1>5, <3>1
  <2>3. \A p \in Orders : Prepaid(p)' <=> Prepaid(p)
    BY <1>2 DEF Prepaid
  <2> QED
    BY <2>1, <2>2, <2>3 DEF PaidCovers
<1>8. NothingLeft'
  <2>1. ASSUME row.status = "cancelled", NEW i \in LiveOf(o)'
        PROVE  items'[i].status # "pending" /\ handed'[o] > 0
    <3>1. i \in Seen(req[r]) /\ i \in Items
      BY <1>0, CommitLeaves DEF Seen
    <3>3. handed'[o] > 0 /\ items[i].status # "pending"
      BY <1>0, <2>1, <3>1 DEF CommitRow
    <3>4. items'[i].status = "pending" => items[i].status = "pending"
      BY <3>1, CommitLeaves
    <3> QED
      BY <3>3, <3>4
  <2>2. ASSUME NEW p \in Orders \ {o}, orders'[p].status = "cancelled", NEW i \in LiveOf(p)'
        PROVE  items'[i].status # "pending" /\ handed'[p] > 0
    <3>1. i \in LiveOf(p) /\ i \in Items /\ items'[i].order = p
      BY CommitLeaves DEF LiveOf
    <3>2. items'[i] = items[i]
      BY <1>0, <3>1, CommitLeaves
    <3>3. items[i].status # "pending" /\ handed[p] > 0
      BY <1>1, <2>2, <3>1 DEF ShrinkInv, NothingLeft
    <3> QED
      BY <1>1, <3>2, <3>3
  <2> QED
    BY <1>1, <2>1, <2>2 DEF NothingLeft
<1> QED
  BY <1>3, <1>4, <1>6, <1>7, <1>8 DEF ShrinkInv

\* What the trigger leaves as total is not less than what its transaction sees.
LEMMA TriggerCovers ==
  ASSUME ShrinkInv, NEW r \in Requests, req[r].pc \in Writing, NEW t \in TriggerTotals(req[r])
  PROVE  t >= Cardinality(Seen(req[r]))
<1>1. /\ Fits(req[r]) /\ req[r].order \in Orders /\ orders[req[r].order].status # "absent"
      /\ req[r].snap >= Cardinality(Seen(req[r]))
  BY DEF ShrinkInv, LedgerInv, Sound, Fits, Writing
<1>2. Seen(req[r]) \subseteq LiveOf(req[r].order) /\ LiveOf(req[r].order) \subseteq Items
  BY <1>1 DEF Fits, Seen, LiveOf
<1>3. /\ Cardinality(Seen(req[r])) <= Cardinality(LiveOf(req[r].order))
      /\ Cardinality(Seen(req[r])) \in Nat /\ Cardinality(LiveOf(req[r].order)) \in Nat
  BY <1>2, FewerRows
<1>4. orders[req[r].order].total >= Cardinality(LiveOf(req[r].order))
      /\ orders[req[r].order].total \in Nat
  BY <1>1 DEF ShrinkInv, TotalCovers, LedgerInv, TypeOK, OrderRow
<1> QED
  BY <1>1, <1>3, <1>4 DEF TriggerTotals

LEMMA CommitsFit ==
  ASSUME ShrinkInv, LedgerInv', NEW r \in Requests,
         \/ CommitItemRows(r) \/ PaymentCommit(r) \/ RitiratoClose(r) \/ NoShowClose(r)
         \/ CancelCommit(r)
  PROVE  ShrinkInv'
<1> DEFINE q == req[r]
           o == req[r].order
<1>1. /\ q.pc # "idle" /\ Finish(r)
      /\ q.pc \in Writing \/ (q.pc = "commitPayment" /\ UNCHANGED items)
  BY DEF CommitItemRows, PaymentCommit, RitiratoClose, NoShowClose, CancelCommit, Writing
<1>2. /\ q \in Request /\ Fits(q) /\ o \in Orders /\ orders[o] \in OrderRow
      /\ paid \in [Orders -> Nat] /\ handed \in [Orders -> Nat] /\ q.amount \in Nat /\ q.total \in Nat
  BY <1>1 DEF ShrinkInv, LedgerInv, TypeOK, Sound, Request
<1>3. \A i \in Items :
        items'[i] = IF q.pend[i] = Kept THEN items[i] ELSE [order |-> q.order, status |-> q.pend[i]]
  <2>1. CASE q.pc = "commitPayment"
    <3>1. \A i \in Items : q.pend[i] = Kept
      BY <1>2, <2>1 DEF Fits, Writing
    <3> QED
      BY <1>1, <2>1, <3>1 DEF Writing
  <2>2. CASE q.pc # "commitPayment"
    BY <2>2 DEF CommitItemRows, PaymentCommit, RitiratoClose, NoShowClose, CancelCommit, CommitItems
  <2> QED
    BY <2>1, <2>2
<1>4. /\ Seen(q) \subseteq LiveOf(o) /\ LiveOf(o) \subseteq Items
      /\ Cardinality(Seen(q)) <= Cardinality(LiveOf(o))
      /\ Cardinality(Seen(q)) \in Nat /\ Cardinality(LiveOf(o)) \in Nat
  <2>1. Seen(q) \subseteq LiveOf(o) /\ LiveOf(o) \subseteq Items
    BY <1>2 DEF Fits, Seen, LiveOf
  <2> QED
    BY <2>1, FewerRows
<1>5. CASE CommitItemRows(r)
  <2>1. PICK t \in TriggerTotals(q) : orders' = [orders EXCEPT ![o].total = t]
    BY <1>5 DEF CommitItemRows
  <2>2. UNCHANGED <<paid, handed>> /\ q.pc = "commitItems" /\ t >= Cardinality(Seen(q))
    BY <1>5, TriggerCovers DEF CommitItemRows, Writing
  <2> DEFINE row == [orders[o] EXCEPT !.total = t]
  <2>3. /\ row.status = orders[o].status /\ row.type = orders[o].type
        /\ row.source = orders[o].source /\ row.total = t /\ orders' = [orders EXCEPT ![o] = row]
    BY <1>2, <2>1 DEF OrderRow
  <2>4. orders[o].status = "completed" /\ ~Prepaid(o) => paid[o] >= Cardinality(Seen(q))
    BY <1>2, <1>4 DEF ShrinkInv, PaidCovers
  <2>5. orders[o].status = "cancelled" =>
          \A i \in Seen(q) : items[i].status # "pending" /\ handed[o] > 0
    BY <1>2, <1>4 DEF ShrinkInv, NothingLeft
  <2> HIDE DEF row
  <2>6. CommitRow(r, row)
    BY <1>1, <1>2, <1>3, <2>2, <2>3, <2>4, <2>5 DEF CommitRow
  <2> QED
    BY <2>6, CommitFits
<1>6. CASE PaymentCommit(r)
  <2> DEFINE row == [orders[o] EXCEPT !.payment = q.payment, !.status = StatusAfterPayment(q)]
  <2>1. /\ q.pc = "commitPayment" /\ UNCHANGED <<items, handed>>
        /\ paid' = [paid EXCEPT ![o] = @ + q.amount]
        /\ orders' = [orders EXCEPT ![o] = row]
        /\ row.type = orders[o].type /\ row.source = orders[o].source
        /\ row.total = orders[o].total /\ row.status = StatusAfterPayment(q)
    BY <1>2, <1>6 DEF PaymentCommit, OrderRow
  <2> HIDE DEF row
  <2>2. paid'[o] = paid[o] + q.amount /\ \A p \in Orders : paid'[p] >= paid[p]
    BY <1>2, <2>1
  <2>3. orders[o].status # "absent" /\ orders[o].total \in Nat
    BY <1>1, <1>2 DEF ShrinkInv, LedgerInv, Sound, OrderRow
  <2>4. row.total >= Cardinality(Seen(q))
    BY <1>2, <1>4, <2>1, <2>3 DEF ShrinkInv, TotalCovers
  <2>5. row.status = "completed" /\ ~Prepaid(o) => paid'[o] >= Cardinality(Seen(q))
    <3>1. CASE q.payment = "paid"
      <4>1. paid[o] + q.amount >= q.total /\ q.total >= Cardinality(LiveOf(o))
        BY <1>2, <2>1, <3>1 DEF Fits
      <4>2. PICK have \in Nat, due \in Nat, left \in Nat, seen \in Nat :
              /\ have = paid'[o] /\ due = q.total
              /\ left = Cardinality(LiveOf(o)) /\ seen = Cardinality(Seen(q))
        BY <1>2, <1>4, <2>2
      <4>3. have >= due /\ due >= left /\ left >= seen
        BY <1>4, <2>2, <4>1, <4>2
      <4>4. have >= seen
        BY <4>3
      <4> QED
        BY <4>2, <4>4
    <3>2. CASE q.payment # "paid"
      <4>1. SUFFICES ASSUME row.status = "completed", ~Prepaid(o)
                     PROVE  paid'[o] >= Cardinality(Seen(q))
        OBVIOUS
      <4>2. orders[o].status = "completed"
        BY <2>1, <3>2, <4>1 DEF StatusAfterPayment
      <4>3. paid[o] >= Cardinality(LiveOf(o))
        BY <1>2, <4>1, <4>2 DEF ShrinkInv, PaidCovers
      <4>4. PICK have \in Nat, old \in Nat, left \in Nat, seen \in Nat :
              /\ have = paid'[o] /\ old = paid[o]
              /\ left = Cardinality(LiveOf(o)) /\ seen = Cardinality(Seen(q))
        BY <1>2, <1>4, <2>2
      <4>5. have >= old /\ old >= left /\ left >= seen
        BY <1>2, <1>4, <2>2, <4>3, <4>4
      <4>6. have >= seen
        BY <4>5
      <4> QED
        BY <4>4, <4>6
    <3> QED
      BY <3>1, <3>2
  <2>6. row.status = "cancelled" =>
          \A i \in Seen(q) : items[i].status # "pending" /\ handed[o] > 0
    <3>1. row.status = "cancelled" => orders[o].status = "cancelled"
      BY <2>1 DEF StatusAfterPayment
    <3> QED
      BY <1>2, <1>4, <3>1 DEF ShrinkInv, NothingLeft
  <2>7. CommitRow(r, row)
    BY <1>1, <1>2, <1>3, <2>1, <2>2, <2>4, <2>5, <2>6 DEF CommitRow
  <2> QED
    BY <2>7, CommitFits
<1>7. CASE RitiratoClose(r)
  <2>1. PICK t \in TriggerTotals(q) :
          orders' = [orders EXCEPT ![o].status = "completed", ![o].payment = "paid", ![o].total = t]
    BY <1>7 DEF RitiratoClose
  <2>2. /\ q.pc = "closeRitirato" /\ t >= Cardinality(Seen(q))
        /\ paid' = [paid EXCEPT ![o] = @ + DueAtPickup(q)] /\ handed' = [handed EXCEPT ![o] = @ + 1]
    BY <1>7, TriggerCovers DEF RitiratoClose, Writing
  <2> DEFINE row == [orders[o] EXCEPT !.status = "completed", !.payment = "paid", !.total = t]
  <2>3. /\ row.status = "completed" /\ row.type = orders[o].type
        /\ row.source = orders[o].source /\ row.total = t /\ orders' = [orders EXCEPT ![o] = row]
    BY <1>2, <2>1 DEF OrderRow
  <2>4. Prepaid(o)
    BY <1>2, <2>2 DEF Fits, Prepaid
  <2>5. DueAtPickup(q) \in Nat
    BY <1>2 DEF DueAtPickup
  <2>6. \A p \in Orders : paid'[p] >= paid[p] /\ handed'[p] >= handed[p]
    BY <1>2, <2>2, <2>5
  <2> HIDE DEF row
  <2>7. CommitRow(r, row)
    BY <1>1, <1>2, <1>3, <2>2, <2>3, <2>4, <2>6 DEF CommitRow
  <2> QED
    BY <2>7, CommitFits
<1>8. CASE NoShowClose(r) \/ CancelCommit(r)
  <2>1. PICK t \in TriggerTotals(q) : orders' = [orders EXCEPT ![o].status = "cancelled", ![o].total = t]
    BY <1>8 DEF NoShowClose, CancelCommit
  <2>2. /\ q.pc \in {"closeNoShow", "commitCancel"} /\ t >= Cardinality(Seen(q)) /\ UNCHANGED paid
        /\ \/ q.pc = "commitCancel" /\ UNCHANGED handed
           \/ q.pc = "closeNoShow" /\ handed' = [handed EXCEPT ![o] = @ + 1]
    BY <1>8, TriggerCovers DEF NoShowClose, CancelCommit, Writing
  <2> DEFINE row == [orders[o] EXCEPT !.status = "cancelled", !.total = t]
  <2>3. /\ row.status = "cancelled" /\ row.type = orders[o].type
        /\ row.source = orders[o].source /\ row.total = t /\ orders' = [orders EXCEPT ![o] = row]
    BY <1>2, <2>1 DEF OrderRow
  <2>4. \A p \in Orders : paid'[p] >= paid[p] /\ handed'[p] >= handed[p]
    BY <1>2, <2>2
  <2>5. \A i \in Seen(q) : items[i].status # "pending" /\ handed'[o] > 0
    <3>1. \A i \in Items : q.pend[i] # Kept => q.pend[i] = "cancelled"
      BY <1>2, <2>2 DEF Fits, WrittenBy
    <3>2. \A i \in Seen(q) : q.pend[i] = Kept /\ i \in LiveOf(o)
      BY <1>4, <3>1 DEF Seen, Live
    <3>3. CASE q.pc = "commitCancel"
      BY <1>2, <3>2, <3>3 DEF Fits
    <3>4. CASE q.pc = "closeNoShow"
      <4>1. handed'[o] > 0
        BY <1>2, <2>2, <3>4
      <4>2. \A i \in Seen(q) : items[i].status \in Live /\ items[i].status # "pending"
        BY <1>2, <3>2, <3>4 DEF Fits, LiveOf
      <4> QED
        BY <4>1, <4>2 DEF Live
    <3> QED
      BY <2>2, <3>3, <3>4
  <2> HIDE DEF row
  <2>6. CommitRow(r, row)
    BY <1>1, <1>2, <1>3, <2>2, <2>3, <2>4, <2>5 DEF CommitRow
  <2> QED
    BY <2>6, CommitFits
<1> QED
  BY <1>5, <1>6, <1>7, <1>8

LEMMA ShrinkStep == Shrinking /\ ShrinkInv /\ [Next]_vars => ShrinkInv'
<1> SUFFICES ASSUME Shrinking, ShrinkInv, [Next]_vars PROVE ShrinkInv'
  OBVIOUS
<1>1. LedgerInv'
  BY LedgerInvStep DEF ShrinkInv
<1>2. ASSUME NEW o \in Orders, CreateOrder(o) \/ CreatePublicOrder(o) PROVE ShrinkInv'
  BY <1>1, <1>2, OpeningFits
<1>3. ASSUME NEW r \in Requests, Arrive(r) PROVE ShrinkInv'
  BY <1>1, <1>3, ChecksFit, ItemStatementsFit DEF Arrive
<1>4. ASSUME NEW r \in Requests, Continue(r) PROVE ShrinkInv'
  BY <1>1, <1>4, ItemStatementsFit, OthersFit, CommitsFit DEF Continue
<1>5. CASE UNCHANGED vars
  <2>1. UNCHANGED <<orders, items, paid, handed, req>>
    BY <1>5 DEF vars
  <2>2. ASSUME NEW r \in Requests PROVE Fits(req[r])'
    <3>1. Fits(req[r])
      BY DEF ShrinkInv
    <3> QED
      BY <2>1, <3>1 DEF Fits, LiveOf, Seen
  <2>3. LocksExclusive' /\ TotalCovers' /\ PaidCovers' /\ NothingLeft'
    BY <2>1 DEF ShrinkInv, LocksExclusive, TotalCovers, PaidCovers, NothingLeft, LiveOf, Prepaid
  <2> QED
    BY <1>1, <2>2, <2>3 DEF ShrinkInv
<1> QED
  BY <1>2, <1>3, <1>4, <1>5 DEF Next

LEMMA ShrinkInit == Init => ShrinkInv
<1> SUFFICES ASSUME Init PROVE ShrinkInv
  OBVIOUS
<1>1. \A r \in Requests : req[r] = Idle
  BY DEF Init
<1>2. Fits(Idle)
  BY NoLocksFit DEF Idle
<1>3. LocksExclusive /\ TotalCovers /\ PaidCovers /\ NothingLeft
  BY <1>1 DEF Init, Idle, LocksExclusive, TotalCovers, PaidCovers, NothingLeft
<1> QED
  BY <1>1, <1>2, <1>3, LedgerInvInit DEF ShrinkInv

\* Unless rows are added or brought back, a completed table order is covered by its
\* payments, however many payments and cancellations race on it.
THEOREM CompletedOrdersAreCovered ==
  ASSUME Shrinking
  PROVE  Spec => []CompletedIsCovered
<1>1. ShrinkInv /\ [Next]_vars => ShrinkInv'
  BY ShrinkStep
<1>2. ShrinkInv => CompletedIsCovered
  <2>1. \A o : LiveOf(o) = {i \in RowsOf(o) : items[i].status \in Live}
    BY DEF LiveOf, RowsOf
  <2> QED
    BY <2>1 DEF ShrinkInv, PaidCovers, CompletedIsCovered
<1> QED
  BY <1>1, <1>2, ShrinkInit, PTL DEF Spec

\* Unless rows are added or sent back, a cancelled order keeps live rows only after a
\* no-show, and only such as had left the oven, whatever requests race with the
\* cancellation.
THEOREM CancelledOrdersAreEmpty ==
  ASSUME Shrinking
  PROVE  Spec => []CancelledIsEmpty
<1>1. ShrinkInv /\ [Next]_vars => ShrinkInv'
  BY ShrinkStep
<1>2. ShrinkInv => CancelledIsEmpty
  BY DEF ShrinkInv, NothingLeft, CancelledIsEmpty, LiveOf, RowsOf
<1> QED
  BY <1>1, <1>2, ShrinkInit, PTL DEF Spec
-----------------------------------------------------------------------------
(* The refinement of OrderLife.                                             *)

Counter == {"serveItems", "closeRitirato", "stopItems", "closeNoShow"}

\* The two ends of a takeaway are reached from a takeaway: how an order was opened
\* does not change.
AtTheCounter ==
  \A r \in Requests : req[r].pc \in Counter => orders[req[r].order].type = "takeaway"

Opened(o) == orders'[o].type = orders[o].type /\ orders'[o].source = orders[o].source

\* Only an opening writes the columns that say how an order was opened.
LEMMA OpenedForGood ==
  ASSUME LedgerInv, [Next]_vars, NEW o \in Orders, orders[o].status # "absent"
  PROVE  Opened(o) /\ orders'[o].status # "absent"
<1>1. orders \in [Orders -> OrderRow]
  BY DEF LedgerInv, TypeOK
<1>2. CASE UNCHANGED orders
  BY <1>2 DEF Opened
<1>3. ASSUME NEW p \in Orders, CreateOrder(p) \/ CreatePublicOrder(p)
      PROVE  Opened(o) /\ orders'[o].status # "absent"
  <2>1. PICK row : orders' = [orders EXCEPT ![p] = row] /\ orders[p].status = "absent"
    BY <1>3 DEF CreateOrder, CreatePublicOrder, InsertOrder
  <2> QED
    BY <1>1, <2>1 DEF Opened
<1>4. ASSUME NEW r \in Requests,
             \/ CommitItemRows(r) \/ PaymentCommit(r) \/ RitiratoClose(r)
             \/ NoShowClose(r) \/ CancelCommit(r)
      PROVE  Opened(o) /\ orders'[o].status # "absent"
  <2>1. CASE CommitItemRows(r)
    BY <1>1, <2>1 DEF CommitItemRows, Opened, OrderRow
  <2>2. CASE PaymentCommit(r)
    BY <1>1, <2>2 DEF PaymentCommit, StatusAfterPayment, Opened, OrderRow
  <2>3. CASE RitiratoClose(r)
    BY <1>1, <2>3 DEF RitiratoClose, Opened, OrderRow
  <2>4. CASE NoShowClose(r)
    BY <1>1, <2>4 DEF NoShowClose, Opened, OrderRow
  <2>5. CASE CancelCommit(r)
    BY <1>1, <2>5 DEF CancelCommit, Opened, OrderRow
  <2> QED
    BY <1>4, <2>1, <2>2, <2>3, <2>4, <2>5
<1> QED
  BY <1>2, <1>3, <1>4 DEF Next, vars, Arrive, Continue, AddItemsCheck, PaymentCheck,
     RitiratoCheck, NoShowCheck, CancelCheck, CancelItem, UpdateItemStatus, UpdateRow,
     AddItemsInsert, AddItemsFail, PaymentSum, PaymentInsert, PaymentRefused, RitiratoServe,
     RitiratoRefused, NoShowStop, NoShowRefused, CancelItems, UpdateRows

\* What becomes of a request: it steps to the counter only from a takeaway.
Moved(r, q) ==
  /\ req' = [req EXCEPT ![r] = q]
  /\ q.pc \in Counter =>
       \/ req[r].pc \in Counter /\ q.order = req[r].order
       \/ q.order \in Orders /\ orders[q.order].status # "absent"
                             /\ orders[q.order].type = "takeaway"

LEMMA RequestsMove ==
  ASSUME LedgerInv, NEW r \in Requests, Arrive(r) \/ Continue(r)
  PROVE  \E q : Moved(r, q)
<1>1. req[r] \in Request /\ req \in [Requests -> Request]
  BY DEF LedgerInv, TypeOK
<1>2. ASSUME NEW o \in Orders,
             \/ AddItemsCheck(r, o) \/ PaymentCheck(r, o) \/ RitiratoCheck(r, o)
             \/ NoShowCheck(r, o) \/ CancelCheck(r, o)
      PROVE  \E q : Moved(r, q)
  <2>1. CASE AddItemsCheck(r, o) \/ CancelCheck(r, o)
    <3>1. PICK pc \in {"addItems", "cancelItems"} :
            req' = [req EXCEPT ![r] = [Idle EXCEPT !.pc = pc, !.order = o]]
      BY <2>1 DEF AddItemsCheck, CancelCheck
    <3>2. [Idle EXCEPT !.pc = pc, !.order = o].pc = pc
      BY DEF Idle
    <3> QED
      BY <3>1, <3>2 DEF Moved, Counter
  <2>2. CASE PaymentCheck(r, o)
    <3>1. PICK amount, method :
            req' = [req EXCEPT ![r] = [Idle EXCEPT !.pc = "sumPaid", !.order = o,
                      !.amount = amount, !.method = method, !.total = orders[o].total]]
      BY <2>2 DEF PaymentCheck
    <3>2. [Idle EXCEPT !.pc = "sumPaid", !.order = o, !.amount = amount, !.method = method,
                       !.total = orders[o].total].pc = "sumPaid"
      BY DEF Idle
    <3> QED
      BY <3>1, <3>2 DEF Moved, Counter
  <2>3. CASE RitiratoCheck(r, o)
    <3> DEFINE q == [Idle EXCEPT !.pc = "serveItems", !.order = o,
                                 !.total = orders[o].total, !.payment = orders[o].payment]
    <3>1. q.order = o /\ req' = [req EXCEPT ![r] = q]
      BY <2>3 DEF RitiratoCheck, Idle
    <3>2. orders[o].type = "takeaway" /\ orders[o].status # "absent"
      BY <2>3 DEF RitiratoCheck, Open
    <3> HIDE DEF q
    <3> QED
      BY <3>1, <3>2 DEF Moved
  <2>4. CASE NoShowCheck(r, o)
    <3> DEFINE q == [Idle EXCEPT !.pc = "stopItems", !.order = o]
    <3>1. q.order = o /\ req' = [req EXCEPT ![r] = q]
      BY <2>4 DEF NoShowCheck, Idle
    <3>2. orders[o].type = "takeaway" /\ orders[o].status # "absent"
      BY <2>4 DEF NoShowCheck, Open
    <3> HIDE DEF q
    <3> QED
      BY <3>1, <3>2 DEF Moved
  <2> QED
    BY <1>2, <2>1, <2>2, <2>3, <2>4
<1>3. ASSUME NEW i \in Items, NEW st, UpdateRow(r, i, st) PROVE \E q : Moved(r, q)
  <2> DEFINE q == [Idle EXCEPT !.pc = "commitItems", !.order = items[i].order]
             p == Snapshot(WithRows(q, {i}, st))
  <2>1. p.pc = "commitItems" /\ req' = [req EXCEPT ![r] = p]
    BY <1>3 DEF UpdateRow, Snapshot, WithRows, Idle
  <2> HIDE DEF p
  <2> QED
    BY <2>1 DEF Moved, Counter
<1>4. ASSUME NEW pc, NEW from, NEW st, NEW next, UpdateRows(r, pc, from, st, next),
             pc \in Counter \/ next \notin Counter
      PROVE  \E q : Moved(r, q)
  <2> DEFINE S == {i \in RowsOf(req[r].order) : items[i].status \in from}
             q == Snapshot([WithRows(req[r], S, st) EXCEPT !.pc = next])
  <2>1. req[r].pc = pc /\ req' = [req EXCEPT ![r] = q]
    BY <1>4 DEF UpdateRows
  <2> HIDE DEF S
  <2>2. q.pc = next /\ q.order = req[r].order
    BY <1>1 DEF Snapshot, WithRows, Request
  <2> HIDE DEF q
  <2> QED
    BY <1>4, <2>1, <2>2 DEF Moved
<1>5. CASE RitiratoServe(r) \/ NoShowStop(r) \/ CancelItems(r)
  BY <1>5, <1>4 DEF RitiratoServe, NoShowStop, CancelItems, Counter
<1>6. CASE AddItemsInsert(r)
  <2>1. PICK S, st :
          req' = [req EXCEPT ![r] =
                    Snapshot([WithRows(req[r], S, st) EXCEPT !.pc = "commitItems"])]
    BY <1>6 DEF AddItemsInsert
  <2> DEFINE q == Snapshot([WithRows(req[r], S, st) EXCEPT !.pc = "commitItems"])
  <2>2. q.pc = "commitItems" /\ req' = [req EXCEPT ![r] = q]
    BY <1>1, <2>1 DEF Snapshot, WithRows, Request
  <2> HIDE DEF q
  <2> QED
    BY <2>2 DEF Moved, Counter
<1>7. CASE PaymentSum(r) \/ PaymentInsert(r)
  <2>1. ASSUME NEW q, req' = [req EXCEPT ![r] = q], q.pc \in {"insertPayment", "commitPayment"}
        PROVE  \E p : Moved(r, p)
    BY <2>1 DEF Moved, Counter
  <2>2. CASE PaymentSum(r)
    <3> DEFINE q == [req[r] EXCEPT !.pc = "insertPayment", !.paid = paid[req[r].order]]
    <3>1. req' = [req EXCEPT ![r] = q] /\ q.pc = "insertPayment"
      BY <1>1, <2>2 DEF PaymentSum, Request
    <3> HIDE DEF q
    <3> QED
      BY <2>1, <3>1
  <2>3. CASE PaymentInsert(r)
    <3> DEFINE a == EffectiveAmount(req[r])
               q == [req[r] EXCEPT !.pc = "commitPayment", !.amount = a,
                                   !.payment = PaymentStatus(req[r], a)]
    <3>1. req' = [req EXCEPT ![r] = q]
      BY <2>3 DEF PaymentInsert
    <3> HIDE DEF a
    <3>2. q.pc = "commitPayment"
      BY <1>1 DEF Request
    <3> HIDE DEF q
    <3> QED
      BY <2>1, <3>1, <3>2
  <2> QED
    BY <1>7, <2>2, <2>3
<1>8. CASE Finish(r)
  BY <1>8, IdleIsRequest DEF Finish, Moved, Counter
<1> QED
  BY <1>2, <1>3, <1>5, <1>6, <1>7, <1>8 DEF Arrive, Continue, CancelItem, UpdateItemStatus,
     AddItemsFail, CommitItemRows, PaymentRefused, PaymentCommit, RitiratoClose,
     RitiratoRefused, NoShowClose, NoShowRefused, CancelCommit

LEMMA CounterStep == LedgerInv /\ AtTheCounter /\ [Next]_vars => AtTheCounter'
<1> SUFFICES ASSUME LedgerInv, AtTheCounter, [Next]_vars,
                    NEW r \in Requests, req'[r].pc \in Counter
             PROVE  orders'[req'[r].order].type = "takeaway"
  BY DEF AtTheCounter
<1>1. req \in [Requests -> Request]
  BY DEF LedgerInv, TypeOK
<1>2. ASSUME NEW o \in Orders, orders[o].status # "absent", orders[o].type = "takeaway",
             req'[r].order = o
      PROVE  orders'[req'[r].order].type = "takeaway"
  BY <1>2, OpenedForGood DEF Opened
<1>3. ASSUME req[r].pc \in Counter, req'[r].order = req[r].order
      PROVE  orders'[req'[r].order].type = "takeaway"
  <2>1. /\ orders[req[r].order].type = "takeaway" /\ req[r].order \in Orders
        /\ orders[req[r].order].status # "absent"
    BY <1>3 DEF AtTheCounter, LedgerInv, Sound, Counter
  <2> QED
    BY <1>2, <1>3, <2>1
<1>4. CASE UNCHANGED req
  BY <1>3, <1>4
<1>5. ASSUME NEW s \in Requests, Arrive(s) \/ Continue(s)
      PROVE  orders'[req'[r].order].type = "takeaway"
  <2>1. PICK q : Moved(s, q)
    BY <1>5, RequestsMove
  <2>2. CASE s = r
    <3>1. req'[r] = q
      BY <1>1, <2>1, <2>2 DEF Moved
    <3> QED
      BY <1>2, <1>3, <2>1, <2>2, <3>1 DEF Moved
  <2>3. CASE s # r
    <3>1. req'[r] = req[r]
      BY <1>1, <2>1, <2>3 DEF Moved
    <3> QED
      BY <1>3, <3>1
  <2> QED
    BY <2>2, <2>3
<1> QED
  BY <1>4, <1>5 DEF Next, vars, CreateOrder, CreatePublicOrder, InsertOrder
\* A step of the code is one step of OrderLife for one order, or none.
LifeStep == [Life!Next]_<<Opening, Progress, paid, HandedOver>>

LEMMA LifeInit == Init => Life!Init
BY DEF Init, Life!Init, Opening, KindOf, Progress, HandedOver

LEMMA NothingLives ==
  ASSUME UNCHANGED <<orders, paid, handed>>
  PROVE  LifeStep
BY DEF LifeStep, Opening, KindOf, Progress, HandedOver

\* A commit leaves order o with this row, and with n handovers.
Becomes(o, row, n) ==
  /\ row \in OrderRow /\ n \in Nat
  /\ orders[o].status # "absent" /\ row.status # "absent"
  /\ row.type = orders[o].type /\ row.source = orders[o].source
  /\ orders' = [orders EXCEPT ![o] = row]
  /\ handed' = [handed EXCEPT ![o] = n]

\* What that means to its life.
LEMMA OneLives ==
  ASSUME LedgerInv, NEW o \in Orders, NEW row, NEW n, Becomes(o, row, n)
  PROVE  /\ UNCHANGED Opening
         /\ Progress[o] = orders[o].status /\ Progress' = [Progress EXCEPT ![o] = row.status]
         /\ row.status = orders[o].status => UNCHANGED Progress
         /\ n = handed[o] => UNCHANGED HandedOver
         /\ n > 0 => HandedOver' = HandedOver \cup {o}
         /\ o \in HandedOver <=> handed[o] > 0
<1>1. orders \in [Orders -> OrderRow] /\ handed \in [Orders -> Nat]
  BY DEF LedgerInv, TypeOK
<1>2. orders'[o] = row /\ handed'[o] = n
      /\ \A p \in Orders \ {o} : orders'[p] = orders[p] /\ handed'[p] = handed[p]
  BY <1>1 DEF Becomes
<1>3. \A p \in Orders : KindOf(p)' = KindOf(p)
  BY <1>2 DEF KindOf, Becomes
<1>4. UNCHANGED Opening
  BY <1>3 DEF Opening
<1>5. Progress[o] = orders[o].status /\ Progress' = [Progress EXCEPT ![o] = row.status]
  <2>1. \A p \in Orders : orders'[p].status = IF p = o THEN row.status ELSE orders[p].status
    BY <1>2
  <2> QED
    BY <2>1 DEF Progress
<1>6. row.status = orders[o].status => UNCHANGED Progress
  BY <1>2 DEF Progress
<1>7. /\ n = handed[o] => UNCHANGED HandedOver
      /\ n > 0 => HandedOver' = HandedOver \cup {o}
      /\ o \in HandedOver <=> handed[o] > 0
  BY <1>2 DEF HandedOver
<1> QED
  BY <1>4, <1>5, <1>6, <1>7

\* Money that is recorded is collected.
LEMMA Collected ==
  ASSUME LedgerInv, NEW o \in Orders, NEW n \in Nat, n > 0,
         paid' = [paid EXCEPT ![o] = paid[o] + n]
  PROVE  Life!Collect(o)
<1>1. paid \in [Orders -> Nat] /\ paid[o] \in Nat
  BY DEF LedgerInv, TypeOK
<1>2. paid'[o] = paid[o] + n
  BY <1>1
<1> QED
  BY <1>1, <1>2 DEF Life!Collect

LEMMA OpeningLives ==
  ASSUME LedgerInv, NEW o \in Orders, CreateOrder(o) \/ CreatePublicOrder(o)
  PROVE  LifeStep
<1>1. PICK S \in SUBSET FreshRows, D \in SUBSET Items, type \in {"table", "takeaway"},
           source \in {"staff", "qr"} : InsertOrder(o, S, D, type, source)
  BY DEF CreateOrder, CreatePublicOrder, FreshRows
<1> DEFINE k == IF type = "table" /\ source = "qr" THEN "qrTable" ELSE type
<1>2. orders \in [Orders -> OrderRow]
  BY DEF LedgerInv, TypeOK
<1>3. /\ orders[o].status = "absent" /\ UNCHANGED <<paid, handed>>
      /\ orders'[o].status = "open" /\ orders'[o].type = type /\ orders'[o].source = source
      /\ \A p \in Orders \ {o} : orders'[p] = orders[p]
  BY <1>1, <1>2 DEF InsertOrder
<1>4. KindOf(o)' = k /\ \A p \in Orders \ {o} : KindOf(p)' = KindOf(p)
  BY <1>3 DEF KindOf
<1>5. /\ Opening' = [Opening EXCEPT ![o] = k]
      /\ Progress[o] = "absent" /\ Progress' = [Progress EXCEPT ![o] = "open"]
      /\ UNCHANGED HandedOver
  BY <1>3, <1>4 DEF Opening, Progress, HandedOver
<1>6. k \in {"table", "qrTable", "takeaway"}
  OBVIOUS
<1> HIDE DEF k
<1>7. Life!Open(o, k) /\ k \in Life!Kinds
  BY <1>3, <1>5, <1>6 DEF Life!Open, Life!Kinds
<1> QED
  BY <1>7 DEF LifeStep, Life!Next

LEMMA CommitsLive ==
  ASSUME LedgerInv, AtTheCounter, NEW r \in Requests,
         \/ CommitItemRows(r) \/ PaymentCommit(r) \/ RitiratoClose(r)
         \/ NoShowClose(r) \/ CancelCommit(r)
  PROVE  LifeStep
<1> DEFINE q == req[r]
           o == req[r].order
<1>1. /\ q \in Request /\ o \in Orders /\ orders[o].status # "absent"
      /\ orders[o] \in OrderRow /\ orders \in [Orders -> OrderRow]
      /\ paid[o] \in Nat /\ paid \in [Orders -> Nat] /\ handed[o] \in Nat
      /\ handed \in [Orders -> Nat]
  BY DEF LedgerInv, TypeOK, Sound, CommitItemRows, PaymentCommit, RitiratoClose,
         NoShowClose, CancelCommit
<1>2. TriggerTotals(q) \subseteq Nat
  BY <1>1, TriggerTotalsAreNat DEF LedgerInv
<1>3. handed' = handed => handed' = [handed EXCEPT ![o] = handed[o]]
  BY <1>1
<1>4. q.pc \in Counter => orders[o].type = "takeaway" /\ Opening[o] = "takeaway"
  BY <1>1 DEF AtTheCounter, Opening, KindOf
<1>5. CASE CommitItemRows(r)
  <2>1. PICK t \in TriggerTotals(q) : orders' = [orders EXCEPT ![o].total = t]
    BY <1>5 DEF CommitItemRows
  <2> DEFINE row == [orders[o] EXCEPT !.total = t]
  <2>2. /\ row \in OrderRow /\ row.status = orders[o].status
        /\ row.type = orders[o].type /\ row.source = orders[o].source
        /\ orders' = [orders EXCEPT ![o] = row]
    BY <1>1, <1>2, <2>1 DEF OrderRow
  <2>3. UNCHANGED <<paid, handed>>
    BY <1>5 DEF CommitItemRows
  <2> HIDE DEF row
  <2>4. Becomes(o, row, handed[o])
    BY <1>1, <1>3, <2>2, <2>3 DEF Becomes
  <2>5. UNCHANGED <<Opening, Progress, HandedOver>>
    BY <1>1, <2>2, <2>4, OneLives
  <2> QED
    BY <2>3, <2>5 DEF LifeStep
<1>6. CASE PaymentCommit(r)
  <2> DEFINE st == StatusAfterPayment(q)
             row == [orders[o] EXCEPT !.payment = q.payment, !.status = st]
  <2>1. q.amount > 0 /\ q.amount \in Nat /\ q.payment \in {"partial", "paid"}
    BY <1>6, <1>1 DEF PaymentCommit, LedgerInv, Sound, Request
  <2>2. st \in {"completed", orders[o].status}
    BY DEF StatusAfterPayment
  <2>3. /\ row \in OrderRow /\ row.status = st
        /\ row.type = orders[o].type /\ row.source = orders[o].source
        /\ orders' = [orders EXCEPT ![o] = row]
    BY <1>1, <1>6, <2>1, <2>2 DEF OrderRow, PaymentCommit
  <2>4. paid' = [paid EXCEPT ![o] = paid[o] + q.amount] /\ UNCHANGED handed
    BY <1>6 DEF PaymentCommit
  <2>5. st = orders[o].status \/ (st = "completed" /\ Opening[o] = "table")
    BY <1>1 DEF StatusAfterPayment, Prepaid, Opening, KindOf, OrderRow
  <2> HIDE DEF row, st
  <2>6. Becomes(o, row, handed[o])
    BY <1>1, <1>3, <2>2, <2>3, <2>4 DEF Becomes
  <2>7. /\ UNCHANGED Opening /\ UNCHANGED HandedOver /\ Progress[o] = orders[o].status
        /\ Progress' = [Progress EXCEPT ![o] = st]
        /\ st = orders[o].status => UNCHANGED Progress
    BY <1>1, <2>3, <2>6, OneLives
  <2>8. Life!Collect(o)
    BY <1>1, <2>1, <2>4, Collected
  <2>9. Life!Pay(o)
    BY <1>1, <2>5, <2>7, <2>8 DEF Life!Pay, Life!Close
  <2> QED
    BY <1>1, <2>9 DEF LifeStep, Life!Next
<1>7. CASE RitiratoClose(r)
  <2>1. PICK t \in TriggerTotals(q) :
          orders' = [orders EXCEPT ![o].status = "completed", ![o].payment = "paid",
                                   ![o].total = t]
    BY <1>7 DEF RitiratoClose
  <2> DEFINE row == [orders[o] EXCEPT !.status = "completed", !.payment = "paid", !.total = t]
  <2>2. /\ row \in OrderRow /\ row.status = "completed"
        /\ row.type = orders[o].type /\ row.source = orders[o].source
        /\ orders' = [orders EXCEPT ![o] = row]
    BY <1>1, <1>2, <2>1 DEF OrderRow
  <2>3. /\ q.pc \in Counter /\ orders[o].status = "open" /\ Collectable(q)
        /\ paid' = [paid EXCEPT ![o] = paid[o] + DueAtPickup(q)]
        /\ handed' = [handed EXCEPT ![o] = handed[o] + 1]
    BY <1>7 DEF RitiratoClose, StillOpen, Open, Counter
  <2>4. handed[o] = 0 /\ handed[o] + 1 \in Nat /\ handed[o] + 1 > 0
    BY <1>1, <2>3 DEF LedgerInv, Lifecycle, Closed
  <2> HIDE DEF row
  <2>5. Becomes(o, row, handed[o] + 1)
    BY <1>1, <2>2, <2>3, <2>4 DEF Becomes
  <2>6. /\ UNCHANGED Opening /\ Progress[o] = "open"
        /\ Progress' = [Progress EXCEPT ![o] = "completed"]
        /\ o \notin HandedOver /\ HandedOver' = HandedOver \cup {o}
    BY <1>1, <2>2, <2>3, <2>4, <2>5, OneLives
  <2>7. Life!Collect(o) \/ (paid[o] > 0 /\ UNCHANGED paid)
    <3>1. CASE q.payment = "paid"
      <4>1. paid[o] > 0 /\ DueAtPickup(q) = 0
        BY <1>1, <1>7, <3>1 DEF RitiratoClose, LedgerInv, Sound, DueAtPickup
      <4> QED
        BY <1>1, <2>3, <4>1
    <3>2. CASE q.payment # "paid"
      <4>1. DueAtPickup(q) \in Nat /\ DueAtPickup(q) > 0
        BY <1>1, <2>3, <3>2 DEF Collectable, AmountAllowed, DueAtPickup, Request
      <4> QED
        BY <1>1, <2>3, <4>1, Collected
    <3> QED
      BY <3>1, <3>2
  <2>8. Life!PickUp(o)
    BY <1>4, <2>3, <2>6, <2>7 DEF Life!PickUp, Life!Leave, Life!Close
  <2> QED
    BY <1>1, <2>8 DEF LifeStep, Life!Next
<1>8. CASE NoShowClose(r) \/ CancelCommit(r)
  <2>1. PICK t \in TriggerTotals(q) :
          orders' = [orders EXCEPT ![o].status = "cancelled", ![o].total = t]
    BY <1>8 DEF NoShowClose, CancelCommit
  <2> DEFINE row == [orders[o] EXCEPT !.status = "cancelled", !.total = t]
  <2>2. /\ row \in OrderRow /\ row.status = "cancelled"
        /\ row.type = orders[o].type /\ row.source = orders[o].source
        /\ orders' = [orders EXCEPT ![o] = row]
    BY <1>1, <1>2, <2>1 DEF OrderRow
  <2>3. UNCHANGED paid
    BY <1>8 DEF NoShowClose, CancelCommit
  <2> HIDE DEF row
  <2>4. CASE NoShowClose(r)
    <3>1. /\ q.pc \in Counter /\ orders[o].status = "open"
          /\ handed' = [handed EXCEPT ![o] = handed[o] + 1]
      BY <2>4 DEF NoShowClose, StillOpen, Open, Counter
    <3>2. handed[o] = 0 /\ handed[o] + 1 \in Nat /\ handed[o] + 1 > 0
      BY <1>1, <3>1 DEF LedgerInv, Lifecycle, Closed
    <3>3. Becomes(o, row, handed[o] + 1)
      BY <1>1, <2>2, <3>1, <3>2 DEF Becomes
    <3>4. /\ UNCHANGED Opening /\ Progress[o] = "open"
          /\ Progress' = [Progress EXCEPT ![o] = "cancelled"]
          /\ o \notin HandedOver /\ HandedOver' = HandedOver \cup {o}
      BY <1>1, <2>2, <3>1, <3>2, <3>3, OneLives
    <3>5. Life!NoShow(o)
      BY <1>4, <2>3, <3>1, <3>4 DEF Life!NoShow, Life!Leave, Life!Close
    <3> QED
      BY <1>1, <3>5 DEF LifeStep, Life!Next
  <2>5. CASE CancelCommit(r)
    <3>1. UNCHANGED handed
      BY <2>5 DEF CancelCommit
    <3>2. Becomes(o, row, handed[o])
      BY <1>1, <1>3, <2>2, <3>1 DEF Becomes
    <3>3. /\ UNCHANGED Opening /\ UNCHANGED HandedOver /\ Progress[o] = orders[o].status
          /\ Progress' = [Progress EXCEPT ![o] = "cancelled"]
      BY <1>1, <2>2, <3>2, OneLives
    <3>4. Life!Cancel(o)
      BY <1>1, <2>3, <3>3 DEF Life!Cancel, Life!Close
    <3> QED
      BY <1>1, <3>4 DEF LifeStep, Life!Next
  <2> QED
    BY <1>8, <2>4, <2>5
<1> QED
  BY <1>5, <1>6, <1>7, <1>8

LEMMA LedgerLives == LedgerInv /\ AtTheCounter /\ [Next]_vars => LifeStep
<1> SUFFICES ASSUME LedgerInv, AtTheCounter, [Next]_vars PROVE LifeStep
  OBVIOUS
<1>1. CASE UNCHANGED <<orders, paid, handed>>
  BY <1>1, NothingLives
<1> QED
  BY <1>1, OpeningLives, CommitsLive DEF Next, vars, Arrive, Continue, AddItemsCheck,
     PaymentCheck, RitiratoCheck, NoShowCheck, CancelCheck, CancelItem, UpdateItemStatus,
     UpdateRow, AddItemsInsert, AddItemsFail, PaymentSum, PaymentInsert, PaymentRefused,
     RitiratoServe, RitiratoRefused, NoShowStop, NoShowRefused, CancelItems, UpdateRows

\* Whatever requests race on it, an order lives as OrderLife says: how it was opened
\* decides which event completes it, money is only added, a handover comes once.
THEOREM LedgerKeepsPromise == Spec => ImplementsOrderLife
<1>1. Init => AtTheCounter
  BY DEF Init, AtTheCounter, Idle, Counter
<1>2. LifeStep <=> [Life!Next]_<<Opening, Progress, paid, HandedOver>>
  BY DEF LifeStep
<1> QED
  BY <1>1, <1>2, LedgerInvInit, LedgerInvStep, CounterStep, LifeInit, LedgerLives, PTL
  DEF Spec, ImplementsOrderLife, Life!Spec
=============================================================================
