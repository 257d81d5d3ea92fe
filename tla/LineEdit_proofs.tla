---------------------------- MODULE LineEdit_proofs ----------------------------
(***************************************************************************)
(* Proofs about LineEdit for any rows, quantities, prices and requests:    *)
(* the lock on the order keeps the coperto single and the total of         *)
(* setOrderCovers right, and a subtotal is wrong only by a stale read.     *)
(*                                                                         *)
(* For the invariant it is of no account what a sum over rows is: the      *)
(* values it takes are a set of their own.  That they are numbers is shown *)
(* by itself, from the definition of the fold.                             *)
(***************************************************************************)
EXTENDS LineEdit, FiniteSetTheorems, TLAPS

Sums == {0} \cup {Sum(rows) : rows \in [Rows -> Row]}

\* The states of a request, with a sum of rows where it keeps one.
Slot ==
  [pc : {"idle", "update", "trigger", "coperto", "sum", "commit"},
   kind : {"none", "price", "quantity", "weight", "covers"},
   item : Rows \cup {NoRow}, arg : Nat, qty : Nat, price : Nat, sum : Sums]

Typed ==
  /\ row \in [Rows -> Row]
  /\ req \in [Requests -> Slot]

\* An edit is of a row that was there; what it writes stays within the bounds.
EditsKnown ==
  \A r \in Requests : req[r].pc \in {"update", "trigger"} =>
    /\ req[r].item \in Rows /\ row[req[r].item].status # "none"
    /\ req[r].qty \in Quantities /\ req[r].price \in Prices
    /\ \/ req[r].kind = "quantity" /\ req[r].arg \in Quantities \cup {0}
       \/ req[r].kind \in {"price", "weight"} /\ req[r].arg \in Prices

CoversKnown ==
  \A r \in Requests : req[r].pc \in {"coperto", "sum", "commit"} =>
    req[r].kind = "covers" /\ req[r].arg \in Quantities

\* The coperto that is written is the one of the order, or there is none.
TargetKnown ==
  \A r \in Requests : req[r].pc \in {"sum", "commit"} =>
    /\ req[r].item \in Coperti
    /\ row[req[r].item].status = "live" \/ (LiveCoperti = {} /\ row[req[r].item].status = "none")

SumKnown ==
  \A r \in Requests : req[r].pc = "commit" => req[r].sum = Sum(Changed(r))

OneHoldsTheOrder ==
  \A p, q \in Requests :
    req[p].pc \in {"coperto", "sum", "commit"} /\ req[q].pc \in {"coperto", "sum", "commit"} => p = q

LineInv ==
  /\ Typed /\ EditsKnown /\ CoversKnown /\ TargetKnown /\ SumKnown /\ OneHoldsTheOrder
  /\ OneCoperto

-----------------------------------------------------------------------------
LEMMA NewRowIsRow ==
  ASSUME NEW status \in {"none", "live", "cancelled"}, NEW qty \in Quantities, NEW price \in Prices
  PROVE  NewRow(status, qty, price) \in Row
  <1>1. qty \in Nat /\ price \in Nat
    BY EditAssumption
  <1>2. qty * price \in Nat
    BY <1>1
  <1> QED
    BY <1>2 DEF NewRow, Row

LEMMA InitInv == Init => LineInv
  <1> SUFFICES ASSUME Init PROVE LineInv
    OBVIOUS
  <1>1. PICK charged \in SUBSET Coperti :
          /\ \A i, j \in charged : i = j
          /\ row = [i \in Rows |->
                      IF i \notin Coperti THEN NewRow("live", 1, CopertoPrice)
                      ELSE NewRow(IF i \in charged THEN "live" ELSE "none", 1, CopertoPrice)]
    BY DEF Init
  <1>2. /\ NewRow("live", 1, CopertoPrice) \in Row
        /\ NewRow("none", 1, CopertoPrice) \in Row
    BY EditAssumption, NewRowIsRow
  <1>3. row \in [Rows -> Row]
    BY <1>1, <1>2
  <1>4. req = [r \in Requests |-> Idle] /\ Idle \in Slot
    BY DEF Init, Idle, Slot, Sums
  <1>5. OneCoperto
    BY <1>1, EditAssumption DEF OneCoperto, LiveCoperti, NewRow
  <1> QED
    BY <1>3, <1>4, <1>5 DEF LineInv, Typed, EditsKnown, CoversKnown, TargetKnown, SumKnown,
       OneHoldsTheOrder, Idle

\* What an edit makes of a row: a row, alive only if it was.
LEMMA EditWrites ==
  ASSUME NEW q \in Slot, NEW old \in Row,
         q.qty \in Quantities, q.price \in Prices,
         \/ q.kind = "quantity" /\ q.arg \in Quantities \cup {0}
         \/ q.kind \in {"price", "weight"} /\ q.arg \in Prices
  PROVE  /\ Written(q, old) \in Row
         /\ old.status # "none" => Written(q, old).status # "none"
         /\ Written(q, old).status = "live" => old.status = "live"
  <1>1. /\ q.qty \in Nat /\ q.price \in Nat /\ q.arg \in Nat
        /\ q.price * q.arg \in Nat /\ q.price * q.qty \in Nat /\ q.arg * q.qty \in Nat
    <2>1. q.qty \in Nat /\ q.price \in Nat /\ q.arg \in Nat
      BY EditAssumption DEF Slot
    <2> QED
      BY <2>1
  <1>2. CASE old.status = "cancelled"
    BY <1>2 DEF Written
  <1>3. CASE old.status # "cancelled" /\ q.kind = "quantity"
    <2>1. q.arg > 0 \/ q.arg = 0
      BY <1>1
    <2>2. CASE q.arg > 0
      <3>1. Written(q, old) = Counted(old, q.price, q.arg) /\ q.arg \in Quantities
        BY <1>1, <1>3, <2>2 DEF Written
      <3> QED
        BY <1>1, <3>1 DEF Counted, Row
    <2>3. CASE q.arg = 0
      <3>1. Written(q, old) = Gone
        BY <1>3, <2>3 DEF Written
      <3>2. Gone \in Row /\ Gone.status = "cancelled"
        BY EditAssumption, NewRowIsRow DEF Gone, NewRow
      <3> QED
        BY <3>1, <3>2
    <2> QED
      BY <2>1, <2>2, <2>3
  <1>4. CASE old.status # "cancelled" /\ q.kind \in {"price", "weight"}
    <2>1. Written(q, old) = Priced(old, NewPrice(q), q.qty)
      BY <1>4 DEF Written
    <2>2. NewPrice(q) \in Prices /\ NewPrice(q) * q.qty \in Nat
      BY <1>1, <1>4 DEF NewPrice
    <2>3. Priced(old, NewPrice(q), q.qty) \in Row /\ Priced(old, NewPrice(q), q.qty).status = old.status
      BY <2>2 DEF Priced, Row
    <2> QED
      BY <2>1, <2>3
  <1> QED
    BY <1>2, <1>3, <1>4

LEMMA CoversWrites ==
  ASSUME NEW q \in Slot, NEW old \in Row, q.kind = "covers", q.arg \in Quantities,
         old.status # "cancelled"
  PROVE  Written(q, old) = NewRow("live", q.arg, CopertoPrice) /\ Written(q, old) \in Row
  BY EditAssumption, NewRowIsRow DEF Written

\* A step of one request that leaves the rows alone.
LEMMA RequestKeeps ==
  ASSUME LineInv, UNCHANGED row, NEW r \in Requests, NEW new \in Slot,
         req' = [req EXCEPT ![r] = new],
         new.pc \in {"update", "trigger"} =>
           /\ new.item \in Rows /\ row[new.item].status # "none"
           /\ new.qty \in Quantities /\ new.price \in Prices
           /\ \/ new.kind = "quantity" /\ new.arg \in Quantities \cup {0}
              \/ new.kind \in {"price", "weight"} /\ new.arg \in Prices,
         new.pc \in {"coperto", "sum", "commit"} =>
           /\ new.kind = "covers" /\ new.arg \in Quantities
           /\ ~OrderLocked \/ req[r].pc \in {"coperto", "sum", "commit"},
         new.pc \in {"sum", "commit"} =>
           /\ new.item \in Coperti
           /\ row[new.item].status = "live" \/ (LiveCoperti = {} /\ row[new.item].status = "none"),
         new.pc = "commit" => new.sum = Sum([row EXCEPT ![new.item] = Written(new, @)])
  PROVE  LineInv'
  <1>1. req'[r] = new /\ \A q \in Requests \ {r} : req'[q] = req[q]
    BY DEF LineInv, Typed
  <1>2. Typed' /\ OneCoperto'
    BY DEF LineInv, Typed, OneCoperto, LiveCoperti
  <1>3. EditsKnown' /\ CoversKnown'
    BY <1>1 DEF LineInv, EditsKnown, CoversKnown
  <1>4. TargetKnown'
    BY <1>1 DEF LineInv, TargetKnown, LiveCoperti
  <1>5. SumKnown'
    BY <1>1 DEF LineInv, SumKnown, Changed
  <1>6. OneHoldsTheOrder'
    BY <1>1 DEF LineInv, OneHoldsTheOrder, OrderLocked
  <1> QED
    BY <1>2, <1>3, <1>4, <1>5, <1>6 DEF LineInv

\* The rows as a request would leave them.
LEMMA ChangedIsTyped ==
  ASSUME LineInv, NEW r \in Requests, req[r].pc \in {"update", "trigger", "sum", "commit"}
  PROVE  /\ req[r] \in Slot /\ req[r].item \in Rows /\ row[req[r].item] \in Row
         /\ Changed(r) \in [Rows -> Row] /\ Sum(Changed(r)) \in Sums
  <1>1. req[r] \in Slot /\ row \in [Rows -> Row]
    BY DEF LineInv, Typed
  <1>2. req[r].item \in Rows /\ row[req[r].item] \in Row
    BY <1>1, EditAssumption DEF LineInv, EditsKnown, TargetKnown
  <1>3. Written(req[r], row[req[r].item]) \in Row
    <2>1. CASE req[r].pc \in {"update", "trigger"}
      <3>1. /\ req[r].qty \in Quantities /\ req[r].price \in Prices
            /\ \/ req[r].kind = "quantity" /\ req[r].arg \in Quantities \cup {0}
               \/ req[r].kind \in {"price", "weight"} /\ req[r].arg \in Prices
        BY <2>1 DEF LineInv, EditsKnown
      <3> QED
        BY <1>1, <1>2, <3>1, EditWrites
    <2>2. CASE req[r].pc \in {"sum", "commit"}
      <3>1. /\ req[r].kind = "covers" /\ req[r].arg \in Quantities
            /\ row[req[r].item].status # "cancelled"
        BY <2>2 DEF LineInv, CoversKnown, TargetKnown
      <3> QED
        BY <1>1, <1>2, <3>1, CoversWrites
    <2> QED
      BY <2>1, <2>2
  <1>4. Changed(r) \in [Rows -> Row]
    BY <1>1, <1>2, <1>3 DEF Changed
  <1> QED
    BY <1>1, <1>2, <1>4 DEF Sums

LEMMA EditReadKeeps ==
  ASSUME LineInv, NEW r \in Requests, NEW kind \in {"price", "quantity", "weight"},
         NEW i \in Rows, NEW arg \in Nat, EditRead(r, kind, i, arg),
         kind = "quantity" => arg \in Quantities \cup {0},
         kind # "quantity" => arg \in Prices
  PROVE  LineInv'
  <1> DEFINE new == [pc |-> "update", kind |-> kind, item |-> i, arg |-> arg,
                     qty |-> row[i].qty, price |-> row[i].price, sum |-> 0]
  <1>1. req' = [req EXCEPT ![r] = new] /\ UNCHANGED row /\ row[i].status = "live"
    BY DEF EditRead
  <1>2. row[i] \in Row /\ row[i].qty \in Quantities /\ row[i].price \in Prices
    BY DEF LineInv, Typed, Row
  <1>3. row[i].qty \in Nat /\ row[i].price \in Nat /\ 0 \in Sums
    BY <1>2, EditAssumption DEF Sums
  <1>4. new \in Slot
    BY <1>3 DEF Slot
  <1>5. /\ new.pc = "update" /\ new.item = i /\ new.kind = kind /\ new.arg = arg
        /\ new.qty = row[i].qty /\ new.price = row[i].price
    OBVIOUS
  <1> HIDE DEF new
  <1> QED
    BY <1>1, <1>2, <1>4, <1>5, RequestKeeps

LEMMA EditUpdateKeeps ==
  ASSUME LineInv, NEW r \in Requests, EditUpdate(r)
  PROVE  LineInv'
  <1> DEFINE new == [req[r] EXCEPT !.pc = "trigger", !.sum = Sum(Changed(r))]
  <1>1. req[r].pc = "update" /\ req' = [req EXCEPT ![r] = new] /\ UNCHANGED row
    BY DEF EditUpdate
  <1>2. req[r] \in Slot /\ Sum(Changed(r)) \in Sums
    BY <1>1, ChangedIsTyped
  <1>3. /\ new \in Slot /\ new.pc = "trigger" /\ new.item = req[r].item /\ new.kind = req[r].kind
        /\ new.arg = req[r].arg /\ new.qty = req[r].qty /\ new.price = req[r].price
    BY <1>2 DEF Slot
  <1>4. /\ req[r].item \in Rows /\ row[req[r].item].status # "none"
        /\ req[r].qty \in Quantities /\ req[r].price \in Prices
        /\ \/ req[r].kind = "quantity" /\ req[r].arg \in Quantities \cup {0}
           \/ req[r].kind \in {"price", "weight"} /\ req[r].arg \in Prices
    BY <1>1 DEF LineInv, EditsKnown
  <1> HIDE DEF new
  <1> QED
    BY <1>1, <1>3, <1>4, RequestKeeps

LEMMA CoversLockKeeps ==
  ASSUME LineInv, NEW r \in Requests, NEW n \in Quantities, CoversLock(r, n)
  PROVE  LineInv'
  <1> DEFINE new == [Idle EXCEPT !.pc = "coperto", !.kind = "covers", !.arg = n]
  <1>1. req' = [req EXCEPT ![r] = new] /\ UNCHANGED row /\ ~OrderLocked
    BY DEF CoversLock
  <1>2. n \in Nat /\ 0 \in Sums
    BY EditAssumption DEF Sums
  <1>3. new \in Slot /\ new.pc = "coperto" /\ new.kind = "covers" /\ new.arg = n
    BY <1>2 DEF Slot, Idle
  <1> HIDE DEF new
  <1> QED
    BY <1>1, <1>3, RequestKeeps

LEMMA CoversRowKeeps ==
  ASSUME LineInv, NEW r \in Requests, NEW i \in Coperti, CoversRow(r, i)
  PROVE  LineInv'
  <1> DEFINE new == [req[r] EXCEPT !.pc = "sum", !.item = i]
  <1>1. /\ req[r].pc = "coperto" /\ req' = [req EXCEPT ![r] = new] /\ UNCHANGED row
        /\ IF LiveCoperti # {} THEN i \in LiveCoperti ELSE row[i].status = "none"
    BY DEF CoversRow
  <1>2. req[r] \in Slot /\ i \in Rows
    BY EditAssumption DEF LineInv, Typed
  <1>3. /\ new \in Slot /\ new.pc = "sum" /\ new.item = i
        /\ new.kind = req[r].kind /\ new.arg = req[r].arg
    BY <1>2 DEF Slot
  <1>4. row[i].status = "live" \/ (LiveCoperti = {} /\ row[i].status = "none")
    BY <1>1 DEF LiveCoperti
  <1>5. req[r].kind = "covers" /\ req[r].arg \in Quantities
    BY <1>1 DEF LineInv, CoversKnown
  <1> HIDE DEF new
  <1> QED
    BY <1>1, <1>3, <1>4, <1>5, RequestKeeps

LEMMA CoversSumKeeps ==
  ASSUME LineInv, NEW r \in Requests, CoversSum(r)
  PROVE  LineInv'
  <1> DEFINE new == [req[r] EXCEPT !.pc = "commit", !.sum = Sum(Changed(r))]
  <1>1. req[r].pc = "sum" /\ req' = [req EXCEPT ![r] = new] /\ UNCHANGED row
    BY DEF CoversSum
  <1>2. req[r] \in Slot /\ Sum(Changed(r)) \in Sums
    BY <1>1, ChangedIsTyped
  <1>3. /\ new \in Slot /\ new.pc = "commit" /\ new.item = req[r].item
        /\ new.kind = req[r].kind /\ new.arg = req[r].arg /\ new.sum = Sum(Changed(r))
    BY <1>2 DEF Slot
  <1>4. /\ req[r].kind = "covers" /\ req[r].arg \in Quantities /\ req[r].item \in Coperti
        /\ \/ row[req[r].item].status = "live"
           \/ LiveCoperti = {} /\ row[req[r].item].status = "none"
    BY <1>1 DEF LineInv, CoversKnown, TargetKnown
  <1>5. Written(new, row[new.item]) = Written(req[r], row[req[r].item])
    BY <1>3, <1>4 DEF Written
  <1>6. [row EXCEPT ![new.item] = Written(new, @)] = Changed(r)
    BY <1>3, <1>5 DEF Changed
  <1> HIDE DEF new
  <1> QED
    BY <1>1, <1>3, <1>4, <1>6, RequestKeeps

LEMMA RollbackKeeps ==
  ASSUME LineInv, NEW r \in Requests, Rollback(r)
  PROVE  LineInv'
  <1>1. req' = [req EXCEPT ![r] = Idle] /\ UNCHANGED row
    BY DEF Rollback
  <1>2. Idle \in Slot /\ Idle.pc = "idle"
    BY DEF Idle, Slot, Sums
  <1> QED
    BY <1>1, <1>2, RequestKeeps

\* While an edit commits nobody holds the order, and no coperto comes to life.
LEMMA EditCommitKeeps ==
  ASSUME LineInv, NEW r \in Requests, EditCommit(r)
  PROVE  LineInv'
  <1> DEFINE i == req[r].item
  <1>1. /\ req[r].pc = "trigger" /\ row' = Changed(r) /\ req' = [req EXCEPT ![r] = Idle]
        /\ \A q \in Requests : req[q].pc \notin {"coperto", "sum", "commit"}
    BY DEF EditCommit, OrderLocked
  <1>2. /\ req[r] \in Slot /\ i \in Rows /\ row[i] \in Row
        /\ Changed(r) \in [Rows -> Row]
    BY <1>1, ChangedIsTyped
  <1>3. Typed'
    <2>1. Idle \in Slot
      BY DEF Idle, Slot, Sums
    <2> QED
      BY <1>1, <1>2, <2>1 DEF LineInv, Typed
  <1>4. /\ row'[i] = Written(req[r], row[i])
        /\ \A j \in Rows \ {i} : row'[j] = row[j]
    BY <1>1, <1>2 DEF LineInv, Typed, Changed
  <1>5. /\ row[i].status # "none" => row'[i].status # "none"
        /\ row'[i].status = "live" => row[i].status = "live"
    <2>1. /\ req[r].qty \in Quantities /\ req[r].price \in Prices
          /\ \/ req[r].kind = "quantity" /\ req[r].arg \in Quantities \cup {0}
             \/ req[r].kind \in {"price", "weight"} /\ req[r].arg \in Prices
      BY <1>1 DEF LineInv, EditsKnown
    <2> QED
      BY <1>2, <1>4, <2>1, EditWrites
  <1>6. req'[r].pc = "idle" /\ \A q \in Requests \ {r} : req'[q] = req[q]
    BY <1>1 DEF LineInv, Typed, Idle
  <1>7. EditsKnown'
    <2>1. \A j \in Rows : row[j].status # "none" => row'[j].status # "none"
      BY <1>4, <1>5
    <2> QED
      BY <1>6, <2>1 DEF LineInv, EditsKnown
  <1>8. CoversKnown' /\ TargetKnown' /\ SumKnown' /\ OneHoldsTheOrder'
    <2>1. \A q \in Requests : req'[q].pc \notin {"coperto", "sum", "commit"}
      BY <1>1, <1>6
    <2> QED
      BY <2>1 DEF CoversKnown, TargetKnown, SumKnown, OneHoldsTheOrder
  <1>9. OneCoperto'
    <2>1. \A j \in Coperti : row'[j].status = "live" => row[j].status = "live"
      BY <1>4, <1>5, EditAssumption
    <2> QED
      BY <2>1 DEF LineInv, OneCoperto, LiveCoperti
  <1> QED
    BY <1>3, <1>7, <1>8, <1>9 DEF LineInv

\* What the commit of setOrderCovers writes.
LEMMA CoversCommitWrites ==
  ASSUME LineInv, NEW r \in Requests, CoversCommit(r)
  PROVE  /\ req[r].item \in Coperti /\ req[r].item \in Rows /\ req[r].arg \in Quantities
         /\ row' \in [Rows -> Row]
         /\ row'[req[r].item] = NewRow("live", req[r].arg, CopertoPrice)
         /\ \A j \in Rows \ {req[r].item} : row'[j] = row[j]
         /\ total' = Sum(row') /\ covers' = req[r].arg
  <1>1. /\ req[r].pc = "commit" /\ row' = Changed(r) /\ total' = req[r].sum /\ covers' = req[r].arg
    BY DEF CoversCommit
  <1>2. /\ req[r] \in Slot /\ req[r].item \in Rows /\ row[req[r].item] \in Row
        /\ Changed(r) \in [Rows -> Row]
    BY <1>1, ChangedIsTyped
  <1>3. /\ req[r].kind = "covers" /\ req[r].arg \in Quantities /\ req[r].item \in Coperti
        /\ row[req[r].item].status # "cancelled"
    BY <1>1 DEF LineInv, CoversKnown, TargetKnown
  <1>4. Written(req[r], row[req[r].item]) = NewRow("live", req[r].arg, CopertoPrice)
    BY <1>2, <1>3, CoversWrites
  <1>5. req[r].sum = Sum(Changed(r))
    BY <1>1 DEF LineInv, SumKnown
  <1> QED
    BY <1>1, <1>2, <1>3, <1>4, <1>5 DEF LineInv, Typed, Changed

LEMMA CoversCommitKeeps ==
  ASSUME LineInv, NEW r \in Requests, CoversCommit(r)
  PROVE  LineInv'
  <1> DEFINE i == req[r].item
  <1>1. /\ req[r].pc = "commit" /\ req' = [req EXCEPT ![r] = Idle]
    BY DEF CoversCommit
  <1>2. /\ i \in Coperti /\ i \in Rows /\ row' \in [Rows -> Row]
        /\ row'[i].status = "live"
        /\ \A j \in Rows \ {i} : row'[j] = row[j]
    <2>1. /\ i \in Coperti /\ i \in Rows /\ row' \in [Rows -> Row]
          /\ row'[i] = NewRow("live", req[r].arg, CopertoPrice)
          /\ \A j \in Rows \ {i} : row'[j] = row[j]
      BY CoversCommitWrites
    <2>2. NewRow("live", req[r].arg, CopertoPrice).status = "live"
      BY DEF NewRow
    <2> QED
      BY <2>1, <2>2
  <1>3. Typed'
    <2>1. Idle \in Slot
      BY DEF Idle, Slot, Sums
    <2> QED
      BY <1>1, <1>2, <2>1 DEF LineInv, Typed
  <1>4. req'[r].pc = "idle" /\ \A q \in Requests \ {r} : req'[q] = req[q]
    BY <1>1 DEF LineInv, Typed, Idle
  <1>5. \A q \in Requests : req'[q].pc \notin {"coperto", "sum", "commit"}
    BY <1>1, <1>4 DEF LineInv, OneHoldsTheOrder
  <1>6. CoversKnown' /\ TargetKnown' /\ SumKnown' /\ OneHoldsTheOrder'
    BY <1>5 DEF CoversKnown, TargetKnown, SumKnown, OneHoldsTheOrder
  <1>7. EditsKnown'
    <2>1. \A j \in Rows : row[j].status # "none" => row'[j].status # "none"
      BY <1>2
    <2> QED
      BY <1>4, <2>1 DEF LineInv, EditsKnown
  <1>8. OneCoperto'
    <2>1. row[i].status = "live" \/ LiveCoperti = {}
      BY <1>1 DEF LineInv, TargetKnown
    <2>2. \A j \in LiveCoperti : j = i
      BY <1>2, <2>1 DEF LineInv, OneCoperto, LiveCoperti
    <2>3. \A j \in Coperti : row'[j].status = "live" => j = i
      BY <1>2, <2>2, EditAssumption DEF LiveCoperti
    <2> QED
      BY <2>3 DEF OneCoperto, LiveCoperti
  <1> QED
    BY <1>3, <1>6, <1>7, <1>8 DEF LineInv

LEMMA LineStep == LineInv /\ [Next]_vars => LineInv'
  <1> SUFFICES ASSUME LineInv, [Next]_vars PROVE LineInv'
    OBVIOUS
  <1>1. CASE UNCHANGED <<row, req>>
    BY <1>1 DEF LineInv, Typed, EditsKnown, CoversKnown, TargetKnown, SumKnown, Changed,
       OneHoldsTheOrder, OneCoperto, LiveCoperti
  <1>2. ASSUME NEW r \in Requests, NEW i \in Rows,
               \/ \E p \in Prices : EditRead(r, "price", i, p)
               \/ \E n \in Quantities \cup {0} : EditRead(r, "quantity", i, n)
               \/ \E p \in Prices : EditRead(r, "weight", i, p)
        PROVE  LineInv'
    <2>1. Prices \subseteq Nat /\ Quantities \cup {0} \subseteq Nat
      BY EditAssumption
    <2> QED
      BY <1>2, <2>1, EditReadKeeps
  <1>3. ProcessPayment \/ UNCHANGED vars => UNCHANGED <<row, req>>
    BY DEF ProcessPayment, vars
  <1> QED
    BY <1>1, <1>2, <1>3, EditUpdateKeeps, EditCommitKeeps, CoversLockKeeps, CoversRowKeeps,
       CoversSumKeeps, CoversCommitKeeps, RollbackKeeps DEF Next

-----------------------------------------------------------------------------
\* The inductive invariant: who holds the order, which coperto is written, what was summed.
THEOREM LineInvariant == Spec => []LineInv
  BY InitInv, LineStep, PTL DEF Spec

\* However many change the number of guests at once, the order has one coperto at most.
THEOREM CopertoIsSingle == Spec => []OneCoperto
  <1>1. LineInv => OneCoperto
    BY DEF LineInv
  <1> QED
    BY <1>1, LineInvariant, PTL

\* Only setOrderCovers changes the number of guests.
LEMMA GuestsChange ==
  ASSUME LineInv, [Next]_vars, covers' # covers
  PROVE  \E r \in Requests : CoversCommit(r)
  BY DEF Next, vars, EditRead, EditUpdate, EditCommit, CoversLock, CoversRow, CoversSum, Rollback,
     ProcessPayment

\* Whoever edits or cancels the coperto meanwhile, the new number of guests is charged.
THEOREM NewGuestsAreCharged == Spec => GuestsAreCharged
  <1>1. ASSUME LineInv, [Next]_vars, covers' # covers
        PROVE  \E i \in Coperti : /\ row'[i].status = "live"
                                  /\ row'[i].qty = covers'
                                  /\ row'[i].price = CopertoPrice
    <2>1. PICK r \in Requests : CoversCommit(r)
      BY <1>1, GuestsChange
    <2>2. /\ req[r].item \in Coperti /\ covers' = req[r].arg
          /\ row'[req[r].item] = NewRow("live", req[r].arg, CopertoPrice)
      BY <1>1, <2>1, CoversCommitWrites
    <2> QED
      BY <2>2 DEF NewRow
  <1> QED
    BY <1>1, LineInvariant, PTL DEF Spec, GuestsAreCharged

\* The total setOrderCovers leaves is the sum of the rows as it leaves them.
THEOREM TotalIsRepaired == Spec => CoversRepairTotal
  <1>1. ASSUME LineInv, [Next]_vars, covers' # covers
        PROVE  total' = Sum(row')
    BY <1>1, GuestsChange, CoversCommitWrites
  <1> QED
    BY <1>1, LineInvariant, PTL DEF Spec, CoversRepairTotal

-----------------------------------------------------------------------------
(* Sums are numbers.                                                       *)

\* What the fold adds up over s, if g is what it adds up over less.
Partial(f, g, s) ==
  IF s = {} THEN 0 ELSE f[CHOOSE i \in s : TRUE] + g[s \ {CHOOSE i \in s : TRUE}]

\* A set of numbers has a least one.
LEMMA LeastNumber ==
  ASSUME NEW T, T \subseteq Nat, T # {}
  PROVE  \E n \in T : \A m \in T : n <= m
  <1>1. PICK n \in T : \A m \in T : <<m, n>> \notin OpToRel(<, Nat)
    BY NatLessThanWellFounded, WFMin
  <1>2. \A m \in T : ~(m < n)
    BY <1>1 DEF OpToRel
  <1> QED
    BY <1>2

\* A set that is not empty loses one element with the one that is picked.
LEMMA PickOne ==
  ASSUME NEW s, IsFiniteSet(s), s # {}
  PROVE  /\ (CHOOSE i \in s : TRUE) \in s
         /\ Cardinality(s) \in Nat \ {0}
         /\ IsFiniteSet(s \ {CHOOSE i \in s : TRUE})
         /\ Cardinality(s \ {CHOOSE i \in s : TRUE}) = Cardinality(s) - 1
  <1> DEFINE i == CHOOSE i \in s : TRUE
  <1>1. i \in s
    OBVIOUS
  <1> HIDE DEF i
  <1>2. /\ IsFiniteSet(s \ {i})
        /\ Cardinality(s \ {i}) = Cardinality(s) - 1
    BY <1>1, FS_RemoveElement
  <1>3. Cardinality(s) \in Nat \ {0}
    BY FS_CardinalityType, FS_EmptySet
  <1> QED
    BY <1>1, <1>2, <1>3 DEF i

\* The fold, as the library defines it.
LEMMA SumUnfold ==
  ASSUME NEW f
  PROVE  FoldFunction(+, 0, f)
           = (CHOOSE g : g = [s \in SUBSET DOMAIN f |-> Partial(f, g, s)])[DOMAIN f]
  BY DEF FoldFunction, FoldFunctionOnSet, MapThenFoldSet, Partial

\* The recursion of the fold has a solution.
LEMMA SumDefined ==
  ASSUME NEW S, IsFiniteSet(S), NEW f \in [S -> Nat]
  PROVE  \E g : g = [s \in SUBSET S |-> Partial(f, g, s)]
  <1> DEFINE Solves(g, n) == \A s \in SUBSET S : Cardinality(s) <= n => g[s] = Partial(f, g, s)
             Failing == {n \in Nat : \A g \in [SUBSET S -> Nat] : ~Solves(g, n)}
  <1>1. \A s \in SUBSET S : IsFiniteSet(s) /\ Cardinality(s) \in Nat
    BY FS_Subset, FS_CardinalityType
  <1>2. ASSUME NEW n \in Failing, \A m \in Failing : n <= m PROVE FALSE
    <2>1. CASE n = 0
      <3> DEFINE g == [s \in SUBSET S |-> 0]
      <3>1. ASSUME NEW s \in SUBSET S, Cardinality(s) <= 0 PROVE g[s] = Partial(f, g, s)
        <4>1. s = {}
          BY <1>1, <3>1, FS_EmptySet
        <4> QED
          BY <4>1 DEF Partial
      <3>2. g \in [SUBSET S -> Nat]
        OBVIOUS
      <3> QED
        BY <2>1, <3>1, <3>2
    <2>2. CASE n # 0
      <3>1. n \in Nat /\ n - 1 \in Nat /\ ~(n <= n - 1)
        BY <2>2
      <3>2. n - 1 \notin Failing
        BY <1>2, <3>1
      <3>3. PICK g \in [SUBSET S -> Nat] : Solves(g, n - 1)
        BY <3>1, <3>2
      <3> DEFINE h == [s \in SUBSET S |-> Partial(f, g, s)]
      <3>4. ASSUME NEW s \in SUBSET S PROVE Partial(f, g, s) \in Nat
        <4>1. CASE s = {}
          BY <4>1 DEF Partial
        <4>2. CASE s # {}
          <5>1. (CHOOSE i \in s : TRUE) \in S
            BY <1>1, <4>2, PickOne
          <5> QED
            BY <4>2, <5>1 DEF Partial
        <4> QED
          BY <4>1, <4>2
      <3>5. ASSUME NEW s \in SUBSET S, Cardinality(s) <= n PROVE h[s] = Partial(f, h, s)
        <4>1. CASE s = {}
          BY <4>1 DEF Partial
        <4>2. CASE s # {}
          <5> DEFINE t == s \ {CHOOSE i \in s : TRUE}
          <5>1. t \in SUBSET S /\ Cardinality(t) \in Nat /\ Cardinality(t) <= n - 1
            BY <1>1, <3>1, <3>5, <4>2, PickOne
          <5>2. h[t] = g[t]
            BY <3>3, <5>1
          <5> QED
            BY <4>2, <5>2 DEF Partial
        <4> QED
          BY <4>1, <4>2
      <3>6. h \in [SUBSET S -> Nat]
        BY <3>4
      <3> QED
        BY <3>5, <3>6
    <2> QED
      BY <2>1, <2>2
  <1>3. Failing = {}
    <2>1. Failing \subseteq Nat
      OBVIOUS
    <2> HIDE DEF Failing
    <2> QED
      BY <1>2, <2>1, LeastNumber
  <1>4. PICK g \in [SUBSET S -> Nat] : Solves(g, Cardinality(S))
    BY <1>1, <1>3
  <1>5. \A s \in SUBSET S : g[s] = Partial(f, g, s)
    BY <1>4, FS_Subset
  <1> QED
    BY <1>4, <1>5

\* The sum of finitely many numbers is a number.
LEMMA SumIsNat ==
  ASSUME NEW S, IsFiniteSet(S), NEW f \in [S -> Nat]
  PROVE  FoldFunction(+, 0, f) \in Nat
  <1> DEFINE G == CHOOSE g : g = [s \in SUBSET S |-> Partial(f, g, s)]
             Failing == {n \in Nat : \E s \in SUBSET S : Cardinality(s) = n /\ G[s] \notin Nat}
  <1>1. G = [s \in SUBSET S |-> Partial(f, G, s)]
    BY SumDefined
  <1>2. FoldFunction(+, 0, f) = G[S]
    BY SumUnfold
  <1> HIDE DEF G
  <1>3. \A s \in SUBSET S : IsFiniteSet(s) /\ Cardinality(s) \in Nat
    BY FS_Subset, FS_CardinalityType
  <1>4. ASSUME NEW n \in Failing, \A m \in Failing : n <= m PROVE FALSE
    <2>1. PICK s \in SUBSET S : Cardinality(s) = n /\ G[s] \notin Nat
      OBVIOUS
    <2>2. G[s] = Partial(f, G, s)
      BY <1>1
    <2>3. s # {}
      BY <2>1, <2>2 DEF Partial
    <2> DEFINE i == CHOOSE i \in s : TRUE
    <2>4. /\ i \in S /\ s \ {i} \in SUBSET S
          /\ Cardinality(s) \in Nat /\ Cardinality(s \ {i}) = Cardinality(s) - 1
          /\ Cardinality(s \ {i}) \in Nat
      BY <1>3, <2>3, PickOne
    <2>5. G[s \ {i}] \in Nat
      BY <1>4, <2>1, <2>4
    <2>6. G[s] = f[i] + G[s \ {i}]
      BY <2>2, <2>3 DEF Partial
    <2> HIDE DEF i
    <2> QED
      BY <2>1, <2>4, <2>5, <2>6
  <1>5. Failing = {}
    <2>1. Failing \subseteq Nat
      OBVIOUS
    <2> HIDE DEF Failing
    <2> QED
      BY <1>4, <2>1, LeastNumber
  <1> QED
    BY <1>2, <1>3, <1>5
LEMMA SumsAreNat == Sums \subseteq Nat
  <1> SUFFICES ASSUME NEW rows \in [Rows -> Row] PROVE Sum(rows) \in Nat
    BY DEF Sums
  <1> DEFINE f == [i \in Rows |-> IF rows[i].status = "live" THEN rows[i].subtotal ELSE 0]
  <1>1. f \in [Rows -> Nat]
    BY DEF Row
  <1> HIDE DEF f
  <1>2. FoldFunction(+, 0, f) \in Nat
    BY <1>1, EditAssumption, SumIsNat
  <1> QED
    BY <1>2 DEF Sum, f

\* The columns of the order.
OrderTyped == open \in BOOLEAN /\ covers \in Quantities /\ total \in Sums

LEMMA OrderTypedInit == Init => OrderTyped
  <1> SUFFICES ASSUME Init PROVE OrderTyped
    OBVIOUS
  <1>1. row \in [Rows -> Row]
    BY InitInv DEF LineInv, Typed
  <1>2. open = TRUE /\ covers = 1 /\ total = Sum(row)
    BY DEF Init
  <1> QED
    BY <1>1, <1>2, EditAssumption DEF OrderTyped, Sums

LEMMA OrderTypedStep == LineInv /\ OrderTyped /\ [Next]_vars => OrderTyped'
  <1> SUFFICES ASSUME LineInv, OrderTyped, [Next]_vars PROVE OrderTyped'
    OBVIOUS
  <1>1. CASE UNCHANGED <<open, covers, total>>
    BY <1>1 DEF OrderTyped
  <1>2. ASSUME NEW r \in Requests, EditCommit(r) PROVE OrderTyped'
    <2>1. req[r].sum \in Sums
      BY DEF LineInv, Typed, Slot
    <2> QED
      BY <1>2, <2>1 DEF EditCommit, OrderTyped
  <1>3. ASSUME NEW r \in Requests, CoversCommit(r) PROVE OrderTyped'
    <2>1. req[r].sum \in Sums /\ req[r].arg \in Quantities
      BY <1>3, CoversCommitWrites DEF LineInv, Typed, Slot
    <2> QED
      BY <1>3, <2>1 DEF CoversCommit, OrderTyped
  <1>4. CASE ProcessPayment
    BY <1>4 DEF ProcessPayment, OrderTyped
  <1> QED
    BY <1>1, <1>2, <1>3, <1>4 DEF Next, vars, EditRead, EditUpdate, CoversLock, CoversRow,
       CoversSum, Rollback

\* Order, rows and requests stay well formed, and every sum that is kept is a number.
THEOREM TypeCorrect == Spec => []TypeOK
  <1>1. LineInv /\ OrderTyped => TypeOK
    <2> SUFFICES ASSUME LineInv, OrderTyped PROVE TypeOK
      OBVIOUS
    <2>1. Slot \subseteq Request
      BY SumsAreNat DEF Slot, Request
    <2> QED
      BY <2>1, SumsAreNat DEF LineInv, Typed, OrderTyped, TypeOK
  <1> QED
    BY <1>1, InitInv, LineStep, OrderTypedInit, OrderTypedStep, PTL DEF Spec

-----------------------------------------------------------------------------
\* An edit that writes what it has read, unchanged since, leaves the subtotal right.
LEMMA FreshEditIsConsistent ==
  ASSUME NEW q \in Slot, NEW old \in Row,
         q.kind # "covers", q.qty = old.qty, q.price = old.price,
         q.kind = "quantity" => q.arg \in Quantities \cup {0},
         old.subtotal = old.qty * old.price
  PROVE  Written(q, old).subtotal = Written(q, old).qty * Written(q, old).price
  <1>1. /\ old.qty \in Nat /\ old.price \in Nat /\ q.arg \in Nat /\ NewPrice(q) \in Nat
    BY EditAssumption DEF Row, Slot, NewPrice
  <1>2. CASE old.status = "cancelled"
    BY <1>2 DEF Written
  <1>3. CASE old.status # "cancelled" /\ q.kind # "quantity"
    <2>1. Written(q, old) = Priced(old, NewPrice(q), q.qty)
      BY <1>3 DEF Written
    <2>2. \A p \in Nat, n \in Nat : p * n = n * p
      OBVIOUS
    <2>3. /\ Written(q, old).subtotal = NewPrice(q) * q.qty
          /\ Written(q, old).qty = old.qty /\ Written(q, old).price = NewPrice(q)
      BY <2>1 DEF Priced, Row
    <2> QED
      BY <1>1, <2>2, <2>3
  <1>4. CASE old.status # "cancelled" /\ q.kind = "quantity" /\ q.arg = 0
    BY <1>4 DEF Written, Gone, NewRow
  <1>5. CASE old.status # "cancelled" /\ q.kind = "quantity" /\ q.arg # 0
    <2>1. Written(q, old) = Counted(old, q.price, q.arg)
      BY <1>5 DEF Written
    <2>2. \A p \in Nat, n \in Nat : p * n = n * p
      OBVIOUS
    <2>3. /\ Written(q, old).subtotal = q.price * q.arg
          /\ Written(q, old).qty = q.arg /\ Written(q, old).price = old.price
      BY <2>1 DEF Counted, Row
    <2> QED
      BY <1>1, <2>2, <2>3
  <1> QED
    BY <1>2, <1>3, <1>4, <1>5

\* Every step that breaks a subtotal is the write of a request whose read is stale.
LEMMA BreaksOnlyStale ==
  ASSUME LineInv, [Next]_vars, NEW i \in Rows, Consistent(i), ~Consistent(i)'
  PROVE  \E r \in Requests : /\ req[r].pc = "trigger" /\ req[r].item = i
                             /\ <<req[r].qty, req[r].price>> # <<row[i].qty, row[i].price>>
  <1>1. row'[i] # row[i]
    BY DEF Consistent
  <1>2. \E r \in Requests : EditCommit(r) \/ CoversCommit(r)
    BY <1>1 DEF Next, vars, EditRead, EditUpdate, CoversLock, CoversRow, CoversSum, Rollback,
       ProcessPayment
  <1>3. ASSUME NEW r \in Requests, CoversCommit(r) PROVE FALSE
    <2>1. row'[i] = NewRow("live", req[r].arg, CopertoPrice)
      BY <1>1, <1>3, CoversCommitWrites
    <2>2. row'[i].subtotal = row'[i].qty * row'[i].price
      BY <2>1 DEF NewRow
    <2> QED
      BY <2>2 DEF Consistent
  <1>4. PICK r \in Requests : EditCommit(r)
    BY <1>2, <1>3
  <1>5. req[r].pc = "trigger" /\ row' = Changed(r)
    BY <1>4 DEF EditCommit
  <1>6. req[r] \in Slot /\ row[i] \in Row /\ row \in [Rows -> Row]
    BY DEF LineInv, Typed
  <1>7. req[r].item = i /\ row'[i] = Written(req[r], row[i])
    BY <1>1, <1>5, <1>6 DEF Changed
  <1>8. ASSUME req[r].qty = row[i].qty, req[r].price = row[i].price PROVE FALSE
    <2>1. /\ req[r].kind # "covers"
          /\ req[r].kind = "quantity" => req[r].arg \in Quantities \cup {0}
      BY <1>5 DEF LineInv, EditsKnown
    <2>2. row'[i].subtotal = row'[i].qty * row'[i].price
      BY <1>6, <1>7, <1>8, <2>1, FreshEditIsConsistent DEF Consistent
    <2> QED
      BY <2>2 DEF Consistent
  <1> QED
    BY <1>5, <1>7, <1>8

\* The only way to a wrong subtotal is a row that was written between read and write.
THEOREM SubtotalBreaksOnlyStale == Spec => SubtotalOnlyStale
  <1>1. ASSUME LineInv, [Next]_vars
        PROVE  \A i \in Rows : Consistent(i) /\ ~Consistent(i)' =>
                 \E r \in Requests :
                   /\ req[r].pc = "trigger" /\ req[r].item = i
                   /\ <<req[r].qty, req[r].price>> # <<row[i].qty, row[i].price>>
    BY <1>1, BreaksOnlyStale
  <1> QED
    BY <1>1, LineInvariant, PTL DEF Spec, SubtotalOnlyStale
=============================================================================
