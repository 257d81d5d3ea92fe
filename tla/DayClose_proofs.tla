---------------------------- MODULE DayClose_proofs ----------------------------
(***************************************************************************)
(* Proofs about DayClose for any finite set of registers, any requests and *)
(* any number of payments: the two indexes, not the handler, leave one row *)
(* for each register, and what a closing seals was sold before.            *)
(***************************************************************************)
EXTENDS DayClose, FiniteSetTheorems, SequenceTheorems, TLAPS

\* A closing inserts later what it has read: it must still have been sold then.
ReadWasSold ==
  \A k \in Keys : \A r \in Requests : req[r].register = k => req[r].total <= Total(k)

DayInv == TypeOK /\ OneRowPerRegister /\ SealedWasSold /\ ReadWasSold

-----------------------------------------------------------------------------
(* Totals.                                                                 *)

\* The payments a closing adds up are finitely many.
LEMMA Payments == IsFiniteSet(Keys \X (1 .. MaxSales))
<1>1. IsFiniteSet(Keys)
  BY DayAssumption, FS_AddElement DEF Keys
<1>2. IsFiniteSet(1 .. MaxSales)
  BY DayAssumption, FS_Interval
<1> QED
  BY <1>1, <1>2, FS_Product

LEMMA TotalType ==
  ASSUME NEW k
  PROVE  IsFiniteSet(PaymentsOf(k)) /\ Total(k) \in Nat
<1>1. PaymentsOf(k) \in SUBSET (Keys \X (1 .. MaxSales))
  BY DEF PaymentsOf
<1>2. IsFiniteSet(PaymentsOf(k))
  BY <1>1, Payments, FS_Subset
<1> QED
  BY <1>2, FS_CardinalityType DEF Total

\* No step takes a payment back: totals only grow.
LEMMA TotalsGrow ==
  ASSUME TypeOK, [Next]_vars
  PROVE  \A k : Total(k) \in Nat /\ Total(k)' \in Nat /\ Total(k) <= Total(k)'
<1> SUFFICES ASSUME NEW k
             PROVE  Total(k) \in Nat /\ Total(k)' \in Nat /\ Total(k) <= Total(k)'
  OBVIOUS
<1>1. ASSUME NEW j \in Keys PROVE sales[j] \in Nat /\ sales'[j] \in Nat /\ sales[j] <= sales'[j]
  <2>1. sales[j] \in Nat
    BY DEF TypeOK
  <2>2. CASE UNCHANGED sales
    BY <2>1, <2>2
  <2>3. ASSUME NEW c \in Keys, Pay(c) PROVE sales'[j] \in Nat /\ sales[j] <= sales'[j]
    BY <2>1, <2>3 DEF Pay, TypeOK
  <2> QED
    BY <2>1, <2>2, <2>3 DEF Next, CloseRead, CloseInsert, CloseRefused, OpenDay, vars
<1>2. PaymentsOf(k) \subseteq PaymentsOf(k)'
  BY <1>1, DayAssumption DEF PaymentsOf
<1>3. IsFiniteSet(PaymentsOf(k)')
  <2>1. PaymentsOf(k)' \in SUBSET (Keys \X (1 .. MaxSales))
    BY DEF PaymentsOf
  <2> QED
    BY <2>1, Payments, FS_Subset
<1> QED
  BY <1>2, <1>3, TotalType, FS_Subset, FS_CardinalityType DEF Total

-----------------------------------------------------------------------------
(* Statements on day_closures.                                             *)

\* A row, new or written, for register k that seals what was sold.
Sealed(row, k) == row \in Row /\ row.register = k /\ row.total <= Total(k)'

\* What was sealed before stays so.
LEMMA SealedBefore ==
  ASSUME TypeOK, SealedWasSold, [Next]_vars, NEW k \in Keys, NEW i \in RowsOf(k)
  PROVE  Sealed(rows[i], k)
<1>1. rows[i] \in Row /\ rows[i].register = k /\ rows[i].total <= Total(k)
  BY DEF TypeOK, RowsOf, SealedWasSold
<1> QED
  BY <1>1, TotalsGrow DEF Sealed, Row

\* INSERT of a row for a register that has none.
LEMMA InsertKeeps ==
  ASSUME DayInv, [Next]_vars, NEW k \in Keys, NEW row, Sealed(row, k), RowsOf(k) = {},
         rows' = Append(rows, row)
  PROVE  rows' \in Seq(Row) /\ OneRowPerRegister' /\ SealedWasSold'
<1>1. /\ Len(rows) \in Nat /\ DOMAIN rows = 1 .. Len(rows)
      /\ rows' \in Seq(Row)
      /\ DOMAIN rows' = 1 .. Len(rows) + 1
      /\ \A i \in 1 .. Len(rows) : rows'[i] = rows[i]
      /\ rows'[Len(rows) + 1] = row
  BY AppendProperties DEF DayInv, TypeOK, Sealed
<1>2. /\ RowsOf(k)' = {Len(rows) + 1}
      /\ \A j \in Keys \ {k} : RowsOf(j)' = RowsOf(j)
  BY <1>1 DEF RowsOf, Sealed
<1>3. OneRowPerRegister'
  BY <1>2 DEF DayInv, OneRowPerRegister
<1>4. SealedWasSold'
  <2> SUFFICES ASSUME NEW j \in Keys, NEW i \in RowsOf(j)'
               PROVE  rows'[i].total <= Total(j)'
    BY DEF SealedWasSold
  <2>1. CASE j = k
    BY <1>1, <1>2, <2>1 DEF Sealed
  <2>2. CASE j # k
    <3>1. i \in RowsOf(j) /\ rows'[i] = rows[i]
      BY <1>1, <1>2, <2>2 DEF RowsOf
    <3> QED
      BY <3>1, SealedBefore DEF Sealed, DayInv
  <2> QED
    BY <2>1, <2>2
<1> QED
  BY <1>1, <1>3, <1>4

\* UPDATE of rows that leaves their registers alone.
LEMMA UpdateKeeps ==
  ASSUME DayInv, [Next]_vars, rows' = [i \in DOMAIN rows |-> rows'[i]],
         \A k \in Keys : \A i \in RowsOf(k) : Sealed(rows'[i], k)
  PROVE  rows' \in Seq(Row) /\ OneRowPerRegister' /\ SealedWasSold'
<1>1. Len(rows) \in Nat /\ DOMAIN rows = 1 .. Len(rows)
  BY DEF DayInv, TypeOK
<1>2. ASSUME NEW i \in 1 .. Len(rows)
      PROVE  rows'[i] \in Row /\ rows'[i].register = rows[i].register
  <2>1. rows[i] \in Row
    BY DEF DayInv, TypeOK
  <2>2. PICK k \in Keys : rows[i].register = k
    BY <2>1 DEF Row
  <2> QED
    BY <1>1, <2>2 DEF RowsOf, Sealed
<1>3. rows' \in Seq(Row)
  <2>1. rows' \in [1 .. Len(rows) -> Row]
    BY <1>1, <1>2
  <2> QED
    BY <1>1, <2>1, SeqDef
<1>6. \A k \in Keys : RowsOf(k)' = RowsOf(k)
  BY <1>1, <1>2 DEF RowsOf
<1>4. OneRowPerRegister'
  BY <1>6 DEF DayInv, OneRowPerRegister
<1>5. SealedWasSold'
  BY <1>6 DEF SealedWasSold, Sealed
<1> QED
  BY <1>3, <1>4, <1>5

LEMMA InitInv == Init => DayInv
<1> SUFFICES ASSUME Init PROVE DayInv
  OBVIOUS
<1>1. TypeOK /\ OneRowPerRegister /\ SealedWasSold
  BY DEF Init, TypeOK, Idle, Keys, OneRowPerRegister, SealedWasSold, RowsOf
<1>2. ReadWasSold
  BY TotalType DEF Init, Idle, ReadWasSold
<1> QED
  BY <1>1, <1>2 DEF DayInv

\* What a request read stays sold, and what it reads now is.
LEMMA ReadStep ==
  ASSUME DayInv, [Next]_vars
  PROVE  req' \in [Requests -> [pc : {"idle", "insert"}, register : Keys, total : Nat]]
         /\ ReadWasSold'
<1>1. req \in [Requests -> [pc : {"idle", "insert"}, register : Keys, total : Nat]]
  BY DEF DayInv, TypeOK
<1>2. \A k \in Keys : Total(k) \in Nat /\ Total(k)' \in Nat /\ Total(k) <= Total(k)'
  BY TotalsGrow DEF DayInv
<1>3. CASE UNCHANGED req
  BY <1>1, <1>2, <1>3 DEF DayInv, ReadWasSold
<1>4. ASSUME NEW r \in Requests, req' = [req EXCEPT ![r] = Idle]
      PROVE  req' \in [Requests -> [pc : {"idle", "insert"}, register : Keys, total : Nat]]
             /\ ReadWasSold'
  BY <1>1, <1>2, <1>4 DEF DayInv, ReadWasSold, Idle, Keys
<1>5. ASSUME NEW r \in Requests, NEW k \in Keys, CloseRead(r, k)
      PROVE  req' \in [Requests -> [pc : {"idle", "insert"}, register : Keys, total : Nat]]
             /\ ReadWasSold'
  <2>1. req' = [req EXCEPT ![r] = [pc |-> "insert", register |-> k, total |-> Total(k)]]
    BY <1>5 DEF CloseRead
  <2> QED
    BY <1>1, <1>2, <2>1 DEF DayInv, ReadWasSold
<1> QED
  BY <1>3, <1>4, <1>5 DEF Next, Pay, CloseInsert, CloseRefused, OpenDay, vars

\* A day that is opened, or opened again, keeps the totals that were sealed.
LEMMA OpenStep ==
  ASSUME DayInv, [Next]_vars, OpenDay
  PROVE  rows' \in Seq(Row) /\ OneRowPerRegister' /\ SealedWasSold'
<1>1. Null \in Keys /\ Total(Null)' \in Nat
  BY TotalsGrow DEF DayInv, Keys
<1>2. CASE RowsOf(Null) = {}
  <2> DEFINE row == [register |-> Null, opened |-> TRUE, closed |-> FALSE, total |-> 0]
  <2>1. rows' = Append(rows, row)
    BY <1>2 DEF OpenDay, SameGlobal
  <2>2. Sealed(row, Null)
    BY <1>1 DEF Sealed, Row
  <2> HIDE DEF row
  <2> QED
    BY <1>1, <1>2, <2>1, <2>2, InsertKeeps
<1>3. CASE RowsOf(Null) # {}
  <2>1. rows' = [i \in DOMAIN rows |->
                   IF i \in RowsOf(Null)
                   THEN [rows[i] EXCEPT !.opened = TRUE, !.closed = FALSE] ELSE rows[i]]
    BY <1>3 DEF OpenDay, SameGlobal
  <2>2. ASSUME NEW k \in Keys, NEW i \in RowsOf(k) PROVE Sealed(rows'[i], k)
    <3>1. Sealed(rows[i], k)
      BY SealedBefore DEF DayInv
    <3>2. i \in DOMAIN rows
      BY DEF RowsOf
    <3> QED
      BY <2>1, <3>1, <3>2 DEF Sealed, Row
  <2> QED
    BY <2>1, <2>2, UpdateKeeps
<1> QED
  BY <1>2, <1>3

\* A closing writes what it read: payments that came since are missing in its row, and
\* none is in it that was not made.
LEMMA CloseStep ==
  ASSUME DayInv, [Next]_vars, NEW r \in Requests, CloseInsert(r)
  PROVE  rows' \in Seq(Row) /\ OneRowPerRegister' /\ SealedWasSold'
<1>1. PICK k \in Keys : k = req[r].register
  BY DEF DayInv, TypeOK
<1>2. PICK n \in Nat : n = req[r].total
  BY DEF DayInv, TypeOK
<1>3. n <= Total(k)'
  <2>1. n <= Total(k)
    BY <1>1, <1>2 DEF DayInv, ReadWasSold
  <2> QED
    BY <2>1, TotalsGrow DEF DayInv
<1>4. CASE /\ RowsOf(k) = {}
           /\ rows' = Append(rows, [register |-> k, opened |-> FALSE, closed |-> FALSE,
                                    total |-> n])
  <2> DEFINE row == [register |-> k, opened |-> FALSE, closed |-> FALSE, total |-> n]
  <2>1. Sealed(row, k) /\ rows' = Append(rows, row)
    BY <1>3, <1>4 DEF Sealed, Row
  <2> HIDE DEF row
  <2> QED
    BY <1>4, <2>1, InsertKeeps
<1>5. CASE rows' = [i \in DOMAIN rows |-> IF i \in RowsOf(k) THEN Reclosed(rows[i], n)
                                                            ELSE rows[i]]
  <2>1. ASSUME NEW j \in Keys, NEW i \in RowsOf(j) PROVE Sealed(rows'[i], j)
    <3>1. Sealed(rows[i], j)
      BY SealedBefore DEF DayInv
    <3>2. i \in DOMAIN rows /\ (i \in RowsOf(k) => j = k)
      BY DEF RowsOf
    <3> QED
      BY <1>3, <1>5, <3>1, <3>2 DEF Sealed, Row, Reclosed
  <2> QED
    BY <1>5, <2>1, UpdateKeeps
<1> QED
  BY <1>1, <1>2, <1>4, <1>5 DEF CloseInsert, SameUnique, SameGlobal

\* Payments, and a closing that is refused, leave the rows alone.
LEMMA OtherStep ==
  ASSUME DayInv, [Next]_vars, UNCHANGED rows
  PROVE  rows' \in Seq(Row) /\ OneRowPerRegister' /\ SealedWasSold'
<1>1. \A k : RowsOf(k)' = RowsOf(k)
  BY DEF RowsOf
<1>2. SealedWasSold'
  <2> SUFFICES ASSUME NEW k \in Keys, NEW i \in RowsOf(k)
               PROVE  rows'[i].total <= Total(k)'
    BY <1>1 DEF SealedWasSold
  <2> QED
    BY SealedBefore DEF DayInv, Sealed
<1> QED
  BY <1>1, <1>2 DEF DayInv, TypeOK, OneRowPerRegister

LEMMA StepInv == DayInv /\ [Next]_vars => DayInv'
<1> SUFFICES ASSUME DayInv, [Next]_vars PROVE DayInv'
  OBVIOUS
<1>1. sales' \in [Keys -> Nat]
  <2>1. CASE UNCHANGED sales
    BY <2>1 DEF DayInv, TypeOK
  <2>2. ASSUME NEW k \in Keys, Pay(k) PROVE sales' \in [Keys -> Nat]
    BY <2>2 DEF Pay, DayInv, TypeOK
  <2> QED
    BY <2>1, <2>2 DEF Next, CloseRead, CloseInsert, CloseRefused, OpenDay, vars
<1>2. rows' \in Seq(Row) /\ OneRowPerRegister' /\ SealedWasSold'
  BY OpenStep, CloseStep, OtherStep DEF Next, Pay, CloseRead, CloseRefused, vars
<1> QED
  BY <1>1, <1>2, ReadStep DEF DayInv, TypeOK

-----------------------------------------------------------------------------
\* Sales, rows and requests stay well formed; the totals are finite.
THEOREM TypeCorrect == Spec => []TypeOK
<1>1. DayInv => TypeOK
  BY DEF DayInv
<1> QED BY <1>1, InitInv, StepInv, PTL DEF Spec

\* Openings and closings of any registers, in any order and at the same time, leave
\* at most one row per register, and one of the whole day.
THEOREM OneRow == Spec => []OneRowPerRegister
<1>1. DayInv => OneRowPerRegister
  BY DEF DayInv
<1> QED BY <1>1, InitInv, StepInv, PTL DEF Spec

\* However late a closing inserts what it read, and however many closings overwrite each
\* other: no register, and not the whole day, is sealed with more than was sold.
THEOREM SealedTotalsWereSold == Spec => []SealedWasSold
<1>1. DayInv => SealedWasSold
  BY DEF DayInv
<1> QED BY <1>1, InitInv, StepInv, PTL DEF Spec
=============================================================================
