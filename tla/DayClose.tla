-------------------------------- MODULE DayClose --------------------------------
(***************************************************************************)
(* One business date in day_closures: openDay, closeDay and the payments   *)
(* that closeDay adds up (dayClose.controller.js).  A row belongs to a     *)
(* cash register, or to the whole restaurant when its register is NULL.    *)
(*                                                                         *)
(* closeDay reads the totals and writes the row in separate statements     *)
(* without a transaction, so payments and other closings come in between.  *)
(* Money is counted in payments.                                           *)
(***************************************************************************)
EXTENDS Naturals, Sequences, FiniteSets

CONSTANTS
  Registers,   \* cash registers
  Null,        \* no register: of a payment, or of the row of the whole day
  Requests,    \* HTTP requests the server works on at the same time
  MaxSales     \* bound: payments of one register on this date

ASSUME DayAssumption ==
  /\ IsFiniteSet(Registers) /\ Null \notin Registers
  /\ MaxSales \in Nat

VARIABLES
  sales,   \* payments of the date, by register
  rows,    \* the rows of day_closures for the date, in the order of their INSERT
  req      \* closings that have read their totals

vars == <<sales, rows, req>>

-----------------------------------------------------------------------------
Keys == Registers \cup {Null}
Row  == [register : Keys, opened : BOOLEAN, closed : BOOLEAN, total : Nat]
Idle == [pc |-> "idle", register |-> Null, total |-> 0]

Init ==
  /\ sales = [k \in Keys |-> 0]
  /\ rows = <<>>
  /\ req = [r \in Requests |-> Idle]

\* Mistake: the sum over no payments is NULL.
TotalOrNull(k) == IF \A j \in Keys : sales[j] = 0 THEN Null ELSE sales[k]

\* The payments a closing of register k adds up: one without register includes all.
PaymentsOf(k) ==
  {p \in Keys \X (1 .. MaxSales) : p[2] <= sales[p[1]] /\ k \in {Null, p[1]}}

Total(k) == Cardinality(PaymentsOf(k))

RowsOf(k) == {i \in DOMAIN rows : rows[i].register = k}

\* UNIQUE (tenant_id, business_date, register): NULL is equal to nothing.
SameUnique(k) == IF k = Null THEN {} ELSE RowsOf(k)

\* Mistake: the index of migration 032 does not exist.
NoIndex(k) == {}

\* uniq_day_closures_global: the partial index over the rows with register NULL.
SameGlobal(k) == IF k = Null THEN RowsOf(k) ELSE {}

-----------------------------------------------------------------------------
Pay(k) ==
  /\ sales[k] < MaxSales
  /\ sales' = [sales EXCEPT ![k] = @ + 1]
  /\ UNCHANGED <<rows, req>>

\* INSERT ... ON CONFLICT on the partial index DO UPDATE; the totals are kept.
OpenDay ==
  /\ rows' = IF SameGlobal(Null) = {}
             THEN Append(rows, [register |-> Null, opened |-> TRUE,
                                closed |-> FALSE, total |-> 0])
             ELSE [i \in DOMAIN rows |->
                     IF i \in SameGlobal(Null)
                     THEN [rows[i] EXCEPT !.opened = TRUE, !.closed = FALSE]
                     ELSE rows[i]]
  /\ UNCHANGED <<sales, req>>

CloseRead(r, k) ==
  /\ req[r].pc = "idle"
  /\ req' = [req EXCEPT ![r] = [pc |-> "insert", register |-> k, total |-> Total(k)]]
  /\ UNCHANGED <<sales, rows>>

\* Mistake: closing again adds the totals to those of the first closing.
ReclosedAdding(row, total) == [row EXCEPT !.closed = TRUE, !.total = @ + total]

\* DO UPDATE SET total = EXCLUDED.total.
Reclosed(row, total) == [row EXCEPT !.closed = TRUE, !.total = total]

\* INSERT ... ON CONFLICT (tenant_id, business_date, register) DO UPDATE.  Only the DO UPDATE
\* sets closed_at: it stays NULL in a row that the closing inserts.
CloseInsert(r) ==
  /\ req[r].pc = "insert"
  /\ LET k == req[r].register IN
       \/ /\ SameUnique(k) = {} /\ SameGlobal(k) = {}
          /\ rows' = Append(rows, [register |-> k, opened |-> FALSE, closed |-> FALSE,
                                   total |-> req[r].total])
       \/ /\ SameUnique(k) # {}
          /\ rows' = [i \in DOMAIN rows |->
                        IF i \in SameUnique(k)
                        THEN Reclosed(rows[i], req[r].total)
                        ELSE rows[i]]
  /\ req' = [req EXCEPT ![r] = Idle]
  /\ UNCHANGED sales

\* The INSERT meets the other index: it is not the one named in ON CONFLICT, and
\* the statement fails.
CloseRefused(r) ==
  /\ req[r].pc = "insert"
  /\ SameUnique(req[r].register) = {} /\ SameGlobal(req[r].register) # {}
  /\ req' = [req EXCEPT ![r] = Idle]
  /\ UNCHANGED <<sales, rows>>

Next ==
  \/ \E k \in Keys : Pay(k) \/ \E r \in Requests : CloseRead(r, k)
  \/ \E r \in Requests : CloseInsert(r) \/ CloseRefused(r)
  \/ OpenDay

Spec == Init /\ [][Next]_vars

-----------------------------------------------------------------------------
TypeOK ==
  /\ sales \in [Keys -> Nat]
  /\ rows \in Seq(Row)
  /\ req \in [Requests -> [pc : {"idle", "insert"}, register : Keys, total : Nat]]

\* "One closing per (date, register), no duplicates", the whole day included, where
\* SQL by itself would take two NULLs for different registers.
OneRowPerRegister ==
  \A k \in Keys : \A i, j \in RowsOf(k) : i = j

\* The sealed totals of the registers and of the day never exceed what was sold,
\* however closings, openings and payments follow each other.
SealedWasSold ==
  \A k \in Keys : \A i \in RowsOf(k) : rows[i].total <= Total(k)
=============================================================================
