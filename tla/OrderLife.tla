------------------------------- MODULE OrderLife -------------------------------
(***************************************************************************)
(* What the ledger promises of the life of an order, whatever requests     *)
(* race on it.  Money is only added.  A payment completes an order of the  *)
(* staff at a table; a takeaway is completed by its pick-up alone, once    *)
(* and with money in the till; an order that guests opened from the QR     *)
(* menu at a table is completed by nothing.  Whatever was opened can be    *)
(* cancelled, and late payments come to closed orders too.                 *)
(***************************************************************************)
EXTENDS Naturals

CONSTANT Orders          \* orders the restaurant may open

VARIABLES
  kind,                  \* how each order was opened
  life,                  \* and how far it got
  money,                 \* what was recorded for it
  handed                 \* takeaways that were handed over, or not called for

Kinds == {"table", "qrTable", "takeaway"}

Init ==
  /\ kind = [o \in Orders |-> "none"]
  /\ life = [o \in Orders |-> "absent"]
  /\ money = [o \in Orders |-> 0]
  /\ handed = {}

Open(o, k) ==
  /\ life[o] = "absent"
  /\ kind' = [kind EXCEPT ![o] = k] /\ life' = [life EXCEPT ![o] = "open"]
  /\ UNCHANGED <<money, handed>>

\* Some amount, which is not zero, is recorded for o.
Collect(o) == money'[o] > money[o] /\ money' = [money EXCEPT ![o] = money'[o]]

Close(o, outcome) == life' = [life EXCEPT ![o] = outcome]

Pay(o) ==
  /\ life[o] # "absent" /\ Collect(o)
  /\ UNCHANGED life \/ (kind[o] = "table" /\ Close(o, "completed"))
  /\ UNCHANGED <<kind, handed>>

Leave(o) ==
  /\ kind[o] = "takeaway" /\ life[o] = "open" /\ o \notin handed
  /\ handed' = handed \cup {o}
  /\ UNCHANGED kind

PickUp(o) ==
  /\ Leave(o) /\ Close(o, "completed")
  /\ Collect(o) \/ (money[o] > 0 /\ UNCHANGED money)

NoShow(o) == Leave(o) /\ Close(o, "cancelled") /\ UNCHANGED money

Cancel(o) ==
  /\ life[o] # "absent" /\ Close(o, "cancelled")
  /\ UNCHANGED <<kind, money, handed>>

Next ==
  \E o \in Orders : \/ \E k \in Kinds : Open(o, k)
                    \/ Pay(o) \/ PickUp(o) \/ NoShow(o) \/ Cancel(o)

Spec == Init /\ [][Next]_<<kind, life, money, handed>>
=============================================================================
