-------------------------- MODULE OfflineQueue_proofs --------------------------
(***************************************************************************)
(* Proofs about OfflineQueue for any actions, tabs and deliveries: what is *)
(* carried out is known by its key, and the queue keeps the promise of     *)
(* Outbox.                                                                 *)
(*                                                                         *)
(* An answer "ok" has come a long way when a client acts on it: from the   *)
(* COMMIT through the delivery that made it, or through the stored key and *)
(* another delivery.  The invariant follows it: every ok there is, and     *)
(* every delivery past its COMMIT, belongs to an action that was carried   *)
(* out.  It also says that a first attempt has one delivery, so that its   *)
(* answer meets an action that is still in the hands of the page.          *)
(***************************************************************************)
EXTENDS OfflineQueue, TLAPS

\* A delivery that is under way is for an action, and stores the answer it gave.
SoundSlots ==
  \A d \in Deliveries :
    /\ delivery[d].pc # "idle" => delivery[d].act \in Actions
    /\ delivery[d].saving => delivery[d].pc = "replied" /\ delivery[d].result # "none"
    /\ delivery[d].result = "ok" => delivery[d].pc = "replied"
    /\ delivery[d].pc = "replied" => delivery[d].result # "none"
    /\ delivery[d].client = Page => delivery[d].pc # "idle"

\* Every ok was earned by a COMMIT.
Earned ==
  /\ \A d \in Deliveries :
       delivery[d].pc = "committed" \/ delivery[d].result = "ok" => carried[delivery[d].act] > 0
  /\ \A a \in Actions : key[a] = "ok" => carried[a] > 0

\* The page waits for one delivery of an action, while it holds the action itself.
OneFirstAttempt ==
  /\ \A d \in Deliveries : delivery[d].client = Page => status[delivery[d].act] = "sending"
  /\ \A d, e \in Deliveries :
       delivery[d].client = Page /\ delivery[e].client = Page
         /\ delivery[d].act = delivery[e].act => d = e

QueueInv == TypeOK /\ SoundSlots /\ Earned /\ OneFirstAttempt /\ CarriedOutIsKnown

USE DEF Is, SetStatus, Stored

-----------------------------------------------------------------------------
LEMMA InitInv == Init => QueueInv
  BY QueueAssumption
  DEF Init, QueueInv, TypeOK, SoundSlots, Earned, OneFirstAttempt, CarriedOutIsKnown, Status,
      Results, Clients, Round, Delivery, IdleTab, IdleSlot


\* One delivery is replaced; it may be over with that.
LEMMA PutOne ==
  ASSUME TypeOK, NEW d \in Deliveries, NEW s \in Delivery, Put(d, s)
  PROVE  /\ delivery' \in [Deliveries -> Delivery]
         /\ \A e \in Deliveries \ {d} : delivery'[e] = delivery[e]
         /\ \/ delivery'[d] = s
            \/ delivery'[d] = IdleSlot /\ s.pc = "replied" /\ ~s.saving
  <1>1. IdleSlot \in Delivery
    BY DEF IdleSlot, Delivery, Clients
  <1> QED
    BY <1>1 DEF TypeOK, Put, Settled

\* Nobody but the clients has moved: a delivery is as it was, or unheard, or over.
Quieter ==
  /\ delivery' \in [Deliveries -> Delivery]
  /\ \A d \in Deliveries :
       \/ /\ delivery'[d].pc = delivery[d].pc
          /\ delivery'[d].act = delivery[d].act
          /\ delivery'[d].result = delivery[d].result
          /\ delivery'[d].saving = delivery[d].saving
          /\ delivery'[d].client \in {delivery[d].client, Nobody}
       \/ /\ delivery'[d] = IdleSlot
          /\ delivery[d].pc = "replied" /\ ~delivery[d].saving

LEMMA UnheardIsQuieter ==
  ASSUME TypeOK, NEW a, NEW c, Unheard(a, c)
  PROVE  /\ Quieter
         /\ \A d \in Deliveries : delivery[d].act = a /\ delivery[d].client = c
                                    => delivery'[d].client = Nobody
  <1>1. IdleSlot \in Delivery /\ IdleSlot.client = Nobody
    BY DEF IdleSlot, Delivery, Clients
  <1>2. \A d \in Deliveries : delivery[d] \in Delivery
    BY DEF TypeOK
  <1> QED
    BY <1>1, <1>2 DEF Unheard, Settled, Quieter, Delivery, Clients

LEMMA HeardIsQuieter ==
  ASSUME TypeOK, NEW d \in Deliveries, Is(d, "replied"),
         Put(d, [delivery[d] EXCEPT !.client = Nobody])
  PROVE  Quieter /\ delivery'[d].client = Nobody
         /\ \A e \in Deliveries \ {d} : delivery'[e] = delivery[e]
  <1> DEFINE s == [delivery[d] EXCEPT !.client = Nobody]
  <1>1. /\ s \in Delivery /\ s.client = Nobody /\ s.pc = delivery[d].pc
        /\ s.act = delivery[d].act /\ s.result = delivery[d].result
        /\ s.saving = delivery[d].saving
    BY DEF TypeOK, Delivery, Clients
  <1> HIDE DEF s
  <1>2. Put(d, s)
    BY DEF s
  <1>3. /\ delivery' \in [Deliveries -> Delivery]
        /\ \A e \in Deliveries \ {d} : delivery'[e] = delivery[e]
        /\ \/ delivery'[d] = s
           \/ delivery'[d] = IdleSlot /\ s.pc = "replied" /\ ~s.saving
    BY <1>1, <1>2, PutOne
  <1>4. delivery'[d].client = Nobody
    BY <1>1, <1>3 DEF IdleSlot
  <1>5. Quieter
    BY <1>1, <1>3 DEF Quieter
  <1> QED
    BY <1>3, <1>4, <1>5

\* What such a step leaves true, if the server's own records stay.
LEMMA QuieterKeeps ==
  ASSUME QueueInv, Quieter, UNCHANGED <<key, carried, lost>>
  PROVE  SoundSlots' /\ Earned' /\ CarriedOutIsKnown'
  <1>1. SoundSlots'
    BY QueueAssumption DEF QueueInv, TypeOK, Quieter, SoundSlots, IdleSlot, Clients
  <1>2. Earned'
    BY DEF QueueInv, Quieter, Earned, IdleSlot
  <1>3. CarriedOutIsKnown'
    BY DEF QueueInv, Quieter, CarriedOutIsKnown, Owing, IdleSlot, SoundSlots
  <1> QED
    BY <1>1, <1>2, <1>3

\* A new delivery changes nothing for the others.
LEMMA NewDelivery ==
  ASSUME QueueInv, NEW a \in Actions, NEW d \in Deliveries, NEW c \in Tabs \cup {Page},
         Is(d, "idle"), Put(d, Sent(a, c)), UNCHANGED <<key, carried, lost>>
  PROVE  /\ delivery' \in [Deliveries -> Delivery]
         /\ delivery'[d] = Sent(a, c)
         /\ \A e \in Deliveries \ {d} : delivery'[e] = delivery[e]
         /\ SoundSlots' /\ Earned' /\ CarriedOutIsKnown'
  <1>1. Sent(a, c) \in Delivery /\ Sent(a, c).pc = "net"
    BY DEF Sent, Delivery, Clients
  <1>2. /\ delivery' \in [Deliveries -> Delivery] /\ delivery'[d] = Sent(a, c)
        /\ \A e \in Deliveries \ {d} : delivery'[e] = delivery[e]
    BY <1>1, PutOne DEF QueueInv
  <1>3. SoundSlots'
    BY <1>2 DEF QueueInv, SoundSlots, Sent
  <1>4. Earned'
    BY <1>2 DEF QueueInv, Earned, Sent
  <1>5. CarriedOutIsKnown'
    BY <1>2 DEF QueueInv, CarriedOutIsKnown, Owing, Sent, SoundSlots
  <1> QED
    BY <1>2, <1>3, <1>4, <1>5

-----------------------------------------------------------------------------
(* The page.                                                               *)

LEMMA FirstAttemptInv ==
  ASSUME QueueInv, NEW a \in Actions, NEW d \in Deliveries, FirstAttempt(a, d)
  PROVE  QueueInv'
  <1>1. /\ delivery' \in [Deliveries -> Delivery]
        /\ delivery'[d] = Sent(a, Page)
        /\ \A e \in Deliveries \ {d} : delivery'[e] = delivery[e]
        /\ SoundSlots' /\ Earned' /\ CarriedOutIsKnown'
    BY NewDelivery DEF FirstAttempt
  <1>2. TypeOK'
    BY <1>1 DEF QueueInv, TypeOK, FirstAttempt, Status
  <1>3. OneFirstAttempt'
    BY <1>1 DEF QueueInv, TypeOK, FirstAttempt, OneFirstAttempt, Sent, SoundSlots
  <1> QED
    BY <1>1, <1>2, <1>3 DEF QueueInv

LEMMA FirstAnswerInv ==
  ASSUME QueueInv, NEW d \in Deliveries, FirstAnswer(d)
  PROVE  QueueInv'
  <1>1. Quieter /\ delivery'[d].client = Nobody
        /\ \A e \in Deliveries \ {d} : delivery'[e] = delivery[e]
    BY HeardIsQuieter DEF QueueInv, FirstAnswer
  <1>2. SoundSlots' /\ Earned' /\ CarriedOutIsKnown'
    BY <1>1, QuieterKeeps DEF FirstAnswer
  <1>3. delivery[d].act \in Actions
    BY DEF QueueInv, SoundSlots, FirstAnswer
  <1>4. PICK s \in {"confirmed", "rejected", "pending"} :
          status' = [status EXCEPT ![delivery[d].act] = s]
    BY DEF FirstAnswer
  <1>5. TypeOK'
    BY <1>1, <1>3, <1>4 DEF QueueInv, TypeOK, FirstAnswer, Status, Quieter
  <1>6. OneFirstAttempt'
    BY <1>1, <1>3, <1>4, QueueAssumption
    DEF QueueInv, TypeOK, FirstAnswer, OneFirstAttempt, SoundSlots
  <1> QED
    BY <1>2, <1>5, <1>6 DEF QueueInv

LEMMA FirstNetworkErrorInv ==
  ASSUME QueueInv, NEW a \in Actions, FirstNetworkError(a)
  PROVE  QueueInv'
  <1>1. /\ Quieter
        /\ \A d \in Deliveries : delivery[d].act = a /\ delivery[d].client = Page
                                   => delivery'[d].client = Nobody
    BY UnheardIsQuieter DEF QueueInv, FirstNetworkError
  <1>2. SoundSlots' /\ Earned' /\ CarriedOutIsKnown'
    BY <1>1, QuieterKeeps DEF FirstNetworkError
  <1>3. PICK s \in {"rejected", "pending"} : status' = [status EXCEPT ![a] = s]
    BY DEF FirstNetworkError
  <1>4. TypeOK'
    BY <1>1, <1>3 DEF QueueInv, TypeOK, FirstNetworkError, Status, Quieter
  <1>5. \A d \in Deliveries : delivery'[d].client = Page
          => delivery[d].client = Page /\ delivery'[d].act = delivery[d].act
    BY <1>1, QueueAssumption DEF Quieter, IdleSlot
  <1>6. OneFirstAttempt'
    BY <1>1, <1>3, <1>5, QueueAssumption DEF QueueInv, TypeOK, OneFirstAttempt
  <1> QED
    BY <1>2, <1>4, <1>6 DEF QueueInv

-----------------------------------------------------------------------------
(* The rounds.                                                             *)

LEMMA StartRoundInv ==
  ASSUME QueueInv, NEW t \in Tabs, StartRound(t)
  PROVE  QueueInv'
  <1>1. TypeOK'
    BY DEF QueueInv, TypeOK, StartRound, Round
  <1>2. SoundSlots' /\ Earned' /\ OneFirstAttempt' /\ CarriedOutIsKnown'
    BY DEF QueueInv, StartRound, SoundSlots, Earned, OneFirstAttempt, CarriedOutIsKnown, Owing
  <1> QED
    BY <1>1, <1>2 DEF QueueInv

\* The rows change, and no action that the page holds.
RowsOnly ==
  /\ status' \in [Actions -> Status]
  /\ \A a \in Actions : status[a] = "sending" => status'[a] = "sending"

LEMMA SendNextInv ==
  ASSUME QueueInv, NEW t \in Tabs, NEW a \in Actions, NEW d \in Deliveries, SendNext(t, a, d)
  PROVE  QueueInv'
  <1>1. /\ delivery' \in [Deliveries -> Delivery]
        /\ delivery'[d] = Sent(a, t)
        /\ \A e \in Deliveries \ {d} : delivery'[e] = delivery[e]
        /\ SoundSlots' /\ Earned' /\ CarriedOutIsKnown'
    BY NewDelivery DEF SendNext
  <1>2. RowsOnly
    BY DEF QueueInv, TypeOK, SendNext, RowsOnly, Status
  <1>3. tab' \in [Tabs -> Round]
    <2>1. /\ tab \in [Tabs -> Round]
          /\ tab' = [tab EXCEPT ![t] = [tab[t] EXCEPT !.todo = @ \ {a}, !.now = a]]
      BY DEF QueueInv, TypeOK, SendNext
    <2>2. [tab[t] EXCEPT !.todo = @ \ {a}, !.now = a] \in Round
      BY <2>1 DEF Round
    <2> QED
      BY <2>1, <2>2
  <1>4. TypeOK'
    BY <1>1, <1>2, <1>3 DEF QueueInv, TypeOK, SendNext, RowsOnly
  <1>5. OneFirstAttempt'
    BY <1>1, <1>2, QueueAssumption DEF QueueInv, OneFirstAttempt, Sent, RowsOnly, SoundSlots
  <1> QED
    BY <1>1, <1>4, <1>5 DEF QueueInv

LEMMA MarkDoneRows ==
  ASSUME TypeOK, NEW a \in Actions, MarkDone(a)
  PROVE  RowsOnly
  BY DEF TypeOK, MarkDone, RowsOnly, Status

\* A round goes on, or remembers the row of an action that failed.
LEMMA OnwardRound ==
  ASSUME TypeOK, NEW t \in Tabs, Onward(t)
  PROVE  \E round \in Round : tab' = [tab EXCEPT ![t] = round]
  <1>1. [IdleTab EXCEPT !.todo = tab[t].todo] \in Round
    BY QueueAssumption DEF TypeOK, Round, IdleTab
  <1> QED
    BY <1>1 DEF Onward

LEMMA ReadFailedRound ==
  ASSUME TypeOK, NEW t \in Tabs, NEW a \in Actions, NEW error \in {"passing", "permanent"},
         ReadFailed(t, a, error)
  PROVE  \E round \in Round : tab' = [tab EXCEPT ![t] = round]
  <1>1. [tab[t] EXCEPT !.error = error, !.tries = attempts[a]] \in Round
    BY DEF TypeOK, Round
  <1> QED
    BY <1>1, OnwardRound DEF ReadFailed

\* A step of a tab that hears or gives up a delivery.
LEMMA TabStepInv ==
  ASSUME QueueInv, Quieter, RowsOnly, attempts' \in [Actions -> 0..MaxAttempts],
         NEW t \in Tabs, NEW round \in Round, tab' = [tab EXCEPT ![t] = round],
         closed' \in SUBSET Actions, UNCHANGED <<key, carried, lost>>
  PROVE  QueueInv'
  <1>1. SoundSlots' /\ Earned' /\ CarriedOutIsKnown'
    BY QuieterKeeps
  <1>2. TypeOK'
    BY DEF QueueInv, TypeOK, Quieter, RowsOnly
  <1>3. \A d \in Deliveries : delivery'[d].client = Page
          => delivery[d].client = Page /\ delivery'[d].act = delivery[d].act
    BY QueueAssumption DEF Quieter, IdleSlot
  <1>4. OneFirstAttempt'
    BY <1>3 DEF QueueInv, OneFirstAttempt, RowsOnly, SoundSlots
  <1> QED
    BY <1>1, <1>2, <1>4 DEF QueueInv

LEMMA SyncAnswerInv ==
  ASSUME QueueInv, NEW t \in Tabs, NEW d \in Deliveries, SyncAnswer(t, d)
  PROVE  QueueInv'
  <1>1. Quieter
    BY HeardIsQuieter DEF QueueInv, SyncAnswer
  <1>2. TypeOK /\ delivery[d].act \in Actions
    BY DEF QueueInv, SoundSlots, SyncAnswer
  <1>3. RowsOnly
    BY <1>2, MarkDoneRows DEF SyncAnswer, TypeOK, RowsOnly
  <1>4. \E round \in Round : tab' = [tab EXCEPT ![t] = round]
    BY <1>2, OnwardRound, ReadFailedRound DEF SyncAnswer
  <1> QED
    BY <1>1, <1>3, <1>4, TabStepInv DEF SyncAnswer, QueueInv, TypeOK

LEMMA SyncNetworkErrorInv ==
  ASSUME QueueInv, NEW t \in Tabs, SyncNetworkError(t)
  PROVE  QueueInv'
  <1>1. Quieter
    BY UnheardIsQuieter DEF QueueInv, SyncNetworkError
  <1>2. TypeOK /\ tab[t].now \in Actions
    BY DEF QueueInv, TypeOK, Round, SyncNetworkError
  <1>3. RowsOnly
    BY <1>2 DEF SyncNetworkError, TypeOK, RowsOnly
  <1>4. \E round \in Round : tab' = [tab EXCEPT ![t] = round]
    BY <1>2, ReadFailedRound DEF SyncNetworkError
  <1> QED
    BY <1>1, <1>3, <1>4, TabStepInv DEF SyncNetworkError, QueueInv, TypeOK

LEMMA MarkFailedInv ==
  ASSUME QueueInv, NEW t \in Tabs, MarkFailed(t)
  PROVE  QueueInv'
  <1>1. TypeOK /\ tab[t].tries \in 0..MaxAttempts
    BY DEF QueueInv, TypeOK, Round
  <1>2. Quieter
    BY DEF MarkFailed, Quieter, QueueInv, TypeOK
  <1>3. RowsOnly
    BY <1>1 DEF MarkFailed, AfterFailure, TypeOK, RowsOnly, Status
  <1>4. attempts' \in [Actions -> 0..MaxAttempts]
    BY <1>1, QueueAssumption DEF MarkFailed, TypeOK
  <1>5. \E round \in Round : tab' = [tab EXCEPT ![t] = round]
    BY <1>1, OnwardRound DEF MarkFailed
  <1> QED
    BY <1>2, <1>3, <1>4, <1>5, TabStepInv DEF MarkFailed, QueueInv, TypeOK

LEMMA ReloadInv ==
  ASSUME QueueInv, NEW t \in Tabs, Reload(t)
  PROVE  QueueInv'
  <1>1. Quieter
    BY UnheardIsQuieter DEF QueueInv, Reload
  <1>2. RowsOnly /\ attempts' \in [Actions -> 0..MaxAttempts]
    BY DEF QueueInv, TypeOK, Reload, RowsOnly
  <1>3. IdleTab \in Round
    BY QueueAssumption DEF IdleTab, Round
  <1>4. closed' \in SUBSET Actions
    BY DEF QueueInv, TypeOK, Round, Reload
  <1> QED
    BY <1>1, <1>2, <1>3, <1>4, TabStepInv DEF Reload

-----------------------------------------------------------------------------
(* The server.                                                             *)

\* A step of the server on one delivery, which keeps its action and its client.
LEMMA ServedOne ==
  ASSUME QueueInv, NEW d \in Deliveries, ~Is(d, "idle"), NEW s \in Delivery, Put(d, s),
         s.act = delivery[d].act, s.client = delivery[d].client, s.pc # "idle",
         s.saving => s.pc = "replied" /\ s.result # "none",
         s.pc = "replied" => s.result # "none",
         s.result = "ok" => s.pc = "replied",
         UNCHANGED status
  PROVE  /\ delivery' \in [Deliveries -> Delivery]
         /\ \A e \in Deliveries \ {d} : delivery'[e] = delivery[e]
         /\ \/ delivery'[d] = s
            \/ delivery'[d] = IdleSlot /\ s.pc = "replied" /\ ~s.saving
         /\ SoundSlots' /\ OneFirstAttempt'
  <1>1. /\ delivery' \in [Deliveries -> Delivery]
        /\ \A e \in Deliveries \ {d} : delivery'[e] = delivery[e]
        /\ \/ delivery'[d] = s
           \/ delivery'[d] = IdleSlot /\ s.pc = "replied" /\ ~s.saving
    BY PutOne DEF QueueInv
  <1>2. IdleSlot.pc = "idle" /\ IdleSlot.client # Page /\ ~IdleSlot.saving
        /\ IdleSlot.result = "none"
    BY QueueAssumption DEF IdleSlot
  <1>3. SoundSlots'
    BY <1>1, <1>2 DEF QueueInv, SoundSlots
  <1>4. OneFirstAttempt'
    BY <1>1, <1>2 DEF QueueInv, OneFirstAttempt
  <1> QED
    BY <1>1, <1>3, <1>4

LEMMA NotAdmittedInv ==
  ASSUME QueueInv, NEW d \in Deliveries, NotAdmitted(d)
  PROVE  QueueInv'
  <1>1. PICK result \in {"refused", "error"} :
          Put(d, [delivery[d] EXCEPT !.pc = "replied", !.result = result])
    BY DEF NotAdmitted
  <1> DEFINE s == [delivery[d] EXCEPT !.pc = "replied", !.result = result]
  <1>2. /\ s \in Delivery /\ s.pc = "replied" /\ s.result = result
        /\ s.act = delivery[d].act /\ s.client = delivery[d].client
        /\ s.saving = delivery[d].saving
    BY DEF QueueInv, TypeOK, Delivery, Results
  <1> HIDE DEF s
  <1>3. Put(d, s)
    BY <1>1 DEF s
  <1>4. /\ delivery' \in [Deliveries -> Delivery]
        /\ \A e \in Deliveries \ {d} : delivery'[e] = delivery[e]
        /\ \/ delivery'[d] = s
           \/ delivery'[d] = IdleSlot /\ s.pc = "replied" /\ ~s.saving
        /\ SoundSlots' /\ OneFirstAttempt'
    BY <1>2, <1>3, ServedOne DEF NotAdmitted
  <1>5. TypeOK'
    BY <1>4 DEF QueueInv, TypeOK, NotAdmitted
  <1>6. Earned'
    BY <1>2, <1>4 DEF QueueInv, Earned, NotAdmitted, IdleSlot
  <1>7. CarriedOutIsKnown'
    BY <1>2, <1>4 DEF QueueInv, SoundSlots, CarriedOutIsKnown, Owing, NotAdmitted, IdleSlot
  <1> QED
    BY <1>4, <1>5, <1>6, <1>7 DEF QueueInv

LEMMA LookupInv ==
  ASSUME QueueInv, NEW d \in Deliveries, Lookup(d)
  PROVE  QueueInv'
  <1> DEFINE stored == key[delivery[d].act]
             s == IF stored = "none" THEN [delivery[d] EXCEPT !.pc = "handler"]
                  ELSE [delivery[d] EXCEPT !.pc = "replied", !.result = stored]
  <1>0. delivery[d].act \in Actions /\ stored \in Results \cup {"none"}
        /\ ~delivery[d].saving /\ delivery[d].result # "ok"
    BY DEF QueueInv, TypeOK, SoundSlots, Lookup
  <1>1. /\ s \in Delivery /\ s.act = delivery[d].act /\ s.client = delivery[d].client
        /\ s.saving = delivery[d].saving /\ s.pc \in {"handler", "replied"}
        /\ s.pc = "replied" => s.result = stored /\ stored # "none"
        /\ s.pc = "handler" => s.result = delivery[d].result
    BY <1>0 DEF QueueInv, TypeOK, Delivery, Results
  <1>2. Put(d, s)
    BY DEF Lookup
  <1>3. stored = "ok" => carried[delivery[d].act] > 0
    BY <1>0 DEF QueueInv, Earned
  <1> HIDE DEF s, stored
  <1>4. /\ delivery' \in [Deliveries -> Delivery]
        /\ \A e \in Deliveries \ {d} : delivery'[e] = delivery[e]
        /\ \/ delivery'[d] = s
           \/ delivery'[d] = IdleSlot /\ s.pc = "replied" /\ ~s.saving
        /\ SoundSlots' /\ OneFirstAttempt'
    BY <1>0, <1>1, <1>2, ServedOne DEF Lookup
  <1>5. TypeOK'
    BY <1>4 DEF QueueInv, TypeOK, Lookup
  <1>6. Earned'
    BY <1>0, <1>1, <1>3, <1>4 DEF QueueInv, Earned, Lookup, IdleSlot
  <1>7. CarriedOutIsKnown'
    BY <1>0, <1>1, <1>4 DEF QueueInv, SoundSlots, CarriedOutIsKnown, Owing, Lookup, IdleSlot
  <1> QED
    BY <1>4, <1>5, <1>6, <1>7 DEF QueueInv

\* An answer of the handler: the key is owed from now on.
LEMMA AnswerInv ==
  ASSUME QueueInv, NEW d \in Deliveries, Is(d, "handler") \/ Is(d, "committed"),
         NEW result \in Results, result = "ok" => Is(d, "committed"),
         Answer(d, result),
         UNCHANGED <<status, attempts, tab, key, carried, lost, closed>>
  PROVE  QueueInv'
  <1> DEFINE s == [delivery[d] EXCEPT !.pc = "replied", !.result = result, !.saving = TRUE]
  <1>0. delivery[d].act \in Actions
    BY DEF QueueInv, SoundSlots
  <1>1. /\ s \in Delivery /\ s.act = delivery[d].act /\ s.client = delivery[d].client
        /\ s.saving /\ s.pc = "replied" /\ s.result = result /\ result # "none"
    BY DEF QueueInv, TypeOK, Delivery, Results
  <1>2. Put(d, s)
    BY DEF Answer
  <1> HIDE DEF s
  <1>4. /\ delivery' \in [Deliveries -> Delivery]
        /\ \A e \in Deliveries \ {d} : delivery'[e] = delivery[e]
        /\ delivery'[d] = s
        /\ SoundSlots' /\ OneFirstAttempt'
    BY <1>0, <1>1, <1>2, ServedOne
  <1>5. TypeOK'
    BY <1>4 DEF QueueInv, TypeOK
  <1>6. Earned'
    BY <1>0, <1>1, <1>4 DEF QueueInv, Earned
  <1>7. CarriedOutIsKnown'
    BY <1>0, <1>1, <1>4 DEF QueueInv, SoundSlots, CarriedOutIsKnown, Owing
  <1> QED
    BY <1>4, <1>5, <1>6, <1>7 DEF QueueInv

LEMMA HandlerCommitsInv ==
  ASSUME QueueInv, NEW d \in Deliveries, HandlerCommits(d)
  PROVE  QueueInv'
  <1> DEFINE s == [delivery[d] EXCEPT !.pc = "committed"]
             a == delivery[d].act
  <1>0. a \in Actions /\ ~delivery[d].saving /\ delivery[d].result # "ok"
    BY DEF QueueInv, SoundSlots, HandlerCommits
  <1>1. /\ s \in Delivery /\ s.act = a /\ s.client = delivery[d].client
        /\ s.saving = delivery[d].saving /\ s.pc = "committed"
        /\ s.result = delivery[d].result
    BY DEF QueueInv, TypeOK, Delivery
  <1>2. Put(d, s)
    BY DEF HandlerCommits
  <1>3. /\ carried' \in [Actions -> 0..2] /\ carried'[a] > 0
        /\ \A b \in Actions \ {a} : carried'[b] = carried[b]
        /\ \A b \in Actions : carried[b] > 0 => carried'[b] > 0
    BY <1>0 DEF QueueInv, TypeOK, HandlerCommits
  <1> HIDE DEF s
  <1>4. /\ delivery' \in [Deliveries -> Delivery]
        /\ \A e \in Deliveries \ {d} : delivery'[e] = delivery[e]
        /\ delivery'[d] = s
        /\ SoundSlots' /\ OneFirstAttempt'
    BY <1>0, <1>1, <1>2, ServedOne DEF HandlerCommits
  <1>5. TypeOK'
    BY <1>3, <1>4 DEF QueueInv, TypeOK, HandlerCommits
  <1>6. Earned'
    <2>1. \A e \in Deliveries : delivery[e].pc = "committed" \/ delivery[e].result = "ok"
            => delivery[e].act \in Actions
      BY DEF QueueInv, SoundSlots
    <2> QED
      BY <1>0, <1>1, <1>3, <1>4, <2>1 DEF QueueInv, Earned, HandlerCommits
  <1>7. CarriedOutIsKnown'
    <2>1. \A b \in Actions : b = a => Owing(b)'
      BY <1>1, <1>4 DEF Owing
    <2>2. \A b \in Actions \ {a} : Owing(b) => Owing(b)'
      BY <1>1, <1>4 DEF Owing
    <2>3. \A b \in Actions : Owing(b)' \/ (b # a /\ ~Owing(b))
      BY <2>1, <2>2
    <2> QED
      BY <1>3, <2>3 DEF QueueInv, CarriedOutIsKnown, HandlerCommits
  <1> QED
    BY <1>4, <1>5, <1>6, <1>7 DEF QueueInv

\* The INSERT of the key ends, well or not.
LEMMA SaveInv ==
  ASSUME QueueInv, NEW d \in Deliveries, SaveKey(d) \/ SaveFails(d)
  PROVE  QueueInv'
  <1> DEFINE s == [delivery[d] EXCEPT !.saving = FALSE]
             a == delivery[d].act
  <1>0. a \in Actions /\ delivery[d].pc = "replied" /\ delivery[d].result \in Results
    BY DEF QueueInv, TypeOK, Delivery, SoundSlots, SaveKey, SaveFails
  <1>1. /\ s \in Delivery /\ s.act = a /\ s.client = delivery[d].client
        /\ ~s.saving /\ s.pc = "replied" /\ s.result = delivery[d].result
    BY <1>0 DEF QueueInv, TypeOK, Delivery
  <1>2. Put(d, s)
    BY DEF SaveKey, SaveFails
  <1>3. /\ key' \in [Actions -> Results \cup {"none"}] /\ lost' \in SUBSET Actions
        /\ \A b \in Actions : key[b] # "none" => key'[b] = key[b]
        /\ \A b \in Actions \ {a} : key'[b] = key[b]
        /\ lost \subseteq lost'
        /\ key'[a] # "none" \/ a \in lost'
        /\ key'[a] = "ok" => key[a] = "ok" \/ delivery[d].result = "ok"
    BY <1>0 DEF QueueInv, TypeOK, SaveKey, SaveFails, StoreAnswer, Results
  <1> HIDE DEF s
  <1>4. /\ delivery' \in [Deliveries -> Delivery]
        /\ \A e \in Deliveries \ {d} : delivery'[e] = delivery[e]
        /\ \/ delivery'[d] = s
           \/ delivery'[d] = IdleSlot /\ s.pc = "replied" /\ ~s.saving
        /\ SoundSlots' /\ OneFirstAttempt'
    BY <1>0, <1>1, <1>2, ServedOne DEF SaveKey, SaveFails, Results
  <1>5. TypeOK'
    BY <1>3, <1>4 DEF QueueInv, TypeOK, SaveKey, SaveFails
  <1>6. Earned'
    <2>1. carried' = carried
      BY DEF SaveKey, SaveFails
    <2>2. \A e \in Deliveries : delivery'[e].pc = "committed" \/ delivery'[e].result = "ok"
            => /\ delivery[e].pc = "committed" \/ delivery[e].result = "ok"
               /\ delivery'[e].act = delivery[e].act
      BY <1>0, <1>1, <1>4 DEF IdleSlot
    <2>3. delivery[d].result = "ok" => carried[a] > 0
      BY DEF QueueInv, Earned
    <2>4. \A b \in Actions : key'[b] = "ok" => carried[b] > 0
      BY <1>0, <1>3, <2>3 DEF QueueInv, Earned
    <2> QED
      BY <2>1, <2>2, <2>4 DEF QueueInv, Earned
  <1>7. CarriedOutIsKnown'
    <2>1. carried' = carried
      BY DEF SaveKey, SaveFails
    <2>2. \A b \in Actions \ {a} : Owing(b) => Owing(b)'
      BY <1>1, <1>4 DEF Owing
    <2> QED
      BY <1>3, <2>1, <2>2 DEF QueueInv, CarriedOutIsKnown
  <1> QED
    BY <1>4, <1>5, <1>6, <1>7 DEF QueueInv

LEMMA CrashInv ==
  ASSUME QueueInv, Crash
  PROVE  QueueInv'
  <1>1. IdleSlot \in Delivery /\ IdleSlot.client # Page /\ IdleSlot.pc = "idle"
        /\ IdleSlot.result = "none" /\ ~IdleSlot.saving
    BY QueueAssumption DEF IdleSlot, Delivery, Clients
  <1>2. \A d \in Deliveries :
          /\ delivery'[d] \in Delivery
          /\ ~delivery'[d].saving /\ delivery'[d].pc \notin {"handler", "committed"}
          /\ \/ delivery'[d] = IdleSlot
             \/ /\ delivery'[d].pc = delivery[d].pc
                /\ delivery'[d].act = delivery[d].act
                /\ delivery'[d].client = delivery[d].client
                /\ delivery'[d].result = delivery[d].result
    BY <1>1 DEF QueueInv, TypeOK, Crash, Settled, Delivery
  <1>3. lost' \in SUBSET Actions
    BY DEF QueueInv, TypeOK, SoundSlots, Crash
  <1>4. \A a \in Actions : Owing(a) => a \in lost'
    BY DEF Owing, Crash
  <1>5. TypeOK'
    BY <1>2, <1>3 DEF QueueInv, TypeOK, Crash
  <1>6. SoundSlots'
    BY <1>1, <1>2 DEF QueueInv, SoundSlots
  <1>7. Earned'
    BY <1>1, <1>2 DEF QueueInv, Earned, Crash
  <1>8. OneFirstAttempt'
    BY <1>1, <1>2 DEF QueueInv, OneFirstAttempt, Crash
  <1>9. CarriedOutIsKnown'
    BY <1>4 DEF QueueInv, CarriedOutIsKnown, Crash
  <1> QED
    BY <1>5, <1>6, <1>7, <1>8, <1>9 DEF QueueInv

LEMMA ServeInv ==
  ASSUME QueueInv, NEW d \in Deliveries, Serve(d)
  PROVE  QueueInv'
  <1>1. CASE HandlerRefuses(d)
    BY <1>1, AnswerInv DEF HandlerRefuses, Results
  <1>2. CASE HandlerAnswers(d)
    BY <1>2, AnswerInv DEF HandlerAnswers, Results
  <1> QED
    BY <1>1, <1>2, NotAdmittedInv, LookupInv, HandlerCommitsInv, SaveInv DEF Serve

LEMMA NextInv == QueueInv /\ [Next]_vars => QueueInv'
  <1> SUFFICES ASSUME QueueInv, [Next]_vars PROVE QueueInv'
    OBVIOUS
  <1>1. CASE UNCHANGED vars
    BY <1>1 DEF vars, QueueInv, TypeOK, SoundSlots, Earned, OneFirstAttempt,
                CarriedOutIsKnown, Owing
  <1>2. ASSUME NEW t \in Tabs, Sync(t) PROVE QueueInv'
    BY <1>2, StartRoundInv, SendNextInv, SyncAnswerInv, SyncNetworkErrorInv,
       MarkFailedInv DEF Sync
  <1> QED
    BY <1>1, <1>2, FirstAttemptInv, FirstAnswerInv, FirstNetworkErrorInv, ReloadInv,
       ServeInv, CrashInv DEF Next

\* The inductive invariant of the queue and the server.
THEOREM QueueInvariant == Spec => []QueueInv
  BY InitInv, NextInv, PTL DEF Spec

\* The state stays well formed, for any number of actions, tabs and requests under way.
THEOREM TypeCorrect == Spec => []TypeOK
  BY QueueInvariant, PTL DEF QueueInv

\* The middleware knows by its key whatever was carried out, but for the gap it leaves.
THEOREM CarriedOutIsRemembered == Spec => []CarriedOutIsKnown
  BY QueueInvariant, PTL DEF QueueInv

-----------------------------------------------------------------------------
(* The refinement.  A step of the code is one step of Outbox for one       *)
(* action, or none: a COMMIT is Happen, and the rest is what becomes of    *)
(* the action on the waiter's side.                                        *)

LEMMA PromiseInit == Init => Promise!Init
  BY DEF Init, Promise!Init, Outcome, Outcomes, CarriedOut

\* One action moves on the waiter's side, in a way that Outbox allows.
Allowed(a, before, after) ==
  \/ before = "open" /\ after = "rejected"
  \/ before \in {"open", "givenUp"} /\ after = "kept"
  \/ before = "kept" /\ after = "givenUp"
  \/ before \in {"open", "kept", "givenUp"} /\ after = "settled" /\ carried[a] > 0

AbstractStep == [Promise!Next]_<<Outcomes, CarriedOut>>

LEMMA NothingMoves ==
  ASSUME UNCHANGED <<status, carried>>
  PROVE  AbstractStep
  BY DEF AbstractStep, Outcomes, CarriedOut

LEMMA OneMoves ==
  ASSUME TypeOK, NEW a \in Actions, NEW s \in Status, status' = [status EXCEPT ![a] = s],
         UNCHANGED carried,
         Outcome(s) = Outcome(status[a]) \/ Allowed(a, Outcome(status[a]), Outcome(s))
  PROVE  AbstractStep
  <1>1. Outcomes' = [Outcomes EXCEPT ![a] = Outcome(s)]
    BY DEF TypeOK, Outcomes
  <1>2. Outcomes[a] = Outcome(status[a]) /\ (carried[a] > 0 => a \in CarriedOut)
    BY DEF Outcomes, CarriedOut
  <1>3. CarriedOut' = CarriedOut
    BY DEF CarriedOut
  <1>4. CASE Outcome(s) = Outcome(status[a])
    <2>1. Outcomes' = Outcomes
      BY <1>4 DEF TypeOK, Outcomes
    <2> QED
      BY <1>3, <2>1 DEF AbstractStep
  <1>5. CASE Allowed(a, Outcome(status[a]), Outcome(s))
    BY <1>1, <1>2, <1>3, <1>5
    DEF Allowed, AbstractStep, Promise!Next, Promise!Reject, Promise!Keep, Promise!GiveUp,
        Promise!Settle, Promise!Become
  <1> QED
    BY <1>4, <1>5

LEMMA FailedMoves ==
  ASSUME TypeOK, NEW t \in Tabs, MarkFailed(t)
  PROVE  AbstractStep
  <1> DEFINE a == tab[t].now
  <1>1. UNCHANGED carried
    BY DEF MarkFailed
  <1>2. CASE ~Stored(a) \/ a \notin Actions
    <2>1. UNCHANGED status
      BY <1>2 DEF MarkFailed, TypeOK
    <2> QED
      BY <1>1, <2>1, NothingMoves
  <1>3. CASE Stored(a) /\ a \in Actions
    <2>1. PICK s \in {"failed", "pending"} : status' = [status EXCEPT ![a] = s]
      BY <1>3 DEF MarkFailed, AfterFailure
    <2>2. Outcome(status[a]) \in {"kept", "givenUp"} /\ Outcome(s) \in {"kept", "givenUp"}
      BY <1>3 DEF Outcome
    <2> HIDE DEF a
    <2> QED
      BY <1>1, <1>3, <2>1, <2>2, OneMoves DEF Allowed, Status
  <1> QED
    BY <1>2, <1>3

LEMMA DoneMoves ==
  ASSUME TypeOK, NEW a \in Actions, MarkDone(a), carried[a] > 0, UNCHANGED carried
  PROVE  AbstractStep
  <1>1. CASE ~Stored(a)
    BY <1>1, NothingMoves DEF MarkDone
  <1>2. CASE Stored(a)
    <2>1. Outcome(status[a]) \in {"kept", "givenUp"} /\ Outcome("done") = "settled"
      BY <1>2 DEF Outcome
    <2>2. status' = [status EXCEPT ![a] = "done"]
      BY <1>2 DEF MarkDone
    <2> QED
      BY <2>1, <2>2, OneMoves DEF Allowed, Status
  <1> QED
    BY <1>1, <1>2

LEMMA FirstAnswerMoves ==
  ASSUME QueueInv, NEW d \in Deliveries, FirstAnswer(d)
  PROVE  AbstractStep
  <1> DEFINE a == delivery[d].act
  <1>1. a \in Actions /\ status[a] = "sending"
    BY DEF QueueInv, SoundSlots, OneFirstAttempt, FirstAnswer
  <1>2. PICK s \in {"confirmed", "rejected", "pending"} :
          status' = [status EXCEPT ![a] = s] /\ (s = "confirmed" => delivery[d].result = "ok")
    BY DEF FirstAnswer
  <1>3. s = "confirmed" => carried[a] > 0
    BY <1>2 DEF QueueInv, Earned
  <1>4. /\ Outcome("sending") = "open" /\ Outcome("confirmed") = "settled"
        /\ Outcome("rejected") = "rejected" /\ Outcome("pending") = "kept"
    BY DEF Outcome
  <1>5. UNCHANGED carried
    BY DEF FirstAnswer
  <1>6. Allowed(a, Outcome(status[a]), Outcome(s))
    BY <1>1, <1>3, <1>4 DEF Allowed
  <1> QED
    BY <1>1, <1>2, <1>5, <1>6, OneMoves DEF QueueInv, Status

LEMMA SendNextMoves ==
  ASSUME QueueInv, NEW t \in Tabs, NEW a \in Actions, NEW d \in Deliveries, SendNext(t, a, d)
  PROVE  AbstractStep
  <1>1. CASE ~Stored(a)
    BY <1>1, NothingMoves DEF SendNext
  <1>2. CASE Stored(a)
    <2>1. Outcome(status[a]) \in {"kept", "givenUp"} /\ Outcome("syncing") = "kept"
      BY <1>2 DEF Outcome
    <2>2. status' = [status EXCEPT ![a] = "syncing"]
      BY <1>2 DEF SendNext
    <2>3. UNCHANGED carried
      BY DEF SendNext
    <2> QED
      BY <2>1, <2>2, <2>3, OneMoves DEF Allowed, Status, QueueInv
  <1> QED
    BY <1>1, <1>2

LEMMA SyncMoves ==
  ASSUME QueueInv, NEW t \in Tabs, Sync(t)
  PROVE  AbstractStep
  <1>1. ASSUME NEW d \in Deliveries, SyncAnswer(t, d) PROVE AbstractStep
    <2>1. delivery[d].act \in Actions
      BY <1>1 DEF QueueInv, SoundSlots, SyncAnswer
    <2>2. delivery[d].result = "ok" => carried[delivery[d].act] > 0
      BY DEF QueueInv, Earned
    <2> QED
      BY <1>1, <2>1, <2>2, DoneMoves, NothingMoves DEF SyncAnswer, ResponseOk, QueueInv
  <1>2. CASE MarkFailed(t)
    BY <1>2, FailedMoves DEF QueueInv
  <1>3. CASE StartRound(t) \/ SyncNetworkError(t)
    BY <1>3, NothingMoves DEF StartRound, SyncNetworkError
  <1> QED
    BY <1>1, <1>2, <1>3, SendNextMoves DEF Sync

LEMMA CommitMoves ==
  ASSUME QueueInv, NEW d \in Deliveries, HandlerCommits(d)
  PROVE  AbstractStep
  <1> DEFINE a == delivery[d].act
  <1>1. a \in Actions
    BY DEF QueueInv, SoundSlots, HandlerCommits
  <1>2. CarriedOut' = CarriedOut \cup {a}
    BY <1>1 DEF QueueInv, TypeOK, HandlerCommits, CarriedOut
  <1>3. Outcomes' = Outcomes
    BY DEF HandlerCommits, Outcomes
  <1> HIDE DEF a
  <1> QED
    BY <1>1, <1>2, <1>3 DEF AbstractStep, Promise!Next, Promise!Happen

LEMMA PromiseStep == QueueInv /\ [Next]_vars => AbstractStep
  <1> SUFFICES ASSUME QueueInv, [Next]_vars PROVE AbstractStep
    OBVIOUS
  <1>1. CASE UNCHANGED vars
    BY <1>1, NothingMoves DEF vars
  <1>2. ASSUME NEW a \in Actions, FirstNetworkError(a) PROVE AbstractStep
    <2>1. PICK s \in {"pending", "rejected"} : status' = [status EXCEPT ![a] = s]
      BY <1>2 DEF FirstNetworkError
    <2>2. /\ Outcome("sending") = "open" /\ Outcome("rejected") = "rejected"
          /\ Outcome("pending") = "kept"
      BY DEF Outcome
    <2> QED
      BY <1>2, <2>1, <2>2, OneMoves DEF FirstNetworkError, QueueInv, Allowed, Status
  <1>3. ASSUME NEW a \in Actions, NEW d \in Deliveries, FirstAttempt(a, d) PROVE AbstractStep
    <2>1. Outcome("new") = Outcome("sending")
      BY DEF Outcome
    <2> QED
      BY <1>3, <2>1, OneMoves DEF FirstAttempt, QueueInv, Status
  <1>4. ASSUME NEW d \in Deliveries, Serve(d) PROVE AbstractStep
    <2>1. CASE HandlerCommits(d)
      BY <2>1, CommitMoves
    <2> QED
      BY <1>4, <2>1, NothingMoves
      DEF Serve, NotAdmitted, Lookup, HandlerRefuses, HandlerAnswers, SaveKey, SaveFails
  <1>5. ASSUME NEW t \in Tabs, Reload(t) PROVE AbstractStep
    BY <1>5, NothingMoves DEF Reload
  <1>6. CASE Crash
    BY <1>6, NothingMoves DEF Crash
  <1> QED
    BY <1>1, <1>2, <1>3, <1>4, <1>5, <1>6, FirstAnswerMoves, SyncMoves DEF Next

\* The queue keeps the promise of Outbox: nothing is confirmed or removed that was not
\* carried out, whatever is lost, repeated, closed or restarted.
THEOREM QueueKeepsPromise == Spec => ImplementsOutbox
  <1>1. AbstractStep <=> [Promise!Next]_<<Outcomes, CarriedOut>>
    BY DEF AbstractStep
  <1> QED
    BY QueueInvariant, PromiseInit, PromiseStep, <1>1, PTL
    DEF Spec, ImplementsOutbox, Promise!Spec
=============================================================================
