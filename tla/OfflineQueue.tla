------------------------------ MODULE OfflineQueue ------------------------------
(***************************************************************************)
(* The mutations a tablet may queue (POST /orders, POST /orders/:id/items) *)
(* from the first attempt to the end: api.js sends them with an            *)
(* Idempotency-Key and stores them in IndexedDB when the network fails;    *)
(* the rounds of offlineSync.js in every open tab send them again; the     *)
(* middleware of the server answers a key it knows with the stored answer. *)
(*                                                                         *)
(* The tabs of a browser share the stored rows and nothing else.  A client *)
(* may stop waiting while its delivery is still on the way, or at work in  *)
(* the server.  Rows of one round are sent in any order: the two kinds of  *)
(* action that are queued do not depend on each other.                     *)
(***************************************************************************)
EXTENDS Naturals

CONSTANTS
  Actions,       \* mutations the waiters send, each with a key of its own
  Tabs,          \* open tabs of the browser
  Deliveries,    \* HTTP requests under way at the same time
  MaxAttempts,   \* tries before a row is given up (5 in the code)
  NoAction,      \* the action of a tab or a delivery that has none
  Page,          \* the client of a first attempt
  Nobody         \* the client of a delivery nobody waits for any more

ASSUME QueueAssumption ==
  /\ MaxAttempts \in Nat \ {0}
  /\ NoAction \notin Actions
  /\ Page \notin Tabs /\ Nobody \notin Tabs /\ Page # Nobody

VARIABLES
  status,     \* of each action: in the hands of the page, or its row in IndexedDB
  attempts,   \* of its row
  tab,        \* the round each tab is in
  delivery,   \* requests under way
  key,        \* idempotency_keys: the answer stored under the key of an action
  carried,    \* how often the server committed an action, counted up to 2
  lost,       \* actions whose answer the server could not store
  closed      \* actions that a tab was sending when it was closed

vars == <<status, attempts, tab, delivery, key, carried, lost, closed>>

-----------------------------------------------------------------------------
Status   == {"new", "sending", "confirmed", "rejected",        \* before it is a row
             "pending", "syncing", "failed", "done"}
Results  == {"ok", "refused", "error"}         \* 2xx, 4xx, 5xx
Clients  == Tabs \cup {Page, Nobody}
Round    == [todo  : SUBSET Actions,
             now   : Actions \cup {NoAction},
             error : {"none", "passing", "permanent"},    \* of an action that has failed
             tries : 0..MaxAttempts]                      \* what its row said then
Delivery == [pc     : {"idle", "net", "handler", "committed", "replied"},
             act    : Actions \cup {NoAction},
             client : Clients,
             result : Results \cup {"none"},
             saving : BOOLEAN]                 \* the INSERT of the key is under way

IdleTab  == [todo |-> {}, now |-> NoAction, error |-> "none", tries |-> 0]
IdleSlot == [pc |-> "idle", act |-> NoAction, client |-> Nobody, result |-> "none",
             saving |-> FALSE]

Init ==
  /\ status = [a \in Actions |-> "new"]
  /\ attempts = [a \in Actions |-> 0]
  /\ tab = [t \in Tabs |-> IdleTab]
  /\ delivery = [d \in Deliveries |-> IdleSlot]
  /\ key = [a \in Actions |-> "none"]
  /\ carried = [a \in Actions |-> 0]
  /\ lost = {} /\ closed = {}

-----------------------------------------------------------------------------
Is(d, pc) == delivery[d].pc = pc

\* A request of its own for a, sent by c.
Sent(a, c) == [pc |-> "net", act |-> a, client |-> c, result |-> "none", saving |-> FALSE]

\* What is left of a delivery: nothing once it is answered, stored and heard.
Settled(s) == IF s.pc = "replied" /\ s.client = Nobody /\ ~s.saving THEN IdleSlot ELSE s

Put(d, s) == delivery' = [delivery EXCEPT ![d] = Settled(s)]

\* c stops waiting for a: whatever is under way goes on without it.
Unheard(a, c) ==
  delivery' = [d \in Deliveries |->
    IF delivery[d].act = a /\ delivery[d].client = c
      THEN Settled([delivery[d] EXCEPT !.client = Nobody]) ELSE delivery[d]]

SetStatus(a, s) == status' = [status EXCEPT ![a] = s]

Stored(a) == status[a] \in {"pending", "syncing", "failed"}

-----------------------------------------------------------------------------
(* The page: the first attempt, with the interceptors of api.js.           *)

FirstAttempt(a, d) ==
  /\ status[a] = "new" /\ Is(d, "idle")
  /\ SetStatus(a, "sending")
  /\ Put(d, Sent(a, Page))
  /\ UNCHANGED <<attempts, tab, key, carried, lost, closed>>

\* An answer that is no success is shown, or, if the browser believes to be offline,
\* taken for an error of the network.
FirstAnswer(d) ==
  /\ Is(d, "replied") /\ delivery[d].client = Page
  /\ \E s \in IF delivery[d].result = "ok" THEN {"confirmed"} ELSE {"rejected", "pending"} :
       SetStatus(delivery[d].act, s)
  /\ Put(d, [delivery[d] EXCEPT !.client = Nobody])
  /\ UNCHANGED <<attempts, tab, key, carried, lost, closed>>

\* enqueueAction; the error itself is shown if IndexedDB refuses the row.
FirstNetworkError(a) ==
  /\ status[a] = "sending"
  /\ \E s \in {"pending", "rejected"} : SetStatus(a, s)
  /\ Unheard(a, Page)
  /\ UNCHANGED <<attempts, tab, key, carried, lost, closed>>

-----------------------------------------------------------------------------
(* syncPendingActions in a tab.                                            *)

StartRound(t) ==
  /\ tab[t] = IdleTab
  /\ \E a \in Actions : status[a] = "pending"
  /\ tab' = [tab EXCEPT ![t].todo = {a \in Actions : status[a] = "pending"}]
  /\ UNCHANGED <<status, attempts, delivery, key, carried, lost, closed>>

\* markSyncing writes to no row if another tab has removed it; it is sent all the same.
SendNext(t, a, d) ==
  /\ tab[t].now = NoAction /\ a \in tab[t].todo /\ Is(d, "idle")
  /\ tab' = [tab EXCEPT ![t] = [tab[t] EXCEPT !.todo = @ \ {a}, !.now = a]]
  /\ IF Stored(a) THEN SetStatus(a, "syncing") ELSE UNCHANGED status
  /\ Put(d, Sent(a, t))
  /\ UNCHANGED <<attempts, key, carried, lost, closed>>

\* Mistake: the state has the name of the counter in the answer of the round.
AfterFailureAsOutcome(tries, permanent) ==
  IF permanent \/ tries + 1 >= MaxAttempts THEN "failed" ELSE "retry"

\* Mistake: an action that goes back to the queue stays marked as being sent.
FailedInPlace(tries, permanent) ==
  IF permanent \/ tries + 1 >= MaxAttempts THEN "failed" ELSE "syncing"

AfterFailure(tries, permanent) ==
  IF permanent \/ tries + 1 >= MaxAttempts THEN "failed" ELSE "pending"

\* The round goes on with its next action.
Onward(t) == tab' = [tab EXCEPT ![t] = [IdleTab EXCEPT !.todo = tab[t].todo]]

\* markFailed reads the row, and does nothing if it is gone ...
ReadFailed(t, a, error) ==
  IF Stored(a) THEN tab' = [tab EXCEPT ![t] = [@ EXCEPT !.error = error, !.tries = attempts[a]]]
               ELSE Onward(t)

\* ... and counts one more than it has read, whatever other tabs wrote meanwhile.
MarkFailed(t) ==
  /\ tab[t].error # "none"
  /\ LET a == tab[t].now  tries == tab[t].tries IN
       IF Stored(a)
         THEN /\ SetStatus(a, AfterFailure(tries, tab[t].error = "permanent"))
              /\ attempts' = [attempts EXCEPT ![a] =
                               IF tries < MaxAttempts THEN tries + 1 ELSE tries]
         ELSE UNCHANGED <<status, attempts>>
  /\ Onward(t)
  /\ UNCHANGED <<delivery, key, carried, lost, closed>>

MarkDone(a) == IF Stored(a) THEN SetStatus(a, "done") ELSE UNCHANGED status

\* Mistake: every answer of the server ends the action, a refusal too.
AcceptsAny(result) == result # "error"

ResponseOk(result) == result = "ok"

SyncAnswer(t, d) ==
  /\ Is(d, "replied") /\ delivery[d].client = t
  /\ LET a == delivery[d].act  result == delivery[d].result IN
       IF ResponseOk(result)
         THEN MarkDone(a) /\ Onward(t)
         ELSE /\ ReadFailed(t, a, IF result = "refused" THEN "permanent" ELSE "passing")
              /\ UNCHANGED status
  /\ Put(d, [delivery[d] EXCEPT !.client = Nobody])
  /\ UNCHANGED <<attempts, key, carried, lost, closed>>

SyncNetworkError(t) ==
  /\ tab[t].now # NoAction /\ tab[t].error = "none"
  /\ ReadFailed(t, tab[t].now, "passing")
  /\ Unheard(tab[t].now, t)
  /\ UNCHANGED <<status, attempts, key, carried, lost, closed>>

\* The page is closed or reloaded while it waits: the row stays as it is marked.
Reload(t) ==
  /\ tab[t].now \notin closed \cup {NoAction}
  /\ closed' = closed \cup {tab[t].now}
  /\ Unheard(tab[t].now, t)
  /\ tab' = [tab EXCEPT ![t] = IdleTab]
  /\ UNCHANGED <<status, attempts, key, carried, lost>>

-----------------------------------------------------------------------------
(* The server: authentication, idempotencyMiddleware, the handler.         *)

\* The token is refused, or the lookup of the key fails: nothing is stored.
NotAdmitted(d) ==
  /\ Is(d, "net")
  /\ \E result \in {"refused", "error"} :
       Put(d, [delivery[d] EXCEPT !.pc = "replied", !.result = result])
  /\ UNCHANGED <<status, attempts, tab, key, carried, lost, closed>>

Lookup(d) ==
  /\ Is(d, "net")
  /\ LET stored == key[delivery[d].act] IN
       Put(d, IF stored = "none" THEN [delivery[d] EXCEPT !.pc = "handler"]
              ELSE [delivery[d] EXCEPT !.pc = "replied", !.result = stored])
  /\ UNCHANGED <<status, attempts, tab, key, carried, lost, closed>>

\* res.json: the answer goes out, and the INSERT of the key with it.
Answer(d, result) ==
  Put(d, [delivery[d] EXCEPT !.pc = "replied", !.result = result, !.saving = TRUE])

\* The handler refuses, or fails before its COMMIT.
HandlerRefuses(d) ==
  /\ Is(d, "handler")
  /\ \E result \in {"refused", "error"} : Answer(d, result)
  /\ UNCHANGED <<status, attempts, tab, key, carried, lost, closed>>

HandlerCommits(d) ==
  /\ Is(d, "handler")
  /\ carried' = [carried EXCEPT ![delivery[d].act] = IF @ < 2 THEN @ + 1 ELSE @]
  /\ Put(d, [delivery[d] EXCEPT !.pc = "committed"])
  /\ UNCHANGED <<status, attempts, tab, key, lost, closed>>

\* Queries after the COMMIT can still fail, and the answer is an error then.
HandlerAnswers(d) ==
  /\ Is(d, "committed")
  /\ \E result \in {"ok", "error"} : Answer(d, result)
  /\ UNCHANGED <<status, attempts, tab, key, carried, lost, closed>>

\* Mistake: an error is not stored, so that it can be retried.
StoresGoodAnswer(a, result) ==
  key' = IF key[a] = "none" /\ result # "error" THEN [key EXCEPT ![a] = result] ELSE key

\* INSERT ... ON CONFLICT DO NOTHING, whatever the answer was.
StoreAnswer(a, result) ==
  key' = IF key[a] = "none" THEN [key EXCEPT ![a] = result] ELSE key

SaveKey(d) ==
  /\ delivery[d].saving
  /\ StoreAnswer(delivery[d].act, delivery[d].result)
  /\ Put(d, [delivery[d] EXCEPT !.saving = FALSE])
  /\ UNCHANGED <<status, attempts, tab, carried, lost, closed>>

SaveFails(d) ==
  /\ delivery[d].saving
  /\ lost' = lost \cup {delivery[d].act}
  /\ Put(d, [delivery[d] EXCEPT !.saving = FALSE])
  /\ UNCHANGED <<status, attempts, tab, key, carried, closed>>

\* The process ends: what it was working on, or storing, is gone, and whoever waits
\* for it will meet an error of the network.  Answers that left are on their way.
Crash ==
  /\ \E d \in Deliveries : delivery[d].pc \in {"handler", "committed"} \/ delivery[d].saving
  /\ lost' = lost \cup {delivery[d].act : d \in {e \in Deliveries : delivery[e].pc = "committed"
                                                               \/ delivery[e].saving}}
  /\ delivery' = [d \in Deliveries |->
       IF delivery[d].pc \in {"handler", "committed"} THEN IdleSlot
       ELSE Settled([delivery[d] EXCEPT !.saving = FALSE])]
  /\ UNCHANGED <<status, attempts, tab, key, carried, closed>>

-----------------------------------------------------------------------------
Serve(d) ==
  \/ NotAdmitted(d) \/ Lookup(d) \/ HandlerRefuses(d) \/ HandlerCommits(d)
  \/ HandlerAnswers(d) \/ SaveKey(d) \/ SaveFails(d)

Sync(t) ==
  \/ StartRound(t) \/ SyncNetworkError(t) \/ MarkFailed(t)
  \/ \E d \in Deliveries : SyncAnswer(t, d) \/ \E a \in Actions : SendNext(t, a, d)

Next ==
  \/ \E a \in Actions : FirstNetworkError(a) \/ \E d \in Deliveries : FirstAttempt(a, d)
  \/ \E d \in Deliveries : FirstAnswer(d) \/ Serve(d)
  \/ \E t \in Tabs : Sync(t) \/ Reload(t)
  \/ Crash

Spec == Init /\ [][Next]_vars

\* Every tab polls, and a request it waits for ends in an answer or an error; the
\* server goes on with what it has received.
FairSpec ==
  /\ Spec
  /\ \A t \in Tabs : WF_vars(Sync(t))
  /\ \A d \in Deliveries : WF_vars(Serve(d))

-----------------------------------------------------------------------------
(* Properties.                                                             *)

TypeOK ==
  /\ status \in [Actions -> Status]
  /\ attempts \in [Actions -> 0..MaxAttempts]
  /\ tab \in [Tabs -> Round]
  /\ delivery \in [Deliveries -> Delivery]
  /\ key \in [Actions -> Results \cup {"none"}]
  /\ carried \in [Actions -> 0..2]
  /\ lost \in SUBSET Actions /\ closed \in SUBSET Actions

\* A delivery of a was carried out, and its answer is not stored yet.
Owing(a) ==
  \E d \in Deliveries : /\ delivery[d].act = a
                        /\ delivery[d].pc = "committed" \/ delivery[d].saving

\* "garantisce che 2 retry con stessa key non creino duplicati", as far as the code
\* does: what was carried out is known by its key, so that no delivery that arrives
\* from then on runs again; the gap is from the COMMIT to the INSERT of the key, and
\* a key that could not be stored.
CarriedOutIsKnown ==
  \A a \in Actions : carried[a] > 0 /\ ~Owing(a) /\ a \notin lost => key[a] # "none"

\* What the waiter's side knows of an action in a state of the code.
Outcome(s) ==
  CASE s \in {"new", "sending"}     -> "open"
    [] s = "rejected"               -> "rejected"
    [] s \in {"pending", "syncing"} -> "kept"
    [] s = "failed"                 -> "givenUp"
    [] s \in {"confirmed", "done"}  -> "settled"

Outcomes   == [a \in Actions |-> Outcome(status[a])]
CarriedOut == {a \in Actions : carried[a] > 0}

Promise == INSTANCE Outbox WITH state <- Outcomes, happened <- CarriedOut

\* The promise of the queue: nothing is confirmed to the waiter, or removed from the
\* queue, that the server has not carried out.
ImplementsOutbox == Promise!Spec

\* A row that waits is sent, or given up after MaxAttempts tries, whatever the network
\* and the server do; only one that was being sent by a closed page may stay forever.
PendingIsSettled ==
  \A a \in Actions :
    status[a] = "pending" ~> status[a] \in {"failed", "done"} \/ a \in closed
=============================================================================
