--------------------------- MODULE ShipmentService ---------------------------
(***************************************************************************)
(* The four RPCs of the shipment service, from the gRPC handler through    *)
(* the service layer to the statements PostgreSQL executes.                *)
(*                                                                         *)
(* Every RPC is a call c in Calls, run by a goroutine of its own; pc[c] is *)
(* the statement it executes next.  A call draws fresh UUIDs, so c itself  *)
(* names the shipment it creates, its status event and its outbox event.   *)
(* A transaction's writes become visible at Commit; until then they are    *)
(* visible to others only through the locks they hold (RowLocked,          *)
(* RefReserved).                                                           *)
(***************************************************************************)
EXTENDS ShipmentRequest, Sequences, FiniteSets

CONSTANTS
  Calls,        \* the RPC invocations of a behaviour
  Requests,     \* the requests clients may send, a subset of Request
  PoolSize,     \* SetMaxOpenConns
  MaxCrashes,   \* bound on process crashes
  NoShipment    \* a call that has found no shipment (yet)

ASSUME RequestsAssumption   == Requests \subseteq Request
ASSUME NoShipmentAssumption == NoShipment \notin Calls
ASSUME BoundsAssumption     == PoolSize \in Nat \ {0} /\ MaxCrashes \in Nat

VARIABLES
  currentStatus,  \* table shipments: current_status by id, StatusUnspecified = no row
  history,        \* table status_events
  outbox,         \* table outbox_events, in commit order
  req,            \* the request of each call
  pc, reply,      \* where each call is, and the code it has answered with
  found, seen,    \* the shipment a call has looked up and the status it had
  stamp, clock,   \* the call's last reading of time.Now(), and the clock
  view,           \* the status events a GetShipmentHistory call returns
  arrived,        \* how many changes had committed when a call arrived (history variable)
  crashes

store == <<currentStatus, history, outbox>>
vars  == <<store, req, pc, reply, found, seen, stamp, clock, view, arrived,
           crashes>>

(***************************************************************************)
(* Requests, rows and events                                               *)
(***************************************************************************)
Creates(c) == req[c].op = "CreateShipment"
Changes(c) == req[c].op = "AddStatusEvent"

\* SELECT ... FROM shipments WHERE reference_number = $1
GetByReferenceNumber(ref) ==
  {s \in Calls : currentStatus[s] # StatusUnspecified /\ req[s].ref = ref}

\* (mutant) OccurredAt is left at its zero value
NewUndatedStatusEvent(c, s, status) ==
  [id |-> c, shipment |-> s, status |-> status, occurredAt |-> 0]

NewStatusEvent(c, s, status) ==
  [id |-> c, shipment |-> s, status |-> status, occurredAt |-> stamp[c]]

NewOutboxEvent(c, s, type, old, new) ==
  [id |-> c, aggregate |-> s, eventType |-> type, oldStatus |-> old,
   newStatus |-> new, createdAt |-> stamp[c], status |-> "pending", attempts |-> 0]

CreatedEvent(c) ==
  NewOutboxEvent(c, c, "shipment.created", StatusUnspecified, StatusPending)

\* OldStatus is read from the shipment after UpdateStatus has overwritten it.
ChangedEvent(c) ==
  NewOutboxEvent(c, found[c], "shipment.status_changed",
                 req[c].newStatus, req[c].newStatus)

(***************************************************************************)
(* Connections and locks                                                   *)
(***************************************************************************)
\* (mutant) the transaction stays open until the handler returns
InTxUntilReturn ==
  {"insertShipment", "updateShipment", "insertStatus", "insertOutbox", "commit",
   "stampInitial", "recordInitial"}

\* The statements between BeginTx and the end of the transaction.
InTx ==
  {"insertShipment", "updateShipment", "insertStatus", "insertOutbox", "commit"}

\* Where a transaction has written its shipment row but is not resolved.
HoldsRow == {"insertStatus", "insertOutbox", "commit", "inDoubt"}

ConnFree == Cardinality({d \in Calls : pc[d] \in InTx}) < PoolSize

\* Another transaction has updated row s.
RowLocked(s) == \E d \in Calls : Changes(d) /\ pc[d] \in HoldsRow /\ found[d] = s

\* (mutant) no unique index on reference_number
RefNeverReserved(ref) == FALSE

\* Another transaction has inserted ref into the unique index.
RefReserved(ref) == \E d \in Calls : Creates(d) /\ pc[d] \in HoldsRow /\ req[d].ref = ref

(***************************************************************************)
(* Steps of a call                                                         *)
(***************************************************************************)
Goto(c, label) == pc' = [pc EXCEPT ![c] = label] /\ UNCHANGED reply

Answer(c, code) ==
  /\ pc'    = [pc EXCEPT ![c] = "done"]
  /\ reply' = [reply EXCEPT ![c] = code]

\* (mutant) a coarse clock, whose readings need not differ
ReadCoarseClock(c) ==
  clock' = clock + 1 /\ stamp' = [stamp EXCEPT ![c] = (clock + 2) \div 2]

ReadClock(c) == clock' = clock + 1 /\ stamp' = [stamp EXCEPT ![c] = clock + 1]

Init ==
  /\ currentStatus = [s \in Calls |-> StatusUnspecified]
  /\ history = {} /\ outbox = <<>>
  /\ req \in [Calls -> Requests]
  /\ pc = [c \in Calls |-> "idle"] /\ reply = [c \in Calls |-> "none"]
  /\ found = [c \in Calls |-> NoShipment]
  /\ seen  = [c \in Calls |-> StatusUnspecified]
  /\ stamp = [c \in Calls |-> 0] /\ clock = 0
  /\ view = [c \in Calls |-> {}]
  /\ arrived = [c \in Calls |-> 0]
  /\ crashes = 0

\* The handler validates the request before it calls the service.
Receive(c) ==
  /\ pc[c] = "idle"
  /\ IF ValidRequest(req[c])
       THEN Goto(c, IF Creates(c) THEN "build" ELSE "lookup")
       ELSE Answer(c, "InvalidArgument")
  /\ arrived' = [arrived EXCEPT ![c] = Len(outbox)]
  /\ UNCHANGED <<store, req, found, seen, stamp, clock, view, crashes>>

\* CreateShipment up to CreateWithOutbox: the entity, its payload, the
\* timestamps.  What NewShipment or json.Marshal refuses is an Internal error.
Build(c) ==
  /\ pc[c] = "build"
  /\ IF NewShipmentAccepts(req[c]) /\ Marshalable(req[c])
       THEN ReadClock(c) /\ Goto(c, "beginTx")
       ELSE Answer(c, "Internal") /\ UNCHANGED <<stamp, clock>>
  /\ UNCHANGED <<store, req, found, seen, view, arrived, crashes>>

\* The lookup all other RPCs start with; AddStatusEvent validates its change
\* against the row it has read here, outside any transaction.
LookupMisses(c) ==
  /\ pc[c] = "lookup" /\ ConnFree
  /\ GetByReferenceNumber(req[c].ref) = {}
  /\ Answer(c, "NotFound")
  /\ UNCHANGED <<store, req, found, seen, stamp, clock, view, arrived, crashes>>

\* (mutant) the transition is not validated
ProceedUnchecked(c, status) ==
  \/ req[c].op = "GetShipment"        /\ Answer(c, "OK")
  \/ req[c].op = "GetShipmentHistory" /\ Goto(c, "readEvents")
  \/ Changes(c) /\ Goto(c, "stampChange")

\* (mutant) the transition is validated against the status of a new shipment
ProceedFromPending(c, status) ==
  \/ req[c].op = "GetShipment"        /\ Answer(c, "OK")
  \/ req[c].op = "GetShipmentHistory" /\ Goto(c, "readEvents")
  \/ Changes(c) /\ CanTransitionTo(StatusPending, req[c].newStatus)
     /\ Goto(c, "stampChange")
  \/ Changes(c) /\ ~CanTransitionTo(StatusPending, req[c].newStatus)
     /\ Answer(c, "FailedPrecondition")

Proceed(c, status) ==
  \/ req[c].op = "GetShipment"        /\ Answer(c, "OK")
  \/ req[c].op = "GetShipmentHistory" /\ Goto(c, "readEvents")
  \/ Changes(c) /\ CanTransitionTo(status, req[c].newStatus) /\ Goto(c, "stampChange")
  \/ Changes(c) /\ ~CanTransitionTo(status, req[c].newStatus)
     /\ Answer(c, "FailedPrecondition")

LookupFinds(c) ==
  /\ pc[c] = "lookup" /\ ConnFree
  /\ \E s \in GetByReferenceNumber(req[c].ref) :
       /\ found' = [found EXCEPT ![c] = s]
       /\ seen'  = [seen EXCEPT ![c] = currentStatus[s]]
       /\ Proceed(c, currentStatus[s])
  /\ UNCHANGED <<store, req, stamp, clock, view, arrived, crashes>>

\* UpdateStatus, the status event and the outbox event take their timestamps.
StampChange(c) ==
  /\ pc[c] = "stampChange"
  /\ ReadClock(c) /\ Goto(c, "beginTx")
  /\ UNCHANGED <<store, req, found, seen, view, arrived, crashes>>

\* (mutant) only the events of the current status are selected
ReadCurrentEvents(c) ==
  /\ pc[c] = "readEvents" /\ ConnFree
  /\ view' = [view EXCEPT ![c] =
                {e \in history : e.shipment = found[c] /\ e.status = seen[c]}]
  /\ Answer(c, "OK")
  /\ UNCHANGED <<store, req, found, seen, stamp, clock, arrived, crashes>>

\* GetStatusEvents; the result is ordered by occurredAt, so the set determines it.
GetStatusEvents(c) ==
  /\ pc[c] = "readEvents" /\ ConnFree
  /\ view' = [view EXCEPT ![c] = {e \in history : e.shipment = found[c]}]
  /\ Answer(c, "OK")
  /\ UNCHANGED <<store, req, found, seen, stamp, clock, arrived, crashes>>

(***************************************************************************)
(* The transactions CreateWithOutbox and UpdateWithOutbox                  *)
(***************************************************************************)
BeginTx(c) ==
  /\ pc[c] = "beginTx" /\ ConnFree
  /\ Goto(c, IF Creates(c) THEN "insertShipment" ELSE "updateShipment")
  /\ UNCHANGED <<store, req, found, seen, stamp, clock, view, arrived, crashes>>

\* The INSERT waits for a transaction inserting the same reference number.  A
\* duplicate is recognised by the whole text of the driver's error; to a driver
\* that words it otherwise (lib/pq may append the SQLSTATE) it is any error.
InsertShipment(c) ==
  /\ pc[c] = "insertShipment"
  /\ ~RefReserved(req[c].ref)
  /\ IF GetByReferenceNumber(req[c].ref) # {}
       THEN \E code \in {"AlreadyExists", "Internal"} : Answer(c, code)
       ELSE Goto(c, "insertOutbox")
  /\ UNCHANGED <<store, req, found, seen, stamp, clock, view, arrived, crashes>>

\* The UPDATE waits for the row lock; its WHERE clause has the id only.
UpdateShipment(c) ==
  /\ pc[c] = "updateShipment"
  /\ ~RowLocked(found[c])
  /\ IF currentStatus[found[c]] = StatusUnspecified
       THEN Answer(c, "NotFound")
       ELSE Goto(c, "insertStatus")
  /\ UNCHANGED <<store, req, found, seen, stamp, clock, view, arrived, crashes>>

InsertStatusEvent(c) ==
  /\ pc[c] = "insertStatus"
  /\ Goto(c, "insertOutbox")
  /\ UNCHANGED <<store, req, found, seen, stamp, clock, view, arrived, crashes>>

InsertOutboxEvent(c) ==
  /\ pc[c] = "insertOutbox"
  /\ Goto(c, "commit")
  /\ UNCHANGED <<store, req, found, seen, stamp, clock, view, arrived, crashes>>

\* (mutant) the shipment is stored without its outbox event
ApplyWithoutOutbox(c) ==
  IF Creates(c)
    THEN /\ currentStatus' = [currentStatus EXCEPT ![c] = StatusPending]
         /\ UNCHANGED <<history, outbox>>
    ELSE /\ currentStatus' = [currentStatus EXCEPT ![found[c]] = req[c].newStatus]
         /\ history' = history \cup {NewStatusEvent(c, found[c], req[c].newStatus)}
         /\ UNCHANGED outbox

\* (mutant) the row is written back with the status that was read
ApplyStaleStatus(c) ==
  IF Creates(c)
    THEN /\ currentStatus' = [currentStatus EXCEPT ![c] = StatusPending]
         /\ outbox' = Append(outbox, CreatedEvent(c))
         /\ UNCHANGED history
    ELSE /\ currentStatus' = [currentStatus EXCEPT ![found[c]] = seen[c]]
         /\ history' = history \cup {NewStatusEvent(c, found[c], req[c].newStatus)}
         /\ outbox'  = Append(outbox, ChangedEvent(c))

\* The writes of c's transaction take effect.
Apply(c) ==
  IF Creates(c)
    THEN /\ currentStatus' = [currentStatus EXCEPT ![c] = StatusPending]
         /\ outbox' = Append(outbox, CreatedEvent(c))
         /\ UNCHANGED history
    ELSE /\ currentStatus' = [currentStatus EXCEPT ![found[c]] = req[c].newStatus]
         /\ history' = history \cup {NewStatusEvent(c, found[c], req[c].newStatus)}
         /\ outbox'  = Append(outbox, ChangedEvent(c))

Commit(c) ==
  /\ pc[c] = "commit"
  /\ Apply(c)
  /\ IF Creates(c) THEN Goto(c, "stampInitial") ELSE Answer(c, "OK")
  /\ UNCHANGED <<req, found, seen, stamp, clock, view, arrived, crashes>>

\* (mutant) the error of tx.Commit is dropped
CommitErrorDropped(c) ==
  /\ pc[c] = "commit"
  /\ pc'    = [pc EXCEPT ![c] = "inDoubt"]
  /\ reply' = [reply EXCEPT ![c] = "OK"]
  /\ UNCHANGED <<store, req, found, seen, stamp, clock, view, arrived, crashes>>

\* (mutant) any error of the transaction is taken for a duplicate
CommitLostAsDuplicate(c) ==
  /\ pc[c] = "commit"
  /\ pc'    = [pc EXCEPT ![c] = "inDoubt"]
  /\ reply' = [reply EXCEPT ![c] = "AlreadyExists"]
  /\ UNCHANGED <<store, req, found, seen, stamp, clock, view, arrived, crashes>>

\* The connection breaks while COMMIT is in flight: the caller gets an error,
\* the server has not decided yet.
CommitLost(c) ==
  /\ pc[c] = "commit"
  /\ pc'    = [pc EXCEPT ![c] = "inDoubt"]
  /\ reply' = [reply EXCEPT ![c] = "Internal"]
  /\ UNCHANGED <<store, req, found, seen, stamp, clock, view, arrived, crashes>>

\* The server commits or rolls back a transaction whose client is gone.
Resolve(c) ==
  /\ pc[c] = "inDoubt"
  /\ Goto(c, "done")
  /\ Apply(c) \/ UNCHANGED store
  /\ UNCHANGED <<req, found, seen, stamp, clock, view, arrived, crashes>>

\* A statement fails or the caller's context is cancelled: deferred Rollback.
Fail(c) ==
  /\ pc[c] \in InTx \cup {"lookup", "readEvents", "beginTx"}
  /\ Answer(c, "Internal")
  /\ UNCHANGED <<store, req, found, seen, stamp, clock, view, arrived, crashes>>

\* CreateShipment then records the initial status event on its own; an error
\* is only logged.
StampInitial(c) ==
  /\ pc[c] = "stampInitial"
  /\ ReadClock(c) /\ Goto(c, "recordInitial")
  /\ UNCHANGED <<store, req, found, seen, view, arrived, crashes>>

InitialEvent(c) == NewStatusEvent(c, c, StatusPending)

\* An error leaves open whether the INSERT, which commits by itself, is executed.
RecordInitial(c) ==
  /\ pc[c] = "recordInitial" /\ ConnFree
  /\ \/ history' = history \cup {InitialEvent(c)} /\ pc' = [pc EXCEPT ![c] = "done"]
     \/ UNCHANGED history /\ pc' = [pc EXCEPT ![c] = "initialInDoubt"]
  /\ reply' = [reply EXCEPT ![c] = "OK"]
  /\ UNCHANGED <<currentStatus, outbox, req, found, seen, stamp, clock, view,
                 arrived, crashes>>

\* The server executes an INSERT whose client is gone, or never does.
ResolveInitial(c) ==
  /\ pc[c] = "initialInDoubt"
  /\ history' = history \cup {InitialEvent(c)} \/ UNCHANGED history
  /\ Goto(c, "done")
  /\ UNCHANGED <<currentStatus, outbox, req, found, seen, stamp, clock, view,
                 arrived, crashes>>

\* Where the client waits for an answer.
Running == {c \in Calls : pc[c] \notin {"idle", "inDoubt", "initialInDoubt", "done"}}

\* What the server may yet do for a call whose process died at label.
LeftBehind(label) ==
  CASE label = "commit"        -> "inDoubt"
    [] label = "recordInitial" -> "initialInDoubt"
    [] OTHER                   -> "done"

\* The process dies: open transactions roll back, a COMMIT or an INSERT in flight
\* is in doubt.  The restarted process has only the tables (InitSchema keeps them).
Crash ==
  /\ crashes < MaxCrashes /\ Running # {}
  /\ crashes' = crashes + 1
  /\ pc' = [c \in Calls |-> IF c \in Running THEN LeftBehind(pc[c]) ELSE pc[c]]
  /\ reply' = [c \in Calls |-> IF c \in Running THEN "Unavailable" ELSE reply[c]]
  /\ UNCHANGED <<store, req, found, seen, stamp, clock, view, arrived>>

Progress(c) ==
  \/ Build(c) \/ LookupMisses(c) \/ LookupFinds(c) \/ GetStatusEvents(c)
  \/ StampChange(c) \/ BeginTx(c) \/ InsertShipment(c) \/ UpdateShipment(c)
  \/ InsertStatusEvent(c) \/ InsertOutboxEvent(c) \/ Commit(c) \/ Resolve(c)
  \/ StampInitial(c) \/ RecordInitial(c) \/ ResolveInitial(c)

Step(c) == Progress(c) \/ CommitLost(c) \/ Fail(c)

\* Every call is over: nothing is left to do.
Quiescent == (\A c \in Calls : pc[c] = "done") /\ UNCHANGED vars

Next == Crash \/ Quiescent \/ \E c \in Calls : Receive(c) \/ Step(c)

Spec == Init /\ [][Next]_vars

\* The Go scheduler runs every goroutine and the server ends every statement it
\* can end; nothing is assumed to fail, so no call is rescued by an error.
FairSpec == Spec /\ \A c \in Calls : WF_vars(Progress(c))

-----------------------------------------------------------------------------
(***************************************************************************)
(* Properties                                                              *)
(***************************************************************************)
Labels == {"idle", "build", "lookup", "stampChange", "readEvents", "beginTx",
           "stampInitial", "recordInitial", "initialInDoubt", "inDoubt", "done"} \cup InTx

Codes == {"none", "OK", "InvalidArgument", "NotFound", "AlreadyExists",
          "FailedPrecondition", "Internal", "Unavailable"}

StatusEvent == [id : Calls, shipment : Calls, status : ShipmentStatus,
                occurredAt : Nat]

OutboxEvent ==
  [id : Calls, aggregate : Calls,
   eventType : {"shipment.created", "shipment.status_changed"},
   oldStatus : ShipmentStatus \cup {StatusUnspecified}, newStatus : ShipmentStatus,
   createdAt : Nat, status : {"pending"}, attempts : {0}]

\* Every variable has its type: in particular a change is only ever recorded
\* for a shipment that was looked up, with a status of the life cycle, whatever
\* number the request carried.
TypeOK ==
  /\ currentStatus \in [Calls -> ShipmentStatus \cup {StatusUnspecified}]
  /\ history \subseteq StatusEvent
  /\ outbox \in Seq(OutboxEvent)
  /\ req \in [Calls -> Requests]
  /\ pc \in [Calls -> Labels] /\ reply \in [Calls -> Codes]
  /\ found \in [Calls -> Calls \cup {NoShipment}]
  /\ seen \in [Calls -> ShipmentStatus \cup {StatusUnspecified}]
  /\ stamp \in [Calls -> Nat] /\ clock \in Nat
  /\ view \in [Calls -> SUBSET StatusEvent]
  /\ arrived \in [Calls -> Nat]
  /\ crashes \in Nat

Events == DOMAIN outbox

CreatedAt(i) == outbox[i].createdAt

Committed(c) == \E i \in Events : outbox[i].id = c

\* A shipment row exists exactly when its creation event does, the history has
\* only what the outbox announces, and every change the outbox announces is in
\* the history, whatever crashes, rollbacks and in-doubt commits happen
\* (CreateWithOutbox, UpdateWithOutbox, the late AddStatusEvent of a creation).
StoredWithEvent ==
  /\ \A s \in Calls : (currentStatus[s] # StatusUnspecified) <=>
        \E i \in Events : outbox[i].aggregate = s /\ outbox[i].id = s
  /\ \A e \in history :
        \E i \in Events : outbox[i].id = e.id /\ outbox[i].aggregate = e.shipment
                          /\ outbox[i].newStatus = e.status
  /\ \A i \in Events : outbox[i].id # outbox[i].aggregate =>
        \E e \in history : e.id = outbox[i].id /\ e.shipment = outbox[i].aggregate
                           /\ e.status = outbox[i].newStatus

\* Who orders the events of a shipment by created_at, as the poll and its
\* subscribers do, ends with the status of its row; or with one that a change has
\* overwritten that was already running when the newest event committed.  Only
\* overlapping changes make the row and the announcements differ for good
\* (created_at is read before the transaction, the row is written in it).
RowIsNewestUnlessRaced ==
  \A i \in Events :
    (\A j \in Events :
       outbox[j].aggregate = outbox[i].aggregate => CreatedAt(j) <= CreatedAt(i))
    => \E j \in Events :
         /\ outbox[j].aggregate = outbox[i].aggregate
         /\ currentStatus[outbox[i].aggregate] = outbox[j].newStatus
         /\ i = j \/ (i < j /\ arrived[outbox[j].id] < i)

\* Every committed change is a legal successor of a status the shipment had
\* earlier, even when changes race (AddStatusEvent validates a stale copy).
ChangeHasLegalOrigin ==
  \A i \in Events : outbox[i].eventType = "shipment.status_changed" =>
    \E j \in Events : /\ j < i
                      /\ outbox[j].aggregate = outbox[i].aggregate
                      /\ CanTransitionTo(outbox[j].newStatus, outbox[i].newStatus)

\* No shipment is delivered that was not picked up and in transit before.
DeliveredOnlyAfterTransit ==
  \A i \in Events : outbox[i].newStatus = StatusDelivered =>
    \E j, k \in Events : /\ j < k /\ k < i
                         /\ outbox[j].aggregate = outbox[i].aggregate
                         /\ outbox[k].aggregate = outbox[i].aggregate
                         /\ outbox[j].newStatus = StatusPickedUp
                         /\ outbox[k].newStatus = StatusInTransit

\* A change that arrived after its predecessor had committed follows the table:
\* only overlapping calls can break the state machine.
SequentialChangesFollowTable ==
  \A i, j \in Events :
    /\ j < i /\ outbox[j].aggregate = outbox[i].aggregate
    /\ \A k \in Events : j < k /\ k < i => outbox[k].aggregate # outbox[i].aggregate
    /\ j <= arrived[outbox[i].id]
    => CanTransitionTo(outbox[j].newStatus, outbox[i].newStatus)

\* What a client is told is what happened: OK means the write is durable, a
\* definite refusal means it never took effect, and no call takes effect twice.
AnswersMatchStore ==
  /\ \A c \in Calls : (Creates(c) \/ Changes(c)) /\ reply[c] = "OK" => Committed(c)
  /\ \A c \in Calls :
       reply[c] \in {"InvalidArgument", "NotFound", "AlreadyExists",
                     "FailedPrecondition"} => ~Committed(c)
  /\ \A i, j \in Events : outbox[i].id = outbox[j].id => i = j

\* No two shipments share a reference number, however creates race and fail.
UniqueReference ==
  \A s, t \in Calls :
    /\ currentStatus[s] # StatusUnspecified /\ currentStatus[t] # StatusUnspecified
    /\ req[s].ref = req[t].ref
    => s = t

\* The handler refuses a creation exactly when NewShipment would: the two lists
\* of required fields, kept in two files, agree.  (What both let through may still
\* fail: an amount json.Marshal refuses, Build, or a value the tables refuse, Fail.)
CreationRefusedAsByEntity ==
  \A c \in Calls : Creates(c) /\ pc[c] # "idle" =>
    (reply[c] = "InvalidArgument" <=> ~NewShipmentAccepts(req[c]))

\* A history read returns every change that had committed before it began.
HistorySeesPastChanges ==
  \A h \in Calls : req[h].op = "GetShipmentHistory" /\ reply[h] = "OK" =>
    \A i \in Events :
      /\ i <= arrived[h] /\ outbox[i].aggregate = found[h]
      /\ outbox[i].eventType = "shipment.status_changed"
      => \E e \in view[h] : e.id = outbox[i].id /\ e.status = outbox[i].newStatus

\* GetStatusEvents sorts by occurred_at: a change that had committed before
\* another one arrived comes before it in every history that shows both.
HistoryInCausalOrder ==
  \A i, j \in Events :
    /\ i <= arrived[outbox[j].id]
    /\ outbox[i].eventType = "shipment.status_changed"
    /\ outbox[j].eventType = "shipment.status_changed"
    => \A d, e \in history :
         d.id = outbox[i].id /\ e.id = outbox[j].id => d.occurredAt < e.occurredAt

\* Every call a client makes is answered: no statement waits for ever for a
\* row lock, a reserved reference or a pooled connection.
EveryCallAnswered == \A c \in Calls : pc[c] # "idle" ~> reply[c] # "none"

(***************************************************************************)
(* The service implements AtomicShipments                                  *)
(***************************************************************************)
\* The outbox is the log; a call's place in it, its answer and the status
\* events it read are what a client can observe.
LogOf(events) ==
  [i \in DOMAIN events |-> [call |-> events[i].id, shipment |-> events[i].aggregate,
                            status |-> events[i].newStatus]]

Atomic == INSTANCE AtomicShipments WITH
  log    <- LogOf(outbox),
  start  <- arrived,
  answer <- [c \in Calls |-> IF pc[c] = "idle" THEN "unsent" ELSE reply[c]],
  view   <- [c \in Calls |-> {e.id : e \in view[c]}]

\* Every call takes effect at most once and atomically, at a moment between its
\* arrival and its answer, and the answer tells whether it did; only a call with
\* an unknown outcome may take effect later.
ImplementsAtomicShipments == Atomic!Spec

(***************************************************************************)
(* Claims of the documentation that the code does not keep                 *)
(***************************************************************************)
\* README: terminal states cannot be modified once set.
TerminalStatesFinal ==
  [][\A s \in Calls : IsTerminalState(currentStatus[s])
                        => currentStatus'[s] = currentStatus[s]]_vars

\* outbox.go: a ShipmentStatusChangedEvent carries the old and the new status.
OldStatusIsStatusBefore ==
  \A i \in Events : outbox[i].eventType = "shipment.status_changed" =>
    outbox[i].oldStatus = seen[outbox[i].id]
=============================================================================
