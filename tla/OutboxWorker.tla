---------------------------- MODULE OutboxWorker ----------------------------
(***************************************************************************)
(* The outbox worker: rows of outbox_events, written by the service, are   *)
(* polled, published to RabbitMQ and marked.                               *)
(*                                                                         *)
(* A worker w in Workers is one incarnation after another of the service   *)
(* process; two of them run side by side while a rolling update replaces   *)
(* the pod.  An event is named by its place in the order of created_at     *)
(* (readings of the clock are distinct); Enqueue commits events in any     *)
(* order, as transactions commit in another order than they read the clock.*)
(***************************************************************************)
EXTENDS Naturals, Sequences, FiniteSets

CONSTANTS
  Workers,
  MaxEvents,    \* bound on the events the service enqueues
  BatchSize,    \* OUTBOX_BATCH_SIZE
  MaxAttempts,  \* maxAttempts of the worker, and the limit of its query
  MaxFaults     \* bound on lost connections, database errors, stops and crashes

ASSUME WorkerBoundsAssumption ==
  /\ BatchSize \in Nat \ {0} /\ MaxAttempts \in Nat \ {0}
  /\ MaxEvents \in Nat /\ MaxFaults \in Nat

Events == 1..MaxEvents

VARIABLES
  status, attempts,  \* table outbox_events; "absent" = no row yet
  committed,         \* the events in commit order (history variable)
  pc,                \* what each worker does next; "down" = no process
  cancelled,         \* workerCtx is cancelled
  batch,             \* events fetched and not handled yet, with their attempts
  connected,         \* the AMQP connection of each worker is open
  wire,              \* what a worker has written and the broker has not read
  received,          \* the events the broker has read at least once
  sent, failures,    \* all Publish calls that returned nil; others, by event
  faults

rows   == <<status, attempts, committed>>
net    == <<connected, wire, received, sent>>
vars   == <<rows, net, pc, cancelled, batch, failures, faults>>

(***************************************************************************)
(* The repository's query and the worker's position in its batch           *)
(***************************************************************************)
\* (mutant) rows that are done are fetched again
PendingOrDone == {e \in Events : status[e] # "absent" /\ attempts[e] < MaxAttempts}

\* WHERE status = 'pending' AND attempts < 5
Pending == {e \in Events : status[e] = "pending" /\ attempts[e] < MaxAttempts}

\* (mutant) the LIMIT is dropped
Unlimited(rowSet) == rowSet

\* (mutant) ORDER BY created_at DESC
Newest(rowSet) ==
  {e \in rowSet : Cardinality({d \in rowSet : d > e}) < BatchSize}

\* ORDER BY created_at ASC LIMIT $1
Oldest(rowSet) ==
  {e \in rowSet : Cardinality({d \in rowSet : d < e}) < BatchSize}

\* (mutant) the loop runs from the newest event to the oldest
IsNewestOfBatch(w, e) == e \in DOMAIN batch[w] /\ \A d \in DOMAIN batch[w] : e >= d

\* The event the loop over the batch is at.
IsCurrent(w, e) == e \in DOMAIN batch[w] /\ \A d \in DOMAIN batch[w] : e <= d

\* The rows selected, each copied with its attempts.
GetPendingEvents == [e \in Oldest(Pending) |-> attempts[e]]

NoBatch == [e \in {} |-> 0]

\* The loop moves on, or the batch is done.
NextEvent(w, e) ==
  LET rest == DOMAIN batch[w] \ {e} IN
  /\ batch' = [batch EXCEPT ![w] = [d \in rest |-> batch[w][d]]]
  /\ pc' = [pc EXCEPT ![w] = IF rest = {} THEN "polling" ELSE "publishing"]

\* A statement of w returns an error and has no effect: its context is cancelled,
\* or a fault.  The worker only logs it, so that an UPDATE which was executed and
\* whose answer was lost is one that succeeded, before the cancellation or fault.
StatementFails(w) ==
  \/ cancelled[w] /\ UNCHANGED faults
  \/ ~cancelled[w] /\ faults < MaxFaults /\ faults' = faults + 1

(***************************************************************************)
(* Actions                                                                 *)
(***************************************************************************)
Init ==
  /\ status = [e \in Events |-> "absent"] /\ attempts = [e \in Events |-> 0]
  /\ committed = <<>>
  /\ pc = [w \in Workers |-> "down"] /\ cancelled = [w \in Workers |-> FALSE]
  /\ batch = [w \in Workers |-> NoBatch]
  /\ connected = [w \in Workers |-> FALSE] /\ wire = [w \in Workers |-> <<>>]
  /\ received = {} /\ sent = <<>> /\ failures = [e \in Events |-> 0]
  /\ faults = 0

\* CreateWithOutbox or UpdateWithOutbox commits an outbox row.
Enqueue(e) ==
  /\ status[e] = "absent"
  /\ status' = [status EXCEPT ![e] = "pending"]
  /\ committed' = Append(committed, e)
  /\ UNCHANGED <<attempts, net, pc, cancelled, batch, failures, faults>>

\* main connects to the broker and starts the worker.
Start(w) ==
  /\ pc[w] = "down"
  /\ pc' = [pc EXCEPT ![w] = "polling"]
  /\ connected' = [connected EXCEPT ![w] = TRUE]
  /\ UNCHANGED <<rows, wire, received, sent, cancelled, batch, failures, faults>>

\* processOutbox fetches a batch; with a cancelled context the query fails,
\* which like any error of the query changes nothing.
Fetch(w) ==
  /\ pc[w] = "polling" /\ ~cancelled[w] /\ Pending # {}
  /\ batch' = [batch EXCEPT ![w] = GetPendingEvents]
  /\ pc' = [pc EXCEPT ![w] = "publishing"]
  /\ UNCHANGED <<rows, net, cancelled, failures, faults>>

\* (mutant) the error of Publish is ignored
PublishUnchecked(w, e) ==
  /\ pc[w] = "publishing" /\ IsCurrent(w, e)
  /\ pc' = [pc EXCEPT ![w] = "marking"]
  /\ IF connected[w]
       THEN /\ wire' = [wire EXCEPT ![w] = Append(@, e)]
            /\ sent' = Append(sent, e) /\ UNCHANGED failures
       ELSE /\ failures' = [failures EXCEPT ![e] = @ + 1] /\ UNCHANGED <<wire, sent>>
  /\ UNCHANGED <<rows, connected, received, cancelled, batch, faults>>

\* Publish returns nil once the message is written to the connection: the
\* channel is not in confirm mode, and the context is not consulted.
Publish(w, e) ==
  /\ pc[w] = "publishing" /\ IsCurrent(w, e)
  /\ \/ /\ connected[w]
        /\ wire' = [wire EXCEPT ![w] = Append(@, e)]
        /\ sent' = Append(sent, e)
        /\ pc' = [pc EXCEPT ![w] = "marking"]
        /\ UNCHANGED failures
     \/ /\ ~connected[w]
        /\ failures' = [failures EXCEPT ![e] = @ + 1]
        /\ pc' = [pc EXCEPT ![w] = "failing"]
        /\ UNCHANGED <<wire, sent>>
  /\ UNCHANGED <<rows, connected, received, cancelled, batch, faults>>

\* MarkAsProcessed: an UPDATE by id only.
Mark(w, e) ==
  /\ pc[w] = "marking" /\ IsCurrent(w, e)
  /\ \/ ~cancelled[w] /\ status' = [status EXCEPT ![e] = "processed"] /\ UNCHANGED faults
     \/ StatementFails(w) /\ UNCHANGED status
  /\ NextEvent(w, e)
  /\ UNCHANGED <<attempts, committed, net, cancelled, failures>>

\* (mutant) the failure at hand is not counted
CountedAttempts(a) == a

\* (mutant) a first failure is taken for the last
AllAttempts(a) == MaxAttempts

AttemptsWithThis(a) == a + 1

\* Both update by id, whatever the row has become since it was fetched.
MarkAsFailed(e) ==
  status' = [status EXCEPT ![e] = "failed"] /\ UNCHANGED attempts

\* (mutant) the UPDATE also resets the status, for the next poll
IncrementAndReopen(e) ==
  /\ attempts' = [attempts EXCEPT ![e] = @ + 1]
  /\ status' = [status EXCEPT ![e] = "pending"]

IncrementAttempt(e) ==
  attempts' = [attempts EXCEPT ![e] = @ + 1] /\ UNCHANGED status

\* handlePublishFailure decides by the attempts of the fetched copy.
HandleFailure(w, e) ==
  /\ pc[w] = "failing" /\ IsCurrent(w, e)
  /\ \/ /\ ~cancelled[w]
        /\ IF AttemptsWithThis(batch[w][e]) >= MaxAttempts
             THEN MarkAsFailed(e) ELSE IncrementAttempt(e)
        /\ UNCHANGED faults
     \/ StatementFails(w) /\ UNCHANGED <<status, attempts>>
  /\ NextEvent(w, e)
  /\ UNCHANGED <<committed, net, cancelled, failures>>

\* The broker reads the next message of a connection.
Deliver(w) ==
  /\ wire[w] # <<>>
  /\ received' = received \cup {Head(wire[w])}
  /\ wire' = [wire EXCEPT ![w] = Tail(@)]
  /\ UNCHANGED <<rows, connected, sent, pc, cancelled, batch, failures, faults>>

\* The connection breaks, with what is still on it; nothing reopens it before
\* the process restarts (handleConnectionErrors only logs).
ConnLost(w) ==
  /\ connected[w] /\ faults < MaxFaults /\ faults' = faults + 1
  /\ connected' = [connected EXCEPT ![w] = FALSE]
  /\ wire' = [wire EXCEPT ![w] = <<>>]
  /\ UNCHANGED <<rows, received, sent, pc, cancelled, batch, failures>>

\* SIGTERM: main cancels workerCtx and does not wait for the worker, which
\* runs on to the end of its batch unless the process exits first.
Cancel(w) ==
  /\ pc[w] # "down" /\ ~cancelled[w]
  /\ faults < MaxFaults /\ faults' = faults + 1
  /\ cancelled' = [cancelled EXCEPT ![w] = TRUE]
  /\ UNCHANGED <<rows, net, pc, batch, failures>>

ProcessEnds(w) ==
  /\ pc' = [pc EXCEPT ![w] = "down"]
  /\ cancelled' = [cancelled EXCEPT ![w] = FALSE]
  /\ batch' = [batch EXCEPT ![w] = NoBatch]
  /\ connected' = [connected EXCEPT ![w] = FALSE]
  /\ wire' = [wire EXCEPT ![w] = <<>>]
  /\ UNCHANGED <<rows, sent, failures>>

\* main returns; the deferred Close lets the broker read all that was written.
Exit(w) ==
  /\ cancelled[w]
  /\ ProcessEnds(w)
  /\ received' = received \cup {wire[w][i] : i \in DOMAIN wire[w]}
  /\ UNCHANGED faults

Crash(w) ==
  /\ pc[w] # "down" /\ faults < MaxFaults /\ faults' = faults + 1
  /\ ProcessEnds(w)
  /\ UNCHANGED received

\* A tick that finds nothing to do.
Idle(w) == pc[w] = "polling" /\ ~cancelled[w] /\ Pending = {} /\ UNCHANGED vars

Handle(w) == \E e \in Events : Publish(w, e) \/ Mark(w, e) \/ HandleFailure(w, e)

Work(w) == Start(w) \/ Fetch(w) \/ Handle(w) \/ Exit(w)

Next ==
  \/ \E e \in Events : Enqueue(e)
  \/ \E w \in Workers : Work(w) \/ Deliver(w) \/ ConnLost(w) \/ Cancel(w)
                        \/ Crash(w) \/ Idle(w)

Spec == Init /\ [][Next]_vars

\* Kubernetes restarts the pod, the ticker fires, statements and Publish return.
FairSpec == Spec /\ \A w \in Workers : WF_vars(Work(w)) /\ WF_vars(Deliver(w))

-----------------------------------------------------------------------------
(***************************************************************************)
(* Properties                                                              *)
(***************************************************************************)
\* A function from some set of events to their attempts.
IsBatch(b) == DOMAIN b \subseteq Events /\ b \in [DOMAIN b -> Nat]

\* Every variable has its type; a worker never holds more than BatchSize
\* events, and is inside its loop exactly while it holds some.
TypeOK ==
  /\ status \in [Events -> {"absent", "pending", "processed", "failed"}]
  /\ attempts \in [Events -> Nat] /\ failures \in [Events -> Nat]
  /\ committed \in Seq(Events) /\ sent \in Seq(Events)
  /\ pc \in [Workers -> {"down", "polling", "publishing", "marking", "failing"}]
  /\ cancelled \in [Workers -> BOOLEAN] /\ connected \in [Workers -> BOOLEAN]
  /\ batch = [w \in Workers |-> batch[w]]
  /\ \A w \in Workers : /\ IsBatch(batch[w])
                        /\ Cardinality(DOMAIN batch[w]) <= BatchSize
                        /\ (batch[w] = NoBatch) <=> (pc[w] \in {"down", "polling"})
  /\ wire \in [Workers -> Seq(Events)] /\ received \subseteq Events
  /\ faults \in Nat

\* An event is marked as processed only if some Publish of it succeeded, also
\* when two workers handle it at once.
ProcessedWasSent ==
  \A e \in Events : status[e] = "processed" => \E i \in DOMAIN sent : sent[i] = e

\* An event is given up only after MaxAttempts failed publishes, and no failed
\* publish is counted twice, even when two workers count on stale copies.
FailedOnlyAfterMaxAttempts ==
  \A e \in Events : /\ attempts[e] <= failures[e]
                    /\ status[e] = "failed" => failures[e] >= MaxAttempts

\* A pending event is one the query still selects: an event whose retries are
\* used up has been marked as failed (outbox.go, MarkAsFailed).  However
\* statements fail, one worker keeps it; two at once do not.
PendingIsSelected == \A e \in Events : status[e] = "pending" => e \in Pending

\* An event is published at most once by every worker that runs beside the
\* others, and once more for every fault: a worker publishes an event again only
\* if a fault came between the publish and its mark.
DuplicatesNeedFaults ==
  \A e \in Events :
    Cardinality({i \in DOMAIN sent : sent[i] = e}) <= Cardinality(Workers) + faults

\* Workers that count on stale copies take a row past its last attempt, where no
\* query selects it, by at most one attempt for every worker beside the first;
\* with one worker, the attempt that would be the last is never counted.
RetriesBounded ==
  \A e \in Events : attempts[e] <= (MaxAttempts - 1) + (Cardinality(Workers) - 1)

\* With one worker, of two events committed in the order of their timestamps
\* the older one is published first, unless a publish of it failed.
PublishedInOrder ==
  \A d, e \in Events : d < e /\ failures[d] = 0 =>
    \A i, j \in DOMAIN committed : committed[i] = d /\ committed[j] = e /\ i < j =>
      \A k \in DOMAIN sent : sent[k] = e => \E m \in 1..k-1 : sent[m] = d

\* With one worker, an event that is processed or given up stays so: no copy of a
\* batch reopens or overrides it (the updates are by id, whatever the status is).
OutcomeIsFinal ==
  [][\A e \in Events : status[e] \in {"processed", "failed"}
                         => status'[e] = status[e] /\ attempts'[e] = attempts[e]]_vars

\* With one worker and finitely many faults, no event stays pending for ever.
EverySettled == \A e \in Events : status[e] = "pending" ~> status[e] # "pending"

(***************************************************************************)
(* The workers implement EventDelivery                                     *)
(***************************************************************************)
Delivery == INSTANCE EventDelivery WITH state <- status, Limit <- MaxAttempts

\* With one worker, whatever breaks: an event is published only while it is
\* pending, and settled once, for a publish that succeeded or for MaxAttempts
\* that failed.  (Publish, MarkAsProcessed, MarkAsFailed on stale copies.)
ImplementsEventDelivery == Delivery!Spec

\* With several workers: only committed events are published, each outcome has its
\* cause, and a settled event may change its outcome but is never pending again.
ImplementsSharedDelivery == Delivery!SharedSpec

(***************************************************************************)
(* Claims of the documentation that the code does not keep                 *)
(***************************************************************************)
\* README: no events are lost even during system failures.
NoEventLost ==
  \A e \in Events : status[e] = "processed" =>
    e \in received \/ \E w \in Workers : \E i \in DOMAIN wire[w] : wire[w][i] = e

\* README: events are published in the order they were created.
PublishedInCreationOrder ==
  \A i, j \in DOMAIN sent : i < j => sent[i] <= sent[j]

\* README: the retry logic handles transient failures, so that every event is
\* published at least once.
EveryEventPublished ==
  \A e \in Events : status[e] = "pending" ~> \E i \in DOMAIN sent : sent[i] = e
=============================================================================
