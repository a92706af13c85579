--------------------------- MODULE ShipmentSystem ---------------------------
(***************************************************************************)
(* The running program: the RPCs of ShipmentService and the worker of       *)
(* OutboxWorker in one process, on the same table outbox_events and the     *)
(* same pool of database connections.                                       *)
(*                                                                          *)
(* The worker's events are the service's outbox rows, named by created_at:  *)
(* a commit of the service is the worker's Enqueue.  The process is up      *)
(* while wpc is not "down"; it dies as a whole (SystemCrash), and it exits  *)
(* only when GracefulStop has seen the last running call end.               *)
(***************************************************************************)
EXTENDS ShipmentService

CONSTANTS Worker, BatchSize, MaxAttempts, MaxFaults

ASSUME SystemBoundsAssumption ==
  BatchSize \in Nat \ {0} /\ MaxAttempts \in Nat \ {0} /\ MaxFaults \in Nat

VARIABLES
  status, attempts, wpc, cancelled, batch, connected, wire, received, sent,
  failures, faults    \* as in OutboxWorker; wpc is its pc

\* A creation reads the clock twice, any other call at most once.
MaxEvents == 2 * Cardinality(Calls)

W == INSTANCE OutboxWorker WITH
  Workers   <- {Worker},
  pc        <- wpc,
  committed <- [i \in DOMAIN outbox |-> CreatedAt(i)]

workerVars == <<status, attempts, wpc, cancelled, batch, connected, wire,
                received, sent, failures, faults>>
systemVars == <<vars, workerVars>>

ProcessUp == wpc[Worker] # "down"

(***************************************************************************)
(* Actions                                                                 *)
(***************************************************************************)
SystemInit == Init /\ W!Init

\* What a step of the service does to the rows the worker polls.
RowsFollowOutbox ==
  /\ status' = IF outbox' = outbox THEN status
               ELSE [status EXCEPT ![outbox'[Len(outbox')].createdAt] = "pending"]
  /\ UNCHANGED <<attempts, wpc, cancelled, batch, connected, wire, received,
                 sent, failures, faults>>

SystemReceive(c) == ProcessUp /\ Receive(c) /\ RowsFollowOutbox

SystemProgress(c) == Progress(c) /\ RowsFollowOutbox

SystemFault(c) == (CommitLost(c) \/ Fail(c)) /\ RowsFollowOutbox

StartProcess == UNCHANGED vars /\ W!Start(Worker)

\* The worker's statements take a connection of the pool the calls use; with a
\* cancelled context they return at once, without one.
WorkerStatement ==
  /\ UNCHANGED vars
  /\ ConnFree \/ cancelled[Worker]
  /\ W!Fetch(Worker) \/ \E e \in W!Events : W!Mark(Worker, e) \/ W!HandleFailure(Worker, e)

WorkerPublish == UNCHANGED vars /\ \E e \in W!Events : W!Publish(Worker, e)

BrokerReads == UNCHANGED vars /\ W!Deliver(Worker)

ConnectionLost == UNCHANGED vars /\ W!ConnLost(Worker)

\* SIGTERM: workerCancel comes first, calls are still running.
Terminate == UNCHANGED vars /\ W!Cancel(Worker)

\* GracefulStop returns when no call is running, and main returns.
ProcessExits == Running = {} /\ UNCHANGED vars /\ W!Exit(Worker)

SystemCrash ==
  /\ Crash \/ (Running = {} /\ UNCHANGED vars)
  /\ W!Crash(Worker)

\* Nothing is left to do but to poll.
SystemIdle == Quiescent /\ W!Idle(Worker)

CallStep(c) == SystemReceive(c) \/ SystemProgress(c) \/ SystemFault(c)

WorkerStep == StartProcess \/ WorkerStatement \/ WorkerPublish \/ ProcessExits

SystemNext ==
  \/ \E c \in Calls : CallStep(c)
  \/ WorkerStep \/ BrokerReads \/ ConnectionLost \/ Terminate \/ SystemCrash
  \/ SystemIdle

SystemSpec == SystemInit /\ [][SystemNext]_systemVars

\* As in the two components: no fault is assumed to happen.
FairSystemSpec ==
  /\ SystemSpec
  /\ \A c \in Calls : WF_systemVars(SystemProgress(c))
  /\ WF_systemVars(WorkerStep) /\ WF_systemVars(BrokerReads)

-----------------------------------------------------------------------------
(***************************************************************************)
(* Properties                                                              *)
(***************************************************************************)
\* The rows the service commits are all the worker assumes of them: each is
\* new, and no two have the same place in the order of created_at, so that what
\* OutboxWorker shows holds in the running program (processOutbox).
SystemImplementsWorker == W!Spec

\* A change that had committed before another call arrived is announced before
\* what that call does, whatever crashes and restarts in between: only an event
\* whose publish has failed is overtaken.
CausesAnnouncedFirst ==
  \A i, j \in Events : i <= arrived[outbox[j].id] /\ failures[CreatedAt(i)] = 0 =>
    \A n \in DOMAIN sent : sent[n] = CreatedAt(j) =>
      \E m \in 1..n-1 : sent[m] = CreatedAt(i)

\* What subscribers are told was decided: nothing is announced of a call the
\* client was told had no effect.
RefusedNeverAnnounced ==
  \A n \in DOMAIN sent : \E i \in Events :
    /\ CreatedAt(i) = sent[n]
    /\ reply[outbox[i].id] \in {"none", "OK", "Internal", "Unavailable"}

\* An acknowledged write is never lost from sight: its event is one the worker
\* will still select, or was published, or is marked as failed after MaxAttempts
\* failed publishes, wherever calls, worker and process are interrupted.
AcknowledgedIsAccounted ==
  \A c \in Calls : (Creates(c) \/ Changes(c)) /\ reply[c] = "OK" =>
    \E i \in Events :
      /\ outbox[i].id = c
      /\ \/ CreatedAt(i) \in W!Pending
         \/ status[CreatedAt(i)] = "processed" /\ \E n \in DOMAIN sent : sent[n] = CreatedAt(i)
         \/ status[CreatedAt(i)] = "failed" /\ failures[CreatedAt(i)] >= MaxAttempts

\* An acknowledged write is announced or visibly given up in the end, although
\* calls and worker share the pool and the process may be stopped or die.
AcknowledgedIsSettled ==
  \A c \in Calls : (Creates(c) \/ Changes(c)) /\ reply[c] = "OK" ~>
    \E i \in Events : outbox[i].id = c /\ status[CreatedAt(i)] \in {"processed", "failed"}
=============================================================================
