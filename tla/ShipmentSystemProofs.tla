------------------------ MODULE ShipmentSystemProofs ------------------------
(***************************************************************************)
(* Theorems of ShipmentSystem: the composition behaves as the service of     *)
(* ShipmentService and as the worker of OutboxWorker, so that what is proved  *)
(* of each holds in the running program, and nothing is announced of a call   *)
(* that was refused.                                                         *)
(***************************************************************************)
EXTENDS ShipmentSystem, ServiceHistoryProofs, SequenceTheorems, FiniteSetTheorems

-----------------------------------------------------------------------------
(***************************************************************************)
(* The service inside the system                                           *)
(***************************************************************************)
LEMMA ServiceStepInSystem == [SystemNext]_systemVars => [Next]_vars
<1> SUFFICES ASSUME [SystemNext]_systemVars PROVE [Next]_vars
  OBVIOUS
<1>1. CASE UNCHANGED systemVars
  BY <1>1 DEF systemVars
<1>2. ASSUME NEW c \in Calls, CallStep(c) PROVE Next
  <2>1. Receive(c) \/ Step(c)
    BY <1>2 DEF CallStep, SystemReceive, SystemProgress, SystemFault, Step
  <2> QED BY <2>1 DEF Next
<1>3. CASE WorkerStep \/ BrokerReads \/ ConnectionLost \/ Terminate
  BY <1>3 DEF WorkerStep, StartProcess, WorkerStatement, WorkerPublish, ProcessExits,
              BrokerReads, ConnectionLost, Terminate
<1>4. CASE SystemCrash
  BY <1>4 DEF SystemCrash, Next
<1>5. CASE SystemIdle
  BY <1>5 DEF SystemIdle, Quiescent
<1> QED BY <1>1, <1>2, <1>3, <1>4, <1>5 DEF SystemNext

\* Whatever is proved of Spec holds in the running program: the worker and the
\* shared process only take steps away from the service.
THEOREM SystemIsService == SystemSpec => Spec
<1>1. SystemInit => Init
  BY DEF SystemInit
<1> QED BY <1>1, ServiceStepInSystem, PTL DEF SystemSpec, Spec

-----------------------------------------------------------------------------
(***************************************************************************)
(* The readings of the clock name the events                               *)
(***************************************************************************)
FirstReads  == {c \in Calls : pc[c] \in MayStamp}
SecondReads == {c \in Calls : pc[c] \notin StampedTwice}

\* No call reads the clock more than twice.
ReadsInv ==
  clock + Cardinality(FirstReads) + Cardinality(SecondReads) <= 2 * Cardinality(Calls)

ClockInv == ServiceInv /\ ReadsInv /\ StampInv

LEMMA ClockInit == ASSUME IsFiniteSet(Calls) PROVE Init => ClockInv
<1> SUFFICES ASSUME Init PROVE ClockInv
  OBVIOUS
<1>1. FirstReads = Calls /\ SecondReads = Calls /\ clock = 0
  BY DEF Init, FirstReads, SecondReads, MayStamp, StampedTwice
<1>2. ReadsInv
  BY <1>1, FS_CardinalityType DEF ReadsInv
<1> QED BY <1>2, ServiceInvInit, StampInit DEF ClockInv

LEMMA ReadsStep ==
  ASSUME IsFiniteSet(Calls), TypeInv, ReadsInv, [Next]_vars
  PROVE  ReadsInv'
<1>0. /\ FirstReads \subseteq Calls /\ SecondReads \subseteq Calls
      /\ IsFiniteSet(FirstReads) /\ IsFiniteSet(SecondReads)
  BY FS_Subset DEF FirstReads, SecondReads
<1>1. /\ Cardinality(FirstReads) \in Nat /\ Cardinality(SecondReads) \in Nat
      /\ Cardinality(Calls) \in Nat /\ clock \in Nat
  BY <1>0, FS_CardinalityType DEF TypeInv, TypeOK
<1>2. ASSUME FirstReads' \subseteq FirstReads, SecondReads' \subseteq SecondReads
      PROVE  /\ Cardinality(FirstReads') <= Cardinality(FirstReads)
             /\ Cardinality(SecondReads') <= Cardinality(SecondReads)
             /\ Cardinality(FirstReads') \in Nat /\ Cardinality(SecondReads') \in Nat
             /\ IsFiniteSet(FirstReads') /\ IsFiniteSet(SecondReads')
  BY <1>0, <1>2, FS_Subset, FS_CardinalityType
<1>3. ASSUME FirstReads' \subseteq FirstReads, SecondReads' \subseteq SecondReads,
             clock' = clock
      PROVE  ReadsInv'
  BY <1>1, <1>2, <1>3 DEF ReadsInv
<1>4. CASE QuietStep
  <2>1. FirstReads' \subseteq FirstReads /\ SecondReads' \subseteq SecondReads
    BY <1>4 DEF QuietStep, FirstReads, SecondReads
  <2> QED BY <1>3, <1>4, <2>1 DEF QuietStep
<1>5. ASSUME NEW c \in Calls, Receive(c) PROVE ReadsInv'
  <2>1. /\ pc[c] = "idle" /\ clock' = clock /\ \A d \in Calls \ {c} : pc'[d] = pc[d]
    BY <1>5 DEF Receive, Goto, Answer, TypeInv, TypeOK
  <2>2. FirstReads' \subseteq FirstReads /\ SecondReads' \subseteq SecondReads
    BY <2>1 DEF FirstReads, SecondReads, MayStamp, StampedTwice
  <2> QED BY <1>3, <2>1, <2>2
<1>6. ASSUME NEW c \in Calls, ApplyStep(c) PROVE ReadsInv'
  <2>1. FirstReads' \subseteq FirstReads /\ SecondReads' \subseteq SecondReads
    BY <1>6 DEF ApplyStep, FirstReads, SecondReads, MayStamp, StampedTwice
  <2> QED BY <1>3, <1>6, <2>1 DEF ApplyStep
<1>7. ASSUME NEW c \in Calls, ReadStep(c) PROVE ReadsInv'
  <2>1. clock' = clock + 1
    BY <1>7 DEF ReadStep, ReadClock
  <2>2. FirstReads' \subseteq FirstReads /\ SecondReads' \subseteq SecondReads
    BY <1>7 DEF ReadStep, FirstReads, SecondReads, MayStamp, StampedTwice
  <2>3. \/ c \in FirstReads /\ c \notin FirstReads'
        \/ c \in SecondReads /\ c \notin SecondReads'
    BY <1>7 DEF ReadStep, FirstReads, SecondReads, MayStamp, StampedTwice
  <2>4. \/ Cardinality(FirstReads') # Cardinality(FirstReads)
        \/ Cardinality(SecondReads') # Cardinality(SecondReads)
    BY <1>0, <2>2, <2>3, FS_Subset
  <2> QED BY <1>1, <1>2, <2>1, <2>2, <2>4 DEF ReadsInv
<1> QED BY <1>4, <1>5, <1>6, <1>7, ClockCases

LEMMA ClockStep ==
  ASSUME IsFiniteSet(Calls), ClockInv, [Next]_vars
  PROVE  ClockInv'
BY ServiceInvStep, ReadsStep, StampStep DEF ClockInv, ServiceInv

\* Timestamps name the worker's events.
LEMMA StampsNameEvents ==
  ASSUME IsFiniteSet(Calls), ClockInv
  PROVE  clock <= MaxEvents /\ MaxEvents \in Nat
<1>1. FirstReads \subseteq Calls /\ SecondReads \subseteq Calls
  BY DEF FirstReads, SecondReads
<1>2. /\ Cardinality(FirstReads) \in Nat /\ Cardinality(SecondReads) \in Nat
      /\ Cardinality(Calls) \in Nat /\ clock \in Nat
  BY <1>1, FS_Subset, FS_CardinalityType DEF ClockInv, ServiceInv, TypeInv, TypeOK
<1> QED BY <1>2 DEF ClockInv, ReadsInv, MaxEvents

-----------------------------------------------------------------------------
(***************************************************************************)
(* The rows the worker polls are the outbox                                *)
(***************************************************************************)
RowStatus == {"absent", "pending", "processed", "failed"}

\* A row exists for exactly the events in the outbox, and the worker holds and
\* has published none but these.
RowsInv ==
  /\ status \in [W!Events -> RowStatus]
  /\ \A e \in W!Events : status[e] # "absent" <=> \E i \in Events : CreatedAt(i) = e
  /\ batch = [w \in {Worker} |-> batch[w]]
  /\ \A e \in DOMAIN batch[Worker] : e \in W!Events /\ status[e] # "absent"
  /\ sent \in Seq(W!Events)
  /\ \A n \in DOMAIN sent : status[sent[n]] # "absent"

SystemInv == ClockInv /\ RowsInv

LEMMA SystemStart ==
  ASSUME IsFiniteSet(Calls)
  PROVE  SystemInit => SystemInv
<1> SUFFICES ASSUME SystemInit PROVE SystemInv
  OBVIOUS
<1>1. Init /\ W!Init
  BY DEF SystemInit
<1>2. RowsInv
  BY <1>1 DEF Init, W!Init, W!NoBatch, RowsInv, RowStatus, Events
<1> QED BY <1>1, <1>2, ClockInit DEF SystemInv

\* The steps of the worker.
WorkerActs ==
  \/ W!Start(Worker) \/ W!Fetch(Worker) \/ W!Exit(Worker) \/ W!Deliver(Worker)
  \/ W!ConnLost(Worker) \/ W!Cancel(Worker) \/ W!Crash(Worker)
  \/ \E e \in W!Events : W!Publish(Worker, e) \/ W!Mark(Worker, e) \/ W!HandleFailure(Worker, e)

LEMMA WorkerKeepsRows ==
  ASSUME RowsInv, UNCHANGED outbox, WorkerActs
  PROVE  RowsInv'
<1>0. /\ Events' = Events /\ \A i \in Events : CreatedAt(i)' = CreatedAt(i)
  BY DEF Events, CreatedAt
<1>1. CASE W!Start(Worker) \/ W!Deliver(Worker) \/ W!ConnLost(Worker) \/ W!Cancel(Worker)
  <2>1. UNCHANGED <<status, batch, sent>>
    BY <1>1 DEF W!Start, W!Deliver, W!ConnLost, W!Cancel, W!rows, W!net
  <2> QED BY <1>0, <2>1 DEF RowsInv
<1>2. CASE W!Exit(Worker) \/ W!Crash(Worker)
  <2>1. UNCHANGED <<status, sent>> /\ batch' = [batch EXCEPT ![Worker] = W!NoBatch]
    BY <1>2 DEF W!Exit, W!Crash, W!ProcessEnds, W!rows
  <2> QED BY <1>0, <2>1 DEF RowsInv, W!NoBatch
<1>3. CASE W!Fetch(Worker)
  <2>1. UNCHANGED <<status, sent>> /\ batch' = [batch EXCEPT ![Worker] = W!GetPendingEvents]
    BY <1>3 DEF W!Fetch, W!rows, W!net
  <2>2. \A e \in DOMAIN W!GetPendingEvents : e \in W!Events /\ status[e] # "absent"
    BY DEF W!GetPendingEvents, W!Oldest, W!Pending
  <2> QED BY <1>0, <2>1, <2>2 DEF RowsInv
<1>4. ASSUME NEW e \in W!Events, W!Publish(Worker, e) PROVE RowsInv'
  <2>1. /\ UNCHANGED <<status, batch>> /\ e \in DOMAIN batch[Worker]
        /\ sent' = Append(sent, e) \/ sent' = sent
    BY <1>4 DEF W!Publish, W!IsCurrent, W!rows
  <2>2. sent \in Seq(W!Events) /\ \A n \in DOMAIN sent : status[sent[n]] # "absent"
    BY DEF RowsInv
  <2>3. status[e] # "absent"
    BY <2>1 DEF RowsInv
  <2>4. sent' \in Seq(W!Events) /\ \A n \in DOMAIN sent' : status[sent'[n]] # "absent"
    BY <2>1, <2>2, <2>3
  <2> QED BY <1>0, <2>1, <2>4 DEF RowsInv
<1>5. ASSUME NEW e \in W!Events, W!Mark(Worker, e) \/ W!HandleFailure(Worker, e)
      PROVE  RowsInv'
  <2>1. /\ UNCHANGED sent /\ e \in DOMAIN batch[Worker]
        /\ batch' = [batch EXCEPT ![Worker] = [d \in DOMAIN batch[Worker] \ {e} |-> batch[Worker][d]]]
    BY <1>5 DEF W!Mark, W!HandleFailure, W!IsCurrent, W!NextEvent, W!net
  <2>2. \/ status' = status
        \/ status' = [status EXCEPT ![e] = "processed"]
        \/ status' = [status EXCEPT ![e] = "failed"]
    BY <1>5 DEF W!Mark, W!HandleFailure, W!MarkAsFailed, W!IncrementAttempt
  <2>3. /\ status' \in [W!Events -> RowStatus]
        /\ \A d \in W!Events : status'[d] # "absent" <=> status[d] # "absent"
    BY <2>1, <2>2 DEF RowsInv, RowStatus
  <2>4. \A n \in DOMAIN sent : sent[n] \in W!Events
    BY DEF RowsInv
  <2> QED BY <1>0, <2>1, <2>3, <2>4 DEF RowsInv
<1> QED BY <1>1, <1>2, <1>3, <1>4, <1>5 DEF WorkerActs

\* A commit gives the worker a row that did not exist.
LEMMA CommitEnqueues ==
  ASSUME IsFiniteSet(Calls), SystemInv, NEW c \in Calls, ApplyStep(c), RowsFollowOutbox
  PROVE  /\ stamp[c] \in W!Events /\ W!Enqueue(stamp[c])
         /\ RowsInv'
<1> DEFINE m == Len(outbox)
           e == stamp[c]
           committed == [i \in DOMAIN outbox |-> CreatedAt(i)]
           made(i) == outbox'[i].createdAt
<1>0. NewEvent(c).createdAt = e
  BY DEF NewEvent, CreatedEvent, ChangedEvent, NewOutboxEvent
<1>1. /\ Events' = 1..m+1 /\ Events = 1..m /\ m \in Nat
      /\ \A i \in 1..m : outbox'[i] = outbox[i]
      /\ outbox'[m+1].createdAt = e
  BY <1>0, ApplyAppends DEF ApplyStep, SystemInv, ClockInv, ServiceInv
<1>2. outbox' # outbox /\ Len(outbox') = m + 1
  <2>1. outbox' \in Seq(OutboxEvent)
    BY ApplyTyped DEF ApplyStep, SystemInv, ClockInv, ServiceInv
  <2>2. DOMAIN outbox' = 1..Len(outbox') /\ Len(outbox') \in Nat
    BY <2>1
  <2> QED BY <1>1, <2>2 DEF Events
<1>3. /\ e \in Nat /\ e >= 1 /\ e <= clock /\ clock \in Nat
      /\ \A i \in 1..m : CreatedAt(i) # e /\ CreatedAt(i) \in 1..clock
  BY <1>1 DEF ApplyStep, SystemInv, ClockInv, StampInv, Writing, ServiceInv, TypeInv, TypeOK
<1>4. MaxEvents \in Nat /\ clock <= MaxEvents /\ W!Events = 1..MaxEvents
  BY StampsNameEvents DEF SystemInv, W!Events
<1>5. e \in W!Events /\ status[e] = "absent"
  BY <1>1, <1>3, <1>4 DEF SystemInv, RowsInv
<1>6. status' = [status EXCEPT ![e] = "pending"]
  BY <1>1, <1>2 DEF RowsFollowOutbox
<1>7. /\ \A i \in 1..m : made(i) = CreatedAt(i)
      /\ made(m+1) = e
  BY <1>1 DEF CreatedAt
<1>8. committed' = Append(committed, e)
  <2>1. /\ committed \in Seq(Nat) /\ Len(committed) = m
        /\ committed' \in Seq(Nat) /\ Len(committed') = m + 1
    BY <1>1, <1>3, <1>7 DEF Events, CreatedAt
  <2>2. /\ Append(committed, e) \in Seq(Nat) /\ Len(Append(committed, e)) = m + 1
        /\ \A i \in 1..m : Append(committed, e)[i] = committed[i]
        /\ Append(committed, e)[m+1] = e
    BY <1>3, <2>1, AppendProperties
  <2>3. \A i \in 1..m+1 : committed'[i] = Append(committed, e)[i]
    BY <1>1, <1>7, <2>2 DEF Events, CreatedAt
  <2> QED BY <2>1, <2>2, <2>3, SeqEqual
<1>9. W!Enqueue(e)
  BY <1>5, <1>6, <1>8 DEF W!Enqueue, W!net, RowsFollowOutbox
<1>10. RowsInv'
  <2>1. UNCHANGED <<batch, sent>>
    BY DEF RowsFollowOutbox
  <2>2. /\ status' \in [W!Events -> RowStatus] /\ status'[e] # "absent"
        /\ \A d \in W!Events : d # e => status'[d] = status[d]
    BY <1>5, <1>6 DEF SystemInv, RowsInv, RowStatus
  <2>3. \A d \in W!Events :
          (\E i \in Events' : made(i) = d) <=> d = e \/ \E i \in Events : CreatedAt(i) = d
    BY <1>1, <1>7
  <2>4. \A d \in W!Events : status'[d] # "absent" <=> \E i \in Events' : made(i) = d
    BY <2>2, <2>3 DEF SystemInv, RowsInv
  <2>5. \A n \in DOMAIN sent : sent[n] \in W!Events
    BY DEF SystemInv, RowsInv
  <2> QED BY <2>1, <2>2, <2>4, <2>5 DEF SystemInv, RowsInv, CreatedAt
<1> QED BY <1>5, <1>9, <1>10

LEMMA RowsKept ==
  ASSUME RowsInv, UNCHANGED <<outbox, status, batch, sent>>
  PROVE  RowsInv'
BY DEF RowsInv, Events, CreatedAt

LEMMA SystemStep ==
  ASSUME IsFiniteSet(Calls), SystemInv, [SystemNext]_systemVars
  PROVE  SystemInv' /\ [W!Next]_(W!vars)
<1>0. [Next]_vars /\ ClockInv'
  BY ServiceStepInSystem, ClockStep DEF SystemInv
<1>1. ASSUME UNCHANGED outbox, UNCHANGED workerVars
      PROVE  RowsInv' /\ UNCHANGED W!vars
  <2>1. UNCHANGED <<status, attempts, wpc, cancelled, batch, connected, wire, received,
                    sent, failures, faults>>
    BY <1>1 DEF workerVars
  <2>2. RowsInv'
    BY <1>1, <2>1, RowsKept DEF SystemInv
  <2>3. UNCHANGED [i \in DOMAIN outbox |-> CreatedAt(i)]
    BY <1>1 DEF CreatedAt
  <2> QED BY <2>1, <2>2, <2>3 DEF W!vars, W!rows, W!net
<1>2. ASSUME UNCHANGED outbox, WorkerActs PROVE RowsInv' /\ W!Next
  <2>1. RowsInv'
    BY <1>2, WorkerKeepsRows DEF SystemInv
  <2>2. W!Next
    BY <1>2 DEF WorkerActs, W!Next, W!Work, W!Handle
  <2> QED BY <2>1, <2>2
<1>3. CASE UNCHANGED systemVars
  BY <1>0, <1>1, <1>3 DEF systemVars, vars, store, SystemInv
<1>4. ASSUME NEW c \in Calls, CallStep(c) PROVE RowsInv' /\ [W!Next]_(W!vars)
  <2>1. RowsFollowOutbox
    BY <1>4 DEF CallStep, SystemReceive, SystemProgress, SystemFault
  <2>2. CASE UNCHANGED outbox
    BY <1>1, <2>1, <2>2 DEF RowsFollowOutbox, workerVars
  <2>3. ASSUME NEW d \in Calls, ApplyStep(d) PROVE RowsInv' /\ W!Next
    BY <2>1, <2>3, CommitEnqueues DEF W!Next
  <2>4. UNCHANGED outbox \/ \E d \in Calls : ApplyStep(d)
    BY <1>0, ClockCases DEF SystemInv, ClockInv, ServiceInv, QuietStep, ReadStep, Receive, store
  <2> QED BY <2>2, <2>3, <2>4
<1>5. CASE WorkerStep \/ BrokerReads \/ ConnectionLost \/ Terminate
  <2>1. UNCHANGED outbox /\ WorkerActs
    BY <1>5 DEF WorkerStep, StartProcess, WorkerStatement, WorkerPublish, ProcessExits,
                BrokerReads, ConnectionLost, Terminate, WorkerActs, vars, store
  <2> QED BY <1>0, <1>2, <2>1 DEF SystemInv
<1>6. CASE SystemCrash
  <2>1. UNCHANGED outbox /\ WorkerActs
    BY <1>6 DEF SystemCrash, Crash, WorkerActs, vars, store
  <2> QED BY <1>0, <1>2, <2>1 DEF SystemInv
<1>7. CASE SystemIdle
  <2>1. UNCHANGED outbox /\ UNCHANGED <<status, batch, sent>> /\ UNCHANGED W!vars
    BY <1>7 DEF SystemIdle, Quiescent, vars, store, W!Idle, W!vars, W!rows, W!net
  <2> QED BY <1>0, <2>1, RowsKept DEF SystemInv
<1> QED
  BY <1>0, <1>3, <1>4, <1>5, <1>6, <1>7 DEF SystemNext, SystemInv

\* The rows the service commits are all the worker assumes of them, so that what
\* is proved of OutboxWorker with one worker holds in the running program: no two
\* calls draw the same created_at, and at most MaxEvents of them are drawn.
THEOREM SystemIsWorker ==
  ASSUME IsFiniteSet(Calls)
  PROVE  SystemSpec => SystemImplementsWorker
<1>1. SystemInit => SystemInv /\ W!Init
  BY SystemStart DEF SystemInit
<1>2. SystemInv /\ [SystemNext]_systemVars => SystemInv' /\ [W!Next]_(W!vars)
  BY SystemStep
<1> QED BY <1>1, <1>2, PTL DEF SystemSpec, SystemImplementsWorker, W!Spec

-----------------------------------------------------------------------------
(***************************************************************************)
(* What is announced                                                       *)
(***************************************************************************)
\* What the worker publishes belongs to a call that has committed, and a call
\* that was refused never has.
THEOREM NothingRefusedIsAnnounced ==
  ASSUME IsFiniteSet(Calls)
  PROVE  SystemSpec => []RefusedNeverAnnounced
<1>1. ASSUME SystemInv PROVE RefusedNeverAnnounced
  <2>1. SUFFICES ASSUME NEW n \in DOMAIN sent
                 PROVE  \E i \in Events :
                          /\ CreatedAt(i) = sent[n]
                          /\ reply[outbox[i].id] \in {"none", "OK", "Internal", "Unavailable"}
    BY DEF RefusedNeverAnnounced
  <2>2. PICK i \in Events : CreatedAt(i) = sent[n]
    BY <1>1 DEF SystemInv, RowsInv
  <2>3. outbox[i].id \in Calls
    <3>1. outbox \in Seq(OutboxEvent)
      BY <1>1 DEF SystemInv, ClockInv, ServiceInv, TypeInv, TypeOK
    <3>2. outbox[i] \in OutboxEvent
      BY <3>1 DEF Events
    <3> QED BY <3>2 DEF OutboxEvent
  <2>4. Committed(outbox[i].id)
    BY DEF Committed
  <2>5. reply[outbox[i].id] \in Codes \ Refusals
    BY <1>1, <2>3, <2>4 DEF SystemInv, ClockInv, ServiceInv, AnswerInv, AnswerFits, TypeInv, TypeOK
  <2> QED BY <2>2, <2>5 DEF Codes, Refusals
<1>2. SystemInit => SystemInv
  BY SystemStart
<1>3. SystemInv /\ [SystemNext]_systemVars => SystemInv'
  BY SystemStep
<1> QED BY <1>1, <1>2, <1>3, PTL DEF SystemSpec

\* The order of the worker is the order of causes.
LEMMA CausesFollowOrder ==
  ASSUME IsFiniteSet(Calls), SystemInv, W!PublishedInOrder
  PROVE  CausesAnnouncedFirst
<1>1. SUFFICES ASSUME NEW i \in Events, NEW j \in Events, i <= arrived[outbox[j].id],
                      failures[CreatedAt(i)] = 0,
                      NEW n \in DOMAIN sent, sent[n] = CreatedAt(j)
               PROVE  \E m \in 1..n-1 : sent[m] = CreatedAt(i)
  BY DEF CausesAnnouncedFirst
<1>2. CreatedAt(i) < CreatedAt(j)
  BY <1>1 DEF SystemInv, ClockInv, StampInv
<1>3. /\ CreatedAt(i) \in 1..clock /\ CreatedAt(j) \in 1..clock /\ clock \in Nat
      /\ outbox \in Seq(OutboxEvent)
  BY DEF SystemInv, ClockInv, StampInv, ServiceInv, TypeInv, TypeOK
<1>4. CreatedAt(i) \in W!Events /\ CreatedAt(j) \in W!Events
  BY <1>3, StampsNameEvents DEF SystemInv, W!Events
<1>5. i < j
  <2>1. i \in Nat /\ j \in Nat /\ outbox[j] \in OutboxEvent
    BY <1>3 DEF Events
  <2>2. arrived[outbox[j].id] \in Nat
    BY <2>1 DEF OutboxEvent, SystemInv, ClockInv, ServiceInv, TypeInv, TypeOK
  <2>3. ASSUME j <= i PROVE FALSE
    <3>1. j <= arrived[outbox[j].id]
      BY <1>1, <2>1, <2>2, <2>3
    <3>2. CreatedAt(j) < CreatedAt(j)
      BY <3>1 DEF SystemInv, ClockInv, StampInv
    <3> QED BY <1>3, <3>2
  <2> QED BY <2>1, <2>3
<1> QED BY <1>1, <1>2, <1>4, <1>5 DEF W!PublishedInOrder, Events
=============================================================================
