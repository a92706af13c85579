------------------------ MODULE SystemDeliveryProofs ------------------------
(***************************************************************************)
(* What the running program inherits: the theorems about one worker and     *)
(* about the service, with the rows the service commits in place of the      *)
(* worker's own, and what follows for the writes a client was told of.       *)
(***************************************************************************)
EXTENDS ShipmentSystemProofs, AtomicShipmentsProofs

\* The lemmas about OutboxWorker, under the substitution of W.
D == INSTANCE EventDeliveryProofs WITH
  Workers   <- {Worker},
  pc        <- wpc,
  committed <- [i \in DOMAIN outbox |-> CreatedAt(i)]

-----------------------------------------------------------------------------
(***************************************************************************)
(* W and D are two instances of the same worker.                            *)
(***************************************************************************)
LEMMA SameCardinality ==
  ASSUME NEW S
  PROVE  W!Cardinality(S) = D!Cardinality(S) /\ W!Cardinality(S) = Cardinality(S)
BY DEF W!Cardinality, D!Cardinality, Cardinality, W!IsFiniteSet, D!IsFiniteSet, IsFiniteSet

LEMMA SameEvents == W!Events = D!Events
BY DEF W!Events, D!Events

LEMMA SameQuery ==
  /\ W!Pending = D!Pending
  /\ W!GetPendingEvents = D!GetPendingEvents
<1>1. W!Pending = D!Pending
  BY SameEvents DEF W!Pending, D!Pending
<1>2. W!Oldest(W!Pending) = D!Oldest(D!Pending)
  BY <1>1, SameCardinality DEF W!Oldest, D!Oldest
<1> QED BY <1>1, <1>2 DEF W!GetPendingEvents, D!GetPendingEvents

LEMMA SameInit == W!Init => D!Init
BY SameEvents DEF W!Init, D!Init, W!NoBatch, D!NoBatch

LEMMA SameHandling ==
  ASSUME NEW w, NEW e
  PROVE  /\ W!Publish(w, e) => D!Publish(w, e)
         /\ W!Mark(w, e) => D!Mark(w, e)
         /\ W!HandleFailure(w, e) => D!HandleFailure(w, e)
<1> USE DEF W!rows, D!rows, W!net, D!net, W!IsCurrent, D!IsCurrent, W!NextEvent, D!NextEvent,
            W!StatementFails, D!StatementFails
<1>1. W!Publish(w, e) => D!Publish(w, e)
  BY DEF W!Publish, D!Publish
<1>2. W!Mark(w, e) => D!Mark(w, e)
  BY DEF W!Mark, D!Mark
<1>3. W!HandleFailure(w, e) => D!HandleFailure(w, e)
  BY DEF W!HandleFailure, D!HandleFailure, W!AttemptsWithThis, D!AttemptsWithThis,
         W!MarkAsFailed, D!MarkAsFailed, W!IncrementAttempt, D!IncrementAttempt
<1> QED BY <1>1, <1>2, <1>3

LEMMA SameProcess ==
  ASSUME NEW w
  PROVE  /\ W!Start(w) => D!Start(w)
         /\ W!Fetch(w) => D!Fetch(w)
         /\ W!Exit(w) => D!Exit(w)
         /\ W!Deliver(w) => D!Deliver(w)
         /\ W!ConnLost(w) => D!ConnLost(w)
         /\ W!Cancel(w) => D!Cancel(w)
         /\ W!Crash(w) => D!Crash(w)
<1> USE DEF W!rows, D!rows, W!net, D!net, W!ProcessEnds, D!ProcessEnds, W!NoBatch, D!NoBatch
<1>1. W!Start(w) => D!Start(w)
  BY DEF W!Start, D!Start
<1>2. W!Fetch(w) => D!Fetch(w)
  BY SameQuery DEF W!Fetch, D!Fetch
<1>3. W!Exit(w) => D!Exit(w)
  BY DEF W!Exit, D!Exit
<1>4. W!Deliver(w) => D!Deliver(w)
  BY DEF W!Deliver, D!Deliver
<1>5. W!ConnLost(w) => D!ConnLost(w)
  BY DEF W!ConnLost, D!ConnLost
<1>6. W!Cancel(w) => D!Cancel(w)
  BY DEF W!Cancel, D!Cancel
<1>7. W!Crash(w) => D!Crash(w)
  BY DEF W!Crash, D!Crash
<1> QED BY <1>1, <1>2, <1>3, <1>4, <1>5, <1>6, <1>7

LEMMA SameStep == [W!Next]_(W!vars) => [D!Next]_(D!vars)
<1> SUFFICES ASSUME [W!Next]_(W!vars) PROVE [D!Next]_(D!vars)
  OBVIOUS
<1>1. CASE UNCHANGED W!vars
  BY <1>1 DEF W!vars, D!vars, W!rows, D!rows, W!net, D!net
<1>2. ASSUME NEW e \in W!Events, W!Enqueue(e) PROVE D!Next
  <2>1. D!Enqueue(e)
    BY <1>2 DEF W!Enqueue, D!Enqueue, W!net, D!net
  <2> QED BY <2>1, SameEvents DEF D!Next
<1>3. ASSUME NEW w \in {Worker},
             W!Work(w) \/ W!Deliver(w) \/ W!ConnLost(w) \/ W!Cancel(w) \/ W!Crash(w)
      PROVE  D!Next
  <2>1. CASE W!Handle(w)
    <3>1. D!Handle(w)
      BY <2>1, SameHandling, SameEvents DEF W!Handle, D!Handle
    <3> QED BY <3>1 DEF D!Work, D!Next
  <2>2. CASE ~W!Handle(w)
    BY <1>3, <2>2, SameProcess DEF W!Work, D!Work, D!Next
  <2> QED BY <2>1, <2>2
<1>4. ASSUME NEW w \in {Worker}, W!Idle(w) PROVE UNCHANGED D!vars
  BY <1>4 DEF W!Idle, W!vars, D!vars, W!rows, D!rows, W!net, D!net
<1> QED BY <1>1, <1>2, <1>3, <1>4 DEF W!Next

-----------------------------------------------------------------------------
(***************************************************************************)
(* The invariant of the running program: that of the composition, and the   *)
(* one that a single worker keeps.                                          *)
(***************************************************************************)
DeliveryInv == SystemInv /\ D!OneWorkerInv /\ D!OrderInv

LEMMA WorkerBounds ==
  ASSUME IsFiniteSet(Calls) PROVE D!WorkerBoundsAssumption
<1>1. MaxEvents \in Nat
  BY FS_CardinalityType DEF MaxEvents
<1> QED BY <1>1, SystemBoundsAssumption DEF D!WorkerBoundsAssumption

LEMMA DeliveryStart == ASSUME IsFiniteSet(Calls) PROVE SystemInit => DeliveryInv
<1> SUFFICES ASSUME SystemInit PROVE DeliveryInv
  OBVIOUS
<1>1. SystemInv /\ D!Init
  BY SystemStart, SameInit DEF SystemInit
<1>2. D!WorkerBoundsAssumption
  BY WorkerBounds
<1>3. D!OneWorkerInv
  BY <1>1, <1>2, D!OneWorkerInit DEF D!WorkerBoundsAssumption
<1>4. D!OrderInv
  BY <1>1, <1>2, D!OrderInit DEF D!WorkerBoundsAssumption
<1> QED BY <1>1, <1>3, <1>4 DEF DeliveryInv

LEMMA DeliveryKept ==
  ASSUME IsFiniteSet(Calls), DeliveryInv, [SystemNext]_systemVars
  PROVE  DeliveryInv' /\ [D!Next]_(D!vars)
<1>1. SystemInv' /\ [D!Next]_(D!vars)
  BY SystemStep, SameStep DEF DeliveryInv
<1>2. D!WorkerBoundsAssumption
  BY WorkerBounds
<1>3. D!OneWorkerInv'
  BY <1>1, <1>2, D!OneWorkerStep DEF DeliveryInv, D!WorkerBoundsAssumption
<1>4. D!OrderInv'
  BY <1>1, <1>2, D!OrderStep DEF DeliveryInv, D!WorkerBoundsAssumption
<1> QED BY <1>1, <1>3, <1>4 DEF DeliveryInv

\* Every row of the outbox is one of the worker's events.
LEMMA EventsNamed ==
  ASSUME IsFiniteSet(Calls), SystemInv, NEW i \in Events
  PROVE  CreatedAt(i) \in W!Events
<1>1. CreatedAt(i) \in 1..clock /\ clock \in Nat
  BY DEF SystemInv, ClockInv, StampInv, ServiceInv, TypeInv, TypeOK
<1>2. clock <= MaxEvents /\ MaxEvents \in Nat
  BY StampsNameEvents DEF SystemInv
<1> QED BY <1>1, <1>2 DEF W!Events

\* The facts about single events that D's invariants give, in the names of W.
LEMMA RowFacts ==
  ASSUME DeliveryInv, NEW e \in W!Events
  PROVE  /\ status[e] \in {"absent", "pending", "processed", "failed"}
         /\ status[e] = "pending" => e \in W!Pending
         /\ status[e] = "processed" => \E n \in DOMAIN sent : sent[n] = e
         /\ status[e] = "failed" => failures[e] >= MaxAttempts
<1>1. e \in D!Events /\ D!TypeOK /\ D!SentInv /\ D!CopyInv /\ D!CountInv
  BY SameEvents DEF DeliveryInv, D!OneWorkerInv
<1>2. status[e] \in {"absent", "pending", "processed", "failed"}
  BY <1>1 DEF D!TypeOK
<1>3. status[e] = "pending" => e \in W!Pending
  BY <1>1, SameQuery DEF D!CopyInv, D!Pending
<1>4. status[e] = "processed" => \E n \in DOMAIN sent : sent[n] = e
  BY <1>1 DEF D!SentInv, D!IsSent
<1>5. status[e] = "failed" => failures[e] >= MaxAttempts
  BY <1>1 DEF D!CountInv
<1> QED BY <1>2, <1>3, <1>4, <1>5

-----------------------------------------------------------------------------
(***************************************************************************)
(* What clients and subscribers may rely on                                *)
(***************************************************************************)
\* A change that had committed before another call arrived is announced before
\* what that call does: an event the worker holds back, over any crash and
\* restart, holds back what was caused by it, unless a publish of it has failed.
THEOREM CausesComeFirst ==
  ASSUME IsFiniteSet(Calls)
  PROVE  SystemSpec => []CausesAnnouncedFirst
<1>1. ASSUME DeliveryInv PROVE CausesAnnouncedFirst
  <2>1. D!PublishedInOrder
    BY <1>1 DEF DeliveryInv, D!OrderInv
  <2>2. W!PublishedInOrder
    BY <2>1, SameEvents DEF W!PublishedInOrder, D!PublishedInOrder
  <2> QED BY <1>1, <2>2, CausesFollowOrder DEF DeliveryInv
<1>2. SystemInit => DeliveryInv
  BY DeliveryStart
<1>3. DeliveryInv /\ [SystemNext]_systemVars => DeliveryInv'
  BY DeliveryKept
<1> QED BY <1>1, <1>2, <1>3, PTL DEF SystemSpec

\* The event of an acknowledged write never drops out of sight, whatever fails:
\* the worker's query still selects it, or it was published, or it is marked as
\* failed after MaxAttempts failed publishes.
THEOREM AcknowledgedStaysAccounted ==
  ASSUME IsFiniteSet(Calls)
  PROVE  SystemSpec => []AcknowledgedIsAccounted
<1>1. ASSUME DeliveryInv PROVE AcknowledgedIsAccounted
  <2> SUFFICES ASSUME NEW c \in Calls, Creates(c) \/ Changes(c), reply[c] = "OK"
               PROVE  \E i \in Events :
                        /\ outbox[i].id = c
                        /\ \/ CreatedAt(i) \in W!Pending
                           \/ /\ status[CreatedAt(i)] = "processed"
                              /\ \E n \in DOMAIN sent : sent[n] = CreatedAt(i)
                           \/ /\ status[CreatedAt(i)] = "failed"
                              /\ failures[CreatedAt(i)] >= MaxAttempts
    BY DEF AcknowledgedIsAccounted
  <2>1. PICK i \in Events : outbox[i].id = c
    BY <1>1 DEF DeliveryInv, SystemInv, ClockInv, ServiceInv, AnswerInv, AnswerFits, Committed
  <2>2. CreatedAt(i) \in W!Events
    BY <1>1, EventsNamed DEF DeliveryInv
  <2>3. status[CreatedAt(i)] # "absent"
    BY <1>1, <2>2 DEF DeliveryInv, SystemInv, RowsInv
  <2> QED BY <1>1, <2>1, <2>2, <2>3, RowFacts
<1>2. SystemInit => DeliveryInv
  BY DeliveryStart
<1>3. DeliveryInv /\ [SystemNext]_systemVars => DeliveryInv'
  BY DeliveryKept
<1> QED BY <1>1, <1>2, <1>3, PTL DEF SystemSpec

-----------------------------------------------------------------------------
(***************************************************************************)
(* The running program implements both abstract specifications             *)
(***************************************************************************)
\* Calls that share their process and pool with the worker still take effect
\* atomically, at most once and as answered.
THEOREM SystemIsAtomic == SystemSpec => ImplementsAtomicShipments
BY SystemIsService, ServiceIsAtomic, PTL

LEMMA SamePromise ==
  /\ D!Delivery!Next => W!Delivery!Next
  /\ UNCHANGED D!Delivery!vars => UNCHANGED W!Delivery!vars
<1>1. ASSUME NEW e
      PROVE  /\ D!Delivery!Submit(e) => W!Delivery!Submit(e)
             /\ D!Delivery!Handle(e) => W!Delivery!Handle(e)
  BY DEF D!Delivery!Submit, W!Delivery!Submit, D!Delivery!Handle, W!Delivery!Handle,
         D!Delivery!Send, W!Delivery!Send, D!Delivery!SendFails, W!Delivery!SendFails,
         D!Delivery!Confirm, W!Delivery!Confirm, D!Delivery!Sent, W!Delivery!Sent,
         D!Delivery!GiveUp, W!Delivery!GiveUp
<1>2. D!Delivery!Next => W!Delivery!Next
  BY <1>1, SameEvents DEF D!Delivery!Next, W!Delivery!Next
<1>3. UNCHANGED D!Delivery!vars => UNCHANGED W!Delivery!vars
  BY DEF D!Delivery!vars, W!Delivery!vars
<1> QED BY <1>2, <1>3

\* The events that calls commit are delivered as EventDelivery promises: settled
\* once, after a publish that succeeded or MaxAttempts that failed.
THEOREM SystemDelivers ==
  ASSUME IsFiniteSet(Calls)
  PROVE  SystemSpec => W!ImplementsEventDelivery
<1>1. SystemInit => W!Delivery!Init
  BY DEF SystemInit, W!Init, W!Delivery!Init, W!Events
<1>2. DeliveryInv /\ [SystemNext]_systemVars => [W!Delivery!Next]_(W!Delivery!vars)
  <2> SUFFICES ASSUME DeliveryInv, [SystemNext]_systemVars
               PROVE  [W!Delivery!Next]_(W!Delivery!vars)
    OBVIOUS
  <2>1. D!WorkerBoundsAssumption /\ [D!Next]_(D!vars)
    BY WorkerBounds, DeliveryKept
  <2>2. D!Delivery!Next \/ UNCHANGED D!Delivery!vars
    BY <2>1, D!DeliveryStep DEF DeliveryInv, D!WorkerBoundsAssumption
  <2> QED BY <2>2, SamePromise
<1>3. DeliveryInv /\ [SystemNext]_systemVars => DeliveryInv'
  BY DeliveryKept
<1> QED
  BY <1>1, <1>2, <1>3, DeliveryStart, PTL
     DEF SystemSpec, W!ImplementsEventDelivery, W!Delivery!Spec
=============================================================================
