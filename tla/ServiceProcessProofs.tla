------------------------ MODULE ServiceProcessProofs ------------------------
(***************************************************************************)
(* Theorems of ServiceProcess, for any processes, messages and number of    *)
(* calls: the types, messages are routed to every durable queue they belong  *)
(* to, a queue loses nothing but by its own deletion, and the database       *)
(* outlives the calls.                                                       *)
(***************************************************************************)
EXTENDS ServiceProcess, TLAPS

-----------------------------------------------------------------------------
(***************************************************************************)
(* The topology                                                            *)
(***************************************************************************)
LEMMA LengthOfOrder == Len(QueueOrder) = 4
BY DEF QueueOrder

LEMMA EveryQueueIsSetUp ==
  ASSUME NEW q \in Queues
  PROVE  \E i \in 1..Len(QueueOrder) : QueueOrder[i] = q
<1>1. /\ QueueOrder[1] = "shipment-events-all" /\ QueueOrder[2] = "shipment-created-queue"
      /\ QueueOrder[3] = "shipment-status-changed-queue" /\ QueueOrder[4] = "shipment-debug"
  BY DEF QueueOrder
<1>2. 1 \in 1..4 /\ 2 \in 1..4 /\ 3 \in 1..4 /\ 4 \in 1..4
  OBVIOUS
<1> QED BY <1>1, <1>2, LengthOfOrder DEF Queues

LEMMA OrderHasQueues ==
  ASSUME NEW i \in 1..Len(QueueOrder)
  PROVE  QueueOrder[i] \in Queues
<1>1. i = 1 \/ i = 2 \/ i = 3 \/ i = 4
  BY LengthOfOrder
<1>2. /\ QueueOrder[1] \in Queues /\ QueueOrder[2] \in Queues
      /\ QueueOrder[3] \in Queues /\ QueueOrder[4] \in Queues
  BY DEF QueueOrder, Queues
<1> QED BY <1>1, <1>2

\* A durable queue is not deleted with its last consumer.
LEMMA DurableIsKept ==
  ASSUME NEW q \in Queues, Durable(q)
  PROVE  ~AutoDelete(q)
BY DEF Durable, AutoDelete, DefaultShipmentTopology, QueueConfig, Queues

LEMMA EveryKeyHasDurableQueue ==
  ASSUME NEW key \in RoutingKeys
  PROVE  \E q \in Queues : Durable(q) /\ Receives(q, key)
<1>1. CASE key = Created
  <2>1. /\ "shipment-created-queue" \in Queues /\ Durable("shipment-created-queue")
        /\ DefaultShipmentTopology["shipment-created-queue"].routingKey = Created
    BY DEF Queues, Durable, DefaultShipmentTopology, QueueConfig
  <2> QED BY <1>1, <2>1 DEF Receives, Matches
<1>2. CASE key = StatusChanged
  <2>1. /\ "shipment-status-changed-queue" \in Queues /\ Durable("shipment-status-changed-queue")
        /\ DefaultShipmentTopology["shipment-status-changed-queue"].routingKey = StatusChanged
    BY DEF Queues, Durable, DefaultShipmentTopology, QueueConfig
  <2> QED BY <1>2, <2>1 DEF Receives, Matches
<1> QED BY <1>1, <1>2 DEF RoutingKeys

-----------------------------------------------------------------------------
(***************************************************************************)
(* Types                                                                   *)
(***************************************************************************)
\* An RPC begins or ends.
RPC(p) == AcceptCall(p) \/ EndCall(p) \/ OpenStream(p) \/ CloseStream(p)

\* What the types rest on: a consumer is connected only while main is between
\* its start and the signal, to a queue that exists, and a delivery the loop has
\* is a message.
ConsumerInv ==
  /\ \A p \in Processes : attached[p] => /\ pc[p] \in {"listen", "waiting"}
                                         /\ ConsumerQueue \in declared
  /\ \A p \in Processes : client[p] \in {"delivered", "handled"} => msg[p] \in Messages

TypeInv == TypeOK /\ ConsumerInv

LEMMA TypeInit == Init => TypeInv
<1> SUFFICES ASSUME Init PROVE TypeInv
  OBVIOUS
<1>1. 1 \in 1..Len(QueueOrder)
  BY LengthOfOrder
<1>2. TypeOK
  BY <1>1 DEF Init, TypeOK, Labels, Starting
<1>3. ConsumerInv
  BY DEF Init, ConsumerInv
<1> QED BY <1>2, <1>3 DEF TypeInv

\* What the disappearance of consumers does to the broker.
LEMMA ConsumersGoneEffect ==
  ASSUME TypeInv, NEW gone \in SUBSET Processes, ConsumersGone(gone)
  PROVE  /\ attached' \in [Processes -> BOOLEAN]
         /\ \A p \in Processes : attached'[p] <=> attached[p] /\ p \notin gone
         /\ declared' \subseteq declared /\ bound' \subseteq declared'
         /\ content' \in [Queues -> SUBSET Messages]
         /\ accepted' \in [Queues -> SUBSET Messages]
         /\ \A q \in Queues \ declared' : content'[q] = {} /\ accepted'[q] = {}
         /\ \A p \in Processes : attached'[p] => ConsumerQueue \in declared'
         /\ \A q \in Queues : Durable(q) => accepted'[q] = accepted[q]
                                            /\ (q \in bound => q \in bound')
         /\ \A q \in Queues : \A m \in accepted'[q] :
              /\ m \in accepted[q]
              /\ m \in content[q] => m \in content'[q]
              /\ \A p \in gone : q = ConsumerQueue /\ Unacked(p) /\ msg[p] = m
                                   => m \in content'[q]
<1> DEFINE leaving == {p \in gone : attached[p]}
           deleted == /\ AutoDelete(ConsumerQueue) /\ leaving # {}
                      /\ \A p \in Processes : attached[p] => p \in leaving
           returned == {msg[p] : p \in {p \in leaving : Unacked(p)}}
<1>1. /\ attached' = [p \in Processes |-> attached[p] /\ p \notin gone]
      /\ declared' = IF deleted THEN declared \ {ConsumerQueue} ELSE declared
      /\ bound' = IF deleted THEN bound \ {ConsumerQueue} ELSE bound
      /\ accepted' = IF deleted THEN [accepted EXCEPT ![ConsumerQueue] = {}] ELSE accepted
      /\ content' = [content EXCEPT ![ConsumerQueue] =
                       IF deleted THEN {} ELSE content[ConsumerQueue] \cup returned]
  BY DEF ConsumersGone
<1>2. /\ ConsumerQueue \in Queues /\ returned \subseteq Messages
      /\ \A p \in gone : Unacked(p) => msg[p] \in returned
      /\ leaving # {} => ConsumerQueue \in declared
      /\ deleted => ~Durable(ConsumerQueue)
      /\ returned # {} => leaving # {}
      /\ \A p \in Processes : attached[p] /\ p \notin gone => ~deleted
  BY ProcessAssumption, DurableIsKept DEF TypeInv, TypeOK, ConsumerInv, Unacked
<1> HIDE DEF leaving, deleted, returned
<1>3. /\ attached' \in [Processes -> BOOLEAN]
      /\ \A p \in Processes : attached'[p] <=> attached[p] /\ p \notin gone
  BY <1>1 DEF TypeInv, TypeOK
<1>4. /\ declared' \subseteq declared /\ bound' \subseteq declared'
      /\ content' \in [Queues -> SUBSET Messages]
      /\ accepted' \in [Queues -> SUBSET Messages]
  BY <1>1, <1>2 DEF TypeInv, TypeOK
<1>5. \A q \in Queues \ declared' : content'[q] = {} /\ accepted'[q] = {}
  BY <1>1, <1>2 DEF TypeInv, TypeOK
<1>6. \A p \in Processes : attached'[p] => ConsumerQueue \in declared'
  BY <1>1, <1>2, <1>3 DEF TypeInv, ConsumerInv
<1>7. \A q \in Queues : Durable(q) => accepted'[q] = accepted[q] /\ (q \in bound => q \in bound')
  BY <1>1, <1>2 DEF TypeInv, TypeOK
<1>8. \A q \in Queues : \A m \in accepted'[q] :
        /\ m \in accepted[q]
        /\ m \in content[q] => m \in content'[q]
        /\ \A p \in gone : q = ConsumerQueue /\ Unacked(p) /\ msg[p] = m => m \in content'[q]
  BY <1>1, <1>2 DEF TypeInv, TypeOK
<1> QED BY <1>3, <1>4, <1>5, <1>6, <1>7, <1>8

\* The end of a process, and what it leaves of the others.
LEMMA EndsType ==
  ASSUME TypeInv, NEW p \in Processes, Ends(p)
  PROVE  TypeInv'
<1>1. /\ pc' = [pc EXCEPT ![p] = "down"] /\ next' = [next EXCEPT ![p] = 1]
      /\ serve' = [serve EXCEPT ![p] = "none"] /\ calls' = [calls EXCEPT ![p] = 0]
      /\ streams' = [streams EXCEPT ![p] = 0]
      /\ linked' = [linked EXCEPT ![p] = FALSE] /\ client' = [client EXCEPT ![p] = "none"]
      /\ msg' = [msg EXCEPT ![p] = NoMessage] /\ ConsumersGone({p})
      /\ UNCHANGED <<published, handled>>
  BY DEF Ends
<1>2. 1 \in 1..Len(QueueOrder)
  BY LengthOfOrder
<1>3. TypeOK'
  BY <1>1, <1>2, ConsumersGoneEffect DEF TypeInv, TypeOK, Labels, Starting
<1>4. ConsumerInv'
  <2>1. \A s \in Processes : attached'[s] => s # p /\ attached[s] /\ ConsumerQueue \in declared'
    BY <1>1, ConsumersGoneEffect
  <2> QED BY <1>1, <2>1 DEF TypeInv, TypeOK, ConsumerInv
<1> QED BY <1>3, <1>4 DEF TypeInv

\* main's steps.
LEMMA MainType ==
  ASSUME TypeInv, NEW p \in Processes, Main(p) \/ Launch(p)
  PROVE  TypeInv'
<1> USE DEF TypeInv, TypeOK, ConsumerInv, MainStep, Labels, Starting
<1>1. CASE \/ Launch(p) \/ ConnectDatabase(p) \/ InitSchema(p) \/ StartWorker(p)
           \/ SkipConsumer(p) \/ ClientsGoAway(p) \/ CloseDatabase(p)
  <2>1. UNCHANGED <<next, serve, calls, streams, linked, consumer, broker, published, handled>>
    BY <1>1 DEF Launch, ConnectDatabase, InitSchema, StartWorker, SkipConsumer,
                ClientsGoAway, CloseDatabase
  <2>2. PICK to \in Labels : /\ pc' = [pc EXCEPT ![p] = to]
                             /\ attached[p] => to \in {"listen", "waiting"}
    BY <1>1 DEF Launch, ConnectDatabase, InitSchema, StartWorker, SkipConsumer,
                ClientsGoAway, CloseDatabase
  <2> QED BY <2>1, <2>2 DEF consumer, broker
<1>2. CASE ConnectPublisher(p) \/ EndGracefulStop(p) \/ Listen(p)
  <2>1. UNCHANGED <<next, calls, streams, consumer, broker, published, handled>>
    BY <1>2 DEF ConnectPublisher, EndGracefulStop, Listen
  <2>2. /\ linked' \in [Processes -> BOOLEAN]
        /\ serve' \in [Processes -> {"none", "scheduled", "serving"}]
    BY <1>2 DEF ConnectPublisher, EndGracefulStop, Listen
  <2>3. PICK to \in Labels : /\ pc' = [pc EXCEPT ![p] = to]
                             /\ attached[p] => to = "waiting"
    BY <1>2 DEF ConnectPublisher, EndGracefulStop, Listen
  <2> QED BY <2>1, <2>2, <2>3 DEF consumer, broker
<1>3. CASE DeclareQueue(p)
  <2>1. Queue(p) \in Queues
    BY OrderHasQueues DEF Queue
  <2> QED BY <1>3, <2>1 DEF DeclareQueue, consumer
<1>4. CASE BindQueue(p)
  <2>1. next' \in [Processes -> 1..Len(QueueOrder)]
    BY <1>4, LengthOfOrder DEF BindQueue, LastQueue
  <2> QED BY <1>4, <2>1 DEF BindQueue, consumer
<1>5. CASE StartConsumer(p)
  BY <1>5 DEF StartConsumer, broker
<1>6. CASE Return(p)
  BY <1>6, EndsType DEF Return
<1> QED BY <1>1, <1>2, <1>3, <1>4, <1>5, <1>6 DEF Main

LEMMA TypeStep == TypeInv /\ [Next]_vars => TypeInv'
<1> SUFFICES ASSUME TypeInv, [Next]_vars PROVE TypeInv'
  OBVIOUS
<1>1. CASE UNCHANGED vars
  BY <1>1 DEF vars, process, consumer, broker, TypeInv, TypeOK, ConsumerInv
<1>2. CASE BrokerRestart
  <2> DEFINE lost == {q \in Queues : ~Durable(q)}
             returned == {msg[p] : p \in {p \in Processes : Unacked(p)}}
  <2>1. /\ linked' = [p \in Processes |-> FALSE] /\ attached' = [p \in Processes |-> FALSE]
        /\ pc' = [p \in Processes |-> IF SetupTopologyRuns(p) THEN "down" ELSE pc[p]]
        /\ next' = [p \in Processes |-> 1]
        /\ declared' = declared \ lost /\ bound' = bound \ lost
        /\ accepted' = [q \in Queues |-> IF q \in lost THEN {} ELSE accepted[q]]
        /\ content' = [q \in Queues |-> IF q \in lost THEN {}
                         ELSE IF q = ConsumerQueue THEN content[q] \cup returned
                         ELSE content[q]]
        /\ UNCHANGED <<serve, calls, streams, client, msg, published, handled>>
    BY <1>2 DEF BrokerRestart
  <2>2. /\ returned \subseteq Messages /\ 1 \in 1..Len(QueueOrder)
        /\ returned # {} => ConsumerQueue \in declared
    BY LengthOfOrder DEF TypeInv, TypeOK, ConsumerInv, Unacked
  <2> HIDE DEF returned, lost
  <2>3. TypeOK'
    BY <2>1, <2>2 DEF TypeInv, TypeOK, Labels, Starting
  <2> QED BY <2>1, <2>3 DEF TypeInv, ConsumerInv
<1>3. ASSUME NEW p \in Processes, Main(p) \/ Launch(p) PROVE TypeInv'
  BY <1>3, MainType
<1>4. ASSUME NEW p \in Processes, Fatal(p) \/ Kill(p) \/ ServeTooLate(p) PROVE TypeInv'
  BY <1>4, EndsType DEF Fatal, Kill, ServeTooLate
<1>5. ASSUME NEW p \in Processes, Terminate(p) PROVE TypeInv'
  <2>1. /\ pc[p] = "waiting" /\ pc' = [pc EXCEPT ![p] = "stopServer"] /\ ConsumersGone({p})
        /\ UNCHANGED <<next, serve, calls, streams, linked, client, msg, published, handled>>
    BY <1>5 DEF Terminate, MainStep
  <2>2. \A s \in Processes : attached'[s] => s # p /\ attached[s] /\ ConsumerQueue \in declared'
    BY <2>1, ConsumersGoneEffect
  <2>3. TypeOK'
    BY <2>1, ConsumersGoneEffect DEF TypeInv, TypeOK, Labels, Starting
  <2> QED BY <2>1, <2>2, <2>3 DEF TypeInv, TypeOK, ConsumerInv
<1>6. ASSUME NEW p \in Processes, Serve(p) \/ RPC(p) PROVE TypeInv'
  <2> USE DEF TypeInv, TypeOK, ConsumerInv, consumer, broker
  <2>1. CASE Serve(p)
    BY <2>1 DEF Serve
  <2>2. CASE AcceptCall(p)
    BY <2>2 DEF AcceptCall
  <2>3. CASE EndCall(p)
    BY <2>3 DEF EndCall
  <2>4. CASE OpenStream(p)
    BY <2>4 DEF OpenStream
  <2>5. CASE CloseStream(p)
    BY <2>5 DEF CloseStream
  <2> QED BY <1>6, <2>1, <2>2, <2>3, <2>4, <2>5 DEF RPC
<1>7. ASSUME NEW p \in Processes, HandleMessage(p) \/ Ack(p) \/ LoopEnds(p) PROVE TypeInv'
  <2> USE DEF TypeInv, TypeOK, ConsumerInv, process, broker
  <2>1. CASE HandleMessage(p)
    BY <2>1 DEF HandleMessage
  <2>2. CASE Ack(p)
    BY <2>2 DEF Ack
  <2>3. CASE LoopEnds(p)
    BY <2>3 DEF LoopEnds
  <2> QED BY <1>7, <2>1, <2>2, <2>3
<1>8. ASSUME NEW p \in Processes, NEW m \in Messages, Deliver(p, m) PROVE TypeInv'
  BY <1>8 DEF Deliver, process, TypeInv, TypeOK, ConsumerInv
<1>9. ASSUME NEW p \in Processes, NEW m \in Messages, PublishMessage(p, m) PROVE TypeInv'
  BY <1>9 DEF PublishMessage, process, consumer, TypeInv, TypeOK, ConsumerInv
<1> QED
  BY <1>1, <1>2, <1>3, <1>4, <1>5, <1>6, <1>7, <1>8, <1>9 DEF Next, Environment, RPC, Consume

\* Every variable of ServiceProcess keeps its type, and only queues that exist
\* are bound or have messages.
THEOREM TypeCorrect == Spec => []TypeOK
<1>1. TypeInv => TypeOK
  BY DEF TypeInv
<1> QED BY <1>1, TypeInit, TypeStep, PTL DEF Spec

-----------------------------------------------------------------------------
(***************************************************************************)
(* The database                                                            *)
(***************************************************************************)
\* Calls run only from Serve to the end of GracefulStop.
CallsInv ==
  \A p \in Processes : calls[p] > 0 => pc[p] \in {"waiting", "stopServer", "draining"}

LEMMA CallsStep == TypeInv /\ CallsInv /\ [Next]_vars => CallsInv'
<1> SUFFICES ASSUME TypeInv, CallsInv, [Next]_vars PROVE CallsInv'
  OBVIOUS
<1> USE DEF CallsInv, TypeInv, TypeOK
<1>1. CASE UNCHANGED vars
  BY <1>1 DEF vars, process
<1>2. CASE BrokerRestart
  BY <1>2 DEF BrokerRestart, SetupTopologyRuns
<1>3. ASSUME NEW p \in Processes, Ends(p) PROVE CallsInv'
  BY <1>3 DEF Ends
<1>4. ASSUME NEW p \in Processes, Main(p), ~Return(p) PROVE CallsInv'
  <2>1. UNCHANGED calls
    BY <1>4 DEF Main, ConnectDatabase, InitSchema, ConnectPublisher, DeclareQueue,
                BindQueue, StartWorker, StartConsumer, SkipConsumer, Listen,
                ClientsGoAway, EndGracefulStop, CloseDatabase
  <2>2. \A s \in Processes : s # p => pc'[s] = pc[s]
    BY <1>4 DEF Main, MainStep, ConnectDatabase, InitSchema, ConnectPublisher, DeclareQueue,
                BindQueue, StartWorker, StartConsumer, SkipConsumer, Listen,
                ClientsGoAway, EndGracefulStop, CloseDatabase
  <2>3. CASE EndGracefulStop(p)
    <3>1. calls'[p] = 0
      BY <2>1, <2>3 DEF EndGracefulStop
    <3>2. ASSUME NEW s \in Processes, calls'[s] > 0
          PROVE  pc'[s] \in {"waiting", "stopServer", "draining"}
      <4>1. s # p
        BY <3>1, <3>2
      <4> QED BY <2>1, <2>2, <3>2, <4>1
    <3> QED BY <3>2
  <2>4. CASE ClientsGoAway(p)
    BY <2>1, <2>2, <2>4 DEF ClientsGoAway, MainStep
  <2>5. CASE pc[p] \notin {"waiting", "stopServer", "draining"}
    BY <2>1, <2>2, <2>5
  <2> QED
    BY <1>4, <2>3, <2>4, <2>5
       DEF Main, MainStep, ConnectDatabase, InitSchema, ConnectPublisher, DeclareQueue,
           BindQueue, StartWorker, StartConsumer, SkipConsumer, Listen, CloseDatabase
<1>5. ASSUME NEW p \in Processes, Launch(p) \/ Terminate(p) PROVE CallsInv'
  BY <1>5 DEF Launch, Terminate, MainStep
<1>6. ASSUME NEW p \in Processes, RPC(p) PROVE CallsInv'
  BY <1>6 DEF RPC, AcceptCall, EndCall, OpenStream, CloseStream, Accepts
<1>7. ASSUME NEW p \in Processes, Serve(p) \/ Consume(p) PROVE CallsInv'
  BY <1>7 DEF Serve, Consume, HandleMessage, Ack, LoopEnds, Deliver, process
<1>8. ASSUME NEW p \in Processes, NEW m \in Messages, PublishMessage(p, m) PROVE CallsInv'
  BY <1>8 DEF PublishMessage, process
<1> QED
  BY <1>1, <1>2, <1>3, <1>4, <1>5, <1>6, <1>7, <1>8
     DEF Next, Environment, RPC, Fatal, Kill, Return, ServeTooLate

\* The database is closed only when no call is running in the process.
THEOREM DatabaseOutlivesCalls == Spec => []RunningCallsHaveDatabase
<1>1. Init => CallsInv
  BY DEF Init, CallsInv
<1>2. CallsInv => RunningCallsHaveDatabase
  BY DEF CallsInv, RunningCallsHaveDatabase, DatabaseOpen
<1>3. TypeInv /\ CallsInv /\ [Next]_vars => (TypeInv /\ CallsInv)'
  BY TypeStep, CallsStep
<1> QED BY <1>1, <1>2, <1>3, TypeInit, PTL DEF Spec

-----------------------------------------------------------------------------
(***************************************************************************)
(* Routing                                                                 *)
(***************************************************************************)
\* SetupTopology has bound the durable queues it has passed, and all of them
\* before a worker starts; and no durable queue is ever unbound.
BindingInv ==
  /\ \A p \in Processes : pc[p] \notin {"declare", "bind"} => next[p] = 1
  /\ \A p \in Processes : pc[p] \in {"declare", "bind"} =>
       \A i \in 1..next[p] - 1 : Durable(QueueOrder[i]) => QueueOrder[i] \in bound
  /\ \A p \in Processes : pc[p] = "worker" \/ WorkerRuns(p) =>
       \A q \in Queues : Durable(q) => q \in bound

RoutingInv == BindingInv /\ RoutedToDurableQueues

\* main has not moved but to an end, and the durable queues are as they were.
LEMMA RoutingKept ==
  ASSUME TypeInv, RoutingInv,
         \A p \in Processes : pc'[p] = pc[p] \/ pc'[p] = "down"
                              \/ (WorkerRuns(p) /\ WorkerRuns(p)'),
         \A p \in Processes : next'[p] = IF pc'[p] = "down" THEN 1 ELSE next[p],
         \A q \in Queues : Durable(q) => accepted'[q] = accepted[q]
                                          /\ (q \in bound => q \in bound'),
         UNCHANGED published
  PROVE  RoutingInv'
<1>1. \A p \in Processes : WorkerRuns(p)' => WorkerRuns(p)
  BY DEF WorkerRuns
<1>2. \A p \in Processes : pc'[p] \in {"worker", "declare", "bind"} => pc'[p] = pc[p]
  BY DEF WorkerRuns
<1>3. BindingInv'
  <2>1. \A p \in Processes : pc'[p] \in {"declare", "bind"} =>
          \A i \in 1..next'[p] - 1 : Durable(QueueOrder[i]) => QueueOrder[i] \in bound'
    <3> SUFFICES ASSUME NEW p \in Processes, pc'[p] \in {"declare", "bind"},
                        NEW i \in 1..next'[p] - 1, Durable(QueueOrder[i])
                 PROVE  QueueOrder[i] \in bound'
      OBVIOUS
    <3>1. pc[p] \in {"declare", "bind"} /\ next'[p] = next[p]
      BY <1>2
    <3>2. QueueOrder[i] \in bound
      BY <3>1 DEF RoutingInv, BindingInv
    <3> QED BY <3>2 DEF TypeInv, TypeOK
  <2>2. \A p \in Processes : pc'[p] = "worker" \/ WorkerRuns(p)' =>
          \A q \in Queues : Durable(q) => q \in bound'
    BY <1>1, <1>2 DEF RoutingInv, BindingInv
  <2>3. \A p \in Processes : pc'[p] \notin {"declare", "bind"} => next'[p] = 1
    BY DEF WorkerRuns, RoutingInv, BindingInv
  <2> QED BY <2>1, <2>2, <2>3 DEF BindingInv
<1>4. RoutedToDurableQueues'
  BY DEF RoutingInv, RoutedToDurableQueues
<1> QED BY <1>3, <1>4 DEF RoutingInv

LEMMA RoutingStep == TypeInv /\ RoutingInv /\ [Next]_vars => RoutingInv'
<1> SUFFICES ASSUME TypeInv, RoutingInv, [Next]_vars PROVE RoutingInv'
  OBVIOUS
<1>1. CASE UNCHANGED vars
  <2>1. UNCHANGED <<pc, next, bound, accepted, published>>
    BY <1>1 DEF vars, process, broker
  <2>2. \A p \in Processes : next'[p] = IF pc'[p] = "down" THEN 1 ELSE next[p]
    BY <2>1 DEF RoutingInv, BindingInv
  <2> QED BY <2>1, <2>2, RoutingKept
<1>2. CASE BrokerRestart
  <2>1. \A p \in Processes :
          /\ pc'[p] = pc[p] \/ pc'[p] = "down"
          /\ next'[p] = IF pc'[p] = "down" THEN 1 ELSE next[p]
    <3>1. /\ pc' = [p \in Processes |-> IF SetupTopologyRuns(p) THEN "down" ELSE pc[p]]
          /\ next' = [p \in Processes |-> 1]
      BY <1>2 DEF BrokerRestart
    <3>2. \A p \in Processes : ~SetupTopologyRuns(p) => next[p] = 1
      BY LengthOfOrder DEF SetupTopologyRuns, RoutingInv, BindingInv, TypeInv, TypeOK
    <3> QED BY <3>1, <3>2
  <2>2. \A q \in Queues : Durable(q) => accepted'[q] = accepted[q] /\ (q \in bound => q \in bound')
    BY <1>2 DEF BrokerRestart
  <2> QED BY <1>2, <2>1, <2>2, RoutingKept DEF BrokerRestart
<1>3. ASSUME NEW p \in Processes, Ends(p) PROVE RoutingInv'
  <2>1. /\ \A s \in Processes : pc'[s] = pc[s] \/ pc'[s] = "down"
        /\ \A s \in Processes : next'[s] = IF pc'[s] = "down" THEN 1 ELSE next[s]
    BY <1>3 DEF Ends, TypeInv, TypeOK, RoutingInv, BindingInv
  <2>2. ConsumersGone({p}) /\ UNCHANGED published
    BY <1>3 DEF Ends
  <2> QED BY <2>1, <2>2, ConsumersGoneEffect, RoutingKept
<1>4. ASSUME NEW p \in Processes, Terminate(p) PROVE RoutingInv'
  <2>1. \A s \in Processes : pc'[s] = pc[s] \/ (WorkerRuns(s) /\ WorkerRuns(s)')
    BY <1>4 DEF Terminate, MainStep, WorkerRuns, TypeInv, TypeOK
  <2>2. ConsumersGone({p}) /\ UNCHANGED <<published, next>>
    BY <1>4 DEF Terminate
  <2>3. \A s \in Processes : next'[s] = IF pc'[s] = "down" THEN 1 ELSE next[s]
    BY <2>1, <2>2 DEF RoutingInv, BindingInv, WorkerRuns
  <2> QED BY <2>1, <2>2, <2>3, ConsumersGoneEffect, RoutingKept
<1>5. ASSUME NEW p \in Processes,
             StartConsumer(p) \/ SkipConsumer(p) \/ Listen(p) \/ ClientsGoAway(p)
               \/ EndGracefulStop(p) \/ CloseDatabase(p)
      PROVE  RoutingInv'
  <2>1. \A s \in Processes : pc'[s] = pc[s] \/ (WorkerRuns(s) /\ WorkerRuns(s)')
    BY <1>5 DEF StartConsumer, SkipConsumer, Listen, ClientsGoAway, EndGracefulStop,
                CloseDatabase, MainStep, WorkerRuns, TypeInv, TypeOK
  <2>2. UNCHANGED <<next, bound, accepted, published>>
    BY <1>5 DEF StartConsumer, SkipConsumer, Listen, ClientsGoAway, EndGracefulStop,
                CloseDatabase, broker
  <2>3. \A s \in Processes : next'[s] = IF pc'[s] = "down" THEN 1 ELSE next[s]
    BY <2>1, <2>2 DEF RoutingInv, BindingInv, WorkerRuns
  <2> QED BY <2>1, <2>2, <2>3, RoutingKept
<1>6. ASSUME NEW p \in Processes, Launch(p) \/ ConnectDatabase(p) \/ InitSchema(p)
      PROVE  RoutingInv'
  <2>1. /\ pc'[p] \in {"database", "schema", "publisher"}
        /\ \A s \in Processes : s # p => pc'[s] = pc[s]
    BY <1>6 DEF Launch, ConnectDatabase, InitSchema, MainStep, TypeInv, TypeOK
  <2>2. UNCHANGED <<next, bound, accepted, published>>
    BY <1>6 DEF Launch, ConnectDatabase, InitSchema, broker
  <2>3. next[p] = 1
    BY <1>6 DEF Launch, ConnectDatabase, InitSchema, MainStep, RoutingInv, BindingInv
  <2>4. BindingInv'
    BY <2>1, <2>2, <2>3 DEF RoutingInv, BindingInv, WorkerRuns
  <2> QED BY <2>2, <2>4 DEF RoutingInv, RoutedToDurableQueues
<1>7. ASSUME NEW p \in Processes, ConnectPublisher(p) PROVE RoutingInv'
  <2>1. next[p] = 1
    BY <1>7 DEF RoutingInv, BindingInv, ConnectPublisher, MainStep
  <2>2. /\ pc'[p] = "declare" /\ \A s \in Processes : s # p => pc'[s] = pc[s]
        /\ UNCHANGED <<next, bound, accepted, published>>
    BY <1>7 DEF ConnectPublisher, MainStep, TypeInv, TypeOK, broker
  <2>3. 1..next'[p] - 1 = {}
    BY <2>1, <2>2
  <2>4. BindingInv'
    BY <2>1, <2>2, <2>3 DEF RoutingInv, BindingInv, WorkerRuns
  <2> QED BY <2>2, <2>4 DEF RoutingInv, RoutedToDurableQueues
<1>8. ASSUME NEW p \in Processes, DeclareQueue(p) PROVE RoutingInv'
  <2>1. /\ pc[p] = "declare" /\ pc'[p] = "bind"
        /\ \A s \in Processes : s # p => pc'[s] = pc[s]
        /\ UNCHANGED <<next, bound, accepted, published>>
    BY <1>8 DEF DeclareQueue, MainStep, TypeInv, TypeOK
  <2>2. BindingInv'
    BY <2>1 DEF RoutingInv, BindingInv, WorkerRuns
  <2> QED BY <2>1, <2>2 DEF RoutingInv, RoutedToDurableQueues
<1>9. ASSUME NEW p \in Processes, BindQueue(p) PROVE RoutingInv'
  <2> DEFINE n == next[p]
  <2>1. /\ pc[p] = "bind" /\ bound' = bound \cup {QueueOrder[n]} /\ n \in 1..Len(QueueOrder)
        /\ IF n = Len(QueueOrder) THEN pc'[p] = "worker" /\ next'[p] = 1
                                  ELSE pc'[p] = "declare" /\ next'[p] = n + 1
        /\ \A s \in Processes : s # p => pc'[s] = pc[s] /\ next'[s] = next[s]
        /\ UNCHANGED <<accepted, published>>
    BY <1>9 DEF BindQueue, LastQueue, Queue, MainStep, TypeInv, TypeOK
  <2>2. \A i \in 1..n : Durable(QueueOrder[i]) => QueueOrder[i] \in bound'
    BY <2>1 DEF RoutingInv, BindingInv
  <2> HIDE DEF n
  <2>3. n = Len(QueueOrder) => \A q \in Queues : Durable(q) => q \in bound'
    BY <2>2, EveryQueueIsSetUp
  <2>4. BindingInv'
    BY <2>1, <2>2, <2>3, LengthOfOrder DEF RoutingInv, BindingInv, WorkerRuns
  <2> QED BY <2>1, <2>4 DEF RoutingInv, RoutedToDurableQueues
<1>10. ASSUME NEW p \in Processes, StartWorker(p) PROVE RoutingInv'
  <2>1. /\ pc[p] = "worker" /\ pc'[p] = "consumer"
        /\ \A s \in Processes : s # p => pc'[s] = pc[s]
        /\ UNCHANGED <<next, bound, accepted, published>>
    BY <1>10 DEF StartWorker, MainStep, TypeInv, TypeOK, broker
  <2>2. BindingInv'
    BY <2>1 DEF RoutingInv, BindingInv, WorkerRuns
  <2> QED BY <2>1, <2>2 DEF RoutingInv, RoutedToDurableQueues
<1>11. ASSUME NEW p \in Processes, Serve(p) \/ RPC(p) \/ Consume(p)
       PROVE  RoutingInv'
  <2>1. UNCHANGED <<pc, next, bound, accepted, published>>
    BY <1>11 DEF Serve, RPC, AcceptCall, EndCall, OpenStream, CloseStream, Consume,
                 HandleMessage, Ack, LoopEnds, Deliver, process, broker
  <2>2. \A s \in Processes : next'[s] = IF pc'[s] = "down" THEN 1 ELSE next[s]
    BY <2>1 DEF RoutingInv, BindingInv
  <2> QED BY <2>1, <2>2, RoutingKept
<1>12. ASSUME NEW p \in Processes, NEW m \in Messages, PublishMessage(p, m)
       PROVE  RoutingInv'
  <2> DEFINE targets == {q \in bound : Receives(q, KeyOf[m])}
  <2>1. /\ WorkerRuns(p) /\ published' = published \cup {m} /\ UNCHANGED <<pc, next, bound>>
        /\ accepted' = [q \in Queues |-> IF q \in targets THEN accepted[q] \cup {m}
                                                           ELSE accepted[q]]
    BY <1>12 DEF PublishMessage, process
  <2>2. \A q \in Queues : Durable(q) /\ Receives(q, KeyOf[m]) => m \in accepted'[q]
    BY <2>1 DEF RoutingInv, BindingInv
  <2>3. \E q \in Queues : Durable(q) /\ m \in accepted'[q]
    BY <2>2, EveryKeyHasDurableQueue, ProcessAssumption
  <2>4. \A q \in Queues : accepted[q] \subseteq accepted'[q]
    BY <2>1
  <2>5. RoutedToDurableQueues'
    BY <2>1, <2>2, <2>3, <2>4 DEF RoutingInv, RoutedToDurableQueues
  <2>6. BindingInv'
    BY <2>1 DEF RoutingInv, BindingInv, WorkerRuns
  <2> QED BY <2>5, <2>6 DEF RoutingInv
<1> QED
  BY <1>1, <1>2, <1>3, <1>4, <1>5, <1>6, <1>7, <1>8, <1>9, <1>10, <1>11, <1>12
     DEF Next, Main, Environment, RPC, Fatal, Kill, Return, ServeTooLate

\* Every message the broker was given is in every durable queue for its key,
\* whatever processes start, stop and die: none publishes before it has bound
\* them all, and none of them is ever unbound (SetupTopology, StartWorker).
THEOREM NoMessageUnrouted == Spec => []RoutedToDurableQueues
<1>1. Init => RoutingInv
  BY DEF Init, RoutingInv, BindingInv, RoutedToDurableQueues, WorkerRuns
<1>2. TypeInv /\ RoutingInv /\ [Next]_vars => (TypeInv /\ RoutingInv)'
  BY TypeStep, RoutingStep
<1>3. RoutingInv => RoutedToDurableQueues
  BY DEF RoutingInv
<1> QED BY <1>1, <1>2, <1>3, TypeInit, PTL DEF Spec

-----------------------------------------------------------------------------
(***************************************************************************)
(* Deliveries                                                              *)
(***************************************************************************)
\* A queue accounts for all it has been given, and what the consumer is about to
\* acknowledge it has logged.
DeliveryInv ==
  /\ NothingLostButWithQueue
  /\ \A p \in Processes : client[p] = "handled" => msg[p] \in handled

\* A message of q is in it, logged, or held by a consumer.
Accounted(q, m) ==
  \/ m \in content[q]
  \/ q = ConsumerQueue /\ (m \in handled \/ \E p \in Processes : Unacked(p) /\ msg[p] = m)

\* Consumers disappear, and the loop of p, one of them, ends, goes on or is killed.
LEMMA DeliveryGone ==
  ASSUME TypeInv, DeliveryInv, NEW p \in Processes, ConsumersGone({p}), UNCHANGED handled,
         \A s \in Processes : s # p => client'[s] = client[s] /\ msg'[s] = msg[s],
         client'[p] = "handled" => client[p] = "handled" /\ msg'[p] = msg[p]
  PROVE  DeliveryInv'
<1>1. \A s \in Processes : s # p => attached'[s] = attached[s]
  BY DEF ConsumersGone, TypeInv, TypeOK
<1>2. ASSUME NEW q \in Queues, NEW m \in accepted'[q] PROVE Accounted(q, m)'
  <2>1. Accounted(q, m)
    BY <1>2, ConsumersGoneEffect DEF DeliveryInv, NothingLostButWithQueue, Accounted
  <2>2. CASE m \in content[q]
    BY <1>2, <2>2, ConsumersGoneEffect DEF Accounted
  <2>3. CASE q = ConsumerQueue /\ m \in handled
    BY <2>3 DEF Accounted
  <2>4. ASSUME NEW s \in Processes, q = ConsumerQueue, Unacked(s), msg[s] = m
        PROVE  Accounted(q, m)'
    <3>1. CASE s = p
      BY <1>2, <2>4, <3>1, ConsumersGoneEffect DEF Accounted
    <3>2. CASE s # p
      BY <1>1, <2>4, <3>2 DEF Accounted, Unacked
    <3> QED BY <3>1, <3>2
  <2> QED BY <2>1, <2>2, <2>3, <2>4 DEF Accounted
<1>3. NothingLostButWithQueue'
  BY <1>2 DEF NothingLostButWithQueue, Accounted
<1> QED BY <1>3 DEF DeliveryInv

LEMMA DeliveryStep == TypeInv /\ DeliveryInv /\ [Next]_vars => DeliveryInv'
<1> SUFFICES ASSUME TypeInv, DeliveryInv, [Next]_vars PROVE DeliveryInv'
  OBVIOUS
<1>1. ASSUME UNCHANGED <<attached, client, msg, content, accepted, handled>>
      PROVE  DeliveryInv'
  BY <1>1 DEF DeliveryInv, NothingLostButWithQueue, Unacked
<1>2. CASE UNCHANGED vars
  BY <1>1, <1>2 DEF vars, consumer, broker
<1>3. ASSUME NEW p \in Processes, Ends(p) PROVE DeliveryInv'
  BY <1>3, DeliveryGone DEF Ends, TypeInv, TypeOK
<1>4. ASSUME NEW p \in Processes, Terminate(p) PROVE DeliveryInv'
  BY <1>4, DeliveryGone DEF Terminate
<1>5. ASSUME NEW p \in Processes,
             \/ Launch(p) \/ RPC(p) \/ Serve(p)
             \/ Main(p) /\ ~StartConsumer(p) /\ ~Return(p)
      PROVE  DeliveryInv'
  BY <1>1, <1>5 DEF Launch, RPC, AcceptCall, EndCall, OpenStream, CloseStream,
                    Serve, Main, ConnectDatabase, InitSchema,
                    ConnectPublisher, DeclareQueue, BindQueue, StartWorker, SkipConsumer,
                    Listen, ClientsGoAway, EndGracefulStop, CloseDatabase,
                    consumer, broker
<1>6. ASSUME NEW p \in Processes, StartConsumer(p) PROVE DeliveryInv'
  <2>1. /\ ~attached[p] /\ attached' = [attached EXCEPT ![p] = TRUE]
        /\ client' = [client EXCEPT ![p] = "idle"] /\ UNCHANGED <<msg, content, accepted, handled>>
    BY <1>6 DEF StartConsumer, MainStep, TypeInv, ConsumerInv, broker
  <2>2. \A s \in Processes : Unacked(s) => Unacked(s)'
    BY <2>1 DEF Unacked, TypeInv, TypeOK
  <2> QED BY <2>1, <2>2 DEF DeliveryInv, NothingLostButWithQueue, TypeInv, TypeOK
<1>7. ASSUME NEW p \in Processes, HandleMessage(p) PROVE DeliveryInv'
  <2>1. /\ client[p] = "delivered" /\ handled' = handled \cup {msg[p]}
        /\ client' = [client EXCEPT ![p] = "handled"]
        /\ UNCHANGED <<attached, msg, content, accepted>>
    BY <1>7 DEF HandleMessage, broker
  <2>2. \A s \in Processes : Unacked(s) => Unacked(s)'
    BY <2>1 DEF Unacked, TypeInv, TypeOK
  <2> QED BY <2>1, <2>2 DEF DeliveryInv, NothingLostButWithQueue, TypeInv, TypeOK
<1>8. ASSUME NEW p \in Processes, Ack(p) \/ LoopEnds(p) PROVE DeliveryInv'
  <2>1. /\ client'[p] \in {"idle", "none"} /\ UNCHANGED <<attached, content, accepted, handled>>
        /\ \A s \in Processes : s # p => client'[s] = client[s] /\ msg'[s] = msg[s]
        /\ Unacked(p) => msg[p] \in handled
    BY <1>8 DEF Ack, LoopEnds, broker, Unacked, DeliveryInv, TypeInv, TypeOK
  <2>2. \A s \in Processes : Unacked(s) => msg[s] \in handled \/ (Unacked(s)' /\ msg'[s] = msg[s])
    BY <2>1 DEF Unacked
  <2>3. NothingLostButWithQueue'
    BY <2>1, <2>2 DEF DeliveryInv, NothingLostButWithQueue
  <2> QED BY <2>1, <2>3 DEF DeliveryInv
<1>9. ASSUME NEW p \in Processes, NEW m \in Messages, Deliver(p, m) PROVE DeliveryInv'
  <2>1. /\ attached[p] /\ client[p] = "idle"
        /\ content' = [content EXCEPT ![ConsumerQueue] = content[ConsumerQueue] \ {m}]
        /\ client' = [client EXCEPT ![p] = "delivered"] /\ msg' = [msg EXCEPT ![p] = m]
        /\ UNCHANGED <<attached, accepted, handled>>
    BY <1>9 DEF Deliver
  <2>2. Unacked(p)' /\ msg'[p] = m
    BY <2>1 DEF Unacked, TypeInv, TypeOK
  <2>3. \A s \in Processes : Unacked(s) => Unacked(s)' /\ msg'[s] = msg[s]
    BY <2>1 DEF Unacked, TypeInv, TypeOK
  <2>4. \A q \in Queues : \A n \in content[q] :
          n \in content'[q] \/ (q = ConsumerQueue /\ n = m)
    BY <2>1 DEF TypeInv, TypeOK
  <2>5. NothingLostButWithQueue'
    BY <2>1, <2>2, <2>3, <2>4 DEF DeliveryInv, NothingLostButWithQueue
  <2> QED BY <2>1, <2>5 DEF DeliveryInv, TypeInv, TypeOK
<1>10. ASSUME NEW p \in Processes, NEW m \in Messages, PublishMessage(p, m)
       PROVE  DeliveryInv'
  <2>1. /\ \A q \in Queues : content[q] \subseteq content'[q]
        /\ \A q \in Queues : \A n \in accepted'[q] : n \in accepted[q] \/ n \in content'[q]
    BY <1>10 DEF PublishMessage, TypeInv, TypeOK
  <2>2. UNCHANGED <<attached, client, msg, handled>>
    BY <1>10 DEF PublishMessage, consumer
  <2> QED BY <2>1, <2>2 DEF DeliveryInv, NothingLostButWithQueue, Unacked
<1>11. CASE BrokerRestart
  <2>1. /\ \A q \in Queues : \A m \in accepted'[q] : Durable(q) /\ m \in accepted[q]
        /\ UNCHANGED <<client, msg, handled>>
        /\ \A q \in Queues : Durable(q) =>
             /\ content[q] \subseteq content'[q]
             /\ q = ConsumerQueue =>
                  \A p \in Processes : Unacked(p) => msg[p] \in content'[q]
    BY <1>11 DEF BrokerRestart, TypeInv, TypeOK
  <2>2. NothingLostButWithQueue'
    BY <2>1 DEF DeliveryInv, NothingLostButWithQueue
  <2> QED BY <2>1, <2>2 DEF DeliveryInv
<1> QED
  BY <1>2, <1>3, <1>4, <1>5, <1>6, <1>7, <1>8, <1>9, <1>10, <1>11
     DEF Next, Environment, RPC, Consume, Main, Fatal, Kill, Return, ServeTooLate

\* What a queue was given since it was declared is in it, with a consumer that
\* has not acknowledged it, or logged, wherever handleMessage is interrupted.
THEOREM QueuesAccountForMessages == Spec => []NothingLostButWithQueue
<1>1. Init => DeliveryInv
  BY DEF Init, DeliveryInv, NothingLostButWithQueue
<1>2. TypeInv /\ DeliveryInv /\ [Next]_vars => (TypeInv /\ DeliveryInv)'
  BY TypeStep, DeliveryStep
<1>3. DeliveryInv => NothingLostButWithQueue
  BY DEF DeliveryInv
<1> QED BY <1>1, <1>2, <1>3, TypeInit, PTL DEF Spec
=============================================================================
