--------------------------- MODULE ServiceProcess ---------------------------
(***************************************************************************)
(* main from start to exit, the broker's queues and the debug consumer.    *)
(*                                                                         *)
(* Processes are the pods that run main; two of them overlap in a rolling  *)
(* update.  pc is where main is; its other goroutines are the gRPC server  *)
(* (serve, calls, streams), the outbox worker, here only as the source of  *)
(* messages, and the debug consumer's loop (client, msg).  What a          *)
(* goroutine does after main has moved on is the subject of this module:   *)
(* nothing waits for the worker and the consumer, and Serve itself runs in *)
(* a goroutine.                                                            *)
(***************************************************************************)
EXTENDS BrokerTopology, FiniteSets

CONSTANTS
  Processes,
  Messages,         \* the messages the workers publish
  KeyOf,            \* the routing key of each
  DebugProcesses,   \* those with ENABLE_DEBUG_CONSUMER
  ConsumerQueue,    \* DEBUG_CONSUMER_QUEUE
  MaxCalls,         \* bound on the calls and streams that run at once in a process
  NoMessage

ASSUME ProcessAssumption ==
  /\ DebugProcesses \subseteq Processes /\ ConsumerQueue \in Queues
  /\ KeyOf \in [Messages -> RoutingKeys] /\ NoMessage \notin Messages
  /\ MaxCalls \in Nat

VARIABLES
  pc,         \* main of each process; "down" = no process
  next,       \* the queue SetupTopology is at
  serve,      \* the goroutine that runs grpcServer.Serve
  calls,      \* how many of the service's RPCs run
  streams,    \* how many reflection streams are open
  linked,     \* the publisher's connection is open
  attached,   \* the debug consumer's connection is open
  client,     \* the debug consumer's loop
  msg,        \* the delivery it has
  declared, bound,    \* the queues that exist, and those bound to the exchange
  content,    \* the messages in each queue, ready to be delivered
  accepted,   \* all a queue has been given since it was declared (history variable)
  published,  \* the messages the broker has read
  handled     \* those the debug consumer has logged

process  == <<pc, next, serve, calls, streams, linked>>
consumer == <<attached, client, msg>>
broker   == <<declared, bound, content, accepted>>
vars     == <<process, consumer, broker, published, handled>>

\* Where an error ends in log.Fatalf.
Starting == {"database", "schema", "publisher", "declare", "bind", "listen"}

\* (mutant) the worker is started as soon as its publisher is connected
RunsWithPublisher(p) ==
  pc[p] \in {"declare", "bind", "worker", "consumer", "listen", "waiting",
             "stopServer", "draining", "closeDatabase", "returning"}

\* From the start of the worker goroutine to the end of the process.
WorkerRuns(p) ==
  pc[p] \in {"consumer", "listen", "waiting", "stopServer", "draining",
             "closeDatabase", "returning"}

DatabaseOpen(p) == pc[p] \notin {"down", "database", "returning"}

Queue(p) == QueueOrder[next[p]]

\* SetupTopology has a connection open.
SetupTopologyRuns(p) == pc[p] = "bind" \/ (pc[p] = "declare" /\ next[p] > 1)

(***************************************************************************)
(* The end of connections and processes                                    *)
(***************************************************************************)
\* (mutant) auto-ack: the broker forgets a message once it is delivered
AutoAcked(p) == FALSE

\* The broker holds a delivered message until it is acknowledged.
Unacked(p) == attached[p] /\ client[p] \in {"delivered", "handled"}

\* The broker sees the consumers of gone disappear: what they had not
\* acknowledged goes back to the queue, and a queue that is deleted with its
\* last consumer takes its messages along.
ConsumersGone(gone) ==
  LET leaving == {p \in gone : attached[p]}
      deleted == /\ AutoDelete(ConsumerQueue) /\ leaving # {}
                 /\ \A p \in Processes : attached[p] => p \in leaving
  IN
  /\ attached' = [p \in Processes |-> attached[p] /\ p \notin gone]
  /\ declared' = IF deleted THEN declared \ {ConsumerQueue} ELSE declared
  /\ bound'    = IF deleted THEN bound \ {ConsumerQueue} ELSE bound
  /\ accepted' = IF deleted THEN [accepted EXCEPT ![ConsumerQueue] = {}] ELSE accepted
  /\ content'  = [content EXCEPT ![ConsumerQueue] =
                    IF deleted THEN {} ELSE @ \cup {msg[p] : p \in {p \in leaving : Unacked(p)}}]

\* The operating system closes what the processes had open.
Ends(p) ==
  /\ pc'     = [pc EXCEPT ![p] = "down"]
  /\ next'   = [next EXCEPT ![p] = 1]
  /\ serve'  = [serve EXCEPT ![p] = "none"]
  /\ calls'  = [calls EXCEPT ![p] = 0] /\ streams' = [streams EXCEPT ![p] = 0]
  /\ linked' = [linked EXCEPT ![p] = FALSE]
  /\ client' = [client EXCEPT ![p] = "none"]
  /\ msg'    = [msg EXCEPT ![p] = NoMessage]
  /\ ConsumersGone({p})
  /\ UNCHANGED <<published, handled>>

(***************************************************************************)
(* main: start                                                             *)
(***************************************************************************)
Init ==
  /\ pc = [p \in Processes |-> "down"] /\ next = [p \in Processes |-> 1]
  /\ serve = [p \in Processes |-> "none"]
  /\ calls = [p \in Processes |-> 0] /\ streams = [p \in Processes |-> 0]
  /\ linked = [p \in Processes |-> FALSE] /\ attached = [p \in Processes |-> FALSE]
  /\ client = [p \in Processes |-> "none"] /\ msg = [p \in Processes |-> NoMessage]
  /\ declared = {} /\ bound = {}
  /\ content = [q \in Queues |-> {}] /\ accepted = [q \in Queues |-> {}]
  /\ published = {} /\ handled = {}

MainStep(p, from, to) == pc[p] = from /\ pc' = [pc EXCEPT ![p] = to]

Launch(p) ==
  /\ MainStep(p, "down", "database")
  /\ UNCHANGED <<next, serve, calls, streams, linked, consumer, broker, published, handled>>

ConnectDatabase(p) ==
  /\ MainStep(p, "database", "schema")
  /\ UNCHANGED <<next, serve, calls, streams, linked, consumer, broker, published, handled>>

InitSchema(p) ==
  /\ MainStep(p, "schema", "publisher")
  /\ UNCHANGED <<next, serve, calls, streams, linked, consumer, broker, published, handled>>

ConnectPublisher(p) ==
  /\ MainStep(p, "publisher", "declare")
  /\ linked' = [linked EXCEPT ![p] = TRUE]
  /\ UNCHANGED <<next, serve, calls, streams, consumer, broker, published, handled>>

\* SetupTopology dials a connection of its own before the first; declaring a
\* queue that exists leaves it as it is.
DeclareQueue(p) ==
  /\ MainStep(p, "declare", "bind")
  /\ declared' = declared \cup {Queue(p)}
  /\ UNCHANGED <<next, serve, calls, streams, linked, consumer, bound, content, accepted,
                 published, handled>>

\* (mutant) the loop runs one queue too far
LastQueuePassed(p) == next[p] > Len(QueueOrder)

LastQueue(p) == next[p] = Len(QueueOrder)

\* Binding a queue that has disappeared since is an error (Fatal).
BindQueue(p) ==
  /\ MainStep(p, "bind", IF LastQueue(p) THEN "worker" ELSE "declare")
  /\ Queue(p) \in declared
  /\ bound' = bound \cup {Queue(p)}
  /\ next' = [next EXCEPT ![p] = IF LastQueue(p) THEN 1 ELSE @ + 1]
  /\ UNCHANGED <<serve, calls, streams, linked, consumer, declared, content, accepted,
                 published, handled>>

StartWorker(p) ==
  /\ MainStep(p, "worker", "consumer")
  /\ UNCHANGED <<next, serve, calls, streams, linked, consumer, broker, published, handled>>

StartConsumer(p) ==
  /\ p \in DebugProcesses /\ ConsumerQueue \in declared
  /\ MainStep(p, "consumer", "listen")
  /\ attached' = [attached EXCEPT ![p] = TRUE]
  /\ client' = [client EXCEPT ![p] = "idle"]
  /\ UNCHANGED <<next, serve, calls, streams, linked, msg, broker, published, handled>>

\* The consumer is disabled, its queue is gone or the broker cannot be reached:
\* main only logs a warning.
SkipConsumer(p) ==
  /\ MainStep(p, "consumer", "listen")
  /\ UNCHANGED <<next, serve, calls, streams, linked, consumer, broker, published, handled>>

Listen(p) ==
  /\ MainStep(p, "listen", "waiting")
  /\ serve' = [serve EXCEPT ![p] = "scheduled"]
  /\ UNCHANGED <<next, calls, streams, linked, consumer, broker, published, handled>>

\* log.Fatalf: an error of a step that main cannot do without.
Fatal(p) == pc[p] \in Starting /\ Ends(p)

(***************************************************************************)
(* main: shutdown                                                          *)
(***************************************************************************)
\* SIGTERM, once main waits for it (before that it kills the process): the
\* worker's context is cancelled, which OutboxWorker models, then consumerCancel
\* and DebugConsumer.Stop; the loop may be in handleMessage.  GracefulStop then
\* closes the listener and sends GOAWAY to the clients.
Terminate(p) ==
  /\ MainStep(p, "waiting", "stopServer")
  /\ ConsumersGone({p})
  /\ UNCHANGED <<next, serve, calls, streams, linked, client, msg, published, handled>>

\* Every client has acknowledged it, or gRPC's timer has ended the wait for them.
ClientsGoAway(p) ==
  /\ MainStep(p, "stopServer", "draining")
  /\ UNCHANGED <<next, serve, calls, streams, linked, consumer, broker, published, handled>>

\* (mutant) Stop instead of GracefulStop
StopAtOnce(p) ==
  /\ MainStep(p, "draining", "closeDatabase")
  /\ linked' = [linked EXCEPT ![p] = FALSE]
  /\ UNCHANGED <<next, serve, calls, streams, consumer, broker, published, handled>>

\* GracefulStop waits for every RPC that runs, the reflection streams included.
\* Then main returns: the publisher is closed first, the database last.
EndGracefulStop(p) ==
  /\ MainStep(p, "draining", "closeDatabase")
  /\ calls[p] = 0 /\ streams[p] = 0
  /\ linked' = [linked EXCEPT ![p] = FALSE]
  /\ UNCHANGED <<next, serve, calls, streams, consumer, broker, published, handled>>

CloseDatabase(p) ==
  /\ MainStep(p, "closeDatabase", "returning")
  /\ UNCHANGED <<next, serve, calls, streams, linked, consumer, broker, published, handled>>

Return(p) == pc[p] = "returning" /\ Ends(p)

Kill(p) == pc[p] # "down" /\ Ends(p)

(***************************************************************************)
(* The gRPC server                                                         *)
(***************************************************************************)
\* The goroutine gets to run.
Serve(p) ==
  /\ serve[p] = "scheduled" /\ pc[p] = "waiting"
  /\ serve' = [serve EXCEPT ![p] = "serving"]
  /\ UNCHANGED <<pc, next, calls, streams, linked, consumer, broker, published, handled>>

\* GracefulStop was faster: Serve returns ErrServerStopped and log.Fatalf ends
\* the process without its deferred calls.
ServeTooLate(p) ==
  /\ serve[p] = "scheduled"
  /\ pc[p] \in {"stopServer", "draining", "closeDatabase", "returning"}
  /\ Ends(p)

\* (mutant) calls are accepted until the process ends
AcceptsAlways(p) == serve[p] = "serving"

\* A client may start RPCs on its connection until it has been told to go away.
Accepts(p) == serve[p] = "serving" /\ pc[p] \in {"waiting", "stopServer"}

AcceptCall(p) ==
  /\ Accepts(p) /\ calls[p] + streams[p] < MaxCalls
  /\ calls' = [calls EXCEPT ![p] = @ + 1]
  /\ UNCHANGED <<pc, next, serve, streams, linked, consumer, broker, published, handled>>

EndCall(p) ==
  /\ calls[p] > 0
  /\ calls' = [calls EXCEPT ![p] = @ - 1]
  /\ UNCHANGED <<pc, next, serve, streams, linked, consumer, broker, published, handled>>

\* ServerReflectionInfo, a bidirectional stream: it is open until its client closes it.
OpenStream(p) ==
  /\ Accepts(p) /\ calls[p] + streams[p] < MaxCalls
  /\ streams' = [streams EXCEPT ![p] = @ + 1]
  /\ UNCHANGED <<pc, next, serve, calls, linked, consumer, broker, published, handled>>

CloseStream(p) ==
  /\ streams[p] > 0
  /\ streams' = [streams EXCEPT ![p] = @ - 1]
  /\ UNCHANGED <<pc, next, serve, calls, linked, consumer, broker, published, handled>>

(***************************************************************************)
(* Messages                                                                *)
(***************************************************************************)
\* A worker's message reaches the exchange, which copies it to every queue
\* bound to its key; mandatory is false, so that nobody notices if there is none.
PublishMessage(p, m) ==
  LET targets == {q \in bound : Receives(q, KeyOf[m])} IN
  /\ WorkerRuns(p) /\ linked[p] /\ m \notin published
  /\ published' = published \cup {m}
  /\ content'  = [q \in Queues |-> IF q \in targets THEN content[q] \cup {m} ELSE content[q]]
  /\ accepted' = [q \in Queues |-> IF q \in targets THEN accepted[q] \cup {m} ELSE accepted[q]]
  /\ UNCHANGED <<process, consumer, declared, bound, handled>>

\* Qos(1): the next message comes after the acknowledgement of the last.
Deliver(p, m) ==
  /\ attached[p] /\ client[p] = "idle" /\ m \in content[ConsumerQueue]
  /\ content' = [content EXCEPT ![ConsumerQueue] = @ \ {m}]
  /\ client' = [client EXCEPT ![p] = "delivered"]
  /\ msg' = [msg EXCEPT ![p] = m]
  /\ UNCHANGED <<process, attached, declared, bound, accepted, published, handled>>

\* handleMessage up to its Ack; the loop may still take a delivery when its
\* connection is closed.
HandleMessage(p) ==
  /\ client[p] = "delivered"
  /\ handled' = handled \cup {msg[p]}
  /\ client' = [client EXCEPT ![p] = "handled"]
  /\ UNCHANGED <<process, attached, msg, broker, published>>

\* On a closed connection Ack fails, which is only logged.
Ack(p) ==
  /\ client[p] = "handled"
  /\ client' = [client EXCEPT ![p] = "idle"]
  /\ msg' = [msg EXCEPT ![p] = NoMessage]
  /\ UNCHANGED <<process, attached, broker, published, handled>>

\* The deliveries are closed, or the loop sees stopCh or its context first.
LoopEnds(p) ==
  /\ client[p] \in {"idle", "delivered"} /\ ~attached[p]
  /\ client' = [client EXCEPT ![p] = "none"]
  /\ msg' = [msg EXCEPT ![p] = NoMessage]
  /\ UNCHANGED <<process, attached, broker, published, handled>>

\* The broker restarts: durable queues and their (persistent) messages are back,
\* everything else is gone, and so are the connections.  Nothing in the program
\* dials again; SetupTopology fails if it is at work.
BrokerRestart ==
  LET lost == {q \in Queues : ~Durable(q)} IN
  /\ linked'   = [p \in Processes |-> FALSE]
  /\ attached' = [p \in Processes |-> FALSE]
  /\ pc' = [p \in Processes |-> IF SetupTopologyRuns(p) THEN "down" ELSE pc[p]]
  /\ next' = [p \in Processes |-> 1]
  /\ declared' = declared \ lost /\ bound' = bound \ lost
  /\ accepted' = [q \in Queues |-> IF q \in lost THEN {} ELSE accepted[q]]
  /\ content' = [q \in Queues |->
       IF q \in lost THEN {}
       ELSE IF q = ConsumerQueue
         THEN content[q] \cup {msg[p] : p \in {p \in Processes : Unacked(p)}}
         ELSE content[q]]
  /\ UNCHANGED <<serve, calls, streams, client, msg, published, handled>>

Main(p) ==
  \/ ConnectDatabase(p) \/ InitSchema(p) \/ ConnectPublisher(p)
  \/ DeclareQueue(p) \/ BindQueue(p) \/ StartWorker(p) \/ StartConsumer(p)
  \/ SkipConsumer(p) \/ Listen(p) \/ ClientsGoAway(p)
  \/ EndGracefulStop(p) \/ CloseDatabase(p) \/ Return(p)

Environment(p) ==
  \/ Launch(p) \/ Fatal(p) \/ Terminate(p) \/ Kill(p)
  \/ AcceptCall(p) \/ OpenStream(p) \/ CloseStream(p)

Consume(p) == HandleMessage(p) \/ Ack(p) \/ LoopEnds(p) \/ \E m \in Messages : Deliver(p, m)

Next ==
  \/ BrokerRestart
  \/ \E p \in Processes :
       \/ Main(p) \/ Environment(p) \/ Serve(p) \/ ServeTooLate(p) \/ EndCall(p)
       \/ Consume(p) \/ \E m \in Messages : PublishMessage(p, m)

Spec == Init /\ [][Next]_vars

\* main runs and the service's calls end (ShipmentService!EveryCallAnswered).  No
\* signal, failure or call is assumed to come, nothing of the consumer, and no
\* client to close a stream.
FairSpec == Spec /\ \A p \in Processes : WF_vars(Main(p)) /\ WF_vars(EndCall(p))

-----------------------------------------------------------------------------
(***************************************************************************)
(* Properties                                                              *)
(***************************************************************************)
Labels == Starting \cup {"down", "worker", "consumer", "waiting", "stopServer",
                         "draining", "closeDatabase", "returning"}

\* Every variable has its type; a bound queue exists, and only queues that exist
\* have messages.
TypeOK ==
  /\ pc \in [Processes -> Labels] /\ next \in [Processes -> 1..Len(QueueOrder)]
  /\ serve \in [Processes -> {"none", "scheduled", "serving"}]
  /\ calls \in [Processes -> Nat] /\ streams \in [Processes -> Nat]
  /\ linked \in [Processes -> BOOLEAN] /\ attached \in [Processes -> BOOLEAN]
  /\ client \in [Processes -> {"none", "idle", "delivered", "handled"}]
  /\ msg \in [Processes -> Messages \cup {NoMessage}]
  /\ declared \subseteq Queues /\ bound \subseteq declared
  /\ content \in [Queues -> SUBSET Messages] /\ accepted \in [Queues -> SUBSET Messages]
  /\ \A q \in Queues \ declared : content[q] = {} /\ accepted[q] = {}
  /\ published \subseteq Messages /\ handled \subseteq Messages

\* Every message the broker was given is in every durable queue for its key, and
\* there are such queues: no order of starts, stops and broker restarts lets a
\* worker publish before the topology is complete, or loses what was routed.
\* (PublishWithContext with mandatory = false.)
RoutedToDurableQueues ==
  \A m \in published :
    /\ \E q \in Queues : Durable(q) /\ m \in accepted[q]
    /\ \A q \in Queues : Durable(q) /\ Receives(q, KeyOf[m]) => m \in accepted[q]

\* A queue never loses a message but by its own deletion: what it was given is
\* in it, delivered and not acknowledged, or logged by the consumer, whatever
\* consumers stop in the middle of handleMessage.
NothingLostButWithQueue ==
  \A q \in Queues : \A m \in accepted[q] :
    \/ m \in content[q]
    \/ q = ConsumerQueue /\ (m \in handled \/ \E p \in Processes : Unacked(p) /\ msg[p] = m)

\* The database is closed only when no call is running in the process.
RunningCallsHaveDatabase == \A p \in Processes : calls[p] > 0 => DatabaseOpen(p)

\* A process that was told to stop ends, unless a client keeps a reflection
\* stream open for ever: nothing else main waits for can last, however many calls
\* arrive before the clients have gone away (GracefulStop has no time limit).
ShutdownEnds ==
  \A p \in Processes :
    []<>(streams[p] = 0) => (pc[p] = "stopServer" ~> pc[p] = "down")
=============================================================================
