--------------------------- MODULE BrokerTopology ---------------------------
(***************************************************************************)
(* The queues of DefaultShipmentTopology and how RabbitMQ routes the        *)
(* messages of the outbox to them.  Constant-level only.  A routing key is   *)
(* the sequence of its words; all wildcards of the topology end their key.  *)
(***************************************************************************)
EXTENDS Naturals, Sequences

\* The queues in the order SetupTopology declares them.
QueueOrder == <<"shipment-events-all", "shipment-created-queue",
                "shipment-status-changed-queue", "shipment-debug">>

Queues == {"shipment-events-all", "shipment-created-queue",
           "shipment-status-changed-queue", "shipment-debug"}

\* The routing keys of the outbox events.
Created       == <<"shipment", "created">>
StatusChanged == <<"shipment", "status_changed">>
RoutingKeys   == {Created, StatusChanged}

QueueConfig(durable, autoDelete, routingKey) ==
  [durable |-> durable, autoDelete |-> autoDelete, routingKey |-> routingKey]

\* Every queue of the code has one routing key.
DefaultShipmentTopology ==
  [q \in Queues |->
     CASE q = "shipment-events-all"    -> QueueConfig(TRUE, FALSE, <<"shipment", "#">>)
       [] q = "shipment-created-queue" -> QueueConfig(TRUE, FALSE, Created)
       [] q = "shipment-status-changed-queue" -> QueueConfig(TRUE, FALSE, StatusChanged)
       [] q = "shipment-debug"         -> QueueConfig(FALSE, TRUE, <<"#">>)]

Durable(q)    == DefaultShipmentTopology[q].durable
AutoDelete(q) == DefaultShipmentTopology[q].autoDelete

\* A topic exchange compares word by word; "#" stands for any number of words.
Matches(pattern, key) ==
  \/ pattern = key
  \/ /\ pattern[Len(pattern)] = "#"
     /\ Len(key) >= Len(pattern) - 1
     /\ \A i \in 1..Len(pattern) - 1 : key[i] = pattern[i]

Receives(q, key) == Matches(DefaultShipmentTopology[q].routingKey, key)
=============================================================================
