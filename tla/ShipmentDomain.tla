--------------------------- MODULE ShipmentDomain ---------------------------
(***************************************************************************)
(* The shipment life cycle of domain/shipment.go: the statuses, the table  *)
(* of legal transitions and the terminal states.  Constant-level only; the *)
(* service module applies it to the rows of the database.                  *)
(***************************************************************************)
EXTENDS Integers

StatusUnspecified == 0      \* protobuf zero value; no row ever stores it
StatusPending     == 1
StatusPickedUp    == 2
StatusInTransit   == 3
StatusDelivered   == 4
StatusCancelled   == 5
StatusFailed      == 6

ShipmentStatus == StatusPending..StatusFailed

\* The table of CanTransitionTo, as a relation between statuses.
validTransitions ==
  {<<StatusPending,   StatusPickedUp>>,  <<StatusPending,   StatusCancelled>>,
   <<StatusPickedUp,  StatusInTransit>>, <<StatusPickedUp,  StatusCancelled>>,
   <<StatusPickedUp,  StatusFailed>>,
   <<StatusInTransit, StatusDelivered>>, <<StatusInTransit, StatusFailed>>}

\* (mutant) a status may move forward to any later one
AnyLaterStatus(current, new) == new \in ShipmentStatus /\ new > current

CanTransitionTo(current, new) == <<current, new>> \in validTransitions

IsTerminalState(s) == s \in {StatusDelivered, StatusCancelled, StatusFailed}
=============================================================================
