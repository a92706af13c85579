-------------------------- MODULE MCShipmentSystem --------------------------
(***************************************************************************)
(* Instances of ShipmentSystem for TLC.                                    *)
(***************************************************************************)
EXTENDS ShipmentSystem, TLC

CONSTANTS c1, c2, c3, r1

Create == [op |-> "CreateShipment", ref |-> r1, newStatus |-> 0, blank |-> {},
           shipmentAmount |-> "nonNegative", driverRevenue |-> "nonNegative"]
PickUp == [Create EXCEPT !.op = "AddStatusEvent", !.newStatus = StatusPickedUp]

\* One reference, created and picked up, perhaps twice.
WriteRequests == {Create, PickUp}
=============================================================================
