------------------------- MODULE MCShipmentService -------------------------
(***************************************************************************)
(* Instances of ShipmentService for TLC: sets of requests and symmetry.    *)
(***************************************************************************)
EXTENDS ShipmentService, TLC

CONSTANTS c1, c2, c3, c4, r1, r2

Create(r) ==
  [op |-> "CreateShipment", ref |-> r, newStatus |-> 0, blank |-> {},
   shipmentAmount |-> "nonNegative", driverRevenue |-> "nonNegative"]
Without(field)   == [Create(r1) EXCEPT !.blank = {field}]
Priced(amount)   == [Create(r1) EXCEPT !.shipmentAmount = amount]
Get(r)      == [Create(r) EXCEPT !.op = "GetShipment"]
History(r)  == [Create(r) EXCEPT !.op = "GetShipmentHistory"]
Change(r, s) == [Create(r) EXCEPT !.op = "AddStatusEvent", !.newStatus = s]

\* Every kind of request, ill-formed ones included; 7 is a number the enum
\* ShipmentStatus does not define (protobuf clients may send any).
AllRequests ==
  {Create(r1), Create(r2), Without("Unit"), Without("UnitId"), Priced("negative"),
   Priced("notFinite"), Get(r1), History(r1), Change(r1, StatusUnspecified),
   Change(r1, StatusPickedUp), Change(r1, StatusCancelled), Change(r1, 7)}

\* One shipment on its way to delivery, and reads of its history.
LifecycleRequests ==
  {Create(r1), Change(r1, StatusPickedUp), Change(r1, StatusInTransit),
   Change(r1, StatusDelivered), History(r1)}

\* Creates, changes and reads contending for rows, references and connections.
ContendingRequests ==
  {Create(r1), Change(r1, StatusPickedUp), Change(r1, StatusCancelled), History(r1)}

CallSymmetry == Permutations(Calls)
=============================================================================
