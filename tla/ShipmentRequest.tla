--------------------------- MODULE ShipmentRequest ---------------------------
(***************************************************************************)
(* Requests and the two layers that validate them: the gRPC handler, before *)
(* it dereferences the nested messages, and the entity's constructor        *)
(* NewShipment.  Constant-level only.                                       *)
(*                                                                          *)
(* A request is abstracted to what the validators distinguish: the fields   *)
(* that are blank (an empty string, a nested message that is absent), the   *)
(* status number, and the sign of the amounts.                              *)
(***************************************************************************)
EXTENDS ShipmentDomain

CONSTANT Refs   \* reference numbers

Ops == {"CreateShipment", "GetShipment", "AddStatusEvent", "GetShipmentHistory"}

\* Fields of the request messages some validator asks for.
Fields == {"ReferenceNumber", "Origin", "Destination", "Driver", "DriverId",
           "Unit", "UnitId", "RecordedBy"}

\* A float64 as `x < 0` and json.Marshal see it: NaN and +Inf are "notFinite".
Amounts == {"nonNegative", "negative", "notFinite"}

Request == [op : Ops, ref : Refs, newStatus : Int, blank : SUBSET Fields,
            shipmentAmount : Amounts, driverRevenue : Amounts]

\* The id of a nested message that is absent is blank, too.
DriverIdBlank(r) == r.blank \cap {"Driver", "DriverId"} # {}
UnitIdBlank(r)   == r.blank \cap {"Unit", "UnitId"} # {}

(***************************************************************************)
(* The handler                                                             *)
(***************************************************************************)
\* (mutant) the id inside the nested message is not asked for
CreateValidUnlessUnitAbsent(r) ==
  /\ r.blank \cap {"ReferenceNumber", "Origin", "Destination", "Driver",
                   "DriverId", "Unit"} = {}
  /\ r.shipmentAmount # "negative" /\ r.driverRevenue # "negative"

validateCreateShipmentRequest(r) ==
  /\ r.blank \cap {"ReferenceNumber", "Origin", "Destination", "Driver",
                   "DriverId", "Unit", "UnitId"} = {}
  /\ r.shipmentAmount # "negative" /\ r.driverRevenue # "negative"

validateAddStatusEventRequest(r) ==
  /\ r.blank \cap {"ReferenceNumber", "RecordedBy"} = {}
  /\ r.newStatus # StatusUnspecified

\* GetShipment and GetShipmentHistory ask for the reference number only.
ValidRequest(r) ==
  CASE r.op = "CreateShipment" -> validateCreateShipmentRequest(r)
    [] r.op = "AddStatusEvent" -> validateAddStatusEventRequest(r)
    [] OTHER                   -> "ReferenceNumber" \notin r.blank

(***************************************************************************)
(* The entity and its event                                                *)
(***************************************************************************)
NewShipmentAccepts(r) ==
  /\ r.blank \cap {"ReferenceNumber", "Origin", "Destination"} = {}
  /\ r.shipmentAmount # "negative" /\ r.driverRevenue # "negative"
  /\ ~DriverIdBlank(r) /\ ~UnitIdBlank(r)

\* encoding/json has no representation of NaN and of the infinities.
Marshalable(r) == "notFinite" \notin {r.shipmentAmount, r.driverRevenue}
=============================================================================
