--------------------------- MODULE AtomicShipments ---------------------------
(***************************************************************************)
(* What the shipment service promises, without statements, transactions    *)
(* and crashes: a log of writes.  Every call enters the log at most once,   *)
(* in one step, between its arrival and its definite answer; an answer      *)
(* tells the truth about the log.                                           *)
(*                                                                          *)
(* Two things the service does not promise, and the abstract specification  *)
(* shows where: a change is legal from a status the shipment had at some    *)
(* moment since the change arrived, which need not be its latest; and a     *)
(* call answered with an unexpected error may still enter the log later.    *)
(***************************************************************************)
EXTENDS ShipmentRequest, Sequences

CONSTANTS Calls, Requests

VARIABLES
  req,     \* the request of each call
  log,     \* the writes: which call gave which shipment which status
  start,   \* the length of the log when a call arrived
  answer,  \* "unsent" before the call arrives, "none" until it is answered
  view     \* the calls whose status events a GetShipmentHistory call returned

vars == <<req, log, start, answer, view>>

Answered == {"OK", "InvalidArgument", "NotFound", "AlreadyExists",
             "FailedPrecondition", "Internal", "Unavailable"}

\* The caller knows nothing: the server failed, or its process died.
Unknown == {"Internal", "Unavailable"}

Entry(c, s, status) == [call |-> c, shipment |-> s, status |-> status]

InLog(c) == \E i \in DOMAIN log : log[i].call = c

Shipments == {s \in Calls : \E i \in DOMAIN log : log[i] = Entry(s, s, StatusPending)}

Named(ref) == {s \in Shipments : req[s].ref = ref}

\* The statuses s has had since c arrived.
StatusesSince(c, s) ==
  {log[i].status : i \in
     {i \in DOMAIN log : /\ log[i].shipment = s
                         /\ \A j \in i+1..start[c] : log[j].shipment # s}}

(***************************************************************************)
(* Actions                                                                 *)
(***************************************************************************)
Init ==
  /\ req \in [Calls -> Requests]
  /\ log = <<>> /\ start = [c \in Calls |-> 0]
  /\ answer = [c \in Calls |-> "unsent"]
  /\ view = [c \in Calls |-> {}]

\* A call arrives, and is refused at once if it is ill-formed.
Arrive(c) ==
  /\ answer[c] = "unsent"
  /\ answer' = [answer EXCEPT ![c] =
                  IF ValidRequest(req[c]) THEN "none" ELSE "InvalidArgument"]
  /\ start' = [start EXCEPT ![c] = Len(log)]
  /\ UNCHANGED <<req, log, view>>

\* A write takes effect: while its call is open, or after an unknown outcome.
TakesEffect(c) ==
  /\ answer[c] \in {"none"} \cup Unknown /\ ~InLog(c)
  /\ \/ /\ req[c].op = "CreateShipment" /\ NewShipmentAccepts(req[c])
        /\ Named(req[c].ref) = {}
        /\ log' = Append(log, Entry(c, c, StatusPending))
     \/ /\ req[c].op = "AddStatusEvent"
        /\ \E s \in Named(req[c].ref) :
             /\ \E status \in StatusesSince(c, s) : CanTransitionTo(status, req[c].newStatus)
             /\ log' = Append(log, Entry(c, s, req[c].newStatus))

\* The write of c, and possibly its acknowledgement in the same step.
Write(c) ==
  /\ TakesEffect(c)
  /\ answer' \in {answer} \cup
       (IF answer[c] = "none" THEN {[answer EXCEPT ![c] = "OK"]} ELSE {})
  /\ UNCHANGED <<req, start, view>>

\* When each definite answer may be given, and why.
Justified(c, code) ==
  \/ code = "OK" /\ req[c].op \in {"CreateShipment", "AddStatusEvent"} /\ InLog(c)
  \/ code = "OK" /\ req[c].op = "GetShipment" /\ Named(req[c].ref) # {}
  \/ code = "NotFound" /\ req[c].op # "CreateShipment" /\ Named(req[c].ref) = {}
  \/ code = "AlreadyExists" /\ req[c].op = "CreateShipment" /\ ~InLog(c)
     /\ Named(req[c].ref) # {}
  \/ code = "FailedPrecondition" /\ req[c].op = "AddStatusEvent" /\ ~InLog(c)
     /\ \E s \in Named(req[c].ref) : \E status \in StatusesSince(c, s) :
          ~CanTransitionTo(status, req[c].newStatus)

Respond(c) ==
  /\ answer[c] = "none"
  /\ \E code \in Answered : /\ Justified(c, code)
                            /\ answer' = [answer EXCEPT ![c] = code]
  /\ UNCHANGED <<req, log, start, view>>

\* A history has all the changes of the shipment up to now; the entry of the
\* creation may still be missing.
ReadHistory(c) ==
  /\ answer[c] = "none" /\ req[c].op = "GetShipmentHistory"
  /\ \E s \in Named(req[c].ref) : \E initial \in SUBSET {s} :
       view' = [view EXCEPT ![c] = initial \cup
                  {log[i].call : i \in {i \in DOMAIN log : /\ log[i].shipment = s
                                                           /\ log[i].call # s}}]
  /\ answer' = [answer EXCEPT ![c] = "OK"]
  /\ UNCHANGED <<req, log, start>>

\* One call fails, or all that are open do: the process has died.
Break ==
  /\ \E broken \in SUBSET {c \in Calls : answer[c] = "none"}, code \in Unknown :
       answer' = [c \in Calls |-> IF c \in broken THEN code ELSE answer[c]]
  /\ UNCHANGED <<req, log, start, view>>

Next == Break \/ \E c \in Calls : Arrive(c) \/ Write(c) \/ Respond(c) \/ ReadHistory(c)

Spec == Init /\ [][Next]_vars
=============================================================================
