----------------------- MODULE AtomicShipmentsProofs -----------------------
(***************************************************************************)
(* ShipmentService implements AtomicShipments: every step of a call, of the *)
(* database or of a crash is a step of the abstract service or invisible.   *)
(***************************************************************************)
EXTENDS ServiceHistoryProofs, SequenceTheorems

\* What the refinement mapping substitutes for log, answer and view.
log    == LogOf(outbox)
answer == [c \in Calls |-> IF pc[c] = "idle" THEN "unsent" ELSE reply[c]]
shown  == [c \in Calls |-> {e.id : e \in view[c]}]

-----------------------------------------------------------------------------
(***************************************************************************)
(* What a call has established by the time it writes or reads events.       *)
(***************************************************************************)
Accepted == {"beginTx", "insertShipment", "insertOutbox", "commit", "inDoubt"}

CallInv ==
  \A c \in Calls :
    /\ Creates(c) /\ pc[c] \in Accepted => NewShipmentAccepts(req[c])
    /\ pc[c] = "lookup" => ~Creates(c)
    /\ pc[c] = "readEvents" => Reads(c) /\ found[c] \in Calls
    /\ found[c] \in Calls => req[found[c]].ref = req[c].ref

LEMMA CallInit == Init => CallInv
BY NoShipmentAssumption DEF Init, CallInv, Accepted

LEMMA CallInvStep == TypeInv /\ CallInv /\ [Next]_vars => CallInv'
<1> SUFFICES ASSUME TypeInv, CallInv, [Next]_vars PROVE CallInv'
  OBVIOUS
<1> USE DEF Goto, Answer, CallInv, Accepted, Creates, Changes, Reads
<1>0. req' = req
  BY StoreStep
<1>1. CASE UNCHANGED vars
  BY <1>1 DEF vars
<1>2. CASE Crash
  BY <1>0, <1>2, CrashMoves DEF TypeInv
<1>3. ASSUME NEW c \in Calls, Receive(c) \/ Build(c) PROVE CallInv'
  BY <1>0, <1>3 DEF Receive, Build, TypeInv, TypeOK
<1>4. ASSUME NEW c \in Calls, LookupFinds(c) PROVE CallInv'
  BY <1>0, <1>4 DEF LookupFinds, Proceed, GetByReferenceNumber, TypeInv, TypeOK
<1>5. ASSUME NEW c \in Calls, StampChange(c) PROVE CallInv'
  BY <1>0, <1>5 DEF StampChange, TypeInv, TypeOK, PathOK, ChangeLabels
<1>6. ASSUME NEW c \in Calls, BeginTx(c) \/ InsertShipment(c) \/ UpdateShipment(c)
      PROVE  CallInv'
  BY <1>0, <1>6 DEF BeginTx, InsertShipment, UpdateShipment, TypeInv, TypeOK
<1>7. ASSUME NEW c \in Calls,
             InsertStatusEvent(c) \/ InsertOutboxEvent(c) \/ Commit(c) \/ CommitLost(c)
      PROVE  CallInv'
  <2>1. CASE InsertStatusEvent(c) \/ InsertOutboxEvent(c)
    BY <1>0, <2>1 DEF InsertStatusEvent, InsertOutboxEvent, TypeInv, TypeOK, PathOK,
                      ChangeLabels
  <2>2. CASE Commit(c) \/ CommitLost(c)
    BY <1>0, <2>2 DEF Commit, CommitLost, TypeInv, TypeOK
  <2> QED BY <1>7, <2>1, <2>2
<1>8. ASSUME NEW c \in Calls,
             \/ Resolve(c) \/ LookupMisses(c) \/ GetStatusEvents(c) \/ Fail(c)
             \/ StampInitial(c) \/ RecordInitial(c) \/ ResolveInitial(c)
      PROVE  CallInv'
  BY <1>0, <1>8 DEF Resolve, LookupMisses, GetStatusEvents, Fail, StampInitial,
                    RecordInitial, ResolveInitial, TypeInv, TypeOK
<1> HIDE DEF Goto, Answer, CallInv, Accepted, Creates, Changes, Reads
<1> QED
  BY <1>1, <1>2, <1>3, <1>4, <1>5, <1>6, <1>7, <1>8 DEF Next, Step, Progress, Quiescent

RefinementInv == ServiceInv /\ CallInv

LEMMA RefinementInvStep == RefinementInv /\ [Next]_vars => RefinementInv'
BY ServiceInvStep, CallInvStep DEF RefinementInv, ServiceInv

-----------------------------------------------------------------------------
(***************************************************************************)
(* The abstract terms read in the concrete state.                           *)
(***************************************************************************)
LEMMA SameRules ==
  /\ \A r : Atomic!ValidRequest(r) <=> ValidRequest(r)
  /\ \A r : Atomic!NewShipmentAccepts(r) <=> NewShipmentAccepts(r)
  /\ \A s, t : Atomic!CanTransitionTo(s, t) <=> CanTransitionTo(s, t)
  /\ Atomic!StatusPending = StatusPending
<1>1. \A r : Atomic!ValidRequest(r) <=> ValidRequest(r)
  BY DEF Atomic!ValidRequest, ValidRequest, Atomic!validateCreateShipmentRequest,
         validateCreateShipmentRequest, Atomic!validateAddStatusEventRequest,
         validateAddStatusEventRequest, Atomic!StatusUnspecified, StatusUnspecified
<1>2. \A r : Atomic!NewShipmentAccepts(r) <=> NewShipmentAccepts(r)
  BY DEF Atomic!NewShipmentAccepts, NewShipmentAccepts, Atomic!DriverIdBlank,
         DriverIdBlank, Atomic!UnitIdBlank, UnitIdBlank
<1>3. \A s, t : Atomic!CanTransitionTo(s, t) <=> CanTransitionTo(s, t)
  <2> USE DEF Atomic!StatusPending, StatusPending, Atomic!StatusPickedUp, StatusPickedUp,
              Atomic!StatusInTransit, StatusInTransit, Atomic!StatusDelivered, StatusDelivered,
              Atomic!StatusCancelled, StatusCancelled, Atomic!StatusFailed, StatusFailed
  <2> QED BY DEF Atomic!CanTransitionTo, CanTransitionTo, Atomic!validTransitions,
                 validTransitions
<1>4. Atomic!StatusPending = StatusPending
  BY DEF Atomic!StatusPending, StatusPending
<1> QED BY <1>1, <1>2, <1>3, <1>4

LEMMA LogFacts ==
  ASSUME ServiceInv
  PROVE  /\ DOMAIN log = Events /\ Events = 1..Len(outbox) /\ Len(log) = Len(outbox)
         /\ \A i \in Events : /\ log[i].call = outbox[i].id
                              /\ log[i].shipment = outbox[i].aggregate
                              /\ log[i].status = outbox[i].newStatus
                              /\ log[i] = [call |-> outbox[i].id,
                                           shipment |-> outbox[i].aggregate,
                                           status |-> outbox[i].newStatus]
<1>1. outbox \in Seq(OutboxEvent)
  BY DEF ServiceInv, TypeInv, TypeOK
<1>2. Len(outbox) \in Nat /\ Events = 1..Len(outbox)
  BY <1>1 DEF Events
<1>3. DOMAIN log = Events
  BY DEF log, LogOf, Events
<1>4. Len(log) = Len(outbox)
  BY <1>2, <1>3
<1> QED BY <1>2, <1>3, <1>4 DEF log, LogOf, Events

LEMMA InLogFact == ASSUME ServiceInv, NEW c PROVE Atomic!InLog(c) <=> Committed(c)
<1>1. Atomic!InLog(c) <=> \E i \in DOMAIN log : log[i].call = c
  BY DEF Atomic!InLog, log
<1> QED BY <1>1, LogFacts DEF Committed

LEMMA NamedFact ==
  ASSUME ServiceInv, NEW ref
  PROVE  Atomic!Named(ref) = GetByReferenceNumber(ref)
<1>1. ASSUME NEW s \in Calls
      PROVE  s \in Atomic!Shipments <=> currentStatus[s] # StatusUnspecified
  <2>1. s \in Atomic!Shipments <=>
          \E i \in DOMAIN log : log[i] = [call |-> s, shipment |-> s, status |-> StatusPending]
    BY SameRules DEF Atomic!Shipments, Atomic!Entry, log
  <2>2. s \in Atomic!Shipments <=>
          \E i \in Events : /\ outbox[i].id = s /\ outbox[i].aggregate = s
                            /\ outbox[i].newStatus = StatusPending
    BY <2>1, LogFacts
  <2>3. currentStatus[s] # StatusUnspecified <=>
          \E i \in Events : outbox[i].id = s /\ outbox[i].aggregate = s
    BY DEF ServiceInv, StoredInv, StoredWithEvent
  <2>4. currentStatus[s] # StatusUnspecified => Creates(s)
    BY DEF ServiceInv, StoredInv, RowsCreated
  <2> QED BY <2>2, <2>3, <2>4 DEF ServiceInv, StoredInv, CreatedAsPending
<1>2. Atomic!Shipments \subseteq Calls
  BY DEF Atomic!Shipments
<1> QED BY <1>1, <1>2 DEF Atomic!Named, GetByReferenceNumber

LEMMA StatusesFact ==
  ASSUME ServiceInv, NEW c \in Calls, NEW s, NEW st, InForce(outbox, s, st, arrived[c])
  PROVE  st \in Atomic!StatusesSince(c, s)
<1>0. arrived[c] \in Nat /\ arrived[c] <= Len(outbox)
  BY DEF ServiceInv, ArrivalInv, TypeInv, TypeOK
<1>1. PICK j \in Events : /\ outbox[j].aggregate = s /\ outbox[j].newStatus = st
                          /\ \A k \in Events : j < k /\ k <= arrived[c]
                               => outbox[k].aggregate # s
  BY DEF InForce, Events
<1>2. j \in DOMAIN log /\ log[j].shipment = s /\ log[j].status = st
  BY <1>1, LogFacts
<1>3. ASSUME NEW k \in j+1..arrived[c] PROVE log[k].shipment # s
  BY <1>0, <1>1, LogFacts
<1> QED BY <1>2, <1>3 DEF Atomic!StatusesSince, log

-----------------------------------------------------------------------------
(***************************************************************************)
(* How the statements of a call look from outside.                          *)
(***************************************************************************)
Ended == {"idle", "inDoubt", "initialInDoubt", "done"}

Answered == {"OK", "InvalidArgument", "NotFound", "AlreadyExists",
             "FailedPrecondition", "Internal", "Unavailable"}

LEMMA OpenCall ==
  ASSUME RefinementInv, NEW c \in Calls, pc[c] \notin Ended
  PROVE  pc[c] # "idle" /\ reply[c] = "none" /\ answer[c] = "none"
BY DEF RefinementInv, ServiceInv, AnswerInv, AnswerFits, answer, Ended

LEMMA GotoKeepsAnswer ==
  ASSUME RefinementInv, NEW c \in Calls, pc[c] # "idle", NEW l, l # "idle", Goto(c, l)
  PROVE  answer' = answer
BY DEF RefinementInv, ServiceInv, TypeInv, TypeOK, Goto, answer

LEMMA AnswerIsGiven ==
  ASSUME RefinementInv, NEW c \in Calls, pc[c] # "idle", NEW code, NEW l, l # "idle",
         pc' = [pc EXCEPT ![c] = l], reply' = [reply EXCEPT ![c] = code]
  PROVE  answer' = [answer EXCEPT ![c] = code]
BY DEF RefinementInv, ServiceInv, TypeInv, TypeOK, answer

LEMMA Invisible ==
  ASSUME UNCHANGED <<req, outbox, arrived, view>>, answer' = answer
  PROVE  UNCHANGED Atomic!vars
BY DEF Atomic!vars, answer, LogOf

LEMMA InvisibleGoto ==
  ASSUME RefinementInv, NEW c \in Calls, pc[c] # "idle", NEW l, l # "idle", Goto(c, l),
         UNCHANGED <<req, outbox, arrived, view>>
  PROVE  UNCHANGED Atomic!vars
BY GotoKeepsAnswer, Invisible

LEMMA RespondAtStep ==
  ASSUME RefinementInv, NEW c \in Calls, pc[c] \notin Ended,
         NEW code \in Answered, Atomic!Justified(c, code), NEW l, l # "idle",
         pc' = [pc EXCEPT ![c] = l], reply' = [reply EXCEPT ![c] = code],
         UNCHANGED <<req, outbox, arrived, view>>
  PROVE  Atomic!Next
<1>1. answer[c] = "none" /\ answer' = [answer EXCEPT ![c] = code]
  BY OpenCall, AnswerIsGiven
<1>2. Atomic!Respond(c)
  BY <1>1 DEF Atomic!Respond, Atomic!Answered, Answered, answer, LogOf
<1> QED BY <1>2 DEF Atomic!Next

LEMMA RespondStep ==
  ASSUME RefinementInv, NEW c \in Calls, pc[c] \notin Ended,
         NEW code \in Answered, Answer(c, code), Atomic!Justified(c, code),
         UNCHANGED <<req, outbox, arrived, view>>
  PROVE  Atomic!Next
BY RespondAtStep DEF Answer

LEMMA BreakStep ==
  ASSUME RefinementInv, NEW c \in Calls, pc[c] \notin Ended, NEW l, l # "idle",
         pc' = [pc EXCEPT ![c] = l], reply' = [reply EXCEPT ![c] = "Internal"],
         UNCHANGED <<req, outbox, arrived, view>>
  PROVE  Atomic!Next
<1>1. answer[c] = "none" /\ answer' = [answer EXCEPT ![c] = "Internal"]
  BY OpenCall, AnswerIsGiven
<1>2. {c} \in SUBSET {d \in Calls : answer[d] = "none"}
  BY <1>1
<1>3. answer' = [d \in Calls |-> IF d \in {c} THEN "Internal" ELSE answer[d]]
  BY <1>1 DEF answer
<1>4. Atomic!Break
  BY <1>2, <1>3 DEF Atomic!Break, Atomic!Unknown, answer, LogOf
<1> QED BY <1>4 DEF Atomic!Next

(***************************************************************************)
(* The writes                                                               *)
(***************************************************************************)
LEMMA LogAppends ==
  ASSUME RefinementInv, NEW c \in Calls, pc[c] \in {"commit", "inDoubt"}, Apply(c)
  PROVE  log' = Append(log, [call |-> c, shipment |-> NewEvent(c).aggregate,
                             status |-> NewEvent(c).newStatus])
<1> DEFINE m == Len(outbox)
           new == NewEvent(c)
           Entries == [call : Calls, shipment : Calls, status : ShipmentStatus]
           entry == [call |-> c, shipment |-> new.aggregate, status |-> new.newStatus]
<1>1. /\ new \in OutboxEvent /\ Events' = 1..m+1 /\ Events = 1..m /\ m \in Nat
      /\ \A i \in 1..m : outbox'[i] = outbox[i]
      /\ outbox'[m+1] = new /\ new.id = c
  BY ApplyAppends DEF RefinementInv, ServiceInv, NewEvent, CreatedEvent, ChangedEvent,
                      NewOutboxEvent
<1>2. entry \in Entries
  BY <1>1 DEF OutboxEvent
<1>3. ASSUME NEW i \in 1..m PROVE log[i] \in Entries
  <2>1. outbox \in Seq(OutboxEvent) /\ i \in 1..Len(outbox)
    BY <1>1 DEF RefinementInv, ServiceInv, TypeInv, TypeOK
  <2>2. outbox[i] \in OutboxEvent
    BY <2>1
  <2> QED BY <1>1, <2>2, LogFacts DEF OutboxEvent, RefinementInv
<1>4. /\ DOMAIN log = 1..m /\ DOMAIN log' = 1..m+1
      /\ \A i \in 1..m : log'[i] = log[i]
      /\ log'[m+1] = entry
  BY <1>1 DEF log, LogOf, Events
<1>5. log = [i \in 1..m |-> log[i]] /\ log' = [i \in 1..m+1 |-> log'[i]]
  BY <1>4 DEF log, LogOf
<1> HIDE DEF m, new, entry, Entries
<1>6. log \in Seq(Entries) /\ log' \in Seq(Entries) /\ Len(log) = m /\ Len(log') = m + 1
  BY <1>1, <1>2, <1>3, <1>4, <1>5
<1>7. /\ Append(log, entry) \in Seq(Entries) /\ Len(Append(log, entry)) = m + 1
      /\ \A i \in 1..m : Append(log, entry)[i] = log[i]
      /\ Append(log, entry)[m+1] = entry
  BY <1>2, <1>6, AppendProperties
<1>8. \A i \in 1..m+1 : log'[i] = Append(log, entry)[i]
  BY <1>1, <1>4, <1>7
<1>9. log' = Append(log, entry)
  BY <1>6, <1>7, <1>8, SeqEqual
<1> QED BY <1>9 DEF entry, new

\* A row that a call has found is the shipment its request names.
LEMMA FoundIsNamed ==
  ASSUME RefinementInv, NEW c \in Calls, found[c] \in Calls
  PROVE  found[c] \in Atomic!Named(req[c].ref)
<1>1. currentStatus[found[c]] # StatusUnspecified /\ req[found[c]].ref = req[c].ref
  BY DEF RefinementInv, CallInv, ServiceInv, UniqueInv, FoundHasRow
<1> QED BY <1>1, NamedFact DEF GetByReferenceNumber, RefinementInv

LEMMA WriteTakesEffect ==
  ASSUME RefinementInv, NEW c \in Calls, pc[c] \in {"commit", "inDoubt"}, Apply(c)
  PROVE  Atomic!TakesEffect(c)
<1>1. answer[c] \in {"none", "Internal", "Unavailable"} /\ ~Committed(c)
  BY DEF RefinementInv, ServiceInv, AnswerInv, AnswerFits, answer
<1>2. answer[c] \in {"none"} \cup Atomic!Unknown /\ ~Atomic!InLog(c)
  BY <1>1, InLogFact DEF Atomic!Unknown, RefinementInv
<1>3. CASE Creates(c)
  <2>1. NewShipmentAccepts(req[c]) /\ GetByReferenceNumber(req[c].ref) = {}
    BY <1>3 DEF RefinementInv, CallInv, Accepted, ServiceInv, UniqueInv, ReservedOnce, HoldsRow
  <2>2. Atomic!NewShipmentAccepts(req[c]) /\ Atomic!Named(req[c].ref) = {}
    BY <2>1, SameRules, NamedFact DEF RefinementInv
  <2>3. log' = Append(log, Atomic!Entry(c, c, Atomic!StatusPending))
    BY <1>3, LogAppends, SameRules DEF NewEvent, CreatedEvent, NewOutboxEvent, Atomic!Entry
  <2> QED BY <1>2, <1>3, <2>2, <2>3 DEF Atomic!TakesEffect, Creates, answer, log
<1>4. CASE ~Creates(c)
  <2>1. /\ Changes(c) /\ found[c] \in Calls
        /\ CanTransitionTo(seen[c], req[c].newStatus)
    BY <1>4 DEF RefinementInv, ServiceInv, TypeInv, PathOK, WriteLabels
  <2>2. seen[c] \in Atomic!StatusesSince(c, found[c])
    BY <2>1, StatusesFact DEF RefinementInv, ServiceInv, ArrivalInv, PastLookup, WriteLabels
  <2>3. /\ found[c] \in Atomic!Named(req[c].ref)
        /\ \E status \in Atomic!StatusesSince(c, found[c]) :
             Atomic!CanTransitionTo(status, req[c].newStatus)
    BY <2>1, <2>2, FoundIsNamed, SameRules
  <2>4. log' = Append(log, Atomic!Entry(c, found[c], req[c].newStatus))
    BY <1>4, LogAppends DEF NewEvent, ChangedEvent, NewOutboxEvent, Atomic!Entry
  <2> QED BY <1>2, <2>1, <2>3, <2>4 DEF Atomic!TakesEffect, Changes, answer, log
<1> QED BY <1>3, <1>4

LEMMA WriteStep ==
  ASSUME RefinementInv, NEW c \in Calls, pc[c] \in {"commit", "inDoubt"}, Apply(c),
         UNCHANGED <<req, arrived, view>>,
         answer' = answer \/ (answer[c] = "none" /\ answer' = [answer EXCEPT ![c] = "OK"])
  PROVE  Atomic!Next
<1>1. answer' \in {answer} \cup
        (IF answer[c] = "none" THEN {[answer EXCEPT ![c] = "OK"]} ELSE {})
  OBVIOUS
<1>2. Atomic!Write(c)
  BY <1>1, WriteTakesEffect DEF Atomic!Write, answer
<1> QED BY <1>2 DEF Atomic!Next

(***************************************************************************)
(* The reads                                                                *)
(***************************************************************************)
LEMMA LookupMissesStep ==
  ASSUME RefinementInv, NEW c \in Calls, LookupMisses(c) PROVE Atomic!Next
<1>1. /\ pc[c] \notin Ended /\ Answer(c, "NotFound") /\ ~Creates(c)
      /\ UNCHANGED <<req, outbox, arrived, view>>
      /\ GetByReferenceNumber(req[c].ref) = {}
  BY DEF LookupMisses, store, Ended, RefinementInv, CallInv
<1>2. Atomic!Justified(c, "NotFound")
  BY <1>1, NamedFact DEF Atomic!Justified, Creates, RefinementInv
<1> QED BY <1>1, <1>2, RespondStep DEF Answered

LEMMA LookupFindsStep ==
  ASSUME RefinementInv, NEW c \in Calls, LookupFinds(c)
  PROVE  Atomic!Next \/ UNCHANGED Atomic!vars
<1>1. PICK s \in Calls : /\ currentStatus[s] # StatusUnspecified /\ req[s].ref = req[c].ref
                         /\ Proceed(c, currentStatus[s])
  BY DEF LookupFinds, GetByReferenceNumber
<1>2. /\ pc[c] \notin Ended /\ pc[c] # "idle" /\ UNCHANGED <<req, outbox, arrived, view>>
  BY DEF LookupFinds, store, Ended
<1>3. s \in Atomic!Named(req[c].ref)
  BY <1>1, NamedFact DEF GetByReferenceNumber, RefinementInv
<1>4. CASE req[c].op = "GetShipment" /\ Answer(c, "OK")
  <2>1. Atomic!Justified(c, "OK")
    BY <1>3, <1>4 DEF Atomic!Justified
  <2> QED BY <1>2, <1>4, <2>1, RespondStep DEF Answered
<1>5. CASE Changes(c) /\ ~CanTransitionTo(currentStatus[s], req[c].newStatus)
           /\ Answer(c, "FailedPrecondition")
  <2>1. ~Atomic!InLog(c)
    BY InLogFact DEF LookupFinds, RefinementInv, ServiceInv, AnswerInv, AnswerFits
  <2>2. InForce(outbox, s, currentStatus[s], arrived[c])
    <3>1. /\ Len(outbox) \in Nat /\ DOMAIN outbox = 1..Len(outbox)
          /\ arrived[c] \in Nat /\ arrived[c] <= Len(outbox)
      BY DEF RefinementInv, ServiceInv, ArrivalInv, TypeInv, TypeOK
    <3> QED BY <1>1, <3>1, InForceEarlier DEF RefinementInv, ServiceInv, ArrivalInv
  <2>3. currentStatus[s] \in Atomic!StatusesSince(c, s)
    BY <2>2, StatusesFact DEF RefinementInv
  <2>4. Atomic!Justified(c, "FailedPrecondition")
    BY <1>3, <1>5, <2>1, <2>3, SameRules DEF Atomic!Justified, Changes
  <2> QED BY <1>2, <1>5, <2>4, RespondStep DEF Answered
<1>6. CASE Goto(c, "readEvents") \/ Goto(c, "stampChange")
  BY <1>2, <1>6, InvisibleGoto
<1> QED BY <1>1, <1>4, <1>5, <1>6 DEF Proceed

\* The status events of s are those of its committed changes, perhaps with the
\* one of its creation.
LEMMA HistoryIsLog ==
  ASSUME RefinementInv, NEW s \in Calls
  PROVE  \E initial \in SUBSET {s} :
           {e.id : e \in {e \in history : e.shipment = s}} =
             initial \cup {log[i].call : i \in {i \in DOMAIN log : /\ log[i].shipment = s
                                                                 /\ log[i].call # s}}
<1> DEFINE ids == {e.id : e \in {e \in history : e.shipment = s}}
           changes == {log[i].call : i \in {i \in DOMAIN log : /\ log[i].shipment = s
                                                              /\ log[i].call # s}}
<1>1. /\ DOMAIN log = Events
      /\ \A i \in Events : log[i].call = outbox[i].id /\ log[i].shipment = outbox[i].aggregate
  BY LogFacts DEF RefinementInv
<1>2. ASSUME NEW e \in history, e.shipment = s, e.id # s PROVE e.id \in changes
  <2>1. PICK i \in Events : outbox[i].id = e.id /\ outbox[i].aggregate = s
    BY <1>2 DEF RefinementInv, ServiceInv, StoredInv, StoredWithEvent
  <2> QED BY <1>1, <1>2, <2>1
<1>3. ASSUME NEW i \in DOMAIN log, log[i].shipment = s, log[i].call # s
      PROVE  log[i].call \in ids
  <2>1. PICK e \in history : e.id = outbox[i].id /\ e.shipment = outbox[i].aggregate
    BY <1>1, <1>3 DEF RefinementInv, ServiceInv, StoredInv, StoredWithEvent
  <2> QED BY <1>1, <1>3, <2>1
<1>4. changes \subseteq ids /\ ids \subseteq {s} \cup changes
  BY <1>2, <1>3
<1>5. (ids \cap {s}) \in SUBSET {s} /\ ids = (ids \cap {s}) \cup changes
  BY <1>4
<1> QED BY <1>5

LEMMA GetStatusEventsStep ==
  ASSUME RefinementInv, NEW c \in Calls, GetStatusEvents(c) PROVE Atomic!Next
<1>1. /\ pc[c] \notin Ended /\ pc[c] # "idle" /\ UNCHANGED <<req, outbox, arrived>>
      /\ Answer(c, "OK") /\ req[c].op = "GetShipmentHistory" /\ found[c] \in Calls
      /\ view' = [view EXCEPT ![c] = {e \in history : e.shipment = found[c]}]
  BY DEF GetStatusEvents, store, Ended, RefinementInv, CallInv, Reads
<1>2. answer[c] = "none" /\ answer' = [answer EXCEPT ![c] = "OK"]
  BY <1>1, OpenCall, AnswerIsGiven DEF Answer
<1>3. PICK initial \in SUBSET {found[c]} :
        {e.id : e \in {e \in history : e.shipment = found[c]}} =
          initial \cup {log[i].call : i \in {i \in DOMAIN log :
                          /\ log[i].shipment = found[c] /\ log[i].call # found[c]}}
  BY <1>1, HistoryIsLog
<1>4. shown' = [shown EXCEPT ![c] = {e.id : e \in {e \in history : e.shipment = found[c]}}]
  <2>1. DOMAIN view = Calls
    BY DEF RefinementInv, ServiceInv, TypeInv, TypeOK
  <2>2. \A d \in Calls : view'[d] = IF d = c THEN {e \in history : e.shipment = found[c]}
                                             ELSE view[d]
    BY <1>1, <2>1
  <2> QED BY <2>2 DEF shown
<1>5. found[c] \in Atomic!Named(req[c].ref)
  BY <1>1, FoundIsNamed
<1>6. \E s \in Atomic!Named(req[c].ref) : \E init \in SUBSET {s} :
        shown' = [shown EXCEPT ![c] = init \cup
                   {log[i].call : i \in {i \in DOMAIN log : /\ log[i].shipment = s
                                                           /\ log[i].call # s}}]
  BY <1>3, <1>4, <1>5
<1>7. Atomic!ReadHistory(c)
  BY <1>1, <1>2, <1>6 DEF Atomic!ReadHistory, answer, shown, log
<1> QED BY <1>7 DEF Atomic!Next

(***************************************************************************)
(* The refinement                                                           *)
(***************************************************************************)
LEMMA InitRefines == Init => Atomic!Init
<1> SUFFICES ASSUME Init PROVE Atomic!Init
  OBVIOUS
<1>1. LogOf(outbox) = <<>>
  BY DEF Init, LogOf
<1>2. /\ answer = [c \in Calls |-> "unsent"] /\ shown = [c \in Calls |-> {}]
      /\ req \in [Calls -> Requests] /\ arrived = [c \in Calls |-> 0]
  BY DEF Init, answer, shown
<1> QED BY <1>1, <1>2 DEF Atomic!Init, answer, shown

LEMMA ReceiveStep ==
  ASSUME RefinementInv, NEW c \in Calls, Receive(c) PROVE Atomic!Next
<1>1. /\ pc[c] = "idle" /\ answer[c] = "unsent" /\ reply[c] = "none"
      /\ UNCHANGED <<req, outbox, view>>
      /\ arrived' = [arrived EXCEPT ![c] = Len(log)]
  BY LogFacts DEF Receive, store, answer, RefinementInv, ServiceInv, AnswerInv, AnswerFits
<1>2. answer' = [answer EXCEPT ![c] = IF ValidRequest(req[c]) THEN "none"
                                                             ELSE "InvalidArgument"]
  <2>1. /\ pc'[c] # "idle"
        /\ reply'[c] = IF ValidRequest(req[c]) THEN "none" ELSE "InvalidArgument"
        /\ \A d \in Calls \ {c} : pc'[d] = pc[d] /\ reply'[d] = reply[d]
    BY <1>1 DEF Receive, Goto, Answer, RefinementInv, ServiceInv, TypeInv, TypeOK
  <2> QED BY <2>1 DEF answer
<1>3. Atomic!Arrive(c)
  BY <1>1, <1>2, SameRules DEF Atomic!Arrive, answer, log
<1> QED BY <1>3 DEF Atomic!Next

LEMMA BuildStep ==
  ASSUME RefinementInv, NEW c \in Calls, Build(c)
  PROVE  Atomic!Next \/ UNCHANGED Atomic!vars
<1>1. /\ pc[c] \notin Ended /\ pc[c] # "idle" /\ UNCHANGED <<req, outbox, arrived, view>>
  BY DEF Build, store, Ended
<1>2. CASE Goto(c, "beginTx")
  BY <1>1, <1>2, InvisibleGoto
<1>3. CASE Answer(c, "Internal")
  BY <1>1, <1>3, BreakStep DEF Answer
<1> QED BY <1>2, <1>3 DEF Build

LEMMA InsertShipmentStep ==
  ASSUME RefinementInv, NEW c \in Calls, InsertShipment(c)
  PROVE  Atomic!Next \/ UNCHANGED Atomic!vars
<1>1. /\ pc[c] \notin Ended /\ pc[c] # "idle" /\ UNCHANGED <<req, outbox, arrived, view>>
      /\ Creates(c) /\ ~Committed(c)
  BY DEF InsertShipment, store, Ended, RefinementInv, ServiceInv, TypeInv, PathOK,
         CreateLabels, AnswerInv, AnswerFits
<1>2. CASE Goto(c, "insertOutbox")
  BY <1>1, <1>2, InvisibleGoto
<1>3. CASE GetByReferenceNumber(req[c].ref) # {} /\ Answer(c, "AlreadyExists")
  <2>1. Atomic!Justified(c, "AlreadyExists")
    BY <1>1, <1>3, NamedFact, InLogFact DEF Atomic!Justified, Creates, RefinementInv
  <2> QED BY <1>1, <1>3, <2>1, RespondStep DEF Answered
<1>4. CASE Answer(c, "Internal")
  BY <1>1, <1>4, BreakStep DEF Answer
<1> QED BY <1>2, <1>3, <1>4 DEF InsertShipment

\* The row a change has found is still there: UpdateShipment finds it.
LEMMA UpdateShipmentStep ==
  ASSUME RefinementInv, NEW c \in Calls, UpdateShipment(c) PROVE UNCHANGED Atomic!vars
<1>1. currentStatus[found[c]] # StatusUnspecified
  BY DEF UpdateShipment, RefinementInv, ServiceInv, TypeInv, PathOK, ChangeLabels,
         UniqueInv, FoundHasRow
<1>2. /\ pc[c] # "idle" /\ UNCHANGED <<req, outbox, arrived, view>>
      /\ Goto(c, "insertStatus")
  BY <1>1 DEF UpdateShipment, store
<1> QED BY <1>2, InvisibleGoto

LEMMA CommitStep ==
  ASSUME RefinementInv, NEW c \in Calls, Commit(c) PROVE Atomic!Next
<1>1. /\ pc[c] \in {"commit", "inDoubt"} /\ pc[c] \notin Ended /\ pc[c] # "idle"
      /\ UNCHANGED <<req, arrived, view>> /\ Apply(c)
  BY DEF Commit, Ended
<1>2. CASE Goto(c, "stampInitial")
  BY <1>1, <1>2, GotoKeepsAnswer, WriteStep
<1>3. CASE Answer(c, "OK")
  <2>1. answer[c] = "none" /\ answer' = [answer EXCEPT ![c] = "OK"]
    BY <1>1, <1>3, OpenCall, AnswerIsGiven DEF Answer
  <2> QED BY <1>1, <2>1, WriteStep
<1> QED BY <1>2, <1>3 DEF Commit

LEMMA ResolveStep ==
  ASSUME RefinementInv, NEW c \in Calls, Resolve(c)
  PROVE  Atomic!Next \/ UNCHANGED Atomic!vars
<1>1. /\ pc[c] \in {"commit", "inDoubt"} /\ pc[c] # "idle"
      /\ UNCHANGED <<req, arrived, view>> /\ Goto(c, "done")
      /\ Apply(c) \/ UNCHANGED outbox
  BY DEF Resolve, store
<1>2. answer' = answer
  BY <1>1, GotoKeepsAnswer
<1>3. CASE Apply(c)
  BY <1>1, <1>2, <1>3, WriteStep
<1> QED BY <1>1, <1>2, <1>3, Invisible

LEMMA RecordInitialStep ==
  ASSUME RefinementInv, NEW c \in Calls, RecordInitial(c) PROVE Atomic!Next
<1>1. /\ pc[c] \notin Ended /\ UNCHANGED <<req, outbox, arrived, view>>
      /\ \E l \in {"initialInDoubt", "done"} : pc' = [pc EXCEPT ![c] = l]
      /\ reply' = [reply EXCEPT ![c] = "OK"] /\ Creates(c) /\ Committed(c)
  BY DEF RecordInitial, Ended, RefinementInv, ServiceInv, TypeInv, PathOK, CreateLabels,
         AnswerInv, AnswerFits
<1>2. Atomic!Justified(c, "OK")
  BY <1>1, InLogFact DEF Atomic!Justified, Creates, RefinementInv
<1> QED BY <1>1, <1>2, RespondAtStep DEF Answered

\* Whatever had begun and has no answer yet will never get one.
LEMMA CrashStep ==
  ASSUME RefinementInv, Crash PROVE Atomic!Next
<1> DEFINE running == {c \in Calls : pc[c] \notin Ended}
<1>0. running = Running
  BY DEF Running, Ended
<1>1. /\ UNCHANGED <<req, outbox, arrived, view>>
      /\ \A c \in Calls \ running : pc'[c] = pc[c] /\ reply'[c] = reply[c]
      /\ \A c \in running : pc'[c] # "idle" /\ reply'[c] = "Unavailable"
  BY <1>0, CrashMoves DEF RefinementInv, ServiceInv, TypeInv
<1>2. running \in SUBSET {c \in Calls : answer[c] = "none"}
  BY OpenCall
<1>3. answer' = [c \in Calls |-> IF c \in running THEN "Unavailable" ELSE answer[c]]
  BY <1>1 DEF answer
<1>4. Atomic!Break
  BY <1>1, <1>2, <1>3 DEF Atomic!Break, Atomic!Unknown, answer, LogOf
<1> QED BY <1>4 DEF Atomic!Next

LEMMA StepRefines ==
  RefinementInv /\ [Next]_vars => [Atomic!Next]_(Atomic!vars)
<1> SUFFICES ASSUME RefinementInv, [Next]_vars
             PROVE  Atomic!Next \/ UNCHANGED Atomic!vars
  OBVIOUS
<1>1. CASE UNCHANGED vars
  <2>1. UNCHANGED <<req, outbox, arrived, view>> /\ answer' = answer
    BY <1>1 DEF vars, store, answer
  <2> QED BY <2>1, Invisible
<1>2. ASSUME NEW c \in Calls,
             \/ StampChange(c) \/ BeginTx(c) \/ InsertStatusEvent(c) \/ InsertOutboxEvent(c)
             \/ StampInitial(c) \/ ResolveInitial(c)
      PROVE  UNCHANGED Atomic!vars
  <2>1. /\ pc[c] # "idle" /\ UNCHANGED <<req, outbox, arrived, view>>
        /\ \E l \in Labels \ {"idle"} : Goto(c, l)
    BY <1>2 DEF StampChange, BeginTx, InsertStatusEvent, InsertOutboxEvent, StampInitial,
                ResolveInitial, store, Labels, InTx
  <2> QED BY <2>1, InvisibleGoto
<1>3. ASSUME NEW c \in Calls, Fail(c) \/ CommitLost(c) PROVE Atomic!Next
  <2>1. /\ pc[c] \notin Ended /\ UNCHANGED <<req, outbox, arrived, view>>
        /\ \E l \in {"inDoubt", "done"} : pc' = [pc EXCEPT ![c] = l]
        /\ reply' = [reply EXCEPT ![c] = "Internal"]
    BY <1>3 DEF Fail, CommitLost, Answer, store, Ended, InTx
  <2> QED BY <2>1, BreakStep
<1>4. ASSUME NEW c \in Calls, Step(c) PROVE Atomic!Next \/ UNCHANGED Atomic!vars
  BY <1>2, <1>3, <1>4, BuildStep, LookupMissesStep, LookupFindsStep, GetStatusEventsStep,
     InsertShipmentStep, UpdateShipmentStep, CommitStep, ResolveStep, RecordInitialStep
     DEF Step, Progress
<1> QED BY <1>1, <1>4, ReceiveStep, CrashStep DEF Next, Quiescent

\* The service, with its statements, locks, races, lost commits and crashes, does
\* nothing a log of atomic writes could not do: each call takes effect at most
\* once, between its arrival and its definite answer, and the answer is true.
THEOREM ServiceIsAtomic == Spec => ImplementsAtomicShipments
<1>1. Init => RefinementInv
  BY ServiceInvInit, CallInit DEF RefinementInv
<1> QED
  BY <1>1, RefinementInvStep, InitRefines, StepRefines, PTL
     DEF Spec, ImplementsAtomicShipments, Atomic!Spec
=============================================================================
