------------------------ MODULE ServiceHistoryProofs ------------------------
(***************************************************************************)
(* Theorems about calls that follow one another: what had committed when a  *)
(* call arrived binds what the call does, sees and records.                 *)
(***************************************************************************)
EXTENDS ShipmentServiceProofs

-----------------------------------------------------------------------------
(***************************************************************************)
(* The status a change was validated against was in force at some moment   *)
(* since the change arrived.                                                *)
(***************************************************************************)
\* The status st of s was announced in box, and not superseded by place n.
InForce(box, s, st, n) ==
  \E j \in DOMAIN box : /\ box[j].aggregate = s /\ box[j].newStatus = st
                        /\ \A k \in DOMAIN box : j < k /\ k <= n => box[k].aggregate # s

PastLookup == ChangeLabels \cup WriteLabels

ArrivalInv ==
  /\ \A c \in Calls : arrived[c] <= Len(outbox)
  /\ \A s \in Calls : currentStatus[s] # StatusUnspecified
                        => InForce(outbox, s, currentStatus[s], Len(outbox))
  /\ \A c \in Calls : Changes(c) /\ pc[c] \in PastLookup
                        => InForce(outbox, found[c], seen[c], arrived[c])

LEMMA ArrivalInit == Init => ArrivalInv
BY DEF Init, ArrivalInv, PastLookup, ChangeLabels, WriteLabels

LEMMA InForceEarlier ==
  ASSUME NEW box, NEW m \in Nat, DOMAIN box = 1..m, NEW s, NEW st,
         NEW n \in Nat, NEW k \in Nat, k <= n, InForce(box, s, st, n)
  PROVE  InForce(box, s, st, k)
BY DEF InForce

LEMMA InForceExtends ==
  ASSUME NEW box, NEW longer, NEW m \in Nat, DOMAIN box = 1..m, DOMAIN longer = 1..m+1,
         \A i \in 1..m : longer[i] = box[i],
         NEW s, NEW st, NEW n \in Nat, n <= m, InForce(box, s, st, n)
  PROVE  InForce(longer, s, st, n)
<1>1. PICK j \in 1..m : /\ box[j].aggregate = s /\ box[j].newStatus = st
                        /\ \A k \in 1..m : j < k /\ k <= n => box[k].aggregate # s
  BY DEF InForce
<1>2. \A k \in 1..m+1 : k <= n => k \in 1..m
  OBVIOUS
<1> QED BY <1>1, <1>2 DEF InForce

\* Which steps matter here: only a lookup brings a change past its lookup.
LEMMA ArrivalCases ==
  ASSUME TypeInv, [Next]_vars
  PROVE  \/ /\ UNCHANGED <<currentStatus, outbox, found, seen, arrived>>
            /\ \A d \in Calls : Changes(d) /\ pc'[d] \in PastLookup => pc[d] \in PastLookup
         \/ \E c \in Calls : Receive(c)
         \/ \E c \in Calls : LookupFinds(c)
         \/ \E c \in Calls : /\ pc[c] \in {"commit", "inDoubt"} /\ Apply(c)
                             /\ UNCHANGED <<found, seen, arrived>>
                             /\ pc'[c] \notin PastLookup
                             /\ \A d \in Calls \ {c} : pc'[d] = pc[d]
<1> USE DEF Goto, Answer, PastLookup, ChangeLabels, WriteLabels
<1>1. CASE UNCHANGED vars
  BY <1>1 DEF vars, store
<1>2. CASE Crash
  BY <1>2, CrashMoves DEF TypeInv
<1>3. ASSUME NEW c \in Calls, Commit(c) \/ Resolve(c)
      PROVE  /\ pc[c] \in {"commit", "inDoubt"} /\ UNCHANGED <<found, seen, arrived>>
             /\ pc'[c] \notin PastLookup /\ \A d \in Calls \ {c} : pc'[d] = pc[d]
             /\ Apply(c) \/ UNCHANGED store
  BY <1>3 DEF Commit, Resolve, TypeInv, TypeOK
<1>4. ASSUME NEW c \in Calls, Build(c)
      PROVE  /\ UNCHANGED <<currentStatus, outbox, found, seen, arrived>> /\ ~Changes(c)
             /\ \A d \in Calls \ {c} : pc'[d] = pc[d]
  BY <1>4 DEF Build, store, TypeInv, TypeOK, PathOK, CreateLabels, Creates, Changes
<1>5. ASSUME NEW c \in Calls,
             \/ StampChange(c) \/ BeginTx(c) \/ UpdateShipment(c) \/ InsertStatusEvent(c)
             \/ InsertOutboxEvent(c) \/ CommitLost(c)
      PROVE  /\ UNCHANGED <<currentStatus, outbox, found, seen, arrived>>
             /\ pc[c] \in PastLookup /\ \A d \in Calls \ {c} : pc'[d] = pc[d]
  BY <1>5 DEF StampChange, BeginTx, UpdateShipment, InsertStatusEvent, InsertOutboxEvent,
              CommitLost, store, TypeInv, TypeOK
<1>6. ASSUME NEW c \in Calls,
             \/ LookupMisses(c) \/ GetStatusEvents(c) \/ Fail(c)
             \/ StampInitial(c) \/ RecordInitial(c) \/ ResolveInitial(c)
      PROVE  /\ UNCHANGED <<currentStatus, outbox, found, seen, arrived>>
             /\ pc'[c] \notin PastLookup /\ \A d \in Calls \ {c} : pc'[d] = pc[d]
  BY <1>6 DEF LookupMisses, GetStatusEvents, Fail, StampInitial, RecordInitial,
              ResolveInitial, store, TypeInv, TypeOK
<1>7. ASSUME NEW c \in Calls, InsertShipment(c)
      PROVE  /\ UNCHANGED <<currentStatus, outbox, found, seen, arrived>> /\ ~Changes(c)
             /\ \A d \in Calls \ {c} : pc'[d] = pc[d]
  BY <1>7 DEF InsertShipment, store, TypeInv, TypeOK, PathOK, CreateLabels, Creates, Changes
<1> HIDE DEF Goto, Answer, PastLookup, ChangeLabels, WriteLabels
<1> QED
  BY <1>1, <1>2, <1>3, <1>4, <1>5, <1>6, <1>7 DEF Next, Step, Progress, Quiescent, store

LEMMA ArrivalStep == TypeInv /\ ArrivalInv /\ [Next]_vars => ArrivalInv'
<1> SUFFICES ASSUME TypeInv, ArrivalInv, [Next]_vars PROVE ArrivalInv'
  OBVIOUS
<1>0. /\ req' = req /\ Len(outbox) \in Nat /\ DOMAIN outbox = 1..Len(outbox)
      /\ \A c \in Calls : arrived[c] \in Nat
  BY StoreStep DEF TypeInv, TypeOK
<1>1. CASE /\ UNCHANGED <<currentStatus, outbox, found, seen, arrived>>
           /\ \A d \in Calls : Changes(d) /\ pc'[d] \in PastLookup => pc[d] \in PastLookup
  BY <1>0, <1>1 DEF ArrivalInv, Changes
<1>2. ASSUME NEW c \in Calls, Receive(c) PROVE ArrivalInv'
  <2>1. /\ UNCHANGED <<currentStatus, outbox, found, seen>>
        /\ pc'[c] \notin PastLookup /\ arrived'[c] = Len(outbox)
        /\ \A d \in Calls \ {c} : pc'[d] = pc[d] /\ arrived'[d] = arrived[d]
    BY <1>2 DEF Receive, Goto, Answer, store, TypeInv, TypeOK, PastLookup, ChangeLabels,
                WriteLabels
  <2> QED BY <1>0, <2>1 DEF ArrivalInv, Changes
<1>3. ASSUME NEW c \in Calls, LookupFinds(c) PROVE ArrivalInv'
  <2>1. PICK s \in Calls : /\ currentStatus[s] # StatusUnspecified
                           /\ found' = [found EXCEPT ![c] = s]
                           /\ seen'  = [seen EXCEPT ![c] = currentStatus[s]]
                           /\ Proceed(c, currentStatus[s])
    BY <1>3 DEF LookupFinds, GetByReferenceNumber
  <2>2. /\ UNCHANGED <<currentStatus, outbox, arrived>>
        /\ found'[c] = s /\ seen'[c] = currentStatus[s]
        /\ \A d \in Calls \ {c} : /\ found'[d] = found[d] /\ seen'[d] = seen[d]
                                  /\ pc'[d] = pc[d]
    BY <1>3, <2>1 DEF LookupFinds, Proceed, Goto, Answer, store, TypeInv, TypeOK
  <2>3. InForce(outbox, s, currentStatus[s], arrived[c])
    BY <1>0, <2>1, InForceEarlier DEF ArrivalInv
  <2> QED BY <1>0, <2>2, <2>3 DEF ArrivalInv, Changes
<1>4. ASSUME NEW c \in Calls, pc[c] \in {"commit", "inDoubt"}, Apply(c),
             UNCHANGED <<found, seen, arrived>>, pc'[c] \notin PastLookup,
             \A d \in Calls \ {c} : pc'[d] = pc[d]
      PROVE  ArrivalInv'
  <2> DEFINE m == Len(outbox)
             new == NewEvent(c)
  <2>1. /\ new \in OutboxEvent /\ DOMAIN outbox' = 1..m+1 /\ DOMAIN outbox = 1..m
        /\ m \in Nat /\ \A i \in 1..m : outbox'[i] = outbox[i]
        /\ outbox'[m+1] = new
        /\ currentStatus' = [currentStatus EXCEPT ![new.aggregate] = new.newStatus]
    BY <1>4, ApplyAppends DEF Events
  <2>2. Len(outbox') = m + 1
    <3>1. outbox' \in Seq(OutboxEvent)
      BY <1>4, ApplyTyped
    <3>2. DOMAIN outbox' = 1..Len(outbox') /\ Len(outbox') \in Nat
      BY <3>1
    <3> QED BY <2>1, <3>2
  <2>3. currentStatus \in [Calls -> ShipmentStatus \cup {StatusUnspecified}]
    BY DEF TypeInv, TypeOK
  <2> HIDE DEF m, new
  <2>4. ASSUME NEW s \in Calls, currentStatus'[s] # StatusUnspecified
        PROVE  InForce(outbox', s, currentStatus'[s], m + 1)
    <3>1. CASE s = new.aggregate
      <4>1. /\ m + 1 \in DOMAIN outbox' /\ currentStatus'[s] = new.newStatus
            /\ \A k \in DOMAIN outbox' : ~(m + 1 < k)
        BY <2>1, <2>3, <3>1
      <4> QED BY <2>1, <3>1, <4>1 DEF InForce
    <3>2. CASE s # new.aggregate
      <4>1. currentStatus'[s] = currentStatus[s]
        BY <2>1, <2>3, <3>2
      <4>2. InForce(outbox, s, currentStatus[s], m)
        BY <2>4, <4>1 DEF ArrivalInv, m
      <4>3. PICK j \in 1..m : /\ outbox[j].aggregate = s
                              /\ outbox[j].newStatus = currentStatus[s]
                              /\ \A k \in 1..m : j < k /\ k <= m => outbox[k].aggregate # s
        BY <2>1, <4>2 DEF InForce
      <4>4. \A k \in 1..m+1 : (k \in 1..m /\ k <= m) \/ k = m + 1
        BY <2>1
      <4>5. j \in 1..m+1
        BY <2>1
      <4> QED BY <2>1, <3>2, <4>1, <4>3, <4>4, <4>5 DEF InForce
    <3> QED BY <3>1, <3>2
  <2>5. ASSUME NEW d \in Calls, Changes(d)', pc'[d] \in PastLookup
        PROVE  InForce(outbox', found'[d], seen'[d], arrived'[d])
    <3>1. InForce(outbox, found[d], seen[d], arrived[d])
      BY <1>0, <1>4, <2>5 DEF ArrivalInv, Changes
    <3>2. arrived[d] \in Nat /\ arrived[d] <= m
      BY <1>0 DEF ArrivalInv, m
    <3>3. InForce(outbox', found[d], seen[d], arrived[d])
      BY <2>1, <3>1, <3>2, InForceExtends
    <3> QED BY <1>4, <3>3
  <2>6. \A d \in Calls : arrived'[d] <= m + 1
    BY <1>0, <1>4, <2>1 DEF ArrivalInv, m
  <2> QED BY <2>2, <2>4, <2>5, <2>6 DEF ArrivalInv
<1> QED BY <1>1, <1>2, <1>3, <1>4, ArrivalCases

-----------------------------------------------------------------------------
(***************************************************************************)
(* An event belongs to a shipment that has a row, and only creations        *)
(* announce a creation.                                                     *)
(***************************************************************************)
EventInv ==
  \A i \in Events : /\ currentStatus[outbox[i].aggregate] # StatusUnspecified
                    /\ Creates(outbox[i].id) <=> outbox[i].eventType = "shipment.created"

LEMMA EventInit == Init => EventInv
BY DEF Init, EventInv, Events

LEMMA EventStep == TypeInv /\ EventInv /\ [Next]_vars => EventInv'
<1> SUFFICES ASSUME TypeInv, EventInv, [Next]_vars PROVE EventInv'
  OBVIOUS
<1>0. req' = req
  BY StoreStep
<1>1. ASSUME UNCHANGED <<currentStatus, outbox>> PROVE EventInv'
  BY <1>0, <1>1 DEF EventInv, Events, Creates
<1>2. ASSUME NEW c \in Calls, LookupFinds(c) PROVE UNCHANGED <<currentStatus, outbox>>
  BY <1>2 DEF LookupFinds, store
<1>3. ASSUME NEW c \in Calls, pc[c] \in {"commit", "inDoubt"}, Apply(c) PROVE EventInv'
  <2> DEFINE m == Len(outbox)
             new == NewEvent(c)
  <2>1. /\ new \in OutboxEvent /\ Events' = 1..m+1 /\ Events = 1..m
        /\ m \in Nat /\ \A i \in 1..m : outbox'[i] = outbox[i]
        /\ outbox'[m+1] = new
        /\ currentStatus' = [currentStatus EXCEPT ![new.aggregate] = new.newStatus]
    BY <1>3, ApplyAppends
  <2>2. /\ new.id = c /\ new.aggregate \in Calls /\ new.newStatus # StatusUnspecified
        /\ Creates(c) <=> new.eventType = "shipment.created"
    BY <2>1 DEF NewEvent, CreatedEvent, ChangedEvent, NewOutboxEvent, OutboxEvent,
                ShipmentStatus, StatusPending, StatusFailed, StatusUnspecified
  <2>3. currentStatus \in [Calls -> ShipmentStatus \cup {StatusUnspecified}]
    BY DEF TypeInv, TypeOK
  <2> HIDE DEF m, new
  <2>4. ASSUME NEW i \in 1..m+1
        PROVE  /\ currentStatus'[outbox'[i].aggregate] # StatusUnspecified
               /\ Creates(outbox'[i].id) <=> outbox'[i].eventType = "shipment.created"
    <3>1. CASE i \in 1..m
      <4>1. /\ outbox'[i] = outbox[i]
            /\ currentStatus[outbox[i].aggregate] # StatusUnspecified
            /\ Creates(outbox[i].id) <=> outbox[i].eventType = "shipment.created"
        BY <2>1, <3>1 DEF EventInv
      <4>2. \A s \in Calls : currentStatus[s] # StatusUnspecified
                               => currentStatus'[s] # StatusUnspecified
        BY <2>1, <2>2, <2>3
      <4>3. outbox[i].aggregate \in Calls
        <5>1. outbox \in Seq(OutboxEvent) /\ i \in DOMAIN outbox
          BY <2>1, <3>1 DEF TypeInv, TypeOK, Events
        <5>2. outbox[i] \in OutboxEvent
          BY <5>1
        <5> QED BY <5>2 DEF OutboxEvent
      <4> QED BY <4>1, <4>2, <4>3
    <3>2. CASE i = m + 1
      BY <2>1, <2>2, <2>3, <3>2
    <3> QED BY <2>1, <3>1, <3>2
  <2> QED BY <1>0, <2>1, <2>4 DEF EventInv, Creates
<1> QED BY <1>1, <1>2, <1>3, StoreStep

ServiceInv ==
  TypeInv /\ UniqueInv /\ AnswerInv /\ StoredInv /\ EventInv /\ ArrivalInv

LEMMA ServiceInvInit == Init => ServiceInv
BY TypeInit, UniqueInit, AnswerInit, StoredInit, EventInit, ArrivalInit DEF ServiceInv

LEMMA ServiceInvStep == ServiceInv /\ [Next]_vars => ServiceInv'
BY TypeStep, UniqueStep, AnswerStep, StoredStep, EventStep, ArrivalStep DEF ServiceInv

\* Before c's transaction is applied no event has its id, and if c is a
\* creation no event belongs to its shipment.
LEMMA UnappliedIsNew ==
  ASSUME ServiceInv, NEW c \in Calls, pc[c] \in {"commit", "inDoubt"}
  PROVE  /\ \A i \in Events : outbox[i].id # c
         /\ Creates(c) => \A i \in Events : outbox[i].aggregate # c
<1>1. \A i \in Events : outbox[i].id # c
  BY DEF ServiceInv, AnswerInv, AnswerFits, Committed
<1>2. currentStatus[c] = StatusUnspecified
  BY <1>1 DEF ServiceInv, StoredInv, StoredWithEvent
<1>3. ASSUME NEW i \in Events PROVE outbox[i].aggregate # c
  BY <1>2 DEF ServiceInv, EventInv
<1> QED BY <1>1, <1>3

-----------------------------------------------------------------------------
(***************************************************************************)
(* Changes that do not overlap follow the table.                            *)
(***************************************************************************)
LEMMA SequentialStep ==
  ServiceInv /\ SequentialChangesFollowTable /\ [Next]_vars
    => SequentialChangesFollowTable'
<1> SUFFICES ASSUME ServiceInv, SequentialChangesFollowTable, [Next]_vars
             PROVE  SequentialChangesFollowTable'
  OBVIOUS
<1> USE DEF ServiceInv
<1>0. \A c \in Calls : arrived[c] \in Nat
  BY DEF TypeInv, TypeOK
<1>1. ASSUME UNCHANGED <<outbox, arrived>> PROVE SequentialChangesFollowTable'
  BY <1>1 DEF SequentialChangesFollowTable, Events
<1>2. ASSUME NEW c \in Calls, Receive(c) PROVE SequentialChangesFollowTable'
  <2>1. /\ outbox' = outbox /\ \A d \in Calls \ {c} : arrived'[d] = arrived[d]
    BY <1>2 DEF Receive, store, TypeInv, TypeOK
  <2>2. \A i \in Events : outbox[i].id # c
    BY <1>2 DEF Receive, AnswerInv, AnswerFits, Committed
  <2>3. \A i \in Events : outbox[i].id \in Calls
    <3>1. outbox \in Seq(OutboxEvent)
      BY DEF TypeInv, TypeOK
    <3>2. \A i \in Events : outbox[i] \in OutboxEvent
      BY <3>1 DEF Events
    <3> QED BY <3>2 DEF OutboxEvent
  <2> QED BY <2>1, <2>2, <2>3 DEF SequentialChangesFollowTable, Events
<1>3. ASSUME NEW c \in Calls, LookupFinds(c) PROVE UNCHANGED <<outbox, arrived>>
  BY <1>3 DEF LookupFinds, store
<1>4. ASSUME NEW c \in Calls, pc[c] \in {"commit", "inDoubt"}, Apply(c),
             UNCHANGED arrived
      PROVE  SequentialChangesFollowTable'
  <2> DEFINE m == Len(outbox)
             new == NewEvent(c)
  <2>1. /\ Events' = 1..m+1 /\ Events = 1..m /\ m \in Nat
        /\ \A i \in 1..m : outbox'[i] = outbox[i]
        /\ outbox'[m+1] = new /\ new.id = c
    BY <1>4, ApplyAppends DEF NewEvent, CreatedEvent, ChangedEvent, NewOutboxEvent
  <2> HIDE DEF m
  <2> SUFFICES ASSUME NEW i \in 1..m+1, NEW j \in 1..m+1, j < i,
                      outbox'[j].aggregate = outbox'[i].aggregate,
                      \A k \in 1..m+1 : j < k /\ k < i
                        => outbox'[k].aggregate # outbox'[i].aggregate,
                      j <= arrived[outbox'[i].id]
               PROVE  CanTransitionTo(outbox'[j].newStatus, outbox'[i].newStatus)
    BY <1>4, <2>1 DEF SequentialChangesFollowTable, CanTransitionTo
  <2>2. CASE i \in 1..m
    <3>1. j \in 1..m /\ \A k \in 1..m : k \in 1..m+1
      BY <2>1, <2>2
    <3> QED BY <2>1, <2>2, <3>1 DEF SequentialChangesFollowTable
  <2>3. CASE i = m + 1
    <3>1. j \in 1..m /\ outbox'[j] = outbox[j] /\ outbox'[i] = new
      BY <2>1, <2>3
    <3>2. ~Creates(c)
      <4>1. Creates(c) => new.aggregate = c
        BY DEF NewEvent, CreatedEvent, NewOutboxEvent
      <4> QED BY <1>4, <2>1, <3>1, <4>1, UnappliedIsNew
    <3>3. /\ new.aggregate = found[c] /\ new.newStatus = req[c].newStatus
          /\ Changes(c) /\ found[c] \in Calls
          /\ CanTransitionTo(seen[c], req[c].newStatus)
      BY <1>4, <3>2 DEF NewEvent, ChangedEvent, NewOutboxEvent, TypeInv, PathOK, WriteLabels
    <3>4. PICK l \in 1..m : /\ outbox[l].aggregate = found[c] /\ outbox[l].newStatus = seen[c]
                            /\ \A k \in 1..m : l < k /\ k <= arrived[c]
                                 => outbox[k].aggregate # found[c]
      BY <1>4, <2>1, <3>3 DEF ArrivalInv, InForce, PastLookup, WriteLabels, Events
    <3>5. j <= l
      BY <1>0, <2>1, <3>1, <3>3, <3>4
    <3>6. ~(j < l)
      BY <2>1, <2>3, <3>1, <3>3, <3>4
    <3>7. j = l
      BY <3>5, <3>6, <2>1
    <3> QED BY <3>1, <3>3, <3>4, <3>7
  <2> QED BY <2>1, <2>2, <2>3
<1> QED
  BY <1>1, <1>2, <1>3, <1>4, ArrivalCases

\* Only overlapping changes can break the state machine: a change that arrived
\* after its predecessor had committed follows the table.
THEOREM SequentialChangesAreLegal == Spec => []SequentialChangesFollowTable
<1>1. Init => ServiceInv /\ SequentialChangesFollowTable
  BY ServiceInvInit DEF Init, SequentialChangesFollowTable, Events
<1>2. ServiceInv /\ SequentialChangesFollowTable /\ [Next]_vars
        => (ServiceInv /\ SequentialChangesFollowTable)'
  BY ServiceInvStep, SequentialStep
<1> QED BY <1>1, <1>2, PTL DEF Spec

-----------------------------------------------------------------------------
(***************************************************************************)
(* A history read returns what had committed before it began.               *)
(***************************************************************************)
Reads(h) == req[h].op = "GetShipmentHistory"

\* Only GetStatusEvents answers a history read with OK.
LEMMA ReadFrame ==
  ASSUME ServiceInv, [Next]_vars, \A c \in Calls : ~GetStatusEvents(c),
         NEW h \in Calls, Reads(h), reply'[h] = "OK"
  PROVE  /\ reply[h] = "OK" /\ view'[h] = view[h]
         /\ found'[h] = found[h] /\ arrived'[h] = arrived[h]
<1> USE DEF Goto, Answer
<1>0. /\ ~Creates(h) /\ ~Changes(h)
      /\ pc[h] \in {"idle", "lookup"} => reply[h] = "none"
  BY DEF Reads, Creates, Changes, ServiceInv, AnswerInv, AnswerFits
<1>1. CASE UNCHANGED vars
  BY <1>1 DEF vars
<1>2. CASE Crash
  BY <1>0, <1>2, CrashMoves DEF ServiceInv, TypeInv, Reads
<1>3. ASSUME NEW c \in Calls, Receive(c) PROVE h # c /\ UNCHANGED <<view, found>>
      /\ reply'[h] = reply[h] /\ arrived'[h] = arrived[h]
  BY <1>0, <1>3 DEF Receive, ServiceInv, TypeInv, TypeOK
<1>4. ASSUME NEW c \in Calls, LookupFinds(c)
      PROVE  h # c /\ UNCHANGED <<view, arrived>>
             /\ reply'[h] = reply[h] /\ found'[h] = found[h]
  BY <1>0, <1>4 DEF LookupFinds, Proceed, Reads, Changes, ServiceInv, TypeInv, TypeOK
<1>5. ASSUME NEW c \in Calls, Commit(c) \/ RecordInitial(c) \/ ResolveInitial(c)
      PROVE  h # c /\ UNCHANGED <<view, found, arrived>> /\ reply'[h] = reply[h]
  BY <1>0, <1>5 DEF Commit, RecordInitial, ResolveInitial, ServiceInv, TypeInv, TypeOK, PathOK,
                    CreateLabels, WriteLabels
<1>6. ASSUME NEW c \in Calls, Step(c),
             ~LookupFinds(c), ~Commit(c), ~RecordInitial(c), ~ResolveInitial(c),
             ~GetStatusEvents(c)
      PROVE  UNCHANGED <<view, found, arrived>> /\ reply'[h] = reply[h]
  BY <1>6 DEF Step, Progress, Build, LookupMisses, StampChange, BeginTx, InsertShipment,
              UpdateShipment, InsertStatusEvent, InsertOutboxEvent, Resolve, CommitLost,
              Fail, StampInitial, ServiceInv, TypeInv, TypeOK
<1> HIDE DEF Goto, Answer
<1> QED
  BY <1>1, <1>2, <1>3, <1>4, <1>5, <1>6 DEF Next, Quiescent

\* What a read by shipment finds in the table, for a change that has committed.
LEMMA ChangeIsRecorded ==
  ASSUME ServiceInv, NEW i \in Events, outbox[i].eventType = "shipment.status_changed"
  PROVE  \E e \in history : /\ e.id = outbox[i].id /\ e.shipment = outbox[i].aggregate
                            /\ e.status = outbox[i].newStatus
<1>1. outbox \in Seq(OutboxEvent)
  BY DEF ServiceInv, TypeInv, TypeOK
<1>2. outbox[i] \in OutboxEvent
  BY <1>1 DEF Events
<1>3. ~Creates(outbox[i].id) /\ outbox[i].aggregate \in Calls
  BY <1>2 DEF ServiceInv, EventInv, OutboxEvent
<1>4. Creates(outbox[i].aggregate)
  BY <1>3 DEF ServiceInv, EventInv, StoredInv, RowsCreated
<1>5. outbox[i].id # outbox[i].aggregate
  BY <1>3, <1>4
<1> QED BY <1>5 DEF ServiceInv, StoredInv, StoredWithEvent

LEMMA HistoryReadStep ==
  ServiceInv /\ HistorySeesPastChanges /\ [Next]_vars => HistorySeesPastChanges'
<1> SUFFICES ASSUME ServiceInv, HistorySeesPastChanges, [Next]_vars,
                    NEW h \in Calls, Reads(h)', reply'[h] = "OK",
                    NEW i \in Events', i <= arrived'[h],
                    outbox'[i].aggregate = found'[h],
                    outbox'[i].eventType = "shipment.status_changed"
             PROVE  \E e \in view'[h] : /\ e.id = outbox'[i].id
                                        /\ e.status = outbox'[i].newStatus
  BY DEF HistorySeesPastChanges, Reads
<1>0. Reads(h)
  BY StoreStep DEF Reads
<1>1. ASSUME NEW c \in Calls, GetStatusEvents(c)
      PROVE  \E e \in view'[h] : /\ e.id = outbox'[i].id
                                 /\ e.status = outbox'[i].newStatus
  <2>1. /\ UNCHANGED <<outbox, found, arrived>> /\ i \in Events
        /\ view' = [view EXCEPT ![c] = {e \in history : e.shipment = found[c]}]
    BY <1>1 DEF GetStatusEvents, store, Events
  <2>2. CASE h = c
    BY <2>1, <2>2, ChangeIsRecorded DEF ServiceInv, TypeInv, TypeOK
  <2>3. CASE h # c
    <3>1. reply[h] = "OK" /\ view'[h] = view[h]
      BY <1>1, <2>1, <2>3 DEF GetStatusEvents, Answer, ServiceInv, TypeInv, TypeOK
    <3> QED BY <1>0, <2>1, <3>1 DEF HistorySeesPastChanges, Reads
  <2> QED BY <2>2, <2>3
<1>2. CASE \A c \in Calls : ~GetStatusEvents(c)
  <2>1. /\ reply[h] = "OK" /\ view'[h] = view[h]
        /\ found'[h] = found[h] /\ arrived'[h] = arrived[h]
    BY <1>0, <1>2, ReadFrame
  <2>2. arrived[h] \in Nat /\ arrived[h] <= Len(outbox)
    BY DEF ServiceInv, ArrivalInv, TypeInv, TypeOK
  <2>3. i \in Events /\ outbox'[i] = outbox[i]
    <3>1. CASE UNCHANGED outbox
      BY <3>1 DEF Events
    <3>2. ASSUME NEW c \in Calls, pc[c] \in {"commit", "inDoubt"}, Apply(c)
          PROVE  i \in Events /\ outbox'[i] = outbox[i]
      <4>1. /\ Events' = 1..Len(outbox) + 1 /\ Events = 1..Len(outbox)
            /\ Len(outbox) \in Nat /\ \A k \in Events : outbox'[k] = outbox[k]
        BY <3>2, ApplyAppends DEF ServiceInv
      <4> QED BY <2>1, <2>2, <4>1
    <3>3. ASSUME NEW c \in Calls, LookupFinds(c) PROVE UNCHANGED outbox
      BY <3>3 DEF LookupFinds, store
    <3> QED BY <3>1, <3>2, <3>3, StoreStep
  <2> QED BY <1>0, <2>1, <2>3 DEF HistorySeesPastChanges, Reads
<1> QED BY <1>1, <1>2

\* A history read never misses a change that had committed before the read
\* began (GetStatusEvents after GetByReferenceNumber, two statements).
THEOREM HistoriesAreFresh == Spec => []HistorySeesPastChanges
<1>1. Init => ServiceInv /\ HistorySeesPastChanges
  BY ServiceInvInit DEF Init, HistorySeesPastChanges, Events
<1>2. ServiceInv /\ HistorySeesPastChanges /\ [Next]_vars
        => (ServiceInv /\ HistorySeesPastChanges)'
  BY ServiceInvStep, HistoryReadStep
<1> QED BY <1>1, <1>2, PTL DEF Spec

-----------------------------------------------------------------------------
(***************************************************************************)
(* A change reads the clock after all that had committed when it arrived    *)
(* was recorded, and the clock moves on only.                               *)
(***************************************************************************)
Stamped == {"beginTx", "updateShipment", "insertStatus", "insertOutbox", "commit", "inDoubt"}

IsChange(i) == outbox[i].eventType = "shipment.status_changed"

AfterCauses(c) ==
  \A i \in Events : i <= arrived[c] /\ IsChange(i) =>
    \A d \in history : d.id = outbox[i].id => d.occurredAt < stamp[c]

TimeInv ==
  /\ \A e \in history : e.occurredAt <= clock
  /\ \A c \in Calls : stamp[c] <= clock
  /\ \A c \in Calls : Changes(c) /\ pc[c] \in Stamped => AfterCauses(c)

LEMMA TimeInit == Init => TimeInv
BY DEF Init, TimeInv, AfterCauses, Stamped, Events

LEMMA TimeCases ==
  ASSUME ServiceInv, [Next]_vars
  PROVE  \/ /\ UNCHANGED <<outbox, history, stamp, clock, arrived>>
            /\ \A d \in Calls : Changes(d) /\ pc'[d] \in Stamped => pc[d] \in Stamped
         \/ \E c \in Calls : Receive(c)
         \/ \E c \in Calls : Build(c) \/ StampInitial(c)
         \/ \E c \in Calls : StampChange(c)
         \/ \E c \in Calls : RecordInitial(c) \/ ResolveInitial(c)
         \/ \E c \in Calls : /\ pc[c] \in {"commit", "inDoubt"} /\ Apply(c)
                             /\ UNCHANGED <<stamp, clock, arrived>>
                             /\ pc'[c] \notin Stamped
                             /\ \A d \in Calls \ {c} : pc'[d] = pc[d]
<1> USE DEF Goto, Answer, Stamped, ServiceInv
<1>1. CASE UNCHANGED vars
  BY <1>1 DEF vars, store
<1>2. CASE Crash
  BY <1>2, CrashMoves DEF TypeInv
<1>3. ASSUME NEW c \in Calls, Commit(c) \/ Resolve(c)
      PROVE  /\ pc[c] \in {"commit", "inDoubt"} /\ UNCHANGED <<stamp, clock, arrived>>
             /\ pc'[c] \notin Stamped /\ \A d \in Calls \ {c} : pc'[d] = pc[d]
             /\ Apply(c) \/ UNCHANGED store
  BY <1>3 DEF Commit, Resolve, TypeInv, TypeOK
<1>4. ASSUME NEW c \in Calls, InsertShipment(c)
      PROVE  /\ UNCHANGED <<outbox, history, stamp, clock, arrived>> /\ ~Changes(c)
             /\ \A d \in Calls \ {c} : pc'[d] = pc[d]
  BY <1>4 DEF InsertShipment, store, TypeInv, TypeOK, PathOK, CreateLabels, Creates, Changes
<1>5. ASSUME NEW c \in Calls,
             \/ BeginTx(c) \/ UpdateShipment(c) \/ InsertStatusEvent(c)
             \/ InsertOutboxEvent(c) \/ CommitLost(c)
      PROVE  /\ UNCHANGED <<outbox, history, stamp, clock, arrived>>
             /\ pc[c] \in Stamped /\ \A d \in Calls \ {c} : pc'[d] = pc[d]
  BY <1>5 DEF BeginTx, UpdateShipment, InsertStatusEvent, InsertOutboxEvent,
              CommitLost, store, TypeInv, TypeOK
<1>6. ASSUME NEW c \in Calls,
             LookupMisses(c) \/ LookupFinds(c) \/ GetStatusEvents(c) \/ Fail(c)
      PROVE  /\ UNCHANGED <<outbox, history, stamp, clock, arrived>>
             /\ pc'[c] \notin Stamped /\ \A d \in Calls \ {c} : pc'[d] = pc[d]
  BY <1>6 DEF LookupMisses, LookupFinds, Proceed, GetStatusEvents, Fail, store, TypeInv,
              TypeOK
<1> HIDE DEF Goto, Answer, Stamped, ServiceInv
<1> QED
  BY <1>1, <1>2, <1>3, <1>4, <1>5, <1>6 DEF Next, Step, Progress, Quiescent, store

\* Every status event in the table belongs to a call that has committed.
LEMMA RecordedHasEvent ==
  ASSUME ServiceInv, NEW e \in history
  PROVE  \E i \in Events : outbox[i].id = e.id
BY DEF ServiceInv, StoredInv, StoredWithEvent

\* The steps that append to the outbox: the new event is caused by what its call
\* has seen recorded, and causes nothing yet.
LEMMA TimeApply ==
  ASSUME ServiceInv, TimeInv, HistoryInCausalOrder,
         NEW c \in Calls, pc[c] \in {"commit", "inDoubt"}, Apply(c), req' = req,
         UNCHANGED <<stamp, clock, arrived>>, pc'[c] \notin Stamped,
         \A d \in Calls \ {c} : pc'[d] = pc[d]
  PROVE  TimeInv' /\ HistoryInCausalOrder'
<1> DEFINE m == Len(outbox)
           new == NewEvent(c)
<1>1. /\ new \in OutboxEvent /\ Events' = 1..m+1 /\ Events = 1..m /\ m \in Nat
      /\ \A i \in 1..m : outbox'[i] = outbox[i]
      /\ outbox'[m+1] = new /\ new.id = c
  BY ApplyAppends DEF ServiceInv, NewEvent, CreatedEvent, ChangedEvent, NewOutboxEvent
<1>2. \/ Creates(c) /\ history' = history
      \/ ~Creates(c) /\ history' = history \cup {NewStatusEvent(c, found[c], req[c].newStatus)}
  BY DEF Apply
<1>3. \A e \in history' \ history : e.id = c /\ e.occurredAt = stamp[c] /\ ~Creates(c)
  BY <1>2 DEF NewStatusEvent
<1>4. \A i \in 1..m : outbox[i].id # c
  BY <1>1, UnappliedIsNew
<1>5. \A e \in history : e.id # c
  BY <1>1, <1>4, RecordedHasEvent
<1>6. \A d \in Calls : arrived[d] \in Nat /\ arrived[d] <= m
  BY DEF ServiceInv, ArrivalInv, TypeInv, TypeOK
<1>7. history \subseteq history'
  BY <1>2
<1>8. \A i \in 1..m+1 : outbox'[i].id \in Calls
  <2>1. outbox \in Seq(OutboxEvent)
    BY DEF ServiceInv, TypeInv, TypeOK
  <2>2. \A i \in 1..m : outbox[i] \in OutboxEvent
    BY <2>1, <1>1 DEF Events
  <2>3. \A i \in 1..m : outbox[i].id \in Calls
    BY <2>2 DEF OutboxEvent
  <2>4. SUFFICES ASSUME NEW i \in 1..m+1 PROVE outbox'[i].id \in Calls
    OBVIOUS
  <2>5. CASE i \in 1..m
    BY <1>1, <2>3, <2>5
  <2>6. CASE i = m + 1
    BY <1>1, <2>6
  <2> QED BY <1>1, <2>5, <2>6
<1> HIDE DEF m, new
<1>9. TimeInv'
  <2>1. \A e \in history' : e.occurredAt <= clock'
    BY <1>3 DEF TimeInv
  <2>2. \A d \in Calls : stamp'[d] <= clock'
    BY DEF TimeInv
  <2>3. ASSUME NEW d \in Calls, Changes(d)', pc'[d] \in Stamped PROVE AfterCauses(d)'
    <3>1. d # c /\ AfterCauses(d)
      BY <2>3 DEF TimeInv, Changes
    <3>2. SUFFICES ASSUME NEW i \in 1..m+1, i <= arrived[d],
                          outbox'[i].eventType = "shipment.status_changed",
                          NEW e \in history', e.id = outbox'[i].id
                   PROVE  e.occurredAt < stamp[d]
      BY <1>1 DEF AfterCauses, IsChange
    <3>3. i \in 1..m
      BY <1>1, <1>6, <3>2
    <3>4. e \in history
      BY <1>1, <1>3, <1>4, <3>2, <3>3
    <3> QED BY <1>1, <3>1, <3>2, <3>3, <3>4 DEF AfterCauses, IsChange
  <2> QED BY <2>1, <2>2, <2>3 DEF TimeInv
<1>10. HistoryInCausalOrder'
  <2>1. SUFFICES ASSUME NEW i \in 1..m+1, NEW j \in 1..m+1,
                        i <= arrived[outbox'[j].id],
                        outbox'[i].eventType = "shipment.status_changed",
                        outbox'[j].eventType = "shipment.status_changed",
                        NEW d \in history', NEW e \in history',
                        d.id = outbox'[i].id, e.id = outbox'[j].id
                 PROVE  d.occurredAt < e.occurredAt
    BY <1>1 DEF HistoryInCausalOrder
  <2>2. i \in 1..m
    BY <1>1, <1>6, <1>8, <2>1
  <2>3. d \in history /\ outbox'[i] = outbox[i]
    BY <1>1, <1>3, <1>4, <2>1, <2>2
  <2>4. CASE j \in 1..m
    <3>1. e \in history /\ outbox'[j] = outbox[j]
      BY <1>1, <1>3, <1>4, <2>1, <2>4
    <3> QED BY <1>1, <2>1, <2>2, <2>3, <2>4, <3>1 DEF HistoryInCausalOrder
  <2>5. CASE j = m + 1
    <3>1. e.id = c /\ e.occurredAt = stamp[c] /\ ~Creates(c)
      BY <1>1, <1>3, <1>5, <2>1, <2>5
    <3>2. Changes(c)
      BY <3>1 DEF ServiceInv, TypeInv, PathOK, WriteLabels
    <3>3. AfterCauses(c)
      BY <3>2 DEF TimeInv, Stamped
    <3> QED BY <1>1, <2>1, <2>2, <2>3, <2>5, <3>1, <3>3 DEF AfterCauses, IsChange
  <2> QED BY <1>1, <2>1, <2>4, <2>5
<1> QED BY <1>9, <1>10

LEMMA TimeStep ==
  ServiceInv /\ TimeInv /\ HistoryInCausalOrder /\ [Next]_vars
    => TimeInv' /\ HistoryInCausalOrder'
<1> SUFFICES ASSUME ServiceInv, TimeInv, HistoryInCausalOrder, [Next]_vars
             PROVE  TimeInv' /\ HistoryInCausalOrder'
  OBVIOUS
<1>0. /\ req' = req /\ clock \in Nat
      /\ \A c \in Calls : stamp[c] \in Nat /\ arrived[c] \in Nat
      /\ \A e \in history : e.occurredAt \in Nat
      /\ \A i \in Events : outbox[i].id \in Calls
  <2>1. /\ req' = req /\ clock \in Nat /\ outbox \in Seq(OutboxEvent)
        /\ \A c \in Calls : stamp[c] \in Nat /\ arrived[c] \in Nat
    BY StoreStep DEF ServiceInv, TypeInv, TypeOK
  <2>2. \A i \in Events : outbox[i] \in OutboxEvent
    BY <2>1 DEF Events
  <2>3. \A e \in history : e \in StatusEvent
    BY DEF ServiceInv, TypeInv, TypeOK
  <2> QED BY <2>1, <2>2, <2>3 DEF OutboxEvent, StatusEvent
<1>1. ASSUME UNCHANGED <<outbox, history, stamp, clock, arrived>>,
             \A d \in Calls : Changes(d) /\ pc'[d] \in Stamped => pc[d] \in Stamped
      PROVE  TimeInv' /\ HistoryInCausalOrder'
  BY <1>0, <1>1 DEF TimeInv, HistoryInCausalOrder, AfterCauses, IsChange, Events, Changes
<1>2. ASSUME NEW c \in Calls, Receive(c) PROVE TimeInv' /\ HistoryInCausalOrder'
  <2>1. /\ UNCHANGED <<outbox, history, stamp, clock>> /\ pc'[c] \notin Stamped
        /\ \A d \in Calls \ {c} : pc'[d] = pc[d] /\ arrived'[d] = arrived[d]
    BY <1>2 DEF Receive, Goto, Answer, store, Stamped, ServiceInv, TypeInv, TypeOK
  <2>2. \A i \in Events : outbox[i].id # c
    BY <1>2 DEF Receive, ServiceInv, AnswerInv, AnswerFits, Committed
  <2>3. TimeInv'
    BY <1>0, <2>1 DEF TimeInv, AfterCauses, IsChange, Events, Changes
  <2>4. HistoryInCausalOrder'
    BY <1>0, <2>1, <2>2 DEF HistoryInCausalOrder, Events
  <2> QED BY <2>3, <2>4
<1>3. ASSUME NEW c \in Calls, Build(c) \/ StampInitial(c)
      PROVE  TimeInv' /\ HistoryInCausalOrder'
  <2>1. /\ UNCHANGED <<outbox, history, arrived>> /\ ~Changes(c)
        /\ \A d \in Calls \ {c} : pc'[d] = pc[d] /\ stamp'[d] = stamp[d]
        /\ clock <= clock' /\ stamp'[c] <= clock'
    BY <1>0, <1>3 DEF Build, StampInitial, ReadClock, Goto, Answer, store, ServiceInv,
                      TypeInv, TypeOK, PathOK, CreateLabels, Creates, Changes, TimeInv
  <2>2. clock' \in Nat
    BY <1>3, <1>0 DEF Build, StampInitial, ReadClock
  <2>3. TimeInv'
    BY <1>0, <2>1, <2>2 DEF TimeInv, AfterCauses, IsChange, Events, Changes
  <2> QED BY <2>1, <2>3 DEF HistoryInCausalOrder, Events
<1>4. ASSUME NEW c \in Calls, StampChange(c) PROVE TimeInv' /\ HistoryInCausalOrder'
  <2>1. /\ UNCHANGED <<outbox, history, arrived>>
        /\ \A d \in Calls \ {c} : pc'[d] = pc[d] /\ stamp'[d] = stamp[d]
        /\ clock' = clock + 1 /\ stamp'[c] = clock + 1
    BY <1>0, <1>4 DEF StampChange, ReadClock, Goto, store, ServiceInv, TypeInv, TypeOK
  <2>2. AfterCauses(c)'
    BY <1>0, <2>1 DEF TimeInv, AfterCauses
  <2>3. TimeInv'
    BY <1>0, <2>1, <2>2 DEF TimeInv, AfterCauses, IsChange, Events, Changes
  <2> QED BY <2>1, <2>3 DEF HistoryInCausalOrder, Events
<1>5. ASSUME NEW c \in Calls, RecordInitial(c) \/ ResolveInitial(c)
      PROVE  TimeInv' /\ HistoryInCausalOrder'
  <2>1. /\ UNCHANGED <<outbox, arrived, stamp, clock>> /\ Creates(c)
        /\ pc'[c] \notin Stamped
        /\ \A d \in Calls \ {c} : pc'[d] = pc[d]
        /\ \A e \in history' \ history : e.id = c /\ e.occurredAt = stamp[c]
    BY <1>0, <1>5 DEF RecordInitial, ResolveInitial, InitialEvent, NewStatusEvent, Goto,
                      Stamped, ServiceInv, TypeInv, TypeOK, PathOK, CreateLabels
  <2>2. \A i \in Events : IsChange(i) => outbox[i].id # c
    BY <2>1 DEF ServiceInv, EventInv, IsChange
  <2>3. \A e \in history' : e.occurredAt <= clock
    BY <2>1 DEF TimeInv
  <2>4. \A e \in history' : e.id # c => e \in history
    BY <2>1
  <2>5. TimeInv'
    BY <1>0, <2>1, <2>2, <2>3, <2>4 DEF TimeInv, AfterCauses, IsChange, Events, Changes
  <2>6. HistoryInCausalOrder'
    BY <2>1, <2>2, <2>4 DEF HistoryInCausalOrder, IsChange, Events
  <2> QED BY <2>5, <2>6
<1> QED BY <1>0, <1>1, <1>2, <1>3, <1>4, <1>5, TimeApply, TimeCases

\* A history sorted by occurred_at never shows a change before one it came
\* after: the clock is read before the transaction, but after the call arrived.
THEOREM HistoriesAreOrdered == Spec => []HistoryInCausalOrder
<1>1. Init => ServiceInv /\ TimeInv /\ HistoryInCausalOrder
  BY ServiceInvInit, TimeInit DEF Init, HistoryInCausalOrder, Events
<1>2. ServiceInv /\ TimeInv /\ HistoryInCausalOrder /\ [Next]_vars
        => (ServiceInv /\ TimeInv /\ HistoryInCausalOrder)'
  BY ServiceInvStep, TimeStep
<1> QED BY <1>1, <1>2, PTL DEF Spec

-----------------------------------------------------------------------------
(***************************************************************************)
(* The created_at of an event: drawn by its call alone, and later than      *)
(* that of every event that had committed when the call arrived.            *)
(***************************************************************************)
\* From the reading of the clock to the end of the transaction.
Writing == {"beginTx", "insertShipment", "updateShipment", "insertStatus",
            "insertOutbox", "commit", "inDoubt"}

\* Where a call may yet read the clock for its event, and where once more.
MayStamp == {"idle", "build", "lookup", "stampChange"}
StampedTwice == {"recordInitial", "initialInDoubt", "inDoubt", "done"}

\* The reading a call takes is its own, and later than all it has seen commit.
StampInv ==
  /\ \A i \in Events : CreatedAt(i) \in 1..clock
  /\ \A c \in Calls : stamp[c] <= clock
  /\ \A c \in Calls : pc[c] \in Writing =>
       /\ stamp[c] >= 1
       /\ \A i \in Events : /\ CreatedAt(i) # stamp[c]
                            /\ i <= arrived[c] => CreatedAt(i) < stamp[c]
       /\ \A d \in Calls : pc[d] \in Writing /\ d # c => stamp[d] # stamp[c]
  /\ \A i, j \in Events : i <= arrived[outbox[j].id] => CreatedAt(i) < CreatedAt(j)

LEMMA StampInit == Init => StampInv
BY DEF Init, StampInv, Events, Writing

\* A step reads the clock, brings no call before a reading, or is Receive's.
ReadStep(c) ==
  /\ \/ pc[c] \in {"build", "stampChange"} /\ pc'[c] = "beginTx"
     \/ pc[c] = "stampInitial" /\ pc'[c] = "recordInitial"
  /\ ReadClock(c) /\ UNCHANGED <<outbox, arrived>>
  /\ \A d \in Calls \ {c} : pc'[d] = pc[d]

QuietStep ==
  /\ UNCHANGED <<outbox, stamp, clock, arrived>>
  /\ \A d \in Calls : /\ pc'[d] \in Writing => pc[d] \in Writing
                      /\ pc'[d] \in MayStamp => pc[d] \in MayStamp
                      /\ pc[d] \in StampedTwice => pc'[d] \in StampedTwice

ApplyStep(c) ==
  /\ pc[c] \in {"commit", "inDoubt"} /\ Apply(c) /\ UNCHANGED <<stamp, clock, arrived>>
  /\ (pc[c] = "commit" /\ pc'[c] = "stampInitial") \/ pc'[c] = "done"
  /\ \A d \in Calls \ {c} : pc'[d] = pc[d]

LEMMA ClockCases ==
  ASSUME TypeInv, [Next]_vars
  PROVE  \/ QuietStep
         \/ \E c \in Calls : Receive(c) \/ ReadStep(c) \/ ApplyStep(c)
<1> USE DEF Goto, Answer, Writing, MayStamp, StampedTwice, TypeInv, TypeOK
<1>1. CASE UNCHANGED vars
  BY <1>1 DEF vars, store, QuietStep
<1>2. CASE Crash
  BY <1>2, CrashMoves DEF QuietStep
<1>3. ASSUME NEW c \in Calls, Commit(c) PROVE ApplyStep(c)
  BY <1>3 DEF Commit, ApplyStep
<1>4. ASSUME NEW c \in Calls, Resolve(c) PROVE ApplyStep(c) \/ QuietStep
  BY <1>4 DEF Resolve, ApplyStep, QuietStep, store
<1>5. ASSUME NEW c \in Calls, Build(c) PROVE ReadStep(c) \/ QuietStep
  BY <1>5 DEF Build, ReadStep, QuietStep, store
<1>6. ASSUME NEW c \in Calls, StampChange(c) \/ StampInitial(c) PROVE ReadStep(c)
  BY <1>6 DEF StampChange, StampInitial, ReadStep, store
<1>7. ASSUME NEW c \in Calls, LookupMisses(c) \/ LookupFinds(c) \/ GetStatusEvents(c)
      PROVE  QuietStep
  BY <1>7 DEF LookupMisses, LookupFinds, Proceed, GetStatusEvents, QuietStep, store
<1>8. ASSUME NEW c \in Calls, BeginTx(c) \/ InsertShipment(c) \/ UpdateShipment(c) PROVE QuietStep
  BY <1>8 DEF BeginTx, InsertShipment, UpdateShipment, QuietStep, store
<1>9. ASSUME NEW c \in Calls,
             InsertStatusEvent(c) \/ InsertOutboxEvent(c) \/ CommitLost(c)
      PROVE  QuietStep
  BY <1>9 DEF InsertStatusEvent, InsertOutboxEvent, CommitLost, QuietStep, store
<1>10. ASSUME NEW c \in Calls, Fail(c) \/ RecordInitial(c) \/ ResolveInitial(c)
      PROVE  QuietStep
  BY <1>10 DEF Fail, InTx, RecordInitial, ResolveInitial, QuietStep, store
<1> HIDE DEF Goto, Answer, Writing, MayStamp, StampedTwice, TypeInv, TypeOK
<1> QED
  BY <1>1, <1>2, <1>3, <1>4, <1>5, <1>6, <1>7, <1>8, <1>9, <1>10
     DEF Next, Step, Progress, Quiescent

LEMMA StampStep ==
  ASSUME ServiceInv, StampInv, [Next]_vars
  PROVE  StampInv'
<1>0. /\ clock \in Nat /\ \A c \in Calls : stamp[c] \in Nat /\ arrived[c] \in Nat
      /\ Events = 1..Len(outbox) /\ Len(outbox) \in Nat
      /\ \A i \in Events : outbox[i].id \in Calls /\ CreatedAt(i) \in Nat
      /\ \A c \in Calls : arrived[c] <= Len(outbox)
  <2>1. /\ clock \in Nat /\ \A c \in Calls : stamp[c] \in Nat /\ arrived[c] \in Nat
        /\ outbox \in Seq(OutboxEvent)
    BY DEF ServiceInv, TypeInv, TypeOK
  <2>2. \A i \in Events : outbox[i] \in OutboxEvent
    BY <2>1 DEF Events
  <2>3. \A c \in Calls : arrived[c] <= Len(outbox)
    BY DEF ServiceInv, ArrivalInv
  <2> QED BY <2>1, <2>2, <2>3 DEF OutboxEvent, Events, CreatedAt
<1>1. CASE QuietStep
  BY <1>1 DEF QuietStep, StampInv, Events, CreatedAt
<1>2. ASSUME NEW c \in Calls, Receive(c) PROVE StampInv'
  <2>1. /\ UNCHANGED <<outbox, stamp, clock>> /\ pc'[c] \notin Writing
        /\ \A d \in Calls \ {c} : pc'[d] = pc[d] /\ arrived'[d] = arrived[d]
    BY <1>2 DEF Receive, Goto, Answer, store, Writing, ServiceInv, TypeInv, TypeOK
  <2>2. \A i \in Events : outbox[i].id # c
    BY <1>2 DEF Receive, ServiceInv, AnswerInv, AnswerFits, Committed
  <2>3. \A i \in Events : arrived'[outbox[i].id] = arrived[outbox[i].id]
    BY <1>0, <2>1, <2>2
  <2> QED BY <2>1, <2>3 DEF StampInv, Events, CreatedAt
<1>3. ASSUME NEW c \in Calls, ReadStep(c) PROVE StampInv'
  <2>1. /\ clock' = clock + 1 /\ stamp'[c] = clock + 1 /\ UNCHANGED <<outbox, arrived>>
        /\ \A d \in Calls \ {c} : pc'[d] = pc[d] /\ stamp'[d] = stamp[d]
    BY <1>3 DEF ReadStep, ReadClock, ServiceInv, TypeInv, TypeOK
  <2>2. \A i \in Events : CreatedAt(i)' = CreatedAt(i) /\ CreatedAt(i) <= clock
    BY <1>0, <2>1 DEF StampInv, CreatedAt
  <2>3. \A d \in Calls : pc'[d] \in Writing =>
          /\ stamp'[d] >= 1
          /\ \A i \in Events : /\ CreatedAt(i) # stamp'[d]
                               /\ i <= arrived[d] => CreatedAt(i) < stamp'[d]
    <3>1. ASSUME NEW d \in Calls \ {c}, pc'[d] \in Writing
          PROVE  /\ stamp'[d] >= 1
                 /\ \A i \in Events : /\ CreatedAt(i) # stamp'[d]
                                      /\ i <= arrived[d] => CreatedAt(i) < stamp'[d]
      <4>1. pc[d] \in Writing /\ stamp'[d] = stamp[d]
        BY <2>1, <3>1
      <4> QED BY <4>1 DEF StampInv
    <3>2. /\ stamp'[c] >= 1
          /\ \A i \in Events : CreatedAt(i) # stamp'[c] /\ CreatedAt(i) < stamp'[c]
      BY <1>0, <2>1, <2>2
    <3> QED BY <3>1, <3>2
  <2>4. \A d \in Calls : stamp[d] <= clock
    BY DEF StampInv
  <2>5. \A d, f \in Calls : pc'[d] \in Writing /\ pc'[f] \in Writing /\ f # d
                             => stamp'[f] # stamp'[d]
    BY <1>0, <2>1, <2>4 DEF StampInv
  <2>6. \A i \in Events : CreatedAt(i) \in 1..clock'
    BY <1>0, <2>1, <2>2 DEF StampInv
  <2>7. \A d \in Calls : stamp'[d] <= clock'
    BY <1>0, <2>1, <2>4
  <2>8. Events' = Events /\ \A i, j \in Events : i <= arrived[outbox[j].id] => CreatedAt(i) < CreatedAt(j)
    BY <2>1 DEF Events, StampInv
  <2> QED BY <2>1, <2>2, <2>3, <2>5, <2>6, <2>7, <2>8 DEF StampInv
<1>4. ASSUME NEW c \in Calls, ApplyStep(c) PROVE StampInv'
  <2> DEFINE m == Len(outbox)
             made(i) == outbox'[i].createdAt
  <2>0. NewEvent(c).id = c /\ NewEvent(c).createdAt = stamp[c]
    BY DEF NewEvent, CreatedEvent, ChangedEvent, NewOutboxEvent
  <2>1. /\ Events' = 1..m+1 /\ Events = 1..m /\ m \in Nat
        /\ \A i \in 1..m : outbox'[i] = outbox[i]
        /\ outbox'[m+1].id = c /\ outbox'[m+1].createdAt = stamp[c]
    BY <1>4, <2>0, ApplyAppends DEF ApplyStep, ServiceInv
  <2>2. /\ UNCHANGED <<stamp, clock, arrived>> /\ pc[c] \in Writing /\ pc'[c] \notin Writing
        /\ \A d \in Calls \ {c} : pc'[d] = pc[d]
    BY <1>4 DEF ApplyStep, Writing
  <2>3. /\ \A i \in 1..m : made(i) = CreatedAt(i) /\ CreatedAt(i) \in 1..clock
        /\ made(m+1) = stamp[c] /\ stamp[c] >= 1 /\ stamp[c] <= clock
        /\ \A d \in Calls : arrived[d] \in Nat /\ arrived[d] <= m
    BY <1>0, <2>1, <2>2 DEF StampInv, CreatedAt
  <2> HIDE DEF m, made
  <2>4. \A i \in 1..m+1 : made(i) \in 1..clock
    BY <1>0, <2>1, <2>3
  <2>5. ASSUME NEW d \in Calls, pc'[d] \in Writing
        PROVE  /\ stamp[d] >= 1
               /\ \A i \in 1..m+1 : /\ made(i) # stamp[d]
                                     /\ i <= arrived[d] => made(i) < stamp[d]
               /\ \A f \in Calls : pc'[f] \in Writing /\ f # d => stamp[f] # stamp[d]
    <3>1. d # c /\ pc[d] \in Writing
      BY <2>2, <2>5
    <3>2. /\ stamp[d] >= 1 /\ stamp[c] # stamp[d]
          /\ \A i \in 1..m : /\ CreatedAt(i) # stamp[d]
                              /\ i <= arrived[d] => CreatedAt(i) < stamp[d]
      BY <2>1, <2>2, <3>1 DEF StampInv
    <3>3. \A i \in 1..m+1 : i <= arrived[d] => i \in 1..m
      BY <2>1, <2>3
    <3>4. \A f \in Calls : pc'[f] \in Writing => pc[f] \in Writing
      BY <2>2
    <3>5. \A f \in Calls : pc'[f] \in Writing /\ f # d => stamp[f] # stamp[d]
      BY <3>1, <3>4 DEF StampInv
    <3>6. \A i \in 1..m+1 : i \in 1..m \/ i = m + 1
      BY <2>1
    <3> QED BY <2>3, <3>2, <3>3, <3>5, <3>6
  <2>6. ASSUME NEW i \in 1..m+1, NEW j \in 1..m+1, i <= arrived[outbox'[j].id]
        PROVE  made(i) < made(j)
    <3>1. outbox'[j].id \in Calls
      BY <1>0, <2>1
    <3>2. i \in 1..m
      BY <2>1, <2>3, <2>6, <3>1
    <3>3. CASE j \in 1..m
      BY <2>1, <2>3, <2>6, <3>2, <3>3 DEF StampInv
    <3>4. CASE j = m + 1
      <4>1. i <= arrived[c]
        BY <2>1, <2>6, <3>4
      <4>2. CreatedAt(i) < stamp[c]
        BY <2>1, <2>2, <3>2, <4>1 DEF StampInv
      <4> QED BY <2>3, <3>2, <3>4, <4>2
    <3> QED BY <2>1, <3>3, <3>4
  <2>7. \A d \in Calls : stamp[d] <= clock
    BY DEF StampInv
  <2> QED BY <2>1, <2>2, <2>4, <2>5, <2>6, <2>7 DEF StampInv, CreatedAt, made
<1> QED BY <1>1, <1>2, <1>3, <1>4, ClockCases DEF ServiceInv

\* The newest event of a shipment by created_at, or one that overlapping changes
\* have put after it, has the status of its row: the row is written in commit
\* order, created_at is read before the transaction, and the two orders agree
\* about calls that do not overlap.
THEOREM RowsNewestUnlessRaced == Spec => []RowIsNewestUnlessRaced
<1>1. Init => ServiceInv /\ RowInv /\ StampInv
  BY ServiceInvInit, StampInit DEF Init, RowInv, Events
<1>2. ServiceInv /\ RowInv /\ StampInv /\ [Next]_vars => (ServiceInv /\ RowInv /\ StampInv)'
  BY ServiceInvStep, RowStep, StampStep DEF ServiceInv
<1>3. ASSUME ServiceInv, RowInv, StampInv PROVE RowIsNewestUnlessRaced
  <2>1. SUFFICES ASSUME NEW i \in Events,
                        \A j \in Events : outbox[j].aggregate = outbox[i].aggregate
                                           => CreatedAt(j) <= CreatedAt(i)
                 PROVE  \E j \in Events :
                          /\ outbox[j].aggregate = outbox[i].aggregate
                          /\ currentStatus[outbox[i].aggregate] = outbox[j].newStatus
                          /\ i = j \/ (i < j /\ arrived[outbox[j].id] < i)
    BY DEF RowIsNewestUnlessRaced
  <2>2. PICK j \in Events : /\ i <= j /\ outbox[j].aggregate = outbox[i].aggregate
                            /\ currentStatus[outbox[i].aggregate] = outbox[j].newStatus
    BY <1>3 DEF RowInv
  <2>3. /\ i \in Nat /\ j \in Nat /\ arrived[outbox[j].id] \in Nat
        /\ CreatedAt(i) \in Nat /\ CreatedAt(j) \in Nat
    <3>1. outbox \in Seq(OutboxEvent)
      BY <1>3 DEF ServiceInv, TypeInv, TypeOK
    <3>2. i \in Nat /\ j \in Nat /\ outbox[i] \in OutboxEvent /\ outbox[j] \in OutboxEvent
      BY <3>1 DEF Events
    <3> QED BY <1>3, <3>2 DEF OutboxEvent, CreatedAt, ServiceInv, TypeInv, TypeOK
  <2>4. ASSUME i <= arrived[outbox[j].id] PROVE FALSE
    <3>1. CreatedAt(i) < CreatedAt(j)
      BY <1>3, <2>4 DEF StampInv
    <3>2. CreatedAt(j) <= CreatedAt(i)
      BY <2>1, <2>2
    <3> QED BY <2>3, <3>1, <3>2
  <2> QED BY <2>2, <2>3, <2>4
<1> QED BY <1>1, <1>2, <1>3, PTL DEF Spec
=============================================================================
