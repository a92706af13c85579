----------------------- MODULE ShipmentServiceProofs -----------------------
(***************************************************************************)
(* Theorems about ShipmentService, for every set of calls, every set of    *)
(* requests and every bound.                                               *)
(***************************************************************************)
EXTENDS ShipmentService, TLAPS

(***************************************************************************)
(* Where a call is tells which RPC it runs, and a change past its lookup   *)
(* has found a shipment and passed CanTransitionTo for the status it saw.  *)
(***************************************************************************)
CreateLabels ==
  {"build", "insertShipment", "stampInitial", "recordInitial", "initialInDoubt"}
ChangeLabels == {"stampChange", "updateShipment", "insertStatus"}
WriteLabels  == {"beginTx", "insertOutbox", "commit", "inDoubt"}

PathOK ==
  \A c \in Calls :
    /\ pc[c] \in CreateLabels => Creates(c)
    /\ pc[c] \in ChangeLabels => Changes(c)
    /\ pc[c] \in WriteLabels  => Creates(c) \/ Changes(c)
    /\ pc[c] = "readEvents"   => ~Creates(c) /\ ~Changes(c)
    /\ Changes(c) /\ pc[c] \in ChangeLabels \cup WriteLabels =>
         found[c] \in Calls /\ CanTransitionTo(seen[c], req[c].newStatus)

TypeInv == TypeOK /\ PathOK

LEMMA TransitionsWithinLifeCycle ==
  ASSUME NEW old, NEW new, CanTransitionTo(old, new)
  PROVE  old \in ShipmentStatus /\ new \in ShipmentStatus /\ new # StatusPending
BY DEF CanTransitionTo, validTransitions, ShipmentStatus, StatusPending,
       StatusPickedUp, StatusInTransit, StatusDelivered, StatusCancelled, StatusFailed

\* What Apply writes when the call runs a create, and when it runs a change.
LEMMA AppliedEventTyped ==
  ASSUME TypeInv, NEW c \in Calls, pc[c] \in {"commit", "inDoubt"}
  PROVE  /\ Creates(c) => CreatedEvent(c) \in OutboxEvent
         /\ ~Creates(c) => /\ Changes(c) /\ found[c] \in Calls
                           /\ req[c].newStatus \in ShipmentStatus
                           /\ ChangedEvent(c) \in OutboxEvent
                           /\ NewStatusEvent(c, found[c], req[c].newStatus) \in StatusEvent
<1>1. stamp[c] \in Nat
  BY DEF TypeInv, TypeOK
<1>2. Creates(c) => CreatedEvent(c) \in OutboxEvent
  BY <1>1 DEF CreatedEvent, NewOutboxEvent, OutboxEvent, ShipmentStatus,
              StatusUnspecified, StatusPending, StatusFailed
<1>3. ASSUME ~Creates(c)
      PROVE  Changes(c) /\ found[c] \in Calls /\ req[c].newStatus \in ShipmentStatus
  BY <1>3, TransitionsWithinLifeCycle DEF TypeInv, PathOK, WriteLabels
<1>4. ~Creates(c) => ChangedEvent(c) \in OutboxEvent
  BY <1>1, <1>3 DEF ChangedEvent, NewOutboxEvent, OutboxEvent
<1>5. ~Creates(c) => NewStatusEvent(c, found[c], req[c].newStatus) \in StatusEvent
  BY <1>1, <1>3 DEF NewStatusEvent, StatusEvent
<1> QED BY <1>2, <1>3, <1>4, <1>5

LEMMA ApplyTyped ==
  ASSUME TypeInv, NEW c \in Calls, pc[c] \in {"commit", "inDoubt"}, Apply(c)
  PROVE  /\ currentStatus' \in [Calls -> ShipmentStatus \cup {StatusUnspecified}]
         /\ history' \subseteq StatusEvent
         /\ outbox' \in Seq(OutboxEvent)
<1>1. /\ currentStatus \in [Calls -> ShipmentStatus \cup {StatusUnspecified}]
      /\ history \subseteq StatusEvent /\ outbox \in Seq(OutboxEvent)
  BY DEF TypeInv, TypeOK
<1>2. CASE Creates(c)
  <2>1. CreatedEvent(c) \in OutboxEvent /\ StatusPending \in ShipmentStatus
    BY <1>2, AppliedEventTyped DEF ShipmentStatus, StatusPending, StatusFailed
  <2>2. /\ currentStatus' = [currentStatus EXCEPT ![c] = StatusPending]
        /\ outbox' = Append(outbox, CreatedEvent(c)) /\ UNCHANGED history
    BY <1>2 DEF Apply
  <2>3. currentStatus' \in [Calls -> ShipmentStatus \cup {StatusUnspecified}]
    BY <1>1, <2>1, <2>2
  <2>4. outbox' \in Seq(OutboxEvent)
    <3> DEFINE event == CreatedEvent(c)
    <3>1. event \in OutboxEvent /\ outbox' = Append(outbox, event)
      BY <2>1, <2>2
    <3> HIDE DEF event
    <3> QED BY <1>1, <3>1
  <2> QED BY <1>1, <2>2, <2>3, <2>4
<1>3. CASE ~Creates(c)
  <2>1. /\ ChangedEvent(c) \in OutboxEvent
        /\ NewStatusEvent(c, found[c], req[c].newStatus) \in StatusEvent
        /\ req[c].newStatus \in ShipmentStatus
    BY <1>3, AppliedEventTyped
  <2>2. /\ currentStatus' = [currentStatus EXCEPT ![found[c]] = req[c].newStatus]
        /\ history' = history \cup {NewStatusEvent(c, found[c], req[c].newStatus)}
        /\ outbox' = Append(outbox, ChangedEvent(c))
    BY <1>3 DEF Apply
  <2>3. currentStatus' \in [Calls -> ShipmentStatus \cup {StatusUnspecified}]
    BY <1>1, <2>1, <2>2
  <2>4. history' \subseteq StatusEvent
    BY <1>1, <2>1, <2>2
  <2>5. outbox' \in Seq(OutboxEvent)
    <3> DEFINE event == ChangedEvent(c)
    <3>1. event \in OutboxEvent /\ outbox' = Append(outbox, event)
      BY <2>1, <2>2
    <3> HIDE DEF event
    <3> QED BY <1>1, <3>1
  <2> QED BY <2>3, <2>4, <2>5
<1> QED BY <1>2, <1>3

LEMMA TypeInit == Init => TypeInv
BY DEF Init, TypeInv, TypeOK, PathOK, Labels, InTx, Codes, StatusEvent,
       CreateLabels, ChangeLabels, WriteLabels, CreatedEvent

\* A crash ends the calls that run: it leaves two of their statements in doubt.
LEMMA CrashMoves ==
  ASSUME TypeOK, Crash
  PROVE  /\ UNCHANGED <<currentStatus, history, outbox, req, found, seen, stamp, clock,
                        view, arrived>>
         /\ \A c \in Running :
              /\ pc[c] \notin {"idle", "inDoubt", "initialInDoubt", "done"}
              /\ reply'[c] = "Unavailable"
              /\ pc[c] = "commit" => pc'[c] = "inDoubt"
              /\ pc[c] = "recordInitial" => pc'[c] = "initialInDoubt"
              /\ pc[c] \notin {"commit", "recordInitial"} => pc'[c] = "done"
         /\ \A c \in Calls \ Running : pc'[c] = pc[c] /\ reply'[c] = reply[c]
         /\ Running # {} /\ pc' \in [Calls -> Labels] /\ reply' \in [Calls -> Codes]
         /\ crashes' \in Nat
<1>1. /\ LeftBehind("commit") = "inDoubt"
      /\ LeftBehind("recordInitial") = "initialInDoubt"
      /\ \A label \in Labels \ {"commit", "recordInitial"} : LeftBehind(label) = "done"
  BY DEF LeftBehind
<1>2. \A c \in Calls : pc[c] \in Labels /\ LeftBehind(pc[c]) \in Labels
  BY <1>1 DEF TypeOK, Labels
<1>3. \A c \in Running : c \in Calls /\ pc[c] \notin {"idle", "inDoubt", "initialInDoubt", "done"}
  BY DEF Running
<1>4. pc' \in [Calls -> Labels] /\ reply' \in [Calls -> Codes]
  BY <1>2 DEF Crash, TypeOK, Codes
<1>5. \A c \in Running : reply'[c] = "Unavailable" /\ pc'[c] = LeftBehind(pc[c])
  BY <1>3 DEF Crash
<1>6. \A c \in Calls \ Running : pc'[c] = pc[c] /\ reply'[c] = reply[c]
  BY DEF Crash
<1>7. /\ UNCHANGED <<currentStatus, history, outbox, req, found, seen, stamp, clock,
                      view, arrived>>
      /\ Running # {} /\ crashes' \in Nat
  BY DEF Crash, store, TypeOK
<1> HIDE DEF Running, LeftBehind, Labels, Codes
<1> QED BY <1>1, <1>2, <1>3, <1>4, <1>5, <1>6, <1>7

LEMMA TypeStep == TypeInv /\ [Next]_vars => TypeInv'
<1> SUFFICES ASSUME TypeInv, [Next]_vars PROVE TypeInv'
  OBVIOUS
<1> USE DEF TypeInv, Goto, Answer, InTx
<1>1. ASSUME NEW c \in Calls, Receive(c) PROVE TypeInv'
  <2>0. Len(outbox) \in Nat
    BY DEF TypeOK
  <2>1. TypeOK'
    BY <1>1, <2>0 DEF Receive, TypeOK, Labels, Codes, store
  <2>2. PathOK'
    BY <1>1 DEF Receive, TypeOK, PathOK, CreateLabels, ChangeLabels, WriteLabels, Creates, Changes
  <2> QED BY <2>1, <2>2
<1>2. ASSUME NEW c \in Calls, Build(c) PROVE TypeInv'
  <2>1. clock' \in Nat /\ stamp' \in [Calls -> Nat]
    <3>1. CASE ReadClock(c)
      BY <3>1 DEF ReadClock, TypeOK
    <3>2. CASE UNCHANGED <<stamp, clock>>
      BY <3>2 DEF TypeOK
    <3> QED BY <1>2, <3>1, <3>2 DEF Build
  <2>2. TypeOK'
    BY <1>2, <2>1 DEF Build, TypeOK, Labels, Codes, store
  <2>3. PathOK'
    BY <1>2 DEF Build, TypeOK, PathOK, CreateLabels, ChangeLabels, WriteLabels, Creates, Changes
  <2> QED BY <2>2, <2>3
<1>3. ASSUME NEW c \in Calls, LookupMisses(c) PROVE TypeInv'
  <2>1. TypeOK'
    BY <1>3 DEF LookupMisses, TypeOK, Labels, Codes, store
  <2>2. PathOK'
    BY <1>3 DEF LookupMisses, TypeOK, PathOK, CreateLabels, ChangeLabels, WriteLabels, Creates, Changes
  <2> QED BY <2>1, <2>2
<1>4. ASSUME NEW c \in Calls, LookupFinds(c) PROVE TypeInv'
  <2>1. PICK s \in Calls : /\ s \in GetByReferenceNumber(req[c].ref)
                           /\ found' = [found EXCEPT ![c] = s]
                           /\ seen'  = [seen EXCEPT ![c] = currentStatus[s]]
                           /\ Proceed(c, currentStatus[s])
    BY <1>4 DEF LookupFinds, GetByReferenceNumber
  <2>2. TypeOK'
    BY <1>4, <2>1 DEF LookupFinds, Proceed, TypeOK, Labels, Codes, store
  <2>3. PathOK'
    BY <1>4, <2>1 DEF LookupFinds, Proceed, TypeOK, PathOK, CreateLabels, ChangeLabels, WriteLabels, Creates, Changes
  <2> QED BY <2>2, <2>3
<1>5. ASSUME NEW c \in Calls, StampChange(c) PROVE TypeInv'
  <2>1. TypeOK'
    BY <1>5 DEF StampChange, ReadClock, TypeOK, Labels, Codes, store
  <2>2. PathOK'
    BY <1>5 DEF StampChange, TypeOK, PathOK, CreateLabels, ChangeLabels, WriteLabels, Creates, Changes
  <2> QED BY <2>1, <2>2
<1>6. ASSUME NEW c \in Calls, GetStatusEvents(c) PROVE TypeInv'
  <2>1. TypeOK'
    BY <1>6 DEF GetStatusEvents, TypeOK, Labels, Codes, store
  <2>2. PathOK'
    BY <1>6 DEF GetStatusEvents, TypeOK, PathOK, CreateLabels, ChangeLabels, WriteLabels, Creates, Changes
  <2> QED BY <2>1, <2>2
<1>7. ASSUME NEW c \in Calls, BeginTx(c) PROVE TypeInv'
  <2>1. TypeOK'
    BY <1>7 DEF BeginTx, TypeOK, Labels, Codes, store
  <2>2. PathOK'
    BY <1>7 DEF BeginTx, TypeOK, PathOK, CreateLabels, ChangeLabels, WriteLabels, Creates, Changes
  <2> QED BY <2>1, <2>2
<1>8. ASSUME NEW c \in Calls, InsertShipment(c) PROVE TypeInv'
  <2>1. TypeOK'
    BY <1>8 DEF InsertShipment, TypeOK, Labels, Codes, store
  <2>2. PathOK'
    BY <1>8 DEF InsertShipment, TypeOK, PathOK, CreateLabels, ChangeLabels, WriteLabels, Creates, Changes
  <2> QED BY <2>1, <2>2
<1>9. ASSUME NEW c \in Calls, UpdateShipment(c) PROVE TypeInv'
  <2>1. TypeOK'
    BY <1>9 DEF UpdateShipment, TypeOK, Labels, Codes, store
  <2>2. PathOK'
    BY <1>9 DEF UpdateShipment, TypeOK, PathOK, CreateLabels, ChangeLabels, WriteLabels, Creates, Changes
  <2> QED BY <2>1, <2>2
<1>10. ASSUME NEW c \in Calls, InsertStatusEvent(c) PROVE TypeInv'
  <2>1. TypeOK'
    BY <1>10 DEF InsertStatusEvent, TypeOK, Labels, Codes, store
  <2>2. PathOK'
    BY <1>10 DEF InsertStatusEvent, TypeOK, PathOK, CreateLabels, ChangeLabels, WriteLabels, Creates, Changes
  <2> QED BY <2>1, <2>2
<1>11. ASSUME NEW c \in Calls, InsertOutboxEvent(c) PROVE TypeInv'
  <2>1. TypeOK'
    BY <1>11 DEF InsertOutboxEvent, TypeOK, Labels, Codes, store
  <2>2. PathOK'
    BY <1>11 DEF InsertOutboxEvent, TypeOK, PathOK, CreateLabels, ChangeLabels, WriteLabels, Creates, Changes
  <2> QED BY <2>1, <2>2
<1>12. ASSUME NEW c \in Calls, Commit(c) PROVE TypeInv'
  <2>1. /\ currentStatus' \in [Calls -> ShipmentStatus \cup {StatusUnspecified}]
        /\ history' \subseteq StatusEvent /\ outbox' \in Seq(OutboxEvent)
    BY <1>12, ApplyTyped DEF Commit, TypeOK, store
  <2>2. TypeOK'
    BY <1>12, <2>1 DEF Commit, TypeOK, Labels, Codes
  <2>3. PathOK'
    BY <1>12 DEF Commit, TypeOK, PathOK, CreateLabels, ChangeLabels, WriteLabels, Creates, Changes
  <2> QED BY <2>2, <2>3
<1>13. ASSUME NEW c \in Calls, CommitLost(c) PROVE TypeInv'
  <2>1. TypeOK'
    BY <1>13 DEF CommitLost, TypeOK, Labels, Codes, store
  <2>2. PathOK'
    BY <1>13 DEF CommitLost, TypeOK, PathOK, CreateLabels, ChangeLabels, WriteLabels, Creates, Changes
  <2> QED BY <2>1, <2>2
<1>14. ASSUME NEW c \in Calls, Resolve(c) PROVE TypeInv'
  <2>1. /\ currentStatus' \in [Calls -> ShipmentStatus \cup {StatusUnspecified}]
        /\ history' \subseteq StatusEvent /\ outbox' \in Seq(OutboxEvent)
    BY <1>14, ApplyTyped DEF Resolve, TypeOK, store
  <2>2. TypeOK'
    BY <1>14, <2>1 DEF Resolve, TypeOK, Labels, Codes
  <2>3. PathOK'
    BY <1>14 DEF Resolve, TypeOK, PathOK, CreateLabels, ChangeLabels, WriteLabels, Creates, Changes
  <2> QED BY <2>2, <2>3
<1>15. ASSUME NEW c \in Calls, Fail(c) PROVE TypeInv'
  <2>1. TypeOK'
    BY <1>15 DEF Fail, TypeOK, Labels, Codes, store
  <2>2. PathOK'
    BY <1>15 DEF Fail, TypeOK, PathOK, CreateLabels, ChangeLabels, WriteLabels, Creates, Changes
  <2> QED BY <2>1, <2>2
<1>16. ASSUME NEW c \in Calls, StampInitial(c) PROVE TypeInv'
  <2>1. TypeOK'
    BY <1>16 DEF StampInitial, ReadClock, TypeOK, Labels, Codes, store
  <2>2. PathOK'
    BY <1>16 DEF StampInitial, TypeOK, PathOK, CreateLabels, ChangeLabels, WriteLabels, Creates, Changes
  <2> QED BY <2>1, <2>2
<1>17. ASSUME NEW c \in Calls, RecordInitial(c) PROVE TypeInv'
  <2>1. InitialEvent(c) \in StatusEvent
    BY DEF InitialEvent, NewStatusEvent, StatusEvent, TypeOK, ShipmentStatus, StatusPending,
           StatusFailed
  <2>2. TypeOK'
    BY <1>17, <2>1 DEF RecordInitial, TypeOK, Labels, Codes
  <2>3. PathOK'
    BY <1>17 DEF RecordInitial, TypeOK, PathOK, CreateLabels, ChangeLabels, WriteLabels, Creates, Changes
  <2> QED BY <2>2, <2>3
<1>18. ASSUME NEW c \in Calls, ResolveInitial(c) PROVE TypeInv'
  <2>1. InitialEvent(c) \in StatusEvent
    BY DEF InitialEvent, NewStatusEvent, StatusEvent, TypeOK, ShipmentStatus, StatusPending,
           StatusFailed
  <2>2. TypeOK'
    BY <1>18, <2>1 DEF ResolveInitial, TypeOK, Labels, Codes
  <2>3. PathOK'
    BY <1>18 DEF ResolveInitial, TypeOK, PathOK, CreateLabels, ChangeLabels, WriteLabels, Creates, Changes
  <2> QED BY <2>2, <2>3
<1>19. ASSUME Crash PROVE TypeInv'
  <2>1. TypeOK'
    BY <1>19, CrashMoves DEF TypeOK
  <2>2. \A c \in Calls : \/ pc'[c] = pc[c] \/ pc'[c] = "done"
                         \/ pc'[c] = "inDoubt" /\ pc[c] = "commit"
                         \/ pc'[c] = "initialInDoubt" /\ pc[c] = "recordInitial"
    BY <1>19, CrashMoves
  <2>3. PathOK'
    BY <1>19, <2>2, CrashMoves DEF PathOK, CreateLabels, ChangeLabels, WriteLabels, Creates,
                                   Changes, CanTransitionTo
  <2> QED BY <2>1, <2>3
<1>20. CASE UNCHANGED vars
  BY <1>20 DEF TypeOK, PathOK, vars, store, Creates, Changes, CanTransitionTo
<1> QED
  BY <1>1, <1>2, <1>3, <1>4, <1>5, <1>6, <1>7, <1>8, <1>9, <1>10, <1>11, <1>12, <1>13, <1>14, <1>15, <1>16, <1>17, <1>18, <1>19, <1>20 DEF Next, Step, Progress, Quiescent

\* Every variable has its type in every reachable state; in particular no
\* status outside the life cycle is ever stored, whatever the requests carry
\* (validateAddStatusEventRequest lets unknown numbers through, CanTransitionTo
\* refuses them).
THEOREM TypeCorrect == Spec => []TypeOK
<1>1. Spec => []TypeInv
  BY TypeInit, TypeStep, PTL DEF Spec
<1> QED BY <1>1, PTL DEF TypeInv

-----------------------------------------------------------------------------
(***************************************************************************)
(* The shipments and the outbox change together: a step leaves both alone, *)
(* or applies the transaction of one call.                                 *)
(***************************************************************************)
NewEvent(c) == IF Creates(c) THEN CreatedEvent(c) ELSE ChangedEvent(c)

LEMMA StoreStep ==
  ASSUME [Next]_vars
  PROVE  /\ req' = req
         /\ \/ UNCHANGED <<currentStatus, outbox, found, seen>>
            \/ \E c \in Calls : LookupFinds(c)
            \/ \E c \in Calls : /\ pc[c] \in {"commit", "inDoubt"} /\ Apply(c)
                                /\ UNCHANGED <<found, seen>>
<1>1. CASE UNCHANGED vars
  BY <1>1 DEF vars, store
<1>2. CASE Crash
  BY <1>2 DEF Crash, store
<1>3. ASSUME NEW c \in Calls, Receive(c) PROVE UNCHANGED <<store, req, found, seen>>
  BY <1>3 DEF Receive
<1>4. ASSUME NEW c \in Calls, Commit(c) \/ Resolve(c)
      PROVE  /\ UNCHANGED <<req, found, seen>>
             /\ Apply(c) \/ UNCHANGED store
             /\ pc[c] \in {"commit", "inDoubt"}
  BY <1>4 DEF Commit, Resolve
<1>5. ASSUME NEW c \in Calls, LookupFinds(c) PROVE req' = req
  BY <1>5 DEF LookupFinds
<1>6. ASSUME NEW c \in Calls, RecordInitial(c) \/ ResolveInitial(c)
      PROVE  UNCHANGED <<currentStatus, outbox, req, found, seen>>
  BY <1>6 DEF RecordInitial, ResolveInitial
<1>7. ASSUME NEW c \in Calls, Step(c), ~LookupFinds(c), ~Commit(c), ~Resolve(c),
             ~RecordInitial(c), ~ResolveInitial(c)
      PROVE  UNCHANGED <<store, req, found, seen>>
  BY <1>7 DEF Step, Progress, Build, LookupMisses, GetStatusEvents, StampChange, BeginTx,
              InsertShipment, UpdateShipment, InsertStatusEvent, InsertOutboxEvent,
              CommitLost, Fail, StampInitial, store
<1> QED
  BY <1>1, <1>2, <1>3, <1>4, <1>5, <1>6, <1>7 DEF Next, Quiescent, store

LEMMA ApplyAppends ==
  ASSUME TypeInv, NEW c \in Calls, pc[c] \in {"commit", "inDoubt"}, Apply(c)
  PROVE  /\ NewEvent(c) \in OutboxEvent
         /\ Events' = 1..Len(outbox) + 1 /\ Events = 1..Len(outbox)
         /\ Len(outbox) \in Nat
         /\ \A i \in Events : outbox'[i] = outbox[i]
         /\ outbox'[Len(outbox) + 1] = NewEvent(c)
         /\ currentStatus' = [currentStatus EXCEPT ![NewEvent(c).aggregate]
                                = NewEvent(c).newStatus]
<1>1. NewEvent(c) \in OutboxEvent /\ outbox \in Seq(OutboxEvent)
  BY AppliedEventTyped DEF NewEvent, TypeInv, TypeOK
<1>2. outbox' = Append(outbox, NewEvent(c))
  BY DEF Apply, NewEvent
<1>3. currentStatus' = [currentStatus EXCEPT ![NewEvent(c).aggregate]
                         = NewEvent(c).newStatus]
  BY DEF Apply, NewEvent, CreatedEvent, ChangedEvent, NewOutboxEvent
<1> QED
  BY <1>1, <1>2, <1>3 DEF Events

(***************************************************************************)
(* Every status a call acts on was announced by an event: the one in the   *)
(* row, and the one a lookup saw, however long ago that was.               *)
(***************************************************************************)
HadStatus(s, st) ==
  \E j \in Events : outbox[j].aggregate = s /\ outbox[j].newStatus = st

OriginInv ==
  /\ \A s \in Calls : currentStatus[s] # StatusUnspecified => HadStatus(s, currentStatus[s])
  /\ \A c \in Calls : found[c] \in Calls => HadStatus(found[c], seen[c])
  /\ \A i \in Events : outbox[i].eventType = "shipment.created"
                        => outbox[i].newStatus = StatusPending
  /\ ChangeHasLegalOrigin

LEMMA OriginInit == Init => OriginInv
BY NoShipmentAssumption DEF Init, OriginInv, ChangeHasLegalOrigin, Events, HadStatus

LEMMA HadStatusKept ==
  ASSUME TypeInv, NEW c \in Calls, pc[c] \in {"commit", "inDoubt"}, Apply(c),
         NEW s, NEW st, HadStatus(s, st)
  PROVE  HadStatus(s, st)'
BY ApplyAppends DEF HadStatus

LEMMA OriginStep == TypeInv /\ OriginInv /\ [Next]_vars => OriginInv'
<1> SUFFICES ASSUME TypeInv, OriginInv, [Next]_vars PROVE OriginInv'
  OBVIOUS
<1>1. CASE UNCHANGED <<currentStatus, outbox, found, seen>>
  BY <1>1 DEF OriginInv, HadStatus, ChangeHasLegalOrigin, Events, CanTransitionTo
<1>2. ASSUME NEW c \in Calls, LookupFinds(c) PROVE OriginInv'
  <2>1. PICK s \in Calls : /\ currentStatus[s] # StatusUnspecified
                           /\ found' = [found EXCEPT ![c] = s]
                           /\ seen'  = [seen EXCEPT ![c] = currentStatus[s]]
    BY <1>2 DEF LookupFinds, GetByReferenceNumber
  <2>2. UNCHANGED <<currentStatus, outbox>>
    BY <1>2 DEF LookupFinds, store
  <2>3. HadStatus(s, currentStatus[s])
    BY <2>1 DEF OriginInv
  <2>4. ASSUME NEW d \in Calls, found'[d] \in Calls PROVE HadStatus(found'[d], seen'[d])
    BY <2>1, <2>3, <2>4 DEF OriginInv, TypeInv, TypeOK
  <2> QED
    BY <2>2, <2>4 DEF OriginInv, HadStatus, ChangeHasLegalOrigin, Events, CanTransitionTo
<1>3. ASSUME NEW c \in Calls, pc[c] \in {"commit", "inDoubt"}, Apply(c),
             UNCHANGED <<found, seen>>
      PROVE  OriginInv'
  <2> DEFINE n == Len(outbox) + 1
             new == NewEvent(c)
  <2>1. /\ new \in OutboxEvent /\ Events' = 1..n /\ Events = 1..n-1 /\ n \in Nat \ {0}
        /\ \A i \in 1..n-1 : outbox'[i] = outbox[i]
        /\ outbox'[n] = new
        /\ currentStatus' = [currentStatus EXCEPT ![new.aggregate] = new.newStatus]
    BY <1>3, ApplyAppends
  <2>2. currentStatus \in [Calls -> ShipmentStatus \cup {StatusUnspecified}]
    BY DEF TypeInv, TypeOK
  <2>3. ASSUME NEW s \in Calls, currentStatus'[s] # StatusUnspecified
        PROVE  HadStatus(s, currentStatus[s])'
    <3>1. CASE s = new.aggregate
      BY <2>1, <2>2, <3>1 DEF HadStatus
    <3>2. CASE s # new.aggregate
      <4>1. currentStatus'[s] = currentStatus[s]
        BY <2>1, <2>2, <3>2
      <4>2. HadStatus(s, currentStatus[s])
        BY <2>3, <4>1 DEF OriginInv
      <4>3. PICK j \in Events : outbox[j].aggregate = s /\ outbox[j].newStatus = currentStatus[s]
        BY <4>2 DEF HadStatus
      <4> QED BY <2>1, <4>1, <4>3 DEF HadStatus
    <3> QED BY <3>1, <3>2
  <2>4. ASSUME NEW d \in Calls, found'[d] \in Calls
        PROVE  HadStatus(found[d], seen[d])'
    <3>1. HadStatus(found[d], seen[d])
      BY <1>3, <2>4 DEF OriginInv
    <3>2. PICK j \in Events : outbox[j].aggregate = found[d] /\ outbox[j].newStatus = seen[d]
      BY <3>1 DEF HadStatus
    <3> QED BY <1>3, <2>1, <3>2 DEF HadStatus
  <2>5. ASSUME NEW i \in 1..n, outbox'[i].eventType = "shipment.created"
        PROVE  outbox'[i].newStatus = StatusPending
    <3>1. new.eventType = "shipment.created" => new.newStatus = StatusPending
      BY DEF NewEvent, CreatedEvent, ChangedEvent, NewOutboxEvent
    <3> QED BY <2>1, <2>5, <3>1 DEF OriginInv
  <2>6. ChangeHasLegalOrigin'
    <3>1. ASSUME NEW i \in 1..n, outbox'[i].eventType = "shipment.status_changed"
          PROVE  \E j \in 1..n : /\ j < i
                                 /\ outbox'[j].aggregate = outbox'[i].aggregate
                                 /\ CanTransitionTo(outbox'[j].newStatus, outbox'[i].newStatus)
      <4>1. CASE i \in 1..n-1
        BY <2>1, <3>1, <4>1 DEF OriginInv, ChangeHasLegalOrigin
      <4>2. CASE i = n
        <5>1. ~Creates(c) /\ new = ChangedEvent(c)
          BY <2>1, <3>1, <4>2 DEF NewEvent, CreatedEvent, NewOutboxEvent
        <5>2. found[c] \in Calls /\ CanTransitionTo(seen[c], req[c].newStatus)
          BY <1>3, <5>1 DEF TypeInv, PathOK, WriteLabels
        <5>3. new.aggregate = found[c] /\ new.newStatus = req[c].newStatus
          BY <5>1 DEF ChangedEvent, NewOutboxEvent
        <5>4. HadStatus(found[c], seen[c])
          BY <5>2 DEF OriginInv
        <5>5. PICK j \in 1..n-1 : outbox[j].aggregate = found[c] /\ outbox[j].newStatus = seen[c]
          BY <2>1, <5>4 DEF HadStatus
        <5>6. j \in 1..n /\ j < n
          BY <2>1
        <5> QED BY <2>1, <4>2, <5>2, <5>3, <5>5, <5>6
      <4> QED BY <2>1, <4>1, <4>2
    <3> QED BY <2>1, <3>1 DEF ChangeHasLegalOrigin, CanTransitionTo
  <2> HIDE DEF n, new
  <2> QED BY <2>1, <2>3, <2>4, <2>5, <2>6 DEF OriginInv
<1> QED BY <1>1, <1>2, <1>3, StoreStep

\* Every committed status change is a legal successor of a status its shipment
\* had earlier: the transition checked by AddStatusEvent is never checked
\* against a status that no transaction had committed.
THEOREM ChangesHaveLegalOrigin == Spec => []ChangeHasLegalOrigin
<1>1. Init => TypeInv /\ OriginInv
  BY TypeInit, OriginInit
<1>2. TypeInv /\ OriginInv /\ [Next]_vars => (TypeInv /\ OriginInv)'
  BY TypeStep, OriginStep
<1>3. OriginInv => ChangeHasLegalOrigin
  BY DEF OriginInv
<1> QED BY <1>1, <1>2, <1>3, PTL DEF Spec

\* No shipment is ever delivered that was not picked up and in transit before,
\* however many changes race on copies of its row.
THEOREM DeliveredAfterTransit == Spec => []DeliveredOnlyAfterTransit
<1>1. Init => TypeInv /\ OriginInv
  BY TypeInit, OriginInit
<1>2. TypeInv /\ OriginInv /\ [Next]_vars => (TypeInv /\ OriginInv)'
  BY TypeStep, OriginStep
<1>3. ASSUME TypeInv, OriginInv PROVE DeliveredOnlyAfterTransit
  <2> SUFFICES ASSUME NEW i \in Events, outbox[i].newStatus = StatusDelivered
               PROVE  \E j, k \in Events : /\ j < k /\ k < i
                                           /\ outbox[j].aggregate = outbox[i].aggregate
                                           /\ outbox[k].aggregate = outbox[i].aggregate
                                           /\ outbox[j].newStatus = StatusPickedUp
                                           /\ outbox[k].newStatus = StatusInTransit
    BY DEF DeliveredOnlyAfterTransit
  <2>1. ASSUME NEW m \in Events, outbox[m].newStatus # StatusPending
        PROVE  outbox[m].eventType = "shipment.status_changed"
    <3>1. outbox[m] \in OutboxEvent
      BY <1>3, <2>1 DEF Events, TypeInv, TypeOK
    <3> QED BY <1>3, <2>1, <3>1 DEF OriginInv, OutboxEvent
  <2>2. PICK k \in Events : /\ k < i /\ outbox[k].aggregate = outbox[i].aggregate
                            /\ CanTransitionTo(outbox[k].newStatus, StatusDelivered)
    BY <1>3, <2>1 DEF OriginInv, ChangeHasLegalOrigin, StatusDelivered, StatusPending
  <2>3. outbox[k].newStatus = StatusInTransit
    BY <2>2 DEF CanTransitionTo, validTransitions, StatusDelivered, StatusPending,
                StatusPickedUp, StatusInTransit, StatusCancelled, StatusFailed
  <2>4. PICK j \in Events : /\ j < k /\ outbox[j].aggregate = outbox[k].aggregate
                            /\ CanTransitionTo(outbox[j].newStatus, StatusInTransit)
    BY <1>3, <2>1, <2>3 DEF OriginInv, ChangeHasLegalOrigin, StatusInTransit, StatusPending
  <2>5. outbox[j].newStatus = StatusPickedUp
    BY <2>4 DEF CanTransitionTo, validTransitions, StatusDelivered, StatusPending,
                StatusPickedUp, StatusInTransit, StatusCancelled, StatusFailed
  <2> QED BY <2>2, <2>3, <2>4, <2>5
<1> QED BY <1>1, <1>2, <1>3, PTL DEF Spec

-----------------------------------------------------------------------------
(***************************************************************************)
(* A reference number that a create has written but not committed belongs  *)
(* to no row and to no other such create, so whichever transactions commit *)
(* the index stays unique.                                                 *)
(***************************************************************************)
ReservedOnce ==
  \A c \in Calls : Creates(c) /\ pc[c] \in HoldsRow =>
    /\ GetByReferenceNumber(req[c].ref) = {}
    /\ \A d \in Calls : Creates(d) /\ pc[d] \in HoldsRow /\ req[d].ref = req[c].ref
                        => d = c

FoundHasRow ==
  \A c \in Calls : found[c] \in Calls => currentStatus[found[c]] # StatusUnspecified

UniqueInv == UniqueReference /\ ReservedOnce /\ FoundHasRow

LEMMA UniqueInit == Init => UniqueInv
BY NoShipmentAssumption
DEF Init, UniqueInv, UniqueReference, ReservedOnce, FoundHasRow, HoldsRow

\* Only InsertShipment makes a create hold a row; the call whose transaction
\* is applied holds none afterwards.
LEMMA HoldStep ==
  ASSUME TypeInv, [Next]_vars
  PROVE  \/ /\ UNCHANGED <<currentStatus, found>>
            /\ \A d \in Calls : Creates(d) /\ pc'[d] \in HoldsRow => pc[d] \in HoldsRow
         \/ \E c \in Calls : InsertShipment(c)
         \/ \E c \in Calls : LookupFinds(c)
         \/ \E c \in Calls : /\ pc[c] \in {"commit", "inDoubt"} /\ Apply(c)
                             /\ found' = found /\ pc'[c] \notin HoldsRow
                             /\ \A d \in Calls \ {c} : pc'[d] = pc[d]
<1> USE DEF Goto, Answer, HoldsRow
<1>1. CASE UNCHANGED vars
  BY <1>1 DEF vars, store
<1>2. CASE Crash
  <2>1. UNCHANGED <<currentStatus, found>>
    BY <1>2, CrashMoves DEF TypeInv
  <2>2. \A d \in Calls : pc'[d] \in HoldsRow => pc[d] \in HoldsRow
    BY <1>2, CrashMoves DEF TypeInv
  <2> QED BY <2>1, <2>2
<1>3. ASSUME NEW c \in Calls, Receive(c)
      PROVE  /\ UNCHANGED <<currentStatus, found>>
             /\ \A d \in Calls : Creates(d) /\ pc'[d] \in HoldsRow => pc[d] \in HoldsRow
  BY <1>3 DEF Receive, store, TypeInv, TypeOK
<1>4. ASSUME NEW c \in Calls, Commit(c) \/ Resolve(c)
      PROVE  /\ pc[c] \in {"commit", "inDoubt"} /\ found' = found
             /\ pc'[c] \notin HoldsRow /\ \A d \in Calls \ {c} : pc'[d] = pc[d]
             /\ Apply(c) \/ UNCHANGED store
  BY <1>4 DEF Commit, Resolve, TypeInv, TypeOK
<1>5. ASSUME NEW c \in Calls, UpdateShipment(c) \/ InsertStatusEvent(c)
      PROVE  /\ UNCHANGED <<currentStatus, found>> /\ ~Creates(c)
             /\ \A d \in Calls \ {c} : pc'[d] = pc[d]
  BY <1>5 DEF UpdateShipment, InsertStatusEvent, store, TypeInv, TypeOK, PathOK,
              ChangeLabels, Creates, Changes
<1>6. ASSUME NEW c \in Calls, InsertOutboxEvent(c) \/ CommitLost(c)
      PROVE  /\ UNCHANGED <<currentStatus, found>> /\ pc[c] \in HoldsRow
             /\ \A d \in Calls \ {c} : pc'[d] = pc[d]
  BY <1>6 DEF InsertOutboxEvent, CommitLost, store, TypeInv, TypeOK
<1>7. ASSUME NEW c \in Calls,
             \/ Build(c) \/ LookupMisses(c) \/ GetStatusEvents(c) \/ StampChange(c)
             \/ BeginTx(c) \/ Fail(c) \/ StampInitial(c) \/ RecordInitial(c)
             \/ ResolveInitial(c)
      PROVE  /\ UNCHANGED <<currentStatus, found>> /\ pc'[c] \notin HoldsRow
             /\ \A d \in Calls \ {c} : pc'[d] = pc[d]
  BY <1>7 DEF Build, LookupMisses, GetStatusEvents, StampChange, BeginTx, Fail,
              StampInitial, RecordInitial, ResolveInitial, store, TypeInv, TypeOK
<1> HIDE DEF Goto, Answer, HoldsRow
<1>8. QED
  BY <1>1, <1>2, <1>3, <1>4, <1>5, <1>6, <1>7 DEF Next, Step, Progress, Quiescent, store

LEMMA UniqueStep == TypeInv /\ UniqueInv /\ [Next]_vars => UniqueInv'
<1> SUFFICES ASSUME TypeInv, UniqueInv, [Next]_vars PROVE UniqueInv'
  OBVIOUS
<1>1. req' = req
  BY StoreStep
<1>2. CASE /\ UNCHANGED <<currentStatus, found>>
           /\ \A d \in Calls : Creates(d) /\ pc'[d] \in HoldsRow => pc[d] \in HoldsRow
  BY <1>1, <1>2 DEF UniqueInv, UniqueReference, ReservedOnce, FoundHasRow, Creates,
                    GetByReferenceNumber
<1>3. ASSUME NEW c \in Calls, InsertShipment(c) PROVE UniqueInv'
  <2>1. /\ UNCHANGED <<currentStatus, found>>
        /\ pc'[c] \in HoldsRow => /\ GetByReferenceNumber(req[c].ref) = {}
                                  /\ ~RefReserved(req[c].ref)
        /\ \A d \in Calls \ {c} : pc'[d] = pc[d]
    BY <1>3 DEF InsertShipment, Goto, Answer, HoldsRow, store, TypeInv, TypeOK
  <2>2. ReservedOnce'
    BY <1>1, <2>1 DEF UniqueInv, ReservedOnce, RefReserved, Creates, GetByReferenceNumber
  <2> QED
    BY <1>1, <2>1, <2>2 DEF UniqueInv, UniqueReference, FoundHasRow
<1>4. ASSUME NEW c \in Calls, LookupFinds(c) PROVE UniqueInv'
  <2>1. /\ UNCHANGED currentStatus
        /\ pc'[c] \notin HoldsRow /\ \A d \in Calls \ {c} : pc'[d] = pc[d]
        /\ \E s \in Calls : /\ currentStatus[s] # StatusUnspecified
                            /\ found' = [found EXCEPT ![c] = s]
    <3>1. \E to \in {"done", "readEvents", "stampChange"} : pc' = [pc EXCEPT ![c] = to]
      BY <1>4 DEF LookupFinds, Proceed, Goto, Answer
    <3>2. pc'[c] \notin HoldsRow /\ \A d \in Calls \ {c} : pc'[d] = pc[d]
      BY <3>1 DEF HoldsRow, TypeInv, TypeOK
    <3> QED BY <1>4, <3>2 DEF LookupFinds, GetByReferenceNumber, store
  <2>2. FoundHasRow'
    BY <2>1 DEF UniqueInv, FoundHasRow, TypeInv, TypeOK
  <2> QED
    BY <1>1, <2>1, <2>2 DEF UniqueInv, UniqueReference, ReservedOnce, Creates,
                            GetByReferenceNumber
<1>5. ASSUME NEW c \in Calls, pc[c] \in {"commit", "inDoubt"}, Apply(c),
             found' = found, pc'[c] \notin HoldsRow,
             \A d \in Calls \ {c} : pc'[d] = pc[d]
      PROVE  UniqueInv'
  <2>1. currentStatus \in [Calls -> ShipmentStatus \cup {StatusUnspecified}]
    BY DEF TypeInv, TypeOK
  <2>2. CASE Creates(c)
    <3>1. currentStatus' = [currentStatus EXCEPT ![c] = StatusPending]
      BY <1>5, <2>2 DEF Apply
    <3>2. /\ GetByReferenceNumber(req[c].ref) = {}
          /\ \A d \in Calls : Creates(d) /\ pc[d] \in HoldsRow /\ req[d].ref = req[c].ref
                              => d = c
      BY <1>5, <2>2 DEF UniqueInv, ReservedOnce, HoldsRow
    <3>3. UniqueReference'
      BY <1>1, <2>1, <3>1, <3>2 DEF UniqueInv, UniqueReference, GetByReferenceNumber
    <3>4. ReservedOnce'
      BY <1>1, <1>5, <2>1, <3>1, <3>2 DEF UniqueInv, ReservedOnce, Creates, GetByReferenceNumber
    <3>5. FoundHasRow'
      BY <1>5, <2>1, <3>1 DEF UniqueInv, FoundHasRow, StatusPending, StatusUnspecified
    <3> QED BY <3>3, <3>4, <3>5 DEF UniqueInv
  <2>3. CASE ~Creates(c)
    <3>1. found[c] \in Calls /\ currentStatus[found[c]] # StatusUnspecified
      BY <1>5, <2>3, AppliedEventTyped DEF UniqueInv, FoundHasRow
    <3>2. \A s \in Calls : (currentStatus'[s] # StatusUnspecified)
                             <=> (currentStatus[s] # StatusUnspecified)
      <4>1. currentStatus' = [currentStatus EXCEPT ![found[c]] = req[c].newStatus]
        BY <1>5, <2>3 DEF Apply
      <4>2. req[c].newStatus # StatusUnspecified
        BY <1>5, <2>3, AppliedEventTyped
        DEF ShipmentStatus, StatusPending, StatusFailed, StatusUnspecified
      <4> QED BY <2>1, <3>1, <4>1, <4>2
    <3> QED
      BY <1>1, <1>5, <3>2 DEF UniqueInv, UniqueReference, ReservedOnce, FoundHasRow,
                              Creates, GetByReferenceNumber
  <2> QED BY <2>2, <2>3
<1> QED BY <1>2, <1>3, <1>4, <1>5, HoldStep

\* However creates of one reference number race, fail, crash or are left in
\* doubt, at most one shipment with it is ever stored.
THEOREM ReferencesUnique == Spec => []UniqueReference
<1>1. Init => TypeInv /\ UniqueInv
  BY TypeInit, UniqueInit
<1>2. TypeInv /\ UniqueInv /\ [Next]_vars => (TypeInv /\ UniqueInv)'
  BY TypeStep, UniqueStep
<1>3. UniqueInv => UniqueReference
  BY DEF UniqueInv
<1> QED BY <1>1, <1>2, <1>3, PTL DEF Spec

-----------------------------------------------------------------------------
(***************************************************************************)
(* What a call has answered, against where it is and whether its           *)
(* transaction was applied.                                                *)
(***************************************************************************)
Refusals == {"InvalidArgument", "NotFound", "AlreadyExists", "FailedPrecondition"}

AnswerFits(c) ==
  /\ Committed(c) =>
       pc[c] \in {"stampInitial", "recordInitial", "initialInDoubt", "done"}
  /\ pc[c] \in {"stampInitial", "recordInitial", "initialInDoubt"} => Committed(c)
  /\ reply[c] # "none" => pc[c] \in {"inDoubt", "initialInDoubt", "done"}
  /\ pc[c] = "inDoubt" => reply[c] \in {"Internal", "Unavailable"}
  /\ pc[c] = "initialInDoubt" => reply[c] \in {"OK", "Unavailable"}
  /\ (Creates(c) \/ Changes(c)) /\ reply[c] = "OK" => Committed(c)
  /\ reply[c] \in Refusals => ~Committed(c)

AppliedOnce == \A i, j \in Events : outbox[i].id = outbox[j].id => i = j

AnswerInv == AppliedOnce /\ \A c \in Calls : AnswerFits(c)

LEMMA AnswerInit == Init => AnswerInv
BY DEF Init, AnswerInv, AnswerFits, AppliedOnce, Committed, Events, Refusals

\* A step that leaves the outbox alone: only the call that moves is at stake.
LEMMA AnswerFrame ==
  ASSUME AnswerInv, UNCHANGED <<outbox, req>>, NEW c \in Calls,
         \A d \in Calls \ {c} : pc'[d] = pc[d] /\ reply'[d] = reply[d],
         AnswerFits(c)'
  PROVE  AnswerInv'
<1>1. \A d \in Calls : Committed(d)' <=> Committed(d)
  BY DEF Committed, Events
<1>2. AppliedOnce'
  BY DEF AnswerInv, AppliedOnce, Events
<1>3. \A d \in Calls \ {c} : AnswerFits(d)'
  BY <1>1 DEF AnswerInv, AnswerFits, Creates, Changes
<1> QED BY <1>2, <1>3 DEF AnswerInv

LEMMA AnswerStep == TypeInv /\ AnswerInv /\ [Next]_vars => AnswerInv'
<1> SUFFICES ASSUME TypeInv, AnswerInv, [Next]_vars PROVE AnswerInv'
  OBVIOUS
<1>0. req' = req
  BY StoreStep
<1>1. ASSUME NEW c \in Calls, Receive(c) PROVE AnswerInv'
  <2>1. UNCHANGED outbox
    BY <1>1 DEF Receive, store
  <2>2. Committed(c)' <=> Committed(c)
    BY <2>1 DEF Committed, Events
  <2>3. \A d \in Calls \ {c} : pc'[d] = pc[d] /\ reply'[d] = reply[d]
    BY <1>1 DEF Receive, Goto, Answer, TypeInv, TypeOK
  <2>4. AnswerFits(c)'
    BY <1>0, <1>1, <2>2 DEF Receive, Goto, Answer, TypeInv, TypeOK, AnswerInv, AnswerFits, Refusals, Creates, Changes
  <2> QED BY <1>0, <2>1, <2>3, <2>4, AnswerFrame
<1>2. ASSUME NEW c \in Calls, Build(c) PROVE AnswerInv'
  <2>1. UNCHANGED outbox
    BY <1>2 DEF Build, store
  <2>2. Committed(c)' <=> Committed(c)
    BY <2>1 DEF Committed, Events
  <2>3. \A d \in Calls \ {c} : pc'[d] = pc[d] /\ reply'[d] = reply[d]
    BY <1>2 DEF Build, Goto, Answer, TypeInv, TypeOK
  <2>4. AnswerFits(c)'
    BY <1>0, <1>2, <2>2 DEF Build, Goto, Answer, TypeInv, TypeOK, AnswerInv, AnswerFits, Refusals, Creates, Changes
  <2> QED BY <1>0, <2>1, <2>3, <2>4, AnswerFrame
<1>3. ASSUME NEW c \in Calls, LookupMisses(c) PROVE AnswerInv'
  <2>1. UNCHANGED outbox
    BY <1>3 DEF LookupMisses, store
  <2>2. Committed(c)' <=> Committed(c)
    BY <2>1 DEF Committed, Events
  <2>3. \A d \in Calls \ {c} : pc'[d] = pc[d] /\ reply'[d] = reply[d]
    BY <1>3 DEF LookupMisses, Goto, Answer, TypeInv, TypeOK
  <2>4. AnswerFits(c)'
    BY <1>0, <1>3, <2>2 DEF LookupMisses, Goto, Answer, TypeInv, TypeOK, AnswerInv, AnswerFits, Refusals, Creates, Changes
  <2> QED BY <1>0, <2>1, <2>3, <2>4, AnswerFrame
<1>4. ASSUME NEW c \in Calls, StampChange(c) PROVE AnswerInv'
  <2>1. UNCHANGED outbox
    BY <1>4 DEF StampChange, store
  <2>2. Committed(c)' <=> Committed(c)
    BY <2>1 DEF Committed, Events
  <2>3. \A d \in Calls \ {c} : pc'[d] = pc[d] /\ reply'[d] = reply[d]
    BY <1>4 DEF StampChange, Goto, Answer, TypeInv, TypeOK
  <2>4. AnswerFits(c)'
    BY <1>0, <1>4, <2>2 DEF StampChange, Goto, Answer, TypeInv, TypeOK, AnswerInv, AnswerFits, Refusals, Creates, Changes
  <2> QED BY <1>0, <2>1, <2>3, <2>4, AnswerFrame
<1>5. ASSUME NEW c \in Calls, GetStatusEvents(c) PROVE AnswerInv'
  <2>1. UNCHANGED outbox
    BY <1>5 DEF GetStatusEvents, store
  <2>2. Committed(c)' <=> Committed(c)
    BY <2>1 DEF Committed, Events
  <2>3. \A d \in Calls \ {c} : pc'[d] = pc[d] /\ reply'[d] = reply[d]
    BY <1>5 DEF GetStatusEvents, Goto, Answer, TypeInv, TypeOK
  <2>4. AnswerFits(c)'
    BY <1>0, <1>5, <2>2 DEF GetStatusEvents, Goto, Answer, TypeInv, TypeOK, PathOK, CreateLabels, ChangeLabels, WriteLabels, AnswerInv, AnswerFits, Refusals, Creates, Changes
  <2> QED BY <1>0, <2>1, <2>3, <2>4, AnswerFrame
<1>6. ASSUME NEW c \in Calls, BeginTx(c) PROVE AnswerInv'
  <2>1. UNCHANGED outbox
    BY <1>6 DEF BeginTx, store
  <2>2. Committed(c)' <=> Committed(c)
    BY <2>1 DEF Committed, Events
  <2>3. \A d \in Calls \ {c} : pc'[d] = pc[d] /\ reply'[d] = reply[d]
    BY <1>6 DEF BeginTx, Goto, Answer, TypeInv, TypeOK
  <2>4. AnswerFits(c)'
    BY <1>0, <1>6, <2>2 DEF BeginTx, Goto, Answer, TypeInv, TypeOK, AnswerInv, AnswerFits, Refusals, Creates, Changes
  <2> QED BY <1>0, <2>1, <2>3, <2>4, AnswerFrame
<1>7. ASSUME NEW c \in Calls, InsertShipment(c) PROVE AnswerInv'
  <2>1. UNCHANGED outbox
    BY <1>7 DEF InsertShipment, store
  <2>2. Committed(c)' <=> Committed(c)
    BY <2>1 DEF Committed, Events
  <2>3. \A d \in Calls \ {c} : pc'[d] = pc[d] /\ reply'[d] = reply[d]
    BY <1>7 DEF InsertShipment, Goto, Answer, TypeInv, TypeOK
  <2>4. AnswerFits(c)'
    BY <1>0, <1>7, <2>2 DEF InsertShipment, Goto, Answer, TypeInv, TypeOK, PathOK, CreateLabels, ChangeLabels, WriteLabels, AnswerInv, AnswerFits, Refusals, Creates, Changes
  <2> QED BY <1>0, <2>1, <2>3, <2>4, AnswerFrame
<1>8. ASSUME NEW c \in Calls, UpdateShipment(c) PROVE AnswerInv'
  <2>1. UNCHANGED outbox
    BY <1>8 DEF UpdateShipment, store
  <2>2. Committed(c)' <=> Committed(c)
    BY <2>1 DEF Committed, Events
  <2>3. \A d \in Calls \ {c} : pc'[d] = pc[d] /\ reply'[d] = reply[d]
    BY <1>8 DEF UpdateShipment, Goto, Answer, TypeInv, TypeOK
  <2>4. AnswerFits(c)'
    BY <1>0, <1>8, <2>2 DEF UpdateShipment, Goto, Answer, TypeInv, TypeOK, PathOK, CreateLabels, ChangeLabels, WriteLabels, AnswerInv, AnswerFits, Refusals, Creates, Changes
  <2> QED BY <1>0, <2>1, <2>3, <2>4, AnswerFrame
<1>9. ASSUME NEW c \in Calls, InsertStatusEvent(c) PROVE AnswerInv'
  <2>1. UNCHANGED outbox
    BY <1>9 DEF InsertStatusEvent, store
  <2>2. Committed(c)' <=> Committed(c)
    BY <2>1 DEF Committed, Events
  <2>3. \A d \in Calls \ {c} : pc'[d] = pc[d] /\ reply'[d] = reply[d]
    BY <1>9 DEF InsertStatusEvent, Goto, Answer, TypeInv, TypeOK
  <2>4. AnswerFits(c)'
    BY <1>0, <1>9, <2>2 DEF InsertStatusEvent, Goto, Answer, TypeInv, TypeOK, AnswerInv, AnswerFits, Refusals, Creates, Changes
  <2> QED BY <1>0, <2>1, <2>3, <2>4, AnswerFrame
<1>10. ASSUME NEW c \in Calls, InsertOutboxEvent(c) PROVE AnswerInv'
  <2>1. UNCHANGED outbox
    BY <1>10 DEF InsertOutboxEvent, store
  <2>2. Committed(c)' <=> Committed(c)
    BY <2>1 DEF Committed, Events
  <2>3. \A d \in Calls \ {c} : pc'[d] = pc[d] /\ reply'[d] = reply[d]
    BY <1>10 DEF InsertOutboxEvent, Goto, Answer, TypeInv, TypeOK
  <2>4. AnswerFits(c)'
    BY <1>0, <1>10, <2>2 DEF InsertOutboxEvent, Goto, Answer, TypeInv, TypeOK, AnswerInv, AnswerFits, Refusals, Creates, Changes
  <2> QED BY <1>0, <2>1, <2>3, <2>4, AnswerFrame
<1>11. ASSUME NEW c \in Calls, CommitLost(c) PROVE AnswerInv'
  <2>1. UNCHANGED outbox
    BY <1>11 DEF CommitLost, store
  <2>2. Committed(c)' <=> Committed(c)
    BY <2>1 DEF Committed, Events
  <2>3. \A d \in Calls \ {c} : pc'[d] = pc[d] /\ reply'[d] = reply[d]
    BY <1>11 DEF CommitLost, Goto, Answer, TypeInv, TypeOK
  <2>4. AnswerFits(c)'
    BY <1>0, <1>11, <2>2 DEF CommitLost, Goto, Answer, TypeInv, TypeOK, AnswerInv, AnswerFits, Refusals, Creates, Changes
  <2> QED BY <1>0, <2>1, <2>3, <2>4, AnswerFrame
<1>12. ASSUME NEW c \in Calls, Fail(c) PROVE AnswerInv'
  <2>1. UNCHANGED outbox
    BY <1>12 DEF Fail, store
  <2>2. Committed(c)' <=> Committed(c)
    BY <2>1 DEF Committed, Events
  <2>3. \A d \in Calls \ {c} : pc'[d] = pc[d] /\ reply'[d] = reply[d]
    BY <1>12 DEF Fail, Goto, Answer, TypeInv, TypeOK
  <2>4. AnswerFits(c)'
    BY <1>0, <1>12, <2>2 DEF Fail, Goto, Answer, InTx, TypeInv, TypeOK, AnswerInv, AnswerFits, Refusals, Creates, Changes
  <2> QED BY <1>0, <2>1, <2>3, <2>4, AnswerFrame
<1>13. ASSUME NEW c \in Calls, StampInitial(c) PROVE AnswerInv'
  <2>1. UNCHANGED outbox
    BY <1>13 DEF StampInitial, store
  <2>2. Committed(c)' <=> Committed(c)
    BY <2>1 DEF Committed, Events
  <2>3. \A d \in Calls \ {c} : pc'[d] = pc[d] /\ reply'[d] = reply[d]
    BY <1>13 DEF StampInitial, Goto, Answer, TypeInv, TypeOK
  <2>4. AnswerFits(c)'
    BY <1>0, <1>13, <2>2 DEF StampInitial, Goto, Answer, TypeInv, TypeOK, AnswerInv, AnswerFits, Refusals, Creates, Changes
  <2> QED BY <1>0, <2>1, <2>3, <2>4, AnswerFrame
<1>14. ASSUME NEW c \in Calls, RecordInitial(c) PROVE AnswerInv'
  <2>1. UNCHANGED outbox
    BY <1>14 DEF RecordInitial, store
  <2>2. Committed(c)' <=> Committed(c)
    BY <2>1 DEF Committed, Events
  <2>3. \A d \in Calls \ {c} : pc'[d] = pc[d] /\ reply'[d] = reply[d]
    BY <1>14 DEF RecordInitial, Goto, Answer, TypeInv, TypeOK
  <2>4. AnswerFits(c)'
    BY <1>0, <1>14, <2>2 DEF RecordInitial, Goto, Answer, TypeInv, TypeOK, PathOK, CreateLabels, ChangeLabels, WriteLabels, AnswerInv, AnswerFits, Refusals, Creates, Changes
  <2> QED BY <1>0, <2>1, <2>3, <2>4, AnswerFrame
<1>15. ASSUME NEW c \in Calls, LookupFinds(c) PROVE AnswerInv'
  <2>1. UNCHANGED outbox
    BY <1>15 DEF LookupFinds, store
  <2>2. Committed(c)' <=> Committed(c)
    BY <2>1 DEF Committed, Events
  <2>3. PICK s \in Calls : Proceed(c, currentStatus[s])
    BY <1>15 DEF LookupFinds, GetByReferenceNumber
  <2>4. \A d \in Calls \ {c} : pc'[d] = pc[d] /\ reply'[d] = reply[d]
    BY <2>3 DEF Proceed, Goto, Answer, TypeInv, TypeOK
  <2>5. AnswerFits(c)'
    BY <1>0, <1>15, <2>2, <2>3 DEF LookupFinds, Proceed, Goto, Answer, TypeInv, TypeOK, AnswerInv, AnswerFits, Refusals, Creates, Changes
  <2> QED BY <1>0, <2>1, <2>4, <2>5, AnswerFrame
<1>16. ASSUME NEW c \in Calls, Commit(c) \/ Resolve(c) PROVE AnswerInv'
  <2>1. /\ pc[c] \in {"commit", "inDoubt"} /\ ~Committed(c)
        /\ \A d \in Calls \ {c} : pc'[d] = pc[d] /\ reply'[d] = reply[d]
    BY <1>16 DEF Commit, Resolve, Goto, Answer, TypeInv, TypeOK, AnswerInv, AnswerFits
  <2>2. CASE Apply(c)
    <3>1. /\ Events' = 1..Len(outbox) + 1 /\ Events = 1..Len(outbox) /\ Len(outbox) \in Nat
          /\ \A i \in Events : outbox'[i] = outbox[i]
          /\ outbox'[Len(outbox) + 1] = NewEvent(c)
      BY <2>1, <2>2, ApplyAppends
    <3>2. NewEvent(c).id = c
      BY DEF NewEvent, CreatedEvent, ChangedEvent, NewOutboxEvent
    <3>3. \A d \in Calls : Committed(d)' <=> Committed(d) \/ d = c
      BY <3>1, <3>2 DEF Committed
    <3>4. \A i \in Events : outbox[i].id # c
      BY <2>1 DEF Committed
    <3>5. AppliedOnce'
      BY <3>1, <3>2, <3>4 DEF AppliedOnce, AnswerInv
    <3>6. \A d \in Calls \ {c} : AnswerFits(d)'
      BY <1>0, <2>1, <3>3 DEF AnswerInv, AnswerFits, Creates, Changes
    <3>7. AnswerFits(c)'
      BY <1>0, <1>16, <3>3 DEF Commit, Resolve, Goto, Answer, TypeInv, TypeOK, AnswerInv, AnswerFits, Refusals, Creates, Changes
    <3> QED BY <3>5, <3>6, <3>7 DEF AnswerInv
  <2>3. CASE Resolve(c) /\ UNCHANGED store
    <3>1. UNCHANGED outbox /\ (Committed(c)' <=> Committed(c))
      BY <2>3 DEF store, Committed, Events
    <3>2. AnswerFits(c)'
      BY <1>0, <2>3, <3>1 DEF Resolve, Goto, TypeInv, TypeOK, AnswerInv, AnswerFits, Refusals, Creates, Changes
    <3> QED BY <1>0, <2>1, <3>1, <3>2, AnswerFrame
  <2> QED BY <1>16, <2>2, <2>3 DEF Commit, Resolve
<1>17. CASE Crash
  <2>1. UNCHANGED outbox
    BY <1>17, CrashMoves DEF TypeInv
  <2>2. \A d \in Calls : Committed(d)' <=> Committed(d)
    BY <2>1 DEF Committed, Events
  <2>3. AppliedOnce'
    BY <2>1 DEF AnswerInv, AppliedOnce, Events
  <2>4. ASSUME NEW d \in Running PROVE AnswerFits(d)'
    <3>1. /\ d \in Calls /\ reply'[d] = "Unavailable"
          /\ pc[d] \notin {"idle", "inDoubt", "initialInDoubt", "done"}
          /\ pc[d] = "commit" => pc'[d] = "inDoubt"
          /\ pc[d] = "recordInitial" => pc'[d] = "initialInDoubt"
          /\ pc[d] \notin {"commit", "recordInitial"} => pc'[d] = "done"
      BY <1>17, CrashMoves DEF TypeInv, Running
    <3> QED BY <2>2, <3>1 DEF AnswerInv, AnswerFits, Refusals
  <2>5. ASSUME NEW d \in Calls \ Running PROVE AnswerFits(d)'
    BY <1>0, <1>17, <2>2, CrashMoves DEF TypeInv, AnswerInv, AnswerFits, Creates, Changes
  <2> QED BY <2>3, <2>4, <2>5 DEF AnswerInv
<1>18. ASSUME NEW c \in Calls, ResolveInitial(c) PROVE AnswerInv'
  <2>1. UNCHANGED outbox
    BY <1>18 DEF ResolveInitial
  <2>2. Committed(c)' <=> Committed(c)
    BY <2>1 DEF Committed, Events
  <2>3. \A d \in Calls \ {c} : pc'[d] = pc[d] /\ reply'[d] = reply[d]
    BY <1>18 DEF ResolveInitial, Goto, TypeInv, TypeOK
  <2>4. AnswerFits(c)'
    BY <1>0, <1>18, <2>2 DEF ResolveInitial, Goto, TypeInv, TypeOK, AnswerInv, AnswerFits, Refusals, Creates, Changes
  <2> QED BY <1>0, <2>1, <2>3, <2>4, AnswerFrame
<1>19. CASE UNCHANGED vars
  BY <1>19 DEF vars, store, AnswerInv, AnswerFits, AppliedOnce, Committed, Events, Creates, Changes
<1> QED
  BY <1>1, <1>2, <1>3, <1>4, <1>5, <1>6, <1>7, <1>8, <1>9, <1>10, <1>11, <1>12, <1>13, <1>14, <1>15, <1>16, <1>17, <1>18, <1>19 DEF Next, Step, Progress, Quiescent

\* An acknowledged create or change is stored, a refused one never is, and no
\* call is ever applied twice, whatever commits fail or stay in doubt.
THEOREM AnswersFitStore == Spec => []AnswersMatchStore
<1>1. Init => TypeInv /\ AnswerInv
  BY TypeInit, AnswerInit
<1>2. TypeInv /\ AnswerInv /\ [Next]_vars => (TypeInv /\ AnswerInv)'
  BY TypeStep, AnswerStep
<1>3. AnswerInv => AnswersMatchStore
  BY DEF AnswerInv, AnswerFits, AppliedOnce, AnswersMatchStore, Refusals
<1> QED BY <1>1, <1>2, <1>3, PTL DEF Spec

-----------------------------------------------------------------------------
(***************************************************************************)
(* For every event of a shipment, its row has the status of that event or  *)
(* of one that committed later: RowsNewestUnlessRaced rests on it.         *)
(***************************************************************************)
RowInv ==
  \A i \in Events : \E j \in Events :
    /\ i <= j /\ outbox[j].aggregate = outbox[i].aggregate
    /\ currentStatus[outbox[i].aggregate] = outbox[j].newStatus

LEMMA RowStep == TypeInv /\ RowInv /\ [Next]_vars => RowInv'
<1> SUFFICES ASSUME TypeInv, RowInv, [Next]_vars PROVE RowInv'
  OBVIOUS
<1>1. CASE UNCHANGED <<currentStatus, outbox>>
  BY <1>1 DEF RowInv, Events
<1>2. ASSUME NEW c \in Calls, LookupFinds(c) PROVE UNCHANGED <<currentStatus, outbox>>
  BY <1>2 DEF LookupFinds, store
<1>3. ASSUME NEW c \in Calls, pc[c] \in {"commit", "inDoubt"}, Apply(c)
      PROVE  RowInv'
  <2> DEFINE n == Len(outbox) + 1
             new == NewEvent(c)
  <2>1. /\ new \in OutboxEvent /\ Events' = 1..n /\ Events = 1..n-1 /\ n \in Nat \ {0}
        /\ \A i \in 1..n-1 : outbox'[i] = outbox[i]
        /\ outbox'[n] = new
        /\ currentStatus' = [currentStatus EXCEPT ![new.aggregate] = new.newStatus]
    BY <1>3, ApplyAppends
  <2>2. /\ currentStatus \in [Calls -> ShipmentStatus \cup {StatusUnspecified}]
        /\ new.aggregate \in Calls
    BY <2>1 DEF TypeInv, TypeOK, OutboxEvent
  <2> HIDE DEF n, new
  <2>3. ASSUME NEW i \in 1..n
        PROVE  \E j \in 1..n : /\ i <= j /\ outbox'[j].aggregate = outbox'[i].aggregate
                               /\ currentStatus'[outbox'[i].aggregate] = outbox'[j].newStatus
    <3>1. CASE outbox'[i].aggregate = new.aggregate
      <4>1. n \in 1..n /\ i <= n
        BY <2>1
      <4> QED BY <2>1, <2>2, <3>1, <4>1
    <3>2. CASE outbox'[i].aggregate # new.aggregate
      <4>1. i \in 1..n-1 /\ outbox'[i] = outbox[i]
        BY <2>1, <3>2
      <4>2. PICK j \in 1..n-1 :
              /\ i <= j /\ outbox[j].aggregate = outbox[i].aggregate
              /\ currentStatus[outbox[i].aggregate] = outbox[j].newStatus
        BY <2>1, <4>1 DEF RowInv
      <4>3. outbox[i].aggregate \in Calls
        <5>1. outbox[i] \in OutboxEvent
          BY <2>1, <4>1 DEF TypeInv, TypeOK, Events
        <5> QED BY <5>1 DEF OutboxEvent
      <4>4. j \in 1..n /\ outbox'[j] = outbox[j]
        BY <2>1, <4>2
      <4> QED BY <2>1, <2>2, <3>2, <4>1, <4>2, <4>3, <4>4
    <3> QED BY <3>1, <3>2
  <2> QED BY <2>1, <2>3 DEF RowInv
<1> QED BY <1>1, <1>2, <1>3, StoreStep

(***************************************************************************)
(* Rows belong to creates, so a change never has the id of its shipment;   *)
(* the event of a create announces what its initial status event records.  *)
(***************************************************************************)
RowsCreated == \A s \in Calls : currentStatus[s] # StatusUnspecified => Creates(s)

CreatedAsPending ==
  \A i \in Events : Creates(outbox[i].id) =>
    outbox[i].aggregate = outbox[i].id /\ outbox[i].newStatus = StatusPending

StoredInv == StoredWithEvent /\ RowsCreated /\ CreatedAsPending

LEMMA StoredInit == Init => StoredInv
BY DEF Init, StoredInv, StoredWithEvent, RowsCreated, CreatedAsPending, Events

LEMMA StoredStep ==
  TypeInv /\ UniqueInv /\ AnswerInv /\ StoredInv /\ [Next]_vars => StoredInv'
<1> SUFFICES ASSUME TypeInv, UniqueInv, AnswerInv, StoredInv, [Next]_vars
             PROVE  StoredInv'
  OBVIOUS
<1>0. req' = req
  BY StoreStep
<1>1. CASE UNCHANGED store
  BY <1>0, <1>1 DEF StoredInv, StoredWithEvent, RowsCreated, CreatedAsPending, Events,
                    store, Creates
<1>2. ASSUME NEW c \in Calls, RecordInitial(c) \/ ResolveInitial(c) PROVE StoredInv'
  <2>1. /\ UNCHANGED <<currentStatus, outbox>>
        /\ \A e \in history' : e \in history \/ e = InitialEvent(c)
        /\ history \subseteq history'
    BY <1>2 DEF RecordInitial, ResolveInitial
  <2>2. Creates(c) /\ Committed(c)
    BY <1>2 DEF RecordInitial, ResolveInitial, TypeInv, PathOK, CreateLabels, AnswerInv, AnswerFits
  <2>3. PICK i \in Events : /\ outbox[i].id = c /\ outbox[i].aggregate = c
                            /\ outbox[i].newStatus = StatusPending
    BY <2>2 DEF Committed, StoredInv, CreatedAsPending
  <2>4. /\ InitialEvent(c).id = c /\ InitialEvent(c).shipment = c
        /\ InitialEvent(c).status = StatusPending
    BY DEF InitialEvent, NewStatusEvent
  <2> QED
    BY <1>0, <2>1, <2>3, <2>4
    DEF StoredInv, StoredWithEvent, RowsCreated, CreatedAsPending, Events, Creates
<1>3. ASSUME NEW c \in Calls, pc[c] \in {"commit", "inDoubt"}, Apply(c) PROVE StoredInv'
  <2> DEFINE n == Len(outbox) + 1
             new == NewEvent(c)
  <2>1. /\ new \in OutboxEvent /\ Events' = 1..n /\ Events = 1..n-1 /\ n \in Nat \ {0}
        /\ \A i \in 1..n-1 : outbox'[i] = outbox[i]
        /\ outbox'[n] = new
        /\ currentStatus' = [currentStatus EXCEPT ![new.aggregate] = new.newStatus]
    BY <1>3, ApplyAppends
  <2>2. /\ currentStatus \in [Calls -> ShipmentStatus \cup {StatusUnspecified}]
        /\ new.aggregate \in Calls /\ new.newStatus # StatusUnspecified
    BY <2>1 DEF TypeInv, TypeOK, OutboxEvent, ShipmentStatus, StatusPending,
                StatusFailed, StatusUnspecified
  <2>3. /\ \A s \in Calls : (currentStatus'[s] # StatusUnspecified)
                       <=> (currentStatus[s] # StatusUnspecified \/ s = new.aggregate)
    BY <2>1, <2>2
  <2>4. CASE Creates(c)
    <3>1. new.id = c /\ new.aggregate = c /\ UNCHANGED history
      BY <1>3, <2>4 DEF Apply, NewEvent, CreatedEvent, NewOutboxEvent
    <3>2. \A i \in 1..n : i \in 1..n-1 \/ i = n
      BY <2>1
    <3>3. n \in 1..n /\ \A i \in 1..n-1 : i \in 1..n
      BY <2>1
    <3>3a. new.newStatus = StatusPending
      BY <2>4 DEF NewEvent, CreatedEvent, NewOutboxEvent
    <3> HIDE DEF n, new
    <3>4. \A s \in Calls : (currentStatus'[s] # StatusUnspecified) <=>
             \E i \in 1..n : outbox'[i].aggregate = s /\ outbox'[i].id = s
      BY <2>1, <2>3, <3>1, <3>2, <3>3 DEF StoredInv, StoredWithEvent
    <3>5. \A e \in history' :
             \E i \in 1..n : outbox'[i].id = e.id /\ outbox'[i].aggregate = e.shipment
                             /\ outbox'[i].newStatus = e.status
      BY <2>1, <3>1, <3>3 DEF StoredInv, StoredWithEvent
    <3>6. \A i \in 1..n : outbox'[i].id # outbox'[i].aggregate =>
             \E e \in history' : e.id = outbox'[i].id /\ e.shipment = outbox'[i].aggregate
                                 /\ e.status = outbox'[i].newStatus
      BY <2>1, <3>1, <3>2 DEF StoredInv, StoredWithEvent
    <3>7. RowsCreated'
      BY <1>0, <2>3, <2>4, <3>1 DEF StoredInv, RowsCreated, Creates
    <3>8. \A i \in 1..n : Creates(outbox'[i].id) =>
             outbox'[i].aggregate = outbox'[i].id /\ outbox'[i].newStatus = StatusPending
      BY <2>1, <3>1, <3>2, <3>3a DEF StoredInv, CreatedAsPending
    <3> QED
      BY <1>0, <2>1, <3>4, <3>5, <3>6, <3>7, <3>8
      DEF StoredInv, StoredWithEvent, CreatedAsPending, Creates
  <2>5. CASE ~Creates(c)
    <3>1. found[c] \in Calls /\ Changes(c)
      BY <1>3, <2>5, AppliedEventTyped
    <3>2. currentStatus[found[c]] # StatusUnspecified /\ Creates(found[c])
      BY <3>1 DEF UniqueInv, FoundHasRow, StoredInv, RowsCreated
    <3> DEFINE event == NewStatusEvent(c, found[c], req[c].newStatus)
    <3>3. /\ new.id = c /\ new.aggregate = found[c] /\ new.id # new.aggregate
          /\ history' = history \cup {event}
          /\ event.id = c /\ event.shipment = found[c] /\ event.status = new.newStatus
      BY <1>3, <2>5, <3>2 DEF Apply, NewEvent, ChangedEvent, NewOutboxEvent, NewStatusEvent
    <3>4. \A i \in 1..n : i \in 1..n-1 \/ i = n
      BY <2>1
    <3>5. n \in 1..n /\ \A i \in 1..n-1 : i \in 1..n
      BY <2>1
    <3> HIDE DEF n, new, event
    <3>6. \A s \in Calls : (currentStatus'[s] # StatusUnspecified) <=>
             \E i \in 1..n : outbox'[i].aggregate = s /\ outbox'[i].id = s
      <4> TAKE s \in Calls
      <4>1. (currentStatus'[s] # StatusUnspecified) <=> (currentStatus[s] # StatusUnspecified)
        BY <2>3, <3>2, <3>3
      <4>2. (currentStatus[s] # StatusUnspecified) <=>
               \E i \in 1..n-1 : outbox[i].aggregate = s /\ outbox[i].id = s
        BY <2>1 DEF StoredInv, StoredWithEvent
      <4>3. (\E i \in 1..n-1 : outbox[i].aggregate = s /\ outbox[i].id = s) <=>
               \E i \in 1..n : outbox'[i].aggregate = s /\ outbox'[i].id = s
        BY <2>1, <3>3, <3>4, <3>5
      <4> QED BY <4>1, <4>2, <4>3
    <3>7. \A e \in history' :
             \E i \in 1..n : outbox'[i].id = e.id /\ outbox'[i].aggregate = e.shipment
                             /\ outbox'[i].newStatus = e.status
      BY <2>1, <3>3, <3>5 DEF StoredInv, StoredWithEvent
    <3>8. \A i \in 1..n : outbox'[i].id # outbox'[i].aggregate =>
             \E e \in history' : e.id = outbox'[i].id /\ e.shipment = outbox'[i].aggregate
                                 /\ e.status = outbox'[i].newStatus
      BY <2>1, <3>3, <3>4 DEF StoredInv, StoredWithEvent
    <3>9. RowsCreated'
      BY <1>0, <2>3, <3>2, <3>3 DEF StoredInv, RowsCreated, Creates
    <3>10. \A i \in 1..n : Creates(outbox'[i].id) =>
             outbox'[i].aggregate = outbox'[i].id /\ outbox'[i].newStatus = StatusPending
      BY <2>1, <2>5, <3>3, <3>4 DEF StoredInv, CreatedAsPending
    <3> QED
      BY <1>0, <2>1, <3>6, <3>7, <3>8, <3>9, <3>10
      DEF StoredInv, StoredWithEvent, CreatedAsPending, Creates
  <2> QED BY <2>4, <2>5
<1>4. ASSUME NEW c \in Calls, Step(c), ~Commit(c), ~Resolve(c),
             ~RecordInitial(c), ~ResolveInitial(c)
      PROVE  UNCHANGED store
  BY <1>4 DEF Step, Progress, Build, LookupMisses, LookupFinds, GetStatusEvents, StampChange,
              BeginTx, InsertShipment, UpdateShipment, InsertStatusEvent,
              InsertOutboxEvent, CommitLost, Fail, StampInitial
<1>5. ASSUME NEW c \in Calls, Commit(c) \/ Resolve(c)
      PROVE  pc[c] \in {"commit", "inDoubt"} /\ (Apply(c) \/ UNCHANGED store)
  BY <1>5 DEF Commit, Resolve
<1>6. ASSUME \/ UNCHANGED vars \/ Crash \/ \E c \in Calls : Receive(c)
      PROVE  UNCHANGED store
  BY <1>6 DEF vars, Crash, Receive
<1> QED BY <1>1, <1>2, <1>3, <1>4, <1>5, <1>6 DEF Next, Quiescent

\* A shipment is stored exactly when its creation event is, a status change
\* exactly when its event is, and an initial status event only beside a creation
\* event: the transactional outbox loses and invents none.
THEOREM ChangesAndEventsTogether == Spec => []StoredWithEvent
<1>1. Init => TypeInv /\ UniqueInv /\ AnswerInv /\ StoredInv
  BY TypeInit, UniqueInit, AnswerInit, StoredInit
<1>2. TypeInv /\ UniqueInv /\ AnswerInv /\ StoredInv /\ [Next]_vars
        => (TypeInv /\ UniqueInv /\ AnswerInv /\ StoredInv)'
  BY TypeStep, UniqueStep, AnswerStep, StoredStep
<1>3. StoredInv => StoredWithEvent
  BY DEF StoredInv
<1> QED BY <1>1, <1>2, <1>3, PTL DEF Spec

-----------------------------------------------------------------------------
(***************************************************************************)
(* The handler refuses what the entity would.                              *)
(***************************************************************************)
LEMMA ValidatorsAgree ==
  ASSUME NEW c \in Calls, Creates(c)
  PROVE  ValidRequest(req[c]) <=> NewShipmentAccepts(req[c])
BY DEF Creates, ValidRequest, validateCreateShipmentRequest, NewShipmentAccepts,
       DriverIdBlank, UnitIdBlank

\* After its arrival a call gets no InvalidArgument, and loses none.
KeepsRefusal(c) ==
  /\ pc'[c] = "idle" <=> pc[c] = "idle"
  /\ reply'[c] = reply[c] \/ (pc[c] # "done" /\ reply'[c] # "InvalidArgument")

LEMMA StepKeepsRefusals ==
  ASSUME TypeInv, NEW c \in Calls, Step(c), NEW d \in Calls
  PROVE  KeepsRefusal(d)
<1> USE DEF Goto, Answer, KeepsRefusal, TypeInv, TypeOK
<1>1. CASE Build(c) \/ LookupMisses(c) \/ GetStatusEvents(c) \/ Fail(c)
  BY <1>1 DEF Build, LookupMisses, GetStatusEvents, Fail, InTx
<1>2. CASE LookupFinds(c)
  BY <1>2 DEF LookupFinds, Proceed
<1>3. CASE StampChange(c) \/ BeginTx(c) \/ InsertStatusEvent(c) \/ InsertOutboxEvent(c)
  BY <1>3 DEF StampChange, BeginTx, InsertStatusEvent, InsertOutboxEvent
<1>4. CASE InsertShipment(c) \/ UpdateShipment(c)
  BY <1>4 DEF InsertShipment, UpdateShipment
<1>5. CASE Commit(c) \/ CommitLost(c) \/ Resolve(c)
  BY <1>5 DEF Commit, CommitLost, Resolve
<1>6. CASE StampInitial(c) \/ RecordInitial(c) \/ ResolveInitial(c)
  BY <1>6 DEF StampInitial, RecordInitial, ResolveInitial
<1> QED BY <1>1, <1>2, <1>3, <1>4, <1>5, <1>6 DEF Step, Progress

LEMMA InputStep ==
  TypeInv /\ AnswerInv /\ CreationRefusedAsByEntity /\ [Next]_vars
    => CreationRefusedAsByEntity'
<1> SUFFICES ASSUME TypeInv, AnswerInv, CreationRefusedAsByEntity, [Next]_vars
             PROVE  CreationRefusedAsByEntity'
  OBVIOUS
<1>0. req' = req
  BY StoreStep
<1>1. \A d \in Calls : reply[d] = "InvalidArgument" => pc[d] = "done"
  BY DEF AnswerInv, AnswerFits
<1>2. ASSUME \A d \in Calls : KeepsRefusal(d) PROVE CreationRefusedAsByEntity'
  BY <1>0, <1>1, <1>2 DEF KeepsRefusal, CreationRefusedAsByEntity, Creates
<1>3. ASSUME NEW c \in Calls, Receive(c) PROVE CreationRefusedAsByEntity'
  <2>1. \A d \in Calls \ {c} : pc'[d] = pc[d] /\ reply'[d] = reply[d]
    BY <1>3 DEF Receive, Goto, Answer, TypeInv, TypeOK
  <2>2. Creates(c) => (reply'[c] = "InvalidArgument" <=> ~ValidRequest(req[c]))
    BY <1>1, <1>3 DEF Receive, Goto, Answer, TypeInv, TypeOK
  <2> QED BY <1>0, <2>1, <2>2, ValidatorsAgree DEF CreationRefusedAsByEntity, Creates
<1>4. ASSUME NEW c \in Calls, Step(c) PROVE CreationRefusedAsByEntity'
  BY <1>2, <1>4, StepKeepsRefusals
<1>5. CASE Crash
  <2>1. \A d \in Calls : KeepsRefusal(d)
    BY <1>5, CrashMoves DEF KeepsRefusal, TypeInv
  <2> QED BY <1>2, <2>1
<1>6. CASE UNCHANGED vars
  BY <1>2, <1>6 DEF vars, KeepsRefusal
<1> QED BY <1>3, <1>4, <1>5, <1>6 DEF Next, Quiescent

\* CreateShipment answers InvalidArgument exactly to what NewShipment would
\* refuse: the validator of the handler and the checks of the entity agree for
\* every request, at whatever statement the call ends later.  What both accept
\* can still be refused after them (an amount that is no number, Build).
THEOREM ValidatorsRefuseAlike == Spec => []CreationRefusedAsByEntity
<1>1. Init => TypeInv /\ AnswerInv /\ CreationRefusedAsByEntity
  BY TypeInit, AnswerInit DEF Init, CreationRefusedAsByEntity
<1>2. TypeInv /\ AnswerInv /\ CreationRefusedAsByEntity /\ [Next]_vars
        => (TypeInv /\ AnswerInv /\ CreationRefusedAsByEntity)'
  BY TypeStep, AnswerStep, InputStep
<1> QED BY <1>1, <1>2, PTL DEF Spec

-----------------------------------------------------------------------------
(***************************************************************************)
(* Every step takes a call nearer to its end.                              *)
(***************************************************************************)
\* How many statements a call that is at a label can have before it at most.
StatementsLeft ==
  [label \in Labels |->
     CASE label = "idle" -> 11
       [] label \in {"build", "lookup"} -> 10
       [] label \in {"stampChange", "readEvents"} -> 9
       [] label = "beginTx" -> 8
       [] label \in {"insertShipment", "updateShipment"} -> 7
       [] label = "insertStatus" -> 6
       [] label = "insertOutbox" -> 5
       [] label = "commit" -> 4
       [] label = "stampInitial" -> 3
       [] label = "recordInitial" -> 2
       [] label \in {"inDoubt", "initialInDoubt"} -> 1
       [] label = "done" -> 0]

\* A step of the program that changes anything takes a call nearer to its end.
CallAdvances ==
  /\ \A c \in Calls : StatementsLeft[pc'[c]] <= StatementsLeft[pc[c]]
  /\ \E c \in Calls : StatementsLeft[pc'[c]] < StatementsLeft[pc[c]]

LEMMA LabelsOrdered ==
  /\ StatementsLeft \in [Labels -> 0..11]
  /\ StatementsLeft["idle"] = 11 /\ StatementsLeft["build"] = 10 /\ StatementsLeft["lookup"] = 10
  /\ StatementsLeft["stampChange"] = 9 /\ StatementsLeft["readEvents"] = 9
  /\ StatementsLeft["beginTx"] = 8 /\ StatementsLeft["insertShipment"] = 7
  /\ StatementsLeft["updateShipment"] = 7 /\ StatementsLeft["insertStatus"] = 6
  /\ StatementsLeft["insertOutbox"] = 5 /\ StatementsLeft["commit"] = 4
  /\ StatementsLeft["stampInitial"] = 3 /\ StatementsLeft["recordInitial"] = 2
  /\ StatementsLeft["inDoubt"] = 1 /\ StatementsLeft["initialInDoubt"] = 1
  /\ StatementsLeft["done"] = 0
BY DEF StatementsLeft, Labels, InTx

LEMMA OneAdvances ==
  ASSUME TypeOK, NEW c \in Calls, NEW label \in Labels, pc' = [pc EXCEPT ![c] = label],
         StatementsLeft[label] < StatementsLeft[pc[c]]
  PROVE  CallAdvances
<1>1. \A d \in Calls : StatementsLeft[pc[d]] \in 0..11
  BY LabelsOrdered DEF TypeOK
<1>2. pc'[c] = label /\ \A d \in Calls \ {c} : pc'[d] = pc[d]
  BY DEF TypeOK
<1>3. \A d \in Calls : StatementsLeft[pc'[d]] <= StatementsLeft[pc[d]]
  <2> SUFFICES ASSUME NEW d \in Calls PROVE StatementsLeft[pc'[d]] <= StatementsLeft[pc[d]]
    OBVIOUS
  <2>1. CASE d = c
    BY <1>1, <1>2, <2>1, LabelsOrdered
  <2>2. CASE d # c
    BY <1>1, <1>2, <2>2
  <2> QED BY <2>1, <2>2
<1> QED BY <1>2, <1>3 DEF CallAdvances

LEMMA AdvanceStep == ASSUME TypeInv, [Next]_vars PROVE [CallAdvances]_vars
<1>0. TypeOK
  BY DEF TypeInv
<1> USE DEF Goto, Answer
<1>1. ASSUME NEW c \in Calls, Receive(c) \/ Step(c)
      PROVE  \E label \in Labels : /\ pc' = [pc EXCEPT ![c] = label]
                                   /\ StatementsLeft[label] < StatementsLeft[pc[c]]
  <2> USE LabelsOrdered DEF Labels, InTx
  <2>1. CASE Receive(c) \/ Build(c) \/ StampChange(c) \/ BeginTx(c)
    BY <2>1 DEF Receive, Build, StampChange, BeginTx
  <2>2. CASE LookupMisses(c) \/ LookupFinds(c) \/ GetStatusEvents(c)
    BY <2>2 DEF LookupMisses, LookupFinds, Proceed, GetStatusEvents
  <2>3. CASE InsertShipment(c) \/ UpdateShipment(c)
    BY <2>3 DEF InsertShipment, UpdateShipment
  <2>4. CASE InsertStatusEvent(c) \/ InsertOutboxEvent(c) \/ Commit(c) \/ CommitLost(c)
    BY <2>4 DEF InsertStatusEvent, InsertOutboxEvent, Commit, CommitLost
  <2>5. CASE Resolve(c) \/ StampInitial(c) \/ RecordInitial(c) \/ ResolveInitial(c)
    BY <2>5 DEF Resolve, StampInitial, RecordInitial, ResolveInitial
  <2>6. CASE Fail(c)
    BY <2>6 DEF Fail
  <2> QED BY <1>1, <2>1, <2>2, <2>3, <2>4, <2>5, <2>6 DEF Step, Progress
<1>2. CASE Crash
  <2>1. \A c \in Calls : pc[c] \in Labels /\ StatementsLeft[pc[c]] \in 0..11
    BY <1>0, LabelsOrdered DEF TypeOK
  <2>2. ASSUME NEW c \in Running PROVE StatementsLeft[pc'[c]] < StatementsLeft[pc[c]]
    <3>1. /\ c \in Calls /\ pc[c] \notin {"idle", "inDoubt", "initialInDoubt", "done"}
          /\ pc[c] = "commit" => pc'[c] = "inDoubt"
          /\ pc[c] = "recordInitial" => pc'[c] = "initialInDoubt"
          /\ pc[c] \notin {"commit", "recordInitial"} => pc'[c] = "done"
      BY <1>0, <1>2, CrashMoves DEF Running
    <3> QED BY <2>1, <3>1, LabelsOrdered DEF Labels, InTx
  <2>3. \A c \in Calls \ Running : pc'[c] = pc[c]
    BY <1>0, <1>2, CrashMoves
  <2>4. Running # {} /\ Running \subseteq Calls
    BY <1>0, <1>2, CrashMoves DEF Running
  <2>5. ASSUME NEW c \in Running PROVE StatementsLeft[pc'[c]] \in 0..11
    BY <1>0, <1>2, <2>4, CrashMoves, LabelsOrdered
  <2>6. \A c \in Calls : StatementsLeft[pc'[c]] <= StatementsLeft[pc[c]]
    BY <2>1, <2>2, <2>3, <2>4, <2>5
  <2> QED BY <2>2, <2>4, <2>6 DEF CallAdvances
<1>3. CASE UNCHANGED vars
  BY <1>3
<1> QED BY <1>0, <1>1, <1>2, <1>3, OneAdvances DEF Next, Quiescent

\* No call repeats a statement, whatever fails: every step takes some call nearer
\* to its end and none back, so that nothing happens any more after at most eleven
\* steps for every call (no statement, transaction or lookup is ever retried).
THEOREM CallsRunDown == Spec => [][CallAdvances]_vars
<1>1. TypeInv /\ [Next]_vars => [CallAdvances]_vars
  BY AdvanceStep
<1> QED BY <1>1, TypeInit, TypeStep, PTL DEF Spec
=============================================================================
