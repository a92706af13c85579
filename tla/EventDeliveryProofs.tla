------------------------ MODULE EventDeliveryProofs ------------------------
(***************************************************************************)
(* What the counts of attempts, publishes and faults are worth: when an     *)
(* event is given up, how often and in which order events are published,    *)
(* and that one worker implements EventDelivery.                            *)
(***************************************************************************)
EXTENDS OutboxWorkerProofs

-----------------------------------------------------------------------------
(***************************************************************************)
(* A failure counted in the row, or about to be, has happened.  A worker     *)
(* decides by a copy of the row that is never ahead of the row.              *)
(***************************************************************************)
Failing(e) == {w \in Workers : pc[w] = "failing" /\ IsCurrent(w, e)}

CountInv ==
  /\ \A e \in Events : attempts[e] + Cardinality(Failing(e)) <= failures[e]
  /\ \A w \in Workers : \A e \in DOMAIN batch[w] : batch[w][e] <= attempts[e]
  /\ \A e \in Events : status[e] = "failed" => failures[e] >= MaxAttempts

LEMMA FailingFinite ==
  ASSUME IsFiniteSet(Workers), NEW S \in SUBSET Workers
  PROVE  IsFiniteSet(S) /\ Cardinality(S) \in Nat
BY FS_Subset, FS_CardinalityType

LEMMA CountInit == Init => CountInv
<1> SUFFICES ASSUME Init PROVE CountInv
  OBVIOUS
<1>1. \A e \in Events : Failing(e) = {}
  BY DEF Init, Failing
<1>2. \A e \in Events : Cardinality(Failing(e)) = 0
  BY <1>1, FS_EmptySet
<1>3. \A w \in Workers : DOMAIN batch[w] = {}
  BY DEF Init, NoBatch
<1>4. \A e \in Events : attempts[e] = 0 /\ failures[e] = 0 /\ status[e] = "absent"
  BY DEF Init
<1> QED BY <1>2, <1>3, <1>4 DEF CountInv

\* No publish has failed in the step, and no failure is counted.
LEMMA CountKept ==
  ASSUME IsFiniteSet(Workers), TypeOK, CountInv, UNCHANGED <<attempts, failures>>,
         \A e \in Events : Failing(e)' \subseteq Failing(e),
         \A e \in Events : status'[e] = "failed" => status[e] = "failed",
         \A w \in Workers : \A e \in DOMAIN batch'[w] :
           e \in Events /\ (batch'[w][e] = attempts[e]
                             \/ (e \in DOMAIN batch[w] /\ batch'[w][e] = batch[w][e]))
  PROVE  CountInv'
<1>1. ASSUME NEW e \in Events
      PROVE  attempts'[e] + Cardinality(Failing(e)') <= failures'[e]
  <2>1. /\ Failing(e) \in SUBSET Workers /\ Failing(e)' \in SUBSET Workers
        /\ Failing(e)' \subseteq Failing(e)
    BY DEF Failing
  <2>2. /\ Cardinality(Failing(e)') <= Cardinality(Failing(e))
        /\ Cardinality(Failing(e)) \in Nat /\ Cardinality(Failing(e)') \in Nat
    BY <2>1, FailingFinite, FS_Subset
  <2>3. attempts[e] \in Nat /\ failures[e] \in Nat
    BY DEF TypeOK
  <2> QED BY <2>2, <2>3 DEF CountInv
<1>2. \A e \in Events : attempts[e] \in Nat
  BY DEF TypeOK
<1>3. ASSUME NEW w \in Workers, NEW e \in DOMAIN batch'[w]
      PROVE  batch'[w][e] <= attempts'[e]
  BY <1>2 DEF CountInv
<1>4. \A e \in Events : status'[e] = "failed" => failures'[e] >= MaxAttempts
  BY DEF CountInv
<1> QED BY <1>1, <1>3, <1>4 DEF CountInv

LEMMA CountPublish ==
  ASSUME IsFiniteSet(Workers), TypeOK, CountInv,
         NEW w \in Workers, NEW e \in Events, Publish(w, e)
  PROVE  CountInv'
<1>1. /\ UNCHANGED <<status, attempts, batch>> /\ IsCurrent(w, e) /\ pc[w] = "publishing"
      /\ \A v \in Workers \ {w} : pc'[v] = pc[v]
  BY DEF Publish, rows, TypeOK
<1>2. \A v \in Workers : \A d \in DOMAIN batch[v] : d \in Events
  BY DEF TypeOK, IsBatch
<1>3. CASE connected[w]
  <2>1. UNCHANGED failures /\ pc'[w] = "marking"
    BY <1>3 DEF Publish, TypeOK
  <2>2. \A d \in Events : Failing(d)' \subseteq Failing(d)
    BY <1>1, <2>1 DEF Failing, IsCurrent
  <2> QED BY <1>1, <1>2, <2>1, <2>2, CountKept
<1>4. CASE ~connected[w]
  <2>1. /\ failures' = [failures EXCEPT ![e] = failures[e] + 1] /\ pc'[w] = "failing"
    BY <1>4 DEF Publish, TypeOK
  <2>2. ASSUME NEW d \in Events
        PROVE  attempts'[d] + Cardinality(Failing(d)') <= failures'[d]
    <3>1. /\ attempts[d] \in Nat /\ failures[d] \in Nat /\ d \in Nat /\ e \in Nat
          /\ Failing(d) \in SUBSET Workers /\ Failing(d)' \in SUBSET Workers
      BY EventsFinite DEF TypeOK, Failing
    <3>2. /\ IsFiniteSet(Failing(d)) /\ Cardinality(Failing(d)) \in Nat
          /\ Cardinality(Failing(d)') \in Nat
      BY <3>1, FailingFinite
    <3>3. CASE d = e
      <4>1. Failing(d)' \subseteq Failing(d) \cup {w}
        BY <1>1 DEF Failing, IsCurrent
      <4>2. /\ IsFiniteSet(Failing(d) \cup {w})
            /\ Cardinality(Failing(d) \cup {w}) <= Cardinality(Failing(d)) + 1
        BY <3>2, FS_AddElement
      <4>3. /\ Cardinality(Failing(d) \cup {w}) \in Nat
            /\ Cardinality(Failing(d)') <= Cardinality(Failing(d) \cup {w})
        BY <4>1, <4>2, FS_Subset, FS_CardinalityType
      <4>4. failures'[d] = failures[d] + 1
        BY <2>1, <3>3 DEF TypeOK
      <4> QED BY <1>1, <3>1, <3>2, <4>2, <4>3, <4>4 DEF CountInv
    <3>4. CASE d # e
      <4>1. ~IsCurrent(w, d)
        BY <1>1, <3>1, <3>4 DEF IsCurrent
      <4>2. Failing(d)' \subseteq Failing(d)
        BY <1>1, <4>1 DEF Failing, IsCurrent
      <4>3. Cardinality(Failing(d)') <= Cardinality(Failing(d))
        BY <3>2, <4>2, FS_Subset
      <4>4. failures'[d] = failures[d]
        BY <2>1, <3>4 DEF TypeOK
      <4> QED BY <1>1, <3>1, <3>2, <4>3, <4>4 DEF CountInv
    <3> QED BY <3>3, <3>4
  <2>3. \A d \in Events : failures'[d] >= failures[d] /\ failures[d] \in Nat
    BY <2>1 DEF TypeOK
  <2>4. \A d \in Events : status'[d] = "failed" => failures'[d] >= MaxAttempts
    BY <1>1, <2>1, <2>3, WorkerBoundsAssumption DEF CountInv, TypeOK
  <2> QED BY <1>1, <2>2, <2>4 DEF CountInv
<1> QED BY <1>3, <1>4

LEMMA CountHandleFailure ==
  ASSUME IsFiniteSet(Workers), TypeOK, CountInv,
         NEW w \in Workers, NEW e \in Events, HandleFailure(w, e)
  PROVE  CountInv'
<1>1. /\ UNCHANGED failures /\ IsCurrent(w, e) /\ pc[w] = "failing" /\ pc'[w] # "failing"
      /\ batch' = [batch EXCEPT ![w] = [d \in DOMAIN batch[w] \ {e} |-> batch[w][d]]]
      /\ \A v \in Workers \ {w} : pc'[v] = pc[v]
  BY DEF HandleFailure, NextEvent, TypeOK
<1>2. \A v \in Workers : \A d \in DOMAIN batch'[v] :
        d \in Events /\ d \in DOMAIN batch[v] /\ batch'[v][d] = batch[v][d]
  BY <1>1 DEF TypeOK, IsBatch
<1>3. /\ e \in DOMAIN batch[w] /\ batch[w][e] \in Nat /\ batch[w][e] <= attempts[e]
      /\ \A d \in Events : attempts[d] \in Nat /\ failures[d] \in Nat
  BY <1>1 DEF CountInv, IsCurrent, TypeOK, IsBatch
<1>4. w \in Failing(e)
  BY <1>1 DEF Failing
<1>5. ASSUME NEW d \in Events PROVE Failing(d)' \subseteq Failing(d) \ {w}
  <2>1. \A v \in Workers \ {w} : batch'[v] = batch[v]
    BY <1>1 DEF TypeOK
  <2> QED BY <1>1, <2>1 DEF Failing, IsCurrent
<1>6. ASSUME NEW d \in Events
      PROVE  /\ Cardinality(Failing(d)) \in Nat /\ Cardinality(Failing(d)') \in Nat
             /\ Cardinality(Failing(d)') <= Cardinality(Failing(d))
             /\ d = e => Cardinality(Failing(d)') <= Cardinality(Failing(d)) - 1
                         /\ Cardinality(Failing(d)) >= 1
  <2>1. /\ IsFiniteSet(Failing(d)) /\ Cardinality(Failing(d)) \in Nat
        /\ Cardinality(Failing(d)') \in Nat
    <3>1. Failing(d) \in SUBSET Workers /\ Failing(d)' \in SUBSET Workers
      BY DEF Failing
    <3> QED BY <3>1, FailingFinite
  <2>2. Cardinality(Failing(d)') <= Cardinality(Failing(d))
    BY <1>5, <2>1, FS_Subset
  <2>3. CASE d = e
    <3>1. /\ IsFiniteSet(Failing(d) \ {w})
          /\ Cardinality(Failing(d) \ {w}) = Cardinality(Failing(d)) - 1
      BY <1>4, <2>1, <2>3, FS_RemoveElement
    <3>2. /\ Cardinality(Failing(d)') <= Cardinality(Failing(d) \ {w})
          /\ Cardinality(Failing(d) \ {w}) \in Nat
      BY <1>5, <3>1, FS_Subset, FS_CardinalityType
    <3> QED BY <2>1, <2>2, <3>1, <3>2
  <2> QED BY <2>1, <2>2, <2>3
<1>7. CASE UNCHANGED <<status, attempts>>
  <2>1. \A d \in Events : Failing(d)' \subseteq Failing(d)
    BY <1>5
  <2> QED BY <1>1, <1>2, <1>7, <2>1, CountKept
<1>8. CASE MarkAsFailed(e) /\ AttemptsWithThis(batch[w][e]) >= MaxAttempts
  <2>1. \A d \in Events : attempts'[d] + Cardinality(Failing(d)') <= failures'[d]
    BY <1>1, <1>3, <1>6, <1>8 DEF MarkAsFailed, CountInv
  <2>2. failures[e] >= MaxAttempts
    BY <1>3, <1>6, <1>8, WorkerBoundsAssumption DEF AttemptsWithThis, CountInv
  <2>3. \A d \in Events : status'[d] = "failed" => failures'[d] >= MaxAttempts
    BY <1>1, <1>8, <2>2 DEF MarkAsFailed, CountInv, TypeOK
  <2>4. \A v \in Workers : \A d \in DOMAIN batch'[v] : batch'[v][d] <= attempts'[d]
    BY <1>2, <1>8 DEF MarkAsFailed, CountInv
  <2> QED BY <2>1, <2>3, <2>4 DEF CountInv
<1>9. CASE IncrementAttempt(e)
  <2>1. /\ attempts'[e] = attempts[e] + 1 /\ UNCHANGED status
        /\ \A d \in Events \ {e} : attempts'[d] = attempts[d]
    BY <1>9 DEF IncrementAttempt, TypeOK
  <2>2. \A d \in Events : attempts'[d] + Cardinality(Failing(d)') <= failures'[d]
    BY <1>1, <1>3, <1>6, <2>1 DEF CountInv
  <2>3. ASSUME NEW v \in Workers, NEW d \in DOMAIN batch'[v]
        PROVE  batch'[v][d] <= attempts'[d]
    <3>1. /\ d \in Events /\ batch'[v][d] = batch[v][d] /\ batch[v][d] <= attempts[d]
          /\ batch[v][d] \in Nat
      BY <1>2 DEF CountInv, TypeOK, IsBatch
    <3>2. attempts[d] \in Nat /\ attempts'[d] \in {attempts[d], attempts[d] + 1}
      BY <1>3, <2>1, <3>1
    <3> QED BY <3>1, <3>2
  <2> QED BY <1>1, <2>1, <2>2, <2>3 DEF CountInv
<1> QED BY <1>7, <1>8, <1>9 DEF HandleFailure

LEMMA CountStep ==
  ASSUME IsFiniteSet(Workers), TypeOK, CountInv, [Next]_vars PROVE CountInv'
<1>0. \A w \in Workers : \A e \in DOMAIN batch[w] : e \in Events
  BY DEF TypeOK, IsBatch
<1>1. ASSUME UNCHANGED <<attempts, failures, batch>>,
             \A w \in Workers : pc'[w] = "failing" => pc[w] = "failing",
             \A e \in Events : status'[e] = "failed" => status[e] = "failed"
      PROVE  CountInv'
  <2>1. \A e \in Events : Failing(e)' \subseteq Failing(e)
    BY <1>1 DEF Failing, IsCurrent
  <2> QED BY <1>0, <1>1, <2>1, CountKept
<1>2. ASSUME NEW e \in Events, Enqueue(e) PROVE CountInv'
  BY <1>1, <1>2 DEF Enqueue, TypeOK
<1>3. ASSUME NEW w \in Workers, Start(w) \/ Deliver(w) \/ ConnLost(w) \/ Cancel(w)
      PROVE  CountInv'
  BY <1>1, <1>3 DEF Start, Deliver, ConnLost, Cancel, rows, TypeOK
<1>4. ASSUME NEW w \in Workers, Fetch(w) PROVE CountInv'
  <2>1. /\ UNCHANGED <<status, attempts, failures>> /\ Oldest(Pending) \subseteq Events
        /\ pc' = [pc EXCEPT ![w] = "publishing"]
        /\ batch' = [batch EXCEPT ![w] = [e \in Oldest(Pending) |-> attempts[e]]]
    BY <1>4 DEF Fetch, GetPendingEvents, rows, Oldest, Pending
  <2>2. \A e \in Events : Failing(e)' \subseteq Failing(e)
    BY <2>1 DEF Failing, IsCurrent, TypeOK
  <2>3. \A v \in Workers : \A e \in DOMAIN batch'[v] :
          e \in Events /\ (batch'[v][e] = attempts[e]
                            \/ (e \in DOMAIN batch[v] /\ batch'[v][e] = batch[v][e]))
    BY <1>0, <2>1 DEF TypeOK
  <2> QED BY <2>1, <2>2, <2>3, CountKept
<1>5. ASSUME NEW w \in Workers, ProcessEnds(w) PROVE CountInv'
  <2>1. /\ UNCHANGED <<status, attempts, failures>> /\ pc' = [pc EXCEPT ![w] = "down"]
        /\ batch' = [batch EXCEPT ![w] = NoBatch]
    BY <1>5 DEF ProcessEnds, rows
  <2>2. \A e \in Events : Failing(e)' \subseteq Failing(e)
    BY <2>1 DEF Failing, IsCurrent, TypeOK
  <2>3. \A v \in Workers : \A e \in DOMAIN batch'[v] :
          e \in Events /\ e \in DOMAIN batch[v] /\ batch'[v][e] = batch[v][e]
    BY <1>0, <2>1 DEF TypeOK, NoBatch
  <2> QED BY <2>1, <2>2, <2>3, CountKept
<1>6. ASSUME NEW w \in Workers, NEW e \in Events, Mark(w, e) PROVE CountInv'
  <2>1. /\ UNCHANGED <<attempts, failures>> /\ e \in DOMAIN batch[w]
        /\ batch' = [batch EXCEPT ![w] = [d \in DOMAIN batch[w] \ {e} |-> batch[w][d]]]
        /\ pc'[w] # "failing" /\ \A v \in Workers \ {w} : pc'[v] = pc[v]
        /\ status' = [status EXCEPT ![e] = "processed"] \/ UNCHANGED status
    BY <1>6 DEF Mark, IsCurrent, NextEvent, TypeOK
  <2>2. \A v \in Workers \ {w} : batch'[v] = batch[v]
    BY <2>1 DEF TypeOK
  <2>3. \A d \in Events : Failing(d)' \subseteq Failing(d)
    BY <2>1, <2>2 DEF Failing, IsCurrent
  <2>4. \A v \in Workers : \A d \in DOMAIN batch'[v] :
          d \in Events /\ d \in DOMAIN batch[v] /\ batch'[v][d] = batch[v][d]
    BY <1>0, <2>1, <2>2 DEF TypeOK
  <2>5. \A d \in Events : status'[d] = "failed" => status[d] = "failed"
    BY <2>1 DEF TypeOK
  <2> QED BY <2>1, <2>3, <2>4, <2>5, CountKept
<1>7. CASE UNCHANGED vars
  BY <1>1, <1>7 DEF vars, rows
<1> QED
  BY <1>2, <1>3, <1>4, <1>5, <1>6, <1>7, CountPublish, CountHandleFailure
     DEF Next, Work, Handle, Idle, Exit, Crash

\* However many workers count, each on its own copy of the row, no event is
\* given up before MaxAttempts publishes of it have failed.
THEOREM GivenUpAfterMaxAttempts ==
  ASSUME IsFiniteSet(Workers) PROVE Spec => []FailedOnlyAfterMaxAttempts
<1>1. Init => TypeOK /\ CountInv
  BY TypeInit, CountInit
<1>2. TypeOK /\ CountInv /\ [Next]_vars => (TypeOK /\ CountInv)'
  BY TypeStep, CountStep
<1>3. TypeOK /\ CountInv => FailedOnlyAfterMaxAttempts
  <2> SUFFICES ASSUME TypeOK, CountInv, NEW e \in Events
               PROVE  /\ attempts[e] <= failures[e]
                      /\ status[e] = "failed" => failures[e] >= MaxAttempts
    BY DEF FailedOnlyAfterMaxAttempts
  <2>1. Failing(e) \in SUBSET Workers
    BY DEF Failing
  <2>2. /\ Cardinality(Failing(e)) \in Nat
        /\ attempts[e] \in Nat /\ failures[e] \in Nat
    BY <2>1, FailingFinite DEF TypeOK
  <2> QED BY <2>2 DEF CountInv
<1> QED BY <1>1, <1>2, <1>3, PTL DEF Spec

-----------------------------------------------------------------------------
(***************************************************************************)
(* One worker implements EventDelivery.                                     *)
(***************************************************************************)
OneWorkerInv == TypeOK /\ SentInv /\ CopyInv /\ CountInv

LEMMA OneWorkerInit == Init => OneWorkerInv
BY TypeInit, CopyInit, CountInit DEF OneWorkerInv, SentInv, Init

LEMMA OneWorkerStep ==
  ASSUME NEW w0, Workers = {w0}, OneWorkerInv, [Next]_vars
  PROVE  OneWorkerInv'
<1>1. IsFiniteSet(Workers)
  BY FS_Singleton
<1> QED BY <1>1, TypeStep, SentStep, CopyStep, CountStep DEF OneWorkerInv

\* Every step submits an event, handles the one a worker is at, or leaves the
\* abstract variables alone, whatever the number of workers.
LEMMA StepHandles ==
  ASSUME IsFiniteSet(Workers), TypeOK, SentInv, CountInv, [Next]_vars
  PROVE  \/ \E e \in Events : Delivery!Submit(e)
         \/ \E w \in Workers : \E e \in Events : IsCurrent(w, e) /\ Delivery!Handle(e)
         \/ UNCHANGED Delivery!vars
<1>1. ASSUME NEW e \in Events, Enqueue(e) PROVE Delivery!Submit(e)
  BY <1>1 DEF Enqueue, Delivery!Submit, net
<1>2. ASSUME UNCHANGED <<status, sent, failures>> PROVE UNCHANGED Delivery!vars
  BY <1>2 DEF Delivery!vars
<1>3. ASSUME NEW w \in Workers,
             \/ Start(w) \/ Fetch(w) \/ Deliver(w) \/ ConnLost(w) \/ Cancel(w)
             \/ ProcessEnds(w)
      PROVE  UNCHANGED <<status, sent, failures>>
  BY <1>3 DEF Start, Fetch, Deliver, ConnLost, Cancel, ProcessEnds, rows, net
<1>4. ASSUME NEW w \in Workers, NEW e \in Events, Publish(w, e)
      PROVE  IsCurrent(w, e) /\ Delivery!Handle(e)
  <2>1. IsCurrent(w, e) /\ UNCHANGED status
    BY <1>4 DEF Publish, rows
  <2>2. CASE connected[w]
    <3>1. Delivery!Send(e)
      BY <1>4, <2>1, <2>2 DEF Publish, Delivery!Send
    <3> QED BY <2>1, <3>1 DEF Delivery!Handle
  <2>3. CASE ~connected[w]
    <3>1. Delivery!SendFails(e)
      BY <1>4, <2>1, <2>3 DEF Publish, Delivery!SendFails
    <3> QED BY <2>1, <3>1 DEF Delivery!Handle
  <2> QED BY <2>2, <2>3
<1>5. ASSUME NEW w \in Workers, NEW e \in Events, Mark(w, e)
      PROVE  (IsCurrent(w, e) /\ Delivery!Handle(e)) \/ UNCHANGED Delivery!vars
  <2>1. IsCurrent(w, e) /\ IsSent(e) /\ UNCHANGED <<sent, failures>>
    BY <1>5 DEF Mark, SentInv, net
  <2>2. CASE status' = [status EXCEPT ![e] = "processed"]
    <3>1. Delivery!Confirm(e)
      BY <2>1, <2>2 DEF Delivery!Confirm, Delivery!Sent, IsSent
    <3> QED BY <2>1, <3>1 DEF Delivery!Handle
  <2>3. CASE UNCHANGED status
    BY <1>2, <2>1, <2>3
  <2> QED BY <1>5, <2>2, <2>3 DEF Mark
<1>6. ASSUME NEW w \in Workers, NEW e \in Events, HandleFailure(w, e)
      PROVE  (IsCurrent(w, e) /\ Delivery!Handle(e)) \/ UNCHANGED Delivery!vars
  <2>1. IsCurrent(w, e) /\ UNCHANGED <<sent, failures>>
    BY <1>6 DEF HandleFailure, net
  <2>2. CASE status' = [status EXCEPT ![e] = "failed"]
    <3>1. status'[e] = "failed" /\ CountInv'
      BY <2>2, CountStep DEF TypeOK
    <3>2. failures[e] >= MaxAttempts
      BY <2>1, <3>1 DEF CountInv
    <3>3. Delivery!GiveUp(e)
      BY <2>1, <2>2, <3>2 DEF Delivery!GiveUp
    <3> QED BY <2>1, <3>3 DEF Delivery!Handle
  <2>3. CASE UNCHANGED status
    BY <1>2, <2>1, <2>3
  <2> QED BY <1>6, <2>2, <2>3 DEF HandleFailure, MarkAsFailed, IncrementAttempt
<1>7. CASE UNCHANGED vars
  BY <1>2, <1>7 DEF vars, rows, net
<1> QED
  BY <1>1, <1>2, <1>3, <1>4, <1>5, <1>6, <1>7 DEF Next, Work, Handle, Idle, Exit, Crash

LEMMA DeliveryStep ==
  ASSUME NEW w0, Workers = {w0}, OneWorkerInv, [Next]_vars
  PROVE  Delivery!Next \/ UNCHANGED Delivery!vars
<1>1. IsFiniteSet(Workers)
  BY FS_Singleton
<1>2. ASSUME NEW w \in Workers, NEW e \in Events, IsCurrent(w, e)
      PROVE  status[e] = "pending"
  BY <1>2 DEF OneWorkerInv, CopyInv, IsCurrent
<1>3. \/ \E e \in Events : Delivery!Submit(e)
      \/ \E w \in Workers : \E e \in Events : IsCurrent(w, e) /\ Delivery!Handle(e)
      \/ UNCHANGED Delivery!vars
  BY <1>1, StepHandles DEF OneWorkerInv
<1> QED BY <1>2, <1>3 DEF Delivery!Next

\* One worker does nothing to an event that EventDelivery does not allow, whatever
\* breaks: it settles a pending event once, after a publish that succeeded or
\* after MaxAttempts that failed.
THEOREM OneWorkerDelivers ==
  ASSUME NEW w0, Workers = {w0}
  PROVE  Spec => ImplementsEventDelivery
<1>1. Init => Delivery!Init
  BY DEF Init, Delivery!Init
<1>2. OneWorkerInv /\ [Next]_vars => OneWorkerInv'
  BY OneWorkerStep
<1>3. OneWorkerInv /\ [Next]_vars => [Delivery!Next]_(Delivery!vars)
  BY DeliveryStep
<1> QED
  BY <1>1, <1>2, <1>3, OneWorkerInit, PTL
     DEF Spec, ImplementsEventDelivery, Delivery!Spec

-----------------------------------------------------------------------------
(***************************************************************************)
(* What is published again is owed to a fault, or to a worker that runs     *)
(* beside the others.  A cancelled worker has used its fault up before it    *)
(* fails to mark.                                                           *)
(***************************************************************************)
Places(e) == {i \in DOMAIN sent : sent[i] = e}

\* The workers about to mark e, those that hold e although they are cancelled,
\* and those that will not publish e before they fetch it again.
Marking(e) == {w \in Workers : pc[w] = "marking" /\ IsCurrent(w, e)}
Doomed(e)  == {w \in Workers : cancelled[w] /\ e \in DOMAIN batch[w]}
Passed(e)  == {w \in Workers : e \in DOMAIN batch[w] => w \in Marking(e)}

Marks(w, e) == IF w \in Marking(e) THEN 1 ELSE 0
Holds(w, e) == IF w \in Doomed(e) THEN 1 ELSE 0

\* While an event is pending, every publish of it is being marked or has cost a
\* fault; once it is settled, every worker may publish it once more at most.
RepeatsInv ==
  /\ \A w \in Workers : \A e \in DOMAIN batch[w] : status[e] # "absent"
  /\ \A e \in Events :
       /\ status[e] = "absent"  => Cardinality(Places(e)) = 0
       /\ status[e] = "pending" =>
            Cardinality(Places(e)) + Cardinality(Doomed(e)) <= faults + Cardinality(Marking(e))
       /\ status[e] \in {"processed", "failed"} =>
            Cardinality(Places(e)) <= faults + Cardinality(Passed(e))

LEMMA RepeatsInit == ASSUME IsFiniteSet(Workers) PROVE Init => RepeatsInv
<1> SUFFICES ASSUME Init PROVE RepeatsInv
  OBVIOUS
<1>1. \A e \in Events : Places(e) = {} /\ status[e] = "absent"
  BY DEF Init, Places
<1>2. \A e \in Events : Cardinality(Places(e)) = 0
  BY <1>1, FS_EmptySet
<1>3. \A w \in Workers : DOMAIN batch[w] = {}
  BY DEF Init, NoBatch
<1> QED BY <1>1, <1>2, <1>3 DEF RepeatsInv

LEMMA PlacesFinite ==
  ASSUME TypeOK, NEW e
  PROVE  IsFiniteSet(Places(e)) /\ Cardinality(Places(e)) \in Nat
<1>1. Len(sent) \in Nat /\ Places(e) \in SUBSET (1..Len(sent))
  BY DEF TypeOK, Places
<1>2. IsFiniteSet(1..Len(sent))
  BY <1>1, FS_Interval
<1> QED BY <1>1, <1>2, FS_Subset, FS_CardinalityType

LEMMA PlacesGrow ==
  ASSUME TypeOK, NEW e \in Events, sent' = Append(sent, e)
  PROVE  /\ Cardinality(Places(e)') = Cardinality(Places(e)) + 1
         /\ \A d \in Events \ {e} : Places(d)' = Places(d)
<1>1. /\ Len(sent) \in Nat /\ DOMAIN sent = 1..Len(sent)
      /\ DOMAIN sent' = 1..Len(sent)+1 /\ sent'[Len(sent)+1] = e
      /\ \A i \in DOMAIN sent : sent'[i] = sent[i]
  BY DEF TypeOK
<1>2. Places(e)' = Places(e) \cup {Len(sent)+1} /\ Len(sent)+1 \notin Places(e)
  BY <1>1 DEF Places
<1>3. Cardinality(Places(e)') = Cardinality(Places(e)) + 1
  BY <1>2, PlacesFinite, FS_AddElement
<1>4. ASSUME NEW d \in Events \ {e} PROVE Places(d)' = Places(d)
  BY <1>1 DEF Places
<1> QED BY <1>3, <1>4

\* The size of a set of workers after one of them has moved.
LEMMA OneMoves ==
  ASSUME IsFiniteSet(Workers), NEW X \in SUBSET Workers, NEW Y \in SUBSET Workers,
         NEW w \in Workers, X \ {w} = Y \ {w}
  PROVE  /\ Cardinality(X) \in Nat /\ Cardinality(Y) \in Nat
         /\ Cardinality(Y) + (IF w \in X THEN 1 ELSE 0)
              = Cardinality(X) + (IF w \in Y THEN 1 ELSE 0)
<1>1. /\ IsFiniteSet(X) /\ Cardinality(X) \in Nat
      /\ IsFiniteSet(Y) /\ Cardinality(Y) \in Nat
  BY FailingFinite
<1>2. CASE w \in X <=> w \in Y
  <2>1. X = Y
    BY <1>2
  <2> QED BY <1>1, <1>2, <2>1
<1>3. CASE w \in X /\ w \notin Y
  <2>1. Y = X \ {w}
    BY <1>3
  <2>2. Cardinality(Y) = Cardinality(X) - 1
    BY <1>1, <1>3, <2>1, FS_RemoveElement
  <2> QED BY <1>1, <1>3, <2>2
<1>4. CASE w \notin X /\ w \in Y
  <2>1. Y = X \cup {w}
    BY <1>4
  <2>2. Cardinality(Y) = Cardinality(X) + 1
    BY <1>1, <1>4, <2>1, FS_AddElement
  <2> QED BY <1>1, <1>4, <2>2
<1> QED BY <1>2, <1>3, <1>4

\* A step of worker w changes no other worker.
OnlyMoves(w) ==
  \A v \in Workers \ {w} :
    pc'[v] = pc[v] /\ cancelled'[v] = cancelled[v] /\ batch'[v] = batch[v]

LEMMA WorkersMove ==
  ASSUME IsFiniteSet(Workers), NEW w \in Workers, OnlyMoves(w), NEW e
  PROVE  /\ Cardinality(Marking(e)) \in Nat /\ Cardinality(Marking(e)') \in Nat
         /\ Cardinality(Doomed(e)) \in Nat /\ Cardinality(Doomed(e)') \in Nat
         /\ Cardinality(Passed(e)) \in Nat /\ Cardinality(Passed(e)') \in Nat
         /\ Cardinality(Marking(e)') + Marks(w, e) = Cardinality(Marking(e)) + Marks(w, e)'
         /\ Cardinality(Doomed(e)') + Holds(w, e) = Cardinality(Doomed(e)) + Holds(w, e)'
         /\ Marking(e) \subseteq Passed(e)
         /\ w \in Passed(e)' \/ w \notin Passed(e) => Passed(e) \subseteq Passed(e)'
         /\ Marks(w, e) \in {0, 1} /\ Marks(w, e)' \in {0, 1}
         /\ Holds(w, e) \in {0, 1} /\ Holds(w, e)' \in {0, 1}
<1>1. /\ Marking(e) \in SUBSET Workers /\ Marking(e)' \in SUBSET Workers
      /\ Doomed(e) \in SUBSET Workers /\ Doomed(e)' \in SUBSET Workers
      /\ Passed(e) \in SUBSET Workers /\ Passed(e)' \in SUBSET Workers
  BY DEF Marking, Doomed, Passed
<1>2. Marking(e) \ {w} = Marking(e)' \ {w}
  BY DEF Marking, IsCurrent, OnlyMoves
<1>3. Doomed(e) \ {w} = Doomed(e)' \ {w}
  BY DEF Doomed, OnlyMoves
<1>4. Passed(e) \ {w} = Passed(e)' \ {w}
  BY <1>2 DEF Passed, OnlyMoves
<1>5. Cardinality(Passed(e)) \in Nat /\ Cardinality(Passed(e)') \in Nat
  BY <1>1, FailingFinite
<1>6. /\ Cardinality(Marking(e)) \in Nat /\ Cardinality(Marking(e)') \in Nat
      /\ Cardinality(Marking(e)') + Marks(w, e) = Cardinality(Marking(e)) + Marks(w, e)'
  BY <1>1, <1>2, OneMoves DEF Marks
<1>7. /\ Cardinality(Doomed(e)) \in Nat /\ Cardinality(Doomed(e)') \in Nat
      /\ Cardinality(Doomed(e)') + Holds(w, e) = Cardinality(Doomed(e)) + Holds(w, e)'
  BY <1>1, <1>3, OneMoves DEF Holds
<1>8. Marking(e) \subseteq Passed(e)
  BY DEF Marking, Passed
<1>9. w \in Passed(e)' \/ w \notin Passed(e) => Passed(e) \subseteq Passed(e)'
  BY <1>4
<1>10. /\ Marks(w, e) \in {0, 1} /\ Marks(w, e)' \in {0, 1}
       /\ Holds(w, e) \in {0, 1} /\ Holds(w, e)' \in {0, 1}
  BY DEF Marks, Holds
<1> QED BY <1>5, <1>6, <1>7, <1>8, <1>9, <1>10

\* A step that publishes nothing: what remains is arithmetic on one event.
LEMMA RepeatsKept ==
  ASSUME IsFiniteSet(Workers), TypeOK, RepeatsInv, UNCHANGED sent,
         NEW w \in Workers, OnlyMoves(w), faults' \in Nat, faults <= faults',
         status' \in [Events -> {"absent", "pending", "processed", "failed"}],
         \A e \in Events : status'[e] = "absent" <=> status[e] = "absent",
         \A e \in Events : status'[e] = "pending" =>
           /\ status[e] = "pending"
           /\ faults + Marks(w, e) + Holds(w, e)' <= faults' + Marks(w, e)' + Holds(w, e),
         \A e \in Events : status'[e] \in {"processed", "failed"} =>
           w \in Passed(e)' \/ w \notin Passed(e),
         \A e \in DOMAIN batch'[w] : e \in Events /\ status'[e] # "absent"
  PROVE  RepeatsInv'
<1>1. ASSUME NEW v \in Workers, NEW e \in DOMAIN batch'[v] PROVE status'[e] # "absent"
  <2>1. CASE v = w
    BY <1>1, <2>1
  <2>2. CASE v # w
    BY <1>1, <2>2 DEF OnlyMoves, RepeatsInv, TypeOK, IsBatch
  <2> QED BY <2>1, <2>2
<1>2. ASSUME NEW e \in Events
      PROVE  /\ status'[e] = "absent"  => Cardinality(Places(e)') = 0
             /\ status'[e] = "pending" =>
                  Cardinality(Places(e)') + Cardinality(Doomed(e)')
                    <= faults' + Cardinality(Marking(e)')
             /\ status'[e] \in {"processed", "failed"} =>
                  Cardinality(Places(e)') <= faults' + Cardinality(Passed(e)')
  <2>1. Places(e)' = Places(e) /\ Cardinality(Places(e)) \in Nat /\ faults \in Nat
    <3>1. Places(e)' = Places(e)
      BY DEF Places
    <3> QED BY <3>1, PlacesFinite DEF TypeOK
  <2>2. /\ status[e] = "absent"  => Cardinality(Places(e)) = 0
        /\ status[e] = "pending" =>
             Cardinality(Places(e)) + Cardinality(Doomed(e)) <= faults + Cardinality(Marking(e))
        /\ status[e] \in {"processed", "failed"} =>
             Cardinality(Places(e)) <= faults + Cardinality(Passed(e))
    BY DEF RepeatsInv
  <2>3. CASE status'[e] = "absent"
    BY <2>1, <2>2, <2>3
  <2>4. CASE status'[e] = "pending"
    BY <2>1, <2>2, <2>4, WorkersMove
  <2>5. CASE status'[e] \in {"processed", "failed"}
    <3>1. /\ Passed(e) \subseteq Passed(e)' /\ Marking(e) \subseteq Passed(e)'
      BY <2>5, WorkersMove
    <3>2. Passed(e)' \in SUBSET Workers
      BY DEF Passed
    <3>3. /\ Cardinality(Passed(e)) <= Cardinality(Passed(e)')
          /\ Cardinality(Marking(e)) <= Cardinality(Passed(e)')
      BY <3>1, <3>2, FailingFinite, FS_Subset
    <3>4. status[e] \in {"pending", "processed", "failed"}
      BY <2>5 DEF TypeOK
    <3>5. /\ Cardinality(Passed(e)) \in Nat /\ Cardinality(Passed(e)') \in Nat
          /\ Cardinality(Marking(e)) \in Nat /\ Cardinality(Doomed(e)) \in Nat
      BY WorkersMove
    <3>6. Cardinality(Places(e)) <= faults' + Cardinality(Passed(e)')
      BY <2>1, <2>2, <3>3, <3>4, <3>5
    <3> QED BY <2>1, <2>5, <3>6
  <2> QED BY <2>3, <2>4, <2>5
<1> QED BY <1>1, <1>2 DEF RepeatsInv

LEMMA RepeatsPublish ==
  ASSUME IsFiniteSet(Workers), TypeOK, RepeatsInv,
         NEW w \in Workers, NEW e \in Events, Publish(w, e)
  PROVE  RepeatsInv'
<1>1. /\ UNCHANGED <<status, batch, cancelled, faults>> /\ pc[w] = "publishing"
      /\ IsCurrent(w, e) /\ OnlyMoves(w) /\ pc'[w] \in {"marking", "failing"}
      /\ faults \in Nat /\ status \in [Events -> {"absent", "pending", "processed", "failed"}]
  BY DEF Publish, rows, TypeOK, OnlyMoves
<1>2. ASSUME NEW d \in Events
      PROVE  Marks(w, d) = 0 /\ Holds(w, d)' = Holds(w, d)
  BY <1>1 DEF Marks, Holds, Marking, Doomed
<1>3. \A d \in Events : w \in Passed(d)' \/ w \notin Passed(d)
  BY <1>1 DEF Passed, Marking
<1>4. \A v \in Workers : \A d \in DOMAIN batch[v] : d \in Events /\ status[d] # "absent"
  BY DEF TypeOK, IsBatch, RepeatsInv
<1>5. CASE ~connected[w]
  <2>1. UNCHANGED sent
    BY <1>5 DEF Publish
  <2>2. \A d \in Events : Marks(w, d)' \in {0, 1} /\ Holds(w, d) \in {0, 1}
    BY DEF Marks, Holds
  <2>3. \A d \in Events :
          faults + Marks(w, d) + Holds(w, d)' <= faults' + Marks(w, d)' + Holds(w, d)
    BY <1>1, <1>2, <2>2
  <2>4. \A d \in DOMAIN batch'[w] : d \in Events /\ status'[d] # "absent"
    BY <1>1, <1>4
  <2> QED BY <1>1, <1>3, <2>1, <2>3, <2>4, RepeatsKept
<1>6. CASE connected[w]
  <2>1. sent' = Append(sent, e) /\ pc'[w] = "marking"
    BY <1>6 DEF Publish, TypeOK
  <2>2. /\ Cardinality(Places(e)') = Cardinality(Places(e)) + 1
        /\ \A d \in Events \ {e} : Places(d)' = Places(d)
    BY <2>1, PlacesGrow
  <2>3. w \in Marking(e)' /\ e \in DOMAIN batch[w]
    BY <1>1, <2>1 DEF Marking, IsCurrent
  <2>4. ASSUME NEW d \in Events
        PROVE  /\ status'[d] = "absent"  => Cardinality(Places(d)') = 0
               /\ status'[d] = "pending" =>
                    Cardinality(Places(d)') + Cardinality(Doomed(d)')
                      <= faults' + Cardinality(Marking(d)')
               /\ status'[d] \in {"processed", "failed"} =>
                    Cardinality(Places(d)') <= faults' + Cardinality(Passed(d)')
    <3>1. /\ status[d] = "absent"  => Cardinality(Places(d)) = 0
          /\ status[d] = "pending" =>
               Cardinality(Places(d)) + Cardinality(Doomed(d)) <= faults + Cardinality(Marking(d))
          /\ status[d] \in {"processed", "failed"} =>
               Cardinality(Places(d)) <= faults + Cardinality(Passed(d))
      BY DEF RepeatsInv
    <3>2. Cardinality(Places(d)) \in Nat
      BY PlacesFinite
    <3>3. /\ Passed(d) \in SUBSET Workers /\ Passed(d)' \in SUBSET Workers
          /\ Passed(d) \subseteq Passed(d)'
      BY <1>1, <1>3, WorkersMove DEF Passed
    <3>4. /\ IsFiniteSet(Passed(d)) /\ IsFiniteSet(Passed(d)')
          /\ Cardinality(Passed(d)) <= Cardinality(Passed(d)')
      BY <3>3, FailingFinite, FS_Subset
    <3>5. CASE d = e
      <4>1. status[e] # "absent"
        BY <2>3 DEF RepeatsInv
      <4>2. Marks(w, e)' = 1
        BY <2>3 DEF Marks
      <4>3. /\ Cardinality(Marking(e)') = Cardinality(Marking(e)) + 1
            /\ Cardinality(Doomed(e)') = Cardinality(Doomed(e))
            /\ Cardinality(Marking(e)) \in Nat /\ Cardinality(Doomed(e)) \in Nat
            /\ Cardinality(Passed(e)) \in Nat /\ Cardinality(Passed(e)') \in Nat
        BY <1>1, <1>2, <4>2, WorkersMove
      <4>4. Cardinality(Passed(e)) + 1 <= Cardinality(Passed(e)')
        <5>1. w \notin Passed(e) /\ w \in Passed(e)'
          BY <1>1, <2>3 DEF Passed, Marking
        <5>2. Passed(e) \cup {w} \subseteq Passed(e)'
          BY <3>3, <3>5, <5>1
        <5>3. /\ IsFiniteSet(Passed(e) \cup {w})
              /\ Cardinality(Passed(e) \cup {w}) = Cardinality(Passed(e)) + 1
          BY <3>4, <3>5, <5>1, FS_AddElement
        <5> QED BY <3>4, <3>5, <5>2, <5>3, FS_Subset
      <4> QED BY <1>1, <2>2, <3>1, <3>2, <3>5, <4>1, <4>3, <4>4
    <3>6. CASE d # e
      <4>1. Places(d)' = Places(d)
        BY <2>2, <3>6
      <4>2. Marks(w, d)' \in {0, 1} /\ Holds(w, d) \in {0, 1}
        BY DEF Marks, Holds
      <4>3. /\ Cardinality(Marking(d)') >= Cardinality(Marking(d))
            /\ Cardinality(Doomed(d)') = Cardinality(Doomed(d))
            /\ Cardinality(Marking(d)) \in Nat /\ Cardinality(Doomed(d)) \in Nat
            /\ Cardinality(Marking(d)') \in Nat
            /\ Cardinality(Passed(d)) \in Nat /\ Cardinality(Passed(d)') \in Nat
        BY <1>1, <1>2, <4>2, WorkersMove
      <4> QED BY <1>1, <3>1, <3>2, <3>4, <4>1, <4>3
    <3> QED BY <3>5, <3>6
  <2> QED BY <1>1, <1>4, <2>4 DEF RepeatsInv
<1> QED BY <1>5, <1>6

\* The worker has handled event e without a publish of it.
LEMMA RepeatsHandled ==
  ASSUME IsFiniteSet(Workers), TypeOK, RepeatsInv, TypeOK',
         NEW w \in Workers, NEW e \in Events, Mark(w, e) \/ HandleFailure(w, e)
  PROVE  RepeatsInv'
<1>1. /\ UNCHANGED <<sent, cancelled>> /\ IsCurrent(w, e) /\ pc'[w] # "marking"
      /\ batch' = [batch EXCEPT ![w] = [d \in DOMAIN batch[w] \ {e} |-> batch[w][d]]]
      /\ faults \in Nat /\ faults' \in Nat /\ faults <= faults' /\ OnlyMoves(w)
  BY DEF Mark, HandleFailure, NextEvent, StatementFails, net, TypeOK, OnlyMoves
<1>2. DOMAIN batch'[w] = DOMAIN batch[w] \ {e} /\ e \in DOMAIN batch[w]
  BY <1>1 DEF TypeOK, IsCurrent
<1>3. /\ \A d \in Events \ {e} : status'[d] = status[d]
      /\ status'[e] \in {status[e], "processed", "failed"} /\ status[e] # "absent"
  BY <1>2 DEF Mark, HandleFailure, MarkAsFailed, IncrementAttempt, TypeOK, RepeatsInv
<1>4. \/ pc[w] # "marking" \/ cancelled[w] \/ faults' = faults + 1
      \/ status'[e] = "processed"
  BY DEF Mark, HandleFailure, StatementFails, TypeOK
<1>5. ASSUME NEW d \in Events, d # e
      PROVE  /\ w \notin Marking(d) /\ w \notin Marking(d)'
             /\ w \in Doomed(d)' <=> w \in Doomed(d)
             /\ w \in Passed(d)' <=> w \in Passed(d)
  <2>1. ~IsCurrent(w, d)
    BY <1>1, <1>5, EventsFinite DEF IsCurrent
  <2> QED BY <1>1, <1>2, <1>5, <2>1 DEF Marking, Doomed, Passed
<1>6. /\ w \notin Marking(e)' /\ w \notin Doomed(e)' /\ w \in Passed(e)'
      /\ w \in Marking(e) => pc[w] = "marking"
      /\ cancelled[w] => w \in Doomed(e)
  BY <1>1, <1>2 DEF Marking, Doomed, Passed
<1>7. ASSUME NEW d \in Events, status'[d] = "pending"
      PROVE  /\ status[d] = "pending"
             /\ faults + Marks(w, d) + Holds(w, d)' <= faults' + Marks(w, d)' + Holds(w, d)
  <2>1. CASE d = e
    <3>1. status[d] = "pending"
      BY <1>3, <1>7, <2>1
    <3>2. /\ Marks(w, d)' = 0 /\ Holds(w, d)' = 0
          /\ Marks(w, d) \in {0, 1} /\ Holds(w, d) \in {0, 1}
          /\ Marks(w, d) = 1 => Holds(w, d) = 1 \/ faults' = faults + 1
      BY <1>4, <1>6, <1>7, <2>1 DEF Marks, Holds
    <3> QED BY <1>1, <3>1, <3>2
  <2>2. CASE d # e
    <3>1. /\ Marks(w, d) = 0 /\ Marks(w, d)' = 0 /\ Holds(w, d)' = Holds(w, d)
          /\ Holds(w, d) \in {0, 1}
      BY <1>5, <2>2 DEF Marks, Holds
    <3> QED BY <1>1, <1>3, <1>7, <2>2, <3>1
  <2> QED BY <2>1, <2>2
<1>8. \A d \in Events : status'[d] = "absent" <=> status[d] = "absent"
  BY <1>3
<1>9. \A d \in Events : w \in Passed(d)' \/ w \notin Passed(d)
  BY <1>5, <1>6
<1>10. \A d \in DOMAIN batch'[w] : d \in Events /\ status'[d] # "absent"
  BY <1>2, <1>3 DEF TypeOK, IsBatch, RepeatsInv
<1>11. status' \in [Events -> {"absent", "pending", "processed", "failed"}]
  BY DEF TypeOK
<1> QED BY <1>1, <1>7, <1>8, <1>9, <1>10, <1>11, RepeatsKept

LEMMA RepeatsStep ==
  ASSUME IsFiniteSet(Workers), TypeOK, RepeatsInv, [Next]_vars
  PROVE  RepeatsInv'
<1>0. /\ faults \in Nat /\ TypeOK' /\ faults' \in Nat
      /\ status \in [Events -> {"absent", "pending", "processed", "failed"}]
      /\ \A w \in Workers : \A e \in DOMAIN batch[w] : e \in Events /\ status[e] # "absent"
  BY TypeStep DEF TypeOK, IsBatch, RepeatsInv
\* A step of w that leaves the rows alone.
<1>1. ASSUME NEW w \in Workers, UNCHANGED <<sent, status>>, OnlyMoves(w), faults <= faults',
             \A e \in Events :
               /\ faults + Marks(w, e) + Holds(w, e)' <= faults' + Marks(w, e)' + Holds(w, e)
               /\ status[e] = "pending" \/ w \in Passed(e)' \/ w \notin Passed(e),
             \A e \in DOMAIN batch'[w] : e \in Events /\ status[e] # "absent"
      PROVE  RepeatsInv'
  BY <1>0, <1>1, RepeatsKept
<1>2. CASE UNCHANGED <<sent, status, pc, cancelled, batch, faults>>
  <2>1. \A e : /\ Places(e)' = Places(e) /\ Doomed(e)' = Doomed(e)
               /\ Marking(e)' = Marking(e)
    BY <1>2 DEF Places, Doomed, Marking, IsCurrent
  <2>2. \A e : Passed(e)' = Passed(e)
    BY <1>2, <2>1 DEF Passed
  <2> QED BY <1>2, <2>1, <2>2 DEF RepeatsInv
<1>3. ASSUME NEW e \in Events, Enqueue(e) PROVE RepeatsInv'
  <2>1. /\ UNCHANGED <<sent, pc, batch, cancelled, faults>> /\ status[e] = "absent"
        /\ status'[e] = "pending" /\ \A d \in Events \ {e} : status'[d] = status[d]
    BY <1>3 DEF Enqueue, net, TypeOK
  <2>2. \A d : /\ Places(d)' = Places(d) /\ Doomed(d)' = Doomed(d)
               /\ Marking(d)' = Marking(d)
    BY <2>1 DEF Places, Doomed, Marking, IsCurrent
  <2>3. \A d : Passed(d)' = Passed(d)
    BY <2>1, <2>2 DEF Passed
  <2>4. Doomed(e) = {} /\ Cardinality(Doomed(e)) = 0
    <3>1. Doomed(e) = {}
      BY <2>1 DEF Doomed, RepeatsInv
    <3> QED BY <3>1, FS_EmptySet
  <2>5. Cardinality(Marking(e)) \in Nat
    <3>1. Marking(e) \in SUBSET Workers
      BY DEF Marking
    <3> QED BY <3>1, FailingFinite
  <2>6. Cardinality(Places(e)') + Cardinality(Doomed(e)') <= faults' + Cardinality(Marking(e)')
    <3>1. Cardinality(Places(e)') = 0 /\ Cardinality(Doomed(e)') = 0
      BY <2>1, <2>2, <2>4 DEF RepeatsInv
    <3>2. Cardinality(Marking(e)') = Cardinality(Marking(e)) /\ faults' = faults
      BY <2>1, <2>2
    <3> QED BY <1>0, <2>5, <3>1, <3>2
  <2>7. \A w \in Workers : \A d \in DOMAIN batch'[w] : status'[d] # "absent"
    BY <1>0, <2>1
  <2> QED BY <2>1, <2>2, <2>3, <2>6, <2>7 DEF RepeatsInv
<1>4. ASSUME NEW w \in Workers, Start(w) \/ Deliver(w) \/ ConnLost(w) PROVE RepeatsInv'
  <2>1. /\ UNCHANGED <<sent, status, batch, cancelled>> /\ faults <= faults'
        /\ pc'[w] = "marking" <=> pc[w] = "marking"
        /\ OnlyMoves(w)
    <3>1. CASE Start(w)
      BY <1>0, <3>1 DEF Start, rows, TypeOK, OnlyMoves
    <3>2. CASE Deliver(w) \/ ConnLost(w)
      BY <1>0, <3>2 DEF Deliver, ConnLost, rows, OnlyMoves
    <3> QED BY <1>4, <3>1, <3>2
  <2>2. \A e \in Events : /\ Marks(w, e)' = Marks(w, e) /\ Holds(w, e)' = Holds(w, e)
                          /\ Marks(w, e) \in {0, 1} /\ Holds(w, e) \in {0, 1}
                          /\ w \in Passed(e)' <=> w \in Passed(e)
    BY <2>1 DEF Marks, Holds, Marking, Doomed, Passed, IsCurrent
  <2>3. \A e \in Events :
          faults + Marks(w, e) + Holds(w, e)' <= faults' + Marks(w, e)' + Holds(w, e)
    BY <1>0, <2>1, <2>2
  <2>4. \A e \in DOMAIN batch'[w] : e \in Events /\ status[e] # "absent"
    BY <1>0, <2>1
  <2> QED BY <1>1, <2>1, <2>2, <2>3, <2>4
<1>5. ASSUME NEW w \in Workers, Cancel(w) PROVE RepeatsInv'
  <2>1. UNCHANGED <<sent, status, batch, pc>> /\ faults' = faults + 1 /\ OnlyMoves(w)
    BY <1>5 DEF Cancel, rows, net, TypeOK, OnlyMoves
  <2>2. \A e \in Events : /\ Marks(w, e)' = Marks(w, e) /\ Marks(w, e) \in {0, 1}
                          /\ Holds(w, e) \in {0, 1} /\ Holds(w, e)' \in {0, 1}
                          /\ w \in Passed(e)' <=> w \in Passed(e)
    BY <2>1 DEF Marks, Holds, Marking, Passed, IsCurrent
  <2>3. \A e \in Events :
          faults + Marks(w, e) + Holds(w, e)' <= faults' + Marks(w, e)' + Holds(w, e)
    BY <1>0, <2>1, <2>2
  <2> QED BY <1>0, <1>1, <2>1, <2>2, <2>3
<1>6. ASSUME NEW w \in Workers, Fetch(w) PROVE RepeatsInv'
  <2>1. /\ UNCHANGED <<sent, status, cancelled, faults>> /\ OnlyMoves(w)
        /\ pc[w] = "polling" /\ pc'[w] = "publishing" /\ ~cancelled[w]
        /\ DOMAIN batch'[w] = Oldest(Pending)
    BY <1>6 DEF Fetch, GetPendingEvents, rows, net, TypeOK, OnlyMoves
  <2>2. \A e \in Events : /\ Marks(w, e) = 0 /\ Marks(w, e)' = 0
                          /\ Holds(w, e) = 0 /\ Holds(w, e)' = 0
    BY <2>1 DEF Marks, Holds, Marking, Doomed
  <2>3. \A e \in Oldest(Pending) : e \in Events /\ status[e] = "pending"
    BY DEF Oldest, Pending
  <2>4. \A e \in Events : status[e] = "pending" \/ w \in Passed(e)'
    BY <2>1, <2>3 DEF Passed
  <2>5. \A e \in Events :
          faults + Marks(w, e) + Holds(w, e)' <= faults' + Marks(w, e)' + Holds(w, e)
    BY <1>0, <2>1, <2>2
  <2>6. \A e \in DOMAIN batch'[w] : e \in Events /\ status[e] # "absent"
    BY <2>1, <2>3
  <2> QED BY <1>0, <1>1, <2>1, <2>4, <2>5, <2>6
<1>7. ASSUME NEW w \in Workers, Exit(w) \/ Crash(w) PROVE RepeatsInv'
  <2>1. /\ UNCHANGED <<sent, status>> /\ pc'[w] = "down" /\ cancelled'[w] = FALSE
        /\ (cancelled[w] /\ faults' = faults) \/ faults' = faults + 1
        /\ OnlyMoves(w) /\ DOMAIN batch'[w] = {}
    BY <1>7 DEF Exit, Crash, ProcessEnds, NoBatch, rows, TypeOK, OnlyMoves
  <2>2. \A e \in Events : /\ Marks(w, e)' = 0 /\ Holds(w, e)' = 0
                          /\ Marks(w, e) \in {0, 1} /\ Holds(w, e) \in {0, 1}
                          /\ cancelled[w] => Marks(w, e) <= Holds(w, e)
                          /\ w \in Passed(e)'
    BY <2>1 DEF Marks, Holds, Marking, Doomed, Passed, IsCurrent
  <2>3. \A e \in Events :
          faults + Marks(w, e) + Holds(w, e)' <= faults' + Marks(w, e)' + Holds(w, e)
    BY <1>0, <2>1, <2>2
  <2> QED BY <1>0, <1>1, <2>1, <2>2, <2>3
<1>8. ASSUME NEW w \in Workers, NEW e \in Events,
             Publish(w, e) \/ Mark(w, e) \/ HandleFailure(w, e)
      PROVE  RepeatsInv'
  BY <1>0, <1>8, RepeatsPublish, RepeatsHandled
<1>9. CASE UNCHANGED vars
  BY <1>2, <1>9 DEF vars, rows, net
<1> QED
  BY <1>3, <1>4, <1>5, <1>6, <1>7, <1>8, <1>9 DEF Next, Work, Handle, Idle

LEMMA RepeatsBound ==
  ASSUME IsFiniteSet(Workers), TypeOK, RepeatsInv, NEW e \in Events
  PROVE  Cardinality(Places(e)) <= Cardinality(Workers) + faults
<1>1. /\ Marking(e) \in SUBSET Workers /\ Passed(e) \in SUBSET Workers
      /\ Doomed(e) \in SUBSET Workers
  BY DEF Marking, Passed, Doomed
<1>2. /\ Cardinality(Marking(e)) <= Cardinality(Workers)
      /\ Cardinality(Passed(e)) <= Cardinality(Workers)
      /\ Cardinality(Marking(e)) \in Nat /\ Cardinality(Passed(e)) \in Nat
      /\ Cardinality(Doomed(e)) \in Nat /\ Cardinality(Workers) \in Nat
  BY <1>1, FailingFinite, FS_Subset, FS_CardinalityType
<1>3. Cardinality(Places(e)) \in Nat /\ faults \in Nat
  BY PlacesFinite DEF TypeOK
<1>4. status[e] \in {"absent", "pending", "processed", "failed"}
  BY DEF TypeOK
<1> QED BY <1>2, <1>3, <1>4 DEF RepeatsInv

\* However many workers run side by side, an event is published at most once by
\* each of them and once more for every fault: a second publish by the same
\* worker needs a first one whose mark was lost.
THEOREM RepeatsNeedFaults ==
  ASSUME IsFiniteSet(Workers)
  PROVE  Spec => []DuplicatesNeedFaults
<1>1. Init => TypeOK /\ RepeatsInv
  BY TypeInit, RepeatsInit
<1>2. TypeOK /\ RepeatsInv /\ [Next]_vars => (TypeOK /\ RepeatsInv)'
  BY TypeStep, RepeatsStep
<1>3. TypeOK /\ RepeatsInv => DuplicatesNeedFaults
  BY RepeatsBound DEF DuplicatesNeedFaults, Places
<1> QED BY <1>1, <1>2, <1>3, PTL DEF Spec

-----------------------------------------------------------------------------
(***************************************************************************)
(* Any number of workers keep what is left of the promise.                  *)
(***************************************************************************)
SharedInv == TypeOK /\ SentInv /\ CountInv /\ RepeatsInv

LEMMA SharedStep ==
  ASSUME IsFiniteSet(Workers), SharedInv, [Next]_vars
  PROVE  SharedInv' /\ (Delivery!SharedNext \/ UNCHANGED Delivery!vars)
<1>1. SharedInv'
  BY TypeStep, SentStep, CountStep, RepeatsStep DEF SharedInv
<1>2. ASSUME NEW w \in Workers, NEW e \in Events, IsCurrent(w, e)
      PROVE  status[e] # "absent"
  BY <1>2 DEF SharedInv, RepeatsInv, IsCurrent
<1>3. \/ \E e \in Events : Delivery!Submit(e)
      \/ \E w \in Workers : \E e \in Events : IsCurrent(w, e) /\ Delivery!Handle(e)
      \/ UNCHANGED Delivery!vars
  BY StepHandles DEF SharedInv
<1>4. Delivery!SharedNext \/ UNCHANGED Delivery!vars
  BY <1>2, <1>3 DEF Delivery!SharedNext
<1> QED BY <1>1, <1>4

\* Workers that race on the same rows publish only what was committed and record no
\* outcome without its cause; a settled event may get another outcome from a stale
\* copy (MarkAsFailed after MarkAsProcessed, or the reverse) but is never reopened.
THEOREM ManyWorkersDeliver ==
  ASSUME IsFiniteSet(Workers)
  PROVE  Spec => ImplementsSharedDelivery
<1>1. Init => SharedInv
  BY TypeInit, CountInit, RepeatsInit DEF SharedInv, SentInv, Init
<1>2. Init => Delivery!Init
  BY DEF Init, Delivery!Init
<1>3. SharedInv /\ [Next]_vars => SharedInv'
  BY SharedStep
<1>4. SharedInv /\ [Next]_vars => [Delivery!SharedNext]_(Delivery!vars)
  BY SharedStep
<1> QED
  BY <1>1, <1>2, <1>3, <1>4, PTL
     DEF Spec, ImplementsSharedDelivery, Delivery!SharedSpec

-----------------------------------------------------------------------------
(***************************************************************************)
(* A copy of a row allows one more attempt to be counted, and no more.      *)
(***************************************************************************)
\* The workers that will count an attempt if their publish of e fails.
Retrying(e) == {w \in Workers : e \in DOMAIN batch[w] /\ batch[w][e] + 1 < MaxAttempts}

RetryInv ==
  \A e \in Events : attempts[e] + Cardinality(Retrying(e))
                      <= (MaxAttempts - 1) + (Cardinality(Workers) - 1)

LEMMA RetryInit ==
  ASSUME IsFiniteSet(Workers), Workers # {} PROVE Init => RetryInv
<1> SUFFICES ASSUME Init, NEW e \in Events
             PROVE  attempts[e] + Cardinality(Retrying(e))
                      <= (MaxAttempts - 1) + (Cardinality(Workers) - 1)
  BY DEF RetryInv
<1>1. Retrying(e) = {} /\ attempts[e] = 0
  BY DEF Init, NoBatch, Retrying
<1>2. Cardinality(Retrying(e)) = 0
  BY <1>1, FS_EmptySet
<1>3. Cardinality(Workers) \in Nat /\ Cardinality(Workers) # 0
  BY FS_CardinalityType, FS_EmptySet
<1> QED BY <1>1, <1>2, <1>3, WorkerBoundsAssumption

\* Copies are dropped or kept, and nothing is counted.
LEMMA RetryKept ==
  ASSUME IsFiniteSet(Workers), TypeOK, RetryInv, UNCHANGED attempts,
         \A w \in Workers : \A e \in DOMAIN batch'[w] :
           e \in DOMAIN batch[w] /\ batch'[w][e] = batch[w][e]
  PROVE  RetryInv'
<1> SUFFICES ASSUME NEW e \in Events
             PROVE  attempts'[e] + Cardinality(Retrying(e)')
                      <= (MaxAttempts - 1) + (Cardinality(Workers) - 1)
  BY DEF RetryInv
<1>1. /\ Retrying(e) \in SUBSET Workers /\ Retrying(e)' \in SUBSET Workers
      /\ Retrying(e)' \subseteq Retrying(e)
  BY DEF Retrying
<1>2. /\ Cardinality(Retrying(e)') <= Cardinality(Retrying(e))
      /\ Cardinality(Retrying(e)) \in Nat /\ Cardinality(Retrying(e)') \in Nat
      /\ Cardinality(Workers) \in Nat
  BY <1>1, FailingFinite, FS_Subset, FS_CardinalityType
<1>3. attempts[e] \in Nat
  BY DEF TypeOK
<1> QED BY <1>2, <1>3, WorkerBoundsAssumption DEF RetryInv

LEMMA RetryFetch ==
  ASSUME IsFiniteSet(Workers), TypeOK, RetryInv, NEW w \in Workers, Fetch(w)
  PROVE  RetryInv'
<1> SUFFICES ASSUME NEW e \in Events
             PROVE  attempts'[e] + Cardinality(Retrying(e)')
                      <= (MaxAttempts - 1) + (Cardinality(Workers) - 1)
  BY DEF RetryInv
<1>1. /\ UNCHANGED attempts /\ attempts[e] \in Nat
      /\ batch' = [batch EXCEPT ![w] = [d \in Oldest(Pending) |-> attempts[d]]]
  BY DEF Fetch, GetPendingEvents, rows, TypeOK
<1>2. Retrying(e) \in SUBSET Workers /\ Retrying(e)' \in SUBSET Workers
  BY DEF Retrying
<1>3. /\ IsFiniteSet(Retrying(e)) /\ Cardinality(Retrying(e)) \in Nat
      /\ Cardinality(Retrying(e)') \in Nat /\ Cardinality(Workers) \in Nat
      /\ Cardinality(Retrying(e)') <= Cardinality(Workers)
  BY <1>2, FailingFinite, FS_Subset, FS_CardinalityType
<1>4. CASE attempts[e] + 1 < MaxAttempts
  BY <1>1, <1>3, <1>4, WorkerBoundsAssumption
<1>5. CASE ~(attempts[e] + 1 < MaxAttempts)
  <2>1. Retrying(e)' \subseteq Retrying(e)
    BY <1>1, <1>5 DEF Retrying, TypeOK
  <2>2. Cardinality(Retrying(e)') <= Cardinality(Retrying(e))
    BY <1>3, <2>1, FS_Subset
  <2> QED BY <1>1, <1>3, <2>2, WorkerBoundsAssumption DEF RetryInv
<1> QED BY <1>4, <1>5

\* The attempt a worker counts is the one its copy allowed.
LEMMA RetryCounts ==
  ASSUME IsFiniteSet(Workers), TypeOK, RetryInv, NEW w \in Workers, NEW e \in Events,
         HandleFailure(w, e)
  PROVE  RetryInv'
<1>1. /\ batch' = [batch EXCEPT ![w] = [d \in DOMAIN batch[w] \ {e} |-> batch[w][d]]]
      /\ e \in DOMAIN batch[w] /\ batch[w][e] \in Nat
  BY DEF HandleFailure, NextEvent, IsCurrent, TypeOK, IsBatch
<1>2. \A v \in Workers : \A d \in DOMAIN batch'[v] :
        d \in DOMAIN batch[v] /\ batch'[v][d] = batch[v][d]
  BY <1>1 DEF TypeOK
<1>3. CASE UNCHANGED attempts
  BY <1>2, <1>3, RetryKept
<1>4. CASE IncrementAttempt(e) /\ ~(AttemptsWithThis(batch[w][e]) >= MaxAttempts)
  <2> SUFFICES ASSUME NEW d \in Events
               PROVE  attempts'[d] + Cardinality(Retrying(d)')
                        <= (MaxAttempts - 1) + (Cardinality(Workers) - 1)
    BY DEF RetryInv
  <2>1. /\ attempts[d] \in Nat /\ attempts'[d] = IF d = e THEN attempts[d] + 1 ELSE attempts[d]
    BY <1>4 DEF IncrementAttempt, TypeOK
  <2>2. w \in Retrying(e) /\ w \notin Retrying(e)'
    BY <1>1, <1>4, WorkerBoundsAssumption DEF AttemptsWithThis, Retrying, TypeOK
  <2>3. /\ Retrying(d) \in SUBSET Workers /\ Retrying(d)' \in SUBSET Workers
        /\ Retrying(d)' \subseteq Retrying(d)
    BY <1>2 DEF Retrying
  <2>4. Retrying(d) \ {w} = Retrying(d)' \ {w}
    BY <1>1 DEF Retrying, TypeOK
  <2>5. /\ Cardinality(Retrying(d)') + (IF w \in Retrying(d) THEN 1 ELSE 0)
             = Cardinality(Retrying(d)) + (IF w \in Retrying(d)' THEN 1 ELSE 0)
        /\ Cardinality(Retrying(d)) \in Nat /\ Cardinality(Retrying(d)') \in Nat
    BY <2>3, <2>4, OneMoves
  <2>6. Cardinality(Workers) \in Nat
    BY FS_CardinalityType
  <2>7. attempts[d] + Cardinality(Retrying(d)) <= (MaxAttempts - 1) + (Cardinality(Workers) - 1)
    BY DEF RetryInv
  <2>8. w \in Retrying(d)' => w \in Retrying(d)
    BY <2>3
  <2>9. CASE d = e
    BY <2>1, <2>2, <2>5, <2>6, <2>7, <2>9, WorkerBoundsAssumption
  <2>10. CASE d # e
    BY <2>1, <2>5, <2>6, <2>7, <2>8, <2>10, WorkerBoundsAssumption
  <2> QED BY <2>9, <2>10
<1> QED BY <1>3, <1>4 DEF HandleFailure, MarkAsFailed

LEMMA RetryStep ==
  ASSUME IsFiniteSet(Workers), TypeOK, RetryInv, [Next]_vars
  PROVE  RetryInv'
<1>1. CASE UNCHANGED <<attempts, batch>>
  BY <1>1, RetryKept
<1>2. ASSUME NEW w \in Workers, ProcessEnds(w) PROVE RetryInv'
  <2>1. UNCHANGED attempts /\ batch' = [batch EXCEPT ![w] = NoBatch]
    BY <1>2 DEF ProcessEnds, rows
  <2>2. \A v \in Workers : \A e \in DOMAIN batch'[v] :
          e \in DOMAIN batch[v] /\ batch'[v][e] = batch[v][e]
    BY <2>1 DEF TypeOK, NoBatch
  <2> QED BY <2>1, <2>2, RetryKept
<1>3. ASSUME NEW w \in Workers, NEW e \in Events, Mark(w, e) PROVE RetryInv'
  <2>1. /\ UNCHANGED attempts
        /\ batch' = [batch EXCEPT ![w] = [d \in DOMAIN batch[w] \ {e} |-> batch[w][d]]]
    BY <1>3 DEF Mark, NextEvent
  <2>2. \A v \in Workers : \A d \in DOMAIN batch'[v] :
          d \in DOMAIN batch[v] /\ batch'[v][d] = batch[v][d]
    BY <2>1 DEF TypeOK
  <2> QED BY <2>1, <2>2, RetryKept
<1>4. ASSUME NEW w \in Workers, NEW e \in Events, Publish(w, e) PROVE RetryInv'
  BY <1>1, <1>4 DEF Publish, rows
<1>5. ASSUME NEW e \in Events, Enqueue(e) PROVE RetryInv'
  BY <1>1, <1>5 DEF Enqueue
<1>6. ASSUME NEW w \in Workers, Start(w) \/ Deliver(w) \/ ConnLost(w) \/ Cancel(w)
      PROVE  RetryInv'
  BY <1>1, <1>6 DEF Start, Deliver, ConnLost, Cancel, rows
<1>7. CASE UNCHANGED vars
  BY <1>1, <1>7 DEF vars, rows
<1> QED
  BY <1>2, <1>3, <1>4, <1>5, <1>6, <1>7, RetryFetch, RetryCounts
     DEF Next, Work, Handle, Idle, Exit, Crash

\* Workers that overlap take a row past its last attempt by at most one attempt
\* for every worker beside the first; a single worker never does.
THEOREM StaleCopiesBounded ==
  ASSUME IsFiniteSet(Workers), Workers # {}
  PROVE  Spec => []RetriesBounded
<1>1. Init => TypeOK /\ RetryInv
  BY TypeInit, RetryInit
<1>2. TypeOK /\ RetryInv /\ [Next]_vars => (TypeOK /\ RetryInv)'
  BY TypeStep, RetryStep
<1>3. TypeOK /\ RetryInv => RetriesBounded
  <2> SUFFICES ASSUME TypeOK, RetryInv, NEW e \in Events
               PROVE  attempts[e] <= (MaxAttempts - 1) + (Cardinality(Workers) - 1)
    BY DEF RetriesBounded
  <2>1. Retrying(e) \in SUBSET Workers
    BY DEF Retrying
  <2>2. /\ Cardinality(Retrying(e)) \in Nat /\ Cardinality(Workers) \in Nat
        /\ attempts[e] \in Nat
    BY <2>1, FailingFinite, FS_CardinalityType DEF TypeOK
  <2> QED BY <2>2, WorkerBoundsAssumption DEF RetryInv
<1> QED BY <1>1, <1>2, <1>3, PTL DEF Spec

-----------------------------------------------------------------------------
(***************************************************************************)
(* One worker: an event is in the batch only together with the older ones   *)
(* that committed before it and are not published yet.                      *)
(***************************************************************************)
Precedes(d, e) ==
  \E i, j \in DOMAIN committed : committed[i] = d /\ committed[j] = e /\ i < j

OrderInv ==
  /\ \A i \in DOMAIN committed : status[committed[i]] # "absent"
  /\ \A k \in DOMAIN sent : status[sent[k]] # "absent"
  /\ \A w \in Workers : \A d, e \in Events :
       d < e /\ failures[d] = 0 /\ Precedes(d, e) /\ e \in DOMAIN batch[w]
         => d \in DOMAIN batch[w] \/ IsSent(d)
  /\ PublishedInOrder

LEMMA OrderInit == Init => OrderInv
BY DEF Init, OrderInv, NoBatch, PublishedInOrder

\* Steps that commit and publish nothing, and drop from the batch only what was
\* published or has failed.
LEMMA OrderKept ==
  ASSUME NEW w0, Workers = {w0}, TypeOK, OrderInv, UNCHANGED <<committed, sent, failures>>,
         \A e \in Events : status[e] # "absent" => status'[e] # "absent",
         DOMAIN batch'[w0] \subseteq DOMAIN batch[w0],
         \A e \in DOMAIN batch[w0] \ DOMAIN batch'[w0] :
           IsSent(e) \/ failures[e] # 0 \/ DOMAIN batch'[w0] = {}
  PROVE  OrderInv'
<1>1. /\ \A i \in DOMAIN committed : committed[i] \in Events
      /\ \A k \in DOMAIN sent : sent[k] \in Events
  BY DEF TypeOK
<1>2. PublishedInOrder'
  BY DEF OrderInv, PublishedInOrder
<1>3. \A d, e : Precedes(d, e)' <=> Precedes(d, e)
  BY DEF Precedes
<1>4. \A d : IsSent(d)' <=> IsSent(d)
  BY DEF IsSent
<1>5. ASSUME NEW d \in Events, NEW e \in Events, d < e, failures[d] = 0, Precedes(d, e),
             e \in DOMAIN batch'[w0]
      PROVE  d \in DOMAIN batch'[w0] \/ IsSent(d)
  BY <1>5 DEF OrderInv
<1> QED BY <1>1, <1>2, <1>3, <1>4, <1>5 DEF OrderInv

LEMMA OrderFetch ==
  ASSUME NEW w0, Workers = {w0}, OneWorkerInv, OrderInv, Fetch(w0)
  PROVE  OrderInv'
<1> USE DEF OneWorkerInv
<1>1. /\ UNCHANGED <<committed, sent, failures, status, attempts>>
      /\ batch' = [batch EXCEPT ![w0] = [e \in Oldest(Pending) |-> attempts[e]]]
  BY DEF Fetch, GetPendingEvents, rows, net
<1>2. DOMAIN batch'[w0] = Oldest(Pending)
  BY <1>1 DEF TypeOK
<1>3. ASSUME NEW d \in Events, NEW e \in Events, d < e, failures[d] = 0, Precedes(d, e),
             e \in Oldest(Pending)
      PROVE  d \in Oldest(Pending) \/ IsSent(d)
  <2>1. status[d] \in {"pending", "processed", "failed"}
    BY <1>3 DEF Precedes, OrderInv, TypeOK
  <2>2. CASE status[d] = "processed"
    BY <2>2 DEF SentInv
  <2>3. status[d] # "failed"
    BY <1>3, WorkerBoundsAssumption DEF CountInv
  <2>4. CASE status[d] = "pending"
    <3>1. d \in Pending /\ e \in Pending /\ Pending \in SUBSET Events
      BY <1>3, <2>4 DEF CopyInv, Pending, Oldest
    <3>2. Cardinality({x \in Pending : x < d}) < Cardinality({x \in Pending : x < e})
      BY <1>3, <3>1, RankIncreases
    <3>3. /\ {x \in Pending : x < d} \in SUBSET Events
          /\ {x \in Pending : x < e} \in SUBSET Events
      BY <3>1
    <3>4. /\ Cardinality({x \in Pending : x < d}) \in Nat
          /\ Cardinality({x \in Pending : x < e}) \in Nat
      BY <3>3, EventsFinite
    <3>5. Cardinality({x \in Pending : x < e}) < BatchSize
      BY <1>3 DEF Oldest
    <3> QED BY <3>1, <3>2, <3>4, <3>5, WorkerBoundsAssumption DEF Oldest
  <2> QED BY <2>1, <2>2, <2>3, <2>4
<1>4. PublishedInOrder'
  BY <1>1 DEF OrderInv, PublishedInOrder
<1>5. \A d, e : Precedes(d, e)' <=> Precedes(d, e)
  BY <1>1 DEF Precedes
<1>6. \A d : IsSent(d)' <=> IsSent(d)
  BY <1>1 DEF IsSent
<1> QED BY <1>1, <1>2, <1>3, <1>4, <1>5, <1>6 DEF OrderInv

LEMMA OrderEnqueue ==
  ASSUME NEW w0, Workers = {w0}, OneWorkerInv, OrderInv, NEW e \in Events, Enqueue(e)
  PROVE  OrderInv'
<1> USE DEF OneWorkerInv
<1> DEFINE m == Len(committed)
<1>1. /\ UNCHANGED <<sent, batch, failures>> /\ status[e] = "absent"
      /\ status' = [status EXCEPT ![e] = "pending"] /\ committed' = Append(committed, e)
  BY DEF Enqueue, net
<1>2. /\ m \in Nat /\ DOMAIN committed = 1..m /\ DOMAIN committed' = 1..m+1
      /\ \A i \in 1..m : committed'[i] = committed[i] /\ committed[i] \in Events
      /\ committed'[m+1] = e
  BY <1>1 DEF TypeOK
<1> HIDE DEF m
<1>3. ASSUME NEW d \in Events, NEW f \in Events, Precedes(d, f)'
      PROVE  f = e \/ Precedes(d, f)
  <2>1. PICK i \in 1..m+1, j \in 1..m+1 : committed'[i] = d /\ committed'[j] = f /\ i < j
    BY <1>2, <1>3 DEF Precedes
  <2>2. CASE j = m + 1
    BY <1>2, <2>1, <2>2
  <2>3. CASE j # m + 1
    BY <1>2, <2>1, <2>3 DEF Precedes
  <2> QED BY <2>2, <2>3
<1>4. e \notin DOMAIN batch[w0] /\ \A k \in DOMAIN sent : sent[k] # e /\ sent[k] \in Events
  BY <1>1 DEF CopyInv, OrderInv, TypeOK
<1>5. \A d \in Events : status[d] # "absent" => status'[d] # "absent"
  BY <1>1 DEF TypeOK
<1>6. \A i \in DOMAIN committed' : status'[committed'[i]] # "absent"
  <2>1. \A i \in 1..m : status'[committed'[i]] # "absent"
    BY <1>2, <1>5 DEF OrderInv
  <2>2. status'[committed'[m+1]] # "absent"
    BY <1>1, <1>2 DEF TypeOK
  <2> QED BY <1>2, <2>1, <2>2
<1>7. \A k \in DOMAIN sent' : status'[sent'[k]] # "absent"
  BY <1>1, <1>4, <1>5 DEF OrderInv
<1>8. ASSUME NEW d \in Events, NEW f \in Events, d < f, failures'[d] = 0, Precedes(d, f)',
             f \in DOMAIN batch'[w0]
      PROVE  d \in DOMAIN batch'[w0] \/ IsSent(d)'
  BY <1>1, <1>3, <1>4, <1>8 DEF OrderInv, IsSent
<1>9. PublishedInOrder'
  <2> SUFFICES ASSUME NEW d \in Events, NEW f \in Events, d < f, failures'[d] = 0,
                      Precedes(d, f)', NEW k \in DOMAIN sent', sent'[k] = f
               PROVE  \E i \in 1..k-1 : sent'[i] = d
    BY DEF PublishedInOrder, Precedes
  <2>1. f # e
    BY <1>1, <1>4
  <2>2. Precedes(d, f)
    BY <1>3, <2>1
  <2> QED BY <1>1, <2>2 DEF OrderInv, PublishedInOrder, Precedes
<1> QED BY <1>6, <1>7, <1>8, <1>9 DEF OrderInv

LEMMA OrderPublish ==
  ASSUME NEW w0, Workers = {w0}, OneWorkerInv, OrderInv, NEW e \in Events, Publish(w0, e)
  PROVE  OrderInv'
<1> USE DEF OneWorkerInv
<1>1. UNCHANGED <<status, committed, batch>> /\ IsCurrent(w0, e)
  BY DEF Publish, rows
<1>2. \A d, f : Precedes(d, f)' <=> Precedes(d, f)
  BY <1>1 DEF Precedes
<1>3. CASE ~connected[w0]
  <2>1. UNCHANGED sent /\ failures' = [failures EXCEPT ![e] = failures[e] + 1]
    BY <1>3 DEF Publish
  <2>2. \A d \in Events : failures'[d] = 0 => failures[d] = 0
    BY <2>1 DEF TypeOK
  <2>3. PublishedInOrder'
    BY <1>1, <2>1, <2>2 DEF OrderInv, PublishedInOrder
  <2> QED BY <1>1, <1>2, <2>1, <2>2, <2>3 DEF OrderInv, IsSent
<1>4. CASE connected[w0]
  <2> DEFINE m == Len(sent)
  <2>1. UNCHANGED failures /\ sent' = Append(sent, e)
    BY <1>4 DEF Publish
  <2>2. /\ m \in Nat /\ DOMAIN sent = 1..m /\ DOMAIN sent' = 1..m+1
        /\ \A k \in 1..m : sent'[k] = sent[k] /\ sent[k] \in Events
        /\ sent'[m+1] = e
    BY <2>1 DEF TypeOK
  <2>3. \A d \in Events : IsSent(d) => IsSent(d)'
    BY <2>2 DEF IsSent
  <2>4. e \in DOMAIN batch[w0] /\ status[e] = "pending"
    BY <1>1 DEF IsCurrent, CopyInv
  <2> HIDE DEF m
  <2>5. \A k \in DOMAIN sent' : status'[sent'[k]] # "absent"
    BY <1>1, <2>2, <2>4 DEF OrderInv
  <2>6. PublishedInOrder'
    <3> SUFFICES ASSUME NEW d \in Events, NEW f \in Events, d < f, failures'[d] = 0,
                        Precedes(d, f)', NEW k \in DOMAIN sent', sent'[k] = f
                 PROVE  \E i \in 1..k-1 : sent'[i] = d
      BY DEF PublishedInOrder, Precedes
    <3>0. failures[d] = 0 /\ Precedes(d, f) /\ k \in 1..m+1
      BY <1>2, <2>1, <2>2
    <3>1. CASE k \in 1..m
      <4>1. \E i \in 1..k-1 : sent[i] = d
        BY <2>2, <3>0, <3>1 DEF OrderInv, PublishedInOrder, Precedes
      <4> QED BY <2>2, <3>1, <4>1
    <3>2. CASE k = m + 1
      <4>1. f = e /\ d \in Nat /\ f \in Nat
        BY <2>2, <3>2, EventsFinite
      <4>2. d \notin DOMAIN batch[w0]
        BY <1>1, <4>1 DEF IsCurrent
      <4>3. IsSent(d)
        BY <2>4, <3>0, <4>1, <4>2 DEF OrderInv
      <4>4. PICK i \in 1..m : sent[i] = d
        BY <2>2, <4>3 DEF IsSent
      <4>5. i \in 1..k-1 /\ sent'[i] = d
        BY <2>2, <3>2, <4>4
      <4> QED BY <4>5
    <3> QED BY <2>2, <3>0, <3>1, <3>2
  <2> QED BY <1>1, <1>2, <2>1, <2>3, <2>5, <2>6 DEF OrderInv
<1> QED BY <1>3, <1>4

LEMMA OrderStep ==
  ASSUME NEW w0, Workers = {w0}, OneWorkerInv, OrderInv, [Next]_vars
  PROVE  OrderInv'
<1> USE DEF OneWorkerInv
<1>1. CASE UNCHANGED vars
  <2>1. UNCHANGED <<committed, sent, failures, status, batch>>
    BY <1>1 DEF vars, rows, net
  <2> QED BY <2>1, OrderKept
<1>2. ASSUME NEW w \in Workers, Start(w) \/ Deliver(w) \/ ConnLost(w) \/ Cancel(w)
      PROVE  OrderInv'
  <2>1. UNCHANGED <<committed, sent, failures, status, batch>>
    BY <1>2 DEF Start, Deliver, ConnLost, Cancel, rows, net
  <2> QED BY <2>1, OrderKept
<1>3. ASSUME NEW w \in Workers, Exit(w) \/ Crash(w) PROVE OrderInv'
  <2>1. UNCHANGED <<committed, sent, failures, status>> /\ batch' = [batch EXCEPT ![w] = NoBatch]
    BY <1>3 DEF Exit, Crash, ProcessEnds, rows
  <2>2. DOMAIN batch'[w0] = {}
    BY <2>1 DEF TypeOK, NoBatch
  <2> QED BY <2>1, <2>2, OrderKept
<1>4. ASSUME NEW w \in Workers, NEW e \in Events, Mark(w, e) \/ HandleFailure(w, e)
      PROVE  OrderInv'
  <2>1. /\ UNCHANGED <<committed, sent, failures>> /\ IsCurrent(w0, e) /\ w = w0
        /\ batch' = [batch EXCEPT ![w0] = [d \in DOMAIN batch[w0] \ {e} |-> batch[w0][d]]]
    BY <1>4 DEF Mark, HandleFailure, NextEvent, net
  <2>2. \A d \in Events : status[d] # "absent" => status'[d] # "absent"
    BY <1>4 DEF Mark, HandleFailure, MarkAsFailed, IncrementAttempt, TypeOK
  <2>3. DOMAIN batch'[w0] = DOMAIN batch[w0] \ {e}
    BY <2>1 DEF TypeOK
  <2>4. IsSent(e) \/ failures[e] # 0
    <3>1. CASE Mark(w, e)
      BY <2>1, <3>1 DEF Mark, SentInv
    <3>2. CASE HandleFailure(w, e)
      <4>1. w0 \in Failing(e)
        BY <2>1, <3>2 DEF HandleFailure, Failing
      <4>2. Failing(e) = {w0}
        BY <4>1 DEF Failing
      <4>3. Cardinality(Failing(e)) = 1
        BY <4>2, FS_Singleton
      <4>4. attempts[e] \in Nat
        BY DEF TypeOK
      <4> QED BY <4>3, <4>4 DEF CountInv
    <3> QED BY <1>4, <3>1, <3>2
  <2> QED BY <2>1, <2>2, <2>3, <2>4, OrderKept
<1> QED
  BY <1>1, <1>2, <1>3, <1>4, OrderFetch, OrderEnqueue, OrderPublish
     DEF Next, Work, Handle, Idle

\* With one worker, of two events committed in the order of their timestamps the
\* older one is published first, unless a publish of it failed.
THEOREM OldestFirst ==
  ASSUME NEW w0, Workers = {w0}
  PROVE  Spec => []PublishedInOrder
<1>1. OneWorkerInv /\ OrderInv /\ [Next]_vars => (OneWorkerInv /\ OrderInv)'
  BY OneWorkerStep, OrderStep
<1>2. OrderInv => PublishedInOrder
  BY DEF OrderInv
<1> QED BY <1>1, <1>2, OneWorkerInit, OrderInit, PTL DEF Spec
=============================================================================
