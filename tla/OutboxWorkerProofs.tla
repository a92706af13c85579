------------------------- MODULE OutboxWorkerProofs -------------------------
(***************************************************************************)
(* Theorems about OutboxWorker, for every number of events, batch size,    *)
(* limit of attempts and bound on faults; those that say so are about one  *)
(* worker, the others about any set of workers.                            *)
(***************************************************************************)
EXTENDS OutboxWorker, FiniteSetTheorems, WellFoundedInduction, TLAPS

(***************************************************************************)
(* The query                                                               *)
(***************************************************************************)
LEMMA EventsFinite ==
  /\ Events \subseteq Nat /\ IsFiniteSet(Events)
  /\ \A S \in SUBSET Events : IsFiniteSet(S) /\ Cardinality(S) \in Nat
<1>1. Events \subseteq Nat /\ IsFiniteSet(Events)
  BY FS_Interval, WorkerBoundsAssumption DEF Events
<1> QED BY <1>1, FS_Subset, FS_CardinalityType

\* An event has fewer events before it than any later one has.
LEMMA RankIncreases ==
  ASSUME NEW S \in SUBSET Events, NEW d \in S, NEW e \in S, d < e
  PROVE  Cardinality({x \in S : x < d}) < Cardinality({x \in S : x < e})
<1> DEFINE below == {x \in S : x < d}
<1>1. /\ IsFiniteSet(below) /\ Cardinality(below) \in Nat /\ d \notin below
  BY EventsFinite
<1>2. Cardinality(below \cup {d}) = Cardinality(below) + 1
  BY <1>1, FS_AddElement
<1>3. below \cup {d} \in SUBSET {x \in S : x < e}
  <2>1. \A x \in S : x \in Nat
    BY EventsFinite
  <2> QED BY <2>1
<1>4. /\ IsFiniteSet({x \in S : x < e}) /\ Cardinality({x \in S : x < e}) \in Nat
  BY EventsFinite
<1>5. Cardinality(below \cup {d}) <= Cardinality({x \in S : x < e})
  BY <1>3, <1>4, FS_Subset
<1> QED BY <1>1, <1>2, <1>4, <1>5

\* ORDER BY created_at LIMIT n returns some n rows at most, none of them if and
\* only if there are none.
LEMMA LimitRespected ==
  ASSUME NEW S \in SUBSET Events
  PROVE  /\ Oldest(S) \subseteq S
         /\ Cardinality(Oldest(S)) <= BatchSize
<1> DEFINE rank == [e \in Oldest(S) |-> Cardinality({x \in S : x < e})]
<1>1. Oldest(S) \in SUBSET Events /\ Oldest(S) \subseteq S
  BY DEF Oldest
<1>2. rank \in [Oldest(S) -> 0..BatchSize-1]
  <2>1. \A e \in Oldest(S) : {x \in S : x < e} \in SUBSET Events
    OBVIOUS
  <2>2. \A e \in Oldest(S) : Cardinality({x \in S : x < e}) \in Nat
    BY <2>1, EventsFinite
  <2> QED BY <2>2, WorkerBoundsAssumption DEF Oldest
<1>3. ASSUME NEW d \in Oldest(S), NEW e \in Oldest(S), rank[d] = rank[e] PROVE d = e
  <2>1. d \in Nat /\ e \in Nat /\ d \in S /\ e \in S
    BY <1>1, EventsFinite
  <2>2. /\ ~(Cardinality({x \in S : x < d}) < Cardinality({x \in S : x < e}))
        /\ ~(Cardinality({x \in S : x < e}) < Cardinality({x \in S : x < d}))
    <3>1. Cardinality({x \in S : x < d}) = Cardinality({x \in S : x < e})
      BY <1>3
    <3>2. {x \in S : x < e} \in SUBSET Events
      OBVIOUS
    <3>3. Cardinality({x \in S : x < e}) \in Nat
      BY <3>2, EventsFinite
    <3> QED BY <3>1, <3>3
  <2>3. ~(d < e) /\ ~(e < d)
    BY <2>1, <2>2, RankIncreases
  <2> QED BY <2>1, <2>3
<1>4. rank \in Injection(Oldest(S), 0..BatchSize-1)
  BY <1>2, <1>3 DEF Injection, IsInjective
<1>5. /\ IsFiniteSet(0..BatchSize-1)
      /\ Cardinality(0..BatchSize-1) = BatchSize
  BY FS_Interval, WorkerBoundsAssumption
<1>6. Cardinality(Oldest(S)) <= Cardinality(0..BatchSize-1)
  BY <1>4, <1>5, FS_Injection
<1> QED BY <1>1, <1>5, <1>6

\* The query returns a row whenever one is pending: the oldest.
LEMMA OldestNonempty ==
  ASSUME NEW S \in SUBSET Events, S # {}
  PROVE  Oldest(S) # {}
<1>1. PICK e \in S : \A d \in S : e <= d
  <2>1. PICK e \in S : \A d \in S : ~(<<d, e>> \in OpToRel(<, Nat))
    BY NatLessThanWellFounded, WFMin, EventsFinite
  <2>2. \A d \in S : d \in Nat
    BY EventsFinite
  <2>3. \A d \in S : ~(d < e)
    BY <2>1, <2>2 DEF OpToRel
  <2> QED BY <2>2, <2>3
<1>2. {d \in S : d < e} = {}
  <2>1. \A d \in S : d \in Nat
    BY EventsFinite
  <2> QED BY <1>1, <2>1
<1>3. Cardinality({d \in S : d < e}) < BatchSize
  BY <1>2, FS_EmptySet, WorkerBoundsAssumption
<1> QED BY <1>3 DEF Oldest

(***************************************************************************)
(* Types                                                                   *)
(***************************************************************************)
LEMMA TypeInit == Init => TypeOK
<1> SUFFICES ASSUME Init PROVE TypeOK
  OBVIOUS
<1>1. \A w \in Workers : batch[w] = NoBatch /\ pc[w] = "down"
  BY DEF Init
<1>2. IsBatch(NoBatch) /\ DOMAIN NoBatch = {} /\ Cardinality(DOMAIN NoBatch) <= BatchSize
  BY FS_EmptySet, WorkerBoundsAssumption DEF IsBatch, NoBatch
<1> QED BY <1>1, <1>2 DEF Init, TypeOK

\* What moving on to the next event does to the worker's batch and position.
LEMMA NextEventTyped ==
  ASSUME TypeOK, NEW w \in Workers, NEW e \in Events, e \in DOMAIN batch[w], NextEvent(w, e)
  PROVE  /\ pc' \in [Workers -> {"down", "polling", "publishing", "marking", "failing"}]
         /\ batch' = [v \in Workers |-> batch'[v]]
         /\ \A v \in Workers : /\ IsBatch(batch'[v])
                               /\ Cardinality(DOMAIN batch'[v]) <= BatchSize
                               /\ (batch'[v] = NoBatch) <=> (pc'[v] \in {"down", "polling"})
<1> DEFINE rest == DOMAIN batch[w] \ {e}
           b == [d \in rest |-> batch[w][d]]
<1>1. /\ batch' = [batch EXCEPT ![w] = b]
      /\ pc' = [pc EXCEPT ![w] = IF rest = {} THEN "polling" ELSE "publishing"]
  BY DEF NextEvent
<1>2. /\ batch = [v \in Workers |-> batch[v]] /\ IsBatch(batch[w])
      /\ Cardinality(DOMAIN batch[w]) <= BatchSize
  BY DEF TypeOK
<1>3. IsBatch(b) /\ DOMAIN b = rest
  BY <1>2 DEF IsBatch
<1>4. Cardinality(rest) <= BatchSize
  <2>1. DOMAIN batch[w] \in SUBSET Events /\ rest \in SUBSET DOMAIN batch[w]
    BY <1>2 DEF IsBatch
  <2>2. /\ IsFiniteSet(DOMAIN batch[w]) /\ Cardinality(DOMAIN batch[w]) \in Nat
        /\ Cardinality(rest) \in Nat
    BY <2>1, EventsFinite
  <2>3. Cardinality(rest) <= Cardinality(DOMAIN batch[w])
    BY <2>1, <2>2, FS_Subset
  <2> QED BY <1>2, <2>2, <2>3, WorkerBoundsAssumption
<1>5. (b = NoBatch) <=> (rest = {})
  BY <1>3 DEF NoBatch
<1> HIDE DEF b, rest
<1>6. batch'[w] = b /\ \A v \in Workers \ {w} : batch'[v] = batch[v]
  BY <1>1, <1>2
<1>7. /\ pc' \in [Workers -> {"down", "polling", "publishing", "marking", "failing"}]
      /\ pc'[w] = (IF rest = {} THEN "polling" ELSE "publishing")
      /\ \A v \in Workers \ {w} : pc'[v] = pc[v]
  BY <1>1 DEF TypeOK
<1>8. batch' = [v \in Workers |-> batch'[v]]
  BY <1>1, <1>2
<1>9. \A v \in Workers \ {w} :
         /\ IsBatch(batch'[v]) /\ Cardinality(DOMAIN batch'[v]) <= BatchSize
         /\ (batch'[v] = NoBatch) <=> (pc'[v] \in {"down", "polling"})
  BY <1>6, <1>7 DEF TypeOK
<1>10. /\ IsBatch(batch'[w]) /\ Cardinality(DOMAIN batch'[w]) <= BatchSize
       /\ (batch'[w] = NoBatch) <=> (pc'[w] \in {"down", "polling"})
  BY <1>3, <1>4, <1>5, <1>6, <1>7
<1> QED BY <1>7, <1>8, <1>9, <1>10

LEMMA ProcessEndsTyped ==
  ASSUME TypeOK, NEW w \in Workers, ProcessEnds(w), received' \subseteq Events, faults' \in Nat
  PROVE  TypeOK'
<1>1. IsBatch(NoBatch) /\ Cardinality(DOMAIN NoBatch) <= BatchSize
  BY FS_EmptySet, WorkerBoundsAssumption DEF IsBatch, NoBatch
<1>2. \A v \in Workers : /\ IsBatch(batch'[v]) /\ Cardinality(DOMAIN batch'[v]) <= BatchSize
                         /\ (batch'[v] = NoBatch) <=> (pc'[v] \in {"down", "polling"})
  BY <1>1 DEF TypeOK, ProcessEnds
<1>3. batch' = [v \in Workers |-> batch'[v]]
  BY DEF TypeOK, ProcessEnds
<1>4. /\ pc' \in [Workers -> {"down", "polling", "publishing", "marking", "failing"}]
      /\ cancelled' \in [Workers -> BOOLEAN] /\ connected' \in [Workers -> BOOLEAN]
      /\ wire' \in [Workers -> Seq(Events)]
  BY DEF TypeOK, ProcessEnds
<1>5. /\ status' \in [Events -> {"absent", "pending", "processed", "failed"}]
      /\ attempts' \in [Events -> Nat] /\ failures' \in [Events -> Nat]
      /\ committed' \in Seq(Events) /\ sent' \in Seq(Events)
  BY DEF TypeOK, ProcessEnds, rows
<1> QED BY <1>2, <1>3, <1>4, <1>5 DEF TypeOK

LEMMA TypeStep == TypeOK /\ [Next]_vars => TypeOK'
<1> SUFFICES ASSUME TypeOK, [Next]_vars PROVE TypeOK'
  OBVIOUS
<1>1. ASSUME NEW e \in Events, Enqueue(e) PROVE TypeOK'
  <2>1. status' \in [Events -> {"absent", "pending", "processed", "failed"}]
    BY <1>1 DEF Enqueue, TypeOK
  <2>2. committed' \in Seq(Events)
    BY <1>1 DEF Enqueue, TypeOK
  <2>3. UNCHANGED <<attempts, connected, wire, received, sent, pc, cancelled, batch,
                    failures, faults>>
    BY <1>1 DEF Enqueue, net
  <2> QED BY <2>1, <2>2, <2>3 DEF TypeOK
<1>2. ASSUME NEW w \in Workers, Start(w) PROVE TypeOK'
  BY <1>2 DEF Start, TypeOK, rows
<1>3. ASSUME NEW w \in Workers, Fetch(w) PROVE TypeOK'
  <2> DEFINE b == [e \in Oldest(Pending) |-> attempts[e]]
  <2>1. /\ Pending \in SUBSET Events /\ Pending # {}
    BY <1>3 DEF Fetch, Pending
  <2>2. Oldest(Pending) \subseteq Events /\ Cardinality(Oldest(Pending)) <= BatchSize
    BY <2>1, LimitRespected
  <2>3. IsBatch(b) /\ DOMAIN b = Oldest(Pending)
    BY <2>2 DEF IsBatch, TypeOK
  <2>4. b # NoBatch
    BY <2>1, <2>3, OldestNonempty DEF NoBatch
  <2>5. batch' = [batch EXCEPT ![w] = b] /\ pc' = [pc EXCEPT ![w] = "publishing"]
    BY <1>3 DEF Fetch, GetPendingEvents
  <2> HIDE DEF b
  <2>6. batch' = [v \in Workers |-> batch'[v]]
    BY <2>5 DEF TypeOK
  <2>7. \A v \in Workers : /\ IsBatch(batch'[v]) /\ Cardinality(DOMAIN batch'[v]) <= BatchSize
                           /\ (batch'[v] = NoBatch) <=> (pc'[v] \in {"down", "polling"})
    BY <2>2, <2>3, <2>4, <2>5 DEF TypeOK
  <2>8. pc' \in [Workers -> {"down", "polling", "publishing", "marking", "failing"}]
    BY <2>5 DEF TypeOK
  <2>9. UNCHANGED <<rows, net, cancelled, failures, faults>>
    BY <1>3 DEF Fetch
  <2>10. /\ UNCHANGED <<status, attempts, committed, failures, sent, wire, received>>
         /\ UNCHANGED <<connected, cancelled, faults>>
    BY <2>9 DEF rows, net
  <2> QED BY <2>6, <2>7, <2>8, <2>10 DEF TypeOK
<1>4. ASSUME NEW w \in Workers, NEW e \in Events, Publish(w, e) PROVE TypeOK'
  <2>1. /\ UNCHANGED <<rows, connected, received, cancelled, batch, faults>>
        /\ pc[w] = "publishing"
        /\ pc' \in {[pc EXCEPT ![w] = "marking"], [pc EXCEPT ![w] = "failing"]}
    BY <1>4 DEF Publish
  <2>2. pc' \in [Workers -> {"down", "polling", "publishing", "marking", "failing"}]
    BY <2>1 DEF TypeOK
  <2>3. \A v \in Workers : (batch'[v] = NoBatch) <=> (pc'[v] \in {"down", "polling"})
    BY <2>1 DEF TypeOK
  <2>4. wire' \in [Workers -> Seq(Events)] /\ sent' \in Seq(Events) /\ failures' \in [Events -> Nat]
    <3>1. CASE connected[w]
      <4>1. /\ wire' = [wire EXCEPT ![w] = Append(wire[w], e)]
            /\ sent' = Append(sent, e) /\ UNCHANGED failures
        BY <1>4, <3>1 DEF Publish
      <4>2. wire[w] \in Seq(Events) /\ sent \in Seq(Events)
        BY DEF TypeOK
      <4>3. Append(wire[w], e) \in Seq(Events) /\ Append(sent, e) \in Seq(Events)
        BY <4>2
      <4> QED BY <4>1, <4>3 DEF TypeOK
    <3>2. CASE ~connected[w]
      BY <1>4, <3>2 DEF Publish, TypeOK
    <3> QED BY <3>1, <3>2
  <2> QED BY <2>1, <2>2, <2>3, <2>4 DEF TypeOK, rows
<1>5. ASSUME NEW w \in Workers, NEW e \in Events, Mark(w, e) PROVE TypeOK'
  <2>1. e \in DOMAIN batch[w] /\ NextEvent(w, e)
    BY <1>5 DEF Mark, IsCurrent
  <2>2. status' \in [Events -> {"absent", "pending", "processed", "failed"}]
    BY <1>5 DEF Mark, TypeOK
  <2>3. faults' \in Nat
    BY <1>5 DEF Mark, StatementFails, TypeOK
  <2> QED BY <1>5, <2>1, <2>2, <2>3, NextEventTyped DEF Mark, TypeOK, net
<1>6. ASSUME NEW w \in Workers, NEW e \in Events, HandleFailure(w, e) PROVE TypeOK'
  <2>1. e \in DOMAIN batch[w] /\ NextEvent(w, e)
    BY <1>6 DEF HandleFailure, MarkAsFailed, IncrementAttempt, IsCurrent
  <2>2. /\ status' \in [Events -> {"absent", "pending", "processed", "failed"}]
        /\ attempts' \in [Events -> Nat]
    <3>1. CASE UNCHANGED <<status, attempts>>
      BY <3>1 DEF TypeOK
    <3>2. CASE status' = [status EXCEPT ![e] = "failed"] /\ UNCHANGED attempts
      BY <3>2 DEF TypeOK
    <3>3. CASE attempts' = [attempts EXCEPT ![e] = @ + 1] /\ UNCHANGED status
      BY <3>3 DEF TypeOK
    <3> QED BY <1>6, <3>1, <3>2, <3>3 DEF HandleFailure, MarkAsFailed, IncrementAttempt
  <2>3. faults' \in Nat
    BY <1>6 DEF HandleFailure, MarkAsFailed, IncrementAttempt, StatementFails, TypeOK
  <2> QED BY <1>6, <2>1, <2>2, <2>3, NextEventTyped DEF HandleFailure, MarkAsFailed, IncrementAttempt, TypeOK, net
<1>7. ASSUME NEW w \in Workers, Deliver(w) PROVE TypeOK'
  <2>1. wire[w] \in Seq(Events) /\ wire[w] # <<>>
    BY <1>7 DEF Deliver, TypeOK
  <2>2. Head(wire[w]) \in Events /\ Tail(wire[w]) \in Seq(Events)
    BY <2>1
  <2> QED BY <1>7, <2>2 DEF Deliver, TypeOK, rows
<1>8. ASSUME NEW w \in Workers, ConnLost(w) PROVE TypeOK'
  BY <1>8 DEF ConnLost, TypeOK, rows
<1>9. ASSUME NEW w \in Workers, Cancel(w) PROVE TypeOK'
  BY <1>9 DEF Cancel, TypeOK, rows, net
<1>10. ASSUME NEW w \in Workers, Exit(w) PROVE TypeOK'
  <2>1. wire[w] \in Seq(Events)
    BY DEF TypeOK
  <2>2. \A i \in DOMAIN wire[w] : wire[w][i] \in Events
    BY <2>1
  <2> QED BY <1>10, <2>2, ProcessEndsTyped DEF Exit, TypeOK
<1>11. ASSUME NEW w \in Workers, Crash(w) PROVE TypeOK'
  <2>1. ProcessEnds(w) /\ received' \subseteq Events /\ faults' \in Nat
    BY <1>11 DEF Crash, TypeOK
  <2> QED BY <2>1, ProcessEndsTyped
<1>12. CASE UNCHANGED vars
  BY <1>12 DEF vars, rows, net, TypeOK
<1> QED
  BY <1>1, <1>2, <1>3, <1>4, <1>5, <1>6, <1>7, <1>8, <1>9, <1>10, <1>11, <1>12
  DEF Next, Work, Handle, Idle

\* Every variable has its type; in particular no worker ever holds more than
\* BatchSize events, and it is inside its loop exactly while it holds some.
THEOREM TypeCorrect == Spec => []TypeOK
<1> QED BY TypeInit, TypeStep, PTL DEF Spec

-----------------------------------------------------------------------------
(***************************************************************************)
(* A worker about to mark an event as processed has published it.          *)
(***************************************************************************)
IsSent(e) == \E i \in DOMAIN sent : sent[i] = e

SentInv ==
  /\ \A e \in Events : status[e] = "processed" => IsSent(e)
  /\ \A w \in Workers : \A e \in Events :
       pc[w] = "marking" /\ IsCurrent(w, e) => IsSent(e)

LEMMA SentGrows ==
  ASSUME sent \in Seq(Events), NEW e \in Events, sent' = Append(sent, e)
  PROVE  IsSent(e)' /\ \A d \in Events : IsSent(d) => IsSent(d)'
<1>1. /\ Len(sent) \in Nat /\ DOMAIN sent = 1..Len(sent)
      /\ DOMAIN sent' = 1..Len(sent)+1 /\ sent'[Len(sent)+1] = e
      /\ \A i \in DOMAIN sent : sent'[i] = sent[i]
  OBVIOUS
<1>2. Len(sent)+1 \in DOMAIN sent' /\ \A i \in DOMAIN sent : i \in DOMAIN sent'
  BY <1>1
<1> QED BY <1>1, <1>2 DEF IsSent

\* The sent events only grow, and only Publish takes a worker to its mark.
LEMMA SentStep == TypeOK /\ SentInv /\ [Next]_vars => SentInv'
<1> SUFFICES ASSUME TypeOK, SentInv, [Next]_vars PROVE SentInv'
  OBVIOUS
<1> USE DEF TypeOK
<1>1. ASSUME UNCHANGED <<sent, batch>>,
             \A e \in Events : status'[e] = "processed" => status[e] = "processed",
             \A w \in Workers : pc'[w] = "marking" => pc[w] = "marking"
      PROVE  SentInv'
  BY <1>1 DEF SentInv, IsSent, IsCurrent
<1>2. ASSUME NEW e \in Events, Enqueue(e) PROVE SentInv'
  BY <1>1, <1>2 DEF Enqueue, net
<1>3. ASSUME NEW w \in Workers, Start(w) \/ ConnLost(w) \/ Deliver(w) \/ Cancel(w)
      PROVE  SentInv'
  BY <1>1, <1>3 DEF Start, ConnLost, Deliver, Cancel, rows, net
<1>4. ASSUME NEW w \in Workers, Fetch(w) \/ ProcessEnds(w) PROVE SentInv'
  <2>1. /\ UNCHANGED <<sent, status>> /\ pc'[w] # "marking"
        /\ \A v \in Workers \ {w} : pc'[v] = pc[v] /\ batch'[v] = batch[v]
    BY <1>4 DEF Fetch, ProcessEnds, rows, net
  <2> QED BY <2>1 DEF SentInv, IsSent, IsCurrent
<1>5. ASSUME NEW w \in Workers, NEW e \in Events, Publish(w, e) PROVE SentInv'
  <2>1. UNCHANGED <<status, batch>> /\ IsCurrent(w, e)
    BY <1>5 DEF Publish, rows
  <2>2. \A d \in Events : IsSent(d) => IsSent(d)'
    <3>1. CASE connected[w]
      BY <1>5, <3>1, SentGrows DEF Publish
    <3>2. CASE ~connected[w]
      BY <1>5, <3>2 DEF Publish, IsSent
    <3> QED BY <3>1, <3>2
  <2>3. ASSUME NEW v \in Workers, NEW d \in Events, pc'[v] = "marking", IsCurrent(v, d)
        PROVE  IsSent(d)'
    <3>1. CASE v = w
      <4>1. sent' = Append(sent, e) /\ sent \in Seq(Events)
        BY <1>5, <2>3, <3>1 DEF Publish
      <4>2. IsSent(e)'
        BY <4>1, SentGrows
      <4>3. d \in Nat /\ e \in Nat
        BY EventsFinite
      <4>4. d = e
        BY <2>1, <2>3, <3>1, <4>3 DEF IsCurrent
      <4> QED BY <4>2, <4>4
    <3>2. CASE v # w
      <4>1. pc[v] = "marking"
        BY <1>5, <2>3, <3>2 DEF Publish
      <4> QED BY <2>2, <2>3, <4>1 DEF SentInv
    <3> QED BY <3>1, <3>2
  <2> QED BY <2>1, <2>2, <2>3 DEF SentInv, IsCurrent
<1>6. ASSUME NEW w \in Workers, NEW e \in Events, Mark(w, e) \/ HandleFailure(w, e)
      PROVE  SentInv'
  <2>1. /\ UNCHANGED sent /\ pc'[w] # "marking"
        /\ \A v \in Workers \ {w} : pc'[v] = pc[v] /\ batch'[v] = batch[v]
    BY <1>6 DEF Mark, HandleFailure, MarkAsFailed, IncrementAttempt, NextEvent, net
  <2>2. Mark(w, e) => IsSent(e)
    BY DEF Mark, SentInv
  <2>3. \A d \in Events : status'[d] = "processed" => status[d] = "processed" \/ IsSent(d)
    <3>1. CASE Mark(w, e)
      BY <2>2, <3>1 DEF Mark
    <3>2. CASE HandleFailure(w, e)
      BY <3>2 DEF HandleFailure, MarkAsFailed, IncrementAttempt
    <3> QED BY <1>6, <3>1, <3>2
  <2> QED BY <2>1, <2>3 DEF SentInv, IsSent, IsCurrent
<1>7. CASE UNCHANGED vars
  BY <1>1, <1>7 DEF vars, rows, net
<1> QED
  BY <1>2, <1>3, <1>4, <1>5, <1>6, <1>7 DEF Next, Work, Handle, Idle, Exit, Crash

\* However many workers handle an event, it is marked as processed only if a
\* Publish of it returned nil before.
THEOREM ProcessedEventsWereSent == Spec => []ProcessedWasSent
<1>1. Init => TypeOK /\ SentInv
  BY TypeInit DEF Init, SentInv
<1>2. TypeOK /\ SentInv /\ [Next]_vars => (TypeOK /\ SentInv)'
  BY TypeStep, SentStep
<1>3. SentInv => ProcessedWasSent
  BY DEF SentInv, ProcessedWasSent, IsSent
<1> QED BY <1>1, <1>2, <1>3, PTL DEF Spec

-----------------------------------------------------------------------------
(***************************************************************************)
(* One worker: its batch is a true copy of rows that are still pending.    *)
(***************************************************************************)
CopyInv ==
  /\ \A e \in Events : status[e] = "pending" => attempts[e] < MaxAttempts
  /\ \A e \in Events : status[e] = "absent" => attempts[e] = 0
  /\ \A w \in Workers : \A e \in DOMAIN batch[w] :
       status[e] = "pending" /\ batch[w][e] = attempts[e]

SettledKept ==
  \A e \in Events : status[e] \in {"processed", "failed"}
                      => status'[e] = status[e] /\ attempts'[e] = attempts[e]

LEMMA CopyStep ==
  ASSUME NEW w0, Workers = {w0}, TypeOK, CopyInv, [Next]_vars
  PROVE  CopyInv' /\ SettledKept
<1> USE DEF TypeOK
<1>1. ASSUME NEW e \in Events, Enqueue(e) PROVE CopyInv' /\ SettledKept
  BY <1>1, WorkerBoundsAssumption DEF Enqueue, CopyInv, SettledKept, IsBatch
<1>2. ASSUME UNCHANGED <<status, attempts, batch>> PROVE CopyInv' /\ SettledKept
  BY <1>2 DEF CopyInv, SettledKept
<1>3. ASSUME NEW w \in Workers, Start(w) \/ Deliver(w) \/ ConnLost(w) \/ Cancel(w)
      PROVE  UNCHANGED <<status, attempts, batch>>
  BY <1>3 DEF Start, Deliver, ConnLost, Cancel, rows
<1>4. ASSUME NEW w \in Workers, Fetch(w) PROVE CopyInv' /\ SettledKept
  <2>1. /\ UNCHANGED <<status, attempts>> /\ Oldest(Pending) \subseteq Pending
        /\ batch' = [batch EXCEPT ![w] = [e \in Oldest(Pending) |-> attempts[e]]]
    BY <1>4 DEF Fetch, GetPendingEvents, rows, Oldest
  <2> QED BY <2>1 DEF CopyInv, SettledKept, Pending
<1>5. ASSUME NEW w \in Workers, ProcessEnds(w) PROVE CopyInv' /\ SettledKept
  BY <1>5 DEF ProcessEnds, rows, NoBatch, CopyInv, SettledKept
<1>6. ASSUME NEW w \in Workers, NEW e \in Events, Publish(w, e)
      PROVE  UNCHANGED <<status, attempts, batch>>
  BY <1>6 DEF Publish, rows
<1>7. ASSUME NEW w \in Workers, NEW e \in Events, Mark(w, e) \/ HandleFailure(w, e)
      PROVE  CopyInv' /\ SettledKept
  <2>1. /\ e \in DOMAIN batch[w] /\ DOMAIN batch[w] \subseteq Events
        /\ batch' = [batch EXCEPT ![w] = [d \in DOMAIN batch[w] \ {e} |-> batch[w][d]]]
    BY <1>7 DEF Mark, HandleFailure, MarkAsFailed, IncrementAttempt, IsCurrent, NextEvent, IsBatch
  <2>2. status[e] = "pending" /\ batch[w][e] = attempts[e] /\ attempts[e] \in Nat
    BY <2>1 DEF CopyInv
  <2>3. \/ status' = [status EXCEPT ![e] = "processed"] /\ UNCHANGED attempts
        \/ status' = [status EXCEPT ![e] = "failed"] /\ UNCHANGED attempts
        \/ /\ attempts[e] + 1 < MaxAttempts /\ UNCHANGED status
           /\ attempts' = [attempts EXCEPT ![e] = attempts[e] + 1]
        \/ UNCHANGED <<status, attempts>>
    BY <1>7, <2>2, WorkerBoundsAssumption DEF Mark, HandleFailure, MarkAsFailed, IncrementAttempt, AttemptsWithThis
  <2>4. \A d \in Events \ {e} : status'[d] = status[d] /\ attempts'[d] = attempts[d]
    BY <2>3
  <2>5. /\ status'[e] # "absent"
        /\ status'[e] = "pending" => attempts'[e] < MaxAttempts
    BY <2>2, <2>3 DEF CopyInv
  <2>6. \A v \in Workers : v = w
    OBVIOUS
  <2>7. DOMAIN batch'[w] = DOMAIN batch[w] \ {e}
        /\ \A d \in DOMAIN batch[w] \ {e} : batch'[w][d] = batch[w][d]
    BY <2>1
  <2>8. ASSUME NEW d \in Events
        PROVE  /\ status'[d] = "pending" => attempts'[d] < MaxAttempts
               /\ status'[d] = "absent" => attempts'[d] = 0
               /\ status[d] \in {"processed", "failed"}
                    => status'[d] = status[d] /\ attempts'[d] = attempts[d]
    <3>1. CASE d = e
      BY <2>2, <2>5, <3>1
    <3>2. CASE d # e
      BY <2>4, <3>2 DEF CopyInv
    <3> QED BY <3>1, <3>2
  <2>9. ASSUME NEW v \in Workers, NEW d \in DOMAIN batch'[v]
        PROVE  status'[d] = "pending" /\ batch'[v][d] = attempts'[d]
    <3>1. d \in DOMAIN batch[w] \ {e} /\ batch'[v][d] = batch[w][d]
      BY <2>6, <2>7, <2>9
    <3>2. status[d] = "pending" /\ batch[w][d] = attempts[d]
      BY <3>1 DEF CopyInv
    <3> QED BY <2>1, <2>4, <3>1, <3>2
  <2> QED BY <2>8, <2>9 DEF CopyInv, SettledKept
<1>8. CASE UNCHANGED vars
  BY <1>2, <1>8 DEF vars, rows
<1> QED
  BY <1>1, <1>2, <1>3, <1>4, <1>5, <1>6, <1>7, <1>8
  DEF Next, Work, Handle, Idle, Exit, Crash

LEMMA CopyInit == Init => CopyInv
BY DEF Init, CopyInv, NoBatch

\* With one worker, every pending event is one the query still selects: no
\* failed statement leaves an event behind with its attempts used up.
THEOREM OneWorkerLeavesNoneBehind ==
  ASSUME NEW w0, Workers = {w0}
  PROVE  Spec => []PendingIsSelected
<1>1. Init => TypeOK /\ CopyInv
  BY TypeInit, CopyInit
<1>2. TypeOK /\ CopyInv /\ [Next]_vars => (TypeOK /\ CopyInv)'
  BY TypeStep, CopyStep
<1>3. CopyInv => PendingIsSelected
  BY DEF CopyInv, PendingIsSelected, Pending
<1> QED BY <1>1, <1>2, <1>3, PTL DEF Spec

\* With one worker, an event that was processed or given up is never touched
\* again, whatever stops, crashes and failed statements come in between.
THEOREM OneWorkerSettlesOnce ==
  ASSUME NEW w0, Workers = {w0}
  PROVE  Spec => OutcomeIsFinal
<1>1. Init => TypeOK /\ CopyInv
  BY TypeInit, CopyInit
<1>2. TypeOK /\ CopyInv /\ [Next]_vars => (TypeOK /\ CopyInv)'
  BY TypeStep, CopyStep
<1>3. TypeOK /\ CopyInv /\ [Next]_vars => [SettledKept]_vars
  BY CopyStep
<1>4. Spec => [][SettledKept]_vars
  BY <1>1, <1>2, <1>3, PTL DEF Spec
<1> QED BY <1>4 DEF OutcomeIsFinal, SettledKept
=============================================================================
