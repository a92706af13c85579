---------------------------- MODULE EventDelivery ----------------------------
(***************************************************************************)
(* What the outbox promises for every event, without batches, attempts      *)
(* columns, contexts and connections: a submitted event is sent any number  *)
(* of times while it is pending and settled exactly once, as processed       *)
(* after a send, or as failed after Limit sends that failed.  SharedSpec is  *)
(* what is left of this when several workers handle the same events.        *)
(***************************************************************************)
EXTENDS Naturals, Sequences

CONSTANTS Events, Limit

VARIABLES
  state,     \* of each event
  sent,      \* the sends, in order
  failures   \* sends that failed, by event

vars == <<state, sent, failures>>

Sent(e) == \E i \in DOMAIN sent : sent[i] = e

Init ==
  /\ state = [e \in Events |-> "absent"]
  /\ sent = <<>> /\ failures = [e \in Events |-> 0]

Submit(e) ==
  /\ state[e] = "absent" /\ state' = [state EXCEPT ![e] = "pending"]
  /\ UNCHANGED <<sent, failures>>

Send(e) == sent' = Append(sent, e) /\ UNCHANGED <<state, failures>>

SendFails(e) ==
  /\ failures' = [failures EXCEPT ![e] = @ + 1]
  /\ UNCHANGED <<state, sent>>

Confirm(e) ==
  /\ Sent(e) /\ state' = [state EXCEPT ![e] = "processed"]
  /\ UNCHANGED <<sent, failures>>

GiveUp(e) ==
  /\ failures[e] >= Limit /\ state' = [state EXCEPT ![e] = "failed"]
  /\ UNCHANGED <<sent, failures>>

Handle(e) == Send(e) \/ SendFails(e) \/ Confirm(e) \/ GiveUp(e)

\* Only a pending event is handled, so it is settled once.
Next == \E e \in Events : Submit(e) \/ (state[e] = "pending" /\ Handle(e))

\* Several parties that do not know of each other: an event they have settled may
\* be handled again and settled otherwise, but is never open again.
SharedNext == \E e \in Events : Submit(e) \/ (state[e] # "absent" /\ Handle(e))

Spec == Init /\ [][Next]_vars

SharedSpec == Init /\ [][SharedNext]_vars
=============================================================================
