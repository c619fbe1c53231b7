----------------------------- MODULE EventRelay -----------------------------
(***************************************************************************)
(* What the outbox promises the services behind the broker: they get       *)
(* copies of events that were stored, and of no others.  Events of one     *)
(* transaction are stored together; an event may be sent at any time after *)
(* that, more than once or never.  Outbox implements this specification;   *)
(* BookingSystem puts it between the saga and the inventory.               *)
(***************************************************************************)
EXTENDS Naturals

CONSTANT Events

VARIABLES
  stored,    \* the events that transactions have left in the outbox
  sent       \* sent[e]: copies of e given to the broker

Init ==
  /\ stored = {}
  /\ sent = [e \in Events |-> 0]

Store(events) ==
  /\ events \cap stored = {}
  /\ stored' = stored \cup events
  /\ UNCHANGED sent

Send(e) ==
  /\ e \in stored
  /\ sent' = [sent EXCEPT ![e] = @ + 1]
  /\ UNCHANGED stored

Next ==
  \/ \E events \in SUBSET Events : Store(events)
  \/ \E e \in Events : Send(e)

Spec == Init /\ [][Next]_<<stored, sent>>
=============================================================================
