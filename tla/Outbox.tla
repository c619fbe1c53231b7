------------------------------- MODULE Outbox -------------------------------
(***************************************************************************)
(* The transactional outbox of booking-service (OutboxService): events are *)
(* stored with the rows they are about and published by a cron that does   *)
(* not wait for its previous run, nor for the other instances.             *)
(*                                                                         *)
(* A run works on the copies of the rows it found at its start, one event  *)
(* after the other, with an await before every update and every publish.   *)
(* A failed update or publish inside publishEvent's try block leads to its *)
(* catch block; a failure in the catch block ends the run.                 *)
(*                                                                         *)
(* No module imports ScheduleModule, which would fire the cron: what is    *)
(* said here is about the runs there are, not that there are any.          *)
(***************************************************************************)
EXTENDS Naturals, FiniteSets

CONSTANTS
  Events,       \* the events in the order of created_at
  Publishers,   \* overlapping runs of publishPendingEvents
  BatchSize,    \* events one run takes (100)
  MaxRetries,   \* outbox_events.max_retries (3)
  Faults,       \* the kinds of failure that may happen ...
  MaxFaults     \* ... and a bound on how many do

ASSUME ConstantsAssumption ==
  /\ Events \subseteq Nat \ {0}
  /\ BatchSize \in Nat \ {0}
  /\ MaxRetries \in Nat \ {0}
  /\ MaxFaults \in Nat

VARIABLES
  row,          \* outbox_events: status and retry_count
  sent,         \* sent[e]: copies of e in the exchange booking.events
  dead,         \* dead[e]: copies of e in booking.dlq
  failed,       \* failed[e]: attempts to publish e that ended in the catch block
  run,          \* the run each publisher is in
  lost,         \* runs that were cut off
  shared,       \* events that two runs had in their batches at once
  faults        \* failures still allowed

vars == <<row, sent, dead, failed, run, lost, shared, faults>>

Statuses == {"none", "PENDING", "PROCESSING", "PUBLISHED", "FAILED", "deleted"}
PCs == {"idle", "take", "publish", "mark", "retry", "dead", "dlq"}

NoEvent == 0

(* batch: the events still to do, this one included.  retryCount: their    *)
(* retry counts when the run found them.                                   *)
Idle == [pc |-> "idle", event |-> NoEvent, batch |-> {},
         retryCount |-> [e \in Events |-> 0]]

Rows == [status : Statuses, retryCount : Nat]
Runs == [pc : PCs, event : Events \cup {NoEvent}, batch : SUBSET Events,
         retryCount : [Events -> Nat]]

TypeOK ==
  /\ row \in [Events -> Rows]
  /\ sent \in [Events -> Nat]
  /\ dead \in [Events -> Nat]
  /\ failed \in [Events -> Nat]
  /\ run \in [Publishers -> Runs]
  /\ \A p \in Publishers : run[p].pc # "idle" => run[p].event \in run[p].batch
  /\ lost \in Nat
  /\ shared \in SUBSET Events
  /\ faults \in 0..MaxFaults

Init ==
  /\ row = [e \in Events |-> [status |-> "none", retryCount |-> 0]]
  /\ sent = [e \in Events |-> 0]
  /\ dead = [e \in Events |-> 0]
  /\ failed = [e \in Events |-> 0]
  /\ run = [p \in Publishers |-> Idle]
  /\ lost = 0
  /\ shared = {}
  /\ faults = MaxFaults

-----------------------------------------------------------------------------
Fault(kind) ==
  /\ kind \in Faults
  /\ faults > 0
  /\ faults' = faults - 1

(* UPDATE ... WHERE id = e: no row, no effect.                             *)
Update(e, status) ==
  row' = [row EXCEPT ![e].status = IF @ \in {"none", "deleted"} THEN @ ELSE status]

IsFirst(e, events) == e \in events /\ \A f \in events : e <= f

Goto(p, pc) == run' = [run EXCEPT ![p].pc = pc]
Stop(p)     == run' = [run EXCEPT ![p] = Idle]

(* The loop of publishPendingEvents goes on to its next event.             *)
Advance(p) ==
  LET rest == run[p].batch \ {run[p].event} IN
  \/ rest = {} /\ Stop(p)
  \/ \E e \in Events :
       /\ IsFirst(e, rest)
       /\ run' = [run EXCEPT ![p].pc = "take", ![p].batch = rest, ![p].event = e]

-----------------------------------------------------------------------------
(* storeEvent, at the commit of its caller's transaction.                  *)
StoreEvent(e) ==
  /\ row[e].status = "none"
  /\ \A f \in Events : f < e => row[f].status # "none"
  /\ row' = [row EXCEPT ![e].status = "PENDING"]
  /\ UNCHANGED <<sent, dead, failed, run, faults, lost, shared>>

(* Mutant: the run takes every event that is not given up.                 *)
PendingUnfiltered == {e \in Events : row[e].status \notin {"none", "FAILED", "deleted"}}

(* Mutant: rows of transactions that have not committed are found too.     *)
PendingUncommitted == {e \in Events : row[e].status \in {"none", "PENDING"}}

Pending == {e \in Events : row[e].status = "PENDING"}

(* The first BatchSize of them.                                            *)
Oldest(events) == {e \in events : Cardinality({f \in events : f < e}) < BatchSize}

PublishPendingEvents(p) ==
  /\ run[p].pc = "idle"
  /\ \E first \in Events :
       /\ IsFirst(first, Oldest(Pending))
       /\ run' = [run EXCEPT ![p] =
            [pc |-> "take", event |-> first, batch |-> Oldest(Pending),
             retryCount |-> [e \in Events |-> row[e].retryCount]]]
  /\ shared' = shared \cup {e \in Oldest(Pending) :
                              \E q \in Publishers \ {p} : e \in run[q].batch}
  /\ UNCHANGED <<row, sent, dead, failed, faults, lost>>

(* publishEvent: PROCESSING, the publish, PUBLISHED.                       *)
Take(p) ==
  /\ run[p].pc = "take"
  /\ Update(run[p].event, "PROCESSING")
  /\ Goto(p, "publish")
  /\ UNCHANGED <<sent, dead, failed, faults, lost, shared>>

Publish(p) ==
  /\ run[p].pc = "publish"
  /\ sent' = [sent EXCEPT ![run[p].event] = @ + 1]
  /\ Goto(p, "mark")
  /\ UNCHANGED <<row, dead, failed, faults, lost, shared>>

Mark(p) ==
  /\ run[p].pc = "mark"
  /\ Update(run[p].event, "PUBLISHED")
  /\ Advance(p)
  /\ UNCHANGED <<sent, dead, failed, faults, lost, shared>>

(* Mutant: an error on the way to the exchange is taken for success.       *)
AttemptFailsUnnoticed(p) ==
  /\ run[p].pc = "publish" /\ Fault("broker")
  /\ Goto(p, "mark")
  /\ UNCHANGED <<row, sent, dead, failed, lost, shared>>

(* An update or the publish fails; the broker may have taken the message   *)
(* although the publish reports an error.                                  *)
AttemptFails(p) ==
  /\ \/ run[p].pc \in {"take", "mark"} /\ Fault("db") /\ UNCHANGED sent
     \/ run[p].pc = "publish" /\ Fault("broker") /\ UNCHANGED sent
     \/ /\ run[p].pc = "publish" /\ Fault("reply")
        /\ sent' = [sent EXCEPT ![run[p].event] = @ + 1]
  /\ failed' = [failed EXCEPT ![run[p].event] = @ + 1]
  /\ Goto(p, "retry")
  /\ UNCHANGED <<row, dead, lost, shared>>

(* Mutant: one retry too few.                                              *)
RetryOneLess(p) ==
  LET e == run[p].event
      newRetryCount == run[p].retryCount[e] + 1
  IN
  /\ run[p].pc = "retry"
  /\ row' = [row EXCEPT ![e].status = IF @ \in {"none", "deleted"} THEN @ ELSE "PENDING",
                        ![e].retryCount = newRetryCount]
  /\ IF newRetryCount + 1 >= MaxRetries THEN Goto(p, "dead") ELSE Advance(p)
  /\ UNCHANGED <<sent, dead, failed, faults, lost, shared>>

(* Mutant: the retry is counted but the event is not PENDING again.        *)
RetryUncleared(p) ==
  LET e == run[p].event
      newRetryCount == run[p].retryCount[e] + 1
  IN
  /\ run[p].pc = "retry"
  /\ row' = [row EXCEPT ![e].retryCount = newRetryCount]
  /\ IF newRetryCount >= MaxRetries THEN Goto(p, "dead") ELSE Advance(p)
  /\ UNCHANGED <<sent, dead, failed, faults, lost, shared>>

(* The catch block counts from the run's copy, not from the row.           *)
Retry(p) ==
  LET e == run[p].event
      newRetryCount == run[p].retryCount[e] + 1
  IN
  /\ run[p].pc = "retry"
  /\ row' = [row EXCEPT ![e].status = IF @ \in {"none", "deleted"} THEN @ ELSE "PENDING",
                        ![e].retryCount = newRetryCount]
  /\ IF newRetryCount >= MaxRetries THEN Goto(p, "dead") ELSE Advance(p)
  /\ UNCHANGED <<sent, dead, failed, faults, lost, shared>>

(* moveToDeadLetterQueue: FAILED, then the publish to booking.dlq, whose   *)
(* failure is only logged and does not count against MaxFaults.            *)
MoveToDeadLetterQueue(p) ==
  /\ run[p].pc = "dead"
  /\ Update(run[p].event, "FAILED")
  /\ Goto(p, "dlq")
  /\ UNCHANGED <<sent, dead, failed, faults, lost, shared>>

DeadLetter(p) ==
  /\ run[p].pc = "dlq"
  /\ \/ dead' = [dead EXCEPT ![run[p].event] = @ + 1]
     \/ "broker" \in Faults /\ UNCHANGED dead
  /\ Advance(p)
  /\ UNCHANGED <<row, sent, failed, lost, shared, faults>>

(* The catch block itself fails, and with it the run; or the process dies. *)
RunFails(p) ==
  /\ \/ run[p].pc \in {"retry", "dead"} /\ Fault("db")
     \/ run[p].pc # "idle" /\ Fault("crash")
  /\ lost' = lost + 1
  /\ Stop(p)
  /\ UNCHANGED <<row, sent, dead, failed, shared>>

(* cleanupOldEvents: PUBLISHED for a week, far longer than any run lasts.  *)
CleanupOldEvents(e) ==
  /\ row[e].status = "PUBLISHED"
  /\ \A p \in Publishers : e \notin run[p].batch
  /\ Update(e, "deleted")
  /\ UNCHANGED <<sent, dead, failed, run, faults, lost, shared>>

Proceeds(p) ==
  \/ Take(p) \/ Publish(p) \/ Mark(p) \/ Retry(p)
  \/ MoveToDeadLetterQueue(p) \/ DeadLetter(p)

Next ==
  \/ \E e \in Events : StoreEvent(e) \/ CleanupOldEvents(e)
  \/ \E p \in Publishers : PublishPendingEvents(p) \/ Proceeds(p) \/ AttemptFails(p) \/ RunFails(p)

Spec == Init /\ [][Next]_vars

-----------------------------------------------------------------------------
(* Properties.                                                             *)

(* What is said to be published was sent: an event is never marked         *)
(* PUBLISHED, nor cleaned up, without a copy in the exchange, whichever    *)
(* runs overlap, fail or die (publishEvent, cleanupOldEvents).             *)
PublishedWasSent ==
  \A e \in Events : row[e].status \in {"PUBLISHED", "deleted"} => sent[e] > 0

(* An event is given up only after max_retries failed attempts of its own, *)
(* although overlapping runs count from stale copies (publishEvent's catch *)
(* block, moveToDeadLetterQueue).                                          *)
DeadLetterEarned ==
  \A e \in Events : row[e].status = "FAILED" \/ dead[e] > 0 => failed[e] >= MaxRetries

(* The outbox as the services behind the broker see it: only events whose  *)
(* transaction committed are sent, whatever runs read, retry or overlap    *)
(* (storeEvent, publishPendingEvents).                                     *)
Relay == INSTANCE EventRelay WITH stored <- {e \in Events : row[e].status # "none"}

ImplementsEventRelay == Relay!Spec

Stranded(e) ==
  /\ row[e].status = "PROCESSING"
  /\ \A p \in Publishers : run[p].event # e

(* An event that is PROCESSING has a run that will decide about it, but    *)
(* for one event per run that was cut off by a crash or by the loss of the *)
(* database in the catch block (publishEvent's updates; no other code      *)
(* looks at PROCESSING).                                                   *)
FewStranded == Cardinality({e \in Events : Stranded(e)}) <= lost

(* Unless two runs had it at once, an event is sent again only after an    *)
(* attempt to send it failed (publishPendingEvents' look-up, publishEvent).*)
NoNeedlessCopy ==
  \A e \in Events \ shared : sent[e] <= 1 + failed[e]

(* Unless two runs had it at once, an event that is PUBLISHED or FAILED    *)
(* stays so until it is cleaned up.                                        *)
SettledIsFinal ==
  [][\A e \in Events \ shared : row[e].status \in {"PUBLISHED", "FAILED"} =>
       row'[e].status \in {row[e].status, "deleted"}]_row
=============================================================================
