---------------------------- MODULE OutboxProofs ----------------------------
(***************************************************************************)
(* For any number of events and overlapping runs: events are typed, what   *)
(* is PUBLISHED was sent, an event is given up only after max_retries      *)
(* failed attempts, at most one event is stranded per run that was cut     *)
(* off, and what no two runs had at once is sent again only after a        *)
(* failure and settled for good.  The last section shows that the outbox   *)
(* implements EventRelay.                                                  *)
(*                                                                         *)
(* None of them is inductive: they depend on how far the runs are and on   *)
(* the retry counts they copied.  Inv adds what a run knows at each place  *)
(* of publishEvent, OwnInv what the row of an event says while one run has *)
(* it, and Decided counts the events nobody will decide about.             *)
(***************************************************************************)
EXTENDS Outbox, FiniteSetTheorems, TLAPS

(* A run about to mark its event PUBLISHED has sent it; one in the catch   *)
(* block has one more failed attempt than the retry count it copied.       *)
RunSound(p) ==
  LET e == run[p].event IN
  /\ run[p].pc = "mark" => sent[e] > 0
  /\ run[p].pc = "retry" => run[p].retryCount[e] + 1 <= failed[e]
  /\ run[p].pc \in {"dead", "dlq"} => failed[e] >= MaxRetries

(* No retry count, in a row or in a run's copy, exceeds the failures.      *)
CountsSound ==
  /\ \A e \in Events : row[e].retryCount <= failed[e]
  /\ \A p \in Publishers, e \in Events : run[p].retryCount[e] <= failed[e]

Inv ==
  /\ TypeOK
  /\ \A p \in Publishers : RunSound(p)
  /\ CountsSound
  /\ PublishedWasSent
  /\ DeadLetterEarned

-----------------------------------------------------------------------------
LEMMA InitInv == Init => Inv
<1> SUFFICES ASSUME Init PROVE Inv
  OBVIOUS
<1> USE ConstantsAssumption
<1>1. Idle \in Runs
  BY DEF Idle, Runs, PCs
<1>a. lost \in Nat /\ shared \in SUBSET Events /\ faults \in 0..MaxFaults
  BY DEF Init
<1>b. /\ row \in [Events -> Rows]
      /\ sent \in [Events -> Nat] /\ dead \in [Events -> Nat] /\ failed \in [Events -> Nat]
      /\ run \in [Publishers -> Runs]
      /\ \A p \in Publishers : run[p].pc = "idle"
  BY <1>1 DEF Init, Rows, Statuses, Idle
<1>2. TypeOK
  BY <1>a, <1>b DEF TypeOK
<1>3. QED
  BY <1>2 DEF Init, Inv, RunSound, CountsSound, PublishedWasSent, DeadLetterEarned, Idle

(* A run that ends or goes on to its next event stays typed and keeps the  *)
(* retry counts it copied, or forgets them.                                *)
LEMMA AdvanceRuns ==
  ASSUME TypeOK, NEW p \in Publishers, run[p].pc # "idle", Advance(p) \/ Stop(p)
  PROVE  /\ run' \in [Publishers -> Runs]
         /\ \A q \in Publishers \ {p} : run'[q] = run[q]
         /\ run'[p].pc \in {"idle", "take"}
         /\ run'[p].pc # "idle" => run'[p].event \in run'[p].batch
         /\ \A e \in Events : run'[p].retryCount[e] \in {0, run[p].retryCount[e]}
<1> USE ConstantsAssumption
<1>1. Idle \in Runs /\ Idle.pc = "idle" /\ \A e \in Events : Idle.retryCount[e] = 0
  BY DEF Idle, Runs, PCs
<1>2. run \in [Publishers -> Runs]
  BY DEF TypeOK
<1>3. CASE Stop(p)
  BY <1>1, <1>2, <1>3 DEF Stop
<1>4. CASE Advance(p) /\ ~Stop(p)
  <2> DEFINE rest == run[p].batch \ {run[p].event}
  <2>1. PICK e \in Events :
          /\ e \in rest
          /\ run' = [run EXCEPT ![p].pc = "take", ![p].batch = rest, ![p].event = e]
    BY <1>4 DEF Advance, IsFirst
  <2>2. run'[p] = [run[p] EXCEPT !.pc = "take", !.batch = rest, !.event = e]
    BY <2>1, <1>2
  <2>3. run'[p] \in Runs
    BY <2>1, <2>2, <1>2 DEF Runs, PCs
  <2>4. QED
    BY <2>1, <2>2, <2>3, <1>2 DEF Runs
<1>5. QED
  BY <1>3, <1>4

(* A step that writes one row, at most with a higher retry count of its    *)
(* own, and moves one run.                                                 *)
LEMMA GotoRuns ==
  ASSUME TypeOK, NEW p \in Publishers, run[p].pc # "idle", NEW pc \in PCs, Goto(p, pc)
  PROVE  /\ run' \in [Publishers -> Runs]
         /\ run'[p] = [run[p] EXCEPT !.pc = pc]
         /\ \A q \in Publishers \ {p} : run'[q] = run[q]
         /\ run'[p].event \in run'[p].batch
         /\ run'[p].pc = pc /\ run'[p].event = run[p].event
         /\ run'[p].retryCount = run[p].retryCount
  BY DEF Goto, TypeOK, Runs

LEMMA UpdateRow ==
  ASSUME TypeOK, NEW e \in Events, NEW status \in Statuses, Update(e, status)
  PROVE  /\ row' \in [Events -> Rows]
         /\ \A f \in Events : row'[f].retryCount = row[f].retryCount
         /\ \A f \in Events \ {e} : row'[f] = row[f]
         /\ row'[e].status \in {status, row[e].status}
  BY DEF Update, TypeOK, Rows, Statuses

(* A counter that goes up by one.                                          *)
LEMMA Increment ==
  ASSUME NEW f \in [Events -> Nat], NEW e \in Events
  PROVE  LET g == [f EXCEPT ![e] = @ + 1] IN
         /\ g \in [Events -> Nat]
         /\ g[e] = f[e] + 1
         /\ \A x \in Events : g[x] \in Nat /\ f[x] \in Nat /\ g[x] >= f[x]
<1>1. \A x \in Events : [f EXCEPT ![e] = @ + 1][x] = IF x = e THEN f[x] + 1 ELSE f[x]
  OBVIOUS
<1>2. \A x \in Events : f[x] \in Nat
  OBVIOUS
<1>3. QED
  BY <1>1, <1>2

LEMMA StepInv == Inv /\ [Next]_vars => Inv'
<1> SUFFICES ASSUME Inv, [Next]_vars PROVE Inv'
  OBVIOUS
<1> USE ConstantsAssumption
<1>t. TypeOK
  BY DEF Inv
<1>1. ASSUME NEW e \in Events, StoreEvent(e) PROVE Inv'
  <2>1. row' \in [Events -> Rows] /\ \A f \in Events :
          /\ row'[f].retryCount = row[f].retryCount
          /\ row'[f].status \in {"PENDING", row[f].status}
    BY <1>1, <1>t DEF StoreEvent, TypeOK, Rows, Statuses
  <2>2. TypeOK'
    BY <1>1, <1>t, <2>1 DEF StoreEvent, TypeOK
  <2>3. QED
    BY <1>1, <2>1, <2>2 DEF StoreEvent, Inv, RunSound, CountsSound, PublishedWasSent, DeadLetterEarned
<1>2. ASSUME NEW e \in Events, CleanupOldEvents(e) PROVE Inv'
  <2>1. /\ row' \in [Events -> Rows]
        /\ \A f \in Events : row'[f].retryCount = row[f].retryCount
        /\ \A f \in Events \ {e} : row'[f] = row[f]
        /\ row'[e].status \in {"deleted", row[e].status}
    BY <1>2, <1>t, UpdateRow DEF CleanupOldEvents, Statuses
  <2>2. TypeOK'
    BY <1>2, <1>t, <2>1 DEF CleanupOldEvents, TypeOK
  <2>3. QED
    BY <1>2, <2>1, <2>2 DEF CleanupOldEvents, Inv, RunSound, CountsSound, PublishedWasSent, DeadLetterEarned
<1>3. ASSUME NEW p \in Publishers, PublishPendingEvents(p) PROVE Inv'
  <2>1. PICK first \in Events :
          /\ first \in Oldest(Pending)
          /\ run' = [run EXCEPT ![p] =
               [pc |-> "take", event |-> first, batch |-> Oldest(Pending),
                retryCount |-> [e \in Events |-> row[e].retryCount]]]
    BY <1>3 DEF PublishPendingEvents, IsFirst
  <2>2. Oldest(Pending) \in SUBSET Events
    BY DEF Oldest, Pending
  <2> DEFINE r == [pc |-> "take", event |-> first, batch |-> Oldest(Pending),
                   retryCount |-> [e \in Events |-> row[e].retryCount]]
  <2>3. r \in Runs /\ r.pc = "take" /\ r.event \in r.batch
        /\ \A e \in Events : r.retryCount[e] = row[e].retryCount
    BY <2>1, <2>2, <1>t DEF Runs, PCs, TypeOK, Rows
  <2>4. run' = [run EXCEPT ![p] = r]
    BY <2>1
  <2> HIDE DEF r
  <2>5. run' \in [Publishers -> Runs] /\ run'[p] = r /\ \A q \in Publishers \ {p} : run'[q] = run[q]
    BY <2>3, <2>4, <1>t DEF TypeOK
  <2>a. shared' \in SUBSET Events
    BY <1>3, <1>t, <2>2 DEF PublishPendingEvents, TypeOK
  <2>6. TypeOK'
    BY <1>3, <1>t, <2>3, <2>5, <2>a DEF PublishPendingEvents, TypeOK
  <2>7. \A q \in Publishers : RunSound(q)'
    BY <1>3, <2>3, <2>5 DEF PublishPendingEvents, Inv, RunSound
  <2>8. QED
    BY <1>3, <2>3, <2>5, <2>6, <2>7 DEF PublishPendingEvents, Inv, CountsSound, PublishedWasSent, DeadLetterEarned
(* The event of a run under way is one of the events.                      *)
<1>e. \A p \in Publishers : run[p].pc # "idle" => run[p].event \in Events
  BY <1>t DEF TypeOK, Runs
<1>4. ASSUME NEW p \in Publishers, Take(p) PROVE Inv'
  <2> DEFINE e == run[p].event
  <2>1. e \in Events
    BY <1>4, <1>e DEF Take
  <2>2. /\ row' \in [Events -> Rows]
        /\ \A f \in Events : row'[f].retryCount = row[f].retryCount
        /\ \A f \in Events : row'[f].status \in {"PROCESSING", row[f].status}
    BY <1>4, <1>t, <2>1, UpdateRow DEF Take, Statuses
  <2>3. /\ run' \in [Publishers -> Runs]
        /\ \A q \in Publishers \ {p} : run'[q] = run[q]
        /\ run'[p].event \in run'[p].batch
        /\ run'[p].pc = "publish" /\ run'[p].retryCount = run[p].retryCount
    BY <1>4, <1>t, GotoRuns DEF Take, PCs
  <2>4. TypeOK'
    BY <1>4, <1>t, <2>2, <2>3 DEF Take, TypeOK
  <2>5. \A q \in Publishers : RunSound(q)'
    BY <1>4, <2>3 DEF Take, Inv, RunSound
  <2>6. QED
    BY <1>4, <2>2, <2>3, <2>4, <2>5 DEF Take, Inv, CountsSound, PublishedWasSent, DeadLetterEarned
<1>5. ASSUME NEW p \in Publishers, Publish(p) PROVE Inv'
  <2> DEFINE e == run[p].event
  <2>1. e \in Events
    BY <1>5, <1>e DEF Publish
  <2>a. sent \in [Events -> Nat] /\ sent' = [sent EXCEPT ![e] = @ + 1]
    BY <1>5, <1>t DEF Publish, TypeOK
  <2>b. /\ sent' \in [Events -> Nat]
        /\ sent'[e] = sent[e] + 1
        /\ \A f \in Events : sent'[f] \in Nat /\ sent[f] \in Nat /\ sent'[f] >= sent[f]
    <3> HIDE DEF e
    <3>1. QED
      BY <2>a, <2>1, Increment
  <2>2. /\ sent' \in [Events -> Nat]
        /\ sent'[e] > 0
        /\ \A f \in Events : sent[f] > 0 => sent'[f] > 0
    <3> HIDE DEF e
    <3>1. QED
      BY <2>b, <2>1
  <2>3. /\ run' \in [Publishers -> Runs]
        /\ \A q \in Publishers \ {p} : run'[q] = run[q]
        /\ run'[p].event \in run'[p].batch /\ run'[p].event = e
        /\ run'[p].pc = "mark" /\ run'[p].retryCount = run[p].retryCount
    BY <1>5, <1>t, GotoRuns DEF Publish, PCs
  <2>4. TypeOK'
    BY <1>5, <1>t, <2>2, <2>3 DEF Publish, TypeOK
  <2>5. ASSUME NEW q \in Publishers PROVE RunSound(q)'
    <3>1. CASE q = p
      BY <1>5, <2>2, <2>3, <3>1 DEF Publish, RunSound
    <3>2. CASE q # p
      <4>1. run'[q] = run[q] /\ RunSound(q)
        BY <2>3, <3>2 DEF Inv
      <4>2. run[q].pc = "mark" => sent'[run[q].event] > 0
        BY <4>1, <1>e, <2>2 DEF RunSound
      <4>3. QED
        BY <1>5, <4>1, <4>2 DEF Publish, RunSound
    <3>3. QED
      BY <3>1, <3>2
  <2>6. PublishedWasSent'
    BY <1>5, <1>t, <2>2 DEF Publish, Inv, PublishedWasSent, TypeOK
  <2>7. QED
    BY <1>5, <2>3, <2>4, <2>5, <2>6 DEF Publish, Inv, CountsSound, DeadLetterEarned
<1>6. ASSUME NEW p \in Publishers, Mark(p) PROVE Inv'
  <2> DEFINE e == run[p].event
  <2>1. e \in Events /\ sent[e] > 0
    BY <1>6, <1>e DEF Mark, Inv, RunSound
  <2>2. /\ row' \in [Events -> Rows]
        /\ \A f \in Events : row'[f].retryCount = row[f].retryCount
        /\ \A f \in Events \ {e} : row'[f] = row[f]
        /\ row'[e].status \in {"PUBLISHED", row[e].status}
    BY <1>6, <1>t, <2>1, UpdateRow DEF Mark, Statuses
  <2>3. /\ run' \in [Publishers -> Runs]
        /\ \A q \in Publishers \ {p} : run'[q] = run[q]
        /\ run'[p].pc \in {"idle", "take"}
        /\ run'[p].pc # "idle" => run'[p].event \in run'[p].batch
        /\ \A f \in Events : run'[p].retryCount[f] \in {0, run[p].retryCount[f]}
    BY <1>6, <1>t, AdvanceRuns DEF Mark
  <2>4. TypeOK'
    BY <1>6, <1>t, <2>2, <2>3 DEF Mark, TypeOK
  <2>5. \A q \in Publishers : RunSound(q)'
    BY <1>6, <2>3 DEF Mark, Inv, RunSound
  <2>6. CountsSound'
    BY <1>6, <1>t, <2>2, <2>3 DEF Mark, Inv, CountsSound, TypeOK
  <2>7. QED
    BY <1>6, <2>1, <2>2, <2>4, <2>5, <2>6 DEF Mark, Inv, PublishedWasSent, DeadLetterEarned
<1>7. ASSUME NEW p \in Publishers, AttemptFails(p) PROVE Inv'
  <2> DEFINE e == run[p].event
  <2>1. e \in Events /\ run[p].pc # "idle"
    BY <1>7, <1>e DEF AttemptFails
  <2>a. /\ sent \in [Events -> Nat] /\ failed \in [Events -> Nat]
        /\ sent' = sent \/ sent' = [sent EXCEPT ![e] = @ + 1]
        /\ failed' = [failed EXCEPT ![e] = @ + 1]
    BY <1>7, <1>t DEF AttemptFails, TypeOK
  <2>2. /\ sent' \in [Events -> Nat]
        /\ \A f \in Events : sent'[f] \in Nat /\ sent[f] \in Nat /\ sent'[f] >= sent[f]
    <3> HIDE DEF e
    <3>1. CASE sent' = sent
      BY <2>a, <3>1
    <3>2. CASE sent' = [sent EXCEPT ![e] = @ + 1]
      BY <2>a, <2>1, <3>2, Increment
    <3>3. QED
      BY <2>a, <3>1, <3>2
  <2>3. /\ failed' \in [Events -> Nat]
        /\ failed'[e] = failed[e] + 1
        /\ \A f \in Events : failed'[f] \in Nat /\ failed[f] \in Nat /\ failed'[f] >= failed[f]
    <3> HIDE DEF e
    <3>1. QED
      BY <2>a, <2>1, Increment
  <2>4. /\ run' \in [Publishers -> Runs]
        /\ \A q \in Publishers \ {p} : run'[q] = run[q]
        /\ run'[p].event \in run'[p].batch /\ run'[p].event = e
        /\ run'[p].pc = "retry" /\ run'[p].retryCount = run[p].retryCount
    BY <1>7, <1>t, <2>1, GotoRuns DEF AttemptFails, PCs
  <2>5. TypeOK'
    BY <1>7, <1>t, <2>2, <2>3, <2>4 DEF AttemptFails, Fault, TypeOK
  <2>6. CountsSound'
    <3>1. \A f \in Events : row'[f].retryCount <= failed'[f]
      <4>1. row' = row /\ \A f \in Events : row[f].retryCount \in Nat
        BY <1>7, <1>t DEF AttemptFails, TypeOK, Rows
      <4>2. \A f \in Events : row[f].retryCount <= failed[f]
        BY DEF Inv, CountsSound
      <4>3. \A f \in Events : failed'[f] \in Nat /\ failed[f] \in Nat /\ failed'[f] >= failed[f]
        BY <2>3
      <4>4. QED
        BY <4>1, <4>2, <4>3
    <3>2. ASSUME NEW q \in Publishers, NEW f \in Events
          PROVE  run'[q].retryCount[f] <= failed'[f]
      <4>1. run'[q].retryCount = run[q].retryCount
        BY <2>4
      <4>a. run[q].retryCount[f] \in Nat
        BY <1>t DEF TypeOK, Runs
      <4>2. run[q].retryCount[f] <= failed[f]
        BY DEF Inv, CountsSound
      <4>3. failed'[f] \in Nat /\ failed[f] \in Nat /\ failed'[f] >= failed[f]
        BY <2>3
      <4>4. run[q].retryCount[f] <= failed'[f]
        <5> HIDE DEF e
        <5>1. QED
          BY <4>a, <4>2, <4>3
      <4>5. QED
        BY <4>1, <4>4
    <3>3. QED
      BY <3>1, <3>2 DEF CountsSound
  <2>7. ASSUME NEW q \in Publishers PROVE RunSound(q)'
    <3>1. CASE q = p
      <4>1. run[p].retryCount[e] <= failed[e] /\ run[p].retryCount[e] \in Nat /\ failed[e] \in Nat
        BY <2>1, <1>t DEF Inv, CountsSound, TypeOK, Runs
      <4>2. QED
        BY <2>3, <2>4, <3>1, <4>1 DEF RunSound
    <3>2. CASE q # p
      <4>1. run'[q] = run[q] /\ RunSound(q)
        BY <2>4, <3>2 DEF Inv
      <4>2. CASE run[q].pc = "idle"
        BY <4>1, <4>2 DEF RunSound
      <4>3. CASE run[q].pc # "idle"
        <5> DEFINE f == run[q].event
        <5>1. f \in Events
          BY <1>e, <4>3
        <5>2. sent'[f] \in Nat /\ sent[f] \in Nat /\ sent'[f] >= sent[f]
          BY <2>2, <5>1
        <5>3. failed'[f] \in Nat /\ failed[f] \in Nat /\ failed'[f] >= failed[f]
          BY <2>3, <5>1
        <5>4. run[q].retryCount[f] \in Nat
          BY <1>t, <5>1 DEF TypeOK, Runs
        <5>5. QED
          BY <4>1, <5>2, <5>3, <5>4 DEF RunSound
      <4>4. QED
        BY <4>2, <4>3
    <3>3. QED
      BY <3>1, <3>2
  <2>8. PublishedWasSent'
    BY <1>7, <1>t, <2>2 DEF AttemptFails, Inv, PublishedWasSent, TypeOK
  <2>9. DeadLetterEarned'
    BY <1>7, <1>t, <2>3 DEF AttemptFails, Inv, DeadLetterEarned, TypeOK
  <2>10. QED
    BY <2>5, <2>6, <2>7, <2>8, <2>9 DEF Inv
<1>8. ASSUME NEW p \in Publishers, Retry(p) PROVE Inv'
  <2> DEFINE e == run[p].event
             n == run[p].retryCount[e] + 1
  <2>1. e \in Events /\ n \in Nat /\ n <= failed[e] /\ failed[e] \in Nat
    BY <1>8, <1>e, <1>t DEF Retry, Inv, RunSound, TypeOK, Runs
  <2>2. /\ row' \in [Events -> Rows]
        /\ \A f \in Events \ {e} : row'[f] = row[f]
        /\ row'[e].status \in {"PENDING", row[e].status}
        /\ row'[e].retryCount = n
    BY <1>8, <1>t, <2>1 DEF Retry, TypeOK, Rows, Statuses
  <2>3. /\ run' \in [Publishers -> Runs]
        /\ \A q \in Publishers \ {p} : run'[q] = run[q]
        /\ \/ run'[p].pc \in {"idle", "take"}
           \/ run'[p].pc = "dead" /\ run'[p].event = e /\ n >= MaxRetries
        /\ run'[p].pc # "idle" => run'[p].event \in run'[p].batch
        /\ \A f \in Events : run'[p].retryCount[f] \in {0, run[p].retryCount[f]}
    <3>1. CASE n >= MaxRetries
      BY <1>8, <1>t, <3>1, GotoRuns DEF Retry, PCs
    <3>2. CASE ~(n >= MaxRetries)
      BY <1>8, <1>t, <3>2, AdvanceRuns DEF Retry
    <3>3. QED
      BY <3>1, <3>2
  <2>4. TypeOK'
    BY <1>8, <1>t, <2>2, <2>3 DEF Retry, TypeOK
  <2>5. ASSUME NEW q \in Publishers PROVE RunSound(q)'
    <3>1. CASE q = p
      BY <1>8, <2>1, <2>3, <3>1 DEF Retry, RunSound
    <3>2. CASE q # p
      BY <1>8, <2>3, <3>2 DEF Retry, Inv, RunSound
    <3>3. QED
      BY <3>1, <3>2
  <2>6. CountsSound'
    BY <1>8, <1>t, <2>1, <2>2, <2>3 DEF Retry, Inv, CountsSound, TypeOK
  <2>7. PublishedWasSent'
    BY <1>8, <2>2 DEF Retry, Inv, PublishedWasSent
  <2>8. DeadLetterEarned'
    BY <1>8, <2>2 DEF Retry, Inv, DeadLetterEarned
  <2>9. QED
    BY <2>4, <2>5, <2>6, <2>7, <2>8 DEF Inv
<1>9. ASSUME NEW p \in Publishers, MoveToDeadLetterQueue(p) PROVE Inv'
  <2> DEFINE e == run[p].event
  <2>1. e \in Events /\ failed[e] >= MaxRetries
    BY <1>9, <1>e DEF MoveToDeadLetterQueue, Inv, RunSound
  <2>2. /\ row' \in [Events -> Rows]
        /\ \A f \in Events : row'[f].retryCount = row[f].retryCount
        /\ \A f \in Events \ {e} : row'[f] = row[f]
        /\ row'[e].status \in {"FAILED", row[e].status}
    BY <1>9, <1>t, <2>1, UpdateRow DEF MoveToDeadLetterQueue, Statuses
  <2>3. /\ run' \in [Publishers -> Runs]
        /\ \A q \in Publishers \ {p} : run'[q] = run[q]
        /\ run'[p].event \in run'[p].batch /\ run'[p].event = e
        /\ run'[p].pc = "dlq" /\ run'[p].retryCount = run[p].retryCount
    BY <1>9, <1>t, GotoRuns DEF MoveToDeadLetterQueue, PCs
  <2>4. TypeOK'
    BY <1>9, <1>t, <2>2, <2>3 DEF MoveToDeadLetterQueue, TypeOK
  <2>5. \A q \in Publishers : RunSound(q)'
    BY <1>9, <2>1, <2>3 DEF MoveToDeadLetterQueue, Inv, RunSound
  <2>6. CountsSound'
    BY <1>9, <2>2, <2>3 DEF MoveToDeadLetterQueue, Inv, CountsSound
  <2>7. QED
    BY <1>9, <2>1, <2>2, <2>4, <2>5, <2>6
       DEF MoveToDeadLetterQueue, Inv, PublishedWasSent, DeadLetterEarned
<1>10. ASSUME NEW p \in Publishers, DeadLetter(p) PROVE Inv'
  <2> DEFINE e == run[p].event
  <2>1. e \in Events /\ failed[e] >= MaxRetries
    BY <1>10, <1>e DEF DeadLetter, Inv, RunSound
  <2>2. /\ dead' \in [Events -> Nat]
        /\ \A f \in Events \ {e} : dead'[f] = dead[f]
    <3>1. dead \in [Events -> Nat] /\ (dead' = dead \/ dead' = [dead EXCEPT ![e] = @ + 1])
      BY <1>10, <1>t DEF DeadLetter, TypeOK
    <3> HIDE DEF e
    <3>2. QED
      BY <3>1, <2>1, Increment
  <2>3. /\ run' \in [Publishers -> Runs]
        /\ \A q \in Publishers \ {p} : run'[q] = run[q]
        /\ run'[p].pc \in {"idle", "take"}
        /\ run'[p].pc # "idle" => run'[p].event \in run'[p].batch
        /\ \A f \in Events : run'[p].retryCount[f] \in {0, run[p].retryCount[f]}
    BY <1>10, <1>t, AdvanceRuns DEF DeadLetter
  <2>4. TypeOK'
    BY <1>10, <1>t, <2>2, <2>3 DEF DeadLetter, TypeOK
  <2>5. \A q \in Publishers : RunSound(q)'
    BY <1>10, <2>3 DEF DeadLetter, Inv, RunSound
  <2>6. CountsSound'
    BY <1>10, <1>t, <2>3 DEF DeadLetter, Inv, CountsSound, TypeOK
  <2>7. QED
    BY <1>10, <2>1, <2>2, <2>4, <2>5, <2>6 DEF DeadLetter, Inv, PublishedWasSent, DeadLetterEarned
<1>11. ASSUME NEW p \in Publishers, RunFails(p) PROVE Inv'
  <2>1. faults' \in 0..MaxFaults /\ run[p].pc # "idle"
    BY <1>11, <1>t DEF RunFails, Fault, TypeOK
  <2>2. /\ run' \in [Publishers -> Runs]
        /\ \A q \in Publishers \ {p} : run'[q] = run[q]
        /\ run'[p].pc \in {"idle", "take"}
        /\ run'[p].pc # "idle" => run'[p].event \in run'[p].batch
        /\ \A f \in Events : run'[p].retryCount[f] \in {0, run[p].retryCount[f]}
    BY <1>11, <1>t, <2>1, AdvanceRuns DEF RunFails
  <2>3. TypeOK'
    BY <1>11, <1>t, <2>1, <2>2 DEF RunFails, TypeOK
  <2>4. \A q \in Publishers : RunSound(q)'
    BY <1>11, <2>2 DEF RunFails, Inv, RunSound
  <2>5. CountsSound'
    BY <1>11, <1>t, <2>2 DEF RunFails, Inv, CountsSound, TypeOK
  <2>6. QED
    BY <1>11, <2>3, <2>4, <2>5 DEF RunFails, Inv, PublishedWasSent, DeadLetterEarned
<1>12. CASE UNCHANGED vars
  BY <1>12 DEF vars, Inv, TypeOK, RunSound, CountsSound, PublishedWasSent, DeadLetterEarned
<1>13. QED
  BY <1>1, <1>2, <1>3, <1>4, <1>5, <1>6, <1>7, <1>8, <1>9, <1>10, <1>11, <1>12
     DEF Next, Proceeds

-----------------------------------------------------------------------------
LEMMA AlwaysInv == Spec => []Inv
<1>1. QED
  BY InitInv, StepInv, PTL DEF Spec

(* Rows, counters and runs stay typed, and a run under way has an event of *)
(* its batch in hand.                                                      *)
THEOREM TypeCorrect == Spec => []TypeOK
<1>1. Inv => TypeOK
  BY DEF Inv
<1>2. QED
  BY <1>1, AlwaysInv, PTL

(* An event is never marked PUBLISHED, nor deleted by cleanupOldEvents,    *)
(* unless the broker has a copy of it.                                     *)
THEOREM NothingLostUnsent == Spec => []PublishedWasSent
<1>1. Inv => PublishedWasSent
  BY DEF Inv
<1>2. QED
  BY <1>1, AlwaysInv, PTL

(* moveToDeadLetterQueue is reached only after max_retries failed attempts *)
(* at that event, however runs overlap and count from stale copies.        *)
THEOREM GivenUpInTurn == Spec => []DeadLetterEarned
<1>1. Inv => DeadLetterEarned
  BY DEF Inv
<1>2. QED
  BY <1>1, AlwaysInv, PTL

-----------------------------------------------------------------------------
(* What two runs have at once aside, an event is in one run's hands, and   *)
(* its row says how far that run is.                                       *)

(* Between two runs a publisher has nothing in hand.                       *)
IdleRuns ==
  \A p \in Publishers : run[p].pc = "idle" => run[p].batch = {} /\ run[p].event = NoEvent

(* e is PENDING while it waits in p's batch; then it is where p is.        *)
Held(e, p) ==
  /\ run[p].event # e \/ run[p].pc \in {"take", "dead"} => row[e].status = "PENDING"
  /\ run[p].event = e /\ run[p].pc \in {"publish", "mark"} => row[e].status = "PROCESSING"
  /\ run[p].event = e /\ run[p].pc = "retry" => row[e].status \in {"PENDING", "PROCESSING"}
  /\ run[p].event = e /\ run[p].pc = "dlq" => row[e].status = "FAILED"

Owned(e) ==
  /\ \A p, q \in Publishers : e \in run[p].batch /\ e \in run[q].batch => p = q
  /\ \A p \in Publishers : e \in run[p].batch => Held(e, p)

(* The copy too many is there only once the publish has gone through.      *)
Sparing(e) ==
  /\ sent[e] <= 1 + failed[e]
  /\ row[e].status \in {"none", "PENDING"} => sent[e] <= failed[e]
  /\ \A p \in Publishers : run[p].event = e /\ run[p].pc # "mark" => sent[e] <= failed[e]

OwnInv ==
  /\ IdleRuns
  /\ \A e \in Events \ shared : Owned(e) /\ Sparing(e)

RunStep(p) ==
  \/ Take(p) \/ Publish(p) \/ Mark(p) \/ AttemptFails(p) \/ Retry(p)
  \/ MoveToDeadLetterQueue(p) \/ DeadLetter(p) \/ RunFails(p)

Written(e, status) ==
  row'[e].status = IF row[e].status \in {"none", "deleted"} THEN row[e].status ELSE status

Stays(p, pc) ==
  run'[p].pc = pc /\ run'[p].event = run[p].event /\ run'[p].batch = run[p].batch

Stopped(p) == run'[p].pc = "idle" /\ run'[p].event = NoEvent /\ run'[p].batch = {}

Advanced(p) ==
  /\ run'[p].pc = "take" /\ run'[p].batch = run[p].batch \ {run[p].event}
  /\ run'[p].event \in run'[p].batch

(* A run that moves within its event ...                                   *)
LEMMA GotoMoves ==
  ASSUME TypeOK, NEW p \in Publishers, NEW pc \in PCs, Goto(p, pc)
  PROVE  Stays(p, pc) /\ \A q \in Publishers \ {p} : run'[q] = run[q]
  BY DEF TypeOK, Goto, Stays, Runs

(* ... that ends ...                                                       *)
LEMMA StopMoves ==
  ASSUME TypeOK, NEW p \in Publishers, Stop(p)
  PROVE  Stopped(p) /\ \A q \in Publishers \ {p} : run'[q] = run[q]
  BY DEF TypeOK, Stop, Stopped, Idle

(* ... and that goes on to its next event.                                 *)
LEMMA AdvanceMoves ==
  ASSUME TypeOK, NEW p \in Publishers, Advance(p)
  PROVE  (Stopped(p) \/ Advanced(p)) /\ \A q \in Publishers \ {p} : run'[q] = run[q]
<1> DEFINE rest == run[p].batch \ {run[p].event}
<1>1. run \in [Publishers -> Runs]
  BY DEF TypeOK
<1>2. CASE Stop(p)
  BY <1>2, StopMoves
<1>3. CASE ~Stop(p)
  <2>1. PICK e \in Events :
          /\ e \in rest
          /\ run' = [run EXCEPT ![p].pc = "take", ![p].batch = rest, ![p].event = e]
    BY <1>3 DEF Advance, IsFirst
  <2>2. run'[p] = [run[p] EXCEPT !.pc = "take", !.batch = rest, !.event = e]
    BY <2>1, <1>1
  <2>3. run'[p].pc = "take" /\ run'[p].batch = rest /\ run'[p].event = e
    BY <2>2, <1>1 DEF Runs
  <2>4. QED
    BY <2>1, <2>3, <1>1 DEF Advanced
<1>4. QED
  BY <1>2, <1>3

(* What each step of a run does to the event in its hands.                 *)
Handles(p, e) ==
  \/ /\ run[p].pc = "take" /\ Stays(p, "publish") /\ Written(e, "PROCESSING")
     /\ sent'[e] = sent[e] /\ failed'[e] = failed[e] /\ lost' = lost
  \/ /\ run[p].pc = "publish" /\ Stays(p, "mark") /\ row' = row
     /\ sent'[e] = sent[e] + 1 /\ failed'[e] = failed[e] /\ lost' = lost
  \/ /\ run[p].pc = "mark" /\ (Stopped(p) \/ Advanced(p)) /\ Written(e, "PUBLISHED")
     /\ sent'[e] = sent[e] /\ failed'[e] = failed[e] /\ lost' = lost
  \/ /\ run[p].pc \in {"take", "publish", "mark"} /\ Stays(p, "retry") /\ row' = row
     /\ (sent'[e] = sent[e] \/ (run[p].pc = "publish" /\ sent'[e] = sent[e] + 1))
     /\ failed'[e] = failed[e] + 1 /\ lost' = lost
  \/ /\ run[p].pc = "retry" /\ (Stays(p, "dead") \/ Stopped(p) \/ Advanced(p))
     /\ Written(e, "PENDING")
     /\ sent'[e] = sent[e] /\ failed'[e] = failed[e] /\ lost' = lost
  \/ /\ run[p].pc = "dead" /\ Stays(p, "dlq") /\ Written(e, "FAILED")
     /\ sent'[e] = sent[e] /\ failed'[e] = failed[e] /\ lost' = lost
  \/ /\ run[p].pc = "dlq" /\ (Stopped(p) \/ Advanced(p)) /\ row' = row
     /\ sent'[e] = sent[e] /\ failed'[e] = failed[e] /\ lost' = lost
  \/ /\ run[p].pc # "idle" /\ Stopped(p) /\ row' = row
     /\ sent'[e] = sent[e] /\ failed'[e] = failed[e] /\ lost' = lost + 1

(* A step of a run is about its event and leaves the others alone.         *)
LEMMA RunDoes ==
  ASSUME TypeOK, NEW p \in Publishers, NEW e, e = run[p].event, RunStep(p)
  PROVE  /\ e \in Events /\ e \in run[p].batch /\ run[p].pc # "idle"
         /\ \A q \in Publishers \ {p} : run'[q] = run[q]
         /\ \A f \in Events \ {e} : row'[f] = row[f] /\ sent'[f] = sent[f] /\ failed'[f] = failed[f]
         /\ shared' = shared
         /\ Handles(p, e)
<1>1. run[p].pc # "idle" /\ e \in run[p].batch /\ e \in Events
  <2>1. run[p].pc # "idle"
    BY DEF RunStep, Take, Publish, Mark, AttemptFails, Retry, MoveToDeadLetterQueue, DeadLetter, RunFails
  <2>2. QED
    BY <2>1 DEF TypeOK, Runs
<1>t. /\ row \in [Events -> Rows] /\ sent \in [Events -> Nat] /\ failed \in [Events -> Nat]
  BY DEF TypeOK
<1>w. ASSUME NEW status, Update(e, status)
      PROVE  Written(e, status) /\ \A f \in Events \ {e} : row'[f] = row[f]
  BY <1>1, <1>t, <1>w DEF Update, Written, Rows
<1>c. ASSUME NEW g, NEW h, g \in [Events -> Nat], h = [g EXCEPT ![e] = @ + 1]
      PROVE  h[e] = g[e] + 1 /\ \A f \in Events \ {e} : h[f] = g[f]
  BY <1>1, <1>c
<1>p. {"publish", "mark", "retry", "dead", "dlq"} \subseteq PCs
  BY DEF PCs
<1>2. CASE Take(p)
  <2>1. Stays(p, "publish") /\ \A q \in Publishers \ {p} : run'[q] = run[q]
    BY <1>2, <1>p, GotoMoves DEF Take
  <2>2. QED
    BY <1>1, <1>2, <2>1, <1>w DEF Take, Handles
<1>3. CASE Publish(p)
  <2>1. Stays(p, "mark") /\ \A q \in Publishers \ {p} : run'[q] = run[q]
    BY <1>3, <1>p, GotoMoves DEF Publish
  <2>2. sent'[e] = sent[e] + 1 /\ \A f \in Events \ {e} : sent'[f] = sent[f]
    BY <1>3, <1>t, <1>c DEF Publish
  <2>3. QED
    BY <1>1, <1>3, <2>1, <2>2 DEF Publish, Handles
<1>4. CASE Mark(p)
  <2>1. (Stopped(p) \/ Advanced(p)) /\ \A q \in Publishers \ {p} : run'[q] = run[q]
    BY <1>4, AdvanceMoves DEF Mark
  <2>2. QED
    BY <1>1, <1>4, <2>1, <1>w DEF Mark, Handles
<1>5. CASE AttemptFails(p)
  <2>1. Stays(p, "retry") /\ \A q \in Publishers \ {p} : run'[q] = run[q]
    BY <1>5, <1>p, GotoMoves DEF AttemptFails
  <2>2. failed'[e] = failed[e] + 1 /\ \A f \in Events \ {e} : failed'[f] = failed[f]
    BY <1>5, <1>t, <1>c DEF AttemptFails
  <2>3. /\ sent'[e] = sent[e] \/ (run[p].pc = "publish" /\ sent'[e] = sent[e] + 1)
        /\ \A f \in Events \ {e} : sent'[f] = sent[f]
    <3>1. CASE sent' = sent
      BY <3>1, Zenon
    <3>2. CASE run[p].pc = "publish" /\ sent' = [sent EXCEPT ![e] = @ + 1]
      BY <3>2, <1>t, <1>c
    <3>3. QED
      BY <1>5, <3>1, <3>2 DEF AttemptFails
  <2>4. run[p].pc \in {"take", "publish", "mark"}
    BY <1>5 DEF AttemptFails
  <2>5. QED
    BY <1>1, <1>5, <2>1, <2>2, <2>3, <2>4 DEF AttemptFails, Handles
<1>6. CASE Retry(p)
  <2> DEFINE n == run[p].retryCount[e] + 1
  <2>1. /\ Stays(p, "dead") \/ Stopped(p) \/ Advanced(p)
        /\ \A q \in Publishers \ {p} : run'[q] = run[q]
    <3>1. CASE Goto(p, "dead")
      BY <3>1, <1>p, GotoMoves
    <3>2. CASE Advance(p)
      BY <3>2, AdvanceMoves
    <3>3. QED
      BY <1>6, <3>1, <3>2 DEF Retry
  <2>2. Written(e, "PENDING") /\ \A f \in Events \ {e} : row'[f] = row[f]
    BY <1>1, <1>6, <1>t DEF Retry, Written, Rows
  <2>3. QED
    BY <1>1, <1>6, <2>1, <2>2 DEF Retry, Handles
<1>7. CASE MoveToDeadLetterQueue(p)
  <2>1. Stays(p, "dlq") /\ \A q \in Publishers \ {p} : run'[q] = run[q]
    BY <1>7, <1>p, GotoMoves DEF MoveToDeadLetterQueue
  <2>2. QED
    BY <1>1, <1>7, <2>1, <1>w DEF MoveToDeadLetterQueue, Handles
<1>8. CASE DeadLetter(p)
  <2>1. (Stopped(p) \/ Advanced(p)) /\ \A q \in Publishers \ {p} : run'[q] = run[q]
    BY <1>8, AdvanceMoves DEF DeadLetter
  <2>2. QED
    BY <1>1, <1>8, <2>1 DEF DeadLetter, Handles
<1>9. CASE RunFails(p)
  <2>1. Stopped(p) /\ \A q \in Publishers \ {p} : run'[q] = run[q]
    BY <1>9, StopMoves DEF RunFails
  <2>2. QED
    BY <1>1, <1>9, <2>1 DEF RunFails, Handles
<1>10. QED
  BY <1>2, <1>3, <1>4, <1>5, <1>6, <1>7, <1>8, <1>9 DEF RunStep

(* publishPendingEvents takes rows that are PENDING, and notes which of    *)
(* them another run has.                                                   *)
LEMMA StartDoes ==
  ASSUME TypeOK, NEW p \in Publishers, PublishPendingEvents(p)
  PROVE  /\ run[p].pc = "idle" /\ run'[p].pc = "take" /\ run'[p].event \in run'[p].batch
         /\ \A e \in run'[p].batch : e \in Events /\ row[e].status = "PENDING"
         /\ \A e \in run'[p].batch, q \in Publishers \ {p} : e \in run[q].batch => e \in shared'
         /\ \A q \in Publishers \ {p} : run'[q] = run[q]
         /\ shared \subseteq shared'
         /\ row' = row /\ sent' = sent /\ failed' = failed /\ lost' = lost
<1> DEFINE found == Oldest(Pending)
<1>1. \A e \in found : e \in Events /\ row[e].status = "PENDING"
  BY DEF Oldest, Pending
<1>2. PICK first \in Events :
        /\ first \in found
        /\ run' = [run EXCEPT ![p] =
             [pc |-> "take", event |-> first, batch |-> found,
              retryCount |-> [e \in Events |-> row[e].retryCount]]]
  BY DEF PublishPendingEvents, IsFirst
<1>3. run'[p].pc = "take" /\ run'[p].event = first /\ run'[p].batch = found
      /\ \A q \in Publishers \ {p} : run'[q] = run[q]
  <2> HIDE DEF found
  <2>1. QED
    BY <1>2 DEF TypeOK
<1>4. shared' = shared \cup {e \in found : \E q \in Publishers \ {p} : e \in run[q].batch}
  BY DEF PublishPendingEvents
<1>5. /\ run[p].pc = "idle"
      /\ row' = row /\ sent' = sent /\ failed' = failed /\ lost' = lost
  BY DEF PublishPendingEvents
<1> HIDE DEF found
<1>6. QED
  BY <1>1, <1>2, <1>3, <1>4, <1>5

LEMMA InitOwnInv == Init => OwnInv
<1> SUFFICES ASSUME Init PROVE OwnInv
  OBVIOUS
<1>1. \A p \in Publishers : run[p].pc = "idle" /\ run[p].batch = {} /\ run[p].event = NoEvent
  BY DEF Init, Idle
<1>2. \A e \in Events : sent[e] = 0 /\ failed[e] = 0
  BY DEF Init
<1>3. QED
  BY <1>1, <1>2 DEF OwnInv, IdleRuns, Owned, Sparing

(* The event of a run is in its batch, and nowhere between two runs.       *)
LEMMA EventInBatch ==
  ASSUME TypeOK, IdleRuns, NEW p \in Publishers, NEW e \in Events, run[p].event = e
  PROVE  run[p].pc # "idle" /\ e \in run[p].batch
  BY ConstantsAssumption DEF TypeOK, IdleRuns, NoEvent

LEMMA StepOwnInv == Inv /\ OwnInv /\ [Next]_vars => OwnInv'
<1> SUFFICES ASSUME Inv, OwnInv, [Next]_vars PROVE OwnInv'
  OBVIOUS
<1>t. TypeOK /\ IdleRuns
  BY DEF Inv, OwnInv
<1>n. \A e \in Events : sent[e] \in Nat /\ failed[e] \in Nat
  BY <1>t DEF TypeOK
<1>1. ASSUME NEW f \in Events, StoreEvent(f) PROVE OwnInv'
  <2>1. /\ run' = run /\ sent' = sent /\ failed' = failed /\ shared' = shared
        /\ row[f].status = "none" /\ row'[f].status = "PENDING"
        /\ \A e \in Events \ {f} : row'[e] = row[e]
    BY <1>1, <1>t DEF StoreEvent, TypeOK, Rows
  <2>2. IdleRuns'
    BY <1>t, <2>1 DEF IdleRuns
  <2>3. ASSUME NEW e \in Events \ shared PROVE Owned(e)' /\ Sparing(e)'
    <3>1. Owned(e) /\ Sparing(e)
      BY DEF OwnInv
    <3>2. CASE e = f
      <4>1. \A p \in Publishers : e \notin run[p].batch
        <5> SUFFICES ASSUME NEW p \in Publishers, e \in run[p].batch PROVE FALSE
          OBVIOUS
        <5>1. Held(e, p) /\ run[p].pc # "idle" /\ run[p].pc \in PCs
          BY <3>1, <1>t DEF Owned, IdleRuns, TypeOK, Runs
        <5>2. QED
          BY <5>1, <2>1, <3>2 DEF Held, PCs
      <4>2. QED
        BY <4>1, <2>1, <3>1, <3>2 DEF Owned, Sparing
    <3>3. CASE e # f
      BY <2>1, <3>1, <3>3 DEF Owned, Sparing, Held
    <3>4. QED
      BY <3>2, <3>3
  <2>4. QED
    BY <2>1, <2>2, <2>3 DEF OwnInv
<1>2. ASSUME NEW f \in Events, CleanupOldEvents(f) PROVE OwnInv'
  <2>1. /\ run' = run /\ sent' = sent /\ failed' = failed /\ shared' = shared
        /\ row[f].status = "PUBLISHED" /\ row'[f].status = "deleted"
        /\ \A e \in Events \ {f} : row'[e] = row[e]
        /\ \A p \in Publishers : f \notin run[p].batch
    BY <1>2, <1>t DEF CleanupOldEvents, Update, TypeOK, Rows
  <2>2. IdleRuns'
    BY <1>t, <2>1 DEF IdleRuns
  <2>3. ASSUME NEW e \in Events \ shared PROVE Owned(e)' /\ Sparing(e)'
    <3>1. Owned(e) /\ Sparing(e)
      BY DEF OwnInv
    <3>2. CASE e = f
      BY <2>1, <3>1, <3>2 DEF Owned, Sparing
    <3>3. CASE e # f
      BY <2>1, <3>1, <3>3 DEF Owned, Sparing, Held
    <3>4. QED
      BY <3>2, <3>3
  <2>4. QED
    BY <2>1, <2>2, <2>3 DEF OwnInv
<1>3. ASSUME NEW p \in Publishers, PublishPendingEvents(p) PROVE OwnInv'
  <2>1. /\ run[p].pc = "idle" /\ run'[p].pc = "take" /\ run'[p].event \in run'[p].batch
        /\ \A e \in run'[p].batch : e \in Events /\ row[e].status = "PENDING"
        /\ \A e \in run'[p].batch, q \in Publishers \ {p} : e \in run[q].batch => e \in shared'
        /\ \A q \in Publishers \ {p} : run'[q] = run[q]
        /\ shared \subseteq shared'
        /\ row' = row /\ sent' = sent /\ failed' = failed /\ lost' = lost
    BY <1>3, <1>t, StartDoes
  <2>2. IdleRuns'
    BY <1>t, <2>1 DEF IdleRuns
  <2>3. ASSUME NEW e \in Events \ shared' PROVE Owned(e)' /\ Sparing(e)'
    <3>1. Owned(e) /\ Sparing(e)
      BY <2>1 DEF OwnInv
    <3>2. ASSUME NEW q \in Publishers, e \in run'[q].batch PROVE Held(e, q)'
      <4>1. CASE q = p
        BY <2>1, <3>2, <4>1 DEF Held
      <4>2. CASE q # p
        BY <2>1, <3>1, <3>2, <4>2 DEF Held, Owned
      <4>3. QED
        BY <4>1, <4>2
    <3>3. ASSUME NEW q \in Publishers, NEW u \in Publishers, e \in run'[q].batch, e \in run'[u].batch
          PROVE  q = u
      <4>1. CASE q = p \/ u = p
        BY <2>1, <3>3, <4>1
      <4>2. CASE q # p /\ u # p
        BY <2>1, <3>1, <3>3, <4>2 DEF Owned
      <4>3. QED
        BY <4>1, <4>2
    <3>4. Sparing(e)'
      <4>1. ASSUME NEW q \in Publishers, run'[q].event = e, run'[q].pc # "mark"
            PROVE  sent'[e] <= failed'[e]
        BY <2>1, <3>1, <4>1 DEF Sparing
      <4>2. QED
        BY <2>1, <3>1, <4>1 DEF Sparing
    <3>5. QED
      BY <3>2, <3>3, <3>4 DEF Owned
  <2>4. QED
    BY <2>2, <2>3 DEF OwnInv
<1>4. ASSUME NEW p \in Publishers, RunStep(p) PROVE OwnInv'
  <2>1. PICK f : f = run[p].event
    OBVIOUS
  <2>2. /\ f \in Events /\ f \in run[p].batch /\ run[p].pc # "idle"
        /\ \A q \in Publishers \ {p} : run'[q] = run[q]
        /\ \A e \in Events \ {f} : row'[e] = row[e] /\ sent'[e] = sent[e] /\ failed'[e] = failed[e]
        /\ shared' = shared
        /\ Handles(p, f)
    BY <1>4, <1>t, <2>1, RunDoes
  <2>3. \/ \E pc \in PCs \ {"idle"} : Stays(p, pc)
        \/ Stopped(p)
        \/ Advanced(p)
    BY <2>2 DEF Handles, PCs
  <2>4. IdleRuns'
    <3>1. run'[p].pc = "idle" => run'[p].batch = {} /\ run'[p].event = NoEvent
      BY <2>3 DEF Stays, Stopped, Advanced
    <3>2. QED
      BY <1>t, <2>2, <3>1 DEF IdleRuns
  <2>5. /\ run'[p].batch \subseteq run[p].batch
        /\ run'[p].event = f \/ run'[p].event = NoEvent \/ run'[p].pc = "take"
        /\ run'[p].event \in run'[p].batch \/ run'[p].event = NoEvent
    BY <2>1, <2>2, <2>3 DEF Stays, Stopped, Advanced
  <2>6. ASSUME NEW e \in Events \ shared PROVE Owned(e)' /\ Sparing(e)'
    <3>1. Owned(e) /\ Sparing(e) /\ sent[e] \in Nat /\ failed[e] \in Nat /\ e # NoEvent
      BY <1>n, ConstantsAssumption DEF OwnInv, NoEvent
    <3>2. \A q, u \in Publishers : e \in run'[q].batch /\ e \in run'[u].batch => q = u
      <4>1. \A q \in Publishers : run'[q].batch \subseteq run[q].batch
        BY <2>2, <2>5
      <4>2. QED
        BY <3>1, <4>1 DEF Owned
    <3>3. CASE e # f
      <4>1. row'[e] = row[e] /\ sent'[e] = sent[e] /\ failed'[e] = failed[e]
        BY <2>2, <3>3
      <4>2. ASSUME NEW q \in Publishers, e \in run'[q].batch PROVE Held(e, q)'
        <5>1. CASE q = p
          <6>1. row[e].status = "PENDING"
            BY <2>1, <2>5, <3>1, <3>3, <4>2, <5>1 DEF Owned, Held
          <6>2. run'[p].event # e \/ run'[p].pc = "take"
            BY <2>5, <3>1, <3>3
          <6>3. QED
            BY <4>1, <5>1, <6>1, <6>2 DEF Held
        <5>2. CASE q # p
          BY <2>2, <3>1, <4>1, <4>2, <5>2 DEF Owned, Held
        <5>3. QED
          BY <5>1, <5>2
      <4>3. ASSUME NEW q \in Publishers, run'[q].event = e, run'[q].pc # "mark"
            PROVE  sent'[e] <= failed'[e]
        <5>1. CASE q = p
          <6>1. e \in run[p].batch
            BY <2>5, <3>1, <4>3, <5>1
          <6>2. row[e].status = "PENDING"
            BY <2>1, <3>1, <3>3, <6>1 DEF Owned, Held
          <6>3. QED
            BY <3>1, <4>1, <6>2 DEF Sparing
        <5>2. CASE q # p
          BY <2>2, <3>1, <4>1, <4>3, <5>2 DEF Sparing
        <5>3. QED
          BY <5>1, <5>2
      <4>4. QED
        BY <3>1, <3>2, <4>1, <4>2, <4>3 DEF Owned, Sparing
    <3>4. CASE e = f
      <4>1. Held(e, p) /\ e \in run[p].batch
        BY <2>2, <3>1, <3>4 DEF Owned
      <4>2. \A q \in Publishers \ {p} : e \notin run[q].batch /\ e \notin run'[q].batch
        BY <2>2, <3>1, <3>4 DEF Owned
      <4>3. \A q \in Publishers \ {p} : run'[q].event # e
        BY <1>t, <2>2, <4>2, EventInBatch
      <4>4. /\ e \in run'[p].batch => Held(e, p)'
            /\ sent'[e] <= 1 + failed'[e]
            /\ row'[e].status \in {"none", "PENDING"} => sent'[e] <= failed'[e]
            /\ run'[p].event = e /\ run'[p].pc # "mark" => sent'[e] <= failed'[e]
        <5>1. /\ sent[e] <= 1 + failed[e]
              /\ row[e].status \in {"none", "PENDING"} => sent[e] <= failed[e]
              /\ run[p].pc # "mark" => sent[e] <= failed[e]
          BY <2>1, <3>1, <3>4 DEF Sparing
        <5>2. Handles(p, e) /\ run[p].event = e
          BY <2>1, <2>2, <3>4
        <5>3. QED
          BY <3>1, <4>1, <5>1, <5>2 DEF Handles, Held, Stays, Stopped, Advanced, Written
      <4>5. QED
        BY <3>2, <4>2, <4>3, <4>4 DEF Owned, Sparing
    <3>5. QED
      BY <3>3, <3>4
  <2>7. QED
    BY <2>2, <2>4, <2>6 DEF OwnInv
<1>5. CASE UNCHANGED vars
  BY <1>5 DEF vars, OwnInv, IdleRuns, Owned, Held, Sparing
<1>6. QED
  BY <1>1, <1>2, <1>3, <1>4, <1>5 DEF Next, Proceeds, RunStep

LEMMA AlwaysOwnInv == Spec => []OwnInv
<1>1. QED
  BY InitOwnInv, AlwaysInv, StepOwnInv, PTL DEF Spec

(* Unless two overlapping runs had it at once, the broker gets an event    *)
(* again only after an attempt to publish it failed, whichever runs fail   *)
(* or die.                                                                 *)
THEOREM CopiesNeeded == Spec => []NoNeedlessCopy
<1>1. OwnInv => NoNeedlessCopy
  BY DEF OwnInv, Sparing, NoNeedlessCopy
<1>2. QED
  BY <1>1, AlwaysOwnInv, PTL

(* Unless two overlapping runs had it at once, nobody goes back on an      *)
(* event that is PUBLISHED or FAILED: no step but cleanupOldEvents changes *)
(* its status.                                                             *)
THEOREM OutcomeStands == Spec => SettledIsFinal
<1> DEFINE A == \A e \in Events \ shared : row[e].status \in {"PUBLISHED", "FAILED"} =>
                  row'[e].status \in {row[e].status, "deleted"}
<1>1. Inv /\ OwnInv /\ [Next]_vars => [A]_row
  <2> SUFFICES ASSUME Inv, OwnInv, [Next]_vars,
                      NEW e \in Events \ shared, row[e].status \in {"PUBLISHED", "FAILED"}
               PROVE  row'[e].status \in {row[e].status, "deleted"}
    OBVIOUS
  <2>t. TypeOK /\ IdleRuns /\ Owned(e)
    BY DEF Inv, OwnInv
  <2>store. ASSUME NEW f \in Events, StoreEvent(f) PROVE row'[e] = row[e]
    BY <2>t, <2>store DEF StoreEvent, TypeOK
  <2>clean. ASSUME NEW f \in Events, CleanupOldEvents(f)
        PROVE  row'[e].status \in {row[e].status, "deleted"}
    BY <2>t, <2>clean DEF CleanupOldEvents, Update, TypeOK, Rows
  <2>find. ASSUME NEW p \in Publishers, PublishPendingEvents(p) PROVE row' = row
    BY <2>find DEF PublishPendingEvents
  <2>work. ASSUME NEW p \in Publishers, RunStep(p) PROVE row'[e] = row[e]
    <3>1. PICK f : f = run[p].event
      OBVIOUS
    <3>2. /\ f \in Events /\ f \in run[p].batch
          /\ \A g \in Events \ {f} : row'[g] = row[g]
          /\ Handles(p, f)
      BY <2>work, <2>t, <3>1, RunDoes
    <3>3. CASE e # f
      BY <3>2, <3>3
    <3>4. CASE e = f
      <4>1. Held(e, p)
        BY <2>t, <3>2, <3>4 DEF Owned
      <4>2. row' = row
        BY <3>1, <3>2, <3>4, <4>1 DEF Handles, Held
      <4>3. QED
        BY <4>2
    <3>5. QED
      BY <3>3, <3>4
  <2>stutter. UNCHANGED vars => row' = row
    BY DEF vars
  <2> QED
    BY <2>store, <2>clean, <2>find, <2>work, <2>stutter DEF Next, Proceeds, RunStep
<1>2. QED
  BY <1>1, AlwaysInv, AlwaysOwnInv, PTL DEF Spec, SettledIsFinal

-----------------------------------------------------------------------------
(* An event is PROCESSING and no run will write its row any more: none has *)
(* it, or it has only the publish to booking.dlq left.  An event that is   *)
(* stranded is undecided, and a run that ends leaves no other behind.      *)
Undecided == {e \in Events :
  /\ row[e].status = "PROCESSING"
  /\ \A p \in Publishers : run[p].event = e => run[p].pc = "dlq"}

Decided == IsFiniteSet(Undecided) /\ Cardinality(Undecided) <= lost

(* A step that leaves no more events undecided and loses no run.           *)
LEMMA FewerUndecided ==
  ASSUME TypeOK, Decided, Undecided' \subseteq Undecided, lost' = lost
  PROVE  Decided'
<1> DEFINE S == Undecided
           T == Undecided'
<1>1. IsFiniteSet(S) /\ T \in SUBSET S /\ Cardinality(S) <= lost /\ lost \in Nat
  BY DEF Decided, TypeOK
<1>2. IsFiniteSet(T) /\ Cardinality(T) <= Cardinality(S) /\ Cardinality(S) \in Nat /\ Cardinality(T) \in Nat
  <2> HIDE DEF S, T
  <2>1. IsFiniteSet(T) /\ Cardinality(T) <= Cardinality(S)
    BY <1>1, FS_Subset
  <2>2. QED
    BY <1>1, <2>1, FS_CardinalityType
<1>3. Cardinality(T) <= lost
  <2> HIDE DEF S, T
  <2>1. QED
    BY <1>1, <1>2
<1>4. QED
  BY <1>2, <1>3 DEF Decided

(* A run that is cut off leaves one event more, its own.                   *)
LEMMA OneMoreUndecided ==
  ASSUME TypeOK, Decided, NEW e, Undecided' \subseteq Undecided \cup {e}, lost' = lost + 1
  PROVE  Decided'
<1> DEFINE S == Undecided
           T == Undecided'
<1>1. IsFiniteSet(S) /\ T \in SUBSET (S \cup {e}) /\ Cardinality(S) <= lost /\ lost \in Nat
  BY DEF Decided, TypeOK
<1>2. /\ IsFiniteSet(T) /\ Cardinality(T) \in Nat
      /\ Cardinality(T) <= lost + 1
  <2> HIDE DEF S, T
  <2>1. IsFiniteSet(S \cup {e}) /\ Cardinality(S \cup {e}) \in {Cardinality(S), Cardinality(S) + 1}
    BY <1>1, FS_AddElement
  <2>2. IsFiniteSet(T) /\ Cardinality(T) <= Cardinality(S \cup {e})
    BY <1>1, <2>1, FS_Subset
  <2>3. Cardinality(S) \in Nat /\ Cardinality(T) \in Nat
    BY <1>1, <2>2, FS_CardinalityType
  <2>4. QED
    BY <1>1, <2>1, <2>2, <2>3
<1>3. QED
  BY <1>2 DEF Decided

LEMMA InitDecided == Init => Decided
<1> SUFFICES ASSUME Init PROVE Decided
  OBVIOUS
<1>1. Undecided = {} /\ lost = 0
  BY DEF Init, Undecided
<1>2. QED
  BY <1>1, FS_EmptySet DEF Decided

LEMMA StepDecided == Inv /\ OwnInv /\ Decided /\ [Next]_vars => Decided'
<1> SUFFICES ASSUME Inv, OwnInv, Decided, [Next]_vars PROVE Decided'
  OBVIOUS
<1>t. TypeOK /\ IdleRuns
  BY DEF Inv, OwnInv
<1>1. ASSUME NEW f \in Events, StoreEvent(f) PROVE Decided'
  <2>1. /\ run' = run /\ lost' = lost /\ row'[f].status = "PENDING"
        /\ \A e \in Events \ {f} : row'[e] = row[e]
    BY <1>1, <1>t DEF StoreEvent, TypeOK, Rows
  <2>2. Undecided' \subseteq Undecided
    BY <2>1 DEF Undecided
  <2>3. QED
    BY <1>t, <2>1, <2>2, FewerUndecided
<1>2. ASSUME NEW f \in Events, CleanupOldEvents(f) PROVE Decided'
  <2>1. /\ run' = run /\ lost' = lost /\ row'[f].status = "deleted"
        /\ \A e \in Events \ {f} : row'[e] = row[e]
    BY <1>2, <1>t DEF CleanupOldEvents, Update, TypeOK, Rows
  <2>2. Undecided' \subseteq Undecided
    BY <2>1 DEF Undecided
  <2>3. QED
    BY <1>t, <2>1, <2>2, FewerUndecided
<1>3. ASSUME NEW p \in Publishers, PublishPendingEvents(p) PROVE Decided'
  <2>1. /\ run[p].pc = "idle" /\ run'[p].pc = "take"
        /\ \A q \in Publishers \ {p} : run'[q] = run[q]
        /\ row' = row /\ lost' = lost
    BY <1>3, <1>t, StartDoes
  <2>2. ASSUME NEW e \in Undecided' PROVE e \in Undecided
    <3>1. \A q \in Publishers : run[q].event = e => run[q].pc = "dlq"
      <4>1. e \in Events /\ \A q \in Publishers : run'[q].event = e => run'[q].pc = "dlq"
        BY <2>2 DEF Undecided
      <4>2. run[p].event # e
        BY <1>t, <2>1, <4>1, EventInBatch
      <4>3. QED
        BY <2>1, <4>1, <4>2
    <3>2. QED
      BY <2>1, <2>2, <3>1 DEF Undecided
  <2>3. Undecided' \subseteq Undecided
    BY <2>2
  <2>4. QED
    BY <1>t, <2>1, <2>3, FewerUndecided
<1>4. ASSUME NEW p \in Publishers, RunStep(p) PROVE Decided'
  <2>1. PICK f : f = run[p].event
    OBVIOUS
  <2>2. /\ f \in Events /\ run[p].pc # "idle"
        /\ \A q \in Publishers \ {p} : run'[q] = run[q]
        /\ \A e \in Events \ {f} : row'[e] = row[e]
        /\ Handles(p, f)
    BY <1>4, <1>t, <2>1, RunDoes
  <2>3. ASSUME NEW e \in Undecided', e # f PROVE e \in Undecided
    <3>1. row[e].status = "PROCESSING" /\ e \in Events
      BY <2>2, <2>3 DEF Undecided
    <3>2. \A q \in Publishers : run[q].event = e => run[q].pc = "dlq"
      BY <2>1, <2>2, <2>3 DEF Undecided
    <3>3. QED
      BY <3>1, <3>2 DEF Undecided
  <2>4. CASE lost' = lost + 1
    <3>1. Undecided' \subseteq Undecided \cup {f}
      BY <2>3
    <3>2. QED
      BY <1>t, <2>4, <3>1, OneMoreUndecided
  <2>5. CASE lost' # lost + 1
    <3>1. ASSUME f \in Undecided' PROVE f \in Undecided
      <4>1. /\ row'[f].status = "PROCESSING"
            /\ \A q \in Publishers : run'[q].event = f => run'[q].pc = "dlq"
        BY <3>1 DEF Undecided
      <4>2. run[p].pc = "dlq" /\ row' = row
        BY <2>1, <2>2, <2>5, <4>1 DEF Handles, Stays, Written
      <4>3. \A q \in Publishers : run[q].event = f => run[q].pc = "dlq"
        BY <2>2, <4>1, <4>2
      <4>4. QED
        BY <2>2, <4>1, <4>2, <4>3 DEF Undecided
    <3>2. Undecided' \subseteq Undecided
      BY <2>3, <3>1
    <3>3. lost' = lost
      BY <2>2, <2>5 DEF Handles
    <3>4. QED
      BY <1>t, <3>2, <3>3, FewerUndecided
  <2>6. QED
    BY <2>4, <2>5
<1>5. CASE UNCHANGED vars
  <2>1. Undecided' = Undecided /\ lost' = lost
    BY <1>5 DEF vars, Undecided
  <2>2. QED
    BY <1>t, <2>1, FewerUndecided
<1>6. QED
  BY <1>1, <1>2, <1>3, <1>4, <1>5 DEF Next, Proceeds, RunStep

(* An event that is PROCESSING has a run that will decide about it, but    *)
(* for at most one event per run that was cut off, however many runs       *)
(* overlap (publishEvent).                                                 *)
THEOREM OneStrandedPerLoss == Spec => []FewStranded
<1>1. TypeOK /\ Decided => FewStranded
  <2> SUFFICES ASSUME TypeOK, Decided PROVE FewStranded
    OBVIOUS
  <2> DEFINE S == Undecided
             T == {e \in Events : Stranded(e)}
  <2>1. IsFiniteSet(S) /\ Cardinality(S) <= lost /\ lost \in Nat
    BY DEF Decided, TypeOK
  <2>2. T \in SUBSET S
    BY DEF Stranded, Undecided
  <2>3. Cardinality(T) <= lost
    <3> HIDE DEF S, T
    <3>1. IsFiniteSet(T) /\ Cardinality(T) <= Cardinality(S)
      BY <2>1, <2>2, FS_Subset
    <3>2. Cardinality(S) \in Nat /\ Cardinality(T) \in Nat
      BY <2>1, <3>1, FS_CardinalityType
    <3>3. QED
      BY <2>1, <3>1, <3>2
  <2>4. QED
    BY <2>3 DEF FewStranded
<1>2. Inv => TypeOK
  BY DEF Inv
<1>3. QED
  BY <1>1, <1>2, InitDecided, AlwaysInv, AlwaysOwnInv, StepDecided, PTL DEF Spec

-----------------------------------------------------------------------------
(* Implementation of EventRelay.                                           *)

(* A run has only rows that were committed.                                *)
Committed == \A p \in Publishers : \A e \in run[p].batch : row[e].status # "none"

Stored == {e \in Events : row[e].status # "none"}

LEMMA InitCommitted == Init => Committed
  BY DEF Init, Committed, Idle

(* No step of a run makes or unmakes a row, and what it sends is stored.   *)
LEMMA RunRelays ==
  ASSUME TypeOK, Committed, NEW p \in Publishers, RunStep(p)
  PROVE  /\ Committed' /\ Stored' = Stored
         /\ sent' = sent \/ \E e \in Stored : sent' = [sent EXCEPT ![e] = @ + 1]
<1>1. PICK e : e = run[p].event
  OBVIOUS
<1>2. /\ e \in Events /\ e \in run[p].batch
      /\ \A q \in Publishers \ {p} : run'[q] = run[q]
      /\ \A f \in Events \ {e} : row'[f] = row[f]
      /\ Handles(p, e)
  BY <1>1, RunDoes
<1>3. row[e].status # "none"
  BY <1>2 DEF Committed
<1>4. row'[e].status # "none" /\ run'[p].batch \subseteq run[p].batch
  BY <1>2, <1>3 DEF Handles, Written, Stays, Stopped, Advanced
<1>5. \A q \in Publishers : run'[q].batch \subseteq run[q].batch
  BY <1>2, <1>4
<1>6. \A q \in Publishers : run[q].batch \subseteq Events
  BY DEF TypeOK, Runs
<1>7. Committed'
  BY <1>2, <1>4, <1>5, <1>6 DEF Committed
<1>8. Stored' = Stored
  BY <1>2, <1>3, <1>4 DEF Stored
<1>9. sent' = sent \/ sent' = [sent EXCEPT ![e] = @ + 1]
  BY <1>1 DEF RunStep, Take, Publish, Mark, AttemptFails, Retry, MoveToDeadLetterQueue,
              DeadLetter, RunFails
<1>10. e \in Stored
  BY <1>2, <1>3 DEF Stored
<1>11. QED
  BY <1>7, <1>8, <1>9, <1>10

LEMMA StepRelays ==
  ASSUME TypeOK, Committed, [Next]_vars
  PROVE  /\ Committed'
         /\ \/ sent' = sent /\ Stored' = Stored
            \/ \E e \in Events : sent' = sent /\ e \notin Stored /\ Stored' = Stored \cup {e}
            \/ \E e \in Stored : sent' = [sent EXCEPT ![e] = @ + 1] /\ Stored' = Stored
<1>1. ASSUME NEW e \in Events, StoreEvent(e)
      PROVE  Committed' /\ sent' = sent /\ e \notin Stored /\ Stored' = Stored \cup {e}
  <2>1. /\ row[e].status = "none" /\ row'[e].status = "PENDING"
        /\ \A f \in Events \ {e} : row'[f] = row[f]
    BY <1>1 DEF StoreEvent, TypeOK, Rows
  <2>2. \A q \in Publishers : run[q].batch \subseteq Events
    BY DEF TypeOK, Runs
  <2>3. QED
    BY <1>1, <2>1, <2>2 DEF StoreEvent, Committed, Stored
<1>2. ASSUME NEW e \in Events, CleanupOldEvents(e)
      PROVE  Committed' /\ sent' = sent /\ Stored' = Stored
  <2>1. /\ row[e].status = "PUBLISHED" /\ row'[e].status = "deleted"
        /\ \A f \in Events \ {e} : row'[f] = row[f]
    BY <1>2 DEF CleanupOldEvents, Update, TypeOK, Rows
  <2>2. \A q \in Publishers : run[q].batch \subseteq Events
    BY DEF TypeOK, Runs
  <2>3. QED
    BY <1>2, <2>1, <2>2 DEF CleanupOldEvents, Committed, Stored
<1>3. ASSUME NEW p \in Publishers, PublishPendingEvents(p)
      PROVE  Committed' /\ sent' = sent /\ Stored' = Stored
  <2>1. /\ run'[p].batch = Oldest(Pending) /\ row' = row
        /\ \A q \in Publishers \ {p} : run'[q] = run[q]
    BY <1>3 DEF PublishPendingEvents, TypeOK
  <2>2. \A e \in Oldest(Pending) : row[e].status = "PENDING"
    BY DEF Oldest, Pending
  <2>3. QED
    BY <1>3, <2>1, <2>2 DEF PublishPendingEvents, Committed, Stored
<1>4. CASE UNCHANGED vars
  BY <1>4 DEF vars, Committed, Stored
<1>5. QED
  BY <1>1, <1>2, <1>3, <1>4, RunRelays DEF Next, Proceeds, RunStep

(* The outbox implements EventRelay: however runs overlap, fail and retry, *)
(* nothing reaches the broker that no transaction has stored.              *)
THEOREM Implementation == Spec => ImplementsEventRelay
<1>1. Init => Relay!Init
  <2>1. ASSUME Init PROVE {e \in Events : row[e].status # "none"} = {}
    BY <2>1 DEF Init
  <2>2. QED
    BY <2>1 DEF Init, Relay!Init
<1>2. Inv /\ Committed /\ [Next]_vars => Committed'
  BY StepRelays DEF Inv
<1>3. Inv /\ Committed /\ [Next]_vars => [Relay!Next]_<<Stored, sent>>
  <2> SUFFICES ASSUME Inv, Committed, [Next]_vars PROVE [Relay!Next]_<<Stored, sent>>
    OBVIOUS
  <2>1. CASE sent' = sent /\ Stored' = Stored
    BY <2>1
  <2>2. ASSUME NEW e \in Events, sent' = sent, e \notin Stored, Stored' = Stored \cup {e}
        PROVE  Relay!Next
    <3>1. Relay!Store({e})
      BY <2>2 DEF Relay!Store, Stored
    <3>2. QED
      BY <3>1 DEF Relay!Next
  <2>3. ASSUME NEW e \in Stored, sent' = [sent EXCEPT ![e] = @ + 1], Stored' = Stored
        PROVE  Relay!Next
    <3>1. e \in Events /\ Relay!Send(e)
      BY <2>3 DEF Relay!Send, Stored
    <3>2. QED
      BY <3>1 DEF Relay!Next
  <2>4. QED
    BY <2>1, <2>2, <2>3, StepRelays DEF Inv
<1>4. QED
  BY <1>1, <1>2, <1>3, InitCommitted, AlwaysInv, PTL
     DEF Spec, ImplementsEventRelay, Relay!Spec, Stored
=============================================================================
