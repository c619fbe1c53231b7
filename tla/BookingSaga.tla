---------------------------- MODULE BookingSaga ----------------------------
(***************************************************************************)
(* The booking saga of booking-service: BookingSagaOrchestrator, the       *)
(* operations of BookingService that drive it and the payment event        *)
(* handler, for the bookings of one flight.                                *)
(*                                                                         *)
(* A call reads the saga row into memory, awaits, and later writes the     *)
(* whole row back; each database transaction takes effect at its commit,   *)
(* a Redis command when it is executed.  Two transactions on one booking   *)
(* are serialised by its row locks; a deadlock between them is a failure   *)
(* of one.  Outbox rows are counted per booking and event type; what       *)
(* becomes of them is the subject of Outbox and FlightInventory.           *)
(*                                                                         *)
(* The seat lock is taken at the granularity of its calls.  As long as     *)
(* nobody extends a lock this is SeatHold, which SeatLock implements; an   *)
(* extended lock lasts longer than its payload says, and can be taken over.*)
(***************************************************************************)
EXTENDS Naturals

CONSTANTS
  Bookings,           \* booking references (one uuid per create request)
  Seats,              \* seat numbers of the flight
  Wants,              \* Wants[b]: the seat numbers asked for, {} for any seat
  Workers,            \* concurrent calls of booking-service
  MockWorkers,        \* the calls served with the mock payment client
  Serial,             \* TRUE: two calls for one booking never overlap
  Extenders,          \* the bookings whose user asks for more time
  ClientsPay,         \* TRUE: no client asks for completion without having paid
  Faults,             \* the kinds of failure that may happen ...
  MaxFaults,          \* ... and a bound on how many do
  MaxRows             \* bound: no further cancel or complete after so many rows

ASSUME ConstantsAssumption ==
  /\ "none" \notin Bookings
  /\ Wants \in [Bookings -> SUBSET Seats]
  /\ MockWorkers \subseteq Workers
  /\ Extenders \subseteq Bookings
  /\ {Serial, ClientsPay} \subseteq BOOLEAN
  /\ MaxFaults \in Nat
  /\ MaxRows \in Nat

VARIABLES
  booking,     \* bookings.status, "none" before the row exists
  expired,     \* bookings.expires_at has passed
  saga,        \* saga_states: status and current_step
  outbox,      \* outbox[b][type]: rows stored for b
  hold,        \* hold[b]: the seats whose key names b
  lock,        \* the booking key of b, and how its TTL stands to the payloads
  overtaken,   \* history: the seats locked while another booking's key was there
  intent,      \* payment-service: no intent, an intent, a completed payment
  call,        \* the call each worker is in
  faults,      \* failures: how many may still happen, which kinds did
  revived      \* history: the bookings completed after they were cancelled

locks == <<hold, lock, overtaken>>
vars == <<booking, expired, saga, outbox, locks, intent, call, faults, revived>>

EventTypes == {"booking.created", "flight.reserve-seats", "flight.confirm-seats",
               "booking.confirmed", "flight.release-seats"}

BookingStatus == {"none", "INITIATED", "PENDING", "BOOKED", "CANCELLED"}

SagaStatus == {"none", "INITIATED", "SEATS_LOCKED", "FLIGHT_RESERVED",
               "BOOKING_CONFIRMED", "COMPENSATED"}

Steps == {0, 1, 2, 3, 6}

NoSaga == [status |-> "none", step |-> 0]

(* sagaState: the copy of the row the call works on.  auto: the call is    *)
(* createBooking's own completion, whose failure cancels the booking.      *)
Idle == [pc |-> "idle", booking |-> "none", sagaState |-> NoSaga, auto |-> FALSE]

(* fresh: the keys end when their payloads say; extended: they outlive     *)
(* them; lapsed: the payloads have expired and the keys are still there.   *)
LockStates == {"none", "fresh", "extended", "lapsed"}

PCs == {"idle", "step1", "step2_lock", "step2_save", "step3", "reload", "pay",
        "complete_find", "complete_tx", "complete_release",
        "cancel_find", "compensate", "compensate_tx", "extend_lock", "extend_save"}

TypeOK ==
  /\ booking \in [Bookings -> BookingStatus]
  /\ expired \in [Bookings -> BOOLEAN]
  /\ saga \in [Bookings -> [status : SagaStatus, step : Steps]]
  /\ outbox \in [Bookings -> [EventTypes -> Nat]]
  /\ hold \in [Bookings -> SUBSET Seats]
  /\ lock \in [Bookings -> LockStates]
  /\ overtaken \in SUBSET Seats
  /\ intent \in [Bookings -> {"none", "created", "paid"}]
  /\ call \in [Workers -> [pc : PCs, booking : Bookings \cup {"none"},
                           sagaState : [status : SagaStatus, step : Steps],
                           auto : BOOLEAN]]
  /\ faults \in [left : 0..MaxFaults, kinds : SUBSET Faults]
  /\ revived \in SUBSET Bookings

Init ==
  /\ booking = [b \in Bookings |-> "none"]
  /\ expired = [b \in Bookings |-> FALSE]
  /\ saga = [b \in Bookings |-> NoSaga]
  /\ outbox = [b \in Bookings |-> [e \in EventTypes |-> 0]]
  /\ hold = [b \in Bookings |-> {}]
  /\ lock = [b \in Bookings |-> "none"]
  /\ overtaken = {}
  /\ intent = [b \in Bookings |-> "none"]
  /\ call = [w \in Workers |-> Idle]
  /\ faults = [left |-> MaxFaults, kinds |-> {}]
  /\ revived = {}

-----------------------------------------------------------------------------
(* Building blocks.                                                        *)
Fault(kind) ==
  /\ kind \in Faults
  /\ faults.left > 0
  /\ faults' = [left |-> faults.left - 1, kinds |-> faults.kinds \cup {kind}]

Begin(w, b, pc) ==
  /\ call[w].pc = "idle"
  /\ Serial => \A v \in Workers : call[v].booking # b
  /\ call' = [call EXCEPT ![w] = [Idle EXCEPT !.pc = pc, !.booking = b]]

Goto(w, pc) == call' = [call EXCEPT ![w].pc = pc]
Return(w)   == call' = [call EXCEPT ![w] = Idle]

(* The call goes on at pc with its copy of the saga changed.               *)
GotoWith(w, pc, sagaState) ==
  call' = [call EXCEPT ![w].pc = pc, ![w].sagaState = sagaState]

State(status, step) == [status |-> status, step |-> step]

(* A compensation that has written the saga row keeps it locked until it   *)
(* commits: other transactions on that booking wait.                       *)
RowUnlocked(w) ==
  \A v \in Workers \ {w} :
    call[v].pc = "compensate_tx" => call[v].booking # call[w].booking

StoreEvents(b, types) ==
  outbox' = [outbox EXCEPT ![b] = [e \in EventTypes |->
               IF e \in types THEN @[e] + 1 ELSE @[e]]]

(* UPDATE ... WHERE bookingReference = b: no row, no effect.               *)
UpdateBooking(b, status) ==
  booking' = [booking EXCEPT ![b] = IF @ = "none" THEN "none" ELSE status]

-----------------------------------------------------------------------------
(* The seat lock.  The script of lockSeats goes by the payload of a key,   *)
(* and refuses only the seats whose payload has not expired.               *)
Available(b) ==
  \A c \in Bookings \ {b} : hold[c] \cap Wants[b] # {} => lock[c] = "lapsed"

(* Without seats to lock the call succeeds and writes no key.              *)
LockSeats(b) ==
  /\ Available(b)
  /\ hold' = [c \in Bookings |-> IF c = b THEN Wants[b] ELSE hold[c] \ Wants[b]]
  /\ lock' = [lock EXCEPT ![b] = IF Wants[b] = {} THEN "none" ELSE "fresh"]
  /\ overtaken' = overtaken \cup {s \in Wants[b] : \E c \in Bookings \ {b} : s \in hold[c]}

(* Every seat the booking key lists is freed, whoever has it by now.       *)
ReleaseSeats(b) ==
  /\ hold' = IF lock[b] = "none" THEN hold ELSE [c \in Bookings |-> hold[c] \ Wants[b]]
  /\ lock' = [lock EXCEPT ![b] = "none"]
  /\ UNCHANGED overtaken

-----------------------------------------------------------------------------
(* executeBookingSaga: createBooking passes no idempotency key, so every   *)
(* request starts a saga of its own under a new booking id.                *)
CreateSaga(w, b) ==
  /\ saga[b] = NoSaga
  /\ call[w].pc = "idle"
  /\ saga' = [saga EXCEPT ![b] = State("INITIATED", 0)]
  /\ call' = [call EXCEPT ![w] = [Idle EXCEPT !.pc = "step1", !.booking = b,
                                  !.sagaState = State("INITIATED", 0)]]
  /\ UNCHANGED <<booking, expired, outbox, locks, intent, faults, revived>>

(* Step 1: the booking row, the saga row and booking.created in one commit.*)
Step1(w) ==
  LET b == call[w].booking IN
  /\ call[w].pc = "step1"
  /\ booking' = [booking EXCEPT ![b] = "INITIATED"]
  /\ saga' = [saga EXCEPT ![b] = State("INITIATED", 1)]
  /\ StoreEvents(b, {"booking.created"})
  /\ GotoWith(w, "step2_lock", State("INITIATED", 1))
  /\ UNCHANGED <<expired, locks, intent, faults, revived>>

(* Its failure is not compensated: there is nothing to undo but the saga.  *)
Step1Fails(w) ==
  /\ call[w].pc = "step1"
  /\ Fault("tx")
  /\ Return(w)
  /\ UNCHANGED <<booking, expired, saga, outbox, locks, intent, revived>>

(* Step 2: the seat lock, then the saga row.                               *)
Step2Lock(w) ==
  LET b == call[w].booking IN
  /\ call[w].pc = "step2_lock"
  /\ LockSeats(b)
  /\ Goto(w, "step2_save")
  /\ UNCHANGED <<booking, expired, saga, outbox, intent, faults, revived>>

(* Mutant: the result of the lock is not looked at.                        *)
Step2RefusedIgnored(w) ==
  /\ call[w].pc = "step2_lock"
  /\ ~Available(call[w].booking)
  /\ Goto(w, "step2_save")
  /\ UNCHANGED <<booking, expired, saga, outbox, locks, intent, faults, revived>>

Step2Refused(w) ==
  LET b == call[w].booking IN
  /\ call[w].pc = "step2_lock"
  /\ ~Available(b)
  /\ Goto(w, "compensate")
  /\ UNCHANGED <<booking, expired, saga, outbox, locks, intent, faults, revived>>

(* The script ran but its reply is lost, or Redis is unreachable.          *)
Step2LockFails(w) ==
  LET b == call[w].booking IN
  /\ call[w].pc = "step2_lock"
  /\ \/ Fault("lock_reply") /\ LockSeats(b)
     \/ Fault("redis") /\ UNCHANGED locks
  /\ Goto(w, "compensate")
  /\ UNCHANGED <<booking, expired, saga, outbox, intent, revived>>

Step2Save(w) ==
  /\ call[w].pc = "step2_save"
  /\ RowUnlocked(w)
  /\ saga' = [saga EXCEPT ![call[w].booking] = State("SEATS_LOCKED", 2)]
  /\ GotoWith(w, "step3", State("SEATS_LOCKED", 2))
  /\ UNCHANGED <<booking, expired, outbox, locks, intent, faults, revived>>

(* The copy in memory already says step 2 when its save fails, so the      *)
(* compensation releases the lock.                                         *)
Step2SaveFails(w) ==
  /\ call[w].pc = "step2_save"
  /\ Fault("tx")
  /\ GotoWith(w, "compensate", State("SEATS_LOCKED", 2))
  /\ UNCHANGED <<booking, expired, saga, outbox, locks, intent, revived>>

(* Step 3: flight.reserve-seats, the saga row and the booking row.         *)
Step3(w) ==
  LET b == call[w].booking IN
  /\ call[w].pc = "step3"
  /\ RowUnlocked(w)
  /\ StoreEvents(b, {"flight.reserve-seats"})
  /\ saga' = [saga EXCEPT ![b] = State("FLIGHT_RESERVED", 3)]
  /\ UpdateBooking(b, "PENDING")
  /\ GotoWith(w, "reload", State("FLIGHT_RESERVED", 3))
  /\ UNCHANGED <<expired, locks, intent, faults, revived>>

(* It fails in its first statement, or after the copy in memory was set to *)
(* step 3: the rollback undoes the rows, not the copy.                     *)
Step3Fails(w) ==
  /\ call[w].pc = "step3"
  /\ \/ Fault("tx") /\ Goto(w, "compensate")
     \/ Fault("commit") /\ GotoWith(w, "compensate", State("FLIGHT_RESERVED", 3))
  /\ UNCHANGED <<booking, expired, saga, outbox, locks, intent, revived>>

(* The booking is read back for the answer.  A failure of this read ends   *)
(* createBooking, and nothing compensates the steps before it.             *)
Reload(w) ==
  /\ call[w].pc = "reload"
  /\ Goto(w, "pay")
  /\ UNCHANGED <<booking, expired, saga, outbox, locks, intent, faults, revived>>

ReloadFails(w) ==
  /\ call[w].pc = "reload"
  /\ Fault("reload")
  /\ Return(w)
  /\ UNCHANGED <<booking, expired, saga, outbox, locks, intent, revived>>

-----------------------------------------------------------------------------
(* prepareBookingForPayment: the RPC to payment-service with its 5 s       *)
(* timeout, or the mock client.                                            *)
PaymentIntent(w) ==
  LET b == call[w].booking IN
  /\ call[w].pc = "pay"
  /\ w \notin MockWorkers
  /\ intent' = [intent EXCEPT ![b] = "created"]
  /\ Return(w)
  /\ UNCHANGED <<booking, expired, saga, outbox, locks, faults, revived>>

(* Mutant: a payment intent that cannot be made leaves the booking as it is.*)
PaymentIntentFailsOnly(w) ==
  /\ call[w].pc = "pay"
  /\ w \notin MockWorkers
  /\ Fault("rpc")
  /\ Return(w)
  /\ UNCHANGED <<booking, expired, saga, outbox, locks, intent, revived>>

(* payment-service answers with an error, or too late: the booking is      *)
(* rolled back either way.                                                 *)
PaymentIntentFails(w) ==
  LET b == call[w].booking IN
  /\ call[w].pc = "pay"
  /\ w \notin MockWorkers
  /\ \/ Fault("rpc") /\ UNCHANGED intent
     \/ Fault("timeout") /\ intent' = [intent EXCEPT ![b] = "created"]
  /\ Goto(w, "cancel_find")
  /\ UNCHANGED <<booking, expired, saga, outbox, locks, revived>>

MockPayment(w) ==
  /\ call[w].pc = "pay"
  /\ w \in MockWorkers
  /\ call' = [call EXCEPT ![w].pc = "complete_find", ![w].auto = TRUE]
  /\ UNCHANGED <<booking, expired, saga, outbox, locks, intent, faults, revived>>

(* The customer pays.  payment-service knows nothing of the booking.       *)
Pay(b) ==
  /\ intent[b] = "created"
  /\ intent' = [intent EXCEPT ![b] = "paid"]
  /\ UNCHANGED <<booking, expired, saga, outbox, locks, call, faults, revived>>

-----------------------------------------------------------------------------
(* completeBooking: from payment.completed (delivered at least once) or    *)
(* from the client, whose transaction id is taken at its word.  It does    *)
(* not look at the status: a booking cancelled before it was paid for is   *)
(* completed, too.                                                         *)
StartComplete(w, b) ==
  /\ ClientsPay => intent[b] = "paid"
  /\ booking[b] # "none"
  /\ outbox[b]["flight.confirm-seats"] < MaxRows
  /\ Begin(w, b, "complete_find")
  /\ UNCHANGED <<booking, expired, saga, outbox, locks, intent, faults, revived>>

CompleteFind(w) ==
  LET b == call[w].booking IN
  /\ call[w].pc = "complete_find"
  /\ IF saga[b].status = "BOOKING_CONFIRMED" THEN Return(w)
                                             ELSE GotoWith(w, "complete_tx", saga[b])
  /\ UNCHANGED <<booking, expired, saga, outbox, locks, intent, faults, revived>>

Complete(w) ==
  LET b == call[w].booking IN
  /\ call[w].pc = "complete_tx"
  /\ RowUnlocked(w)
  /\ StoreEvents(b, {"flight.confirm-seats", "booking.confirmed"})
  /\ UpdateBooking(b, "BOOKED")
  /\ expired' = [expired EXCEPT ![b] = FALSE]
  /\ saga' = [saga EXCEPT ![b] = State("BOOKING_CONFIRMED", 6)]
  /\ revived' = IF booking[b] = "CANCELLED" THEN revived \cup {b} ELSE revived
  /\ Goto(w, "complete_release")
  /\ UNCHANGED <<locks, intent, faults>>

(* A failed completion is reported; createBooking's own is rolled back.    *)
AbortComplete(w) == IF call[w].auto THEN Goto(w, "cancel_find") ELSE Return(w)

CompleteFails(w) ==
  /\ call[w].pc \in {"complete_find", "complete_tx"}
  /\ Fault("tx")
  /\ AbortComplete(w)
  /\ UNCHANGED <<booking, expired, saga, outbox, locks, intent, revived>>

CompleteRelease(w) ==
  /\ call[w].pc = "complete_release"
  /\ ReleaseSeats(call[w].booking)
  /\ Return(w)
  /\ UNCHANGED <<booking, expired, saga, outbox, intent, faults, revived>>

(* The release fails, or the read of the booking for the answer after it.  *)
CompleteReleaseFails(w) ==
  /\ call[w].pc = "complete_release"
  /\ \/ Fault("redis") /\ UNCHANGED locks
     \/ Fault("tx") /\ ReleaseSeats(call[w].booking)
  /\ AbortComplete(w)
  /\ UNCHANGED <<booking, expired, saga, outbox, intent, revived>>

-----------------------------------------------------------------------------
(* cancelBooking, by the user.  (BookingCleanupService would call it for   *)
(* expired INITIATED bookings; it is in no module and never runs.)         *)
StartCancel(w, b) ==
  /\ booking[b] # "none"
  /\ outbox[b]["flight.release-seats"] < MaxRows
  /\ Begin(w, b, "cancel_find")
  /\ UNCHANGED <<booking, expired, saga, outbox, locks, intent, faults, revived>>

CancelFind(w) ==
  /\ call[w].pc = "cancel_find"
  /\ GotoWith(w, "compensate", saga[call[w].booking])
  /\ UNCHANGED <<booking, expired, saga, outbox, locks, intent, faults, revived>>

(* compensate, according to the copy of the saga in memory.  The seat lock *)
(* is released from inside the transaction, before its commit.             *)
Compensated(w) ==
  /\ call[w].pc = "compensate"
  /\ call[w].sagaState.status = "COMPENSATED"
  /\ Return(w)
  /\ UNCHANGED <<booking, expired, saga, outbox, locks, intent, faults, revived>>

(* Mutant: the locks are released from step 3 on only.                     *)
CompensateLocksLate(w) ==
  /\ call[w].pc = "compensate"
  /\ call[w].sagaState.status # "COMPENSATED"
  /\ RowUnlocked(w)
  /\ IF call[w].sagaState.step >= 3 THEN ReleaseSeats(call[w].booking) ELSE UNCHANGED locks
  /\ Goto(w, "compensate_tx")
  /\ UNCHANGED <<booking, expired, saga, outbox, intent, faults, revived>>

CompensateLocks(w) ==
  /\ call[w].pc = "compensate"
  /\ call[w].sagaState.status # "COMPENSATED"
  /\ RowUnlocked(w)
  /\ IF call[w].sagaState.step >= 2 THEN ReleaseSeats(call[w].booking) ELSE UNCHANGED locks
  /\ Goto(w, "compensate_tx")
  /\ UNCHANGED <<booking, expired, saga, outbox, intent, faults, revived>>

(* Mutant: the seats are given back from step 4 on, one too late.          *)
CompensateCommitOffByOne(w) ==
  LET b    == call[w].booking
      step == call[w].sagaState.step
  IN
  /\ call[w].pc = "compensate_tx"
  /\ StoreEvents(b, IF step >= 4 THEN {"flight.release-seats"} ELSE {})
  /\ UpdateBooking(b, "CANCELLED")
  /\ saga' = [saga EXCEPT ![b] = State("COMPENSATED", step)]
  /\ Return(w)
  /\ UNCHANGED <<expired, locks, intent, faults, revived>>

(* Mutant: step 2 does not rethrow, and step 3 follows the compensation.   *)
CompensateCommitGoesOn(w) ==
  LET b    == call[w].booking
      step == call[w].sagaState.step
  IN
  /\ call[w].pc = "compensate_tx"
  /\ StoreEvents(b, IF step >= 3 THEN {"flight.release-seats"} ELSE {})
  /\ UpdateBooking(b, "CANCELLED")
  /\ saga' = [saga EXCEPT ![b] = State("COMPENSATED", step)]
  /\ IF call[w].sagaState.status = "SEATS_LOCKED" THEN Goto(w, "step3") ELSE Return(w)
  /\ UNCHANGED <<expired, locks, intent, faults, revived>>

CompensateCommit(w) ==
  LET b    == call[w].booking
      step == call[w].sagaState.step
  IN
  /\ call[w].pc = "compensate_tx"
  /\ StoreEvents(b, IF step >= 3 THEN {"flight.release-seats"} ELSE {})
  /\ UpdateBooking(b, "CANCELLED")
  /\ saga' = [saga EXCEPT ![b] = State("COMPENSATED", step)]
  /\ Return(w)
  /\ UNCHANGED <<expired, locks, intent, faults, revived>>

(* The saga row cannot be read, or Redis or the database fails before the  *)
(* lock is released or after it: the error is logged and swallowed.        *)
CompensateFails(w) ==
  /\ \/ call[w].pc = "cancel_find"
     \/ call[w].pc = "compensate" /\ call[w].sagaState.status # "COMPENSATED"
     \/ call[w].pc = "compensate_tx"
  /\ Fault("undo")
  /\ Return(w)
  /\ UNCHANGED <<booking, expired, saga, outbox, locks, intent, revived>>

-----------------------------------------------------------------------------
(* extendBooking: extendLock, then expires_at.  The TTL of the keys grows, *)
(* their payloads stay as they are.                                        *)
StartExtend(w, b) ==
  /\ b \in Extenders
  /\ booking[b] # "none"
  /\ Begin(w, b, "extend_lock")
  /\ UNCHANGED <<booking, expired, saga, outbox, locks, intent, faults, revived>>

ExtendLock(w) ==
  LET b == call[w].booking IN
  /\ call[w].pc = "extend_lock"
  /\ IF lock[b] = "none"
       THEN Return(w) /\ UNCHANGED lock
       ELSE /\ Goto(w, "extend_save")
            /\ lock' = [lock EXCEPT ![b] = IF @ = "lapsed" THEN @ ELSE "extended"]
  /\ UNCHANGED <<booking, expired, saga, outbox, hold, overtaken, intent, faults, revived>>

ExtendSave(w) ==
  /\ call[w].pc = "extend_save"
  /\ expired' = [expired EXCEPT ![call[w].booking] = FALSE]
  /\ Return(w)
  /\ UNCHANGED <<booking, saga, outbox, locks, intent, faults, revived>>

-----------------------------------------------------------------------------
(* Time: expires_at passes; the lock, taken after it was set, lasts longer.*)
(* A BOOKED booking has no expires_at.                                     *)
BookingExpires(b) ==
  /\ booking[b] \notin {"none", "BOOKED"}
  /\ ~expired[b]
  /\ expired' = [expired EXCEPT ![b] = TRUE]
  /\ UNCHANGED <<booking, saga, outbox, locks, intent, call, faults, revived>>

(* The payloads of an extended lock expire before its keys.                *)
LockLapses(b) ==
  /\ lock[b] = "extended"
  /\ lock' = [lock EXCEPT ![b] = "lapsed"]
  /\ UNCHANGED <<booking, expired, saga, outbox, hold, overtaken, intent, call, faults, revived>>

(* The TTL runs out.  A lock that was just extended outlives the call that *)
(* extended it.  A seat key that a stranger's extension keeps beyond this  *)
(* has an expired payload and stands in nobody's way.                      *)
LockExpires(b) ==
  /\ lock[b] # "none"
  /\ expired[b] \/ booking[b] = "BOOKED"
  /\ \A w \in Workers : call[w].pc = "extend_save" => call[w].booking # b
  /\ hold' = [hold EXCEPT ![b] = {}]
  /\ lock' = [lock EXCEPT ![b] = "none"]
  /\ UNCHANGED <<booking, expired, saga, outbox, overtaken, intent, call, faults, revived>>

(* The process serving a call dies; what it committed stays.               *)
Crash(w) ==
  /\ call[w].pc # "idle"
  /\ Fault("crash")
  /\ Return(w)
  /\ UNCHANGED <<booking, expired, saga, outbox, locks, intent, revived>>

Create(w) ==
  \/ \E b \in Bookings : CreateSaga(w, b)
  \/ Step1(w) \/ Step1Fails(w)
  \/ Step2Lock(w) \/ Step2Refused(w) \/ Step2LockFails(w) \/ Step2Save(w) \/ Step2SaveFails(w)
  \/ Step3(w) \/ Step3Fails(w) \/ Reload(w) \/ ReloadFails(w)
  \/ PaymentIntent(w) \/ PaymentIntentFails(w) \/ MockPayment(w)

Completion(w) ==
  \/ \E b \in Bookings : StartComplete(w, b)
  \/ CompleteFind(w) \/ Complete(w) \/ CompleteFails(w)
  \/ CompleteRelease(w) \/ CompleteReleaseFails(w)

Cancellation(w) ==
  \/ \E b \in Bookings : StartCancel(w, b)
  \/ CancelFind(w) \/ Compensated(w) \/ CompensateLocks(w)
  \/ CompensateCommit(w) \/ CompensateFails(w)

Extension(w) ==
  \/ \E b \in Bookings : StartExtend(w, b)
  \/ ExtendLock(w) \/ ExtendSave(w)

Next ==
  \/ \E w \in Workers : Create(w) \/ Completion(w) \/ Cancellation(w) \/ Extension(w) \/ Crash(w)
  \/ \E b \in Bookings : Pay(b) \/ BookingExpires(b) \/ LockLapses(b) \/ LockExpires(b)

Spec == Init /\ [][Next]_vars

-----------------------------------------------------------------------------
(* Properties.                                                             *)
Reserved(b) == outbox[b]["flight.reserve-seats"]
Released(b) == outbox[b]["flight.release-seats"]

(* The booking row, the saga row and the outbox tell one story, however    *)
(* steps, compensations and crashes interleave over the bookings: seats    *)
(* are asked for once by a booking that got that far, and given back once  *)
(* by the cancelled ones among them only.  Not so a booking completed      *)
(* after its cancellation, whose seats are gone, nor after a step 3 that   *)
(* was rolled back when it had changed its copy of the saga.               *)
RowsAgree ==
  "commit" \notin faults.kinds => \A b \in Bookings \ revived :
    /\ booking[b] = "INITIATED" =>
         saga[b].status \in {"INITIATED", "SEATS_LOCKED"} /\ Reserved(b) = 0 /\ Released(b) = 0
    /\ booking[b] = "PENDING" =>
         saga[b].status = "FLIGHT_RESERVED" /\ Reserved(b) = 1 /\ Released(b) = 0
    /\ booking[b] = "BOOKED" =>
         saga[b].status = "BOOKING_CONFIRMED" /\ Reserved(b) = 1 /\ Released(b) = 0
    /\ booking[b] = "CANCELLED" =>
         saga[b].status = "COMPENSATED" /\ Released(b) = Reserved(b)

(* Seats are never given back to the flight more often than they were      *)
(* taken (compensate's flight.release-seats against step 3's               *)
(* flight.reserve-seats): what overlapping cancellations, a step 3 rolled  *)
(* back late and a second cancellation after a completion do not keep to.  *)
ReleaseMatchesReserve == \A b \in Bookings : Released(b) <= Reserved(b)

(* Once cancelled, a booking is only ever changed by the completion of     *)
(* somebody who paid: neither a late step of its creation nor anything     *)
(* else that had read its rows before brings it back (steps 2 and 3 after  *)
(* compensate, completeBooking, which does not look for a cancellation).   *)
OnlyPaymentRevives ==
  [][\A b \in Bookings : booking[b] = "CANCELLED" /\ booking'[b] # "CANCELLED" =>
       booking'[b] = "BOOKED" /\ intent[b] = "paid"]_booking

(* What completeBooking does not keep to: a cancelled booking, whose seats *)
(* were given back, stays cancelled.                                       *)
CancelledIsFinal ==
  [][\A b \in Bookings : booking[b] = "CANCELLED" => booking'[b] = "CANCELLED"]_booking

(* Once cancelled after its lock was recorded, a booking blocks no seat    *)
(* (compensate releases the lock before it commits).                       *)
CancelledFreesSeats ==
  \A b \in Bookings : booking[b] = "CANCELLED" /\ saga[b].step >= 2 => hold[b] = {}

(* No compensation failed or was cut off.                                  *)
CompensationsWork == faults.kinds \cap {"undo", "crash"} = {}

(* A booking waiting for payment, with time left and nobody working on it, *)
(* holds the seats it asked for (step 2, compensate, extendBooking), as    *)
(* long as no compensation is cut off after it has released the lock, and  *)
(* no seat of it was ever taken over from a lapsed lock: from then on two  *)
(* booking keys list that seat, and either's release frees it.             *)
PendingHoldsSeats ==
  CompensationsWork => \A b \in Bookings :
    /\ booking[b] = "PENDING" /\ ~expired[b]
    /\ Wants[b] \cap overtaken = {}
    /\ \A w \in Workers : call[w].booking # b
    => hold[b] = Wants[b]

(* createBooking leaves nothing half created: when one of its steps fails  *)
(* the booking ends CANCELLED, and a PENDING one that nobody works on has a*)
(* payment intent (the catch blocks of steps 2 and 3 and of                *)
(* prepareBookingForPayment), as long as the compensation itself succeeds. *)
(* One failure is not compensated: that of the read after step 3, which    *)
(* leaves a PENDING booking that was never offered for payment.            *)
NothingHalfCreated ==
  CompensationsWork => \A b \in Bookings :
    (\A w \in Workers : call[w].booking # b) =>
      /\ booking[b] # "INITIATED"
      /\ booking[b] = "PENDING" => intent[b] # "none" \/ "reload" \in faults.kinds

(* No seat number is sold twice (lock, completion, release of the lock).   *)
NoSeatBookedTwice ==
  \A b, c \in Bookings :
    b # c /\ booking[b] = "BOOKED" /\ booking[c] = "BOOKED" => Wants[b] \cap Wants[c] = {}

(* What the seat lock promises the saga as long as no lock is extended.    *)
Promise == INSTANCE SeatHold

LocksArePromised == Promise!Spec
=============================================================================
