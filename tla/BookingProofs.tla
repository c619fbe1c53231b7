--------------------------- MODULE BookingProofs ---------------------------
(***************************************************************************)
(* Proofs about BookingSaga and BookingSystem, for every set of bookings,  *)
(* seats and calls, every kind of failure and every number of them, and    *)
(* every number of copies, consumers and failures on the flight's side.    *)
(***************************************************************************)
EXTENDS BookingSystem, FiniteSums, TLAPS

(* A call is busy exactly while it is about a booking.                     *)
Placed == \A w \in Workers : call[w].pc = "idle" <=> call[w].booking = "none"

Calls == [pc : PCs, booking : Bookings \cup {"none"},
          sagaState : [status : SagaStatus, step : Steps], auto : BOOLEAN]

-----------------------------------------------------------------------------
(* What the building blocks of the actions do to the calls.                *)

(* Step w: no call but w's changes.                                        *)
Only(w) == \A v \in Workers \ {w} : call'[v] = call[v]

(* Goto moves one call and leaves its booking and its copy alone.          *)
LEMMA GotoEffect ==
  ASSUME TypeOK, NEW w \in Workers, NEW pc \in PCs, Goto(w, pc)
  PROVE  /\ Only(w) /\ call' \in [Workers -> Calls]
         /\ call'[w].pc = pc /\ call'[w].booking = call[w].booking
         /\ call'[w].sagaState = call[w].sagaState /\ call'[w].auto = call[w].auto
  BY DEF TypeOK, Goto, Calls, Only

(* GotoWith also replaces the copy of the saga.                            *)
LEMMA GotoWithEffect ==
  ASSUME TypeOK, NEW w \in Workers, NEW pc \in PCs,
         NEW s \in [status : SagaStatus, step : Steps], GotoWith(w, pc, s)
  PROVE  /\ Only(w) /\ call' \in [Workers -> Calls]
         /\ call'[w].pc = pc /\ call'[w].booking = call[w].booking
         /\ call'[w].sagaState = s /\ call'[w].auto = call[w].auto
  BY DEF TypeOK, GotoWith, Calls, Only

(* Return leaves the call idle, and about no booking.                      *)
LEMMA ReturnEffect ==
  ASSUME TypeOK, NEW w \in Workers, Return(w)
  PROVE  /\ Only(w) /\ call' \in [Workers -> Calls]
         /\ call'[w].pc = "idle" /\ call'[w].booking = "none"
  BY DEF TypeOK, Return, Calls, Only, Idle, PCs, NoSaga, SagaStatus, Steps

(* Begin gives an idle call a booking.                                     *)
LEMMA BeginEffect ==
  ASSUME TypeOK, NEW w \in Workers, NEW b \in Bookings, NEW pc \in PCs, Begin(w, b, pc)
  PROVE  /\ Only(w) /\ call' \in [Workers -> Calls]
         /\ call'[w].pc = pc /\ call'[w].booking = b
         /\ call[w].pc = "idle"
         /\ Serial => \A v \in Workers : call[v].booking # b
  BY DEF TypeOK, Begin, Calls, Only, Idle, PCs, NoSaga, SagaStatus, Steps

(* A failure is counted and its kind remembered.                           *)
LEMMA FaultEffect ==
  ASSUME TypeOK, NEW k, Fault(k)
  PROVE  /\ faults' \in [left : 0..MaxFaults, kinds : SUBSET Faults]
         /\ faults'.kinds = faults.kinds \cup {k}
         /\ k \in faults'.kinds
         /\ faults.kinds \subseteq faults'.kinds
  <1>1. /\ faults.left \in 0..MaxFaults /\ faults.kinds \in SUBSET Faults
        /\ k \in Faults /\ faults.left > 0
        /\ faults' = [left |-> faults.left - 1, kinds |-> faults.kinds \cup {k}]
    BY DEF TypeOK, Fault
  <1>2. faults.left - 1 \in 0..MaxFaults
    BY <1>1, ConstantsAssumption DEF ConstantsAssumption
  <1> QED  BY <1>1, <1>2

(* StoreEvents adds a row for each of the types.                           *)
LEMMA StoreEventsEffect ==
  ASSUME TypeOK, NEW b \in Bookings, NEW types, StoreEvents(b, types)
  PROVE  /\ outbox' \in [Bookings -> [EventTypes -> Nat]]
         /\ \A e \in EventTypes : e \in types => outbox'[b][e] = outbox[b][e] + 1
         /\ \A e \in EventTypes : e \notin types => outbox'[b][e] = outbox[b][e]
         /\ \A c \in Bookings \ {b} : outbox'[c] = outbox[c]
  <1>1. outbox \in [Bookings -> [EventTypes -> Nat]]
    BY DEF TypeOK
  <1>2. outbox' = [outbox EXCEPT ![b] = [e \in EventTypes |->
                     IF e \in types THEN outbox[b][e] + 1 ELSE outbox[b][e]]]
    BY DEF StoreEvents
  <1>3. [e \in EventTypes |-> IF e \in types THEN outbox[b][e] + 1 ELSE outbox[b][e]]
          \in [EventTypes -> Nat]
    BY <1>1
  <1> QED  BY <1>1, <1>2, <1>3

(* What locking and releasing seats does to the bookings.  From others     *)
(* seats are only taken away.                                              *)
LockTypes ==
  /\ hold' \in [Bookings -> SUBSET Seats]
  /\ lock' \in [Bookings -> LockStates]
  /\ overtaken' \in SUBSET Seats

LEMMA LockSeatsEffect ==
  ASSUME TypeOK, NEW b \in Bookings, LockSeats(b)
  PROVE  /\ LockTypes
         /\ hold'[b] = Wants[b]
         /\ lock'[b] = IF Wants[b] = {} THEN "none" ELSE "fresh"
         /\ \A c \in Bookings \ {b} : hold'[c] = hold[c] \ Wants[b] /\ lock'[c] = lock[c]
         /\ overtaken \subseteq overtaken'
         /\ \A c \in Bookings \ {b} : Wants[b] \cap hold[c] \subseteq overtaken'
  <1>1. Wants[b] \in SUBSET Seats
    BY ConstantsAssumption DEF ConstantsAssumption
  <1>2. /\ hold' \in [Bookings -> SUBSET Seats] /\ hold'[b] = Wants[b]
        /\ \A c \in Bookings \ {b} : hold'[c] = hold[c] \ Wants[b]
    BY <1>1 DEF TypeOK, LockSeats
  <1>3. /\ lock' \in [Bookings -> LockStates]
        /\ lock'[b] = IF Wants[b] = {} THEN "none" ELSE "fresh"
        /\ \A c \in Bookings \ {b} : lock'[c] = lock[c]
    BY DEF TypeOK, LockSeats, LockStates
  <1>4. overtaken' = overtaken \cup {s \in Wants[b] : \E c \in Bookings \ {b} : s \in hold[c]}
    BY DEF LockSeats
  <1>5. overtaken' \in SUBSET Seats
    BY <1>1, <1>4 DEF TypeOK
  <1> QED  BY <1>2, <1>3, <1>4, <1>5 DEF LockTypes

LEMMA ReleaseSeatsEffect ==
  ASSUME TypeOK, NEW b \in Bookings, ReleaseSeats(b)
  PROVE  /\ LockTypes
         /\ lock'[b] = "none" /\ \A c \in Bookings \ {b} : lock'[c] = lock[c]
         /\ lock[b] = "none" => hold' = hold
         /\ lock[b] # "none" => \A c \in Bookings : hold'[c] = hold[c] \ Wants[b]
         /\ overtaken' = overtaken
  BY DEF TypeOK, ReleaseSeats, LockStates, LockTypes

LEMMA UpdateBookingEffect ==
  ASSUME TypeOK, NEW b \in Bookings, NEW status \in BookingStatus, UpdateBooking(b, status)
  PROVE  /\ booking' \in [Bookings -> BookingStatus]
         /\ booking[b] = "none" => booking'[b] = "none"
         /\ booking[b] # "none" => booking'[b] = status
         /\ \A c \in Bookings \ {b} : booking'[c] = booking[c]
  BY DEF TypeOK, UpdateBooking, BookingStatus

-----------------------------------------------------------------------------
(* Type correctness.  A busy call is about a booking, which is what keeps  *)
(* the rows it reads and writes inside their tables.                       *)
Typed == TypeOK /\ Placed

LEMMA InitTyped == Init => Typed
  BY ConstantsAssumption DEF ConstantsAssumption, Init, Typed, TypeOK, Placed,
     Idle, NoSaga, BookingStatus, SagaStatus, Steps, PCs, LockStates

(* A step of one call that keeps the other variables' types.               *)
LEMMA StepTyped ==
  ASSUME Typed, NEW w \in Workers, Only(w), call' \in [Workers -> Calls],
         call'[w].pc = "idle" <=> call'[w].booking = "none",
         booking' \in [Bookings -> BookingStatus],
         expired' \in [Bookings -> BOOLEAN],
         saga' \in [Bookings -> [status : SagaStatus, step : Steps]],
         outbox' \in [Bookings -> [EventTypes -> Nat]],
         LockTypes,
         intent' \in [Bookings -> {"none", "created", "paid"}],
         faults' \in [left : 0..MaxFaults, kinds : SUBSET Faults],
         revived' \in SUBSET Bookings
  PROVE  Typed'
  <1>1. TypeOK'
    BY DEF TypeOK, Calls, LockTypes
  <1>2. Placed'
    BY DEF Typed, Placed, Only
  <1> QED  BY <1>1, <1>2 DEF Typed

LEMMA BusyBooking ==
  ASSUME Typed, NEW w \in Workers, call[w].pc # "idle"
  PROVE  call[w].booking \in Bookings /\ call[w].booking # "none"
  BY DEF Typed, TypeOK, Placed

LEMMA StatesTyped ==
  /\ State("INITIATED", 0) \in [status : SagaStatus, step : Steps]
  /\ State("INITIATED", 1) \in [status : SagaStatus, step : Steps]
  /\ State("SEATS_LOCKED", 2) \in [status : SagaStatus, step : Steps]
  /\ State("FLIGHT_RESERVED", 3) \in [status : SagaStatus, step : Steps]
  /\ State("BOOKING_CONFIRMED", 6) \in [status : SagaStatus, step : Steps]
  /\ \A s \in [status : SagaStatus, step : Steps] :
       State("COMPENSATED", s.step) \in [status : SagaStatus, step : Steps]
  BY DEF State, SagaStatus, Steps

LEMMA CreateTyped ==
  ASSUME Typed, NEW w \in Workers, Create(w)
  PROVE  Typed'
  <1> DEFINE b == call[w].booking
  <1> USE DEF Typed, locks
  <1>1. ASSUME NEW c \in Bookings, CreateSaga(w, c)  PROVE Typed'
    <2>1. /\ Only(w) /\ call' \in [Workers -> Calls]
          /\ call'[w].pc # "idle" /\ call'[w].booking # "none"
      BY <1>1, ConstantsAssumption, StatesTyped
         DEF ConstantsAssumption, CreateSaga, TypeOK, Calls, Only, Idle, PCs
    <2>2. saga' \in [Bookings -> [status : SagaStatus, step : Steps]]
      BY <1>1, StatesTyped DEF CreateSaga, TypeOK
    <2> QED  BY <1>1, <2>1, <2>2, StepTyped DEF LockTypes, CreateSaga, TypeOK
  <1>2. CASE Step1(w)
    <2>1. /\ call[w].pc = "step1" /\ b \in Bookings
          /\ StoreEvents(b, {"booking.created"})
          /\ GotoWith(w, "step2_lock", State("INITIATED", 1))
      BY <1>2, BusyBooking DEF Step1
    <2>2. /\ saga' \in [Bookings -> [status : SagaStatus, step : Steps]]
          /\ booking' \in [Bookings -> BookingStatus]
      BY <1>2, StatesTyped DEF Step1, TypeOK, BookingStatus
    <2>3. outbox' \in [Bookings -> [EventTypes -> Nat]]
      BY <2>1, StoreEventsEffect
    <2>4. /\ Only(w) /\ call' \in [Workers -> Calls]
          /\ call'[w].pc = "step2_lock" /\ call'[w].booking = b
      BY <2>1, GotoWithEffect, StatesTyped DEF PCs
    <2> QED
      BY <1>2, <2>1, <2>2, <2>3, <2>4, BusyBooking, StepTyped DEF LockTypes, Step1, TypeOK
  <1>3. CASE Step1Fails(w)
    BY <1>3, ReturnEffect, FaultEffect, StepTyped DEF LockTypes, Step1Fails, TypeOK
  <1>4. CASE Step2Lock(w)
    <2>1. /\ call[w].pc = "step2_lock" /\ b \in Bookings /\ b # "none"
          /\ LockSeats(b) /\ Goto(w, "step2_save")
      BY <1>4, BusyBooking DEF Step2Lock
    <2>2. LockTypes
      BY <2>1, LockSeatsEffect
    <2>3. /\ Only(w) /\ call' \in [Workers -> Calls]
          /\ call'[w].pc = "step2_save" /\ call'[w].booking = b
      BY <2>1, GotoEffect DEF PCs
    <2> QED
      BY <1>4, <2>1, <2>2, <2>3, StepTyped DEF LockTypes, Step2Lock, TypeOK
  <1>5. CASE Step2Refused(w)
    BY <1>5, GotoEffect, BusyBooking, StepTyped DEF LockTypes, Step2Refused, TypeOK, PCs
  <1>6. CASE Step2LockFails(w)
    <2>1. call[w].pc = "step2_lock" /\ Goto(w, "compensate")
      BY <1>6 DEF Step2LockFails
    <2>2. LockTypes
      BY <1>6, <2>1, BusyBooking, LockSeatsEffect DEF Step2LockFails, LockTypes, TypeOK
    <2>3. faults' \in [left : 0..MaxFaults, kinds : SUBSET Faults]
      BY <1>6, FaultEffect DEF Step2LockFails
    <2>4. /\ Only(w) /\ call' \in [Workers -> Calls]
          /\ call'[w].pc = "compensate" /\ call'[w].booking = b
      BY <2>1, GotoEffect DEF PCs
    <2> QED
      BY <1>6, <2>1, <2>2, <2>3, <2>4, BusyBooking, StepTyped
         DEF LockTypes, Step2LockFails, TypeOK
  <1>7. CASE Step2Save(w)
    <2>1. saga' \in [Bookings -> [status : SagaStatus, step : Steps]]
      BY <1>7, StatesTyped DEF Step2Save, TypeOK
    <2>2. /\ Only(w) /\ call' \in [Workers -> Calls]
          /\ call'[w].pc = "step3" /\ call'[w].booking = b
      BY <1>7, GotoWithEffect, StatesTyped DEF Step2Save, PCs
    <2> QED
      BY <1>7, <2>1, <2>2, BusyBooking, StepTyped DEF LockTypes, Step2Save, TypeOK
  <1>8. CASE Step2SaveFails(w)
    <2>1. /\ Only(w) /\ call' \in [Workers -> Calls]
          /\ call'[w].pc = "compensate" /\ call'[w].booking = b
      BY <1>8, GotoWithEffect, StatesTyped DEF Step2SaveFails, PCs
    <2> QED
      BY <1>8, <2>1, BusyBooking, FaultEffect, StepTyped DEF LockTypes, Step2SaveFails, TypeOK
  <1>9. CASE Step3(w)
    <2>1. /\ call[w].pc = "step3" /\ b \in Bookings
          /\ StoreEvents(b, {"flight.reserve-seats"}) /\ UpdateBooking(b, "PENDING")
          /\ GotoWith(w, "reload", State("FLIGHT_RESERVED", 3))
      BY <1>9, BusyBooking DEF Step3
    <2>2. saga' \in [Bookings -> [status : SagaStatus, step : Steps]]
      BY <1>9, StatesTyped DEF Step3, TypeOK
    <2>3. booking' \in [Bookings -> BookingStatus]
      BY <2>1, UpdateBookingEffect DEF BookingStatus
    <2>4. outbox' \in [Bookings -> [EventTypes -> Nat]]
      BY <2>1, StoreEventsEffect
    <2>5. /\ Only(w) /\ call' \in [Workers -> Calls]
          /\ call'[w].pc = "reload" /\ call'[w].booking = b
      BY <2>1, GotoWithEffect, StatesTyped DEF PCs
    <2> QED
      BY <1>9, <2>1, <2>2, <2>3, <2>4, <2>5, BusyBooking, StepTyped DEF LockTypes, Step3, TypeOK
  <1>10. CASE Step3Fails(w)
    <2>1. /\ Only(w) /\ call' \in [Workers -> Calls]
          /\ call'[w].pc = "compensate" /\ call'[w].booking = b
      <3>1. CASE Goto(w, "compensate")
        BY <3>1, GotoEffect DEF PCs
      <3>2. CASE GotoWith(w, "compensate", State("FLIGHT_RESERVED", 3))
        BY <3>2, GotoWithEffect, StatesTyped DEF PCs
      <3> QED  BY <1>10, <3>1, <3>2 DEF Step3Fails
    <2> QED
      BY <1>10, <2>1, BusyBooking, FaultEffect, StepTyped DEF LockTypes, Step3Fails, TypeOK
  <1>11. CASE PaymentIntent(w)
    BY <1>11, ReturnEffect, StepTyped DEF LockTypes, PaymentIntent, TypeOK
  <1>12. CASE PaymentIntentFails(w)
    <2>1. intent' \in [Bookings -> {"none", "created", "paid"}]
      BY <1>12 DEF PaymentIntentFails, TypeOK
    <2> QED
      BY <1>12, <2>1, GotoEffect, BusyBooking, FaultEffect, StepTyped
         DEF LockTypes, PaymentIntentFails, TypeOK, PCs
  <1>13. CASE MockPayment(w)
    <2>1. /\ Only(w) /\ call' \in [Workers -> Calls]
          /\ call'[w].pc = "complete_find" /\ call'[w].booking = call[w].booking
      <3>1. call \in [Workers -> Calls]
        BY DEF TypeOK, Calls
      <3>2. call' = [call EXCEPT ![w] = [call[w] EXCEPT !.pc = "complete_find", !.auto = TRUE]]
        BY <1>13, <3>1 DEF MockPayment
      <3>3. [call[w] EXCEPT !.pc = "complete_find", !.auto = TRUE] \in Calls
        BY <3>1 DEF Calls, PCs
      <3> QED  BY <3>1, <3>2, <3>3 DEF Only, Calls
    <2> QED  BY <1>13, <2>1, BusyBooking, StepTyped DEF LockTypes, MockPayment, TypeOK
  <1>14. CASE Reload(w)
    BY <1>14, GotoEffect, BusyBooking, StepTyped DEF LockTypes, Reload, TypeOK, PCs
  <1>15. CASE ReloadFails(w)
    BY <1>15, ReturnEffect, FaultEffect, StepTyped DEF LockTypes, ReloadFails, TypeOK
  <1> QED
    BY <1>1, <1>2, <1>3, <1>4, <1>5, <1>6, <1>7, <1>8, <1>9, <1>10, <1>11, <1>12, <1>13,
       <1>14, <1>15 DEF Create

LEMMA AbortCompleteEffect ==
  ASSUME Typed, NEW w \in Workers, call[w].pc # "idle", AbortComplete(w)
  PROVE  /\ Only(w) /\ call' \in [Workers -> Calls]
         /\ \/ /\ call[w].auto
               /\ call'[w].pc = "cancel_find" /\ call'[w].booking = call[w].booking
            \/ /\ ~call[w].auto
               /\ call'[w].pc = "idle" /\ call'[w].booking = "none"
  <1>1. CASE call[w].auto
    BY <1>1, GotoEffect DEF AbortComplete, PCs, Typed
  <1>2. CASE ~call[w].auto
    BY <1>2, ReturnEffect DEF AbortComplete, Typed
  <1> QED  BY <1>1, <1>2

LEMMA BeginTyped ==
  ASSUME Typed, NEW w \in Workers, NEW b \in Bookings, NEW pc \in PCs \ {"idle"},
         Begin(w, b, pc),
         UNCHANGED <<booking, expired, saga, outbox, locks, intent, faults, revived>>
  PROVE  Typed'
  <1>1. Only(w)
    BY BeginEffect DEF Typed
  <1>2. call' \in [Workers -> Calls]
    BY BeginEffect DEF Typed
  <1>3. call'[w].pc = pc
    BY BeginEffect DEF Typed
  <1>4. call'[w].booking = b
    BY BeginEffect DEF Typed
  <1>5. b # "none"
    BY ConstantsAssumption DEF ConstantsAssumption
  <1> QED  BY <1>1, <1>2, <1>3, <1>4, <1>5, StepTyped DEF Typed, TypeOK, LockTypes, locks

LEMMA CompletionTyped ==
  ASSUME Typed, NEW w \in Workers, Completion(w)
  PROVE  Typed'
  <1> DEFINE b == call[w].booking
  <1> USE DEF Typed, locks
  <1>1. ASSUME NEW c \in Bookings, StartComplete(w, c)  PROVE Typed'
    BY <1>1, BeginTyped DEF StartComplete, PCs
  <1>2. CASE CompleteFind(w)
    <2>1. saga[b] \in [status : SagaStatus, step : Steps]
      BY <1>2, BusyBooking DEF CompleteFind, TypeOK
    <2>2. CASE Return(w)
      BY <1>2, <2>2, ReturnEffect, StepTyped DEF LockTypes, CompleteFind, TypeOK
    <2>3. CASE GotoWith(w, "complete_tx", saga[b])
      <3>1. /\ Only(w) /\ call' \in [Workers -> Calls]
            /\ call'[w].pc = "complete_tx" /\ call'[w].booking = b
        BY <2>1, <2>3, GotoWithEffect DEF PCs
      <3> QED  BY <1>2, <3>1, BusyBooking, StepTyped DEF LockTypes, CompleteFind, TypeOK
    <2> QED  BY <1>2, <2>2, <2>3 DEF CompleteFind
  <1>3. CASE Complete(w)
    <2>1. /\ call[w].pc = "complete_tx" /\ b \in Bookings
          /\ StoreEvents(b, {"flight.confirm-seats", "booking.confirmed"})
          /\ UpdateBooking(b, "BOOKED") /\ Goto(w, "complete_release")
      BY <1>3, BusyBooking DEF Complete
    <2>2. /\ saga' \in [Bookings -> [status : SagaStatus, step : Steps]]
          /\ expired' \in [Bookings -> BOOLEAN]
      BY <1>3, StatesTyped DEF Complete, TypeOK
    <2>3. booking' \in [Bookings -> BookingStatus]
      BY <2>1, UpdateBookingEffect DEF BookingStatus
    <2>4. outbox' \in [Bookings -> [EventTypes -> Nat]]
      BY <2>1, StoreEventsEffect
    <2>5. /\ Only(w) /\ call' \in [Workers -> Calls]
          /\ call'[w].pc = "complete_release" /\ call'[w].booking = b
      BY <2>1, GotoEffect DEF PCs
    <2> QED
      BY <1>3, <2>1, <2>2, <2>3, <2>4, <2>5, BusyBooking, StepTyped DEF LockTypes, Complete, TypeOK
  <1>4. CASE CompleteFails(w)
    BY <1>4, AbortCompleteEffect, BusyBooking, FaultEffect, StepTyped DEF LockTypes, CompleteFails, TypeOK
  <1>5. CASE CompleteRelease(w)
    BY <1>5, ReturnEffect, ReleaseSeatsEffect, BusyBooking, StepTyped DEF LockTypes, CompleteRelease, TypeOK
  <1>6. CASE CompleteReleaseFails(w)
    <2>1. call[w].pc = "complete_release" /\ AbortComplete(w)
      BY <1>6 DEF CompleteReleaseFails
    <2>2. LockTypes
      BY <1>6, <2>1, BusyBooking, ReleaseSeatsEffect DEF CompleteReleaseFails, LockTypes, TypeOK
    <2>3. faults' \in [left : 0..MaxFaults, kinds : SUBSET Faults]
      BY <1>6, FaultEffect DEF CompleteReleaseFails
    <2> QED
      BY <1>6, <2>1, <2>2, <2>3, AbortCompleteEffect, BusyBooking, StepTyped
         DEF LockTypes, CompleteReleaseFails, TypeOK
  <1> QED  BY <1>1, <1>2, <1>3, <1>4, <1>5, <1>6 DEF Completion

LEMMA CancellationTyped ==
  ASSUME Typed, NEW w \in Workers, Cancellation(w)
  PROVE  Typed'
  <1> DEFINE b == call[w].booking
  <1> USE DEF Typed, locks
  <1>1. ASSUME NEW c \in Bookings, StartCancel(w, c)  PROVE Typed'
    BY <1>1, BeginTyped DEF StartCancel, PCs
  <1>2. CASE CancelFind(w)
    <2>1. saga[b] \in [status : SagaStatus, step : Steps]
      BY <1>2, BusyBooking DEF CancelFind, TypeOK
    <2>2. /\ Only(w) /\ call' \in [Workers -> Calls]
          /\ call'[w].pc = "compensate" /\ call'[w].booking = b
      BY <1>2, <2>1, GotoWithEffect DEF CancelFind, PCs
    <2> QED
      BY <1>2, <2>2, BusyBooking, StepTyped DEF LockTypes, CancelFind, TypeOK
  <1>3. CASE Compensated(w)
    BY <1>3, ReturnEffect, StepTyped DEF LockTypes, Compensated, TypeOK
  <1>4. CASE CompensateLocks(w)
    <2>1. call[w].pc = "compensate" /\ Goto(w, "compensate_tx")
      BY <1>4 DEF CompensateLocks
    <2>2. LockTypes
      BY <1>4, <2>1, BusyBooking, ReleaseSeatsEffect DEF CompensateLocks, LockTypes, TypeOK
    <2>3. /\ Only(w) /\ call' \in [Workers -> Calls]
          /\ call'[w].pc = "compensate_tx" /\ call'[w].booking = b
      BY <2>1, GotoEffect DEF PCs
    <2> QED
      BY <1>4, <2>1, <2>2, <2>3, BusyBooking, StepTyped DEF LockTypes, CompensateLocks, TypeOK
  <1>5. CASE CompensateCommit(w)
    <2>1. /\ call[w].pc = "compensate_tx" /\ b \in Bookings /\ Return(w)
          /\ StoreEvents(b, IF call[w].sagaState.step >= 3 THEN {"flight.release-seats"} ELSE {})
          /\ UpdateBooking(b, "CANCELLED")
          /\ saga' = [saga EXCEPT ![b] = State("COMPENSATED", call[w].sagaState.step)]
      BY <1>5, BusyBooking DEF CompensateCommit
    <2>2. call[w].sagaState \in [status : SagaStatus, step : Steps]
      BY DEF TypeOK
    <2>3. saga' \in [Bookings -> [status : SagaStatus, step : Steps]]
      BY <2>1, <2>2, StatesTyped DEF TypeOK
    <2>4. booking' \in [Bookings -> BookingStatus]
      BY <2>1, UpdateBookingEffect DEF BookingStatus
    <2>5. outbox' \in [Bookings -> [EventTypes -> Nat]]
      BY <2>1, StoreEventsEffect
    <2> QED
      BY <1>5, <2>1, <2>3, <2>4, <2>5, ReturnEffect, StepTyped DEF LockTypes, CompensateCommit, TypeOK
  <1>6. CASE CompensateFails(w)
    BY <1>6, ReturnEffect, FaultEffect, StepTyped DEF LockTypes, CompensateFails, TypeOK
  <1> QED  BY <1>1, <1>2, <1>3, <1>4, <1>5, <1>6 DEF Cancellation

LEMMA ExtensionTyped ==
  ASSUME Typed, NEW w \in Workers, Extension(w)
  PROVE  Typed'
  <1> USE DEF Typed, locks
  <1>1. ASSUME NEW c \in Bookings, StartExtend(w, c)  PROVE Typed'
    BY <1>1, BeginTyped DEF StartExtend, PCs
  <1>2. CASE ExtendLock(w)
    <2>1. call[w].pc = "extend_lock" /\ call[w].booking \in Bookings
      BY <1>2, BusyBooking DEF ExtendLock
    <2>2. lock' \in [Bookings -> LockStates]
      BY <1>2 DEF ExtendLock, TypeOK, LockStates
    <2>3. LockTypes
      BY <1>2, <2>2 DEF LockTypes, ExtendLock, TypeOK
    <2>4. CASE Return(w)
      BY <1>2, <2>3, <2>4, ReturnEffect, StepTyped DEF LockTypes, ExtendLock, TypeOK
    <2>5. CASE Goto(w, "extend_save")
      <3>1. /\ Only(w) /\ call' \in [Workers -> Calls]
            /\ call'[w].pc = "extend_save" /\ call'[w].booking = call[w].booking
        BY <2>1, <2>5, GotoEffect DEF PCs
      <3> QED
        BY <1>2, <2>1, <2>3, <3>1, BusyBooking, StepTyped DEF LockTypes, ExtendLock, TypeOK
    <2> QED  BY <1>2, <2>4, <2>5 DEF ExtendLock
  <1>3. CASE ExtendSave(w)
    <2>1. expired' \in [Bookings -> BOOLEAN]
      BY <1>3 DEF ExtendSave, TypeOK
    <2> QED  BY <1>3, <2>1, ReturnEffect, StepTyped DEF LockTypes, ExtendSave, TypeOK
  <1> QED  BY <1>1, <1>2, <1>3 DEF Extension

LEMMA NextTyped ==
  ASSUME Typed, [Next]_vars
  PROVE  Typed'
  <1>1. ASSUME NEW w \in Workers, Crash(w)  PROVE Typed'
    BY <1>1, ReturnEffect, FaultEffect, StepTyped DEF LockTypes, locks, Crash, TypeOK, Typed
  <1> USE DEF locks
  <1>2. ASSUME NEW b \in Bookings, Pay(b) \/ BookingExpires(b) \/ LockLapses(b) \/ LockExpires(b)
        PROVE  Typed'
    <2>1. CASE Pay(b)
      BY <2>1 DEF Pay, Typed, TypeOK, Placed
    <2>2. CASE BookingExpires(b)
      BY <2>2 DEF BookingExpires, Typed, TypeOK, Placed
    <2>3. CASE LockExpires(b)
      BY <2>3 DEF LockExpires, Typed, TypeOK, Placed, LockStates
    <2>4. CASE LockLapses(b)
      BY <2>4 DEF LockLapses, Typed, TypeOK, Placed, LockStates
    <2> QED  BY <1>2, <2>1, <2>2, <2>3, <2>4
  <1>3. CASE UNCHANGED vars
    BY <1>3 DEF vars, Typed, TypeOK, Placed
  <1> QED
    BY <1>1, <1>2, <1>3, CreateTyped, CompletionTyped, CancellationTyped, ExtensionTyped DEF Next

(* Every variable keeps its type, whatever the calls, the customers, the   *)
(* clock and the failures do.                                              *)
THEOREM TypeCorrect == Spec => []TypeOK
  <1>1. Init => Typed
    BY InitTyped
  <1>2. Typed /\ [Next]_vars => Typed'
    BY NextTyped
  <1>3. Typed => TypeOK
    BY DEF Typed
  <1> QED  BY <1>1, <1>2, <1>3, PTL DEF Spec

-----------------------------------------------------------------------------
(* The keys of the seat lock, however calls overlap: nobody holds a seat   *)
(* that another holds, nor one it did not ask for, and who has a booking   *)
(* key holds the seats it lists, but for those that were taken over.       *)
Locked ==
  /\ \A b \in Bookings :
       /\ hold[b] \subseteq Wants[b]
       /\ lock[b] = "none" => hold[b] = {}
       /\ lock[b] # "none" => Wants[b] \ overtaken \subseteq hold[b]
       /\ lock[b] \in {"extended", "lapsed"} => b \in Extenders
  /\ \A b, c \in Bookings : b # c => hold[b] \cap hold[c] = {}
  /\ \A w \in Workers : call[w].pc \in {"extend_lock", "extend_save"} => call[w].booking \in Extenders
  /\ Extenders = {} => overtaken = {}

LEMMA InitLocked == Init => Locked
  BY ConstantsAssumption DEF ConstantsAssumption, Init, Locked, Idle

(* What a lock or a release of b leaves of the keys of another booking.    *)
KeysOfOthers(b) ==
  \A c \in Bookings \ {b} :
    /\ lock'[c] = lock[c] /\ hold'[c] \subseteq hold[c]
    /\ hold[c] \ overtaken' \subseteq hold'[c]
    /\ Wants[c] \cap overtaken' = {} => hold'[c] = hold[c]

LEMMA LockSeatsKeeps ==
  ASSUME Typed, Locked, NEW b \in Bookings, LockSeats(b)
  PROVE  hold'[b] = Wants[b] /\ overtaken \subseteq overtaken' /\ KeysOfOthers(b)
  <1>1. /\ hold'[b] = Wants[b] /\ overtaken \subseteq overtaken'
        /\ \A c \in Bookings \ {b} : hold'[c] = hold[c] \ Wants[b] /\ lock'[c] = lock[c]
        /\ \A c \in Bookings \ {b} : Wants[b] \cap hold[c] \subseteq overtaken'
    BY LockSeatsEffect DEF Typed
  <1>2. \A c \in Bookings \ {b} : hold[c] \ overtaken' \subseteq hold'[c]
    BY <1>1
  <1>3. \A c \in Bookings \ {b} : Wants[c] \cap overtaken' = {} => hold'[c] = hold[c]
    <2> SUFFICES ASSUME NEW c \in Bookings \ {b}, Wants[c] \cap overtaken' = {}
                 PROVE  hold'[c] = hold[c]
      OBVIOUS
    <2>1. hold'[c] \subseteq hold[c] /\ hold[c] \ overtaken' \subseteq hold'[c]
      BY <1>1, <1>2
    <2>2. hold[c] \subseteq Wants[c]
      BY DEF Locked
    <2> QED  BY <2>1, <2>2
  <1> QED  BY <1>1, <1>2, <1>3 DEF KeysOfOthers

LEMMA ReleaseSeatsKeeps ==
  ASSUME Typed, Locked, NEW b \in Bookings, ReleaseSeats(b)
  PROVE  hold'[b] = {} /\ overtaken' = overtaken /\ KeysOfOthers(b)
  <1>1. /\ \A c \in Bookings \ {b} : lock'[c] = lock[c]
        /\ lock[b] = "none" => hold' = hold
        /\ lock[b] # "none" => \A c \in Bookings : hold'[c] = hold[c] \ Wants[b]
        /\ overtaken' = overtaken
    BY ReleaseSeatsEffect DEF Typed
  <1>2. hold'[b] = {}
    BY <1>1 DEF Locked
  <1>3. \A c \in Bookings : hold'[c] \subseteq hold[c]
    BY <1>1
  <1>4. ASSUME NEW c \in Bookings \ {b}  PROVE hold[c] \ overtaken \subseteq hold'[c]
    <2>1. CASE lock[b] = "none"
      BY <1>1, <2>1
    <2>2. CASE lock[b] # "none"
      <3>1. Wants[b] \ overtaken \subseteq hold[b] /\ hold[b] \cap hold[c] = {}
        BY <2>2 DEF Locked
      <3> QED  BY <1>1, <2>2, <3>1
    <2> QED  BY <2>1, <2>2
  <1>5. \A c \in Bookings \ {b} : Wants[c] \cap overtaken' = {} => hold'[c] = hold[c]
    <2> SUFFICES ASSUME NEW c \in Bookings \ {b}, Wants[c] \cap overtaken' = {}
                 PROVE  hold'[c] = hold[c]
      OBVIOUS
    <2>1. hold'[c] \subseteq hold[c] /\ hold[c] \ overtaken' \subseteq hold'[c]
      BY <1>1, <1>3, <1>4
    <2>2. hold[c] \subseteq Wants[c]
      BY DEF Locked
    <2> QED  BY <2>1, <2>2
  <1> QED  BY <1>1, <1>2, <1>3, <1>4, <1>5 DEF KeysOfOthers

(* The keys stay in order.                                                 *)
LEMMA LockSeatsLocked ==
  ASSUME Typed, Locked, NEW b \in Bookings, LockSeats(b),
         \A w \in Workers : call'[w].pc \in {"extend_lock", "extend_save"} =>
           call'[w].booking \in Extenders
  PROVE  Locked'
  <1>1. /\ hold'[b] = Wants[b] /\ overtaken \subseteq overtaken' /\ KeysOfOthers(b)
        /\ lock'[b] = IF Wants[b] = {} THEN "none" ELSE "fresh"
        /\ \A c \in Bookings \ {b} : hold'[c] = hold[c] \ Wants[b]
    BY LockSeatsEffect, LockSeatsKeeps DEF Typed
  <1>2. ASSUME NEW c \in Bookings
        PROVE  /\ hold'[c] \subseteq Wants[c]
               /\ lock'[c] = "none" => hold'[c] = {}
               /\ lock'[c] # "none" => Wants[c] \ overtaken' \subseteq hold'[c]
               /\ lock'[c] \in {"extended", "lapsed"} => c \in Extenders
    <2>1. CASE c = b
      BY <1>1, <2>1
    <2>2. CASE c # b
      BY <1>1, <2>2 DEF Locked, KeysOfOthers
    <2> QED  BY <2>1, <2>2
  <1>3. \A c, d \in Bookings : c # d => hold'[c] \cap hold'[d] = {}
    BY <1>1 DEF Locked
  <1>4. Extenders = {} => overtaken' = {}
    <2> SUFFICES ASSUME Extenders = {}  PROVE overtaken' = {}
      OBVIOUS
    <2>1. \A c \in Bookings : lock[c] # "lapsed"
      BY DEF Locked
    <2>2. \A c \in Bookings \ {b} : hold[c] \cap Wants[b] = {}
      BY <2>1 DEF LockSeats, Available
    <2> QED  BY <2>2 DEF Locked, LockSeats
  <1> QED  BY <1>2, <1>3, <1>4 DEF Locked

LEMMA ReleaseSeatsLocked ==
  ASSUME Typed, Locked, NEW b \in Bookings, ReleaseSeats(b),
         \A w \in Workers : call'[w].pc \in {"extend_lock", "extend_save"} =>
           call'[w].booking \in Extenders
  PROVE  Locked'
  <1>1. hold'[b] = {} /\ overtaken' = overtaken /\ KeysOfOthers(b) /\ lock'[b] = "none"
    BY ReleaseSeatsEffect, ReleaseSeatsKeeps DEF Typed
  <1>2. \A c \in Bookings : hold'[c] \subseteq hold[c]
    BY <1>1 DEF KeysOfOthers
  <1>3. ASSUME NEW c \in Bookings
        PROVE  /\ hold'[c] \subseteq Wants[c]
               /\ lock'[c] = "none" => hold'[c] = {}
               /\ lock'[c] # "none" => Wants[c] \ overtaken' \subseteq hold'[c]
               /\ lock'[c] \in {"extended", "lapsed"} => c \in Extenders
    <2>1. CASE c = b
      BY <1>1, <2>1
    <2>2. CASE c # b
      BY <1>1, <2>2 DEF Locked, KeysOfOthers
    <2> QED  BY <2>1, <2>2
  <1>4. \A c, d \in Bookings : c # d => hold'[c] \cap hold'[d] = {}
    BY <1>2 DEF Locked
  <1> QED  BY <1>1, <1>3, <1>4 DEF Locked

(* A step that leaves the keys alone, and brings no stranger to extend.    *)
LEMMA KeysKept ==
  ASSUME Locked, UNCHANGED locks,
         \A w \in Workers : call'[w].pc \in {"extend_lock", "extend_save"} =>
           call'[w].booking \in Extenders
  PROVE  Locked'
  BY DEF Locked, locks

(* Only the user of a booking extends its lock.                            *)
LEMMA ExtendersOnly ==
  ASSUME Typed, Locked, [Next]_vars, NEW w \in Workers,
         call'[w].pc \in {"extend_lock", "extend_save"}
  PROVE  call'[w].booking \in Extenders
  <1> DEFINE Kept == call'[w].booking \in Extenders
  <1>1. /\ call \in [Workers -> Calls]
        /\ \A v \in Workers : call[v].pc \in {"extend_lock", "extend_save"} =>
             call[v].booking \in Extenders
    BY DEF Typed, TypeOK, Calls, Locked
  <1>2. ASSUME NEW v \in Workers, NEW pc \in PCs \ {"extend_lock", "extend_save"}, Goto(v, pc)
        PROVE  Kept
    BY <1>1, <1>2 DEF Goto, Calls
  <1>3. ASSUME NEW v \in Workers, NEW pc \in PCs \ {"extend_lock", "extend_save"}, NEW s,
               GotoWith(v, pc, s)
        PROVE  Kept
    BY <1>1, <1>3 DEF GotoWith, Calls
  <1>4. ASSUME NEW v \in Workers, Return(v)  PROVE Kept
    BY <1>1, <1>4 DEF Return, Idle, Calls
  <1>5. ASSUME NEW v \in Workers, NEW b, NEW pc \in PCs, Begin(v, b, pc),
               pc \in {"extend_lock", "extend_save"} => b \in Extenders
        PROVE  Kept
    BY <1>1, <1>5 DEF Begin, Idle, Calls
  <1>6. ASSUME NEW v \in Workers, Extension(v)  PROVE Kept
    <2>1. ASSUME NEW b \in Bookings, StartExtend(v, b)  PROVE Kept
      BY <1>5, <2>1 DEF StartExtend, PCs
    <2>2. CASE ExtendLock(v)
      <3>1. call[v].booking \in Extenders
        BY <1>1, <2>2 DEF ExtendLock
      <3>2. CASE Goto(v, "extend_save")
        BY <1>1, <3>1, <3>2 DEF Goto, Calls
      <3> QED  BY <1>4, <2>2, <3>2 DEF ExtendLock
    <2>3. CASE ExtendSave(v)
      BY <1>4, <2>3 DEF ExtendSave
    <2> QED  BY <1>6, <2>1, <2>2, <2>3 DEF Extension
  <1>7. ASSUME NEW v \in Workers, Create(v)  PROVE Kept
    <2>1. ASSUME NEW b \in Bookings, CreateSaga(v, b)  PROVE Kept
      BY <1>1, <2>1 DEF CreateSaga, Idle, Calls
    <2>2. CASE MockPayment(v)
      BY <1>1, <2>2 DEF MockPayment, Calls
    <2>3. CASE Step1(v) \/ Step1Fails(v) \/ Step2Lock(v) \/ Step2Refused(v) \/ Step2LockFails(v)
      BY <1>2, <1>3, <1>4, <2>3
         DEF Step1, Step1Fails, Step2Lock, Step2Refused, Step2LockFails, PCs
    <2>4. CASE \/ Step2Save(v) \/ Step2SaveFails(v) \/ Step3(v) \/ Step3Fails(v)
               \/ Reload(v) \/ ReloadFails(v) \/ PaymentIntent(v) \/ PaymentIntentFails(v)
      BY <1>2, <1>3, <1>4, <2>4
         DEF Step2Save, Step2SaveFails, Step3, Step3Fails, Reload, ReloadFails, PaymentIntent,
             PaymentIntentFails, PCs
    <2> QED  BY <1>7, <2>1, <2>2, <2>3, <2>4 DEF Create
  <1>8. ASSUME NEW v \in Workers, Completion(v)  PROVE Kept
    <2>1. ASSUME NEW b \in Bookings, StartComplete(v, b)  PROVE Kept
      BY <1>5, <2>1 DEF StartComplete, PCs
    <2> QED
      BY <1>2, <1>3, <1>4, <1>8, <2>1
         DEF Completion, CompleteFind, Complete, CompleteFails, CompleteRelease,
             CompleteReleaseFails, AbortComplete, PCs
  <1>9. ASSUME NEW v \in Workers, Cancellation(v) \/ Crash(v)  PROVE Kept
    <2>1. ASSUME NEW b \in Bookings, StartCancel(v, b)  PROVE Kept
      BY <1>5, <2>1 DEF StartCancel, PCs
    <2> QED
      BY <1>2, <1>3, <1>4, <1>9, <2>1
         DEF Cancellation, CancelFind, Compensated, CompensateLocks, CompensateCommit,
             CompensateFails, Crash, PCs
  <1>10. CASE UNCHANGED call
    BY <1>1, <1>10
  <1> QED
    BY <1>6, <1>7, <1>8, <1>9, <1>10
       DEF Next, Pay, BookingExpires, LockLapses, LockExpires, vars

(* The steps that change the keys.                                         *)
Keys(w) ==
  \/ Step2Lock(w) \/ Step2LockFails(w) \/ CompleteRelease(w) \/ CompleteReleaseFails(w)
  \/ CompensateLocks(w) \/ ExtendLock(w)

LEMMA OnlyKeys ==
  ASSUME [Next]_vars
  PROVE  \/ UNCHANGED locks
         \/ \E w \in Workers : Keys(w)
         \/ \E b \in Bookings : LockLapses(b) \/ LockExpires(b)
  BY DEF Next, Create, Completion, Cancellation, Extension, CreateSaga, Step1, Step1Fails,
         Step2Refused, Step2Save, Step2SaveFails, Step3, Step3Fails, Reload, ReloadFails,
         PaymentIntent, PaymentIntentFails, MockPayment, StartComplete, CompleteFind, Complete,
         CompleteFails, StartCancel, CancelFind, Compensated, CompensateCommit, CompensateFails,
         StartExtend, ExtendSave, Crash, Pay, BookingExpires, vars, Keys

LEMMA NextLocked ==
  ASSUME Typed, Locked, [Next]_vars
  PROVE  Locked'
  <1>1. \A w \in Workers : call'[w].pc \in {"extend_lock", "extend_save"} =>
          call'[w].booking \in Extenders
    BY ExtendersOnly
  <1>2. CASE UNCHANGED locks
    BY <1>1, <1>2, KeysKept
  <1>3. ASSUME NEW w \in Workers, Keys(w)  PROVE Locked'
    <2>1. call[w].booking \in Bookings
      BY <1>3, BusyBooking DEF Keys, Step2Lock, Step2LockFails, CompleteRelease,
         CompleteReleaseFails, CompensateLocks, ExtendLock
    <2>2. CASE ExtendLock(w)
      <3>1. /\ UNCHANGED <<hold, overtaken>> /\ call[w].booking \in Extenders
            /\ \/ lock' = lock
               \/ /\ lock[call[w].booking] # "none"
                  /\ lock' = [lock EXCEPT ![call[w].booking] = IF @ = "lapsed" THEN @ ELSE "extended"]
        BY <2>2 DEF ExtendLock, Locked
      <3>2. \A b \in Bookings :
              /\ lock'[b] = "none" <=> lock[b] = "none"
              /\ lock'[b] \in {"extended", "lapsed"} => b \in Extenders
        BY <2>1, <3>1 DEF Locked, Typed, TypeOK
      <3> QED  BY <1>1, <3>1, <3>2 DEF Locked
    <2>3. CASE LockSeats(call[w].booking)
      BY <1>1, <2>1, <2>3, LockSeatsLocked
    <2>4. CASE ReleaseSeats(call[w].booking)
      BY <1>1, <2>1, <2>4, ReleaseSeatsLocked
    <2>5. CASE UNCHANGED locks
      BY <1>1, <2>5, KeysKept
    <2> QED
      BY <1>3, <2>2, <2>3, <2>4, <2>5 DEF Keys, Step2Lock, Step2LockFails, CompleteRelease,
         CompleteReleaseFails, CompensateLocks
  <1>4. ASSUME NEW b \in Bookings, LockLapses(b)  PROVE Locked'
    BY <1>1, <1>4 DEF LockLapses, Locked, Typed, TypeOK
  <1>5. ASSUME NEW b \in Bookings, LockExpires(b)  PROVE Locked'
    BY <1>1, <1>5 DEF LockExpires, Locked, Typed, TypeOK
  <1> QED  BY <1>2, <1>3, <1>4, <1>5, OnlyKeys

LEMMA AlwaysLocked == Spec => [](Typed /\ Locked)
  <1>1. Init => Typed /\ Locked
    BY InitTyped, InitLocked
  <1>2. Typed /\ Locked /\ [Next]_vars => (Typed /\ Locked)'
    BY NextTyped, NextLocked
  <1> QED  BY <1>1, <1>2, PTL DEF Spec

(* As long as nobody extends a lock, the saga's use of it is what SeatHold *)
(* promises, and so what the seat lock library does (lockSeats, refused    *)
(* while another booking has a seat; releaseSeats, which frees the seats   *)
(* of the booking alone; the TTL).                                         *)
THEOREM LocksKeepPromise ==
  ASSUME Extenders = {}
  PROVE  Spec => LocksArePromised
  <1>1. Init => Promise!Init
    BY DEF Init, Promise!Init
  <1>2. ASSUME Typed, Locked, NEW b \in Bookings, LockSeats(b)  PROVE Promise!Next
    <2>1. \A c \in Bookings : lock[c] # "lapsed"
      BY <1>2 DEF Locked
    <2>2. \A c \in Bookings : c # b => hold[c] \cap Wants[b] = {}
      BY <1>2, <2>1 DEF LockSeats, Available
    <2>3. hold' = [hold EXCEPT ![b] = Wants[b]]
      BY <1>2, <2>2 DEF LockSeats, Typed, TypeOK
    <2>4. Wants[b] \in SUBSET Seats
      BY ConstantsAssumption DEF ConstantsAssumption
    <2> QED  BY <2>2, <2>3, <2>4 DEF Promise!Next, Promise!Grant, Promise!Free
  <1>3. ASSUME Typed, Locked, NEW b \in Bookings, ReleaseSeats(b)
        PROVE  Promise!Next \/ UNCHANGED hold
    <2>1. CASE lock[b] = "none"
      BY <1>3, <2>1 DEF ReleaseSeats
    <2>2. CASE lock[b] # "none"
      <3>1. /\ hold' = [c \in Bookings |-> hold[c] \ Wants[b]]
            /\ Wants[b] \subseteq hold[b] /\ hold[b] \subseteq Wants[b]
            /\ \A c \in Bookings : c # b => hold[c] \cap hold[b] = {}
        BY <1>3, <2>2 DEF ReleaseSeats, Locked
      <3>2. hold' = [c \in Bookings |-> IF c \in {b} THEN {} ELSE hold[c]]
        BY <3>1
      <3> QED  BY <3>2 DEF Promise!Next, Promise!Drop
    <2> QED  BY <2>1, <2>2
  <1>4. ASSUME Typed, NEW b \in Bookings, LockExpires(b)  PROVE Promise!Next
    <2>1. hold' = [c \in Bookings |-> IF c \in {b} THEN {} ELSE hold[c]]
      BY <1>4 DEF LockExpires, Typed, TypeOK
    <2> QED  BY <2>1 DEF Promise!Next, Promise!Drop
  <1>5. ASSUME Typed, Locked, NEW w \in Workers, Keys(w)  PROVE Promise!Next \/ UNCHANGED hold
    <2>1. call[w].booking \in Bookings
      BY <1>5, BusyBooking DEF Keys, Step2Lock, Step2LockFails, CompleteRelease,
         CompleteReleaseFails, CompensateLocks, ExtendLock
    <2>2. LockSeats(call[w].booking) \/ ReleaseSeats(call[w].booking) \/ UNCHANGED hold
      BY <1>5 DEF Keys, Step2Lock, Step2LockFails, CompleteRelease, CompleteReleaseFails,
         CompensateLocks, ExtendLock, locks
    <2> QED  BY <1>2, <1>3, <1>5, <2>1, <2>2
  <1>6. Typed /\ Locked /\ [Next]_vars => [Promise!Next]_hold
    BY <1>4, <1>5, OnlyKeys DEF LockLapses, locks
  <1> QED  BY <1>1, <1>6, AlwaysLocked, PTL DEF Spec, LocksArePromised, Promise!Spec

-----------------------------------------------------------------------------
(* What holds of one booking and of the call that is about it, when calls  *)
(* for one booking do not overlap and clients pay before they complete.    *)
Orderly == Serial /\ ClientsPay

Alone(b) ==
  \A v, w \in Workers : call[v].booking = b /\ call[w].booking = b => v = w

(* The seats of a booking completed after its cancellation are uncounted.  *)
Rows(b) ==
  /\ saga[b] = NoSaga => booking[b] = "none" /\ \A w \in Workers : call[w].booking # b
  /\ booking[b] = "none" =>
       /\ saga[b] \in {NoSaga, State("INITIATED", 0)}
       /\ Reserved(b) = 0 /\ Released(b) = 0
  /\ booking[b] = "INITIATED" =>
       /\ saga[b] \in {State("INITIATED", 1), State("SEATS_LOCKED", 2)}
       /\ Reserved(b) = 0 /\ Released(b) = 0
  /\ booking[b] = "PENDING" =>
       saga[b] = State("FLIGHT_RESERVED", 3) /\ Reserved(b) = 1 /\ Released(b) = 0
  /\ booking[b] = "BOOKED" =>
       /\ saga[b] = State("BOOKING_CONFIRMED", 6)
       /\ b \notin revived => Reserved(b) = 1 /\ Released(b) = 0
  /\ booking[b] = "CANCELLED" =>
       /\ saga[b].status = "COMPENSATED"
       /\ "commit" \notin faults.kinds /\ b \notin revived => Released(b) = Reserved(b)
       /\ saga[b].step >= 2 => hold[b] = {}
  /\ intent[b] # "none" => booking[b] \in {"PENDING", "BOOKED", "CANCELLED"}

(* The copy a compensation works on: the row, or the row as it would be    *)
(* had the step that failed been saved.                                    *)
Copy(b, s) ==
  \/ s = saga[b]
  \/ s = State("SEATS_LOCKED", 2) /\ saga[b] = State("INITIATED", 1)
  \/ /\ s = State("FLIGHT_RESERVED", 3) /\ saga[b] = State("SEATS_LOCKED", 2)
     /\ "commit" \in faults.kinds

(* Where the call w, about b, may be.                                      *)
Place(w, b) ==
  LET pc == call[w].pc
      s  == call[w].sagaState
  IN
  /\ pc = "step1" => booking[b] = "none" /\ saga[b] = State("INITIATED", 0)
  /\ pc \in {"step2_lock", "step2_save"} =>
       booking[b] = "INITIATED" /\ saga[b] = State("INITIATED", 1) /\ s = saga[b]
  /\ pc = "step3" =>
       booking[b] = "INITIATED" /\ saga[b] = State("SEATS_LOCKED", 2) /\ s = saga[b]
  /\ pc \in {"reload", "pay"} => booking[b] = "PENDING"
  /\ pc = "complete_find" => booking[b] \in {"PENDING", "BOOKED", "CANCELLED"}
  /\ pc = "complete_tx" => booking[b] \in {"PENDING", "CANCELLED"}
  /\ pc \in {"complete_find", "complete_tx"} /\ booking[b] = "CANCELLED" => intent[b] = "paid"
  /\ pc = "complete_release" => booking[b] = "BOOKED"
  /\ pc = "cancel_find" => booking[b] # "none"
  /\ pc \in {"compensate", "compensate_tx"} => booking[b] # "none" /\ Copy(b, s)
  /\ pc = "compensate_tx" =>
       s.status # "COMPENSATED" /\ (s.step >= 2 => hold[b] = {})
  /\ pc = "extend_save" => lock[b] # "none"

At(b, pcs) == \E w \in Workers : call[w].booking = b /\ call[w].pc \in pcs

(* Who may hold its seats, unless one of them was taken over.              *)
Holds(b) ==
  CompensationsWork /\ Wants[b] \cap overtaken = {} /\ ~expired[b] =>
    /\ booking[b] = "PENDING" /\ ~At(b, {"compensate_tx"}) => hold[b] = Wants[b]
    /\ At(b, {"step2_save", "step3"}) => hold[b] = Wants[b]

(* Some call is still there to finish or to undo what was begun.           *)
Tended(b) ==
  CompensationsWork =>
    /\ booking[b] = "INITIATED" =>
         At(b, {"step2_lock", "step2_save", "step3", "compensate", "compensate_tx"})
    /\ booking[b] = "PENDING" /\ intent[b] = "none" /\ "reload" \notin faults.kinds =>
         \/ At(b, {"reload", "pay", "cancel_find", "compensate", "compensate_tx"})
         \/ \E w \in Workers : /\ call[w].booking = b /\ call[w].auto
                              /\ call[w].pc \in {"complete_find", "complete_tx"}

Sound(b) ==
  /\ Alone(b) /\ Rows(b) /\ Holds(b) /\ Tended(b)
  /\ \A w \in Workers : call[w].booking = b => Place(w, b)

IInv == \A b \in Bookings : Sound(b)

(* A step about another booking: it may take away a seat that was taken    *)
(* over, and nothing else.                                                 *)
Kept(c) ==
  /\ booking'[c] = booking[c] /\ expired'[c] = expired[c] /\ saga'[c] = saga[c]
  /\ outbox'[c] = outbox[c] /\ intent'[c] = intent[c] /\ lock'[c] = lock[c]
  /\ c \in revived' <=> c \in revived
  /\ overtaken \subseteq overtaken'
  /\ hold'[c] \subseteq hold[c]
  /\ Wants[c] \cap overtaken' = {} => hold'[c] = hold[c]

Others(b) == \A c \in Bookings \ {b} : Kept(c)

(* What is not touched stays sound.                                        *)
LEMMA Untouched ==
  ASSUME Typed, NEW c \in Bookings, Sound(c), Kept(c),
         \A v \in Workers : call[v].booking = c \/ call'[v].booking = c => call'[v] = call[v],
         faults.kinds \subseteq faults'.kinds
  PROVE  Sound(c)'
  <1>1. Alone(c)'
    BY DEF Sound, Alone
  <1>2. Rows(c)'
    BY DEF Sound, Rows, Reserved, Released, Kept
  <1>3. Holds(c)'
    BY DEF Sound, Holds, At, CompensationsWork, Kept
  <1>4. Tended(c)'
    BY DEF Sound, Tended, At, CompensationsWork, Kept
  <1>5. ASSUME NEW w \in Workers, call'[w].booking = c  PROVE Place(w, c)'
    <2>1. Place(w, c) /\ call'[w] = call[w]
      BY <1>5 DEF Sound
    <2> QED  BY <2>1 DEF Place, Copy, Kept
  <1> QED  BY <1>1, <1>2, <1>3, <1>4, <1>5 DEF Sound

(* A step of one call, about one booking: it is enough to look at them.    *)
LEMMA SoundStep ==
  ASSUME Typed, IInv, NEW w \in Workers, NEW b \in Bookings, Only(w), Others(b),
         call[w].booking \in {b, "none"}, call'[w].booking \in {b, "none"},
         \A v \in Workers \ {w} : call[v].booking # b,
         faults.kinds \subseteq faults'.kinds,
         Rows(b)', Holds(b)', Tended(b)',
         call'[w].booking = b => Place(w, b)'
  PROVE  IInv'
  <1>1. "none" \notin Bookings
    BY ConstantsAssumption DEF ConstantsAssumption
  <1>2. ASSUME NEW c \in Bookings \ {b}  PROVE Sound(c)'
    <2>1. \A v \in Workers : call[v].booking = c \/ call'[v].booking = c => call'[v] = call[v]
      BY <1>1, <1>2 DEF Only
    <2>2. Sound(c)
      BY DEF IInv
    <2> QED  BY <2>1, <2>2, Untouched DEF Others
  <1>3. Sound(b)'
    <2>1. Alone(b)'
      BY DEF Alone, Only
    <2>2. \A v \in Workers : call'[v].booking = b => Place(v, b)'
      BY DEF Only
    <2> QED  BY <2>1, <2>2 DEF Sound
  <1> QED  BY <1>2, <1>3 DEF IInv

(* Seats asked for and given back are counted apart from other events.     *)
LEMMA Counted ==
  ASSUME TypeOK, NEW b \in Bookings, NEW types, StoreEvents(b, types)
  PROVE  /\ Reserved(b) \in Nat /\ Released(b) \in Nat
         /\ "flight.reserve-seats" \in types => Reserved(b)' = Reserved(b) + 1
         /\ "flight.reserve-seats" \notin types => Reserved(b)' = Reserved(b)
         /\ "flight.release-seats" \in types => Released(b)' = Released(b) + 1
         /\ "flight.release-seats" \notin types => Released(b)' = Released(b)
         /\ \A c \in Bookings \ {b} : outbox'[c] = outbox[c]
  <1>1. /\ "flight.reserve-seats" \in EventTypes /\ "flight.release-seats" \in EventTypes
        /\ outbox \in [Bookings -> [EventTypes -> Nat]]
    BY DEF EventTypes, TypeOK
  <1> QED  BY <1>1, StoreEventsEffect DEF Reserved, Released

(* What is known of the call w at the start of one of its steps.           *)
LEMMA InCall ==
  ASSUME Typed, IInv, NEW w \in Workers, call[w].pc # "idle"
  PROVE  /\ call[w].booking \in Bookings /\ call[w].booking # "none"
         /\ Rows(call[w].booking) /\ Holds(call[w].booking) /\ Tended(call[w].booking)
         /\ Place(w, call[w].booking)
         /\ \A v \in Workers \ {w} : call[v].booking # call[w].booking
  <1>1. call[w].booking \in Bookings /\ call[w].booking # "none"
    BY BusyBooking
  <1>2. Sound(call[w].booking)
    BY <1>1 DEF IInv
  <1> QED  BY <1>1, <1>2 DEF Sound, Alone

-----------------------------------------------------------------------------
(* createBooking.                                                          *)
LEMMA Step1Sound ==
  ASSUME Orderly, Typed, Locked, IInv, NEW w \in Workers, NEW b, b = call[w].booking, Step1(w)
  PROVE  IInv'
  <1>1. /\ call[w].pc = "step1" /\ b \in Bookings /\ b # "none"
        /\ Rows(b) /\ Place(w, b)
        /\ \A v \in Workers \ {w} : call[v].booking # b
    BY InCall DEF Step1
  <1>2. /\ Only(w) /\ call'[w].pc = "step2_lock" /\ call'[w].booking = b
        /\ call'[w].sagaState = State("INITIATED", 1)
    BY GotoWithEffect, StatesTyped DEF Step1, Typed, PCs
  <1>3. /\ booking'[b] = "INITIATED" /\ saga'[b] = State("INITIATED", 1)
        /\ intent'[b] = intent[b] /\ faults' = faults
    BY <1>1 DEF Step1, Typed, TypeOK
  <1>9. /\ Reserved(b)' = Reserved(b) /\ Released(b)' = Released(b)
        /\ \A c \in Bookings \ {b} : outbox'[c] = outbox[c]
    BY <1>1, Counted DEF Step1, Typed
  <1>4. Others(b)
    BY <1>1, <1>9 DEF Step1, Others, Kept, locks, Typed, TypeOK
  <1>5. Rows(b)'
    BY <1>1, <1>2, <1>3, <1>9 DEF Rows, locks, Place, State, NoSaga
  <1>6. Place(w, b)'
    BY <1>2, <1>3 DEF Place, locks
  <1>7. Holds(b)'
    BY <1>1, <1>2, <1>3 DEF Holds, locks, At, Only
  <1>8. Tended(b)'
    BY <1>1, <1>2, <1>3 DEF Tended, At, Only
  <1> QED
    BY <1>1, <1>2, <1>3, <1>4, <1>5, <1>6, <1>7, <1>8, SoundStep

LEMMA Step2LockSound ==
  ASSUME Orderly, Typed, Locked, IInv, NEW w \in Workers, NEW b, b = call[w].booking, Step2Lock(w)
  PROVE  IInv'
  <1>1. /\ call[w].pc = "step2_lock" /\ b \in Bookings /\ b # "none"
        /\ Rows(b) /\ Place(w, b)
        /\ \A v \in Workers \ {w} : call[v].booking # b
    BY InCall DEF Step2Lock
  <1>2. /\ Only(w) /\ call'[w].pc = "step2_save" /\ call'[w].booking = b
        /\ call'[w].sagaState = call[w].sagaState
    BY GotoEffect DEF Step2Lock, Typed, PCs
  <1>3. /\ hold'[b] = Wants[b] /\ overtaken \subseteq overtaken' /\ KeysOfOthers(b)
        /\ UNCHANGED <<booking, expired, saga, outbox, intent, faults, revived>>
    BY <1>1, LockSeatsKeeps DEF Step2Lock
  <1>4. Others(b)
    BY <1>3 DEF Others, Kept, KeysOfOthers
  <1>5. Rows(b)'
    BY <1>1, <1>2, <1>3 DEF Rows, locks, Place, State, NoSaga, Reserved, Released
  <1>6. Place(w, b)'
    BY <1>1, <1>2, <1>3 DEF Place, locks
  <1>7. Holds(b)'
    BY <1>1, <1>2, <1>3 DEF Holds, locks, At, Only, CompensationsWork
  <1>8. Tended(b)'
    BY <1>1, <1>2, <1>3 DEF Tended, At, Place
  <1> QED
    BY <1>1, <1>2, <1>3, <1>4, <1>5, <1>6, <1>7, <1>8, SoundStep

LEMMA Step1FailsSound ==
  ASSUME Orderly, Typed, Locked, IInv, NEW w \in Workers, NEW b, b = call[w].booking, Step1Fails(w)
  PROVE  IInv'
  <1>1. /\ call[w].pc = "step1" /\ b \in Bookings /\ b # "none"
        /\ Rows(b) /\ Holds(b) /\ Tended(b) /\ Place(w, b)
        /\ \A v \in Workers \ {w} : call[v].booking # b
    BY InCall DEF Step1Fails
  <1>2. /\ Only(w) /\ call'[w].pc = "idle" /\ call'[w].booking = "none"
    BY ReturnEffect DEF Step1Fails, Typed
  <1>3. UNCHANGED <<booking, expired, saga, outbox, locks, intent, revived>> /\ "tx" \in faults'.kinds /\ faults.kinds \subseteq faults'.kinds
    BY FaultEffect DEF Step1Fails, Typed
  <1>4. Others(b)
    BY <1>1, <1>2, <1>3 DEF Step1Fails, Others, Kept, locks, Typed, TypeOK
  <1>5. Rows(b)'
    BY <1>1, <1>2, <1>3 DEF Rows, locks, Place, State, NoSaga, Reserved, Released
  <1>6. call'[w].booking = b => Place(w, b)'
    BY <1>1, <1>2, <1>3 DEF Place, locks, Copy
  <1>7. Holds(b)'
    BY <1>1, <1>2, <1>3 DEF Holds, locks, At, Only, Place, CompensationsWork
  <1>8. Tended(b)'
    BY <1>1, <1>2, <1>3 DEF Tended, At, Place, CompensationsWork
  <1> QED
    BY <1>1, <1>2, <1>3, <1>4, <1>5, <1>6, <1>7, <1>8, SoundStep DEF Typed

LEMMA Step2RefusedSound ==
  ASSUME Orderly, Typed, Locked, IInv, NEW w \in Workers, NEW b, b = call[w].booking, Step2Refused(w)
  PROVE  IInv'
  <1>1. /\ call[w].pc = "step2_lock" /\ b \in Bookings /\ b # "none"
        /\ Rows(b) /\ Holds(b) /\ Tended(b) /\ Place(w, b)
        /\ \A v \in Workers \ {w} : call[v].booking # b
    BY InCall DEF Step2Refused
  <1>2. /\ Only(w) /\ call'[w].pc = "compensate" /\ call'[w].booking = b
        /\ call'[w].sagaState = call[w].sagaState /\ call'[w].auto = call[w].auto
    BY GotoEffect DEF Step2Refused, Typed, PCs
  <1>3. UNCHANGED <<booking, expired, saga, outbox, locks, intent, faults, revived>>
    BY DEF Step2Refused
  <1>4. Others(b)
    BY <1>1, <1>2, <1>3 DEF Step2Refused, Others, Kept, locks, Typed, TypeOK
  <1>5. Rows(b)'
    BY <1>1, <1>2, <1>3 DEF Rows, locks, Place, State, NoSaga, Reserved, Released
  <1>6. call'[w].booking = b => Place(w, b)'
    BY <1>1, <1>2, <1>3 DEF Place, locks, Copy
  <1>7. Holds(b)'
    BY <1>1, <1>2, <1>3 DEF Holds, locks, At, Only, Place, CompensationsWork
  <1>8. Tended(b)'
    BY <1>1, <1>2, <1>3 DEF Tended, At, Place, CompensationsWork
  <1> QED
    BY <1>1, <1>2, <1>3, <1>4, <1>5, <1>6, <1>7, <1>8, SoundStep DEF Typed

LEMMA Step2LockFailsSound ==
  ASSUME Orderly, Typed, Locked, IInv, NEW w \in Workers, NEW b, b = call[w].booking, Step2LockFails(w)
  PROVE  IInv'
  <1>1. /\ call[w].pc = "step2_lock" /\ b \in Bookings /\ b # "none"
        /\ Rows(b) /\ Holds(b) /\ Tended(b) /\ Place(w, b)
        /\ \A v \in Workers \ {w} : call[v].booking # b
    BY InCall DEF Step2LockFails
  <1>2. /\ Only(w) /\ call'[w].pc = "compensate" /\ call'[w].booking = b
        /\ call'[w].sagaState = call[w].sagaState /\ call'[w].auto = call[w].auto
    BY GotoEffect DEF Step2LockFails, Typed, PCs
  <1>3. /\ UNCHANGED <<booking, expired, saga, outbox, intent, revived>>
        /\ faults.kinds \subseteq faults'.kinds
    BY FaultEffect DEF Step2LockFails, Typed
  <1>9. overtaken \subseteq overtaken' /\ KeysOfOthers(b)
    <2>1. CASE LockSeats(b)
      BY <1>1, <2>1, LockSeatsKeeps
    <2>2. CASE UNCHANGED locks
      BY <2>2 DEF locks, KeysOfOthers
    <2> QED  BY <2>1, <2>2 DEF Step2LockFails
  <1>4. Others(b)
    BY <1>3, <1>9 DEF Others, Kept, KeysOfOthers
  <1>5. Rows(b)'
    BY <1>1, <1>2, <1>3 DEF Rows, locks, Place, State, NoSaga, Reserved, Released
  <1>6. call'[w].booking = b => Place(w, b)'
    BY <1>1, <1>2, <1>3 DEF Place, locks, Copy
  <1>7. Holds(b)'
    BY <1>1, <1>2, <1>3 DEF Holds, At, Only, Place, CompensationsWork
  <1>8. Tended(b)'
    BY <1>1, <1>2, <1>3 DEF Tended, At, Place, CompensationsWork
  <1> QED
    BY <1>1, <1>2, <1>3, <1>4, <1>5, <1>6, <1>7, <1>8, SoundStep DEF Typed

LEMMA Step2SaveSound ==
  ASSUME Orderly, Typed, Locked, IInv, NEW w \in Workers, NEW b, b = call[w].booking, Step2Save(w)
  PROVE  IInv'
  <1>1. /\ call[w].pc = "step2_save" /\ b \in Bookings /\ b # "none"
        /\ Rows(b) /\ Holds(b) /\ Tended(b) /\ Place(w, b)
        /\ \A v \in Workers \ {w} : call[v].booking # b
    BY InCall DEF Step2Save
  <1>2. /\ Only(w) /\ call'[w].pc = "step3" /\ call'[w].booking = b
        /\ call'[w].sagaState = State("SEATS_LOCKED", 2) /\ call'[w].auto = call[w].auto
    BY GotoWithEffect, StatesTyped DEF Step2Save, Typed, PCs
  <1>3. /\ saga'[b] = State("SEATS_LOCKED", 2)
        /\ UNCHANGED <<booking, expired, outbox, locks, intent, faults, revived>>
    BY <1>1 DEF Step2Save, Typed, TypeOK
  <1>4. Others(b)
    BY <1>1, <1>2, <1>3 DEF Step2Save, Others, Kept, locks, Typed, TypeOK
  <1>5. Rows(b)'
    BY <1>1, <1>2, <1>3 DEF Rows, locks, Place, State, NoSaga, Reserved, Released
  <1>6. call'[w].booking = b => Place(w, b)'
    BY <1>1, <1>2, <1>3 DEF Place, locks, Copy
  <1>7. Holds(b)'
    BY <1>1, <1>2, <1>3 DEF Holds, locks, At, Only, Place, CompensationsWork
  <1>8. Tended(b)'
    BY <1>1, <1>2, <1>3 DEF Tended, At, Place, CompensationsWork
  <1> QED
    BY <1>1, <1>2, <1>3, <1>4, <1>5, <1>6, <1>7, <1>8, SoundStep DEF Typed

LEMMA Step2SaveFailsSound ==
  ASSUME Orderly, Typed, Locked, IInv, NEW w \in Workers, NEW b, b = call[w].booking, Step2SaveFails(w)
  PROVE  IInv'
  <1>1. /\ call[w].pc = "step2_save" /\ b \in Bookings /\ b # "none"
        /\ Rows(b) /\ Holds(b) /\ Tended(b) /\ Place(w, b)
        /\ \A v \in Workers \ {w} : call[v].booking # b
    BY InCall DEF Step2SaveFails
  <1>2. /\ Only(w) /\ call'[w].pc = "compensate" /\ call'[w].booking = b
        /\ call'[w].sagaState = State("SEATS_LOCKED", 2) /\ call'[w].auto = call[w].auto
    BY GotoWithEffect, StatesTyped DEF Step2SaveFails, Typed, PCs
  <1>3. /\ UNCHANGED <<booking, expired, saga, outbox, locks, intent, revived>>
        /\ "tx" \in faults'.kinds /\ faults.kinds \subseteq faults'.kinds
    BY FaultEffect DEF Step2SaveFails, Typed
  <1>4. Others(b)
    BY <1>1, <1>2, <1>3 DEF Step2SaveFails, Others, Kept, locks, Typed, TypeOK
  <1>5. Rows(b)'
    BY <1>1, <1>2, <1>3 DEF Rows, locks, Place, State, NoSaga, Reserved, Released
  <1>6. call'[w].booking = b => Place(w, b)'
    BY <1>1, <1>2, <1>3 DEF Place, locks, Copy
  <1>7. Holds(b)'
    BY <1>1, <1>2, <1>3 DEF Holds, locks, At, Only, Place, CompensationsWork
  <1>8. Tended(b)'
    BY <1>1, <1>2, <1>3 DEF Tended, At, Place, CompensationsWork
  <1> QED
    BY <1>1, <1>2, <1>3, <1>4, <1>5, <1>6, <1>7, <1>8, SoundStep DEF Typed

LEMMA Step3Sound ==
  ASSUME Orderly, Typed, Locked, IInv, NEW w \in Workers, NEW b, b = call[w].booking, Step3(w)
  PROVE  IInv'
  <1>1. /\ call[w].pc = "step3" /\ b \in Bookings /\ b # "none"
        /\ Rows(b) /\ Holds(b) /\ Tended(b) /\ Place(w, b)
        /\ \A v \in Workers \ {w} : call[v].booking # b
    BY InCall DEF Step3
  <1>2. /\ Only(w) /\ call'[w].pc = "reload" /\ call'[w].booking = b
        /\ call'[w].sagaState = State("FLIGHT_RESERVED", 3) /\ call'[w].auto = call[w].auto
    BY GotoWithEffect, StatesTyped DEF Step3, Typed, PCs
  <1>3. /\ booking'[b] = "PENDING" /\ saga'[b] = State("FLIGHT_RESERVED", 3)
        /\ UNCHANGED <<expired, locks, intent, faults, revived>>
    BY <1>1 DEF Step3, UpdateBooking, Place, Typed, TypeOK
  <1>4. /\ Reserved(b)' = Reserved(b) + 1 /\ Released(b)' = Released(b)
        /\ \A c \in Bookings \ {b} : outbox'[c] = outbox[c]
    BY <1>1, Counted DEF Step3, Typed
  <1>5. Others(b)
    BY <1>1, <1>2, <1>3, <1>4 DEF Step3, UpdateBooking, Others, Kept, locks, Typed, TypeOK
  <1>6. Rows(b)'
    BY <1>1, <1>2, <1>3, <1>4 DEF Rows, locks, Place, State, NoSaga, Reserved, Released
  <1>7. call'[w].booking = b => Place(w, b)'
    BY <1>1, <1>2, <1>3, <1>4 DEF Place, locks, Copy
  <1>8. Holds(b)'
    BY <1>1, <1>2, <1>3, <1>4 DEF Holds, locks, At, Only, Place, CompensationsWork
  <1>9. Tended(b)'
    BY <1>1, <1>2, <1>3, <1>4 DEF Tended, At, Place, CompensationsWork
  <1> QED
    BY <1>1, <1>2, <1>3, <1>4, <1>5, <1>6, <1>7, <1>8, <1>9, SoundStep DEF Typed

LEMMA Step3FailsSound ==
  ASSUME Orderly, Typed, Locked, IInv, NEW w \in Workers, NEW b, b = call[w].booking, Step3Fails(w)
  PROVE  IInv'
  <1>1. /\ call[w].pc = "step3" /\ b \in Bookings /\ b # "none"
        /\ Rows(b) /\ Holds(b) /\ Tended(b) /\ Place(w, b)
        /\ \A v \in Workers \ {w} : call[v].booking # b
    BY InCall DEF Step3Fails
  <1>2. /\ Only(w) /\ call'[w].pc = "compensate" /\ call'[w].booking = b
        /\ \/ call'[w].sagaState = call[w].sagaState
           \/ /\ call'[w].sagaState = State("FLIGHT_RESERVED", 3)
              /\ "commit" \in faults'.kinds
    <2>1. CASE Fault("tx") /\ Goto(w, "compensate")
      BY <2>1, GotoEffect DEF Typed, PCs
    <2>2. CASE Fault("commit") /\ GotoWith(w, "compensate", State("FLIGHT_RESERVED", 3))
      BY <2>2, FaultEffect, GotoWithEffect, StatesTyped DEF Typed, PCs
    <2> QED  BY <2>1, <2>2 DEF Step3Fails
  <1>3. /\ UNCHANGED <<booking, expired, saga, outbox, locks, intent, revived>>
        /\ faults.kinds \subseteq faults'.kinds
    BY FaultEffect DEF Step3Fails, Typed
  <1>4. Others(b)
    BY <1>1, <1>2, <1>3 DEF Step3Fails, Others, Kept, locks, Typed, TypeOK
  <1>5. Rows(b)'
    BY <1>1, <1>2, <1>3 DEF Rows, locks, Place, State, NoSaga, Reserved, Released
  <1>6. call'[w].booking = b => Place(w, b)'
    BY <1>1, <1>2, <1>3 DEF Place, locks, Copy
  <1>7. Holds(b)'
    BY <1>1, <1>2, <1>3 DEF Holds, locks, At, Only, Place, CompensationsWork
  <1>8. Tended(b)'
    BY <1>1, <1>2, <1>3 DEF Tended, At, Place, CompensationsWork
  <1> QED
    BY <1>1, <1>2, <1>3, <1>4, <1>5, <1>6, <1>7, <1>8, SoundStep DEF Typed

LEMMA ReloadSound ==
  ASSUME Orderly, Typed, Locked, IInv, NEW w \in Workers, NEW b, b = call[w].booking, Reload(w)
  PROVE  IInv'
  <1>1. /\ call[w].pc = "reload" /\ b \in Bookings /\ b # "none"
        /\ Rows(b) /\ Holds(b) /\ Tended(b) /\ Place(w, b)
        /\ \A v \in Workers \ {w} : call[v].booking # b
    BY InCall DEF Reload
  <1>2. /\ Only(w) /\ call'[w].pc = "pay" /\ call'[w].booking = b
        /\ call'[w].sagaState = call[w].sagaState /\ call'[w].auto = call[w].auto
    BY GotoEffect DEF Reload, Typed, PCs
  <1>3. UNCHANGED <<booking, expired, saga, outbox, locks, intent, faults, revived>>
    BY DEF Reload
  <1>4. Others(b)
    BY <1>3 DEF Others, Kept, locks
  <1>5. Rows(b)'
    BY <1>1, <1>2, <1>3 DEF Rows, locks, Place, State, NoSaga, Reserved, Released
  <1>6. call'[w].booking = b => Place(w, b)'
    BY <1>1, <1>2, <1>3 DEF Place
  <1>7. Holds(b)'
    BY <1>1, <1>2, <1>3 DEF Holds, locks, At, Only, CompensationsWork
  <1>8. Tended(b)'
    BY <1>1, <1>2, <1>3 DEF Tended, At, Place, CompensationsWork
  <1> QED
    BY <1>1, <1>2, <1>3, <1>4, <1>5, <1>6, <1>7, <1>8, SoundStep DEF Typed

LEMMA ReloadFailsSound ==
  ASSUME Orderly, Typed, Locked, IInv, NEW w \in Workers, NEW b, b = call[w].booking, ReloadFails(w)
  PROVE  IInv'
  <1>1. /\ call[w].pc = "reload" /\ b \in Bookings /\ b # "none"
        /\ Rows(b) /\ Holds(b) /\ Tended(b) /\ Place(w, b)
        /\ \A v \in Workers \ {w} : call[v].booking # b
    BY InCall DEF ReloadFails
  <1>2. /\ Only(w) /\ call'[w].pc = "idle" /\ call'[w].booking = "none"
    BY ReturnEffect DEF ReloadFails, Typed
  <1>3. /\ UNCHANGED <<booking, expired, saga, outbox, locks, intent, revived>>
        /\ "reload" \in faults'.kinds /\ faults.kinds \subseteq faults'.kinds
    BY FaultEffect DEF ReloadFails, Typed
  <1>4. Others(b)
    BY <1>3 DEF Others, Kept, locks
  <1>5. Rows(b)'
    BY <1>1, <1>2, <1>3 DEF Rows, locks, Place, State, NoSaga, Reserved, Released
  <1>6. call'[w].booking # b
    BY <1>1, <1>2
  <1>7. Holds(b)'
    BY <1>1, <1>2, <1>3 DEF Holds, locks, At, Only, CompensationsWork
  <1>8. Tended(b)'
    BY <1>1, <1>2, <1>3 DEF Tended, At, Place, CompensationsWork
  <1> QED
    BY <1>1, <1>2, <1>3, <1>4, <1>5, <1>6, <1>7, <1>8, SoundStep DEF Typed

LEMMA PaymentIntentSound ==
  ASSUME Orderly, Typed, Locked, IInv, NEW w \in Workers, NEW b, b = call[w].booking, PaymentIntent(w)
  PROVE  IInv'
  <1>1. /\ call[w].pc = "pay" /\ b \in Bookings /\ b # "none"
        /\ Rows(b) /\ Holds(b) /\ Tended(b) /\ Place(w, b)
        /\ \A v \in Workers \ {w} : call[v].booking # b
    BY InCall DEF PaymentIntent
  <1>2. /\ Only(w) /\ call'[w].pc = "idle" /\ call'[w].booking = "none"
    BY ReturnEffect DEF PaymentIntent, Typed
  <1>3. /\ intent'[b] = "created"
        /\ UNCHANGED <<booking, expired, saga, outbox, locks, faults, revived>>
    BY <1>1 DEF PaymentIntent, Typed, TypeOK
  <1>4. Others(b)
    BY <1>1, <1>2, <1>3 DEF PaymentIntent, Others, Kept, locks, Typed, TypeOK
  <1>5. Rows(b)'
    BY <1>1, <1>2, <1>3 DEF Rows, locks, Place, State, NoSaga, Reserved, Released
  <1>6. call'[w].booking = b => Place(w, b)'
    BY <1>1, <1>2, <1>3 DEF Place, locks, Copy
  <1>7. Holds(b)'
    BY <1>1, <1>2, <1>3 DEF Holds, locks, At, Only, Place, CompensationsWork
  <1>8. Tended(b)'
    BY <1>1, <1>2, <1>3 DEF Tended, At, Place, CompensationsWork
  <1> QED
    BY <1>1, <1>2, <1>3, <1>4, <1>5, <1>6, <1>7, <1>8, SoundStep DEF Typed

LEMMA PaymentIntentFailsSound ==
  ASSUME Orderly, Typed, Locked, IInv, NEW w \in Workers, NEW b, b = call[w].booking, PaymentIntentFails(w)
  PROVE  IInv'
  <1>1. /\ call[w].pc = "pay" /\ b \in Bookings /\ b # "none"
        /\ Rows(b) /\ Holds(b) /\ Tended(b) /\ Place(w, b)
        /\ \A v \in Workers \ {w} : call[v].booking # b
    BY InCall DEF PaymentIntentFails
  <1>2. /\ Only(w) /\ call'[w].pc = "cancel_find" /\ call'[w].booking = b
        /\ call'[w].sagaState = call[w].sagaState /\ call'[w].auto = call[w].auto
    BY GotoEffect DEF PaymentIntentFails, Typed, PCs
  <1>3. /\ UNCHANGED <<booking, expired, saga, outbox, locks, revived>>
        /\ faults.kinds \subseteq faults'.kinds
    BY FaultEffect DEF PaymentIntentFails, Typed
  <1>4. Others(b)
    BY <1>1, <1>2, <1>3 DEF PaymentIntentFails, Others, Kept, locks, Typed, TypeOK
  <1>5. Rows(b)'
    BY <1>1, <1>2, <1>3 DEF Rows, locks, Place, State, NoSaga, Reserved, Released
  <1>6. call'[w].booking = b => Place(w, b)'
    BY <1>1, <1>2, <1>3 DEF Place, locks, Copy
  <1>7. Holds(b)'
    BY <1>1, <1>2, <1>3 DEF Holds, locks, At, Only, Place, CompensationsWork
  <1>8. Tended(b)'
    BY <1>1, <1>2, <1>3 DEF Tended, At, Place, CompensationsWork
  <1> QED
    BY <1>1, <1>2, <1>3, <1>4, <1>5, <1>6, <1>7, <1>8, SoundStep DEF Typed

LEMMA MockPaymentSound ==
  ASSUME Orderly, Typed, Locked, IInv, NEW w \in Workers, NEW b, b = call[w].booking, MockPayment(w)
  PROVE  IInv'
  <1>1. /\ call[w].pc = "pay" /\ b \in Bookings /\ b # "none"
        /\ Rows(b) /\ Holds(b) /\ Tended(b) /\ Place(w, b)
        /\ \A v \in Workers \ {w} : call[v].booking # b
    BY InCall DEF MockPayment
  <1>2. /\ Only(w) /\ call'[w].pc = "complete_find" /\ call'[w].booking = b
        /\ call'[w].auto
    BY DEF MockPayment, Only, Typed, TypeOK
  <1>3. UNCHANGED <<booking, expired, saga, outbox, locks, intent, faults, revived>>
    BY DEF MockPayment
  <1>4. Others(b)
    BY <1>1, <1>2, <1>3 DEF MockPayment, Others, Kept, locks, Typed, TypeOK
  <1>5. Rows(b)'
    BY <1>1, <1>2, <1>3 DEF Rows, locks, Place, State, NoSaga, Reserved, Released
  <1>6. call'[w].booking = b => Place(w, b)'
    BY <1>1, <1>2, <1>3 DEF Place, locks, Copy
  <1>7. Holds(b)'
    BY <1>1, <1>2, <1>3 DEF Holds, locks, At, Only, Place, CompensationsWork
  <1>8. Tended(b)'
    BY <1>1, <1>2, <1>3 DEF Tended, At, Place, CompensationsWork
  <1> QED
    BY <1>1, <1>2, <1>3, <1>4, <1>5, <1>6, <1>7, <1>8, SoundStep DEF Typed

-----------------------------------------------------------------------------
(* completeBooking.                                                        *)

LEMMA CompleteFindSound ==
  ASSUME Orderly, Typed, Locked, IInv, NEW w \in Workers, NEW b, b = call[w].booking, CompleteFind(w)
  PROVE  IInv'
  <1>1. /\ call[w].pc = "complete_find" /\ b \in Bookings /\ b # "none"
        /\ Rows(b) /\ Holds(b) /\ Tended(b) /\ Place(w, b)
        /\ \A v \in Workers \ {w} : call[v].booking # b
    BY InCall DEF CompleteFind
  <1>2. /\ Only(w)
        /\ \/ /\ saga[b].status = "BOOKING_CONFIRMED"
              /\ call'[w].pc = "idle" /\ call'[w].booking = "none"
           \/ /\ saga[b].status # "BOOKING_CONFIRMED"
              /\ call'[w].pc = "complete_tx" /\ call'[w].booking = b
              /\ call'[w].sagaState = saga[b] /\ call'[w].auto = call[w].auto
    <2>1. CASE saga[b].status = "BOOKING_CONFIRMED"
      BY <2>1, ReturnEffect DEF CompleteFind, Typed
    <2>2. CASE saga[b].status # "BOOKING_CONFIRMED"
      <3>1. saga[b] \in [status : SagaStatus, step : Steps]
        BY <1>1 DEF Typed, TypeOK
      <3>2. GotoWith(w, "complete_tx", saga[b])
        BY <2>2 DEF CompleteFind
      <3> QED  BY <2>2, <3>1, <3>2, GotoWithEffect DEF Typed, PCs
    <2> QED  BY <2>1, <2>2
  <1>3. UNCHANGED <<booking, expired, saga, outbox, locks, intent, faults, revived>>
    BY DEF CompleteFind
  <1>4. Others(b)
    BY <1>1, <1>2, <1>3 DEF CompleteFind, Others, Kept, locks, Typed, TypeOK
  <1>5. Rows(b)'
    BY <1>1, <1>2, <1>3 DEF Rows, locks, Place, State, NoSaga, Reserved, Released
  <1>6. call'[w].booking = b => Place(w, b)'
    BY <1>1, <1>2, <1>3 DEF Place, locks, Copy, Rows, State
  <1>7. Holds(b)'
    BY <1>1, <1>2, <1>3 DEF Holds, locks, At, Only, Place, CompensationsWork
  <1>8. Tended(b)'
    BY <1>1, <1>2, <1>3 DEF Tended, At, Place, Rows, State, CompensationsWork
  <1> QED
    BY <1>1, <1>2, <1>3, <1>4, <1>5, <1>6, <1>7, <1>8, SoundStep DEF Typed

LEMMA CompleteSound ==
  ASSUME Orderly, Typed, Locked, IInv, NEW w \in Workers, NEW b, b = call[w].booking, Complete(w)
  PROVE  IInv'
  <1>1. /\ call[w].pc = "complete_tx" /\ b \in Bookings /\ b # "none"
        /\ Rows(b) /\ Holds(b) /\ Tended(b) /\ Place(w, b)
        /\ \A v \in Workers \ {w} : call[v].booking # b
    BY InCall DEF Complete
  <1>2. /\ Only(w) /\ call'[w].pc = "complete_release" /\ call'[w].booking = b
        /\ call'[w].sagaState = call[w].sagaState /\ call'[w].auto = call[w].auto
    BY GotoEffect DEF Complete, Typed, PCs
  <1>3. /\ booking'[b] = "BOOKED" /\ saga'[b] = State("BOOKING_CONFIRMED", 6)
        /\ b \in revived' <=> b \in revived \/ booking[b] = "CANCELLED"
        /\ \A c \in Bookings \ {b} : c \in revived' <=> c \in revived
        /\ UNCHANGED <<locks, intent, faults>>
    BY <1>1 DEF Complete, UpdateBooking, Place, Typed, TypeOK
  <1>4. /\ Reserved(b)' = Reserved(b) /\ Released(b)' = Released(b)
        /\ \A c \in Bookings \ {b} : outbox'[c] = outbox[c]
    BY <1>1, Counted DEF Complete, Typed
  <1>5. Others(b)
    BY <1>1, <1>2, <1>3, <1>4 DEF Complete, UpdateBooking, Others, Kept, locks, Typed, TypeOK
  <1>6. Rows(b)'
    BY <1>1, <1>2, <1>3, <1>4 DEF Rows, locks, Place, State, NoSaga, Reserved, Released
  <1>7. call'[w].booking = b => Place(w, b)'
    BY <1>1, <1>2, <1>3, <1>4 DEF Place, locks, Copy
  <1>8. Holds(b)'
    BY <1>1, <1>2, <1>3, <1>4 DEF Holds, locks, At, Only, Place, CompensationsWork
  <1>9. Tended(b)'
    BY <1>1, <1>2, <1>3, <1>4 DEF Tended, At, Place, CompensationsWork
  <1> QED
    BY <1>1, <1>2, <1>3, <1>4, <1>5, <1>6, <1>7, <1>8, <1>9, SoundStep DEF Typed

LEMMA CompleteFailsSound ==
  ASSUME Orderly, Typed, Locked, IInv, NEW w \in Workers, NEW b, b = call[w].booking, CompleteFails(w)
  PROVE  IInv'
  <1>1. /\ call[w].pc \in {"complete_find", "complete_tx"} /\ b \in Bookings /\ b # "none"
        /\ Rows(b) /\ Holds(b) /\ Tended(b) /\ Place(w, b)
        /\ \A v \in Workers \ {w} : call[v].booking # b
    BY InCall DEF CompleteFails
  <1>2. /\ Only(w)
        /\ \/ /\ call[w].auto
              /\ call'[w].pc = "cancel_find" /\ call'[w].booking = b
           \/ /\ ~call[w].auto
              /\ call'[w].pc = "idle" /\ call'[w].booking = "none"
    BY <1>1, AbortCompleteEffect DEF CompleteFails
  <1>3. /\ UNCHANGED <<booking, expired, saga, outbox, locks, intent, revived>>
        /\ faults.kinds \subseteq faults'.kinds
    BY FaultEffect DEF CompleteFails, Typed
  <1>4. Others(b)
    BY <1>1, <1>2, <1>3 DEF CompleteFails, Others, Kept, locks, Typed, TypeOK
  <1>5. Rows(b)'
    BY <1>1, <1>2, <1>3 DEF Rows, locks, Place, State, NoSaga, Reserved, Released
  <1>6. call'[w].booking = b => Place(w, b)'
    BY <1>1, <1>2, <1>3 DEF Place, locks, Copy
  <1>7. Holds(b)'
    BY <1>1, <1>2, <1>3 DEF Holds, locks, At, Only, Place, CompensationsWork
  <1>8. Tended(b)'
    BY <1>1, <1>2, <1>3 DEF Tended, At, Place, CompensationsWork
  <1> QED
    BY <1>1, <1>2, <1>3, <1>4, <1>5, <1>6, <1>7, <1>8, SoundStep DEF Typed

LEMMA CompleteReleaseSound ==
  ASSUME Orderly, Typed, Locked, IInv, NEW w \in Workers, NEW b, b = call[w].booking, CompleteRelease(w)
  PROVE  IInv'
  <1>1. /\ call[w].pc = "complete_release" /\ b \in Bookings /\ b # "none"
        /\ Rows(b) /\ Holds(b) /\ Tended(b) /\ Place(w, b)
        /\ \A v \in Workers \ {w} : call[v].booking # b
    BY InCall DEF CompleteRelease
  <1>2. /\ Only(w) /\ call'[w].pc = "idle" /\ call'[w].booking = "none"
    BY ReturnEffect DEF CompleteRelease, Typed
  <1>3. UNCHANGED <<booking, expired, saga, outbox, intent, faults, revived>>
    BY DEF CompleteRelease
  <1>9. hold'[b] = {} /\ overtaken' = overtaken /\ KeysOfOthers(b)
    BY <1>1, ReleaseSeatsKeeps DEF CompleteRelease
  <1>4. Others(b)
    BY <1>3, <1>9 DEF Others, Kept, KeysOfOthers
  <1>5. Rows(b)'
    BY <1>1, <1>2, <1>3 DEF Rows, locks, Place, State, NoSaga, Reserved, Released
  <1>6. call'[w].booking = b => Place(w, b)'
    BY <1>1, <1>2, <1>3 DEF Place, locks, Copy
  <1>7. Holds(b)'
    BY <1>1, <1>2, <1>3 DEF Holds, locks, At, Only, Place, CompensationsWork
  <1>8. Tended(b)'
    BY <1>1, <1>2, <1>3 DEF Tended, At, Place, CompensationsWork
  <1> QED
    BY <1>1, <1>2, <1>3, <1>4, <1>5, <1>6, <1>7, <1>8, SoundStep DEF Typed

LEMMA CompleteReleaseFailsSound ==
  ASSUME Orderly, Typed, Locked, IInv, NEW w \in Workers, NEW b, b = call[w].booking, CompleteReleaseFails(w)
  PROVE  IInv'
  <1>1. /\ call[w].pc = "complete_release" /\ b \in Bookings /\ b # "none"
        /\ Rows(b) /\ Holds(b) /\ Tended(b) /\ Place(w, b)
        /\ \A v \in Workers \ {w} : call[v].booking # b
    BY InCall DEF CompleteReleaseFails
  <1>2. /\ Only(w)
        /\ \/ /\ call[w].auto
              /\ call'[w].pc = "cancel_find" /\ call'[w].booking = b
           \/ /\ ~call[w].auto
              /\ call'[w].pc = "idle" /\ call'[w].booking = "none"
    BY <1>1, AbortCompleteEffect DEF CompleteReleaseFails
  <1>3. /\ UNCHANGED <<booking, expired, saga, outbox, intent, revived>>
        /\ faults.kinds \subseteq faults'.kinds
    BY FaultEffect DEF CompleteReleaseFails, Typed
  <1>9. overtaken' = overtaken /\ KeysOfOthers(b)
    <2>1. CASE ReleaseSeats(b)
      BY <1>1, <2>1, ReleaseSeatsKeeps
    <2>2. CASE UNCHANGED locks
      BY <2>2 DEF locks, KeysOfOthers
    <2> QED  BY <2>1, <2>2 DEF CompleteReleaseFails
  <1>4. Others(b)
    BY <1>3, <1>9 DEF Others, Kept, KeysOfOthers
  <1>5. Rows(b)'
    BY <1>1, <1>2, <1>3 DEF Rows, locks, Place, State, NoSaga, Reserved, Released
  <1>6. call'[w].booking = b => Place(w, b)'
    BY <1>1, <1>2, <1>3 DEF Place, locks, Copy
  <1>7. Holds(b)'
    BY <1>1, <1>2, <1>3 DEF Holds, locks, At, Only, Place, CompensationsWork
  <1>8. Tended(b)'
    BY <1>1, <1>2, <1>3 DEF Tended, At, Place, CompensationsWork
  <1> QED
    BY <1>1, <1>2, <1>3, <1>4, <1>5, <1>6, <1>7, <1>8, SoundStep DEF Typed

-----------------------------------------------------------------------------
(* cancelBooking.                                                          *)

LEMMA CancelFindSound ==
  ASSUME Orderly, Typed, Locked, IInv, NEW w \in Workers, NEW b, b = call[w].booking, CancelFind(w)
  PROVE  IInv'
  <1>1. /\ call[w].pc = "cancel_find" /\ b \in Bookings /\ b # "none"
        /\ Rows(b) /\ Holds(b) /\ Tended(b) /\ Place(w, b)
        /\ \A v \in Workers \ {w} : call[v].booking # b
    BY InCall DEF CancelFind
  <1>2. /\ Only(w) /\ call'[w].pc = "compensate" /\ call'[w].booking = b
        /\ call'[w].sagaState = saga[b] /\ call'[w].auto = call[w].auto
    <2>1. saga[b] \in [status : SagaStatus, step : Steps]
      BY <1>1 DEF Typed, TypeOK
    <2> QED  BY <2>1, GotoWithEffect DEF CancelFind, Typed, PCs
  <1>3. UNCHANGED <<booking, expired, saga, outbox, locks, intent, faults, revived>>
    BY DEF CancelFind
  <1>4. Others(b)
    BY <1>1, <1>2, <1>3 DEF CancelFind, Others, Kept, locks, Typed, TypeOK
  <1>5. Rows(b)'
    BY <1>1, <1>2, <1>3 DEF Rows, locks, Place, State, NoSaga, Reserved, Released
  <1>6. call'[w].booking = b => Place(w, b)'
    BY <1>1, <1>2, <1>3 DEF Place, locks, Copy
  <1>7. Holds(b)'
    BY <1>1, <1>2, <1>3 DEF Holds, locks, At, Only, Place, CompensationsWork
  <1>8. Tended(b)'
    BY <1>1, <1>2, <1>3 DEF Tended, At, Place, CompensationsWork
  <1> QED
    BY <1>1, <1>2, <1>3, <1>4, <1>5, <1>6, <1>7, <1>8, SoundStep DEF Typed

LEMMA CompensatedSound ==
  ASSUME Orderly, Typed, Locked, IInv, NEW w \in Workers, NEW b, b = call[w].booking, Compensated(w)
  PROVE  IInv'
  <1>1. /\ call[w].pc = "compensate"
        /\ call[w].sagaState.status = "COMPENSATED" /\ b \in Bookings /\ b # "none"
        /\ Rows(b) /\ Holds(b) /\ Tended(b) /\ Place(w, b)
        /\ \A v \in Workers \ {w} : call[v].booking # b
    BY InCall DEF Compensated
  <1>2. /\ Only(w) /\ call'[w].pc = "idle" /\ call'[w].booking = "none"
    BY ReturnEffect DEF Compensated, Typed
  <1>3. UNCHANGED <<booking, expired, saga, outbox, locks, intent, faults, revived>>
    BY DEF Compensated
  <1>4. Others(b)
    BY <1>1, <1>2, <1>3 DEF Compensated, Others, Kept, locks, Typed, TypeOK
  <1>5. Rows(b)'
    BY <1>1, <1>2, <1>3 DEF Rows, locks, Place, State, NoSaga, Reserved, Released
  <1>6. call'[w].booking = b => Place(w, b)'
    BY <1>1, <1>2, <1>3 DEF Place, locks, Copy
  <1>7. Holds(b)'
    BY <1>1, <1>2, <1>3 DEF Holds, locks, At, Only, Place, CompensationsWork
  <1>8. Tended(b)'
    BY <1>1, <1>2, <1>3 DEF Tended, At, Place, Copy, Rows, State, CompensationsWork
  <1> QED
    BY <1>1, <1>2, <1>3, <1>4, <1>5, <1>6, <1>7, <1>8, SoundStep DEF Typed

LEMMA CompensateLocksSound ==
  ASSUME Orderly, Typed, Locked, IInv, NEW w \in Workers, NEW b, b = call[w].booking, CompensateLocks(w)
  PROVE  IInv'
  <1>1. /\ call[w].pc = "compensate" /\ call[w].sagaState.status # "COMPENSATED" /\ b \in Bookings /\ b # "none"
        /\ Rows(b) /\ Holds(b) /\ Tended(b) /\ Place(w, b)
        /\ \A v \in Workers \ {w} : call[v].booking # b
    BY InCall DEF CompensateLocks
  <1>2. /\ Only(w) /\ call'[w].pc = "compensate_tx" /\ call'[w].booking = b
        /\ call'[w].sagaState = call[w].sagaState /\ call'[w].auto = call[w].auto
    BY GotoEffect DEF CompensateLocks, Typed, PCs
  <1>3. /\ call[w].sagaState.step >= 2 => hold'[b] = {}
        /\ hold'[b] \in {hold[b], {}} /\ overtaken' = overtaken /\ KeysOfOthers(b)
        /\ UNCHANGED <<booking, expired, saga, outbox, intent, faults, revived>>
    <2>1. CASE ReleaseSeats(b)
      BY <1>1, <2>1, ReleaseSeatsKeeps DEF CompensateLocks
    <2>2. CASE ~(call[w].sagaState.step >= 2) /\ UNCHANGED locks
      BY <2>2 DEF CompensateLocks, locks, KeysOfOthers
    <2> QED  BY <2>1, <2>2 DEF CompensateLocks
  <1>4. Others(b)
    BY <1>3 DEF Others, Kept, KeysOfOthers
  <1>5. Rows(b)'
    BY <1>1, <1>2, <1>3 DEF Rows, locks, Place, State, NoSaga, Reserved, Released
  <1>6. call'[w].booking = b => Place(w, b)'
    BY <1>1, <1>2, <1>3 DEF Place, locks, Copy
  <1>7. Holds(b)'
    BY <1>1, <1>2, <1>3 DEF Holds, locks, At, Only, Place, CompensationsWork
  <1>8. Tended(b)'
    BY <1>1, <1>2, <1>3 DEF Tended, At, Place, CompensationsWork
  <1> QED
    BY <1>1, <1>2, <1>3, <1>4, <1>5, <1>6, <1>7, <1>8, SoundStep DEF Typed

LEMMA CompensateCommitSound ==
  ASSUME Orderly, Typed, Locked, IInv, NEW w \in Workers, NEW b, b = call[w].booking, CompensateCommit(w)
  PROVE  IInv'
  <1>1. /\ call[w].pc = "compensate_tx" /\ b \in Bookings /\ b # "none"
        /\ Rows(b) /\ Holds(b) /\ Tended(b) /\ Place(w, b)
        /\ \A v \in Workers \ {w} : call[v].booking # b
    BY InCall DEF CompensateCommit
  <1>2. /\ Only(w) /\ call'[w].pc = "idle" /\ call'[w].booking = "none"
    BY ReturnEffect DEF CompensateCommit, Typed
  <1>3. /\ booking'[b] = "CANCELLED" /\ saga'[b] = State("COMPENSATED", call[w].sagaState.step)
        /\ UNCHANGED <<expired, locks, intent, faults, revived>>
    BY <1>1 DEF CompensateCommit, UpdateBooking, Place, Typed, TypeOK
  <1>4. /\ Reserved(b) \in Nat /\ Released(b) \in Nat
        /\ Reserved(b)' = Reserved(b)
        /\ call[w].sagaState.step >= 3 => Released(b)' = Released(b) + 1
        /\ ~(call[w].sagaState.step >= 3) => Released(b)' = Released(b)
        /\ \A c \in Bookings \ {b} : outbox'[c] = outbox[c]
    BY <1>1, Counted DEF CompensateCommit, Typed
  <1>5. Others(b)
    BY <1>1, <1>2, <1>3, <1>4 DEF CompensateCommit, UpdateBooking, Others, Kept, locks, Typed, TypeOK
  <1>6. Rows(b)'
    <2> DEFINE step == call[w].sagaState.step
    <2>1. booking[b] \in {"INITIATED", "PENDING", "BOOKED"}
      BY <1>1 DEF Place, Copy, Rows, State, Typed, TypeOK, BookingStatus
    <2>2. "commit" \notin faults.kinds /\ b \notin revived =>
            Released(b) = 0 /\ Reserved(b) = IF step >= 3 THEN 1 ELSE 0
      BY <1>1, <2>1 DEF Place, Copy, Rows, State
    <2>3. "commit" \notin faults.kinds /\ b \notin revived => Released(b)' = Reserved(b)'
      <3>1. CASE step >= 3
        BY <1>4, <2>2, <3>1
      <3>2. CASE ~(step >= 3)
        BY <1>4, <2>2, <3>2
      <3> QED  BY <3>1, <3>2
    <2>4. step >= 2 => hold'[b] = {}
      BY <1>1, <1>3 DEF Place, locks
    <2>5. saga'[b].status = "COMPENSATED" /\ saga'[b].step = step /\ saga'[b] # NoSaga
      BY <1>3 DEF State, NoSaga
    <2> HIDE DEF step
    <2> QED  BY <1>1, <1>3, <2>3, <2>4, <2>5 DEF Rows
  <1>7. call'[w].booking = b => Place(w, b)'
    BY <1>1, <1>2, <1>3, <1>4 DEF Place, locks, Copy
  <1>8. Holds(b)'
    BY <1>1, <1>2, <1>3, <1>4 DEF Holds, locks, At, Only, Place, CompensationsWork
  <1>9. Tended(b)'
    BY <1>1, <1>2, <1>3, <1>4 DEF Tended, At, Place, CompensationsWork
  <1> QED
    BY <1>1, <1>2, <1>3, <1>4, <1>5, <1>6, <1>7, <1>8, <1>9, SoundStep DEF Typed

LEMMA CompensateFailsSound ==
  ASSUME Orderly, Typed, Locked, IInv, NEW w \in Workers, NEW b, b = call[w].booking, CompensateFails(w)
  PROVE  IInv'
  <1>1. /\ call[w].pc \in {"cancel_find", "compensate", "compensate_tx"} /\ b \in Bookings /\ b # "none"
        /\ Rows(b) /\ Holds(b) /\ Tended(b) /\ Place(w, b)
        /\ \A v \in Workers \ {w} : call[v].booking # b
    BY InCall DEF CompensateFails
  <1>2. /\ Only(w) /\ call'[w].pc = "idle" /\ call'[w].booking = "none"
    BY ReturnEffect DEF CompensateFails, Typed
  <1>3. /\ UNCHANGED <<booking, expired, saga, outbox, locks, intent, revived>>
        /\ "undo" \in faults'.kinds /\ faults.kinds \subseteq faults'.kinds
    BY FaultEffect DEF CompensateFails, Typed
  <1>4. Others(b)
    BY <1>1, <1>2, <1>3 DEF CompensateFails, Others, Kept, locks, Typed, TypeOK
  <1>5. Rows(b)'
    BY <1>1, <1>2, <1>3 DEF Rows, locks, Place, State, NoSaga, Reserved, Released
  <1>6. call'[w].booking = b => Place(w, b)'
    BY <1>1, <1>2, <1>3 DEF Place, locks, Copy
  <1>7. Holds(b)'
    BY <1>1, <1>2, <1>3 DEF Holds, locks, At, Only, Place, CompensationsWork
  <1>8. Tended(b)'
    BY <1>1, <1>2, <1>3 DEF Tended, At, Place, CompensationsWork
  <1> QED
    BY <1>1, <1>2, <1>3, <1>4, <1>5, <1>6, <1>7, <1>8, SoundStep DEF Typed

-----------------------------------------------------------------------------
(* extendBooking, and the process that dies.                               *)

LEMMA ExtendLockSound ==
  ASSUME Orderly, Typed, Locked, IInv, NEW w \in Workers, NEW b, b = call[w].booking, ExtendLock(w)
  PROVE  IInv'
  <1>1. /\ call[w].pc = "extend_lock" /\ b \in Bookings /\ b # "none"
        /\ Rows(b) /\ Holds(b) /\ Tended(b) /\ Place(w, b)
        /\ \A v \in Workers \ {w} : call[v].booking # b
    BY InCall DEF ExtendLock
  <1>2. /\ Only(w)
        /\ \/ call'[w].pc = "idle" /\ call'[w].booking = "none"
           \/ call'[w].pc = "extend_save" /\ call'[w].booking = b /\ lock[b] # "none"
    BY ReturnEffect, GotoEffect DEF ExtendLock, Typed, PCs
  <1>3. /\ UNCHANGED <<booking, expired, saga, outbox, hold, overtaken, intent, faults, revived>>
        /\ lock[b] # "none" => lock'[b] # "none"
        /\ \A c \in Bookings \ {b} : lock'[c] = lock[c]
    BY <1>1 DEF ExtendLock, Typed, TypeOK
  <1>4. Others(b)
    BY <1>1, <1>2, <1>3 DEF ExtendLock, Others, Kept, locks, Typed, TypeOK
  <1>5. Rows(b)'
    BY <1>1, <1>2, <1>3 DEF Rows, locks, Place, State, NoSaga, Reserved, Released
  <1>6. call'[w].booking = b => Place(w, b)'
    BY <1>1, <1>2, <1>3 DEF Place, locks, Copy
  <1>7. Holds(b)'
    BY <1>1, <1>2, <1>3 DEF Holds, locks, At, Only, Place, CompensationsWork
  <1>8. Tended(b)'
    BY <1>1, <1>2, <1>3 DEF Tended, At, Place, CompensationsWork
  <1> QED
    BY <1>1, <1>2, <1>3, <1>4, <1>5, <1>6, <1>7, <1>8, SoundStep DEF Typed

LEMMA ExtendSaveSound ==
  ASSUME Orderly, Typed, Locked, IInv, NEW w \in Workers, NEW b, b = call[w].booking, ExtendSave(w)
  PROVE  IInv'
  <1>1. /\ call[w].pc = "extend_save" /\ b \in Bookings /\ b # "none"
        /\ Rows(b) /\ Holds(b) /\ Tended(b) /\ Place(w, b)
        /\ \A v \in Workers \ {w} : call[v].booking # b
    BY InCall DEF ExtendSave
  <1>2. /\ Only(w) /\ call'[w].pc = "idle" /\ call'[w].booking = "none"
    BY ReturnEffect DEF ExtendSave, Typed
  <1>3. UNCHANGED <<booking, saga, outbox, locks, intent, faults, revived>>
    BY DEF ExtendSave
  <1>4. Others(b)
    BY <1>1, <1>2, <1>3 DEF ExtendSave, Others, Kept, locks, Typed, TypeOK
  <1>5. Rows(b)'
    BY <1>1, <1>2, <1>3 DEF Rows, locks, Place, State, NoSaga, Reserved, Released
  <1>6. call'[w].booking = b => Place(w, b)'
    BY <1>1, <1>2, <1>3 DEF Place, locks, Copy
  <1>7. Holds(b)'
    <2>1. hold[b] \subseteq Wants[b] /\ Wants[b] \ overtaken \subseteq hold[b]
      BY <1>1 DEF Locked, Place
    <2>2. Wants[b] \cap overtaken = {} => hold[b] = Wants[b]
      BY <2>1
    <2> QED  BY <1>1, <1>2, <1>3, <2>2 DEF Holds, locks, At, Only
  <1>8. Tended(b)'
    BY <1>1, <1>2, <1>3 DEF Tended, At, Place, CompensationsWork
  <1> QED
    BY <1>1, <1>2, <1>3, <1>4, <1>5, <1>6, <1>7, <1>8, SoundStep DEF Typed

LEMMA CrashSound ==
  ASSUME Orderly, Typed, Locked, IInv, NEW w \in Workers, NEW b, b = call[w].booking, Crash(w)
  PROVE  IInv'
  <1>1. /\ call[w].pc # "idle" /\ b \in Bookings /\ b # "none"
        /\ Rows(b) /\ Holds(b) /\ Tended(b) /\ Place(w, b)
        /\ \A v \in Workers \ {w} : call[v].booking # b
    BY InCall DEF Crash
  <1>2. /\ Only(w) /\ call'[w].pc = "idle" /\ call'[w].booking = "none"
    BY ReturnEffect DEF Crash, Typed
  <1>3. /\ UNCHANGED <<booking, expired, saga, outbox, locks, intent, revived>>
        /\ "crash" \in faults'.kinds /\ faults.kinds \subseteq faults'.kinds
    BY FaultEffect DEF Crash, Typed
  <1>4. Others(b)
    BY <1>1, <1>2, <1>3 DEF Crash, Others, Kept, locks, Typed, TypeOK
  <1>5. Rows(b)'
    BY <1>1, <1>2, <1>3 DEF Rows, locks, Place, State, NoSaga, Reserved, Released
  <1>6. call'[w].booking = b => Place(w, b)'
    BY <1>1, <1>2, <1>3 DEF Place, locks, Copy
  <1>7. Holds(b)'
    BY <1>1, <1>2, <1>3 DEF Holds, locks, At, Only, Place, CompensationsWork
  <1>8. Tended(b)'
    BY <1>1, <1>2, <1>3 DEF Tended, At, Place, CompensationsWork
  <1> QED
    BY <1>1, <1>2, <1>3, <1>4, <1>5, <1>6, <1>7, <1>8, SoundStep DEF Typed

-----------------------------------------------------------------------------
(* A call begins: with Serial, nobody is about its booking.                *)
LEMMA BegunSound ==
  ASSUME Orderly, Typed, Locked, IInv, NEW w \in Workers, NEW b \in Bookings,
         NEW pc \in {"complete_find", "cancel_find", "extend_lock"}, Begin(w, b, pc),
         UNCHANGED <<booking, expired, saga, outbox, locks, intent, faults, revived>>,
         booking[b] # "none",
         pc = "complete_find" =>
           booking[b] \in {"PENDING", "BOOKED", "CANCELLED"} /\ intent[b] = "paid"
  PROVE  IInv'
  <1>1. Rows(b) /\ Holds(b) /\ Tended(b)
    BY DEF IInv, Sound
  <1>2. TypeOK /\ pc \in PCs
    BY DEF Typed, PCs
  <1>3. Only(w)
    BY <1>2, BeginEffect
  <1>4. call'[w].pc = pc
    BY <1>2, BeginEffect
  <1>5. call'[w].booking = b
    BY <1>2, BeginEffect
  <1>6. call[w].pc = "idle"
    BY <1>2, BeginEffect
  <1>7. \A v \in Workers : call[v].booking # b
    BY <1>2, BeginEffect DEF Orderly
  <1>8. call[w].booking = "none"
    BY <1>6 DEF Typed, Placed
  <1>9. Others(b)
    BY DEF Others, Kept, locks
  <1>10. Rows(b)'
    BY <1>1 DEF Rows, locks, State, NoSaga, Reserved, Released
  <1>11. Place(w, b)'
    BY <1>4 DEF Place, locks
  <1>12. Holds(b)'
    BY <1>1, <1>3, <1>4, <1>5, <1>7 DEF Holds, locks, At, Only, CompensationsWork
  <1>13. Tended(b)'
    BY <1>1, <1>3, <1>4, <1>5, <1>7 DEF Tended, At, Only, CompensationsWork
  <1> QED
    BY <1>3, <1>5, <1>7, <1>8, <1>9, <1>10, <1>11, <1>12, <1>13, SoundStep

LEMMA StartsSound ==
  ASSUME Orderly, Typed, Locked, IInv, NEW w \in Workers, NEW b \in Bookings,
         StartComplete(w, b) \/ StartCancel(w, b) \/ StartExtend(w, b)
  PROVE  IInv'
  <1>1. CASE StartComplete(w, b)
    <2>1. /\ Begin(w, b, "complete_find") /\ booking[b] # "none"
          /\ UNCHANGED <<booking, expired, saga, outbox, locks, intent, faults, revived>>
          /\ intent[b] = "paid"
      BY <1>1 DEF StartComplete, Orderly
    <2>2. booking[b] \in {"PENDING", "BOOKED", "CANCELLED"}
      BY <2>1 DEF IInv, Sound, Rows
    <2> QED  BY <2>1, <2>2, BegunSound
  <1>2. CASE StartCancel(w, b)
    BY <1>2, BegunSound DEF StartCancel
  <1>3. CASE StartExtend(w, b)
    BY <1>3, BegunSound DEF StartExtend
  <1> QED  BY <1>1, <1>2, <1>3

LEMMA CreateSagaSound ==
  ASSUME Orderly, Typed, Locked, IInv, NEW w \in Workers, NEW b \in Bookings, CreateSaga(w, b)
  PROVE  IInv'
  <1>1. /\ Rows(b) /\ saga[b] = NoSaga
        /\ booking[b] = "none" /\ \A v \in Workers : call[v].booking # b
    BY DEF CreateSaga, IInv, Sound, Rows
  <1>2. call[w].booking = "none"
    BY DEF CreateSaga, Typed, Placed
  <1>3. /\ Only(w) /\ call'[w].pc = "step1" /\ call'[w].booking = b
    BY DEF CreateSaga, Only, Typed, TypeOK, Idle
  <1>4. /\ saga'[b] = State("INITIATED", 0)
        /\ UNCHANGED <<booking, expired, outbox, locks, intent, faults, revived>>
    BY DEF CreateSaga, Typed, TypeOK
  <1>5. Others(b)
    BY DEF CreateSaga, Others, Kept, locks, Typed, TypeOK
  <1>6. Rows(b)'
    BY <1>1, <1>4 DEF Rows, locks, State, NoSaga, Reserved, Released
  <1>7. Place(w, b)'
    BY <1>1, <1>3, <1>4 DEF Place, locks
  <1>8. Holds(b)'
    BY <1>1, <1>3, <1>4 DEF Holds, locks, At, Only
  <1>9. Tended(b)'
    BY <1>1, <1>4 DEF Tended
  <1> QED
    BY <1>1, <1>2, <1>3, <1>4, <1>5, <1>6, <1>7, <1>8, <1>9, SoundStep

(* The customer pays; time passes.                                         *)
LEMMA TimeSound ==
  ASSUME Orderly, Typed, Locked, IInv, NEW b \in Bookings,
         Pay(b) \/ BookingExpires(b) \/ LockLapses(b) \/ LockExpires(b)
  PROVE  IInv'
  <1>1. /\ Alone(b) /\ Rows(b) /\ Holds(b) /\ Tended(b)
        /\ \A w \in Workers : call[w].booking = b => Place(w, b)
    BY DEF IInv, Sound
  <1>2. /\ call' = call /\ faults' = faults
        /\ UNCHANGED <<booking, saga, outbox, overtaken, revived>>
        /\ intent'[b] # "none" <=> intent[b] # "none"
        /\ intent[b] = "paid" => intent'[b] = "paid"
        /\ expired[b] => expired'[b]
        /\ \/ hold'[b] = hold[b]
           \/ hold'[b] = {} /\ (expired[b] \/ booking[b] = "BOOKED")
        /\ \/ lock'[b] = "none" => lock[b] = "none"
           \/ \A w \in Workers : call[w].pc = "extend_save" => call[w].booking # b
    BY DEF Pay, BookingExpires, LockLapses, LockExpires, locks, Typed, TypeOK
  <1>3. Others(b)
    BY DEF Pay, BookingExpires, LockLapses, LockExpires, Others, Kept, locks, Typed, TypeOK
  <1>4. Alone(b)'
    BY <1>1, <1>2 DEF Alone
  <1>5. Rows(b)'
    BY <1>1, <1>2 DEF Rows, locks, Reserved, Released
  <1>6. Holds(b)'
    BY <1>1, <1>2 DEF Holds, locks, At, CompensationsWork, Place
  <1>7. Tended(b)'
    BY <1>1, <1>2 DEF Tended, At, CompensationsWork
  <1>8. ASSUME NEW w \in Workers, call'[w].booking = b  PROVE Place(w, b)'
    BY <1>1, <1>2, <1>8 DEF Place, Copy
  <1>9. ASSUME NEW c \in Bookings \ {b}  PROVE Sound(c)'
    <2>1. Sound(c) /\ c \in Bookings
      BY DEF IInv
    <2> QED  BY <1>2, <1>3, <2>1, Untouched DEF Others
  <1>10. Sound(b)'
    BY <1>4, <1>5, <1>6, <1>7, <1>8 DEF Sound
  <1> QED  BY <1>9, <1>10 DEF IInv

LEMMA NextSound ==
  ASSUME Orderly, Typed, Locked, IInv, [Next]_vars
  PROVE  IInv'
  <1>1. ASSUME NEW w \in Workers, Create(w)  PROVE IInv'
    BY <1>1, CreateSagaSound, Step1Sound, Step1FailsSound, Step2LockSound, Step2RefusedSound,
       Step2LockFailsSound, Step2SaveSound, Step2SaveFailsSound, Step3Sound, Step3FailsSound,
       ReloadSound, ReloadFailsSound,
       PaymentIntentSound, PaymentIntentFailsSound, MockPaymentSound
       DEF Create
  <1>2. ASSUME NEW w \in Workers, Completion(w)  PROVE IInv'
    BY <1>2, StartsSound, CompleteFindSound, CompleteSound, CompleteFailsSound,
       CompleteReleaseSound, CompleteReleaseFailsSound
       DEF Completion
  <1>3. ASSUME NEW w \in Workers, Cancellation(w)  PROVE IInv'
    BY <1>3, StartsSound, CancelFindSound, CompensatedSound, CompensateLocksSound,
       CompensateCommitSound, CompensateFailsSound
       DEF Cancellation
  <1>4. ASSUME NEW w \in Workers, Extension(w)  PROVE IInv'
    BY <1>4, StartsSound, ExtendLockSound, ExtendSaveSound DEF Extension
  <1>5. ASSUME NEW w \in Workers, Crash(w)  PROVE IInv'
    BY <1>5, CrashSound
  <1>6. ASSUME NEW b \in Bookings, Pay(b) \/ BookingExpires(b) \/ LockLapses(b) \/ LockExpires(b)
        PROVE  IInv'
    BY <1>6, TimeSound
  <1>7. CASE UNCHANGED vars
    BY <1>7 DEF vars, locks, IInv, Sound, Alone, Rows, Holds, Tended, Place, Copy, At,
       CompensationsWork, Reserved, Released
  <1> QED  BY <1>1, <1>2, <1>3, <1>4, <1>5, <1>6, <1>7 DEF Next

LEMMA InitSound == Init => IInv
  <1> SUFFICES ASSUME Init, NEW b \in Bookings  PROVE Sound(b)
    BY DEF IInv
  <1>1. /\ booking[b] = "none" /\ saga[b] = NoSaga /\ intent[b] = "none"
        /\ outbox[b] = [e \in EventTypes |-> 0]
        /\ \A w \in Workers : call[w].booking = "none"
        /\ b # "none"
    BY ConstantsAssumption DEF ConstantsAssumption, Init, Idle
  <1>2. Reserved(b) = 0 /\ Released(b) = 0
    BY <1>1 DEF Reserved, Released, EventTypes
  <1> QED  BY <1>1, <1>2 DEF Sound, Alone, Rows, Holds, Tended, At

-----------------------------------------------------------------------------
LEMMA AlwaysSound ==
  ASSUME Orderly
  PROVE  Spec => [](Typed /\ Locked /\ IInv)
  <1>1. Init => Typed /\ Locked /\ IInv
    BY InitTyped, InitLocked, InitSound
  <1>2. Typed /\ Locked /\ IInv /\ [Next]_vars => (Typed /\ Locked /\ IInv)'
    BY NextTyped, NextLocked, NextSound
  <1> QED  BY <1>1, <1>2, PTL DEF Spec

(* Steps, compensations, crashes and failures of all kinds leave the       *)
(* booking row, the saga row and the outbox telling one story, for all     *)
(* bookings at once, when calls for one booking do not overlap.            *)
THEOREM RowsStayAgreed ==
  ASSUME Orderly
  PROVE  Spec => []RowsAgree
  <1>1. Typed /\ IInv => RowsAgree
    <2> SUFFICES ASSUME Typed, IInv, "commit" \notin faults.kinds, NEW b \in Bookings \ revived
                 PROVE  RowsAgree!2!(b)
      BY DEF RowsAgree
    <2>1. Rows(b)
      BY DEF IInv, Sound
    <2> QED  BY <2>1 DEF Rows, State
  <1> QED  BY <1>1, AlwaysSound, PTL

(* compensate never commits a cancellation recorded past step 2 before the *)
(* seats are free, and nothing locks them for that booking afterwards.     *)
THEOREM CancellationFreesSeats ==
  ASSUME Orderly
  PROVE  Spec => []CancelledFreesSeats
  <1>1. Typed /\ IInv => CancelledFreesSeats
    BY DEF IInv, Sound, Rows, CancelledFreesSeats
  <1> QED  BY <1>1, AlwaysSound, PTL

(* While compensations succeed, a booking with time left to be paid for    *)
(* holds all the seats it asked for, whatever else fails on the way and    *)
(* whoever extends a lock, unless one of its seats was taken over from a   *)
(* lapsed lock.                                                            *)
THEOREM PendingKeepsSeats ==
  ASSUME Orderly
  PROVE  Spec => []PendingHoldsSeats
  <1>1. Typed /\ IInv => PendingHoldsSeats
    BY DEF IInv, Sound, Holds, At, PendingHoldsSeats
  <1> QED  BY <1>1, AlwaysSound, PTL

(* While compensations succeed, no failure of a step of createBooking or   *)
(* of the payment intent leaves a booking that nobody finishes or undoes,  *)
(* but for the one that nothing compensates: that of the read after step 3.*)
THEOREM CreationFinishedOrUndone ==
  ASSUME Orderly
  PROVE  Spec => []NothingHalfCreated
  <1>1. Typed /\ IInv => NothingHalfCreated
    BY DEF IInv, Sound, Tended, At, NothingHalfCreated
  <1> QED  BY <1>1, AlwaysSound, PTL

(* Four steps write the booking or leave events: the others do neither.    *)
Writes(w) == Step1(w) \/ Step3(w) \/ Complete(w) \/ CompensateCommit(w)

LEMMA OnlyFourWrite ==
  ASSUME [Next]_vars
  PROVE  UNCHANGED <<booking, outbox>> \/ \E w \in Workers : Writes(w)
  BY DEF Next, Create, Completion, Cancellation, Extension, CreateSaga, Step1Fails, Step2Lock,
         Step2Refused, Step2LockFails, Step2Save, Step2SaveFails, Step3Fails, Reload, ReloadFails,
         PaymentIntent, PaymentIntentFails, MockPayment, StartComplete, CompleteFind, CompleteFails,
         CompleteRelease, CompleteReleaseFails, StartCancel, CancelFind,
         Compensated, CompensateLocks, CompensateFails, StartExtend, ExtendLock, ExtendSave,
         Crash, Pay, BookingExpires, LockLapses, LockExpires, vars, Writes

(* Only a completion writes over a cancelled booking, not the late steps of*)
(* its own creation.                                                       *)
LEMMA OnlyCompleted ==
  ASSUME Typed, IInv, [Next]_vars, NEW b \in Bookings,
         booking[b] = "CANCELLED", booking'[b] # "CANCELLED"
  PROVE  booking'[b] = "BOOKED" /\ intent[b] = "paid"
  <1>1. ASSUME NEW w \in Workers, Writes(w)
        PROVE  booking'[b] = "BOOKED" /\ intent[b] = "paid"
    <2>1. /\ call[w].pc \in {"step1", "step3", "complete_tx", "compensate_tx"}
          /\ call[w].booking \in Bookings /\ Place(w, call[w].booking)
      BY <1>1, InCall DEF Writes, Step1, Step3, Complete, CompensateCommit
    <2>2. call[w].booking = b
      BY <1>1
         DEF Writes, Step1, Step3, Complete, CompensateCommit, UpdateBooking, Typed, TypeOK
    <2>3. Complete(w)
      BY <1>1, <2>1, <2>2
         DEF Writes, Step1, Step3, CompensateCommit, UpdateBooking, Place, Typed, TypeOK
    <2>4. intent[b] = "paid"
      BY <2>1, <2>2, <2>3 DEF Complete, Place
    <2> QED  BY <2>2, <2>3, <2>4 DEF Complete, UpdateBooking, Typed, TypeOK
  <1> QED  BY <1>1, OnlyFourWrite

(* A cancelled booking comes back for a customer who paid only, whatever   *)
(* steps of its creation, retries and crashes come after the cancellation. *)
THEOREM RevivedByPayment ==
  ASSUME Orderly
  PROVE  Spec => OnlyPaymentRevives
  <1>1. Typed /\ IInv /\ [Next]_vars =>
          [\A b \in Bookings : booking[b] = "CANCELLED" /\ booking'[b] # "CANCELLED" =>
             booking'[b] = "BOOKED" /\ intent[b] = "paid"]_booking
    BY OnlyCompleted
  <1> QED  BY <1>1, AlwaysSound, PTL DEF Spec, OnlyPaymentRevives

-----------------------------------------------------------------------------
(* The events a booking leaves behind: one reservation and one release at  *)
(* most, whatever fails, and confirmations only once it is paid for.       *)
Confirmed(b) == outbox[b]["flight.confirm-seats"]

Tallied(b) ==
  /\ booking[b] = "CANCELLED" /\ b \notin revived => Reserved(b) <= 1 /\ Released(b) <= 1
  /\ Confirmed(b) > 0 => booking[b] \in {"BOOKED", "CANCELLED"}

(* What a writing step stores, and for which booking.                      *)
LEMMA WritesEffect ==
  ASSUME Typed, NEW w \in Workers, Writes(w)
  PROVE  /\ call[w].booking \in Bookings /\ call[w].pc # "idle"
         /\ \A c \in Bookings \ {call[w].booking} :
              booking'[c] = booking[c] /\ outbox'[c] = outbox[c]
         /\ \E types : StoreEvents(call[w].booking, types)
  <1>1. call[w].pc # "idle"
    BY DEF Writes, Step1, Step3, Complete, CompensateCommit
  <1>2. call[w].booking \in Bookings
    BY <1>1, BusyBooking
  <1>3. \E types : StoreEvents(call[w].booking, types)
    BY DEF Writes, Step1, Step3, Complete, CompensateCommit
  <1>4. \A c \in Bookings \ {call[w].booking} : booking'[c] = booking[c]
    BY DEF Writes, Step1, Step3, Complete, CompensateCommit, UpdateBooking, Typed, TypeOK
  <1>5. \A c \in Bookings \ {call[w].booking} : outbox'[c] = outbox[c]
    BY <1>2, <1>3, StoreEventsEffect DEF Typed
  <1> QED  BY <1>1, <1>2, <1>3, <1>4, <1>5

(* Rows are added to the outbox, never taken away.                         *)
LEMMA OutboxGrows ==
  ASSUME Typed, [Next]_vars, NEW b \in Bookings, NEW e \in EventTypes
  PROVE  outbox[b][e] \in Nat /\ outbox'[b][e] \in Nat /\ outbox[b][e] <= outbox'[b][e]
  <1>1. outbox[b][e] \in Nat
    BY DEF Typed, TypeOK
  <1>2. ASSUME NEW w \in Workers, Writes(w), call[w].booking = b
        PROVE  outbox'[b][e] = outbox[b][e] \/ outbox'[b][e] = outbox[b][e] + 1
    <2>1. PICK types : StoreEvents(b, types)
      BY <1>2, WritesEffect
    <2> QED  BY <2>1, StoreEventsEffect DEF Typed
  <1>3. ASSUME NEW w \in Workers, Writes(w), call[w].booking # b  PROVE outbox'[b] = outbox[b]
    BY <1>3, WritesEffect
  <1>4. outbox'[b][e] = outbox[b][e] \/ outbox'[b][e] = outbox[b][e] + 1
    BY <1>2, <1>3, OnlyFourWrite
  <1> QED  BY <1>1, <1>4

(* A booking completed after its cancellation is never taken for another.  *)
LEMMA RevivedGrows ==
  ASSUME [Next]_vars
  PROVE  revived \subseteq revived'
  <1>1. ASSUME NEW w \in Workers, Create(w) \/ Extension(w) \/ Cancellation(w) \/ Crash(w)
        PROVE  revived' = revived
    BY <1>1 DEF Create, Extension, Cancellation, CreateSaga, Step1, Step1Fails, Step2Lock,
       Step2Refused, Step2LockFails, Step2Save, Step2SaveFails, Step3, Step3Fails, Reload,
       ReloadFails, PaymentIntent, PaymentIntentFails, MockPayment, StartCancel, CancelFind,
       Compensated, CompensateLocks, CompensateCommit, CompensateFails, StartExtend, ExtendLock,
       ExtendSave, Crash
  <1>2. ASSUME NEW w \in Workers, Completion(w)  PROVE revived \subseteq revived'
    BY <1>2 DEF Completion, StartComplete, CompleteFind, Complete, CompleteFails, CompleteRelease,
       CompleteReleaseFails
  <1> QED
    BY <1>1, <1>2 DEF Next, Pay, BookingExpires, LockLapses, LockExpires, vars

LEMMA NextTallied ==
  ASSUME Typed, IInv, [Next]_vars, NEW b \in Bookings, Tallied(b)
  PROVE  Tallied(b)'
  <1> USE RevivedGrows
  <1>1. CASE UNCHANGED <<booking, outbox>>
    BY <1>1 DEF Tallied, Reserved, Released, Confirmed
  <1>2. ASSUME NEW w \in Workers, Writes(w), call[w].booking # b  PROVE Tallied(b)'
    <2>1. booking'[b] = booking[b] /\ outbox'[b] = outbox[b]
      BY <1>2, WritesEffect
    <2> QED  BY <2>1 DEF Tallied, Reserved, Released, Confirmed
  <1>3. ASSUME NEW w \in Workers, Writes(w), call[w].booking = b  PROVE Tallied(b)'
    <2>1. Rows(b) /\ Place(w, b) /\ Confirmed(b) \in Nat
      <3>1. "flight.confirm-seats" \in EventTypes
        BY DEF EventTypes
      <3> QED  BY <1>3, <3>1, WritesEffect, InCall DEF Confirmed, Typed, TypeOK
    <2>2. ASSUME NEW types, StoreEvents(b, types), "flight.confirm-seats" \notin types
          PROVE  Confirmed(b)' = Confirmed(b)
      <3>1. "flight.confirm-seats" \in EventTypes
        BY DEF EventTypes
      <3> QED  BY <2>2, <3>1, StoreEventsEffect DEF Confirmed, Typed
    <2>3. CASE Step1(w)
      <3>1. booking[b] = "none" /\ booking'[b] = "INITIATED"
        BY <1>3, <2>1, <2>3 DEF Step1, Place, Typed, TypeOK
      <3>2. Confirmed(b)' = Confirmed(b)
        BY <1>3, <2>2, <2>3 DEF Step1
      <3> QED  BY <3>1, <3>2 DEF Tallied
    <2>4. CASE Step3(w)
      <3>1. booking[b] = "INITIATED" /\ booking'[b] = "PENDING"
        BY <1>3, <2>1, <2>4 DEF Step3, UpdateBooking, Place, Typed, TypeOK
      <3>2. Confirmed(b)' = Confirmed(b)
        BY <1>3, <2>2, <2>4 DEF Step3
      <3> QED  BY <3>1, <3>2 DEF Tallied
    <2>5. CASE Complete(w)
      <3>1. booking'[b] = "BOOKED"
        BY <1>3, <2>1, <2>5 DEF Complete, UpdateBooking, Place, Typed, TypeOK
      <3> QED  BY <3>1 DEF Tallied
    <2>6. CASE CompensateCommit(w)
      <3>1. booking[b] \in {"INITIATED", "PENDING", "BOOKED"} /\ booking'[b] = "CANCELLED"
        BY <1>3, <2>1, <2>6
           DEF CompensateCommit, UpdateBooking, Place, Copy, Rows, State, Typed, TypeOK, BookingStatus
      <3>2. b \notin revived => Reserved(b) <= 1 /\ Released(b) = 0
        BY <2>1, <3>1 DEF Rows
      <3>3. Reserved(b)' = Reserved(b) /\ Released(b)' \in {Released(b), Released(b) + 1}
        BY <1>3, <2>6, Counted DEF CompensateCommit, Typed
      <3> QED  BY <3>1, <3>2, <3>3 DEF Tallied
    <2> QED  BY <1>3, <2>3, <2>4, <2>5, <2>6 DEF Writes
  <1> QED  BY <1>1, <1>2, <1>3, OnlyFourWrite

(* The saga's invariant with the tally.                                    *)
SagaInv == Typed /\ Locked /\ IInv /\ \A b \in Bookings : Tallied(b)

LEMMA AlwaysTallied ==
  ASSUME Orderly
  PROVE  Spec => []SagaInv
  <1>1. Init => SagaInv
    <2> SUFFICES ASSUME Init  PROVE SagaInv
      OBVIOUS
    <2>1. \A b \in Bookings : booking[b] = "none" /\ Confirmed(b) = 0
      BY DEF Init, Confirmed, EventTypes
    <2> QED  BY <2>1, InitTyped, InitLocked, InitSound DEF SagaInv, Tallied
  <1>2. SagaInv /\ [Next]_vars => SagaInv'
    BY NextTyped, NextLocked, NextSound, NextTallied DEF SagaInv
  <1> QED  BY <1>1, <1>2, PTL DEF Spec

(* What the rows of a booking allow the flight to have been told.          *)
LEMMA EventsFit ==
  ASSUME SagaInv, NEW b \in Bookings
  PROVE  /\ Reserved(b) \in Nat /\ Released(b) \in Nat /\ Confirmed(b) \in Nat
         /\ Reserved(b) > 0 => Live(b) \/ booking[b] = "CANCELLED"
         /\ Confirmed(b) > 0 => booking[b] \in {"BOOKED", "CANCELLED"}
         /\ b \notin revived =>
              /\ Reserved(b) <= 1 /\ Released(b) <= 1
              /\ Live(b) => Reserved(b) = 1 /\ Released(b) = 0
              /\ Released(b) > 0 => booking[b] = "CANCELLED"
              /\ "commit" \notin faults.kinds /\ ~Live(b) => Released(b) = Reserved(b)
  <1>1. Rows(b) /\ Tallied(b) /\ booking[b] \in BookingStatus
    BY DEF SagaInv, IInv, Sound, Typed, TypeOK
  <1>2. Reserved(b) \in Nat /\ Released(b) \in Nat /\ Confirmed(b) \in Nat
    BY DEF SagaInv, Typed, TypeOK, EventTypes, Reserved, Released, Confirmed
  <1> QED  BY <1>1, <1>2 DEF Rows, Tallied, Live, BookingStatus

-----------------------------------------------------------------------------
(* The system as a whole: what is proved of its parts holds of them here.  *)
Inventory == INSTANCE FlightInventoryProofs WITH
  Events    <- SeatEvents,
  Kind      <- [e \in SeatEvents |-> e[2]],
  BookingOf <- [e \in SeatEvents |-> e[1]],
  Count     <- [e \in SeatEvents |-> SeatCount[e[1]]]

LEMMA FlightAssumption == Inventory!ConstantsAssumption
  BY SystemAssumption, ConstantsAssumption
     DEF SystemAssumption, ConstantsAssumption, Inventory!ConstantsAssumption, SeatEvents

LEMMA SystemRunsSaga == SystemSpec => Spec
  <1>1. SystemInit => Init
    BY DEF SystemInit
  <1>2. [SystemNext]_<<vars, flight>> => [Next]_vars
    BY DEF SystemNext, RelayEvent, Consume
  <1> QED  BY <1>1, <1>2, PTL DEF SystemSpec, Spec

LEMMA SystemRunsFlight == SystemSpec => Inventory!Spec
  <1>1. SystemInit => Inventory!Init
    BY DEF SystemInit, Flight!Init, Inventory!Init, Flight!Idle, Inventory!Idle,
           Flight!NoEvent, Inventory!NoEvent
  <1>2. ASSUME NEW e \in SeatEvents, RelayEvent(e)  PROVE Inventory!Publish(e)
    BY <1>2 DEF RelayEvent, Flight!Publish, Inventory!Publish
  <1>3. ASSUME NEW e \in SeatEvents, Flight!ReservationExpires(e)
        PROVE  Inventory!ReservationExpires(e)
    BY <1>3 DEF Flight!ReservationExpires, Inventory!ReservationExpires
  <1>4. ASSUME NEW e \in SeatEvents, NEW c \in Consumers, Flight!Deliver(c, e)
        PROVE  Inventory!Deliver(c, e)
    BY <1>4 DEF Flight!Deliver, Inventory!Deliver
  <1>5. ASSUME NEW c \in Consumers, Flight!Handle(c)  PROVE Inventory!Handle(c)
    BY <1>5 DEF Flight!Handle, Inventory!Handle,
       Flight!CheckProcessed, Inventory!CheckProcessed, Flight!ReserveSeats, Inventory!ReserveSeats,
       Flight!ConfirmSeats, Inventory!ConfirmSeats, Flight!ReleaseSeats, Inventory!ReleaseSeats,
       Flight!Rejected, Inventory!Rejected, Flight!Acknowledge, Inventory!Acknowledge,
       Flight!Ack, Inventory!Ack, Flight!Goto, Inventory!Goto, Flight!Requeue, Inventory!Requeue,
       Flight!MarkProcessed, Inventory!MarkProcessed, Flight!Idle, Inventory!Idle,
       Flight!NoEvent, Inventory!NoEvent
  <1>6. ASSUME NEW c \in Consumers, Flight!Fails(c)  PROVE Inventory!Fails(c)
    BY <1>6 DEF Flight!Fails, Inventory!Fails, Flight!Requeue, Inventory!Requeue,
       Flight!Idle, Inventory!Idle, Flight!NoEvent, Inventory!NoEvent
  <1>7. [SystemNext]_<<vars, flight>> => [Inventory!Next]_(Inventory!vars)
    BY <1>2, <1>3, <1>4, <1>5, <1>6 DEF SystemNext, Consume, Inventory!Next, flight, Inventory!vars
  <1> QED  BY <1>1, <1>7, PTL DEF SystemSpec, Inventory!Spec

(* What transactions have stored stays stored.                             *)
LEMMA StoredGrows ==
  ASSUME Typed, [Next]_vars
  PROVE  Stored \subseteq Stored'
  <1> SUFFICES ASSUME NEW e \in SeatEvents, e \in Stored  PROVE e \in Stored'
    BY DEF Stored
  <1>1. /\ e[1] \in Bookings /\ RoutingKey[e[2]] \in EventTypes /\ e[3] \in Nat
    BY ConstantsAssumption DEF ConstantsAssumption, SeatEvents, RoutingKey, EventTypes
  <1>2. /\ outbox[e[1]][RoutingKey[e[2]]] \in Nat /\ outbox'[e[1]][RoutingKey[e[2]]] \in Nat
        /\ outbox[e[1]][RoutingKey[e[2]]] <= outbox'[e[1]][RoutingKey[e[2]]]
    BY <1>1, OutboxGrows
  <1>3. e[3] <= outbox[e[1]][RoutingKey[e[2]]]
    BY DEF Stored
  <1>4. e[3] <= outbox'[e[1]][RoutingKey[e[2]]]
    BY <1>1, <1>2, <1>3
  <1> QED  BY <1>4 DEF Stored

(* Consuming an event neither stores nor sends one.                        *)
LEMMA ConsumeRelaysNothing ==
  ASSUME Consume
  PROVE  Stored' = Stored /\ copies' = copies
  <1>1. copies' = copies
    BY DEF Consume, Flight!ReservationExpires, Flight!Deliver, Flight!Handle,
           Flight!Fails, Flight!CheckProcessed, Flight!ReserveSeats, Flight!ConfirmSeats,
           Flight!ReleaseSeats, Flight!Rejected, Flight!Acknowledge
  <1>2. Stored' = Stored
    BY DEF Consume, vars, Stored
  <1> QED  BY <1>1, <1>2

LEMMA AlwaysTyped == SystemSpec => [](Typed /\ Inventory!Typed)
  <1>1. Spec => []Typed
    BY InitTyped, NextTyped, PTL DEF Spec
  <1>2. Inventory!Spec => []Inventory!Typed
    BY FlightAssumption, Inventory!AlwaysTyped
  <1> QED  BY <1>1, <1>2, SystemRunsSaga, SystemRunsFlight, PTL

(* What lies between the two services is the relay that Outbox implements: *)
(* the commits of the saga store events, the flight gets copies of stored  *)
(* events only (storeEvent inside the transactions, publishEvent).         *)
THEOREM SystemRelays == SystemSpec => Relay!Spec
  <1>1. SystemInit => Relay!Init
    BY ConstantsAssumption
       DEF ConstantsAssumption, SystemInit, Init, Flight!Init, Relay!Init, Stored, SeatEvents,
           RoutingKey, EventTypes
  <1>2. ASSUME Typed, Next, UNCHANGED flight
        PROVE  Relay!Store(Stored' \ Stored) /\ Stored' \ Stored \in SUBSET SeatEvents
    <2>1. Stored \subseteq Stored' /\ Stored' \subseteq SeatEvents /\ copies' = copies
      BY <1>2, StoredGrows DEF Stored, flight
    <2> QED  BY <2>1 DEF Relay!Store
  <1>3. ASSUME NEW e \in SeatEvents, RelayEvent(e)  PROVE Relay!Send(e)
    BY <1>3 DEF RelayEvent
  <1>4. ASSUME UNCHANGED <<vars, flight>>  PROVE UNCHANGED <<Stored, copies>>
    BY <1>4 DEF vars, flight, Stored
  <1>5. Typed /\ [SystemNext]_<<vars, flight>> => [Relay!Next]_<<Stored, copies>>
    BY <1>2, <1>3, <1>4, ConsumeRelaysNothing DEF SystemNext, Relay!Next
  <1> QED  BY <1>1, <1>5, AlwaysTyped, PTL DEF SystemSpec, Relay!Spec

(* Hence what the flight was ever sent is stored.                          *)
OnlyStored == \A e \in SeatEvents : copies[e] > 0 => e \in Stored

LEMMA AlwaysOnlyStored == SystemSpec => []OnlyStored
  <1>1. Relay!Init => OnlyStored
    BY DEF Relay!Init, OnlyStored
  <1>2. ASSUME Inventory!Typed, OnlyStored, [Relay!Next]_<<Stored, copies>>
        PROVE  OnlyStored'
    <2>1. ASSUME NEW events \in SUBSET SeatEvents, Relay!Store(events)  PROVE OnlyStored'
      BY <1>2, <2>1 DEF OnlyStored, Relay!Store
    <2>2. ASSUME NEW e \in SeatEvents, Relay!Send(e)  PROVE OnlyStored'
      <3>1. copies \in [SeatEvents -> Nat]
        BY <1>2 DEF Inventory!Typed, Inventory!TypeOK
      <3> QED  BY <1>2, <2>2, <3>1 DEF OnlyStored, Relay!Send
    <2>3. CASE UNCHANGED <<Stored, copies>>
      BY <1>2, <2>3 DEF OnlyStored
    <2> QED  BY <1>2, <2>1, <2>2, <2>3 DEF Relay!Next
  <1> QED  BY <1>1, <1>2, AlwaysTyped, SystemRelays, PTL DEF Relay!Spec

(* The two parts and what lies between them.                               *)
SystemInv == SagaInv /\ Inventory!Typed /\ processed \subseteq Stored

LEMMA AlwaysSystemInv ==
  ASSUME Orderly
  PROVE  SystemSpec => []SystemInv
  <1>1. Inventory!Spec => [](Inventory!Typed /\ Inventory!Sent)
    BY FlightAssumption, Inventory!AlwaysSent
  <1>2. SagaInv /\ Inventory!Typed /\ Inventory!Sent /\ OnlyStored => SystemInv
    BY DEF SystemInv, OnlyStored, Inventory!Sent, Inventory!InPlay, Inventory!Typed, Inventory!TypeOK
  <1> QED
    BY <1>1, <1>2, SystemRunsSaga, SystemRunsFlight, AlwaysTallied, AlwaysOnlyStored, PTL

(* What the flight has carried out was left behind by the booking.         *)
LEMMA AppliedStored ==
  ASSUME SystemInv, NEW b \in Bookings
  PROVE  /\ Applied(b, "reserve") => Reserved(b) > 0
         /\ Applied(b, "release") => Released(b) > 0
         /\ Applied(b, "confirm") => Confirmed(b) > 0
  <1>1. Reserved(b) \in Nat /\ Released(b) \in Nat /\ Confirmed(b) \in Nat
    BY EventsFit DEF SystemInv
  <1>2. ASSUME NEW kind, NEW n \in 1..MaxRows, <<b, kind, n>> \in processed
        PROVE  n >= 1 /\ n <= outbox[b][RoutingKey[kind]]
    <2>1. <<b, kind, n>> \in Stored
      BY <1>2 DEF SystemInv
    <2> QED  BY <2>1, ConstantsAssumption DEF ConstantsAssumption, Stored
  <1>3. ASSUME NEW kind, Applied(b, kind), outbox[b][RoutingKey[kind]] \in Nat
        PROVE  outbox[b][RoutingKey[kind]] > 0
    <2>1. PICK n \in 1..MaxRows : <<b, kind, n>> \in processed
      BY <1>3 DEF Applied
    <2>2. n >= 1 /\ n <= outbox[b][RoutingKey[kind]] /\ n \in Nat
      BY <1>2, <2>1, ConstantsAssumption DEF ConstantsAssumption
    <2> QED  BY <1>3, <2>2
  <1> QED  BY <1>1, <1>3 DEF RoutingKey, Reserved, Released, Confirmed

(* Seats are given back, taken and confirmed for the bookings that stand   *)
(* for it, for every number of copies, retries and failures on the way     *)
(* (step 3, completeBooking, compensate, and the handlers of the flight).  *)
THEOREM FlightMatchesBookings ==
  ASSUME Orderly
  PROVE  SystemSpec => []FlightFollowsBookings
  <1>1. SystemInv => FlightFollowsBookings
    <2> SUFFICES ASSUME SystemInv, NEW b \in Bookings \ revived
                 PROVE  FlightFollowsBookings!(b)
      BY DEF FlightFollowsBookings
    <2>1. SagaInv
      BY DEF SystemInv
    <2> QED  BY <2>1, AppliedStored, EventsFit
  <1> QED  BY <1>1, AlwaysSystemInv, PTL

-----------------------------------------------------------------------------
(* Seats counted by event and by booking.                                  *)
AppliedTo(kind) == {b \in Bookings : Applied(b, kind)}

(* The inventory counts as this module does.                               *)
LEMMA SameSums ==
  /\ \A S : Inventory!IsFiniteSet(S) <=> IsFiniteSet(S)
  /\ \A W, S : Inventory!Weighed(W, S) <=> Weighed(W, S)
  /\ \A W, S : Inventory!SumOver(W, S) = SumOver(W, S)
  <1>1. \A S : Inventory!IsFiniteSet(S) <=> IsFiniteSet(S)
    BY DEF Inventory!IsFiniteSet, IsFiniteSet
  <1>2. \A W, S : Inventory!Weighed(W, S) <=> Weighed(W, S)
    BY DEF Inventory!Weighed, Weighed
  <1>3. \A W, S : Inventory!SumOver(W, S) = SumOver(W, S)
    BY DEF Inventory!SumOver, SumOver, Inventory!MapThenSumSet, MapThenSumSet,
           Inventory!MapThenFoldSet, MapThenFoldSet
  <1> QED  BY <1>1, <1>2, <1>3

LEMMA SeatsForIsSum == \A bookings : SeatsFor(bookings) = SumOver(SeatCount, bookings)
  BY DEF SeatsFor, SumOver

LEMMA SeatsByBooking ==
  ASSUME SystemInv, revived = {}, NEW kind \in {"reserve", "release"}
  PROVE  /\ IsFiniteSet(AppliedTo(kind)) /\ Weighed(SeatCount, AppliedTo(kind))
         /\ Inventory!SeatsOf(kind) = SeatsFor(AppliedTo(kind))
  <1> DEFINE Count == [e \in SeatEvents |-> SeatCount[e[1]]]
             E == Inventory!Of(kind)
             B == AppliedTo(kind)
             event == [b \in B |-> <<b, kind, 1>>]
             booked == [e \in E |-> e[1]]
  <1>1. /\ IsFiniteSet(E) /\ Weighed(Count, E)
    <2>1. Inventory!IsFiniteSet(E) /\ Inventory!Weighed(Count, E)
      BY FlightAssumption, Inventory!OfFinite DEF SystemInv, Inventory!Typed, Inventory!Booked
    <2> HIDE DEF E, Count
    <2> QED  BY <2>1, SameSums
  <1>2. Inventory!SeatsOf(kind) = SumOver(Count, E)
    <2>1. Inventory!SeatsOf(kind) = Inventory!SumOver(Count, E)
      BY FlightAssumption, Inventory!SeatsOfIsSum
    <2> HIDE DEF E, Count
    <2> QED  BY <2>1, SameSums
  <1>3. E = {e \in processed : e[2] = kind} /\ processed \subseteq SeatEvents
    BY DEF Inventory!Of, SystemInv, Inventory!Typed, Inventory!TypeOK
  <1>4. ASSUME NEW e \in E
        PROVE  e = <<e[1], kind, 1>> /\ e[1] \in B /\ Count[e] = SeatCount[e[1]]
    <2>1. e \in SeatEvents /\ e \in processed /\ e[2] = kind /\ e \in Stored
      BY <1>3 DEF SystemInv
    <2>2. PICK b \in Bookings, n \in 1..MaxRows : e = <<b, kind, n>>
      BY <2>1 DEF SeatEvents
    <2>3. n <= outbox[b][RoutingKey[kind]]
      BY <2>1, <2>2 DEF Stored
    <2>4. Reserved(b) \in Nat /\ Released(b) \in Nat /\ Reserved(b) <= 1 /\ Released(b) <= 1
      BY EventsFit DEF SystemInv
    <2>5. n = 1
      BY <2>3, <2>4, ConstantsAssumption DEF ConstantsAssumption, RoutingKey, Reserved, Released
    <2>6. b \in B
      BY <2>1, <2>2 DEF AppliedTo, Applied
    <2> QED  BY <2>1, <2>2, <2>5, <2>6
  <1>5. ASSUME NEW b \in B
        PROVE  <<b, kind, 1>> \in E /\ Count[<<b, kind, 1>>] = SeatCount[b] /\ SeatCount[b] \in Nat
    <2>1. PICK n \in 1..MaxRows : <<b, kind, n>> \in processed
      BY DEF AppliedTo, Applied
    <2>2. <<b, kind, n>> \in E
      BY <1>3, <2>1
    <2>3. <<b, kind, 1>> \in E
      BY <1>4, <2>2
    <2>4. <<b, kind, 1>> \in SeatEvents /\ b \in Bookings
      BY <1>3, <2>3 DEF AppliedTo
    <2> QED  BY <2>3, <2>4, SystemAssumption DEF SystemAssumption
  <1>6. Weighed(SeatCount, B)
    BY <1>5 DEF Weighed
  <1>7. event \in [B -> E] /\ \A b, c \in B : event[b] = event[c] => b = c
    <2> HIDE DEF E, B
    <2> QED  BY <1>5
  <1>8. booked \in [E -> B] /\ \A d, e \in E : booked[d] = booked[e] => d = e
    <2> HIDE DEF E, B, Count
    <2> QED  BY <1>4
  <1>9. IsFiniteSet(B)
    <2>1. event \in Injection(B, E)
      <3> HIDE DEF event, E, B
      <3> QED  BY <1>7 DEF Injection, IsInjective
    <2> HIDE DEF event, E, B
    <2> QED  BY <1>1, <2>1, FS_Injection
  <1>10. /\ \A b \in B : SeatCount[b] <= Count[event[b]]
         /\ \A e \in E : Count[e] <= SeatCount[booked[e]]
    <2>1. \A b \in B : SeatCount[b] \in Nat /\ event[b] = <<b, kind, 1>>
      BY <1>6 DEF Weighed
    <2>2. \A e \in E : Count[e] \in Nat /\ booked[e] = e[1]
      BY <1>1 DEF Weighed
    <2>3. ASSUME NEW b \in B  PROVE SeatCount[b] <= Count[event[b]]
      <3>1. Count[<<b, kind, 1>>] = SeatCount[b]
        BY <1>5
      <3> HIDE DEF event, booked, E, B, Count
      <3> QED  BY <2>1, <3>1
    <2>4. ASSUME NEW e \in E  PROVE Count[e] <= SeatCount[booked[e]]
      <3>1. Count[e] = SeatCount[e[1]]
        BY <1>4
      <3> HIDE DEF event, booked, E, B, Count
      <3> QED  BY <2>2, <3>1
    <2> HIDE DEF event, booked, E, B, Count
    <2> QED  BY <2>3, <2>4
  <1> HIDE DEF event, booked, E, B, Count
  <1>11. SumOver(SeatCount, B) <= SumOver(Count, E)
    BY <1>1, <1>6, <1>7, <1>9, <1>10, SumMatched
  <1>12. SumOver(Count, E) <= SumOver(SeatCount, B)
    BY <1>1, <1>6, <1>8, <1>9, <1>10, SumMatched
  <1>13. SumOver(Count, E) \in Nat /\ SumOver(SeatCount, B) \in Nat
    BY <1>1, <1>6, <1>9, SumNat
  <1>14. SumOver(Count, E) = SumOver(SeatCount, B)
    BY <1>11, <1>12, <1>13
  <1> QED  BY <1>2, <1>6, <1>9, <1>14, SeatsForIsSum DEF B

(* The inventory in terms of the bookings.                                 *)
LEMMA SeatsBalance ==
  ASSUME SystemInv, revived = {}
  PROVE  /\ available \in Nat /\ Capacity \in Nat
         /\ SeatsFor(AppliedTo("reserve")) \in Nat /\ SeatsFor(AppliedTo("release")) \in Nat
         /\ available = Capacity - SeatsFor(AppliedTo("reserve")) + SeatsFor(AppliedTo("release"))
  <1>1. available \in Nat /\ Capacity \in Nat
    BY SystemAssumption DEF SystemAssumption, SystemInv, Inventory!Typed, Inventory!TypeOK
  <1>2. available = Capacity - Inventory!SeatsOf("reserve") + Inventory!SeatsOf("release")
    BY DEF SystemInv, Inventory!Typed, Inventory!Booked, Inventory!SeatsConserved
  <1>3. ASSUME NEW kind \in {"reserve", "release"}
        PROVE  /\ SeatsFor(AppliedTo(kind)) \in Nat
               /\ Inventory!SeatsOf(kind) = SeatsFor(AppliedTo(kind))
    BY SeatsByBooking, SeatsForIsSum, SumNat
  <1> QED  BY <1>1, <1>2, <1>3

(* Where every release follows its reservation, the bookings whose seats   *)
(* are taken account for the difference.                                   *)
LEMMA SeatsTaken ==
  ASSUME SystemInv, revived = {}, AppliedTo("release") \subseteq AppliedTo("reserve")
  PROVE  /\ SeatsFor(AppliedTo("reserve") \ AppliedTo("release")) \in Nat
         /\ available + SeatsFor(AppliedTo("reserve") \ AppliedTo("release")) = Capacity
  <1> DEFINE A == AppliedTo("reserve")
             B == AppliedTo("release")
             C == A \ B
  <1>1. IsFiniteSet(A) /\ Weighed(SeatCount, A) /\ IsFiniteSet(B) /\ Weighed(SeatCount, B)
    BY SeatsByBooking
  <1>2. IsFiniteSet(C) /\ Weighed(SeatCount, C)
    BY <1>1, FS_Subset DEF Weighed
  <1>3. C \cup B = A /\ C \cap B = {}
    OBVIOUS
  <1>4. /\ available \in Nat /\ Capacity \in Nat /\ SeatsFor(A) \in Nat /\ SeatsFor(B) \in Nat
        /\ available = Capacity - SeatsFor(A) + SeatsFor(B)
    BY SeatsBalance
  <1> HIDE DEF A, B, C
  <1>5. SumOver(SeatCount, A) = SumOver(SeatCount, C) + SumOver(SeatCount, B)
    BY <1>1, <1>2, <1>3, SumParts
  <1>6. SumOver(SeatCount, C) \in Nat
    BY <1>2, SumNat
  <1>7. SeatsFor(C) \in Nat /\ available + SeatsFor(C) = Capacity
    BY <1>4, <1>5, <1>6, SeatsForIsSum
  <1> QED  BY <1>7 DEF A, B, C

(* The seats taken for bookings exist, as long as no release overtakes its *)
(* reservation.                                                            *)
THEOREM SeatsExist ==
  ASSUME Orderly
  PROVE  SystemSpec => []NotOversold
  <1>1. SystemInv => NotOversold
    <2> SUFFICES ASSUME SystemInv, revived = {},
                        \A b \in Bookings : Applied(b, "release") => Applied(b, "reserve")
                 PROVE  SeatsFor({b \in Bookings : Applied(b, "reserve") /\ ~Applied(b, "release")})
                          <= Capacity
      BY DEF NotOversold
    <2>1. {b \in Bookings : Applied(b, "reserve") /\ ~Applied(b, "release")}
            = AppliedTo("reserve") \ AppliedTo("release")
      BY DEF AppliedTo
    <2>2. AppliedTo("release") \subseteq AppliedTo("reserve")
      BY DEF AppliedTo
    <2> DEFINE taken == SeatsFor(AppliedTo("reserve") \ AppliedTo("release"))
    <2>3. /\ available \in Nat /\ Capacity \in Nat /\ taken \in Nat
          /\ available + taken = Capacity
      BY <2>2, SeatsTaken, SeatsBalance
    <2>4. taken <= Capacity
      <3> HIDE DEF taken
      <3> QED  BY <2>3
    <2> QED  BY <2>1, <2>4
  <1> QED  BY <1>1, AlwaysSystemInv, PTL

(* Once everything stored is carried out, what is free and what the live   *)
(* bookings have is the capacity: each failed or cancelled booking has     *)
(* given back what it took.                                                *)
THEOREM SeatsReconcile ==
  ASSUME Orderly
  PROVE  SystemSpec => []SeatsAddUp
  <1>1. SystemInv => SeatsAddUp
    <2> SUFFICES ASSUME SystemInv, "commit" \notin faults.kinds, revived = {}, Stored \subseteq processed
                 PROVE  available + SeatsFor({b \in Bookings : Live(b)}) = Capacity
      BY DEF SeatsAddUp
    <2>1. ASSUME NEW b \in Bookings
          PROVE  /\ Applied(b, "reserve") <=> Reserved(b) > 0
                 /\ Applied(b, "release") <=> Released(b) > 0
      <3>1. ASSUME NEW kind \in {"reserve", "release"}, outbox[b][RoutingKey[kind]] > 0,
                   outbox[b][RoutingKey[kind]] \in Nat
            PROVE  Applied(b, kind)
        <4>1. 1 \in 1..MaxRows
          BY ConstantsAssumption, SystemAssumption DEF ConstantsAssumption, SystemAssumption
        <4>2. <<b, kind, 1>> \in Stored
          BY <3>1, <4>1 DEF Stored, SeatEvents
        <4> QED  BY <4>1, <4>2 DEF Applied
      <3>2. Reserved(b) \in Nat /\ Released(b) \in Nat
        BY EventsFit DEF SystemInv
      <3> QED  BY <3>1, <3>2, AppliedStored DEF RoutingKey, Reserved, Released
    <2>2. ASSUME NEW b \in Bookings
          PROVE  /\ Applied(b, "release") => Applied(b, "reserve")
                 /\ Live(b) <=> Applied(b, "reserve") /\ ~Applied(b, "release")
      <3>1. SagaInv
        BY DEF SystemInv
      <3> QED  BY <2>1, <3>1, EventsFit
    <2>3. {b \in Bookings : Live(b)} = AppliedTo("reserve") \ AppliedTo("release")
      BY <2>2 DEF AppliedTo
    <2>4. AppliedTo("release") \subseteq AppliedTo("reserve")
      BY <2>2 DEF AppliedTo
    <2> QED  BY <2>3, <2>4, SeatsTaken
  <1> QED  BY <1>1, AlwaysSystemInv, PTL
=============================================================================
