--------------------------- MODULE SeatLockProofs ---------------------------
(***************************************************************************)
(* Proofs about SeatLock, for any bookings, seats, workers and lifetimes:  *)
(* type correctness; mutual exclusion when the library is used in the      *)
(* Orderly way; and, with extensions, that a lock ends as a whole.         *)
(***************************************************************************)
EXTENDS SeatLock, TLAPS

-----------------------------------------------------------------------------
(* Type correctness: every step of the library leaves well-formed keys,    *)
(* claims and calls, and a worker only ever acts for a booking it serves.  *)
LEMMA TypeStep == TypeOK /\ [Next]_vars => TypeOK'
<1> SUFFICES ASSUME TypeOK, [Next]_vars PROVE TypeOK'
  OBVIOUS
<1> USE ConstantsAssumption
<1>a. /\ Idle \in Calls /\ Idle.pc = "idle"
      /\ NoSeatKey \in SeatKeys /\ ~Exists(NoSeatKey)
      /\ NoBookingKey \in BookingKeys /\ ~Exists(NoBookingKey)
      /\ NoClaim \in Claims
  BY DEF Idle, Calls, PCs, NoSeatKey, SeatKeys, NoBookingKey, BookingKeys, NoClaim, Claims, Exists
(* A step that gives one worker a well-typed call.                         *)
<1>b. ASSUME NEW w \in Workers, NEW c \in Calls, c.pc # "idle" => c.booking \in Serves[w],
             call' = [call EXCEPT ![w] = c]
      PROVE  /\ call' \in [Workers -> Calls]
             /\ \A v \in Workers : call'[v].pc # "idle" => call'[v].booking \in Serves[v]
  BY <1>b DEF TypeOK
<1>c. ASSUME NEW w \in Workers, Return(w)
      PROVE  /\ call' \in [Workers -> Calls]
             /\ \A v \in Workers : call'[v].pc # "idle" => call'[v].booking \in Serves[v]
  BY <1>a, <1>b, <1>c DEF Return
(* A step that changes nothing but calls.                                  *)
<1>d. ASSUME UNCHANGED <<clock, seatKey, bookingKey, claim, overtaken>>,
             call' \in [Workers -> Calls],
             \A v \in Workers : call'[v].pc # "idle" => call'[v].booking \in Serves[v]
      PROVE  TypeOK'
  BY <1>d DEF TypeOK, Unexpired
<1>1. ASSUME NEW w \in Workers, NEW b \in Serves[w], NEW seats \in SUBSET Seats,
             LockSeats(w, b, seats)
      PROVE  TypeOK'
  <2> DEFINE c == [Idle EXCEPT !.pc = "lock_get", !.booking = b, !.seats = seats,
                               !.timestamp = clock]
  <2>1. c \in Calls /\ c.booking \in Serves[w]
    BY DEF TypeOK, Idle, Calls, PCs
  <2>2. call' = [call EXCEPT ![w] = c]
    BY <1>1 DEF LockSeats
  <2> HIDE DEF c
  <2>3. QED
    BY <1>1, <1>b, <1>d, <2>1, <2>2 DEF LockSeats
<1>2. ASSUME NEW w \in Workers, LockReuse(w) PROVE TypeOK'
  <2>1. claim' \in [Bookings -> Claims]
    BY <1>2 DEF LockReuse, TypeOK, Claims, BookingKeys
  <2>2. QED
    BY <1>2, <1>c, <2>1 DEF LockReuse, TypeOK, Unexpired
<1>3. ASSUME NEW w \in Workers, LockMiss(w) PROVE TypeOK'
  <2> DEFINE c == [call[w] EXCEPT !.pc = "lock_eval"]
  <2>1. c \in Calls /\ c.booking \in Serves[w]
    BY <1>3 DEF LockMiss, TypeOK, Calls, PCs
  <2>2. Return(w) \/ call' = [call EXCEPT ![w] = c]
    BY <1>3 DEF LockMiss, Goto
  <2> HIDE DEF c
  <2>3. QED
    BY <1>3, <1>b, <1>c, <1>d, <2>1, <2>2 DEF LockMiss
<1>4. ASSUME NEW w \in Workers, LockEval(w) PROVE TypeOK'
  <2> DEFINE sk == [booking |-> call[w].booking, expiresAt |-> call[w].timestamp + LOCK_TTL,
                    dropAt |-> clock + LOCK_TTL]
             bk == [seats |-> call[w].seats, timestamp |-> call[w].timestamp,
                    dropAt |-> clock + LOCK_TTL]
  <2>1. call[w] \in Calls /\ call[w].booking \in Bookings
    BY <1>4 DEF LockEval, TypeOK
  <2>a. sk \in SeatKeys /\ bk \in BookingKeys /\ sk.dropAt > clock /\ bk.dropAt > clock
    BY <2>1 DEF SeatKeys, BookingKeys, Calls, TypeOK
  <2>b. \/ UNCHANGED <<seatKey, bookingKey>>
        \/ /\ seatKey' = [s \in Seats |-> IF s \in call[w].seats THEN sk ELSE seatKey[s]]
           /\ bookingKey' = [bookingKey EXCEPT ![call[w].booking] = bk]
    BY <1>4 DEF LockEval
  <2>c. clock' = clock
    BY <1>4 DEF LockEval
  <2> HIDE DEF sk, bk
  <2>2. seatKey' \in [Seats -> SeatKeys] /\ \A s \in Seats : Unexpired(seatKey[s])'
    BY <2>a, <2>b, <2>c DEF TypeOK, Unexpired
  <2>3. bookingKey' \in [Bookings -> BookingKeys]
        /\ \A b \in Bookings : Unexpired(bookingKey[b])'
    BY <2>1, <2>a, <2>b, <2>c DEF TypeOK, Unexpired
  <2>4. claim' \in [Bookings -> Claims]
    <3> DEFINE cl == [seats |-> call[w].seats, until |-> call[w].timestamp + LOCK_TTL]
    <3>1. cl \in Claims
      BY <2>1 DEF Claims, Calls
    <3>2. claim' = claim \/ claim' = [claim EXCEPT ![call[w].booking] = cl]
      BY <1>4 DEF LockEval
    <3> HIDE DEF cl
    <3>3. QED
      BY <3>1, <3>2 DEF TypeOK
  <2>5. overtaken' \in SUBSET Seats
    <3>1. overtaken' = overtaken \/ \E S \in SUBSET call[w].seats : overtaken' = overtaken \cup S
      BY <1>4 DEF LockEval
    <3>2. QED
      BY <2>1, <3>1 DEF TypeOK, Calls
  <2>6. call' \in [Workers -> Calls] /\ \A v \in Workers : call'[v].pc # "idle" => call'[v].booking \in Serves[v]
    BY <1>4, <1>c DEF LockEval
  <2>7. QED
    BY <2>c, <2>2, <2>3, <2>4, <2>5, <2>6 DEF TypeOK
<1>5. ASSUME NEW w \in Workers, NEW b \in Serves[w], ReleaseSeats(w, b) PROVE TypeOK'
  <2> DEFINE c == [Idle EXCEPT !.pc = "release_get", !.booking = b]
  <2>1. c \in Calls /\ c.booking \in Serves[w]
    BY DEF Idle, Calls, PCs
  <2>2. call' = [call EXCEPT ![w] = c] /\ claim' \in [Bookings -> Claims]
    BY <1>5, <1>a DEF ReleaseSeats, TypeOK
  <2> HIDE DEF c
  <2>3. QED
    BY <1>5, <1>b, <2>1, <2>2 DEF ReleaseSeats, TypeOK, Unexpired
<1>6. ASSUME NEW w \in Workers, ReleaseGet(w) PROVE TypeOK'
  <2> DEFINE c == [call[w] EXCEPT !.pc = "release_del",
                                  !.seats = bookingKey[call[w].booking].seats]
  <2>1. c \in Calls /\ c.booking \in Serves[w]
    BY <1>6 DEF ReleaseGet, TypeOK, Calls, PCs, BookingKeys
  <2>2. Return(w) \/ call' = [call EXCEPT ![w] = c]
    BY <1>6 DEF ReleaseGet
  <2> HIDE DEF c
  <2>3. QED
    BY <1>6, <1>b, <1>c, <1>d, <2>1, <2>2 DEF ReleaseGet
<1>7. ASSUME NEW w \in Workers, NEW s \in Seats, ReleaseDelSeat(w, s) PROVE TypeOK'
  <2> DEFINE c == [call[w] EXCEPT !.seats = @ \ {s}]
  <2>1. c \in Calls /\ c.booking \in Serves[w]
    BY <1>7 DEF ReleaseDelSeat, TypeOK, Calls
  <2>2. call' = [call EXCEPT ![w] = c]
    BY <1>7 DEF ReleaseDelSeat
  <2>3. seatKey' \in [Seats -> SeatKeys] /\ \A r \in Seats : Unexpired(seatKey[r])'
    BY <1>7, <1>a DEF ReleaseDelSeat, TypeOK, Unexpired
  <2>4. claim' \in [Bookings -> Claims]
    BY <1>7, <1>a DEF ReleaseDelSeat, TypeOK
  <2> HIDE DEF c
  <2>5. QED
    BY <1>7, <1>b, <2>1, <2>2, <2>3, <2>4 DEF ReleaseDelSeat, TypeOK, Unexpired
<1>8. ASSUME NEW w \in Workers, ReleaseDelBooking(w) PROVE TypeOK'
  <2>1. bookingKey' \in [Bookings -> BookingKeys]
        /\ \A b \in Bookings : Unexpired(bookingKey[b])'
    BY <1>8, <1>a DEF ReleaseDelBooking, TypeOK, Unexpired
  <2>2. claim' \in [Bookings -> Claims]
    BY <1>8, <1>a DEF ReleaseDelBooking, TypeOK
  <2>3. QED
    BY <1>8, <1>c, <2>1, <2>2 DEF ReleaseDelBooking, TypeOK, Unexpired
<1>9. ASSUME NEW w \in Workers, NEW b \in Serves[w], ExtendLock(w, b) PROVE TypeOK'
  <2> DEFINE c == [Idle EXCEPT !.pc = "extend_get", !.booking = b]
  <2>1. c \in Calls /\ c.booking \in Serves[w]
    BY DEF Idle, Calls, PCs
  <2>2. call' = [call EXCEPT ![w] = c]
    BY <1>9 DEF ExtendLock
  <2> HIDE DEF c
  <2>3. QED
    BY <1>9, <1>b, <1>d, <2>1, <2>2 DEF ExtendLock
<1>10. ASSUME NEW w \in Workers, ExtendGet(w) PROVE TypeOK'
  <2> DEFINE c == [call[w] EXCEPT !.pc = "extend_ttl",
                                  !.seats = bookingKey[call[w].booking].seats]
  <2>1. c \in Calls /\ c.booking \in Serves[w]
    BY <1>10 DEF ExtendGet, TypeOK, Calls, PCs, BookingKeys
  <2>2. Return(w) \/ call' = [call EXCEPT ![w] = c]
    BY <1>10 DEF ExtendGet
  <2> HIDE DEF c
  <2>3. QED
    BY <1>10, <1>b, <1>c, <1>d, <2>1, <2>2 DEF ExtendGet
<1>11. ASSUME NEW w \in Workers, NEW s \in Seats, ExtendTtlSeat(w, s) PROVE TypeOK'
  <2> DEFINE c == [call[w] EXCEPT !.seats = @ \ {s}, !.ttl = [@ EXCEPT ![s] = Ttl(seatKey[s])]]
  <2>1. Ttl(seatKey[s]) \in Nat
    BY DEF TypeOK, Unexpired, Ttl, SeatKeys
  <2>2. c \in Calls /\ c.booking \in Serves[w]
    BY <1>11, <2>1 DEF ExtendTtlSeat, TypeOK, Calls
  <2>3. call' = [call EXCEPT ![w] = c]
    BY <1>11 DEF ExtendTtlSeat
  <2> HIDE DEF c
  <2>4. QED
    BY <1>11, <1>b, <1>d, <2>2, <2>3 DEF ExtendTtlSeat
<1>12. ASSUME NEW w \in Workers, ExtendTtlBooking(w) PROVE TypeOK'
  <2> DEFINE c == [call[w] EXCEPT !.pc = "extend_expire",
                                  !.seats = {s \in Seats : call[w].ttl[s] > 0},
                                  !.bookingTtl = Ttl(bookingKey[call[w].booking])]
  <2>a. call[w].booking \in Bookings
    BY <1>12 DEF ExtendTtlBooking, TypeOK
  <2>1. Ttl(bookingKey[call[w].booking]) \in Nat
    BY <2>a DEF TypeOK, Unexpired, Ttl, BookingKeys
  <2>2. c \in Calls /\ c.booking \in Serves[w]
    BY <1>12, <2>1 DEF ExtendTtlBooking, TypeOK, Calls, PCs
  <2>3. call' = [call EXCEPT ![w] = c]
    BY <1>12 DEF ExtendTtlBooking
  <2> HIDE DEF c
  <2>4. QED
    BY <1>12, <1>b, <1>d, <2>2, <2>3 DEF ExtendTtlBooking
<1>13. ASSUME NEW w \in Workers, NEW s \in Seats, ExtendExpireSeat(w, s) PROVE TypeOK'
  <2> DEFINE c == [call[w] EXCEPT !.seats = @ \ {s}]
  <2>a. call[w] \in Calls
    BY DEF TypeOK
  <2>1. c \in Calls /\ c.booking \in Serves[w]
    BY <1>13, <2>a DEF ExtendExpireSeat, TypeOK, Calls
  <2>b. call[w].ttl[s] \in Nat
    BY <2>a DEF Calls
  <2>2. call' = [call EXCEPT ![w] = c]
    BY <1>13 DEF ExtendExpireSeat
  <2>3. seatKey' \in [Seats -> SeatKeys] /\ \A r \in Seats : Unexpired(seatKey[r])'
    BY <1>13, <2>b DEF ExtendExpireSeat, Expire, TypeOK, Unexpired, Exists, SeatKeys
  <2> HIDE DEF c
  <2>4. QED
    BY <1>13, <1>b, <2>1, <2>2, <2>3 DEF ExtendExpireSeat, TypeOK, Unexpired
<1>14. ASSUME NEW w \in Workers, ExtendExpireBooking(w) PROVE TypeOK'
  <2>1. call[w].bookingTtl \in Nat
    BY DEF TypeOK, Calls
  <2>2. bookingKey' \in [Bookings -> BookingKeys]
        /\ \A b \in Bookings : Unexpired(bookingKey[b])'
    BY <1>14, <2>1 DEF ExtendExpireBooking, Expire, TypeOK, Unexpired, Exists, BookingKeys
  <2>3. claim' \in [Bookings -> Claims]
    BY <1>14 DEF ExtendExpireBooking, TypeOK, Claims
  <2>4. QED
    BY <1>14, <1>c, <2>2, <2>3 DEF ExtendExpireBooking, TypeOK, Unexpired
<1>15. ASSUME NEW w \in Workers, Crash(w) PROVE TypeOK'
  BY <1>15, <1>c, <1>d DEF Crash
<1>16. CASE Tick
  <2>1. seatKey' \in [Seats -> SeatKeys] /\ \A s \in Seats : Unexpired(seatKey[s])'
    BY <1>16, <1>a DEF Tick, TypeOK, Unexpired, SeatKeys
  <2>2. bookingKey' \in [Bookings -> BookingKeys]
        /\ \A b \in Bookings : Unexpired(bookingKey[b])'
    BY <1>16, <1>a DEF Tick, TypeOK, Unexpired, BookingKeys
  <2>3. QED
    BY <1>16, <2>1, <2>2 DEF Tick, TypeOK
<1>17. CASE UNCHANGED vars
  BY <1>17 DEF vars, TypeOK, Unexpired
<1>18. QED
  BY <1>1, <1>2, <1>3, <1>4, <1>5, <1>6, <1>7, <1>8, <1>9, <1>10, <1>11, <1>12,
     <1>13, <1>14, <1>15, <1>16, <1>17 DEF Next, Lock, Release, Extend

(* Every reachable state of the lock library is well typed.                *)
THEOREM TypeCorrect == Spec => []TypeOK
<1>1. Init => TypeOK
  BY ConstantsAssumption DEF Init, TypeOK, PCs, NoSeatKey, NoBookingKey, NoClaim, Idle,
     SeatKeys, BookingKeys, Calls, Claims, Unexpired, Exists
<1>2. QED
  BY <1>1, TypeStep, PTL DEF Spec

-----------------------------------------------------------------------------
(* The inductive invariant.                                                *)
Owns(b, s) == Exists(seatKey[s]) /\ seatKey[s].booking = b

(* Nobody is extending, and a lock call's timestamp is the current time.   *)
CallsOrderly ==
  \A w \in Workers :
    /\ call[w].pc \notin {"extend_get", "extend_ttl", "extend_expire"}
    /\ call[w].pc \in {"lock_get", "lock_eval"} => call[w].timestamp = clock

(* The payload of a key and its TTL agree.                                 *)
ExpiriesAgree ==
  /\ \A s \in Seats : Exists(seatKey[s]) =>
       /\ seatKey[s].booking \in Bookings
       /\ seatKey[s].dropAt > clock
       /\ seatKey[s].expiresAt = seatKey[s].dropAt
  /\ \A b \in Bookings : Exists(bookingKey[b]) =>
       /\ bookingKey[b].dropAt > clock
       /\ bookingKey[b].timestamp + LOCK_TTL = bookingKey[b].dropAt

(* A seat key is covered by its owner's booking key ...                    *)
SeatsCovered ==
  \A s \in Seats : \A b \in Bookings : Owns(b, s) =>
    /\ Exists(bookingKey[b])
    /\ s \in bookingKey[b].seats
    /\ bookingKey[b].dropAt = seatKey[s].dropAt

(* ... and the other way round, unless the booking is being released.      *)
BookingsBacked ==
  \A b \in Bookings : Exists(bookingKey[b]) =>
    \/ \A s \in bookingKey[b].seats : Owns(b, s)
    \/ \E w \in Workers : call[w].pc = "release_del" /\ call[w].booking = b

(* A release has still to delete exactly the seat keys its booking owns.   *)
ReleasesExact ==
  \A w \in Workers : call[w].pc = "release_del" =>
    /\ Exists(bookingKey[call[w].booking])
    /\ \A s \in Seats : s \in call[w].seats <=> Owns(call[w].booking, s)

(* A booking about to be locked has no lock.                               *)
LocksNew ==
  \A w \in Workers : call[w].pc = "lock_eval" => ~Exists(bookingKey[call[w].booking])

(* A live claim is the booking key, and nobody is releasing it.            *)
ClaimsKeyed ==
  \A b \in Bookings : Live(b) /\ claim[b].seats # {} =>
    /\ Exists(bookingKey[b])
    /\ claim[b].seats = bookingKey[b].seats
    /\ claim[b].until = bookingKey[b].dropAt
    /\ \A w \in Workers : call[w].pc \in {"release_get", "release_del"} => call[w].booking # b

IInv ==
  /\ TypeOK
  /\ CallsOrderly
  /\ ExpiriesAgree
  /\ SeatsCovered
  /\ BookingsBacked
  /\ ReleasesExact
  /\ LocksNew
  /\ ClaimsKeyed

-----------------------------------------------------------------------------
(* Two calls for one booking never overlap.                                *)
LEMMA OneWorker ==
  ASSUME Orderly, TypeOK, NEW v \in Workers, NEW w \in Workers,
         call[v].pc # "idle", call[w].pc # "idle", call[v].booking = call[w].booking
  PROVE  v = w
  BY DEF Orderly, TypeOK

(* Every step of an orderly use of the library preserves the invariant.    *)
LEMMA InvStep == ASSUME Orderly, IInv, [Next]_vars PROVE IInv'
<1> USE ConstantsAssumption
<1>a. TypeOK /\ TypeOK'
  BY TypeStep DEF IInv
<1>b. Idle.pc = "idle" /\ ~Exists(NoSeatKey) /\ ~Exists(NoBookingKey) /\ NoClaim.seats = {}
  BY DEF Idle, NoSeatKey, NoBookingKey, NoClaim, Exists
(* The conjuncts that only a step on Redis or on the claims can disturb.   *)
<1>c. ASSUME UNCHANGED <<clock, seatKey, bookingKey>> PROVE ExpiriesAgree' /\ SeatsCovered'
  BY <1>c DEF IInv, ExpiriesAgree, SeatsCovered, Owns, Exists
(* A step that only moves worker w, not into or out of a pipeline.         *)
<1>d. ASSUME NEW w \in Workers, NEW c, call' = [call EXCEPT ![w] = c],
             UNCHANGED <<clock, seatKey, bookingKey>>,
             call[w].pc # "release_del",
             c.pc \in {"idle", "lock_get", "release_get"},
             c.pc = "lock_get" => c.timestamp = clock
      PROVE  CallsOrderly' /\ BookingsBacked' /\ ReleasesExact' /\ LocksNew'
  <2>1. /\ call'[w] = c
        /\ \A v \in Workers : v # w => call'[v] = call[v]
    BY <1>a, <1>d DEF TypeOK
  <2>2. CallsOrderly'
    BY <1>d, <2>1 DEF IInv, CallsOrderly
  <2>3. BookingsBacked'
    BY <1>d, <2>1 DEF IInv, BookingsBacked, Owns, Exists
  <2>4. ReleasesExact'
    BY <1>d, <2>1 DEF IInv, ReleasesExact, Owns, Exists
  <2>5. LocksNew'
    BY <1>d, <2>1 DEF IInv, LocksNew, Exists
  <2>6. QED
    BY <2>2, <2>3, <2>4, <2>5
<1>1. ASSUME NEW w \in Workers, NEW b \in Serves[w], NEW seats \in SUBSET Seats,
             LockSeats(w, b, seats)
      PROVE  IInv'
  <2> DEFINE c == [Idle EXCEPT !.pc = "lock_get", !.booking = b, !.seats = seats,
                               !.timestamp = clock]
  <2>1. c.pc = "lock_get" /\ c.timestamp = clock
    BY DEF Idle
  <2>2. call' = [call EXCEPT ![w] = c] /\ call[w].pc = "idle"
        /\ UNCHANGED <<clock, seatKey, bookingKey, claim>>
    BY <1>1 DEF LockSeats
  <2> HIDE DEF c
  <2>3. ClaimsKeyed'
    BY <1>a, <2>1, <2>2 DEF IInv, ClaimsKeyed, TypeOK, Live, Exists
  <2>4. QED
    BY <1>a, <1>c, <1>d, <2>1, <2>2, <2>3 DEF IInv
<1>2. ASSUME NEW w \in Workers, LockReuse(w) PROVE IInv'
  <2>1. /\ call' = [call EXCEPT ![w] = Idle] /\ call[w].pc = "lock_get"
        /\ UNCHANGED <<clock, seatKey, bookingKey>>
    BY <1>2 DEF LockReuse, Return
  <2>2. ClaimsKeyed'
    <3> SUFFICES ASSUME NEW b \in Bookings, Live(b)', claim'[b].seats # {}
                 PROVE  /\ Exists(bookingKey[b])
                        /\ claim'[b].seats = bookingKey[b].seats
                        /\ claim'[b].until = bookingKey[b].dropAt
                        /\ \A v \in Workers :
                             call'[v].pc \in {"release_get", "release_del"} => call'[v].booking # b
      BY <2>1 DEF ClaimsKeyed, Exists
    <3>1. CASE b = call[w].booking
      <4>1. claim'[b] = [seats |-> bookingKey[b].seats, until |-> bookingKey[b].timestamp + LOCK_TTL]
            /\ Exists(bookingKey[b])
        BY <1>2, <1>a, <3>1 DEF LockReuse, TypeOK
      <4>2. \A v \in Workers : call'[v].pc \in {"release_get", "release_del"} => call'[v].booking # b
        BY <1>a, <1>b, <2>1, <3>1, OneWorker DEF TypeOK
      <4>3. QED
        BY <4>1, <4>2 DEF IInv, ExpiriesAgree
    <3>2. CASE b # call[w].booking
      <4>1. claim'[b] = claim[b]
        BY <1>2, <1>a, <3>2 DEF LockReuse, TypeOK
      <4>2. QED
        BY <1>a, <1>b, <2>1, <4>1 DEF IInv, ClaimsKeyed, Live, TypeOK
    <3>3. QED
      BY <3>1, <3>2
  <2>3. QED
    BY <1>a, <1>b, <1>c, <1>d, <2>1, <2>2 DEF IInv
<1>3. ASSUME NEW w \in Workers, LockMiss(w) PROVE IInv'
  <2> DEFINE c == [call[w] EXCEPT !.pc = "lock_eval"]
  <2>1. /\ call[w].pc = "lock_get" /\ ~Exists(bookingKey[call[w].booking])
        /\ UNCHANGED <<clock, seatKey, bookingKey, claim>>
    BY <1>3 DEF LockMiss
  <2>2. CASE Return(w)
    <3>1. ClaimsKeyed'
      BY <1>a, <1>b, <2>1, <2>2 DEF Return, IInv, ClaimsKeyed, TypeOK, Live, Exists
    <3>2. QED
      BY <1>a, <1>b, <1>c, <1>d, <2>1, <2>2, <3>1 DEF Return, IInv
  <2>3. CASE Goto(w, "lock_eval")
    <3>1. /\ call'[w] = c /\ c.pc = "lock_eval" /\ c.booking = call[w].booking
          /\ c.timestamp = call[w].timestamp
          /\ \A v \in Workers : v # w => call'[v] = call[v]
      BY <1>a, <2>3 DEF Goto, TypeOK, Calls
    <3> HIDE DEF c
    <3>2. CallsOrderly'
      BY <2>1, <3>1 DEF IInv, CallsOrderly
    <3>3. BookingsBacked'
      BY <2>1, <3>1 DEF IInv, BookingsBacked, Owns, Exists
    <3>4. ReleasesExact'
      BY <2>1, <3>1 DEF IInv, ReleasesExact, Owns, Exists
    <3>5. LocksNew'
      BY <2>1, <3>1 DEF IInv, LocksNew, Exists
    <3>6. ClaimsKeyed'
      BY <2>1, <3>1 DEF IInv, ClaimsKeyed, Live, Exists
    <3>7. QED
      BY <1>a, <1>c, <2>1, <3>2, <3>3, <3>4, <3>5, <3>6 DEF IInv
  <2>4. QED
    BY <1>3, <2>2, <2>3 DEF LockMiss
<1>4. ASSUME NEW w \in Workers, LockEval(w) PROVE IInv'
  <2> SUFFICES ASSUME NEW b \in Bookings, b = call[w].booking PROVE IInv'
    BY <1>4, <1>a DEF LockEval, TypeOK
  <2> DEFINE sk == [booking |-> b, expiresAt |-> clock + LOCK_TTL, dropAt |-> clock + LOCK_TTL]
             bk == [seats |-> call[w].seats, timestamp |-> clock, dropAt |-> clock + LOCK_TTL]
  <2>1. /\ call[w].pc = "lock_eval" /\ call[w].timestamp = clock /\ clock' = clock
        /\ call' = [call EXCEPT ![w] = Idle] /\ clock \in Nat
        /\ ~Exists(bookingKey[b])
    BY <1>4, <1>a DEF LockEval, Return, IInv, CallsOrderly, LocksNew, TypeOK
  <2>2. CASE UNCHANGED <<seatKey, bookingKey, claim>>
    <3>1. ClaimsKeyed'
      BY <1>a, <1>b, <2>1, <2>2 DEF IInv, ClaimsKeyed, TypeOK, Live, Exists
    <3>2. QED
      BY <1>a, <1>b, <1>c, <1>d, <2>1, <2>2, <3>1 DEF IInv
  <2>3. CASE FailedSeats(b, call[w].seats, call[w].timestamp) = {}
    (* A seat that is not refused has no key: a key's payload has not      *)
    (* expired, and the booking, having no key, owns no seat.              *)
    <3>1. \A s \in call[w].seats : ~Exists(seatKey[s])
      <4> SUFFICES ASSUME NEW s \in call[w].seats, Exists(seatKey[s]) PROVE FALSE
        OBVIOUS
      <4>1. s \in Seats
        BY <1>a DEF TypeOK, Calls
      <4>2. seatKey[s].booking # b
        BY <2>1, <4>1 DEF IInv, SeatsCovered, Owns
      <4>3. seatKey[s].expiresAt > call[w].timestamp
        BY <2>1, <4>1 DEF IInv, ExpiriesAgree
      <4>4. QED
        BY <2>3, <4>2, <4>3 DEF FailedSeats
    <3>2. \A s \in Seats : ~Owns(b, s)
      BY <2>1 DEF IInv, SeatsCovered
    <3>3. /\ seatKey' = [s \in Seats |-> IF s \in call[w].seats THEN sk ELSE seatKey[s]]
          /\ bookingKey' = [bookingKey EXCEPT ![b] = bk]
          /\ claim' = [claim EXCEPT ![b] = [seats |-> call[w].seats, until |-> clock + LOCK_TTL]]
      BY <1>4, <2>1, <2>3 DEF LockEval
    <3>4. /\ sk.booking = b /\ sk.expiresAt = clock + LOCK_TTL /\ sk.dropAt = clock + LOCK_TTL
          /\ bk.seats = call[w].seats /\ bk.timestamp = clock /\ bk.dropAt = clock + LOCK_TTL
          /\ clock + LOCK_TTL > clock /\ Exists(sk) /\ Exists(bk)
      BY <2>1 DEF Exists
    <3>5. /\ \A s \in Seats : seatKey'[s] = IF s \in call[w].seats THEN sk ELSE seatKey[s]
          /\ bookingKey'[b] = bk
          /\ \A c \in Bookings : c # b => bookingKey'[c] = bookingKey[c] /\ claim'[c] = claim[c]
          /\ claim'[b] = [seats |-> call[w].seats, until |-> clock + LOCK_TTL]
          /\ call'[w].pc = "idle"
          /\ \A v \in Workers : v # w => call'[v] = call[v]
      BY <1>a, <1>b, <2>1, <3>3 DEF TypeOK
    <3>6. /\ \A s \in Seats : Owns(b, s)' <=> s \in call[w].seats
          /\ \A c \in Bookings : c # b => \A s \in Seats : Owns(c, s)' <=> Owns(c, s)
      BY <3>1, <3>2, <3>4, <3>5 DEF Owns, Exists
    <3>7. \A v \in Workers : v # w /\ call[v].pc # "idle" => call[v].booking \in Bookings /\ call[v].booking # b
      BY <1>a, <2>1, OneWorker DEF TypeOK
    <3>8. call[w].seats \subseteq Seats
      BY <1>a DEF TypeOK, Calls
    <3> HIDE DEF sk, bk
    <3>9. CallsOrderly'
      BY <2>1, <3>5 DEF IInv, CallsOrderly
    <3>10. ExpiriesAgree'
      BY <2>1, <3>4, <3>5 DEF IInv, ExpiriesAgree, Exists
    <3>11. SeatsCovered'
      BY <2>1, <3>4, <3>5, <3>6 DEF IInv, SeatsCovered, Exists, Owns
    <3>12. BookingsBacked'
      BY <2>1, <3>4, <3>5, <3>6, <3>8, <1>a DEF IInv, BookingsBacked, Exists, TypeOK, BookingKeys
    <3>13. ReleasesExact'
      BY <2>1, <3>5, <3>6, <3>7 DEF IInv, ReleasesExact, Exists
    <3>14. LocksNew'
      BY <2>1, <3>5, <3>7 DEF IInv, LocksNew, Exists
    <3>15. ClaimsKeyed'
      BY <2>1, <3>4, <3>5, <3>7 DEF IInv, ClaimsKeyed, Live, Exists
    <3>16. QED
      BY <1>a, <3>9, <3>10, <3>11, <3>12, <3>13, <3>14, <3>15 DEF IInv
  <2>4. QED
    BY <1>4, <2>2, <2>3 DEF LockEval
<1>5. ASSUME NEW w \in Workers, NEW b \in Serves[w], ReleaseSeats(w, b) PROVE IInv'
  <2> DEFINE c == [Idle EXCEPT !.pc = "release_get", !.booking = b]
  <2>1. c.pc = "release_get" /\ c.booking = b
    BY DEF Idle
  <2>2. call' = [call EXCEPT ![w] = c] /\ call[w].pc = "idle"
        /\ UNCHANGED <<clock, seatKey, bookingKey>> /\ claim' = [claim EXCEPT ![b] = NoClaim]
    BY <1>5 DEF ReleaseSeats
  <2> HIDE DEF c
  <2>3. ClaimsKeyed'
    BY <1>a, <1>b, <2>1, <2>2 DEF IInv, ClaimsKeyed, TypeOK, Live, Exists
  <2>4. QED
    BY <1>a, <1>c, <1>d, <2>1, <2>2, <2>3 DEF IInv
<1>6. ASSUME NEW w \in Workers, ReleaseGet(w) PROVE IInv'
  <2> SUFFICES ASSUME NEW b \in Bookings, b = call[w].booking PROVE IInv'
    BY <1>6, <1>a DEF ReleaseGet, TypeOK
  <2>1. /\ call[w].pc = "release_get"
        /\ UNCHANGED <<clock, seatKey, bookingKey, claim>>
    BY <1>6, <1>a DEF ReleaseGet, TypeOK
  <2>2. CASE Return(w)
    <3>1. ClaimsKeyed'
      BY <1>a, <1>b, <2>1, <2>2 DEF Return, IInv, ClaimsKeyed, TypeOK, Live, Exists
    <3>2. QED
      BY <1>a, <1>b, <1>c, <1>d, <2>1, <2>2, <3>1 DEF Return, IInv
  <2>3. CASE Exists(bookingKey[b])
    <3>1. /\ call'[w].pc = "release_del" /\ call'[w].booking = b
          /\ call'[w].seats = bookingKey[b].seats
          /\ \A v \in Workers : v # w => call'[v] = call[v]
      BY <1>6, <1>a, <2>3 DEF ReleaseGet, TypeOK, Calls
    <3>2. \A s \in Seats : s \in bookingKey[b].seats <=> Owns(b, s)
      <4>1. \A v \in Workers : call[v].pc = "release_del" => call[v].booking # b
        <5> SUFFICES ASSUME NEW v \in Workers, call[v].pc = "release_del", call[v].booking = b
                     PROVE  FALSE
          OBVIOUS
        <5>1. v = w
          BY <1>a, <2>1, OneWorker
        <5>2. QED
          BY <2>1, <5>1
      <4>2. QED
        BY <2>1, <2>3, <4>1 DEF IInv, BookingsBacked, SeatsCovered
    <3>3. CallsOrderly'
      BY <2>1, <3>1 DEF IInv, CallsOrderly
    <3>4. BookingsBacked'
      BY <2>1, <3>1 DEF IInv, BookingsBacked, Owns, Exists
    <3>5. ReleasesExact'
      BY <2>1, <2>3, <3>1, <3>2 DEF IInv, ReleasesExact, Owns, Exists
    <3>6. LocksNew'
      BY <2>1, <3>1 DEF IInv, LocksNew, Exists
    <3>7. ClaimsKeyed'
      BY <2>1, <3>1 DEF IInv, ClaimsKeyed, Live, Exists
    <3>8. QED
      BY <1>a, <1>c, <2>1, <3>3, <3>4, <3>5, <3>6, <3>7 DEF IInv
  <2>4. QED
    BY <1>6, <2>2, <2>3 DEF ReleaseGet
<1>7. ASSUME NEW w \in Workers, NEW s \in Seats, ReleaseDelSeat(w, s) PROVE IInv'
  <2> SUFFICES ASSUME NEW b \in Bookings, b = call[w].booking PROVE IInv'
    BY <1>7, <1>a DEF ReleaseDelSeat, TypeOK
  <2>1. /\ call[w].pc = "release_del" /\ s \in call[w].seats
        /\ UNCHANGED <<clock, bookingKey>>
    BY <1>7, <1>a DEF ReleaseDelSeat, TypeOK
  <2>c. claim'[b] = NoClaim /\ \A c \in Bookings : c # b => claim'[c] = claim[c]
    BY <1>7, <1>a DEF ReleaseDelSeat, TypeOK
  <2>2. /\ ~Exists(seatKey'[s])
        /\ \A r \in Seats : r # s => seatKey'[r] = seatKey[r]
        /\ call'[w].pc = "release_del" /\ call'[w].booking = b /\ call'[w].seats = call[w].seats \ {s}
        /\ \A v \in Workers : v # w => call'[v] = call[v]
    BY <1>7, <1>a, <1>b DEF ReleaseDelSeat, TypeOK, Calls
  <2>3. Owns(b, s)
    BY <2>1 DEF IInv, ReleasesExact
  <2>4. /\ \A r \in Seats : Owns(b, r)' <=> Owns(b, r) /\ r # s
        /\ \A c \in Bookings : c # b => \A r \in Seats : Owns(c, r)' <=> Owns(c, r)
    BY <2>2, <2>3 DEF Owns, Exists
  <2>5. \A v \in Workers : v # w /\ call[v].pc # "idle" => call[v].booking \in Bookings /\ call[v].booking # b
    BY <1>a, <2>1, OneWorker DEF TypeOK
  <2>a. Exists(bookingKey[b])
    BY <2>1 DEF IInv, ReleasesExact
  <2>b. \A c \in Bookings : bookingKey[c].seats \subseteq Seats
    BY <1>a DEF TypeOK, BookingKeys
  <2>6. CallsOrderly'
    BY <2>1, <2>2 DEF IInv, CallsOrderly
  <2>7. ExpiriesAgree'
    BY <2>1, <2>2 DEF IInv, ExpiriesAgree, Exists
  <2>8. SeatsCovered'
    BY <2>1, <2>2, <2>4 DEF IInv, SeatsCovered, Exists, Owns
  <2>9. BookingsBacked'
    BY <2>1, <2>2, <2>4, <2>b DEF IInv, BookingsBacked, Exists
  <2>10. ReleasesExact'
    BY <2>1, <2>2, <2>4, <2>5, <2>a DEF IInv, ReleasesExact, Exists
  <2>11. LocksNew'
    BY <2>1, <2>2 DEF IInv, LocksNew, Exists
  <2>12. ClaimsKeyed'
    BY <1>b, <2>1, <2>2, <2>c DEF IInv, ClaimsKeyed, Live, Exists
  <2>13. QED
    BY <1>a, <2>6, <2>7, <2>8, <2>9, <2>10, <2>11, <2>12 DEF IInv
<1>8. ASSUME NEW w \in Workers, ReleaseDelBooking(w) PROVE IInv'
  <2> SUFFICES ASSUME NEW b \in Bookings, b = call[w].booking PROVE IInv'
    BY <1>8, <1>a DEF ReleaseDelBooking, TypeOK
  <2>1. /\ call[w].pc = "release_del" /\ call[w].seats = {}
        /\ UNCHANGED <<clock, seatKey>>
    BY <1>8, <1>a DEF ReleaseDelBooking, TypeOK
  <2>c. claim'[b] = NoClaim /\ \A c \in Bookings : c # b => claim'[c] = claim[c]
    BY <1>8, <1>a DEF ReleaseDelBooking, TypeOK
  <2>2. /\ ~Exists(bookingKey'[b])
        /\ \A c \in Bookings : c # b => bookingKey'[c] = bookingKey[c]
        /\ call'[w].pc = "idle"
        /\ \A v \in Workers : v # w => call'[v] = call[v]
    BY <1>8, <1>a, <1>b, <2>1 DEF ReleaseDelBooking, Return, TypeOK
  <2>3. \A s \in Seats : ~Owns(b, s)
    BY <2>1 DEF IInv, ReleasesExact
  <2>4. \A v \in Workers : v # w /\ call[v].pc # "idle" => call[v].booking \in Bookings /\ call[v].booking # b
    BY <1>a, <2>1, OneWorker DEF TypeOK
  <2>6. CallsOrderly'
    BY <2>1, <2>2 DEF IInv, CallsOrderly
  <2>7. ExpiriesAgree'
    BY <2>1, <2>2 DEF IInv, ExpiriesAgree, Exists
  <2>8. SeatsCovered'
    BY <2>1, <2>2, <2>3 DEF IInv, SeatsCovered, Exists, Owns
  <2>9. BookingsBacked'
    BY <2>1, <2>2 DEF IInv, BookingsBacked, Exists, Owns
  <2>10. ReleasesExact'
    BY <2>1, <2>2, <2>4 DEF IInv, ReleasesExact, Exists, Owns
  <2>11. LocksNew'
    BY <2>1, <2>2, <2>4 DEF IInv, LocksNew, Exists
  <2>12. ClaimsKeyed'
    BY <1>b, <2>1, <2>2, <2>c DEF IInv, ClaimsKeyed, Live, Exists
  <2>13. QED
    BY <1>a, <2>6, <2>7, <2>8, <2>9, <2>10, <2>11, <2>12 DEF IInv
<1>9. ASSUME NEW w \in Workers, Extend(w) PROVE IInv'
  BY <1>9 DEF Extend, Orderly, IInv, CallsOrderly, ExtendLock, ExtendGet, ExtendTtlSeat,
              ExtendTtlBooking, ExtendExpireSeat, ExtendExpireBooking
<1>10. ASSUME NEW w \in Workers, Crash(w) PROVE IInv'
  <2>1. /\ call[w].pc # "release_del" /\ call' = [call EXCEPT ![w] = Idle]
        /\ UNCHANGED <<clock, seatKey, bookingKey, claim>>
    BY <1>10 DEF Crash, Return
  <2>2. ClaimsKeyed'
    BY <1>a, <1>b, <2>1 DEF IInv, ClaimsKeyed, TypeOK, Live, Exists
  <2>3. QED
    BY <1>a, <1>b, <1>c, <1>d, <2>1, <2>2 DEF IInv
<1>11. CASE Tick
  <2>1. /\ \A w \in Workers : call[w].pc = "idle"
        /\ clock' = clock + 1 /\ UNCHANGED <<call, claim>> /\ clock \in Nat
    BY <1>11, <1>a DEF Tick, Orderly, TypeOK
  <2>2. /\ \A s \in Seats : seatKey'[s] = IF seatKey[s].dropAt <= clock + 1 THEN NoSeatKey ELSE seatKey[s]
        /\ \A b \in Bookings :
             bookingKey'[b] = IF bookingKey[b].dropAt <= clock + 1 THEN NoBookingKey ELSE bookingKey[b]
        /\ \A s \in Seats : seatKey[s].dropAt \in Nat
        /\ \A b \in Bookings : bookingKey[b].dropAt \in Nat /\ claim[b].until \in Nat
    BY <1>11, <1>a DEF Tick, TypeOK, SeatKeys, BookingKeys, Claims
  <2>3. \A b \in Bookings, s \in Seats : Owns(b, s)' <=> Owns(b, s) /\ seatKey[s].dropAt > clock + 1
    BY <1>b, <2>1, <2>2 DEF Owns, Exists
  <2>4. \A b \in Bookings : Exists(bookingKey'[b]) <=> bookingKey[b].dropAt > clock + 1
    BY <1>b, <2>1, <2>2 DEF Exists
  <2>5. CallsOrderly'
    BY <2>1 DEF IInv, CallsOrderly
  <2>6. ExpiriesAgree'
    BY <1>b, <2>1, <2>2 DEF IInv, ExpiriesAgree, Exists
  <2>7. SeatsCovered'
    <3> SUFFICES ASSUME NEW s \in Seats, NEW b \in Bookings, Owns(b, s)'
                 PROVE  /\ Exists(bookingKey'[b]) /\ s \in bookingKey'[b].seats
                        /\ bookingKey'[b].dropAt = seatKey'[s].dropAt
      BY DEF SeatsCovered, Exists
    <3>1. /\ seatKey[s].dropAt > clock + 1 /\ bookingKey[b].dropAt = seatKey[s].dropAt
          /\ s \in bookingKey[b].seats
      BY <2>3 DEF IInv, SeatsCovered
    <3>2. bookingKey'[b] = bookingKey[b] /\ seatKey'[s] = seatKey[s]
      BY <2>1, <2>2, <3>1
    <3>3. QED
      BY <2>4, <3>1, <3>2
  <2>8. BookingsBacked'
    <3> SUFFICES ASSUME NEW b \in Bookings, Exists(bookingKey'[b]), NEW s \in bookingKey'[b].seats
                 PROVE  Owns(b, s)'
      BY DEF BookingsBacked, Exists
    <3>1. bookingKey[b].dropAt > clock + 1 /\ bookingKey'[b] = bookingKey[b]
      BY <2>1, <2>2, <2>4
    <3>2. s \in Seats
      BY <1>a, <3>1 DEF TypeOK, BookingKeys
    <3>3. Owns(b, s)
      BY <2>1, <3>1 DEF IInv, BookingsBacked, Exists
    <3>4. QED
      BY <2>3, <3>1, <3>2, <3>3 DEF IInv, SeatsCovered
  <2>9. ReleasesExact' /\ LocksNew'
    BY <2>1 DEF ReleasesExact, LocksNew
  <2>10. ClaimsKeyed'
    <3> SUFFICES ASSUME NEW b \in Bookings, Live(b)', claim[b].seats # {}
                 PROVE  /\ Exists(bookingKey'[b])
                        /\ claim[b].seats = bookingKey'[b].seats
                        /\ claim[b].until = bookingKey'[b].dropAt
      BY <2>1 DEF ClaimsKeyed, Exists
    <3>1. clock + 1 < claim[b].until /\ Live(b)
      BY <2>1, <2>2 DEF Live
    <3>2. claim[b].seats = bookingKey[b].seats /\ claim[b].until = bookingKey[b].dropAt
      BY <3>1 DEF IInv, ClaimsKeyed
    <3>3. QED
      BY <2>1, <2>2, <2>4, <3>1, <3>2
  <2>11. QED
    BY <1>a, <2>5, <2>6, <2>7, <2>8, <2>9, <2>10 DEF IInv
<1>12. CASE UNCHANGED vars
  BY <1>12, <1>a DEF vars, IInv, CallsOrderly, ExpiriesAgree, SeatsCovered, BookingsBacked,
                     ReleasesExact, LocksNew, ClaimsKeyed, Owns, Live, Exists
<1>13. QED
  BY <1>1, <1>2, <1>3, <1>4, <1>5, <1>6, <1>7, <1>8, <1>9, <1>10, <1>11, <1>12
     DEF Next, Lock, Release

LEMMA InvInit == Init => IInv
<1> SUFFICES ASSUME Init PROVE IInv
  OBVIOUS
<1>1. TypeOK
  BY ConstantsAssumption DEF Init, TypeOK, PCs, NoSeatKey, NoBookingKey, NoClaim, Idle,
     SeatKeys, BookingKeys, Calls, Claims, Unexpired, Exists
<1>2. CallsOrderly /\ ReleasesExact /\ LocksNew
  BY DEF Init, CallsOrderly, ReleasesExact, LocksNew, Idle
<1>3. ExpiriesAgree /\ SeatsCovered /\ BookingsBacked /\ ClaimsKeyed
  BY DEF Init, ExpiriesAgree, SeatsCovered, BookingsBacked, ClaimsKeyed, Owns, Exists,
         NoSeatKey, NoBookingKey, NoClaim
<1>4. QED
  BY <1>1, <1>2, <1>3 DEF IInv

(* The invariant gives what callers rely on.                               *)
LEMMA InvImplies == IInv => NoDoubleHold /\ ClaimBacked /\ SeatReleasable
<1> SUFFICES ASSUME IInv PROVE NoDoubleHold /\ ClaimBacked /\ SeatReleasable
  OBVIOUS
<1>1. ClaimBacked
  BY DEF IInv, ClaimsKeyed, BookingsBacked, ClaimBacked, Owns
<1>2. NoDoubleHold
  BY <1>1 DEF NoDoubleHold, ClaimBacked
<1>3. SeatReleasable
  BY DEF IInv, ExpiriesAgree, SeatsCovered, SeatReleasable, Owns
<1>4. QED
  BY <1>1, <1>2, <1>3

(* Mutual exclusion: used in the Orderly way, the lock library never       *)
(* promises one seat to two bookings at a time.                            *)
THEOREM Exclusion == ASSUME Orderly PROVE Spec => []NoDoubleHold
<1>1. IInv /\ [Next]_vars => IInv'
  BY InvStep
<1>2. QED
  BY <1>1, InvInit, InvImplies, PTL DEF Spec

(* A promise is kept in Redis: while a claim is live each of its seats has *)
(* a key that names the booking.                                           *)
THEOREM ClaimsAreBacked == ASSUME Orderly PROVE Spec => []ClaimBacked
<1>1. IInv /\ [Next]_vars => IInv'
  BY InvStep
<1>2. QED
  BY <1>1, InvInit, InvImplies, PTL DEF Spec

(* No seat key is ever stranded: its owner's booking key exists and lists  *)
(* the seat, so releaseSeats can still delete it.                          *)
THEOREM SeatsStayReleasable == ASSUME Orderly PROVE Spec => []SeatReleasable
<1>1. IInv /\ [Next]_vars => IInv'
  BY InvStep
<1>2. QED
  BY <1>1, InvInit, InvImplies, PTL DEF Spec

-----------------------------------------------------------------------------
(* Implementation of SeatHold.                                             *)

(* A step that leaves the clock and the other bookings' claims alone and   *)
(* keeps the seats exclusive is a grant.                                   *)
LEMMA GrantStep ==
  ASSUME TypeOK, TypeOK', NoDoubleHold', clock' = clock, NEW b \in Bookings,
         \A c \in Bookings : c # b => claim'[c] = claim[c]
  PROVE  Promise!Grant(b, Held'[b])
<1>1. \A c \in Bookings : c # b => Held'[c] = Held[c]
  BY DEF Held, Live
<1>2. Held' = [Held EXCEPT ![b] = Held'[b]]
  BY <1>1 DEF Held, Live
<1>3. \A c \in Bookings : c # b => Held'[c] \cap Held'[b] = {}
  BY DEF NoDoubleHold, Held, Live
<1>4. QED
  BY <1>1, <1>2, <1>3 DEF Promise!Grant, Promise!Free

LEMMA HoldStep ==
  ASSUME Orderly, IInv, IInv', [Next]_vars
  PROVE  [Promise!Next]_Held
<1> USE ConstantsAssumption
<1>a. TypeOK /\ TypeOK' /\ NoDoubleHold'
  <2>1. IInv' => NoDoubleHold'
    BY InvImplies, PTL
  <2>2. QED
    BY <2>1 DEF IInv
<1>b. \A b \in Bookings : Held'[b] \in SUBSET Seats
  BY <1>a DEF TypeOK, Claims, Held, Live
(* A grant to, or a release by, the booking of one call.                   *)
<1>c. ASSUME clock' = clock, NEW b \in Bookings, \A c \in Bookings : c # b => claim'[c] = claim[c]
      PROVE  Promise!Next
  <2>1. Promise!Grant(b, Held'[b])
    BY <1>a, <1>c, GrantStep
  <2>2. QED
    BY <1>b, <2>1 DEF Promise!Next
<1>d. ASSUME UNCHANGED <<clock, claim>> PROVE UNCHANGED Held
  BY <1>d DEF Held, Live
<1>1. ASSUME NEW w \in Workers, LockReuse(w) \/ LockEval(w) PROVE [Promise!Next]_Held
  <2>1. call[w].booking \in Bookings
    BY <1>1, <1>a DEF LockReuse, LockEval, TypeOK
  <2>2. clock' = clock /\ \A c \in Bookings : c # call[w].booking => claim'[c] = claim[c]
    BY <1>1, <1>a, <2>1 DEF LockReuse, LockEval, TypeOK
  <2>3. QED
    BY <1>c, <2>1, <2>2
<1>2. ASSUME NEW w \in Workers, NEW b \in Serves[w], ReleaseSeats(w, b) PROVE [Promise!Next]_Held
  <2>1. b \in Bookings /\ clock' = clock /\ \A c \in Bookings : c # b => claim'[c] = claim[c]
    BY <1>2, <1>a DEF ReleaseSeats, TypeOK
  <2>2. QED
    BY <1>c, <2>1
<1>3. ASSUME NEW w \in Workers, NEW b \in Serves[w], NEW seats \in SUBSET Seats,
             LockSeats(w, b, seats)
      PROVE  [Promise!Next]_Held
  BY <1>3, <1>d DEF LockSeats
<1>4. ASSUME NEW w \in Workers, LockMiss(w) \/ ReleaseGet(w) \/ Crash(w)
      PROVE  [Promise!Next]_Held
  BY <1>4, <1>d DEF LockMiss, ReleaseGet, Crash
<1>5. ASSUME NEW w \in Workers, (\E s \in Seats : ReleaseDelSeat(w, s)) \/ ReleaseDelBooking(w)
      PROVE  [Promise!Next]_Held
  <2>1. call[w].booking \in Bookings
    BY <1>5, <1>a DEF ReleaseDelSeat, ReleaseDelBooking, TypeOK
  <2>2. clock' = clock /\ \A c \in Bookings : c # call[w].booking => claim'[c] = claim[c]
    BY <1>5, <1>a, <2>1 DEF ReleaseDelSeat, ReleaseDelBooking, TypeOK
  <2>3. QED
    BY <1>c, <2>1, <2>2
<1>6. ASSUME NEW w \in Workers, Extend(w) PROVE [Promise!Next]_Held
  BY <1>6 DEF Extend, Orderly, IInv, CallsOrderly, ExtendLock, ExtendGet, ExtendTtlSeat,
              ExtendTtlBooking, ExtendExpireSeat, ExtendExpireBooking
(* A second passes: the bookings whose claim ends drop out.                *)
<1>7. CASE Tick
  <2> DEFINE gone == {b \in Bookings : ~(clock + 1 < claim[b].until)}
  <2>1. clock' = clock + 1 /\ claim' = claim /\ clock \in Nat
        /\ \A b \in Bookings : claim[b].until \in Nat
    BY <1>7, <1>a DEF Tick, TypeOK, Claims
  <2>2. \A b \in Bookings : clock + 1 < claim[b].until => clock < claim[b].until
    BY <2>1
  <2>3. Held' = [b \in Bookings |-> IF b \in gone THEN {} ELSE Held[b]]
    BY <2>1, <2>2 DEF Held, Live
  <2>4. gone \in SUBSET Bookings
    OBVIOUS
  <2> HIDE DEF gone
  <2>5. QED
    BY <2>3, <2>4 DEF Promise!Next, Promise!Drop
<1>8. CASE UNCHANGED vars
  BY <1>8, <1>d DEF vars
<1>9. QED
  BY <1>1, <1>2, <1>3, <1>4, <1>5, <1>6, <1>7, <1>8 DEF Next, Lock, Release

(* In orderly use the library implements SeatHold: behind its round trips, *)
(* TTLs and crashes, seats are granted whole, only when free, and dropped  *)
(* whole.                                                                  *)
THEOREM Implementation == ASSUME Orderly PROVE Spec => ImplementsSeatHold
<1>1. Init => Promise!Init
  BY DEF Init, Promise!Init, Held, Live, NoClaim
<1>2. IInv /\ [Next]_vars => IInv'
  BY InvStep
<1>3. IInv /\ IInv' /\ [Next]_vars => [Promise!Next]_Held
  BY HoldStep
<1>4. QED
  BY <1>1, <1>2, <1>3, InvInit, PTL DEF Spec, ImplementsSeatHold, Promise!Spec

-----------------------------------------------------------------------------
(* A lock ends as a whole, with extensions (Extenders is any set): what    *)
(* the keys of booking b and seat s have to do with each other.            *)
Undisturbed ==
  /\ Prompt
  /\ \A v, w \in Workers : v # w => Serves[v] \cap Serves[w] = {}

Lists(b, s) == Exists(bookingKey[b]) /\ s \in bookingKey[b].seats

(* Nobody is half way through a pipeline: the keys belong together.        *)
Quiet(b, s) ==
  /\ Lists(b, s) => Owns(b, s)
  /\ Owns(b, s) => seatKey[s].dropAt = bookingKey[b].dropAt

(* How far the call of w for b is with the keys of b and s.                *)
Stage(w, b, s) ==
  /\ call[w].pc \in {"lock_get", "lock_eval", "release_get", "extend_get", "extend_ttl"} =>
       Quiet(b, s)
  /\ call[w].pc = "lock_eval" => ~Exists(bookingKey[b])
  /\ call[w].pc = "release_del" => (s \in call[w].seats <=> Owns(b, s))
  /\ call[w].pc = "extend_get" => call[w].ttl[s] = 0
  /\ call[w].pc = "extend_ttl" =>
       /\ Exists(bookingKey[b])
       /\ s \in call[w].seats => Lists(b, s)
       /\ call[w].ttl[s] > 0 => Lists(b, s)
       /\ Owns(b, s) /\ s \notin call[w].seats => seatKey[s].dropAt = clock + call[w].ttl[s]
  /\ call[w].pc = "extend_expire" =>
       /\ Exists(bookingKey[b]) /\ bookingKey[b].dropAt = clock + call[w].bookingTtl
       /\ Lists(b, s) => Owns(b, s)
       /\ s \in call[w].seats =>
            Owns(b, s) /\ seatKey[s].dropAt = bookingKey[b].dropAt /\ call[w].ttl[s] = call[w].bookingTtl
       /\ Owns(b, s) /\ s \notin call[w].seats => seatKey[s].dropAt = bookingKey[b].dropAt + Extension

Busy(w, b) == call[w].pc # "idle" /\ call[w].booking = b

Pair(b, s) ==
  /\ Owns(b, s) => Lists(b, s)
  /\ (\A w \in Workers : ~Busy(w, b)) => Quiet(b, s)
  /\ \A w \in Workers : Busy(w, b) => Stage(w, b, s)

(* Every existing seat key is some booking's, and as long as nobody took   *)
(* the seat from a booking that still had its key, it fits that booking's. *)
Together ==
  \A s \in Seats \ overtaken :
    /\ Exists(seatKey[s]) => seatKey[s].booking \in Bookings
    /\ \A b \in Bookings : Pair(b, s)

(* A step of b's only worker decides about the pair.                       *)
LEMMA PairAlone ==
  ASSUME Undisturbed, TypeOK', NEW w \in Workers, NEW b \in Serves[w], NEW s,
         \A v \in Workers \ {w} : call'[v] = call[v],
         (Owns(b, s) => Lists(b, s))',
         call'[w].pc = "idle" => Quiet(b, s)',
         call'[w].pc # "idle" => Busy(w, b)' /\ Stage(w, b, s)'
  PROVE  Pair(b, s)'
<1>1. ASSUME NEW v \in Workers, v # w PROVE ~Busy(v, b)'
  BY <1>1 DEF Undisturbed, TypeOK, Busy
<1>2. Busy(w, b)' => call'[w].pc # "idle"
  BY DEF Busy
<1>3. QED
  BY <1>1, <1>2 DEF Pair

(* A step of another booking's worker leaves the pair as it is.            *)
LEMMA PairApart ==
  ASSUME NEW w \in Workers, NEW b \in Bookings, NEW s, Pair(b, s),
         ~Busy(w, b), ~Busy(w, b)',
         \A v \in Workers \ {w} : call'[v] = call[v],
         clock' = clock, bookingKey'[b] = bookingKey[b],
         Owns(b, s)' <=> Owns(b, s), Owns(b, s) => seatKey'[s] = seatKey[s]
  PROVE  Pair(b, s)'
<1>1. Lists(b, s)' <=> Lists(b, s)
  BY DEF Lists, Exists
<1>2. Quiet(b, s) => Quiet(b, s)'
  BY <1>1 DEF Quiet
<1>3. ASSUME NEW v \in Workers PROVE Busy(v, b)' <=> Busy(v, b)
  BY DEF Busy
<1>4. ASSUME NEW v \in Workers, Busy(v, b)' PROVE Stage(v, b, s)'
  <2>1. v # w /\ call'[v] = call[v] /\ Stage(v, b, s)
    BY <1>3, <1>4 DEF Pair
  <2>2. QED
    BY <1>1, <1>2, <2>1 DEF Stage, Exists
<1>5. QED
  BY <1>1, <1>2, <1>3, <1>4 DEF Pair

(* What holds before a step of b's only worker.                            *)
LEMMA PairBefore ==
  ASSUME Undisturbed, TypeOK, NEW w \in Workers, NEW b \in Serves[w], NEW s, Pair(b, s),
         call[w].pc = "idle" \/ Busy(w, b)
  PROVE  /\ Owns(b, s) => Lists(b, s)
         /\ call[w].pc # "idle" => Stage(w, b, s)
         /\ call[w].pc \notin {"release_del", "extend_expire"} => Quiet(b, s)
<1>1. ASSUME NEW v \in Workers, v # w PROVE ~Busy(v, b)
  BY <1>1 DEF Undisturbed, TypeOK, Busy
<1>2. call[w].pc \in PCs
  BY DEF TypeOK, Calls
<1>3. CASE call[w].pc = "idle"
  BY <1>1, <1>3 DEF Pair, Busy
<1>4. CASE call[w].pc # "idle"
  BY <1>2, <1>4 DEF Pair, Stage, PCs
<1>5. QED
  BY <1>3, <1>4

(* A round trip that changes no key.                                       *)
LEMMA CallMoves ==
  ASSUME Undisturbed, TypeOK, TypeOK', NEW s \in Seats, \A b \in Bookings : Pair(b, s),
         NEW w \in Workers, NEW c \in Serves[w], NEW new,
         UNCHANGED <<clock, seatKey, bookingKey>>, call' = [call EXCEPT ![w] = new],
         call[w].pc = "idle" \/ Busy(w, c),
         call[w].pc \notin {"release_del", "extend_expire"},
         new.pc = "idle" \/ (new.pc # "idle" /\ new.booking = c),
         new.pc # "idle" => Stage(w, c, s)'
  PROVE  \A b \in Bookings : Pair(b, s)'
<1>1. c \in Bookings
  BY ConstantsAssumption
<1>2. call'[w] = new /\ \A v \in Workers \ {w} : call'[v] = call[v]
  BY DEF TypeOK
<1>3. /\ Owns(c, s) => Lists(c, s)
      /\ Quiet(c, s)
  BY <1>1, PairBefore
<1>4. \A b \in Bookings : /\ Owns(b, s)' <=> Owns(b, s)
                          /\ Lists(b, s)' <=> Lists(b, s)
                          /\ Quiet(b, s)' <=> Quiet(b, s)
  BY DEF Owns, Lists, Quiet, Exists
<1>5. Pair(c, s)'
  <2>1. call'[w].pc # "idle" => Busy(w, c)' /\ Stage(w, c, s)'
    BY <1>2 DEF Busy
  <2>2. QED
    BY <1>1, <1>2, <1>3, <1>4, <2>1, PairAlone
<1>6. ASSUME NEW b \in Bookings, b # c PROVE Pair(b, s)'
  <2>1. ~Busy(w, b) /\ ~Busy(w, b)'
    BY <1>2, <1>6 DEF Busy
  <2>2. QED
    BY <1>2, <1>4, <1>6, <2>1, PairApart
<1>7. QED
  BY <1>5, <1>6

(* The booking a call under way is for.                                    *)
LEMMA CallFor ==
  ASSUME TypeOK, NEW w \in Workers, call[w].pc # "idle"
  PROVE  call[w].booking \in Serves[w] /\ Busy(w, call[w].booking) /\ call[w] \in Calls
  BY DEF TypeOK, Busy

(* The round trips that read, and the ends of calls.                       *)
LEMMA ReadsKeepPairs ==
  ASSUME Undisturbed, TypeOK, TypeOK', NEW s \in Seats, \A b \in Bookings : Pair(b, s),
         NEW w \in Workers,
         \/ \E b \in Serves[w], seats \in SUBSET Seats : LockSeats(w, b, seats)
         \/ LockReuse(w) \/ LockMiss(w)
         \/ \E b \in Serves[w] : ReleaseSeats(w, b)
         \/ ReleaseGet(w)
         \/ \E b \in Serves[w] : ExtendLock(w, b)
         \/ ExtendGet(w)
         \/ \E r \in Seats : ExtendTtlSeat(w, r)
         \/ ExtendTtlBooking(w)
         \/ Crash(w)
  PROVE  \A b \in Bookings : Pair(b, s)'
<1> USE ConstantsAssumption
<1>i. Idle.pc = "idle" /\ Idle.ttl[s] = 0 /\ Idle \in Calls
  BY DEF Idle, Calls, PCs
<1>k. ASSUME NEW b \in Bookings, UNCHANGED <<clock, seatKey, bookingKey>>
      PROVE  /\ Owns(b, s)' <=> Owns(b, s)
             /\ Lists(b, s)' <=> Lists(b, s)
             /\ Quiet(b, s)' <=> Quiet(b, s)
  BY <1>k DEF Owns, Lists, Quiet, Exists
<1>b. ASSUME NEW c \in Serves[w], call[w].pc = "idle" \/ Busy(w, c)
      PROVE  /\ c \in Bookings
             /\ Owns(c, s) => Lists(c, s)
             /\ call[w].pc # "idle" => Stage(w, c, s)
             /\ call[w].pc \notin {"release_del", "extend_expire"} => Quiet(c, s)
  <2>1. c \in Bookings
    OBVIOUS
  <2>2. QED
    BY <1>b, <2>1, PairBefore
(* A call that ends without having touched a key.                          *)
<1>r. ASSUME UNCHANGED <<clock, seatKey, bookingKey>>, Return(w), call[w].pc # "idle",
             call[w].pc \notin {"release_del", "extend_expire"}
      PROVE  \A b \in Bookings : Pair(b, s)'
  <2>1. PICK c \in Serves[w] : Busy(w, c)
    BY <1>r, CallFor
  <2>2. PICK new : new = Idle
    OBVIOUS
  <2>3. call' = [call EXCEPT ![w] = new] /\ new.pc = "idle"
    BY <1>r, <1>i, <2>2 DEF Return
  <2>4. QED
    BY <1>r, <2>1, <2>3, CallMoves
(* A call that begins, or goes on to the command new says.                 *)
<1>g. ASSUME NEW c \in Serves[w], NEW new,
             UNCHANGED <<clock, seatKey, bookingKey>>, call' = [call EXCEPT ![w] = new],
             call[w].pc = "idle" \/ Busy(w, c),
             call[w].pc \notin {"release_del", "extend_expire"},
             new.pc # "idle", new.booking = c,
             Stage(w, c, s)'
      PROVE  \A b \in Bookings : Pair(b, s)'
  BY <1>g, CallMoves
<1>1. ASSUME NEW c \in Serves[w], NEW seats \in SUBSET Seats, LockSeats(w, c, seats)
      PROVE  \A b \in Bookings : Pair(b, s)'
  <2>1. PICK new : new = [Idle EXCEPT !.pc = "lock_get", !.booking = c,
                                      !.seats = seats, !.timestamp = clock]
    OBVIOUS
  <2>2. new.pc = "lock_get" /\ new.booking = c
    BY <2>1 DEF Idle
  <2>3. call' = [call EXCEPT ![w] = new] /\ call'[w] = new /\ call[w].pc = "idle"
        /\ UNCHANGED <<clock, seatKey, bookingKey>>
    BY <1>1, <2>1 DEF LockSeats, TypeOK
  <2>4. Stage(w, c, s)'
    BY <1>b, <1>k, <2>2, <2>3 DEF Stage
  <2>5. QED
    BY <1>g, <2>2, <2>3, <2>4
<1>2. CASE LockReuse(w)
  BY <1>2, <1>r DEF LockReuse
<1>3. CASE LockMiss(w)
  <2>0. UNCHANGED <<clock, seatKey, bookingKey>> /\ call[w].pc = "lock_get"
        /\ ~Exists(bookingKey[call[w].booking])
    BY <1>3 DEF LockMiss
  <2>1. CASE Return(w)
    BY <2>0, <2>1, <1>r
  <2>2. CASE ~Return(w)
    <3>1. PICK c \in Serves[w] : c = call[w].booking /\ Busy(w, c)
      BY <2>0, CallFor
    <3>2. PICK new : new = [call[w] EXCEPT !.pc = "lock_eval"]
      OBVIOUS
    <3>3. new.pc = "lock_eval" /\ new.booking = c
      BY <3>1, <3>2 DEF TypeOK, Calls
    <3>4. call' = [call EXCEPT ![w] = new] /\ call'[w] = new
      BY <1>3, <2>2, <3>2 DEF LockMiss, Goto, TypeOK
    <3>5. Stage(w, c, s)'
      BY <1>b, <1>k, <2>0, <3>1, <3>3, <3>4 DEF Stage, Exists
    <3>6. QED
      BY <1>g, <2>0, <3>1, <3>3, <3>4, <3>5
  <2>3. QED
    BY <2>1, <2>2
<1>4. ASSUME NEW c \in Serves[w], ReleaseSeats(w, c)
      PROVE  \A b \in Bookings : Pair(b, s)'
  <2>1. PICK new : new = [Idle EXCEPT !.pc = "release_get", !.booking = c]
    OBVIOUS
  <2>2. new.pc = "release_get" /\ new.booking = c
    BY <2>1 DEF Idle
  <2>3. call' = [call EXCEPT ![w] = new] /\ call'[w] = new /\ call[w].pc = "idle"
        /\ UNCHANGED <<clock, seatKey, bookingKey>>
    BY <1>4, <2>1 DEF ReleaseSeats, TypeOK
  <2>4. Stage(w, c, s)'
    BY <1>b, <1>k, <2>2, <2>3 DEF Stage
  <2>5. QED
    BY <1>g, <2>2, <2>3, <2>4
<1>5. CASE ReleaseGet(w)
  <2>0. UNCHANGED <<clock, seatKey, bookingKey>> /\ call[w].pc = "release_get"
    BY <1>5 DEF ReleaseGet
  <2>1. CASE Return(w)
    BY <2>0, <2>1, <1>r
  <2>2. CASE ~Return(w)
    <3>1. PICK c \in Serves[w] : c = call[w].booking /\ Busy(w, c)
      BY <2>0, CallFor
    <3>2. PICK new : new = [call[w] EXCEPT !.pc = "release_del", !.seats = bookingKey[c].seats]
      OBVIOUS
    <3>3. new.pc = "release_del" /\ new.booking = c /\ new.seats = bookingKey[c].seats
      BY <3>1, <3>2 DEF TypeOK, Calls
    <3>4. call' = [call EXCEPT ![w] = new] /\ call'[w] = new /\ Exists(bookingKey[c])
      BY <1>5, <2>2, <3>1, <3>2 DEF ReleaseGet, TypeOK
    <3>5. s \in bookingKey[c].seats <=> Owns(c, s)
      BY <1>b, <2>0, <3>1, <3>4 DEF Quiet, Lists
    <3>6. Stage(w, c, s)'
      BY <1>k, <2>0, <3>1, <3>3, <3>4, <3>5 DEF Stage
    <3>7. QED
      BY <1>g, <2>0, <3>1, <3>3, <3>4, <3>6
  <2>3. QED
    BY <2>1, <2>2
<1>6. ASSUME NEW c \in Serves[w], ExtendLock(w, c)
      PROVE  \A b \in Bookings : Pair(b, s)'
  <2>1. PICK new : new = [Idle EXCEPT !.pc = "extend_get", !.booking = c]
    OBVIOUS
  <2>2. new.pc = "extend_get" /\ new.booking = c /\ new.ttl[s] = 0
    BY <2>1 DEF Idle
  <2>3. call' = [call EXCEPT ![w] = new] /\ call'[w] = new /\ call[w].pc = "idle"
        /\ UNCHANGED <<clock, seatKey, bookingKey>>
    BY <1>6, <2>1 DEF ExtendLock, TypeOK
  <2>4. Stage(w, c, s)'
    BY <1>b, <1>k, <2>2, <2>3 DEF Stage
  <2>5. QED
    BY <1>g, <2>2, <2>3, <2>4
<1>7. CASE ExtendGet(w)
  <2>0. UNCHANGED <<clock, seatKey, bookingKey>> /\ call[w].pc = "extend_get"
    BY <1>7 DEF ExtendGet
  <2>1. CASE Return(w)
    BY <2>0, <2>1, <1>r
  <2>2. CASE ~Return(w)
    <3>1. PICK c \in Serves[w] : c = call[w].booking /\ Busy(w, c)
      BY <2>0, CallFor
    <3>2. PICK new : new = [call[w] EXCEPT !.pc = "extend_ttl", !.seats = bookingKey[c].seats]
      OBVIOUS
    <3>3. /\ new.pc = "extend_ttl" /\ new.booking = c /\ new.seats = bookingKey[c].seats
          /\ new.ttl[s] = call[w].ttl[s]
      BY <3>1, <3>2 DEF TypeOK, Calls
    <3>4. call' = [call EXCEPT ![w] = new] /\ call'[w] = new /\ Exists(bookingKey[c])
      BY <1>7, <2>2, <3>1, <3>2 DEF ExtendGet, TypeOK
    <3>5. Quiet(c, s) /\ (Owns(c, s) => Lists(c, s)) /\ call[w].ttl[s] = 0
      BY <1>b, <2>0, <3>1 DEF Stage
    <3>6. Owns(c, s) => s \in new.seats
      BY <3>3, <3>5 DEF Lists
    <3>7. Stage(w, c, s)'
      <4>1. Exists(bookingKey[c])' /\ (s \in new.seats => Lists(c, s))
        BY <2>0, <3>3, <3>4 DEF Lists, Exists
      <4>2. QED
        BY <1>k, <2>0, <3>3, <3>4, <3>5, <3>6, <4>1 DEF Stage
    <3>8. QED
      BY <1>g, <2>0, <3>1, <3>3, <3>4, <3>7
  <2>3. QED
    BY <2>1, <2>2
<1>8. ASSUME NEW r \in Seats, ExtendTtlSeat(w, r) PROVE \A b \in Bookings : Pair(b, s)'
  <2>0. UNCHANGED <<clock, seatKey, bookingKey>> /\ call[w].pc = "extend_ttl" /\ r \in call[w].seats
    BY <1>8 DEF ExtendTtlSeat
  <2>1. PICK c \in Serves[w] : c = call[w].booking /\ Busy(w, c)
    BY <2>0, CallFor
  <2> DEFINE n == [call[w] EXCEPT !.seats = @ \ {r}, !.ttl = [@ EXCEPT ![r] = Ttl(seatKey[r])]]
  <2>a. call' = [call EXCEPT ![w] = n]
    BY <1>8 DEF ExtendTtlSeat
  <2>2. PICK new : new = n
    OBVIOUS
  <2>3. /\ new.pc = "extend_ttl" /\ new.booking = c /\ new.seats = call[w].seats \ {r}
        /\ new.ttl[s] = IF s = r THEN Ttl(seatKey[s]) ELSE call[w].ttl[s]
    BY <2>0, <2>1, <2>2 DEF TypeOK, Calls
  <2> HIDE DEF n
  <2>4. call' = [call EXCEPT ![w] = new] /\ call'[w] = new
    BY <2>a, <2>2 DEF TypeOK
  <2>5. Quiet(c, s) /\ (Owns(c, s) => Lists(c, s)) /\ Stage(w, c, s) /\ c \in Bookings
    BY <1>b, <2>0, <2>1
  <2>6. Owns(c, s) => seatKey[s].dropAt = clock + Ttl(seatKey[s])
    BY DEF Owns, Ttl, TypeOK, SeatKeys, Unexpired
  <2>7. Stage(w, c, s)'
    <3>1. Exists(bookingKey[c])' <=> Exists(bookingKey[c])
      BY <2>0 DEF Exists
    <3>2. CASE s = r
      BY <1>k, <2>0, <2>3, <2>4, <2>5, <2>6, <3>1, <3>2 DEF Stage
    <3>3. CASE s # r
      BY <1>k, <2>0, <2>3, <2>4, <2>5, <3>1, <3>3 DEF Stage
    <3>4. QED
      BY <3>2, <3>3
  <2>8. QED
    BY <1>g, <2>0, <2>1, <2>3, <2>4, <2>7
<1>9. CASE ExtendTtlBooking(w)
  <2>0. UNCHANGED <<clock, seatKey, bookingKey>> /\ call[w].pc = "extend_ttl" /\ call[w].seats = {}
    BY <1>9 DEF ExtendTtlBooking
  <2>1. PICK c \in Serves[w] : c = call[w].booking /\ Busy(w, c)
    BY <2>0, CallFor
  <2>2. PICK new : new = [call[w] EXCEPT !.pc = "extend_expire",
                                         !.seats = {r \in Seats : call[w].ttl[r] > 0},
                                         !.bookingTtl = Ttl(bookingKey[c])]
    OBVIOUS
  <2>3. /\ new.pc = "extend_expire" /\ new.booking = c
        /\ s \in new.seats <=> call[w].ttl[s] > 0
        /\ new.ttl[s] = call[w].ttl[s] /\ new.bookingTtl = Ttl(bookingKey[c])
    BY <2>0, <2>1, <2>2 DEF TypeOK, Calls
  <2>4. call' = [call EXCEPT ![w] = new] /\ call'[w] = new
    BY <1>9, <2>1, <2>2 DEF ExtendTtlBooking, TypeOK
  <2>5. Quiet(c, s) /\ (Owns(c, s) => Lists(c, s)) /\ Stage(w, c, s) /\ c \in Bookings
    BY <1>b, <2>0, <2>1
  <2>6. /\ Exists(bookingKey[c]) /\ bookingKey[c].dropAt = clock + Ttl(bookingKey[c])
        /\ Ttl(bookingKey[c]) \in Nat /\ clock \in Nat /\ call[w].ttl[s] \in Nat
    <3>1. Exists(bookingKey[c])
      BY <2>0, <2>5 DEF Stage
    <3>2. bookingKey[c].dropAt \in Nat /\ clock \in Nat /\ bookingKey[c].dropAt > clock
      BY <2>5, <3>1 DEF TypeOK, BookingKeys, Unexpired
    <3>3. call[w].ttl[s] \in Nat
      BY DEF TypeOK, Calls
    <3>4. QED
      BY <3>1, <3>2, <3>3 DEF Ttl
  <2>7. Owns(c, s) => /\ seatKey[s].dropAt = clock + call[w].ttl[s]
                      /\ call[w].ttl[s] > 0
                      /\ call[w].ttl[s] = Ttl(bookingKey[c])
    <3> SUFFICES ASSUME Owns(c, s)
                 PROVE  /\ seatKey[s].dropAt = clock + call[w].ttl[s]
                        /\ call[w].ttl[s] > 0
                        /\ call[w].ttl[s] = Ttl(bookingKey[c])
      OBVIOUS
    <3>1. seatKey[s].dropAt = clock + call[w].ttl[s]
      BY <2>0, <2>5 DEF Stage
    <3>2. seatKey[s].dropAt > clock /\ seatKey[s].dropAt = bookingKey[c].dropAt
      BY <2>5 DEF Owns, Quiet, TypeOK, Unexpired
    <3>3. QED
      BY <3>1, <3>2, <2>6
  <2>8. Stage(w, c, s)'
    <3>1. Exists(bookingKey[c])' /\ bookingKey'[c].dropAt = clock' + new.bookingTtl
      BY <2>0, <2>3, <2>6 DEF Exists
    <3>2. s \in new.seats => Lists(c, s)
      BY <2>0, <2>3, <2>5 DEF Stage
    <3>3. QED
      BY <1>k, <2>0, <2>3, <2>4, <2>5, <2>7, <3>1, <3>2 DEF Stage, Quiet
  <2>9. QED
    BY <1>g, <2>0, <2>1, <2>3, <2>4, <2>8
<1>10. CASE Crash(w)
  BY <1>10, <1>r DEF Crash
<1>11. QED
  BY <1>1, <1>2, <1>3, <1>4, <1>5, <1>6, <1>7, <1>8, <1>9, <1>10

(* The steps that change keys.                                             *)
LEMMA WritesKeepPairs ==
  ASSUME Undisturbed, TypeOK, TypeOK', NEW s \in Seats, s \notin overtaken',
         \A b \in Bookings : Pair(b, s), Exists(seatKey[s]) => seatKey[s].booking \in Bookings,
         NEW w \in Workers,
         \/ LockEval(w)
         \/ \E r \in Seats : ReleaseDelSeat(w, r)
         \/ ReleaseDelBooking(w)
         \/ \E r \in Seats : ExtendExpireSeat(w, r)
         \/ ExtendExpireBooking(w)
  PROVE  /\ \A b \in Bookings : Pair(b, s)'
         /\ Exists(seatKey[s])' => seatKey'[s].booking \in Bookings
<1> USE ConstantsAssumption
<1>1. call[w].pc \in {"lock_eval", "release_del", "extend_expire"} /\ clock' = clock
  BY DEF LockEval, ReleaseDelSeat, ReleaseDelBooking, ExtendExpireSeat, ExtendExpireBooking
<1>2. PICK c \in Serves[w] : c = call[w].booking /\ Busy(w, c)
  BY <1>1, CallFor
<1>3. /\ c \in Bookings
      /\ Owns(c, s) => Lists(c, s)
      /\ Stage(w, c, s)
      /\ call[w].pc = "lock_eval" => Quiet(c, s)
  <2>1. c \in Bookings
    OBVIOUS
  <2>2. QED
    BY <1>1, <1>2, <2>1, PairBefore
<1>n. Idle.pc = "idle" /\ ~Exists(NoSeatKey) /\ ~Exists(NoBookingKey)
  BY DEF Idle, Exists, NoSeatKey, NoBookingKey
<1>t. /\ call[w] \in Calls /\ clock \in Nat
      /\ seatKey[s] \in SeatKeys /\ bookingKey[c] \in BookingKeys
      /\ Exists(seatKey[s]) => seatKey[s].dropAt > clock
      /\ Exists(bookingKey[c]) => bookingKey[c].dropAt > clock
  BY <1>3 DEF TypeOK, Unexpired
(* Bookings other than c: their key stays, and their seat.                 *)
<1>a. ASSUME NEW b \in Bookings, b # c,
             call'[w].pc = "idle" \/ call'[w].booking = c,
             \A v \in Workers \ {w} : call'[v] = call[v],
             bookingKey'[b] = bookingKey[b],
             Owns(b, s)' <=> Owns(b, s), Owns(b, s) => seatKey'[s] = seatKey[s]
      PROVE  Pair(b, s)'
  <2>1. ~Busy(w, b) /\ ~Busy(w, b)'
    BY <1>2, <1>a DEF Busy
  <2>2. QED
    BY <1>1, <1>a, <2>1, PairApart
(* The end of a call.                                                      *)
<1>r. Return(w) => call'[w].pc = "idle" /\ \A v \in Workers \ {w} : call'[v] = call[v]
  BY <1>n DEF Return, TypeOK
<1>4. CASE LockEval(w)
  <2>1. call[w].pc = "lock_eval" /\ ~Exists(bookingKey[c]) /\ ~Owns(c, s)
    BY <1>3, <1>4 DEF LockEval, Stage, Lists
  <2>2. call'[w].pc = "idle" /\ \A v \in Workers \ {w} : call'[v] = call[v]
    BY <1>4, <1>r DEF LockEval
  <2>3. CASE UNCHANGED <<seatKey, bookingKey>>
    <3>1. \A b \in Bookings : /\ Owns(b, s)' <=> Owns(b, s)
                              /\ Lists(b, s)' <=> Lists(b, s)
                              /\ Quiet(b, s)' <=> Quiet(b, s)
      BY <2>3 DEF Owns, Lists, Quiet, Exists
    <3>2. Pair(c, s)'
      BY <1>3, <2>1, <2>2, <3>1, PairAlone
    <3>3. \A b \in Bookings : Pair(b, s)'
      BY <1>a, <2>2, <2>3, <3>1, <3>2
    <3>4. QED
      BY <2>3, <3>3 DEF Exists
  <2>4. CASE ~UNCHANGED <<seatKey, bookingKey>>
    <3> DEFINE key == [booking |-> c, expiresAt |-> call[w].timestamp + LOCK_TTL,
                       dropAt |-> clock + LOCK_TTL]
               lock == [seats |-> call[w].seats, timestamp |-> call[w].timestamp,
                        dropAt |-> clock + LOCK_TTL]
    <3>1. /\ seatKey' = [r \in Seats |-> IF r \in call[w].seats THEN key ELSE seatKey[r]]
          /\ bookingKey' = [bookingKey EXCEPT ![c] = lock]
          /\ overtaken' = overtaken \cup
               {r \in call[w].seats : Exists(seatKey[r]) /\ seatKey[r].booking # c}
      BY <1>2, <1>4, <2>4 DEF LockEval
    <3>2. /\ key.booking = c /\ key.dropAt = clock + LOCK_TTL /\ Exists(key)
          /\ lock.seats = call[w].seats /\ lock.dropAt = clock + LOCK_TTL /\ Exists(lock)
      BY <1>t DEF Exists
    <3> HIDE DEF key, lock
    <3>3. /\ seatKey'[s] = IF s \in call[w].seats THEN key ELSE seatKey[s]
          /\ bookingKey'[c] = lock
          /\ \A b \in Bookings \ {c} : bookingKey'[b] = bookingKey[b]
      BY <1>3, <3>1 DEF TypeOK
    (* Nobody had a seat that is locked now.                               *)
    <3>4. s \in call[w].seats => ~Exists(seatKey[s])
      BY <2>1, <3>1 DEF Owns
    <3>5. Pair(c, s)'
      <4>1. Owns(c, s)' <=> s \in call[w].seats
        BY <2>1, <3>2, <3>3 DEF Owns
      <4>2. Lists(c, s)' <=> s \in call[w].seats
        BY <3>2, <3>3 DEF Lists
      <4>3. Quiet(c, s)'
        BY <3>2, <3>3, <4>1, <4>2 DEF Quiet
      <4>4. QED
        BY <1>3, <2>2, <4>1, <4>2, <4>3, PairAlone
    <3>6. ASSUME NEW b \in Bookings, b # c PROVE Pair(b, s)'
      <4>1. Owns(b, s)' <=> Owns(b, s)
        BY <3>2, <3>3, <3>4, <3>6 DEF Owns
      <4>2. Owns(b, s) => seatKey'[s] = seatKey[s]
        BY <3>3, <3>4 DEF Owns
      <4>3. QED
        BY <1>a, <2>2, <3>3, <3>6, <4>1, <4>2
    <3>7. QED
      BY <1>3, <3>2, <3>3, <3>5, <3>6 DEF Exists
  <2>5. QED
    BY <2>3, <2>4
<1>5. ASSUME NEW r \in Seats, ReleaseDelSeat(w, r)
      PROVE  /\ \A b \in Bookings : Pair(b, s)'
             /\ Exists(seatKey[s])' => seatKey'[s].booking \in Bookings
  <2>1. call[w].pc = "release_del" /\ r \in call[w].seats /\ bookingKey' = bookingKey
    BY <1>5 DEF ReleaseDelSeat
  <2>2. /\ call'[w].pc = "release_del" /\ call'[w].booking = c /\ call'[w].seats = call[w].seats \ {r}
        /\ \A v \in Workers \ {w} : call'[v] = call[v]
    BY <1>2, <1>5, <1>t, <2>1 DEF ReleaseDelSeat, TypeOK, Calls
  <2>3. seatKey'[s] = IF s = r THEN NoSeatKey ELSE seatKey[s]
    BY <1>5 DEF ReleaseDelSeat, TypeOK
  <2>4. s \in call[w].seats <=> Owns(c, s)
    BY <1>3, <2>1 DEF Stage
  <2>5. Pair(c, s)'
    <3>1. Owns(c, s)' <=> Owns(c, s) /\ s # r
      BY <1>n, <2>3 DEF Owns
    <3>2. Lists(c, s)' <=> Lists(c, s)
      BY <2>1 DEF Lists, Exists
    <3>3. Stage(w, c, s)'
      BY <2>1, <2>2, <2>4, <3>1 DEF Stage
    <3>4. Busy(w, c)'
      BY <2>2 DEF Busy
    <3>5. QED
      BY <1>3, <2>2, <3>1, <3>2, <3>3, <3>4, PairAlone
  <2>6. ASSUME NEW b \in Bookings, b # c PROVE Pair(b, s)'
    <3>1. s = r => ~Owns(b, s)
      BY <2>1, <2>4, <2>6 DEF Owns
    <3>2. (Owns(b, s)' <=> Owns(b, s)) /\ (Owns(b, s) => seatKey'[s] = seatKey[s])
      BY <1>n, <2>3, <3>1 DEF Owns
    <3>3. QED
      BY <1>a, <2>1, <2>2, <2>6, <3>2
  <2>7. QED
    BY <1>n, <2>3, <2>5, <2>6 DEF Exists
<1>6. CASE ReleaseDelBooking(w)
  <2>1. call[w].pc = "release_del" /\ call[w].seats = {} /\ seatKey' = seatKey
    BY <1>6 DEF ReleaseDelBooking
  <2>2. call'[w].pc = "idle" /\ \A v \in Workers \ {w} : call'[v] = call[v]
    BY <1>6, <1>r DEF ReleaseDelBooking
  <2>3. bookingKey'[c] = NoBookingKey /\ \A b \in Bookings \ {c} : bookingKey'[b] = bookingKey[b]
    BY <1>2, <1>3, <1>6 DEF ReleaseDelBooking, TypeOK
  <2>4. \A b \in Bookings : Owns(b, s)' <=> Owns(b, s)
    BY <2>1 DEF Owns, Exists
  <2>5. Pair(c, s)'
    <3>1. ~Owns(c, s)' /\ ~Lists(c, s)'
      BY <1>3, <1>n, <2>1, <2>3, <2>4 DEF Stage, Lists
    <3>2. QED
      BY <1>3, <2>2, <3>1, PairAlone DEF Quiet
  <2>6. \A b \in Bookings : b # c => Pair(b, s)'
    BY <1>a, <2>1, <2>2, <2>3, <2>4
  <2>7. QED
    BY <2>1, <2>5, <2>6 DEF Exists
<1>7. ASSUME NEW r \in Seats, ExtendExpireSeat(w, r)
      PROVE  /\ \A b \in Bookings : Pair(b, s)'
             /\ Exists(seatKey[s])' => seatKey'[s].booking \in Bookings
  <2>1. call[w].pc = "extend_expire" /\ r \in call[w].seats /\ bookingKey' = bookingKey
    BY <1>7 DEF ExtendExpireSeat
  <2>2. /\ call'[w].pc = "extend_expire" /\ call'[w].booking = c /\ call'[w].seats = call[w].seats \ {r}
        /\ call'[w].ttl = call[w].ttl /\ call'[w].bookingTtl = call[w].bookingTtl
        /\ \A v \in Workers \ {w} : call'[v] = call[v]
    BY <1>2, <1>7, <1>t, <2>1 DEF ExtendExpireSeat, TypeOK, Calls
  <2>3. seatKey'[s] = IF s = r THEN Expire(seatKey[s], call[w].ttl[s]) ELSE seatKey[s]
    BY <1>7 DEF ExtendExpireSeat, TypeOK
  <2>4. /\ Exists(bookingKey[c]) /\ bookingKey[c].dropAt = clock + call[w].bookingTtl
        /\ Lists(c, s) => Owns(c, s)
        /\ s \in call[w].seats =>
             /\ Owns(c, s) /\ seatKey[s].dropAt = bookingKey[c].dropAt
             /\ call[w].ttl[s] = call[w].bookingTtl
        /\ Owns(c, s) /\ s \notin call[w].seats => seatKey[s].dropAt = bookingKey[c].dropAt + Extension
    BY <1>3, <2>1 DEF Stage
  <2>5. call[w].bookingTtl \in Nat /\ call[w].bookingTtl > 0 /\ clock \in Nat /\ bookingKey[c].dropAt \in Nat
    BY <1>t, <2>4 DEF Calls, BookingKeys
  (* EXPIRE finds the key and sets it off by Extension.                    *)
  <2>6. s = r => /\ seatKey'[s].booking = seatKey[s].booking
                 /\ seatKey'[s].dropAt = bookingKey[c].dropAt + Extension
                 /\ Exists(seatKey[s]) /\ Exists(seatKey[s])'
    <3> SUFFICES ASSUME s = r
                 PROVE  /\ seatKey'[s].booking = seatKey[s].booking
                        /\ seatKey'[s].dropAt = bookingKey[c].dropAt + Extension
                        /\ Exists(seatKey[s]) /\ Exists(seatKey[s])'
      OBVIOUS
    <3>1. Exists(seatKey[s]) /\ call[w].ttl[s] = call[w].bookingTtl
      BY <2>1, <2>4 DEF Owns
    <3>2. seatKey'[s] = [seatKey[s] EXCEPT !.dropAt = clock + call[w].bookingTtl + Extension]
      BY <2>3, <2>5, <3>1 DEF Expire
    <3>3. /\ seatKey'[s].booking = seatKey[s].booking
          /\ seatKey'[s].dropAt = clock + call[w].bookingTtl + Extension
      BY <1>t, <3>2 DEF SeatKeys
    <3>4. QED
      BY <2>4, <2>5, <3>1, <3>3 DEF Exists
  <2>7. \A b \in Bookings : Owns(b, s)' <=> Owns(b, s)
    BY <2>3, <2>6 DEF Owns, Exists
  <2>8. Pair(c, s)'
    <3>1. Lists(c, s)' <=> Lists(c, s)
      BY <2>1 DEF Lists, Exists
    <3>2. Stage(w, c, s)'
      <4>1. Exists(bookingKey[c])' /\ bookingKey'[c].dropAt = clock' + call'[w].bookingTtl
        BY <1>1, <2>1, <2>2, <2>4 DEF Exists
      <4>2. s \in call'[w].seats => /\ Owns(c, s)' /\ seatKey'[s].dropAt = bookingKey'[c].dropAt
                                    /\ call'[w].ttl[s] = call'[w].bookingTtl
        BY <1>3, <2>1, <2>2, <2>3, <2>4, <2>7
      <4>3. Owns(c, s)' /\ s \notin call'[w].seats => seatKey'[s].dropAt = bookingKey'[c].dropAt + Extension
        BY <1>3, <2>1, <2>2, <2>3, <2>4, <2>6, <2>7
      <4>4. Lists(c, s)' => Owns(c, s)'
        BY <1>3, <2>4, <2>7, <3>1
      <4>5. QED
        BY <2>2, <4>1, <4>2, <4>3, <4>4 DEF Stage
    <3>3. Busy(w, c)'
      BY <2>2 DEF Busy
    <3>4. QED
      BY <1>3, <2>2, <2>7, <3>1, <3>2, <3>3, PairAlone
  <2>9. ASSUME NEW b \in Bookings, b # c PROVE Pair(b, s)'
    <3>1. Owns(b, s) => seatKey'[s] = seatKey[s]
      BY <2>1, <2>3, <2>4, <2>9 DEF Owns
    <3>2. QED
      BY <1>a, <2>1, <2>2, <2>7, <2>9, <3>1
  <2>10. QED
    BY <2>3, <2>6, <2>8, <2>9 DEF Exists
<1>8. CASE ExtendExpireBooking(w)
  <2>1. call[w].pc = "extend_expire" /\ call[w].seats = {} /\ seatKey' = seatKey
    BY <1>8 DEF ExtendExpireBooking
  <2>2. call'[w].pc = "idle" /\ \A v \in Workers \ {w} : call'[v] = call[v]
    BY <1>8, <1>r DEF ExtendExpireBooking
  <2>3. /\ bookingKey'[c] = Expire(bookingKey[c], call[w].bookingTtl)
        /\ \A b \in Bookings \ {c} : bookingKey'[b] = bookingKey[b]
    BY <1>2, <1>3, <1>8 DEF ExtendExpireBooking, TypeOK
  <2>4. /\ Exists(bookingKey[c]) /\ bookingKey[c].dropAt = clock + call[w].bookingTtl
        /\ Lists(c, s) => Owns(c, s)
        /\ Owns(c, s) => seatKey[s].dropAt = bookingKey[c].dropAt + Extension
    BY <1>3, <2>1 DEF Stage
  <2>5. call[w].bookingTtl \in Nat /\ call[w].bookingTtl > 0 /\ clock \in Nat /\ bookingKey[c].dropAt \in Nat
    BY <1>t, <2>4 DEF Calls, BookingKeys
  <2>6. /\ bookingKey'[c].seats = bookingKey[c].seats
        /\ bookingKey'[c].dropAt = bookingKey[c].dropAt + Extension
        /\ Exists(bookingKey[c])'
    <3>1. bookingKey'[c] = [bookingKey[c] EXCEPT !.dropAt = clock + call[w].bookingTtl + Extension]
      BY <2>3, <2>4, <2>5 DEF Expire
    <3>2. /\ bookingKey'[c].seats = bookingKey[c].seats
          /\ bookingKey'[c].dropAt = clock + call[w].bookingTtl + Extension
      BY <1>t, <3>1 DEF BookingKeys
    <3>3. QED
      BY <2>4, <2>5, <3>2 DEF Exists
  <2>7. \A b \in Bookings : Owns(b, s)' <=> Owns(b, s)
    BY <2>1 DEF Owns, Exists
  <2>8. Pair(c, s)'
    <3>1. Lists(c, s)' <=> Lists(c, s)
      BY <2>4, <2>6 DEF Lists
    <3>2. Quiet(c, s)'
      BY <1>3, <2>1, <2>4, <2>6, <2>7, <3>1 DEF Quiet
    <3>3. QED
      BY <1>3, <2>2, <2>7, <3>1, <3>2, PairAlone
  <2>9. \A b \in Bookings : b # c => Pair(b, s)'
    BY <1>a, <2>1, <2>2, <2>3, <2>7
  <2>10. QED
    BY <2>1, <2>8, <2>9 DEF Exists
<1>9. QED
  BY <1>4, <1>5, <1>6, <1>7, <1>8

(* Time passes between calls, and the keys of a lock go together.          *)
LEMMA TickKeepsPairs ==
  ASSUME Undisturbed, TypeOK, NEW s \in Seats, NEW b \in Bookings, Pair(b, s), Tick
  PROVE  Pair(b, s)'
<1>1. \A w \in Workers : call[w].pc = "idle" /\ call'[w].pc = "idle"
  BY DEF Undisturbed, Tick
<1>2. Quiet(b, s) /\ (Owns(b, s) => Lists(b, s))
  BY <1>1 DEF Pair, Busy
<1>3. /\ seatKey'[s] = IF seatKey[s].dropAt <= clock + 1 THEN NoSeatKey ELSE seatKey[s]
      /\ bookingKey'[b] = IF bookingKey[b].dropAt <= clock + 1 THEN NoBookingKey ELSE bookingKey[b]
  BY DEF Tick
<1>4. ~Exists(NoSeatKey) /\ ~Exists(NoBookingKey)
  BY DEF Exists, NoSeatKey, NoBookingKey
<1>5. Owns(b, s)' <=> Owns(b, s) /\ ~(seatKey[s].dropAt <= clock + 1)
  BY <1>3, <1>4 DEF Owns
<1>6. Lists(b, s)' <=> Lists(b, s) /\ ~(bookingKey[b].dropAt <= clock + 1)
  BY <1>3, <1>4 DEF Lists
<1>7. (Owns(b, s) => Lists(b, s))' /\ Quiet(b, s)'
  BY <1>2, <1>3, <1>5, <1>6 DEF Quiet
<1>8. QED
  BY <1>1, <1>7 DEF Pair, Busy

LEMMA TogetherInit == Init => Together
<1> SUFFICES ASSUME Init, NEW s \in Seats
             PROVE  ~Exists(seatKey[s]) /\ \A b \in Bookings : Pair(b, s)
  BY DEF Together
<1>1. ~Exists(seatKey[s]) /\ \A b \in Bookings : ~Exists(bookingKey[b])
  BY DEF Init, Exists, NoSeatKey, NoBookingKey
<1>2. \A w \in Workers : call[w].pc = "idle"
  BY DEF Init, Idle
<1>3. QED
  BY <1>1, <1>2 DEF Pair, Quiet, Owns, Lists, Busy

LEMMA TogetherStep ==
  ASSUME Undisturbed, TypeOK, Together, [Next]_vars
  PROVE  Together'
<1>t. TypeOK'
  BY TypeStep
<1> SUFFICES ASSUME NEW s \in Seats, s \notin overtaken'
             PROVE  /\ \A b \in Bookings : Pair(b, s)'
                    /\ Exists(seatKey[s])' => seatKey'[s].booking \in Bookings
  BY DEF Together
<1>o. overtaken \subseteq overtaken'
  <2>1. ASSUME NEW w \in Workers, LockEval(w) PROVE overtaken \subseteq overtaken'
    <3>1. overtaken' = overtaken \/ \E S \in SUBSET call[w].seats : overtaken' = overtaken \cup S
      BY <2>1 DEF LockEval
    <3>2. QED
      BY <3>1
  <2>2. (~\E w \in Workers : LockEval(w)) => overtaken' = overtaken
    BY DEF vars, Next, Lock, Release, Extend, LockSeats, LockReuse, LockMiss, ReleaseSeats,
       ReleaseGet, ReleaseDelSeat, ReleaseDelBooking, ExtendLock, ExtendGet, ExtendTtlSeat,
       ExtendTtlBooking, ExtendExpireSeat, ExtendExpireBooking, Crash, Tick
  <2>3. QED
    BY <2>1, <2>2
<1>s. /\ \A b \in Bookings : Pair(b, s)
      /\ Exists(seatKey[s]) => seatKey[s].booking \in Bookings
  BY <1>o DEF Together
<1>1. ASSUME NEW w \in Workers,
             \/ \E b \in Serves[w], seats \in SUBSET Seats : LockSeats(w, b, seats)
             \/ LockReuse(w) \/ LockMiss(w)
             \/ \E b \in Serves[w] : ReleaseSeats(w, b)
             \/ ReleaseGet(w)
             \/ \E b \in Serves[w] : ExtendLock(w, b)
             \/ ExtendGet(w)
             \/ \E r \in Seats : ExtendTtlSeat(w, r)
             \/ ExtendTtlBooking(w)
             \/ Crash(w)
      PROVE  /\ \A b \in Bookings : Pair(b, s)'
             /\ Exists(seatKey[s])' => seatKey'[s].booking \in Bookings
  <2>1. \A b \in Bookings : Pair(b, s)'
    BY <1>t, <1>s, <1>1, ReadsKeepPairs
  <2>2. seatKey' = seatKey
    BY <1>1 DEF LockSeats, LockReuse, LockMiss, ReleaseSeats, ReleaseGet, ExtendLock, ExtendGet,
       ExtendTtlSeat, ExtendTtlBooking, Crash
  <2>3. QED
    BY <1>s, <2>1, <2>2 DEF Exists
<1>2. ASSUME NEW w \in Workers,
             \/ LockEval(w)
             \/ \E r \in Seats : ReleaseDelSeat(w, r)
             \/ ReleaseDelBooking(w)
             \/ \E r \in Seats : ExtendExpireSeat(w, r)
             \/ ExtendExpireBooking(w)
      PROVE  /\ \A b \in Bookings : Pair(b, s)'
             /\ Exists(seatKey[s])' => seatKey'[s].booking \in Bookings
  BY <1>t, <1>s, <1>2, WritesKeepPairs
<1>3. CASE Tick
  <2>1. \A b \in Bookings : Pair(b, s)'
    BY <1>s, <1>3, TickKeepsPairs
  <2>2. seatKey'[s] = seatKey[s] \/ seatKey'[s] = NoSeatKey
    BY <1>3 DEF Tick
  <2>3. QED
    BY <1>s, <2>1, <2>2 DEF Exists, NoSeatKey
<1>4. CASE UNCHANGED vars
  <2>1. \A b \in Bookings : Pair(b, s)'
    BY <1>s, <1>4 DEF vars, Pair, Busy, Stage, Quiet, Owns, Lists, Exists
  <2>2. QED
    BY <1>s, <1>4, <2>1 DEF vars, Exists
<1>5. QED
  BY <1>1, <1>2, <1>3, <1>4 DEF Next, Lock, Release, Extend

(* A lock ends as a whole for any TTL and extension: where calls take less *)
(* than a second and those of one booking do not overlap, the keys of a    *)
(* lock keep one TTL between calls, however often extendLock reads and     *)
(* sets them one by one, unless the script gave a seat to another booking  *)
(* while the key of the first was still there.                             *)
THEOREM LocksEndWhole == ASSUME Undisturbed PROVE Spec => []LockExpiresWhole
<1>1. Together => LockExpiresWhole
  <2> SUFFICES ASSUME Together, NEW s \in Seats \ overtaken, Exists(seatKey[s]),
                      \A w \in Workers : call[w].booking # seatKey[s].booking
               PROVE  seatKey[s].dropAt = bookingKey[seatKey[s].booking].dropAt
    BY DEF LockExpiresWhole
  <2>1. PICK b \in Bookings : b = seatKey[s].booking
    BY DEF Together
  <2>2. Pair(b, s) /\ Owns(b, s) /\ \A w \in Workers : ~Busy(w, b)
    BY <2>1 DEF Together, Owns, Busy
  <2>3. QED
    BY <2>1, <2>2 DEF Pair, Quiet
<1>2. TypeOK /\ Together /\ [Next]_vars => Together'
  BY TogetherStep
<1>3. QED
  BY <1>1, <1>2, TogetherInit, TypeCorrect, PTL DEF Spec
=============================================================================
