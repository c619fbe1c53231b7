------------------------------ MODULE SeatLock ------------------------------
(***************************************************************************)
(* The seat lock library (libs/seat-lock/src/seat-lock.service.ts) for one *)
(* flight, at the granularity of Redis round trips.                        *)
(*                                                                         *)
(* A booking is locked by one Lua script (EVAL) that writes a key per seat *)
(* and one key for the booking, all with the same TTL.  Every other        *)
(* operation is a GET of the booking key followed, after an await, by a    *)
(* pipeline of single commands; commands of other clients may be executed  *)
(* between two commands of a pipeline.                                     *)
(*                                                                         *)
(* A seat key carries its expiry twice: as the Redis TTL (dropAt here) and *)
(* inside its JSON payload (expiresAt).  The script trusts the payload.    *)
(***************************************************************************)
EXTENDS Naturals

CONSTANTS
  Bookings,       \* booking ids that use the lock
  Seats,          \* seat numbers of the flight
  Workers,        \* concurrent calls of the service (requests, consumers, crons)
  Serves,         \* Serves[w]: the bookings worker w is called for
  Extenders,      \* the bookings whose user asks for more time
  Prompt,         \* TRUE: no second elapses while a call is in flight
  LOCK_TTL,       \* lifetime of a lock
  Extension,      \* additionalSeconds of extendLock
  MaxClock,       \* bound: the clock stops here
  MaxDrop,        \* bound: a lock that lasts until then is not extended
  NoBooking       \* "no booking" in the payload of an absent key

ASSUME ConstantsAssumption ==
  /\ Serves \in [Workers -> SUBSET Bookings]
  /\ Extenders \subseteq Bookings
  /\ Prompt \in BOOLEAN
  /\ LOCK_TTL \in Nat \ {0}
  /\ Extension \in Nat \ {0}
  /\ MaxClock \in Nat
  /\ MaxDrop \in Nat
  /\ NoBooking \notin Bookings

VARIABLES
  clock,          \* seconds; Date.now() and the clock of Redis
  seatKey,        \* seat:lock:{flight}:<seat>
  bookingKey,     \* seat:lock:booking:{flight}:<booking>
  call,           \* the call each worker is in, between two round trips
  claim,          \* what the library last promised each booking's caller
  overtaken       \* seats a script took while a key of another booking was there

vars == <<clock, seatKey, bookingKey, call, claim, overtaken>>

(* dropAt is the second at which Redis drops the key, 0 when it is absent. *)
NoSeatKey    == [booking |-> NoBooking, expiresAt |-> 0, dropAt |-> 0]
NoBookingKey == [seats |-> {}, timestamp |-> 0, dropAt |-> 0]
NoClaim      == [seats |-> {}, until |-> 0]

(* seats: argument of lockSeats, or the keys a pipeline has still to touch.*)
(* ttl, bookingTtl: the TTLs extendLock has read (0: no EXPIRE is queued). *)
Idle == [pc |-> "idle", booking |-> NoBooking, seats |-> {}, timestamp |-> 0,
         ttl |-> [s \in Seats |-> 0], bookingTtl |-> 0]

Exists(key) == key.dropAt > 0

PCs == {"idle", "lock_get", "lock_eval", "release_get", "release_del",
        "extend_get", "extend_ttl", "extend_expire"}

(* A key that exists has time left.                                        *)
Unexpired(key) == Exists(key) => key.dropAt > clock

SeatKeys    == [booking : Bookings \cup {NoBooking}, expiresAt : Nat, dropAt : Nat]
BookingKeys == [seats : SUBSET Seats, timestamp : Nat, dropAt : Nat]
Calls       == [pc : PCs, booking : Bookings \cup {NoBooking}, seats : SUBSET Seats,
                timestamp : Nat, ttl : [Seats -> Nat], bookingTtl : Nat]
Claims      == [seats : SUBSET Seats, until : Nat]

TypeOK ==
  /\ clock \in Nat
  /\ seatKey \in [Seats -> SeatKeys]
  /\ bookingKey \in [Bookings -> BookingKeys]
  /\ call \in [Workers -> Calls]
  /\ claim \in [Bookings -> Claims]
  /\ overtaken \in SUBSET Seats
  /\ \A w \in Workers : call[w].pc # "idle" => call[w].booking \in Serves[w]
  /\ \A s \in Seats : Unexpired(seatKey[s])
  /\ \A b \in Bookings : Unexpired(bookingKey[b])

Init ==
  /\ clock = 0
  /\ seatKey = [s \in Seats |-> NoSeatKey]
  /\ bookingKey = [b \in Bookings |-> NoBookingKey]
  /\ call = [w \in Workers |-> Idle]
  /\ claim = [b \in Bookings |-> NoClaim]
  /\ overtaken = {}

Goto(w, pc) == call' = [call EXCEPT ![w].pc = pc]
Return(w)   == call' = [call EXCEPT ![w] = Idle]

-----------------------------------------------------------------------------
(* lockSeats.  The timestamp is taken before the first await.  A seat list *)
(* with duplicates is rejected before anything happens, so the argument is *)
(* a set.                                                                  *)
LockSeats(w, b, seats) ==
  /\ call[w].pc = "idle"
  /\ call' = [call EXCEPT ![w] = [Idle EXCEPT !.pc = "lock_get", !.booking = b,
                                  !.seats = seats, !.timestamp = clock]]
  /\ UNCHANGED <<clock, seatKey, bookingKey, claim, overtaken>>

(* GET of the booking key: an existing lock is reported as it stands.      *)
LockReuse(w) ==
  LET b == call[w].booking IN
  /\ call[w].pc = "lock_get"
  /\ Exists(bookingKey[b])
  /\ claim' = [claim EXCEPT ![b] = [seats |-> bookingKey[b].seats,
                                    until |-> bookingKey[b].timestamp + LOCK_TTL]]
  /\ Return(w)
  /\ UNCHANGED <<clock, seatKey, bookingKey, overtaken>>

(* No lock yet: with no seat to lock the call succeeds without a key.      *)
LockMiss(w) ==
  /\ call[w].pc = "lock_get"
  /\ ~Exists(bookingKey[call[w].booking])
  /\ IF call[w].seats = {} THEN Return(w) ELSE Goto(w, "lock_eval")
  /\ UNCHANGED <<clock, seatKey, bookingKey, claim, overtaken>>

(* Mutant: the last second of a lock is taken for expired.                 *)
FailedSeatsEarly(b, seats, timestamp) ==
  {s \in seats : /\ Exists(seatKey[s])
                 /\ seatKey[s].booking # b
                 /\ seatKey[s].expiresAt > timestamp + 1}

(* The Lua script refuses a seat whose payload names another booking and   *)
(* expires after the caller's timestamp.                                   *)
FailedSeats(b, seats, timestamp) ==
  {s \in seats : /\ Exists(seatKey[s])
                 /\ seatKey[s].booking # b
                 /\ seatKey[s].expiresAt > timestamp}

(* Mutant: seats that are taken are skipped instead of failing the lock.   *)
LockEvalPartial(w) ==
  LET b         == call[w].booking
      timestamp == call[w].timestamp
      free      == call[w].seats \ FailedSeats(b, call[w].seats, timestamp)
  IN
  /\ call[w].pc = "lock_eval"
  /\ seatKey' = [s \in Seats |->
       IF s \in free THEN [booking |-> b, expiresAt |-> timestamp + LOCK_TTL,
                           dropAt |-> clock + LOCK_TTL]
                     ELSE seatKey[s]]
  /\ bookingKey' = [bookingKey EXCEPT ![b] =
       [seats |-> call[w].seats, timestamp |-> timestamp, dropAt |-> clock + LOCK_TTL]]
  /\ claim' = [claim EXCEPT ![b] =
       [seats |-> call[w].seats, until |-> timestamp + LOCK_TTL]]
  /\ Return(w)
  /\ UNCHANGED <<clock, overtaken>>

(* All or nothing: the script writes every key or none.                    *)
LockEval(w) ==
  LET b         == call[w].booking
      seats     == call[w].seats
      timestamp == call[w].timestamp
  IN
  /\ call[w].pc = "lock_eval"
  /\ IF FailedSeats(b, seats, timestamp) = {}
       THEN /\ seatKey' = [s \in Seats |->
                 IF s \in seats
                   THEN [booking |-> b, expiresAt |-> timestamp + LOCK_TTL,
                         dropAt |-> clock + LOCK_TTL]
                   ELSE seatKey[s]]
            /\ bookingKey' = [bookingKey EXCEPT ![b] =
                 [seats |-> seats, timestamp |-> timestamp,
                  dropAt |-> clock + LOCK_TTL]]
            /\ claim' = [claim EXCEPT ![b] =
                 [seats |-> seats, until |-> timestamp + LOCK_TTL]]
            /\ overtaken' = overtaken \cup
                 {s \in seats : Exists(seatKey[s]) /\ seatKey[s].booking # b}
       ELSE UNCHANGED <<seatKey, bookingKey, claim, overtaken>>
  /\ Return(w)
  /\ UNCHANGED clock

-----------------------------------------------------------------------------
(* releaseSeats.  Whoever calls it gives up the booking's seats, and what  *)
(* its pipeline deletes is promised to the booking no longer.              *)
ReleaseSeats(w, b) ==
  /\ call[w].pc = "idle"
  /\ call' = [call EXCEPT ![w] = [Idle EXCEPT !.pc = "release_get", !.booking = b]]
  /\ claim' = [claim EXCEPT ![b] = NoClaim]
  /\ UNCHANGED <<clock, seatKey, bookingKey, overtaken>>

ReleaseGet(w) ==
  LET key == bookingKey[call[w].booking] IN
  /\ call[w].pc = "release_get"
  /\ IF Exists(key)
       THEN call' = [call EXCEPT ![w].pc = "release_del", ![w].seats = key.seats]
       ELSE Return(w)
  /\ UNCHANGED <<clock, seatKey, bookingKey, claim, overtaken>>

(* One DEL of the pipeline: the seat keys go first, whoever owns them now. *)
ReleaseDelSeat(w, s) ==
  /\ call[w].pc = "release_del"
  /\ s \in call[w].seats
  /\ seatKey' = [seatKey EXCEPT ![s] = NoSeatKey]
  /\ claim' = [claim EXCEPT ![call[w].booking] = NoClaim]
  /\ call' = [call EXCEPT ![w].seats = @ \ {s}]
  /\ UNCHANGED <<clock, bookingKey, overtaken>>

(* Mutant: the booking key is deleted first and the seats are forgotten.   *)
ReleaseDelBookingFirst(w) ==
  /\ call[w].pc = "release_del"
  /\ bookingKey' = [bookingKey EXCEPT ![call[w].booking] = NoBookingKey]
  /\ claim' = [claim EXCEPT ![call[w].booking] = NoClaim]
  /\ Return(w)
  /\ UNCHANGED <<clock, seatKey, overtaken>>

ReleaseDelBooking(w) ==
  /\ call[w].pc = "release_del"
  /\ call[w].seats = {}
  /\ bookingKey' = [bookingKey EXCEPT ![call[w].booking] = NoBookingKey]
  /\ claim' = [claim EXCEPT ![call[w].booking] = NoClaim]
  /\ Return(w)
  /\ UNCHANGED <<clock, seatKey, overtaken>>

-----------------------------------------------------------------------------
(* extendLock: TTLs are read one round trip at a time, then one pipeline   *)
(* sets each key's TTL to what was read plus Extension.  No payload is     *)
(* rewritten.  Bound: a lock that lasts until MaxDrop is not extended.     *)
Ttl(key) == IF Exists(key) THEN key.dropAt - clock ELSE 0

ExtendLock(w, b) ==
  /\ call[w].pc = "idle"
  /\ b \in Extenders
  /\ bookingKey[b].dropAt < MaxDrop
  /\ call' = [call EXCEPT ![w] = [Idle EXCEPT !.pc = "extend_get", !.booking = b]]
  /\ UNCHANGED <<clock, seatKey, bookingKey, claim, overtaken>>

ExtendGet(w) ==
  LET key == bookingKey[call[w].booking] IN
  /\ call[w].pc = "extend_get"
  /\ IF Exists(key)
       THEN call' = [call EXCEPT ![w].pc = "extend_ttl", ![w].seats = key.seats]
       ELSE Return(w)
  /\ UNCHANGED <<clock, seatKey, bookingKey, claim, overtaken>>

ExtendTtlSeat(w, s) ==
  /\ call[w].pc = "extend_ttl"
  /\ s \in call[w].seats
  /\ call' = [call EXCEPT ![w].seats = @ \ {s}, ![w].ttl[s] = Ttl(seatKey[s])]
  /\ UNCHANGED <<clock, seatKey, bookingKey, claim, overtaken>>

ExtendTtlBooking(w) ==
  /\ call[w].pc = "extend_ttl"
  /\ call[w].seats = {}
  /\ call' = [call EXCEPT ![w].pc = "extend_expire",
                          ![w].seats = {s \in Seats : call[w].ttl[s] > 0},
                          ![w].bookingTtl = Ttl(bookingKey[call[w].booking])]
  /\ UNCHANGED <<clock, seatKey, bookingKey, claim, overtaken>>

(* EXPIRE on a key that is gone does nothing.                              *)
Expire(key, ttl) ==
  IF Exists(key) /\ ttl > 0 THEN [key EXCEPT !.dropAt = clock + ttl + Extension]
                            ELSE key

ExtendExpireSeat(w, s) ==
  /\ call[w].pc = "extend_expire"
  /\ s \in call[w].seats
  /\ seatKey' = [seatKey EXCEPT ![s] = Expire(@, call[w].ttl[s])]
  /\ call' = [call EXCEPT ![w].seats = @ \ {s}]
  /\ UNCHANGED <<clock, bookingKey, claim, overtaken>>

(* Mutant: the booking key is not extended with its seats.                 *)
ExtendExpireSeatsOnly(w) ==
  /\ call[w].pc = "extend_expire"
  /\ call[w].seats = {}
  /\ claim' = [claim EXCEPT ![call[w].booking].until = clock + Extension]
  /\ Return(w)
  /\ UNCHANGED <<clock, seatKey, bookingKey, overtaken>>

(* The caller, extendBooking, then promises Extension more from now.       *)
ExtendExpireBooking(w) ==
  LET b == call[w].booking IN
  /\ call[w].pc = "extend_expire"
  /\ call[w].seats = {}
  /\ bookingKey' = [bookingKey EXCEPT ![b] = Expire(@, call[w].bookingTtl)]
  /\ claim' = [claim EXCEPT ![b].until = clock + Extension]
  /\ Return(w)
  /\ UNCHANGED <<clock, seatKey, overtaken>>

-----------------------------------------------------------------------------
(* A worker dies between two round trips.  A pipeline is one write to the  *)
(* socket: once its first command ran, the server runs the others.         *)
Crash(w) ==
  /\ call[w].pc \in {"lock_get", "lock_eval", "release_get", "extend_get", "extend_ttl"}
  /\ Return(w)
  /\ UNCHANGED <<clock, seatKey, bookingKey, claim, overtaken>>

(* A second passes and Redis drops the keys whose time has come.           *)
Tick ==
  /\ clock < MaxClock
  /\ Prompt => \A w \in Workers : call[w].pc = "idle"
  /\ clock' = clock + 1
  /\ seatKey' = [s \in Seats |->
                   IF seatKey[s].dropAt <= clock + 1 THEN NoSeatKey ELSE seatKey[s]]
  /\ bookingKey' = [b \in Bookings |->
                   IF bookingKey[b].dropAt <= clock + 1 THEN NoBookingKey ELSE bookingKey[b]]
  /\ UNCHANGED <<call, claim, overtaken>>

Lock(w) ==
  \/ \E b \in Serves[w], seats \in SUBSET Seats : LockSeats(w, b, seats)
  \/ LockReuse(w)
  \/ LockMiss(w)
  \/ LockEval(w)

Release(w) ==
  \/ \E b \in Serves[w] : ReleaseSeats(w, b)
  \/ ReleaseGet(w)
  \/ \E s \in Seats : ReleaseDelSeat(w, s)
  \/ ReleaseDelBooking(w)

Extend(w) ==
  \/ \E b \in Serves[w] : ExtendLock(w, b)
  \/ ExtendGet(w)
  \/ \E s \in Seats : ExtendTtlSeat(w, s)
  \/ ExtendTtlBooking(w)
  \/ \E s \in Seats : ExtendExpireSeat(w, s)
  \/ ExtendExpireBooking(w)

Next ==
  \/ \E w \in Workers : Lock(w) \/ Release(w) \/ Extend(w) \/ Crash(w)
  \/ Tick

Spec == Init /\ [][Next]_vars

-----------------------------------------------------------------------------
(* Properties.  A claim is live until the moment the library named.        *)
Live(b) == clock < claim[b].until

(* The lock excludes: no two bookings are at the same time promised the    *)
(* same seat (lockSeats' script against releaseSeats, extendLock, expiry). *)
NoDoubleHold ==
  \A b, c \in Bookings :
    b # c /\ Live(b) /\ Live(c) => claim[b].seats \cap claim[c].seats = {}

(* The use of the library under which the lock is sound: a round trip is   *)
(* short against a second, nobody extends a lock, and two calls for one    *)
(* booking never overlap.                                                  *)
Orderly ==
  /\ Prompt
  /\ Extenders = {}
  /\ \A v, w \in Workers : v # w => Serves[v] \cap Serves[w] = {}

(* A promise is kept in Redis: every seat of a live claim has a key that   *)
(* names the booking, so areSeatsLocked never reports it free and a lock   *)
(* is all or nothing (the two loops of the script).                        *)
ClaimBacked ==
  \A b \in Bookings : Live(b) =>
    \A s \in claim[b].seats : Exists(seatKey[s]) /\ seatKey[s].booking = b

(* A seat key can always be released: its owner's booking key exists and   *)
(* lists the seat, so neither releaseSeats nor a crash in it nor expiry    *)
(* ever strands a seat key.                                                *)
SeatReleasable ==
  \A s \in Seats : Exists(seatKey[s]) =>
    /\ Exists(bookingKey[seatKey[s].booking])
    /\ s \in bookingKey[seatKey[s].booking].seats

(* A lock ends as a whole, although the TTLs of its keys are read and set  *)
(* one by one: between calls for a booking its seat keys and its booking   *)
(* key have the same TTL left, so a seat is never freed early nor kept     *)
(* after its booking's lock is gone (SETEX and EXPIRE).  Not so a seat     *)
(* that was overtaken: extendLock prolongs every seat its booking key      *)
(* lists, whoever has it by now.                                           *)
LockExpiresWhole ==
  \A s \in Seats \ overtaken :
    LET b == seatKey[s].booking IN
    /\ Exists(seatKey[s])
    /\ \A w \in Workers : call[w].booking # b
    => seatKey[s].dropAt = bookingKey[b].dropAt

(* What each booking holds, and the promise the library makes of it: in    *)
(* orderly use, lockSeats, releaseSeats and expiry are grants of free      *)
(* seats and drops, as SeatHold says, whatever round trips they take.      *)
Held == [b \in Bookings |-> IF Live(b) THEN claim[b].seats ELSE {}]

Promise == INSTANCE SeatHold WITH hold <- Held

ImplementsSeatHold == Promise!Spec
=============================================================================
