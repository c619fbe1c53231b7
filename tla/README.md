# Verification of the flight booking system

TLA+ models of the parts of this repository where concurrency, failure and
ordering decide whether a seat is sold, a payment recorded, a session kept or a
request let through correctly. TLC checks the models on small instances; TLAPS
proves the safety properties of all of them but the migrations for every value of
the parameters. `PROJECT.json` holds the correspondence between
definitions and source lines, the runs, the hazards each property is aimed at,
the mutants that show a property notices a bug, and the findings.

    tlc -workers 2 -config SeatLock.cfg MCSeatLock     # one run
    tlapm SeatLockProofs.tla                           # one module of proofs

## 1. The system

A monorepo of NestJS services that talk over RabbitMQ, with one PostgreSQL
database per service and a shared Redis.

| Component | State it keeps | Operations | What makes it correct | Model |
|---|---|---|---|---|
| Seat lock (`libs/seat-lock`) | Redis keys, one per locked seat and one per booking, with a TTL | `lockSeats`, `releaseSeats`, `extendLock`, `areSeatsLocked` | no two bookings hold a seat; all seats or none; nothing is locked for ever | `SeatLock` |
| Booking saga (`apps/booking-service`) | `bookings`, `saga_states`, `outbox_events`, copies of the saga row in memory | create (three steps and the payment intent), complete, cancel, extend | the rows agree; a failed step undoes the earlier ones; a cancelled booking frees its seats and is not brought back by accident | `BookingSaga` |
| Outbox (`booking-service/src/outbox`) | `outbox_events.status`, `retry_count` | `storeEvent`, `publishPendingEvents`, `cleanupOldEvents` | at least once; never "published" without a publish; given up only after the retries; nothing is sent before its commit | `Outbox`, `EventRelay` |
| Seat inventory (`flight.event-handler.ts`) | seats available, `processed_events` | reserve, confirm, release | every event counts once; between 0 and the capacity; no release is lost | `FlightInventory` |
| Payments (`apps/payment-service`) | payments, idempotency keys | create and confirm an intent, mark failed | a key runs once; paid is recorded; a status has the money behind it | `Payment` |
| Refunds and ledger | refunds, ledger entries | refund | within the payment; the journal agrees with the tables | `Payment` |
| Webhooks | `webhook_events` | `handleWebhook` | answered 200 only when applied; duplicates do no harm | `Payment` |
| Payment gateways | none; Stripe's intents | create, capture, refund | errors are turned into the right outcome | `Payment` |
| Authentication (`apps/auth-service`) | users, one refresh token id per user and device, a blacklist | register, sign in, refresh, sign out | a replaced token gets nothing; a session is not lost | `AuthTokens` |
| Gateway: authentication | cookies of the browsers | set, clear, `JwtAuthGuard` | the cookie is the stored token | `AuthTokens` |
| Rate limiter (`libs/rate-limiter`) | a sliding window (sorted set) and a block key | consume, status, reset, block, unblock, delete | never more than the limit in a window; refusals are earned | `RateLimiter` |
| Broker helpers (`rmq.helper.ts`, RMQ configuration) | queues, acknowledgements, retry queue | consume, retry, acknowledge | no message is lost or run twice over something newer | in `AuthTokens`, `FlightInventory` |
| Schemas: migrations and entities | the tables of three databases | run, revert, run again; synchronize | migrations converge; entities fit; no data is lost | `Migrations` |
| Catalogue (`flight-service`) | cities, airports, airplanes, flights, seats, a cache | create, read, update, delete | the cache is invalidated by writes | |
| Gateway (rest), notifications, common, storage, telemetry | none of their own | forwarding, logging, I/O | | |

How they interact. `createBooking` runs the saga: a booking row (step 1), the
seat lock in Redis (step 2), the event `flight.reserve-seats` in the outbox and
the booking PENDING (step 3), then an RPC to payment-service for an intent. The
customer pays at the gateway, whose webhook or a client's confirmation makes
payment-service publish `payment.completed`; the booking service then completes
the booking (`flight.confirm-seats`, `booking.confirmed`) and releases the seat
lock. A cancellation, by the user or after a failure, compensates: it releases
the lock, stores `flight.release-seats` and marks booking and saga. The outbox
cron publishes the stored events; each seat event type has its own queue at
flight-service, whose handlers change the inventory. Requests reach the services
through the gateway, past the rate limiter and the access token.

`BookingSystem` is the path of the seats through these services.

The hard behaviours: two bookings asking for one seat; the expiry of a lock
against the calls that use it; a saga read into memory and written back after
several awaits; a Redis command inside a database transaction; failures at every
step, including those of the compensation; a timeout of a call whose request
succeeded; payment events and webhooks that are late, early or duplicated;
transactions that do not see one another; cron runs that overlap; at-least-once
delivery over queues with no order between them; retries of what was half done;
clocks that disagree; and crashes between any two of these.

Facts of the wiring that matter, parameters of the models where they can be:

- no module imports `ScheduleModule`, so no `@Cron` method fires as the modules
  are wired, and `BookingCleanupService` is not a provider of
  `booking-service.module.ts`. Nothing is therefore assumed of when they run: the
  runs of the outbox are actions that may or may not happen, and the expiry cron is
  not in the model (what it would call, `cancelBooking`, is, for any booking at any
  time);
- `FlightEventHandler` is not registered by `flight.module.ts`, and `ProcessedEvent`
  is not among the entities of the service; `FlightInventory` models the handlers as
  written, and says nothing of when they run;
- the payment client is the mock or the RPC client, by configuration (`MockWorkers`);
- `RateLimiterGuard` runs before `JwtAuthGuard`, so the key of a limit is in
  practice the API key or the address, and the `@RateLimit` of booking-service's
  RPC controllers has no guard behind it;
- auth-service has entities and no migrations.

## 2. The modules

| Module | Models | Built on |
|---|---|---|
| `SeatHold` | abstract: what the seat lock promises the saga | |
| `SeatLock`, `SeatLockProofs` | the library, one Redis command at a time | implements `SeatHold` |
| `BookingSaga` | the saga, its callers, the payment handler, and the seat lock one call at a time | instance of `SeatHold`, for a theorem |
| `EventRelay` | abstract: what the outbox promises the services behind the broker | |
| `Outbox`, `OutboxProofs` | `OutboxService` | implements `EventRelay` |
| `FlightInventory`, `FlightInventoryProofs` | `FlightEventHandler` and its queues | |
| `BookingSystem`, `BookingProofs` | the bookings of one flight, from the saga to the seats; proofs about it and about `BookingSaga` | `BookingSaga`, with `EventRelay` and `FlightInventory` as instances |
| `Payment`, `PaymentProofs` | `PaymentService`, `RefundService`, `WebhookService`, the gateway adapters, the ledger | |
| `AuthTokens`, `AuthTokensProofs` | auth-service, its Redis storages, `handleAck`, the gateway's cookies | |
| `RateLimiter`, `RateLimiterProofs` | the limiter and its guard | |
| `SchemaStatements` | what DDL statements do to a schema | |
| `ServiceSchemas`, `ServiceEntities` | the migrations and the entities, as data | `SchemaStatements` |
| `Migrations` | a database under run, revert and run again | `ServiceEntities` |
| `FiniteSums` | lemmas about sums over finite sets, for the proofs | |
| `MC*` | finite instances for TLC | |

Definitions whose comment begins with "Mutant:" are wrong on purpose: variants of
an operation with a plausible bug, which show that the properties notice it. No
specification uses them.

### SeatLock

`seatKey[s]` and `bookingKey[b]` are the two kinds of keys. A seat key has its
expiry twice, as in the code: `expiresAt` inside the JSON payload, which the Lua
script compares, and `dropAt`, the second at which Redis drops it. `call[w]` is
the call a worker is in, `pc` naming the next Redis command. `claim[b]` is a
history variable: the seats the library last told booking `b`'s caller it
holds, and until when. `overtaken` is another: the seats a script gave to a booking
while a key of another one was still there, its payload having expired.

`lockSeats` is `LockSeats` (the timestamp is taken), `LockReuse`/`LockMiss` (GET
of the booking key) and `LockEval` (the script, atomic in Redis). `releaseSeats`
is `ReleaseSeats`, `ReleaseGet`, then one `ReleaseDelSeat` per seat key and
`ReleaseDelBooking`: the commands of a pipeline, between which Redis may serve
other clients. `extendLock` is `ExtendGet`, `ExtendTtlSeat`, `ExtendTtlBooking`,
`ExtendExpireSeat`, `ExtendExpireBooking`. `Crash` ends a call between two round
trips; a pipeline, once sent, is executed. `Tick` is time and Redis expiry.

Time is one clock in seconds: the clocks of Redis and of the services are
assumed to agree. Seat numbers are a set: duplicates and malformed numbers are
rejected before any effect.

Three constants describe how the library is used. `Serves[w]` gives the bookings
a worker is called for: disjoint sets mean that calls for one booking never
overlap. `Prompt` says that a call takes less than a second of the clock.
`Extenders` are the bookings that are extended. `Orderly` is the conjunction
under which the lock keeps its promise. Each of its three parts is necessary.
With `Extenders` not empty an extended booking loses its seats (section 5).
With `Serves <- TwoForFirst` in `SeatLock.cfg`, `lockSeats` reports an existing
booking key as success while a release of the same booking is deleting the seat
keys. With `Prompt = FALSE`, a release that takes longer than what is left of its
lock deletes the seat key of the next holder.

### BookingSaga

Per booking: the status of the booking row, whether `expires_at` has passed, the
saga row (status and step), the number of outbox rows per event type, the seats
held, the state of the lock, and what payment-service knows (`intent`). `call[w]`
holds `pc` and `sagaState`, the copy of the saga row the code works on. A transaction
is one action at its commit, except `compensate`, whose Redis release happens inside
the transaction and is a step of its own (`CompensateLocks`, then
`CompensateCommit`); while a compensation is between the two it holds the row
locks of its booking (`RowUnlocked`). The catch blocks are actions: every step has a
`...Fails` twin, guarded by `Fault(kind)`. The kinds are `tx` (a transaction
fails before its effect), `commit` (step 3 fails after it changed its copy in
memory), `reload` (the read of the booking after step 3 fails, which nothing
compensates), `redis`, `lock_reply` (the script ran, its answer is lost), `rpc`,
`timeout` (the intent exists, its answer is lost), `undo` (the compensation itself
fails, before or after it released the lock) and `crash`. `faults.kinds` remembers
which of them happened, so that a property can say what it does not survive:
`RowsAgree` a `commit` failure, because the compensation then gives back seats that
were never asked for; `PendingHoldsSeats` and `NothingHalfCreated` a compensation
that fails or is cut off, because nothing resumes it; the half of
`NothingHalfCreated` about payment intents a `reload`.

The seat lock is modelled one call at a time, with what an extension does to it:
`lock[b]` is `fresh` while the keys end when their payloads say, `extended` once
`extendLock` has prolonged the keys and not the payloads, and `lapsed` when the
payloads have expired and the keys are still there. `LockSeats` goes by the payloads
and takes over seats of a lapsed lock; `ReleaseSeats` frees whatever seats the booking
key lists, whoever has them by now. `overtaken` remembers the seats that were ever
taken over. Without extensions this is `SeatHold` (`LocksArePromised`, which
`BookingProofs` proves), which `SeatLock` implements.

payment-service is external: it creates an intent, is paid at any time, reports it,
possibly several times. `completeBooking` does not look at the booking's status, so a
payment that comes after a cancellation completes the cancelled booking; `revived`
remembers these bookings, and the properties that do not hold for them say so.

Constants that describe the environment: `Serial` (calls for one booking do not
overlap), `ClientsPay` (the client-driven completion endpoint, which takes a
transaction id at its word, is only called after payment), `MockWorkers` (the calls
served with the mock payment client), `Extenders` and `Faults`.

Left out: prices, passengers, seat classes, and the JSON payloads of the events.

### Outbox

`row[e]` is the row; `run[p]` a run of the cron with the batch it found and the
retry counts in its copies of the rows. `sent`, `dead` and `failed` count what
reached the exchange, what reached the dead letter exchange and the attempts
that ended in the catch block; `lost` counts the runs that were cut off and `shared`
holds the events that two runs had at once, so that a property can name the cause
of a stranded or duplicated event. Events are numbered in the order of `created_at`.
`Take`, `Publish`, `Mark` are the three awaits of `publishEvent`; `AttemptFails`
leads to the catch block, `Retry` and `MoveToDeadLetterQueue` are the catch block,
`DeadLetter` the publish to `booking.dlq`, `RunFails` a failure in the catch block
or a crash.

### FlightInventory

One flight and one seat class. `queue[e]` counts the messages for event `e`
waiting at the broker, `handler[c]` is the message a consumer handles.
`CheckProcessed` is the look-up before the transaction; `ReserveSeats`,
`ConfirmSeats` and `ReleaseSeats` are the transactions, serialised by the row
lock, with the unique `event_id`; `Rejected` is a rollback because of too few seats
or a duplicate id; a handler that throws has its message requeued.
`ReservationExpires` is the TTL of the reserve queue. Nothing orders the queues: a
release may be carried out before its reservation, or although that was rejected or
has expired (`Unreserved`), and `WithinCapacity` says how far the free seats can
then exceed the flight's.

### EventRelay and BookingSystem

`EventRelay` has two actions: a transaction stores events, and a stored event is
sent, any number of times. `Outbox` implements it, with the rows that were committed
as `stored` and the copies in the exchange as `sent`; overlapping runs, retries and
lost updates are its stuttering.

`BookingSystem` is the path of a seat. It extends `BookingSaga` and has
`FlightInventory` as an instance whose events are the seat events of the bookings,
`<<booking, kind, number>>`, `number` telling the rows of one kind apart. `Stored` is
what the saga's commits have left in `outbox`; `RelayEvent` is one step of
`EventRelay` and of the flight's `Publish` together, so that the flight gets what was
committed, in any order; `Consume` is flight-service.
`seatCount` is the same in the three events of a booking, as in the code, where each
computes it from the payload of the saga. Nothing flows back from the flight to the
saga, because nothing does in the code: a reservation that is rejected until it
expires leaves a booking that goes on to be paid and confirmed (section 5).

### Payment

The tables are `payment`, `idem`, `refunds`, `ledger` and `hook`; `req[s]` is a
request with its `pc`, what it read and what it is going to write. A request is a
READ COMMITTED transaction around a call of the gateway, so its reads, the call,
its saves and its `Commit` are steps of their own. What it writes stays in `req`
until `Commit`; only what makes others wait is visible before: `keyLock` (the
INSERT of an idempotency key) and `rowLock` (the UPDATE of a payment row). A
consequence the model shows rather than assumes: PROCESSING is never seen by
anyone, since it is inserted and replaced in one transaction; a second request
with the key waits in `blocked` and then fails on the unique index, unless the
first one rolled back, and a key that
is FAILED is saved without a change, so that two retries of it run side by side.

`Claim` is `claimIdempotency`; `ReadForConfirm`, `ReadForRefund` the look-ups;
`CallCreate`, `CallUnsupported`, `CallCapture`, `CallRefund` the calls of the
adapters, with the errors they rethrow or turn into an answer without success;
`SavePayment` is TypeORM's `save`, which updates only what differs from the row;
`WriteLedger` decides whether entries are due; `Publish` comes after the commit;
`MarkIdempotencyAsFailed` is the catch block. A webhook is `HandleWebhook`, then
the confirmation or `MarkPaymentFailed`, then `WebhookProcessed`. An event
`charge.refunded` carries the id of a charge, which is no payment's
`gatewayPaymentId`: it is refused each time it comes, and `refreshRefundedStatus`
behind it is never reached. `events` and `acked` are the gateway's: an event may be
delivered at any time, in any order and again until it is answered 200, and
`CustomerPays`, `CustomerAuthorises`, `CustomerIsDeclined` are the customer's.
`env.kinds` and `env.spoiled` (keys marked FAILED while they had a row) let
properties name what they do not survive.

A client's confirmation may name an intent (`dto.gatewayPaymentId`), one of another
payment or one that is no payment's here (`Foreign`, paid by `PaidElsewhere`):
`IntentOf` is what is captured then. The rows of the ledger carry that intent (`of`),
and a refund is of the payment's own.

One amount for all payments, one currency. The gateway's own ceiling on refunds
is not modelled: what is said of refunds is said of this code alone. Audit logs
and in-process events, which nothing reads, are left out.

### AuthTokens

A session is a user and a device. `stored` is `refresh-token:{user}:{device}`,
`blacklist` the blacklist keys, `queue` the requests in `auth_queue` and its retry
queue, `call[w]` the request an instance works on, `client[c]` the cookies of a
browser or what an app keeps. `Steps(op)` lists the awaits of an operation, and a
step goes on to the next: `FindEmail`, `Save`, `FindUser`, `Verify`, `Validate`,
`GetToken`, `Invalidate`, `Blacklist`, `Sign`, `Insert`, `Audit`, `Answer`.
`Fail` is an error of a step: what `refreshTokens` catches becomes a 401, anything
else goes to the retry queue (`HandleAck`) and runs again from the start, up to
`MaxRetries`. `generateTokens` is returned without an await and so escapes that
catch block. `Crash` redelivers, or loses the answer. `Tick` expires tokens.

`ended`, `cause`, `owner` and `welcomed` are histories: the ids that were replaced
or deleted, why a session has no token, who is alone with a session, and how often
a user was told to be registered. The direct HTTP routes of the service, its audit
rows, hashing and signatures are not modelled.

### RateLimiter

`log[k]` is the sorted set, `block[k]` the block key with the expiry in its value
(`until`) and in Redis (`drop`). `consume` is `GetBlock`, `DelBlock`, `Script`,
`SetBlock`; the administrative operations are `GetStatus`, `ResetLog`, `Unblock`,
`SetBlock` and `FindKeys`/`DeletePattern`. A call keeps the `now` it took at its
start (`Skew` ahead of Redis), and up to `MaxDelay` seconds pass before its
commands run. `Fails` is an error of Redis, after which `consume` lets the request
through: the limiter fails open by design, and such requests are not counted by
anything. `GenerateKey` is the guard's choice of a key. `admitted`, `counted` and
`ban` are histories.

### Migrations

`SchemaStatements` gives the effect of a statement on a schema of types, tables
(required and optional columns, and those too narrow for a UUID), indexes and
keys, with `IF [NOT] EXISTS` or without, or `Failed`. `ServiceSchemas` is the
fourteen migrations, up and down, statement by statement; `ServiceEntities` the
columns each entity writes. `Migrations` runs them: `Run(n)` the pending ones of a
release in one transaction, `Revert` the last one, `Forget` the state of the
README's "relation already exists" (tables without rows in `migrations`), from an
empty database or one that development synchronized.

## 3. The runs

| Run | Shows | Instance |
|---|---|---|
| `seat_lock` | in orderly use: no double hold, every claim backed by keys, no stranded seat key, and `SeatLock` implements `SeatHold` | 3 bookings, 2 seats, TTL 2, clock to 4: every booking can take over from another after an expiry |
| `seat_lock_extend` | extended locks keep their keys together, unless a seat was overtaken | 2 bookings, 2 seats, TTL 3, extension 2, clock to 4: a lock outlives its payload and is taken over |
| `saga` | booking, saga and outbox agree; a cancelled booking frees its seats, and only a payment brings it back; a PENDING booking holds its seats unless one was taken over; a failed creation is undone | 2 bookings of one seat, 2 workers, one of them with the mock client, 2 failures of any kind, one booking extended, payments at any time |
| `outbox` | PUBLISHED was sent; FAILED had its retries; at most one event is stranded per run that was cut off; an event is sent again only after a failure, and its outcome is final, unless two runs had it at once; `Outbox` implements `EventRelay` | 3 events in batches of 2, 2 overlapping runs, 2 retries, 2 failures of any kind |
| `inventory` | every event counts once; no published release is lost; never fewer free seats than none, nor more than the capacity and what was released ahead of its reservation | 2 bookings of 2 seats out of 3, 2 consumers, each event published twice, one failure, queues in any order |
| `booking_system` | what the flight has done follows the bookings; once everything stored is applied, free seats and live bookings add up to the capacity; no more seats are taken than exist, unless a release comes before its reservation | 2 bookings of 1 and 2 seats on a flight with 2, 1 worker and 1 consumer, a failure of step 3's commit or of the payment RPC, events in any order |
| `payment` | a key runs once; the journal agrees with captures and refunds; a status has money and entries behind it; a notice is missing only after a crash or a failed publish; what the customer paid is recorded in the end | 1 payment, 3 client requests on 2 transactions at once, a foreign intent clients may name, 2 refund keys, refunds of two thirds of the amount, webhooks in any order and number, 1 failure |
| `rate_limiter` | at most `Points` calls per window; refusals and blocks are earned and stand | 2 instances, one a second ahead, 2 points in 4 s, blocks of 2 s, calls of up to 1 s, 4 calls, all administrative operations, 1 failure |
| `auth` | ended tokens get nothing; sessions are lost to nothing but a sign-out or an interrupted refresh; a client alone goes on; one registration per user is reported | a browser and an app of one user, 2 instances, 3 requests, 1 retry, 1 failure or crash, tokens that expire |
| `migrations` | migrations converge, entities fit but for five, re-runs lose only one column | all three services, all fourteen migrations, any sequence of commands |

Two runs end in a violation, with a finding in `PROJECT.json` each. `saga_twice`
(`NoSeatBookedTwice`): completion releases the lock and nothing else keeps the seat,
so that a second booking of it is completed too. `migrations_rerun` (`SafeToRerun`):
"All migrations are idempotent. Safe to re-run", says `src/README.md:664`; run on
bookings that are there, they drop the seat numbers of all of them.

**Bounds.** Exclusion is about pairs, and the worst case known needs three bookings
(one deletes the key of a second, a third profits), hence three. A TTL of 2 leaves
one tick within a lock and a clock of 4 two generations of locks; in
`seat_lock_extend` the clock passes the payload's expiry, without which no seat is
overtaken and the exception in `LockExpiresWhole` would never be needed. Two
failures in the saga let a compensation fail after the failure that started it, and
one extended booking of two is enough for a takeover; two in the outbox use up the
two retries, and a failed publish to the dead letter exchange is not counted. Three
events make a batch of two leave one behind. `MaxRows` caps the repetition of
cancellations and completions of one booking; `MaxCopies` and `MaxFailures` those of
deliveries. In `booking_system` the seats of both bookings together exceed the
capacity by one, so that each may be refused for the other, and one worker leaves
the interleaving to the events, which it is about: calls of the saga that overlap
are the run `saga`, copies, failures of the flight and two consumers the run
`inventory`, so `MaxFailures` is 0 in `booking_system`; the theorems have no such
bounds. `MaxClock` and `MaxDrop` end time. Payments do not interact except
through keys, which belong to one payment but for that of a creation: one payment
suffices, and three requests are a creation and two refunds, the fewest in which
refunds overlap: the payment is then confirmed by a webhook. Two refunds of 2 out of
3 are too much together and leave the payment partially refunded one by one.
`MaxRequests` bounds what clients send and nothing bounds webhooks; the theorems of
section 4 have no such bounds. Of the intents that are not a payment's own one is
enough, since nothing compares them. In the limiter four calls are the two that use
up the limit, one that is refused and one that meets its block; the clock of 6
outlives a window. Three requests to auth are a sign-in and two that overlap. Of the
migrations nothing is bounded. Symmetry is used over seats and instances that are
interchangeable, and only in runs without liveness. In `payment`, which has
liveness, the action constraint `FirstUnusedKey` takes its place: a refund with a
new key uses one of the unused keys, as the others give the same states with two
unused keys exchanged. It cuts off requests of clients only, which no fairness
speaks of, so that nothing fair is held back. Deadlock is checked in the `SeatLock`
and `Migrations` runs; elsewhere a finished instance really has nothing left to do.

`TypeOK` is in no run: it is proved for every module that has one (section 4) but
`Migrations`, where it follows from how the state is computed and is there to be read.

**Fairness.** Only one property is about what must happen, `PaidIsRecorded`. It
assumes that a request goes on to its end, because it is a chain of awaits in one
process (weak fairness of `Step` in `Payment`), and that the gateway sends an event
until it is answered 200 (strong fairness of `HandleWebhook` for a success that was
not acknowledged, because both slots may be busy whenever it comes). Nobody is assumed
to pay, cancel or fail. Of the crons and of the seat events' handlers no fairness is
assumed, since nothing in the wiring makes them run (section 1): what is said of them
is that they never do the wrong thing, and that what waits for them is not lost
(`ReleasesKept`, `FewStranded`).

## 4. The proofs

The eight modules with theorems assume nothing but the named assumptions on the
constants, and `Orderly`, `Undisturbed` or `Paired` where it is said. No theorem is
about an instance: sets of bookings, seats, workers, events, requests, payments and
kinds of failure are arbitrary, and so are lifetimes, limits and amounts.

**SeatLockProofs.** `TypeCorrect` holds in any use. `Exclusion` (`NoDoubleHold`),
`ClaimsAreBacked`, `SeatsStayReleasable` and `Implementation` (`SeatHold`) assume
`Orderly`, for any sets of bookings, seats and workers and any TTL. None of them is
inductive: whether a claim is safe depends on the keys, on the releases under way
and on timestamps already taken. The inductive invariant `IInv` is the conjunction of

- `CallsOrderly`: nobody is extending, and the timestamp of a lock call in flight is
  the current second (this is where `Prompt` is used);
- `ExpiriesAgree`: without extensions the payload and the TTL name the same moment;
- `SeatsCovered`: every seat key's owner has a booking key that lists the seat and
  ends at the same time;
- `BookingsBacked`: a booking key's seats have keys of that booking, unless the
  booking is being released;
- `ReleasesExact`: a release has still to delete exactly the seat keys its booking owns;
- `LocksNew`: a call about to run the script found no booking key, and there is none;
- `ClaimsKeyed`: a live claim is the content of the booking key, and nobody is
  releasing it.

Exclusion follows because the key of a seat names one booking. The refinement
maps `hold[b]` to the seats of a live claim: `LockEval` is a `Grant` (of free
seats, by `ExpiriesAgree`), a `Tick` and a release are `Drop`s, everything else
stutters.

`LocksEndWhole` (`LockExpiresWhole`) is about extensions: it assumes `Undisturbed`
(`Prompt`, and one call per booking at a time; any `Extenders`). Its invariant
`Together` relates one booking and one seat (`Pair`): between calls they list and
own each other and end together (`Quiet`), and `Stage` says how far a pipeline has
come apart. A step of another booking leaves the pair alone, because what a release
deletes and an extension prolongs is still the booking's own, unless the seat was
overtaken. The proof is how that exception was found: without it the invariant is
not inductive, and a longer clock in `SeatLockExtend.cfg` shows the behaviour.

**OutboxProofs.** `TypeCorrect`, `NothingLostUnsent` (`PublishedWasSent`) and
`GivenUpInTurn` (`DeadLetterEarned`) hold for any set of events, any number of
overlapping runs and any retries. `Inv` adds `RunSound` (a run about to write
PUBLISHED has sent its event; one in the catch block has one failed attempt more
than the retry count it copied) and `CountsSound` (no retry count, in a row or in a
copy, exceeds the failed attempts). The second is why stale copies do no harm here:
a stale count is too small, so an event may be retried too often but is never given
up too early.

`CopiesNeeded` (`NoNeedlessCopy`) and `OutcomeStands` (the action property
`SettledIsFinal`) rest on `OwnInv`: an event that no two runs had at once is in at
most one batch, its row says how far that run is (`Held`), and a copy more than the
failures is there only between the publish and the end of the attempt (`Sparing`).
`OneStrandedPerLoss` (`FewStranded`) counts `Undecided` events, those PROCESSING that
no run will write again. `Stranded` itself is not inductive, since a run about to
publish to the dead letter exchange still has its event but has done with it; an
`Undecided` event is left behind by a run that is cut off and by nothing else.

`Implementation` (`ImplementsEventRelay`) maps the steps to `EventRelay`: `StoreEvent`
is a `Store`, `Publish` a `Send`, everything else stutters. Its invariant `Committed`
says that every event in the batch of a run is a row that was committed;
no update brings a row into being, because it is an UPDATE by id.

**RateLimiterProofs.** `TypeCorrect` and `WindowHolds` (`WindowBound`): however
many instances, whatever their clocks and delays within `MaxSkew` and `MaxDelay`,
at most `Points` calls are let through in any window of
`Duration - MaxDelay - MaxSkew`. That is the guarantee the code gives: a call that
dawdles adds an entry with an old score, which leaves the set that much earlier.
`IInv` says that a call is no older than `MaxDelay` and its `now` no further ahead
than `MaxSkew` (`CallsPrompt`), that a set never holds more than `Points` entries
(`LogSmall`), and that every admission still in the window is among them
(`CountedKept`, with a score that far from its moment at most), although expiry,
`getStatus` and calls with a clock ahead remove entries; the bound follows from the
cardinality of a subset. `RefusalsEarned` (`RefusalEarned`) says the converse, that
the entries a refusal counted are admissions of that window (`LogAdmitted`: the set
holds nothing that was not let through). `BlocksStand` (`BlockStands`) rests on what a
call about to delete a block key saw: a block that was over by its own clock, which
is no further ahead than `MaxSkew`.

**AuthTokensProofs.** `TypeCorrect`, `EndedStaysRefused` (`EndedIsRefused`) and
`SessionIsKept` (`SessionKept`), for any clients, devices and instances.
`IInv` is `Typed /\ Safe`. `Typed` adds to the types that a call stands where
`Steps` says, so that a `pc` and an operation determine each other; `Safe` adds to
the two properties that ids are made up once and a stored or new one has not ended
(`Fresh`), and that what a call took for ended is (`StaleEnded`): its token is then
not the stored one, and `Validate` stops it. `RegistersOnce` (`RegisteredOnce`)
follows from `Registrations`: of the calls for one user, only one got past the unique
index on the address and can still answer. `AloneKeepsGoing` (`AloneGoesOn`) needs to
know that every token id in a cookie, a message, a call or the blacklist was made for
its session (`Traced`) and, for a session with one message at a time, how cookies and
stored token stand while nothing, a message or a call is on its way (`AloneSafe`).

**BookingProofs, the saga.** `TypeCorrect` holds in any use. The others assume
`Orderly`: `Serial` (calls for one booking do not overlap) and `ClientsPay`, which
are the conditions of the run `saga`, with any failures, crashes, extensions and
late payments. Each condition is needed (section 5). They are `RowsStayAgreed`
(`RowsAgree`), `CancellationFreesSeats`, `PendingKeepsSeats`,
`CreationFinishedOrUndone` (`NothingHalfCreated`) and the action property
`RevivedByPayment` (`OnlyPaymentRevives`). `LocksKeepPromise` says in any use, as
long as `Extenders` is empty, that the lock the saga uses is `SeatHold`. The
inductive invariant `Sound(b)` speaks of one booking: what its rows say of one
another, and, for the one call that is about it, which copy of the saga that call
holds at each `pc` and what a compensation has still to undo. Bookings meet only in
the seat lock, and another booking's call touches the seats of one only where they
were overtaken.

**BookingProofs, the system.** `FlightMatchesBookings` (`FlightFollowsBookings`),
`SeatsReconcile` (`SeatsAddUp`) and `SeatsExist` (`NotOversold`), under `Orderly`, for
any bookings with any numbers of seats, any consumers, copies and failures of both
services. The proof is by composition: it uses what is proved of the parts and adds
only what relates them.

1. The system is a saga (`SystemRunsSaga`), an inventory (`SystemRunsFlight`, of the
   instance `Inventory` of `FlightInventoryProofs`) and a relay (`SystemRelays`), so
   that what is proved of each holds of the whole.
2. Of the saga: its invariant with `Tallied(b)`, that a cancelled booking too has
   left one reservation and one release at most, unless it was completed after that,
   and that only a paid one has left a confirmation. `RowsAgree` does not say so: it
   compares the two counts.
3. Of the inventory: what is processed was published (`AlwaysSent`), and the seats are
   conserved event by event.
4. Of the relay: what was published is stored (`OnlyStored`). Hence `SystemInv`:
   `processed \subseteq Stored`, which ties the flight to the bookings.
5. `SeatsByBooking` turns the sum over processed events into a sum over bookings: with
   one event of a kind per booking, events and bookings correspond one to one. Where
   releases are among the reservations (`SeatsTaken`), the difference of the two sums
   is the sum over the bookings that have their seats. That premise is the hypothesis
   of `NotOversold`; in `SeatsAddUp` it follows from everything stored being applied.

**FlightInventoryProofs.** `TypeCorrect`, `EventsCountOnce` (`SeatsConserved`) for any
capacity, events and consumers, `ReleasesNotLost` (`ReleasesKept`), and `CapacityKept`
(`WithinCapacity`) where releases are `Paired` with reservations: each release is of a
reservation of its own and gives back no more than it took, whichever of the two is
carried out first. The pairing is what `BookingProofs` shows of the booking service,
except after a `commit` failure or a payment after the cancellation. An event is in
play only after it was published (`OnlyPublished`), from which `AlwaysSent` follows;
a handler about to acknowledge has committed (`Acked`), so that a release leaves play
only when it is processed (`ReleasesNotLost`). The sums are over finite sets of
processed events; `FiniteSums` has what is needed of them: an element more, a
subset, two disjoint parts, elements matched one to one with others.

**PaymentProofs.** The four invariants of the run `payment`, and
`RefundsWithinAmount`, for any requests on any
number of transactions, webhooks in any order and number, and any failures. The
layers are

- `Typed`, with `TypeCorrect`: what a request has at each `pc`;
- `KeysHeld`, with `OncePerKey` (`KeyRunsOnce`): a transaction whose key was not
  spoiled holds the lock of the unique index on it until it ends, and what was
  done under a key is in `idem`, so that nobody else gets past `Claim`;
- `Secure`, with `StatusHasMoney` (`StatusBacked`), `OverRefundNeedsOverlap`
  (`RefundsWithinAmount`) and `JournalAgrees` (`LedgerAgrees`): `Books` is what the
  tables say (`Stated`, every status has the entries and refunds it speaks of;
  `EntriesPaid`, the intent an entry names is paid, whichever it is; ids are not
  used twice), from both of which `StatusBacked` follows, and `Sure(s)` what a
  request may rely on until its commit: a confirmation that captured holds the row
  lock, a refund knows which refunds it summed, what a request will write is still
  true when it is written;
- `Told`, with `NoticeFollowsRecord` (`NoticeLostOnlyByFault`): a recorded payment
  that was not announced is in a request about to publish, unless a fault ended it.

Each action has a lemma that states its effect (`...Does`), and each layer is proved
from these effects by cases.

**Only model-checked.** Liveness under fairness is out of the prover's reach:
`PaidIsRecorded`. So is induction over data: the properties of `Migrations`
(`RerunsConverge`, `MigratedFits`) are about what a fold over the statements of
given migrations computes; nothing in them is a parameter, and TLC covers all their
states.

## 5. What the models show beyond the runs

Where the code does not keep a promise, the properties of the passing runs are
stated with the exception it makes, or under the parameter that excludes it. Each
of these shows again when the exception is taken away and the property is checked
alone:

| What happens | Where | How to see it |
|---|---|---|
| An extended booking loses its seats: `extendLock` prolongs the keys and not the expiry in their payload, which the script trusts, against the "prevents double-booking" of `src/README.md:596`. From then on either booking's release frees the seats of the other | `seat-lock.service.ts:198` | `SeatLock.cfg` with `Extenders = {b1}`, `MaxDrop = 4`: `NoDoubleHold`; `PendingHoldsSeats` without its line on `overtaken` |
| `extendLock` sets the TTL of every seat its booking key lists, also of one that another booking has taken over: that booking's seat then ends before or after its lock | `seat-lock.service.ts:198` | `LockExpiresWhole` without `\ overtaken` |
| An unpaid booking stays PENDING, an unfinished one INITIATED: the cron that would cancel the latter is never fired, and none looks for the former | `booking-cleanup.service.ts`, `booking.repository.ts:42` | no action of `BookingSaga` does it |
| The read of the booking after step 3 fails: the customer gets an error, the booking stays PENDING without a payment intent and the flight without its seats | `saga-orchestrator.service.ts:89`, `booking.service.ts:44` | `NothingHalfCreated` without `"reload"` |
| A payment that comes after the cancellation, such as after an RPC timeout, makes a cancelled booking BOOKED, without seats; cancelled again, it gives back seats a second time | `saga-orchestrator.service.ts:285` | `CancelledIsFinal` in `Saga.cfg`; `RowsAgree` without `\ revived` |
| Two overlapping cancellations, or a step 3 that rolls back after it changed its copy, release seats nobody took | `saga-orchestrator.service.ts:381`, `:250` | `ReleaseMatchesReserve` in `Saga.cfg` |
| A flight sells more seats than it has, after a release that was applied before or without its reservation | `flight.event-handler.ts:182` | `System.cfg` with `Capacity = 1`: `NotOversold` without its premise |
| A booking is confirmed whose reservation the flight has not made and, having rejected it, may never make: nothing tells the saga | `saga-orchestrator.service.ts:237` | `System.cfg`: `Applied(b, "confirm") => Applied(b, "reserve")` |
| A release whose reservation was rejected, dead-lettered or is still queued adds seats the flight does not have | `flight.event-handler.ts:182` | `WithinCapacity` without `Unreserved` |
| A request that fails on a key that is COMPLETED marks it FAILED, so that the next retry runs again, against `src/docs/payment-system-design.md:110` | `payment.service.ts:450`, `refund.service.ts:227` | `KeyRunsOnce` without `\ env.spoiled` |
| Two refunds that overlap exceed the payment as far as this code goes, against "prevent over-refunds by summing prior successful refunds" and "refund ceiling enforcement" (`src/docs/payment-system-design.md:91`, `:117`); only the gateway can refuse the second | `refund.service.ts:82` | `RefundsWithinAmount` without its second disjunct |
| A client confirms a payment with the intent of another, paid one: CONFIRMED, announced and entered in the journal, its own intent unpaid and its refunds refused by the gateway | `payment.service.ts:176` | `StatusBacked` with `intent[p]` for `intent[b.of]` |
| `charge.refunded` names a charge, no payment is found, the webhook is answered 400 and comes again until the gateway gives up: refunds made at the gateway never reach the tables | `stripe-gateway.provider.ts:178`, `webhook.service.ts:129` | `HandleWebhook`: no step acknowledges such an event |
| A capture that fails without a verdict marks the payment FAILED and completes the key, and nothing asks the gateway again | `payment.service.ts` | `PaidIsRecorded` without `"capture"` |
| `payment.completed` is lost between the commit and the publish | `payment.service.ts:231` | `NoticeLostOnlyByFault` without its last line |
| A database reverted past UpdateFlightTable and SeedInitialData cannot be migrated forward; a synchronized payment database cannot be migrated at all; a booking database loses its seat numbers (the run `migrations_rerun`), against `src/README.md:664` | `1769880993945-UpdateFlightTable.ts:18`, `1769880717238-UpdateBookingTable.ts:14` | `SafeToRerun` for one service at a time |

Seen while modelling, and not the subject of a property:

- Payment: a late `payment_failed` event overwrites a captured payment's status
  (`StatusBacked` says only that a status naming money has it). Two overlapping
  partial refunds leave `partially_refunded` although all is refunded.
  `getLedgerEntries` applies `take` before it filters by `to`.
- Rate limiter: a DEL for an expired block may remove a fresh one; a SETEX that
  fails after a refusal lets the request through; a call over the limit replaces a
  longer manual block by a shorter one; where Redis seeds `math.random` alike for
  every script, two calls of one millisecond count once.
- Authentication: two overlapping refreshes of one token can both be answered, the
  loser's token being dead on arrival; a refresh that was validated before a
  sign-out's DEL brings the session back; a login or logout retried after 10 s
  overwrites or ends a session renewed since (`AloneGoesOn` excepts failures);
  browsers without a device id share '1234'; a sign-out needs a live access token;
  `isActive` is not looked at.
- Migrations: `CreateAirportsTable.down` drops a foreign key nobody made;
  `UpdateBookingTable.down` names an enum only synchronize makes; five entities do
  not fit the migrated tables (`Misfits`), which development does not notice.

## 6. Not modelled

- The catalogue of flight-service: single-row writes and validation around a cache
  of cities. Next in the plan.
- The gateway's routes for bookings, flights and payments, the notification stub,
  and the database, storage, telemetry and common libraries keep no state of their
  own; interceptors, filters, DTOs and logging are formatting and wiring.
- Connection set-up and back-pressure of the broker library, and the limit of
  10000 messages per queue.
- In the modelled parts: clock skew between services and Redis in `SeatLock`; the
  eviction of keys by Redis; seat numbers that differ in case (validated in upper
  case, locked as given); the seat class defaults of step 1 and of the events;
  idempotency of booking requests, which createBooking is not given a key for;
  column types, defaults and uniqueness beyond what makes a migration fail.

## 7. Plan

1. `Catalog`: the city cache against concurrent writes and reads. `RmqRetry`:
   `handleAck` for every queue as a module of its own, used by `AuthTokens`.
2. `Payment` as a part of `BookingSystem`: what was paid and what is BOOKED, with
   `payment.completed` lost or late in between. The saga's `intent` is today all it
   knows of payment-service.
3. Proofs for these; what remains of the present models is liveness, for TLC.
