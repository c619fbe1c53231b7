------------------------------ MODULE Payment ------------------------------
(***************************************************************************)
(* payment-service: payment intents and their confirmation                 *)
(* (PaymentService), refunds (RefundService), webhooks of the gateway      *)
(* (WebhookService), the idempotency keys all of them claim and the ledger *)
(* they write.                                                             *)
(*                                                                         *)
(* A request is a PostgreSQL transaction at READ COMMITTED around a call   *)
(* of the gateway.  What it writes is invisible until Commit, except that  *)
(* an INSERT of an idempotency key and an UPDATE of a payment row keep     *)
(* other transactions waiting.  The gateway does not roll back.            *)
(***************************************************************************)
EXTENDS Naturals, FiniteSets, FiniteSetsExt, Functions

CONSTANTS
  Slots,          \* requests the service works on at once
  PayIds,         \* payments, which the gateway knows by the same names
  Foreign,        \* payment intents that are no payment's here
  Named,          \* what clients name in a confirmation: intents, or NoIntent
  Keys,           \* idempotency keys of the clients
  RefundKeys,     \* the same for refunds
  Methods,        \* payment methods clients ask for
  Bodies,         \* bodies of create requests
  Referenced,     \* the bodies that carry a bookingReference
  Amount,         \* the amount of every payment
  RefundAmounts,  \* the amounts clients want back
  MaxRequests,    \* bound on client requests
  MaxFaults,      \* bound on failures
  NoSlot,
  NoIntent

ASSUME PaymentAssumption ==
  /\ Referenced \subseteq Bodies
  /\ Amount \in Nat \ {0}
  /\ RefundAmounts \subseteq Nat \ {0}
  /\ MaxRequests \in Nat /\ MaxFaults \in Nat
  /\ NoSlot \notin Slots
  /\ Foreign \cap PayIds = {} /\ NoIntent \notin PayIds \cup Foreign
  /\ Named \subseteq PayIds \cup Foreign \cup {NoIntent}

VARIABLES
  payment,   \* table payments
  idem,      \* table idempotency_keys, by scope and key
  refunds,   \* table refunds
  ledger,    \* table ledger_entries, by the batch that wrote them
  hook,      \* table webhook_events: the events whose row is PROCESSED
  req,       \* the request in each slot
  rowLock,   \* the transaction that has updated a payment row
  keyLock,   \* the transaction that has inserted an idempotency key
  intent,    \* the gateway: status of each payment intent
  events,    \* the gateway: webhook events it has to deliver
  acked,     \* the gateway: events it was answered 200 for
  sent,      \* copies of payment.completed in payment.events
  env        \* bounds and history

tables == <<payment, idem, refunds, ledger>>
gateway == <<intent, events, acked>>
vars == <<tables, hook, req, rowLock, keyLock, gateway, sent, env>>

PaymentStatus == {"requires_action", "processing", "pending", "confirmed",
                  "failed", "partially_refunded", "refunded"}
IdempotencyKeyStatus == {"processing", "completed", "failed"}
IntentStatus == {"none", "requires_payment_method", "requires_confirmation",
                 "succeeded"}

Intents == PayIds \cup Foreign

Events == [type : {"succeeded", "failed", "refunded"}, pay : PayIds]

(* Scope and key: create_payment_intent, confirm_payment:{id} and          *)
(* refund:{id}; the key of a confirmation by webhook names the event.      *)
IdemKeys == [scope : {"create"}, key : Keys]
       \cup [scope : {"confirm"}, pay : PayIds, key : Keys \cup Events]
       \cup [scope : {"refund"}, pay : PayIds, key : RefundKeys]

PCs == {"idle", "claim", "blocked", "read", "call", "save", "write", "commit",
        "publish", "fail", "mark", "hook_done"}

(* save of an entity: its row is inserted, or written over.                *)
Put(table, id, row) ==
  [x \in DOMAIN table \cup {id} |-> IF x = id THEN row ELSE table[x]]

Idle == [pc |-> "idle"]
NoEvent == [type |-> "none"]
-----------------------------------------------------------------------------
(* PaymentGatewayFactory: the processor of a payment method.               *)
Registry == {"stripe", "paypal"}
PaymentMethodGatewayMap ==
  [card |-> "stripe", apple_pay |-> "stripe", google_pay |-> "stripe",
   paypal |-> "paypal", crypto |-> "crypto"]
GetByName(processor) == IF processor \in Registry THEN processor ELSE "unknown"
Resolve(method) == GetByName(PaymentMethodGatewayMap[method])

MapGatewayIntentStatus(status) ==
  CASE status = "succeeded" -> "confirmed"
    [] status \in {"requires_payment_method", "requires_confirmation"} -> "requires_action"
    [] status = "processing" -> "processing"
    [] OTHER -> "pending"

Refundable == {"confirmed", "partially_refunded"}
AlreadyConfirmed == {"confirmed", "partially_refunded", "refunded"}

(* COALESCE(SUM(refunds.amount), 0) over the succeeded refunds in rs.      *)
Total(rs) == MapThenSumSet(LAMBDA r : r.amount, {r \in rs : r.status = "succeeded"})
RefundsOf(p) == {r \in refunds : r.pay = p}

(* Mutant: any refund counts as the whole one.                             *)
RefundedStatusEarly(total) == IF total > 0 THEN "refunded" ELSE "partially_refunded"

RefundedStatus(total) == IF total >= Amount THEN "refunded" ELSE "partially_refunded"

(* The rows one batch stands for: a debit and a credit of its amount.      *)
LedgerEntries(b) ==
  LET entry(account, direction) ==
        [pay |-> b.pay, batch |-> b.id, accountCode |-> account,
         entryType |-> b.type, direction |-> direction, amount |-> b.amount]
  IN IF b.type = "payment"
       THEN {entry("asset:gateway_clearing", "debit"),
             entry("liability:customer_funds", "credit")}
       ELSE {entry("liability:customer_funds", "debit"),
             entry("asset:gateway_clearing", "credit")}

Recorded(p) == \E b \in ledger : b.type = "payment" /\ b.pay = p

(* of: the payment intent the money came from or went back to.             *)
Batch(type, p, amount, of) == [type |-> type, pay |-> p, amount |-> amount, of |-> of,
                               id |-> Cardinality(ledger) + 1]

-----------------------------------------------------------------------------
TypeOK ==
  /\ DOMAIN payment \subseteq PayIds
  /\ \A p \in DOMAIN payment :
       payment[p] \in [status : PaymentStatus, ref : BOOLEAN, correlationId : Keys]
  /\ DOMAIN idem \subseteq IdemKeys
  /\ \A k \in DOMAIN idem : idem[k].status \in IdempotencyKeyStatus
  /\ \A r \in refunds : r.pay \in DOMAIN payment /\ r.status \in {"succeeded", "failed"}
  /\ \A b \in ledger : b.pay \in DOMAIN payment /\ b.type \in {"payment", "refund"}
  /\ hook \subseteq Events
  /\ \A s \in Slots : req[s].pc \in PCs
  /\ rowLock \in [PayIds -> Slots \cup {NoSlot}]
  /\ DOMAIN keyLock \subseteq IdemKeys
  /\ \A k \in DOMAIN keyLock : keyLock[k] \in Slots
  /\ intent \in [Intents -> IntentStatus]
  /\ events \subseteq Events /\ acked \subseteq events
  /\ sent \in [PayIds -> Nat]

Init ==
  /\ payment = <<>> /\ idem = <<>> /\ refunds = {} /\ ledger = {}
  /\ hook = {}
  /\ req = [s \in Slots |-> Idle]
  /\ rowLock = [p \in PayIds |-> NoSlot]
  /\ keyLock = <<>>
  /\ intent = [g \in Intents |-> "none"]
  /\ events = {} /\ acked = {}
  /\ sent = [p \in PayIds |-> 0]
  /\ env = [requests |-> 0, faults |-> 0, kinds |-> {}, spoiled |-> {}]
-----------------------------------------------------------------------------
Goto(s, pc) == req' = [req EXCEPT ![s].pc = pc]

(* The handler has returned; a webhook's caller goes on.                   *)
After(r) == IF r.event = NoEvent THEN Idle ELSE [r EXCEPT !.pc = "hook_done"]
Return(s) == req' = [req EXCEPT ![s] = After(@)]

(* The end of a transaction, whichever way.                                *)
FreeLocks(s) ==
  /\ rowLock' = [p \in PayIds |-> IF rowLock[p] = s THEN NoSlot ELSE rowLock[p]]
  /\ keyLock' = Restrict(keyLock, {k \in DOMAIN keyLock : keyLock[k] # s})

(* An exception in the transaction: roll back and go to the catch block.   *)
Throw(s) == Goto(s, "fail") /\ FreeLocks(s)

Fault(kind) ==
  /\ env.faults < MaxFaults
  /\ env' = [env EXCEPT !.faults = @ + 1, !.kinds = @ \cup {kind}]

Begin(s, r) ==
  /\ req[s].pc = "idle"
  /\ req' = [req EXCEPT ![s] = r]

NewRequest(op, pay, key, body, event) ==
  [pc |-> "claim", op |-> op, pay |-> pay, key |-> key, body |-> body,
   event |-> event, seen |-> {}, ok |-> FALSE, status |-> "none", entries |-> "none"]

ClientRequest ==
  /\ env.requests < MaxRequests
  /\ env' = [env EXCEPT !.requests = @ + 1]
  /\ UNCHANGED <<tables, hook, rowLock, keyLock, gateway, sent>>

(* Bound: every create request finds a name for its intent.                *)
IntentsLeft ==
  Cardinality({t \in Slots : req[t].pc \in {"claim", "blocked", "call"} /\ req[t].op = "create"})
    < Cardinality({p \in PayIds : intent[p] = "none"})

(* createPaymentIntent.  A method without a processor is refused before    *)
(* anything is stored.                                                     *)
CreatePaymentIntent(s, key, body, method) ==
  /\ ClientRequest
  /\ Resolve(method) # "unknown"
  /\ IntentsLeft
  /\ Begin(s, NewRequest("create", Resolve(method), [scope |-> "create", key |-> key],
                         body, NoEvent))

(* confirmPaymentIntent: the client may name the payment intent (the       *)
(* request's body), and nothing ties it to the payment.                    *)
ConfirmPaymentIntent(s, p, key, named) ==
  /\ ClientRequest
  /\ p \in DOMAIN payment
  /\ Begin(s, NewRequest("confirm", p, [scope |-> "confirm", pay |-> p, key |-> key],
                         named, NoEvent))

(* dto.gatewayPaymentId || payment.gatewayPaymentId                        *)
IntentOf(r) == IF r.op # "confirm" \/ r.body = NoIntent THEN r.pay ELSE r.body

CreateRefund(s, p, key, amount) ==
  /\ ClientRequest
  /\ p \in DOMAIN payment
  /\ Begin(s, NewRequest("refund", p, [scope |-> "refund", pay |-> p, key |-> key],
                         amount, NoEvent))

-----------------------------------------------------------------------------
(* Mutant: a completed key is run again.                                   *)
MayRunAgainCompleted(status) == status \in {"failed", "completed"}

MayRunAgain(status) == status = "failed"

(* claimIdempotency.  The INSERT of a key another transaction has inserted *)
(* waits for its end.  A FAILED key is saved as it is, which writes        *)
(* nothing: nobody waits for it.                                           *)
Claim(s) ==
  LET k == req[s].key
      next == IF req[s].op = "create" THEN "call" ELSE "read"
  IN
  /\ \/ req[s].pc = "claim"
     \/ req[s].pc = "blocked" /\ k \notin DOMAIN keyLock
  /\ IF k \in DOMAIN idem
       THEN /\ UNCHANGED keyLock
            /\ \/ /\ \/ req[s].pc = "blocked"
                     \/ idem[k].body # req[s].body
                     \/ idem[k].status = "processing"
                  /\ Goto(s, "fail")
               \/ /\ req[s].pc = "claim"
                  /\ idem[k].body = req[s].body
                  /\ \/ idem[k].status = "completed" /\ Return(s)
                     \/ MayRunAgain(idem[k].status) /\ Goto(s, next)
       ELSE IF k \in DOMAIN keyLock
         THEN Goto(s, "blocked") /\ UNCHANGED keyLock
         ELSE Goto(s, next) /\ keyLock' = Put(keyLock, k, s)
  /\ UNCHANGED <<tables, hook, rowLock, gateway, sent, env>>

(* confirmPaymentIntent reads the payment; one that is confirmed already   *)
(* only completes the key.                                                 *)
ReadForConfirm(s) ==
  /\ req[s].pc = "read" /\ req[s].op = "confirm"
  /\ Goto(s, IF payment[req[s].pay].status \in AlreadyConfirmed THEN "commit" ELSE "call")
  /\ UNCHANGED <<tables, hook, rowLock, keyLock, gateway, sent, env>>

Fits(p, amount) == Total(RefundsOf(p)) + amount <= Amount

(* createRefund reads the payment and adds up its refunds.                 *)
ReadForRefund(s) ==
  LET r == req[s] IN
  /\ r.pc = "read" /\ r.op = "refund"
  /\ IF payment[r.pay].status \in Refundable /\ Fits(r.pay, r.body)
       THEN /\ req' = [req EXCEPT ![s].pc = "call", ![s].seen = RefundsOf(r.pay)]
            /\ UNCHANGED <<rowLock, keyLock>>
       ELSE Throw(s)
  /\ UNCHANGED <<tables, hook, gateway, sent, env>>

-----------------------------------------------------------------------------
(* gateway.createPaymentIntent of Stripe rethrows its errors, which may    *)
(* come after it made the intent.                                          *)
CallCreate(s) ==
  /\ req[s].pc = "call" /\ req[s].op = "create" /\ req[s].pay = "stripe"
  /\ \E p \in PayIds :
       /\ intent[p] = "none"
       /\ intent' = [intent EXCEPT ![p] = "requires_payment_method"]
       /\ \/ /\ req' = [req EXCEPT ![s].pc = "commit", ![s].pay = p,
                            ![s].status = MapGatewayIntentStatus(intent'[p])]
             /\ UNCHANGED <<rowLock, keyLock, env>>
          \/ Fault("gateway") /\ Throw(s)
  /\ UNCHANGED <<tables, hook, events, acked, sent>>

(* That of PayPal, like all its methods, only throws.                      *)
CallUnsupported(s) ==
  /\ req[s].pc = "call" /\ req[s].op = "create" /\ req[s].pay = "paypal"
  /\ Throw(s)
  /\ UNCHANGED <<tables, hook, gateway, sent, env>>

(* An intent from elsewhere was paid at some time.                         *)
PaidElsewhere(g) ==
  /\ g \in Foreign /\ intent[g] = "none"
  /\ intent' = [intent EXCEPT ![g] = "succeeded"]

(* gateway.capturePayment never throws: an error, even one after the       *)
(* intent has succeeded, is an answer without success, and so is an intent *)
(* that is not there or not paid.                                          *)
CallCapture(s) ==
  LET p == IntentOf(req[s])
      answer(ok) == req' = [req EXCEPT ![s].pc = "save", ![s].ok = ok,
                              ![s].status = IF ok THEN "confirmed" ELSE "failed"]
      becomes(status, event) ==
        /\ intent' = [intent EXCEPT ![p] = status]
        /\ events' = events \cup {[type |-> event, pay |-> p]}
  IN
  /\ req[s].pc = "call" /\ req[s].op = "confirm"
  /\ \/ intent[p] = "requires_confirmation" /\ becomes("succeeded", "succeeded")
     \/ intent[p] = "requires_confirmation" /\ becomes("requires_payment_method", "failed")
     \/ intent[p] # "requires_confirmation" /\ UNCHANGED <<intent, events>>
     \/ PaidElsewhere(p) /\ UNCHANGED events
  /\ \/ answer(intent'[p] = "succeeded") /\ UNCHANGED env
     \/ answer(FALSE) /\ Fault("capture")
  /\ UNCHANGED <<tables, hook, rowLock, keyLock, acked, sent>>

(* gateway.refundPayment, of the payment's own intent: the same.  The      *)
(* gateway tells of a refund, and refuses that of an intent not paid.      *)
CallRefund(s) ==
  LET p == req[s].pay IN
  /\ req[s].pc = "call" /\ req[s].op = "refund"
  /\ \/ /\ intent[p] = "succeeded"
        /\ req' = [req EXCEPT ![s].pc = "save", ![s].ok = TRUE,
                     ![s].status = RefundedStatus(Total(req[s].seen) + req[s].body)]
        /\ events' = events \cup {[type |-> "refunded", pay |-> p]}
        /\ UNCHANGED env
     \/ /\ \/ intent[p] = "succeeded" /\ Fault("refund")
           \/ intent[p] # "succeeded" /\ UNCHANGED env
        /\ req' = [req EXCEPT ![s].pc = "commit"]
        /\ UNCHANGED events
  /\ UNCHANGED <<tables, hook, rowLock, keyLock, intent, acked, sent>>

-----------------------------------------------------------------------------
(* save(payment) updates the columns that differ from the row and locks    *)
(* it; a success brings a new confirmedAt or refundedAt.                   *)
Differs(s) ==
  \/ req[s].ok /\ req[s].status \in {"confirmed", "refunded"}
  \/ payment[req[s].pay].status # req[s].status

SavePayment(s) ==
  LET p == req[s].pay
      next == IF req[s].ok THEN "write" ELSE "commit"
  IN
  /\ req[s].pc = "save"
  /\ \/ /\ Differs(s)
        /\ rowLock[p] = NoSlot
        /\ rowLock' = [rowLock EXCEPT ![p] = s]
        /\ Goto(s, next)
     \/ /\ ~Differs(s)
        /\ req' = [req EXCEPT ![s].pc = next, ![s].status = "none"]
        /\ UNCHANGED rowLock
  /\ UNCHANGED <<tables, hook, keyLock, gateway, sent, env>>

(* Mutant: the payment's entries are written without looking for them.     *)
EntriesUnseen(r) == IF r.op = "refund" THEN "refund" ELSE "payment"

(* createPaymentLedgerEntries writes nothing when its entries are there,   *)
(* createRefundLedgerEntries always.                                       *)
Entries(r) ==
  CASE r.op = "refund" -> "refund"
    [] r.op = "confirm" /\ ~Recorded(r.pay) -> "payment"
    [] OTHER -> "none"

WriteLedger(s) ==
  /\ req[s].pc = "write"
  /\ req' = [req EXCEPT ![s].pc = "commit", ![s].entries = Entries(req[s])]
  /\ UNCHANGED <<tables, hook, rowLock, keyLock, gateway, sent, env>>

(* Mutant: only a client's confirmation is announced.                      *)
AnnouncedByClient(r) == r.op = "confirm" /\ r.ok /\ r.event = NoEvent

Announced(r) == r.op = "confirm" /\ r.ok

(* The row of a new payment, the one a confirmation or a refund has saved, *)
(* and the row of a refund, which is stored whether it went through or not.*)
CreatedPayment(r) ==
  [status |-> r.status, ref |-> r.body \in Referenced, correlationId |-> r.key.key]

SavedPayment(r) ==
  [payment[r.pay] EXCEPT !.status = IF r.status = "none" THEN @ ELSE r.status]

NewRefund(r) ==
  [id |-> Cardinality(refunds) + 1, pay |-> r.pay, amount |-> r.body,
   idempotencyKey |-> r.key.key, status |-> IF r.ok THEN "succeeded" ELSE "failed",
   seen |-> {x.id : x \in r.seen}]

LedgerAmount(r) == IF r.op = "refund" THEN r.body ELSE Amount

CompleteIdempotency(r) == Put(idem, r.key, [status |-> "completed", body |-> r.body])

(* completeIdempotency and COMMIT.                                         *)
Commit(s) ==
  LET r == req[s]
      row == IF r.op = "create" THEN CreatedPayment(r) ELSE SavedPayment(r)
  IN
  /\ r.pc = "commit"
  /\ payment' = Put(payment, r.pay, row)
  /\ refunds' = IF r.op = "refund" THEN refunds \cup {NewRefund(r)} ELSE refunds
  /\ ledger' = IF r.entries = "none" THEN ledger
               ELSE ledger \cup {Batch(r.entries, r.pay, LedgerAmount(r), IntentOf(r))}
  /\ idem' = CompleteIdempotency(r)
  /\ FreeLocks(s)
  /\ IF Announced(r) THEN Goto(s, "publish") ELSE Return(s)
  /\ UNCHANGED <<hook, gateway, sent, env>>

(* publishPaymentCompletedEvent, after the commit and without an outbox.   *)
Publish(s) ==
  LET p == req[s].pay IN
  /\ req[s].pc = "publish"
  /\ sent' = [sent EXCEPT ![p] = IF payment[p].ref THEN @ + 1 ELSE @]
  /\ Return(s)
  /\ UNCHANGED <<tables, hook, rowLock, keyLock, gateway, env>>

PublishFails(s) ==
  /\ req[s].pc = "publish"
  /\ Fault("broker")
  /\ Goto(s, "fail")
  /\ UNCHANGED <<tables, hook, rowLock, keyLock, gateway, sent>>

(* markIdempotencyAsFailed, in the catch block, and the answer 4xx or 5xx. *)
MarkIdempotencyAsFailed(s) ==
  LET k == req[s].key IN
  /\ req[s].pc = "fail"
  /\ IF k \in DOMAIN idem
       THEN /\ idem' = [idem EXCEPT ![k].status = "failed"]
            /\ env' = [env EXCEPT !.spoiled = @ \cup {k}]
       ELSE UNCHANGED <<idem, env>>
  /\ req' = [req EXCEPT ![s] = Idle]
  /\ UNCHANGED <<payment, refunds, ledger, hook, rowLock, keyLock, gateway, sent>>

-----------------------------------------------------------------------------
(* Mutant: an event is acknowledged on receipt.                            *)
AckAlways(e) == e \in events

AckOnReceipt(e) == e \in hook

(* handleWebhook up to the switch of processWebhookEvent.  An event that   *)
(* was processed is acknowledged; one about an unknown payment is refused  *)
(* and comes again, with its row as good as new.  So is charge.refunded,   *)
(* always: its object is the charge, whose id no payment has.              *)
HandleWebhook(s, e) ==
  LET key == [scope |-> "confirm", pay |-> e.pay, key |-> e]
      first == [succeeded |-> "claim", failed |-> "mark"]
  IN
  /\ e \in events
  /\ IF e \in hook \/ e.type = "refunded" \/ e.pay \notin DOMAIN payment
       THEN req[s].pc = "idle" /\ UNCHANGED req
       ELSE Begin(s, [NewRequest("confirm", e.pay, key, e.pay, e) EXCEPT !.pc = first[e.type]])
  /\ acked' = IF AckOnReceipt(e) THEN acked \cup {e} ELSE acked
  /\ UNCHANGED <<tables, hook, rowLock, keyLock, intent, events, sent, env>>

(* markPaymentFailedByGatewayId: whatever the payment's status is.         *)
MarkPaymentFailed(s) ==
  LET p == req[s].pay IN
  /\ req[s].pc = "mark"
  /\ rowLock[p] = NoSlot
  /\ payment' = [payment EXCEPT ![p].status = "failed"]
  /\ Return(s)
  /\ UNCHANGED <<idem, refunds, ledger, hook, rowLock, keyLock, gateway, sent, env>>

(* The event is marked PROCESSED and the gateway gets its 200.             *)
WebhookProcessed(s) ==
  /\ req[s].pc = "hook_done"
  /\ hook' = hook \cup {req[s].event}
  /\ acked' = acked \cup {req[s].event}
  /\ req' = [req EXCEPT ![s] = Idle]
  /\ UNCHANGED <<tables, rowLock, keyLock, intent, events, sent, env>>

-----------------------------------------------------------------------------
(* The gateway's customers.                                                *)
CustomerActs(p, status, type) ==
  /\ intent[p] = "requires_payment_method"
  /\ intent' = [intent EXCEPT ![p] = status]
  /\ events' = IF type = "none" THEN events ELSE events \cup {[type |-> type, pay |-> p]}
  /\ UNCHANGED <<tables, hook, req, rowLock, keyLock, acked, sent, env>>

CustomerPays(p) == CustomerActs(p, "succeeded", "succeeded")
CustomerAuthorises(p) == CustomerActs(p, "requires_confirmation", "none")
CustomerIsDeclined(p) == CustomerActs(p, "requires_payment_method", "failed")

(* A statement of the transaction fails.                                   *)
DatabaseFails(s) ==
  /\ req[s].pc \in {"read", "save", "write", "commit"}
  /\ Fault("db")
  /\ Throw(s)
  /\ UNCHANGED <<tables, hook, gateway, sent>>

(* The instance that works on a request stops.                             *)
Crash(s) ==
  /\ req[s].pc # "idle"
  /\ Fault("crash")
  /\ req' = [req EXCEPT ![s] = Idle]
  /\ FreeLocks(s)
  /\ UNCHANGED <<tables, hook, gateway, sent>>

-----------------------------------------------------------------------------
Step(s) ==
  \/ Claim(s) \/ ReadForConfirm(s) \/ ReadForRefund(s)
  \/ CallCreate(s) \/ CallUnsupported(s) \/ CallCapture(s) \/ CallRefund(s)
  \/ SavePayment(s) \/ WriteLedger(s) \/ Commit(s) \/ Publish(s)
  \/ MarkIdempotencyAsFailed(s)
  \/ MarkPaymentFailed(s) \/ WebhookProcessed(s)

Next ==
  \/ \E s \in Slots :
       \/ \E k \in Keys, b \in Bodies, m \in Methods : CreatePaymentIntent(s, k, b, m)
       \/ \E p \in PayIds, k \in Keys, g \in Named :
            ConfirmPaymentIntent(s, p, k, g)
       \/ \E p \in PayIds, k \in RefundKeys, a \in RefundAmounts : CreateRefund(s, p, k, a)
       \/ \E e \in Events : HandleWebhook(s, e)
       \/ Step(s)
       \/ PublishFails(s) \/ DatabaseFails(s) \/ Crash(s)
  \/ \E p \in PayIds : CustomerPays(p) \/ CustomerAuthorises(p) \/ CustomerIsDeclined(p)

Spec == Init /\ [][Next]_vars

(* A request is worked on until it ends, and the gateway sends a success   *)
(* until it is answered 200.  It does so with its other events too, but    *)
(* nothing waits for them.                                                 *)
Fairness ==
  /\ \A s \in Slots : WF_vars(Step(s))
  /\ \A e \in [type : {"succeeded"}, pay : PayIds] :
       SF_vars(e \notin acked /\ \E s \in Slots : HandleWebhook(s, e))

FairSpec == Spec /\ Fairness

-----------------------------------------------------------------------------
(* What a request may do once per key was done once, unless the key was    *)
(* marked FAILED after it had been completed: the replay of claimIdem-     *)
(* potency and of createRefund, and the unique index on scope and key.     *)
Executions(k) ==
  CASE k.scope = "create" -> Cardinality({p \in DOMAIN payment : payment[p].correlationId = k.key})
    [] k.scope = "refund" -> Cardinality({r \in RefundsOf(k.pay) : r.idempotencyKey = k.key})
    [] OTHER -> 0

KeyRunsOnce == \A k \in IdemKeys \ env.spoiled : Executions(k) <= 1

(* The journal agrees with the tables, whatever overlaps: what is owed to  *)
(* the customer is what was captured, once, less the refunds that went     *)
(* through, and the clearing account mirrors it.                           *)
Sum(p, account, direction) ==
  MapThenSumSet(LAMBDA x : x.amount,
                {x \in UNION {LedgerEntries(b) : b \in ledger} :
                   x.pay = p /\ x.accountCode = account /\ x.direction = direction})

LedgerAgrees ==
  \A p \in DOMAIN payment :
    LET captured == IF Recorded(p) THEN Amount ELSE 0
        refunded == Total(RefundsOf(p))
    IN /\ Sum(p, "asset:gateway_clearing", "debit") = captured
       /\ Sum(p, "liability:customer_funds", "credit") = captured
       /\ Sum(p, "liability:customer_funds", "debit") = refunded
       /\ Sum(p, "asset:gateway_clearing", "credit") = refunded

(* A status that speaks of money has money and the journal behind it,      *)
(* although every writer saves the status it worked out from an old read:  *)
(* entries that name an intent which was paid, and for a refund the        *)
(* payment's own.  (The intent that confirms a payment need not be its     *)
(* own: confirmPaymentIntent captures the one the client names.)           *)
StatusBacked ==
  \A p \in DOMAIN payment :
    /\ payment[p].status \in AlreadyConfirmed =>
         \E b \in ledger : b.type = "payment" /\ b.pay = p /\ intent[b.of] = "succeeded"
    /\ payment[p].status = "partially_refunded" =>
         Total(RefundsOf(p)) > 0 /\ intent[p] = "succeeded"
    /\ payment[p].status = "refunded" =>
         Total(RefundsOf(p)) >= Amount /\ intent[p] = "succeeded"

(* Refunds exceed the payment only when two of them overlapped, neither    *)
(* seeing the other in its sum (createRefund; the gateway may refuse what  *)
(* this code lets through).                                                *)
RefundsWithinAmount ==
  \A p \in DOMAIN payment :
    \/ Total(RefundsOf(p)) <= Amount
    \/ \E x, y \in RefundsOf(p) : x # y /\ x.id \notin y.seen /\ y.id \notin x.seen

(* payment.completed is published for recorded payments only, and missing  *)
(* only after a crash or a failed publish, which nothing makes up for.     *)
NoticeLostOnlyByFault ==
  \A p \in DOMAIN payment :
    /\ sent[p] > 0 => Recorded(p)
    /\ Recorded(p) /\ payment[p].ref /\ sent[p] = 0 =>
         \/ \E s \in Slots : req[s].pc = "publish" /\ req[s].pay = p
         \/ env.kinds \cap {"crash", "broker"} # {}

(* A payment whose customer paid is recorded in the end, whatever crashes  *)
(* or is delivered twice, but for a failed capture call.                   *)
PaidIsRecorded ==
  \A p \in PayIds :
    intent[p] = "succeeded" /\ p \in DOMAIN payment
      ~> Recorded(p) \/ "capture" \in env.kinds
=============================================================================
