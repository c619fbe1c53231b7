--------------------------- MODULE PaymentProofs ---------------------------
(***************************************************************************)
(* Proofs about Payment, for any number of requests at once, of payments,  *)
(* idempotency keys, amounts and failures.                                 *)
(***************************************************************************)
EXTENDS Payment, FiniteSums, TLAPS

(* The rows of the tables, and what a slot works on.                       *)
PaymentRows == [status : PaymentStatus, ref : BOOLEAN, correlationId : Keys]
RefundRows == [id : Nat, pay : PayIds, amount : RefundAmounts,
               idempotencyKey : RefundKeys, status : {"succeeded", "failed"},
               seen : SUBSET Nat]
Batches == [type : {"payment", "refund"}, pay : PayIds, amount : Nat, of : Intents, id : Nat]
RequestBodies == Bodies \cup Named \cup PayIds \cup RefundAmounts
Kinds == {"gateway", "capture", "refund", "broker", "db", "crash"}
KeyRows == [status : IdempotencyKeyStatus, body : RequestBodies]

Requests == [pc : PCs \ {"idle"}, op : {"create", "confirm", "refund"},
             pay : PayIds \cup Registry, key : IdemKeys, body : RequestBodies,
             event : Events \cup {NoEvent}, seen : SUBSET RefundRows, ok : BOOLEAN,
             status : PaymentStatus \cup {"none"}, entries : {"none", "payment", "refund"}]

Tables ==
  /\ DOMAIN payment \subseteq PayIds /\ payment \in [DOMAIN payment -> PaymentRows]
  /\ DOMAIN idem \subseteq IdemKeys /\ idem \in [DOMAIN idem -> KeyRows]
  /\ refunds \subseteq RefundRows /\ IsFiniteSet(refunds)
  /\ ledger \subseteq Batches /\ IsFiniteSet(ledger)
  /\ \A r \in refunds : r.pay \in DOMAIN payment
  /\ \A b \in ledger : b.pay \in DOMAIN payment

Outside ==
  /\ hook \subseteq Events
  /\ rowLock \in [PayIds -> Slots \cup {NoSlot}]
  /\ DOMAIN keyLock \subseteq IdemKeys /\ keyLock \in [DOMAIN keyLock -> Slots]
  /\ intent \in [Intents -> IntentStatus]
  /\ \A g \in Foreign : intent[g] \in {"none", "succeeded"}
  /\ events \subseteq Events /\ acked \subseteq events
  /\ sent \in [PayIds -> Nat]
  /\ env \in [requests : Nat, faults : Nat, kinds : SUBSET Kinds, spoiled : SUBSET IdemKeys]

Busy(s) == req[s].pc # "idle"

(* What is known of a request from where it stands.                        *)
Formed(r) ==
  /\ r.op = "create" =>
       /\ r.key \in [scope : {"create"}, key : Keys] /\ r.event = NoEvent
       /\ r.pc \in {"claim", "blocked", "call", "commit", "fail"}
       /\ r.pc = "commit" => r.pay \in PayIds /\ r.status = "requires_action"
       /\ ~r.ok /\ r.entries = "none"
  /\ r.op # "create" => r.pay \in DOMAIN payment
  /\ r.op = "confirm" => r.body \in Named \cup PayIds
  /\ r.op = "refund" =>
       /\ r.key \in [scope : {"refund"}, pay : PayIds, key : RefundKeys]
       /\ r.key.pay = r.pay /\ r.body \in RefundAmounts /\ r.event = NoEvent
  /\ r.event # NoEvent => r.event \in events /\ r.op = "confirm"
  /\ r.pc = "hook_done" => r.event # NoEvent
  /\ r.pc \in {"mark", "publish"} => r.op = "confirm"
  /\ r.pc \in {"claim", "blocked", "read", "call"} =>
       ~r.ok /\ r.status = "none" /\ r.entries = "none"
  /\ r.pc = "save" => r.op # "create" /\ r.status # "none" /\ r.entries = "none"
  /\ r.pc = "write" => r.op # "create" /\ r.ok /\ r.entries = "none"
  /\ r.pc = "publish" => r.ok

Slotted == req \in [Slots -> {Idle} \cup Requests]
Typed == Tables /\ Outside /\ Slotted /\ \A s \in Slots : Busy(s) => Formed(req[s])

-----------------------------------------------------------------------------
(* What becomes of the slots when one of them takes a step: the request in *)
(* it stays the same request and comes to stand as follows, or is over.    *)
Others(s) == \A t \in Slots : t # s => req'[t] = req[t]

Work(s, pc, pay, seen, ok, status, entries) ==
  /\ Others(s) /\ Slotted' /\ Busy(s)' /\ req'[s] \in Requests
  /\ req'[s].op = req[s].op /\ req'[s].key = req[s].key
  /\ req'[s].body = req[s].body /\ req'[s].event = req[s].event
  /\ req'[s].pc = pc /\ req'[s].pay = pay /\ req'[s].seen = seen /\ req'[s].ok = ok
  /\ req'[s].status = status /\ req'[s].entries = entries

Moves(s, pc) ==
  Work(s, pc, req[s].pay, req[s].seen, req[s].ok, req[s].status, req[s].entries)
Ends(s) == Others(s) /\ Slotted' /\ ~Busy(s)'
Returns(s) == Ends(s) \/ (req[s].event # NoEvent /\ Moves(s, "hook_done"))

LEMMA AtWork ==
  ASSUME Slotted, NEW s \in Slots, Busy(s)
  PROVE  req[s] \in Requests
BY DEF Slotted, Busy, Idle

LEMMA IntentIs ==
  ASSUME Tables, NEW s \in Slots, Formed(req[s]), req[s].op # "create"
  PROVE  req[s].pay \in PayIds /\ IntentOf(req[s]) \in Intents
BY PaymentAssumption DEF Tables, Formed, IntentOf, Intents

LEMMA Changed ==
  ASSUME Slotted, NEW s \in Slots, Busy(s), NEW x \in Requests,
         x.op = req[s].op, x.key = req[s].key, x.body = req[s].body, x.event = req[s].event,
         req' = [req EXCEPT ![s] = x]
  PROVE  Work(s, x.pc, x.pay, x.seen, x.ok, x.status, x.entries)
<1>1. Others(s) /\ Slotted' /\ Busy(s)' /\ req'[s] = x
  BY DEF Slotted, Others, Requests, Busy
<1>2. QED
  BY <1>1 DEF Work

LEMMA Gone ==
  ASSUME Slotted, NEW s \in Slots, Busy(s), NEW pc \in PCs \ {"idle"}, Goto(s, pc)
  PROVE  Moves(s, pc)
<1> DEFINE x == [req[s] EXCEPT !.pc = pc]
<1>1. req[s] \in Requests
  BY AtWork
<1>2. x \in Requests
  BY <1>1 DEF Requests
<1>3. req' = [req EXCEPT ![s] = x]
  BY DEF Goto
<1>4. /\ x.pc = pc /\ x.ok = req[s].ok /\ x.status = req[s].status /\ x.pay = req[s].pay
      /\ x.seen = req[s].seen /\ x.entries = req[s].entries /\ x.op = req[s].op
      /\ x.key = req[s].key /\ x.body = req[s].body /\ x.event = req[s].event
  BY <1>1 DEF Requests
<1> HIDE DEF x
<1>5. Work(s, x.pc, x.pay, x.seen, x.ok, x.status, x.entries)
  BY <1>2, <1>3, <1>4, Changed
<1>6. QED
  BY <1>4, <1>5 DEF Moves

(* The same where a call or a read adds to the request.                    *)
LEMMA Answered ==
  ASSUME Slotted, NEW s \in Slots, Busy(s), NEW pc \in PCs \ {"idle"},
         NEW ok \in BOOLEAN, NEW status \in PaymentStatus \cup {"none"},
         req' = [req EXCEPT ![s].pc = pc, ![s].ok = ok, ![s].status = status]
  PROVE  Work(s, pc, req[s].pay, req[s].seen, ok, status, req[s].entries)
<1> DEFINE x == [req[s] EXCEPT !.pc = pc, !.ok = ok, !.status = status]
<1>1. req[s] \in Requests
  BY AtWork
<1>2. x \in Requests
  BY <1>1 DEF Requests
<1>3. req' = [req EXCEPT ![s] = x]
  BY DEF Slotted
<1>4. /\ x.pc = pc /\ x.pay = req[s].pay
      /\ x.seen = req[s].seen /\ x.ok = ok
      /\ x.status = status /\ x.entries = req[s].entries
      /\ x.op = req[s].op
      /\ x.key = req[s].key /\ x.body = req[s].body /\ x.event = req[s].event
  BY <1>1 DEF Requests
<1> HIDE DEF x
<1>5. Work(s, x.pc, x.pay, x.seen, x.ok, x.status, x.entries)
  BY <1>2, <1>3, <1>4, Changed
<1>6. QED
  BY <1>4, <1>5

LEMMA Identified ==
  ASSUME Slotted, NEW s \in Slots, Busy(s), NEW pc \in PCs \ {"idle"},
         NEW p \in PayIds, NEW status \in PaymentStatus \cup {"none"},
         req' = [req EXCEPT ![s].pc = pc, ![s].pay = p, ![s].status = status]
  PROVE  Work(s, pc, p, req[s].seen, req[s].ok, status, req[s].entries)
<1> DEFINE x == [req[s] EXCEPT !.pc = pc, !.pay = p, !.status = status]
<1>1. req[s] \in Requests
  BY AtWork
<1>2. x \in Requests
  BY <1>1 DEF Requests
<1>3. req' = [req EXCEPT ![s] = x]
  BY DEF Slotted
<1>4. /\ x.pc = pc /\ x.pay = p
      /\ x.seen = req[s].seen /\ x.ok = req[s].ok
      /\ x.status = status /\ x.entries = req[s].entries
      /\ x.op = req[s].op
      /\ x.key = req[s].key /\ x.body = req[s].body /\ x.event = req[s].event
  BY <1>1 DEF Requests
<1> HIDE DEF x
<1>5. Work(s, x.pc, x.pay, x.seen, x.ok, x.status, x.entries)
  BY <1>2, <1>3, <1>4, Changed
<1>6. QED
  BY <1>4, <1>5

LEMMA Judged ==
  ASSUME Slotted, NEW s \in Slots, Busy(s), NEW pc \in PCs \ {"idle"},
         NEW status \in PaymentStatus \cup {"none"},
         req' = [req EXCEPT ![s].pc = pc, ![s].status = status]
  PROVE  Work(s, pc, req[s].pay, req[s].seen, req[s].ok, status, req[s].entries)
<1> DEFINE x == [req[s] EXCEPT !.pc = pc, !.status = status]
<1>1. req[s] \in Requests
  BY AtWork
<1>2. x \in Requests
  BY <1>1 DEF Requests
<1>3. req' = [req EXCEPT ![s] = x]
  BY DEF Slotted
<1>4. /\ x.pc = pc /\ x.pay = req[s].pay
      /\ x.seen = req[s].seen /\ x.ok = req[s].ok
      /\ x.status = status /\ x.entries = req[s].entries
      /\ x.op = req[s].op
      /\ x.key = req[s].key /\ x.body = req[s].body /\ x.event = req[s].event
  BY <1>1 DEF Requests
<1> HIDE DEF x
<1>5. Work(s, x.pc, x.pay, x.seen, x.ok, x.status, x.entries)
  BY <1>2, <1>3, <1>4, Changed
<1>6. QED
  BY <1>4, <1>5

LEMMA Looked ==
  ASSUME Slotted, NEW s \in Slots, Busy(s), NEW pc \in PCs \ {"idle"},
         NEW seen \in SUBSET RefundRows,
         req' = [req EXCEPT ![s].pc = pc, ![s].seen = seen]
  PROVE  Work(s, pc, req[s].pay, seen, req[s].ok, req[s].status, req[s].entries)
<1> DEFINE x == [req[s] EXCEPT !.pc = pc, !.seen = seen]
<1>1. req[s] \in Requests
  BY AtWork
<1>2. x \in Requests
  BY <1>1 DEF Requests
<1>3. req' = [req EXCEPT ![s] = x]
  BY DEF Slotted
<1>4. /\ x.pc = pc /\ x.pay = req[s].pay
      /\ x.seen = seen /\ x.ok = req[s].ok
      /\ x.status = req[s].status /\ x.entries = req[s].entries
      /\ x.op = req[s].op
      /\ x.key = req[s].key /\ x.body = req[s].body /\ x.event = req[s].event
  BY <1>1 DEF Requests
<1> HIDE DEF x
<1>5. Work(s, x.pc, x.pay, x.seen, x.ok, x.status, x.entries)
  BY <1>2, <1>3, <1>4, Changed
<1>6. QED
  BY <1>4, <1>5

LEMMA Noted ==
  ASSUME Slotted, NEW s \in Slots, Busy(s), NEW pc \in PCs \ {"idle"},
         NEW entries \in {"none", "payment", "refund"},
         req' = [req EXCEPT ![s].pc = pc, ![s].entries = entries]
  PROVE  Work(s, pc, req[s].pay, req[s].seen, req[s].ok, req[s].status, entries)
<1> DEFINE x == [req[s] EXCEPT !.pc = pc, !.entries = entries]
<1>1. req[s] \in Requests
  BY AtWork
<1>2. x \in Requests
  BY <1>1 DEF Requests
<1>3. req' = [req EXCEPT ![s] = x]
  BY DEF Slotted
<1>4. /\ x.pc = pc /\ x.pay = req[s].pay
      /\ x.seen = req[s].seen /\ x.ok = req[s].ok
      /\ x.status = req[s].status /\ x.entries = entries
      /\ x.op = req[s].op
      /\ x.key = req[s].key /\ x.body = req[s].body /\ x.event = req[s].event
  BY <1>1 DEF Requests
<1> HIDE DEF x
<1>5. Work(s, x.pc, x.pay, x.seen, x.ok, x.status, x.entries)
  BY <1>2, <1>3, <1>4, Changed
<1>6. QED
  BY <1>4, <1>5

LEMMA Ended ==
  ASSUME Slotted, NEW s \in Slots, req' = [req EXCEPT ![s] = Idle]
  PROVE  Ends(s)
BY DEF Slotted, Ends, Others, Busy, Idle

LEMMA Returned ==
  ASSUME Slotted, NEW s \in Slots, Busy(s), Return(s)
  PROVE  Returns(s)
<1>1. req' = [req EXCEPT ![s] = After(req[s])]
  BY DEF Return
<1>2. CASE req[s].event = NoEvent
  <2>1. After(req[s]) = Idle
    BY <1>2 DEF After
  <2>2. QED
    BY <1>1, <2>1, Ended DEF Returns
<1>3. CASE req[s].event # NoEvent
  <2>1. Goto(s, "hook_done")
    BY <1>1, <1>3 DEF After, Goto
  <2>2. QED
    BY <1>3, <2>1, Gone DEF PCs, Returns
<1>4. QED
  BY <1>2, <1>3

LEMMA Begun ==
  ASSUME Slotted, NEW s \in Slots, NEW r \in Requests, Begin(s, r)
  PROVE  ~Busy(s) /\ Others(s) /\ Slotted' /\ Busy(s)' /\ req'[s] = r
BY DEF Slotted, Begin, Others, Busy, Requests

LEMMA LocksFreed ==
  ASSUME Outside, NEW s \in Slots, FreeLocks(s)
  PROVE  /\ rowLock' \in [PayIds -> Slots \cup {NoSlot}]
         /\ DOMAIN keyLock' \subseteq IdemKeys /\ keyLock' \in [DOMAIN keyLock' -> Slots]
         /\ \A p \in PayIds : rowLock'[p] = IF rowLock[p] = s THEN NoSlot ELSE rowLock[p]
         /\ \A k : k \in DOMAIN keyLock' <=> k \in DOMAIN keyLock /\ keyLock[k] # s
         /\ \A k \in DOMAIN keyLock' : keyLock'[k] = keyLock[k]
<1>1. /\ \A p \in PayIds : rowLock'[p] = IF rowLock[p] = s THEN NoSlot ELSE rowLock[p]
      /\ rowLock' \in [PayIds -> Slots \cup {NoSlot}]
  BY DEF Outside, FreeLocks
<1>2. keyLock' = [k \in {x \in DOMAIN keyLock : keyLock[x] # s} |-> keyLock[k]]
  BY DEF FreeLocks, Restrict
<1>3. QED
  BY <1>1, <1>2 DEF Outside

LEMMA PutIs ==
  ASSUME NEW table, NEW id, NEW row
  PROVE  /\ DOMAIN Put(table, id, row) = DOMAIN table \cup {id}
         /\ Put(table, id, row)[id] = row
         /\ \A x \in DOMAIN table : x # id => Put(table, id, row)[x] = table[x]
         /\ \A R : table \in [DOMAIN table -> R] /\ row \in R
              => Put(table, id, row) \in [DOMAIN table \cup {id} -> R]
BY DEF Put

-----------------------------------------------------------------------------
(* One step of one slot leaves the invariant of types to show for that     *)
(* slot's request and for what it writes.                                  *)
LEMMA TypedKept ==
  ASSUME Typed, NEW s \in Slots, Others(s), Slotted', Tables', Outside',
         DOMAIN payment \subseteq DOMAIN payment', events \subseteq events',
         Busy(s)' => Formed(req[s])'
  PROVE  Typed'
<1> SUFFICES ASSUME NEW t \in Slots, t # s, Busy(t)' PROVE Formed(req[t])'
  BY DEF Typed
<1>1. req'[t] = req[t] /\ Formed(req[t])
  BY DEF Others, Typed, Busy
<1>2. QED
  BY <1>1 DEF Formed

LEMMA TablesSame ==
  ASSUME Tables, UNCHANGED tables
  PROVE  Tables' /\ DOMAIN payment \subseteq DOMAIN payment'
BY DEF Tables, tables

LEMMA Faulted ==
  ASSUME Outside, NEW kind \in Kinds, Fault(kind)
  PROVE  /\ env' \in [requests : Nat, faults : Nat, kinds : SUBSET Kinds,
                      spoiled : SUBSET IdemKeys]
         /\ env'.kinds = env.kinds \cup {kind} /\ env'.spoiled = env.spoiled
<1>1. /\ env' = [env EXCEPT !.faults = env.faults + 1, !.kinds = env.kinds \cup {kind}]
      /\ env \in [requests : Nat, faults : Nat, kinds : SUBSET Kinds, spoiled : SUBSET IdemKeys]
  BY DEF Outside, Fault
<1>2. env.faults + 1 \in Nat /\ env.kinds \cup {kind} \in SUBSET Kinds
  BY <1>1
<1>3. QED
  BY <1>1, <1>2

LEMMA Thrown ==
  ASSUME Typed, NEW s \in Slots, Busy(s), Throw(s)
  PROVE  Moves(s, "fail") /\ FreeLocks(s)
BY Gone DEF Typed, Throw, PCs

LEMMA MovesTyped ==
  ASSUME Typed, NEW s \in Slots, Busy(s), NEW pc, Moves(s, pc), Tables', Outside',
         DOMAIN payment \subseteq DOMAIN payment', events \subseteq events',
         \/ pc \in {"fail", "blocked", "call"} /\ req[s].pc \in {"claim", "blocked", "read"}
         \/ pc = "fail"
         \/ pc = "read" /\ req[s].op # "create" /\ req[s].pc \in {"claim", "blocked"}
         \/ pc = "commit" /\ req[s].op # "create"
         \/ pc = "write" /\ req[s].pc = "save" /\ req[s].ok
         \/ pc = "publish" /\ req[s].op = "confirm" /\ req[s].ok
         \/ pc = "hook_done" /\ req[s].event # NoEvent
  PROVE  Typed'
<1>1. Formed(req[s]) /\ Others(s) /\ Slotted'
  BY DEF Typed, Moves, Work
<1>2. Formed(req[s])'
  BY <1>1 DEF Formed, Moves, Work
<1>3. QED
  BY <1>1, <1>2, TypedKept

LEMMA EndsTyped ==
  ASSUME Typed, NEW s \in Slots, Ends(s), Tables', Outside',
         DOMAIN payment \subseteq DOMAIN payment', events \subseteq events'
  PROVE  Typed'
BY TypedKept DEF Ends

LEMMA ReturnsTyped ==
  ASSUME Typed, NEW s \in Slots, Busy(s), Returns(s), Tables', Outside',
         DOMAIN payment \subseteq DOMAIN payment', events \subseteq events'
  PROVE  Typed'
BY MovesTyped, EndsTyped DEF Returns

-----------------------------------------------------------------------------
(* What each step does, as the layers below need it.                       *)
ClaimDoes(s) ==
  LET k == req[s].key
      next == IF req[s].op = "create" THEN "call" ELSE "read"
  IN
  /\ Busy(s) /\ req[s].pc \in {"claim", "blocked"}
  /\ UNCHANGED <<tables, hook, rowLock, gateway, sent, env>>
  /\ \/ (Moves(s, "fail") \/ Moves(s, "blocked") \/ Returns(s)) /\ UNCHANGED keyLock
     \/ /\ Moves(s, next) /\ UNCHANGED keyLock
        /\ k \in DOMAIN idem /\ idem[k].status = "failed"
     \/ /\ Moves(s, next) /\ k \notin DOMAIN idem /\ k \notin DOMAIN keyLock
        /\ keyLock' = Put(keyLock, k, s)

LEMMA ClaimEffect ==
  ASSUME Typed, NEW s \in Slots, Claim(s)
  PROVE  ClaimDoes(s)
<1> DEFINE k == req[s].key
           next == IF req[s].op = "create" THEN "call" ELSE "read"
<1>1. Slotted /\ Busy(s) /\ req[s].pc \in {"claim", "blocked"} /\ next \in PCs \ {"idle"}
      /\ UNCHANGED <<tables, hook, rowLock, gateway, sent, env>>
  BY DEF Typed, Claim, Busy, PCs
<1>2. \/ (Goto(s, "fail") \/ Goto(s, "blocked") \/ Return(s)) /\ UNCHANGED keyLock
      \/ /\ Goto(s, next) /\ UNCHANGED keyLock
         /\ k \in DOMAIN idem /\ idem[k].status = "failed"
      \/ /\ Goto(s, next) /\ k \notin DOMAIN idem /\ k \notin DOMAIN keyLock
         /\ keyLock' = Put(keyLock, k, s)
  BY DEF Claim, MayRunAgain
<1>3. /\ Goto(s, next) => Moves(s, next)
      /\ Goto(s, "fail") => Moves(s, "fail")
      /\ Goto(s, "blocked") => Moves(s, "blocked")
      /\ Return(s) => Returns(s)
  <2> HIDE DEF next
  <2>1. Goto(s, next) => Moves(s, next)
    BY <1>1, Gone
  <2>2. Goto(s, "fail") => Moves(s, "fail")
    BY <1>1, Gone DEF PCs
  <2>3. Goto(s, "blocked") => Moves(s, "blocked")
    BY <1>1, Gone DEF PCs
  <2>4. Return(s) => Returns(s)
    BY <1>1, Returned
  <2>5. QED
    BY <2>1, <2>2, <2>3, <2>4
<1>4. QED
  BY <1>1, <1>2, <1>3 DEF ClaimDoes

LEMMA ClaimTyped ==
  ASSUME Typed, NEW s \in Slots, Claim(s)
  PROVE  Typed'
<1>1. ClaimDoes(s) /\ Busy(s) /\ UNCHANGED tables /\ events' = events
  BY ClaimEffect DEF ClaimDoes, gateway
<1>2. Tables' /\ DOMAIN payment \subseteq DOMAIN payment'
  BY <1>1, TablesSame DEF Typed
<1>3. Outside'
  <2>1. keyLock' = keyLock \/ keyLock' = Put(keyLock, req[s].key, s)
    BY <1>1 DEF ClaimDoes
  <2>2. DOMAIN keyLock' \subseteq IdemKeys /\ keyLock' \in [DOMAIN keyLock' -> Slots]
    <3>1. req[s].key \in IdemKeys
      BY <1>1, AtWork DEF Typed, Requests
    <3>2. /\ DOMAIN Put(keyLock, req[s].key, s) = DOMAIN keyLock \cup {req[s].key}
          /\ Put(keyLock, req[s].key, s) \in [DOMAIN keyLock \cup {req[s].key} -> Slots]
      BY PutIs DEF Typed, Outside
    <3>3. QED
      BY <2>1, <3>1, <3>2 DEF Typed, Outside
  <2>3. QED
    BY <1>1, <2>2 DEF Typed, Outside, ClaimDoes, gateway
<1>4. CASE Moves(s, "fail") \/ Moves(s, "blocked")
  BY <1>1, <1>2, <1>3, <1>4, MovesTyped DEF ClaimDoes
<1>5. CASE Returns(s)
  BY <1>1, <1>2, <1>3, <1>5, ReturnsTyped
<1>6. CASE Moves(s, IF req[s].op = "create" THEN "call" ELSE "read")
  BY <1>1, <1>2, <1>3, <1>6, MovesTyped DEF ClaimDoes
<1>7. QED
  BY <1>1, <1>4, <1>5, <1>6 DEF ClaimDoes

LEMMA FreesTyped ==
  ASSUME Typed, NEW s \in Slots, FreeLocks(s),
         UNCHANGED <<hook, gateway, sent>>,
         env' \in [requests : Nat, faults : Nat, kinds : SUBSET Kinds, spoiled : SUBSET IdemKeys]
  PROVE  Outside'
<1>1. /\ rowLock' \in [PayIds -> Slots \cup {NoSlot}]
      /\ DOMAIN keyLock' \subseteq IdemKeys /\ keyLock' \in [DOMAIN keyLock' -> Slots]
  BY LocksFreed DEF Typed
<1>2. QED
  BY <1>1 DEF Typed, Outside, gateway

(* An exception in the transaction, whatever it comes of.                  *)
InTransaction == {"read", "call", "save", "write", "commit"}

ThrowDoes(s) ==
  /\ Busy(s) /\ req[s].pc \in InTransaction
  /\ Moves(s, "fail") /\ FreeLocks(s) /\ UNCHANGED <<tables, hook, events, acked, sent>>
  /\ env'.spoiled = env.spoiled /\ env.kinds \subseteq env'.kinds

LEMMA ThrowTyped ==
  ASSUME Typed, NEW s \in Slots, Busy(s), req[s].pc \in InTransaction, Throw(s),
         UNCHANGED <<tables, hook, gateway, sent>>,
         \/ UNCHANGED env
         \/ \E kind \in {"gateway", "db"} : Fault(kind)
  PROVE  ThrowDoes(s) /\ Typed'
<1>1. Moves(s, "fail") /\ FreeLocks(s)
  BY Thrown
<1>2. /\ env' \in [requests : Nat, faults : Nat, kinds : SUBSET Kinds, spoiled : SUBSET IdemKeys]
      /\ env'.spoiled = env.spoiled /\ env.kinds \subseteq env'.kinds
  <2>1. CASE UNCHANGED env
    BY <2>1 DEF Typed, Outside
  <2>2. ASSUME NEW kind \in {"gateway", "db"}, Fault(kind)
        PROVE  /\ env' \in [requests : Nat, faults : Nat, kinds : SUBSET Kinds,
                            spoiled : SUBSET IdemKeys]
               /\ env'.spoiled = env.spoiled /\ env.kinds \subseteq env'.kinds
    BY <2>2, Faulted DEF Typed, Kinds
  <2>3. QED
    BY <2>1, <2>2
<1>3. Tables' /\ DOMAIN payment \subseteq DOMAIN payment'
  BY TablesSame DEF Typed
<1>4. Outside' /\ UNCHANGED <<events, acked>>
  BY <1>1, <1>2, FreesTyped DEF gateway
<1>5. Typed'
  BY <1>1, <1>3, <1>4, MovesTyped
<1>6. QED
  BY <1>1, <1>2, <1>4, <1>5 DEF ThrowDoes

ReadForConfirmDoes(s) ==
  /\ Busy(s) /\ req[s].pc = "read" /\ req[s].op = "confirm"
  /\ Moves(s, "commit") \/ Moves(s, "call")
  /\ UNCHANGED <<tables, hook, rowLock, keyLock, gateway, sent, env>>

LEMMA ReadForConfirmEffect ==
  ASSUME Typed, NEW s \in Slots, ReadForConfirm(s)
  PROVE  ReadForConfirmDoes(s) /\ Typed'
<1>1. /\ Busy(s) /\ req[s].pc = "read" /\ req[s].op = "confirm" /\ Slotted
      /\ Goto(s, "commit") \/ Goto(s, "call")
      /\ UNCHANGED <<tables, hook, rowLock, keyLock, gateway, sent, env>>
  BY DEF ReadForConfirm, Busy, Typed
<1>2. Moves(s, "commit") \/ Moves(s, "call")
  BY <1>1, Gone DEF PCs
<1>3. Outside' /\ events' = events
  BY <1>1 DEF Typed, Outside, gateway
<1>4. Tables' /\ DOMAIN payment \subseteq DOMAIN payment'
  BY <1>1, TablesSame DEF Typed
<1>5. Typed'
  BY <1>1, <1>2, <1>3, <1>4, MovesTyped
<1>6. QED
  BY <1>1, <1>2, <1>5 DEF ReadForConfirmDoes

ReadForRefundDoes(s) ==
  LET r == req[s] IN
  /\ Busy(s) /\ r.pc = "read" /\ r.op = "refund"
  /\ UNCHANGED <<tables, hook, gateway, sent, env>>
  /\ \/ /\ Work(s, "call", r.pay, RefundsOf(r.pay), r.ok, r.status, r.entries)
        /\ payment[r.pay].status \in Refundable /\ Fits(r.pay, r.body)
        /\ UNCHANGED <<rowLock, keyLock>>
     \/ ThrowDoes(s)

LEMMA ReadForRefundEffect ==
  ASSUME Typed, NEW s \in Slots, ReadForRefund(s)
  PROVE  ReadForRefundDoes(s) /\ Typed'
<1> DEFINE r == req[s]
<1>1. /\ Busy(s) /\ r.pc = "read" /\ r.op = "refund" /\ Slotted /\ Formed(r)
      /\ UNCHANGED <<tables, hook, gateway, sent, env>>
  BY DEF ReadForRefund, Busy, Typed
<1>2. CASE Throw(s)
  BY <1>1, <1>2, ThrowTyped DEF ReadForRefundDoes, InTransaction
<1>3. CASE /\ payment[r.pay].status \in Refundable /\ Fits(r.pay, r.body)
           /\ req' = [req EXCEPT ![s].pc = "call", ![s].seen = RefundsOf(r.pay)]
           /\ UNCHANGED <<rowLock, keyLock>>
  <2>1. RefundsOf(r.pay) \in SUBSET RefundRows /\ "call" \in PCs \ {"idle"}
    BY DEF Typed, Tables, RefundsOf, PCs
  <2>2. Work(s, "call", r.pay, RefundsOf(r.pay), r.ok, r.status, r.entries)
    BY <1>1, <1>3, <2>1, Looked
  <2>3. Formed(req[s])' /\ Others(s) /\ Slotted'
    BY <1>1, <2>2, TablesSame DEF Formed, Work, gateway, tables
  <2>4. Outside' /\ events' = events
    BY <1>1, <1>3 DEF Typed, Outside, gateway
  <2>5. Tables' /\ DOMAIN payment \subseteq DOMAIN payment'
    BY <1>1, TablesSame DEF Typed
  <2>6. Typed'
    BY <2>3, <2>4, <2>5, TypedKept
  <2>7. QED
    BY <1>1, <1>3, <2>2, <2>6 DEF ReadForRefundDoes
<1>4. QED
  BY <1>2, <1>3 DEF ReadForRefund

CallCreateDoes(s) ==
  LET r == req[s] IN
  /\ Busy(s) /\ r.pc = "call" /\ r.op = "create"
  /\ UNCHANGED <<tables, hook, events, acked, sent>>
  /\ \E p \in PayIds :
       /\ intent[p] = "none"
       /\ intent' = [intent EXCEPT ![p] = "requires_payment_method"]
       /\ \/ /\ Work(s, "commit", p, r.seen, r.ok, "requires_action", r.entries)
             /\ UNCHANGED <<rowLock, keyLock, env>>
          \/ ThrowDoes(s)

LEMMA CallCreateEffect ==
  ASSUME Typed, NEW s \in Slots, CallCreate(s)
  PROVE  CallCreateDoes(s) /\ Typed'
<1> DEFINE r == req[s]
<1>1. /\ Busy(s) /\ r.pc = "call" /\ r.op = "create" /\ Slotted /\ Formed(r)
      /\ UNCHANGED <<tables, hook, events, acked, sent>> /\ Outside
      /\ intent \in [Intents -> IntentStatus]
  BY DEF CallCreate, Busy, Typed, Outside
<1>2. PICK p \in PayIds :
        /\ intent[p] = "none"
        /\ intent' = [intent EXCEPT ![p] = "requires_payment_method"]
        /\ \/ /\ req' = [req EXCEPT ![s].pc = "commit", ![s].pay = p,
                            ![s].status = MapGatewayIntentStatus(intent'[p])]
              /\ UNCHANGED <<rowLock, keyLock, env>>
           \/ Fault("gateway") /\ Throw(s)
  BY DEF CallCreate
<1>3. intent' \in [Intents -> IntentStatus]
      /\ \A g \in Foreign : intent'[g] \in {"none", "succeeded"}
  BY <1>1, <1>2, PaymentAssumption DEF IntentStatus, Intents, Outside
<1>3a. MapGatewayIntentStatus(intent'[p]) = "requires_action"
  BY <1>1, <1>2 DEF Intents, MapGatewayIntentStatus
<1>4. Tables' /\ DOMAIN payment \subseteq DOMAIN payment'
  BY <1>1, TablesSame DEF Typed
<1>5. CASE /\ req' = [req EXCEPT ![s].pc = "commit", ![s].pay = p,
                         ![s].status = MapGatewayIntentStatus(intent'[p])]
           /\ UNCHANGED <<rowLock, keyLock, env>>
  <2>1. "requires_action" \in PaymentStatus \cup {"none"} /\ "commit" \in PCs \ {"idle"}
    BY DEF PaymentStatus, PCs
  <2>2. Work(s, "commit", p, r.seen, r.ok, "requires_action", r.entries)
    <3>1. req' = [req EXCEPT ![s].pc = "commit", ![s].pay = p, ![s].status = "requires_action"]
      BY <1>3a, <1>5
    <3>2. QED
      BY <1>1, <2>1, <3>1, Identified
  <2>3. Formed(req[s])' /\ Others(s) /\ Slotted'
    BY <1>1, <2>2 DEF Formed, Work
  <2>4. Outside'
    BY <1>1, <1>3, <1>5 DEF Outside
  <2>5. Typed'
    BY <1>1, <1>4, <2>3, <2>4, TypedKept
  <2>6. QED
    BY <1>1, <1>2, <1>5, <2>2, <2>5 DEF CallCreateDoes
<1>6. CASE Fault("gateway") /\ Throw(s)
  <2>1. /\ env' \in [requests : Nat, faults : Nat, kinds : SUBSET Kinds, spoiled : SUBSET IdemKeys]
        /\ env'.spoiled = env.spoiled /\ env.kinds \subseteq env'.kinds
    BY <1>1, <1>6, Faulted DEF Kinds
  <2>2. Moves(s, "fail") /\ FreeLocks(s)
    BY <1>1, <1>6, Thrown
  <2>3. Outside'
    <3>1. /\ rowLock' \in [PayIds -> Slots \cup {NoSlot}]
          /\ DOMAIN keyLock' \subseteq IdemKeys /\ keyLock' \in [DOMAIN keyLock' -> Slots]
      BY <1>1, <2>2, LocksFreed
    <3>2. QED
      BY <1>1, <1>3, <2>1, <3>1 DEF Outside
  <2>4. Typed'
    BY <1>1, <1>4, <2>2, <2>3, MovesTyped
  <2>5. ThrowDoes(s)
    BY <1>1, <2>1, <2>2 DEF ThrowDoes, InTransaction
  <2>6. QED
    BY <1>1, <1>2, <2>4, <2>5 DEF CallCreateDoes
<1>7. QED
  BY <1>2, <1>5, <1>6

LEMMA CallUnsupportedEffect ==
  ASSUME Typed, NEW s \in Slots, CallUnsupported(s)
  PROVE  ThrowDoes(s) /\ UNCHANGED intent /\ Typed'
<1>1. /\ Busy(s) /\ req[s].pc \in InTransaction /\ Throw(s)
      /\ UNCHANGED <<tables, hook, gateway, sent, env>> /\ UNCHANGED intent
  BY DEF CallUnsupported, Busy, InTransaction, gateway
<1>2. QED
  BY <1>1, ThrowTyped

LEMMA DatabaseFailsEffect ==
  ASSUME Typed, NEW s \in Slots, DatabaseFails(s)
  PROVE  ThrowDoes(s) /\ UNCHANGED intent /\ Typed'
<1>1. /\ Busy(s) /\ req[s].pc \in InTransaction /\ Throw(s) /\ Fault("db")
      /\ UNCHANGED <<tables, hook, gateway, sent>> /\ UNCHANGED intent
  BY DEF DatabaseFails, Busy, InTransaction, gateway
<1>2. QED
  BY <1>1, ThrowTyped

CallCaptureDoes(s) ==
  LET r == req[s] IN
  /\ Busy(s) /\ r.pc = "call" /\ r.op = "confirm"
  /\ UNCHANGED <<tables, hook, rowLock, keyLock, acked, sent>>
  /\ events \subseteq events' /\ env'.spoiled = env.spoiled /\ env.kinds \subseteq env'.kinds
  /\ \/ UNCHANGED intent
     \/ /\ intent[IntentOf(r)] # "succeeded"
        /\ \E status \in {"succeeded", "requires_payment_method"} :
             intent' = [intent EXCEPT ![IntentOf(r)] = status]
  /\ \E ok \in BOOLEAN :
       /\ Work(s, "save", r.pay, r.seen, ok, IF ok THEN "confirmed" ELSE "failed", r.entries)
       /\ ok => intent'[IntentOf(r)] = "succeeded"

LEMMA CallCaptureEffect ==
  ASSUME Typed, NEW s \in Slots, CallCapture(s)
  PROVE  CallCaptureDoes(s) /\ Typed'
<1> DEFINE r == req[s]
           p == IntentOf(r)
           Answer(ok) == req' = [req EXCEPT ![s].pc = "save", ![s].ok = ok,
                                   ![s].status = IF ok THEN "confirmed" ELSE "failed"]
<1>1. /\ Busy(s) /\ r.pc = "call" /\ r.op = "confirm" /\ Slotted /\ Formed(r)
      /\ UNCHANGED <<tables, hook, rowLock, keyLock, acked, sent>> /\ Outside
      /\ intent \in [Intents -> IntentStatus]
  BY DEF CallCapture, Busy, Typed, Outside
<1>2. p \in Intents
  BY <1>1, IntentIs DEF Typed
<1>3. /\ events \subseteq events' /\ events' \subseteq Events
      /\ intent' \in [Intents -> IntentStatus]
      /\ \A g \in Foreign : intent'[g] \in {"none", "succeeded"}
      /\ \/ UNCHANGED intent
         \/ /\ intent[p] # "succeeded"
            /\ \E status \in {"succeeded", "requires_payment_method"} :
                 intent' = [intent EXCEPT ![p] = status]
  <2>1. \/ UNCHANGED <<intent, events>>
        \/ /\ intent[p] = "requires_confirmation"
           /\ intent' = [intent EXCEPT ![p] = "succeeded"]
           /\ events' = events \cup {[type |-> "succeeded", pay |-> p]}
        \/ /\ intent[p] = "requires_confirmation"
           /\ intent' = [intent EXCEPT ![p] = "requires_payment_method"]
           /\ events' = events \cup {[type |-> "failed", pay |-> p]}
        \/ /\ p \in Foreign /\ intent[p] = "none"
           /\ intent' = [intent EXCEPT ![p] = "succeeded"] /\ UNCHANGED events
    BY DEF CallCapture, PaidElsewhere
  <2>2. events \subseteq Events /\ \A g \in Foreign : intent[g] \in {"none", "succeeded"}
    BY <1>1 DEF Outside
  <2> HIDE DEF p
  <2>3. intent[p] = "requires_confirmation" => p \in PayIds
    BY <1>2, <2>2 DEF Intents
  <2>4. events \subseteq events' /\ events' \subseteq Events
    BY <2>1, <2>2, <2>3 DEF Events
  <2>5. intent' \in [Intents -> IntentStatus]
    BY <1>1, <1>2, <2>1 DEF IntentStatus
  <2>6. \A g \in Foreign : intent'[g] \in {"none", "succeeded"}
    BY <1>1, <2>1, <2>2, <2>3, PaymentAssumption DEF Intents
  <2>7. QED
    BY <2>1, <2>4, <2>5, <2>6
<1>4. PICK ok \in BOOLEAN : Answer(ok) /\ (ok => intent'[p] = "succeeded")
                            /\ (UNCHANGED env \/ Fault("capture"))
  <2>1. \/ Answer(intent'[p] = "succeeded") /\ UNCHANGED env
        \/ Answer(FALSE) /\ Fault("capture")
    BY DEF CallCapture
  <2> HIDE DEF Answer, p
  <2>2. CASE Answer(intent'[p] = "succeeded") /\ UNCHANGED env
    BY <2>2
  <2>3. CASE Answer(FALSE) /\ Fault("capture")
    BY <2>3
  <2>4. QED
    BY <2>1, <2>2, <2>3
<1>5. Work(s, "save", r.pay, r.seen, ok, IF ok THEN "confirmed" ELSE "failed", r.entries)
  <2> DEFINE status == IF ok THEN "confirmed" ELSE "failed"
  <2>1. status \in PaymentStatus \cup {"none"} /\ "save" \in PCs \ {"idle"}
    BY DEF PaymentStatus, PCs
  <2>2. req' = [req EXCEPT ![s].pc = "save", ![s].ok = ok, ![s].status = status]
    BY <1>4
  <2> HIDE DEF status
  <2>3. Work(s, "save", r.pay, r.seen, ok, status, r.entries)
    BY <1>1, <2>1, <2>2, Answered
  <2>4. QED
    BY <2>3 DEF status
<1>6. /\ env' \in [requests : Nat, faults : Nat, kinds : SUBSET Kinds, spoiled : SUBSET IdemKeys]
      /\ env'.spoiled = env.spoiled /\ env.kinds \subseteq env'.kinds
  <2>1. CASE UNCHANGED env
    BY <1>1, <2>1 DEF Outside
  <2>2. CASE Fault("capture")
    BY <1>1, <2>2, Faulted DEF Kinds
  <2>3. QED
    BY <1>4, <2>1, <2>2
<1>7. CallCaptureDoes(s)
  <2> HIDE DEF Answer
  <2>1. QED
    BY <1>1, <1>3, <1>4, <1>5, <1>6 DEF CallCaptureDoes
<1>8. Typed'
  <2>1. Outside'
    BY <1>1, <1>3, <1>6 DEF Outside
  <2>2. Tables' /\ DOMAIN payment \subseteq DOMAIN payment' /\ DOMAIN payment' = DOMAIN payment
    BY <1>1, TablesSame DEF Typed, tables
  <2>3. Formed(req[s])' /\ Others(s) /\ Slotted'
    BY <1>1, <1>3, <1>5, <2>2 DEF Formed, Work
  <2>4. QED
    BY <1>3, <2>1, <2>2, <2>3, TypedKept
<1>9. QED
  BY <1>7, <1>8

CallRefundDoes(s) ==
  LET r == req[s] IN
  /\ Busy(s) /\ r.pc = "call" /\ r.op = "refund"
  /\ UNCHANGED <<tables, hook, rowLock, keyLock, intent, acked, sent>>
  /\ events \subseteq events' /\ env'.spoiled = env.spoiled /\ env.kinds \subseteq env'.kinds
  /\ \/ /\ intent[r.pay] = "succeeded"
        /\ Work(s, "save", r.pay, r.seen, TRUE, RefundedStatus(Total(r.seen) + r.body), r.entries)
     \/ Moves(s, "commit")

LEMMA CallRefundEffect ==
  ASSUME Typed, NEW s \in Slots, CallRefund(s)
  PROVE  CallRefundDoes(s) /\ Typed'
<1> DEFINE r == req[s]
           status == RefundedStatus(Total(r.seen) + r.body)
<1>1. /\ Busy(s) /\ r.pc = "call" /\ r.op = "refund" /\ Slotted /\ Formed(r)
      /\ UNCHANGED <<tables, hook, rowLock, keyLock, intent, acked, sent>> /\ Outside
  BY DEF CallRefund, Busy, Typed
<1>2. Tables' /\ DOMAIN payment \subseteq DOMAIN payment' /\ DOMAIN payment' = DOMAIN payment
  BY <1>1, TablesSame DEF Typed, tables
<1>3. CASE /\ intent[r.pay] = "succeeded"
           /\ req' = [req EXCEPT ![s].pc = "save", ![s].ok = TRUE, ![s].status = status]
           /\ events' = events \cup {[type |-> "refunded", pay |-> r.pay]}
           /\ UNCHANGED env
  <2>1. status \in {"refunded", "partially_refunded"}
    BY DEF RefundedStatus
  <2>2. status \in PaymentStatus \cup {"none"} /\ "save" \in PCs \ {"idle"}
    BY <2>1 DEF PaymentStatus, PCs
  <2>3. r.pay \in PayIds
    BY <1>1 DEF Formed, Typed, Tables
  <2>4. events \subseteq events' /\ events' \subseteq Events
    <3> HIDE DEF r
    <3>1. [type |-> "refunded", pay |-> r.pay] \in Events
      BY <2>3 DEF Events
    <3>2. QED
      BY <1>1, <1>3, <3>1 DEF Outside
  <2> HIDE DEF status
  <2>5. Work(s, "save", r.pay, r.seen, TRUE, status, r.entries)
    BY <1>1, <1>3, <2>2, Answered
  <2>6. Outside'
    BY <1>1, <1>3, <2>4 DEF Outside
  <2>7. Formed(req[s])' /\ Others(s) /\ Slotted'
    BY <1>1, <1>2, <2>1, <2>4, <2>5 DEF Formed, Work
  <2>8. Typed'
    BY <1>2, <2>4, <2>6, <2>7, TypedKept
  <2>9. QED
    BY <1>1, <1>3, <2>4, <2>5, <2>8 DEF CallRefundDoes, status
<1>4. CASE /\ req' = [req EXCEPT ![s].pc = "commit"]
           /\ Fault("refund") \/ UNCHANGED env
           /\ UNCHANGED events
  <2>1. Moves(s, "commit")
    BY <1>1, <1>4, Gone DEF Goto, PCs
  <2>2. /\ env' \in [requests : Nat, faults : Nat, kinds : SUBSET Kinds, spoiled : SUBSET IdemKeys]
        /\ env'.spoiled = env.spoiled /\ env.kinds \subseteq env'.kinds
    <3>1. CASE Fault("refund")
      BY <1>1, <3>1, Faulted DEF Kinds
    <3>2. CASE UNCHANGED env
      BY <1>1, <3>2 DEF Outside
    <3>3. QED
      BY <1>4, <3>1, <3>2
  <2>3. Outside'
    BY <1>1, <1>4, <2>2 DEF Outside
  <2>4. Typed'
    BY <1>1, <1>2, <1>4, <2>1, <2>3, MovesTyped
  <2>5. QED
    BY <1>1, <1>4, <2>1, <2>2, <2>4 DEF CallRefundDoes
<1>5. QED
  BY <1>3, <1>4 DEF CallRefund

SavePaymentDoes(s) ==
  LET r == req[s]
      next == IF r.ok THEN "write" ELSE "commit"
  IN
  /\ Busy(s) /\ r.pc = "save"
  /\ UNCHANGED <<tables, hook, keyLock, gateway, sent, env>>
  /\ \/ /\ rowLock[r.pay] = NoSlot /\ rowLock' = [rowLock EXCEPT ![r.pay] = s]
        /\ Moves(s, next)
     \/ /\ ~(r.ok /\ r.status \in {"confirmed", "refunded"})
        /\ Work(s, next, r.pay, r.seen, r.ok, "none", r.entries) /\ UNCHANGED rowLock

LEMMA SavePaymentEffect ==
  ASSUME Typed, NEW s \in Slots, SavePayment(s)
  PROVE  SavePaymentDoes(s) /\ Typed'
<1> DEFINE r == req[s]
           next == IF r.ok THEN "write" ELSE "commit"
<1>1. /\ Busy(s) /\ r.pc = "save" /\ Slotted /\ Formed(r) /\ Outside
      /\ UNCHANGED <<tables, hook, keyLock, gateway, sent, env>>
  BY DEF SavePayment, Busy, Typed
<1>2. next \in PCs \ {"idle"} /\ r.pay \in PayIds
  BY <1>1 DEF PCs, Formed, Typed, Tables
<1>3. Tables' /\ DOMAIN payment \subseteq DOMAIN payment' /\ DOMAIN payment' = DOMAIN payment
  BY <1>1, TablesSame DEF Typed, tables
<1>4. CASE /\ rowLock[r.pay] = NoSlot /\ rowLock' = [rowLock EXCEPT ![r.pay] = s]
           /\ Goto(s, next)
  <2>1. Moves(s, next)
    <3> HIDE DEF next
    <3>1. QED
      BY <1>1, <1>2, <1>4, Gone
  <2>2. Outside' /\ events' = events
    BY <1>1, <1>2, <1>4 DEF Outside, gateway
  <2>3. Typed'
    BY <1>1, <1>3, <2>1, <2>2, MovesTyped DEF Formed
  <2>4. QED
    BY <1>1, <1>4, <2>1, <2>3 DEF SavePaymentDoes
<1>5. CASE /\ ~Differs(s) /\ UNCHANGED rowLock
           /\ req' = [req EXCEPT ![s].pc = next, ![s].status = "none"]
  <2>1. Work(s, next, r.pay, r.seen, r.ok, "none", r.entries)
    <3>1. "none" \in PaymentStatus \cup {"none"}
      OBVIOUS
    <3> HIDE DEF next
    <3>2. QED
      BY <1>1, <1>2, <1>5, <3>1, Judged
  <2>2. Outside' /\ events' = events
    BY <1>1, <1>5 DEF Outside, gateway
  <2>3. Formed(req[s])' /\ Others(s) /\ Slotted'
    BY <1>1, <1>3, <2>1, <2>2 DEF Formed, Work
  <2>4. Typed'
    BY <1>3, <2>2, <2>3, TypedKept
  <2>5. QED
    BY <1>1, <1>5, <2>1, <2>4 DEF SavePaymentDoes, Differs
<1>6. QED
  BY <1>4, <1>5 DEF SavePayment

WriteLedgerDoes(s) ==
  LET r == req[s] IN
  /\ Busy(s) /\ r.pc = "write" /\ r.op # "create"
  /\ UNCHANGED <<tables, hook, rowLock, keyLock, gateway, sent, env>>
  /\ Work(s, "commit", r.pay, r.seen, r.ok, r.status, Entries(r))

LEMMA WriteLedgerEffect ==
  ASSUME Typed, NEW s \in Slots, WriteLedger(s)
  PROVE  WriteLedgerDoes(s) /\ Typed'
<1> DEFINE r == req[s]
           entries == Entries(r)
<1>1. /\ Busy(s) /\ r.pc = "write" /\ Slotted /\ Formed(r) /\ Outside
      /\ UNCHANGED <<tables, hook, rowLock, keyLock, gateway, sent, env>>
      /\ req' = [req EXCEPT ![s].pc = "commit", ![s].entries = entries]
  BY DEF WriteLedger, Busy, Typed
<1>2. entries \in {"none", "payment", "refund"} /\ "commit" \in PCs \ {"idle"}
  BY DEF Entries, PCs
<1>3. Tables' /\ DOMAIN payment \subseteq DOMAIN payment' /\ DOMAIN payment' = DOMAIN payment
  BY <1>1, TablesSame DEF Typed, tables
<1>4. Work(s, "commit", r.pay, r.seen, r.ok, r.status, entries)
  <2> HIDE DEF entries
  <2>1. QED
    BY <1>1, <1>2, Noted
<1>5. Outside' /\ events' = events
  BY <1>1 DEF Outside, gateway
<1>6. Formed(req[s])' /\ Others(s) /\ Slotted'
  <2> HIDE DEF entries
  <2>1. QED
    BY <1>1, <1>3, <1>4, <1>5 DEF Formed, Work
<1>7. Typed'
  BY <1>3, <1>5, <1>6, TypedKept
<1>8. QED
  BY <1>1, <1>4, <1>7 DEF WriteLedgerDoes, Formed

PublishDoes(s) ==
  LET p == req[s].pay IN
  /\ Busy(s) /\ req[s].pc = "publish" /\ p \in DOMAIN payment /\ Returns(s)
  /\ sent' = [sent EXCEPT ![p] = IF payment[p].ref THEN sent[p] + 1 ELSE sent[p]]
  /\ UNCHANGED <<tables, hook, rowLock, keyLock, gateway, env>>

LEMMA PublishEffect ==
  ASSUME Typed, NEW s \in Slots, Publish(s)
  PROVE  PublishDoes(s) /\ Typed'
<1> DEFINE p == req[s].pay
<1>1. /\ Busy(s) /\ req[s].pc = "publish" /\ Slotted /\ Formed(req[s]) /\ Outside
      /\ UNCHANGED <<tables, hook, rowLock, keyLock, gateway, env>> /\ Return(s)
      /\ sent' = [sent EXCEPT ![p] = IF payment[p].ref THEN sent[p] + 1 ELSE sent[p]]
  BY DEF Publish, Busy, Typed
<1>2. p \in DOMAIN payment /\ p \in PayIds
  BY <1>1 DEF Formed, Typed, Tables
<1>3. Tables' /\ DOMAIN payment \subseteq DOMAIN payment'
  BY <1>1, TablesSame DEF Typed
<1>4. Outside' /\ events' = events
  BY <1>1, <1>2 DEF Outside, gateway
<1>5. Returns(s)
  BY <1>1, Returned
<1>6. Typed'
  BY <1>1, <1>3, <1>4, <1>5, ReturnsTyped
<1>7. QED
  BY <1>1, <1>2, <1>5, <1>6 DEF PublishDoes

PublishFailsDoes(s) ==
  /\ Busy(s) /\ req[s].pc = "publish" /\ Moves(s, "fail")
  /\ env'.spoiled = env.spoiled /\ env'.kinds = env.kinds \cup {"broker"}
  /\ UNCHANGED <<tables, hook, rowLock, keyLock, gateway, sent>>

LEMMA PublishFailsEffect ==
  ASSUME Typed, NEW s \in Slots, PublishFails(s)
  PROVE  PublishFailsDoes(s) /\ Typed'
<1>1. /\ Busy(s) /\ req[s].pc = "publish" /\ Slotted /\ Outside
      /\ UNCHANGED <<tables, hook, rowLock, keyLock, gateway, sent>>
      /\ Goto(s, "fail") /\ Fault("broker")
  BY DEF PublishFails, Busy, Typed
<1>2. Moves(s, "fail")
  BY <1>1, Gone DEF PCs
<1>3. /\ env' \in [requests : Nat, faults : Nat, kinds : SUBSET Kinds, spoiled : SUBSET IdemKeys]
      /\ env'.spoiled = env.spoiled /\ env'.kinds = env.kinds \cup {"broker"}
  BY <1>1, Faulted DEF Kinds
<1>4. Tables' /\ DOMAIN payment \subseteq DOMAIN payment'
  BY <1>1, TablesSame DEF Typed
<1>5. Outside' /\ events' = events
  BY <1>1, <1>3 DEF Outside, gateway
<1>6. Typed'
  BY <1>1, <1>2, <1>4, <1>5, MovesTyped
<1>7. QED
  BY <1>1, <1>2, <1>3, <1>6 DEF PublishFailsDoes

CrashDoes(s) ==
  /\ Busy(s) /\ Ends(s) /\ FreeLocks(s)
  /\ env'.spoiled = env.spoiled /\ env'.kinds = env.kinds \cup {"crash"}
  /\ UNCHANGED <<tables, hook, gateway, sent>>

LEMMA CrashEffect ==
  ASSUME Typed, NEW s \in Slots, Crash(s)
  PROVE  CrashDoes(s) /\ Typed'
<1>1. /\ Busy(s) /\ Slotted /\ Outside /\ FreeLocks(s) /\ Fault("crash")
      /\ UNCHANGED <<tables, hook, gateway, sent>> /\ req' = [req EXCEPT ![s] = Idle]
  BY DEF Crash, Busy, Typed
<1>2. Ends(s)
  BY <1>1, Ended
<1>3. /\ env' \in [requests : Nat, faults : Nat, kinds : SUBSET Kinds, spoiled : SUBSET IdemKeys]
      /\ env'.spoiled = env.spoiled /\ env'.kinds = env.kinds \cup {"crash"}
  BY <1>1, Faulted DEF Kinds
<1>4. Tables' /\ DOMAIN payment \subseteq DOMAIN payment'
  BY <1>1, TablesSame DEF Typed
<1>5. Outside' /\ events' = events
  BY <1>1, <1>3, FreesTyped DEF gateway
<1>6. Typed'
  BY <1>2, <1>4, <1>5, EndsTyped
<1>7. QED
  BY <1>1, <1>2, <1>3, <1>6 DEF CrashDoes

MarkIdempotencyAsFailedDoes(s) ==
  LET k == req[s].key IN
  /\ Busy(s) /\ req[s].pc = "fail" /\ Ends(s) /\ DOMAIN idem' = DOMAIN idem
  /\ \A j \in DOMAIN idem : j # k => idem'[j].status = idem[j].status
  /\ env'.kinds = env.kinds
  /\ env'.spoiled = IF k \in DOMAIN idem THEN env.spoiled \cup {k} ELSE env.spoiled
  /\ UNCHANGED <<payment, refunds, ledger, hook, rowLock, keyLock, gateway, sent>>

LEMMA MarkIdempotencyAsFailedEffect ==
  ASSUME Typed, NEW s \in Slots, MarkIdempotencyAsFailed(s)
  PROVE  MarkIdempotencyAsFailedDoes(s) /\ Typed'
<1> DEFINE k == req[s].key
<1>1. /\ Busy(s) /\ req[s].pc = "fail" /\ Slotted /\ Outside /\ Tables
      /\ UNCHANGED <<payment, refunds, ledger, hook, rowLock, keyLock, gateway, sent>>
      /\ req' = [req EXCEPT ![s] = Idle]
      /\ \/ /\ k \in DOMAIN idem /\ idem' = [idem EXCEPT ![k].status = "failed"]
            /\ env' = [env EXCEPT !.spoiled = env.spoiled \cup {k}]
         \/ k \notin DOMAIN idem /\ UNCHANGED <<idem, env>>
  BY DEF MarkIdempotencyAsFailed, Busy, Typed
<1>2. Ends(s)
  BY <1>1, Ended
<1>3. /\ DOMAIN idem' = DOMAIN idem /\ idem' \in [DOMAIN idem' -> KeyRows]
      /\ \A j \in DOMAIN idem : j # k => idem'[j].status = idem[j].status
  BY <1>1 DEF Tables, KeyRows, IdempotencyKeyStatus
<1>4. /\ env' \in [requests : Nat, faults : Nat, kinds : SUBSET Kinds, spoiled : SUBSET IdemKeys]
      /\ env'.kinds = env.kinds
      /\ env'.spoiled = IF k \in DOMAIN idem THEN env.spoiled \cup {k} ELSE env.spoiled
  <2>1. env \in [requests : Nat, faults : Nat, kinds : SUBSET Kinds, spoiled : SUBSET IdemKeys]
    BY <1>1 DEF Outside
  <2>2. CASE k \in DOMAIN idem
    <3>1. env.spoiled \cup {k} \in SUBSET IdemKeys
      BY <1>1, <2>1, <2>2 DEF Tables
    <3>2. env' = [env EXCEPT !.spoiled = env.spoiled \cup {k}]
      BY <1>1, <2>2
    <3> HIDE DEF k
    <3>3. QED
      BY <2>1, <2>2, <3>1, <3>2
  <2>3. CASE k \notin DOMAIN idem
    BY <1>1, <2>1, <2>3
  <2>4. QED
    BY <2>2, <2>3
<1>5. Tables' /\ DOMAIN payment \subseteq DOMAIN payment'
  BY <1>1, <1>3 DEF Tables
<1>6. Outside' /\ events' = events
  BY <1>1, <1>4 DEF Outside, gateway
<1>7. Typed'
  BY <1>2, <1>5, <1>6, EndsTyped
<1>8. QED
  BY <1>1, <1>2, <1>3, <1>4, <1>7 DEF MarkIdempotencyAsFailedDoes

(* The webhook handler that writes a status in a transaction of its own.   *)
StatusDoes(s, status) ==
  LET p == req[s].pay IN
  /\ Busy(s) /\ Returns(s) /\ p \in DOMAIN payment
  /\ DOMAIN payment' = DOMAIN payment
  /\ \A q \in DOMAIN payment :
       /\ payment'[q].ref = payment[q].ref
       /\ payment'[q].correlationId = payment[q].correlationId
       /\ payment'[q].status = IF q = p THEN status ELSE payment[q].status
  /\ UNCHANGED <<idem, refunds, ledger, hook, rowLock, keyLock, gateway, sent, env>>

LEMMA StatusEffect ==
  ASSUME Typed, NEW s \in Slots, Busy(s), NEW status \in PaymentStatus,
         req[s].pay \in DOMAIN payment,
         payment' = [payment EXCEPT ![req[s].pay].status = status], Return(s),
         UNCHANGED <<idem, refunds, ledger, hook, rowLock, keyLock, gateway, sent, env>>
  PROVE  StatusDoes(s, status) /\ Typed'
<1>1. Slotted /\ Outside /\ Tables
  BY DEF Typed
<1>2. Returns(s)
  BY <1>1, Returned
<1>3. /\ DOMAIN payment' = DOMAIN payment /\ payment' \in [DOMAIN payment -> PaymentRows]
      /\ \A q \in DOMAIN payment :
           /\ payment'[q].ref = payment[q].ref
           /\ payment'[q].correlationId = payment[q].correlationId
           /\ payment'[q].status = IF q = req[s].pay THEN status ELSE payment[q].status
  BY <1>1 DEF Tables, PaymentRows
<1>4. Tables'
  BY <1>1, <1>3 DEF Tables
<1>5. Outside' /\ events' = events
  BY <1>1 DEF Outside, gateway
<1>6. Typed'
  BY <1>2, <1>3, <1>4, <1>5, ReturnsTyped
<1>7. QED
  BY <1>2, <1>3, <1>6 DEF StatusDoes

LEMMA MarkPaymentFailedEffect ==
  ASSUME Typed, NEW s \in Slots, MarkPaymentFailed(s)
  PROVE  req[s].pc = "mark" /\ StatusDoes(s, "failed") /\ Typed'
<1>1. /\ Busy(s) /\ req[s].pc = "mark" /\ Formed(req[s]) /\ "failed" \in PaymentStatus
  BY DEF MarkPaymentFailed, Busy, Typed, PaymentStatus
<1>2. req[s].pay \in DOMAIN payment
  BY <1>1 DEF Formed
<1>3. QED
  BY <1>1, <1>2, StatusEffect DEF MarkPaymentFailed

WebhookProcessedDoes(s) ==
  /\ Busy(s) /\ req[s].pc = "hook_done" /\ Ends(s)
  /\ UNCHANGED <<tables, rowLock, keyLock, intent, events, sent, env>>

LEMMA WebhookProcessedEffect ==
  ASSUME Typed, NEW s \in Slots, WebhookProcessed(s)
  PROVE  WebhookProcessedDoes(s) /\ Typed'
<1>1. /\ Busy(s) /\ req[s].pc = "hook_done" /\ Slotted /\ Formed(req[s]) /\ Outside
      /\ UNCHANGED <<tables, rowLock, keyLock, intent, events, sent, env>>
      /\ hook' = hook \cup {req[s].event}
      /\ acked' = acked \cup {req[s].event} /\ req' = [req EXCEPT ![s] = Idle]
  BY DEF WebhookProcessed, Busy, Typed
<1>2. req[s].event \in events
  BY <1>1 DEF Formed
<1>3. Ends(s)
  BY <1>1, Ended
<1>4. Outside'
  BY <1>1, <1>2 DEF Outside
<1>5. Tables' /\ DOMAIN payment \subseteq DOMAIN payment'
  BY <1>1, TablesSame DEF Typed
<1>6. Typed'
  BY <1>1, <1>3, <1>4, <1>5, EndsTyped
<1>7. QED
  BY <1>1, <1>3, <1>6 DEF WebhookProcessedDoes

(* The gateway's customers change its intents, never one that succeeded.   *)
CustomerDoes ==
  /\ \E p \in PayIds, status \in IntentStatus \ {"none"} :
       /\ intent[p] = "requires_payment_method"
       /\ intent' = [intent EXCEPT ![p] = status]
  /\ events \subseteq events'
  /\ UNCHANGED <<tables, hook, req, rowLock, keyLock, acked, sent, env>>

LEMMA CustomerEffect ==
  ASSUME Typed, NEW p \in PayIds,
         CustomerPays(p) \/ CustomerAuthorises(p) \/ CustomerIsDeclined(p)
  PROVE  CustomerDoes /\ Typed'
<1>1. PICK status \in IntentStatus \ {"none"}, type \in {"succeeded", "failed", "none"} :
        CustomerActs(p, status, type)
  BY DEF CustomerPays, CustomerAuthorises, CustomerIsDeclined, IntentStatus
<1>2. /\ intent[p] = "requires_payment_method" /\ intent' = [intent EXCEPT ![p] = status]
      /\ UNCHANGED <<tables, hook, req, rowLock, keyLock, acked, sent, env>>
      /\ Outside
  BY <1>1 DEF CustomerActs, Typed
<1>3. events \subseteq events' /\ events' \subseteq Events
  BY <1>1, <1>2 DEF CustomerActs, Outside, Events
<1>4. Outside'
  BY <1>2, <1>3, PaymentAssumption DEF Outside, Intents
<1>5. Tables' /\ DOMAIN payment' = DOMAIN payment
  BY <1>2, TablesSame DEF Typed, tables
<1>6. \A s \in Slots : Busy(s)' => Formed(req[s])'
  BY <1>2, <1>3, <1>5 DEF Typed, Busy, Formed
<1>7. Typed'
  BY <1>2, <1>4, <1>5, <1>6 DEF Typed, Slotted
<1>8. QED
  BY <1>2, <1>3, <1>7 DEF CustomerDoes

(* A request is taken in: by a client, or by the gateway's webhook.        *)
BeginsDoes(s) ==
  /\ ~Busy(s) /\ Others(s) /\ Busy(s)'
  /\ req'[s].pc \in {"claim", "mark"} /\ req'[s].entries = "none" /\ ~req'[s].ok
  /\ env'.spoiled = env.spoiled /\ env'.kinds = env.kinds
  /\ UNCHANGED <<tables, rowLock, keyLock, intent, events, sent>>

LEMMA RequestMade ==
  ASSUME NEW pc \in PCs \ {"idle"}, NEW op \in {"create", "confirm", "refund"},
         NEW pay \in PayIds \cup Registry, NEW key \in IdemKeys, NEW body \in RequestBodies,
         NEW event \in Events \cup {NoEvent}, NEW seen \in SUBSET RefundRows,
         NEW ok \in BOOLEAN, NEW status \in PaymentStatus \cup {"none"},
         NEW entries \in {"none", "payment", "refund"}, NEW r,
         r = [pc |-> pc, op |-> op, pay |-> pay, key |-> key, body |-> body, event |-> event,
              seen |-> seen, ok |-> ok, status |-> status, entries |-> entries]
  PROVE  r \in Requests
BY DEF Requests

LEMMA BeginsTyped ==
  ASSUME Typed, NEW s \in Slots,
         NEW op \in {"create", "confirm", "refund"}, NEW pay \in PayIds \cup Registry,
         NEW key \in IdemKeys, NEW body \in RequestBodies, NEW event \in Events \cup {NoEvent},
         NEW pc \in {"claim", "mark"},
         Begin(s, [NewRequest(op, pay, key, body, event) EXCEPT !.pc = pc]),
         UNCHANGED <<tables, rowLock, keyLock, intent, events, sent>>, Outside',
         env'.spoiled = env.spoiled, env'.kinds = env.kinds,
         op = "create" => /\ key \in [scope : {"create"}, key : Keys]
                          /\ event = NoEvent /\ pc = "claim",
         op # "create" => pay \in DOMAIN payment,
         op = "confirm" => body \in Named \cup PayIds,
         op = "refund" => /\ key \in [scope : {"refund"}, pay : PayIds, key : RefundKeys]
                          /\ key.pay = pay /\ body \in RefundAmounts /\ event = NoEvent,
         event # NoEvent => event \in events /\ op = "confirm",
         pc = "mark" => op = "confirm"
  PROVE  BeginsDoes(s) /\ Typed'
<1>0. PICK r : r = [NewRequest(op, pay, key, body, event) EXCEPT !.pc = pc]
  OBVIOUS
<1>1. /\ r \in Requests /\ r.pc = pc /\ r.op = op /\ r.pay = pay /\ r.key = key
      /\ r.body = body /\ r.event = event
      /\ ~r.ok /\ r.status = "none" /\ r.entries = "none"
  <2> DEFINE nothing == {}
             no == FALSE
             none == "none"
  <2>1. r = [pc |-> pc, op |-> op, pay |-> pay, key |-> key, body |-> body,
             event |-> event, seen |-> nothing, ok |-> no, status |-> none,
             entries |-> none]
    BY <1>0 DEF NewRequest
  <2>2. /\ pc \in PCs \ {"idle"} /\ nothing \in SUBSET RefundRows /\ no \in BOOLEAN /\ ~no
        /\ none \in PaymentStatus \cup {"none"} /\ none \in {"none", "payment", "refund"}
    BY DEF PCs
  <2> HIDE DEF nothing, no, none
  <2>3. /\ r.pc = pc /\ r.op = op /\ r.pay = pay /\ r.key = key
        /\ r.body = body /\ r.event = event
        /\ ~r.ok /\ r.status = none /\ r.entries = none
    BY <2>1, <2>2
  <2>4. r \in Requests
    BY <2>1, <2>2, RequestMade
  <2>5. QED
    BY <2>3, <2>4 DEF none
<1>2. ~Busy(s) /\ Others(s) /\ Slotted' /\ Busy(s)' /\ req'[s] = r
  <2>1. Begin(s, r)
    BY <1>0, Zenon
  <2>2. QED
    BY <1>1, <2>1, Begun DEF Typed
<1>3. Tables' /\ DOMAIN payment \subseteq DOMAIN payment' /\ DOMAIN payment' = DOMAIN payment
  BY TablesSame DEF Typed, tables
<1>4. Formed(req[s])'
  BY <1>1, <1>2, <1>3 DEF Formed
<1>5. Typed'
  BY <1>2, <1>3, <1>4, TypedKept
<1>6. QED
  BY <1>1, <1>2, <1>5 DEF BeginsDoes

LEMMA ClientsTyped ==
  ASSUME Typed, NEW s \in Slots,
         \/ \E k \in Keys, b \in Bodies, m \in Methods : CreatePaymentIntent(s, k, b, m)
         \/ \E p \in PayIds, k \in Keys, g \in Named : ConfirmPaymentIntent(s, p, k, g)
         \/ \E p \in PayIds, k \in RefundKeys, a \in RefundAmounts : CreateRefund(s, p, k, a)
  PROVE  BeginsDoes(s) /\ Typed'
<1>1. ClientRequest
  BY DEF CreatePaymentIntent, ConfirmPaymentIntent, CreateRefund
<1>2. /\ UNCHANGED <<tables, rowLock, keyLock, intent, events, sent>> /\ Outside'
      /\ env'.spoiled = env.spoiled /\ env'.kinds = env.kinds
  BY <1>1 DEF ClientRequest, Typed, Outside, gateway
<1>3. ASSUME NEW op, NEW pay, NEW key, NEW body, NEW event
      PROVE  [NewRequest(op, pay, key, body, event) EXCEPT !.pc = "claim"]
               = NewRequest(op, pay, key, body, event)
  <2> DEFINE r == NewRequest(op, pay, key, body, event)
  <2>1. /\ r = [pc |-> "claim", op |-> op, pay |-> pay, key |-> key, body |-> body,
                event |-> event, seen |-> {}, ok |-> FALSE, status |-> "none",
                entries |-> "none"]
    BY DEF NewRequest
  <2> HIDE DEF r
  <2>2. r.pc = "claim" /\ r = [x \in DOMAIN r |-> r[x]]
    BY <2>1
  <2>3. [r EXCEPT !.pc = "claim"] = r
    BY <2>2
  <2>4. QED
    BY <2>3 DEF r
<1>4. ASSUME NEW k \in Keys, NEW b \in Bodies, NEW m \in Methods, CreatePaymentIntent(s, k, b, m)
      PROVE  BeginsDoes(s) /\ Typed'
  <2> DEFINE key == [scope |-> "create", key |-> k]
             pay == Resolve(m)
  <2>1. /\ key \in [scope : {"create"}, key : Keys] /\ key \in IdemKeys
        /\ pay \in PayIds \cup Registry /\ b \in RequestBodies
    BY <1>4 DEF IdemKeys, CreatePaymentIntent, Resolve, GetByName, RequestBodies
  <2>2. Begin(s, [NewRequest("create", pay, key, b, NoEvent) EXCEPT !.pc = "claim"])
    BY <1>3, <1>4 DEF CreatePaymentIntent
  <2> HIDE DEF key, pay
  <2>3. QED
    BY <1>2, <2>1, <2>2, BeginsTyped
<1>5. ASSUME NEW p \in PayIds, NEW k \in Keys, NEW g \in Named, ConfirmPaymentIntent(s, p, k, g)
      PROVE  BeginsDoes(s) /\ Typed'
  <2> DEFINE key == [scope |-> "confirm", pay |-> p, key |-> k]
  <2>1. key \in IdemKeys /\ p \in DOMAIN payment /\ g \in RequestBodies
    BY <1>5 DEF IdemKeys, ConfirmPaymentIntent, RequestBodies
  <2>2. Begin(s, [NewRequest("confirm", p, key, g, NoEvent) EXCEPT !.pc = "claim"])
    BY <1>3, <1>5 DEF ConfirmPaymentIntent
  <2> HIDE DEF key
  <2>3. QED
    BY <1>2, <2>1, <2>2, BeginsTyped
<1>6. ASSUME NEW p \in PayIds, NEW k \in RefundKeys, NEW a \in RefundAmounts,
             CreateRefund(s, p, k, a)
      PROVE  BeginsDoes(s) /\ Typed'
  <2> DEFINE key == [scope |-> "refund", pay |-> p, key |-> k]
  <2>1. /\ key \in [scope : {"refund"}, pay : PayIds, key : RefundKeys] /\ key \in IdemKeys
        /\ p \in DOMAIN payment /\ a \in RequestBodies /\ key.pay = p
    BY <1>6 DEF IdemKeys, CreateRefund, RequestBodies
  <2>2. Begin(s, [NewRequest("refund", p, key, a, NoEvent) EXCEPT !.pc = "claim"])
    BY <1>3, <1>6 DEF CreateRefund
  <2> HIDE DEF key
  <2>3. QED
    BY <1>2, <2>1, <2>2, BeginsTyped
<1>7. QED
  BY <1>4, <1>5, <1>6

HandleWebhookDoes(s) ==
  \/ BeginsDoes(s)
  \/ UNCHANGED <<tables, req, rowLock, keyLock, intent, events, sent, env>>

LEMMA HandleWebhookEffect ==
  ASSUME Typed, NEW s \in Slots, NEW e \in Events, HandleWebhook(s, e)
  PROVE  HandleWebhookDoes(s) /\ Typed'
<1>1. /\ UNCHANGED <<tables, rowLock, keyLock, intent, events, sent, env>> /\ e \in events
      /\ Outside'
  BY DEF HandleWebhook, Typed, Outside
<1>2. CASE UNCHANGED req
  <2>1. Tables' /\ DOMAIN payment' = DOMAIN payment
    BY <1>1, TablesSame DEF Typed, tables
  <2>2. \A t \in Slots : Busy(t)' => Formed(req[t])'
    BY <1>1, <1>2, <2>1 DEF Typed, Busy, Formed
  <2>3. Typed'
    BY <1>1, <1>2, <2>1, <2>2 DEF Typed, Slotted
  <2>4. QED
    BY <1>1, <1>2, <2>3 DEF HandleWebhookDoes
<1>3. CASE ~UNCHANGED req
  <2> DEFINE key == [scope |-> "confirm", pay |-> e.pay, key |-> e]
  <2>1. PICK pc \in {"claim", "mark"} :
          /\ e.pay \in DOMAIN payment
          /\ Begin(s, [NewRequest("confirm", e.pay, key, e.pay, e) EXCEPT !.pc = pc])
    <3> DEFINE first == [succeeded |-> "claim", failed |-> "mark"]
    <3>1. e.type # "refunded" => first[e.type] \in {"claim", "mark"}
      BY DEF Events
    <3>2. /\ e.pay \in DOMAIN payment /\ e.type # "refunded"
          /\ Begin(s, [NewRequest("confirm", e.pay, key, e.pay, e) EXCEPT !.pc = first[e.type]])
      BY <1>3 DEF HandleWebhook
    <3> HIDE DEF first
    <3>3. QED
      BY <3>1, <3>2
  <2>2. key \in IdemKeys /\ e.pay \in RequestBodies /\ e.pay \in PayIds
    BY DEF IdemKeys, RequestBodies, Events
  <2>3. UNCHANGED <<tables, rowLock, keyLock, intent, events, sent>>
        /\ env'.spoiled = env.spoiled /\ env'.kinds = env.kinds
    BY <1>1
  <2> HIDE DEF key
  <2>4. QED
    BY <1>1, <2>1, <2>2, <2>3, BeginsTyped DEF HandleWebhookDoes
<1>4. QED
  BY <1>2, <1>3

CommitDoes(s) ==
  LET r == req[s] IN
  /\ Busy(s) /\ r.pc = "commit" /\ r.pay \in PayIds
  /\ UNCHANGED <<hook, gateway, sent, env>> /\ FreeLocks(s)
  /\ DOMAIN payment' = DOMAIN payment \cup {r.pay}
  /\ \A p \in DOMAIN payment : p # r.pay => payment'[p] = payment[p]
  /\ IF r.op = "create"
       THEN payment'[r.pay].correlationId = r.key.key /\ payment'[r.pay].status = "requires_action"
       ELSE /\ payment'[r.pay].correlationId = payment[r.pay].correlationId
            /\ payment'[r.pay].ref = payment[r.pay].ref
            /\ payment'[r.pay].status = IF r.status = "none" THEN payment[r.pay].status
                                        ELSE r.status
  /\ IF r.op = "refund" THEN refunds' = refunds \cup {NewRefund(r)} ELSE UNCHANGED refunds
  /\ IF r.entries = "none" THEN UNCHANGED ledger
     ELSE ledger' = ledger \cup {Batch(r.entries, r.pay, LedgerAmount(r), IntentOf(r))}
  /\ DOMAIN idem' = DOMAIN idem \cup {r.key} /\ idem'[r.key].status = "completed"
  /\ \A k \in DOMAIN idem : k # r.key => idem'[k] = idem[k]
  /\ IF r.op = "confirm" /\ r.ok THEN Moves(s, "publish") ELSE Returns(s)

LEMMA NewRefundTyped ==
  ASSUME Typed, NEW s \in Slots, Busy(s), req[s].op = "refund"
  PROVE  /\ NewRefund(req[s]) \in RefundRows /\ NewRefund(req[s]).pay = req[s].pay
         /\ req[s].pay \in DOMAIN payment
<1> DEFINE r == req[s]
<1>1. r \in Requests /\ Formed(r) /\ IsFiniteSet(refunds)
  BY AtWork DEF Typed, Tables
<1>2. /\ r.pay \in DOMAIN payment /\ r.pay \in PayIds /\ r.body \in RefundAmounts
      /\ r.key.key \in RefundKeys
  BY <1>1 DEF Formed, Typed, Tables
<1>3. Cardinality(refunds) + 1 \in Nat
  BY <1>1, FS_CardinalityType
<1>4. {x.id : x \in r.seen} \in SUBSET Nat
  BY <1>1 DEF Requests, RefundRows
<1>5. PICK n \in Nat, ids \in SUBSET Nat, status \in {"succeeded", "failed"} :
        NewRefund(r) = [id |-> n, pay |-> r.pay, amount |-> r.body,
                        idempotencyKey |-> r.key.key, status |-> status, seen |-> ids]
  <2> DEFINE status == IF r.ok THEN "succeeded" ELSE "failed"
  <2>1. status \in {"succeeded", "failed"}
    OBVIOUS
  <2> HIDE DEF status
  <2>2. NewRefund(r) = [id |-> Cardinality(refunds) + 1, pay |-> r.pay, amount |-> r.body,
                        idempotencyKey |-> r.key.key, status |-> status,
                        seen |-> {x.id : x \in r.seen}]
    BY DEF NewRefund, status
  <2>3. QED
    BY <1>3, <1>4, <2>1, <2>2
<1>6. QED
  BY <1>2, <1>5 DEF RefundRows

LEMMA BatchTyped ==
  ASSUME Typed, NEW s \in Slots, Busy(s), req[s].entries # "none"
  PROVE  /\ Batch(req[s].entries, req[s].pay, LedgerAmount(req[s]), IntentOf(req[s])) \in Batches
         /\ Batch(req[s].entries, req[s].pay, LedgerAmount(req[s]), IntentOf(req[s])).pay = req[s].pay
         /\ req[s].pay \in DOMAIN payment
<1> DEFINE r == req[s]
<1>1. r \in Requests /\ Formed(r) /\ IsFiniteSet(ledger)
  BY AtWork DEF Typed, Tables
<1>2. r.pay \in DOMAIN payment /\ r.pay \in PayIds
  BY <1>1 DEF Formed, Typed, Tables
<1>3. Cardinality(ledger) + 1 \in Nat
  BY <1>1, FS_CardinalityType
<1>4. LedgerAmount(r) \in Nat
  BY <1>1, PaymentAssumption DEF LedgerAmount, Formed
<1>5. r.entries \in {"payment", "refund"}
  BY <1>1 DEF Requests
<1>6. IntentOf(r) \in Intents
  BY <1>1, <1>5, IntentIs DEF Formed, Typed
<1>7. QED
  BY <1>2, <1>3, <1>4, <1>5, <1>6 DEF Batch, Batches

LEMMA CommitEffect ==
  ASSUME Typed, NEW s \in Slots, Commit(s)
  PROVE  CommitDoes(s) /\ Typed'
<1> DEFINE r == req[s]
           row == IF r.op = "create" THEN CreatedPayment(r) ELSE SavedPayment(r)
           done == [status |-> "completed", body |-> r.body]
<1>1. /\ Busy(s) /\ r.pc = "commit" /\ Slotted /\ Formed(r) /\ Outside /\ Tables
      /\ UNCHANGED <<hook, gateway, sent, env>> /\ FreeLocks(s)
      /\ payment' = Put(payment, r.pay, row) /\ idem' = Put(idem, r.key, done)
  BY DEF Commit, Busy, Typed, CompleteIdempotency
<1>2. /\ IF r.op = "refund" THEN refunds' = refunds \cup {NewRefund(r)} ELSE UNCHANGED refunds
      /\ IF r.entries = "none" THEN UNCHANGED ledger
         ELSE ledger' = ledger \cup {Batch(r.entries, r.pay, LedgerAmount(r), IntentOf(r))}
      /\ IF r.op = "confirm" /\ r.ok THEN Goto(s, "publish") ELSE Return(s)
  BY DEF Commit, Announced
<1>3. r \in Requests
  BY <1>1, AtWork
<1>4. r.pay \in PayIds
  BY <1>1, <1>3 DEF Formed, Tables, Requests
<1>5. /\ row \in PaymentRows
      /\ IF r.op = "create"
           THEN row.correlationId = r.key.key /\ row.status = "requires_action"
           ELSE /\ row.correlationId = payment[r.pay].correlationId
                /\ row.ref = payment[r.pay].ref
                /\ row.status = IF r.status = "none" THEN payment[r.pay].status ELSE r.status
  <2>1. CASE r.op = "create"
    BY <1>1, <1>3, <2>1 DEF Formed, CreatedPayment, PaymentRows, PaymentStatus
  <2>2. CASE r.op # "create"
    <3>1. payment[r.pay] \in PaymentRows
      BY <1>1, <2>2 DEF Formed, Tables
    <3>2. PICK status : status = IF r.status = "none" THEN payment[r.pay].status ELSE r.status
      OBVIOUS
    <3>3. status \in PaymentStatus
      BY <1>3, <3>1, <3>2 DEF Requests, PaymentRows
    <3>4. row = [payment[r.pay] EXCEPT !.status = status]
      BY <2>2, <3>2 DEF SavedPayment
    <3> HIDE DEF row
    <3>5. row \in PaymentRows /\ row.correlationId = payment[r.pay].correlationId
          /\ row.ref = payment[r.pay].ref /\ row.status = status
      BY <3>1, <3>3, <3>4 DEF PaymentRows
    <3>6. QED
      BY <2>2, <3>2, <3>5
  <2>3. QED
    BY <2>1, <2>2
<1>6. done \in KeyRows /\ r.key \in IdemKeys /\ done.status = "completed"
  BY <1>3 DEF KeyRows, Requests, IdempotencyKeyStatus
<1> HIDE DEF row, done
<1>7. /\ DOMAIN payment' = DOMAIN payment \cup {r.pay} /\ payment'[r.pay] = row
      /\ \A p \in DOMAIN payment : p # r.pay => payment'[p] = payment[p]
      /\ payment' \in [DOMAIN payment' -> PaymentRows]
  <2>1. /\ DOMAIN Put(payment, r.pay, row) = DOMAIN payment \cup {r.pay}
        /\ Put(payment, r.pay, row)[r.pay] = row
        /\ \A p \in DOMAIN payment : p # r.pay => Put(payment, r.pay, row)[p] = payment[p]
        /\ Put(payment, r.pay, row) \in [DOMAIN payment \cup {r.pay} -> PaymentRows]
    <3>1. payment \in [DOMAIN payment -> PaymentRows]
      BY <1>1 DEF Tables
    <3>2. QED
      BY <1>5, <3>1 DEF Put
  <2>2. QED
    BY <1>1, <2>1, Zenon
<1>8. /\ DOMAIN idem' = DOMAIN idem \cup {r.key} /\ idem'[r.key].status = "completed"
      /\ \A k \in DOMAIN idem : k # r.key => idem'[k] = idem[k]
      /\ idem' \in [DOMAIN idem' -> KeyRows]
  <2>1. /\ DOMAIN Put(idem, r.key, done) = DOMAIN idem \cup {r.key}
        /\ Put(idem, r.key, done)[r.key] = done
        /\ \A k \in DOMAIN idem : k # r.key => Put(idem, r.key, done)[k] = idem[k]
        /\ Put(idem, r.key, done) \in [DOMAIN idem \cup {r.key} -> KeyRows]
    <3>1. idem \in [DOMAIN idem -> KeyRows]
      BY <1>1 DEF Tables
    <3>2. QED
      BY <1>6, <3>1 DEF Put
  <2>2. QED
    BY <1>1, <1>6, <2>1, Zenon
<1>9. /\ refunds' \subseteq RefundRows /\ IsFiniteSet(refunds')
      /\ \A x \in refunds' : x.pay \in DOMAIN payment'
  <2>1. CASE r.op = "refund"
    <3>1. NewRefund(r) \in RefundRows /\ NewRefund(r).pay = r.pay
      BY <1>1, <2>1, NewRefundTyped
    <3>2. PICK x : x = NewRefund(r)
      OBVIOUS
    <3>3. refunds' = refunds \cup {x}
      BY <1>2, <2>1, <3>2
    <3>4. IsFiniteSet(refunds \cup {x})
      BY <1>1, FS_AddElement DEF Tables
    <3>5. QED
      BY <1>1, <1>7, <3>1, <3>2, <3>3, <3>4 DEF Tables
  <2>2. CASE r.op # "refund"
    BY <1>1, <1>2, <1>7, <2>2 DEF Tables
  <2>3. QED
    BY <2>1, <2>2
<1>10. /\ ledger' \subseteq Batches /\ IsFiniteSet(ledger')
       /\ \A b \in ledger' : b.pay \in DOMAIN payment'
  <2>1. CASE r.entries # "none"
    <3>1. PICK x : x = Batch(r.entries, r.pay, LedgerAmount(r), IntentOf(r))
      OBVIOUS
    <3>2. x \in Batches /\ x.pay = r.pay
      BY <1>1, <2>1, <3>1, BatchTyped
    <3>3. ledger' = ledger \cup {x}
      BY <1>2, <2>1, <3>1
    <3>4. IsFiniteSet(ledger \cup {x})
      BY <1>1, FS_AddElement DEF Tables
    <3>5. QED
      BY <1>1, <1>7, <3>2, <3>3, <3>4 DEF Tables
  <2>2. CASE r.entries = "none"
    BY <1>1, <1>2, <1>7, <2>2 DEF Tables
  <2>3. QED
    BY <2>1, <2>2
<1>11. Tables' /\ DOMAIN payment \subseteq DOMAIN payment'
  BY <1>1, <1>4, <1>6, <1>7, <1>8, <1>9, <1>10 DEF Tables
<1>12. Outside' /\ events' = events
  BY <1>1, FreesTyped DEF Outside, gateway
<1>13. IF r.op = "confirm" /\ r.ok THEN Moves(s, "publish") ELSE Returns(s)
  BY <1>1, <1>2, Gone, Returned DEF PCs
<1>14. Typed'
  <2>1. CASE r.op = "confirm" /\ r.ok
    BY <1>1, <1>11, <1>12, <1>13, <2>1, MovesTyped
  <2>2. CASE ~(r.op = "confirm" /\ r.ok)
    BY <1>1, <1>11, <1>12, <1>13, <2>2, ReturnsTyped
  <2>3. QED
    BY <2>1, <2>2
<1>15. CommitDoes(s)
  BY <1>1, <1>2, <1>4, <1>5, <1>7, <1>8, <1>13 DEF CommitDoes
<1>16. QED
  BY <1>14, <1>15

-----------------------------------------------------------------------------
(* Everything a step may be, by its effects.                               *)
SlotDoes(s) ==
  \/ ClaimDoes(s) \/ ReadForConfirmDoes(s) \/ ReadForRefundDoes(s)
  \/ CallCreateDoes(s) \/ (ThrowDoes(s) /\ UNCHANGED intent)
  \/ CallCaptureDoes(s) \/ CallRefundDoes(s)
  \/ SavePaymentDoes(s) \/ WriteLedgerDoes(s) \/ CommitDoes(s) \/ PublishDoes(s)
  \/ PublishFailsDoes(s) \/ CrashDoes(s) \/ MarkIdempotencyAsFailedDoes(s)
  \/ (req[s].pc = "mark" /\ StatusDoes(s, "failed"))
  \/ WebhookProcessedDoes(s) \/ HandleWebhookDoes(s)

LEMMA NextEffect ==
  ASSUME Typed, [Next]_vars
  PROVE  /\ Typed'
         /\ (\E s \in Slots : SlotDoes(s)) \/ CustomerDoes \/ UNCHANGED vars
<1>1. CASE UNCHANGED vars
  <2>1. Tables' /\ DOMAIN payment' = DOMAIN payment /\ Outside' /\ Slotted'
    BY <1>1 DEF vars, tables, gateway, Typed, Tables, Outside, Slotted
  <2>2. \A t \in Slots : Busy(t)' => Formed(req[t])'
    BY <1>1, <2>1 DEF vars, tables, gateway, Typed, Busy, Formed
  <2>3. QED
    BY <1>1, <2>1, <2>2 DEF Typed
<1>2. ASSUME NEW p \in PayIds, CustomerPays(p) \/ CustomerAuthorises(p) \/ CustomerIsDeclined(p)
      PROVE  CustomerDoes /\ Typed'
  BY <1>2, CustomerEffect
<1>3. ASSUME NEW s \in Slots, Step(s)
      PROVE  SlotDoes(s) /\ Typed'
  <2>1. CASE Claim(s)
    BY <2>1, ClaimEffect, ClaimTyped DEF SlotDoes
  <2>2. CASE ReadForConfirm(s)
    BY <2>2, ReadForConfirmEffect DEF SlotDoes
  <2>3. CASE ReadForRefund(s)
    BY <2>3, ReadForRefundEffect DEF SlotDoes
  <2>4. CASE CallCreate(s)
    BY <2>4, CallCreateEffect DEF SlotDoes
  <2>5. CASE CallUnsupported(s)
    BY <2>5, CallUnsupportedEffect DEF SlotDoes
  <2>6. CASE CallCapture(s)
    BY <2>6, CallCaptureEffect DEF SlotDoes
  <2>7. CASE CallRefund(s)
    BY <2>7, CallRefundEffect DEF SlotDoes
  <2>8. CASE SavePayment(s)
    BY <2>8, SavePaymentEffect DEF SlotDoes
  <2>9. CASE WriteLedger(s)
    BY <2>9, WriteLedgerEffect DEF SlotDoes
  <2>10. CASE Commit(s)
    BY <2>10, CommitEffect DEF SlotDoes
  <2>11. CASE Publish(s)
    BY <2>11, PublishEffect DEF SlotDoes
  <2>12. CASE MarkIdempotencyAsFailed(s)
    BY <2>12, MarkIdempotencyAsFailedEffect DEF SlotDoes
  <2>13. CASE MarkPaymentFailed(s)
    BY <2>13, MarkPaymentFailedEffect DEF SlotDoes
  <2>14. CASE WebhookProcessed(s)
    BY <2>14, WebhookProcessedEffect DEF SlotDoes
  <2>15. QED
    BY <1>3, <2>1, <2>2, <2>3, <2>4, <2>5, <2>6, <2>7, <2>8, <2>9, <2>10, <2>11, <2>12,
       <2>13, <2>14 DEF Step
<1>4. ASSUME NEW s \in Slots, PublishFails(s) \/ DatabaseFails(s) \/ Crash(s)
      PROVE  SlotDoes(s) /\ Typed'
  BY <1>4, PublishFailsEffect, DatabaseFailsEffect, CrashEffect DEF SlotDoes
<1>5. ASSUME NEW s \in Slots,
             \/ \E k \in Keys, b \in Bodies, m \in Methods : CreatePaymentIntent(s, k, b, m)
             \/ \E p \in PayIds, k \in Keys, g \in Named : ConfirmPaymentIntent(s, p, k, g)
             \/ \E p \in PayIds, k \in RefundKeys, a \in RefundAmounts : CreateRefund(s, p, k, a)
      PROVE  SlotDoes(s) /\ Typed'
  BY <1>5, ClientsTyped DEF SlotDoes, HandleWebhookDoes
<1>6. ASSUME NEW s \in Slots, NEW e \in Events, HandleWebhook(s, e)
      PROVE  SlotDoes(s) /\ Typed'
  BY <1>6, HandleWebhookEffect DEF SlotDoes
<1>7. QED
  BY <1>1, <1>2, <1>3, <1>4, <1>5, <1>6 DEF Next

LEMMA InitTyped ==
  ASSUME Init
  PROVE  Typed
<1>1. /\ payment = <<>> /\ idem = <<>> /\ refunds = {} /\ ledger = {} /\ keyLock = <<>>
      /\ hook = {} /\ rowLock = [p \in PayIds |-> NoSlot]
      /\ intent = [g \in Intents |-> "none"] /\ sent = [p \in PayIds |-> 0]
      /\ events = {} /\ acked = {} /\ req = [s \in Slots |-> Idle]
      /\ env = [requests |-> 0, faults |-> 0, kinds |-> {}, spoiled |-> {}]
  BY DEF Init
<1>2. DOMAIN <<>> = {} /\ \A T : <<>> \in [{} -> T]
  OBVIOUS
<1>3. IsFiniteSet({})
  BY FS_EmptySet
<1>4. Tables
  BY <1>1, <1>2, <1>3 DEF Tables
<1>5. Outside
  <2>1. env \in [requests : Nat, faults : Nat, kinds : SUBSET Kinds, spoiled : SUBSET IdemKeys]
    BY <1>1
  <2>2. DOMAIN keyLock \subseteq IdemKeys /\ keyLock \in [DOMAIN keyLock -> Slots]
    BY <1>1, <1>2
  <2>3. /\ rowLock \in [PayIds -> Slots \cup {NoSlot}]
        /\ intent \in [Intents -> IntentStatus] /\ sent \in [PayIds -> Nat]
        /\ \A g \in Foreign : intent[g] \in {"none", "succeeded"}
    BY <1>1 DEF IntentStatus, Intents
  <2>4. QED
    BY <1>1, <2>1, <2>2, <2>3 DEF Outside
<1>6. Slotted /\ \A s \in Slots : ~Busy(s)
  BY <1>1 DEF Slotted, Busy, Idle
<1>7. QED
  BY <1>4, <1>5, <1>6 DEF Typed

LEMMA TypedInvariant == Spec => []Typed
<1>1. Init => Typed
  BY InitTyped
<1>2. Typed /\ [Next]_vars => Typed'
  BY NextEffect
<1>3. QED
  BY <1>1, <1>2, PTL DEF Spec

(* TypeOK for any number of requests, payments and keys: among the rest,   *)
(* refunds and ledger entries always belong to a stored payment, and only  *)
(* events the gateway has sent are acknowledged.                           *)
THEOREM TypeCorrect == Spec => []TypeOK
<1>1. Typed => TypeOK
  <2> SUFFICES ASSUME Typed PROVE TypeOK
    OBVIOUS
  <2>1. \A s \in Slots : req[s].pc \in PCs
    BY DEF Typed, Slotted, Idle, Requests, PCs
  <2>2. /\ \A p \in DOMAIN payment :
             payment[p] \in [status : PaymentStatus, ref : BOOLEAN, correlationId : Keys]
        /\ \A k \in DOMAIN idem : idem[k].status \in IdempotencyKeyStatus
        /\ \A r \in refunds : r.status \in {"succeeded", "failed"}
        /\ \A b \in ledger : b.type \in {"payment", "refund"}
    BY DEF Typed, Tables, PaymentRows, KeyRows, RefundRows, Batches
  <2>3. QED
    BY <2>1, <2>2 DEF Typed, Tables, Outside, TypeOK
<1>2. QED
  BY <1>1, TypedInvariant, PTL

-----------------------------------------------------------------------------
(* KeyRunsOnce.  A transaction whose key was never spoiled has inserted it *)
(* itself and keeps others waiting for it; every payment and every refund  *)
(* has its key in the table.                                               *)
CreateKey(key) == [scope |-> "create", key |-> key]
RefundKey(p, key) == [scope |-> "refund", pay |-> p, key |-> key]

OwnsKey(s) ==
  req[s].pc \in InTransaction /\ req[s].key \notin env.spoiled =>
    /\ req[s].key \notin DOMAIN idem /\ req[s].key \in DOMAIN keyLock
    /\ keyLock[req[s].key] = s

KeysDone == \A k \in DOMAIN idem : k \in env.spoiled \/ idem[k].status = "completed"
PaymentsNoted == \A p \in DOMAIN payment : CreateKey(payment[p].correlationId) \in DOMAIN idem
RefundsNoted == \A x \in refunds : RefundKey(x.pay, x.idempotencyKey) \in DOMAIN idem
PaymentsOnce ==
  \A p, q \in DOMAIN payment :
    payment[p].correlationId = payment[q].correlationId =>
      p = q \/ CreateKey(payment[p].correlationId) \in env.spoiled
RefundsOnce ==
  \A x, y \in refunds :
    x.pay = y.pay /\ x.idempotencyKey = y.idempotencyKey =>
      x = y \/ RefundKey(x.pay, x.idempotencyKey) \in env.spoiled

KeysHeld ==
  /\ \A s \in Slots : OwnsKey(s)
  /\ KeysDone /\ PaymentsNoted /\ RefundsNoted /\ PaymentsOnce /\ RefundsOnce

(* A step that leaves the other requests their keys.                       *)
KeysLeft(s) ==
  \A k \in DOMAIN keyLock : keyLock[k] # s => k \in DOMAIN keyLock' /\ keyLock'[k] = keyLock[k]

LEMMA OthersOwn ==
  ASSUME KeysHeld, NEW s \in Slots, Others(s), KeysLeft(s), env.spoiled \subseteq env'.spoiled,
         \A k \in DOMAIN idem' :
            k \in DOMAIN idem \/ k \in env.spoiled \/ (k \in DOMAIN keyLock /\ keyLock[k] = s),
         OwnsKey(s)'
  PROVE  \A t \in Slots : OwnsKey(t)'
<1> SUFFICES ASSUME NEW t \in Slots, t # s PROVE OwnsKey(t)'
  OBVIOUS
<1>1. OwnsKey(t) /\ req'[t] = req[t]
  BY DEF KeysHeld, Others
<1>2. QED
  BY <1>1 DEF OwnsKey, KeysLeft

(* A step that neither completes a key nor marks one.                      *)
Keyless(s) ==
  /\ Others(s) /\ KeysLeft(s) /\ OwnsKey(s)'
  /\ UNCHANGED <<idem, refunds>> /\ env'.spoiled = env.spoiled
  /\ DOMAIN payment' = DOMAIN payment
  /\ \A p \in DOMAIN payment : payment'[p].correlationId = payment[p].correlationId

LEMMA KeylessKept ==
  ASSUME KeysHeld, NEW s \in Slots, Keyless(s)
  PROVE  KeysHeld'
<1>1. \A t \in Slots : OwnsKey(t)'
  BY OthersOwn DEF Keyless
<1>2. KeysDone' /\ RefundsNoted' /\ RefundsOnce'
  BY DEF Keyless, KeysHeld, KeysDone, RefundsNoted, RefundsOnce
<1>3. PaymentsNoted' /\ PaymentsOnce'
  BY DEF Keyless, KeysHeld, PaymentsNoted, PaymentsOnce
<1>4. QED
  BY <1>1, <1>2, <1>3 DEF KeysHeld

LEMMA LocksLeft ==
  ASSUME Typed, NEW s \in Slots, FreeLocks(s)
  PROVE  KeysLeft(s)
BY LocksFreed DEF Typed, KeysLeft

(* Steps within a transaction, and steps out of it.                        *)
LEMMA WorkKeeps ==
  ASSUME KeysHeld, NEW s \in Slots, req[s].pc \in InTransaction,
         NEW pc, NEW pay, NEW seen, NEW ok, NEW status, NEW entries,
         Work(s, pc, pay, seen, ok, status, entries),
         UNCHANGED <<tables, keyLock>>, env'.spoiled = env.spoiled
  PROVE  KeysHeld'
<1>1. OwnsKey(s)
  BY DEF KeysHeld
<1>2. OwnsKey(s)' /\ KeysLeft(s) /\ Others(s)
  BY <1>1 DEF OwnsKey, Work, KeysLeft, tables
<1>3. Keyless(s)
  BY <1>2 DEF Keyless, tables
<1>4. QED
  BY <1>3, KeylessKept

LEMMA LeavesKeeps ==
  ASSUME KeysHeld, NEW s \in Slots, Others(s), req'[s].pc \notin InTransaction,
         KeysLeft(s), UNCHANGED <<idem, refunds>>, env'.spoiled = env.spoiled,
         DOMAIN payment' = DOMAIN payment,
         \A p \in DOMAIN payment : payment'[p].correlationId = payment[p].correlationId
  PROVE  KeysHeld'
<1>1. Keyless(s)
  BY DEF Keyless, OwnsKey
<1>2. QED
  BY <1>1, KeylessKept

LEMMA OutOfTransaction ==
  ASSUME NEW s \in Slots, Returns(s) \/ Ends(s) \/ Moves(s, "fail") \/ Moves(s, "blocked")
                          \/ Moves(s, "publish")
  PROVE  Others(s) /\ req'[s].pc \notin InTransaction
BY DEF Returns, Ends, Moves, Work, Busy, InTransaction

LEMMA ClaimHeld ==
  ASSUME Typed, KeysHeld, NEW s \in Slots, ClaimDoes(s)
  PROVE  KeysHeld'
<1> DEFINE k == req[s].key
           next == IF req[s].op = "create" THEN "call" ELSE "read"
<1>1. UNCHANGED <<idem, refunds, payment, env>>
  BY DEF ClaimDoes, tables
<1>2. CASE (Moves(s, "fail") \/ Moves(s, "blocked") \/ Returns(s)) /\ UNCHANGED keyLock
  <2>1. KeysLeft(s) /\ Others(s) /\ req'[s].pc \notin InTransaction
    BY <1>2, OutOfTransaction DEF KeysLeft
  <2>2. QED
    BY <1>1, <2>1, LeavesKeeps
<1>3. CASE /\ Moves(s, next) /\ UNCHANGED keyLock
           /\ k \in DOMAIN idem /\ idem[k].status = "failed"
  <2>1. k \in env.spoiled
    BY <1>3 DEF KeysHeld, KeysDone
  <2>2. Others(s) /\ req'[s].key = k
    BY <1>3 DEF Moves, Work
  <2>3. OwnsKey(s)' /\ KeysLeft(s)
    BY <1>1, <1>3, <2>1, <2>2 DEF OwnsKey, KeysLeft
  <2>4. Keyless(s)
    BY <1>1, <2>2, <2>3 DEF Keyless
  <2>5. QED
    BY <2>4, KeylessKept
<1>4. CASE /\ Moves(s, next) /\ k \notin DOMAIN idem /\ k \notin DOMAIN keyLock
           /\ keyLock' = Put(keyLock, k, s)
  <2>1. Others(s) /\ req'[s].key = k
    BY <1>4 DEF Moves, Work
  <2>2. /\ DOMAIN keyLock' = DOMAIN keyLock \cup {k} /\ keyLock'[k] = s
        /\ \A j \in DOMAIN keyLock : keyLock'[j] = keyLock[j]
    BY <1>4 DEF Put
  <2>3. OwnsKey(s)' /\ KeysLeft(s)
    BY <1>1, <1>4, <2>1, <2>2 DEF OwnsKey, KeysLeft
  <2>4. Keyless(s)
    BY <1>1, <2>1, <2>3 DEF Keyless
  <2>5. QED
    BY <2>4, KeylessKept
<1>5. QED
  BY <1>2, <1>3, <1>4 DEF ClaimDoes

LEMMA ThrowHeld ==
  ASSUME Typed, KeysHeld, NEW s \in Slots, ThrowDoes(s)
  PROVE  KeysHeld'
<1>1. Others(s) /\ req'[s].pc \notin InTransaction
  BY OutOfTransaction DEF ThrowDoes
<1>2. KeysLeft(s) /\ UNCHANGED <<idem, refunds, payment>> /\ env'.spoiled = env.spoiled
  BY LocksLeft DEF ThrowDoes, tables
<1>3. QED
  BY <1>1, <1>2, LeavesKeeps

LEMMA CommitHeld ==
  ASSUME Typed, KeysHeld, NEW s \in Slots, CommitDoes(s)
  PROVE  KeysHeld'
<1> DEFINE r == req[s]
           k == r.key
<1>1. /\ r.pc \in InTransaction /\ OwnsKey(s) /\ UNCHANGED env
      /\ DOMAIN idem' = DOMAIN idem \cup {k} /\ idem'[k].status = "completed"
      /\ \A j \in DOMAIN idem : j # k => idem'[j] = idem[j]
  BY DEF CommitDoes, KeysHeld, InTransaction
<1>2. k \in env.spoiled \/ (k \notin DOMAIN idem /\ k \in DOMAIN keyLock /\ keyLock[k] = s)
  BY <1>1 DEF OwnsKey
<1>3. Formed(r) /\ Busy(s) /\ KeysLeft(s)
  BY LocksLeft DEF CommitDoes, Typed
<1>4. Others(s) /\ req'[s].pc \notin InTransaction
  BY OutOfTransaction DEF CommitDoes
<1>5. \A t \in Slots : OwnsKey(t)'
  <2>1. OwnsKey(s)'
    BY <1>4 DEF OwnsKey
  <2>2. \A j \in DOMAIN idem' : j \in DOMAIN idem \/ j \in env.spoiled
                                \/ (j \in DOMAIN keyLock /\ keyLock[j] = s)
    BY <1>1, <1>2
  <2>3. QED
    BY <1>1, <1>3, <1>4, <2>1, <2>2, OthersOwn
<1>6. KeysDone'
  BY <1>1 DEF KeysHeld, KeysDone
<1>7. PaymentsNoted' /\ PaymentsOnce'
  <2>1. CASE r.op = "create"
    <3>1. k = CreateKey(k.key)
      BY <1>3, <2>1 DEF Formed, CreateKey
    <3>2. /\ DOMAIN payment' = DOMAIN payment \cup {r.pay}
          /\ payment'[r.pay].correlationId = k.key
          /\ \A p \in DOMAIN payment : p # r.pay => payment'[p] = payment[p]
      BY <2>1 DEF CommitDoes
    <3>3. PaymentsNoted'
      BY <1>1, <3>1, <3>2 DEF KeysHeld, PaymentsNoted
    <3>4. ASSUME NEW p \in DOMAIN payment, payment[p].correlationId = k.key
          PROVE  k \in env.spoiled
      BY <1>2, <3>1, <3>4 DEF KeysHeld, PaymentsNoted
    <3>5. PaymentsOnce'
      BY <1>1, <3>1, <3>2, <3>4 DEF KeysHeld, PaymentsOnce
    <3>6. QED
      BY <3>3, <3>5
  <2>2. CASE r.op # "create"
    <3>1. /\ DOMAIN payment' = DOMAIN payment
          /\ \A p \in DOMAIN payment : payment'[p].correlationId = payment[p].correlationId
      BY <1>3, <2>2 DEF CommitDoes, Formed
    <3>2. QED
      BY <1>1, <3>1 DEF KeysHeld, PaymentsNoted, PaymentsOnce
  <2>3. QED
    BY <2>1, <2>2
<1>8. RefundsNoted' /\ RefundsOnce'
  <2>1. CASE r.op = "refund"
    <3>1. PICK x : x = NewRefund(r)
      OBVIOUS
    <3>2. k = RefundKey(x.pay, x.idempotencyKey)
      BY <1>3, <2>1, <3>1 DEF Formed, RefundKey, NewRefund
    <3>3. refunds' = refunds \cup {x}
      BY <2>1, <3>1 DEF CommitDoes
    <3>4. RefundsNoted'
      BY <1>1, <3>2, <3>3 DEF KeysHeld, RefundsNoted
    <3>5. ASSUME NEW y \in refunds, x.pay = y.pay, x.idempotencyKey = y.idempotencyKey
          PROVE  k \in env.spoiled
      BY <1>2, <3>2, <3>5 DEF KeysHeld, RefundsNoted
    <3>6. RefundsOnce'
      BY <1>1, <3>2, <3>3, <3>5 DEF KeysHeld, RefundsOnce
    <3>7. QED
      BY <3>4, <3>6
  <2>2. CASE r.op # "refund"
    <3>1. UNCHANGED refunds
      BY <2>2 DEF CommitDoes
    <3>2. QED
      BY <1>1, <3>1 DEF KeysHeld, RefundsNoted, RefundsOnce
  <2>3. QED
    BY <2>1, <2>2
<1>9. QED
  BY <1>5, <1>6, <1>7, <1>8 DEF KeysHeld

LEMMA MarkHeld ==
  ASSUME Typed, KeysHeld, NEW s \in Slots, MarkIdempotencyAsFailedDoes(s)
  PROVE  KeysHeld'
<1> DEFINE k == req[s].key
<1>1. /\ DOMAIN idem' = DOMAIN idem /\ env.spoiled \subseteq env'.spoiled
      /\ \A j \in DOMAIN idem : j # k => idem'[j].status = idem[j].status
      /\ k \in DOMAIN idem => k \in env'.spoiled
      /\ UNCHANGED <<payment, refunds, keyLock>>
  BY DEF MarkIdempotencyAsFailedDoes
<1>2. Others(s) /\ req'[s].pc \notin InTransaction /\ KeysLeft(s)
  BY <1>1, OutOfTransaction DEF MarkIdempotencyAsFailedDoes, KeysLeft
<1>3. \A t \in Slots : OwnsKey(t)'
  <2>1. OwnsKey(s)'
    BY <1>2 DEF OwnsKey
  <2>2. QED
    BY <1>1, <1>2, <2>1, OthersOwn
<1>4. KeysDone'
  BY <1>1 DEF KeysHeld, KeysDone
<1>5. PaymentsNoted' /\ PaymentsOnce'
  BY <1>1 DEF KeysHeld, PaymentsNoted, PaymentsOnce
<1>6. RefundsNoted' /\ RefundsOnce'
  BY <1>1 DEF KeysHeld, RefundsNoted, RefundsOnce
<1>7. QED
  BY <1>3, <1>4, <1>5, <1>6 DEF KeysHeld

LEMMA SlotHeld ==
  ASSUME Typed, KeysHeld, NEW s \in Slots, SlotDoes(s)
  PROVE  KeysHeld'
<1>1. CASE ClaimDoes(s)
  BY <1>1, ClaimHeld
<1>2. CASE ThrowDoes(s)
  BY <1>2, ThrowHeld
<1>3. CASE ReadForConfirmDoes(s)
  <2>1. req[s].pc \in InTransaction /\ UNCHANGED <<tables, keyLock>> /\ env'.spoiled = env.spoiled
    BY <1>3 DEF ReadForConfirmDoes, InTransaction
  <2>2. QED
    BY <1>3, <2>1, WorkKeeps DEF ReadForConfirmDoes, Moves
<1>4. CASE ReadForRefundDoes(s)
  <2>1. req[s].pc \in InTransaction /\ UNCHANGED tables /\ env'.spoiled = env.spoiled
    BY <1>4 DEF ReadForRefundDoes, InTransaction
  <2>2. QED
    BY <1>4, <2>1, WorkKeeps, ThrowHeld DEF ReadForRefundDoes
<1>5. CASE CallCreateDoes(s)
  <2>1. req[s].pc \in InTransaction /\ UNCHANGED tables
    BY <1>5 DEF CallCreateDoes, InTransaction
  <2>2. QED
    BY <1>5, <2>1, WorkKeeps, ThrowHeld DEF CallCreateDoes
<1>6. CASE CallCaptureDoes(s)
  <2>1. req[s].pc \in InTransaction /\ UNCHANGED <<tables, keyLock>> /\ env'.spoiled = env.spoiled
    BY <1>6 DEF CallCaptureDoes, InTransaction
  <2>2. PICK ok, status :
          Work(s, "save", req[s].pay, req[s].seen, ok, status, req[s].entries)
    BY <1>6 DEF CallCaptureDoes
  <2>3. QED
    BY <2>1, <2>2, WorkKeeps
<1>7. CASE CallRefundDoes(s)
  <2>1. req[s].pc \in InTransaction /\ UNCHANGED <<tables, keyLock>> /\ env'.spoiled = env.spoiled
    BY <1>7 DEF CallRefundDoes, InTransaction
  <2>2. PICK pc, ok, status :
          Work(s, pc, req[s].pay, req[s].seen, ok, status, req[s].entries)
    BY <1>7 DEF CallRefundDoes, Moves
  <2>3. QED
    BY <2>1, <2>2, WorkKeeps
<1>8. CASE SavePaymentDoes(s)
  <2>1. req[s].pc \in InTransaction /\ UNCHANGED <<tables, keyLock>> /\ env'.spoiled = env.spoiled
    BY <1>8 DEF SavePaymentDoes, InTransaction
  <2>2. PICK pc, status :
          Work(s, pc, req[s].pay, req[s].seen, req[s].ok, status, req[s].entries)
    BY <1>8 DEF SavePaymentDoes, Moves
  <2>3. QED
    BY <2>1, <2>2, WorkKeeps
<1>9. CASE WriteLedgerDoes(s)
  <2>1. req[s].pc \in InTransaction /\ UNCHANGED <<tables, keyLock>> /\ env'.spoiled = env.spoiled
    BY <1>9 DEF WriteLedgerDoes, InTransaction
  <2>2. PICK entries :
          Work(s, "commit", req[s].pay, req[s].seen, req[s].ok, req[s].status, entries)
    BY <1>9 DEF WriteLedgerDoes
  <2>3. QED
    BY <2>1, <2>2, WorkKeeps
<1>10. CASE CommitDoes(s)
  BY <1>10, CommitHeld
<1>11. CASE PublishDoes(s) \/ PublishFailsDoes(s)
  <2>1. Others(s) /\ req'[s].pc \notin InTransaction
    BY <1>11, OutOfTransaction DEF PublishDoes, PublishFailsDoes
  <2>2. UNCHANGED <<tables, keyLock>> /\ env'.spoiled = env.spoiled
    BY <1>11 DEF PublishDoes, PublishFailsDoes
  <2>3. QED
    BY <2>1, <2>2, LeavesKeeps DEF KeysLeft, tables
<1>12. CASE CrashDoes(s)
  <2>1. Others(s) /\ req'[s].pc \notin InTransaction
    BY <1>12, OutOfTransaction DEF CrashDoes
  <2>2. UNCHANGED tables /\ KeysLeft(s) /\ env'.spoiled = env.spoiled
    BY <1>12, LocksLeft DEF CrashDoes
  <2>3. QED
    BY <2>1, <2>2, LeavesKeeps DEF tables
<1>13. CASE MarkIdempotencyAsFailedDoes(s)
  BY <1>13, MarkHeld
<1>14. CASE StatusDoes(s, "failed")
  <2>1. Others(s) /\ req'[s].pc \notin InTransaction
    BY <1>14, OutOfTransaction DEF StatusDoes
  <2>2. /\ UNCHANGED <<idem, refunds, keyLock, env>> /\ DOMAIN payment' = DOMAIN payment
        /\ \A p \in DOMAIN payment : payment'[p].correlationId = payment[p].correlationId
    BY <1>14 DEF StatusDoes
  <2>3. QED
    BY <2>1, <2>2, LeavesKeeps DEF KeysLeft
<1>15. CASE WebhookProcessedDoes(s)
  <2>1. Others(s) /\ req'[s].pc \notin InTransaction
    BY <1>15, OutOfTransaction DEF WebhookProcessedDoes
  <2>2. UNCHANGED <<tables, keyLock, env>>
    BY <1>15 DEF WebhookProcessedDoes
  <2>3. QED
    BY <2>1, <2>2, LeavesKeeps DEF KeysLeft, tables
<1>16. CASE BeginsDoes(s)
  <2>1. Others(s) /\ req'[s].pc \notin InTransaction
    BY <1>16 DEF BeginsDoes, InTransaction
  <2>2. UNCHANGED <<tables, keyLock>> /\ env'.spoiled = env.spoiled
    BY <1>16 DEF BeginsDoes
  <2>3. QED
    BY <2>1, <2>2, LeavesKeeps DEF KeysLeft, tables
<1>17. CASE UNCHANGED <<tables, req, rowLock, keyLock, intent, events, sent, env>>
  <2>1. Keyless(s)
    BY <1>17 DEF Keyless, Others, KeysLeft, OwnsKey, KeysHeld, tables
  <2>2. QED
    BY <2>1, KeylessKept
<1>18. QED
  BY <1>1, <1>2, <1>3, <1>4, <1>5, <1>6, <1>7, <1>8, <1>9, <1>10, <1>11, <1>12, <1>13,
     <1>14, <1>15, <1>16, <1>17 DEF SlotDoes, HandleWebhookDoes

LEMMA NextHeld ==
  ASSUME Typed, KeysHeld, [Next]_vars
  PROVE  KeysHeld'
<1>1. CASE CustomerDoes \/ UNCHANGED vars
  <2>1. UNCHANGED <<tables, req, keyLock, env>>
    BY <1>1 DEF CustomerDoes, vars
  <2>2. UNCHANGED <<payment, idem, refunds>>
    BY <2>1 DEF tables
  <2>3. \A s \in Slots : OwnsKey(s)'
    BY <2>1, <2>2 DEF KeysHeld, OwnsKey
  <2>4. KeysDone' /\ PaymentsNoted' /\ RefundsNoted' /\ PaymentsOnce' /\ RefundsOnce'
    BY <2>1, <2>2 DEF KeysHeld, KeysDone, PaymentsNoted, RefundsNoted, PaymentsOnce, RefundsOnce
  <2>5. QED
    BY <2>3, <2>4 DEF KeysHeld
<1>2. QED
  BY <1>1, NextEffect, SlotHeld

LEMMA AtMostOne ==
  ASSUME NEW S, \A x, y \in S : x = y
  PROVE  Cardinality(S) <= 1
<1>1. S = {} \/ \E x : S = {x}
  OBVIOUS
<1>2. Cardinality({}) = 0
  BY FS_EmptySet
<1>3. \A x : Cardinality({x}) = 1
  BY FS_Singleton
<1>4. Cardinality(S) = 0 \/ Cardinality(S) = 1
  BY <1>1, <1>2, <1>3, Zenon
<1>5. QED
  BY <1>4

(* A payment or a refund a client asks for under one idempotency key is    *)
(* made at most once, whatever fails, crashes or overlaps, unless the key  *)
(* was marked FAILED after it had been completed: claimIdempotency and the *)
(* unique index on scope and key.                                          *)
THEOREM OncePerKey == Spec => []KeyRunsOnce
<1>1. Typed /\ KeysHeld => KeyRunsOnce
  <2> SUFFICES ASSUME Typed, KeysHeld, NEW k \in IdemKeys, k \notin env.spoiled
               PROVE  Executions(k) <= 1
    BY DEF KeyRunsOnce
  <2>1. CASE k.scope = "create"
    <3> DEFINE S == {p \in DOMAIN payment : payment[p].correlationId = k.key}
    <3>1. k = CreateKey(k.key)
      BY <2>1 DEF IdemKeys, CreateKey
    <3>2. \A x, y \in S : x = y
      BY <3>1 DEF KeysHeld, PaymentsOnce
    <3>3. Cardinality(S) <= 1
      BY <3>2, AtMostOne
    <3>4. QED
      BY <2>1, <3>3 DEF Executions
  <2>2. CASE k.scope = "refund"
    <3> DEFINE S == {r \in RefundsOf(k.pay) : r.idempotencyKey = k.key}
    <3>1. k = RefundKey(k.pay, k.key)
      BY <2>2 DEF IdemKeys, RefundKey
    <3>2. \A x, y \in S : x = y
      BY <3>1 DEF KeysHeld, RefundsOnce, RefundsOf
    <3>3. Cardinality(S) <= 1
      BY <3>2, AtMostOne
    <3>4. QED
      BY <2>2, <3>3 DEF Executions
  <2>3. CASE k.scope \notin {"create", "refund"}
    BY <2>3 DEF Executions
  <2>4. QED
    BY <2>1, <2>2, <2>3
<1>2. Init => KeysHeld
  <2> SUFFICES ASSUME Init PROVE KeysHeld
    OBVIOUS
  <2>1. DOMAIN payment = {} /\ DOMAIN idem = {} /\ refunds = {}
    BY DEF Init
  <2>2. \A s \in Slots : OwnsKey(s)
    BY DEF Init, OwnsKey, Idle, InTransaction
  <2>3. QED
    BY <2>1, <2>2 DEF KeysHeld, KeysDone, PaymentsNoted, RefundsNoted, PaymentsOnce, RefundsOnce
<1>3. Typed /\ KeysHeld /\ [Next]_vars => KeysHeld'
  BY NextHeld
<1>4. QED
  BY <1>1, <1>2, <1>3, TypedInvariant, PTL DEF Spec

-----------------------------------------------------------------------------
(* Sums of refunds.                                                        *)
LEMMA TotalEmpty == Total({}) = 0
<1>1. {r \in {} : r.status = "succeeded"} = {}
  OBVIOUS
<1>2. Total({}) = AmountsIn({})
  BY <1>1 DEF Total, AmountsIn
<1>3. QED
  BY <1>2, AmountsEmpty

LEMMA TotalGrows ==
  ASSUME NEW T, T \subseteq RefundRows, IsFiniteSet(T), NEW S, S \subseteq T
  PROVE  Total(S) \in Nat /\ Total(T) \in Nat /\ Total(S) <= Total(T)
<1> DEFINE W(R) == {r \in R : r.status = "succeeded"}
<1>1. IsFiniteSet(W(T)) /\ W(S) \in SUBSET W(T)
  BY FS_Subset
<1>2. Priced(W(T))
  <2>1. \A x \in W(T) : x.amount \in Nat
    BY PaymentAssumption DEF RefundRows
  <2>2. QED
    BY <1>1, <2>1 DEF Priced
<1>3. Total(S) = AmountsIn(W(S)) /\ Total(T) = AmountsIn(W(T))
  BY DEF Total, AmountsIn
<1> HIDE DEF W
<1>4. Priced(W(S)) /\ AmountsIn(W(S)) <= AmountsIn(W(T))
  BY <1>1, <1>2, AmountsSubset
<1>5. AmountsIn(W(S)) \in Nat /\ AmountsIn(W(T)) \in Nat
  BY <1>2, <1>4, AmountsNat
<1>6. QED
  BY <1>3, <1>4, <1>5

LEMMA TotalAdds ==
  ASSUME NEW S, S \subseteq RefundRows, IsFiniteSet(S), NEW x \in RefundRows, x \notin S
  PROVE  Total(S \cup {x}) = IF x.status = "succeeded" THEN Total(S) + x.amount ELSE Total(S)
<1> DEFINE W(R) == {r \in R : r.status = "succeeded"}
<1>1. IsFiniteSet(W(S)) /\ \A y \in W(S) : y.amount \in Nat
  BY FS_Subset, PaymentAssumption DEF RefundRows
<1>2. Priced(W(S)) /\ x.amount \in Nat
  BY <1>1, PaymentAssumption DEF Priced, RefundRows
<1>3. Total(S) = AmountsIn(W(S)) /\ Total(S \cup {x}) = AmountsIn(W(S \cup {x}))
  BY DEF Total, AmountsIn
<1>4. CASE x.status = "succeeded"
  <2>1. W(S \cup {x}) = W(S) \cup {x} /\ x \notin W(S)
    BY <1>4
  <2> HIDE DEF W
  <2>2. AmountsIn(W(S) \cup {x}) = AmountsIn(W(S)) + x.amount
    BY <1>2, <2>1, AmountsAdd
  <2>3. AmountsIn(W(S \cup {x})) = AmountsIn(W(S) \cup {x})
    BY <2>1, Zenon
  <2>4. QED
    BY <1>3, <1>4, <2>2, <2>3
<1>5. CASE x.status # "succeeded"
  <2>1. W(S \cup {x}) = W(S)
    BY <1>5
  <2> HIDE DEF W
  <2>2. AmountsIn(W(S \cup {x})) = AmountsIn(W(S))
    BY <2>1, Zenon
  <2>3. QED
    BY <1>3, <1>5, <2>2
<1>6. QED
  BY <1>4, <1>5

LEMMA RefundsFinite ==
  ASSUME Typed, NEW p
  PROVE  /\ RefundsOf(p) \subseteq RefundRows /\ IsFiniteSet(RefundsOf(p))
         /\ Total(RefundsOf(p)) \in Nat
<1>1. RefundsOf(p) \subseteq RefundRows /\ RefundsOf(p) \subseteq refunds /\ IsFiniteSet(refunds)
  BY DEF Typed, Tables, RefundsOf
<1>2. IsFiniteSet(RefundsOf(p))
  BY <1>1, FS_Subset
<1>3. QED
  BY <1>1, <1>2, TotalGrows

-----------------------------------------------------------------------------
(* The money.  What is known of a request that is about to write:          *)
(* a confirmation that captured has the row of its payment to itself, so   *)
(* that what it read of the journal still holds when it commits.           *)
Confirming(s) ==
  LET r == req[s] IN
  r.op = "confirm" =>
    /\ r.entries # "refund"
    /\ r.pc \in {"save", "write", "commit"} /\ r.ok =>
         r.status = "confirmed" /\ intent[IntentOf(r)] = "succeeded"
    /\ r.pc \in {"save", "write", "commit"} /\ ~r.ok =>
         r.status \in {"failed", "none"} /\ r.entries = "none"
    /\ r.pc \in {"write", "commit"} /\ r.ok => rowLock[r.pay] = s
    /\ r.pc = "commit" /\ r.ok => r.entries = "payment" \/ Recorded(r.pay)
    /\ r.pc = "commit" /\ r.entries = "payment" => ~Recorded(r.pay)
    /\ r.pc = "publish" => Recorded(r.pay)

Refunding(s) ==
  LET r == req[s] IN
  r.op = "refund" =>
    /\ r.entries # "payment"
    /\ r.pc \in {"call", "save", "write", "commit"} =>
         /\ Recorded(r.pay) /\ (r.ok => intent[r.pay] = "succeeded")
         /\ r.seen \subseteq RefundsOf(r.pay) /\ Total(r.seen) + r.body <= Amount
         /\ r.status = "none" \/ (r.ok /\ r.status = RefundedStatus(Total(r.seen) + r.body))
    /\ r.pc = "commit" => r.entries = IF r.ok THEN "refund" ELSE "none"

Creates(s) == req[s].pc = "commit" /\ req[s].op = "create"
Creating(s) == Creates(s) => intent[req[s].pay] # "none" /\ req[s].pay \notin DOMAIN payment

Sure(s) == Busy(s) => Confirming(s) /\ Refunding(s) /\ Creating(s)

Apart == \A s, t \in Slots : Creates(s) /\ Creates(t) /\ req[s].pay = req[t].pay => s = t

(* A step of a slot leaves the others what they rely on.                   *)
IntentsKept ==
  \A g \in Intents : /\ intent[g] = "succeeded" => intent'[g] = "succeeded"
                     /\ intent[g] # "none" => intent'[g] # "none"
RowsLeft(s) == \A p \in PayIds : \A t \in Slots : t # s /\ rowLock[p] = t => rowLock'[p] = t
Grows(s) ==
  /\ Others(s) /\ IntentsKept /\ RowsLeft(s) /\ refunds \subseteq refunds'
  /\ \A p \in PayIds : Recorded(p) => Recorded(p)'
  /\ \A p \in PayIds : Recorded(p)' => Recorded(p) \/ rowLock[p] = s
  /\ \A p \in DOMAIN payment' : p \in DOMAIN payment \/ (Creates(s) /\ req[s].pay = p)

LEMMA OthersSure ==
  ASSUME Typed, Typed', NEW s \in Slots, Grows(s), Apart, NEW t \in Slots, t # s, Sure(t)
  PROVE  Sure(t)'
<1> SUFFICES ASSUME Busy(t)'
             PROVE  Confirming(t)' /\ Refunding(t)' /\ Creating(t)'
  BY DEF Sure
<1>1. /\ req'[t] = req[t] /\ Busy(t) /\ Formed(req[t]) /\ Tables
      /\ Confirming(t) /\ Refunding(t) /\ Creating(t)
  BY DEF Grows, Others, Busy, Sure, Typed
<1>2. req[t].op # "create" => req[t].pay \in PayIds /\ IntentOf(req[t]) \in Intents
  BY <1>1, IntentIs
<1>3. Confirming(t)'
  BY <1>1, <1>2 DEF Confirming, Grows, IntentsKept, RowsLeft
<1>4. Refunding(t)'
  BY <1>1, <1>2 DEF Refunding, Grows, IntentsKept, RefundsOf, Intents
<1>5. Creating(t)'
  <2>1. SUFFICES ASSUME Creates(t)' PROVE intent'[req[t].pay] # "none"
                                          /\ req[t].pay \notin DOMAIN payment'
    BY <1>1 DEF Creating
  <2>2. Creates(t) /\ req[t].pay \in PayIds
    BY <1>1, <2>1 DEF Creates, Formed
  <2>3. QED
    BY <1>1, <2>2 DEF Creating, Grows, IntentsKept, Apart, Intents
<1>6. QED
  BY <1>3, <1>4, <1>5

LEMMA ApartKept ==
  ASSUME Apart, NEW s \in Slots, Others(s),
         Creates(s)' => Creates(s) /\ req'[s].pay = req[s].pay
  PROVE  Apart'
BY DEF Apart, Others, Creates

LEMMA QuietGrows ==
  ASSUME NEW s \in Slots, Others(s), UNCHANGED tables, IntentsKept, RowsLeft(s)
  PROVE  Grows(s)
BY DEF Grows, tables, Recorded

LEMMA RowsFreed ==
  ASSUME Typed, NEW s \in Slots, FreeLocks(s)
  PROVE  RowsLeft(s)
BY LocksFreed DEF Typed, RowsLeft

(* The request's own step.                                                 *)
LEMMA MovesSure ==
  ASSUME Typed', NEW s \in Slots, Busy(s), Sure(s), NEW pc, Moves(s, pc),
         pc \in {"fail", "blocked", "read", "hook_done"}
           \/ (pc = "call" /\ req[s].op # "refund")
  PROVE  Sure(s)' /\ ~Creates(s)'
<1>1. /\ req'[s].pc = pc /\ req'[s].op = req[s].op /\ req'[s].entries = req[s].entries
      /\ Confirming(s) /\ Refunding(s)
  BY DEF Moves, Work, Sure
<1>2. Confirming(s)' /\ Refunding(s)'
  BY <1>1 DEF Confirming, Refunding
<1>3. Creating(s)' /\ ~Creates(s)'
  BY <1>1 DEF Creating, Creates
<1>4. QED
  BY <1>2, <1>3 DEF Sure

LEMMA ReturnsSure ==
  ASSUME Typed', NEW s \in Slots, Busy(s), Sure(s), Returns(s) \/ Ends(s)
  PROVE  Sure(s)' /\ ~Creates(s)' /\ Others(s)
<1>1. CASE Ends(s)
  BY <1>1 DEF Ends, Sure, Creates, Busy
<1>2. CASE Moves(s, "hook_done")
  BY <1>2, MovesSure DEF Moves, Work
<1>3. QED
  BY <1>1, <1>2 DEF Returns

-----------------------------------------------------------------------------
(* The books: the tables of payments, refunds and ledger entries.          *)
Stated ==
  \A p \in DOMAIN payment :
    /\ payment[p].status \in AlreadyConfirmed => Recorded(p)
    /\ payment[p].status = "partially_refunded" =>
         Total(RefundsOf(p)) > 0 /\ intent[p] = "succeeded"
    /\ payment[p].status = "refunded" =>
         Total(RefundsOf(p)) >= Amount /\ intent[p] = "succeeded"
EntriesPaid == \A b \in ledger : b.type = "payment" => intent[b.of] = "succeeded"
Intended == \A p \in DOMAIN payment : intent[p] # "none"
Numbered ==
  /\ \A x \in refunds : /\ x.id <= Cardinality(refunds)
                        /\ \A i \in x.seen : i <= Cardinality(refunds)
  /\ \A x, y \in refunds : x.id = y.id => x = y
  /\ \A b \in ledger : b.id <= Cardinality(ledger)

EntriesOf(L, p, account, direction) ==
  {x \in UNION {LedgerEntries(b) : b \in L} :
     x.pay = p /\ x.accountCode = account /\ x.direction = direction}
Adds(p, account, direction, n) ==
  /\ Priced(EntriesOf(ledger, p, account, direction))
  /\ AmountsIn(EntriesOf(ledger, p, account, direction)) = n
Captured(p) == IF Recorded(p) THEN Amount ELSE 0
Balanced ==
  \A p \in PayIds :
    /\ Adds(p, "asset:gateway_clearing", "debit", Captured(p))
    /\ Adds(p, "liability:customer_funds", "credit", Captured(p))
    /\ Adds(p, "liability:customer_funds", "debit", Total(RefundsOf(p)))
    /\ Adds(p, "asset:gateway_clearing", "credit", Total(RefundsOf(p)))

Books == Stated /\ EntriesPaid /\ Intended /\ Numbered /\ Balanced /\ RefundsWithinAmount
Secure == Books /\ Apart /\ \A s \in Slots : Sure(s)

LEMMA QuietBooks ==
  ASSUME Typed, Books, UNCHANGED <<payment, refunds, ledger>>, IntentsKept
  PROVE  Books'
<1>1. DOMAIN payment \subseteq Intents /\ \A b \in ledger : b.of \in Intents
  BY DEF Typed, Tables, Batches, Intents
<1>2. \A p : (Recorded(p)' <=> Recorded(p)) /\ RefundsOf(p)' = RefundsOf(p)
             /\ Captured(p)' = Captured(p)
  BY DEF Recorded, RefundsOf, Captured
<1>3. Stated'
  BY <1>1, <1>2 DEF Books, Stated, IntentsKept
<1>4. EntriesPaid' /\ Intended'
  BY <1>1, <1>2 DEF Books, EntriesPaid, Intended, IntentsKept
<1>5. Numbered' /\ RefundsWithinAmount'
  BY <1>2 DEF Books, Numbered, RefundsWithinAmount
<1>6. Balanced'
  BY <1>2 DEF Books, Balanced, Adds
<1>7. QED
  BY <1>3, <1>4, <1>5, <1>6 DEF Books

(* What a step shows of its own request, for the others and for the rest.  *)
Steady(s) == Grows(s) /\ Sure(s)' /\ Apart'

LEMMA SteadySecure ==
  ASSUME Typed, Typed', Secure, NEW s \in Slots, Steady(s), Books'
  PROVE  Secure'
<1>1. \A t \in Slots : Sure(t)'
  BY OthersSure DEF Secure, Steady
<1>2. QED
  BY <1>1 DEF Secure, Steady

LEMMA QuietSteady ==
  ASSUME Secure, NEW s \in Slots, Others(s), UNCHANGED <<payment, refunds, ledger>>,
         IntentsKept, RowsLeft(s), Sure(s)', ~Creates(s)'
  PROVE  Steady(s)
<1>1. Grows(s)
  BY DEF Grows, Recorded
<1>2. Apart'
  BY ApartKept DEF Secure
<1>3. QED
  BY <1>1, <1>2 DEF Steady

LEMMA ClaimSteady ==
  ASSUME Typed, Typed', Secure, NEW s \in Slots, ClaimDoes(s)
  PROVE  Steady(s)
<1>1. /\ Busy(s) /\ Sure(s) /\ UNCHANGED <<payment, refunds, ledger>> /\ IntentsKept /\ RowsLeft(s)
  BY DEF ClaimDoes, Secure, tables, gateway, IntentsKept, RowsLeft
<1> DEFINE next == IF req[s].op = "create" THEN "call" ELSE "read"
<1>2. Moves(s, "fail") \/ Moves(s, "blocked") \/ Returns(s) \/ Moves(s, next)
  BY DEF ClaimDoes
<1>3. next \in {"fail", "blocked", "read", "hook_done"} \/ (next = "call" /\ req[s].op # "refund")
  OBVIOUS
<1> HIDE DEF next
<1>4. Sure(s)' /\ ~Creates(s)' /\ Others(s)
  <2>1. CASE Returns(s)
    BY <1>1, <2>1, ReturnsSure
  <2>2. ASSUME NEW pc, Moves(s, pc), pc \in {"fail", "blocked", next}
        PROVE  Sure(s)' /\ ~Creates(s)' /\ Others(s)
    <3>1. Others(s)
      BY <2>2 DEF Moves, Work
    <3>2. QED
      BY <1>1, <1>3, <2>2, <3>1, MovesSure
  <2>3. QED
    BY <1>2, <2>1, <2>2
<1>5. QED
  BY <1>1, <1>4, QuietSteady

LEMMA ThrowSteady ==
  ASSUME Typed, Typed', Secure, NEW s \in Slots, ThrowDoes(s), IntentsKept
  PROVE  Steady(s)
<1>1. Busy(s) /\ Sure(s) /\ UNCHANGED <<payment, refunds, ledger>> /\ RowsLeft(s)
      /\ Moves(s, "fail") /\ Others(s)
  BY RowsFreed DEF ThrowDoes, Secure, tables, Moves, Work
<1>2. Sure(s)' /\ ~Creates(s)'
  BY <1>1, MovesSure
<1>3. QED
  BY <1>1, <1>2, QuietSteady

LEMMA ReadForConfirmSteady ==
  ASSUME Typed, Typed', Secure, NEW s \in Slots, ReadForConfirmDoes(s)
  PROVE  Steady(s)
<1>1. /\ Busy(s) /\ Sure(s) /\ UNCHANGED <<payment, refunds, ledger>> /\ IntentsKept /\ RowsLeft(s)
      /\ Formed(req[s]) /\ req[s].pc = "read" /\ req[s].op = "confirm"
  BY DEF ReadForConfirmDoes, Secure, tables, gateway, IntentsKept, RowsLeft, Typed
<1>2. CASE Moves(s, "call")
  <2>1. Sure(s)' /\ ~Creates(s)' /\ Others(s)
    BY <1>1, <1>2, MovesSure DEF Moves, Work
  <2>2. QED
    BY <1>1, <2>1, QuietSteady
<1>3. CASE Moves(s, "commit")
  <2>1. /\ req'[s].op = "confirm" /\ req'[s].pc = "commit" /\ ~req'[s].ok
        /\ req'[s].status = "none" /\ req'[s].entries = "none" /\ Others(s)
    BY <1>1, <1>3 DEF Moves, Work, Formed
  <2>2. Sure(s)' /\ ~Creates(s)'
    BY <2>1 DEF Sure, Confirming, Refunding, Creating, Creates
  <2>3. QED
    BY <1>1, <2>1, <2>2, QuietSteady
<1>4. QED
  BY <1>2, <1>3 DEF ReadForConfirmDoes

LEMMA ReadForRefundSteady ==
  ASSUME Typed, Typed', Secure, NEW s \in Slots, ReadForRefundDoes(s)
  PROVE  Steady(s)
<1> DEFINE r == req[s]
<1>0. PICK p : p = r.pay
  OBVIOUS
<1>1. /\ Busy(s) /\ Sure(s) /\ UNCHANGED <<payment, refunds, ledger, intent>> /\ IntentsKept
      /\ Formed(r) /\ r.pc = "read" /\ r.op = "refund" /\ Stated
  BY DEF ReadForRefundDoes, Secure, Books, tables, gateway, IntentsKept, Typed
<1>2. CASE ThrowDoes(s)
  BY <1>1, <1>2, ThrowSteady
<1>3. CASE /\ Work(s, "call", r.pay, RefundsOf(r.pay), r.ok, r.status, r.entries)
           /\ payment[r.pay].status \in Refundable /\ Fits(r.pay, r.body)
           /\ UNCHANGED <<rowLock, keyLock>>
  <2>1. Recorded(r.pay)
    BY <1>1, <1>3 DEF Formed, Stated, Refundable, AlreadyConfirmed
  <2>2. /\ Others(s) /\ req'[s].op = "refund" /\ req'[s].pc = "call" /\ req'[s].pay = r.pay
        /\ req'[s].seen = RefundsOf(r.pay) /\ req'[s].body = r.body
        /\ req'[s].status = "none" /\ req'[s].entries = "none" /\ ~req'[s].ok
    BY <1>1, <1>3 DEF Work, Formed
  <2>3. Recorded(p)' /\ RefundsOf(p)' = RefundsOf(p)
    BY <1>0, <1>1, <2>1 DEF Recorded, RefundsOf
  <2>4. Total(RefundsOf(r.pay)) + r.body <= Amount
    BY <1>3 DEF Fits
  <2>5. Refunding(s)'
    <3> HIDE DEF r
    <3>1. QED
      BY <1>0, <2>2, <2>3, <2>4 DEF Refunding
  <2>6. Sure(s)' /\ ~Creates(s)'
    BY <2>2, <2>5 DEF Sure, Confirming, Creating, Creates
  <2>7. QED
    BY <1>1, <1>3, <2>2, <2>6, QuietSteady DEF RowsLeft
<1>4. QED
  BY <1>2, <1>3 DEF ReadForRefundDoes

LEMMA CallCreateSteady ==
  ASSUME Typed, Typed', Secure, NEW s \in Slots, CallCreateDoes(s)
  PROVE  Steady(s) /\ IntentsKept
<1> DEFINE r == req[s]
<1>1. /\ Busy(s) /\ Sure(s) /\ UNCHANGED tables /\ Formed(r) /\ r.pc = "call" /\ r.op = "create"
      /\ intent \in [Intents -> IntentStatus] /\ Intended /\ Apart
  BY DEF CallCreateDoes, Secure, Books, Typed, Outside
<1>2. PICK p \in PayIds :
        /\ intent[p] = "none" /\ intent' = [intent EXCEPT ![p] = "requires_payment_method"]
        /\ \/ /\ Work(s, "commit", p, r.seen, r.ok, "requires_action", r.entries)
              /\ UNCHANGED <<rowLock, keyLock, env>>
           \/ ThrowDoes(s)
  BY DEF CallCreateDoes
<1>3. IntentsKept /\ intent'[p] # "none" /\ \A q \in PayIds : q # p => intent'[q] = intent[q]
  BY <1>1, <1>2 DEF IntentsKept, Intents
<1>4. CASE ThrowDoes(s)
  BY <1>3, <1>4, ThrowSteady
<1>5. CASE /\ Work(s, "commit", p, r.seen, r.ok, "requires_action", r.entries)
           /\ UNCHANGED <<rowLock, keyLock, env>>
  <2>1. /\ Others(s) /\ req'[s].op = "create" /\ req'[s].pc = "commit" /\ req'[s].pay = p
    BY <1>1, <1>5 DEF Work
  <2>2. p \notin DOMAIN payment /\ p \notin DOMAIN payment'
    BY <1>1, <1>2 DEF Intended, tables
  <2>3. Sure(s)'
    BY <1>3, <2>1, <2>2 DEF Sure, Confirming, Refunding, Creating, Creates
  <2>4. Grows(s)
    BY <1>1, <1>3, <1>5, <2>1, QuietGrows DEF RowsLeft
  <2>5. Apart'
    <3>1. \A t \in Slots : t # s /\ Creates(t)' => req'[t].pay # p
      <4> SUFFICES ASSUME NEW t \in Slots, t # s, Creates(t)' PROVE req'[t].pay # p
        OBVIOUS
      <4>1. req'[t] = req[t] /\ Creates(t) /\ Busy(t) /\ Sure(t)
        BY <2>1 DEF Others, Creates, Busy, Secure
      <4>2. QED
        BY <1>2, <4>1 DEF Sure, Creating
    <3>2. QED
      BY <1>1, <2>1, <3>1 DEF Apart, Others, Creates
  <2>6. QED
    BY <1>3, <2>3, <2>4, <2>5 DEF Steady
<1>6. QED
  BY <1>2, <1>3, <1>4, <1>5

LEMMA CallCaptureSteady ==
  ASSUME Typed, Typed', Secure, NEW s \in Slots, CallCaptureDoes(s)
  PROVE  Steady(s) /\ IntentsKept
<1> DEFINE r == req[s]
<1>1. /\ Busy(s) /\ Sure(s) /\ UNCHANGED <<payment, refunds, ledger, rowLock>>
      /\ Formed(r) /\ r.pc = "call" /\ r.op = "confirm" /\ intent \in [Intents -> IntentStatus]
  BY DEF CallCaptureDoes, Secure, Typed, Outside, tables
<1>2. IntentsKept
  <2>1. \/ UNCHANGED intent
        \/ /\ intent[IntentOf(r)] # "succeeded"
           /\ \E status \in {"succeeded", "requires_payment_method"} :
                intent' = [intent EXCEPT ![IntentOf(r)] = status]
    BY DEF CallCaptureDoes
  <2>2. PICK g : g = IntentOf(r)
    OBVIOUS
  <2> HIDE DEF r
  <2>3. QED
    BY <1>1, <2>1, <2>2 DEF IntentsKept
<1>3. PICK ok \in BOOLEAN :
        /\ Work(s, "save", r.pay, r.seen, ok, IF ok THEN "confirmed" ELSE "failed", r.entries)
        /\ ok => intent'[IntentOf(r)] = "succeeded"
  BY DEF CallCaptureDoes
<1>4. /\ Others(s) /\ req'[s].op = "confirm" /\ req'[s].pc = "save" /\ req'[s].pay = r.pay
      /\ req'[s].ok = ok /\ req'[s].status = IF ok THEN "confirmed" ELSE "failed"
      /\ req'[s].entries = "none" /\ IntentOf(req'[s]) = IntentOf(r)
  BY <1>1, <1>3 DEF Work, Formed, IntentOf
<1>5. Sure(s)' /\ ~Creates(s)'
  BY <1>3, <1>4 DEF Sure, Confirming, Refunding, Creating, Creates
<1>6. QED
  BY <1>1, <1>2, <1>4, <1>5, QuietSteady DEF RowsLeft

LEMMA CallRefundSteady ==
  ASSUME Typed, Typed', Secure, NEW s \in Slots, CallRefundDoes(s)
  PROVE  Steady(s) /\ IntentsKept
<1> DEFINE r == req[s]
<1>0. PICK p : p = r.pay
  OBVIOUS
<1>1. /\ Busy(s) /\ Sure(s) /\ UNCHANGED <<payment, refunds, ledger, rowLock, intent>>
      /\ Formed(r) /\ r.pc = "call" /\ r.op = "refund"
  BY DEF CallRefundDoes, Secure, Typed, tables
<1>2. IntentsKept /\ RowsLeft(s)
  BY <1>1 DEF IntentsKept, RowsLeft
<1>3. /\ Recorded(r.pay)
      /\ r.seen \subseteq RefundsOf(r.pay) /\ Total(r.seen) + r.body <= Amount
  BY <1>1 DEF Sure, Refunding
<1>4. Recorded(p)' /\ RefundsOf(p)' = RefundsOf(p) /\ intent'[p] = intent[p]
  BY <1>0, <1>1, <1>3 DEF Recorded, RefundsOf
<1>5. /\ Others(s) /\ req'[s].op = "refund" /\ req'[s].pay = r.pay /\ req'[s].seen = r.seen
      /\ req'[s].body = r.body /\ req'[s].entries = "none"
      /\ \/ /\ req'[s].pc = "save" /\ req'[s].ok /\ intent[r.pay] = "succeeded"
            /\ req'[s].status = RefundedStatus(Total(r.seen) + r.body)
         \/ req'[s].pc = "commit" /\ req'[s].status = "none" /\ ~req'[s].ok
  BY <1>1 DEF CallRefundDoes, Moves, Work, Formed
<1>6. Refunding(s)'
  <2> HIDE DEF r
  <2>1. QED
    BY <1>0, <1>3, <1>4, <1>5 DEF Refunding
<1>7. Sure(s)' /\ ~Creates(s)'
  BY <1>5, <1>6 DEF Sure, Confirming, Creating, Creates
<1>8. QED
  BY <1>1, <1>2, <1>5, <1>7, QuietSteady

LEMMA SavePaymentSteady ==
  ASSUME Typed, Typed', Secure, NEW s \in Slots, SavePaymentDoes(s)
  PROVE  Steady(s) /\ IntentsKept
<1> DEFINE r == req[s]
           next == IF r.ok THEN "write" ELSE "commit"
<1>0. PICK p : p = r.pay
  OBVIOUS
<1>1. /\ Busy(s) /\ Sure(s) /\ UNCHANGED <<payment, refunds, ledger, intent>>
      /\ Formed(r) /\ r.pc = "save" /\ rowLock \in [PayIds -> Slots \cup {NoSlot}]
  BY DEF SavePaymentDoes, Secure, Typed, tables, gateway, Outside
<1>2. r.op # "create" /\ r.pay \in PayIds /\ r.entries = "none" /\ r.status # "none"
      /\ r.op \in {"confirm", "refund"}
  BY <1>1, AtWork DEF Formed, Typed, Tables, Requests
<1>3. IntentsKept
  BY <1>1 DEF IntentsKept
<1>4. \/ rowLock' = rowLock /\ ~(r.ok /\ r.status \in {"confirmed", "refunded"})
      \/ rowLock[r.pay] = NoSlot /\ rowLock' = [rowLock EXCEPT ![r.pay] = s]
  BY DEF SavePaymentDoes
<1>5. RowsLeft(s)
  BY <1>1, <1>2, <1>4, PaymentAssumption DEF RowsLeft
<1>6. /\ Others(s) /\ req'[s].op = r.op /\ req'[s].pay = r.pay /\ req'[s].seen = r.seen
      /\ req'[s].body = r.body /\ req'[s].entries = "none" /\ req'[s].pc = next
      /\ req'[s].ok = r.ok
      /\ req'[s].status = r.status \/ (req'[s].status = "none" /\ rowLock' = rowLock
                                       /\ ~(r.ok /\ r.status \in {"confirmed", "refunded"}))
      /\ IntentOf(req'[s]) = IntentOf(r)
  BY <1>2 DEF SavePaymentDoes, Moves, Work, IntentOf
<1>7. Recorded(p)' <=> Recorded(p)
  BY <1>1 DEF Recorded
<1>8. Confirming(s)'
  <2>1. SUFFICES ASSUME r.op = "confirm" PROVE Confirming(s)'
    BY <1>6 DEF Confirming
  <2>2. Confirming(s)
    BY <1>1 DEF Sure
  <2>3. CASE r.ok
    <3>1. r.status = "confirmed" /\ intent[IntentOf(r)] = "succeeded" /\ next = "write"
      BY <1>1, <2>1, <2>2, <2>3 DEF Confirming
    <3>2. rowLock'[r.pay] = s
      BY <1>1, <1>2, <1>4, <2>3, <3>1
    <3>3. req'[s].status = "confirmed" /\ req'[s].pc = "write"
      BY <1>6, <2>3, <3>1
    <3>4. QED
      BY <1>1, <1>6, <2>3, <3>1, <3>2, <3>3 DEF Confirming
  <2>4. CASE ~r.ok
    <3>1. r.status \in {"failed", "none"} /\ next = "commit"
      BY <1>1, <2>1, <2>2, <2>4 DEF Confirming
    <3>2. req'[s].status \in {"failed", "none"} /\ req'[s].pc = "commit"
      BY <1>6, <3>1
    <3>3. QED
      BY <1>6, <2>4, <3>2 DEF Confirming
  <2>5. QED
    BY <2>3, <2>4
<1>9. Refunding(s)'
  <2>1. SUFFICES ASSUME r.op = "refund" PROVE Refunding(s)'
    BY <1>6 DEF Refunding
  <2>2. /\ Recorded(r.pay) /\ (r.ok => intent[r.pay] = "succeeded") /\ r.ok
        /\ r.seen \subseteq RefundsOf(r.pay) /\ Total(r.seen) + r.body <= Amount
        /\ r.status = RefundedStatus(Total(r.seen) + r.body)
    BY <1>1, <1>2, <2>1 DEF Sure, Refunding
  <2>3. Recorded(p)' /\ RefundsOf(p)' = RefundsOf(p) /\ (r.ok => intent'[p] = "succeeded")
    BY <1>0, <1>1, <2>2 DEF Recorded, RefundsOf
  <2>4. req'[s].pc = "write" /\ (req'[s].status = r.status \/ req'[s].status = "none")
    BY <1>6, <2>2
  <2>5. QED
    <3> HIDE DEF r, next
    <3>1. QED
      BY <1>0, <1>6, <2>1, <2>2, <2>3, <2>4 DEF Refunding
<1>10. Sure(s)' /\ ~Creates(s)'
  BY <1>2, <1>6, <1>8, <1>9 DEF Sure, Creating, Creates
<1>11. QED
  BY <1>1, <1>3, <1>5, <1>6, <1>10, QuietSteady

LEMMA WriteLedgerSteady ==
  ASSUME Typed, Typed', Secure, NEW s \in Slots, WriteLedgerDoes(s)
  PROVE  Steady(s) /\ IntentsKept
<1> DEFINE r == req[s]
<1>0. PICK p : p = r.pay
  OBVIOUS
<1>1. /\ Busy(s) /\ Sure(s) /\ UNCHANGED <<payment, refunds, ledger, intent, rowLock>>
      /\ Formed(r) /\ r.pc = "write" /\ r.op # "create" /\ r.ok
  BY DEF WriteLedgerDoes, Secure, Typed, tables, gateway, Formed
<1>2. IntentsKept /\ RowsLeft(s)
  BY <1>1 DEF IntentsKept, RowsLeft
<1>3. r.op \in {"confirm", "refund"}
  BY <1>1, AtWork DEF Typed, Requests
<1>4. PICK entries : entries = Entries(r)
  OBVIOUS
<1>5. /\ r.op = "refund" => entries = "refund"
      /\ r.op = "confirm" => entries = IF Recorded(r.pay) THEN "none" ELSE "payment"
  BY <1>4 DEF Entries
<1>6. /\ Others(s) /\ req'[s].op = r.op /\ req'[s].pay = r.pay /\ req'[s].seen = r.seen
      /\ req'[s].body = r.body /\ req'[s].entries = entries /\ req'[s].pc = "commit"
      /\ req'[s].ok = r.ok /\ req'[s].status = r.status
      /\ IntentOf(req'[s]) = IntentOf(r)
  BY <1>4 DEF WriteLedgerDoes, Work, IntentOf
<1>7. Recorded(p)' <=> Recorded(p)
  BY <1>1 DEF Recorded
<1>8. Confirming(s)'
  <2>1. SUFFICES ASSUME r.op = "confirm" PROVE Confirming(s)'
    BY <1>6 DEF Confirming
  <2>2. r.status = "confirmed" /\ intent[IntentOf(r)] = "succeeded" /\ rowLock[r.pay] = s
    BY <1>1, <2>1 DEF Sure, Confirming
  <2>3. entries = "payment" <=> ~Recorded(r.pay)
    BY <1>5, <2>1
  <2>4. entries # "refund"
    BY <1>5, <2>1
  <2>5. QED
    BY <1>0, <1>1, <1>6, <1>7, <2>2, <2>3, <2>4 DEF Confirming
<1>9. Refunding(s)'
  <2>1. SUFFICES ASSUME r.op = "refund" PROVE Refunding(s)'
    BY <1>6 DEF Refunding
  <2>2. /\ Recorded(r.pay) /\ (r.ok => intent[r.pay] = "succeeded")
        /\ r.seen \subseteq RefundsOf(r.pay) /\ Total(r.seen) + r.body <= Amount
        /\ r.status = "none" \/ r.status = RefundedStatus(Total(r.seen) + r.body)
    BY <1>1, <2>1 DEF Sure, Refunding
  <2>3. Recorded(p)' /\ RefundsOf(p)' = RefundsOf(p) /\ (r.ok => intent'[p] = "succeeded")
    BY <1>0, <1>1, <2>2 DEF Recorded, RefundsOf
  <2>4. entries = "refund"
    BY <1>5, <2>1
  <2>5. QED
    <3> HIDE DEF r
    <3>1. QED
      BY <1>0, <1>1, <1>6, <2>1, <2>2, <2>3, <2>4 DEF Refunding
<1>10. Sure(s)' /\ ~Creates(s)'
  BY <1>1, <1>6, <1>8, <1>9 DEF Sure, Creating, Creates
<1>11. QED
  BY <1>1, <1>2, <1>6, <1>10, QuietSteady

-----------------------------------------------------------------------------
(* The writers of the tables.                                              *)
LEMMA StatusSteady ==
  ASSUME Typed, Typed', Secure, NEW s \in Slots, StatusDoes(s, "failed")
  PROVE  Steady(s) /\ Books'
<1> DEFINE r == req[s]
<1>1. /\ Busy(s) /\ Sure(s) /\ UNCHANGED <<refunds, ledger, intent, rowLock>>
      /\ Returns(s) /\ DOMAIN payment' = DOMAIN payment /\ Stated /\ Books /\ Apart
  BY DEF StatusDoes, Secure, Books, gateway
<1>2. \A q : (Recorded(q)' <=> Recorded(q)) /\ RefundsOf(q)' = RefundsOf(q)
             /\ Captured(q)' = Captured(q)
  BY <1>1 DEF Recorded, RefundsOf, Captured
<1>3. IntentsKept /\ RowsLeft(s)
  BY <1>1 DEF IntentsKept, RowsLeft
<1>4. Sure(s)' /\ ~Creates(s)' /\ Others(s)
  BY <1>1, ReturnsSure
<1>5. Grows(s)
  BY <1>1, <1>2, <1>3, <1>4 DEF Grows
<1>6. Steady(s)
  BY <1>1, <1>4, <1>5, ApartKept DEF Steady
<1>7. Stated'
  <2>1. \A q \in DOMAIN payment :
          payment'[q].status = IF q = r.pay THEN "failed" ELSE payment[q].status
    BY DEF StatusDoes
  <2>2. QED
    BY <1>1, <1>2, <2>1 DEF Stated, AlreadyConfirmed
<1>8. EntriesPaid' /\ Intended' /\ Numbered'
  BY <1>1, <1>2 DEF Books, EntriesPaid, Intended, Numbered
<1>9. Balanced' /\ RefundsWithinAmount'
  BY <1>1, <1>2 DEF Books, Balanced, Adds, RefundsWithinAmount
<1>10. QED
  BY <1>6, <1>7, <1>8, <1>9 DEF Books

LEMMA CommitRecords ==
  ASSUME Typed, Typed', Secure, NEW s \in Slots, CommitDoes(s), NEW p, p = req[s].pay
  PROVE  /\ req[s].entries = "payment" => /\ req[s].op = "confirm" /\ req[s].ok
                                          /\ rowLock[p] = s /\ ~Recorded(p) /\ Recorded(p)'
                                          /\ \A q : q # p => (Recorded(q)' <=> Recorded(q))
         /\ req[s].entries # "payment" => \A q : Recorded(q)' <=> Recorded(q)
         /\ req[s].entries = "refund" => req[s].op = "refund" /\ req[s].ok
<1> DEFINE r == req[s]
<1>1. /\ Busy(s) /\ r.pc = "commit" /\ Formed(r) /\ Confirming(s) /\ Refunding(s) /\ r \in Requests
  BY AtWork DEF CommitDoes, Secure, Sure, Typed
<1>2. /\ r.entries = "payment" => r.op = "confirm" /\ r.ok /\ rowLock[r.pay] = s /\ ~Recorded(r.pay)
      /\ r.entries = "refund" => r.op = "refund" /\ r.ok
  BY <1>1 DEF Formed, Confirming, Refunding, Requests
<1>3. CASE r.entries = "none"
  BY <1>3 DEF CommitDoes, Recorded
<1>4. CASE r.entries # "none"
  <2>1. PICK b : b = Batch(r.entries, r.pay, LedgerAmount(r), IntentOf(r))
    OBVIOUS
  <2>2. b.type = r.entries /\ b.pay = p
    BY <2>1 DEF Batch
  <2>3. ledger' = ledger \cup {b}
    BY <1>4, <2>1 DEF CommitDoes
  <2>4. \A q : Recorded(q)' <=> Recorded(q) \/ (b.type = "payment" /\ b.pay = q)
    BY <2>3 DEF Recorded
  <2>5. QED
    BY <1>2, <2>2, <2>4
<1>5. QED
  BY <1>2, <1>3, <1>4

LEMMA CommitSteady ==
  ASSUME Typed, Typed', Secure, NEW s \in Slots, CommitDoes(s)
  PROVE  Steady(s) /\ IntentsKept
<1> DEFINE r == req[s]
<1>0. PICK p : p = r.pay
  OBVIOUS
<1>1. /\ Busy(s) /\ Sure(s) /\ UNCHANGED intent /\ FreeLocks(s) /\ r.pc = "commit" /\ Formed(r)
      /\ DOMAIN payment' = DOMAIN payment \cup {r.pay} /\ refunds \subseteq refunds' /\ Apart
  BY DEF CommitDoes, Secure, gateway, Typed
<1>2. IntentsKept /\ RowsLeft(s)
  BY <1>1, RowsFreed DEF IntentsKept
<1>3. /\ r.entries = "payment" => /\ r.op = "confirm" /\ r.ok /\ rowLock[p] = s
                                  /\ Recorded(p)' /\ \A q : q # p => (Recorded(q)' <=> Recorded(q))
      /\ r.entries # "payment" => \A q : Recorded(q)' <=> Recorded(q)
  BY <1>0, CommitRecords
<1>4. Sure(s)' /\ ~Creates(s)' /\ Others(s)
  <2>1. CASE r.op = "confirm" /\ r.ok
    <3>1. Moves(s, "publish")
      BY <2>1 DEF CommitDoes
    <3>2. /\ Others(s) /\ req'[s].pc = "publish" /\ req'[s].op = "confirm" /\ req'[s].pay = p
          /\ req'[s].entries = r.entries
      BY <1>0, <2>1, <3>1 DEF Moves, Work
    <3>3. r.entries # "refund" /\ (r.entries = "payment" \/ Recorded(p))
      BY <1>0, <1>1, <2>1 DEF Sure, Confirming
    <3>4. Recorded(p)'
      BY <1>3, <3>3
    <3>5. Confirming(s)'
      BY <3>2, <3>3, <3>4 DEF Confirming
    <3>6. QED
      BY <3>2, <3>5 DEF Sure, Refunding, Creating, Creates
  <2>2. CASE ~(r.op = "confirm" /\ r.ok)
    <3>1. Returns(s)
      BY <2>2 DEF CommitDoes
    <3>2. QED
      BY <1>1, <3>1, ReturnsSure
  <2>3. QED
    BY <2>1, <2>2
<1>5. \A q \in DOMAIN payment' : q \in DOMAIN payment \/ (Creates(s) /\ r.pay = q)
  BY <1>1 DEF Creates, Formed
<1>6. \A q \in PayIds : (Recorded(q) => Recorded(q)') /\ (Recorded(q)' => Recorded(q) \/ rowLock[q] = s)
  <2>1. CASE r.entries = "payment"
    BY <1>3, <2>1
  <2>2. CASE r.entries # "payment"
    BY <1>3, <2>2
  <2>3. QED
    BY <2>1, <2>2
<1>7. Grows(s)
  BY <1>1, <1>2, <1>4, <1>5, <1>6 DEF Grows
<1>8. QED
  BY <1>1, <1>2, <1>4, <1>7, ApartKept DEF Steady

LEMMA CommitRefunds ==
  ASSUME Typed, Secure, NEW s \in Slots, CommitDoes(s), req[s].op = "refund"
  PROVE  \E x \in RefundRows :
           /\ x \notin refunds /\ refunds' = refunds \cup {x}
           /\ Cardinality(refunds) \in Nat /\ Cardinality(refunds') = Cardinality(refunds) + 1
           /\ x.id = Cardinality(refunds) + 1 /\ x.pay = req[s].pay /\ x.amount = req[s].body
           /\ x.seen = {y.id : y \in req[s].seen}
           /\ x.status = IF req[s].ok THEN "succeeded" ELSE "failed"
<1>1. PICK x : x = NewRefund(req[s])
  OBVIOUS
<1>2. Busy(s) /\ IsFiniteSet(refunds) /\ Numbered /\ refunds \subseteq RefundRows
  BY DEF CommitDoes, Secure, Books, Typed, Tables
<1>3. x \in RefundRows
  BY <1>1, <1>2, NewRefundTyped
<1>4. /\ x.id = Cardinality(refunds) + 1 /\ x.pay = req[s].pay /\ x.amount = req[s].body
      /\ x.seen = {y.id : y \in req[s].seen}
      /\ x.status = IF req[s].ok THEN "succeeded" ELSE "failed"
  BY <1>1 DEF NewRefund
<1>5. Cardinality(refunds) \in Nat
  BY <1>2, FS_CardinalityType
<1>6. x \notin refunds
  BY <1>2, <1>4, <1>5 DEF Numbered
<1>7. refunds' = refunds \cup {x}
  BY <1>1 DEF CommitDoes
<1>8. Cardinality(refunds \cup {x}) = Cardinality(refunds) + 1
  BY <1>2, <1>6, FS_AddElement
<1>9. Cardinality(refunds') = Cardinality(refunds) + 1
  BY <1>7, <1>8, Zenon
<1>10. QED
  BY <1>3, <1>4, <1>5, <1>6, <1>7, <1>9

LEMMA CommitBatches ==
  ASSUME Typed, Secure, NEW s \in Slots, CommitDoes(s), req[s].entries # "none"
  PROVE  \E b \in Batches :
           /\ b \notin ledger /\ ledger' = ledger \cup {b}
           /\ Cardinality(ledger) \in Nat /\ Cardinality(ledger') = Cardinality(ledger) + 1
           /\ b.id = Cardinality(ledger) + 1 /\ b.pay = req[s].pay /\ b.type = req[s].entries
           /\ b.amount = LedgerAmount(req[s]) /\ b.of = IntentOf(req[s])
<1>1. PICK b : b = Batch(req[s].entries, req[s].pay, LedgerAmount(req[s]), IntentOf(req[s]))
  OBVIOUS
<1>2. Busy(s) /\ IsFiniteSet(ledger) /\ Numbered /\ ledger \subseteq Batches
  BY DEF CommitDoes, Secure, Books, Typed, Tables
<1>3. b \in Batches
  BY <1>1, <1>2, BatchTyped
<1>4. /\ b.id = Cardinality(ledger) + 1 /\ b.pay = req[s].pay /\ b.type = req[s].entries
      /\ b.amount = LedgerAmount(req[s]) /\ b.of = IntentOf(req[s])
  BY <1>1 DEF Batch
<1>5. Cardinality(ledger) \in Nat
  BY <1>2, FS_CardinalityType
<1>6. b \notin ledger
  BY <1>2, <1>4, <1>5 DEF Numbered
<1>7. ledger' = ledger \cup {b}
  BY <1>1 DEF CommitDoes
<1>8. Cardinality(ledger \cup {b}) = Cardinality(ledger) + 1
  BY <1>2, <1>6, FS_AddElement
<1>9. Cardinality(ledger') = Cardinality(ledger) + 1
  BY <1>7, <1>8, Zenon
<1>10. QED
  BY <1>3, <1>4, <1>5, <1>6, <1>7, <1>9

LEMMA CommitNumbered ==
  ASSUME Typed, Secure, NEW s \in Slots, CommitDoes(s)
  PROVE  Numbered'
<1>1. Numbered /\ refunds \subseteq RefundRows /\ ledger \subseteq Batches
  BY DEF Secure, Books, Typed, Tables
<1>2. /\ \A x \in refunds' : /\ x.id <= Cardinality(refunds')
                             /\ \A i \in x.seen : i <= Cardinality(refunds')
      /\ \A x, y \in refunds' : x.id = y.id => x = y
  <2>1. CASE req[s].op # "refund"
    BY <1>1, <2>1 DEF CommitDoes, Numbered
  <2>2. CASE req[s].op = "refund"
    <3>1. PICK x \in RefundRows :
            /\ x \notin refunds /\ refunds' = refunds \cup {x}
            /\ Cardinality(refunds) \in Nat /\ Cardinality(refunds') = Cardinality(refunds) + 1
            /\ x.id = Cardinality(refunds) + 1 /\ x.seen = {y.id : y \in req[s].seen}
      BY <2>2, CommitRefunds
    <3>2. req[s].seen \subseteq refunds
      BY <2>2 DEF Secure, Sure, CommitDoes, Refunding, RefundsOf
    <3>3. \A i \in x.seen : i \in Nat /\ i <= Cardinality(refunds)
      BY <1>1, <3>1, <3>2 DEF Numbered, RefundRows
    <3>4. \A y \in refunds : y.id \in Nat /\ y.id <= Cardinality(refunds)
                             /\ \A i \in y.seen : i \in Nat /\ i <= Cardinality(refunds)
      BY <1>1 DEF Numbered, RefundRows
    <3>5. PICK n \in Nat : n = Cardinality(refunds) /\ Cardinality(refunds') = n + 1
      BY <3>1
    <3>6. ASSUME NEW y \in refunds'
          PROVE  y.id <= n + 1 /\ \A i \in y.seen : i <= n + 1
      <4>1. CASE y = x
        BY <3>1, <3>3, <3>5, <4>1
      <4>2. CASE y \in refunds
        BY <3>4, <3>5, <4>2
      <4>3. QED
        BY <3>1, <4>1, <4>2
    <3>7. \A y, z \in refunds' : y.id = z.id => y = z
      <4>1. \A y \in refunds : y.id # x.id
        BY <3>1, <3>4
      <4>2. QED
        BY <1>1, <3>1, <4>1 DEF Numbered
    <3>8. QED
      BY <3>5, <3>6, <3>7
  <2>3. QED
    BY <2>1, <2>2
<1>3. \A b \in ledger' : b.id <= Cardinality(ledger')
  <2>1. CASE req[s].entries = "none"
    BY <1>1, <2>1 DEF CommitDoes, Numbered
  <2>2. CASE req[s].entries # "none"
    <3>1. PICK b \in Batches :
            /\ ledger' = ledger \cup {b}
            /\ Cardinality(ledger) \in Nat /\ Cardinality(ledger') = Cardinality(ledger) + 1
            /\ b.id = Cardinality(ledger) + 1
      BY <2>2, CommitBatches
    <3>2. QED
      BY <1>1, <3>1 DEF Numbered, Batches
  <2>3. QED
    BY <2>1, <2>2
<1>4. QED
  BY <1>2, <1>3 DEF Numbered

(* The sums of refunds after the commit.                                   *)
LEMMA CommitTotals ==
  ASSUME Typed, Typed', Secure, NEW s \in Slots, CommitDoes(s), NEW q
  PROVE  /\ Total(RefundsOf(q)) \in Nat /\ Total(RefundsOf(q)') \in Nat
         /\ Total(RefundsOf(q)) <= Total(RefundsOf(q)')
         /\ q # req[s].pay \/ req[s].op # "refund" \/ ~req[s].ok
              => Total(RefundsOf(q)') = Total(RefundsOf(q))
         /\ q = req[s].pay /\ req[s].op = "refund" /\ req[s].ok
              => Total(RefundsOf(q)') = Total(RefundsOf(q)) + req[s].body
<1>1. RefundsOf(q) \subseteq RefundRows /\ IsFiniteSet(RefundsOf(q)) /\ Total(RefundsOf(q)) \in Nat
  BY RefundsFinite
<1>2. CASE req[s].op # "refund"
  <2>1. RefundsOf(q)' = RefundsOf(q)
    BY <1>2 DEF CommitDoes, RefundsOf
  <2>2. Total(RefundsOf(q)') = Total(RefundsOf(q))
    BY <2>1, Zenon
  <2>3. QED
    BY <1>1, <1>2, <2>2
<1>3. CASE req[s].op = "refund"
  <2>1. PICK x \in RefundRows :
          /\ x \notin refunds /\ refunds' = refunds \cup {x}
          /\ x.pay = req[s].pay /\ x.amount = req[s].body
          /\ x.status = IF req[s].ok THEN "succeeded" ELSE "failed"
    BY <1>3, CommitRefunds
  <2>2. CASE q # req[s].pay
    <3>1. RefundsOf(q)' = RefundsOf(q)
      BY <2>1, <2>2 DEF RefundsOf
    <3>2. Total(RefundsOf(q)') = Total(RefundsOf(q))
      BY <3>1, Zenon
    <3>3. QED
      BY <1>1, <2>2, <3>2
  <2>3. CASE q = req[s].pay
    <3>1. RefundsOf(q)' = RefundsOf(q) \cup {x} /\ x \notin RefundsOf(q)
      BY <2>1, <2>3 DEF RefundsOf
    <3>2. Total(RefundsOf(q) \cup {x})
            = IF x.status = "succeeded" THEN Total(RefundsOf(q)) + x.amount ELSE Total(RefundsOf(q))
      BY <1>1, <3>1, TotalAdds
    <3>3. Total(RefundsOf(q)') = Total(RefundsOf(q) \cup {x})
      BY <3>1, Zenon
    <3>4. x.amount \in Nat
      BY PaymentAssumption DEF RefundRows
    <3>5. x.status = "succeeded" <=> req[s].ok
      BY <2>1
    <3>6. QED
      BY <1>1, <1>3, <2>1, <2>3, <3>2, <3>3, <3>4, <3>5
  <2>4. QED
    BY <2>2, <2>3
<1>4. QED
  BY <1>2, <1>3

LEMMA CommitBacked ==
  ASSUME Typed, Typed', Secure, NEW s \in Slots, CommitDoes(s)
  PROVE  Stated' /\ EntriesPaid' /\ Intended'
<1> DEFINE r == req[s]
<1>0. PICK p : p = r.pay
  OBVIOUS
<1>1. /\ Busy(s) /\ Confirming(s) /\ Refunding(s) /\ Creating(s) /\ UNCHANGED intent
      /\ r.pc = "commit" /\ Formed(r) /\ r \in Requests
      /\ Stated /\ EntriesPaid /\ Intended
      /\ DOMAIN payment' = DOMAIN payment \cup {p}
  BY <1>0, AtWork DEF CommitDoes, Secure, Books, Sure, gateway, Typed
<1>2. /\ r.entries = "payment" => Recorded(p)'
      /\ \A q : Recorded(q) => Recorded(q)'
  <2>1. CASE r.entries = "payment"
    <3>1. Recorded(p)' /\ \A q : q # p => (Recorded(q)' <=> Recorded(q))
      BY <1>0, <2>1, CommitRecords
    <3>2. QED
      BY <3>1
  <2>2. CASE r.entries # "payment"
    BY <1>0, <2>2, CommitRecords
  <2>3. QED
    BY <2>1, <2>2
<1>3. r.op # "create" => p \in DOMAIN payment
  BY <1>0, <1>1 DEF Formed
<1>4. Intended'
  <2>1. intent[p] # "none"
    BY <1>0, <1>1, <1>3 DEF Creating, Creates, Intended
  <2>2. QED
    BY <1>1, <2>1 DEF Intended
<1>5. EntriesPaid'
  <2>1. CASE r.entries = "none"
    <3>1. UNCHANGED ledger
      BY <2>1 DEF CommitDoes
    <3>2. QED
      BY <1>1, <3>1 DEF EntriesPaid
  <2>2. CASE r.entries # "none"
    <3>1. PICK b : ledger' = ledger \cup {b} /\ b.type = r.entries /\ b.of = IntentOf(r)
      BY <2>2, CommitBatches
    <3>2. b.type = "payment" => intent[b.of] = "succeeded"
      <4>1. r.entries = "payment" => r.op = "confirm" /\ r.ok
        BY <1>0, CommitRecords
      <4>2. QED
        BY <1>1, <3>1, <4>1 DEF Confirming
    <3>3. QED
      BY <1>1, <3>1, <3>2 DEF EntriesPaid
  <2>3. QED
    BY <2>1, <2>2
<1>6. Stated'
  <2> SUFFICES ASSUME NEW q \in DOMAIN payment'
               PROVE  /\ payment'[q].status \in AlreadyConfirmed
                           => Recorded(q)'
                      /\ payment'[q].status = "partially_refunded"
                           => Total(RefundsOf(q)') > 0 /\ intent[q] = "succeeded"
                      /\ payment'[q].status = "refunded"
                           => Total(RefundsOf(q)') >= Amount /\ intent[q] = "succeeded"
    BY <1>1 DEF Stated
  <2>1. /\ Total(RefundsOf(q)) \in Nat /\ Total(RefundsOf(q)') \in Nat
        /\ Total(RefundsOf(q)) <= Total(RefundsOf(q)')
    BY CommitTotals
  <2>2. ASSUME q \in DOMAIN payment, payment'[q].status = payment[q].status
        PROVE  /\ payment'[q].status \in AlreadyConfirmed
                    => Recorded(q)'
               /\ payment'[q].status = "partially_refunded"
                    => Total(RefundsOf(q)') > 0 /\ intent[q] = "succeeded"
               /\ payment'[q].status = "refunded"
                    => Total(RefundsOf(q)') >= Amount /\ intent[q] = "succeeded"
    <3>1. /\ payment[q].status \in AlreadyConfirmed
               => Recorded(q)
          /\ payment[q].status = "partially_refunded"
               => Total(RefundsOf(q)) > 0 /\ intent[q] = "succeeded"
          /\ payment[q].status = "refunded"
               => Total(RefundsOf(q)) >= Amount /\ intent[q] = "succeeded"
      BY <1>1, <2>2 DEF Stated
    <3>2. QED
      BY <1>2, <2>1, <2>2, <3>1, PaymentAssumption
  <2>3. CASE q # p
    <3>1. q \in DOMAIN payment /\ payment'[q] = payment[q]
      BY <1>0, <1>1, <2>3 DEF CommitDoes
    <3>2. QED
      BY <2>2, <3>1
  <2>4. CASE q = p /\ r.op = "create"
    BY <1>0, <2>4 DEF CommitDoes, AlreadyConfirmed
  <2>5. CASE q = p /\ r.op # "create" /\ r.status = "none"
    <3>1. q \in DOMAIN payment /\ payment'[q].status = payment[q].status
      BY <1>0, <1>3, <2>5 DEF CommitDoes
    <3>2. QED
      BY <2>2, <3>1
  <2>6. CASE q = p /\ r.op = "confirm" /\ r.status # "none"
    <3>1. payment'[q].status = r.status
      BY <1>0, <2>6 DEF CommitDoes
    <3>2. CASE ~r.ok
      <4>1. r.status = "failed"
        BY <1>1, <2>6, <3>2 DEF Confirming
      <4>2. QED
        BY <3>1, <4>1 DEF AlreadyConfirmed
    <3>3. CASE r.ok
      <4>1. r.status = "confirmed"
        BY <1>0, <1>1, <2>6, <3>3 DEF Confirming
      <4>2. r.entries = "payment" \/ Recorded(p)
        BY <1>0, <1>1, <2>6, <3>3 DEF Confirming
      <4>3. Recorded(p)'
        BY <1>2, <4>2
      <4>4. QED
        BY <2>6, <3>1, <4>1, <4>3
    <3>4. QED
      BY <3>2, <3>3
  <2>7. CASE q = p /\ r.op = "refund" /\ r.status # "none"
    <3>1. payment'[q].status = r.status
      BY <1>0, <2>7 DEF CommitDoes
    <3>2. /\ Recorded(p) /\ intent[p] = "succeeded" /\ r.ok
          /\ r.seen \subseteq RefundsOf(p) /\ r.status = RefundedStatus(Total(r.seen) + r.body)
      BY <1>0, <1>1, <2>7 DEF Refunding
    <3>3. Total(RefundsOf(q)') = Total(RefundsOf(q)) + r.body
      BY <1>0, <2>7, <3>2, CommitTotals
    <3>4. Total(r.seen) \in Nat /\ Total(r.seen) <= Total(RefundsOf(q))
      BY <2>7, <3>2, RefundsFinite, TotalGrows
    <3>5. r.body \in Nat \ {0}
      BY <1>1, <2>7, PaymentAssumption DEF Formed
    <3>6. r.status = "refunded" => Total(r.seen) + r.body >= Amount
      BY <3>2 DEF RefundedStatus
    <3>7. Total(RefundsOf(q)') > 0 /\ Total(RefundsOf(q)') >= Total(r.seen) + r.body
      BY <2>1, <3>3, <3>4, <3>5
    <3>8. r.status = "refunded" => Total(RefundsOf(q)') >= Amount
      BY <2>1, <3>4, <3>5, <3>6, <3>7, PaymentAssumption
    <3>9. QED
      BY <1>2, <2>7, <3>1, <3>2, <3>7, <3>8
  <2>8. QED
    BY <1>1, <2>3, <2>4, <2>5, <2>6, <2>7 DEF Requests
<1>7. QED
  BY <1>4, <1>5, <1>6

LEMMA CommitWithin ==
  ASSUME Typed, Typed', Secure, NEW s \in Slots, CommitDoes(s)
  PROVE  RefundsWithinAmount'
<1> DEFINE r == req[s]
<1>0. PICK p : p = r.pay
  OBVIOUS
<1> SUFFICES ASSUME NEW q \in DOMAIN payment'
             PROVE  \/ Total(RefundsOf(q)') <= Amount
                    \/ \E x, y \in RefundsOf(q)' :
                         x # y /\ x.id \notin y.seen /\ y.id \notin x.seen
  BY DEF RefundsWithinAmount
<1>1. RefundsOf(q) \subseteq RefundsOf(q)'
  BY DEF CommitDoes, RefundsOf
<1>2. /\ Total(RefundsOf(q)) \in Nat /\ Total(RefundsOf(q)') \in Nat
      /\ q # r.pay \/ r.op # "refund" \/ ~r.ok => Total(RefundsOf(q)') = Total(RefundsOf(q))
      /\ q = r.pay /\ r.op = "refund" /\ r.ok
           => Total(RefundsOf(q)') = Total(RefundsOf(q)) + r.body
  BY CommitTotals
<1>3. q \notin DOMAIN payment => RefundsOf(q) = {}
  BY DEF Typed, Tables, RefundsOf
<1>4. CASE q # p \/ r.op # "refund" \/ ~r.ok
  <2>1. Total(RefundsOf(q)') = Total(RefundsOf(q))
    BY <1>0, <1>2, <1>4
  <2>2. CASE q \in DOMAIN payment
    <3>1. \/ Total(RefundsOf(q)) <= Amount
          \/ \E x, y \in RefundsOf(q) : x # y /\ x.id \notin y.seen /\ y.id \notin x.seen
      BY <2>2 DEF Secure, Books, RefundsWithinAmount
    <3>2. QED
      BY <1>1, <2>1, <3>1
  <2>3. CASE q \notin DOMAIN payment
    <3>1. Total(RefundsOf(q)) = 0
      BY <1>3, <2>3, TotalEmpty
    <3>2. QED
      BY <2>1, <3>1, PaymentAssumption
  <2>4. QED
    BY <2>2, <2>3
<1>5. CASE q = p /\ r.op = "refund" /\ r.ok
  <2>1. /\ r.seen \subseteq RefundsOf(q) /\ Total(r.seen) + r.body <= Amount /\ r.body \in Nat
    BY <1>0, <1>5, PaymentAssumption DEF Secure, Sure, CommitDoes, Refunding, Typed, Formed
  <2>2. CASE RefundsOf(q) \subseteq r.seen
    <3>1. RefundsOf(q) = r.seen
      BY <2>1, <2>2
    <3>2. Total(RefundsOf(q)) = Total(r.seen)
      BY <3>1, Zenon
    <3>3. QED
      BY <1>0, <1>2, <1>5, <2>1, <3>2
  <2>3. CASE ~(RefundsOf(q) \subseteq r.seen)
    <3>1. PICK y \in RefundsOf(q) : y \notin r.seen
      BY <2>3
    <3>2. PICK x \in RefundRows :
            /\ x \notin refunds /\ refunds' = refunds \cup {x}
            /\ Cardinality(refunds) \in Nat /\ x.id = Cardinality(refunds) + 1
            /\ x.pay = r.pay /\ x.seen = {z.id : z \in r.seen}
      BY <1>5, CommitRefunds
    <3>3. y \in refunds /\ y \in RefundRows /\ Numbered /\ \A z \in r.seen : z \in refunds
      BY <2>1, <3>1 DEF RefundsOf, Typed, Tables, Secure, Books
    <3>4. y.id \notin x.seen
      BY <3>1, <3>2, <3>3 DEF Numbered
    <3>5. x.id \notin y.seen
      BY <3>2, <3>3 DEF Numbered, RefundRows
    <3>6. x \in RefundsOf(q)' /\ y \in RefundsOf(q)' /\ x # y
      BY <1>0, <1>1, <1>5, <3>1, <3>2, <3>3 DEF RefundsOf
    <3>7. QED
      BY <3>4, <3>5, <3>6
  <2>4. QED
    BY <2>2, <2>3
<1>6. QED
  BY <1>4, <1>5

-----------------------------------------------------------------------------
(* A batch adds its entries to one side of two accounts.                   *)
Entry(b, account, direction) ==
  [pay |-> b.pay, batch |-> b.id, accountCode |-> account, entryType |-> b.type,
   direction |-> direction, amount |-> b.amount]

LEMMA EntriesAre ==
  ASSUME NEW b
  PROVE  LedgerEntries(b) =
           IF b.type = "payment"
             THEN {Entry(b, "asset:gateway_clearing", "debit"),
                   Entry(b, "liability:customer_funds", "credit")}
             ELSE {Entry(b, "liability:customer_funds", "debit"),
                   Entry(b, "asset:gateway_clearing", "credit")}
BY DEF LedgerEntries, Entry

LEMMA EntryIs ==
  ASSUME NEW b, NEW x \in LedgerEntries(b)
  PROVE  x = Entry(b, x.accountCode, x.direction) /\ x.pay = b.pay /\ x.batch = b.id
<1>1. \E a, d : x = Entry(b, a, d)
  BY EntriesAre
<1>2. QED
  BY <1>1 DEF Entry

LEMMA SideMissed ==
  ASSUME NEW L, NEW b, NEW q, NEW account, NEW direction,
         b.pay # q \/ Entry(b, account, direction) \notin LedgerEntries(b)
  PROVE  EntriesOf(L \cup {b}, q, account, direction) = EntriesOf(L, q, account, direction)
<1>1. \A x \in LedgerEntries(b) :
        ~(x.pay = q /\ x.accountCode = account /\ x.direction = direction)
  BY EntryIs
<1>2. QED
  BY <1>1 DEF EntriesOf

LEMMA AddsHit ==
  ASSUME NEW b, NEW q, NEW account, NEW direction, NEW n, Adds(q, account, direction, n),
         ledger' = ledger \cup {b}, b.amount \in Nat, b.pay = q, \A c \in ledger : c.id # b.id,
         Entry(b, account, direction) \in LedgerEntries(b)
  PROVE  Adds(q, account, direction, n + b.amount)'
<1>1. PICK e : e = Entry(b, account, direction)
  OBVIOUS
<1>2. /\ e.pay = q /\ e.accountCode = account /\ e.direction = direction
      /\ e.amount = b.amount /\ e.batch = b.id /\ e \in LedgerEntries(b)
  BY <1>1 DEF Entry
<1>3. e \notin EntriesOf(ledger, q, account, direction)
  BY <1>2, EntryIs DEF EntriesOf
<1>4. EntriesOf(ledger', q, account, direction)
        = EntriesOf(ledger, q, account, direction) \cup {e}
  <2>1. \A x \in LedgerEntries(b) : x.accountCode = account /\ x.direction = direction => x = e
    BY <1>1, EntryIs
  <2>2. QED
    BY <1>2, <2>1 DEF EntriesOf
<1> DEFINE S == EntriesOf(ledger, q, account, direction)
<1>5. Priced(S \cup {e}) /\ AmountsIn(S \cup {e}) = AmountsIn(S) + e.amount
  <2>1. Priced(S) /\ e \notin S /\ e.amount \in Nat
    BY <1>2, <1>3 DEF Adds
  <2> HIDE DEF S
  <2>2. QED
    BY <2>1, AmountsAdd
<1>6. QED
  <2>1. AmountsIn(S) = n /\ e.amount = b.amount
    BY <1>2 DEF Adds
  <2> HIDE DEF S
  <2>2. EntriesOf(ledger', q, account, direction) = S \cup {e}
    BY <1>4 DEF S
  <2>3. QED
    BY <1>5, <2>1, <2>2, Zenon DEF Adds

LEMMA AddsMissed ==
  ASSUME NEW b, NEW q, NEW account, NEW direction, NEW n, Adds(q, account, direction, n),
         ledger' = ledger \cup {b},
         b.pay # q \/ Entry(b, account, direction) \notin LedgerEntries(b)
  PROVE  Adds(q, account, direction, n)'
<1>1. EntriesOf(ledger \cup {b}, q, account, direction) = EntriesOf(ledger, q, account, direction)
  BY SideMissed
<1>2. EntriesOf(ledger', q, account, direction) = EntriesOf(ledger \cup {b}, q, account, direction)
  BY Zenon
<1>3. QED
  BY <1>1, <1>2, Zenon DEF Adds

LEMMA EntriesDiffer ==
  ASSUME NEW b, b.type \in {"payment", "refund"}
  PROVE  /\ b.type = "payment" =>
              /\ Entry(b, "asset:gateway_clearing", "debit") \in LedgerEntries(b)
              /\ Entry(b, "liability:customer_funds", "credit") \in LedgerEntries(b)
              /\ Entry(b, "liability:customer_funds", "debit") \notin LedgerEntries(b)
              /\ Entry(b, "asset:gateway_clearing", "credit") \notin LedgerEntries(b)
         /\ b.type = "refund" =>
              /\ Entry(b, "asset:gateway_clearing", "debit") \notin LedgerEntries(b)
              /\ Entry(b, "liability:customer_funds", "credit") \notin LedgerEntries(b)
              /\ Entry(b, "liability:customer_funds", "debit") \in LedgerEntries(b)
              /\ Entry(b, "asset:gateway_clearing", "credit") \in LedgerEntries(b)
<1>1. /\ Entry(b, "asset:gateway_clearing", "debit") # Entry(b, "liability:customer_funds", "debit")
      /\ Entry(b, "asset:gateway_clearing", "debit") # Entry(b, "asset:gateway_clearing", "credit")
      /\ Entry(b, "liability:customer_funds", "credit") # Entry(b, "liability:customer_funds", "debit")
      /\ Entry(b, "liability:customer_funds", "credit") # Entry(b, "asset:gateway_clearing", "credit")
  BY DEF Entry
<1>2. QED
  BY <1>1, EntriesAre

LEMMA CommitBalanced ==
  ASSUME Typed, Typed', Secure, NEW s \in Slots, CommitDoes(s)
  PROVE  Balanced'
<1> DEFINE r == req[s]
<1>0. PICK p : p = r.pay
  OBVIOUS
<1> SUFFICES ASSUME NEW q \in PayIds
             PROVE  /\ Adds(q, "asset:gateway_clearing", "debit", Captured(q))'
                    /\ Adds(q, "liability:customer_funds", "credit", Captured(q))'
                    /\ Adds(q, "liability:customer_funds", "debit", Total(RefundsOf(q)))'
                    /\ Adds(q, "asset:gateway_clearing", "credit", Total(RefundsOf(q)))'
  BY DEF Balanced
<1>1. PICK captured, refunded, captured2, refunded2 :
        /\ captured = Captured(q) /\ refunded = Total(RefundsOf(q))
        /\ captured2 = Captured(q)' /\ refunded2 = Total(RefundsOf(q)')
  OBVIOUS
<1>2. SUFFICES /\ Adds(q, "asset:gateway_clearing", "debit", captured2)'
               /\ Adds(q, "liability:customer_funds", "credit", captured2)'
               /\ Adds(q, "liability:customer_funds", "debit", refunded2)'
               /\ Adds(q, "asset:gateway_clearing", "credit", refunded2)'
  BY <1>1, Zenon DEF Adds
<1>3. /\ Adds(q, "asset:gateway_clearing", "debit", captured)
      /\ Adds(q, "liability:customer_funds", "credit", captured)
      /\ Adds(q, "liability:customer_funds", "debit", refunded)
      /\ Adds(q, "asset:gateway_clearing", "credit", refunded)
  BY <1>1 DEF Secure, Books, Balanced
<1>4. /\ q # p \/ r.op # "refund" \/ ~r.ok => refunded2 = refunded
      /\ q = p /\ r.op = "refund" /\ r.ok => refunded2 = refunded + r.body
  BY <1>0, <1>1, CommitTotals
<1>5. /\ r.entries = "payment" => /\ r.op = "confirm" /\ ~Recorded(p) /\ Recorded(p)'
                                  /\ \A x : x # p => (Recorded(x)' <=> Recorded(x))
      /\ r.entries # "payment" => \A x : Recorded(x)' <=> Recorded(x)
      /\ r.entries = "refund" => r.op = "refund" /\ r.ok
  BY <1>0, CommitRecords
<1>6. /\ Busy(s) /\ r \in Requests /\ r.pc = "commit"
      /\ r.op = "refund" => r.entries = IF r.ok THEN "refund" ELSE "none"
  BY AtWork DEF CommitDoes, Typed, Secure, Sure, Refunding
<1>7. CASE r.entries = "none"
  <2>1. ledger' = ledger
    BY <1>7 DEF CommitDoes
  <2>2. captured2 = captured
    BY <1>1, <1>5, <1>7 DEF Captured
  <2>3. refunded2 = refunded
    BY <1>4, <1>6, <1>7
  <2>4. QED
    BY <1>3, <2>1, <2>2, <2>3 DEF Adds
<1>8. CASE r.entries # "none"
  <2>1. PICK b \in Batches :
          /\ b \notin ledger /\ ledger' = ledger \cup {b}
          /\ Cardinality(ledger) \in Nat /\ b.id = Cardinality(ledger) + 1
          /\ b.pay = p /\ b.type = r.entries /\ b.amount = LedgerAmount(r)
    BY <1>0, <1>8, CommitBatches
  <2>2. \A c \in ledger : c.id # b.id
    BY <2>1 DEF Typed, Tables, Batches, Secure, Books, Numbered
  <2>3. b.amount \in Nat /\ b.type \in {"payment", "refund"}
    BY DEF Batches
  <2>4. CASE q # p
    <3>1. captured2 = captured /\ refunded2 = refunded
      <4>1. Recorded(q)' <=> Recorded(q)
        BY <1>5, <2>4
      <4>2. QED
        BY <1>1, <1>4, <2>4, <4>1 DEF Captured
    <3>2. QED
      BY <1>3, <2>1, <2>4, <3>1, AddsMissed
  <2>5. CASE q = p /\ r.entries = "payment"
    <3>1. r.op = "confirm" /\ ~Recorded(q) /\ Recorded(q)'
      BY <1>5, <2>5
    <3>2. captured = 0 /\ captured2 = Amount /\ refunded2 = refunded
      BY <1>1, <1>4, <3>1 DEF Captured
    <3>3. b.amount = Amount
      BY <2>1, <3>1 DEF LedgerAmount
    <3>4. /\ Adds(q, "asset:gateway_clearing", "debit", captured + b.amount)'
          /\ Adds(q, "liability:customer_funds", "credit", captured + b.amount)'
      BY <1>3, <2>1, <2>2, <2>3, <2>5, EntriesDiffer, AddsHit
    <3>5. /\ Adds(q, "liability:customer_funds", "debit", refunded)'
          /\ Adds(q, "asset:gateway_clearing", "credit", refunded)'
      BY <1>3, <2>1, <2>3, <2>5, EntriesDiffer, AddsMissed
    <3>6. captured + b.amount = captured2
      BY <3>2, <3>3, PaymentAssumption
    <3>7. QED
      BY <3>2, <3>4, <3>5, <3>6
  <2>6. CASE q = p /\ r.entries # "payment"
    <3>1. r.entries = "refund" /\ r.op = "refund" /\ r.ok
      BY <1>5, <1>6, <1>8, <2>6 DEF Requests
    <3>2. captured2 = captured
      BY <1>1, <1>5, <3>1 DEF Captured
    <3>3. refunded2 = refunded + b.amount
      BY <1>4, <2>1, <2>6, <3>1 DEF LedgerAmount
    <3>4. /\ Adds(q, "liability:customer_funds", "debit", refunded + b.amount)'
          /\ Adds(q, "asset:gateway_clearing", "credit", refunded + b.amount)'
      BY <1>3, <2>1, <2>2, <2>3, <2>6, <3>1, EntriesDiffer, AddsHit
    <3>5. /\ Adds(q, "asset:gateway_clearing", "debit", captured)'
          /\ Adds(q, "liability:customer_funds", "credit", captured)'
      BY <1>3, <2>1, <2>3, <2>6, <3>1, EntriesDiffer, AddsMissed
    <3>6. QED
      BY <3>2, <3>3, <3>4, <3>5
  <2>7. QED
    BY <2>4, <2>5, <2>6
<1>9. QED
  BY <1>7, <1>8

LEMMA CommitBooks ==
  ASSUME Typed, Typed', Secure, NEW s \in Slots, CommitDoes(s)
  PROVE  Steady(s) /\ Books'
BY CommitSteady, CommitNumbered, CommitBacked, CommitWithin, CommitBalanced DEF Books

LEMMA SlotSecure ==
  ASSUME Typed, Typed', Secure, NEW s \in Slots, SlotDoes(s)
  PROVE  Secure'
<1>1. ASSUME Steady(s), IntentsKept, UNCHANGED <<payment, refunds, ledger>> PROVE Secure'
  <2>1. Books'
    BY <1>1, QuietBooks DEF Secure
  <2>2. QED
    BY <1>1, <2>1, SteadySecure
<1>2. ASSUME Steady(s), Books' PROVE Secure'
  BY <1>2, SteadySecure
<1>3. UNCHANGED intent => IntentsKept
  BY DEF IntentsKept
<1>4. UNCHANGED tables => UNCHANGED <<payment, refunds, ledger>>
  BY DEF tables
<1>5. UNCHANGED gateway => UNCHANGED intent
  BY DEF gateway
<1>6. ASSUME Busy(s), Returns(s) \/ Ends(s), UNCHANGED <<payment, refunds, ledger>>,
             RowsLeft(s), IntentsKept
      PROVE  Secure'
  <2>1. Sure(s)' /\ ~Creates(s)' /\ Others(s)
    BY <1>6, ReturnsSure DEF Secure
  <2>2. QED
    BY <1>1, <1>6, <2>1, QuietSteady
<1>7. UNCHANGED rowLock => RowsLeft(s)
  BY DEF RowsLeft
<1>8. CASE ClaimDoes(s)
  BY <1>1, <1>3, <1>4, <1>5, <1>8, ClaimSteady DEF ClaimDoes
<1>9. CASE ReadForConfirmDoes(s)
  BY <1>1, <1>3, <1>4, <1>5, <1>9, ReadForConfirmSteady DEF ReadForConfirmDoes
<1>10. CASE ReadForRefundDoes(s)
  BY <1>1, <1>3, <1>4, <1>5, <1>10, ReadForRefundSteady DEF ReadForRefundDoes
<1>11. CASE CallCreateDoes(s)
  BY <1>1, <1>4, <1>11, CallCreateSteady DEF CallCreateDoes
<1>12. CASE ThrowDoes(s) /\ UNCHANGED intent
  BY <1>1, <1>3, <1>4, <1>12, ThrowSteady DEF ThrowDoes
<1>13. CASE CallCaptureDoes(s)
  BY <1>1, <1>4, <1>13, CallCaptureSteady DEF CallCaptureDoes
<1>14. CASE CallRefundDoes(s)
  BY <1>1, <1>4, <1>14, CallRefundSteady DEF CallRefundDoes
<1>15. CASE SavePaymentDoes(s)
  BY <1>1, <1>4, <1>15, SavePaymentSteady DEF SavePaymentDoes
<1>16. CASE WriteLedgerDoes(s)
  BY <1>1, <1>4, <1>16, WriteLedgerSteady DEF WriteLedgerDoes
<1>17. CASE CommitDoes(s)
  BY <1>2, <1>17, CommitBooks
<1>18. CASE PublishDoes(s)
  BY <1>3, <1>4, <1>5, <1>6, <1>7, <1>18 DEF PublishDoes
<1>19. CASE PublishFailsDoes(s)
  <2>1. Busy(s) /\ Moves(s, "fail") /\ UNCHANGED <<payment, refunds, ledger>> /\ IntentsKept
        /\ RowsLeft(s) /\ Others(s) /\ Sure(s)
    BY <1>3, <1>4, <1>5, <1>7, <1>19 DEF PublishFailsDoes, Moves, Work, Secure
  <2>2. Sure(s)' /\ ~Creates(s)'
    BY <2>1, MovesSure
  <2>3. QED
    BY <1>1, <2>1, <2>2, QuietSteady
<1>20. CASE CrashDoes(s)
  <2>1. RowsLeft(s)
    BY <1>20, RowsFreed DEF CrashDoes
  <2>2. QED
    BY <1>3, <1>4, <1>5, <1>6, <1>20, <2>1 DEF CrashDoes
<1>21. CASE MarkIdempotencyAsFailedDoes(s)
  BY <1>3, <1>5, <1>6, <1>7, <1>21 DEF MarkIdempotencyAsFailedDoes
<1>22. CASE req[s].pc = "mark" /\ StatusDoes(s, "failed")
  BY <1>2, <1>22, StatusSteady
<1>23. CASE WebhookProcessedDoes(s)
  BY <1>3, <1>4, <1>6, <1>7, <1>23 DEF WebhookProcessedDoes
<1>24. CASE BeginsDoes(s)
  <2>1. /\ UNCHANGED <<payment, refunds, ledger>> /\ IntentsKept /\ RowsLeft(s) /\ Others(s)
        /\ req'[s].pc \in {"claim", "mark"} /\ req'[s].entries = "none"
    BY <1>3, <1>4, <1>7, <1>24 DEF BeginsDoes
  <2>2. Sure(s)' /\ ~Creates(s)'
    BY <2>1 DEF Sure, Confirming, Refunding, Creating, Creates
  <2>3. QED
    BY <1>1, <2>1, <2>2, QuietSteady
<1>25. CASE UNCHANGED <<tables, req, rowLock, keyLock, intent, events, sent, env>>
  <2>1. /\ UNCHANGED <<payment, refunds, ledger>> /\ IntentsKept /\ RowsLeft(s) /\ Others(s)
    BY <1>3, <1>4, <1>7, <1>25 DEF Others
  <2>2. Grows(s) /\ Apart'
    BY <1>25, <2>1, QuietGrows, ApartKept DEF Secure, Creates
  <2>3. Sure(s)'
    BY <1>25, <2>1 DEF Secure, Sure, Busy, Confirming, Refunding, Creating, Creates,
                       Recorded, RefundsOf
  <2>4. QED
    BY <1>1, <2>1, <2>2, <2>3 DEF Steady
<1>26. QED
  BY <1>8, <1>9, <1>10, <1>11, <1>12, <1>13, <1>14, <1>15, <1>16, <1>17, <1>18, <1>19, <1>20,
     <1>21, <1>22, <1>23, <1>24, <1>25 DEF SlotDoes, HandleWebhookDoes

LEMMA NextSecure ==
  ASSUME Typed, Secure, [Next]_vars
  PROVE  Secure'
<1>1. Typed'
  BY NextEffect
<1>2. ASSUME NEW s \in Slots, SlotDoes(s) PROVE Secure'
  BY <1>1, <1>2, SlotSecure
<1>3. CASE CustomerDoes \/ UNCHANGED vars
  <2>1. UNCHANGED <<payment, refunds, ledger, req, rowLock>> /\ IntentsKept
    <3>1. CASE UNCHANGED vars
      BY <3>1 DEF vars, tables, gateway, IntentsKept
    <3>2. CASE CustomerDoes
      <4>1. PICK p \in PayIds, status \in IntentStatus \ {"none"} :
              /\ intent[p] = "requires_payment_method"
              /\ intent' = [intent EXCEPT ![p] = status]
        BY <3>2 DEF CustomerDoes
      <4>2. intent \in [Intents -> IntentStatus]
        BY DEF Typed, Outside
      <4>3. IntentsKept
        BY <4>1, <4>2 DEF IntentsKept, Intents
      <4>4. QED
        BY <3>2, <4>3 DEF CustomerDoes, tables
    <3>3. QED
      BY <1>3, <3>1, <3>2
  <2>2. Books'
    BY <2>1, QuietBooks DEF Secure
  <2>3. Apart'
    BY <2>1 DEF Secure, Apart, Creates
  <2>4. ASSUME NEW t \in Slots PROVE Sure(t)'
    <3> SUFFICES ASSUME Busy(t)'
                 PROVE  Confirming(t)' /\ Refunding(t)' /\ Creating(t)'
      BY DEF Sure
    <3>1. /\ req'[t] = req[t] /\ Confirming(t) /\ Refunding(t) /\ Creating(t)
          /\ Formed(req[t]) /\ Tables /\ DOMAIN payment' = DOMAIN payment
      BY <2>1 DEF Secure, Sure, Busy, Typed
    <3>2. req[t].op # "create" => req[t].pay \in PayIds /\ IntentOf(req[t]) \in Intents
      BY <3>1, IntentIs
    <3>3. \A p : (Recorded(p)' <=> Recorded(p)) /\ RefundsOf(p)' = RefundsOf(p)
      BY <2>1 DEF Recorded, RefundsOf
    <3>4. Confirming(t)'
      BY <2>1, <3>1, <3>2, <3>3 DEF Confirming, IntentsKept
    <3>5. Refunding(t)'
      BY <2>1, <3>1, <3>2, <3>3 DEF Refunding, IntentsKept, Intents
    <3>6. Creating(t)'
      BY <2>1, <3>1 DEF Creating, Creates, Formed, IntentsKept, Intents
    <3>7. QED
      BY <3>4, <3>5, <3>6
  <2>5. QED
    BY <2>2, <2>3, <2>4 DEF Secure
<1>4. QED
  BY <1>2, <1>3, NextEffect

LEMMA InitSecure ==
  ASSUME Init
  PROVE  Secure
<1>1. DOMAIN payment = {} /\ refunds = {} /\ ledger = {} /\ \A s \in Slots : req[s].pc = "idle"
  BY DEF Init, Idle
<1>2. \A p : ~Recorded(p) /\ RefundsOf(p) = {} /\ Captured(p) = 0
  BY <1>1 DEF Recorded, RefundsOf, Captured
<1>3. Apart /\ \A s \in Slots : Sure(s)
  BY <1>1 DEF Apart, Creates, Sure, Busy
<1>4. Stated /\ EntriesPaid /\ Intended /\ Numbered /\ RefundsWithinAmount
  BY <1>1 DEF Stated, EntriesPaid, Intended, Numbered, RefundsWithinAmount
<1>5. Balanced
  <2>1. \A p, a, d : EntriesOf(ledger, p, a, d) = {}
    BY <1>1 DEF EntriesOf
  <2>2. Priced({}) /\ AmountsIn({}) = 0
    BY FS_EmptySet, AmountsEmpty DEF Priced
  <2>3. \A p, a, d : Adds(p, a, d, 0)
    BY <2>1, <2>2, Zenon DEF Adds
  <2>4. \A p : Total(RefundsOf(p)) = 0
    BY <1>2, TotalEmpty, Zenon
  <2>5. QED
    BY <1>2, <2>3, <2>4 DEF Balanced
<1>6. QED
  BY <1>3, <1>4, <1>5 DEF Secure, Books

LEMMA SecureInvariant == Spec => [](Typed /\ Secure)
<1>1. Init => Secure
  BY InitSecure
<1>2. Typed /\ Secure /\ [Next]_vars => Secure'
  BY NextSecure
<1>3. QED
  BY <1>1, <1>2, TypedInvariant, PTL DEF Spec

(* A payment that is confirmed or refunded has journal entries that name   *)
(* an intent which was paid, one that is refunded was paid itself and has  *)
(* refunds to that amount, although save(payment) and markPaymentFailedBy- *)
(* GatewayId write statuses worked out from old reads, and whichever       *)
(* payment intent a client names to confirmPaymentIntent.                  *)
THEOREM StatusHasMoney == Spec => []StatusBacked
<1>1. Secure => StatusBacked
  BY DEF Secure, Books, Stated, EntriesPaid, StatusBacked, Recorded
<1>2. QED
  BY <1>1, SecureInvariant, PTL

(* createRefund refunds more than the amount only where two refunds of the *)
(* payment overlapped, neither of which counted the other.                 *)
THEOREM OverRefundNeedsOverlap == Spec => []RefundsWithinAmount
<1>1. Secure => RefundsWithinAmount
  BY DEF Secure, Books
<1>2. QED
  BY <1>1, SecureInvariant, PTL

(* createPaymentLedgerEntries and createRefundLedgerEntries keep the       *)
(* journal in agreement with the tables: a capture is entered once, under  *)
(* the lock of the payment's row, and a refund as often as it went through.*)
THEOREM JournalAgrees == Spec => []LedgerAgrees
<1>1. Typed /\ Secure => LedgerAgrees
  <2> SUFFICES ASSUME Typed, Secure, NEW p \in DOMAIN payment
               PROVE  LET captured == IF Recorded(p) THEN Amount ELSE 0
                          refunded == Total(RefundsOf(p))
                      IN /\ Sum(p, "asset:gateway_clearing", "debit") = captured
                         /\ Sum(p, "liability:customer_funds", "credit") = captured
                         /\ Sum(p, "liability:customer_funds", "debit") = refunded
                         /\ Sum(p, "asset:gateway_clearing", "credit") = refunded
    BY DEF LedgerAgrees
  <2>1. \A a, d : Sum(p, a, d) = AmountsIn(EntriesOf(ledger, p, a, d))
    BY DEF Sum, AmountsIn, EntriesOf
  <2>2. /\ Adds(p, "asset:gateway_clearing", "debit", Captured(p))
        /\ Adds(p, "liability:customer_funds", "credit", Captured(p))
        /\ Adds(p, "liability:customer_funds", "debit", Total(RefundsOf(p)))
        /\ Adds(p, "asset:gateway_clearing", "credit", Total(RefundsOf(p)))
    BY DEF Typed, Tables, Secure, Books, Balanced
  <2>3. QED
    BY <2>1, <2>2 DEF Adds, Captured
<1>2. QED
  BY <1>1, SecureInvariant, PTL

-----------------------------------------------------------------------------
(* The notices: a payment that is recorded was announced, is about to be,  *)
(* or a crash or the broker has come between.                              *)
Lost == env.kinds \cap {"crash", "broker"} # {}
Publishing(p) == \E s \in Slots : req[s].pc = "publish" /\ req[s].pay = p
Told ==
  \A p \in PayIds :
    /\ sent[p] > 0 => Recorded(p)
    /\ Recorded(p) /\ payment[p].ref /\ sent[p] = 0 => Publishing(p) \/ Lost

LEMMA RecordedStored ==
  ASSUME Typed, NEW p, Recorded(p)
  PROVE  p \in DOMAIN payment
BY DEF Typed, Tables, Recorded

LEMMA ToldKept ==
  ASSUME Typed, Told, NEW s \in Slots, Others(s), req[s].pc # "publish" \/ Lost',
         env.kinds \subseteq env'.kinds, UNCHANGED <<ledger, sent>>,
         \A p \in DOMAIN payment : payment'[p].ref = payment[p].ref
  PROVE  Told'
<1> SUFFICES ASSUME NEW p \in PayIds
             PROVE  /\ sent[p] > 0 => Recorded(p)'
                    /\ Recorded(p)' /\ payment'[p].ref /\ sent[p] = 0 => Publishing(p)' \/ Lost'
  BY DEF Told
<1>1. Recorded(p)' <=> Recorded(p)
  BY DEF Recorded
<1>2. Lost => Lost'
  BY DEF Lost
<1>3. Publishing(p) => Publishing(p)' \/ Lost'
  BY DEF Publishing, Others
<1>4. Recorded(p) => payment'[p].ref = payment[p].ref
  BY RecordedStored
<1>5. QED
  BY <1>1, <1>2, <1>3, <1>4 DEF Told

LEMMA CommitTold ==
  ASSUME Typed, Typed', Secure, Told, NEW s \in Slots, CommitDoes(s)
  PROVE  Told'
<1> DEFINE r == req[s]
<1>0. PICK p : p = r.pay
  OBVIOUS
<1>1. Steady(s) /\ Others(s) /\ UNCHANGED <<sent, env>> /\ r.pc = "commit" /\ Busy(s)
  BY CommitSteady DEF Steady, Grows, CommitDoes
<1>2. /\ r.entries = "payment" => /\ r.op = "confirm" /\ r.ok /\ Recorded(p)'
                                  /\ \A q : q # p => (Recorded(q)' <=> Recorded(q))
      /\ r.entries # "payment" => \A q : Recorded(q)' <=> Recorded(q)
  BY <1>0, CommitRecords
<1> SUFFICES ASSUME NEW q \in PayIds
             PROVE  /\ sent[q] > 0 => Recorded(q)'
                    /\ Recorded(q)' /\ payment'[q].ref /\ sent[q] = 0 => Publishing(q)' \/ Lost
  BY <1>1 DEF Told, Lost
<1>3. Recorded(q) => Recorded(q)'
  BY <1>2
<1>4. CASE q = p /\ r.entries = "payment"
  <2>1. Moves(s, "publish")
    BY <1>2, <1>4 DEF CommitDoes
  <2>2. Publishing(q)'
    BY <1>0, <1>4, <2>1 DEF Moves, Work, Publishing
  <2>3. QED
    BY <1>2, <1>4, <2>2
<1>5. CASE ~(q = p /\ r.entries = "payment")
  <2>1. Recorded(q)' => Recorded(q)
    BY <1>2, <1>5
  <2>2. Recorded(q) => payment'[q].ref = payment[q].ref
    <3>1. SUFFICES ASSUME Recorded(q) PROVE payment'[q].ref = payment[q].ref
      OBVIOUS
    <3>2. q \in DOMAIN payment
      BY <3>1, RecordedStored
    <3>3. q = r.pay => r.op # "create"
      BY <1>1, <3>2 DEF Secure, Sure, Creating, Creates
    <3>4. QED
      BY <3>2, <3>3 DEF CommitDoes
  <2>3. Publishing(q) => Publishing(q)'
    BY <1>1 DEF Publishing, Others
  <2>4. QED
    BY <1>3, <2>1, <2>2, <2>3 DEF Told
<1>6. QED
  BY <1>4, <1>5

LEMMA PublishTold ==
  ASSUME Typed, Typed', Secure, Told, NEW s \in Slots, PublishDoes(s)
  PROVE  Told'
<1>0. PICK p : p = req[s].pay
  OBVIOUS
<1>1. /\ Busy(s) /\ req[s].pc = "publish" /\ Formed(req[s]) /\ UNCHANGED <<payment, ledger, env>>
      /\ sent' = [sent EXCEPT ![p] = IF payment[p].ref THEN sent[p] + 1 ELSE sent[p]]
      /\ sent \in [PayIds -> Nat] /\ p \in DOMAIN payment
  BY <1>0 DEF PublishDoes, Typed, Outside, tables
<1>2. Others(s)
  BY DEF PublishDoes, Returns, Ends, Moves, Work
<1>3. Recorded(p)
  BY <1>0, <1>1 DEF Secure, Sure, Confirming, Formed
<1> SUFFICES ASSUME NEW q \in PayIds
             PROVE  /\ sent'[q] > 0 => Recorded(q)
                    /\ Recorded(q) /\ payment[q].ref /\ sent'[q] = 0 => Publishing(q)' \/ Lost
  BY <1>1 DEF Told, Lost, Recorded
<1>4. CASE q = p
  BY <1>1, <1>3, <1>4 DEF Told
<1>5. CASE q # p
  <2>1. sent'[q] = sent[q]
    BY <1>1, <1>5
  <2>2. Publishing(q) => Publishing(q)'
    BY <1>0, <1>2, <1>5 DEF Publishing, Others
  <2>3. QED
    BY <2>1, <2>2 DEF Told
<1>6. QED
  BY <1>4, <1>5

LEMMA SlotTold ==
  ASSUME Typed, Typed', Secure, Told, NEW s \in Slots, SlotDoes(s)
  PROVE  Told'
<1>1. ASSUME Others(s), req[s].pc # "publish" \/ Lost', env.kinds \subseteq env'.kinds,
             UNCHANGED <<tables, sent>>
      PROVE  Told'
  BY <1>1, ToldKept DEF tables
<1>2. UNCHANGED env => env.kinds \subseteq env'.kinds
  OBVIOUS
<1>3. \A pc : Moves(s, pc) => Others(s)
  BY DEF Moves, Work
<1>4. Returns(s) \/ Ends(s) => Others(s)
  BY DEF Returns, Ends, Moves, Work
<1>5. CASE ClaimDoes(s)
  BY <1>1, <1>2, <1>3, <1>4, <1>5 DEF ClaimDoes
<1>6. CASE ThrowDoes(s)
  BY <1>1, <1>3, <1>6 DEF ThrowDoes, InTransaction
<1>7. CASE ReadForConfirmDoes(s)
  BY <1>1, <1>2, <1>3, <1>7 DEF ReadForConfirmDoes
<1>8. CASE ReadForRefundDoes(s) /\ ~ThrowDoes(s)
  BY <1>1, <1>2, <1>8 DEF ReadForRefundDoes, Work
<1>9. CASE CallCreateDoes(s) /\ ~ThrowDoes(s)
  BY <1>1, <1>2, <1>9 DEF CallCreateDoes, Work
<1>10. CASE CallCaptureDoes(s)
  BY <1>1, <1>10 DEF CallCaptureDoes, Work
<1>11. CASE CallRefundDoes(s)
  BY <1>1, <1>11 DEF CallRefundDoes, Moves, Work
<1>12. CASE SavePaymentDoes(s)
  BY <1>1, <1>2, <1>12 DEF SavePaymentDoes, Moves, Work
<1>13. CASE WriteLedgerDoes(s)
  BY <1>1, <1>2, <1>13 DEF WriteLedgerDoes, Work
<1>14. CASE CommitDoes(s)
  BY <1>14, CommitTold
<1>15. CASE PublishDoes(s)
  BY <1>15, PublishTold
<1>16. CASE PublishFailsDoes(s)
  BY <1>1, <1>3, <1>16 DEF PublishFailsDoes, Lost
<1>17. CASE CrashDoes(s)
  BY <1>1, <1>4, <1>17 DEF CrashDoes, Lost
<1>18. CASE MarkIdempotencyAsFailedDoes(s)
  <2>1. /\ Others(s) /\ req[s].pc # "publish" /\ env.kinds \subseteq env'.kinds
        /\ UNCHANGED <<payment, ledger, sent>>
    BY <1>4, <1>18 DEF MarkIdempotencyAsFailedDoes
  <2>2. QED
    BY <2>1, ToldKept
<1>19. CASE req[s].pc = "mark" /\ StatusDoes(s, "failed")
  <2>1. /\ Others(s) /\ req[s].pc # "publish" /\ env.kinds \subseteq env'.kinds
        /\ UNCHANGED <<ledger, sent>>
        /\ \A p \in DOMAIN payment : payment'[p].ref = payment[p].ref
    BY <1>2, <1>4, <1>19 DEF StatusDoes
  <2>2. QED
    BY <2>1, ToldKept
<1>20. CASE WebhookProcessedDoes(s)
  BY <1>1, <1>2, <1>4, <1>20 DEF WebhookProcessedDoes
<1>21. CASE BeginsDoes(s)
  BY <1>1, <1>21 DEF BeginsDoes, Busy
<1>22. CASE UNCHANGED <<tables, req, rowLock, keyLock, intent, events, sent, env>>
  BY <1>22 DEF tables, Told, Recorded, Publishing, Lost
<1>23. QED
  BY <1>5, <1>6, <1>7, <1>8, <1>9, <1>10, <1>11, <1>12, <1>13, <1>14, <1>15, <1>16, <1>17,
     <1>18, <1>19, <1>20, <1>21, <1>22 DEF SlotDoes, HandleWebhookDoes

(* payment.completed goes out for recorded payments only, and a recorded   *)
(* payment with a booking reference misses it only after a crash or a      *)
(* failed publish: publishPaymentCompletedEvent follows the commit.        *)
THEOREM NoticeFollowsRecord == Spec => []NoticeLostOnlyByFault
<1>1. Typed /\ Told => NoticeLostOnlyByFault
  <2>1. Typed => DOMAIN payment \subseteq PayIds
    BY DEF Typed, Tables
  <2>2. QED
    BY <2>1 DEF Told, Publishing, Lost, NoticeLostOnlyByFault
<1>2. Init => Told
  BY DEF Init, Told, Recorded
<1>3. Typed /\ Secure /\ Told /\ [Next]_vars => Told'
  <2> SUFFICES ASSUME Typed, Secure, Told, [Next]_vars PROVE Told'
    OBVIOUS
  <2>1. Typed' /\ ((\E s \in Slots : SlotDoes(s)) \/ CustomerDoes \/ UNCHANGED vars)
    BY NextEffect
  <2>2. CASE \E s \in Slots : SlotDoes(s)
    BY <2>1, <2>2, SlotTold
  <2>3. CASE CustomerDoes \/ UNCHANGED vars
    <3>1. UNCHANGED <<payment, ledger, req, sent, env>>
      BY <2>3 DEF CustomerDoes, vars, tables
    <3>2. QED
      BY <3>1 DEF Told, Recorded, Publishing, Lost
  <2>4. QED
    BY <2>1, <2>2, <2>3
<1>4. QED
  BY <1>1, <1>2, <1>3, SecureInvariant, PTL DEF Spec
=============================================================================
