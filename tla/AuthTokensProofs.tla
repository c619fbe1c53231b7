-------------------------- MODULE AuthTokensProofs --------------------------
(***************************************************************************)
(* Proofs about AuthTokens, for every number of instances, clients, users  *)
(* and devices, all lifetimes and any number of retries.                   *)
(***************************************************************************)
EXTENDS AuthTokens, TLAPS

(* Where the sequences of Steps lead: a token is stored right after it was *)
(* signed, a refresh verifies and validates first, and goes from its DEL   *)
(* to its SET.                                                             *)
LEMMA StepsKnown ==
  ASSUME NEW op \in Ops, NEW n \in Nat, n >= 1
  PROVE  /\ StepAt(op, n) \in PCs
         /\ StepAt(op, n + 1) = "insert" => StepAt(op, n) = "sign"
         /\ StepAt(op, 1) # "insert"
         /\ op = "refresh" =>
              /\ StepAt(op, 1) = "verify"
              /\ StepAt(op, n) = "verify" => StepAt(op, n + 1) = "validate"
              /\ StepAt(op, n) = "invalidate" => StepAt(op, n + 1) = "blacklist"
              /\ StepAt(op, n) = "blacklist" => StepAt(op, n + 1) = "sign"
              /\ StepAt(op, n) = "sign" => StepAt(op, n + 1) = "insert"
<1>1. CASE op = "register"
  BY <1>1 DEF StepAt, Steps, PCs
<1>2. CASE op = "login"
  BY <1>2 DEF StepAt, Steps, PCs
<1>3. CASE op = "refresh"
  BY <1>3 DEF StepAt, Steps, PCs
<1>4. CASE op = "logout"
  BY <1>4 DEF StepAt, Steps, PCs
<1>5. QED
  BY <1>1, <1>2, <1>3, <1>4 DEF Ops

LEMMA Invalidators ==
  ASSUME NEW op \in Ops, NEW n \in Nat, n >= 1, StepAt(op, n) = "invalidate"
  PROVE  op \in {"refresh", "logout"}
<1>1. CASE op = "register"
  BY <1>1 DEF StepAt, Steps
<1>2. CASE op = "login"
  BY <1>2 DEF StepAt, Steps
<1>3. QED
  BY <1>1, <1>2 DEF Ops

-----------------------------------------------------------------------------
(* What a worker is on when it is at work, and what GoOn makes of it.      *)
LEMMA AtWork ==
  ASSUME TypeOK, NEW w \in Workers, Working(w)
  PROVE  call[w] \in Calls
BY DEF TypeOK, Working, Idle

LEMMA Proceeds ==
  ASSUME TypeOK, NEW w \in Workers, Working(w), call[w].at >= 1
  PROVE  /\ Proceed(w) \in Calls
         /\ Proceed(w).pc = StepAt(call[w].msg.op, call[w].at + 1)
         /\ Proceed(w).at = call[w].at + 1
         /\ Proceed(w).msg = call[w].msg
         /\ Proceed(w).new = call[w].new
         /\ Proceed(w).stale = call[w].stale
<1> DEFINE c == call[w]
<1>1. c \in Calls
  BY AtWork
<1>2. c.msg.op \in Ops /\ c.at \in Nat
  BY <1>1 DEF Calls, Messages
<1>3. StepAt(c.msg.op, c.at + 1) \in PCs
  <2>1. c.at + 1 \in Nat /\ c.at + 1 >= 1
    BY <1>2
  <2>2. QED
    BY <1>2, <2>1, StepsKnown
<1>4. Proceed(w) = [pc |-> StepAt(c.msg.op, c.at + 1), at |-> c.at + 1,
                    msg |-> c.msg, found |-> c.found, new |-> c.new,
                    stale |-> c.stale]
  <2>1. c = [pc |-> c.pc, at |-> c.at, msg |-> c.msg, found |-> c.found,
             new |-> c.new, stale |-> c.stale]
    BY <1>1, Zenon DEF Calls
  <2>2. Proceed(w) = [c EXCEPT !.pc = StepAt(c.msg.op, c.at + 1), !.at = c.at + 1]
    BY DEF Proceed
  <2> HIDE DEF c
  <2>3. QED
    BY <2>1, <2>2
<1>5. c.at + 1 \in Nat /\ c.msg \in Messages /\ c.found \in Nat
      /\ c.new \in Tokens /\ c.stale \in BOOLEAN
  BY <1>1 DEF Calls
<1>6. Proceed(w) \in Calls
  BY <1>3, <1>4, <1>5 DEF Calls
<1>7. QED
  BY <1>4, <1>6

(* A worker's position in the steps of its operation is the pc it shows.   *)
Positioned ==
  \A w \in Workers :
    Working(w) =>
      call[w].at >= 1 /\ call[w].pc = StepAt(call[w].msg.op, call[w].at)

Typed == TypeOK /\ Positioned

(* What becomes of call when one worker goes on or stops.                  *)
LEMMA CallKept ==
  ASSUME Typed, NEW w \in Workers, Working(w), NEW x \in {Idle} \cup Calls,
         call' = [call EXCEPT ![w] = x],
         x # Idle => x.at >= 1 /\ x.pc = StepAt(x.msg.op, x.at)
  PROVE  /\ call' \in [Workers -> {Idle} \cup Calls]
         /\ Positioned'
BY DEF Typed, TypeOK, Positioned, Working, Idle

LEMMA GoOnKept ==
  ASSUME Typed, NEW w \in Workers, Working(w), GoOn(w) \/ Stop(w)
  PROVE  /\ call' \in [Workers -> {Idle} \cup Calls]
         /\ Positioned'
<1>1. CASE Stop(w)
  BY <1>1, CallKept DEF Stop
<1>2. CASE GoOn(w)
  <2>1. /\ Proceed(w) \in Calls /\ call[w].at \in Nat /\ call[w].at >= 1
    BY Proceeds, AtWork DEF Typed, Positioned, Calls
  <2>2. /\ Proceed(w).at >= 1
        /\ Proceed(w).pc = StepAt(Proceed(w).msg.op, Proceed(w).at)
    BY <2>1, Proceeds DEF Typed
  <2>3. QED
    BY <1>2, <2>1, <2>2, CallKept DEF GoOn
<1>3. QED
  BY <1>1, <1>2

LEMMA InitTyped == Init => Typed
BY AuthAssumption DEF Init, CookiesCleared, Typed, TypeOK, Positioned, Working, Idle, NoToken, Tokens

LEMMA SendTyped ==
  ASSUME Typed, NEW c \in Clients, NEW op \in Ops, NEW d \in Devices,
         NEW right \in BOOLEAN, NEW owned \in Clients \cup {None},
         Send(c, op, d, right, owned)
  PROVE  Typed'
<1> DEFINE s == <<UserOf[c], d>>
           m == [id |-> env.requests, client |-> c, op |-> op, session |-> s,
                 token |-> client[c].refresh, right |-> right, retries |-> 0,
                 failed |-> FALSE]
<1>1. s \in Sessions
  BY AuthAssumption DEF Sessions
<1>2. m \in Messages
  BY <1>1, AuthAssumption DEF Typed, TypeOK, Messages
<1>3. queue' \subseteq Messages
  BY <1>2 DEF Send, Typed, TypeOK
<1>4. /\ owner' \in [Sessions -> Clients \cup {None}]
      /\ env' \in [requests : Nat, faults : Nat]
  BY <1>1 DEF Send, Typed, TypeOK
<1>5. TypeOK'
  BY <1>3, <1>4 DEF Send, Typed, TypeOK
<1>6. Positioned'
  BY DEF Send, Typed, Positioned, Working
<1>7. QED
  BY <1>5, <1>6 DEF Typed

LEMMA RequestsTyped ==
  ASSUME Typed, NEW c \in Clients,
         \/ Register(c) \/ SignOut(c)
         \/ \E right \in BOOLEAN : SignIn(c, right)
         \/ \E d \in Devices : RefreshTokens(c, d)
  PROVE  Typed'
<1>1. DeviceOf[c] \in Devices /\ owner[SessionOf(c)] \in Clients \cup {None}
  BY AuthAssumption DEF SessionOf, Sessions, Typed, TypeOK
<1>2. CASE Register(c)
  BY <1>1, <1>2, SendTyped DEF Register, Ops
<1>3. CASE SignOut(c)
  BY <1>1, <1>3, SendTyped DEF SignOut, Ops
<1>4. ASSUME NEW right \in BOOLEAN, SignIn(c, right) PROVE Typed'
  BY <1>1, <1>4, SendTyped DEF SignIn, Ops
<1>5. ASSUME NEW d \in Devices, RefreshTokens(c, d) PROVE Typed'
  <2>1. owner[<<UserOf[c], d>>] \in Clients \cup {None}
    BY AuthAssumption DEF Sessions, Typed, TypeOK
  <2>2. QED
    BY <1>5, <2>1, SendTyped DEF RefreshTokens, Ops
<1>6. QED
  BY <1>2, <1>3, <1>4, <1>5

LEMMA ReceiveTyped ==
  ASSUME Typed, NEW w \in Workers, NEW m \in queue, Receive(w, m)
  PROVE  Typed'
<1> DEFINE x == [pc |-> StepAt(m.op, 1), at |-> 1, msg |-> m, found |-> 0,
                 new |-> NoToken, stale |-> m.token.id \in ended]
<1>1. m \in Messages
  BY DEF Typed, TypeOK
<1>2. StepAt(m.op, 1) \in PCs
  BY <1>1, StepsKnown DEF Messages
<1>3. x \in Calls
  BY <1>1, <1>2 DEF Calls, NoToken, Tokens
<1>4. call' = [call EXCEPT ![w] = x]
  BY DEF Receive
<1>5. TypeOK'
  <2>1. call' \in [Workers -> {Idle} \cup Calls]
    BY <1>3, <1>4 DEF Typed, TypeOK
  <2>2. QED
    BY <2>1 DEF Receive, history, Typed, TypeOK
<1>6. Positioned'
  BY <1>4 DEF Typed, TypeOK, Positioned, Working
<1>7. QED
  BY <1>5, <1>6 DEF Typed

(* The steps that only read.                                               *)
Reads(w) ==
  \/ FindEmail(w) \/ FindUser(w) \/ Verify(w) \/ Validate(w) \/ Audit(w)

LEMMA ReadsQuiet ==
  ASSUME NEW w \in Workers, Reads(w)
  PROVE  /\ Working(w) /\ (GoOn(w) \/ Stop(w))
         /\ UNCHANGED <<now, users, stored, blacklist, queue, client, issued,
                        ended, cause, owner, welcomed, env>>
BY DEF Reads, FindEmail, FindUser, Verify, Validate, Audit, GoOnIf, At, Working, history

LEMMA ReadsTyped ==
  ASSUME Typed, NEW w \in Workers, Reads(w)
  PROVE  Typed'
BY ReadsQuiet, GoOnKept DEF Typed, TypeOK

LEMMA GetTokenTyped ==
  ASSUME Typed, NEW w \in Workers, GetToken(w)
  PROVE  Typed'
<1> DEFINE s == call[w].msg.session
           f == IF Alive(stored[s]) THEN stored[s].id ELSE 0
           x == [Proceed(w) EXCEPT !.found = f]
<1>1. Working(w)
  BY DEF GetToken, At, Working
<1>2. Proceed(w) \in Calls /\ call[w].at \in Nat /\ call[w].at >= 1
  BY <1>1, Proceeds, AtWork DEF Typed, Positioned, Calls
<1>3. s \in Sessions
  BY <1>1, AtWork DEF Typed, Calls, Messages
<1>4. f \in Nat
  BY <1>3 DEF Typed, TypeOK, Tokens
<1>5. x \in Calls /\ x.pc = Proceed(w).pc /\ x.at = Proceed(w).at
      /\ x.msg = Proceed(w).msg
  <2> HIDE DEF f
  <2>1. QED
    BY <1>2, <1>4 DEF Calls
<1>6. x.at >= 1 /\ x.pc = StepAt(x.msg.op, x.at)
  BY <1>1, <1>2, <1>5, Proceeds DEF Typed
<1>7. call' \in [Workers -> {Idle} \cup Calls] /\ Positioned'
  <2>1. call' = [call EXCEPT ![w] = x]
    BY DEF GetToken
  <2> HIDE DEF x
  <2>2. QED
    BY <1>1, <1>5, <1>6, <2>1, CallKept
<1>8. QED
  BY <1>7 DEF GetToken, history, Typed, TypeOK

LEMMA SignTyped ==
  ASSUME Typed, NEW w \in Workers, Sign(w)
  PROVE  Typed'
<1> DEFINE t == [id |-> issued + 1, until |-> now + RefreshTtl]
           x == [Proceed(w) EXCEPT !.new = t]
<1>1. Working(w)
  BY DEF Sign, At, Working
<1>2. Proceed(w) \in Calls /\ call[w].at \in Nat /\ call[w].at >= 1
  BY <1>1, Proceeds, AtWork DEF Typed, Positioned, Calls
<1>3. t \in Tokens
  BY AuthAssumption DEF Typed, TypeOK, Tokens
<1>4. x \in Calls /\ x.pc = Proceed(w).pc /\ x.at = Proceed(w).at
      /\ x.msg = Proceed(w).msg
  <2> HIDE DEF t
  <2>1. QED
    BY <1>2, <1>3 DEF Calls
<1>5. x.at >= 1 /\ x.pc = StepAt(x.msg.op, x.at)
  BY <1>1, <1>2, <1>4, Proceeds DEF Typed
<1>6. call' \in [Workers -> {Idle} \cup Calls] /\ Positioned'
  <2>1. call' = [call EXCEPT ![w] = x]
    BY DEF Sign
  <2> HIDE DEF x
  <2>2. QED
    BY <1>1, <1>4, <1>5, <2>1, CallKept
<1>7. QED
  BY <1>6 DEF Sign, history, Typed, TypeOK

LEMMA InvalidateTyped ==
  ASSUME Typed, NEW w \in Workers, Invalidate(w)
  PROVE  Typed'
<1> DEFINE s == call[w].msg.session
<1>1. Working(w) /\ GoOn(w)
  BY DEF Invalidate, At, Working
<1>2. s \in Sessions
  BY <1>1, AtWork DEF Typed, Calls, Messages
<1>3. /\ stored' \in [Sessions -> Tokens]
      /\ ended' \subseteq Nat
      /\ cause' \in [Sessions -> {"never", "none", "logout", "cut"}]
  BY <1>2 DEF Invalidate, Typed, TypeOK, Tokens, NoToken
<1>4. QED
  BY <1>1, <1>3, GoOnKept DEF Invalidate, Typed, TypeOK

LEMMA BlacklistTyped ==
  ASSUME Typed, NEW w \in Workers, Blacklist(w)
  PROVE  Typed'
<1>1. Working(w) /\ GoOn(w)
  BY DEF Blacklist, At, Working
<1>2. call[w].found \in Nat /\ call[w].msg.token.id \in Nat
  BY <1>1, AtWork DEF Typed, Calls, Messages, Tokens
<1>3. blacklist' \subseteq Tokens
  BY <1>2, AuthAssumption DEF Blacklist, Typed, TypeOK, Tokens
<1>4. QED
  BY <1>1, <1>3, GoOnKept DEF Blacklist, history, Typed, TypeOK

LEMMA InsertTyped ==
  ASSUME Typed, NEW w \in Workers, Insert(w)
  PROVE  Typed'
<1> DEFINE s == call[w].msg.session
           t == [id |-> call[w].new.id, until |-> Expiry]
<1>1. Working(w) /\ GoOn(w)
  BY DEF Insert, At, Working
<1>2. s \in Sessions /\ call[w].new.id \in Nat
  BY <1>1, AtWork DEF Typed, Calls, Messages, Tokens
<1>3. t \in Tokens
  BY <1>2, AuthAssumption DEF Expiry, Typed, TypeOK, Tokens
<1>4. stored' \in [Sessions -> Tokens]
  <2>1. stored' = [stored EXCEPT ![s] = t]
    BY DEF Insert
  <2> HIDE DEF t
  <2>2. QED
    BY <1>3, <2>1 DEF Typed, TypeOK
<1>5. /\ ended' \subseteq Nat
      /\ cause' \in [Sessions -> {"never", "none", "logout", "cut"}]
  BY <1>2 DEF Insert, Typed, TypeOK, Tokens
<1>6. QED
  BY <1>1, <1>4, <1>5, GoOnKept DEF Insert, Typed, TypeOK

LEMMA AnswerTyped ==
  ASSUME Typed, NEW w \in Workers, Answer(w)
  PROVE  Typed'
<1> DEFINE m == call[w].msg
           new == call[w].new
<1>1. Working(w) /\ Stop(w)
  BY DEF Answer, At, Working
<1>2. /\ m.client \in Clients /\ m.session[1] \in Users
      /\ new \in Tokens
  BY <1>1, AtWork DEF Typed, Calls, Messages, Sessions
<1>3. client' \in [Clients -> [refresh : Tokens, access : Int]]
  <2>1. CookiesSet(new) \in [refresh : Tokens, access : Int]
    BY <1>2, AuthAssumption DEF CookiesSet, Tokens
  <2>2. CookiesCleared \in [refresh : Tokens, access : Int]
    BY DEF CookiesCleared, NoToken, Tokens
  <2>3. \/ client' = [client EXCEPT ![m.client] = @]
        \/ client' = [client EXCEPT ![m.client] = CookiesSet(new)]
        \/ client' = [client EXCEPT ![m.client] = CookiesCleared]
    BY DEF Answer
  <2>4. QED
    BY <1>2, <2>1, <2>2, <2>3 DEF Typed, TypeOK
<1>4. welcomed' \in [Users -> Nat]
  BY <1>2 DEF Answer, Typed, TypeOK
<1>5. QED
  BY <1>1, <1>3, <1>4, GoOnKept DEF Answer, Typed, TypeOK

(* What handleAck sends to the retry queue is a request.                   *)
LEMMA AckTyped ==
  ASSUME NEW m \in Messages
  PROVE  HandleAck(m) \subseteq Messages
<1>1. m.retries \in Nat
  BY AuthAssumption DEF Messages
<1>2. ASSUME NEW n \in 0 .. MaxRetries
      PROVE  [m EXCEPT !.retries = n, !.failed = TRUE] \in Messages
  <2>1. [m EXCEPT !.retries = n] \in Messages
    BY DEF Messages
  <2>2. ASSUME NEW a \in Messages PROVE [a EXCEPT !.failed = TRUE] \in Messages
    BY DEF Messages
  <2>3. QED
    BY <2>1, <2>2
<1>3. m.retries < MaxRetries => m.retries + 1 \in 0 .. MaxRetries
  BY <1>1, AuthAssumption
<1>4. CASE m.retries >= MaxRetries
  BY <1>4 DEF HandleAck
<1>5. CASE m.retries < MaxRetries
  <2> DEFINE again == [m EXCEPT !.retries = m.retries + 1, !.failed = TRUE]
  <2>1. again \in Messages
    BY <1>2, <1>3, <1>5
  <2>2. ~(m.retries >= MaxRetries)
    BY <1>1, <1>5, AuthAssumption
  <2>3. HandleAck(m) = {again}
    BY <2>2 DEF HandleAck
  <2> HIDE DEF again
  <2>4. QED
    BY <2>1, <2>3
<1>6. QED
  BY <1>1, <1>4, <1>5, AuthAssumption

LEMMA SaveTyped ==
  ASSUME Typed, NEW w \in Workers, Save(w)
  PROVE  Typed'
<1> DEFINE m == call[w].msg
<1>1. Working(w) /\ (GoOn(w) \/ Stop(w))
  BY DEF Save, At, Working
<1>2. m \in Messages /\ m.session[1] \in Users
  BY <1>1, AtWork DEF Typed, Calls, Messages, Sessions
<1>3. queue' \subseteq Messages
  BY <1>2, AckTyped DEF Save, Typed, TypeOK
<1>4. users' \subseteq Users
  BY <1>2 DEF Save, Typed, TypeOK
<1>5. QED
  BY <1>1, <1>3, <1>4, GoOnKept DEF Save, history, Typed, TypeOK

LEMMA InterruptTyped ==
  ASSUME Typed, NEW w \in Workers, Fail(w) \/ Crash(w)
  PROVE  Typed'
<1> DEFINE m == call[w].msg
<1>1. Interrupt(w) /\ Working(w) /\ Stop(w)
  BY DEF Fail, Crash, Interrupt
<1>2. m \in Messages /\ m.session \in Sessions
  BY <1>1, AtWork DEF Typed, Calls, Messages
<1>3. queue' \subseteq Messages
  BY <1>2, AckTyped DEF Fail, Crash, Typed, TypeOK
<1>4. /\ owner' \in [Sessions -> Clients \cup {None}]
      /\ cause' \in [Sessions -> {"never", "none", "logout", "cut"}]
      /\ env' \in [requests : Nat, faults : Nat]
  BY <1>1, <1>2 DEF Interrupt, Typed, TypeOK
<1>5. QED
  BY <1>1, <1>3, <1>4, GoOnKept DEF Interrupt, Typed, TypeOK

LEMMA TickTyped ==
  ASSUME Typed, Tick
  PROVE  Typed'
BY DEF Tick, history, Typed, TypeOK, Positioned, Working

LEMMA NextTyped == Typed /\ [Next]_vars => Typed'
<1> SUFFICES ASSUME Typed, [Next]_vars PROVE Typed'
  OBVIOUS
<1>1. CASE UNCHANGED vars
  BY <1>1 DEF vars, Typed, TypeOK, Positioned, Working
<1>2. ASSUME NEW c \in Clients,
             \/ Register(c) \/ SignOut(c)
             \/ \E right \in BOOLEAN : SignIn(c, right)
             \/ \E d \in Devices : RefreshTokens(c, d)
      PROVE  Typed'
  BY <1>2, RequestsTyped
<1>3. ASSUME NEW w \in Workers, \E m \in queue : Receive(w, m) PROVE Typed'
  BY <1>3, ReceiveTyped
<1>4. ASSUME NEW w \in Workers, Step(w) PROVE Typed'
  BY <1>4, ReadsTyped, GetTokenTyped, SignTyped, InvalidateTyped, BlacklistTyped,
     InsertTyped, AnswerTyped, SaveTyped DEF Step, Reads
<1>5. ASSUME NEW w \in Workers, Fail(w) \/ Crash(w) PROVE Typed'
  BY <1>5, InterruptTyped
<1>6. CASE Tick
  BY <1>6, TickTyped
<1>7. QED
  BY <1>1, <1>2, <1>3, <1>4, <1>5, <1>6 DEF Next

-----------------------------------------------------------------------------
(* Ids are used once: what is stored, or about to be, is new, and no two   *)
(* sessions or calls have the same.                                        *)
Fresh ==
  /\ \A i \in ended : i <= issued
  /\ \A s \in Sessions :
       /\ stored[s].id <= issued
       /\ stored[s].id # 0 => stored[s].id \notin ended
  /\ \A s, t \in Sessions : stored[s].id # 0 /\ stored[s].id = stored[t].id => s = t
  /\ \A w \in Workers :
       call[w].pc = "insert" =>
         /\ call[w].new.id # 0 /\ call[w].new.id <= issued
         /\ call[w].new.id \notin ended
         /\ \A s \in Sessions : stored[s].id # call[w].new.id
  /\ \A v, w \in Workers :
       call[v].pc = "insert" /\ call[w].pc = "insert" /\ call[v].new.id = call[w].new.id
         => v = w

(* A token that had ended when its request was taken up has ended for good. *)
StaleEnded ==
  \A w \in Workers : Working(w) /\ call[w].stale => call[w].msg.token.id \in ended

Safe == Fresh /\ StaleEnded /\ EndedIsRefused /\ SessionKept
IInv == Typed /\ Safe

LEMMA Moved ==
  ASSUME Typed, NEW w \in Workers, Working(w), GoOn(w)
  PROVE  /\ \A v \in Workers : v # w => call'[v] = call[v]
         /\ Working(w)' /\ call'[w].msg = call[w].msg /\ call'[w].new = call[w].new
         /\ call'[w].stale = call[w].stale
         /\ call[w].pc # "sign" => call'[w].pc # "insert"
         /\ call[w].msg.op = "refresh" =>
              /\ call[w].pc = "verify" => call'[w].pc = "validate"
              /\ call[w].pc = "invalidate" => call'[w].pc = "blacklist"
              /\ call[w].pc = "blacklist" => call'[w].pc = "sign"
              /\ call[w].pc = "sign" => call'[w].pc = "insert"
<1> DEFINE op == call[w].msg.op
           n == call[w].at
<1>1. op \in Ops /\ n \in Nat /\ n >= 1 /\ call[w].pc = StepAt(op, n)
  BY AtWork DEF Typed, Positioned, Calls, Messages
<1>2. Proceed(w) \in Calls /\ Proceed(w).pc = StepAt(op, n + 1)
      /\ Proceed(w).msg = call[w].msg /\ Proceed(w).new = call[w].new
      /\ Proceed(w).stale = call[w].stale
  BY <1>1, Proceeds DEF Typed
<1>3. /\ \A v \in Workers : v # w => call'[v] = call[v]
      /\ call'[w] = Proceed(w)
  BY DEF GoOn, Typed, TypeOK
<1>4. Working(w)'
  BY <1>2, <1>3 DEF Working, Calls, PCs
<1>5. QED
  BY <1>1, <1>2, <1>3, <1>4, StepsKnown

LEMMA Stopped ==
  ASSUME Typed, NEW w \in Workers, Stop(w)
  PROVE  /\ \A v \in Workers : v # w => call'[v] = call[v]
         /\ call'[w] = Idle /\ ~Working(w)' /\ call'[w].pc # "insert"
BY DEF Stop, Typed, TypeOK, Working, Idle

(* A call that stops, or takes a step that leaves Redis's session keys     *)
(* alone, disturbs nothing if it goes by the validation and does not stop  *)
(* between a DEL and the SET.                                              *)
LEMMA QuietSafe ==
  ASSUME IInv, NEW w \in Workers, Working(w),
         \/ /\ GoOn(w)
            /\ call[w].pc \notin {"sign", "invalidate", "insert"}
            /\ call[w].pc = "validate" => ~call[w].stale
         \/ /\ Stop(w)
            /\ call[w].pc \notin {"blacklist", "sign", "insert"},
         UNCHANGED <<stored, ended, issued, cause>>
  PROVE  Safe'
<1>1. Typed /\ Fresh /\ StaleEnded /\ EndedIsRefused /\ SessionKept
  BY DEF IInv, Safe
<1>2. /\ \A v \in Workers : v # w => call'[v] = call[v]
      /\ call'[w].pc # "insert"
      /\ Working(w)' => call'[w].msg = call[w].msg /\ call'[w].stale = call[w].stale
  BY <1>1, Moved, Stopped
<1>3. Fresh'
  BY <1>1, <1>2 DEF Fresh
<1>4. StaleEnded'
  BY <1>1, <1>2 DEF StaleEnded, Working
<1>5. EndedIsRefused'
  <2>1. CASE Stop(w)
    BY <1>1, <1>2, <2>1, Stopped DEF EndedIsRefused, Working
  <2>2. CASE GoOn(w)
    <3>1. call[w].msg.op = "refresh" /\ call[w].stale => call[w].pc = "verify"
      BY <1>1, <2>2, Moved, Stopped DEF EndedIsRefused
    <3>2. QED
      BY <1>1, <1>2, <2>2, <3>1, Moved DEF EndedIsRefused, Working
  <2>3. QED
    BY <2>1, <2>2
<1>6. SessionKept'
  <2> SUFFICES ASSUME NEW s \in Sessions, stored[s].id = 0, cause[s] = "none"
               PROVE  \E v \in Workers :
                        /\ Working(v)' /\ call'[v].msg.session = s
                        /\ call'[v].msg.op = "refresh"
                        /\ call'[v].pc \in {"blacklist", "sign", "insert"}
    BY DEF SessionKept, Working
  <2>1. PICK v \in Workers :
          /\ Working(v) /\ call[v].msg.session = s /\ call[v].msg.op = "refresh"
          /\ call[v].pc \in {"blacklist", "sign", "insert"}
    BY <1>1 DEF SessionKept
  <2>2. CASE v # w
    BY <1>2, <2>1, <2>2 DEF Working
  <2>3. CASE v = w
    <3>1. GoOn(w) /\ call[w].pc = "blacklist"
      BY <2>1, <2>3
    <3>2. QED
      BY <1>1, <2>1, <2>3, <3>1, Moved
  <2>4. QED
    BY <2>2, <2>3
<1>7. QED
  BY <1>3, <1>4, <1>5, <1>6 DEF Safe

(* A refresh whose token is what the session stores gets by validate: that *)
(* token has not ended.                                                    *)
LEMMA ReadsSafe ==
  ASSUME IInv, NEW w \in Workers, Reads(w)
  PROVE  Safe'
<1> DEFINE m == call[w].msg
<1>1. /\ Working(w) /\ UNCHANGED <<stored, ended, issued, cause>>
      /\ call[w].pc \notin {"sign", "invalidate", "insert", "blacklist"}
      /\ GoOn(w) \/ Stop(w)
  BY ReadsQuiet DEF Reads, FindEmail, FindUser, Verify, Validate, Audit, At
<1>2. ASSUME GoOn(w), call[w].pc = "validate" PROVE ~call[w].stale
  <2>1. ~Stop(w)
    BY <1>1, <1>2, Moved, Stopped DEF IInv
  <2>2. IsStored(m.session, m.token.id)
    BY <1>2, <2>1 DEF Reads, FindEmail, FindUser, Verify, Validate, Audit, At, GoOnIf
  <2>3. m.session \in Sessions
    BY <1>1, AtWork DEF IInv, Typed, Calls, Messages
  <2>4. m.token.id \notin ended
    BY <2>2, <2>3 DEF IsStored, Alive, IInv, Safe, Fresh
  <2>5. QED
    BY <1>1, <2>4 DEF IInv, Safe, StaleEnded
<1>3. QED
  BY <1>1, <1>2, QuietSafe

LEMMA OthersSafe ==
  ASSUME IInv, NEW w \in Workers, Blacklist(w) \/ Answer(w) \/ Save(w)
  PROVE  Safe'
<1>1. /\ Working(w) /\ (GoOn(w) \/ Stop(w))
      /\ UNCHANGED <<stored, ended, issued, cause>>
      /\ GoOn(w) => call[w].pc \notin {"sign", "invalidate", "insert", "validate"}
      /\ Stop(w) => call[w].pc \notin {"blacklist", "sign", "insert"}
  <2>1. CASE Blacklist(w)
    <3>1. Working(w) /\ GoOn(w) /\ call[w].pc = "blacklist"
      BY <2>1 DEF Blacklist, At, Working
    <3>2. ~Stop(w)
      BY <3>1, Moved, Stopped DEF IInv
    <3>3. QED
      BY <2>1, <3>1, <3>2 DEF Blacklist, history
  <2>2. CASE Answer(w)
    BY <2>2 DEF Answer, At, Working
  <2>3. CASE Save(w)
    BY <2>3 DEF Save, At, Working, history
  <2>4. QED
    BY <2>1, <2>2, <2>3
<1>2. QED
  BY <1>1, QuietSafe

LEMMA GetTokenSafe ==
  ASSUME IInv, NEW w \in Workers, GetToken(w)
  PROVE  Safe'
<1>1. Typed /\ Fresh /\ StaleEnded /\ EndedIsRefused /\ SessionKept
  BY DEF IInv, Safe
<1>2. Working(w) /\ call[w].pc = "get_token"
  BY DEF GetToken, At, Working
<1>3. call[w] \in Calls /\ call[w].at \in Nat /\ call[w].at >= 1
      /\ call[w].msg.op \in Ops /\ call[w].pc = StepAt(call[w].msg.op, call[w].at)
  BY <1>1, <1>2, AtWork DEF Typed, Positioned, Calls, Messages
<1>4. /\ Proceed(w) \in Calls /\ Proceed(w).msg = call[w].msg
      /\ Proceed(w).stale = call[w].stale /\ Proceed(w).pc # "insert"
  BY <1>1, <1>2, <1>3, Proceeds, StepsKnown DEF Typed
<1>5. /\ \A v \in Workers : v # w => call'[v] = call[v]
      /\ call'[w].pc = Proceed(w).pc /\ call'[w].msg = Proceed(w).msg
      /\ call'[w].stale = Proceed(w).stale
  <2>1. \E f : call' = [call EXCEPT ![w] = [Proceed(w) EXCEPT !.found = f]]
    BY DEF GetToken
  <2>2. QED
    BY <1>1, <1>4, <2>1 DEF Typed, TypeOK, Calls
<1>6. UNCHANGED <<stored, ended, issued, cause>>
  BY DEF GetToken, history
<1>7. Fresh'
  BY <1>1, <1>4, <1>5, <1>6 DEF Fresh
<1>8. StaleEnded'
  BY <1>1, <1>2, <1>4, <1>5, <1>6 DEF StaleEnded, Working
<1>9. EndedIsRefused'
  BY <1>1, <1>2, <1>4, <1>5 DEF EndedIsRefused, Working
<1>10. SessionKept'
  BY <1>1, <1>2, <1>4, <1>5, <1>6 DEF SessionKept, Working
<1>11. QED
  BY <1>7, <1>8, <1>9, <1>10 DEF Safe

(* A new id is larger than all there were.                                 *)
LEMMA SignSafe ==
  ASSUME IInv, NEW w \in Workers, Sign(w)
  PROVE  Safe'
<1>1. Typed /\ Fresh /\ StaleEnded /\ EndedIsRefused /\ SessionKept
  BY DEF IInv, Safe
<1>2. Working(w) /\ call[w].pc = "sign"
  BY DEF Sign, At, Working
<1>3. call[w] \in Calls /\ call[w].at \in Nat /\ call[w].at >= 1
      /\ call[w].msg.op \in Ops /\ call[w].pc = StepAt(call[w].msg.op, call[w].at)
  BY <1>1, <1>2, AtWork DEF Typed, Positioned, Calls, Messages
<1>4. /\ Proceed(w) \in Calls /\ Proceed(w).msg = call[w].msg
      /\ Proceed(w).stale = call[w].stale
      /\ call[w].msg.op = "refresh" => Proceed(w).pc = "insert"
  BY <1>1, <1>2, <1>3, Proceeds, StepsKnown DEF Typed
<1>5. /\ \A v \in Workers : v # w => call'[v] = call[v]
      /\ call'[w].pc = Proceed(w).pc /\ call'[w].msg = Proceed(w).msg
      /\ call'[w].stale = Proceed(w).stale /\ call'[w].new.id = issued + 1
  BY <1>1, <1>4 DEF Sign, Typed, TypeOK, Calls
<1>6. /\ UNCHANGED <<stored, ended, cause>>
      /\ issued' = issued + 1 /\ issued \in Nat
  BY <1>1 DEF Sign, history, Typed, TypeOK
<1>7. Fresh'
  <2>1. /\ \A i \in ended : i \in Nat /\ i < issued'
        /\ \A s \in Sessions : stored[s].id \in Nat /\ stored[s].id < issued'
    BY <1>1, <1>6 DEF Fresh, Typed, TypeOK, Tokens
  <2>2. \A v \in Workers :
          call[v].pc = "insert" => call[v].new.id < issued' /\ call[v].new.id <= issued'
    <3>1. \A v \in Workers : call[v].pc = "insert" => call[v].new.id \in Nat
      BY <1>1, AtWork DEF Typed, Working, Calls, Tokens
    <3>2. QED
      BY <1>1, <1>6, <3>1 DEF Fresh
  <2>3. \A i \in ended' : i <= issued'
    BY <1>6, <2>1
  <2>4. \A s \in Sessions : /\ stored'[s].id <= issued'
                            /\ stored'[s].id # 0 => stored'[s].id \notin ended'
    BY <1>1, <1>6, <2>1 DEF Fresh
  <2>5. \A v \in Workers :
          call'[v].pc = "insert" =>
            /\ call'[v].new.id # 0 /\ call'[v].new.id <= issued'
            /\ call'[v].new.id \notin ended'
            /\ \A s \in Sessions : stored'[s].id # call'[v].new.id
    <3> SUFFICES ASSUME NEW v \in Workers, call'[v].pc = "insert"
                 PROVE  /\ call'[v].new.id # 0 /\ call'[v].new.id <= issued'
                        /\ call'[v].new.id \notin ended'
                        /\ \A s \in Sessions : stored'[s].id # call'[v].new.id
      OBVIOUS
    <3>1. CASE v = w
      <4>1. call'[v].new.id = issued'
        BY <1>5, <1>6, <3>1
      <4>2. issued' # 0 /\ issued' <= issued' /\ issued' \notin ended'
            /\ \A s \in Sessions : stored'[s].id # issued'
        BY <1>6, <2>1
      <4>3. QED
        BY <4>1, <4>2
    <3>2. CASE v # w
      BY <1>1, <1>5, <1>6, <2>2, <3>2 DEF Fresh
    <3>3. QED
      BY <3>1, <3>2
  <2>6. \A u, v \in Workers :
          call'[u].pc = "insert" /\ call'[v].pc = "insert"
            /\ call'[u].new.id = call'[v].new.id => u = v
    BY <1>1, <1>5, <1>6, <2>2 DEF Fresh
  <2>7. QED
    BY <1>1, <1>6, <2>3, <2>4, <2>5, <2>6 DEF Fresh
<1>8. StaleEnded'
  BY <1>1, <1>2, <1>4, <1>5, <1>6 DEF StaleEnded, Working
<1>9. EndedIsRefused'
  BY <1>1, <1>2, <1>4, <1>5 DEF EndedIsRefused, Working
<1>10. SessionKept'
  <2> SUFFICES ASSUME NEW s \in Sessions, stored[s].id = 0, cause[s] = "none"
               PROVE  \E v \in Workers :
                        /\ Working(v)' /\ call'[v].msg.session = s
                        /\ call'[v].msg.op = "refresh"
                        /\ call'[v].pc \in {"blacklist", "sign", "insert"}
    BY <1>6 DEF SessionKept, Working
  <2>1. PICK v \in Workers :
          /\ Working(v) /\ call[v].msg.session = s /\ call[v].msg.op = "refresh"
          /\ call[v].pc \in {"blacklist", "sign", "insert"}
    BY <1>1 DEF SessionKept
  <2>2. QED
    BY <1>4, <1>5, <2>1 DEF Working
<1>11. QED
  BY <1>7, <1>8, <1>9, <1>10 DEF Safe

(* DEL ends what is stored.  It is not the id of a call about to store one *)
(* nor of another session.  A refresh goes on to its SET; a sign-out is    *)
(* the cause itself.                                                       *)
LEMMA InvalidateSafe ==
  ASSUME IInv, NEW w \in Workers, Invalidate(w)
  PROVE  Safe'
<1> DEFINE r == call[w].msg.session
<1>1. Typed /\ TypeOK /\ Fresh /\ StaleEnded /\ EndedIsRefused /\ SessionKept
  BY DEF IInv, Safe, Typed
<1>2. Working(w) /\ call[w].pc = "invalidate" /\ GoOn(w)
  BY DEF Invalidate, At, Working
<1>3. r \in Sessions
  BY <1>1, <1>2, AtWork DEF Calls, Messages
<1>4. /\ \A v \in Workers : v # w => call'[v] = call[v]
      /\ Working(w)' /\ call'[w].pc # "insert"
      /\ call'[w].msg = call[w].msg /\ call'[w].stale = call[w].stale
      /\ call[w].msg.op = "refresh" => call'[w].pc = "blacklist"
  BY <1>1, <1>2, Moved
<1>5. /\ issued' = issued
      /\ \A s \in Sessions : s # r => stored'[s] = stored[s]
      /\ stored'[r].id = 0
      /\ ended' = ended \cup ({stored[r].id} \ {0})
      /\ \A s \in Sessions : s # r => cause'[s] = cause[s]
      /\ call[w].msg.op = "logout" => cause'[r] = "logout"
  BY <1>1, <1>3 DEF Invalidate, TypeOK, NoToken
<1>6. Fresh'
  <2>1. \A i \in ended' : i <= issued'
    BY <1>1, <1>3, <1>5 DEF Fresh
  <2>2. \A s \in Sessions : /\ stored'[s].id <= issued'
                            /\ stored'[s].id # 0 => stored'[s].id \notin ended'
    <3>1. 0 <= issued
      BY <1>1 DEF TypeOK
    <3>2. QED
      BY <1>1, <1>3, <1>5, <3>1 DEF Fresh
  <2>3. \A s, t \in Sessions :
          stored'[s].id # 0 /\ stored'[s].id = stored'[t].id => s = t
    BY <1>1, <1>3, <1>5 DEF Fresh
  <2>4. \A v \in Workers :
          call'[v].pc = "insert" =>
            /\ call'[v].new.id # 0 /\ call'[v].new.id <= issued'
            /\ call'[v].new.id \notin ended'
            /\ \A s \in Sessions : stored'[s].id # call'[v].new.id
    BY <1>1, <1>3, <1>4, <1>5 DEF Fresh
  <2>5. \A u, v \in Workers :
          call'[u].pc = "insert" /\ call'[v].pc = "insert"
            /\ call'[u].new.id = call'[v].new.id => u = v
    BY <1>1, <1>4 DEF Fresh
  <2>6. QED
    BY <2>1, <2>2, <2>3, <2>4, <2>5 DEF Fresh
<1>7. StaleEnded'
  BY <1>1, <1>2, <1>4, <1>5 DEF StaleEnded, Working
<1>8. EndedIsRefused'
  BY <1>1, <1>2, <1>4 DEF EndedIsRefused, Working
<1>9. SessionKept'
  <2> SUFFICES ASSUME NEW s \in Sessions, stored'[s].id = 0, cause'[s] = "none"
               PROVE  \E v \in Workers :
                        /\ Working(v)' /\ call'[v].msg.session = s
                        /\ call'[v].msg.op = "refresh"
                        /\ call'[v].pc \in {"blacklist", "sign", "insert"}
    BY DEF SessionKept, Working
  <2>1. CASE s = r
    <3>1. call[w].msg.op \in {"refresh", "logout"}
      <4>1. call[w].msg.op \in Ops /\ call[w].at \in Nat /\ call[w].at >= 1
            /\ StepAt(call[w].msg.op, call[w].at) = "invalidate"
        BY <1>1, <1>2, AtWork DEF Typed, Positioned, Calls, Messages
      <4>2. QED
        BY <4>1, Invalidators
    <3>2. QED
      BY <1>4, <1>5, <2>1, <3>1
  <2>2. CASE s # r
    <3>1. PICK v \in Workers :
            /\ Working(v) /\ call[v].msg.session = s /\ call[v].msg.op = "refresh"
            /\ call[v].pc \in {"blacklist", "sign", "insert"}
      BY <1>1, <1>5, <2>2 DEF SessionKept
    <3>2. QED
      BY <1>2, <1>4, <3>1 DEF Working
  <2>3. QED
    BY <2>1, <2>2
<1>10. QED
  BY <1>6, <1>7, <1>8, <1>9 DEF Safe

(* SET ends what is stored, too, and stores an id that is not 0.           *)
LEMMA InsertSafe ==
  ASSUME IInv, NEW w \in Workers, Insert(w)
  PROVE  Safe'
<1> DEFINE r == call[w].msg.session
           id == call[w].new.id
<1>1. Typed /\ TypeOK /\ Fresh /\ StaleEnded /\ EndedIsRefused /\ SessionKept
  BY DEF IInv, Safe, Typed
<1>2. Working(w) /\ call[w].pc = "insert" /\ GoOn(w)
  BY DEF Insert, At, Working
<1>3. r \in Sessions
  BY <1>1, <1>2, AtWork DEF Calls, Messages
<1>4. /\ \A v \in Workers : v # w => call'[v] = call[v]
      /\ Working(w)' /\ call'[w].pc # "insert"
      /\ call'[w].msg = call[w].msg /\ call'[w].stale = call[w].stale
  BY <1>1, <1>2, Moved
<1>5. /\ issued' = issued
      /\ \A s \in Sessions : s # r => stored'[s] = stored[s]
      /\ stored'[r].id = id
      /\ ended' = ended \cup ({stored[r].id} \ {0})
      /\ \A s \in Sessions : s # r => cause'[s] = cause[s]
  BY <1>1, <1>3 DEF Insert, TypeOK
<1>6. /\ id # 0 /\ id <= issued /\ id \notin ended
      /\ \A s \in Sessions : stored[s].id # id
      /\ \A v \in Workers : v # w /\ call[v].pc = "insert" => call[v].new.id # id
  BY <1>1, <1>2 DEF Fresh
<1>7. Fresh'
  <2>1. \A i \in ended' : i <= issued'
    BY <1>1, <1>3, <1>5 DEF Fresh
  <2>2. \A s \in Sessions : /\ stored'[s].id <= issued'
                            /\ stored'[s].id # 0 => stored'[s].id \notin ended'
    BY <1>1, <1>3, <1>5, <1>6 DEF Fresh
  <2>3. \A s, t \in Sessions :
          stored'[s].id # 0 /\ stored'[s].id = stored'[t].id => s = t
    BY <1>1, <1>3, <1>5, <1>6 DEF Fresh
  <2>4. \A v \in Workers :
          call'[v].pc = "insert" =>
            /\ call'[v].new.id # 0 /\ call'[v].new.id <= issued'
            /\ call'[v].new.id \notin ended'
            /\ \A s \in Sessions : stored'[s].id # call'[v].new.id
    BY <1>1, <1>3, <1>4, <1>5, <1>6 DEF Fresh
  <2>5. \A u, v \in Workers :
          call'[u].pc = "insert" /\ call'[v].pc = "insert"
            /\ call'[u].new.id = call'[v].new.id => u = v
    BY <1>1, <1>4 DEF Fresh
  <2>6. QED
    BY <2>1, <2>2, <2>3, <2>4, <2>5 DEF Fresh
<1>8. StaleEnded'
  BY <1>1, <1>2, <1>4, <1>5 DEF StaleEnded, Working
<1>9. EndedIsRefused'
  BY <1>1, <1>2, <1>4 DEF EndedIsRefused, Working
<1>10. SessionKept'
  <2> SUFFICES ASSUME NEW s \in Sessions, stored'[s].id = 0, cause'[s] = "none"
               PROVE  \E v \in Workers :
                        /\ Working(v)' /\ call'[v].msg.session = s
                        /\ call'[v].msg.op = "refresh"
                        /\ call'[v].pc \in {"blacklist", "sign", "insert"}
    BY DEF SessionKept, Working
  <2>1. s # r
    BY <1>5, <1>6
  <2>2. PICK v \in Workers :
          /\ Working(v) /\ call[v].msg.session = s /\ call[v].msg.op = "refresh"
          /\ call[v].pc \in {"blacklist", "sign", "insert"}
    BY <1>1, <1>5, <2>1 DEF SessionKept
  <2>3. QED
    BY <1>4, <2>1, <2>2 DEF Working
<1>11. QED
  BY <1>7, <1>8, <1>9, <1>10 DEF Safe

(* A call cut between its DEL and its SET is the cause of what it leaves.  *)
LEMMA InterruptSafe ==
  ASSUME IInv, NEW w \in Workers, Fail(w) \/ Crash(w)
  PROVE  Safe'
<1> DEFINE r == call[w].msg.session
<1>1. Typed /\ TypeOK /\ Fresh /\ StaleEnded /\ EndedIsRefused /\ SessionKept
  BY DEF IInv, Safe, Typed
<1>2. Interrupt(w) /\ Working(w) /\ Stop(w) /\ UNCHANGED <<stored, ended, issued>>
  BY DEF Fail, Crash, Interrupt
<1>3. /\ \A v \in Workers : v # w => call'[v] = call[v]
      /\ ~Working(w)' /\ call'[w].pc # "insert"
  BY <1>1, <1>2, Stopped
<1>4. Fresh'
  BY <1>1, <1>2, <1>3 DEF Fresh
<1>5. StaleEnded' /\ EndedIsRefused'
  BY <1>1, <1>2, <1>3 DEF StaleEnded, EndedIsRefused, Working
<1>6. SessionKept'
  <2> SUFFICES ASSUME NEW s \in Sessions, stored[s].id = 0, cause'[s] = "none"
               PROVE  \E v \in Workers :
                        /\ Working(v)' /\ call'[v].msg.session = s
                        /\ call'[v].msg.op = "refresh"
                        /\ call'[v].pc \in {"blacklist", "sign", "insert"}
    BY <1>2 DEF SessionKept, Working
  <2>1. cause[s] = "none"
    BY <1>1, <1>2 DEF Interrupt, TypeOK
  <2>2. PICK v \in Workers :
          /\ Working(v) /\ call[v].msg.session = s /\ call[v].msg.op = "refresh"
          /\ call[v].pc \in {"blacklist", "sign", "insert"}
    BY <1>1, <2>1 DEF SessionKept
  <2>3. v # w
    <3>1. SUFFICES ASSUME v = w PROVE FALSE
      OBVIOUS
    <3>2. cause' = [cause EXCEPT ![s] = "cut"]
      BY <1>2, <2>2, <3>1 DEF Interrupt
    <3>3. QED
      BY <1>1, <3>2 DEF TypeOK
  <2>4. QED
    BY <1>3, <2>2, <2>3 DEF Working
<1>7. QED
  BY <1>4, <1>5, <1>6 DEF Safe

(* What neither a call nor Redis notices.                                  *)
LEMMA OutsideSafe ==
  ASSUME IInv, UNCHANGED <<call, stored, ended, issued, cause>>
  PROVE  Safe'
BY DEF IInv, Safe, Fresh, StaleEnded, EndedIsRefused, SessionKept, Working

(* A request that is taken up is at its first step: a refresh has its      *)
(* checks before it, and its token is stale only if it has ended.          *)
LEMMA ReceiveSafe ==
  ASSUME IInv, NEW w \in Workers, NEW m \in queue, Receive(w, m)
  PROVE  Safe'
<1>1. Typed /\ TypeOK /\ Fresh /\ StaleEnded /\ EndedIsRefused /\ SessionKept
  BY DEF IInv, Safe, Typed
<1>2. m \in Messages /\ m.op \in Ops
  BY <1>1 DEF TypeOK, Messages
<1>3. /\ \A v \in Workers : v # w => call'[v] = call[v]
      /\ call'[w].pc = StepAt(m.op, 1) /\ call'[w].msg = m
      /\ call'[w].stale = (m.token.id \in ended)
      /\ ~Working(w)
      /\ UNCHANGED <<stored, ended, issued, cause>>
  BY <1>1 DEF Receive, TypeOK, history
<1>4. call'[w].pc # "insert" /\ (m.op = "refresh" => call'[w].pc = "verify")
  BY <1>2, <1>3, StepsKnown
<1>5. Fresh'
  BY <1>1, <1>3, <1>4 DEF Fresh
<1>6. StaleEnded'
  BY <1>1, <1>3 DEF StaleEnded, Working
<1>7. EndedIsRefused'
  BY <1>1, <1>3, <1>4 DEF EndedIsRefused, Working
<1>8. SessionKept'
  BY <1>1, <1>3 DEF SessionKept, Working
<1>9. QED
  BY <1>5, <1>6, <1>7, <1>8 DEF Safe

LEMMA InitSafe == Init => Safe
BY DEF Init, Safe, Fresh, StaleEnded, EndedIsRefused, SessionKept, Working, Idle, NoToken

LEMMA NextSafe == IInv /\ [Next]_vars => IInv'
<1> SUFFICES ASSUME IInv, [Next]_vars PROVE Safe'
  BY NextTyped DEF IInv
<1>1. CASE UNCHANGED vars
  BY <1>1, OutsideSafe DEF vars
<1>2. ASSUME NEW c \in Clients,
             \/ Register(c) \/ SignOut(c)
             \/ \E right \in BOOLEAN : SignIn(c, right)
             \/ \E d \in Devices : RefreshTokens(c, d)
      PROVE  Safe'
  <2>1. UNCHANGED <<call, stored, ended, issued, cause>>
    BY <1>2 DEF Register, SignIn, RefreshTokens, SignOut, Send
  <2>2. QED
    BY <2>1, OutsideSafe
<1>3. ASSUME NEW w \in Workers, \E m \in queue : Receive(w, m) PROVE Safe'
  BY <1>3, ReceiveSafe
<1>4. ASSUME NEW w \in Workers, Step(w) PROVE Safe'
  BY <1>4, ReadsSafe, OthersSafe, GetTokenSafe, SignSafe, InvalidateSafe, InsertSafe
     DEF Step, Reads
<1>5. ASSUME NEW w \in Workers, Fail(w) \/ Crash(w) PROVE Safe'
  BY <1>5, InterruptSafe
<1>6. CASE Tick
  BY <1>6, OutsideSafe DEF Tick, history
<1>7. QED
  BY <1>1, <1>2, <1>3, <1>4, <1>5, <1>6 DEF Next

LEMMA Invariance == Spec => []IInv
<1>1. Init => IInv
  BY InitTyped, InitSafe DEF IInv
<1>2. QED
  BY <1>1, NextSafe, PTL DEF Spec

-----------------------------------------------------------------------------
(* Keys, requests, calls and cookies keep their form, whatever is sent,    *)
(* retried or cut off; a request is never retried more than MaxRetries     *)
(* times.                                                                  *)
THEOREM TypeCorrect == Spec => []TypeOK
<1>1. IInv => TypeOK
  BY DEF IInv, Typed
<1>2. QED
  BY <1>1, Invariance, PTL

(* A refresh token that was replaced or deleted before the request with it *)
(* is taken up is refused at the validation at the latest: blacklisted or  *)
(* not, with any number of instances.                                      *)
THEOREM EndedStaysRefused == Spec => []EndedIsRefused
<1>1. IInv => EndedIsRefused
  BY DEF IInv, Safe
<1>2. QED
  BY <1>1, Invariance, PTL

(* A session goes by its expiry, by a sign-out or by a refresh cut off     *)
(* between its DEL and its SET, and by nothing else.                       *)
THEOREM SessionIsKept == Spec => []SessionKept
<1>1. IInv => SessionKept
  BY DEF IInv, Safe
<1>2. QED
  BY <1>1, Invariance, PTL

-----------------------------------------------------------------------------
(* Where a call of each operation stands, and where it goes from there.    *)
Stands(op, pc) ==
  /\ op = "register" => pc \in {"find_email", "save", "answer"}
  /\ op = "login" => pc \in {"find_user", "sign", "insert", "audit", "answer"}
  /\ op = "refresh" => pc \in {"verify", "validate", "invalidate", "blacklist", "sign",
                               "insert", "audit", "answer"}
  /\ op = "logout" => pc \in {"get_token", "invalidate", "blacklist", "answer"}

Follows(op, pc, next) ==
  /\ op = "register" => /\ pc = "find_email" => next = "save"
                        /\ pc = "save" => next = "answer"
  /\ op = "login" => /\ pc = "find_user" => next = "sign"
                     /\ pc = "sign" => next = "insert"
                     /\ pc = "insert" => next = "audit"
                     /\ pc = "audit" => next = "answer"
  /\ op = "refresh" => /\ pc = "verify" => next = "validate"
                       /\ pc = "validate" => next = "invalidate"
                       /\ pc = "invalidate" => next = "blacklist"
                       /\ pc = "blacklist" => next = "sign"
                       /\ pc = "sign" => next = "insert"
                       /\ pc = "insert" => next = "audit"
                       /\ pc = "audit" => next = "answer"
  /\ op = "logout" => /\ pc = "get_token" => next = "invalidate"
                      /\ pc = "invalidate" => next = "blacklist"
                      /\ pc = "blacklist" => next = "answer"

LEMMA Route ==
  ASSUME NEW op \in Ops, NEW n \in Nat, n >= 1
  PROVE  Stands(op, StepAt(op, n)) /\ Follows(op, StepAt(op, n), StepAt(op, n + 1))
<1>1. CASE op = "register"
  BY <1>1 DEF StepAt, Steps, Stands, Follows
<1>2. CASE op = "login"
  BY <1>2 DEF StepAt, Steps, Stands, Follows
<1>3. CASE op = "refresh"
  BY <1>3 DEF StepAt, Steps, Stands, Follows
<1>4. CASE op = "logout"
  BY <1>4 DEF StepAt, Steps, Stands, Follows
<1>5. QED
  BY <1>1, <1>2, <1>3, <1>4 DEF Ops

LEMMA Standing ==
  ASSUME Typed, NEW w \in Workers, Working(w)
  PROVE  /\ call[w].msg \in Messages /\ call[w].msg.op \in Ops
         /\ call[w].msg.session \in Sessions /\ call[w].msg.client \in Clients
         /\ call[w].msg.session[1] \in Users /\ call[w].msg.token \in Tokens
         /\ call[w].found \in Nat /\ call[w].new \in Tokens
         /\ Stands(call[w].msg.op, call[w].pc)
<1>1. call[w] \in Calls /\ call[w].at \in Nat /\ call[w].at >= 1
      /\ call[w].pc = StepAt(call[w].msg.op, call[w].at)
  BY AtWork DEF Typed, Positioned, Calls
<1>2. call[w].msg \in Messages /\ call[w].found \in Nat /\ call[w].new \in Tokens
  BY <1>1 DEF Calls
<1>3. /\ call[w].msg.op \in Ops /\ call[w].msg.session \in Sessions
      /\ call[w].msg.client \in Clients /\ call[w].msg.token \in Tokens
      /\ call[w].msg.session[1] \in Users
  BY <1>2 DEF Messages, Sessions
<1>4. QED
  BY <1>1, <1>2, <1>3, Route

(* What becomes of a call that goes on, whichever step it has taken.       *)
LEMMA Onward ==
  ASSUME Typed, NEW w \in Workers, Working(w), GoOn(w) \/ GetToken(w) \/ Sign(w)
  PROVE  /\ \A v \in Workers : v # w => call'[v] = call[v]
         /\ Working(w)' /\ call'[w].msg = call[w].msg
         /\ Follows(call[w].msg.op, call[w].pc, call'[w].pc)
         /\ GoOn(w) => call'[w].new = call[w].new /\ call'[w].found = call[w].found
         /\ GetToken(w) =>
              LET t == stored[call[w].msg.session] IN
              /\ call'[w].new = call[w].new
              /\ call'[w].found = IF Alive(t) THEN t.id ELSE 0
         /\ Sign(w) =>
              /\ call'[w].new = [id |-> issued + 1, until |-> now + RefreshTtl]
              /\ call'[w].found = call[w].found
<1>1. call[w].msg.op \in Ops /\ call[w].at \in Nat /\ call[w].at >= 1
      /\ call[w].pc = StepAt(call[w].msg.op, call[w].at)
  BY AtWork, Standing DEF Typed, Positioned, Calls
<1>2. /\ Proceed(w) \in Calls /\ Proceed(w).msg = call[w].msg /\ Proceed(w).new = call[w].new
      /\ Proceed(w).pc = StepAt(call[w].msg.op, call[w].at + 1)
  BY <1>1, Proceeds DEF Typed
<1>3. Proceed(w).found = call[w].found
  BY AtWork DEF Proceed, Calls, Typed
<1>4. Follows(call[w].msg.op, call[w].pc, Proceed(w).pc)
  BY <1>1, <1>2, Route
<1>5. /\ Proceed(w).pc # "idle"
      /\ call \in [Workers -> {Idle} \cup Calls]
  BY <1>2 DEF Calls, PCs, Typed, TypeOK
<1>6. CASE GoOn(w)
  <2>1. call' = [call EXCEPT ![w] = Proceed(w)]
    BY <1>6 DEF GoOn
  <2>2. call'[w] = Proceed(w) /\ \A v \in Workers : v # w => call'[v] = call[v]
    BY <1>5, <2>1
  <2>3. /\ GetToken(w) => call'[w].found =
             IF Alive(stored[call[w].msg.session]) THEN stored[call[w].msg.session].id ELSE 0
        /\ Sign(w) => call'[w].new = [id |-> issued + 1, until |-> now + RefreshTtl]
    BY <1>2, <1>5 DEF GetToken, Sign, Calls
  <2>4. QED
    BY <1>2, <1>3, <1>4, <1>5, <2>2, <2>3 DEF Working
<1>7. CASE GetToken(w)
  <2> DEFINE f == IF Alive(stored[call[w].msg.session])
                    THEN stored[call[w].msg.session].id ELSE 0
  <2>1. call' = [call EXCEPT ![w] = [Proceed(w) EXCEPT !.found = f]]
    BY <1>7 DEF GetToken
  <2> HIDE DEF f
  <2>2. /\ \A v \in Workers : v # w => call'[v] = call[v]
        /\ call'[w].found = f /\ call'[w].pc = Proceed(w).pc
        /\ call'[w].msg = Proceed(w).msg /\ call'[w].new = Proceed(w).new
    BY <1>2, <1>5, <2>1 DEF Calls
  <2>3. ~Sign(w)
    BY <1>7 DEF GetToken, Sign, At
  <2>4. GoOn(w) => call'[w].found = call[w].found
    BY <1>3, <1>5 DEF GoOn
  <2>5. QED
    BY <1>2, <1>4, <1>5, <2>2, <2>3, <2>4 DEF Working, f
<1>8. CASE Sign(w)
  <2> DEFINE t == [id |-> issued + 1, until |-> now + RefreshTtl]
  <2>1. call' = [call EXCEPT ![w] = [Proceed(w) EXCEPT !.new = t]]
    BY <1>8 DEF Sign
  <2> HIDE DEF t
  <2>2. /\ \A v \in Workers : v # w => call'[v] = call[v]
        /\ call'[w].found = Proceed(w).found /\ call'[w].pc = Proceed(w).pc
        /\ call'[w].msg = Proceed(w).msg /\ call'[w].new = t
    BY <1>2, <1>5, <2>1 DEF Calls
  <2>3. ~GetToken(w)
    BY <1>8 DEF GetToken, Sign, At
  <2>4. GoOn(w) => call'[w].new = call[w].new
    BY <1>2, <1>5 DEF GoOn
  <2>5. QED
    BY <1>2, <1>3, <1>4, <1>5, <2>2, <2>3, <2>4 DEF Working, t
<1>9. QED
  BY <1>6, <1>7, <1>8

-----------------------------------------------------------------------------
(* Registrations: a user who was told of one, or is about to be, has an    *)
(* account, and only the call whose save made it tells.                    *)
Registering(w, u) ==
  call[w].pc = "answer" /\ call[w].msg.op = "register" /\ call[w].msg.session[1] = u

Registrations ==
  \A u \in Users :
    /\ welcomed[u] <= 1 /\ (welcomed[u] # 0 => u \in users)
    /\ \A w \in Workers : Registering(w, u) => u \in users /\ welcomed[u] = 0
    /\ \A v, w \in Workers : Registering(v, u) /\ Registering(w, u) => v = w

(* A step by which nobody is told and nobody comes to the answer.          *)
LEMMA RegistrationsUntouched ==
  ASSUME Registrations, welcomed' = welcomed, users \subseteq users',
         \A w \in Workers, u \in Users : Registering(w, u)' => Registering(w, u)
  PROVE  Registrations'
BY DEF Registrations

LEMMA SaveRegisters ==
  ASSUME Typed, Registrations, NEW w \in Workers, Save(w)
  PROVE  Registrations'
<1> DEFINE r == call[w].msg.session[1]
<1>1. /\ Working(w) /\ call[w].pc = "save" /\ users' = users \cup {r}
      /\ welcomed' = welcomed
  BY DEF Save, At, Working, history
<1>2. r \in Users
  BY <1>1, Standing
<1>3. CASE IsTaken(r)
  <2>1. Stop(w)
    BY <1>3 DEF Save
  <2>2. \A v \in Workers, u \in Users : Registering(v, u)' => Registering(v, u)
    BY <2>1, Stopped DEF Registering, Idle
  <2>3. QED
    BY <1>1, <2>2, RegistrationsUntouched
<1>4. CASE ~IsTaken(r)
  <2>1. GoOn(w) /\ r \notin users
    BY <1>4 DEF Save, IsTaken
  <2>2. /\ \A v \in Workers : v # w => call'[v] = call[v]
        /\ call'[w].msg = call[w].msg
    BY <1>1, <2>1, Onward
  <2>3. \A v \in Workers, u \in Users : Registering(v, u)' =>
          Registering(v, u) \/ (v = w /\ u = r)
    BY <2>2 DEF Registering
  <2>4. welcomed[r] = 0 /\ \A v \in Workers : ~Registering(v, r)
    BY <1>2, <2>1 DEF Registrations
  <2>5. QED
    BY <1>1, <1>2, <2>3, <2>4 DEF Registrations
<1>5. QED
  BY <1>3, <1>4

LEMMA AnswerRegisters ==
  ASSUME Typed, Registrations, NEW w \in Workers, Answer(w)
  PROVE  Registrations'
<1> DEFINE r == call[w].msg.session[1]
<1>1. /\ Working(w) /\ call[w].pc = "answer" /\ users' = users /\ Stop(w)
  BY DEF Answer, At, Working
<1>2. r \in Users /\ welcomed \in [Users -> Nat]
  BY <1>1, Standing DEF Typed, TypeOK
<1>3. \A v \in Workers, u \in Users : Registering(v, u)' => Registering(v, u) /\ v # w
  BY <1>1, Stopped DEF Registering, Idle
<1>4. CASE welcomed' = welcomed
  BY <1>1, <1>3, <1>4, RegistrationsUntouched
<1>5. CASE welcomed' # welcomed
  <2>1. /\ call[w].msg.op = "register"
        /\ welcomed' = [welcomed EXCEPT ![r] = @ + 1]
    BY <1>5 DEF Answer
  <2>2. Registering(w, r)
    BY <1>1, <2>1 DEF Registering
  <2>3. /\ r \in users /\ welcomed[r] = 0
        /\ \A v \in Workers : Registering(v, r) => v = w
    BY <1>2, <2>2 DEF Registrations
  <2>4. welcomed'[r] = 1 /\ \A u \in Users \ {r} : welcomed'[u] = welcomed[u]
    BY <1>2, <2>1, <2>3
  <2>5. \A v \in Workers, u \in Users : u = r => ~Registering(v, u)'
    BY <1>2, <1>3, <2>3
  <2>6. ASSUME NEW u \in Users
        PROVE  /\ welcomed'[u] <= 1 /\ (welcomed'[u] # 0 => u \in users')
               /\ \A v \in Workers : Registering(v, u)' => u \in users' /\ welcomed'[u] = 0
               /\ \A x, v \in Workers : Registering(x, u)' /\ Registering(v, u)' => x = v
    <3>1. CASE u = r
      BY <1>1, <2>3, <2>4, <2>5, <3>1
    <3>2. CASE u # r
      BY <1>1, <1>3, <2>4, <3>2 DEF Registrations
    <3>3. QED
      BY <3>1, <3>2
  <2>7. QED
    BY <2>6 DEF Registrations
<1>6. QED
  BY <1>4, <1>5

LEMMA RegistrationsKept ==
  ASSUME Typed, Registrations, [Next]_vars
  PROVE  Registrations'
<1>1. CASE UNCHANGED vars
  BY <1>1, RegistrationsUntouched DEF vars, Registering
<1>2. ASSUME NEW c \in Clients,
             \/ Register(c) \/ SignOut(c)
             \/ \E right \in BOOLEAN : SignIn(c, right)
             \/ \E d \in Devices : RefreshTokens(c, d)
      PROVE  Registrations'
  <2>1. UNCHANGED <<call, users, welcomed>>
    BY <1>2 DEF Register, SignIn, RefreshTokens, SignOut, Send
  <2>2. QED
    BY <2>1, RegistrationsUntouched DEF Registering
<1>3. ASSUME NEW w \in Workers, NEW m \in queue, Receive(w, m) PROVE Registrations'
  <2>1. /\ \A v \in Workers : v # w => call'[v] = call[v]
        /\ call'[w].pc = StepAt(m.op, 1) /\ call'[w].msg = m
        /\ UNCHANGED <<users, welcomed>>
    BY <1>3 DEF Receive, Typed, TypeOK, history
  <2>2. m.op \in Ops
    BY DEF Typed, TypeOK, Messages
  <2>3. m.op = "register" => StepAt(m.op, 1) = "find_email"
    BY DEF StepAt, Steps
  <2>4. QED
    BY <2>1, <2>3, RegistrationsUntouched DEF Registering
<1>4. ASSUME NEW w \in Workers,
             \/ Reads(w) \/ GetToken(w) \/ Invalidate(w) \/ Blacklist(w) \/ Sign(w) \/ Insert(w)
      PROVE  Registrations'
  <2>1. /\ Working(w) /\ call[w].pc \notin {"save", "answer"}
        /\ UNCHANGED <<users, welcomed>>
        /\ GoOn(w) \/ GetToken(w) \/ Sign(w) \/ Stop(w)
    BY <1>4 DEF Reads, FindEmail, FindUser, Verify, Validate, Audit, GetToken, Invalidate,
                Blacklist, Sign, Insert, GoOnIf, At, Working, history
  <2>2. /\ \A v \in Workers : v # w => call'[v] = call[v]
        /\ call'[w].msg.op = "register" => call'[w].pc # "answer"
    <3>1. CASE Stop(w)
      BY <3>1, Stopped DEF Idle
    <3>2. CASE ~Stop(w)
      <4>1. /\ \A v \in Workers : v # w => call'[v] = call[v]
            /\ call'[w].msg = call[w].msg
            /\ Follows(call[w].msg.op, call[w].pc, call'[w].pc)
            /\ Stands(call[w].msg.op, call[w].pc)
        BY <2>1, <3>2, Onward, Standing
      <4>2. QED
        BY <2>1, <4>1 DEF Follows, Stands
    <3>3. QED
      BY <3>1, <3>2
  <2>3. QED
    BY <2>1, <2>2, RegistrationsUntouched DEF Registering
<1>5. ASSUME NEW w \in Workers, Save(w) \/ Answer(w) PROVE Registrations'
  BY <1>5, SaveRegisters, AnswerRegisters
<1>6. ASSUME NEW w \in Workers, Fail(w) \/ Crash(w) PROVE Registrations'
  <2>1. Stop(w) /\ UNCHANGED <<users, welcomed>>
    BY <1>6 DEF Fail, Crash, Interrupt
  <2>2. QED
    BY <2>1, Stopped, RegistrationsUntouched DEF Registering, Idle
<1>7. CASE Tick
  BY <1>7, RegistrationsUntouched DEF Tick, Registering, history
<1>8. QED
  BY <1>1, <1>2, <1>3, <1>4, <1>5, <1>6, <1>7 DEF Next, Step, Reads

(* However often a registration is sent, retried or delivered again, one   *)
(* per user is reported as done: the unique email decides, not the look-up *)
(* before it.                                                              *)
THEOREM RegistersOnce == Spec => []RegisteredOnce
<1>1. Init => Registrations
  BY DEF Init, Registrations, Registering, Idle
<1>2. IInv /\ Registrations /\ [Next]_vars => Registrations'
  BY RegistrationsKept DEF IInv
<1>3. Registrations => RegisteredOnce
  BY DEF Registrations, RegisteredOnce
<1>4. QED
  BY Invariance, <1>1, <1>2, <1>3, PTL DEF Spec

-----------------------------------------------------------------------------
(* Where ids come from: what clients, requests and the blacklist know was  *)
(* stored for the session in question, and is stored still or has ended;   *)
(* a call past its checks is about the session of its client, and a        *)
(* session that was ever stored belongs to an account.                     *)
Known(s, id) == id = 0 \/ id \in ended \/ id = stored[s].id

Addressed(m) ==
  /\ m.session[1] = UserOf[m.client]
  /\ m.op # "refresh" => m.session = SessionOf(m.client)
  /\ Known(SessionOf(m.client), m.token.id)

PastAccount(k) ==
  \/ k.msg.op \in {"login", "refresh"} /\ k.pc \in {"sign", "insert", "audit", "answer"}
  \/ k.msg.op = "refresh" /\ k.pc \in {"invalidate", "blacklist"}

CallKnown(w) ==
  LET k == call[w]
      s == k.msg.session
  IN
  /\ Addressed(k.msg) /\ Known(s, k.found)
  /\ k.pc # "verify" => s = SessionOf(k.msg.client)
  /\ PastAccount(k) => s[1] \in users
  /\ k.pc = "insert" => k.new.until <= now + RefreshTtl
  /\ k.pc \in {"audit", "answer"} /\ k.msg.op \in {"login", "refresh"} => Known(s, k.new.id)

AccountsFirst == \A s \in Sessions : stored[s].id # 0 => s[1] \in users
CookiesKnown ==
  \A c \in Clients : /\ Known(SessionOf(c), client[c].refresh.id)
                     /\ client[c].refresh.id # 0 => UserOf[c] \in users
QueueKnown == \A m \in queue : Addressed(m)
CallsKnown == \A w \in Workers : Working(w) => CallKnown(w)
BlacklistKnown == \A b \in blacklist : \E s \in Sessions : Known(s, b.id)

Traced == AccountsFirst /\ CookiesKnown /\ QueueKnown /\ CallsKnown /\ BlacklistKnown

LEMMA SessionsOfClients ==
  ASSUME NEW c \in Clients
  PROVE  /\ SessionOf(c) \in Sessions /\ SessionOf(c)[1] = UserOf[c]
         /\ SessionOf(c)[2] = DeviceOf[c] /\ UserOf[c] \in Users
BY AuthAssumption DEF SessionOf, Sessions

(* What is known stays known: an id is taken out of Redis into the ended   *)
(* ones only.                                                              *)
Lasting ==
  /\ users \subseteq users' /\ now <= now'
  /\ \A s \in Sessions, id \in Nat : Known(s, id) => Known(s, id)'

LEMMA KnownLasts ==
  ASSUME Typed, UNCHANGED <<stored, ended>>, users \subseteq users', now <= now'
  PROVE  Lasting
BY DEF Lasting, Known

LEMMA StoredLasts ==
  ASSUME Typed, NEW w \in Workers, Invalidate(w) \/ Insert(w)
  PROVE  Lasting
<1> DEFINE r == call[w].msg.session
<1>1. /\ Working(w) /\ users' = users /\ now' = now
      /\ ended' = ended \cup ({stored[r].id} \ {0})
      /\ \A s \in Sessions : s # r => stored'[s] = stored[s]
  <2>1. Working(w)
    BY DEF Invalidate, Insert, At, Working
  <2>2. r \in Sessions
    BY <2>1, Standing
  <2>3. QED
    BY <2>1, <2>2 DEF Invalidate, Insert, Typed, TypeOK
<1>2. now \in Nat
  BY DEF Typed, TypeOK
<1>3. QED
  BY <1>1, <1>2 DEF Lasting, Known

(* What does not change stays as it is.                                    *)
LEMMA AddressedLasts ==
  ASSUME Lasting, NEW m \in Messages, Addressed(m)
  PROVE  Addressed(m)'
<1>1. m.client \in Clients /\ m.token.id \in Nat
  BY DEF Messages, Tokens
<1>2. SessionOf(m.client) \in Sessions
  BY <1>1, SessionsOfClients
<1>3. QED
  BY <1>1, <1>2 DEF Addressed, Lasting, SessionOf

LEMMA CallKnownLasts ==
  ASSUME Typed, Lasting, now' \in Nat, NEW w \in Workers, Working(w), call'[w] = call[w],
         CallKnown(w)
  PROVE  CallKnown(w)'
<1>1. /\ call[w].msg \in Messages /\ call[w].msg.session \in Sessions
      /\ call[w].found \in Nat /\ call[w].new.id \in Nat /\ call[w].new.until \in Nat
      /\ now \in Nat
  BY Standing DEF Tokens, Typed, TypeOK
<1> DEFINE m == call[w].msg
<1>2. m \in Messages /\ Addressed(m)
  BY <1>1 DEF CallKnown
<1>3. \A n \in Messages : Addressed(n) => Addressed(n)'
  BY AddressedLasts
<1>4. Addressed(call[w].msg)'
  BY <1>2, <1>3 DEF Addressed, Known
<1>5. Known(call[w].msg.session, call[w].found)'
  BY <1>1 DEF CallKnown, Lasting, Known
<1>6. call[w].pc \in {"audit", "answer"} /\ call[w].msg.op \in {"login", "refresh"}
        => Known(call[w].msg.session, call[w].new.id)'
  BY <1>1 DEF CallKnown, Lasting, Known
<1>7. call[w].pc = "insert" => call[w].new.until <= now' + RefreshTtl
  BY <1>1, AuthAssumption DEF CallKnown, Lasting
<1>8. QED
  BY <1>4, <1>5, <1>6, <1>7 DEF CallKnown, Lasting, PastAccount, SessionOf

(* What one worker's step leaves to show.                                  *)
LEMMA TracedBut ==
  ASSUME Typed, Traced, Lasting, now' \in Nat, NEW w \in Workers,
         \A v \in Workers : v # w => call'[v] = call[v],
         Working(w)' => CallKnown(w)',
         queue' \subseteq queue, client' = client
  PROVE  CookiesKnown' /\ QueueKnown' /\ CallsKnown'
<1>1. CookiesKnown'
  <2> SUFFICES ASSUME NEW c \in Clients
               PROVE  /\ Known(SessionOf(c), client[c].refresh.id)'
                      /\ client[c].refresh.id # 0 => UserOf[c] \in users'
    BY DEF CookiesKnown
  <2>1. client[c].refresh.id \in Nat /\ SessionOf(c) \in Sessions
    BY SessionsOfClients DEF Typed, TypeOK, Tokens
  <2>2. QED
    BY <2>1 DEF Traced, CookiesKnown, Lasting, Known, SessionOf
<1>2. QueueKnown'
  BY AddressedLasts DEF Traced, QueueKnown, Typed, TypeOK
<1>3. CallsKnown'
  <2> SUFFICES ASSUME NEW v \in Workers, v # w, Working(v)' PROVE CallKnown(v)'
    BY DEF CallsKnown
  <2>1. call'[v] = call[v] /\ Working(v) /\ CallKnown(v)
    BY DEF Working, Traced, CallsKnown
  <2>2. QED
    BY <2>1, CallKnownLasts
<1>4. QED
  BY <1>1, <1>2, <1>3

LEMMA BlacklistLasts ==
  ASSUME Typed, Traced, Lasting, blacklist' = blacklist
  PROVE  BlacklistKnown'
BY DEF Traced, BlacklistKnown, Lasting, Typed, TypeOK, Tokens

(* A call that goes on knows no more than it did, but for what it read,    *)
(* made up or stored by this very step.                                    *)
LEMMA KnownOnward ==
  ASSUME Typed, Traced, Lasting, now' \in Nat, now' = now, NEW w \in Workers, Working(w),
         GoOn(w) \/ GetToken(w) \/ Sign(w),
         Sign(w) \/ call[w].pc # "sign", call[w].pc # "answer",
         GetToken(w) => UNCHANGED <<stored, ended>>,
         call[w].pc = "verify" => call[w].msg.session = SessionOf(call[w].msg.client),
         call[w].pc \in {"find_user", "validate"} => call[w].msg.session[1] \in users,
         call[w].pc = "insert" => Known(call[w].msg.session, call[w].new.id)'
  PROVE  CallKnown(w)'
<1>1. /\ call[w].msg \in Messages /\ call[w].msg.op \in Ops
      /\ call[w].msg.session \in Sessions /\ call[w].msg.client \in Clients
      /\ call[w].found \in Nat /\ call[w].new.id \in Nat /\ call[w].new.until \in Nat
      /\ now \in Nat /\ Stands(call[w].msg.op, call[w].pc)
      /\ stored \in [Sessions -> Tokens]
  BY Standing DEF Tokens, Typed, TypeOK
<1>2. CallKnown(w)
  BY DEF Traced, CallsKnown
<1>3. /\ Working(w)' /\ call'[w].msg = call[w].msg
      /\ Follows(call[w].msg.op, call[w].pc, call'[w].pc)
      /\ GoOn(w) => call'[w].new = call[w].new /\ call'[w].found = call[w].found
      /\ GetToken(w) =>
           LET t == stored[call[w].msg.session] IN
           /\ call'[w].new = call[w].new
           /\ call'[w].found = IF Alive(t) THEN t.id ELSE 0
      /\ Sign(w) =>
           /\ call'[w].new = [id |-> issued + 1, until |-> now + RefreshTtl]
           /\ call'[w].found = call[w].found
  BY Onward
<1>4. call[w].pc \in {"answer", "audit", "insert", "get_token"} =>
        ~Sign(w)
  BY DEF Sign, At
<1>5. Addressed(call[w].msg)'
  BY <1>1, <1>2, <1>3, AddressedLasts DEF CallKnown
<1>6. Known(call[w].msg.session, call[w].found)'
  <2>1. CASE GetToken(w)
    BY <1>1, <1>3, <2>1 DEF Known
  <2>2. CASE ~GetToken(w)
    BY <1>1, <1>2, <1>3, <2>2 DEF CallKnown, Lasting, Known
  <2>3. QED
    BY <2>1, <2>2
<1>7. call'[w].pc # "verify" => call'[w].msg.session = SessionOf(call'[w].msg.client)
  BY <1>2, <1>3 DEF CallKnown
<1>8. PastAccount(call'[w]) => call'[w].msg.session[1] \in users'
  BY <1>1, <1>2, <1>3 DEF CallKnown, PastAccount, Stands, Follows, Lasting
<1>9. call'[w].pc = "insert" => call'[w].new.until <= now' + RefreshTtl
  <2>1. CASE Sign(w)
    BY <1>1, <1>3, <2>1, AuthAssumption
  <2>2. CASE ~Sign(w)
    BY <1>1, <1>2, <1>3, <2>2 DEF Ops, Stands, Follows
  <2>3. QED
    BY <2>1, <2>2
<1>10. call'[w].pc \in {"audit", "answer"} /\ call'[w].msg.op \in {"login", "refresh"}
         => Known(call[w].msg.session, call[w].new.id)'
  BY <1>1, <1>2, <1>3, <1>4 DEF CallKnown, Stands, Follows, Lasting, Known
<1>11. QED
  BY <1>5, <1>6, <1>7, <1>8, <1>9, <1>10 DEF CallKnown, PastAccount, SessionOf

LEMMA SendTraced ==
  ASSUME Typed, Traced, NEW c \in Clients, NEW op \in Ops, NEW d \in Devices,
         NEW right \in BOOLEAN, NEW owned,
         Send(c, op, d, right, owned), op # "refresh" => d = DeviceOf[c]
  PROVE  Traced'
<1> DEFINE m == [id |-> env.requests, client |-> c, op |-> op,
                 session |-> <<UserOf[c], d>>, token |-> client[c].refresh,
                 right |-> right, retries |-> 0, failed |-> FALSE]
<1>1. /\ UNCHANGED <<now, users, stored, blacklist, call, client, ended>>
      /\ queue' = queue \cup {m}
  BY DEF Send
<1>2. Addressed(m)
  BY DEF Traced, CookiesKnown, Addressed, SessionOf
<1>3. QueueKnown'
  <2> SUFFICES ASSUME NEW n \in queue' PROVE Addressed(n)'
    BY DEF QueueKnown
  <2> HIDE DEF m
  <2>1. Addressed(n)
    BY <1>1, <1>2 DEF Traced, QueueKnown
  <2>2. QED
    BY <1>1, <2>1 DEF Addressed, Known, SessionOf
<1>4. AccountsFirst' /\ CookiesKnown' /\ BlacklistKnown'
  BY <1>1 DEF Traced, AccountsFirst, CookiesKnown, BlacklistKnown, Known, SessionOf
<1>5. CallsKnown'
  BY <1>1 DEF Traced, CallsKnown, CallKnown, Working, Addressed, Known, SessionOf, PastAccount
<1>6. QED
  BY <1>3, <1>4, <1>5 DEF Traced

LEMMA RequestsTraced ==
  ASSUME Typed, Traced, NEW c \in Clients,
         \/ Register(c) \/ SignOut(c)
         \/ \E right \in BOOLEAN : SignIn(c, right)
         \/ \E d \in Devices : RefreshTokens(c, d)
  PROVE  Traced'
<1>1. PICK op \in Ops, d \in Devices, right \in BOOLEAN :
        /\ \E owned : Send(c, op, d, right, owned)
        /\ op # "refresh" => d = DeviceOf[c]
  BY AuthAssumption DEF Register, SignOut, SignIn, RefreshTokens, Ops
<1>2. QED
  BY <1>1, SendTraced

LEMMA ReceiveTraced ==
  ASSUME Typed, Traced, NEW w \in Workers, NEW m \in queue, Receive(w, m)
  PROVE  Traced'
<1>1. /\ UNCHANGED <<now, users, stored, blacklist, client, ended>>
      /\ queue' \subseteq queue
      /\ \A v \in Workers : v # w => call'[v] = call[v]
      /\ call'[w].pc = StepAt(m.op, 1) /\ call'[w].msg = m /\ call'[w].found = 0
  BY DEF Receive, Typed, TypeOK, history
<1>2. Lasting /\ now' \in Nat
  BY <1>1, KnownLasts DEF Typed, TypeOK
<1>3. m \in Messages /\ m.op \in Ops /\ Addressed(m)
  BY DEF Typed, TypeOK, Messages, Traced, QueueKnown
<1>4. Addressed(m)'
  BY <1>2, <1>3, AddressedLasts
<1>5. StepAt(m.op, 1) \notin {"sign", "insert", "audit", "answer", "invalidate", "blacklist"}
      /\ (m.op = "refresh" => StepAt(m.op, 1) = "verify")
  BY <1>3 DEF StepAt, Steps, Ops
<1>6. CallKnown(w)'
  BY <1>1, <1>3, <1>4, <1>5 DEF CallKnown, PastAccount, Known, Addressed, SessionOf
<1>7. CookiesKnown' /\ QueueKnown' /\ CallsKnown'
  BY <1>1, <1>2, <1>6, TracedBut
<1>8. AccountsFirst' /\ BlacklistKnown'
  BY <1>1, <1>2, BlacklistLasts DEF Traced, AccountsFirst
<1>9. QED
  BY <1>7, <1>8 DEF Traced

(* Steps that leave the session keys and the blacklist alone.              *)
LEMMA PlainTraced ==
  ASSUME Typed, Traced, NEW w \in Workers,
         Reads(w) \/ GetToken(w) \/ Sign(w)
  PROVE  Traced'
<1>1. /\ UNCHANGED <<now, users, stored, blacklist, queue, client, ended>>
      /\ Working(w) /\ call[w].pc \notin {"answer", "insert"}
      /\ GoOn(w) \/ GetToken(w) \/ Sign(w) \/ Stop(w)
      /\ Sign(w) \/ call[w].pc # "sign"
  BY DEF Reads, FindEmail, FindUser, Verify, Validate, Audit, GetToken, Sign, GoOnIf, At,
         Working, history
<1>2. Lasting /\ now' \in Nat
  BY <1>1, KnownLasts DEF Typed, TypeOK
<1>3. \A v \in Workers : v # w => call'[v] = call[v]
  BY <1>1, Onward, Stopped
<1>4. Working(w)' => CallKnown(w)'
  <2>1. CASE Stop(w)
    BY <2>1, Stopped
  <2>2. CASE ~Stop(w)
    <3>1. call[w].msg.session \in Sessions /\ call[w].msg.client \in Clients
      BY <1>1, Standing
    <3>2. CallKnown(w)
      BY <1>1 DEF Traced, CallsKnown
    <3>3. call[w].pc = "verify" => call[w].msg.session = SessionOf(call[w].msg.client)
      <4> SUFFICES ASSUME call[w].pc = "verify"
                   PROVE  call[w].msg.session = SessionOf(call[w].msg.client)
        OBVIOUS
      <4>1. call[w].msg.session[2] = DeviceOf[call[w].msg.client]
        BY <2>2 DEF Reads, FindEmail, FindUser, Verify, Validate, Audit, GetToken, Sign,
                    GoOnIf, At
      <4>2. call[w].msg.session[1] = UserOf[call[w].msg.client]
        BY <3>2 DEF CallKnown, Addressed
      <4>3. QED
        BY <3>1, <4>1, <4>2 DEF Sessions, SessionOf
    <3>4. call[w].pc \in {"find_user", "validate"} => call[w].msg.session[1] \in users
      <4>1. call[w].pc = "find_user" => call[w].msg.session[1] \in users
        BY <2>2 DEF Reads, FindEmail, FindUser, Verify, Validate, Audit, GetToken, Sign,
                    GoOnIf, At
      <4>2. call[w].pc = "validate" => stored[call[w].msg.session].id # 0
        BY <2>2 DEF Reads, FindEmail, FindUser, Verify, Validate, Audit, GetToken, Sign,
                    GoOnIf, At, IsStored, Alive
      <4>3. QED
        BY <3>1, <4>1, <4>2 DEF Traced, AccountsFirst
    <3>5. QED
      BY <1>1, <1>2, <2>2, <3>3, <3>4, KnownOnward
  <2>3. QED
    BY <2>1, <2>2
<1>5. CookiesKnown' /\ QueueKnown' /\ CallsKnown'
  BY <1>1, <1>2, <1>3, <1>4, TracedBut
<1>6. AccountsFirst' /\ BlacklistKnown'
  BY <1>1, <1>2, BlacklistLasts DEF Traced, AccountsFirst
<1>7. QED
  BY <1>5, <1>6 DEF Traced

(* DEL and SET of a session key.                                           *)
LEMMA StoredTraced ==
  ASSUME Typed, Traced, NEW w \in Workers, Invalidate(w) \/ Insert(w)
  PROVE  Traced'
<1> DEFINE r == call[w].msg.session
<1>1. /\ UNCHANGED <<now, users, blacklist, queue, client>> /\ GoOn(w) /\ Working(w)
      /\ call[w].pc \in {"invalidate", "insert"}
      /\ call[w].pc = "invalidate" => Invalidate(w)
      /\ call[w].pc = "insert" => Insert(w)
  BY DEF Invalidate, Insert, At, Working
<1>2. /\ r \in Sessions /\ stored \in [Sessions -> Tokens]
      /\ Stands(call[w].msg.op, call[w].pc) /\ call[w].msg.op \in Ops
  BY <1>1, Standing DEF Typed, TypeOK
<1>3. Lasting /\ now' \in Nat
  BY <1>1, StoredLasts DEF Typed, TypeOK
<1>4. /\ \A s \in Sessions : s # r => stored'[s] = stored[s]
      /\ call[w].pc = "insert" => stored'[r].id = call[w].new.id
      /\ call[w].pc = "invalidate" => stored'[r].id = 0
  BY <1>1, <1>2 DEF Invalidate, Insert, NoToken
<1>5. AccountsFirst'
  <2>1. CallKnown(w)
    BY <1>1 DEF Traced, CallsKnown
  <2>2. call[w].pc = "insert" => r[1] \in users
    BY <1>2, <2>1 DEF CallKnown, PastAccount, Stands, Ops
  <2>3. QED
    BY <1>1, <1>4, <2>2 DEF Traced, AccountsFirst
<1>6. call[w].pc = "insert" => Known(call[w].msg.session, call[w].new.id)'
  BY <1>1, <1>4, Onward DEF Known
<1>7. CallKnown(w)'
  BY <1>1, <1>3, <1>6, KnownOnward DEF GetToken, Sign, At
<1>8. CookiesKnown' /\ QueueKnown' /\ CallsKnown'
  BY <1>1, <1>3, <1>7, TracedBut, Onward
<1>9. BlacklistKnown'
  BY <1>1, <1>3, BlacklistLasts
<1>10. QED
  BY <1>5, <1>8, <1>9 DEF Traced

LEMMA BlacklistTraced ==
  ASSUME Typed, Traced, NEW w \in Workers, Blacklist(w)
  PROVE  Traced'
<1> DEFINE m == call[w].msg
           id == IF m.op = "logout" THEN call[w].found ELSE m.token.id
<1>1. /\ UNCHANGED <<now, users, stored, ended, queue, client>> /\ GoOn(w) /\ Working(w)
      /\ call[w].pc = "blacklist"
      /\ blacklist' = {b \in blacklist : b.id # id}
                        \cup {[id |-> id, until |-> now + BlacklistTtl]}
  BY DEF Blacklist, At, Working, history
<1>2. Lasting /\ now' \in Nat
  BY <1>1, KnownLasts DEF Typed, TypeOK
<1>3. CallKnown(w)'
  BY <1>1, <1>2, KnownOnward DEF GetToken, Sign, At
<1>4. CookiesKnown' /\ QueueKnown' /\ CallsKnown'
  BY <1>1, <1>2, <1>3, TracedBut, Onward
<1>5. BlacklistKnown'
  <2>1. CallKnown(w) /\ m.session \in Sessions /\ m.client \in Clients
    BY <1>1, Standing DEF Traced, CallsKnown
  <2>2. \E s \in Sessions : Known(s, id)
    BY <2>1, SessionsOfClients DEF CallKnown, Addressed
  <2> HIDE DEF id
  <2>3. \A b \in blacklist' : b \in blacklist \/ b.id = id
    BY <1>1
  <2>4. QED
    BY <1>1, <2>2, <2>3 DEF Traced, BlacklistKnown, Known
<1>6. AccountsFirst'
  BY <1>1 DEF Traced, AccountsFirst
<1>7. QED
  BY <1>4, <1>5, <1>6 DEF Traced

(* A request that is sent to the retry queue is the same but for that.     *)
LEMMA AckAddressed ==
  ASSUME NEW m \in Messages, NEW n \in HandleAck(m)
  PROVE  /\ n \in Messages /\ n.op = m.op /\ n.session = m.session /\ n.client = m.client
         /\ n.token = m.token /\ n.right = m.right
<1>1. n \in Messages
  BY AckTyped
<1>2. n = [m EXCEPT !.retries = @ + 1, !.failed = TRUE]
  BY DEF HandleAck
<1>3. QED
  BY <1>1, <1>2 DEF Messages

LEMMA StopsTraced ==
  ASSUME Typed, Traced, NEW w \in Workers, Save(w) \/ Fail(w) \/ Crash(w)
  PROVE  Traced'
<1> DEFINE m == call[w].msg
<1>1. /\ UNCHANGED <<now, stored, blacklist, client, ended>> /\ users \subseteq users'
      /\ Working(w) /\ m \in Messages
      /\ \A n \in queue' : n \in queue \/ n \in HandleAck(m) \/ n = m
  <2>1. Working(w)
    BY DEF Save, Fail, Crash, Interrupt, At, Working
  <2>2. QED
    BY <2>1, Standing DEF Save, Fail, Crash, Interrupt, history
<1>2. Lasting /\ now' \in Nat
  BY <1>1, KnownLasts DEF Typed, TypeOK
<1>3. CallKnown(w)
  BY <1>1 DEF Traced, CallsKnown
<1>4. /\ \A v \in Workers : v # w => call'[v] = call[v]
      /\ Working(w)' => CallKnown(w)'
  <2>1. CASE Stop(w)
    BY <2>1, Stopped
  <2>2. CASE ~Stop(w)
    <3>1. GoOn(w) /\ call[w].pc = "save" /\ now' = now
      BY <2>2 DEF Save, Fail, Crash, Interrupt, At
    <3>2. QED
      BY <1>1, <1>2, <3>1, KnownOnward, Onward
  <2>3. QED
    BY <2>1, <2>2
<1>5. QueueKnown'
  <2> SUFFICES ASSUME NEW n \in queue' PROVE Addressed(n)'
    BY DEF QueueKnown
  <2>1. n \in Messages /\ Addressed(n)
    <3>1. CASE n \in queue
      BY <3>1 DEF Traced, QueueKnown, Typed, TypeOK
    <3>2. CASE n \in HandleAck(m)
      BY <1>1, <1>3, <3>2, AckAddressed DEF CallKnown, Addressed
    <3>3. CASE n = m
      BY <1>1, <1>3, <3>3 DEF CallKnown
    <3>4. QED
      BY <1>1, <3>1, <3>2, <3>3
  <2>2. QED
    BY <1>2, <2>1, AddressedLasts
<1>6. CallsKnown'
  <2> SUFFICES ASSUME NEW v \in Workers, v # w, Working(v)' PROVE CallKnown(v)'
    BY <1>4 DEF CallsKnown
  <2>1. call'[v] = call[v] /\ Working(v) /\ CallKnown(v)
    BY <1>4 DEF Working, Traced, CallsKnown
  <2>2. QED
    BY <1>2, <2>1, CallKnownLasts
<1>7. AccountsFirst' /\ CookiesKnown' /\ BlacklistKnown'
  BY <1>1 DEF Traced, AccountsFirst, CookiesKnown, BlacklistKnown, Known, SessionOf
<1>8. QED
  BY <1>5, <1>6, <1>7 DEF Traced

(* The cookies an answer sets are those of its client's session.           *)
LEMMA AnswerTraced ==
  ASSUME Typed, Traced, NEW w \in Workers, Answer(w)
  PROVE  Traced'
<1> DEFINE m == call[w].msg
           new == call[w].new
<1>1. /\ UNCHANGED <<now, users, stored, blacklist, queue, ended>>
      /\ Working(w) /\ call[w].pc = "answer" /\ Stop(w)
  BY DEF Answer, At, Working
<1>2. Lasting /\ now' \in Nat
  BY <1>1, KnownLasts DEF Typed, TypeOK
<1>3. /\ CallKnown(w) /\ m.client \in Clients /\ m.session = SessionOf(m.client)
      /\ m.session[1] = UserOf[m.client]
  BY <1>1, Standing DEF Traced, CallsKnown, CallKnown, Addressed
<1>4. \A c \in Clients :
        \/ client'[c].refresh = client[c].refresh
        \/ client'[c].refresh = NoToken
        \/ /\ c = m.client /\ client'[c].refresh = new
           /\ Known(m.session, new.id) /\ m.session[1] \in users
  BY <1>1, <1>3 DEF Answer, CookiesSet, CookiesCleared, CallKnown, PastAccount, Typed, TypeOK
<1>5. CookiesKnown'
  <2> SUFFICES ASSUME NEW c \in Clients
               PROVE  /\ Known(SessionOf(c), client'[c].refresh.id)
                      /\ client'[c].refresh.id # 0 => UserOf[c] \in users
    BY <1>1 DEF CookiesKnown, Known, SessionOf
  <2>1. CASE client'[c].refresh = client[c].refresh
    BY <2>1 DEF Traced, CookiesKnown
  <2>2. CASE client'[c].refresh = NoToken
    BY <2>2 DEF NoToken, Known
  <2>3. CASE /\ c = m.client /\ client'[c].refresh = new
             /\ Known(m.session, new.id) /\ m.session[1] \in users
    BY <1>3, <2>3
  <2>4. QED
    BY <1>4, <2>1, <2>2, <2>3
<1>6. QueueKnown' /\ AccountsFirst' /\ BlacklistKnown'
  BY <1>1 DEF Traced, QueueKnown, AccountsFirst, BlacklistKnown, Addressed, Known, SessionOf
<1>7. CallsKnown'
  <2> SUFFICES ASSUME NEW v \in Workers, Working(v)' PROVE CallKnown(v)'
    BY DEF CallsKnown
  <2>1. call'[v] = call[v] /\ Working(v) /\ CallKnown(v)
    BY <1>1, Stopped DEF Working, Traced, CallsKnown
  <2>2. QED
    BY <1>2, <2>1, CallKnownLasts
<1>8. QED
  BY <1>5, <1>6, <1>7 DEF Traced

LEMMA QuietTraced ==
  ASSUME Typed, Traced, Tick \/ UNCHANGED vars
  PROVE  Traced'
<1>1. /\ UNCHANGED <<users, stored, blacklist, client, ended, queue, call>>
      /\ now <= now' /\ now \in Nat /\ now' \in Nat
  BY DEF Tick, vars, history, Typed, TypeOK
<1>2. Lasting
  BY <1>1, KnownLasts
<1>3. CallsKnown'
  <2> SUFFICES ASSUME NEW v \in Workers, Working(v)' PROVE CallKnown(v)'
    BY DEF CallsKnown
  <2>1. call'[v] = call[v] /\ Working(v) /\ CallKnown(v)
    BY <1>1 DEF Working, Traced, CallsKnown
  <2>2. QED
    BY <1>1, <1>2, <2>1, CallKnownLasts
<1>4. QueueKnown' /\ AccountsFirst' /\ BlacklistKnown' /\ CookiesKnown'
  BY <1>1 DEF Traced, QueueKnown, AccountsFirst, CookiesKnown, BlacklistKnown, Addressed,
              Known, SessionOf
<1>5. QED
  BY <1>3, <1>4 DEF Traced

LEMMA NextTraced ==
  ASSUME Typed, Traced, [Next]_vars
  PROVE  Traced'
<1>1. CASE Tick \/ UNCHANGED vars
  BY <1>1, QuietTraced
<1>2. ASSUME NEW c \in Clients,
             \/ Register(c) \/ SignOut(c)
             \/ \E right \in BOOLEAN : SignIn(c, right)
             \/ \E d \in Devices : RefreshTokens(c, d)
      PROVE  Traced'
  BY <1>2, RequestsTraced
<1>3. ASSUME NEW w \in Workers, NEW m \in queue, Receive(w, m) PROVE Traced'
  BY <1>3, ReceiveTraced
<1>4. ASSUME NEW w \in Workers, Step(w) PROVE Traced'
  BY <1>4, PlainTraced, StoredTraced, BlacklistTraced, StopsTraced, AnswerTraced
     DEF Step, Reads
<1>5. ASSUME NEW w \in Workers, Fail(w) \/ Crash(w) PROVE Traced'
  BY <1>5, StopsTraced
<1>6. QED
  BY <1>1, <1>2, <1>3, <1>4, <1>5 DEF Next

LEMMA InitTraced == Init => Traced
BY AuthAssumption DEF Init, Traced, AccountsFirst, CookiesKnown, QueueKnown, CallsKnown,
   BlacklistKnown, Known, CookiesCleared, NoToken, Working, Idle

-----------------------------------------------------------------------------
(* A client alone with its session.  While nothing is in flight its token  *)
(* is Good and the stored one is its own (Calm); a request that has done   *)
(* nothing yet leaves it so or is the client's own sign-in (Harmless); one *)
(* that is past its checks is the client's own, and what it has stored is  *)
(* what it will answer (Underway).                                         *)
Good(s, token) ==
  Alive(token) => /\ stored[s].id = token.id /\ token.until <= stored[s].until
                  /\ ~Blacklisted(token.id)
Sole(s, c) ==
  \A d \in Clients : stored[s].id # 0 /\ client[d].refresh.id = stored[s].id => d = c
Calm(s, c) == Good(s, client[c].refresh) /\ Sole(s, c)

Harmless(s, c, m) ==
  IF m.op = "login" /\ m.right THEN m.client = c /\ ~m.failed
  ELSE /\ Calm(s, c)
       /\ m.op = "refresh" /\ stored[s].id # 0 /\ m.token.id = stored[s].id => m.client = c
       /\ m.op = "logout" => m.client = c /\ c \in Web
       /\ m.op # "register" => ~m.failed

Checking == {"find_email", "save", "find_user", "verify", "validate", "get_token"}

Underway(s, c, w) ==
  LET k == call[w]
      m == k.msg
  IN
  IF k.pc \in Checking \/ m.op = "register" THEN Harmless(s, c, m)
  ELSE /\ m.client = c /\ ~m.failed
       /\ m.op = "logout" => c \in Web /\ (k.pc # "invalidate" => stored[s].id = 0)
       /\ m.op # "logout" /\ k.pc \in {"audit", "answer"} =>
            stored[s].id = k.new.id /\ Good(s, k.new) /\ Sole(s, c)

OnIt(w, s) == Working(w) /\ call[w].msg.session = s
OneAtATime(s) ==
  /\ \A m, n \in queue : m.session = s /\ n.session = s => m = n
  /\ \A v, w \in Workers : OnIt(v, s) /\ OnIt(w, s) => v = w
  /\ \A m \in queue, w \in Workers : ~(m.session = s /\ OnIt(w, s))

Alone(s, c) ==
  /\ SessionOf(c) = s /\ OneAtATime(s)
  /\ ~InFlight(s) => Calm(s, c)
  /\ \A m \in queue : m.session = s => Harmless(s, c, m)
  /\ \A w \in Workers : OnIt(w, s) => Underway(s, c, w)

AloneSafe == \A s \in Sessions, c \in Clients : owner[s] = c => Alone(s, c)

(* What another session's request, or time, leaves of this one.            *)
Undisturbed(s, c) ==
  /\ stored'[s] = stored[s] /\ now <= now' /\ client'[c] = client[c]
  /\ \A d \in Clients :
       stored[s].id # 0 /\ client'[d].refresh.id = stored[s].id
         => client[d].refresh.id = stored[s].id
  /\ stored[s].id # 0 /\ Blacklisted(stored[s].id)' => Blacklisted(stored[s].id)

LEMMA GoodKept ==
  ASSUME NEW s \in Sessions, NEW c \in Clients, Undisturbed(s, c), now \in Nat, now' \in Nat,
         NEW token \in Tokens, Good(s, token)
  PROVE  Good(s, token)'
<1>1. token.until \in Nat
  BY DEF Tokens
<1>2. Alive(token)' => Alive(token)
  BY <1>1 DEF Alive, Undisturbed
<1>3. Alive(token) => token.id # 0
  BY DEF Alive
<1>4. Alive(token)' => stored[s].id = token.id /\ ~Blacklisted(stored[s].id)' /\
                       token.until <= stored[s].until
  BY <1>2, <1>3 DEF Good, Undisturbed
<1>5. Alive(token)' => ~Blacklisted(token.id)'
  BY <1>4 DEF Blacklisted, Undisturbed
<1>6. QED
  BY <1>4, <1>5 DEF Good, Undisturbed

LEMMA CalmKept ==
  ASSUME Typed, NEW s \in Sessions, NEW c \in Clients, Undisturbed(s, c), now' \in Nat
  PROVE  /\ Sole(s, c) => Sole(s, c)'
         /\ Calm(s, c) => Calm(s, c)'
         /\ \A m \in Messages : Harmless(s, c, m) => Harmless(s, c, m)'
<1>1. now \in Nat /\ client[c].refresh \in Tokens
  BY DEF Typed, TypeOK
<1>2. Sole(s, c) => Sole(s, c)'
  BY DEF Sole, Undisturbed
<1>3. Calm(s, c) => Calm(s, c)'
  <2> SUFFICES ASSUME Calm(s, c) PROVE Calm(s, c)'
    OBVIOUS
  <2>1. ASSUME NEW t \in Tokens, t = client[c].refresh PROVE Good(s, t)'
    BY <1>1, <2>1, GoodKept DEF Calm
  <2>2. client'[c].refresh = client[c].refresh
    BY DEF Undisturbed
  <2>3. Good(s, client[c].refresh)'
    BY <1>1, <2>1, <2>2 DEF Good, Alive, Blacklisted
  <2>4. QED
    BY <1>2, <2>3 DEF Calm
<1>4. \A m \in Messages : Harmless(s, c, m) => Harmless(s, c, m)'
  BY <1>3 DEF Harmless, Undisturbed
<1>5. QED
  BY <1>2, <1>3, <1>4

LEMMA UnderwayKept ==
  ASSUME Typed, NEW s \in Sessions, NEW c \in Clients, Undisturbed(s, c), now' \in Nat,
         NEW w \in Workers, Working(w), call'[w] = call[w], Underway(s, c, w)
  PROVE  Underway(s, c, w)'
<1>1. now \in Nat /\ call[w].new \in Tokens /\ call[w].msg \in Messages
  BY Standing DEF Typed, TypeOK
<1>2. \A t \in Tokens : Good(s, t) => Good(s, t)'
  BY <1>1, GoodKept
<1>3. /\ Sole(s, c) => Sole(s, c)'
      /\ \A m \in Messages : Harmless(s, c, m) => Harmless(s, c, m)'
  BY CalmKept
<1>4. Good(s, call[w].new) => Good(s, call[w].new)'
  BY <1>1, <1>2 DEF Good, Alive, Blacklisted
<1>5. Harmless(s, c, call[w].msg) => Harmless(s, c, call[w].msg)'
  BY <1>1, <1>3 DEF Harmless, Calm
<1>6. stored'[s] = stored[s]
  BY DEF Undisturbed
<1>7. QED
  BY <1>3, <1>4, <1>5, <1>6 DEF Underway

(* Three ways in which a client stays alone: the step is about another     *)
(* session, its one request goes on, or that request is over.              *)
LEMMA ElsewhereAlone ==
  ASSUME Typed, NEW s \in Sessions, NEW c \in Clients, Alone(s, c), Undisturbed(s, c),
         now' \in Nat,
         \A m \in queue' : m.session = s => m \in queue,
         \A m \in queue : m.session = s => m \in queue',
         \A v \in Workers : OnIt(v, s) \/ OnIt(v, s)' => call'[v] = call[v]
  PROVE  Alone(s, c)'
<1>1. \A v \in Workers : OnIt(v, s)' <=> OnIt(v, s)
  BY DEF OnIt, Working
<1>2. OneAtATime(s)'
  BY <1>1 DEF Alone, OneAtATime
<1>3. InFlight(s)' <=> InFlight(s)
  BY <1>1 DEF InFlight, OnIt
<1>4. ~InFlight(s)' => Calm(s, c)'
  BY <1>3, CalmKept DEF Alone
<1>5. \A m \in queue' : m.session = s => Harmless(s, c, m)'
  <2>1. \A m \in Messages : Harmless(s, c, m) => Harmless(s, c, m)'
    BY CalmKept
  <2>2. \A m \in queue : m \in Messages
    BY DEF Typed, TypeOK
  <2>3. QED
    BY <2>1, <2>2 DEF Alone
<1>6. ASSUME NEW v \in Workers, OnIt(v, s)' PROVE Underway(s, c, v)'
  <2>1. OnIt(v, s) /\ Working(v) /\ call'[v] = call[v]
    BY <1>1, <1>6 DEF OnIt
  <2>2. Underway(s, c, v)
    BY <2>1 DEF Alone
  <2>3. QED
    BY <2>1, <2>2, UnderwayKept
<1>7. SessionOf(c)' = s
  BY DEF Alone, SessionOf
<1>8. QED
  BY <1>2, <1>4, <1>5, <1>6, <1>7 DEF Alone

LEMMA GoesOnAlone ==
  ASSUME NEW s \in Sessions, NEW c \in Clients, Alone(s, c), NEW w \in Workers, OnIt(w, s),
         \A v \in Workers : v # w => call'[v] = call[v], queue' = queue,
         OnIt(w, s)', Underway(s, c, w)'
  PROVE  Alone(s, c)'
<1>1. /\ \A m \in queue : m.session # s
      /\ \A v \in Workers : OnIt(v, s) => v = w
  BY DEF Alone, OneAtATime
<1>2. \A v \in Workers : OnIt(v, s)' => v = w
  BY <1>1 DEF OnIt, Working
<1>3. InFlight(s)'
  BY DEF InFlight, OnIt
<1>4. OneAtATime(s)'
  BY <1>1, <1>2 DEF OneAtATime
<1>5. QED
  BY <1>1, <1>2, <1>3, <1>4 DEF Alone, SessionOf

LEMMA StopsAlone ==
  ASSUME NEW s \in Sessions, NEW c \in Clients, Alone(s, c), NEW w \in Workers, OnIt(w, s),
         \A v \in Workers : v # w => call'[v] = call[v], ~Working(w)',
         \A m \in queue' : m \notin queue => Harmless(s, c, m)',
         \A m, n \in queue' : m \notin queue /\ n \notin queue => m = n,
         Calm(s, c)'
  PROVE  Alone(s, c)'
<1>1. /\ \A m \in queue : m.session # s
      /\ \A v \in Workers : OnIt(v, s) => v = w
  BY DEF Alone, OneAtATime
<1>2. \A v \in Workers : ~OnIt(v, s)'
  BY <1>1 DEF OnIt, Working
<1>3. OneAtATime(s)'
  BY <1>1, <1>2 DEF OneAtATime
<1>4. QED
  BY <1>1, <1>2, <1>3 DEF Alone, SessionOf

-----------------------------------------------------------------------------
(* A request is sent to a session where nothing is in flight, or nobody is *)
(* taken for alone any more.                                               *)
LEMMA SendAlone ==
  ASSUME Typed, AloneSafe, NEW s \in Sessions, NEW c \in Clients,
         NEW by \in Clients, NEW op \in Ops, NEW d \in Devices, NEW right \in BOOLEAN,
         NEW owned, Send(by, op, d, right, owned), owner'[s] = c, c # None,
         owned = c /\ s = <<UserOf[by], d>> =>
           IF op = "login" /\ right THEN c = by /\ d = DeviceOf[by]
           ELSE owner[s] = c /\ (op = "logout" => c = by /\ c \in Web)
  PROVE  Alone(s, c)'
<1> DEFINE r == <<UserOf[by], d>>
           m == [id |-> env.requests, client |-> by, op |-> op,
                 session |-> r, token |-> client[by].refresh,
                 right |-> right, retries |-> 0, failed |-> FALSE]
<1>1. /\ UNCHANGED <<now, users, stored, blacklist, call, client, ended>>
      /\ queue' = queue \cup {m} /\ m.session = r
      /\ owner' = [owner EXCEPT ![r] = IF InFlight(r) THEN None ELSE owned]
  BY DEF Send
<1>2. r \in Sessions /\ owner \in [Sessions -> Clients \cup {None}] /\ now \in Nat
  BY AuthAssumption DEF Sessions, Typed, TypeOK
<1>3. Undisturbed(s, c)
  BY <1>1, <1>2 DEF Undisturbed, Blacklisted
<1>4. CASE s # r
  <2>1. Alone(s, c)
    BY <1>1, <1>2, <1>4 DEF AloneSafe
  <2> HIDE DEF m
  <2>2. QED
    BY <1>1, <1>2, <1>3, <1>4, <2>1, ElsewhereAlone
<1>5. CASE s = r
  <2>1. ~InFlight(s) /\ owned = c
    BY <1>1, <1>2, <1>5
  <2>2. \A n \in queue' : n.session = s => n = m
    BY <1>1, <2>1 DEF InFlight
  <2>3. \A v \in Workers : ~OnIt(v, s)'
    BY <1>1, <2>1 DEF InFlight, OnIt, Working
  <2>4. OneAtATime(s)' /\ InFlight(s)'
    <3>1. m \in queue' /\ m.session = s
      BY <1>1, <1>5
    <3> HIDE DEF m
    <3>2. QED
      BY <2>2, <2>3, <3>1 DEF OneAtATime, InFlight
  <2>5. SessionOf(c) = s /\ Harmless(s, c, m)
    <3>1. CASE op = "login" /\ right
      BY <1>5, <2>1, <3>1 DEF Harmless, SessionOf
    <3>2. CASE ~(op = "login" /\ right)
      <4>1. Alone(s, c) /\ Calm(s, c)
        BY <1>5, <2>1, <3>2 DEF AloneSafe, Alone
      <4>2. Sole(s, c)
        BY <4>1 DEF Calm
      <4>3. op = "logout" => by = c /\ c \in Web
        BY <1>5, <2>1, <3>2
      <4>4. QED
        BY <3>2, <4>1, <4>2, <4>3 DEF Harmless, Alone, Sole
    <3>3. QED
      BY <3>1, <3>2
  <2>6. \A n \in queue' : n.session = s => Harmless(s, c, n)'
    <3> HIDE DEF m
    <3>1. Harmless(s, c, m) => \A n \in queue' : n = m => Harmless(s, c, n)'
      BY <1>1 DEF Harmless, Calm, Good, Sole, Alive, Blacklisted
    <3>2. QED
      BY <2>2, <2>5, <3>1
  <2>7. QED
    BY <2>3, <2>4, <2>5, <2>6 DEF Alone, SessionOf
<1>6. QED
  BY <1>4, <1>5

LEMMA RequestsAlone ==
  ASSUME Typed, AloneSafe, NEW by \in Clients,
         \/ Register(by) \/ SignOut(by)
         \/ \E right \in BOOLEAN : SignIn(by, right)
         \/ \E d \in Devices : RefreshTokens(by, d)
  PROVE  AloneSafe'
<1> SUFFICES ASSUME NEW s \in Sessions, NEW c \in Clients, owner'[s] = c
             PROVE  Alone(s, c)'
  BY DEF AloneSafe
<1>1. c # None /\ DeviceOf[by] \in Devices /\ SessionOf(by) = <<UserOf[by], DeviceOf[by]>>
  BY AuthAssumption DEF SessionOf
<1>2. CASE Register(by)
  BY <1>1, <1>2, SendAlone DEF Register, Ops
<1>3. ASSUME NEW right \in BOOLEAN, SignIn(by, right) PROVE Alone(s, c)'
  BY <1>1, <1>3, SendAlone DEF SignIn, Ops
<1>4. ASSUME NEW d \in Devices, RefreshTokens(by, d) PROVE Alone(s, c)'
  <2> DEFINE owned == owner[<<UserOf[by], d>>]
  <2>1. Send(by, "refresh", d, TRUE, owned) /\ "refresh" \in Ops
    BY <1>4 DEF RefreshTokens, Ops
  <2>2. owned = c /\ s = <<UserOf[by], d>> => owner[s] = c
    OBVIOUS
  <2> HIDE DEF owned
  <2>3. QED
    BY <1>1, <2>1, <2>2, SendAlone
<1>5. CASE SignOut(by)
  <2> DEFINE owned == IF owner[SessionOf(by)] = by /\ by \in Web THEN by ELSE None
  <2>1. Send(by, "logout", DeviceOf[by], TRUE, owned) /\ "logout" \in Ops
    BY <1>5 DEF SignOut, Ops
  <2>2. owned = c /\ s = <<UserOf[by], DeviceOf[by]>> =>
          owner[s] = c /\ c = by /\ c \in Web
    BY <1>1
  <2> HIDE DEF owned
  <2>3. QED
    BY <1>1, <2>1, <2>2, SendAlone
<1>6. QED
  BY <1>2, <1>3, <1>4, <1>5

LEMMA ReceiveAlone ==
  ASSUME Typed, AloneSafe, NEW w \in Workers, NEW m \in queue, Receive(w, m)
  PROVE  AloneSafe'
<1> SUFFICES ASSUME NEW s \in Sessions, NEW c \in Clients, owner'[s] = c
             PROVE  Alone(s, c)'
  BY DEF AloneSafe
<1>1. /\ UNCHANGED <<now, users, stored, blacklist, client, ended, owner>>
      /\ queue' = queue \ {m} /\ ~Working(w)
      /\ \A v \in Workers : v # w => call'[v] = call[v]
      /\ call'[w].pc = StepAt(m.op, 1) /\ call'[w].msg = m
      /\ m \in Messages /\ m.op \in Ops /\ now \in Nat
  BY DEF Receive, Typed, TypeOK, Messages, history
<1>2. Alone(s, c)
  BY <1>1 DEF AloneSafe
<1>3. StepAt(m.op, 1) \in Checking
  BY <1>1 DEF StepAt, Steps, Ops, Checking
<1>4. Undisturbed(s, c)
  BY <1>1 DEF Undisturbed, Blacklisted
<1>5. OnIt(w, m.session)'
  BY <1>1, <1>3 DEF OnIt, Working, Checking
<1>6. CASE m.session # s
  <2>1. \A v \in Workers : OnIt(v, s) \/ OnIt(v, s)' => call'[v] = call[v]
    BY <1>1, <1>6 DEF OnIt
  <2>2. QED
    BY <1>1, <1>2, <1>4, <1>6, <2>1, ElsewhereAlone
<1>7. CASE m.session = s
  <2>1. /\ \A n \in queue : n.session = s => n = m
        /\ \A v \in Workers : ~OnIt(v, s)
    BY <1>2, <1>7 DEF Alone, OneAtATime
  <2>2. /\ \A n \in queue' : n.session # s
        /\ \A v \in Workers : OnIt(v, s)' => v = w
    BY <1>1, <2>1 DEF OnIt, Working
  <2>3. Underway(s, c, w)'
    <3>1. Harmless(s, c, m)
      BY <1>2, <1>7 DEF Alone
    <3>2. Harmless(s, c, m)'
      BY <1>1, <1>4, <3>1, CalmKept
    <3>3. QED
      BY <1>1, <1>3, <3>2 DEF Underway, Harmless, Calm, Good, Sole, Alive, Blacklisted
  <2>4. OneAtATime(s)' /\ InFlight(s)'
    BY <1>5, <1>7, <2>2 DEF OneAtATime, InFlight, OnIt
  <2>5. QED
    BY <1>2, <2>2, <2>3, <2>4 DEF Alone, SessionOf
<1>8. QED
  BY <1>6, <1>7

(* What a worker does for one session is nothing to the others: an id that *)
(* it blacklists or answers with is known for its own session only.        *)
LEMMA ForeignId ==
  ASSUME Fresh, NEW r \in Sessions, NEW s \in Sessions, r # s, NEW id, Known(r, id),
         stored[s].id # 0
  PROVE  id # stored[s].id
BY DEF Fresh, Known

LEMMA StepElsewhere ==
  ASSUME IInv, Traced, NEW w \in Workers, Step(w) \/ Fail(w) \/ Crash(w),
         NEW s \in Sessions, NEW c \in Clients, SessionOf(c) = s,
         call[w].msg.session # s
  PROVE  Undisturbed(s, c)
<1> DEFINE r == call[w].msg.session
           m == call[w].msg
<1>1. Typed /\ TypeOK /\ Fresh /\ now \in Nat /\ now' = now /\ Working(w)
  BY DEF IInv, Typed, TypeOK, Safe, Step, FindEmail, FindUser, Verify, Validate, GetToken,
         Invalidate, Blacklist, Sign, Insert, Audit, Answer, Save, Fail, Crash, Interrupt, At,
         Working
<1>2. r \in Sessions /\ m.client \in Clients /\ CallKnown(w)
  BY <1>1, Standing DEF Traced, CallsKnown
<1>3. CASE /\ UNCHANGED <<blacklist, client>>
           /\ stored'[s] = stored[s]
  BY <1>1, <1>3 DEF Undisturbed, Blacklisted
<1>4. CASE Invalidate(w) \/ Insert(w)
  <2>1. stored'[s] = stored[s] /\ UNCHANGED <<blacklist, client>>
    BY <1>1, <1>2, <1>4 DEF Invalidate, Insert, TypeOK
  <2>2. QED
    BY <1>3, <2>1
<1>5. CASE Blacklist(w)
  <2> DEFINE id == IF m.op = "logout" THEN call[w].found ELSE m.token.id
  <2>1. /\ UNCHANGED <<stored, client>> /\ call[w].pc = "blacklist"
        /\ blacklist' = {b \in blacklist : b.id # id}
                          \cup {[id |-> id, until |-> now + BlacklistTtl]}
    BY <1>5 DEF Blacklist, At
  <2>2. Known(r, id)
    BY <1>2, <2>1 DEF CallKnown, Addressed
  <2>3. stored[s].id # 0 => id # stored[s].id
    BY <1>1, <1>2, <2>2, ForeignId
  <2> HIDE DEF id
  <2>4. stored[s].id # 0 /\ Blacklisted(stored[s].id)' => Blacklisted(stored[s].id)
    BY <1>1, <2>1, <2>3 DEF Blacklisted
  <2>5. QED
    BY <1>1, <2>1, <2>4 DEF Undisturbed
<1>6. CASE Answer(w)
  <2>1. /\ UNCHANGED <<stored, blacklist>> /\ call[w].pc = "answer"
    BY <1>6 DEF Answer, At
  <2>2. m.client # c
    BY <1>2, <2>1 DEF CallKnown
  <2>3. \A d \in Clients :
          \/ client'[d] = client[d]
          \/ client'[d].refresh.id = 0
          \/ client'[d].refresh.id = call[w].new.id /\ Known(r, call[w].new.id)
    BY <1>1, <1>2, <1>6, <2>1 DEF Answer, CookiesSet, CookiesCleared, NoToken, CallKnown,
                                  TypeOK
  <2>4. \A d \in Clients :
          stored[s].id # 0 /\ client'[d].refresh.id = stored[s].id
            => client[d].refresh.id = stored[s].id
    BY <1>1, <1>2, <2>3, ForeignId
  <2>5. client'[c] = client[c]
    BY <1>1, <1>2, <1>6, <2>2 DEF Answer, TypeOK
  <2>6. QED
    BY <1>1, <2>1, <2>4, <2>5 DEF Undisturbed, Blacklisted
<1>7. CASE \/ FindEmail(w) \/ FindUser(w) \/ Verify(w) \/ Validate(w) \/ GetToken(w)
           \/ Sign(w) \/ Audit(w) \/ Save(w) \/ Fail(w) \/ Crash(w)
  <2>1. UNCHANGED <<blacklist, client, stored>>
    BY <1>7 DEF FindEmail, FindUser, Verify, Validate, GetToken, Sign, Audit, Save, Fail,
                Crash, Interrupt
  <2>2. QED
    BY <1>3, <2>1
<1>8. QED
  BY <1>4, <1>5, <1>6, <1>7 DEF Step

LEMMA ElsewhereSafe ==
  ASSUME IInv, Traced, NEW w \in Workers, Step(w) \/ Fail(w) \/ Crash(w),
         NEW s \in Sessions, NEW c \in Clients, Alone(s, c),
         call[w].msg.session # s
  PROVE  Alone(s, c)'
<1>1. Undisturbed(s, c) /\ SessionOf(c) = s
  BY StepElsewhere DEF Alone
<1>2. Typed /\ now' = now /\ now \in Nat /\ Working(w)
  BY DEF IInv, Typed, TypeOK, Safe, Step, FindEmail, FindUser, Verify, Validate, GetToken,
         Invalidate, Blacklist, Sign, Insert, Audit, Answer, Save, Fail, Crash, Interrupt, At,
         Working
<1>3. /\ \A v \in Workers : v # w => call'[v] = call[v]
      /\ ~Working(w)' \/ call'[w].msg = call[w].msg
  <2>1. GoOn(w) \/ GetToken(w) \/ Sign(w) \/ Stop(w)
    BY DEF Step, FindEmail, FindUser, Verify, Validate,
           Invalidate, Blacklist, Insert, Audit, Answer, Save, Fail, Crash, Interrupt, GoOnIf
  <2>2. QED
    BY <1>2, <2>1, Onward, Stopped
<1>4. \A v \in Workers : OnIt(v, s) \/ OnIt(v, s)' => call'[v] = call[v]
  BY <1>3 DEF OnIt
<1>5. call[w].msg \in Messages
  BY <1>2, Standing
<1>6. /\ queue \subseteq queue'
      /\ \A m \in queue' : m \in queue \/ m \in HandleAck(call[w].msg) \/ m = call[w].msg
  BY DEF Step, FindEmail, FindUser, Verify, Validate, GetToken, Invalidate, Blacklist, Sign,
         Insert, Audit, Answer, Save, Fail, Crash, Interrupt, history
<1>7. \A m \in queue' : m.session = s => m \in queue
  BY <1>5, <1>6, AckAddressed
<1>8. QED
  BY <1>1, <1>2, <1>4, <1>6, <1>7, ElsewhereAlone

-----------------------------------------------------------------------------
(* A worker's step for the session itself.                                 *)
LEMMA CalmSame ==
  ASSUME NEW s, NEW c, UNCHANGED <<now, stored, blacklist, client>>
  PROVE  /\ Calm(s, c) => Calm(s, c)'
         /\ Sole(s, c) => Sole(s, c)'
         /\ \A m : Harmless(s, c, m) => Harmless(s, c, m)'
         /\ \A t : Good(s, t) => Good(s, t)'
BY DEF Calm, Sole, Harmless, Good, Alive, Blacklisted

LEMMA NoAccount ==
  ASSUME Traced, NEW c \in Clients, NEW s \in Sessions, s = SessionOf(c), s[1] \notin users
  PROVE  Calm(s, c)
<1>1. stored[s].id = 0
  BY DEF Traced, AccountsFirst
<1>2. client[c].refresh.id = 0
  BY SessionsOfClients DEF Traced, CookiesKnown
<1>3. QED
  BY <1>1, <1>2 DEF Calm, Good, Sole, Alive

LEMMA ReadsHere ==
  ASSUME IInv, Traced, NEW w \in Workers,
         Reads(w) \/ GetToken(w) \/ Sign(w),
         NEW s, s = call[w].msg.session, NEW c \in Clients, Alone(s, c)
  PROVE  Alone(s, c)'
<1> DEFINE m == call[w].msg
<1>1. /\ Typed /\ Working(w) /\ UNCHANGED <<now, stored, blacklist, client, queue, users>>
      /\ s = SessionOf(c) /\ s \in Sessions /\ m.op \in Ops /\ Stands(m.op, call[w].pc)
      /\ Underway(s, c, w) /\ OnIt(w, s)
  <2>1. Typed /\ Working(w) /\ UNCHANGED <<now, stored, blacklist, client, queue, users>>
    BY DEF IInv, Reads, FindEmail, FindUser, Verify, Validate, Audit, GetToken, Sign, At,
           Working
  <2>2. QED
    BY <2>1, Standing DEF Alone, OnIt
<1>2. /\ Calm(s, c) => Calm(s, c)'
      /\ Sole(s, c) => Sole(s, c)'
      /\ \A n : Harmless(s, c, n) => Harmless(s, c, n)'
      /\ \A t : Good(s, t) => Good(s, t)'
  BY <1>1, CalmSame
<1>3. CASE Stop(w)
  <2>1. ~GetToken(w) /\ ~Sign(w)
    <3>1. GetToken(w) \/ Sign(w) => Working(w)'
      BY <1>1, Onward
    <3>2. ~Working(w)'
      BY <1>1, <1>3, Stopped
    <3>3. QED
      BY <3>1, <3>2
  <2>2. ~Audit(w)
    <3>1. Audit(w) => Working(w)'
      BY <1>1, Onward DEF Audit
    <3>2. ~Working(w)'
      BY <1>1, <1>3, Stopped
    <3>3. QED
      BY <3>1, <3>2
  <2>3. Calm(s, c)
    <3>1. CASE FindUser(w)
      <4>1. m.op = "login" /\ call[w].pc = "find_user"
        BY <1>1, <3>1 DEF FindUser, At, Stands, Ops
      <4>2. CASE m.right
        <5>1. s[1] \notin users
          <6>1. s[1] \in users => GoOn(w)
            BY <3>1, <4>2 DEF FindUser, GoOnIf
          <6>2. GoOn(w) => Working(w)'
            BY <1>1, Onward
          <6>3. QED
            BY <1>1, <1>3, <6>1, <6>2, Stopped
        <5>2. QED
          BY <1>1, <5>1, NoAccount
      <4>3. CASE ~m.right
        BY <1>1, <4>1, <4>3 DEF Underway, Checking, Harmless
      <4>4. QED
        BY <4>2, <4>3
    <3>2. CASE FindEmail(w) \/ Verify(w) \/ Validate(w)
      BY <1>1, <3>2 DEF FindEmail, Verify, Validate, At, Stands, Ops, Underway, Checking,
                        Harmless
    <3>3. QED
      BY <2>1, <2>2, <3>1, <3>2 DEF Reads
  <2>4. /\ \A v \in Workers : v # w => call'[v] = call[v]
        /\ ~Working(w)'
    BY <1>1, <1>3, Stopped
  <2>5. Calm(s, c)'
    BY <1>2, <2>3
  <2>6. \A n \in queue' : n \in queue
    BY <1>1
  <2>7. QED
    BY <1>1, <2>4, <2>5, <2>6, StopsAlone
<1>4. CASE GoOn(w) \/ GetToken(w) \/ Sign(w)
  <2>1. /\ \A v \in Workers : v # w => call'[v] = call[v]
        /\ Working(w)' /\ call'[w].msg = m /\ Follows(m.op, call[w].pc, call'[w].pc)
        /\ GoOn(w) => call'[w].new = call[w].new
    BY <1>1, <1>4, Onward
  <2>2. \/ /\ call[w].pc \in {"find_email", "verify"}
           /\ call'[w].pc \in Checking
        \/ /\ call[w].pc = "find_user" /\ call'[w].pc = "sign" /\ m.op = "login"
           /\ FindUser(w)
        \/ /\ call[w].pc = "validate" /\ call'[w].pc = "invalidate" /\ m.op = "refresh"
           /\ Validate(w)
        \/ /\ call[w].pc = "get_token" /\ call'[w].pc = "invalidate" /\ m.op = "logout"
        \/ /\ call[w].pc = "audit" /\ call'[w].pc = "answer" /\ m.op \in {"login", "refresh"}
           /\ GoOn(w)
        \/ /\ call[w].pc = "sign" /\ call'[w].pc = "insert" /\ m.op \in {"login", "refresh"}
    BY <1>1, <2>1 DEF Reads, FindEmail, FindUser, Verify, Validate, Audit, GetToken, Sign, At,
                      Stands, Follows, Ops, Checking
  <2>3. Underway(s, c, w)'
    <3>1. CASE call[w].pc \in {"find_email", "verify"} /\ call'[w].pc \in Checking
      <4>1. Harmless(s, c, m)
        BY <1>1, <3>1 DEF Underway, Checking
      <4>2. Harmless(s, c, call[w].msg)'
        BY <1>1, <1>2, <2>1, <4>1 DEF Harmless, Calm, Good, Sole, Alive, Blacklisted
      <4>3. QED
        BY <2>1, <3>1, <4>2 DEF Underway
    <3>2. CASE /\ call[w].pc = "find_user" /\ call'[w].pc = "sign" /\ m.op = "login"
               /\ FindUser(w)
      <4>1. m.right
        <5>1. ~m.right => Stop(w)
          BY <3>2 DEF FindUser, GoOnIf
        <5>2. QED
          BY <1>1, <2>1, <5>1, Stopped
      <4>2. m.client = c /\ ~m.failed
        BY <1>1, <3>2, <4>1 DEF Underway, Checking, Harmless
      <4>3. QED
        BY <2>1, <3>2, <4>2 DEF Underway, Checking
    <3>3. CASE /\ call[w].pc = "validate" /\ call'[w].pc = "invalidate" /\ m.op = "refresh"
               /\ Validate(w)
      <4>1. IsStored(s, m.token.id)
        <5>1. ~IsStored(s, m.token.id) => Stop(w)
          BY <3>3 DEF Validate, GoOnIf
        <5>2. QED
          BY <1>1, <2>1, <5>1, Stopped
      <4>2. m.client = c /\ ~m.failed
        BY <1>1, <3>3, <4>1 DEF Underway, Checking, Harmless, IsStored, Alive
      <4>3. QED
        BY <2>1, <3>3, <4>2 DEF Underway, Checking
    <3>4. CASE call[w].pc = "get_token" /\ call'[w].pc = "invalidate" /\ m.op = "logout"
      <4>1. m.client = c /\ ~m.failed /\ c \in Web
        BY <1>1, <3>4 DEF Underway, Checking, Harmless
      <4>2. QED
        BY <2>1, <3>4, <4>1 DEF Underway, Checking
    <3>5. CASE /\ call[w].pc = "audit" /\ call'[w].pc = "answer"
               /\ m.op \in {"login", "refresh"} /\ GoOn(w)
      <4>1. /\ m.client = c /\ ~m.failed /\ stored[s].id = call[w].new.id
            /\ Good(s, call[w].new) /\ Sole(s, c)
        BY <1>1, <3>5 DEF Underway, Checking
      <4>2. Good(s, call[w].new)' /\ Sole(s, c)'
        BY <1>1, <1>2, <2>1, <3>5, <4>1 DEF Good, Alive, Blacklisted
      <4>3. QED
        BY <1>1, <2>1, <3>5, <4>1, <4>2 DEF Underway, Checking
    <3>6. CASE /\ call[w].pc = "sign" /\ call'[w].pc = "insert"
               /\ m.op \in {"login", "refresh"}
      <4>1. m.client = c /\ ~m.failed
        BY <1>1, <3>6 DEF Underway, Checking
      <4>2. QED
        BY <2>1, <3>6, <4>1 DEF Underway, Checking
    <3>7. QED
      BY <2>2, <3>1, <3>2, <3>3, <3>4, <3>5, <3>6
  <2>4. OnIt(w, s)'
    BY <2>1 DEF OnIt
  <2>5. QED
    BY <1>1, <2>1, <2>3, <2>4, GoesOnAlone
<1>5. QED
  BY <1>3, <1>4 DEF Reads, FindEmail, FindUser, Verify, Validate, Audit, GoOnIf

LEMMA KeysHere ==
  ASSUME IInv, Traced, NEW w \in Workers,
         Invalidate(w) \/ Blacklist(w) \/ Insert(w),
         NEW s, s = call[w].msg.session, NEW c \in Clients, Alone(s, c)
  PROVE  Alone(s, c)'
<1> DEFINE m == call[w].msg
<1>1. /\ Typed /\ Working(w) /\ UNCHANGED <<now, client, queue, users>> /\ GoOn(w)
      /\ call[w].pc \in {"invalidate", "blacklist", "insert"}
      /\ call[w].pc = "invalidate" => Invalidate(w)
      /\ call[w].pc = "blacklist" => Blacklist(w)
      /\ call[w].pc = "insert" => Insert(w)
  BY DEF IInv, Invalidate, Blacklist, Insert, At, Working
<1>2. /\ s \in Sessions /\ m.op \in Ops /\ Stands(m.op, call[w].pc)
      /\ call[w].new \in Tokens /\ OnIt(w, s) /\ s = SessionOf(c)
      /\ stored \in [Sessions -> Tokens] /\ now \in Nat
  BY <1>1, Standing DEF Alone, OnIt, Typed, TypeOK
<1>3. /\ \A v \in Workers : v # w => call'[v] = call[v]
      /\ Working(w)' /\ call'[w].msg = m /\ Follows(m.op, call[w].pc, call'[w].pc)
      /\ call'[w].new = call[w].new
  BY <1>1, Onward
<1>4. /\ m.client = c /\ ~m.failed /\ m.op # "register"
      /\ m.op = "logout" => c \in Web /\ (call[w].pc # "invalidate" => stored[s].id = 0)
  <2>1. Underway(s, c, w) /\ m.op # "register"
    BY <1>1, <1>2 DEF Alone, Stands, Ops
  <2>2. QED
    BY <1>1, <2>1 DEF Underway, Checking
<1>5. CASE call[w].pc = "invalidate"
  <2>1. stored'[s].id = 0
    BY <1>1, <1>2, <1>5 DEF Invalidate, NoToken
  <2>2. call'[w].pc = "blacklist"
    BY <1>2, <1>3, <1>5 DEF Stands, Follows, Ops
  <2>3. Underway(s, c, w)'
    BY <1>3, <1>4, <2>1, <2>2 DEF Underway, Checking
  <2>4. QED
    BY <1>1, <1>2, <1>3, <2>3, GoesOnAlone DEF OnIt
<1>6. CASE call[w].pc = "blacklist"
  <2>1. stored'[s] = stored[s]
    BY <1>1, <1>6 DEF Blacklist
  <2>2. \/ m.op = "refresh" /\ call'[w].pc = "sign"
        \/ m.op = "logout" /\ call'[w].pc = "answer"
    BY <1>2, <1>3, <1>6 DEF Stands, Follows, Ops
  <2>3. Underway(s, c, w)'
    BY <1>3, <1>4, <1>6, <2>1, <2>2 DEF Underway, Checking
  <2>4. QED
    BY <1>1, <1>2, <1>3, <2>3, GoesOnAlone DEF OnIt
<1>7. CASE call[w].pc = "insert"
  <2> DEFINE new == call[w].new
  <2>1. /\ stored'[s] = [id |-> new.id, until |-> now + RefreshTtl]
        /\ UNCHANGED blacklist
    BY <1>1, <1>2, <1>7 DEF Insert, Expiry
  <2>2. /\ call'[w].pc = "audit" /\ m.op \in {"login", "refresh"}
    BY <1>2, <1>3, <1>7 DEF Stands, Follows, Ops
  <2>3. new.until <= now + RefreshTtl
    BY <1>1, <1>7 DEF Traced, CallsKnown, CallKnown
  <2>4. \A r \in Sessions : ~Known(r, new.id)
    BY <1>7 DEF IInv, Safe, Fresh, Known
  <2>5. \A b \in blacklist : b.id # new.id
    BY <2>4 DEF Traced, BlacklistKnown
  <2>6. \A d \in Clients : client[d].refresh.id # new.id
    BY <2>4, SessionsOfClients DEF Traced, CookiesKnown
  <2> HIDE DEF new
  <2>7. stored'[s].id = new.id /\ stored'[s].until = now + RefreshTtl
    BY <2>1
  <2>8. \A b \in blacklist' : b.id # call'[w].new.id
    BY <1>3, <2>1, <2>5 DEF new
  <2>9. new.until <= stored'[s].until
    BY <2>3, <2>7
  <2>10. Good(s, call[w].new)'
    BY <1>3, <2>7, <2>8, <2>9 DEF Good, new, Blacklisted
  <2>11. Sole(s, c)'
    BY <1>1, <2>6, <2>7 DEF Sole
  <2>12. Underway(s, c, w)'
    BY <1>3, <1>4, <2>2, <2>7, <2>10, <2>11 DEF Underway, Checking, new
  <2>13. QED
    BY <1>1, <1>2, <1>3, <2>12, GoesOnAlone DEF OnIt
<1>8. QED
  BY <1>1, <1>5, <1>6, <1>7

(* A registration is nothing to the session, not when it is sent to the    *)
(* retry queue either.                                                     *)
LEMMA SaveHere ==
  ASSUME IInv, Traced, NEW w \in Workers, Save(w),
         NEW s, s = call[w].msg.session, NEW c \in Clients, Alone(s, c)
  PROVE  Alone(s, c)'
<1> DEFINE m == call[w].msg
<1>1. /\ Typed /\ Working(w) /\ UNCHANGED <<now, stored, blacklist, client>>
      /\ call[w].pc = "save"
      /\ \/ queue' = queue \cup HandleAck(m) /\ Stop(w)
         \/ queue' = queue /\ GoOn(w)
  BY DEF IInv, Save, At, Working
<1>2. /\ s \in Sessions /\ m \in Messages /\ m.op \in Ops /\ Stands(m.op, call[w].pc)
      /\ OnIt(w, s) /\ s = SessionOf(c)
  BY <1>1, Standing DEF Alone, OnIt
<1>3. m.op = "register"
  BY <1>1, <1>2 DEF Stands, Ops
<1>4. Calm(s, c)
  BY <1>2, <1>3 DEF Alone, Underway, Harmless
<1>5. Calm(s, c)'
  BY <1>1, <1>4, CalmSame
<1>6. CASE Stop(w) /\ queue' = queue \cup HandleAck(m)
  <2>1. \A n \in queue' : n \notin queue => n \in HandleAck(m)
    BY <1>6
  <2>2. \A n \in HandleAck(m) : n.op = "register"
    BY <1>2, <1>3, AckAddressed
  <2>3. \A n \in queue' : n \notin queue => Harmless(s, c, n)'
    BY <1>5, <2>1, <2>2 DEF Harmless
  <2>4. \A n, k \in HandleAck(m) : n = k
    BY DEF HandleAck
  <2>5. \A n, k \in queue' : n \notin queue /\ k \notin queue => n = k
    BY <2>1, <2>4
  <2>6. /\ \A v \in Workers : v # w => call'[v] = call[v]
        /\ ~Working(w)'
    BY <1>1, <1>6, Stopped
  <2>7. QED
    BY <1>2, <1>5, <2>3, <2>5, <2>6, StopsAlone
<1>7. CASE GoOn(w) /\ queue' = queue
  <2>1. /\ \A v \in Workers : v # w => call'[v] = call[v]
        /\ Working(w)' /\ call'[w].msg = m
    BY <1>1, <1>7, Onward
  <2>2. Underway(s, c, w)'
    BY <1>3, <1>5, <2>1 DEF Underway, Harmless
  <2>3. QED
    BY <1>2, <1>7, <2>1, <2>2, GoesOnAlone DEF OnIt
<1>8. QED
  BY <1>1, <1>6, <1>7

(* The answer brings the client the token that is stored.                  *)
LEMMA AnswerHere ==
  ASSUME IInv, Traced, NEW w \in Workers, Answer(w),
         NEW s, s = call[w].msg.session, NEW c \in Clients, Alone(s, c)
  PROVE  Alone(s, c)'
<1> DEFINE m == call[w].msg
<1>1. /\ Typed /\ Working(w) /\ UNCHANGED <<now, stored, blacklist, queue>>
      /\ call[w].pc = "answer" /\ Stop(w)
  BY DEF IInv, Answer, At, Working
<1>2. /\ s \in Sessions /\ m.op \in Ops /\ Stands(m.op, call[w].pc)
      /\ m.client \in Clients
      /\ OnIt(w, s) /\ s = SessionOf(c) /\ Underway(s, c, w)
      /\ client \in [Clients -> [refresh : Tokens, access : Int]]
  BY <1>1, Standing DEF Alone, OnIt, Typed, TypeOK
<1>3. Calm(s, c)'
  <2>1. CASE m.op = "register"
    <3>1. Calm(s, c)
      BY <1>2, <2>1 DEF Underway, Harmless
    <3>2. client' = client
      BY <1>2, <2>1 DEF Answer
    <3>3. QED
      BY <1>1, <3>1, <3>2, CalmSame
  <2>2. CASE m.op \in {"login", "refresh"}
    <3>1. /\ m.client = c /\ ~m.failed /\ stored[s].id = call[w].new.id
          /\ Good(s, call[w].new) /\ Sole(s, c)
      BY <1>1, <1>2, <2>2 DEF Underway, Checking
    <3>2. /\ client'[c].refresh = call[w].new
          /\ \A d \in Clients : d # c => client'[d] = client[d]
      BY <1>2, <2>2, <3>1 DEF Answer, CookiesSet
    <3>3. Good(s, client[c].refresh)'
      BY <1>1, <3>1, <3>2 DEF Good, Alive, Blacklisted
    <3>4. Sole(s, c)'
      BY <1>1, <3>1, <3>2 DEF Sole
    <3>5. QED
      BY <3>3, <3>4 DEF Calm
  <2>3. CASE m.op = "logout"
    <3>1. m.client = c /\ ~m.failed /\ c \in Web /\ stored[s].id = 0
      BY <1>1, <1>2, <2>3 DEF Underway, Checking
    <3>2. client'[c].refresh.id = 0
      BY <1>2, <2>3, <3>1 DEF Answer, CookiesCleared, NoToken
    <3>3. QED
      BY <1>1, <3>1, <3>2 DEF Calm, Good, Sole, Alive
  <2>4. QED
    BY <1>2, <2>1, <2>2, <2>3 DEF Ops
<1>4. /\ \A v \in Workers : v # w => call'[v] = call[v]
      /\ ~Working(w)'
  BY <1>1, Stopped
<1>5. \A n \in queue' : n \in queue
  BY <1>1
<1>6. QED
  BY <1>2, <1>3, <1>4, <1>5, StopsAlone

LEMMA StepAlone ==
  ASSUME IInv, Traced, AloneSafe, NEW w \in Workers, Step(w)
  PROVE  AloneSafe'
<1> SUFFICES ASSUME NEW s \in Sessions, NEW c \in Clients, owner'[s] = c
             PROVE  Alone(s, c)'
  BY DEF AloneSafe
<1>1. owner' = owner
  BY DEF Step, FindEmail, FindUser, Verify, Validate, GetToken, Invalidate, Blacklist, Sign,
         Insert, Audit, Answer, Save, history
<1>2. Alone(s, c)
  BY <1>1 DEF AloneSafe
<1>3. CASE call[w].msg.session # s
  BY <1>2, <1>3, ElsewhereSafe
<1>4. CASE s = call[w].msg.session
  BY <1>2, <1>4, ReadsHere, KeysHere, SaveHere, AnswerHere DEF Step, Reads
<1>5. QED
  BY <1>3, <1>4

(* A failure is the end of it: nobody is taken for alone any more.         *)
LEMMA InterruptAlone ==
  ASSUME IInv, Traced, AloneSafe, NEW w \in Workers, Fail(w) \/ Crash(w)
  PROVE  AloneSafe'
<1> SUFFICES ASSUME NEW s \in Sessions, NEW c \in Clients, owner'[s] = c
             PROVE  Alone(s, c)'
  BY DEF AloneSafe
<1>1. owner' = [owner EXCEPT ![call[w].msg.session] = None]
  BY DEF Fail, Crash, Interrupt
<1>2. owner \in [Sessions -> Clients \cup {None}] /\ c # None
  BY AuthAssumption DEF IInv, Typed, TypeOK
<1>3. call[w].msg.session # s /\ owner[s] = c
  BY <1>1, <1>2
<1>4. Alone(s, c)
  BY <1>3 DEF AloneSafe
<1>5. QED
  BY <1>3, <1>4, ElsewhereSafe

LEMMA QuietAlone ==
  ASSUME Typed, AloneSafe, Tick \/ UNCHANGED vars
  PROVE  AloneSafe'
<1> SUFFICES ASSUME NEW s \in Sessions, NEW c \in Clients, owner'[s] = c
             PROVE  Alone(s, c)'
  BY DEF AloneSafe
<1>1. /\ UNCHANGED <<stored, blacklist, client, queue, call, owner>>
      /\ now <= now' /\ now \in Nat /\ now' \in Nat
  BY DEF Tick, vars, history, Typed, TypeOK
<1>2. Alone(s, c)
  BY <1>1 DEF AloneSafe
<1>3. Undisturbed(s, c)
  BY <1>1 DEF Undisturbed, Blacklisted, Typed, TypeOK, Tokens
<1>4. QED
  BY <1>1, <1>2, <1>3, ElsewhereAlone

LEMMA NextAlone ==
  ASSUME IInv, Traced, AloneSafe, [Next]_vars
  PROVE  AloneSafe'
<1>1. CASE Tick \/ UNCHANGED vars
  BY <1>1, QuietAlone DEF IInv
<1>2. ASSUME NEW c \in Clients,
             \/ Register(c) \/ SignOut(c)
             \/ \E right \in BOOLEAN : SignIn(c, right)
             \/ \E d \in Devices : RefreshTokens(c, d)
      PROVE  AloneSafe'
  BY <1>2, RequestsAlone DEF IInv
<1>3. ASSUME NEW w \in Workers, NEW m \in queue, Receive(w, m) PROVE AloneSafe'
  BY <1>3, ReceiveAlone DEF IInv
<1>4. ASSUME NEW w \in Workers, Step(w) PROVE AloneSafe'
  BY <1>4, StepAlone
<1>5. ASSUME NEW w \in Workers, Fail(w) \/ Crash(w) PROVE AloneSafe'
  BY <1>5, InterruptAlone
<1>6. QED
  BY <1>1, <1>2, <1>3, <1>4, <1>5 DEF Next

(* A client that has its device id to itself and sends one request at a    *)
(* time can go on with the token it has, whatever other sessions do        *)
(* meanwhile and however the instances share the work: validate finds its  *)
(* token, isBlacklisted does not.                                          *)
THEOREM AloneKeepsGoing == Spec => []AloneGoesOn
<1>1. Init => Traced /\ AloneSafe
  <2>1. Init => AloneSafe
    BY AuthAssumption DEF Init, AloneSafe
  <2>2. QED
    BY <2>1, InitTraced
<1>2. IInv /\ Traced /\ AloneSafe /\ [Next]_vars => Traced' /\ AloneSafe'
  BY NextTraced, NextAlone DEF IInv
<1>3. Typed /\ AloneSafe => AloneGoesOn
  <2> SUFFICES ASSUME Typed, AloneSafe, NEW c \in Clients, owner[SessionOf(c)] = c,
                      ~InFlight(SessionOf(c)), Alive(client[c].refresh)
               PROVE  LET s == SessionOf(c)
                          token == client[c].refresh
                      IN  stored[s].id = token.id /\ Alive(stored[s]) /\ ~Blacklisted(token.id)
    BY DEF AloneGoesOn
  <2> DEFINE s == SessionOf(c)
             token == client[c].refresh
  <2>1. s \in Sessions
    BY SessionsOfClients
  <2>2. stored[s].id = token.id /\ token.until <= stored[s].until /\ ~Blacklisted(token.id)
    BY <2>1 DEF AloneSafe, Alone, Calm, Good
  <2>3. now \in Nat /\ token.until \in Nat /\ stored[s].until \in Nat
    BY <2>1 DEF Typed, TypeOK, Tokens
  <2>4. Alive(stored[s])
    BY <2>2, <2>3 DEF Alive
  <2>5. QED
    BY <2>2, <2>4
<1>4. IInv => Typed
  BY DEF IInv
<1>5. QED
  BY Invariance, <1>1, <1>2, <1>3, <1>4, PTL DEF Spec
=============================================================================
