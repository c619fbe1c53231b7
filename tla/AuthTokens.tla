----------------------------- MODULE AuthTokens -----------------------------
(***************************************************************************)
(* auth-service: accounts and per-device sessions (AuthenticationService,  *)
(* RefreshTokenIdsStorage, RefreshTokenBlacklist), behind the gateway's    *)
(* AuthController and RmqHelper.handleAck.                                 *)
(*                                                                         *)
(* A session is a user and a device; Redis keeps the id of its one good    *)
(* refresh token.  Every operation is a request in auth_queue, worked on   *)
(* in its Steps, one await each; workers are the instances of the service, *)
(* which take one message at a time.                                       *)
(***************************************************************************)
EXTENDS Integers, Sequences

CONSTANTS
  Workers,       \* instances of auth-service
  Clients,       \* browsers and apps
  Web,           \* the browsers: clientType WEB
  Users, Devices,
  UserOf,        \* who uses a client
  DeviceOf,      \* the deviceId a client sends: '1234' unless it has one
  AccessTtl,     \* lifetimes of the two tokens
  RefreshTtl,
  BlacklistTtl,  \* 30 days, whatever RefreshTtl is
  MaxRetries,    \* handleAck's
  MaxClock, MaxRequests, MaxFaults,  \* bounds of the instance
  None

ASSUME AuthAssumption ==
  /\ Web \subseteq Clients
  /\ UserOf \in [Clients -> Users] /\ DeviceOf \in [Clients -> Devices]
  /\ AccessTtl \in Nat /\ RefreshTtl \in Nat /\ BlacklistTtl \in Nat
  /\ MaxRetries \in Nat /\ MaxClock \in Nat
  /\ MaxRequests \in Nat /\ MaxFaults \in Nat
  /\ None \notin Clients

VARIABLES
  now,
  users,       \* table users
  stored,      \* refresh-token:{user}:{device}
  blacklist,   \* the keys blacklist:{id} and when they expire
  queue,       \* requests on their way to the service or waiting for a retry
  call,        \* the request each worker is on
  client,      \* the cookies of each client
  issued,      \* token ids made up so far
  ended,       \* history: ids that were stored and then replaced or deleted
  cause,       \* history: why a session has no token
  owner,       \* history: the client alone with its session
  welcomed,    \* history: times a user was told to be registered
  env          \* bounds

vars == <<now, users, stored, blacklist, queue, call, client, issued,
          ended, cause, owner, welcomed, env>>
history == <<ended, cause, owner, welcomed>>

Sessions == Users \X Devices
Tokens == [id : Nat, until : Nat]
NoToken == [id |-> 0, until |-> 0]

(* Mutant: the new token is stored before the old one is deleted.          *)
StepsInsertFirst(op) ==
  CASE op = "register" -> <<"find_email", "save">>
    [] op = "login"    -> <<"find_user", "sign", "insert", "audit">>
    [] op = "refresh"  -> <<"verify", "validate", "sign", "insert", "invalidate",
                            "blacklist", "audit">>
    [] op = "logout"   -> <<"get_token", "invalidate", "blacklist">>

(* The awaits of register, signIn, refreshTokens and signOut, in order;    *)
(* sign, insert and audit are generateTokens.                              *)
Steps(op) ==
  CASE op = "register" -> <<"find_email", "save">>
    [] op = "login"    -> <<"find_user", "sign", "insert", "audit">>
    [] op = "refresh"  -> <<"verify", "validate", "invalidate", "blacklist", "sign",
                            "insert", "audit">>
    [] op = "logout"   -> <<"get_token", "invalidate", "blacklist">>

Ops == {"register", "login", "refresh", "logout"}
PCs == {"find_email", "save", "find_user", "verify", "validate", "get_token",
        "invalidate", "blacklist", "sign", "insert", "audit", "answer"}

(* Position n of the steps of an operation; after the last one, handleAck  *)
(* acknowledges the request and the answer is on its way.                  *)
StepAt(op, n) == IF n \in DOMAIN Steps(op) THEN Steps(op)[n] ELSE "answer"

Messages == [id : Nat, client : Clients, op : Ops, session : Sessions,
             token : Tokens, right : BOOLEAN, retries : 0 .. MaxRetries,
             failed : BOOLEAN]
Idle == [pc |-> "idle"]
Calls == [pc : PCs, at : Nat, msg : Messages, found : Nat, new : Tokens,
          stale : BOOLEAN]

SessionOf(c) == <<UserOf[c], DeviceOf[c]>>

(* The cookies of a browser, or what an app keeps: those the gateway sets  *)
(* after a login or a refresh, and none.                                   *)
CookiesSet(new) == [refresh |-> new, access |-> (new.until - RefreshTtl) + AccessTtl]
CookiesCleared == [refresh |-> NoToken, access |-> 0]

Working(w) == call[w].pc # "idle"
InFlight(s) == \/ \E m \in queue : m.session = s
               \/ \E w \in Workers : Working(w) /\ call[w].msg.session = s

Alive(token) == token.id # 0 /\ token.until > now
Blacklisted(id) == \E b \in blacklist : b.id = id /\ b.until > now

-----------------------------------------------------------------------------
TypeOK ==
  /\ now \in Nat /\ issued \in Nat
  /\ users \subseteq Users
  /\ stored \in [Sessions -> Tokens]
  /\ blacklist \subseteq Tokens
  /\ queue \subseteq Messages
  /\ call \in [Workers -> {Idle} \cup Calls]
  /\ client \in [Clients -> [refresh : Tokens, access : Int]]
  /\ ended \subseteq Nat
  /\ cause \in [Sessions -> {"never", "none", "logout", "cut"}]
  /\ owner \in [Sessions -> Clients \cup {None}]
  /\ welcomed \in [Users -> Nat]
  /\ env \in [requests : Nat, faults : Nat]

Init ==
  /\ now = 0 /\ issued = 0
  /\ users \in SUBSET Users
  /\ stored = [s \in Sessions |-> NoToken]
  /\ blacklist = {}
  /\ queue = {}
  /\ call = [w \in Workers |-> Idle]
  /\ client = [c \in Clients |-> CookiesCleared]
  /\ ended = {}
  /\ cause = [s \in Sessions |-> "never"]
  /\ owner = [s \in Sessions |-> None]
  /\ welcomed = [u \in Users |-> 0]
  /\ env = [requests |-> 0, faults |-> 0]

-----------------------------------------------------------------------------
(* AuthController: the gateway sends a client's request to auth_queue.     *)
Send(c, op, device, right, owned) ==
  LET s == <<UserOf[c], device>> IN
  /\ env.requests < MaxRequests
  /\ env' = [env EXCEPT !.requests = @ + 1]
  /\ queue' = queue \cup
       {[id |-> env.requests, client |-> c, op |-> op, session |-> s,
         token |-> client[c].refresh, right |-> right, retries |-> 0,
         failed |-> FALSE]}
  /\ owner' = [owner EXCEPT ![s] = IF InFlight(s) THEN None ELSE owned]
  /\ UNCHANGED <<now, users, stored, blacklist, call, client, issued,
                 ended, cause, welcomed>>

Register(c) == Send(c, "register", DeviceOf[c], TRUE, owner[SessionOf(c)])

SignIn(c, right) ==
  Send(c, "login", DeviceOf[c], right, IF right THEN c ELSE owner[SessionOf(c)])

(* The cookie of the device, or the token and deviceId an app sends.       *)
RefreshTokens(c, device) ==
  /\ client[c].refresh.id # 0
  /\ c \in Web => device = DeviceOf[c]
  /\ Send(c, "refresh", device, TRUE, owner[<<UserOf[c], device>>])

(* JwtAuthGuard: an access token that is still good.                       *)
CanActivate(c) == client[c].access > now

SignOut(c) ==
  /\ CanActivate(c)
  /\ Send(c, "logout", DeviceOf[c], TRUE,
          IF owner[SessionOf(c)] = c /\ c \in Web THEN c ELSE None)

(* A worker takes a request; prefetchCount is 1.                           *)
Receive(w, m) ==
  /\ ~Working(w) /\ m \in queue
  /\ queue' = queue \ {m}
  /\ call' = [call EXCEPT ![w] =
       [pc |-> StepAt(m.op, 1), at |-> 1, msg |-> m, found |-> 0,
        new |-> NoToken, stale |-> m.token.id \in ended]]
  /\ UNCHANGED <<now, users, stored, blacklist, client, issued, history, env>>

-----------------------------------------------------------------------------
At(w, pc) == call[w].pc = pc
Proceed(w) == LET c == call[w] IN
  [c EXCEPT !.pc = StepAt(c.msg.op, c.at + 1), !.at = @ + 1]
GoOn(w) == call' = [call EXCEPT ![w] = Proceed(w)]
Stop(w) == call' = [call EXCEPT ![w] = Idle]

(* An UnauthorizedException or ConflictException: handleAck acknowledges   *)
(* the request, and the client is told.                                    *)
GoOnIf(w, condition) == IF condition THEN GoOn(w) ELSE Stop(w)

(* register: findOne by email, then the hash and save.                     *)
FindEmail(w) ==
  /\ At(w, "find_email")
  /\ GoOnIf(w, call[w].msg.session[1] \notin users)
  /\ UNCHANGED <<now, users, stored, blacklist, queue, client, issued, history, env>>

(* signIn: findOneBy email and the comparison of the password.             *)
FindUser(w) ==
  /\ At(w, "find_user")
  /\ GoOnIf(w, call[w].msg.session[1] \in users /\ call[w].msg.right)
  /\ UNCHANGED <<now, users, stored, blacklist, queue, client, issued, history, env>>

(* refreshTokens: verifyAsync, the device and isBlacklisted.               *)
Verify(w) ==
  LET m == call[w].msg IN
  /\ At(w, "verify")
  /\ GoOnIf(w, /\ m.token.until > now
               /\ m.session[2] = DeviceOf[m.client]
               /\ ~Blacklisted(m.token.id))
  /\ UNCHANGED <<now, users, stored, blacklist, queue, client, issued, history, env>>

(* Mutant: any stored token will do.                                       *)
IsStoredAny(s, id) == Alive(stored[s]) /\ id # 0

IsStored(s, id) == Alive(stored[s]) /\ stored[s].id = id

(* refreshTokens: findOneByOrFail and validate.                            *)
Validate(w) ==
  LET m == call[w].msg IN
  /\ At(w, "validate")
  /\ GoOnIf(w, IsStored(m.session, m.token.id))
  /\ UNCHANGED <<now, users, stored, blacklist, queue, client, issued, history, env>>

(* signOut: getToken, which may find nothing.                              *)
GetToken(w) ==
  LET s == call[w].msg.session IN
  /\ At(w, "get_token")
  /\ call' = [call EXCEPT ![w] =
       [Proceed(w) EXCEPT !.found = IF Alive(stored[s]) THEN stored[s].id ELSE 0]]
  /\ UNCHANGED <<now, users, stored, blacklist, queue, client, issued, history, env>>

(* DEL of the session's token, whichever it is by now.                     *)
Invalidate(w) ==
  LET s == call[w].msg.session IN
  /\ At(w, "invalidate")
  /\ stored' = [stored EXCEPT ![s] = NoToken]
  /\ ended' = ended \cup ({stored[s].id} \ {0})
  /\ cause' = IF call[w].msg.op = "logout" THEN [cause EXCEPT ![s] = "logout"] ELSE cause
  /\ GoOn(w)
  /\ UNCHANGED <<now, users, blacklist, queue, client, issued, owner, welcomed, env>>

(* SET blacklist:{id}, which is blacklist:null when nothing was found.     *)
Blacklist(w) ==
  LET m == call[w].msg
      id == IF m.op = "logout" THEN call[w].found ELSE m.token.id
  IN
  /\ At(w, "blacklist")
  /\ blacklist' = {b \in blacklist : b.id # id}
                    \cup {[id |-> id, until |-> now + BlacklistTtl]}
  /\ GoOn(w)
  /\ UNCHANGED <<now, users, stored, queue, client, issued, history, env>>

(* generateTokens makes up an id and signs both tokens.                    *)
Sign(w) ==
  /\ At(w, "sign")
  /\ issued' = issued + 1
  /\ call' = [call EXCEPT ![w] =
       [Proceed(w) EXCEPT !.new = [id |-> issued + 1, until |-> now + RefreshTtl]]]
  /\ UNCHANGED <<now, users, stored, blacklist, queue, client, history, env>>

(* Mutant: the key of the session expires with the access token.           *)
ExpiryShort == now + AccessTtl

Expiry == now + RefreshTtl

(* SET refresh-token:{user}:{device} EX, whatever it was before.           *)
Insert(w) ==
  LET s == call[w].msg.session IN
  /\ At(w, "insert")
  /\ stored' = [stored EXCEPT ![s] = [id |-> call[w].new.id, until |-> Expiry]]
  /\ ended' = ended \cup ({stored[s].id} \ {0})
  /\ cause' = [cause EXCEPT ![s] = "none"]
  /\ GoOn(w)
  /\ UNCHANGED <<now, users, blacklist, queue, client, issued, owner, welcomed, env>>

(* logTokenGeneration and logSignInAttempt: rows nothing reads.            *)
Audit(w) ==
  /\ At(w, "audit")
  /\ GoOn(w)
  /\ UNCHANGED <<now, users, stored, blacklist, queue, client, issued, history, env>>

(* The answer reaches the client, unless it was told of a failure before:  *)
(* an RPC has one answer.  The gateway sets or clears a browser's cookies. *)
Answer(w) ==
  LET m == call[w].msg IN
  /\ At(w, "answer")
  /\ client' = [client EXCEPT ![m.client] =
       CASE m.failed -> @
         [] ~m.failed /\ m.op \in {"login", "refresh"} -> CookiesSet(call[w].new)
         [] ~m.failed /\ m.op = "logout" /\ m.client \in Web -> CookiesCleared
         [] OTHER -> @]
  /\ welcomed' = IF m.op = "register" /\ ~m.failed
                   THEN [welcomed EXCEPT ![m.session[1]] = @ + 1] ELSE welcomed
  /\ Stop(w)
  /\ UNCHANGED <<now, users, stored, blacklist, queue, issued, ended, cause, owner, env>>

-----------------------------------------------------------------------------
(* handleAck of an error that is not the client's: to the retry queue and  *)
(* back, until it has been there MaxRetries times.                         *)
HandleAck(m) ==
  IF m.retries >= MaxRetries THEN {}
  ELSE {[m EXCEPT !.retries = @ + 1, !.failed = TRUE]}

(* Mutant: an email that is taken is saved all the same.                   *)
IsTakenNever(u) == u \in users /\ u \notin Users

(* The unique constraint on users.email.                                   *)
IsTaken(u) == u \in users

(* save of an email another registration has saved: a database error.      *)
Save(w) ==
  LET m == call[w].msg
      u == m.session[1]
  IN
  /\ At(w, "save")
  /\ IF IsTaken(u)
       THEN queue' = queue \cup HandleAck(m) /\ Stop(w)
       ELSE UNCHANGED queue /\ GoOn(w)
  /\ users' = users \cup {u}
  /\ UNCHANGED <<now, stored, blacklist, client, issued, history, env>>

Interrupt(w) ==
  LET m == call[w].msg
      s == m.session
  IN
  /\ Working(w)
  /\ env.faults < MaxFaults
  /\ env' = [env EXCEPT !.faults = @ + 1]
  /\ owner' = [owner EXCEPT ![s] = None]
  /\ cause' = IF /\ m.op = "refresh" /\ stored[s].id = 0
                 /\ call[w].pc \in {"blacklist", "sign", "insert"}
                THEN [cause EXCEPT ![s] = "cut"] ELSE cause
  /\ Stop(w)
  /\ UNCHANGED <<now, users, stored, blacklist, client, issued, ended, welcomed>>

(* A step fails.  Until generateTokens, which it returns without awaiting, *)
(* refreshTokens makes an UnauthorizedException of any error.              *)
Fail(w) ==
  LET m == call[w].msg IN
  /\ ~At(w, "answer")
  /\ Interrupt(w)
  /\ queue' = IF m.op = "refresh" /\ call[w].pc \notin {"sign", "insert", "audit"}
                THEN queue ELSE queue \cup HandleAck(m)

(* An instance stops, before or after its acknowledgement: the request is  *)
(* delivered again, or its answer lost.                                    *)
Crash(w) ==
  /\ Interrupt(w)
  /\ \/ queue' = queue \cup {call[w].msg}
     \/ At(w, "answer") /\ UNCHANGED queue

Tick ==
  /\ now < MaxClock
  /\ now' = now + 1
  /\ UNCHANGED <<users, stored, blacklist, queue, call, client, issued, history, env>>

Step(w) ==
  \/ FindEmail(w) \/ Save(w) \/ FindUser(w)
  \/ Verify(w) \/ Validate(w) \/ GetToken(w) \/ Invalidate(w) \/ Blacklist(w)
  \/ Sign(w) \/ Insert(w) \/ Audit(w) \/ Answer(w)

Next ==
  \/ \E c \in Clients :
       \/ Register(c) \/ SignOut(c)
       \/ \E right \in BOOLEAN : SignIn(c, right)
       \/ \E d \in Devices : RefreshTokens(c, d)
  \/ \E w \in Workers :
       \/ \E m \in queue : Receive(w, m)
       \/ Step(w) \/ Fail(w) \/ Crash(w)
  \/ Tick

Spec == Init /\ [][Next]_vars

-----------------------------------------------------------------------------
(* A refresh token that was replaced or deleted before a request with it   *)
(* is taken up gets that request nothing, even when it is not blacklisted  *)
(* or no longer: a token is honoured twice only by refreshes that overlap. *)
EndedIsRefused ==
  \A w \in Workers :
    Working(w) /\ call[w].msg.op = "refresh" /\ call[w].stale
      => call[w].pc \in {"verify", "validate"}

(* Nothing but a sign-out takes a device's session away before it expires, *)
(* unless a refresh is interrupted between its DEL and its SET: refreshes, *)
(* sign-ins and retries may overlap as they like.                          *)
SessionKept ==
  \A s \in Sessions :
    stored[s].id = 0 /\ cause[s] = "none" =>
      \E w \in Workers :
        /\ Working(w) /\ call[w].msg.session = s /\ call[w].msg.op = "refresh"
        /\ call[w].pc \in {"blacklist", "sign", "insert"}

(* A client alone with its device id, that sends one request at a time and *)
(* meets no failure, can always go on with the token it has: it is stored  *)
(* for as long as the token is valid, and it is not blacklisted.           *)
AloneGoesOn ==
  \A c \in Clients :
    LET s == SessionOf(c)
        token == client[c].refresh
    IN owner[s] = c /\ ~InFlight(s) /\ Alive(token) =>
         stored[s].id = token.id /\ Alive(stored[s]) /\ ~Blacklisted(token.id)

(* However often it is sent and retried, one registration per user is      *)
(* reported as done.                                                       *)
RegisteredOnce == \A u \in Users : welcomed[u] <= 1
=============================================================================
