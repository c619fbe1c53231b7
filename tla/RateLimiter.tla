---------------------------- MODULE RateLimiter ----------------------------
(***************************************************************************)
(* RateLimiterService and RateLimiterGuard (@app/rate-limiter): a sliding  *)
(* window log in a Redis sorted set and a block key, per client and route, *)
(* used by several instances of the gateway.                               *)
(*                                                                         *)
(* One action is one Redis command, the Lua script being one.  Time passes *)
(* between the commands of a call, which goes on with the `now` it took at *)
(* its start.  Redis fails, and the call with it, wherever it waits.       *)
(*                                                                         *)
(* The members of the set, now:math.random(), are taken to be distinct; a  *)
(* Redis that seeds the generator alike for every script counts two calls  *)
(* of one millisecond once.                                                *)
(***************************************************************************)
EXTENDS Integers, FiniteSets

CONSTANTS
  Workers,        \* calls in progress, each on an instance of its own
  Skew,           \* how far the clock of a worker's instance is ahead
  Requests,       \* HTTP requests as the guard sees them
  Admin,          \* operations besides consume that are called
  Points,
  Duration,
  BlockDuration,  \* 0: not configured
  MaxDelay,       \* bound on what a call takes, in seconds
  MaxSkew,        \* bound on Skew
  MaxClock, MaxCalls, MaxFaults,  \* bounds of the instance
  None

ASSUME RateLimiterAssumption ==
  /\ Points \in Nat /\ Duration \in Nat \ {0} /\ BlockDuration \in Nat
  /\ MaxDelay \in Nat /\ MaxSkew \in Nat
  /\ MaxClock \in Nat /\ MaxCalls \in Nat /\ MaxFaults \in Nat
  /\ Skew \in [Workers -> 0 .. MaxSkew]
  /\ Admin \subseteq {"status", "reset", "block", "unblock", "delete"}

(* generateKey: the user, else the API key, else the address (a proxy's    *)
(* header, else the connection), and the route.                            *)
GenerateKey(r) ==
  [client |-> CASE r.user # "" -> <<"user", r.user>>
                [] r.user = "" /\ r.apiKey # "" -> <<"api", r.apiKey>>
                [] r.user = "" /\ r.apiKey = "" /\ r.forwardedFor # "" ->
                     <<"ip", r.forwardedFor>>
                [] OTHER -> <<"ip", r.ip>>,
   route |-> r.route]

Limited(r) == ~r.skip /\ r.config
LimitKeys == {GenerateKey(r) : r \in {x \in Requests : Limited(x)}}

VARIABLES
  clock,
  log,       \* the sorted set of a key
  logDrop,   \* when it expires
  block,     \* the block key of a key
  call,      \* what each worker is doing
  admitted,  \* history: calls the script let through
  counted,   \* history: the same since the sorted set was last deleted
  ban,       \* history: the block last written and not lifted
  env        \* bounds

redis == <<log, logDrop, block>>
history == <<admitted, counted, ban>>
vars == <<clock, redis, call, history, env>>

Entry == [id : Nat, score : Nat, when : Nat]
BlockKey == [until : Nat, drop : Nat]
KeysFound == [logs : SUBSET LimitKeys, blocks : SUBSET LimitKeys]

Idle == [pc |-> "idle"]
PCs == {"get_block", "del_block", "script", "set_block", "status",
        "del_log", "lift", "keys", "del_keys"}
Call == [pc : PCs, op : {"consume"} \cup Admin, key : LimitKeys, id : Nat,
         start : Nat, now : Nat, seen : {None} \cup BlockKey \cup KeysFound]

-----------------------------------------------------------------------------
TypeOK ==
  /\ clock \in Nat
  /\ log \in [LimitKeys -> SUBSET Entry]
  /\ logDrop \in [LimitKeys -> Nat]
  /\ block \in [LimitKeys -> {None} \cup BlockKey]
  /\ call \in [Workers -> {Idle} \cup Call]
  /\ admitted \in [LimitKeys -> SUBSET Entry]
  /\ counted \in [LimitKeys -> SUBSET Entry]
  /\ ban \in [LimitKeys -> {None} \cup BlockKey]
  /\ env \in [calls : Nat, faults : Nat]

Init ==
  /\ clock = 0
  /\ log = [k \in LimitKeys |-> {}]
  /\ logDrop = [k \in LimitKeys |-> 0]
  /\ block = [k \in LimitKeys |-> None]
  /\ call = [w \in Workers |-> Idle]
  /\ admitted = [k \in LimitKeys |-> {}]
  /\ counted = [k \in LimitKeys |-> {}]
  /\ ban = [k \in LimitKeys |-> None]
  /\ env = [calls |-> 0, faults |-> 0]

Goto(w, pc) == call' = [call EXCEPT ![w].pc = pc]
Return(w) == call' = [call EXCEPT ![w] = Idle]

Begin(w, op, k, pc) ==
  /\ call[w].pc = "idle"
  /\ env.calls < MaxCalls
  /\ env' = [env EXCEPT !.calls = @ + 1]
  /\ call' = [call EXCEPT ![w] =
       [pc |-> pc, op |-> op, key |-> k, id |-> env.calls, start |-> clock,
        now |-> clock + Skew[w], seen |-> None]]
  /\ UNCHANGED <<clock, redis, history>>

(* What a key's block lasts; 0 counts as not configured.                   *)
BlockFor == IF BlockDuration = 0 THEN Duration ELSE BlockDuration

(* Mutant: the entries that left the window are not removed.               *)
InWindowEver(set, now) == {e \in set : e.score >= 0 \/ now = 0}

(* ZREMRANGEBYSCORE key 0 windowStart.                                     *)
InWindow(set, now) == {e \in set : e.score > now - Duration}

-----------------------------------------------------------------------------
(* canActivate: a route that skips the limit or has none is let through.   *)
CanActivate(w, r) ==
  /\ Limited(r)
  /\ Begin(w, "consume", GenerateKey(r), "get_block")

(* consume: GET of the block key.                                          *)
GetBlock(w) ==
  LET b == block[call[w].key] IN
  /\ call[w].pc = "get_block"
  /\ \/ b = None /\ Goto(w, "script")
     \/ b # None /\ call[w].now < b.until /\ Return(w)
     \/ /\ b # None /\ call[w].now >= b.until
        /\ call' = [call EXCEPT ![w].pc = "del_block", ![w].seen = b]
  /\ UNCHANGED <<clock, redis, history, env>>

(* DEL of the block key, whatever it holds by now.                         *)
DelBlock(w) ==
  LET k == call[w].key IN
  /\ call[w].pc = "del_block"
  /\ block' = [block EXCEPT ![k] = None]
  /\ ban' = IF block[k] # call[w].seen THEN [ban EXCEPT ![k] = None] ELSE ban
  /\ Goto(w, "script")
  /\ UNCHANGED <<clock, log, logDrop, admitted, counted, env>>

(* Mutant: the limit is compared after the entry has been counted in.      *)
ScriptOffByOne(w) ==
  LET k == call[w].key
      kept == InWindow(log[k], call[w].now)
      e == [id |-> call[w].id, score |-> call[w].now, when |-> clock]
  IN
  /\ call[w].pc = "script"
  /\ Cardinality(kept) <= Points
  /\ log' = [log EXCEPT ![k] = kept \cup {e}]
  /\ logDrop' = [logDrop EXCEPT ![k] = clock + Duration + 1]
  /\ admitted' = [admitted EXCEPT ![k] = @ \cup {e}]
  /\ counted' = [counted EXCEPT ![k] = @ \cup {e}]
  /\ Return(w)
  /\ UNCHANGED <<clock, block, ban, env>>

(* The script: forget what left the window, count, and add or refuse.      *)
Script(w) ==
  LET k == call[w].key
      kept == InWindow(log[k], call[w].now)
      e == [id |-> call[w].id, score |-> call[w].now, when |-> clock]
  IN
  /\ call[w].pc = "script"
  /\ IF Cardinality(kept) < Points
       THEN /\ log' = [log EXCEPT ![k] = kept \cup {e}]
            /\ logDrop' = [logDrop EXCEPT ![k] = clock + Duration + 1]
            /\ admitted' = [admitted EXCEPT ![k] = @ \cup {e}]
            /\ counted' = [counted EXCEPT ![k] = @ \cup {e}]
            /\ Return(w)
       ELSE /\ log' = [log EXCEPT ![k] = kept]
            /\ Goto(w, "set_block")
            /\ UNCHANGED <<logDrop, admitted, counted>>
  /\ UNCHANGED <<clock, block, ban, env>>

(* Mutant: the seconds of SETEX are rounded down from just below.          *)
SetBlockShort(w) ==
  LET k == call[w].key
      drop == clock + BlockFor - 1
      until == call[w].now + BlockFor
  IN
  /\ call[w].pc = "set_block"
  /\ block' = [block EXCEPT ![k] = [until |-> until, drop |-> drop]]
  /\ ban' = [ban EXCEPT ![k] = [until |-> until, drop |-> drop]]
  /\ Return(w)
  /\ UNCHANGED <<clock, log, logDrop, admitted, counted, env>>

(* SETEX of the block key, by consume and by block.                        *)
SetBlock(w) ==
  LET k == call[w].key IN
  /\ call[w].pc = "set_block"
  /\ block' = [block EXCEPT ![k] =
       [until |-> call[w].now + BlockFor, drop |-> clock + BlockFor]]
  /\ ban' = [ban EXCEPT ![k] = [until |-> call[w].now + BlockFor, drop |-> clock + BlockFor]]
  /\ Return(w)
  /\ UNCHANGED <<clock, log, logDrop, admitted, counted, env>>

-----------------------------------------------------------------------------
(* getStatus also forgets what left the window.                            *)
GetStatus(w) ==
  /\ call[w].pc = "status"
  /\ log' = [log EXCEPT ![call[w].key] = InWindow(@, call[w].now)]
  /\ Return(w)
  /\ UNCHANGED <<clock, logDrop, block, history, env>>

(* DEL of the sorted set and DEL of the block key.                         *)
DeleteLogs(ks) ==
  /\ log' = [k \in LimitKeys |-> IF k \in ks THEN {} ELSE log[k]]
  /\ counted' = [k \in LimitKeys |-> IF k \in ks THEN {} ELSE counted[k]]

LiftBlocks(ks) ==
  /\ block' = [k \in LimitKeys |-> IF k \in ks THEN None ELSE block[k]]
  /\ ban' = [k \in LimitKeys |-> IF k \in ks THEN None ELSE ban[k]]

(* reset sends two DELs; unblock sends the second one only.                *)
ResetLog(w) ==
  /\ call[w].pc = "del_log"
  /\ DeleteLogs({call[w].key})
  /\ Goto(w, "lift")
  /\ UNCHANGED <<clock, logDrop, block, admitted, ban, env>>

Unblock(w) ==
  /\ call[w].pc = "lift"
  /\ LiftBlocks({call[w].key})
  /\ Return(w)
  /\ UNCHANGED <<clock, log, logDrop, admitted, counted, env>>

(* deletePattern deletes the keys KEYS has found, and no later ones.       *)
FindKeys(w) ==
  LET logs == {k \in LimitKeys : log[k] # {}}
      blocks == {k \in LimitKeys : block[k] # None}
  IN
  /\ call[w].pc = "keys"
  /\ IF logs \cup blocks = {}
       THEN Return(w)
       ELSE call' = [call EXCEPT ![w].pc = "del_keys",
                                 ![w].seen = [logs |-> logs, blocks |-> blocks]]
  /\ UNCHANGED <<clock, redis, history, env>>

DeletePattern(w) ==
  /\ call[w].pc = "del_keys"
  /\ DeleteLogs(call[w].seen.logs)
  /\ LiftBlocks(call[w].seen.blocks)
  /\ Return(w)
  /\ UNCHANGED <<clock, logDrop, admitted, env>>

FirstStep == [status |-> "status", reset |-> "del_log", block |-> "set_block",
              unblock |-> "lift", delete |-> "keys"]

Administrate(w, op, k) == Begin(w, op, k, FirstStep[op])

-----------------------------------------------------------------------------
(* A command fails or the instance stops: consume lets the request         *)
(* through, the others give up; nothing more is sent to Redis.             *)
Fails(w) ==
  /\ call[w].pc # "idle"
  /\ env.faults < MaxFaults
  /\ env' = [env EXCEPT !.faults = @ + 1]
  /\ Return(w)
  /\ UNCHANGED <<clock, redis, history>>

(* A second passes, in no call more than MaxDelay; Redis drops keys.       *)
Tick ==
  /\ clock < MaxClock
  /\ \A w \in Workers : call[w].pc # "idle" => clock < call[w].start + MaxDelay
  /\ clock' = clock + 1
  /\ log' = [k \in LimitKeys |-> IF logDrop[k] <= clock' THEN {} ELSE log[k]]
  /\ block' = [k \in LimitKeys |->
                 IF block[k] # None /\ block[k].drop <= clock' THEN None ELSE block[k]]
  /\ UNCHANGED <<logDrop, call, history, env>>

Step(w) ==
  \/ GetBlock(w) \/ DelBlock(w) \/ Script(w) \/ SetBlock(w) \/ GetStatus(w)
  \/ ResetLog(w) \/ Unblock(w) \/ FindKeys(w) \/ DeletePattern(w) \/ Fails(w)

Next ==
  \/ \E w \in Workers :
       \/ \E r \in Requests : CanActivate(w, r)
       \/ \E op \in Admin, k \in LimitKeys : Administrate(w, op, k)
       \/ Step(w)
  \/ Tick

Spec == Init /\ [][Next]_vars

-----------------------------------------------------------------------------
(* What a call may take and a clock may be ahead is taken off the window   *)
(* the limiter is configured with.                                         *)
Window == Duration - MaxDelay - MaxSkew

(* However calls of several instances overlap, dawdle with their `now` and *)
(* meet expiry, status and administration, the script lets through at most *)
(* Points calls per Window.                                                *)
WindowBound ==
  \A k \in LimitKeys :
    Cardinality({a \in counted[k] : a.when > clock - Window}) <= Points

(* A call is refused, and its client blocked, only after Points admissions *)
(* within its Duration, give or take the skew.                             *)
RefusalEarned ==
  \A w \in Workers :
    call[w].pc = "set_block" /\ call[w].op = "consume" =>
      Cardinality({a \in admitted[call[w].key] :
                     a.when > call[w].now - Duration - MaxSkew}) >= Points

(* A block stands until its time is up, less the skew, unless it was       *)
(* lifted or a call that had read an earlier block deleted it.             *)
BlockStands ==
  \A k \in LimitKeys :
    ban[k] # None /\ clock < ban[k].until - MaxSkew => block[k] = ban[k]
=============================================================================
