------------------------- MODULE RateLimiterProofs -------------------------
(***************************************************************************)
(* The types of RateLimiter and the bound of the sliding window, for any   *)
(* number of instances, any skew and delay and any configuration.          *)
(*                                                                         *)
(* WindowBound follows from two facts about the sorted set: it never holds *)
(* more than Points entries, and nothing that is younger than Window has   *)
(* left it.  The second one needs to know how far the score of an entry    *)
(* and the `now` of a call may be off.  RefusalEarned needs the converse,  *)
(* that what is in the set was admitted, and BlockStands what a call that  *)
(* is about to delete a block has read.                                    *)
(***************************************************************************)
EXTENDS RateLimiter, FiniteSetTheorems, TLAPS

(* A call is not older than MaxDelay and its `now` at most MaxSkew ahead.  *)
CallsPrompt ==
  \A w \in Workers :
    call[w].pc # "idle" =>
      /\ call[w].start <= clock /\ clock <= call[w].start + MaxDelay
      /\ call[w].start <= call[w].now /\ call[w].now <= call[w].start + MaxSkew

LogSmall == \A k \in LimitKeys : IsFiniteSet(log[k]) /\ Cardinality(log[k]) <= Points

CountedKept ==
  \A k \in LimitKeys : \A a \in counted[k] :
    /\ a.when <= clock /\ a.when - MaxDelay <= a.score
    /\ a.when + Duration + 1 <= logDrop[k]
    /\ a.when > clock - Window => a \in log[k]

IInv == TypeOK /\ CallsPrompt /\ LogSmall /\ CountedKept

-----------------------------------------------------------------------------
(* What Begin records of a call is of the type of a call.                  *)
LEMMA BeginTyped ==
  ASSUME IInv, NEW w \in Workers, NEW op \in {"consume"} \cup Admin, NEW k \in LimitKeys,
         NEW pc \in PCs, Begin(w, op, k, pc)
  PROVE  IInv'
<1>1. /\ Skew[w] \in Nat /\ Skew[w] <= MaxSkew /\ MaxDelay \in Nat
      /\ clock \in Nat /\ env.calls \in Nat /\ env \in [calls : Nat, faults : Nat]
  BY RateLimiterAssumption DEF IInv, TypeOK
<1> DEFINE c == [pc |-> pc, op |-> op, key |-> k, id |-> env.calls, start |-> clock,
                 now |-> clock + Skew[w], seen |-> None]
<1>2. c \in Call
  BY <1>1 DEF Call
<1>3. /\ call' = [call EXCEPT ![w] = c]
      /\ env' = [env EXCEPT !.calls = @ + 1]
      /\ UNCHANGED <<clock, redis, history>>
  BY DEF Begin
<1>4. TypeOK'
  BY <1>1, <1>2, <1>3 DEF IInv, TypeOK, redis, history
<1>5. CallsPrompt'
  <2> SUFFICES ASSUME NEW v \in Workers, call'[v].pc # "idle"
               PROVE  /\ call'[v].start <= clock' /\ clock' <= call'[v].start + MaxDelay
                      /\ call'[v].start <= call'[v].now /\ call'[v].now <= call'[v].start + MaxSkew
    BY DEF CallsPrompt
  <2>1. CASE v = w
    <3>1. call'[v] = c
      BY <2>1, <1>3 DEF IInv, TypeOK
    <3>2. call'[v].start = clock /\ call'[v].now = clock + Skew[w] /\ clock' = clock
      BY <3>1, <1>3
    <3>3. Skew[w] \in Nat /\ MaxSkew \in Nat /\ MaxDelay \in Nat /\ clock \in Nat
      BY <1>1, RateLimiterAssumption
    <3> QED BY <3>2, <3>3, <1>1
  <2>2. CASE v # w
    BY <2>2, <1>3 DEF IInv, TypeOK, CallsPrompt, redis, history
  <2> QED BY <2>1, <2>2
<1>6. LogSmall' /\ CountedKept'
  BY <1>3 DEF IInv, LogSmall, CountedKept, redis, history, Window
<1> QED BY <1>4, <1>5, <1>6 DEF IInv

(* A worker that is not idle has a call of the type of calls.              *)
LEMMA CallTyped ==
  ASSUME TypeOK, NEW w \in Workers, call[w].pc # "idle"
  PROVE  /\ call[w] \in Call
         /\ call[w].key \in LimitKeys /\ call[w].pc \in PCs
         /\ call[w].start \in Nat /\ call[w].now \in Nat /\ call[w].id \in Nat
         /\ call[w].seen \in {None} \cup BlockKey \cup KeysFound
<1>1. call[w] \in Call
  BY DEF TypeOK, Idle
<1> QED BY <1>1 DEF Call

(* Going to another step of a call, or returning, keeps calls well-typed   *)
(* and prompt, as long as no time passes.                                  *)
LEMMA CallMoves ==
  ASSUME IInv, NEW w \in Workers, call[w].pc # "idle", clock' = clock,
         \/ Return(w)
         \/ \E pc \in PCs : Goto(w, pc)
         \/ \E pc \in PCs, x \in BlockKey \cup KeysFound :
              call' = [call EXCEPT ![w].pc = pc, ![w].seen = x]
  PROVE  call' \in [Workers -> {Idle} \cup Call] /\ CallsPrompt'
<1>1. call[w] \in Call /\ call \in [Workers -> {Idle} \cup Call] /\ CallsPrompt
  BY CallTyped DEF IInv, TypeOK
<1>2. CASE Return(w)
  <2>1. call' \in [Workers -> {Idle} \cup Call]
    BY <1>1, <1>2 DEF Return
  <2>2. CallsPrompt'
    BY <1>1, <1>2 DEF Return, CallsPrompt, Idle
  <2> QED BY <2>1, <2>2
<1>3. CASE \E pc \in PCs : Goto(w, pc)
  <2> PICK pc \in PCs : call' = [call EXCEPT ![w].pc = pc]
    BY <1>3 DEF Goto
  <2>1. call' \in [Workers -> {Idle} \cup Call]
    BY <1>1 DEF Call
  <2>2. \A v \in Workers : v # w => call'[v] = call[v]
    BY <1>1
  <2>3. call'[w].start = call[w].start /\ call'[w].now = call[w].now
    BY <1>1 DEF Call
  <2>4. CallsPrompt'
    BY <1>1, <2>2, <2>3 DEF CallsPrompt
  <2> QED BY <2>1, <2>4
<1>4. CASE \E pc \in PCs, x \in BlockKey \cup KeysFound :
             call' = [call EXCEPT ![w].pc = pc, ![w].seen = x]
  <2> PICK pc \in PCs, x \in BlockKey \cup KeysFound :
             call' = [call EXCEPT ![w].pc = pc, ![w].seen = x]
    BY <1>4
  <2>1. call' \in [Workers -> {Idle} \cup Call]
    BY <1>1 DEF Call
  <2>2. \A v \in Workers : v # w => call'[v] = call[v]
    BY <1>1
  <2>3. call'[w].start = call[w].start /\ call'[w].now = call[w].now
    BY <1>1 DEF Call
  <2>4. CallsPrompt'
    BY <1>1, <2>2, <2>3 DEF CallsPrompt
  <2> QED BY <2>1, <2>4
<1> QED BY <1>2, <1>3, <1>4

(* ZREMRANGEBYSCORE with the `now` of a call that is under way takes       *)
(* nothing that is younger than Window: the entry's score is at most       *)
(* MaxDelay too early, the call's `now` at most MaxSkew too late.          *)
LEMMA WindowKept ==
  ASSUME IInv, NEW w \in Workers, call[w].pc # "idle",
         NEW k \in LimitKeys
  PROVE  LET kept == InWindow(log[k], call[w].now) IN
         /\ kept \subseteq log[k] /\ IsFiniteSet(kept) /\ Cardinality(kept) <= Points
         /\ \A a \in counted[k] : a.when > clock - Window => a \in kept
<1> DEFINE kept == InWindow(log[k], call[w].now)
<1>1. kept \subseteq log[k]
  BY DEF InWindow
<1>2. IsFiniteSet(kept) /\ Cardinality(kept) <= Cardinality(log[k])
  BY <1>1, FS_Subset DEF IInv, LogSmall
<1>3. Cardinality(kept) <= Points
  <2>1. Cardinality(kept) \in Nat /\ Cardinality(log[k]) \in Nat
    BY <1>2, FS_CardinalityType DEF IInv, LogSmall
  <2> QED BY <1>2, <2>1, RateLimiterAssumption DEF IInv, LogSmall
<1>4. ASSUME NEW a \in counted[k], a.when > clock - Window PROVE a \in kept
  <2>1. a \in log[k] /\ a.when - MaxDelay <= a.score
    BY <1>4 DEF IInv, CountedKept
  <2>2. a \in Entry
    BY DEF IInv, TypeOK
  <2>3. a.when \in Nat /\ a.score \in Nat
    BY <2>2 DEF Entry
  <2>4. /\ clock \in Nat /\ call[w].now \in Nat /\ call[w].start \in Nat
        /\ call[w].start <= clock /\ call[w].now <= call[w].start + MaxSkew
    BY CallTyped DEF IInv, TypeOK, CallsPrompt
  <2>5. a.score > call[w].now - Duration
    BY <1>4, <2>1, <2>3, <2>4, RateLimiterAssumption DEF Window
  <2> QED BY <2>1, <2>5 DEF InWindow
<1> QED BY <1>1, <1>2, <1>3, <1>4

(* What a command leaves alone of the log stays as it was.                 *)
LEMMA LogUntouched ==
  ASSUME IInv, UNCHANGED <<clock, log, logDrop, counted>>
  PROVE  LogSmall' /\ CountedKept'
BY DEF IInv, LogSmall, CountedKept, Window

(* An element more makes a finite set larger by one at most.               *)
LEMMA OneMore ==
  ASSUME NEW S, NEW x, IsFiniteSet(S), Cardinality(S) \in Nat
  PROVE  IsFiniteSet(S \cup {x}) /\ Cardinality(S \cup {x}) <= Cardinality(S) + 1
<1>1. /\ IsFiniteSet(S \cup {x})
      /\ Cardinality(S \cup {x}) = IF x \in S THEN Cardinality(S) ELSE Cardinality(S) + 1
  BY FS_AddElement
<1> QED BY <1>1

(* The script.                                                             *)
LEMMA ScriptKeeps ==
  ASSUME IInv, NEW w \in Workers, Script(w)
  PROVE  IInv'
<1> DEFINE k == call[w].key
           kept == InWindow(log[k], call[w].now)
           e == [id |-> call[w].id, score |-> call[w].now, when |-> clock]
<1>1. /\ call[w].pc = "script" /\ call[w].pc # "idle" /\ clock' = clock
      /\ UNCHANGED <<block, ban, env>>
  BY DEF Script
<1>2. k \in LimitKeys /\ e \in Entry
  BY <1>1, CallTyped DEF IInv, TypeOK, Entry
<1>3. /\ kept \subseteq log[k] /\ IsFiniteSet(kept) /\ Cardinality(kept) <= Points
      /\ \A a \in counted[k] : a.when > clock - Window => a \in kept
  BY <1>1, <1>2, WindowKept
<1>4. Cardinality(kept) \in Nat
  BY <1>3, FS_CardinalityType
<1>5. TypeOK /\ CallsPrompt /\ LogSmall /\ CountedKept /\ clock \in Nat /\ Duration \in Nat
      /\ Points \in Nat
  BY RateLimiterAssumption DEF IInv, TypeOK
<1>6. CASE Cardinality(kept) < Points
  <2>1. /\ log' = [log EXCEPT ![k] = kept \cup {e}]
        /\ logDrop' = [logDrop EXCEPT ![k] = clock + Duration + 1]
        /\ admitted' = [admitted EXCEPT ![k] = @ \cup {e}]
        /\ counted' = [counted EXCEPT ![k] = @ \cup {e}]
        /\ Return(w)
    BY <1>6 DEF Script
  <2>2. call' \in [Workers -> {Idle} \cup Call] /\ CallsPrompt'
    BY <1>1, <2>1, CallMoves
  <2>3. TypeOK'
    <3>1. log' \in [LimitKeys -> SUBSET Entry]
      BY <1>2, <1>3, <1>5, <2>1 DEF TypeOK
    <3>2. logDrop' \in [LimitKeys -> Nat]
      BY <1>2, <1>5, <2>1 DEF TypeOK
    <3>3. /\ admitted' \in [LimitKeys -> SUBSET Entry]
          /\ counted' \in [LimitKeys -> SUBSET Entry]
      BY <1>2, <1>5, <2>1 DEF TypeOK
    <3> QED BY <1>1, <1>5, <2>2, <3>1, <3>2, <3>3 DEF TypeOK
  <2>4. LogSmall'
    <3>1. IsFiniteSet(kept \cup {e}) /\ Cardinality(kept \cup {e}) <= Cardinality(kept) + 1
      BY <1>3, <1>4, OneMore
    <3>2. Cardinality(kept \cup {e}) \in Nat
      BY <3>1, FS_CardinalityType
    <3>3. Cardinality(kept \cup {e}) <= Points
      BY <1>4, <1>5, <1>6, <3>1, <3>2
    <3>4. log'[k] = kept \cup {e} /\ \A j \in LimitKeys \ {k} : log'[j] = log[j]
      BY <1>2, <1>5, <2>1 DEF TypeOK
    <3> QED BY <1>5, <3>1, <3>3, <3>4 DEF LogSmall
  <2>5. CountedKept'
    <3> SUFFICES ASSUME NEW j \in LimitKeys, NEW a \in counted'[j]
                 PROVE  /\ a.when <= clock /\ a.when - MaxDelay <= a.score
                        /\ a.when + Duration + 1 <= logDrop'[j]
                        /\ a.when > clock - Window => a \in log'[j]
      BY <1>1 DEF CountedKept, Window
    <3>1. CASE j # k
      BY <1>5, <2>1, <3>1 DEF TypeOK, CountedKept
    <3>2. CASE j = k /\ a = e
      <4>1. /\ call[w].start \in Nat /\ call[w].now \in Nat
            /\ clock <= call[w].start + MaxDelay /\ call[w].start <= call[w].now
        BY <1>1, <1>5, CallTyped DEF CallsPrompt
      <4>2. a.when = clock /\ a.score = call[w].now
        BY <3>2
      <4>3. logDrop'[j] = clock + Duration + 1 /\ a \in log'[j]
        BY <1>2, <1>5, <2>1, <3>2 DEF TypeOK
      <4> QED BY <1>5, <4>1, <4>2, <4>3, RateLimiterAssumption
    <3>3. CASE j = k /\ a # e
      <4>1. a \in counted[k] /\ a \in Entry
        BY <1>2, <1>5, <2>1, <3>3 DEF TypeOK
      <4>2. a.when \in Nat /\ a.score \in Nat /\ logDrop[k] \in Nat
        BY <1>2, <1>5, <4>1 DEF Entry, TypeOK
      <4>3. a.when <= clock /\ a.when - MaxDelay <= a.score
        BY <1>2, <1>5, <4>1 DEF CountedKept
      <4>4. a.when > clock - Window => a \in log'[j]
        BY <1>2, <1>3, <1>5, <2>1, <3>3, <4>1 DEF TypeOK
      <4>5. a.when + Duration + 1 <= logDrop'[j]
        BY <1>2, <1>5, <2>1, <3>3, <4>2, <4>3 DEF TypeOK
      <4> QED BY <4>3, <4>4, <4>5
    <3> QED BY <3>1, <3>2, <3>3
  <2> QED BY <2>2, <2>3, <2>4, <2>5 DEF IInv
<1>7. CASE ~(Cardinality(kept) < Points)
  <2>1. /\ log' = [log EXCEPT ![k] = kept]
        /\ Goto(w, "set_block")
        /\ UNCHANGED <<logDrop, admitted, counted>>
    BY <1>7 DEF Script
  <2>2. call' \in [Workers -> {Idle} \cup Call] /\ CallsPrompt'
    <3>1. "set_block" \in PCs
      BY DEF PCs
    <3> QED BY <1>1, <2>1, <3>1, CallMoves
  <2>3. TypeOK'
    BY <1>1, <1>2, <1>3, <1>5, <2>1, <2>2 DEF TypeOK
  <2>4. log'[k] = kept /\ \A j \in LimitKeys \ {k} : log'[j] = log[j]
    BY <1>2, <1>5, <2>1 DEF TypeOK
  <2>5. LogSmall'
    BY <1>3, <1>5, <2>4 DEF LogSmall
  <2>6. CountedKept'
    BY <1>1, <1>3, <1>5, <2>1, <2>4 DEF CountedKept, Window
  <2> QED BY <2>2, <2>3, <2>5, <2>6 DEF IInv
<1> QED BY <1>6, <1>7

LEMMA StatusKeeps ==
  ASSUME IInv, NEW w \in Workers, GetStatus(w)
  PROVE  IInv'
<1> DEFINE k == call[w].key
           kept == InWindow(log[k], call[w].now)
<1>1. /\ call[w].pc # "idle" /\ clock' = clock /\ Return(w)
      /\ log' = [log EXCEPT ![k] = kept]
      /\ UNCHANGED <<logDrop, block, admitted, counted, ban, env>>
  BY DEF GetStatus, history
<1>2. k \in LimitKeys
  BY <1>1, CallTyped DEF IInv
<1>3. /\ kept \subseteq log[k] /\ IsFiniteSet(kept) /\ Cardinality(kept) <= Points
      /\ \A a \in counted[k] : a.when > clock - Window => a \in kept
  BY <1>1, <1>2, WindowKept
<1>4. call' \in [Workers -> {Idle} \cup Call] /\ CallsPrompt'
  BY <1>1, CallMoves
<1>5. log'[k] = kept /\ \A j \in LimitKeys \ {k} : log'[j] = log[j]
  BY <1>1, <1>2 DEF IInv, TypeOK
<1>6. TypeOK'
  BY <1>1, <1>2, <1>3, <1>4 DEF IInv, TypeOK
<1>7. LogSmall'
  BY <1>3, <1>5 DEF IInv, LogSmall
<1>8. CountedKept'
  BY <1>1, <1>3, <1>5 DEF IInv, CountedKept, Window
<1> QED BY <1>4, <1>6, <1>7, <1>8 DEF IInv

(* Deleting a sorted set forgets its entries and starts counting anew.     *)
LEMMA DeleteKeeps ==
  ASSUME IInv, NEW ks, DeleteLogs(ks), UNCHANGED <<clock, logDrop>>
  PROVE  /\ log' \in [LimitKeys -> SUBSET Entry] /\ counted' \in [LimitKeys -> SUBSET Entry]
         /\ LogSmall' /\ CountedKept'
<1>1. \A k \in LimitKeys : \/ log'[k] = {} /\ counted'[k] = {}
                           \/ log'[k] = log[k] /\ counted'[k] = counted[k]
  BY DEF DeleteLogs
<1>2. IsFiniteSet({}) /\ Cardinality({}) = 0
  BY FS_EmptySet
<1>3. LogSmall'
  BY <1>1, <1>2, RateLimiterAssumption DEF IInv, LogSmall
<1>4. CountedKept'
  BY <1>1 DEF IInv, CountedKept, Window
<1>5. log' \in [LimitKeys -> SUBSET Entry] /\ counted' \in [LimitKeys -> SUBSET Entry]
  BY DEF DeleteLogs, IInv, TypeOK
<1> QED BY <1>3, <1>4, <1>5

LEMMA TickKeeps ==
  ASSUME IInv, Tick
  PROVE  IInv'
<1>1. /\ clock \in Nat /\ clock' = clock + 1
      /\ UNCHANGED <<logDrop, call, admitted, counted, ban, env>>
  BY DEF Tick, history, IInv, TypeOK
<1>2. /\ log' = [k \in LimitKeys |-> IF logDrop[k] <= clock' THEN {} ELSE log[k]]
      /\ block' = [k \in LimitKeys |->
                     IF block[k] # None /\ block[k].drop <= clock' THEN None ELSE block[k]]
  BY DEF Tick
<1>3. TypeOK'
  BY <1>1, <1>2 DEF IInv, TypeOK
<1>4. CallsPrompt'
  <2> SUFFICES ASSUME NEW w \in Workers, call[w].pc # "idle"
               PROVE  /\ call[w].start <= clock + 1 /\ clock + 1 <= call[w].start + MaxDelay
                      /\ call[w].start <= call[w].now /\ call[w].now <= call[w].start + MaxSkew
    BY <1>1 DEF CallsPrompt
  <2>1. call[w].start \in Nat /\ clock < call[w].start + MaxDelay
    BY CallTyped DEF Tick, IInv
  <2> QED BY <1>1, <2>1, RateLimiterAssumption DEF IInv, CallsPrompt
<1>5. LogSmall'
  <2>1. \A k \in LimitKeys : log'[k] = {} \/ log'[k] = log[k]
    BY <1>2
  <2>2. IsFiniteSet({}) /\ Cardinality({}) = 0 /\ Points \in Nat
    BY FS_EmptySet, RateLimiterAssumption
  <2> QED BY <2>1, <2>2 DEF IInv, LogSmall
<1>6. CountedKept'
  <2> SUFFICES ASSUME NEW k \in LimitKeys, NEW a \in counted'[k]
               PROVE  /\ a.when <= clock' /\ a.when - MaxDelay <= a.score
                      /\ a.when + Duration + 1 <= logDrop'[k]
                      /\ a.when > clock' - Window => a \in log'[k]
    BY DEF CountedKept, Window
  <2>0. a \in counted[k] /\ logDrop'[k] = logDrop[k]
    BY <1>1
  <2>1. /\ a.when \in Nat /\ logDrop[k] \in Nat
        /\ a.when <= clock /\ a.when - MaxDelay <= a.score
        /\ a.when + Duration + 1 <= logDrop[k]
        /\ a.when > clock - Window => a \in log[k]
    BY <2>0 DEF IInv, TypeOK, Entry, CountedKept
  <2>2. ASSUME a.when > clock' - Window PROVE a \in log'[k]
    <3>1. Window <= Duration /\ Window \in Int
      BY RateLimiterAssumption DEF Window
    <3>2. a.when > clock - Window
      BY <1>1, <2>1, <2>2, <3>1
    <3>3. ~(logDrop[k] <= clock + 1)
      BY <1>1, <2>1, <2>2, <3>1, RateLimiterAssumption
    <3> QED BY <1>1, <1>2, <2>1, <3>2, <3>3
  <2>3. a.when <= clock'
    BY <1>1, <2>1
  <2> QED BY <2>0, <2>1, <2>2, <2>3
<1> QED BY <1>3, <1>4, <1>5, <1>6 DEF IInv

(* The commands that touch the block key or only the call itself.          *)
LEMMA BlockStepsKeep ==
  ASSUME IInv, NEW w \in Workers,
         GetBlock(w) \/ DelBlock(w) \/ SetBlock(w) \/ Unblock(w) \/ FindKeys(w) \/ Fails(w)
  PROVE  IInv'
<1> DEFINE k == call[w].key
<1>1. /\ call[w].pc # "idle"
      /\ UNCHANGED <<clock, log, logDrop, admitted, counted>>
  BY DEF GetBlock, DelBlock, SetBlock, Unblock, FindKeys, Fails, redis, history
<1>2. /\ k \in LimitKeys /\ TypeOK
      /\ call[w].now \in Nat /\ clock \in Nat
  BY <1>1, CallTyped DEF IInv, TypeOK
<1>3. LogSmall' /\ CountedKept'
  BY <1>1, LogUntouched
<1>4. ASSUME /\ call' \in [Workers -> {Idle} \cup Call] /\ CallsPrompt'
             /\ block' \in [LimitKeys -> {None} \cup BlockKey]
             /\ ban' \in [LimitKeys -> {None} \cup BlockKey]
             /\ env' \in [calls : Nat, faults : Nat]
      PROVE  IInv'
  BY <1>1, <1>2, <1>3, <1>4 DEF IInv, TypeOK
<1>5. CASE GetBlock(w)
  <2>1. UNCHANGED <<block, ban, env>>
    BY <1>5 DEF GetBlock, redis, history
  <2>2. call' \in [Workers -> {Idle} \cup Call] /\ CallsPrompt'
    <3>1. CASE Return(w) \/ Goto(w, "script")
      BY <1>1, <3>1, CallMoves DEF PCs
    <3>2. CASE /\ block[k] # None
               /\ call' = [call EXCEPT ![w].pc = "del_block", ![w].seen = block[k]]
      <4>1. block[k] \in BlockKey \cup KeysFound /\ "del_block" \in PCs
        BY <1>2, <3>2 DEF TypeOK, PCs
      <4> QED BY <1>1, <3>2, <4>1, CallMoves
    <3> QED BY <1>5, <3>1, <3>2 DEF GetBlock
  <2> QED BY <1>2, <1>4, <2>1, <2>2 DEF TypeOK
<1>6. CASE DelBlock(w)
  <2>1. call' \in [Workers -> {Idle} \cup Call] /\ CallsPrompt'
    <3>1. Goto(w, "script") /\ "script" \in PCs
      BY <1>6 DEF DelBlock, PCs
    <3> QED BY <1>1, <3>1, CallMoves
  <2>2. /\ block' \in [LimitKeys -> {None} \cup BlockKey]
        /\ ban' \in [LimitKeys -> {None} \cup BlockKey]
        /\ env' \in [calls : Nat, faults : Nat]
    BY <1>2, <1>6 DEF DelBlock, TypeOK
  <2> QED BY <1>4, <2>1, <2>2
<1>7. CASE SetBlock(w)
  <2>1. BlockFor \in Nat
    BY RateLimiterAssumption DEF BlockFor
  <2>2. [until |-> call[w].now + BlockFor, drop |-> clock + BlockFor] \in BlockKey
    BY <1>2, <2>1 DEF BlockKey
  <2>3. /\ block' \in [LimitKeys -> {None} \cup BlockKey]
        /\ ban' \in [LimitKeys -> {None} \cup BlockKey]
        /\ env' \in [calls : Nat, faults : Nat]
    BY <1>2, <1>7, <2>2 DEF SetBlock, TypeOK
  <2>4. call' \in [Workers -> {Idle} \cup Call] /\ CallsPrompt'
    BY <1>1, <1>7, CallMoves DEF SetBlock
  <2> QED BY <1>4, <2>3, <2>4
<1>8. CASE Unblock(w)
  <2>1. call' \in [Workers -> {Idle} \cup Call] /\ CallsPrompt'
    BY <1>1, <1>8, CallMoves DEF Unblock
  <2>2. /\ block' \in [LimitKeys -> {None} \cup BlockKey]
        /\ ban' \in [LimitKeys -> {None} \cup BlockKey]
        /\ env' \in [calls : Nat, faults : Nat]
    BY <1>2, <1>8 DEF Unblock, LiftBlocks, TypeOK
  <2> QED BY <1>4, <2>1, <2>2
<1>9. CASE FindKeys(w)
  <2> DEFINE found == [logs |-> {j \in LimitKeys : log[j] # {}},
                       blocks |-> {j \in LimitKeys : block[j] # None}]
  <2>1. found \in KeysFound /\ "del_keys" \in PCs
    BY DEF KeysFound, PCs
  <2>2. Return(w) \/ call' = [call EXCEPT ![w].pc = "del_keys", ![w].seen = found]
    BY <1>9 DEF FindKeys
  <2>3. call' \in [Workers -> {Idle} \cup Call] /\ CallsPrompt'
    BY <1>1, <2>1, <2>2, CallMoves
  <2>4. UNCHANGED <<block, ban, env>>
    BY <1>9 DEF FindKeys, redis, history
  <2> QED BY <1>2, <1>4, <2>3, <2>4 DEF TypeOK
<1>10. CASE Fails(w)
  <2>1. call' \in [Workers -> {Idle} \cup Call] /\ CallsPrompt'
    BY <1>1, <1>10, CallMoves DEF Fails
  <2>2. UNCHANGED <<block, ban>> /\ env' \in [calls : Nat, faults : Nat]
    BY <1>2, <1>10 DEF Fails, redis, history, TypeOK
  <2> QED BY <1>2, <1>4, <2>1, <2>2 DEF TypeOK
<1> QED BY <1>5, <1>6, <1>7, <1>8, <1>9, <1>10

(* reset and deletePattern.                                                *)
LEMMA DeletesKeep ==
  ASSUME IInv, NEW w \in Workers, ResetLog(w) \/ DeletePattern(w)
  PROVE  IInv'
<1>1. /\ call[w].pc # "idle" /\ TypeOK
      /\ UNCHANGED <<clock, logDrop, admitted, env>>
  BY DEF ResetLog, DeletePattern, IInv
<1>2. /\ log' \in [LimitKeys -> SUBSET Entry] /\ counted' \in [LimitKeys -> SUBSET Entry]
      /\ LogSmall' /\ CountedKept'
  <2>1. CASE ResetLog(w)
    BY <1>1, <2>1, DeleteKeeps DEF ResetLog
  <2>2. CASE DeletePattern(w)
    BY <1>1, <2>2, DeleteKeeps DEF DeletePattern
  <2> QED BY <2>1, <2>2
<1>3. call' \in [Workers -> {Idle} \cup Call] /\ CallsPrompt'
  <2>1. Return(w) \/ Goto(w, "lift")
    BY DEF ResetLog, DeletePattern
  <2> QED BY <1>1, <2>1, CallMoves DEF PCs
<1>4. /\ block' \in [LimitKeys -> {None} \cup BlockKey]
      /\ ban' \in [LimitKeys -> {None} \cup BlockKey]
  <2>1. CASE ResetLog(w)
    BY <1>1, <2>1 DEF ResetLog, TypeOK
  <2>2. CASE DeletePattern(w)
    BY <1>1, <2>2 DEF DeletePattern, LiftBlocks, TypeOK
  <2> QED BY <2>1, <2>2
<1> QED BY <1>1, <1>2, <1>3, <1>4 DEF IInv, TypeOK

-----------------------------------------------------------------------------
LEMMA InitHolds == Init => IInv
<1> SUFFICES ASSUME Init PROVE IInv
  OBVIOUS
<1>1. TypeOK
  BY DEF Init, TypeOK
<1>2. CallsPrompt
  BY DEF Init, CallsPrompt, Idle
<1>3. LogSmall
  BY FS_EmptySet, RateLimiterAssumption DEF Init, LogSmall
<1>4. CountedKept
  BY DEF Init, CountedKept
<1> QED BY <1>1, <1>2, <1>3, <1>4 DEF IInv

LEMMA NextKeeps == IInv /\ [Next]_vars => IInv'
<1> SUFFICES ASSUME IInv, [Next]_vars PROVE IInv'
  OBVIOUS
<1>1. ASSUME NEW w \in Workers, NEW r \in Requests, CanActivate(w, r) PROVE IInv'
  <2>1. GenerateKey(r) \in LimitKeys
    BY <1>1 DEF CanActivate, LimitKeys
  <2>2. Begin(w, "consume", GenerateKey(r), "get_block") /\ "get_block" \in PCs
    BY <1>1 DEF CanActivate, PCs
  <2> QED BY <2>1, <2>2, BeginTyped
<1>2. ASSUME NEW w \in Workers, NEW op \in Admin, NEW k \in LimitKeys,
             Administrate(w, op, k)
      PROVE  IInv'
  <2>1. FirstStep[op] \in PCs
    BY RateLimiterAssumption DEF FirstStep, PCs
  <2>2. Begin(w, op, k, FirstStep[op])
    BY <1>2 DEF Administrate
  <2> QED BY <2>1, <2>2, BeginTyped
<1>3. ASSUME NEW w \in Workers, Step(w) PROVE IInv'
  BY <1>3, ScriptKeeps, StatusKeeps, BlockStepsKeep, DeletesKeep DEF Step
<1>4. CASE Tick
  BY <1>4, TickKeeps
<1>5. CASE UNCHANGED vars
  <2>1. TypeOK' /\ CallsPrompt'
    BY <1>5 DEF IInv, TypeOK, CallsPrompt, vars, redis, history
  <2>2. LogSmall' /\ CountedKept'
    BY <1>5, LogUntouched DEF vars, redis, history
  <2> QED BY <2>1, <2>2 DEF IInv
<1> QED BY <1>1, <1>2, <1>3, <1>4, <1>5 DEF Next

(* The calls, the keys and the history keep their shapes whatever calls of *)
(* consume, getStatus, reset, block, unblock and deletePattern interleave. *)
THEOREM TypeCorrect == Spec => []TypeOK
<1>1. IInv => TypeOK
  BY DEF IInv
<1> QED BY InitHolds, NextKeeps, <1>1, PTL DEF Spec

(* The sliding window of consume: at most Points calls of one client on    *)
(* one route are let through in any Window, on however many instances.     *)
THEOREM WindowHolds == Spec => []WindowBound
<1>1. IInv => WindowBound
  <2> SUFFICES ASSUME IInv, NEW k \in LimitKeys
               PROVE  Cardinality({a \in counted[k] : a.when > clock - Window}) <= Points
    BY DEF WindowBound
  <2> DEFINE recent == {a \in counted[k] : a.when > clock - Window}
  <2>1. recent \subseteq log[k]
    BY DEF IInv, CountedKept
  <2>2. IsFiniteSet(log[k]) /\ Cardinality(log[k]) <= Points
    BY DEF IInv, LogSmall
  <2>3. IsFiniteSet(recent) /\ Cardinality(recent) <= Cardinality(log[k])
    BY <2>1, <2>2, FS_Subset
  <2>4. Cardinality(recent) \in Nat /\ Cardinality(log[k]) \in Nat /\ Points \in Nat
    BY <2>2, <2>3, FS_CardinalityType, RateLimiterAssumption
  <2> QED BY <2>2, <2>3, <2>4
<1> QED BY InitHolds, NextKeeps, <1>1, PTL DEF Spec

-----------------------------------------------------------------------------
(* Refusals: the entries of the sorted set were admitted, at a moment no   *)
(* more than MaxSkew before their score, and a call that was refused has   *)
(* seen Points of them.                                                    *)
LogAdmitted ==
  \A k \in LimitKeys :
    /\ IsFiniteSet(admitted[k]) /\ log[k] \subseteq admitted[k]
    /\ \A a \in admitted[k] : a.score <= a.when + MaxSkew

Refusals == LogAdmitted /\ RefusalEarned

Earned(S, now) ==
  Cardinality({a \in S : a.when > now - Duration - MaxSkew}) >= Points

(* More admissions do not make a refusal less earned.                      *)
LEMMA EarnedMonotone ==
  ASSUME NEW S, NEW T, S \subseteq T, IsFiniteSet(T), NEW now, Earned(S, now)
  PROVE  Earned(T, now)
<1> DEFINE s == {a \in S : a.when > now - Duration - MaxSkew}
           t == {a \in T : a.when > now - Duration - MaxSkew}
<1>1. s \subseteq t /\ t \subseteq T
  OBVIOUS
<1>2. IsFiniteSet(t) /\ IsFiniteSet(s) /\ Cardinality(s) <= Cardinality(t)
  BY <1>1, FS_Subset
<1>3. Cardinality(s) \in Nat /\ Cardinality(t) \in Nat
  BY <1>2, FS_CardinalityType
<1>4. Cardinality(s) >= Points /\ Points \in Nat
  BY RateLimiterAssumption DEF Earned
<1> QED BY <1>2, <1>3, <1>4 DEF Earned

(* The script's refusal: what it kept was admitted within the window.      *)
LEMMA RefusedInWindow ==
  ASSUME IInv, LogAdmitted, NEW k \in LimitKeys, NEW now \in Nat,
         ~(Cardinality(InWindow(log[k], now)) < Points)
  PROVE  Earned(admitted[k], now)
<1> DEFINE kept == InWindow(log[k], now)
           t == {a \in admitted[k] : a.when > now - Duration - MaxSkew}
<1>1. kept \subseteq t
  <2> SUFFICES ASSUME NEW a \in kept PROVE a \in t
    OBVIOUS
  <2>1. a \in log[k] /\ a.score > now - Duration
    BY DEF InWindow
  <2>2. a \in admitted[k] /\ a \in Entry /\ a.score <= a.when + MaxSkew
    BY <2>1 DEF IInv, TypeOK, LogAdmitted
  <2>3. a.score \in Nat /\ a.when \in Nat
    BY <2>2 DEF Entry
  <2>4. a.when > now - Duration - MaxSkew
    BY <2>1, <2>2, <2>3, RateLimiterAssumption
  <2> QED BY <2>2, <2>4
<1>2. IsFiniteSet(admitted[k]) /\ t \subseteq admitted[k]
  BY DEF LogAdmitted
<1>3. IsFiniteSet(t)
  BY <1>2, FS_Subset
<1>4. Cardinality(kept) <= Cardinality(t) /\ IsFiniteSet(kept)
  BY <1>1, <1>3, FS_Subset
<1>5. Cardinality(kept) \in Nat /\ Cardinality(t) \in Nat
  BY <1>3, <1>4, FS_CardinalityType
<1> QED BY <1>4, <1>5, RateLimiterAssumption DEF Earned

(* A step that admits nothing, adds nothing to the sorted sets and takes   *)
(* no call of consume to set_block.                                        *)
LEMMA RefusalsUntouched ==
  ASSUME Refusals, UNCHANGED admitted,
         \A k \in LimitKeys : log'[k] \subseteq log[k],
         \A w \in Workers :
           call'[w].pc = "set_block" /\ call'[w].op = "consume" => call'[w] = call[w]
  PROVE  Refusals'
<1>1. LogAdmitted'
  BY DEF Refusals, LogAdmitted
<1>2. RefusalEarned'
  <2> SUFFICES ASSUME NEW w \in Workers, call'[w].pc = "set_block", call'[w].op = "consume"
               PROVE  Cardinality({a \in admitted[call'[w].key] :
                          a.when > call'[w].now - Duration - MaxSkew}) >= Points
    BY DEF RefusalEarned
  <2> QED BY DEF Refusals, RefusalEarned
<1> QED BY <1>1, <1>2 DEF Refusals

LEMMA ScriptRefuses ==
  ASSUME IInv, Refusals, NEW w \in Workers, Script(w)
  PROVE  Refusals'
<1> DEFINE k == call[w].key
           kept == InWindow(log[k], call[w].now)
           e == [id |-> call[w].id, score |-> call[w].now, when |-> clock]
<1>1. call[w].pc = "script" /\ call[w].pc # "idle"
  BY DEF Script
<1>2. /\ k \in LimitKeys /\ call[w] \in Call
      /\ call[w].start \in Nat /\ call[w].now \in Nat /\ clock \in Nat
      /\ call[w].start <= clock /\ call[w].now <= call[w].start + MaxSkew
      /\ log \in [LimitKeys -> SUBSET Entry] /\ admitted \in [LimitKeys -> SUBSET Entry]
      /\ call \in [Workers -> {Idle} \cup Call]
  BY <1>1, CallTyped DEF IInv, TypeOK, CallsPrompt
<1>3. kept \subseteq log[k]
  BY DEF InWindow
<1>4. CASE Cardinality(kept) < Points
  <2>1. /\ log' = [log EXCEPT ![k] = kept \cup {e}]
        /\ admitted' = [admitted EXCEPT ![k] = @ \cup {e}]
        /\ call' = [call EXCEPT ![w] = Idle]
    BY <1>4 DEF Script, Return
  <2>2. /\ log'[k] = kept \cup {e} /\ admitted'[k] = admitted[k] \cup {e}
        /\ \A j \in LimitKeys \ {k} : log'[j] = log[j] /\ admitted'[j] = admitted[j]
    BY <1>2, <2>1
  <2>3. IsFiniteSet(admitted[k] \cup {e})
    BY <1>2, FS_AddElement DEF Refusals, LogAdmitted
  <2>4. e.score <= e.when + MaxSkew
    BY <1>2, RateLimiterAssumption
  <2>5. LogAdmitted'
    BY <1>2, <1>3, <2>2, <2>3, <2>4 DEF Refusals, LogAdmitted
  <2>6. RefusalEarned'
    <3> SUFFICES ASSUME NEW v \in Workers, call'[v].pc = "set_block", call'[v].op = "consume"
                 PROVE  Earned(admitted'[call'[v].key], call'[v].now)
      BY DEF RefusalEarned, Earned
    <3>1. v # w /\ call'[v] = call[v]
      BY <1>2, <2>1 DEF Idle
    <3>2. Earned(admitted[call[v].key], call[v].now)
      BY <3>1 DEF Refusals, RefusalEarned, Earned
    <3>3. call[v].key \in LimitKeys
      BY <3>1, CallTyped DEF IInv
    <3>4. /\ admitted[call[v].key] \subseteq admitted'[call[v].key]
          /\ IsFiniteSet(admitted'[call[v].key])
      BY <2>2, <2>5, <3>3 DEF LogAdmitted
    <3> QED BY <3>1, <3>2, <3>4, EarnedMonotone
  <2> QED BY <2>5, <2>6 DEF Refusals
<1>5. CASE ~(Cardinality(kept) < Points)
  <2>1. /\ log' = [log EXCEPT ![k] = kept]
        /\ admitted' = admitted
        /\ call' = [call EXCEPT ![w].pc = "set_block"]
    BY <1>5 DEF Script, Goto
  <2>2. LogAdmitted'
    BY <1>2, <1>3, <2>1 DEF Refusals, LogAdmitted
  <2>3. RefusalEarned'
    <3> SUFFICES ASSUME NEW v \in Workers, call'[v].pc = "set_block", call'[v].op = "consume"
                 PROVE  Earned(admitted[call'[v].key], call'[v].now)
      BY <2>1 DEF RefusalEarned, Earned
    <3>1. CASE v # w
      BY <1>2, <2>1, <3>1 DEF Refusals, RefusalEarned, Earned
    <3>2. CASE v = w
      <4>1. call'[v].key = k /\ call'[v].now = call[w].now
        BY <1>2, <2>1, <3>2 DEF Call
      <4>2. Earned(admitted[k], call[w].now)
        BY <1>2, <1>5, RefusedInWindow DEF Refusals
      <4> QED BY <4>1, <4>2
    <3> QED BY <3>1, <3>2
  <2> QED BY <2>2, <2>3 DEF Refusals
<1> QED BY <1>4, <1>5

LEMMA RefusalsKept ==
  ASSUME IInv, Refusals, [Next]_vars
  PROVE  Refusals'
<1>0. /\ call \in [Workers -> {Idle} \cup Call] /\ log \in [LimitKeys -> SUBSET Entry]
      /\ \A w \in Workers : call[w].pc # "idle" => call[w] \in Call
  BY CallTyped DEF IInv, TypeOK
<1>1. ASSUME NEW w \in Workers, NEW r \in Requests, CanActivate(w, r) PROVE Refusals'
  BY <1>0, <1>1, RefusalsUntouched DEF CanActivate, Begin, redis, history
<1>2. ASSUME NEW w \in Workers, NEW op \in Admin, NEW k \in LimitKeys,
             Administrate(w, op, k)
      PROVE  Refusals'
  <2>1. op # "consume"
    BY RateLimiterAssumption
  <2>2. /\ call'[w].op = op /\ \A v \in Workers : v # w => call'[v] = call[v]
        /\ UNCHANGED <<log, admitted>>
    BY <1>0, <1>2 DEF Administrate, Begin, redis, history
  <2> QED BY <2>1, <2>2, RefusalsUntouched
<1>3. ASSUME NEW w \in Workers,
             \/ GetBlock(w) \/ DelBlock(w) \/ SetBlock(w) \/ Unblock(w) \/ FindKeys(w)
             \/ Fails(w) \/ GetStatus(w) \/ ResetLog(w) \/ DeletePattern(w)
      PROVE  Refusals'
  <2>1. UNCHANGED admitted
    BY <1>3 DEF GetBlock, DelBlock, SetBlock, Unblock, FindKeys, Fails, GetStatus, ResetLog,
                DeletePattern, redis, history
  <2>2. \A k \in LimitKeys : log'[k] \subseteq log[k]
    BY <1>0, <1>3 DEF GetBlock, DelBlock, SetBlock, Unblock, FindKeys, Fails, GetStatus,
                ResetLog, DeletePattern, DeleteLogs, InWindow, redis, history
  <2>3. call[w].pc # "idle"
    BY <1>3 DEF GetBlock, DelBlock, SetBlock, Unblock, FindKeys, Fails, GetStatus, ResetLog,
                DeletePattern
  <2>4. /\ call'[w].pc # "set_block"
        /\ \A v \in Workers : v # w => call'[v] = call[v]
    BY <1>0, <1>3, <2>3 DEF GetBlock, DelBlock, SetBlock, Unblock, FindKeys, Fails, GetStatus,
                ResetLog, DeletePattern, Goto, Return, Idle, Call
  <2> QED BY <2>1, <2>2, <2>4, RefusalsUntouched
<1>4. ASSUME NEW w \in Workers, Script(w) PROVE Refusals'
  BY <1>4, ScriptRefuses
<1>5. CASE Tick
  BY <1>0, <1>5, RefusalsUntouched DEF Tick, history
<1>6. CASE UNCHANGED vars
  BY <1>6, RefusalsUntouched DEF vars, redis, history
<1> QED BY <1>1, <1>2, <1>3, <1>4, <1>5, <1>6 DEF Next, Step

(* consume refuses a call, and blocks its client, only when Points calls   *)
(* were let through within its Duration, give or take the skew: entries    *)
(* that other instances forget or add, and resets, never make it refuse    *)
(* for less.                                                               *)
THEOREM RefusalsEarned == Spec => []RefusalEarned
<1>1. Init => Refusals
  <2>1. Init => LogAdmitted
    BY FS_EmptySet DEF Init, LogAdmitted
  <2>2. Init => RefusalEarned
    BY DEF Init, RefusalEarned, Idle
  <2> QED BY <2>1, <2>2 DEF Refusals
<1>2. IInv /\ Refusals /\ [Next]_vars => Refusals'
  BY RefusalsKept
<1>3. Refusals => RefusalEarned
  BY DEF Refusals
<1> QED BY InitHolds, NextKeeps, <1>1, <1>2, <1>3, PTL DEF Spec

-----------------------------------------------------------------------------
(* Blocks: Redis keeps a block until it is over but for the skew, and a    *)
(* call about to delete one has seen one that is over.                     *)
Bans ==
  /\ BlockStands
  /\ \A k \in LimitKeys : ban[k] # None => ban[k].until <= ban[k].drop + MaxSkew
  /\ \A w \in Workers :
       call[w].pc = "del_block" => call[w].seen \in BlockKey /\ call[w].now >= call[w].seen.until

(* A step that touches no block and takes no call to del_block.            *)
LEMMA BansUntouched ==
  ASSUME Bans, UNCHANGED <<clock, block, ban>>,
         \A w \in Workers : call'[w].pc = "del_block" => call'[w] = call[w]
  PROVE  Bans'
<1>1. BlockStands'
  BY DEF Bans, BlockStands
<1>2. \A k \in LimitKeys : ban'[k] # None => ban'[k].until <= ban'[k].drop + MaxSkew
  BY DEF Bans
<1> QED BY <1>1, <1>2 DEF Bans

(* A call that has read a block which is over deletes the key: either the  *)
(* block is the one it read, or the history forgets it.                    *)
LEMMA DelBlockBans ==
  ASSUME IInv, Bans, NEW w \in Workers, DelBlock(w)
  PROVE  Bans'
<1> DEFINE k == call[w].key
<1>1. /\ call[w].pc = "del_block" /\ call[w].pc # "idle" /\ clock' = clock
      /\ block' = [block EXCEPT ![k] = None]
      /\ ban' = IF block[k] # call[w].seen THEN [ban EXCEPT ![k] = None] ELSE ban
      /\ call' = [call EXCEPT ![w].pc = "script"]
  BY DEF DelBlock, Goto
<1>2. /\ k \in LimitKeys /\ call[w] \in Call
      /\ call[w].start \in Nat /\ call[w].now \in Nat /\ clock \in Nat
      /\ call[w].start <= clock /\ call[w].now <= call[w].start + MaxSkew
      /\ block \in [LimitKeys -> {None} \cup BlockKey]
      /\ ban \in [LimitKeys -> {None} \cup BlockKey]
      /\ call \in [Workers -> {Idle} \cup Call]
  BY <1>1, CallTyped DEF IInv, TypeOK, CallsPrompt
<1>3. call[w].seen \in BlockKey /\ call[w].now >= call[w].seen.until
  BY <1>1 DEF Bans
<1>4. call[w].seen.until \in Nat /\ ~(clock < call[w].seen.until - MaxSkew)
  BY <1>2, <1>3, RateLimiterAssumption DEF BlockKey
<1>5. BlockStands'
  <2> SUFFICES ASSUME NEW j \in LimitKeys, ban'[j] # None, clock' < ban'[j].until - MaxSkew
               PROVE  block'[j] = ban'[j]
    BY DEF BlockStands
  <2>1. ban'[j] = ban[j]
    BY <1>1, <1>2
  <2>2. block[j] = ban[j]
    BY <1>1, <2>1 DEF Bans, BlockStands
  <2>3. j # k
    BY <1>1, <1>2, <1>4, <2>1, <2>2
  <2> QED BY <1>1, <1>2, <2>1, <2>2, <2>3
<1>6. \A j \in LimitKeys : ban'[j] # None => ban'[j].until <= ban'[j].drop + MaxSkew
  BY <1>1, <1>2 DEF Bans
<1>7. \A v \in Workers : call'[v].pc = "del_block" => call'[v] = call[v]
  BY <1>1, <1>2 DEF Call
<1> QED BY <1>5, <1>6, <1>7 DEF Bans

LEMMA SetBlockBans ==
  ASSUME IInv, Bans, NEW w \in Workers, SetBlock(w)
  PROVE  Bans'
<1> DEFINE k == call[w].key
           b == [until |-> call[w].now + BlockFor, drop |-> clock + BlockFor]
<1>1. /\ call[w].pc # "idle" /\ clock' = clock
      /\ block' = [block EXCEPT ![k] = b] /\ ban' = [ban EXCEPT ![k] = b]
      /\ call' = [call EXCEPT ![w] = Idle]
  BY DEF SetBlock, Return
<1>2. /\ k \in LimitKeys
      /\ call[w].start \in Nat /\ call[w].now \in Nat /\ clock \in Nat
      /\ call[w].start <= clock /\ call[w].now <= call[w].start + MaxSkew
      /\ block \in [LimitKeys -> {None} \cup BlockKey]
      /\ ban \in [LimitKeys -> {None} \cup BlockKey]
      /\ call \in [Workers -> {Idle} \cup Call]
  BY <1>1, CallTyped DEF IInv, TypeOK, CallsPrompt
<1>3. BlockFor \in Nat
  BY RateLimiterAssumption DEF BlockFor
<1>4. b.until <= b.drop + MaxSkew
  BY <1>2, <1>3, RateLimiterAssumption
<1>5. /\ block'[k] = b /\ ban'[k] = b
      /\ \A j \in LimitKeys \ {k} : block'[j] = block[j] /\ ban'[j] = ban[j]
  BY <1>1, <1>2
<1>6. BlockStands'
  BY <1>1, <1>5 DEF Bans, BlockStands
<1>7. \A j \in LimitKeys : ban'[j] # None => ban'[j].until <= ban'[j].drop + MaxSkew
  BY <1>4, <1>5 DEF Bans
<1>8. \A v \in Workers : call'[v].pc = "del_block" => call'[v] = call[v]
  BY <1>1, <1>2 DEF Idle
<1> QED BY <1>6, <1>7, <1>8 DEF Bans

(* Redis drops a block no earlier than its time, less the skew.            *)
LEMMA TickBans ==
  ASSUME IInv, Bans, Tick
  PROVE  Bans'
<1>1. /\ clock \in Nat /\ clock' = clock + 1 /\ UNCHANGED <<call, ban>>
      /\ block' = [k \in LimitKeys |->
                     IF block[k] # None /\ block[k].drop <= clock' THEN None ELSE block[k]]
  BY DEF Tick, history, IInv, TypeOK
<1>2. BlockStands'
  <2> SUFFICES ASSUME NEW k \in LimitKeys, ban[k] # None, clock + 1 < ban[k].until - MaxSkew
               PROVE  block'[k] = ban[k]
    BY <1>1 DEF BlockStands
  <2>1. ban[k] \in BlockKey /\ ban[k].until <= ban[k].drop + MaxSkew
    BY DEF Bans, IInv, TypeOK
  <2>2. ban[k].until \in Nat /\ ban[k].drop \in Nat
    BY <2>1 DEF BlockKey
  <2>3. block[k] = ban[k]
    BY <1>1, <2>2, RateLimiterAssumption DEF Bans, BlockStands
  <2>4. ~(block[k].drop <= clock + 1)
    BY <1>1, <2>1, <2>2, <2>3, RateLimiterAssumption
  <2> QED BY <1>1, <2>3, <2>4
<1> QED BY <1>1, <1>2 DEF Bans

LEMMA BansKept ==
  ASSUME IInv, Bans, [Next]_vars
  PROVE  Bans'
<1>0. /\ call \in [Workers -> {Idle} \cup Call]
      /\ \A w \in Workers : call[w].pc # "idle" => call[w] \in Call
      /\ block \in [LimitKeys -> {None} \cup BlockKey]
      /\ ban \in [LimitKeys -> {None} \cup BlockKey]
  BY CallTyped DEF IInv, TypeOK
<1>1. ASSUME NEW w \in Workers, NEW r \in Requests, CanActivate(w, r) PROVE Bans'
  BY <1>0, <1>1, BansUntouched DEF CanActivate, Begin, redis, history
<1>2. ASSUME NEW w \in Workers, NEW op \in Admin, NEW k \in LimitKeys,
             Administrate(w, op, k)
      PROVE  Bans'
  <2>1. FirstStep[op] # "del_block"
    BY RateLimiterAssumption DEF FirstStep
  <2> QED BY <1>0, <1>2, <2>1, BansUntouched DEF Administrate, Begin, redis, history
<1>3. ASSUME NEW w \in Workers,
             FindKeys(w) \/ Fails(w) \/ GetStatus(w) \/ ResetLog(w) \/ Script(w)
      PROVE  Bans'
  <2>1. UNCHANGED <<clock, block, ban>>
    BY <1>3 DEF FindKeys, Fails, GetStatus, ResetLog, Script, redis, history
  <2>2. call[w].pc # "idle"
    BY <1>3 DEF FindKeys, Fails, GetStatus, ResetLog, Script
  <2>3. /\ call'[w].pc # "del_block"
        /\ \A v \in Workers : v # w => call'[v] = call[v]
    BY <1>0, <1>3, <2>2 DEF FindKeys, Fails, GetStatus, ResetLog, Script, Goto, Return, Idle,
                Call
  <2> QED BY <2>1, <2>3, BansUntouched
<1>4. ASSUME NEW w \in Workers, GetBlock(w) PROVE Bans'
  <2>1. call[w].pc = "get_block" /\ call[w] \in Call /\ call[w].key \in LimitKeys
        /\ UNCHANGED <<clock, block, ban>>
    BY <1>0, <1>4 DEF GetBlock, redis, history, Call
  <2>2. BlockStands' /\ \A k \in LimitKeys :
                           ban'[k] # None => ban'[k].until <= ban'[k].drop + MaxSkew
    BY <2>1 DEF Bans, BlockStands
  <2>3. ASSUME NEW v \in Workers, call'[v].pc = "del_block"
        PROVE  call'[v].seen \in BlockKey /\ call'[v].now >= call'[v].seen.until
    <3>1. CASE v # w
      <4>1. call'[v] = call[v]
        BY <1>0, <1>4, <3>1 DEF GetBlock, Goto, Return
      <4> QED BY <2>3, <4>1 DEF Bans
    <3>2. CASE v = w
      <4> DEFINE b == block[call[w].key]
      <4>1. /\ b # None /\ call[w].now >= b.until
            /\ call' = [call EXCEPT ![w].pc = "del_block", ![w].seen = b]
        BY <1>0, <1>4, <2>1, <2>3, <3>2 DEF GetBlock, Goto, Return, Idle, Call
      <4>2. call'[w].seen = b /\ call'[w].now = call[w].now
        BY <1>0, <2>1, <4>1 DEF Call
      <4>3. b \in BlockKey
        BY <1>0, <2>1, <4>1
      <4> QED BY <3>2, <4>1, <4>2, <4>3
    <3> QED BY <3>1, <3>2
  <2> QED BY <2>2, <2>3 DEF Bans
<1>5. ASSUME NEW w \in Workers, Unblock(w) \/ DeletePattern(w) PROVE Bans'
  <2>1. clock' = clock /\ call' = [call EXCEPT ![w] = Idle]
    BY <1>5 DEF Unblock, DeletePattern, Return
  <2>2. \A k \in LimitKeys : \/ block'[k] = None /\ ban'[k] = None
                             \/ block'[k] = block[k] /\ ban'[k] = ban[k]
    BY <1>5 DEF Unblock, DeletePattern, LiftBlocks
  <2>3. BlockStands'
    BY <2>1, <2>2 DEF Bans, BlockStands
  <2>4. \A k \in LimitKeys : ban'[k] # None => ban'[k].until <= ban'[k].drop + MaxSkew
    BY <2>2 DEF Bans
  <2>5. \A v \in Workers : call'[v].pc = "del_block" => call'[v] = call[v]
    BY <1>0, <2>1 DEF Idle
  <2> QED BY <2>3, <2>4, <2>5 DEF Bans
<1>6. ASSUME NEW w \in Workers, DelBlock(w) \/ SetBlock(w) PROVE Bans'
  BY <1>6, DelBlockBans, SetBlockBans
<1>7. CASE Tick
  BY <1>7, TickBans
<1>8. CASE UNCHANGED vars
  BY <1>8, BansUntouched DEF vars, redis, history
<1> QED BY <1>1, <1>2, <1>3, <1>4, <1>5, <1>6, <1>7, <1>8 DEF Next, Step

(* A block set by consume or by block is there until its time is up, less  *)
(* the skew, whatever overlaps it, unless it is lifted or meets a call     *)
(* that had read an earlier one.                                           *)
THEOREM BlocksStand == Spec => []BlockStands
<1>1. Init => Bans
  BY DEF Init, Bans, BlockStands, Idle
<1>2. IInv /\ Bans /\ [Next]_vars => Bans'
  BY BansKept
<1>3. Bans => BlockStands
  BY DEF Bans
<1> QED BY InitHolds, NextKeeps, <1>1, <1>2, <1>3, PTL DEF Spec
=============================================================================
