----------------------- MODULE FlightInventoryProofs -----------------------
(***************************************************************************)
(* Proofs about FlightInventory, for any number of events, bookings and    *)
(* consumers, of copies of a message and of failures.                      *)
(***************************************************************************)
EXTENDS FlightInventory, FiniteSums, TLAPS

Of(kind) == {e \in processed : Kind[e] = kind}

(* What is in the books: finitely many events, each counted once.          *)
Booked == IsFiniteSet(processed) /\ SeatsConserved

LEMMA SeatsOfIsSum == \A kind : SeatsOf(kind) = SumOver(Count, Of(kind))
  BY DEF SeatsOf, SumOver, Of

LEMMA SeatsOfIsSumNext == \A kind : SeatsOf(kind)' = SumOver(Count, Of(kind)')
  BY DEF SeatsOf, SumOver, Of, MapThenSumSet, MapThenFoldSet

LEMMA OfFinite ==
  ASSUME TypeOK, IsFiniteSet(processed), NEW kind
  PROVE  IsFiniteSet(Of(kind)) /\ Weighed(Count, Of(kind)) /\ SeatsOf(kind) \in Nat
  <1>1. IsFiniteSet(Of(kind))
    BY FS_Subset DEF Of
  <1>2. Weighed(Count, Of(kind))
    BY ConstantsAssumption DEF ConstantsAssumption, TypeOK, Weighed, Of
  <1> QED  BY <1>1, <1>2, SumNat, SeatsOfIsSum

(* One more event counts for its own kind and for no other.                *)
LEMMA OneMore ==
  ASSUME TypeOK, IsFiniteSet(processed), NEW e \in Events, MarkProcessed(e)
  PROVE  /\ IsFiniteSet(processed')
         /\ SeatsOf(Kind[e])' = SeatsOf(Kind[e]) + Count[e]
         /\ \A kind : kind # Kind[e] => SeatsOf(kind)' = SeatsOf(kind)
  <1>1. /\ e \notin processed /\ processed' = processed \cup {e}
    BY DEF MarkProcessed
  <1>2. IsFiniteSet(processed')
    BY <1>1, FS_AddElement
  <1>3. SeatsOf(Kind[e])' = SeatsOf(Kind[e]) + Count[e]
    <2> DEFINE k == Kind[e]
    <2>1. Of(k)' = Of(k) \cup {e} /\ e \notin Of(k)
      BY <1>1 DEF Of
    <2>2. IsFiniteSet(Of(k)) /\ Weighed(Count, Of(k) \cup {e})
      BY OfFinite, ConstantsAssumption DEF ConstantsAssumption, Weighed
    <2>3. SumOver(Count, Of(k) \cup {e}) = SumOver(Count, Of(k)) + Count[e]
      BY <2>1, <2>2, SumAdd
    <2>4. SeatsOf(k)' = SumOver(Count, Of(k)')
      BY SeatsOfIsSumNext
    <2>5. SeatsOf(k) = SumOver(Count, Of(k))
      BY SeatsOfIsSum
    <2>6. SeatsOf(k)' = SeatsOf(k) + Count[e]
      <3> HIDE DEF k
      <3> QED  BY <2>1, <2>3, <2>4, <2>5, Zenon
    <2> QED  BY <2>6
  <1>4. ASSUME NEW kind, kind # Kind[e]  PROVE SeatsOf(kind)' = SeatsOf(kind)
    <2>1. Of(kind)' = Of(kind)
      BY <1>1, <1>4 DEF Of
    <2>2. SeatsOf(kind)' = SumOver(Count, Of(kind)')
      BY SeatsOfIsSumNext
    <2>3. SeatsOf(kind) = SumOver(Count, Of(kind))
      BY SeatsOfIsSum
    <2> QED  BY <2>1, <2>2, <2>3
  <1> QED  BY <1>2, <1>3, <1>4

-----------------------------------------------------------------------------
(* What the parts of the handlers do.                                      *)
Handlers == [pc : {"idle", "check", "tx", "ack"}, event : Events \cup {NoEvent}]

LEMMA GotoEffect ==
  ASSUME TypeOK, NEW c \in Consumers, NEW pc \in {"check", "tx", "ack"},
         handler[c].pc # "idle", Goto(c, pc)
  PROVE  /\ handler' \in [Consumers -> Handlers]
         /\ \A d \in Consumers : handler'[d].event = handler[d].event
         /\ \A d \in Consumers : handler'[d].pc # "idle" => handler[d].pc # "idle"
  BY DEF TypeOK, Goto, Handlers

LEMMA AckEffect ==
  ASSUME TypeOK, NEW c \in Consumers, handler' = [handler EXCEPT ![c] = Idle]
  PROVE  /\ handler' \in [Consumers -> Handlers]
         /\ \A d \in Consumers : handler'[d].pc # "idle" =>
              handler[d].pc # "idle" /\ handler'[d].event = handler[d].event
  BY DEF TypeOK, Idle, Handlers

LEMMA RequeueEffect ==
  ASSUME TypeOK, NEW c \in Consumers, handler[c].pc # "idle", Requeue(c)
  PROVE  /\ handler' \in [Consumers -> Handlers]
         /\ \A d \in Consumers : handler'[d].pc # "idle" =>
              handler[d].pc # "idle" /\ handler'[d].event = handler[d].event
         /\ queue' \in [Events -> Nat]
         /\ \A e \in Events : queue'[e] > 0 => queue[e] > 0 \/ e = handler[c].event
  <1>1. handler[c].event \in Events
    BY DEF TypeOK
  <1>2. /\ queue' \in [Events -> Nat]
        /\ \A e \in Events : queue'[e] > 0 => queue[e] > 0 \/ e = handler[c].event
    BY <1>1 DEF TypeOK, Requeue
  <1> QED  BY <1>2, AckEffect DEF Requeue

-----------------------------------------------------------------------------
Typed == TypeOK /\ Booked

LEMMA InitTyped == Init => Typed
  <1> SUFFICES ASSUME Init  PROVE Typed
    OBVIOUS
  <1>1. TypeOK
    BY ConstantsAssumption DEF ConstantsAssumption, Init, TypeOK, Idle
  <1>2. IsFiniteSet(processed)
    BY FS_EmptySet DEF Init
  <1>3. \A kind : SeatsOf(kind) = 0
    <2> TAKE kind
    <2>1. Of(kind) = {}
      BY DEF Of, Init
    <2>2. SeatsOf(kind) = SumOver(Count, Of(kind))
      BY SeatsOfIsSum
    <2>3. SumOver(Count, {}) = 0
      BY SumEmpty
    <2> QED  BY <2>1, <2>2, <2>3, Zenon
  <1>4. SeatsConserved
    BY <1>1, <1>3 DEF SeatsConserved, Init, TypeOK
  <1> QED  BY <1>1, <1>2, <1>4 DEF Typed, Booked

(* A transaction on the inventory changes it by what its event says.       *)
LEMMA ProcessTyped ==
  ASSUME Typed, NEW c \in Consumers, NEW e, e = handler[c].event,
         ReserveSeats(c) \/ ConfirmSeats(c) \/ ReleaseSeats(c)
  PROVE  Typed'
  <1>1. /\ handler[c].pc = "tx" /\ e \in Events /\ MarkProcessed(e)
        /\ Goto(c, "ack") /\ UNCHANGED <<copies, queue, failures>>
    BY DEF Typed, TypeOK, ReserveSeats, ConfirmSeats, ReleaseSeats
  <1>2. /\ Count[e] \in Nat /\ available \in Nat /\ Capacity \in Nat
    BY <1>1, ConstantsAssumption DEF ConstantsAssumption, Typed, TypeOK
  <1>3. available' \in Nat
    BY <1>1, <1>2 DEF ReserveSeats, ConfirmSeats, ReleaseSeats
  <1>4. TypeOK'
    <2>1. /\ handler' \in [Consumers -> Handlers]
          /\ \A d \in Consumers : handler'[d].event = handler[d].event
          /\ \A d \in Consumers : handler'[d].pc # "idle" => handler[d].pc # "idle"
      BY <1>1, GotoEffect DEF Typed
    <2>2. processed' \in SUBSET Events
      BY <1>1 DEF MarkProcessed, Typed, TypeOK
    <2> QED  BY <1>1, <1>3, <2>1, <2>2 DEF Typed, TypeOK, Handlers
  <1>5. /\ IsFiniteSet(processed')
        /\ SeatsOf(Kind[e])' = SeatsOf(Kind[e]) + Count[e]
        /\ \A kind : kind # Kind[e] => SeatsOf(kind)' = SeatsOf(kind)
    BY <1>1, OneMore DEF Typed, Booked
  <1>6. \A kind : SeatsOf(kind) \in Nat
    BY OfFinite DEF Typed, Booked
  <1>7. available = Capacity - SeatsOf("reserve") + SeatsOf("release")
    BY DEF Typed, Booked, SeatsConserved
  <1>8. available' = Capacity - SeatsOf("reserve")' + SeatsOf("release")'
    <2>1. CASE ReserveSeats(c)
      <3>1. Kind[e] = "reserve" /\ available' = available - Count[e]
        BY <2>1 DEF ReserveSeats
      <3>2. SeatsOf("reserve")' = SeatsOf("reserve") + Count[e]
        BY <1>5, <3>1
      <3>3. SeatsOf("release")' = SeatsOf("release")
        BY <1>5, <3>1
      <3> QED  BY <1>2, <1>6, <1>7, <3>1, <3>2, <3>3
    <2>2. CASE ConfirmSeats(c)
      <3>1. Kind[e] = "confirm" /\ available' = available
        BY <2>2 DEF ConfirmSeats
      <3>2. SeatsOf("reserve")' = SeatsOf("reserve")
        BY <1>5, <3>1
      <3>3. SeatsOf("release")' = SeatsOf("release")
        BY <1>5, <3>1
      <3> QED  BY <1>7, <3>1, <3>2, <3>3
    <2>3. CASE ReleaseSeats(c)
      <3>1. Kind[e] = "release" /\ available' = available + Count[e]
        BY <2>3 DEF ReleaseSeats
      <3>2. SeatsOf("reserve")' = SeatsOf("reserve")
        BY <1>5, <3>1
      <3>3. SeatsOf("release")' = SeatsOf("release") + Count[e]
        BY <1>5, <3>1
      <3> QED  BY <1>2, <1>6, <1>7, <3>1, <3>2, <3>3
    <2> QED  BY <2>1, <2>2, <2>3
  <1>9. SeatsConserved'
    BY <1>8 DEF SeatsConserved
  <1> QED  BY <1>4, <1>5, <1>9 DEF Typed, Booked

(* Everything else moves messages and leaves the inventory alone.          *)
LEMMA MessagesTyped ==
  ASSUME Typed, UNCHANGED <<available, processed>>, TypeOK'
  PROVE  Typed'
  <1>1. SeatsConserved'
    <2>1. \A kind : SeatsOf(kind)' = SeatsOf(kind)
      <3> TAKE kind
      <3>1. Of(kind)' = Of(kind)
        BY DEF Of
      <3>2. SeatsOf(kind)' = SumOver(Count, Of(kind)')
        BY SeatsOfIsSumNext
      <3>3. SeatsOf(kind) = SumOver(Count, Of(kind))
        BY SeatsOfIsSum
      <3> QED  BY <3>1, <3>2, <3>3
    <2> QED  BY <2>1 DEF Typed, Booked, SeatsConserved
  <1> QED  BY <1>1 DEF Typed, Booked

LEMMA NextTyped ==
  ASSUME Typed, [Next]_vars
  PROVE  Typed'
  <1> USE DEF Typed
  <1>1. ASSUME NEW e \in Events, Publish(e)  PROVE Typed'
    <2>1. TypeOK'
      BY <1>1 DEF Publish, TypeOK
    <2> QED  BY <1>1, <2>1, MessagesTyped DEF Publish
  <1>2. ASSUME NEW e \in Events, ReservationExpires(e)  PROVE Typed'
    <2>1. TypeOK'
      BY <1>2 DEF ReservationExpires, TypeOK
    <2> QED  BY <1>2, <2>1, MessagesTyped DEF ReservationExpires
  <1>3. ASSUME NEW e \in Events, NEW c \in Consumers, Deliver(c, e)  PROVE Typed'
    <2>1. TypeOK'
      BY <1>3 DEF Deliver, TypeOK
    <2> QED  BY <1>3, <2>1, MessagesTyped DEF Deliver
  <1>4. ASSUME NEW c \in Consumers, CheckProcessed(c)  PROVE Typed'
    <2>1. TypeOK'
      <3>1. CASE Ack(c)
        BY <1>4, <3>1, AckEffect DEF CheckProcessed, Ack, TypeOK, Handlers
      <3>2. CASE Goto(c, "tx") /\ UNCHANGED queue
        BY <1>4, <3>2, GotoEffect DEF CheckProcessed, TypeOK, Handlers
      <3> QED  BY <1>4, <3>1, <3>2 DEF CheckProcessed
    <2> QED  BY <1>4, <2>1, MessagesTyped DEF CheckProcessed
  <1>5. ASSUME NEW c \in Consumers, Rejected(c)  PROVE Typed'
    <2>1. TypeOK'
      BY <1>5, RequeueEffect DEF Rejected, TypeOK, Handlers
    <2> QED  BY <1>5, <2>1, MessagesTyped DEF Rejected
  <1>6. ASSUME NEW c \in Consumers, Acknowledge(c)  PROVE Typed'
    <2>1. TypeOK'
      BY <1>6, AckEffect DEF Acknowledge, Ack, TypeOK, Handlers
    <2> QED  BY <1>6, <2>1, MessagesTyped DEF Acknowledge
  <1>7. ASSUME NEW c \in Consumers, Fails(c)  PROVE Typed'
    <2>1. TypeOK'
      BY <1>7, RequeueEffect DEF Fails, TypeOK, Handlers
    <2> QED  BY <1>7, <2>1, MessagesTyped DEF Fails
  <1>8. CASE UNCHANGED vars
    <2>1. TypeOK'
      BY <1>8 DEF vars, TypeOK
    <2> QED  BY <1>8, <2>1, MessagesTyped DEF vars
  <1> QED
    BY <1>1, <1>2, <1>3, <1>4, <1>5, <1>6, <1>7, <1>8, ProcessTyped DEF Next, Handle

LEMMA AlwaysTyped == Spec => []Typed
  BY InitTyped, NextTyped, PTL DEF Spec

(* The inventory and the queues keep their types: in particular no         *)
(* sequence of reservations, however often delivered, takes more seats     *)
(* than there are.                                                         *)
THEOREM TypeCorrect == Spec => []TypeOK
  <1>1. Typed => TypeOK
    BY DEF Typed
  <1> QED  BY <1>1, AlwaysTyped, PTL

(* Every event counts exactly once, for any number of events, copies,      *)
(* consumers and failures (processed_events and the transactions of the    *)
(* handlers).                                                              *)
THEOREM EventsCountOnce == Spec => []SeatsConserved
  <1>1. Typed => SeatsConserved
    BY DEF Typed, Booked
  <1> QED  BY <1>1, AlwaysTyped, PTL

-----------------------------------------------------------------------------
(* An event is in flight or carried out.                                   *)
InPlay(e) ==
  \/ queue[e] > 0
  \/ e \in processed
  \/ \E c \in Consumers : handler[c].pc # "idle" /\ handler[c].event = e

(* Only the outbox brings an event into play; handlers move it about.      *)
LEMMA OnlyPublished ==
  ASSUME Typed, [Next]_vars, NEW e \in Events, InPlay(e)'
  PROVE  InPlay(e) \/ Publish(e)
  <1> USE DEF Typed
  <1>1. ASSUME NEW f \in Events, Publish(f)  PROVE InPlay(e) \/ Publish(e)
    <2>1. CASE e = f
      BY <1>1, <2>1
    <2>2. CASE e # f
      BY <1>1, <2>2 DEF Publish, InPlay, TypeOK
    <2> QED  BY <2>1, <2>2
  <1>2. ASSUME NEW f \in Events, ReservationExpires(f)  PROVE InPlay(e)
    BY <1>2 DEF ReservationExpires, InPlay, TypeOK
  <1>3. ASSUME NEW f \in Events, NEW c \in Consumers, Deliver(c, f)  PROVE InPlay(e)
    BY <1>3 DEF Deliver, InPlay, TypeOK
  <1>4. ASSUME NEW c \in Consumers, CheckProcessed(c)  PROVE InPlay(e)
    <2>1. CASE Ack(c)
      BY <1>4, <2>1, AckEffect DEF CheckProcessed, Ack, InPlay
    <2>2. CASE Goto(c, "tx") /\ UNCHANGED queue
      BY <1>4, <2>2, GotoEffect DEF CheckProcessed, InPlay
    <2> QED  BY <1>4, <2>1, <2>2 DEF CheckProcessed
  <1>5. ASSUME NEW c \in Consumers, ReserveSeats(c) \/ ConfirmSeats(c) \/ ReleaseSeats(c)
        PROVE  InPlay(e)
    <2>1. /\ handler[c].pc = "tx" /\ processed' = processed \cup {handler[c].event}
          /\ Goto(c, "ack") /\ queue' = queue
      BY <1>5 DEF ReserveSeats, ConfirmSeats, ReleaseSeats, MarkProcessed
    <2> QED  BY <2>1, GotoEffect DEF InPlay
  <1>6. ASSUME NEW c \in Consumers, Rejected(c)  PROVE InPlay(e)
    BY <1>6, RequeueEffect DEF Rejected, InPlay
  <1>7. ASSUME NEW c \in Consumers, Acknowledge(c)  PROVE InPlay(e)
    BY <1>7, AckEffect DEF Acknowledge, Ack, InPlay
  <1>8. ASSUME NEW c \in Consumers, Fails(c)  PROVE InPlay(e)
    BY <1>8, RequeueEffect DEF Fails, InPlay
  <1>9. CASE UNCHANGED vars
    BY <1>9 DEF vars, InPlay
  <1> QED
    BY <1>1, <1>2, <1>3, <1>4, <1>5, <1>6, <1>7, <1>8, <1>9 DEF Next, Handle

(* What was published or processed stays so.                               *)
LEMMA HistoryKept ==
  ASSUME Typed, [Next]_vars
  PROVE  /\ processed \subseteq processed'
         /\ \A e \in Events : copies[e] > 0 \/ Publish(e) => copies'[e] > 0
  <1>1. ASSUME NEW e \in Events, Publish(e)
        PROVE  /\ processed' = processed /\ copies'[e] > 0
               /\ \A f \in Events \ {e} : copies'[f] = copies[f]
    BY <1>1 DEF Publish, Typed, TypeOK
  <1>2. ASSUME ~ \E e \in Events : Publish(e)
        PROVE  processed \subseteq processed' /\ copies' = copies
    BY <1>2 DEF Next, Handle, ReservationExpires, Deliver, CheckProcessed, ReserveSeats,
                ConfirmSeats, ReleaseSeats, MarkProcessed, Rejected, Acknowledge, Fails, vars
  <1>3. CASE \E e \in Events : Publish(e)
    <2>1. PICK e \in Events : Publish(e)
      BY <1>3
    <2>2. ASSUME NEW f \in Events, Publish(f)  PROVE copies'[f] > 0
      BY <2>2, <1>1
    <2>3. \A f \in Events : copies[f] > 0 => copies'[f] > 0
      BY <1>1, <2>1
    <2> QED  BY <1>1, <2>1, <2>2, <2>3
  <1>4. CASE ~ \E e \in Events : Publish(e)
    BY <1>2, <1>4
  <1> QED  BY <1>3, <1>4

(* Nothing is handled that was not published.                              *)
Sent == \A e \in Events : InPlay(e) => copies[e] > 0

LEMMA AlwaysSent == Spec => [](Typed /\ Sent)
  <1>1. Init => Sent
    BY DEF Init, Sent, InPlay, Idle
  <1>2. Typed /\ Sent /\ [Next]_vars => Sent'
    BY OnlyPublished, HistoryKept DEF Sent
  <1> QED  BY <1>1, <1>2, AlwaysTyped, PTL DEF Spec

-----------------------------------------------------------------------------
(* A release is not lost.  Reservations are not spoken of: the TTL of      *)
(* their queue drops them.                                                 *)
Acked == \A c \in Consumers : handler[c].pc = "ack" => handler[c].event \in processed

LEMMA InPlayStays ==
  ASSUME Typed, Acked, [Next]_vars, NEW e \in Events, Kind[e] = "release",
         InPlay(e) \/ Publish(e)
  PROVE  InPlay(e)'
  <1> USE DEF Typed
  <1>0. ASSUME Publish(e)  PROVE InPlay(e)'
    BY <1>0 DEF Publish, InPlay, TypeOK
  <1> SUFFICES ASSUME InPlay(e)  PROVE InPlay(e)'
    BY <1>0
  <1>1. ASSUME NEW f \in Events, Publish(f)  PROVE InPlay(e)'
    BY <1>1 DEF Publish, InPlay, TypeOK
  <1>2. ASSUME NEW f \in Events, ReservationExpires(f)  PROVE InPlay(e)'
    <2>1. queue'[e] = queue[e] /\ UNCHANGED <<processed, handler>>
      BY <1>2 DEF ReservationExpires, TypeOK
    <2> QED  BY <2>1 DEF InPlay
  <1>3. ASSUME NEW f \in Events, NEW c \in Consumers, Deliver(c, f)  PROVE InPlay(e)'
    <2>1. CASE e = f
      <3>1. handler'[c].pc # "idle" /\ handler'[c].event = e
        BY <1>3, <2>1 DEF Deliver, TypeOK
      <3> QED  BY <3>1 DEF InPlay
    <2>2. CASE e # f
      <3>1. queue'[e] = queue[e] /\ processed' = processed
        BY <1>3, <2>2 DEF Deliver, TypeOK
      <3>2. \A d \in Consumers : handler[d].pc # "idle" => handler'[d] = handler[d]
        BY <1>3 DEF Deliver, TypeOK
      <3> QED  BY <3>1, <3>2 DEF InPlay
    <2> QED  BY <2>1, <2>2
  <1>4. ASSUME NEW c \in Consumers,
               CheckProcessed(c) \/ ReserveSeats(c) \/ ConfirmSeats(c) \/ ReleaseSeats(c)
        PROVE  InPlay(e)'
    <2>1. processed \subseteq processed' /\ queue' = queue
      BY <1>4 DEF CheckProcessed, Ack, ReserveSeats, ConfirmSeats, ReleaseSeats, MarkProcessed
    <2>2. CASE handler[c].event = e /\ handler'[c].pc = "idle"
      BY <1>4, <2>1, <2>2
      DEF CheckProcessed, Goto, ReserveSeats, ConfirmSeats, ReleaseSeats, InPlay, TypeOK
    <2>3. CASE ~(handler[c].event = e /\ handler'[c].pc = "idle")
      <3>1. \A d \in Consumers : handler[d].pc # "idle" /\ handler[d].event = e =>
              handler'[d].pc # "idle" /\ handler'[d].event = e
        BY <1>4, <2>3
        DEF CheckProcessed, Ack, Goto, ReserveSeats, ConfirmSeats, ReleaseSeats, TypeOK, Idle
      <3> QED  BY <2>1, <3>1 DEF InPlay
    <2> QED  BY <2>2, <2>3
  <1>5. ASSUME NEW c \in Consumers, Rejected(c) \/ Fails(c)  PROVE InPlay(e)'
    <2>1. /\ handler[c].event \in Events /\ processed' = processed
          /\ queue' = [queue EXCEPT ![handler[c].event] = @ + 1]
          /\ \A d \in Consumers \ {c} : handler'[d] = handler[d]
      BY <1>5 DEF Rejected, Fails, Requeue, TypeOK
    <2>2. queue'[e] >= queue[e] /\ (handler[c].event = e => queue'[e] > 0)
      BY <2>1 DEF TypeOK
    <2>3. queue[e] \in Nat /\ queue'[e] \in Nat
      BY <2>1 DEF TypeOK
    <2> QED  BY <2>1, <2>2, <2>3 DEF InPlay
  <1>6. ASSUME NEW c \in Consumers, Acknowledge(c)  PROVE InPlay(e)'
    <2>1. CASE e \in processed
      BY <1>6, <2>1 DEF Acknowledge, InPlay
    <2>2. CASE e \notin processed
      <3>1. handler[c].event # e
        BY <1>6, <2>2 DEF Acknowledge, Acked
      <3>2. \A d \in Consumers \ {c} : handler'[d] = handler[d]
        BY <1>6 DEF Acknowledge, Ack, TypeOK
      <3>3. UNCHANGED <<queue, processed>>
        BY <1>6 DEF Acknowledge, Ack
      <3> QED  BY <3>1, <3>2, <3>3 DEF InPlay
    <2> QED  BY <2>1, <2>2
  <1>7. CASE UNCHANGED vars
    BY <1>7 DEF vars, InPlay
  <1> QED
    BY <1>1, <1>2, <1>3, <1>4, <1>5, <1>6, <1>7 DEF Next, Handle

LEMMA NextAcked ==
  ASSUME Typed, Acked, [Next]_vars
  PROVE  Acked'
  <1> SUFFICES ASSUME NEW d \in Consumers, handler'[d].pc = "ack"
               PROVE  handler'[d].event \in processed'
    BY DEF Acked
  <1>1. CASE handler'[d] = handler[d]
    BY <1>1, HistoryKept DEF Acked
  <1>2. CASE handler'[d] # handler[d]
    <2>1. ASSUME NEW c \in Consumers, ReserveSeats(c) \/ ConfirmSeats(c) \/ ReleaseSeats(c)
          PROVE  handler'[d].event \in processed'
      <3>1. /\ handler[c].event \in processed'
            /\ handler' = [handler EXCEPT ![c].pc = "ack"]
        BY <2>1 DEF ReserveSeats, ConfirmSeats, ReleaseSeats, MarkProcessed, Goto
      <3> QED  BY <1>2, <3>1 DEF Typed, TypeOK
    <2>2. ASSUME NEW c \in Consumers,
                 CheckProcessed(c) \/ Rejected(c) \/ Acknowledge(c) \/ Fails(c)
          PROVE  FALSE
      BY <1>2, <2>2 DEF CheckProcessed, Rejected, Acknowledge, Fails, Ack, Requeue, Goto, Idle,
                        Typed, TypeOK
    <2>3. ASSUME NEW e \in Events, NEW c \in Consumers, Deliver(c, e)  PROVE FALSE
      BY <1>2, <2>3 DEF Deliver, Typed, TypeOK
    <2>4. ASSUME NEW e \in Events, Publish(e) \/ ReservationExpires(e)  PROVE FALSE
      BY <1>2, <2>4 DEF Publish, ReservationExpires
    <2>5. ~UNCHANGED vars
      BY <1>2 DEF vars
    <2> QED  BY <2>1, <2>2, <2>3, <2>4, <2>5 DEF Next, Handle
  <1> QED  BY <1>1, <1>2

(* What is published is new or was published before.                       *)
LEMMA PublishedBefore ==
  ASSUME Typed, [Next]_vars, NEW e \in Events, copies'[e] > 0
  PROVE  copies[e] > 0 \/ Publish(e)
  <1>1. CASE copies' = copies
    BY <1>1
  <1>2. CASE \E f \in Events : Publish(f)
    <2>1. PICK f \in Events : Publish(f)
      BY <1>2
    <2>2. CASE e = f
      BY <2>1, <2>2
    <2>3. CASE e # f
      BY <2>1, <2>3 DEF Publish, Typed, TypeOK
    <2> QED  BY <2>2, <2>3
  <1> QED
    BY <1>1, <1>2 DEF Next, Handle, ReservationExpires, Deliver, CheckProcessed, ReserveSeats,
                ConfirmSeats, ReleaseSeats, Rejected, Acknowledge, Fails, vars

(* No published release is lost, for any number of releases, copies,       *)
(* consumers and failures (Fails and Rejected, which requeue, and          *)
(* Acknowledge, which comes after the transaction).                        *)
THEOREM ReleasesNotLost == Spec => []ReleasesKept
  <1>1. Init => Acked /\ ReleasesKept
    BY DEF Init, Acked, ReleasesKept, Idle
  <1>2. ReleasesKept <=> \A e \in Events : Kind[e] = "release" /\ copies[e] > 0 => InPlay(e)
    BY DEF ReleasesKept, InPlay
  <1>3. ReleasesKept' <=>
          \A e \in Events : Kind[e] = "release" /\ copies'[e] > 0 => InPlay(e)'
    BY DEF ReleasesKept, InPlay
  <1>4. Typed /\ Acked /\ ReleasesKept /\ [Next]_vars => Acked' /\ ReleasesKept'
    BY <1>2, <1>3, NextAcked, PublishedBefore, InPlayStays
  <1> QED  BY <1>1, <1>4, AlwaysTyped, PTL DEF Spec

-----------------------------------------------------------------------------
(* What booking-service sends: a release gives back no more than the       *)
(* reservation of its booking takes, and a booking has at most one.        *)
Paired ==
  /\ \A e \in Events : Kind[e] = "release" =>
       \E r \in ReservationOf(e) : Count[e] <= Count[r]
  /\ \A d, e \in Events :
       Kind[d] = "release" /\ Kind[e] = "release" /\ BookingOf[d] = BookingOf[e] => d = e

(* The releases carried out after their reservations are matched by them.  *)
LEMMA ReleasesCovered ==
  ASSUME Paired, Typed
  PROVE  SeatsOf("release") <= SeatsOf("reserve") + SumOver(Count, Unreserved)
  <1> DEFINE R == Of("release") \ Unreserved
             S == Of("reserve")
             match == [e \in R |-> CHOOSE r \in ReservationOf(e) : Count[e] <= Count[r]]
  <1>1. ASSUME NEW e \in R
        PROVE  /\ match[e] \in S /\ Count[e] <= Count[match[e]]
               /\ BookingOf[match[e]] = BookingOf[e] /\ e \in Events /\ Kind[e] = "release"
    <2>1. e \in Events /\ Kind[e] = "release" /\ e \in processed
      BY DEF Of, Typed, TypeOK
    <2>2. \E r \in ReservationOf(e) : Count[e] <= Count[r]
      BY <2>1 DEF Paired
    <2>3. match[e] \in ReservationOf(e) /\ Count[e] <= Count[match[e]]
      BY <2>2
    <2>4. ReservationOf(e) \subseteq processed
      BY <2>1 DEF Unreserved
    <2> HIDE DEF match
    <2> QED  BY <2>1, <2>3, <2>4 DEF ReservationOf, Of
  <1>2. match \in [R -> S]
    <2>1. match = [e \in R |-> match[e]]
      OBVIOUS
    <2> HIDE DEF match, R, S
    <2> QED  BY <1>1, <2>1
  <1>3. \A d, e \in R : match[d] = match[e] => d = e
    <2> HIDE DEF match
    <2> QED  BY <1>1 DEF Paired
  <1>4. /\ IsFiniteSet(S) /\ Weighed(Count, S)
        /\ IsFiniteSet(Of("release")) /\ Weighed(Count, Of("release"))
    BY OfFinite DEF Typed, Booked
  <1>5. /\ IsFiniteSet(R) /\ Weighed(Count, R)
        /\ IsFiniteSet(Unreserved) /\ Weighed(Count, Unreserved)
        /\ R \cap Unreserved = {} /\ R \cup Unreserved = Of("release")
    <2>1. Unreserved \subseteq Of("release")
      BY DEF Unreserved, Of
    <2> QED  BY <1>4, <2>1, FS_Subset DEF Weighed
  <1>6. SumOver(Count, R) <= SumOver(Count, S)
    <2> HIDE DEF match, R, S
    <2>1. \A e \in R : Count[e] <= Count[match[e]]
      BY <1>1
    <2> QED  BY <1>2, <1>3, <1>4, <1>5, <2>1, SumMatched
  <1>7. SumOver(Count, Of("release")) = SumOver(Count, R) + SumOver(Count, Unreserved)
    <2> HIDE DEF R
    <2>1. Weighed(Count, R \cup Unreserved)
      BY <1>4, <1>5
    <2>2. SumOver(Count, R \cup Unreserved) = SumOver(Count, R) + SumOver(Count, Unreserved)
      BY <1>5, <2>1, SumParts
    <2> QED  BY <1>5, <2>2
  <1>8. /\ SumOver(Count, R) \in Nat /\ SumOver(Count, S) \in Nat
        /\ SumOver(Count, Unreserved) \in Nat
    BY <1>4, <1>5, SumNat
  <1> HIDE DEF R, match
  <1> QED  BY <1>6, <1>7, <1>8, SeatsOfIsSum

(* With such releases the flight never has fewer free seats than none, and *)
(* more than it has seats only by the releases carried out ahead of their  *)
(* reservations, however messages are ordered, duplicated, delayed and     *)
(* retried.                                                                *)
THEOREM CapacityKept ==
  ASSUME Paired
  PROVE  Spec => []WithinCapacity
  <1>1. Typed => WithinCapacity
    <2> SUFFICES ASSUME Typed  PROVE WithinCapacity
      OBVIOUS
    <2>1. SeatsOf("release") <= SeatsOf("reserve") + SumOver(Count, Unreserved)
      BY ReleasesCovered
    <2>2. SeatsOf("release") \in Nat /\ SeatsOf("reserve") \in Nat
      BY OfFinite DEF Typed, Booked
    <2>3. SumOver(Count, Unreserved) \in Nat
      <3>1. Unreserved \subseteq Of("release")
        BY DEF Unreserved, Of
      <3>2. IsFiniteSet(Unreserved) /\ Weighed(Count, Unreserved)
        BY <3>1, OfFinite, FS_Subset DEF Typed, Booked, Weighed
      <3> QED  BY <3>2, SumNat
    <2>4. available = Capacity - SeatsOf("reserve") + SeatsOf("release") /\ Capacity \in Nat
      BY ConstantsAssumption DEF ConstantsAssumption, Typed, Booked, SeatsConserved
    <2>5. available \in Nat
      BY DEF Typed, TypeOK
    <2>6. available \in 0..(Capacity + SumOver(Count, Unreserved))
      BY <2>1, <2>2, <2>3, <2>4, <2>5
    <2> QED  BY <2>6 DEF WithinCapacity, SumOver
  <1> QED  BY <1>1, AlwaysTyped, PTL
=============================================================================
