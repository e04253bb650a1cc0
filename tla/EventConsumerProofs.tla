-------------------------- MODULE EventConsumerProofs --------------------------
(***************************************************************************)
(* Theorems about EventConsumer, for any bookings, events and consume      *)
(* loops, and any number of copies, crashes and database errors.           *)
(***************************************************************************)
EXTENDS EventConsumer, FiniteSetTheorems, TLAPS

(* The state of a consume loop that holds an event.                        *)
LEMMA HandlerShape ==
  ASSUME TypeOK, NEW c \in Consumers, handler[c] # Waiting
  PROVE  /\ handler[c] \in HandlerState \ {Waiting}
         /\ handler[c].event \in Events
         /\ About[handler[c].event] \in Bookings
         /\ handler[c].at # "waiting"
BY ConsumerAssumption DEF TypeOK, HandlerState, Waiting

(* An event that a loop works on is not the waiting state.                 *)
LEMMA WorkingIsNotWaiting ==
  ASSUME NEW c, handler[c].at # "waiting"
  PROVE  handler[c] # Waiting
BY DEF Waiting

(* A loop goes on with its event, or returns.                              *)
LEMMA GoesOn ==
  ASSUME TypeOK, NEW c \in Consumers, handler[c] # Waiting,
         NEW at \in {"received", "checked", "fresh", "loaded", "refused", "updated", "done"}
  PROVE  /\ Goes(c, at) => handler' \in [Consumers -> HandlerState]
         /\ Returns(c) => handler' \in [Consumers -> HandlerState]
<1>1. handler[c] \in HandlerState \ {Waiting}
  BY HandlerShape
<1>2. [handler[c] EXCEPT !.at = at] \in HandlerState
  BY <1>1 DEF HandlerState
<1>3. Waiting \in HandlerState
  BY DEF HandlerState
<1> QED
  BY <1>2, <1>3 DEF TypeOK, Goes, Returns

(* Every reachable state is well typed.                                    *)
THEOREM TypeCorrect == Spec => []TypeOK
<1>1. Init => TypeOK
  <2>1. 0 \in Nat /\ 0 \in 0 .. MaxCopies /\ 0 \in 0 .. MaxFaults
    BY ConsumerAssumption
  <2> QED
    BY <2>1 DEF Init, TypeOK, HandlerState
<1>2. TypeOK /\ [Next]_vars => TypeOK'
  <2> SUFFICES ASSUME TypeOK, [Next]_vars PROVE TypeOK'
    OBVIOUS
  <2>1. ASSUME NEW b \in Bookings, Create(b) \/ Cancel(b)
        PROVE  TypeOK'
    BY <2>1 DEF Create, Cancel, TypeOK, BookingStatus
  <2>2. ASSUME NEW b \in Bookings, RequestCancellation(b)
        PROVE  TypeOK'
    <3>1. rows[b] \in BookingStatus
      BY <2>2 DEF RequestCancellation, StartCancellationAllowed, BookingStatus
    <3> QED
      BY <2>2, <3>1 DEF RequestCancellation, TypeOK
  <2>3. ASSUME NEW b \in Bookings, RequestCancellationUpdate(b)
        PROVE  TypeOK'
    BY <2>3 DEF RequestCancellationUpdate, TypeOK, BookingStatus
  <2>4. ASSUME NEW e \in Events, Send(e)
        PROVE  TypeOK'
    <3>1. sent[e] + 1 \in 0 .. MaxCopies /\ queue[e] + 1 \in Nat
      BY <2>4, ConsumerAssumption DEF Send, TypeOK
    <3> QED
      BY <2>4, <3>1 DEF Send, TypeOK
  <2>5. ASSUME NEW c \in Consumers, NEW e \in Events, Deliver(c, e)
        PROVE  TypeOK'
    <3>1. queue[e] - 1 \in Nat
      BY <2>5 DEF Deliver, TypeOK
    <3>2. [at |-> "received", event |-> e, seen |-> None] \in HandlerState
      BY DEF HandlerState
    <3> QED
      BY <2>5, <3>1, <3>2 DEF Deliver, TypeOK
  <2>6. ASSUME NEW c \in Consumers, Ack(c) \/ CheckProcessed(c) \/ CheckAgain(c)
                                      \/ ConfirmRefused(c)
        PROVE  TypeOK'
    <3>1. handler[c] # Waiting
      BY <2>6 DEF Ack, CheckProcessed, CheckAgain, ConfirmRefused, Confirming, Waiting
    <3>2. handler' \in [Consumers -> HandlerState]
      BY <2>6, <3>1, GoesOn DEF Ack, CheckProcessed, CheckAgain, ConfirmRefused
    <3> QED
      BY <2>6, <3>2 DEF Ack, CheckProcessed, CheckAgain, ConfirmRefused, TypeOK
  <2>7. ASSUME NEW c \in Consumers, DbError(c)
        PROVE  TypeOK'
    <3>1. handler[c] # Waiting
      BY <2>7 DEF DbError, Waiting
    <3>2. handler' \in [Consumers -> HandlerState]
      BY <2>7, <3>1, GoesOn DEF DbError
    <3>3. faults + 1 \in 0 .. MaxFaults
      BY <2>7, ConsumerAssumption DEF DbError, TypeOK
    <3> QED
      BY <2>7, <3>2, <3>3 DEF DbError, TypeOK
  <2>8. ASSUME NEW c \in Consumers, Crash(c)
        PROVE  TypeOK'
    <3>1. handler' \in [Consumers -> HandlerState]
      BY <2>8, GoesOn DEF Crash
    <3>2. faults + 1 \in 0 .. MaxFaults
      BY <2>8, ConsumerAssumption DEF Crash, TypeOK
    <3>3. handler[c].event \in Events
      BY <2>8, HandlerShape DEF Crash
    <3>4. queue[handler[c].event] + 1 \in Nat
      BY <3>3 DEF TypeOK
    <3> QED
      BY <2>8, <3>1, <3>2, <3>4 DEF Crash, TypeOK
  <2>9. ASSUME NEW c \in Consumers, GetByID(c)
        PROVE  TypeOK'
    <3>1. handler[c] # Waiting
      BY <2>9 DEF GetByID, Confirming, Waiting
    <3>2. handler[c] \in HandlerState \ {Waiting} /\ Target(c) \in Bookings
      BY <3>1, HandlerShape DEF Target
    <3>3. rows[Target(c)] \in BookingStatus
      BY <2>9, <3>2 DEF GetByID, TypeOK
    <3>4. [handler[c] EXCEPT !.at = "loaded", !.seen = rows[Target(c)]] \in HandlerState
      BY <3>2, <3>3 DEF HandlerState
    <3> QED
      BY <2>9, <3>4 DEF GetByID, TypeOK
  <2>10. ASSUME NEW c \in Consumers, ConfirmUpdate(c)
         PROVE  TypeOK'
    <3>1. handler[c] # Waiting
      BY <2>10 DEF ConfirmUpdate, Confirming, Waiting
    <3>2. handler' \in [Consumers -> HandlerState]
      BY <2>10, <3>1, GoesOn DEF ConfirmUpdate
    <3>3. applied[handler[c].event] + 1 \in Nat
      BY <3>1, HandlerShape DEF TypeOK
    <3> QED
      BY <2>10, <3>2, <3>3 DEF ConfirmUpdate, TypeOK, BookingStatus
  <2>11. ASSUME NEW c \in Consumers, RecordProcessed(c) \/ MarkEventProcessed(c)
         PROVE  TypeOK'
    <3>1. handler[c] # Waiting
      BY <2>11 DEF RecordProcessed, MarkEventProcessed, Confirming, Waiting
    <3>2. handler' \in [Consumers -> HandlerState]
      BY <2>11, <3>1, GoesOn DEF RecordProcessed, MarkEventProcessed
    <3>3. handler[c].event \in Events
      BY <3>1, HandlerShape
    <3> QED
      BY <2>11, <3>2, <3>3 DEF RecordProcessed, MarkEventProcessed, TypeOK
  <2>12. ASSUME NEW c \in Consumers, Denied(c)
         PROVE  TypeOK'
    <3>1. handler[c] # Waiting
      BY <2>12 DEF Denied, Waiting
    <3>2. handler' \in [Consumers -> HandlerState]
      BY <2>12, <3>1, GoesOn DEF Denied
    <3>3. applied[handler[c].event] + 1 \in Nat
      BY <3>1, HandlerShape DEF TypeOK
    <3>4. rows' \in [Bookings -> BookingStatus \cup {Absent}]
      BY <2>12 DEF Denied, TypeOK, BookingStatus
    <3>5. applied' \in [Events -> Nat]
      BY <2>12, <3>3 DEF Denied, TypeOK
    <3> QED
      BY <2>12, <3>2, <3>4, <3>5 DEF Denied, TypeOK
  <2>13. CASE UNCHANGED vars
    BY <2>13 DEF vars, TypeOK
  <2> QED
    BY <2>1, <2>2, <2>3, <2>4, <2>5, <2>6, <2>7, <2>8, <2>9, <2>10, <2>11, <2>12, <2>13
    DEF Next, Handle
<1> QED
  BY <1>1, <1>2, PTL DEF Spec

-----------------------------------------------------------------------------
(* The booking has been created, and it no longer waits for Catalog.       *)
Answered(b) == rows[b] \notin {Absent, AwaitsConfirmation}

(* Nothing makes a booking wait for Catalog a second time.                 *)
LEMMA AnsweredForGood ==
  ASSUME TypeOK, [Next]_vars, NEW b \in Bookings
  PROVE  /\ rows[b] # Absent => rows'[b] # Absent
         /\ Answered(b) => Answered(b)'
<1> USE DEF Answered, BookingStatus, AwaitsConfirmation, Confirmed, Cancelled,
            CancellationPending, Absent
<1>1. ASSUME NEW a \in Bookings, Create(a) \/ Cancel(a) \/ RequestCancellationUpdate(a)
      PROVE  /\ rows[b] # Absent => rows'[b] # Absent
             /\ Answered(b) => Answered(b)'
  BY <1>1 DEF Create, Cancel, RequestCancellationUpdate, TypeOK
<1>2. ASSUME NEW c \in Consumers, ConfirmUpdate(c) \/ Denied(c)
      PROVE  /\ rows[b] # Absent => rows'[b] # Absent
             /\ Answered(b) => Answered(b)'
  BY <1>2 DEF ConfirmUpdate, Denied, TypeOK
<1>3. CASE UNCHANGED rows
  BY <1>3
<1> QED
  BY <1>1, <1>2, <1>3
  DEF Next, Handle, RequestCancellation, Send, Deliver, CheckProcessed, CheckAgain,
      GetByID, ConfirmRefused, RecordProcessed, MarkEventProcessed, Ack, DbError, Crash,
      vars

(* What a loop has seen of the booking of a confirmation, and what must    *)
(* still be true when the event is recorded.                               *)
EffectIsKnown ==
  \A c \in Consumers :
    Kind[handler[c].event] = "confirmed" =>
      /\ handler[c].at = "loaded" =>
           /\ rows[Target(c)] # Absent
           /\ handler[c].seen \in BookingStatus
           /\ handler[c].seen # AwaitsConfirmation => Answered(Target(c))
      /\ handler[c].at \in {"refused", "updated"} => Answered(Target(c))

EffectInv ==
  /\ EffectIsKnown
  /\ \A e \in processed : Answered(About[e])

(* An event is recorded only after it has had its effect, or after another *)
(* call took the booking out of awaits_confirmation, whatever happens      *)
(* between the two statements.                                             *)
THEOREM ProcessedEventsTookEffect == Spec => []ProcessedTookEffect
<1>1. Init => EffectInv
  BY DEF Init, EffectInv, EffectIsKnown, Waiting
<1>2. TypeOK /\ EffectInv /\ [Next]_vars => EffectInv'
  <2> SUFFICES ASSUME TypeOK, EffectInv, [Next]_vars PROVE EffectInv'
    OBVIOUS
  <2>1. ASSUME NEW b \in Bookings
        PROVE  /\ rows[b] # Absent => rows'[b] # Absent
               /\ Answered(b) => Answered(b)'
    BY <2>1, AnsweredForGood
  <2>2. ASSUME NEW d \in Consumers, handler'[d] # Waiting,
               Kind[handler'[d].event] = "confirmed"
        PROVE  /\ handler'[d].at = "loaded" =>
                    /\ rows'[Target(d)'] # Absent
                    /\ handler'[d].seen \in BookingStatus
                    /\ handler'[d].seen # AwaitsConfirmation => Answered(Target(d))'
               /\ handler'[d].at \in {"refused", "updated"} => Answered(Target(d))'
    <3> DEFINE Known ==
          /\ handler'[d].at = "loaded" =>
               /\ rows'[Target(d)'] # Absent
               /\ handler'[d].seen \in BookingStatus
               /\ handler'[d].seen # AwaitsConfirmation => Answered(Target(d))'
          /\ handler'[d].at \in {"refused", "updated"} => Answered(Target(d))'
    <3>1. CASE handler'[d] = handler[d]
      <4>1. Target(d) \in Bookings /\ Target(d)' = Target(d)
        BY <2>2, <3>1, HandlerShape DEF Target
      <4> QED
        BY <2>1, <2>2, <3>1, <4>1 DEF EffectInv, EffectIsKnown, Answered
    <3>2. ASSUME NEW c \in Consumers, NEW e \in Events, Deliver(c, e)
          PROVE  Known
      BY <2>2, <3>1, <3>2 DEF Deliver, TypeOK
    <3>3. ASSUME NEW c \in Consumers,
                 \/ Ack(c) \/ DbError(c) \/ Crash(c) \/ CheckProcessed(c)
                 \/ CheckAgain(c) \/ RecordProcessed(c) \/ MarkEventProcessed(c)
                 \/ Denied(c)
          PROVE  Known
      <4>1. handler[c] # Waiting
        <5>1. Crash(c) \/ handler[c].at # "waiting"
          BY <3>3 DEF Ack, DbError, CheckProcessed, CheckAgain, RecordProcessed,
                      MarkEventProcessed, Denied, Confirming
        <5> QED
          BY <5>1, WorkingIsNotWaiting DEF Crash
      <4>2. handler[c] \in HandlerState \ {Waiting}
        BY <4>1, HandlerShape
      <4>3. CASE d = c
        <5>1. handler'[d] = Waiting \/ handler'[d].at \in {"checked", "fresh", "done"}
          <6>1. Returns(c) \/ \E at \in {"checked", "fresh", "done"} : Goes(c, at)
            BY <3>3 DEF Ack, DbError, Crash, CheckProcessed, CheckAgain,
                        RecordProcessed, MarkEventProcessed, Denied
          <6> QED
            BY <4>2, <4>3, <6>1 DEF Goes, Returns, TypeOK, HandlerState
        <5> QED
          BY <2>2, <5>1
      <4>4. CASE d # c
        BY <3>1, <3>3, <4>4 DEF Ack, DbError, Crash, CheckProcessed, CheckAgain,
           RecordProcessed, MarkEventProcessed, Denied, Goes, Returns, TypeOK
      <4> QED
        BY <4>3, <4>4
    <3>4. ASSUME NEW c \in Consumers, GetByID(c)
          PROVE  Known
      <4>1. handler[c] # Waiting
        BY <3>4 DEF GetByID, Confirming, Waiting
      <4>2. handler[c] \in HandlerState \ {Waiting} /\ Target(c) \in Bookings
        BY <4>1, HandlerShape DEF Target
      <4>3. CASE d = c
        <5>1. /\ handler'[d].at = "loaded"
              /\ handler'[d].seen = rows[Target(c)]
              /\ handler'[d].event = handler[c].event
              /\ rows' = rows
              /\ rows[Target(c)] # Absent
          BY <3>4, <4>2, <4>3 DEF GetByID, TypeOK, HandlerState
        <5>2. Target(d)' = Target(c)
          BY <4>3, <5>1 DEF Target
        <5> QED
          BY <4>2, <5>1, <5>2 DEF TypeOK, Answered
      <4>4. CASE d # c
        BY <3>1, <3>4, <4>4 DEF GetByID, TypeOK
      <4> QED
        BY <4>3, <4>4
    <3>5. ASSUME NEW c \in Consumers, ConfirmUpdate(c) \/ ConfirmRefused(c)
          PROVE  Known
      <4>1. handler[c] # Waiting
        BY <3>5 DEF ConfirmUpdate, ConfirmRefused, Confirming, Waiting
      <4>2. handler[c] \in HandlerState \ {Waiting} /\ Target(c) \in Bookings
        BY <4>1, HandlerShape DEF Target
      <4>3. CASE d = c
        <5>1. /\ handler'[d].at \in {"updated", "refused"}
              /\ handler'[d].event = handler[c].event
          BY <3>5, <4>2, <4>3 DEF ConfirmUpdate, ConfirmRefused, Goes, TypeOK,
                                  HandlerState
        <5>2. Target(d)' = Target(c)
          BY <4>3, <5>1 DEF Target
        <5>3. CASE ConfirmUpdate(c)
          <6>1. rows'[Target(c)] = Confirmed
            BY <4>2, <5>3 DEF ConfirmUpdate, TypeOK
          <6> QED
            BY <5>1, <5>2, <6>1 DEF Answered, Confirmed, AwaitsConfirmation, Absent
        <5>4. CASE ConfirmRefused(c)
          <6>1. handler[c].seen \in BookingStatus /\ handler[c].seen # AwaitsConfirmation
            BY <5>4 DEF ConfirmRefused, Confirming, ConfirmAllowed, EffectInv,
                        EffectIsKnown
          <6>2. Answered(Target(c))
            BY <5>4, <6>1 DEF ConfirmRefused, Confirming, EffectInv, EffectIsKnown
          <6> QED
            BY <2>1, <4>2, <5>1, <5>2, <6>2 DEF Answered
        <5> QED
          BY <3>5, <5>3, <5>4
      <4>4. CASE d # c
        BY <3>1, <3>5, <4>4 DEF ConfirmUpdate, ConfirmRefused, Goes, TypeOK
      <4> QED
        BY <4>3, <4>4
    <3> QED
      BY <3>1, <3>2, <3>3, <3>4, <3>5
      DEF Next, Handle, Create, Cancel, RequestCancellation, RequestCancellationUpdate,
          Send, vars
  <2>3. EffectIsKnown'
    BY <2>2 DEF EffectIsKnown, Waiting
  <2>4. ASSUME NEW e \in processed'
        PROVE  Answered(About[e])'
    <3>1. CASE e \in processed
      BY <2>1, <3>1, ConsumerAssumption DEF EffectInv, TypeOK, Answered
    <3>2. CASE e \notin processed
      <4>1. PICK c \in Consumers : RecordProcessed(c) \/ MarkEventProcessed(c)
        BY <2>4, <3>2
        DEF Next, Handle, Create, Cancel, RequestCancellation, RequestCancellationUpdate,
            Send, Deliver, CheckProcessed, CheckAgain, GetByID, ConfirmUpdate,
            ConfirmRefused, Denied, Ack, DbError, Crash, vars
      <4>2. e = handler[c].event /\ rows' = rows
        BY <2>4, <3>2, <4>1 DEF RecordProcessed, MarkEventProcessed
      <4>3. Answered(Target(c))
        BY <4>1 DEF RecordProcessed, MarkEventProcessed, Confirming, EffectInv,
                    EffectIsKnown
      <4> QED
        BY <4>2, <4>3 DEF Target, Answered
    <3> QED
      BY <3>1, <3>2
  <2> QED
    BY <2>3, <2>4 DEF EffectInv
<1>3. EffectInv => ProcessedTookEffect
  BY DEF EffectInv, ProcessedTookEffect, Answered
<1> QED
  BY <1>1, <1>2, <1>3, TypeCorrect, PTL DEF Spec

-----------------------------------------------------------------------------
(* The loops that may handle an event, and those that are between the      *)
(* check of processed_events and the update, or between the update and     *)
(* the record.                                                             *)
Loops(e)   == {c \in Consumers : Serves[c] = Kind[e]}
Loading(e) == {c \in Consumers : handler[c].event = e /\ handler[c].at \in {"fresh", "loaded"}}
Writing(e) == {c \in Consumers : handler[c].event = e /\ handler[c].at = "updated"}

(* Catalog has sent what waits, and no two events of one booking.          *)
OneAnswer ==
  /\ \A e \in Events : queue[e] > 0 => sent[e] > 0
  /\ \A e, f \in Events :
       About[e] = About[f] /\ sent[e] > 0 /\ sent[f] > 0 => e = f

LoopsServe ==
  \A c \in Consumers : handler[c] # Waiting =>
    /\ Serves[c] = Kind[handler[c].event]
    /\ sent[handler[c].event] > 0
    /\ Kind[handler[c].event] = "denied" => handler[c].at \in {"received", "done"}

(* Before the record, every write is one of a loop that is about to record *)
(* it or was lost to a fault; after it, only the loops that had looked     *)
(* before can still write.                                                 *)
ConfirmationsAreCounted ==
  \A e \in Events : Kind[e] = "confirmed" =>
    /\ e \notin processed => applied[e] <= Cardinality(Writing(e)) + faults
    /\ e \in processed =>
         applied[e] + Cardinality(Loading(e)) <= Cardinality(Loops(e)) + faults

(* A denial needs no record: nothing brings the booking back to where a    *)
(* second one could cancel it.                                             *)
DenialsAreFinal ==
  \A e \in Events : Kind[e] = "denied" /\ applied[e] > 0 =>
    /\ applied[e] = 1
    /\ sent[e] > 0
    /\ Loops(e) # {}
    /\ rows[About[e]] \in {Cancelled, CancellationPending}

CountInv == OneAnswer /\ LoopsServe /\ ConfirmationsAreCounted /\ DenialsAreFinal

(* Adding and removing one element.                                        *)
LEMMA CountMoves ==
  ASSUME NEW S, IsFiniteSet(S), NEW T, NEW c, S \ {c} = T \ {c}
  PROVE  /\ IsFiniteSet(T)
         /\ Cardinality(S) \in Nat
         /\ Cardinality(T) \in Nat
         /\ c \in S /\ c \in T => Cardinality(T) = Cardinality(S)
         /\ c \notin S /\ c \notin T => Cardinality(T) = Cardinality(S)
         /\ c \in S /\ c \notin T => Cardinality(T) = Cardinality(S) - 1
         /\ c \notin S /\ c \in T => Cardinality(T) = Cardinality(S) + 1
<1>1. CASE c \in T
  <2>1. T = S \cup {c}
    BY <1>1
  <2> QED
    BY <1>1, <2>1, FS_AddElement, FS_CardinalityType
<1>2. CASE c \notin T
  <2>1. T = S \ {c}
    BY <1>2
  <2> QED
    BY <1>2, <2>1, FS_RemoveElement, FS_CardinalityType
<1> QED
  BY <1>1, <1>2

(* A loop is at one place, so those that still write an event and those    *)
(* that have written it are at most all that serve its queue.              *)
LEMMA AtMostAllLoops ==
  ASSUME TypeOK, LoopsServe, NEW e \in Events
  PROVE  /\ IsFiniteSet(Loading(e))
         /\ IsFiniteSet(Writing(e))
         /\ Cardinality(Loading(e)) \in Nat
         /\ Cardinality(Writing(e)) \in Nat
         /\ Cardinality(Loops(e)) \in Nat
         /\ Cardinality(Loading(e)) + Cardinality(Writing(e)) <= Cardinality(Loops(e))
         /\ Loops(e) # {} => Cardinality(Loops(e)) >= 1
<1>1. IsFiniteSet(Loops(e)) /\ Cardinality(Loops(e)) \in Nat
  BY ConsumerAssumption, FS_Subset, FS_CardinalityType DEF Loops
<1>2. Loading(e) \subseteq Loops(e) /\ Writing(e) \subseteq Loops(e)
  BY WorkingIsNotWaiting DEF Loading, Writing, Loops, LoopsServe
<1>3. IsFiniteSet(Loading(e)) /\ IsFiniteSet(Writing(e))
  BY <1>1, <1>2, FS_Subset
<1>4. /\ Cardinality(Loading(e) \cup Writing(e)) <= Cardinality(Loops(e))
      /\ Cardinality(Loading(e) \cup Writing(e))
           = Cardinality(Loading(e)) + Cardinality(Writing(e))
             - Cardinality(Loading(e) \cap Writing(e))
  BY <1>1, <1>2, <1>3, FS_Subset, FS_Union
<1>5. Cardinality(Loading(e) \cap Writing(e)) = 0
  <2>1. Loading(e) \cap Writing(e) = {}
    BY DEF Loading, Writing
  <2> QED
    BY <2>1, FS_EmptySet
<1>6. Cardinality(Loading(e)) \in Nat /\ Cardinality(Writing(e)) \in Nat
  BY <1>3, FS_CardinalityType
<1>7. Loops(e) # {} => Cardinality(Loops(e)) # 0
  BY <1>1, FS_EmptySet
<1> QED
  BY <1>1, <1>3, <1>4, <1>5, <1>6, <1>7

(* A step of one loop counts that loop only.                               *)
LEMMA OneLoopMoves ==
  ASSUME TypeOK, LoopsServe, NEW c \in Consumers, NEW e \in Events,
         \A d \in Consumers \ {c} : handler'[d] = handler[d]
  PROVE  /\ Cardinality(Loading(e)') \in Nat
         /\ Cardinality(Writing(e)') \in Nat
         /\ c \in Loading(e) /\ c \in Loading(e)'
              => Cardinality(Loading(e)') = Cardinality(Loading(e))
         /\ c \notin Loading(e) /\ c \notin Loading(e)'
              => Cardinality(Loading(e)') = Cardinality(Loading(e))
         /\ c \in Loading(e) /\ c \notin Loading(e)'
              => Cardinality(Loading(e)') = Cardinality(Loading(e)) - 1
         /\ c \in Writing(e) /\ c \in Writing(e)'
              => Cardinality(Writing(e)') = Cardinality(Writing(e))
         /\ c \notin Writing(e) /\ c \notin Writing(e)'
              => Cardinality(Writing(e)') = Cardinality(Writing(e))
         /\ c \in Writing(e) /\ c \notin Writing(e)'
              => Cardinality(Writing(e)') = Cardinality(Writing(e)) - 1
         /\ c \notin Writing(e) /\ c \in Writing(e)'
              => Cardinality(Writing(e)') = Cardinality(Writing(e)) + 1
<1>1. Loading(e) \ {c} = Loading(e)' \ {c}
  BY DEF Loading
<1>2. Writing(e) \ {c} = Writing(e)' \ {c}
  BY DEF Writing
<1>3. IsFiniteSet(Loading(e)) /\ IsFiniteSet(Writing(e))
  BY AtMostAllLoops
<1> QED
  BY <1>1, <1>2, <1>3, CountMoves

(* Where a step takes the loop that takes it.                              *)
LEMMA WhereItGoes ==
  ASSUME TypeOK, NEW c \in Consumers, handler[c] # Waiting
  PROVE  /\ \A at : Goes(c, at) =>
               /\ handler'[c].at = at
               /\ handler'[c].event = handler[c].event
               /\ \A d \in Consumers \ {c} : handler'[d] = handler[d]
         /\ Returns(c) =>
               /\ handler'[c] = Waiting
               /\ \A d \in Consumers \ {c} : handler'[d] = handler[d]
         /\ GetByID(c) =>
               /\ handler'[c].at = "loaded"
               /\ handler'[c].event = handler[c].event
               /\ \A d \in Consumers \ {c} : handler'[d] = handler[d]
<1>1. handler[c] \in HandlerState \ {Waiting}
  BY HandlerShape
<1> QED
  BY <1>1 DEF Goes, Returns, GetByID, TypeOK, HandlerState

(* An event writes its row once for each loop of its queue, and once more  *)
(* for each fault: however often Catalog sends it, however often the       *)
(* broker delivers it and whatever users do in between.                    *)
THEOREM EventsAreAppliedOnce == Spec => []AppliedOnce
<1>1. Init => CountInv
  <2> SUFFICES ASSUME Init PROVE CountInv
    OBVIOUS
  <2>1. OneAnswer /\ LoopsServe /\ DenialsAreFinal
    BY DEF Init, OneAnswer, LoopsServe, DenialsAreFinal
  <2>2. ASSUME NEW e \in Events PROVE Cardinality(Writing(e)) = 0
    <3>1. Writing(e) = {}
      BY DEF Init, Writing, Waiting
    <3> QED
      BY <3>1, FS_EmptySet
  <2>3. ConfirmationsAreCounted
    BY <2>2 DEF Init, ConfirmationsAreCounted
  <2> QED
    BY <2>1, <2>3 DEF CountInv
<1>2. TypeOK /\ CountInv /\ [Next]_vars => CountInv'
  <2> SUFFICES ASSUME TypeOK, CountInv, [Next]_vars PROVE CountInv'
    OBVIOUS
  <2> USE DEF Kinds
  <2>1. ASSUME UNCHANGED <<processed, queue, handler, sent, applied, faults>>,
               \A b \in Bookings : rows[b] \in {Cancelled, CancellationPending}
                  => rows'[b] \in {Cancelled, CancellationPending}
        PROVE  CountInv'
    <3>1. OneAnswer' /\ LoopsServe'
      BY <2>1 DEF CountInv, OneAnswer, LoopsServe
    <3>2. ConfirmationsAreCounted'
      BY <2>1 DEF CountInv, ConfirmationsAreCounted, Loops, Loading, Writing
    <3>3. DenialsAreFinal'
      BY <2>1, ConsumerAssumption DEF CountInv, DenialsAreFinal, Loops
    <3> QED
      BY <3>1, <3>2, <3>3 DEF CountInv
  <2>2. ASSUME NEW b \in Bookings,
               Create(b) \/ Cancel(b) \/ RequestCancellation(b) \/ RequestCancellationUpdate(b)
        PROVE  CountInv'
    <3>1. UNCHANGED <<processed, queue, handler, sent, applied, faults>>
      BY <2>2 DEF Create, Cancel, RequestCancellation, RequestCancellationUpdate
    <3>2. \A a \in Bookings : rows[a] \in {Cancelled, CancellationPending}
             => rows'[a] \in {Cancelled, CancellationPending}
      BY <2>2 DEF Create, Cancel, RequestCancellation, RequestCancellationUpdate, TypeOK,
                  CancelAllowed, Absent, AwaitsConfirmation, Confirmed, Cancelled,
                  CancellationPending
    <3> QED
      BY <2>1, <3>1, <3>2
  <2>3. CASE UNCHANGED vars
    BY <2>1, <2>3 DEF vars
  <2>4. ASSUME NEW e \in Events, Send(e)
        PROVE  CountInv'
    <3>1. /\ sent' = [sent EXCEPT ![e] = @ + 1]
          /\ queue' = [queue EXCEPT ![e] = @ + 1]
          /\ UNCHANGED <<rows, processed, handler, applied, faults>>
      BY <2>4 DEF Send
    <3>2. \A f \in Events : sent[f] \in Nat /\ (sent[f] > 0 => sent'[f] > 0)
                            /\ (f # e => sent'[f] = sent[f])
      BY <3>1, ConsumerAssumption DEF TypeOK
    <3>3. OneAnswer'
      <4>1. \A f \in Events : queue'[f] > 0 => sent'[f] > 0
        BY <3>1, <3>2 DEF CountInv, OneAnswer, TypeOK
      <4>2. \A f, g \in Events :
              About[f] = About[g] /\ sent'[f] > 0 /\ sent'[g] > 0 => f = g
        BY <2>4, <3>2 DEF Send, CountInv, OneAnswer
      <4> QED
        BY <4>1, <4>2 DEF OneAnswer
    <3>4. LoopsServe'
      BY <3>1, <3>2, HandlerShape DEF CountInv, LoopsServe
    <3>5. ConfirmationsAreCounted'
      BY <3>1 DEF CountInv, ConfirmationsAreCounted, Loops, Loading, Writing
    <3>6. DenialsAreFinal'
      BY <3>1, <3>2 DEF CountInv, DenialsAreFinal, Loops
    <3> QED
      BY <3>3, <3>4, <3>5, <3>6 DEF CountInv
  <2>5. ASSUME NEW c \in Consumers, NEW e \in Events, Deliver(c, e)
        PROVE  CountInv'
    <3>1. /\ handler' = [handler EXCEPT ![c] =
                           [at |-> "received", event |-> e, seen |-> None]]
          /\ handler[c] = Waiting
          /\ Serves[c] = Kind[e] /\ queue[e] > 0
          /\ queue' = [queue EXCEPT ![e] = @ - 1]
          /\ UNCHANGED <<rows, processed, sent, applied, faults>>
      BY <2>5 DEF Deliver
    <3>2. OneAnswer'
      BY <3>1 DEF CountInv, OneAnswer, TypeOK
    <3>3. LoopsServe'
      BY <3>1 DEF CountInv, LoopsServe, OneAnswer, TypeOK
    <3>4. \A f : Loading(f)' = Loading(f) /\ Writing(f)' = Writing(f)
      BY <3>1 DEF Loading, Writing, Waiting, TypeOK
    <3>5. ConfirmationsAreCounted'
      BY <3>1, <3>4 DEF CountInv, ConfirmationsAreCounted, Loops
    <3>6. DenialsAreFinal'
      BY <3>1 DEF CountInv, DenialsAreFinal, Loops
    <3> QED
      BY <3>2, <3>3, <3>5, <3>6 DEF CountInv
  <2> DEFINE Step(c) == Handle(c) \/ DbError(c) \/ Crash(c)
  <2>6. ASSUME NEW c \in Consumers, Step(c)
        PROVE  CountInv'
    <3> DEFINE e == handler[c].event
    <3>1. handler[c] # Waiting
      BY <2>6, WorkingIsNotWaiting
      DEF Handle, CheckProcessed, CheckAgain, GetByID, ConfirmUpdate, ConfirmRefused,
          RecordProcessed, MarkEventProcessed, Denied, Ack, DbError, Crash, Confirming
    <3>2. /\ e \in Events
          /\ Serves[c] = Kind[e]
          /\ sent[e] > 0
          /\ Kind[e] = "denied" => handler[c].at \in {"received", "done"}
          /\ handler[c] \in HandlerState \ {Waiting}
      BY <3>1, HandlerShape DEF CountInv, LoopsServe
    <3>3. sent' = sent
      BY <2>6
      DEF Handle, CheckProcessed, CheckAgain, GetByID, ConfirmUpdate, ConfirmRefused,
          RecordProcessed, MarkEventProcessed, Denied, Ack, DbError, Crash
    <3>4. /\ \A d \in Consumers \ {c} : handler'[d] = handler[d]
          /\ \/ handler'[c] = Waiting
             \/ /\ handler'[c].event = e
                /\ \/ Kind[e] = "confirmed"
                   \/ handler'[c].at = "done"
      BY <2>6, <3>1, WhereItGoes
      DEF Handle, CheckProcessed, CheckAgain, ConfirmUpdate, ConfirmRefused, GetByID,
          RecordProcessed, MarkEventProcessed, Denied, Ack, DbError, Crash, Confirming
    <3>5. OneAnswer'
      <4>1. CASE UNCHANGED queue
        BY <3>3, <4>1 DEF CountInv, OneAnswer
      <4>2. CASE Crash(c)
        BY <3>2, <3>3, <4>2 DEF Crash, CountInv, OneAnswer, TypeOK
      <4> QED
        BY <2>6, <4>1, <4>2
        DEF Handle, CheckProcessed, CheckAgain, GetByID, ConfirmUpdate, ConfirmRefused,
            RecordProcessed, MarkEventProcessed, Denied, Ack, DbError
    <3>6. LoopsServe'
      BY <3>2, <3>3, <3>4 DEF CountInv, LoopsServe
    <3>7. ConfirmationsAreCounted'
      <4> SUFFICES ASSUME NEW f \in Events, Kind[f] = "confirmed"
                   PROVE  /\ f \notin processed' =>
                               applied'[f] <= Cardinality(Writing(f)') + faults'
                          /\ f \in processed' =>
                               applied'[f] + Cardinality(Loading(f)')
                                 <= Cardinality(Loops(f)) + faults'
        BY DEF ConfirmationsAreCounted, Loops
      <4>1. /\ Cardinality(Loading(f)) \in Nat
            /\ Cardinality(Writing(f)) \in Nat
            /\ Cardinality(Loops(f)) \in Nat
            /\ Cardinality(Loading(f)) + Cardinality(Writing(f)) <= Cardinality(Loops(f))
        BY AtMostAllLoops DEF CountInv
      <4>2. applied[f] \in Nat /\ faults \in Nat
        BY ConsumerAssumption DEF TypeOK
      <4>3. /\ f \notin processed => applied[f] <= Cardinality(Writing(f)) + faults
            /\ f \in processed =>
                 applied[f] + Cardinality(Loading(f)) <= Cardinality(Loops(f)) + faults
        BY DEF CountInv, ConfirmationsAreCounted
      <4>4. CASE f # e
        <5>1. c \notin Loading(f) /\ c \notin Writing(f)
          BY <4>4 DEF Loading, Writing
        <5>2. c \notin Loading(f)' /\ c \notin Writing(f)'
          BY <3>4, <4>4 DEF Loading, Writing, Waiting
        <5>3. /\ Cardinality(Loading(f)') = Cardinality(Loading(f))
              /\ Cardinality(Writing(f)') = Cardinality(Writing(f))
          BY <3>4, <5>1, <5>2, OneLoopMoves DEF CountInv
        <5>4. /\ applied'[f] = applied[f]
              /\ f \in processed' <=> f \in processed
              /\ faults' = faults \/ faults' = faults + 1
          BY <2>6, <4>4
          DEF Handle, CheckProcessed, CheckAgain, GetByID, ConfirmUpdate, ConfirmRefused,
              RecordProcessed, MarkEventProcessed, Denied, Ack, DbError, Crash, TypeOK
        <5> QED
          BY <4>1, <4>2, <4>3, <5>3, <5>4
      <4>5. CASE f = e
        <5>1. /\ c \in Loading(f) <=> handler[c].at \in {"fresh", "loaded"}
              /\ c \in Writing(f) <=> handler[c].at = "updated"
          BY <4>5 DEF Loading, Writing
        <5>2. \/ handler'[c] = Waiting /\ c \notin Loading(f)' /\ c \notin Writing(f)'
              \/ /\ c \in Loading(f)' <=> handler'[c].at \in {"fresh", "loaded"}
                 /\ c \in Writing(f)' <=> handler'[c].at = "updated"
          BY <3>4, <4>5 DEF Loading, Writing, Waiting
        <5>3. ~ Denied(c)
          BY <4>5 DEF Denied
        <5>4. CASE CheckProcessed(c)
          <6>1. /\ handler[c].at = "received" /\ handler'[c].at \in {"done", "checked"}
                /\ UNCHANGED <<processed, applied, faults>>
            BY <3>1, <5>4, WhereItGoes DEF CheckProcessed, Confirming
          <6>2. /\ Cardinality(Loading(f)') = Cardinality(Loading(f))
                /\ Cardinality(Writing(f)') = Cardinality(Writing(f))
            BY <3>4, <5>1, <5>2, <6>1, OneLoopMoves DEF CountInv, Waiting
          <6> QED
            BY <4>1, <4>2, <4>3, <6>1, <6>2
        <5>5. CASE CheckAgain(c)
          <6>1. /\ handler[c].at = "checked"
                /\ handler'[c].at = IF f \in processed THEN "done" ELSE "fresh"
                /\ UNCHANGED <<processed, applied, faults>>
            BY <3>1, <4>5, <5>5, WhereItGoes DEF CheckAgain, Confirming
          <6>2. /\ f \in processed => Cardinality(Loading(f)') = Cardinality(Loading(f))
                /\ Cardinality(Writing(f)') = Cardinality(Writing(f))
            BY <3>4, <5>1, <5>2, <6>1, OneLoopMoves DEF CountInv, Waiting
          <6> QED
            BY <4>1, <4>2, <4>3, <6>1, <6>2
        <5>6. CASE GetByID(c)
          <6>1. /\ handler[c].at = "fresh" /\ handler'[c].at = "loaded"
                /\ UNCHANGED <<processed, applied, faults>>
            BY <3>1, <5>6, WhereItGoes DEF GetByID, Confirming
          <6>2. /\ Cardinality(Loading(f)') = Cardinality(Loading(f))
                /\ Cardinality(Writing(f)') = Cardinality(Writing(f))
            BY <3>4, <5>1, <5>2, <6>1, OneLoopMoves DEF CountInv, Waiting
          <6> QED
            BY <4>1, <4>2, <4>3, <6>1, <6>2
        <5>7. CASE ConfirmUpdate(c)
          <6>1. /\ handler[c].at = "loaded" /\ handler'[c].at = "updated"
                /\ UNCHANGED <<processed, faults>>
                /\ applied'[f] = applied[f] + 1
            BY <3>1, <4>5, <5>7, WhereItGoes DEF ConfirmUpdate, Confirming, TypeOK
          <6>2. /\ Cardinality(Loading(f)') = Cardinality(Loading(f)) - 1
                /\ Cardinality(Writing(f)') = Cardinality(Writing(f)) + 1
            BY <3>4, <5>1, <5>2, <6>1, OneLoopMoves DEF CountInv, Waiting
          <6> QED
            BY <4>1, <4>2, <4>3, <6>1, <6>2
        <5>8. CASE ConfirmRefused(c)
          <6>1. /\ handler[c].at = "loaded" /\ handler'[c].at = "refused"
                /\ UNCHANGED <<processed, applied, faults>>
            BY <3>1, <5>8, WhereItGoes DEF ConfirmRefused, Confirming
          <6>2. /\ Cardinality(Loading(f)') = Cardinality(Loading(f)) - 1
                /\ Cardinality(Writing(f)') = Cardinality(Writing(f))
            BY <3>4, <5>1, <5>2, <6>1, OneLoopMoves DEF CountInv, Waiting
          <6> QED
            BY <4>1, <4>2, <4>3, <6>1, <6>2
        <5>9. CASE RecordProcessed(c)
          <6>1. /\ handler[c].at = "updated" /\ handler'[c].at = "done"
                /\ f \in processed' /\ UNCHANGED <<applied, faults>>
            BY <3>1, <4>5, <5>9, WhereItGoes DEF RecordProcessed, Confirming
          <6>2. Cardinality(Loading(f)') = Cardinality(Loading(f))
            BY <3>4, <5>1, <5>2, <6>1, OneLoopMoves DEF CountInv, Waiting
          <6> QED
            BY <4>1, <4>2, <4>3, <6>1, <6>2
        <5>10. CASE MarkEventProcessed(c)
          <6>1. /\ handler[c].at = "refused" /\ handler'[c].at = "done"
                /\ f \in processed => f \in processed'
                /\ UNCHANGED <<applied, faults>>
            BY <3>1, <4>5, <5>10, WhereItGoes DEF MarkEventProcessed, Confirming
          <6>2. /\ Cardinality(Loading(f)') = Cardinality(Loading(f))
                /\ Cardinality(Writing(f)') = Cardinality(Writing(f))
            BY <3>4, <5>1, <5>2, <6>1, OneLoopMoves DEF CountInv, Waiting
          <6> QED
            BY <4>1, <4>2, <4>3, <6>1, <6>2
        <5>11. CASE Ack(c)
          <6>1. /\ handler[c].at = "done" /\ handler'[c] = Waiting
                /\ UNCHANGED <<processed, applied, faults>>
            BY <3>1, <5>11, WhereItGoes DEF Ack
          <6>2. /\ Cardinality(Loading(f)') = Cardinality(Loading(f))
                /\ Cardinality(Writing(f)') = Cardinality(Writing(f))
            BY <3>4, <5>1, <5>2, <6>1, OneLoopMoves DEF CountInv, Waiting
          <6> QED
            BY <4>1, <4>2, <4>3, <6>1, <6>2
        <5>12. CASE DbError(c) \/ Crash(c)
          <6>1. /\ handler'[c] = Waiting
                /\ faults' = faults + 1
                /\ UNCHANGED <<processed, applied>>
            BY <3>1, <5>12, WhereItGoes DEF DbError, Crash
          <6>2. c \notin Loading(f)' /\ c \notin Writing(f)'
            BY <6>1 DEF Loading, Writing, Waiting
          <6>3. /\ Cardinality(Loading(f)') <= Cardinality(Loading(f))
                /\ Cardinality(Writing(f)') >= Cardinality(Writing(f)) - 1
                /\ Cardinality(Loading(f)') \in Nat /\ Cardinality(Writing(f)') \in Nat
            <7>1. CASE c \in Loading(f)
              <8>1. c \notin Writing(f)
                BY <7>1 DEF Loading, Writing
              <8> QED
                BY <3>4, <4>1, <6>2, <7>1, <8>1, OneLoopMoves DEF CountInv
            <7>2. CASE c \notin Loading(f)
              BY <3>4, <4>1, <6>2, <7>2, OneLoopMoves DEF CountInv
            <7> QED
              BY <7>1, <7>2
          <6> QED
            BY <4>1, <4>2, <4>3, <6>1, <6>3
        <5> QED
          BY <2>6, <5>3, <5>4, <5>5, <5>6, <5>7, <5>8, <5>9, <5>10, <5>11, <5>12 DEF Handle
      <4> QED
        BY <4>4, <4>5
    <3>8. DenialsAreFinal'
      <4> SUFFICES ASSUME NEW f \in Events, Kind[f] = "denied", applied'[f] > 0
                   PROVE  /\ applied'[f] = 1
                          /\ sent'[f] > 0
                          /\ Loops(f) # {}
                          /\ rows'[About[f]] \in {Cancelled, CancellationPending}
        BY DEF DenialsAreFinal, Loops
      <4> DEFINE Final == /\ applied[f] = 1
                         /\ sent[f] > 0
                         /\ Loops(f) # {}
                         /\ rows[About[f]] \in {Cancelled, CancellationPending}
      <4>1. About[f] \in Bookings /\ About[e] \in Bookings
        BY <3>2, ConsumerAssumption
      <4>2. applied[f] \in Nat /\ (applied[f] > 0 => Final)
        BY DEF CountInv, DenialsAreFinal, TypeOK
      <4>3. CASE ConfirmUpdate(c)
        <5>1. Kind[e] = "confirmed" /\ e # f
          BY <4>3 DEF ConfirmUpdate, Confirming
        <5>2. applied'[f] = applied[f]
          BY <4>3, <5>1 DEF ConfirmUpdate, TypeOK
        <5>3. About[e] # About[f]
          BY <3>2, <4>2, <5>1, <5>2 DEF CountInv, OneAnswer
        <5>4. rows'[About[f]] = rows[About[f]]
          BY <4>1, <4>3, <5>3 DEF ConfirmUpdate, Target, TypeOK
        <5> QED
          BY <3>3, <4>2, <5>2, <5>4
      <4>4. CASE Denied(c)
        <5>1. CASE CancelAllowed(rows[About[e]], TRUE)
          <6>1. /\ rows' = [rows EXCEPT ![About[e]] = Cancelled]
                /\ applied' = [applied EXCEPT ![e] = @ + 1]
            BY <4>4, <5>1 DEF Denied, Target
          <6>2. CASE f = e
            <7>1. applied[f] = 0
              BY <4>2, <5>1, <6>2
              DEF CancelAllowed, AwaitsConfirmation, Confirmed, Cancelled, CancellationPending
            <7>2. c \in Loops(f)
              BY <3>2, <6>2 DEF Loops
            <7> QED
              BY <3>2, <3>3, <4>1, <6>1, <6>2, <7>1, <7>2 DEF TypeOK
          <6>3. CASE f # e
            <7>1. applied'[f] = applied[f]
              BY <6>1, <6>3 DEF TypeOK
            <7>2. About[e] # About[f]
              BY <3>2, <4>2, <6>3, <7>1 DEF CountInv, OneAnswer
            <7>3. rows'[About[f]] = rows[About[f]]
              BY <4>1, <6>1, <7>2 DEF TypeOK
            <7> QED
              BY <3>3, <4>2, <7>1, <7>3
          <6> QED
            BY <6>2, <6>3
        <5>2. CASE ~ CancelAllowed(rows[About[e]], TRUE)
          BY <3>3, <4>2, <4>4, <5>2 DEF Denied, Target
        <5> QED
          BY <5>1, <5>2
      <4>5. CASE UNCHANGED <<rows, applied>>
        BY <3>3, <4>2, <4>5
      <4> QED
        BY <2>6, <4>3, <4>4, <4>5
        DEF Handle, CheckProcessed, CheckAgain, GetByID, ConfirmRefused, RecordProcessed,
            MarkEventProcessed, Ack, DbError, Crash
    <3> QED
      BY <3>5, <3>6, <3>7, <3>8 DEF CountInv
  <2> QED
    BY <2>2, <2>3, <2>4, <2>5, <2>6 DEF Next
<1>3. TypeOK /\ CountInv => AppliedOnce
  <2> SUFFICES ASSUME TypeOK, CountInv, NEW e \in Events
               PROVE  applied[e] <= Cardinality(Loops(e)) + faults
    BY DEF AppliedOnce, Loops
  <2>1. /\ Cardinality(Loading(e)) \in Nat
        /\ Cardinality(Writing(e)) \in Nat
        /\ Cardinality(Loops(e)) \in Nat
        /\ Cardinality(Loading(e)) + Cardinality(Writing(e)) <= Cardinality(Loops(e))
        /\ Loops(e) # {} => Cardinality(Loops(e)) >= 1
    BY AtMostAllLoops DEF CountInv
  <2>2. applied[e] \in Nat /\ faults \in Nat
    BY ConsumerAssumption DEF TypeOK
  <2>3. CASE Kind[e] = "confirmed"
    BY <2>1, <2>2, <2>3 DEF CountInv, ConfirmationsAreCounted
  <2>4. CASE Kind[e] = "denied"
    BY <2>1, <2>2, <2>4 DEF CountInv, DenialsAreFinal
  <2> QED
    BY <2>3, <2>4, ConsumerAssumption DEF Kinds
<1> QED
  BY <1>1, <1>2, <1>3, TypeCorrect, PTL DEF Spec
=============================================================================
