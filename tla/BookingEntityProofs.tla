-------------------------- MODULE BookingEntityProofs --------------------------
(***************************************************************************)
(* Theorems about BookingEntity, for any start date and any clock, and for *)
(* every sequence of domain calls and round trips through storage.         *)
(***************************************************************************)
EXTENDS BookingEntity, TLAPS

(* What each domain method makes of the fields it writes.                  *)
LEMMA MethodsKeepTheFields ==
  ASSUME TypeOK, Exists
  PROVE  /\ booking \in Entity
         /\ NewBooking \in Entity
         /\ ConfirmBooking(booking) \in Entity
         /\ CancelBooking(booking) \in Entity
         /\ StartCancellationOf(booking, today) \in Entity
         /\ CompleteCancellationOf(booking) \in Entity
         /\ RollbackAllowed(booking) => RollbackCancellationOf(booking) \in Entity
         /\ [NewBooking EXCEPT !.status = booking.status] \in Entity
<1>1. booking \in Entity
  BY DEF TypeOK, Exists, NoBooking, NewBooking
<1> QED
  BY <1>1
  DEF TypeOK, Entity, NewBooking, ConfirmBooking, WithoutCancellation, CancelBooking,
      StartCancellationOf, CompleteCancellationOf, RollbackCancellationOf,
      RollbackAllowed, BookingStatus

(* Every reachable object is one IsValid accepts: a rollback never copies  *)
(* nil into the status.                                                    *)
THEOREM TypeCorrect == Spec => []TypeOK
<1>1. Init => TypeOK
  <2>1. 0 \in Days
    BY EntityAssumption DEF Days
  <2> QED
    BY <2>1 DEF Init, TypeOK
<1>2. TypeOK /\ [Next]_vars => TypeOK'
  <2> SUFFICES ASSUME TypeOK, [Next]_vars PROVE TypeOK'
    OBVIOUS
  <2>0. /\ today \in Days
        /\ settled \in {AwaitsConfirmation, Confirmed, Absent}
        /\ begun \in Days
        /\ reloaded \in BOOLEAN
    BY DEF TypeOK
  <2>1. ASSUME NEW b \in Entity, Become(b)
        PROVE  /\ booking' \in Entity
               /\ settled' \in {AwaitsConfirmation, Confirmed, Absent}
               /\ today' \in Days
    BY <2>0, <2>1 DEF Become
  <2>2. CASE Create
    <3>1. NewBooking \in Entity
      BY DEF NewBooking, Entity, BookingStatus
    <3> QED
      BY <2>0, <2>1, <2>2, <3>1 DEF Create, TypeOK
  <2>3. CASE Confirm
    BY <2>0, <2>1, <2>3, MethodsKeepTheFields DEF Confirm, TypeOK
  <2>4. CASE Cancel
    BY <2>0, <2>1, <2>4, MethodsKeepTheFields DEF Cancel, TypeOK
  <2>5. CASE StartCancellation
    BY <2>0, <2>1, <2>5, MethodsKeepTheFields DEF StartCancellation, TypeOK
  <2>6. CASE CompleteCancellation
    BY <2>0, <2>1, <2>6, MethodsKeepTheFields DEF CompleteCancellation, TypeOK
  <2>7. CASE RollbackCancellation
    BY <2>0, <2>1, <2>7, MethodsKeepTheFields DEF RollbackCancellation, TypeOK
  <2>8. CASE Reload
    BY <2>0, <2>8, MethodsKeepTheFields DEF Reload, TypeOK
  <2>9. CASE Tick
    BY <2>0, <2>9, EntityAssumption DEF Tick, TypeOK, Days
  <2>10. CASE UNCHANGED vars
    BY <2>10 DEF vars, TypeOK
  <2> QED
    BY <2>2, <2>3, <2>4, <2>5, <2>6, <2>7, <2>8, <2>9, <2>10 DEF Next
<1> QED
  BY <1>1, <1>2, PTL DEF Spec

-----------------------------------------------------------------------------
(* What the history knows of the status: before Create there is none, and  *)
(* while the booking waits or is confirmed it is the status itself.        *)
HistoryFollows ==
  IF Exists
  THEN /\ settled # Absent
       /\ booking.status \in {AwaitsConfirmation, Confirmed} => settled = booking.status
  ELSE settled = Absent

(* A rollback knows its target, however often a cancellation was requested *)
(* and wherever the object was stored in between.                          *)
EntityInv == TypeOK /\ HistoryFollows /\ RollbackKnowsItsTarget

(* The invariant is inductive: no method and no day leads out of it.       *)
LEMMA EntityInvariant == Spec => []EntityInv
<1>1. Init => HistoryFollows /\ RollbackKnowsItsTarget
  BY DEF Init, HistoryFollows, RollbackKnowsItsTarget, Exists, NoBooking, NewBooking
<1>2. EntityInv /\ [Next]_vars => (HistoryFollows /\ RollbackKnowsItsTarget)'
  <2> SUFFICES ASSUME TypeOK, HistoryFollows, RollbackKnowsItsTarget, [Next]_vars
               PROVE  HistoryFollows' /\ RollbackKnowsItsTarget'
    BY DEF EntityInv
  <2> USE DEF HistoryFollows, RollbackKnowsItsTarget, Exists, Become,
              AwaitsConfirmation, Confirmed, Cancelled, CancellationPending, Absent, None
  <2>0. Exists => booking \in Entity
    BY MethodsKeepTheFields
  <2>1. CASE Create
    BY <2>1 DEF Create, NewBooking
  <2>2. CASE Confirm
    BY <2>0, <2>2 DEF Confirm, ConfirmAllowed, ConfirmBooking, WithoutCancellation, Entity
  <2>3. CASE Cancel
    BY <2>0, <2>3 DEF Cancel, CancelAllowed, CancelBooking, Entity
  <2>4. CASE StartCancellation
    BY <2>0, <2>4 DEF StartCancellation, StartCancellationAllowed, StartCancellationOf,
                      Entity
  <2>5. CASE CompleteCancellation
    BY <2>0, <2>5 DEF CompleteCancellation, CompleteAllowed, CompleteCancellationOf,
                      WithoutCancellation, Entity
  <2>6. CASE RollbackCancellation
    BY <2>0, <2>6 DEF RollbackCancellation, RollbackAllowed, RollbackCancellationOf,
                      WithoutCancellation, Entity, TypeOK
  <2>7. CASE Reload
    BY <2>0, <2>7 DEF Reload, NewBooking, Entity
  <2>8. CASE Tick
    BY <2>8 DEF Tick
  <2>9. CASE UNCHANGED vars
    BY <2>9 DEF vars
  <2> QED
    BY <2>1, <2>2, <2>3, <2>4, <2>5, <2>6, <2>7, <2>8, <2>9 DEF Next
<1> QED
  BY <1>1, <1>2, TypeCorrect, PTL DEF Spec, EntityInv

(* In memory a pending cancellation remembers the status it began from and *)
(* its day; at any other time both fields are nil.                         *)
THEOREM RollbacksKnowTheirTarget == Spec => []RollbackKnowsItsTarget
BY EntityInvariant, PTL DEF EntityInv

(* A rollback never sends a booking that was confirmed back to Catalog.    *)
THEOREM ConfirmationsAreKept == Spec => ConfirmationIsNotForgotten
<1>1. EntityInv /\ [Next]_vars => [settled = Confirmed => settled' = Confirmed]_vars
  <2> SUFFICES ASSUME TypeOK, HistoryFollows, RollbackKnowsItsTarget, Next,
                      settled = Confirmed
               PROVE  settled' = Confirmed
    BY DEF EntityInv
  <2> USE DEF HistoryFollows, RollbackKnowsItsTarget, Become,
              AwaitsConfirmation, Confirmed, Cancelled, CancellationPending, Absent, None
  <2>0. Exists /\ booking \in Entity
    BY MethodsKeepTheFields
  <2>1. CASE Confirm
    BY <2>0, <2>1 DEF Confirm, ConfirmBooking, WithoutCancellation, Entity
  <2>2. CASE Cancel
    BY <2>0, <2>2 DEF Cancel, CancelBooking, Entity
  <2>3. CASE StartCancellation
    BY <2>0, <2>3 DEF StartCancellation, StartCancellationOf, Entity
  <2>4. CASE CompleteCancellation
    BY <2>0, <2>4 DEF CompleteCancellation, CompleteCancellationOf, WithoutCancellation,
                      Entity
  <2>5. CASE RollbackCancellation
    BY <2>0, <2>5 DEF RollbackCancellation, RollbackAllowed, RollbackCancellationOf,
                      WithoutCancellation, Entity
  <2> QED
    BY <2>0, <2>1, <2>2, <2>3, <2>4, <2>5 DEF Next, Create, Reload, Tick
<1> QED
  BY <1>1, EntityInvariant, PTL DEF Spec, ConfirmationIsNotForgotten

-----------------------------------------------------------------------------
(* The day a cancellation of a confirmed booking was accepted, while it is *)
(* pending as well as when it is done.                                     *)
AcceptedInTime ==
  /\ booking.status \in {CancellationPending, Cancelled}
  /\ settled = Confirmed
  => begun < StartDay

(* Whoever ends up cancelled after a confirmation was asked to in time.    *)
THEOREM LateCancellationsAreImpossible == Spec => []LateCancellationImpossible
<1>1. Init => AcceptedInTime
  BY DEF Init, AcceptedInTime, Absent, Confirmed
<1>2. EntityInv /\ AcceptedInTime /\ [Next]_vars => AcceptedInTime'
  <2> SUFFICES ASSUME TypeOK, HistoryFollows, AcceptedInTime, [Next]_vars
               PROVE  AcceptedInTime'
    BY DEF EntityInv
  <2> USE DEF AcceptedInTime, HistoryFollows, Become, StartsLater,
              AwaitsConfirmation, Confirmed, Cancelled, CancellationPending, Absent, None
  <2>0. Exists => booking \in Entity
    BY MethodsKeepTheFields
  <2>1. CASE Create
    BY <2>1 DEF Create, NewBooking
  <2>2. CASE Confirm
    BY <2>0, <2>2 DEF Confirm, ConfirmBooking, WithoutCancellation, Entity
  <2>3. CASE Cancel
    BY <2>0, <2>3 DEF Cancel, CancelAllowed, CancelBooking, Entity
  <2>4. CASE StartCancellation
    BY <2>0, <2>4 DEF StartCancellation, StartCancellationAllowed, StartCancellationOf,
                      Entity
  <2>5. CASE CompleteCancellation
    BY <2>0, <2>5 DEF CompleteCancellation, CompleteAllowed, CompleteCancellationOf,
                      WithoutCancellation, Entity
  <2>6. CASE RollbackCancellation
    <3>1. booking'.status = booking.previousStatus
      BY <2>0, <2>6 DEF RollbackCancellation, RollbackCancellationOf, WithoutCancellation,
                        Entity
    <3> QED
      BY <2>0, <2>6, <3>1 DEF RollbackCancellation, RollbackAllowed,
                              RollbackCancellationOf, WithoutCancellation, Entity
  <2>7. CASE Reload
    BY <2>0, <2>7 DEF Reload, NewBooking, Entity
  <2>8. CASE Tick
    BY <2>8 DEF Tick
  <2>9. CASE UNCHANGED vars
    BY <2>9 DEF vars
  <2> QED
    BY <2>1, <2>2, <2>3, <2>4, <2>5, <2>6, <2>7, <2>8, <2>9 DEF Next
<1>3. AcceptedInTime => LateCancellationImpossible
  BY DEF AcceptedInTime, LateCancellationImpossible
<1> QED
  BY <1>1, <1>2, <1>3, EntityInvariant, PTL DEF Spec

-----------------------------------------------------------------------------
(* Every call of the aggregate is one transition of the abstract life      *)
(* cycle or leaves the status alone, storage included.                     *)
THEOREM EntityImplementsLifecycle == Spec => ImplementsLifecycle
<1> DEFINE status == [b \in {"booking"} |-> booking.status]
<1>1. Init => Lifecycle!Init
  BY DEF Init, Lifecycle!Init, Lifecycle!Absent, NoBooking, NewBooking, Absent
<1>2. EntityInv /\ [Next]_vars => [Lifecycle!Next]_status
  <2> SUFFICES ASSUME TypeOK, HistoryFollows, RollbackKnowsItsTarget, [Next]_vars
               PROVE  Lifecycle!Next \/ status' = status
    BY DEF EntityInv
  <2> USE DEF Become, AwaitsConfirmation, Confirmed, Cancelled, CancellationPending,
              Absent, None, Lifecycle!AwaitsConfirmation, Lifecycle!Confirmed,
              Lifecycle!Cancelled, Lifecycle!CancellationPending, Lifecycle!Absent,
              Lifecycle!Move
  <2>0. Exists => booking \in Entity
    BY MethodsKeepTheFields
  <2>1. CASE Create
    <3>1. Lifecycle!Create("booking")
      BY <2>1 DEF Create, Exists, NewBooking, Lifecycle!Create
    <3> QED
      BY <3>1 DEF Lifecycle!Next
  <2>2. CASE Confirm
    <3>1. Lifecycle!Confirm("booking")
      BY <2>0, <2>2 DEF Confirm, ConfirmAllowed, ConfirmBooking, WithoutCancellation,
                        Entity, Lifecycle!Confirm
    <3> QED
      BY <3>1 DEF Lifecycle!Next
  <2>3. CASE Cancel
    <3>1. Lifecycle!Cancel("booking")
      BY <2>0, <2>3 DEF Cancel, CancelAllowed, CancelBooking, Entity, Lifecycle!Cancel
    <3> QED
      BY <3>1 DEF Lifecycle!Next
  <2>4. CASE StartCancellation
    <3>1. CASE booking.status = CancellationPending
      BY <2>4, <3>1 DEF StartCancellation, StartCancellationOf
    <3>2. CASE booking.status # CancellationPending
      <4>1. Lifecycle!BeginCancellation("booking")
        BY <2>0, <2>4, <3>2 DEF StartCancellation, StartCancellationAllowed,
             StartCancellationOf, Entity, Lifecycle!BeginCancellation
      <4> QED
        BY <4>1 DEF Lifecycle!Next
    <3> QED
      BY <3>1, <3>2
  <2>5. CASE CompleteCancellation
    <3>1. Lifecycle!Cancel("booking")
      BY <2>0, <2>5 DEF CompleteCancellation, CompleteAllowed, CompleteCancellationOf,
                        WithoutCancellation, Entity, Lifecycle!Cancel
    <3> QED
      BY <3>1 DEF Lifecycle!Next
  <2>6. CASE RollbackCancellation
    <3>1. booking.previousStatus \in {AwaitsConfirmation, Confirmed}
      BY <2>6 DEF RollbackCancellation, RollbackAllowed, RollbackKnowsItsTarget,
                  HistoryFollows, TypeOK
    <3>2. Lifecycle!Rollback("booking")
      BY <2>0, <2>6, <3>1 DEF RollbackCancellation, RollbackAllowed,
           RollbackCancellationOf, WithoutCancellation, Entity, Lifecycle!Rollback
    <3> QED
      BY <3>2 DEF Lifecycle!Next
  <2>7. CASE Reload
    BY <2>0, <2>7 DEF Reload, NewBooking, Entity
  <2>8. CASE Tick \/ UNCHANGED vars
    BY <2>8 DEF Tick, vars
  <2> QED
    BY <2>1, <2>2, <2>3, <2>4, <2>5, <2>6, <2>7, <2>8 DEF Next
<1> QED
  BY <1>1, <1>2, EntityInvariant, PTL DEF Spec, ImplementsLifecycle, Lifecycle!Spec
=============================================================================
