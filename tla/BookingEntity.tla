----------------------------- MODULE BookingEntity -----------------------------
(***************************************************************************)
(* One models.Booking used by one goroutine: every domain method of        *)
(* app/models/booking.go, in any order, while the days pass, and the round *)
(* trip through storage (Update writes the status only, the scan functions *)
(* of storage/postgres restore the rest as nil).                           *)
(***************************************************************************)
EXTENDS Booking, Naturals

CONSTANTS
  StartDay,     \* the day of startDate
  LastDay       \* bound: the clock stops at this day

ASSUME EntityAssumption == StartDay \in Nat /\ LastDay \in Nat

VARIABLES
  booking,      \* the mutable fields of the object, or NoBooking
  today,
  \* History, read by the properties only:
  settled,      \* the last status that was awaits_confirmation or confirmed
  begun,        \* the day on which the latest cancellation was accepted
  reloaded      \* the object went through storage since then

vars == <<booking, today, settled, begun, reloaded>>

Days == 0 .. LastDay

Entity == [status              : BookingStatus,
           previousStatus      : BookingStatus \cup {None},
           cancelCommandSentAt : {{}} \cup {{d} : d \in Days}]

NoBooking == [NewBooking EXCEPT !.status = Absent]

(* The fields have their types: in particular the status is one of the     *)
(* four IsValid accepts, whatever RollbackCancellation copies into it.     *)
TypeOK ==
  /\ booking \in Entity \cup {NoBooking}
  /\ today \in Days
  /\ settled \in {AwaitsConfirmation, Confirmed, Absent}
  /\ begun \in Days
  /\ reloaded \in BOOLEAN

Init ==
  /\ booking = NoBooking
  /\ today = 0
  /\ settled = Absent
  /\ begun = 0
  /\ reloaded = FALSE

-----------------------------------------------------------------------------
StartsLater == today < StartDay

Exists == booking.status # Absent

(* The object becomes b; the history follows it while it may still go on.  *)
Become(b) ==
  /\ booking' = b
  /\ settled' = IF b.status \in {AwaitsConfirmation, Confirmed} THEN b.status ELSE settled
  /\ UNCHANGED today

Create ==
  /\ ~ Exists
  /\ Become(NewBooking)
  /\ UNCHANGED <<begun, reloaded>>

Confirm ==
  /\ Exists
  /\ ConfirmAllowed(booking.status)
  /\ Become(ConfirmBooking(booking))
  /\ UNCHANGED <<begun, reloaded>>

Cancel ==
  /\ Exists
  /\ CancelAllowed(booking.status, StartsLater)
  /\ Become(CancelBooking(booking))
  /\ begun' = today
  /\ UNCHANGED reloaded

(* A second request while one is pending succeeds and changes nothing.     *)
StartCancellation ==
  /\ Exists
  /\ StartCancellationAllowed(booking.status, StartsLater)
  /\ Become(StartCancellationOf(booking, today))
  /\ IF booking.status = CancellationPending
     THEN UNCHANGED <<begun, reloaded>>
     ELSE begun' = today /\ reloaded' = FALSE

CompleteCancellation ==
  /\ Exists
  /\ CompleteAllowed(booking)
  /\ Become(CompleteCancellationOf(booking))
  /\ UNCHANGED <<begun, reloaded>>

RollbackCancellation ==
  /\ Exists
  /\ RollbackAllowed(booking)
  /\ Become(RollbackCancellationOf(booking))
  /\ UNCHANGED <<begun, reloaded>>

(* Update, then GetByID: queryUpdateBookingStatus stores the status only,  *)
(* so RestoreBooking gets nil for the two cancellation fields.             *)
Reload ==
  /\ Exists
  /\ booking' = [NewBooking EXCEPT !.status = booking.status]
  /\ reloaded' = TRUE
  /\ UNCHANGED <<today, settled, begun>>

Tick ==
  /\ today < LastDay
  /\ today' = today + 1
  /\ UNCHANGED <<booking, settled, begun, reloaded>>

Next ==
  \/ Create \/ Confirm \/ Cancel
  \/ StartCancellation \/ CompleteCancellation \/ RollbackCancellation
  \/ Reload \/ Tick

Spec == Init /\ [][Next]_vars

-----------------------------------------------------------------------------
(* The two cancellation fields and the status tell the same story: while a *)
(* cancellation is pending and the object stayed in memory, a rollback     *)
(* returns to the status the booking had when it was requested, however    *)
(* often it was requested since; otherwise both fields are nil.            *)
RollbackKnowsItsTarget ==
  Exists =>
    IF booking.status = CancellationPending /\ ~ reloaded
    THEN booking.previousStatus = settled /\ booking.cancelCommandSentAt = {begun}
    ELSE booking.previousStatus = None /\ booking.cancelCommandSentAt = {}

(* A confirmed booking that ends up cancelled was asked to before its      *)
(* first day, even if the cancellation was completed later or an earlier   *)
(* one had been rolled back (Cancel and StartCancellation: "StartDate >    *)
(* today").                                                                *)
LateCancellationImpossible ==
  Exists /\ booking.status = Cancelled /\ settled = Confirmed => begun < StartDay

(* A booking that was confirmed once never waits for Catalog again: a      *)
(* rollback restores the right status or fails, also after the object has  *)
(* lost previousStatus in storage.                                         *)
ConfirmationIsNotForgotten ==
  [][settled = Confirmed => settled' = Confirmed]_vars

(* The life cycle of the one booking of this module.                       *)
Lifecycle == INSTANCE BookingLifecycle
               WITH Bookings <- {"booking"},
                    status   <- [b \in {"booking"} |->
                                   booking.status]

ImplementsLifecycle == Lifecycle!Spec
=============================================================================
