------------------------------- MODULE Booking -------------------------------
(***************************************************************************)
(* The booking aggregate of app/models/booking.go: the four statuses, the  *)
(* guards of the domain methods and the fields each method writes.         *)
(*                                                                         *)
(* The guards are stated over a status and over startsLater, the value of  *)
(* startDate.After(today): the two things the methods look at.  The        *)
(* effects are stated over the three fields the methods write; the         *)
(* identity, the owner, the resource and the dates never change after      *)
(* NewBooking.  CancellationRequestedAt and CancellationReason are written *)
(* only by Confirm, which clears them, so they stay nil and are left out.  *)
(***************************************************************************)

AwaitsConfirmation  == "awaits_confirmation"
Confirmed           == "confirmed"
Cancelled           == "cancelled"
CancellationPending == "cancellation_pending"

BookingStatus == {AwaitsConfirmation, Confirmed, Cancelled, CancellationPending}

None   == "none"      \* a nil pointer, or no value yet
Absent == "absent"    \* no row with this id

-----------------------------------------------------------------------------
(* Guards: the call succeeds exactly when the operator is TRUE, and        *)
(* returns ErrInvalidStatusTransition or ErrCannotCancelPastBooking        *)
(* otherwise.                                                              *)

(* A faulty Confirm that accepts a cancelled booking.                      *)
ConfirmCancelledToo(status) == status # Confirmed

ConfirmAllowed(status) == status \in {AwaitsConfirmation, CancellationPending}

(* A faulty Cancel that does not look at the start date.                   *)
CancelAnyTime(status, startsLater) == status \in {AwaitsConfirmation, Confirmed}

CancelAllowed(status, startsLater) ==
  \/ status = AwaitsConfirmation
  \/ status = Confirmed /\ startsLater

(* A faulty StartCancellation that does not look at the start date.        *)
StartCancellationAnyTime(status, startsLater) == status # Cancelled

(* A booking that is being cancelled already is accepted and left as is.   *)
StartCancellationAllowed(status, startsLater) ==
  \/ status \in {AwaitsConfirmation, CancellationPending}
  \/ status = Confirmed /\ startsLater

CompleteAllowed(b) == b.status = CancellationPending

(* A faulty RollbackCancellation without the nil check.                    *)
RollbackUnchecked(b) == b.status = CancellationPending

RollbackAllowed(b) ==
  /\ b.status = CancellationPending
  /\ b.previousStatus # None

-----------------------------------------------------------------------------
(* Effects on the mutable fields.  cancelCommandSentAt is the set of the   *)
(* times the pointer leads to: empty when it is nil.                       *)

NewBooking == [status              |-> AwaitsConfirmation,
               previousStatus      |-> None,
               cancelCommandSentAt |-> {}]

WithoutCancellation(b) == [b EXCEPT !.previousStatus = None,
                                    !.cancelCommandSentAt = {}]

ConfirmBooking(b) ==
  IF b.status = CancellationPending
  THEN [WithoutCancellation(b) EXCEPT !.status = Confirmed]
  ELSE [b EXCEPT !.status = Confirmed]

CancelBooking(b) == [b EXCEPT !.status = Cancelled]

(* A faulty StartCancellation that records a second request too.           *)
StartCancellationAgain(b, now) ==
  [status              |-> CancellationPending,
   previousStatus      |-> b.status,
   cancelCommandSentAt |-> {now}]

StartCancellationOf(b, now) ==
  IF b.status = CancellationPending
  THEN b
  ELSE [status              |-> CancellationPending,
        previousStatus      |-> b.status,
        cancelCommandSentAt |-> {now}]

CompleteCancellationOf(b) == [WithoutCancellation(b) EXCEPT !.status = Cancelled]

(* A faulty RollbackCancellation that always goes back to the beginning.   *)
RollbackToStart(b) == [WithoutCancellation(b) EXCEPT !.status = AwaitsConfirmation]

RollbackCancellationOf(b) ==
  [WithoutCancellation(b) EXCEPT !.status = b.previousStatus]
=============================================================================
