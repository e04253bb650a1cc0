--------------------------- MODULE BookingLifecycle ---------------------------
(***************************************************************************)
(* What the service promises about the status of each booking, whatever    *)
(* runs concurrently: the union of the transitions that the comments of    *)
(* models.Booking document, taken one at a time and atomically.            *)
(* A cancelled booking has no successor.                                   *)
(***************************************************************************)
EXTENDS Booking

CONSTANT Bookings

VARIABLE status      \* [Bookings -> BookingStatus \cup {Absent}]

Move(b, from, to) ==
  /\ status[b] \in from
  /\ status' = [status EXCEPT ![b] = to]

Create(b)            == Move(b, {Absent}, AwaitsConfirmation)
Confirm(b)           == Move(b, {AwaitsConfirmation, CancellationPending}, Confirmed)
BeginCancellation(b) == Move(b, {AwaitsConfirmation, Confirmed}, CancellationPending)
Cancel(b)            == Move(b, {AwaitsConfirmation, Confirmed, CancellationPending},
                             Cancelled)
Rollback(b)          == \E to \in {AwaitsConfirmation, Confirmed} :
                          Move(b, {CancellationPending}, to)

Init == status = [b \in Bookings |-> Absent]

Next == \E b \in Bookings :
          Create(b) \/ Confirm(b) \/ BeginCancellation(b) \/ Cancel(b) \/ Rollback(b)

Spec == Init /\ [][Next]_status
=============================================================================
