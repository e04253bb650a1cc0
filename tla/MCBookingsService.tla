--------------------------- MODULE MCBookingsService ---------------------------
(* Small instances of BookingsService for TLC.                             *)
EXTENDS BookingsService, TLC

CONSTANTS b1, b2, c1, c2, c3

OneBooking  == {b1}
TwoBookings == {b1, b2}
TwoCalls    == {c1, c2}
ThreeCalls  == {c1, c2, c3}

(* The first day of every booking: one day before and one day after it are *)
(* on the clock.                                                           *)
FirstDay == [b \in Bookings |-> 1]

TransactionalOps == LockedOps
OlderOps         == {"ConfirmPlain", "CancelPlain"}
MixedOps         == LockedOps \cup {"CancelPlain", "RequestCancellation"}
NoOps            == {}

CallSymmetry == Permutations(Calls)
Symmetry     == Permutations(Calls) \cup Permutations(Bookings)
=============================================================================
