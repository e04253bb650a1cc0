---------------------------- MODULE MCEventConsumer ----------------------------
(* Small instances of EventConsumer for TLC.                               *)
EXTENDS EventConsumer, TLC

CONSTANTS b1, b2, yes1, no1, yes2, c1, c2, c3

OneBooking  == {b1}
TwoBookings == {b1, b2}

(* Catalog confirms or denies the first booking, and confirms the second.  *)
OneConfirmation == {yes1}
OneJob          == {yes1, no1}
TwoJobs         == {yes1, no1, yes2}

BookingOf == [e \in Events |-> IF e = yes2 THEN b2 ELSE b1]
KindOf    == [e \in Events |-> IF e = no1 THEN "denied" ELSE "confirmed"]

(* One instance runs one loop per queue; the second instance here adds     *)
(* another for the confirmations.                                          *)
OneLoop  == {c1}
OnePair  == {c1, c2}
AllLoops == {c1, c2, c3}
QueueOf  == [c \in Consumers |-> IF c = c2 THEN "denied" ELSE "confirmed"]
=============================================================================
