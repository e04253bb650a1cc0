------------------------- MODULE MCCancellationWorker -------------------------
(* Small instances of CancellationWorker for TLC.                          *)
EXTENDS CancellationWorker, TLC

CONSTANTS b1, b2, b3, w1

ThreeBookings == {b1, b2, b3}

(* Workers read the table and write nothing: one of them will do.          *)
OneWorker == {w1}
=============================================================================
