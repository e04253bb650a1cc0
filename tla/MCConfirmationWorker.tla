------------------------- MODULE MCConfirmationWorker -------------------------
(* Small instances of ConfirmationWorker for TLC.                          *)
EXTENDS ConfirmationWorker, TLC

CONSTANTS w1, w2

TwoWorkers == {w1, w2}

(* Catalog keeps the oldest one waiting: in a batch of two it leaves room  *)
(* for one of the others.                                                  *)
ThreeBookings == 1 .. 3
YoungerOnes   == {2, 3}
=============================================================================
