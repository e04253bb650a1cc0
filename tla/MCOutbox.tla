------------------------------- MODULE MCOutbox -------------------------------
(* Small instances of Outbox for TLC.                                      *)
EXTENDS Outbox, TLC

CONSTANTS w1, w2

OneWorker  == {w1}
TwoWorkers == {w1, w2}

ThreeMessages == 1 .. 3
TwoMessages   == 1 .. 2

Symmetry == Permutations(Workers)
=============================================================================
