--------------------------- MODULE MCServiceInstance ---------------------------
(* A small instance of ServiceInstance for TLC.                            *)
EXTENDS ServiceInstance, TLC

CONSTANTS b1, b2, b3, confirmed, denied

(* Two answers share a queue, so that one can block the other.             *)
ThreeBookings == {b1, b2, b3}
TwoQueues     == {confirmed, denied}
VerdictOf     == [b \in Bookings |-> IF b = b3 THEN denied ELSE confirmed]

(* Users cancel the booking that Catalog denies.                           *)
RegrettedOnes == {b3}

(* One of the two names is the exchange the service declares.              *)
TwoDeployments ==
  {[commands |-> Exchange, events |-> "elsewhere"],
   [commands |-> "elsewhere", events |-> Exchange]}
=============================================================================
