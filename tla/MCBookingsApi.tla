---------------------------- MODULE MCBookingsApi ----------------------------
(* A small instance of BookingsApi for TLC.                                *)
EXTENDS BookingsApi, TLC

CONSTANTS w1, w2, r1

(* Two clients that write, so that two creations overlap, and one that     *)
(* reads.                                                                  *)
AllClients == {w1, w2, r1}
RequestsOf == [c \in Clients |-> IF c = w1 THEN {"create", "cancel"}
                                 ELSE IF c = w2 THEN {"create"}
                                 ELSE {"lookup", "list", "statistics"}]

ListFilters == {None, Cancelled}

FirstThree  == 1 .. 3
Period      == {2, 3}
ResourceOf  == [b \in Bookings |-> IF b = 2 THEN 7 ELSE 8]
=============================================================================
