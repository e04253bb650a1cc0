--------------------------- MODULE CancellationWorker ---------------------------
(***************************************************************************)
(* Repeating the cancel command of cancellations that hang:                *)
(* app/worker/cancellation_worker.go over GetCancellationPendingOlderThan. *)
(*                                                                         *)
(* The query runs in a transaction that commits before it returns, so the  *)
(* worker publishes from a list of bookings nobody holds.  It writes       *)
(* nothing: neither the status nor updated_at change, and nothing in the   *)
(* source completes a cancellation; only a confirmation of Catalog takes a *)
(* booking out of cancellation_pending.                                    *)
(*                                                                         *)
(* updated_at is set by the transactions of Confirm and Cancel, not by the *)
(* Update of RequestCancellation: a cancellation may be old enough from    *)
(* the start.  Time is the order of updated_at and how much of it is older *)
(* than the timeout.                                                       *)
(***************************************************************************)
EXTENDS Booking, Naturals, Sequences, FiniteSets

CONSTANTS
  Bookings,
  Workers,      \* CancellationWorker.Run loops
  BatchSize,    \* the LIMIT of the query
  MaxFaults     \* bound: crashes

ASSUME CancellationAssumption ==
  /\ IsFiniteSet(Bookings)
  /\ BatchSize \in Nat \ {0}
  /\ MaxFaults \in Nat

VARIABLES
  rows,         \* table bookings: the committed status of each id
  byUpdate,     \* the ids in the order of updated_at
  overdue,      \* how many of them were updated before now - timeout
  batch,        \* the bookings each worker has still to publish, in order
  tried,        \* the latest publish, {} before it: of which booking, its
                \* status then, and whether the AMQP client took the command
  faults        \* crashes so far

vars == <<rows, byUpdate, overdue, batch, tried, faults>>

Ids(s) == {s[i] : i \in DOMAIN s}

(* Every variable has its type; every row is in the order exactly once.    *)
TypeOK ==
  /\ rows \in [Bookings -> BookingStatus \cup {Absent}]
  /\ byUpdate \in Seq(Bookings)
  /\ Ids(byUpdate) = {b \in Bookings : rows[b] # Absent}
  /\ \A i, j \in DOMAIN byUpdate : byUpdate[i] = byUpdate[j] => i = j
  /\ overdue \in 0 .. Len(byUpdate)
  /\ batch \in [Workers -> Seq(Bookings)]
  /\ tried \subseteq [booking : Bookings, status : BookingStatus, taken : BOOLEAN]
  /\ faults \in 0 .. MaxFaults

Init ==
  /\ rows = [b \in Bookings |-> Absent]
  /\ byUpdate = << >>
  /\ overdue = 0
  /\ batch = [w \in Workers |-> << >>]
  /\ tried = {}
  /\ faults = 0

-----------------------------------------------------------------------------
(* A faulty update that leaves the old place in the order as well.         *)
TouchAgain(b) ==
  /\ byUpdate' = Append(byUpdate, b)
  /\ UNCHANGED overdue

(* The i-th of the order moves to its end.                                 *)
ToTheEnd(i) ==
  [j \in DOMAIN byUpdate |->
     IF j < i THEN byUpdate[j]
     ELSE IF j < Len(byUpdate) THEN byUpdate[j + 1] ELSE byUpdate[i]]

(* INSERT, or SET updated_at = NOW(): the booking becomes the youngest.    *)
Touch(b) ==
  \/ /\ b \notin Ids(byUpdate)
     /\ byUpdate' = Append(byUpdate, b)
     /\ UNCHANGED overdue
  \/ \E i \in DOMAIN byUpdate :
       /\ byUpdate[i] = b
       /\ byUpdate' = ToTheEnd(i)
       /\ overdue' = IF i <= overdue THEN overdue - 1 ELSE overdue

Create(b) ==
  /\ rows[b] = Absent
  /\ rows' = [rows EXCEPT ![b] = AwaitsConfirmation]
  /\ Touch(b)
  /\ UNCHANGED <<batch, tried, faults>>

Confirm(b) ==
  /\ ConfirmAllowed(rows[b])
  /\ rows' = [rows EXCEPT ![b] = Confirmed]
  /\ Touch(b)
  /\ UNCHANGED <<batch, tried, faults>>

Cancel(b) ==
  /\ CancelAllowed(rows[b], TRUE)
  /\ rows' = [rows EXCEPT ![b] = Cancelled]
  /\ Touch(b)
  /\ UNCHANGED <<batch, tried, faults>>

(* Its own publish of the command may have failed, or the command was lost. *)
RequestCancellation(b) ==
  /\ StartCancellationAllowed(rows[b], TRUE)
  /\ rows' = [rows EXCEPT ![b] = CancellationPending]
  /\ UNCHANGED <<byUpdate, overdue, batch, tried, faults>>

(* Time passes: one more update is older than the timeout.                 *)
Age ==
  /\ overdue < Len(byUpdate)
  /\ overdue' = overdue + 1
  /\ UNCHANGED <<rows, byUpdate, batch, tried, faults>>

-----------------------------------------------------------------------------
(* status = 'cancellation_pending' AND updated_at <= now - timeout: where  *)
(* in the order these bookings are.                                        *)
Stuck == {i \in 1 .. overdue : rows[byUpdate[i]] = CancellationPending}

(* A faulty query that looks at the age only.                              *)
FetchAnyStatus(w) ==
  /\ batch[w] = << >>
  /\ overdue > 0
  /\ batch' = [batch EXCEPT ![w] = SubSeq(byUpdate, 1, overdue)]
  /\ UNCHANGED <<rows, byUpdate, overdue, tried, faults>>

(* The oldest ones first, at most BatchSize of them.  Rows that another    *)
(* transaction holds at this instant are skipped; the transactions are     *)
(* single steps here, so there are none.                                   *)
GetCancellationPendingOlderThan(w) ==
  /\ batch[w] = << >>
  /\ \E n \in 1 .. BatchSize : \E oldest \in [1 .. n -> Stuck] :
       /\ \A j, k \in 1 .. n : j < k => oldest[j] < oldest[k]
       /\ \A i \in Stuck \ Ids(oldest) : n = BatchSize /\ oldest[n] < i
       /\ batch' = [batch EXCEPT ![w] = [k \in 1 .. n |-> byUpdate[oldest[k]]]]
  /\ UNCHANGED <<rows, byUpdate, overdue, tried, faults>>

(* The publish is tried for the first booking of the batch, and the loop   *)
(* goes on.                                                                *)
Try(w, taken) ==
  /\ batch[w] # << >>
  /\ LET b == Head(batch[w]) IN
       tried' = {[booking |-> b, status |-> rows[b], taken |-> taken]}
  /\ batch' = [batch EXCEPT ![w] = Tail(@)]
  /\ UNCHANGED <<rows, byUpdate, overdue, faults>>

Publish(w) == Try(w, TRUE)

(* A faulty loop that gives up the batch when a publish is refused.        *)
PublishErrorEnds(w) ==
  /\ batch[w] # << >>
  /\ LET b == Head(batch[w]) IN
       tried' = {[booking |-> b, status |-> rows[b], taken |-> FALSE]}
  /\ batch' = [batch EXCEPT ![w] = << >>]
  /\ UNCHANGED <<rows, byUpdate, overdue, faults>>

PublishError(w) == Try(w, FALSE)

(* The process dies and starts again: the batch is gone.                   *)
Crash(w) ==
  /\ batch[w] # << >>
  /\ faults < MaxFaults
  /\ faults' = faults + 1
  /\ batch' = [batch EXCEPT ![w] = << >>]
  /\ UNCHANGED <<rows, byUpdate, overdue, tried>>

-----------------------------------------------------------------------------
Work(w) == GetCancellationPendingOlderThan(w) \/ Publish(w) \/ PublishError(w)

Next ==
  \/ \E b \in Bookings : Create(b) \/ Confirm(b) \/ Cancel(b) \/ RequestCancellation(b)
  \/ Age
  \/ \E w \in Workers : Work(w) \/ Crash(w)

Spec == Init /\ [][Next]_vars

(* The ticker fires for ever, a batch is worked through and time passes.   *)
FairSpec ==
  /\ Spec
  /\ WF_vars(Age)
  /\ \A w \in Workers : WF_vars(Work(w))

-----------------------------------------------------------------------------
(* The booking is pending, and among the pending ones that were updated    *)
(* longest ago, those a batch has room for.                                *)
InReach(b) ==
  /\ rows[b] = CancellationPending
  /\ \E i \in DOMAIN byUpdate :
       /\ byUpdate[i] = b
       /\ Cardinality({j \in 1 .. i : rows[byUpdate[j]] = CancellationPending}) <= BatchSize

(* A cancellation that stays pending and within reach of the batches is    *)
(* tried again and again, even if the broker refuses every publish of the  *)
(* others.  A younger one may never be tried.                              *)
StuckCancellationIsRepeated ==
  \A b \in Bookings : <>[]InReach(b) => []<>(\E t \in tried : t.booking = b)

(* The command never goes out for a booking that merely waits for Catalog, *)
(* however old the batch it was fetched in: from pending nothing leads     *)
(* back to waiting.                                                        *)
WaitingIsLeftAlone == \A t \in tried : t.status # AwaitsConfirmation
=============================================================================
