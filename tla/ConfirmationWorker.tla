--------------------------- MODULE ConfirmationWorker ---------------------------
(***************************************************************************)
(* Polling Catalog for the bookings that still wait for it:                *)
(* app/worker/confirmation_worker.go over GetAwaitingConfirmation and the  *)
(* HTTP client of Catalog, beside everything else that moves a booking.    *)
(*                                                                         *)
(* The query says FOR UPDATE SKIP LOCKED outside a transaction, so the     *)
(* worker walks through a list of bookings that nobody holds: a user, an   *)
(* event of Catalog or another worker may change them meanwhile.  Confirm  *)
(* and Cancel of the service are the transactional ones, one step each     *)
(* (BookingsService takes them apart), so is RequestCancellation.          *)
(*                                                                         *)
(* Bookings are numbered by created_at.                                    *)
(***************************************************************************)
EXTENDS Booking, Naturals, FiniteSets

CONSTANTS
  Bookings,     \* bookings 1, 2, ... in the order of created_at
  Workers,      \* ConfirmationWorker.Run loops, one per instance
  BatchSize,    \* WORKER_CONFIRMATION_BATCH
  Decidable,    \* bound: the bookings Catalog may come to decide about
  MaxFaults     \* bound: failed requests and statements, crashes

ASSUME WorkerAssumption ==
  /\ Bookings \subseteq Nat
  /\ Decidable \subseteq Bookings
  /\ BatchSize \in Nat \ {0}
  /\ MaxFaults \in Nat

VARIABLES
  rows,         \* table bookings: the committed status of each id
  job,          \* Catalog: the status of the job of each booking
  batch,        \* the bookings each worker fetched and has not finished
  answer,       \* Catalog's answer about the first of them, or None
  faults        \* failed requests and statements, crashes so far

vars == <<rows, job, batch, answer, faults>>

JobStatus == {"pending", "confirmed", "denied"}

(* Every variable has its type, and an answer belongs to a batch.          *)
TypeOK ==
  /\ rows \in [Bookings -> BookingStatus \cup {Absent}]
  /\ job \in [Bookings -> JobStatus \cup {None}]
  /\ batch \in [Workers -> SUBSET Bookings]
  /\ answer \in [Workers -> JobStatus \cup {None}]
  /\ faults \in 0 .. MaxFaults
  /\ \A w \in Workers : answer[w] # None => batch[w] # {}

Init ==
  /\ rows = [b \in Bookings |-> Absent]
  /\ job = [b \in Bookings |-> None]
  /\ batch = [w \in Workers |-> {}]
  /\ answer = [w \in Workers |-> None]
  /\ faults = 0

-----------------------------------------------------------------------------
(* The service.  A call that the domain method refuses changes nothing.    *)

Create(b) ==
  /\ rows[b] = Absent
  /\ \A a \in Bookings : a < b => rows[a] # Absent
  /\ rows' = [rows EXCEPT ![b] = AwaitsConfirmation]

Confirm(b) ==
  rows' = [rows EXCEPT ![b] = IF ConfirmAllowed(@) THEN Confirmed ELSE @]

Cancel(b) ==
  rows' = [rows EXCEPT ![b] = IF CancelAllowed(@, TRUE) THEN Cancelled ELSE @]

RequestCancellation(b) ==
  /\ StartCancellationAllowed(rows[b], TRUE)
  /\ rows' = [rows EXCEPT ![b] = CancellationPending]

(* The event of a decided job reaches its handler, at any time or never.   *)
CatalogEvent(b) ==
  \/ job[b] = "confirmed" /\ Confirm(b)
  \/ job[b] = "denied" /\ Cancel(b)

Service(b) ==
  /\ \/ Create(b) \/ RequestCancellation(b) \/ CatalogEvent(b)
     \/ rows[b] # Absent /\ Cancel(b)
  /\ rows' # rows
  /\ UNCHANGED <<job, batch, answer, faults>>

(* Catalog: the create command arrives, the job is decided once.           *)
Catalog(b) ==
  /\ \/ rows[b] # Absent /\ job[b] = None /\ job' = [job EXCEPT ![b] = "pending"]
     \/ /\ job[b] = "pending" /\ b \in Decidable
        /\ \E s \in {"confirmed", "denied"} : job' = [job EXCEPT ![b] = s]
  /\ UNCHANGED <<rows, batch, answer, faults>>

-----------------------------------------------------------------------------
Waiting == {b \in Bookings : rows[b] = AwaitsConfirmation}

(* ORDER BY created_at LIMIT BatchSize.                                    *)
Oldest(due) == {b \in due : Cardinality({a \in due : a < b}) < BatchSize}

(* A tick.  What another worker fetches or updates at this very moment may *)
(* be locked and skipped.                                                  *)
GetAwaitingConfirmation(w) ==
  /\ batch[w] = {}
  /\ \E skipped \in SUBSET (Waiting \cap UNION {batch[v] : v \in Workers \ {w}}) :
       /\ skipped # Waiting
       /\ batch' = [batch EXCEPT ![w] = Oldest(Waiting \ skipped)]
  /\ UNCHANGED <<rows, job, answer, faults>>

First(w, b) == b \in batch[w] /\ \A a \in batch[w] : b <= a

(* A faulty loop that leaves the batch at the first booking.               *)
FinishAll(w, b) ==
  /\ batch' = [batch EXCEPT ![w] = {}]
  /\ answer' = [answer EXCEPT ![w] = None]

(* processBooking returns, whatever came out of it.                        *)
Finish(w, b) ==
  /\ batch' = [batch EXCEPT ![w] = @ \ {b}]
  /\ answer' = [answer EXCEPT ![w] = None]

(* GetBookingJobByBookingID: some attempt of withRetry got the status.     *)
Ask(w, b) ==
  /\ First(w, b) /\ answer[w] = None
  /\ job[b] # None
  /\ answer' = [answer EXCEPT ![w] = job[b]]
  /\ UNCHANGED <<rows, job, batch, faults>>

(* Catalog does not know the booking yet: every attempt is an HTTP error.  *)
AskTooEarly(w, b) ==
  /\ First(w, b) /\ answer[w] = None
  /\ job[b] = None
  /\ Finish(w, b)
  /\ UNCHANGED <<rows, job, faults>>

(* Faulty reactions: one takes everything but a denial for a confirmation, *)
(* one trusts the status the booking had when it was fetched.              *)
ApplyUnlessDenied(w, b) ==
  /\ First(w, b) /\ answer[w] # None
  /\ IF answer[w] = "denied" THEN Cancel(b) ELSE Confirm(b)
  /\ Finish(w, b)
  /\ UNCHANGED <<job, faults>>

ApplyFetched(w, b) ==
  /\ First(w, b) /\ answer[w] # None
  /\ rows' = IF answer[w] = "confirmed" THEN [rows EXCEPT ![b] = Confirmed]
             ELSE IF answer[w] = "denied" THEN [rows EXCEPT ![b] = Cancelled]
             ELSE rows
  /\ Finish(w, b)
  /\ UNCHANGED <<job, faults>>

(* A faulty loop that keeps the answer for the next booking.               *)
ApplyAndKeep(w, b) ==
  /\ First(w, b) /\ answer[w] # None
  /\ \/ answer[w] = "confirmed" /\ Confirm(b)
     \/ answer[w] = "denied" /\ Cancel(b)
     \/ answer[w] = "pending" /\ UNCHANGED rows
  /\ batch' = [batch EXCEPT ![w] = @ \ {b}]
  /\ UNCHANGED <<job, answer, faults>>

(* The switch over job.Status; an error of the service is logged.          *)
Apply(w, b) ==
  /\ First(w, b) /\ answer[w] # None
  /\ \/ answer[w] = "confirmed" /\ Confirm(b)
     \/ answer[w] = "denied" /\ Cancel(b)
     \/ answer[w] = "pending" /\ UNCHANGED rows
  /\ Finish(w, b)
  /\ UNCHANGED <<job, faults>>

(* The request or the statement failed: logged, on to the next booking.    *)
ProcessError(w, b) ==
  /\ First(w, b)
  /\ faults < MaxFaults
  /\ faults' = faults + 1
  /\ Finish(w, b)
  /\ UNCHANGED <<rows, job>>

Crash(w) ==
  /\ batch[w] # {}
  /\ faults < MaxFaults
  /\ faults' = faults + 1
  /\ batch' = [batch EXCEPT ![w] = {}]
  /\ answer' = [answer EXCEPT ![w] = None]
  /\ UNCHANGED <<rows, job>>

-----------------------------------------------------------------------------
Work(w) ==
  \/ GetAwaitingConfirmation(w)
  \/ \E b \in Bookings : Ask(w, b) \/ AskTooEarly(w, b) \/ Apply(w, b)

Next ==
  \/ \E b \in Bookings : Service(b) \/ Catalog(b)
  \/ \E w \in Workers : Work(w) \/ Crash(w)
  \/ \E w \in Workers, b \in Bookings : ProcessError(w, b)

Spec == Init /\ [][Next]_vars

(* The ticker fires for ever and a batch is worked through.                *)
FairSpec == Spec /\ \A w \in Workers : WF_vars(Work(w))

-----------------------------------------------------------------------------
(* A booking is confirmed only if Catalog confirmed its job, whoever       *)
(* brought the news and however old it was.                                *)
ConfirmedByCatalog ==
  \A b \in Bookings : rows[b] = Confirmed => job[b] = "confirmed"

(* A list of bookings that is out of date does no harm: what was cancelled *)
(* after the fetch or after Catalog's answer stays cancelled.              *)
CancelledIsFinal ==
  [][\A b \in Bookings : rows[b] = Cancelled => rows'[b] = Cancelled]_vars

(* The booking is among the oldest that wait, those a batch has room for.  *)
InReach(b) == b \in Oldest(Waiting)

(* Once Catalog has decided, a booking within reach of the batches stops   *)
(* waiting, events or not.  A younger one may wait for ever behind older   *)
(* ones that Catalog does not decide about.                                *)
DecidedIsSettled ==
  \A b \in Bookings : ~ <>[](job[b] \in {"confirmed", "denied"} /\ InReach(b))
=============================================================================
