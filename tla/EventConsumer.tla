----------------------------- MODULE EventConsumer -----------------------------
(***************************************************************************)
(* The answers of Catalog on their way into the table: the RabbitMQ queues *)
(* of BookingJobConfirmed and BookingJobDenied, the consume loops of       *)
(* app/messaging/consumer.go, the handlers of app/messaging/handlers and   *)
(* ConfirmWithIdempotency of storage/postgres.                             *)
(*                                                                         *)
(* The confirmed handler is the one that checks processed_events: each of  *)
(* its statements commits on its own.  The denied handler is the one that  *)
(* calls BookingsService.Cancel, whose transaction is one step here (it is *)
(* taken apart in BookingsService); so is a user's Cancel.                 *)
(* RequestCancellation reads and writes in two steps.                      *)
(*                                                                         *)
(* A queue is the number of copies of each event that wait in it: the      *)
(* broker redelivers what a lost consumer had not acknowledged, and        *)
(* Catalog may send an event twice.                                        *)
(***************************************************************************)
EXTENDS Booking, Naturals, FiniteSets

CONSTANTS
  Bookings,
  Events,       \* event ids: "booking_confirmed_<booking>_<job>" and so on
  About,        \* About[e]: the booking of event e
  Kind,         \* Kind[e]: "confirmed" or "denied"
  Consumers,    \* consume loops, one per queue and instance of the service
  Serves,       \* Serves[c]: the kind of event of its queue
  MaxCopies,    \* bound: how often Catalog sends an event
  MaxFaults     \* bound: crashes, lost acknowledgements and database errors

Kinds == {"confirmed", "denied"}

ASSUME ConsumerAssumption ==
  /\ About \in [Events -> Bookings]
  /\ Kind \in [Events -> Kinds]
  /\ Serves \in [Consumers -> Kinds]
  /\ MaxCopies \in Nat
  /\ MaxFaults \in Nat
  /\ IsFiniteSet(Consumers)
  /\ None \notin Events

VARIABLES
  rows,         \* table bookings: the committed status of each id
  processed,    \* table processed_events
  queue,        \* copies of each event that wait for delivery
  handler,      \* what each consume loop is doing
  requested,    \* RequestCancellation in flight: the status it read, or None
  \* History and bounds:
  sent,         \* copies of each event Catalog has sent
  applied,      \* how often each event has written the status of its row
  faults        \* crashes, lost acknowledgements and database errors so far

vars == <<rows, processed, queue, handler, requested, sent, applied, faults>>

Waiting == [at |-> "waiting", event |-> None, seen |-> None]

HandlerState ==
  {Waiting} \cup
  [at    : {"received", "checked", "fresh", "loaded", "refused", "updated", "done"},
   event : Events,
   seen  : BookingStatus \cup {None}]

Init ==
  /\ rows = [b \in Bookings |-> Absent]
  /\ processed = {}
  /\ queue = [e \in Events |-> 0]
  /\ handler = [c \in Consumers |-> Waiting]
  /\ requested = [b \in Bookings |-> None]
  /\ sent = [e \in Events |-> 0]
  /\ applied = [e \in Events |-> 0]
  /\ faults = 0

-----------------------------------------------------------------------------
(* The rest of the service and Catalog.                                    *)

Create(b) ==
  /\ rows[b] = Absent
  /\ rows' = [rows EXCEPT ![b] = AwaitsConfirmation]
  /\ UNCHANGED <<processed, queue, handler, requested, sent, applied, faults>>

(* BookingsService.Cancel on a booking whose first day is still to come.   *)
Cancel(b) ==
  /\ CancelAllowed(rows[b], TRUE)
  /\ rows' = [rows EXCEPT ![b] = Cancelled]
  /\ UNCHANGED <<processed, queue, handler, requested, sent, applied, faults>>

RequestCancellation(b) ==
  /\ requested[b] = None
  /\ StartCancellationAllowed(rows[b], TRUE)
  /\ requested' = [requested EXCEPT ![b] = rows[b]]
  /\ UNCHANGED <<rows, processed, queue, handler, sent, applied, faults>>

RequestCancellationUpdate(b) ==
  /\ requested[b] # None
  /\ rows' = [rows EXCEPT ![b] = CancellationPending]
  /\ requested' = [requested EXCEPT ![b] = None]
  /\ UNCHANGED <<processed, queue, handler, sent, applied, faults>>

(* Catalog answers the create command of a booking, once or more, with the *)
(* same event: one job has one outcome.                                    *)
Send(e) ==
  /\ rows[About[e]] # Absent
  /\ sent[e] < MaxCopies
  /\ \A f \in Events : About[f] = About[e] /\ sent[f] > 0 => f = e
  /\ sent' = [sent EXCEPT ![e] = @ + 1]
  /\ queue' = [queue EXCEPT ![e] = @ + 1]
  /\ UNCHANGED <<rows, processed, handler, requested, applied, faults>>

-----------------------------------------------------------------------------
(* The consume loop.                                                       *)

Goes(c, at) == handler' = [handler EXCEPT ![c].at = at]

Returns(c) == handler' = [handler EXCEPT ![c] = Waiting]

(* One delivery at a time per queue.                                       *)
Deliver(c, e) ==
  /\ handler[c] = Waiting
  /\ Serves[c] = Kind[e]
  /\ queue[e] > 0
  /\ queue' = [queue EXCEPT ![e] = @ - 1]
  /\ handler' = [handler EXCEPT ![c] = [at |-> "received", event |-> e, seen |-> None]]
  /\ UNCHANGED <<rows, processed, requested, sent, applied, faults>>

(* The handler returned nil: Ack.                                          *)
Ack(c) ==
  /\ handler[c].at = "done"
  /\ Returns(c)
  /\ UNCHANGED <<rows, processed, queue, requested, sent, applied, faults>>

(* The handler returned an error: Nack without requeue.  No dead letter    *)
(* exchange is declared, so the broker drops the message.                  *)
DbError(c) ==
  /\ handler[c].at \in {"received", "checked", "fresh", "loaded", "updated"}
  /\ faults < MaxFaults
  /\ faults' = faults + 1
  /\ Returns(c)
  /\ UNCHANGED <<rows, processed, queue, requested, sent, applied>>

(* The process dies, or the connection is lost before the Ack: the broker  *)
(* delivers the message again.                                             *)
Crash(c) ==
  /\ handler[c] # Waiting
  /\ faults < MaxFaults
  /\ faults' = faults + 1
  /\ queue' = [queue EXCEPT ![handler[c].event] = @ + 1]
  /\ Returns(c)
  /\ UNCHANGED <<rows, processed, requested, sent, applied>>

-----------------------------------------------------------------------------
(* BookingConfirmedHandler.Handle and ConfirmWithIdempotency.              *)

Confirming(c, at) ==
  /\ handler[c].at = at
  /\ Kind[handler[c].event] = "confirmed"

Target(c) == About[handler[c].event]

(* IsEventProcessed, then the same question again inside                   *)
(* ConfirmWithIdempotency: an event processed before is acknowledged.      *)
CheckProcessed(c) ==
  /\ Confirming(c, "received")
  /\ Goes(c, IF handler[c].event \in processed THEN "done" ELSE "checked")
  /\ UNCHANGED <<rows, processed, queue, requested, sent, applied, faults>>

CheckAgain(c) ==
  /\ Confirming(c, "checked")
  /\ Goes(c, IF handler[c].event \in processed THEN "done" ELSE "fresh")
  /\ UNCHANGED <<rows, processed, queue, requested, sent, applied, faults>>

(* GetByID: no lock.  The booking exists, Catalog answers for no other.    *)
GetByID(c) ==
  /\ Confirming(c, "fresh")
  /\ rows[Target(c)] # Absent
  /\ handler' = [handler EXCEPT ![c].at = "loaded", ![c].seen = rows[Target(c)]]
  /\ UNCHANGED <<rows, processed, queue, requested, sent, applied, faults>>

(* A faulty handler that records the event before it writes the row.       *)
RecordFirst(c) ==
  /\ Confirming(c, "loaded")
  /\ ConfirmAllowed(handler[c].seen)
  /\ processed' = processed \cup {handler[c].event}
  /\ Goes(c, "updated")
  /\ UNCHANGED <<rows, queue, requested, sent, applied, faults>>

(* booking.Confirm() and Update.                                           *)
ConfirmUpdate(c) ==
  /\ Confirming(c, "loaded")
  /\ ConfirmAllowed(handler[c].seen)
  /\ rows' = [rows EXCEPT ![Target(c)] = Confirmed]
  /\ applied' = [applied EXCEPT ![handler[c].event] = @ + 1]
  /\ Goes(c, "updated")
  /\ UNCHANGED <<processed, queue, requested, sent, faults>>

ConfirmRefused(c) ==
  /\ Confirming(c, "loaded")
  /\ ~ ConfirmAllowed(handler[c].seen)
  /\ Goes(c, "refused")
  /\ UNCHANGED <<rows, processed, queue, requested, sent, applied, faults>>

(* A faulty handler that never records the event.                          *)
ForgetProcessed(c) ==
  /\ Confirming(c, "updated")
  /\ Goes(c, "done")
  /\ UNCHANGED <<rows, processed, queue, requested, sent, applied, faults>>

(* A faulty handler that records the booking in the place of the event.    *)
RecordBooking(c) ==
  /\ Confirming(c, "updated")
  /\ processed' = processed \cup {About[handler[c].event]}
  /\ Goes(c, "done")
  /\ UNCHANGED <<rows, queue, requested, sent, applied, faults>>

(* INSERT INTO processed_events ... ON CONFLICT DO NOTHING.                *)
RecordProcessed(c) ==
  /\ Confirming(c, "updated")
  /\ processed' = processed \cup {handler[c].event}
  /\ Goes(c, "done")
  /\ UNCHANGED <<rows, queue, requested, sent, applied, faults>>

(* MarkEventProcessed after ErrInvalidStatusTransition; its error is       *)
(* ignored and the event acknowledged all the same.                        *)
MarkEventProcessed(c) ==
  /\ Confirming(c, "refused")
  /\ processed' \in {processed, processed \cup {handler[c].event}}
  /\ Goes(c, "done")
  /\ UNCHANGED <<rows, queue, requested, sent, applied, faults>>

(* A faulty consumer that puts a denial it cannot apply back in the queue.  *)
DeniedRequeued(c) ==
  /\ handler[c].at = "received"
  /\ Kind[handler[c].event] = "denied"
  /\ IF CancelAllowed(rows[Target(c)], TRUE)
     THEN /\ rows' = [rows EXCEPT ![Target(c)] = Cancelled]
          /\ applied' = [applied EXCEPT ![handler[c].event] = @ + 1]
          /\ Goes(c, "done")
          /\ UNCHANGED queue
     ELSE /\ Returns(c)
          /\ queue' = [queue EXCEPT ![handler[c].event] = @ + 1]
          /\ UNCHANGED <<rows, applied>>
  /\ UNCHANGED <<processed, requested, sent, faults>>

(* BookingDeniedHandler.Handle: the transaction of Cancel, or any error of *)
(* it, an invalid transition included, and a Nack.                         *)
Denied(c) ==
  /\ handler[c].at = "received"
  /\ Kind[handler[c].event] = "denied"
  /\ IF CancelAllowed(rows[Target(c)], TRUE)
     THEN /\ rows' = [rows EXCEPT ![Target(c)] = Cancelled]
          /\ applied' = [applied EXCEPT ![handler[c].event] = @ + 1]
          /\ Goes(c, "done")
     ELSE /\ Returns(c)
          /\ UNCHANGED <<rows, applied>>
  /\ UNCHANGED <<processed, queue, requested, sent, faults>>

-----------------------------------------------------------------------------
Handle(c) ==
  \/ CheckProcessed(c) \/ CheckAgain(c) \/ GetByID(c)
  \/ ConfirmUpdate(c) \/ ConfirmRefused(c)
  \/ RecordProcessed(c) \/ MarkEventProcessed(c)
  \/ Denied(c) \/ Ack(c)

Next ==
  \/ \E b \in Bookings : Create(b) \/ Cancel(b)
  \/ \E b \in Bookings : RequestCancellation(b) \/ RequestCancellationUpdate(b)
  \/ \E e \in Events : Send(e)
  \/ \E c \in Consumers, e \in Events : Deliver(c, e)
  \/ \E c \in Consumers : Handle(c) \/ DbError(c) \/ Crash(c)

Spec == Init /\ [][Next]_vars

(* The broker delivers what waits in a queue that is served, and a handler *)
(* that can run does run: those of the consumers and those of HTTP.        *)
FairSpec ==
  /\ Spec
  /\ \A b \in Bookings : WF_vars(RequestCancellationUpdate(b))
  /\ \A c \in Consumers :
       /\ WF_vars(Handle(c))
       /\ WF_vars(\E e \in Events : Deliver(c, e))

-----------------------------------------------------------------------------
(* Every variable has its type.                                            *)
TypeOK ==
  /\ rows \in [Bookings -> BookingStatus \cup {Absent}]
  /\ processed \subseteq Events
  /\ queue \in [Events -> Nat]
  /\ handler \in [Consumers -> HandlerState]
  /\ requested \in [Bookings -> BookingStatus \cup {None}]
  /\ sent \in [Events -> 0 .. MaxCopies]
  /\ applied \in [Events -> Nat]
  /\ faults \in 0 .. MaxFaults

(* An event recorded as processed has had its effect: the booking no       *)
(* longer waits for Catalog, although the row and the record are written   *)
(* by two statements and a crash may fall between them.                    *)
ProcessedTookEffect ==
  \A e \in processed : rows[About[e]] # AwaitsConfirmation

(* An event writes its row once for every loop that may handle it at the   *)
(* same time, and once more for every crash or database error between the  *)
(* row and the record: with one instance and no fault, once, however often *)
(* Catalog sends it and whatever users do in between.                      *)
AppliedOnce ==
  \A e \in Events :
    applied[e] <= Cardinality({c \in Consumers : Serves[c] = Kind[e]}) + faults

(* What the broker delivers is answered: every delivery is acknowledged or *)
(* dropped in the end, and the queue of every event empties for good.      *)
QueuesDrain == \A e \in Events : <>[](queue[e] = 0)

(* Once Catalog has answered, the booking stops waiting: the service       *)
(* "is subscribed to these events and updates the status of the booking    *)
(* accordingly".                                                           *)
AnswerArrives ==
  \A e \in Events : sent[e] > 0 ~> rows[About[e]] # AwaitsConfirmation
=============================================================================
