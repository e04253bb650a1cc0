---------------------------- MODULE BookingsService ----------------------------
(***************************************************************************)
(* The command side of the service (app/service/bookings_service.go) over  *)
(* PostgreSQL (storage/postgres) and the AMQP publisher: calls that run    *)
(* concurrently, each a sequence of database statements and publishes.     *)
(*                                                                         *)
(* The source holds two generations of Confirm and Cancel.  The older one  *)
(* reads the row with GetByID, decides on the copy and writes the status   *)
(* back with Update: no lock, no transaction.  The newer one does the same *)
(* inside UpdateWithOutbox: a transaction that takes the row lock with     *)
(* SELECT ... FOR UPDATE and inserts the outbox message before it commits. *)
(* RequestCancellation exists in the older style only.  The constant Ops   *)
(* says which of them a deployment runs.                                   *)
(*                                                                         *)
(* A call is a request served by a goroutine: an HTTP handler, an event    *)
(* handler or a worker.  A call slot that returned is used again.  Calls   *)
(* that end without writing (validation errors, an unknown id) change      *)
(* nothing and are not shown.                                              *)
(***************************************************************************)
EXTENDS Booking, Naturals, Sequences, FiniteSets

CONSTANTS
  Bookings,     \* the ids the BIGSERIAL column may assign
  Calls,        \* call slots: how many requests run at the same time
  Ops,          \* the operations this deployment runs, besides Create
  StartDay,     \* StartDay[b]: the day of startDate of booking b
  LastDay,      \* bound: the clock stops at this day
  MaxOutbox     \* bound: no transaction beyond this many outbox messages

LockedOps  == {"Confirm", "Cancel"}
PlainOps   == {"ConfirmPlain", "CancelPlain", "RequestCancellation"}
ConfirmOps == {"Confirm", "ConfirmPlain"}
CancelOps  == {"Cancel", "CancelPlain"}

ASSUME ServiceAssumption ==
  /\ Ops \subseteq LockedOps \cup PlainOps
  /\ StartDay \in [Bookings -> Nat]
  /\ LastDay \in Nat
  /\ None \notin Bookings \cup Calls

VARIABLES
  rows,         \* table bookings: the committed status of each id
  lock,         \* row locks: the call whose transaction holds it, or None
  outbox,       \* table outbox_messages in id order: BookingStatusChangedEvent
  published,    \* what the AMQP client accepted
  calls,        \* what each call is doing
  today         \* time.Now(), in days

vars == <<rows, lock, outbox, published, calls, today>>

-----------------------------------------------------------------------------
Idle == [at |-> "idle", op |-> None, booking |-> None,
         seen |-> None, on |-> 0, sent |-> 0]

(* seen is the status of the copy read, on the day of the decision, sent   *)
(* the number of publishes already tried.                                  *)
Loaded == [at : {"loaded", "decided"}, op : Ops, booking : Bookings,
           seen : BookingStatus, on : 0 .. LastDay, sent : {0}]

Publishing == [at : {"stored"}, op : Ops \cup {"Create"}, booking : Bookings,
               seen : BookingStatus \cup {None}, on : 0 .. LastDay, sent : {0, 1}]

CallState == {Idle} \cup Loaded \cup Publishing

Command == [kind : {"create_job", "cancel_job", "status_changed"}, booking : Bookings]

Event == [booking : Bookings, from : BookingStatus, to : BookingStatus,
          timestamp : 0 .. LastDay]

Init ==
  /\ rows = [b \in Bookings |-> Absent]
  /\ lock = [b \in Bookings |-> None]
  /\ outbox = << >>
  /\ published = {}
  /\ calls = [c \in Calls |-> Idle]
  /\ today = 0

-----------------------------------------------------------------------------
(* What the domain method of an operation accepts, the status it sets and  *)
(* the commands that follow the write, in order.                           *)

Allowed(op, status, startsLater) ==
  \/ op \in ConfirmOps /\ ConfirmAllowed(status)
  \/ op \in CancelOps /\ CancelAllowed(status, startsLater)
  \/ op = "RequestCancellation" /\ StartCancellationAllowed(status, startsLater)

Target(op) ==
  IF op \in ConfirmOps THEN Confirmed
  ELSE IF op \in CancelOps THEN Cancelled
  ELSE CancellationPending

Commands(op) ==
  IF op = "Create" THEN <<"create_job">>
  ELSE IF op \in CancelOps THEN <<"cancel_job">>
  ELSE IF op = "RequestCancellation" THEN <<"status_changed", "cancel_job">>
  ELSE << >>

CommandCount(op) == Len(Commands(op))

StartsLater(b) == today < StartDay[b]

(* Call c has written its row: it goes on to publish, or returns.          *)
Stored(c) ==
  calls' = [calls EXCEPT ![c] =
              IF CommandCount(@.op) = 0 THEN Idle ELSE [@ EXCEPT !.at = "stored"]]

(* The row locks after call c ends its transaction, if it has one.         *)
Unlock(c) == [b \in Bookings |-> IF lock[b] = c THEN None ELSE lock[b]]

-----------------------------------------------------------------------------
(* Create: NewBooking was valid; the INSERT commits on its own.            *)
Insert(c, b) ==
  /\ calls[c] = Idle
  /\ rows[b] = Absent
  /\ rows' = [rows EXCEPT ![b] = AwaitsConfirmation]
  /\ calls' = [calls EXCEPT ![c] = [Idle EXCEPT !.at = "stored", !.op = "Create",
                                                !.booking = b]]
  /\ UNCHANGED <<lock, outbox, published, today>>

(* The bound on the outbox: every open transaction may still add a message. *)
OutboxHasRoom ==
  Len(outbox) + Cardinality({b \in Bookings : lock[b] # None}) < MaxOutbox

(* Two faulty reads: one takes no lock, the other invents a row for an      *)
(* unknown id.                                                             *)
LoadUnlocked(c, op, b) ==
  /\ op \in Ops
  /\ calls[c] = Idle
  /\ rows[b] # Absent
  /\ op \in LockedOps => OutboxHasRoom
  /\ calls' = [calls EXCEPT ![c] = [Idle EXCEPT !.at = "loaded", !.op = op,
                                                !.booking = b, !.seen = rows[b]]]
  /\ UNCHANGED <<rows, lock, outbox, published, today>>

LoadMissing(c, op, b) ==
  /\ op \in Ops
  /\ calls[c] = Idle
  /\ op \in LockedOps => lock[b] = None /\ OutboxHasRoom
  /\ lock' = IF op \in LockedOps THEN [lock EXCEPT ![b] = c] ELSE lock
  /\ calls' = [calls EXCEPT ![c] = [Idle EXCEPT !.at = "loaded", !.op = op,
                                                !.booking = b, !.seen = rows[b]]]
  /\ UNCHANGED <<rows, outbox, published, today>>

(* The read.  SELECT ... FOR UPDATE waits for the row lock and takes it;   *)
(* GetByID reads the committed row past any lock.  An unknown id ends the  *)
(* call with an error.                                                     *)
Load(c, op, b) ==
  /\ op \in Ops
  /\ calls[c] = Idle
  /\ rows[b] # Absent
  /\ op \in LockedOps => lock[b] = None /\ OutboxHasRoom
  /\ lock' = IF op \in LockedOps THEN [lock EXCEPT ![b] = c] ELSE lock
  /\ calls' = [calls EXCEPT ![c] = [Idle EXCEPT !.at = "loaded", !.op = op,
                                                !.booking = b, !.seen = rows[b]]]
  /\ UNCHANGED <<rows, outbox, published, today>>

(* The domain method accepts the copy; time.Now() is read here, once for   *)
(* the guard and once for the event of the outbox, on the same day.        *)
Decide(c) ==
  /\ calls[c].at = "loaded"
  /\ Allowed(calls[c].op, calls[c].seen, StartsLater(calls[c].booking))
  /\ calls' = [calls EXCEPT ![c] = [@ EXCEPT !.at = "decided", !.on = today]]
  /\ UNCHANGED <<rows, lock, outbox, published, today>>

(* A faulty refusal that leaves the transaction open.                      *)
RejectWithoutRollback(c) ==
  /\ calls[c].at = "loaded"
  /\ ~ Allowed(calls[c].op, calls[c].seen, StartsLater(calls[c].booking))
  /\ calls' = [calls EXCEPT ![c] = Idle]
  /\ UNCHANGED <<rows, lock, outbox, published, today>>

(* The domain method refuses: the error goes to the caller and the         *)
(* deferred Rollback ends the transaction.                                 *)
Reject(c) ==
  /\ calls[c].at = "loaded"
  /\ ~ Allowed(calls[c].op, calls[c].seen, StartsLater(calls[c].booking))
  /\ lock' = Unlock(c)
  /\ calls' = [calls EXCEPT ![c] = Idle]
  /\ UNCHANGED <<rows, outbox, published, today>>

EventOf(c) == [booking   |-> calls[c].booking,
               from      |-> calls[c].seen,
               to        |-> Target(calls[c].op),
               timestamp |-> calls[c].on]

(* A faulty transaction that forgets the outbox message.                   *)
CommitWithoutMessage(c) ==
  /\ calls[c].at = "decided"
  /\ calls[c].op \in LockedOps
  /\ rows' = [rows EXCEPT ![calls[c].booking] = Target(calls[c].op)]
  /\ lock' = Unlock(c)
  /\ Stored(c)
  /\ UNCHANGED <<outbox, published, today>>

(* UPDATE bookings, INSERT INTO outbox_messages, COMMIT.  The row is       *)
(* locked, so nothing that happens between the three can be told apart.    *)
Commit(c) ==
  /\ calls[c].at = "decided"
  /\ calls[c].op \in LockedOps
  /\ rows' = [rows EXCEPT ![calls[c].booking] = Target(calls[c].op)]
  /\ outbox' = Append(outbox, EventOf(c))
  /\ lock' = Unlock(c)
  /\ Stored(c)
  /\ UNCHANGED <<published, today>>

(* UPDATE bookings SET status of the older generation: waits for the row   *)
(* lock, then overwrites whatever status is there.                         *)
Update(c) ==
  /\ calls[c].at = "decided"
  /\ calls[c].op \in PlainOps
  /\ lock[calls[c].booking] = None
  /\ rows' = [rows EXCEPT ![calls[c].booking] = Target(calls[c].op)]
  /\ Stored(c)
  /\ UNCHANGED <<lock, outbox, published, today>>

(* The call goes on to its next publish, or returns.                       *)
Published(c) ==
  calls' = [calls EXCEPT ![c] =
              IF @.sent + 1 = CommandCount(@.op) THEN Idle ELSE [@ EXCEPT !.sent = 1]]

Publish(c) ==
  /\ calls[c].at = "stored"
  /\ published' = published \cup
       {[kind    |-> Commands(calls[c].op)[calls[c].sent + 1],
         booking |-> calls[c].booking]}
  /\ Published(c)
  /\ UNCHANGED <<rows, lock, outbox, today>>

(* A publish error is logged and the call carries on.                      *)
PublishFails(c) ==
  /\ calls[c].at = "stored"
  /\ Published(c)
  /\ UNCHANGED <<rows, lock, outbox, published, today>>

(* A database error, a cancelled context or a crash of the process ends    *)
(* the call where it stands: the transaction is rolled back, the publishes *)
(* that are left never happen.                                             *)
Abort(c) ==
  /\ calls[c] # Idle
  /\ lock' = Unlock(c)
  /\ calls' = [calls EXCEPT ![c] = Idle]
  /\ UNCHANGED <<rows, outbox, published, today>>

Tick ==
  /\ today < LastDay
  /\ today' = today + 1
  /\ UNCHANGED <<rows, lock, outbox, published, calls>>

-----------------------------------------------------------------------------
Next ==
  \/ \E c \in Calls, b \in Bookings : Insert(c, b)
  \/ \E c \in Calls, op \in Ops, b \in Bookings : Load(c, op, b)
  \/ \E c \in Calls : Decide(c) \/ Reject(c) \/ Commit(c) \/ Update(c)
  \/ \E c \in Calls : Publish(c) \/ PublishFails(c) \/ Abort(c)
  \/ Tick

Spec == Init /\ [][Next]_vars

(* A goroutine that can run does run.  PostgreSQL queues the waiters of a  *)
(* row lock, so an UPDATE that finds the row free again and again gets     *)
(* through: strong fairness.  Starting a call, aborting one and the clock  *)
(* are the environment's.                                                  *)
Fairness ==
  \A c \in Calls :
    /\ WF_vars(Decide(c) \/ Reject(c) \/ Commit(c) \/ Publish(c) \/ PublishFails(c))
    /\ SF_vars(Update(c))

FairSpec == Spec /\ Fairness

-----------------------------------------------------------------------------
(* Every variable has its type, and a call that still publishes has a      *)
(* command left to publish (the end of Create, Cancel and                  *)
(* RequestCancellation).                                                   *)
TypeOK ==
  /\ rows \in [Bookings -> BookingStatus \cup {Absent}]
  /\ lock \in [Bookings -> Calls \cup {None}]
  /\ outbox \in Seq(Event)
  /\ published \subseteq Command
  /\ calls \in [Calls -> CallState]
  /\ today \in 0 .. LastDay
  /\ \A c \in Calls :
       calls[c].at = "stored" => calls[c].sent < CommandCount(calls[c].op)

(* In every deployment, the copy that UpdateWithOutbox hands to the domain *)
(* method is the current row until the transaction ends: only the holder   *)
(* of the row lock may write, the older generation included.               *)
LockedReadIsCurrent ==
  \A c \in Calls :
    calls[c].at \in {"loaded", "decided"} /\ calls[c].op \in LockedOps =>
      /\ lock[calls[c].booking] = c
      /\ rows[calls[c].booking] = calls[c].seen

(* Message i of the outbox is the last one before j about the same booking. *)
Precedes(i, j) ==
  /\ i < j
  /\ outbox[i].booking = outbox[j].booking
  /\ \A k \in i + 1 .. j - 1 : outbox[k].booking # outbox[j].booking

LastOf(i) ==
  \A k \in i + 1 .. Len(outbox) : outbox[k].booking # outbox[i].booking

(* The status events of a booking, read in id order, are the history of    *)
(* its row: they start at awaits_confirmation, each continues where the    *)
(* one before it ended, and the last one ends at the present status.       *)
OutboxReplays ==
  /\ \A i, j \in DOMAIN outbox : Precedes(i, j) => outbox[i].to = outbox[j].from
  /\ \A i \in DOMAIN outbox :
       LastOf(i) => rows[outbox[i].booking] = outbox[i].to
  /\ \A b \in Bookings :
       \/ rows[b] \in {Absent, AwaitsConfirmation}
       \/ \E i \in DOMAIN outbox :
            outbox[i].booking = b /\ outbox[i].from = AwaitsConfirmation

(* Catalog is told to cancel a job only for a booking that is cancelled    *)
(* and stays so: Cancel publishes after its commit.                        *)
CancelCommandIsHonoured ==
  \A b \in Bookings :
    [kind |-> "cancel_job", booking |-> b] \in published => rows[b] = Cancelled

(* A booking whose confirmation was decided on or after its first day can  *)
(* no longer be cancelled by anybody, a call that read it earlier          *)
(* included (Booking.Cancel, StartDate > today).                           *)
LateConfirmationStands ==
  \A i \in DOMAIN outbox :
    /\ outbox[i].to = Confirmed
    /\ outbox[i].timestamp >= StartDay[outbox[i].booking]
    => rows[outbox[i].booking] = Confirmed

(* No step takes a booking out of cancelled: the status diagram of the     *)
(* README has no arrow out of it.                                          *)
CancelledIsFinal ==
  [][\A b \in Bookings : rows[b] = Cancelled => rows'[b] = Cancelled]_vars

(* Every status event that reaches the outbox is the very transition its   *)
(* transaction makes, whatever unlocked writers do around it.              *)
OutboxMessageIsTheTransition ==
  [][\A i \in DOMAIN outbox' \ DOMAIN outbox :
       /\ outbox'[i].from = rows[outbox'[i].booking]
       /\ outbox'[i].to = rows'[outbox'[i].booking]]_vars

(* The statuses of all bookings move as the documented life cycle allows,  *)
(* one transition at a time.                                               *)
Lifecycle == INSTANCE BookingLifecycle WITH status <- rows

ImplementsLifecycle == Lifecycle!Spec

(* Every call that read its row returns: no UPDATE waits for a row lock    *)
(* for ever, because every transaction gives its lock back.                *)
EveryCallReturns == \A c \in Calls : calls[c] # Idle ~> calls[c] = Idle
=============================================================================
