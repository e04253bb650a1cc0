# Verification of the booking service

TLA+ models of the hotel booking service in this repository, TLC runs that check
them on small instances, and TLAPS proofs of the properties that matter most.

The source holds two generations of code side by side (two bodies of `Confirm`,
`Cancel` and both event handlers), and the snapshot does not compile. The models
take each generation as it is written and say which one they mean. Where a
function that is called does not exist, this file says what was put in its place.

## 1. The system

| component | state it keeps | operations | talks to |
|---|---|---|---|
| Booking aggregate, `app/models/booking.go` | status, previousStatus, cancelCommandSentAt of one object | NewBooking, Confirm, Cancel, StartCancellation, CompleteCancellation, RollbackCancellation | - |
| Command service, `app/service/bookings_service.go` | none of its own; a goroutine per call | Create, Confirm and Cancel (two generations), RequestCancellation | repository, publisher |
| Storage, `storage/postgres` | tables bookings, outbox_messages, processed_events, booking_history | Create, GetByID, Update, UpdateWithOutbox, ConfirmWithIdempotency, the outbox statements, queries | PostgreSQL |
| Outbox worker, `app/worker/outbox_worker.go` | a batch | fetch, publish, mark | storage, AMQP |
| Connection, `app/messaging/connection.go` | one AMQP channel, shared by the publisher and every consumer | dial, prefetch, declare, close | RabbitMQ |
| Publisher, `app/messaging/publisher.go` | - | create job, cancel job, status changed | the shared channel |
| Consumer and handlers, `app/messaging` | a consume loop per queue | BookingJobConfirmed, BookingJobDenied | RabbitMQ, service, storage |
| Confirmation worker, `app/worker/confirmation_worker.go` | a batch, an answer | poll Catalog, Confirm or Cancel | storage, Catalog client, service |
| Cancellation worker, `app/worker/cancellation_worker.go` | a batch | repeat the cancel command | storage, publisher |
| Catalog and notification clients, `app/clients` | - | HTTP with retries | Catalog, notifications |
| HTTP API and queries, `app/api`, `app/service/bookings_queries.go` | a statistics cache that nothing fills | create, cancel, lookups, lists in pages, statistics | service, storage |
| Start-up, `cmd/booking-service/main.go`, configuration, migrator | - | connect, start the consumer and the server, stop on a signal | all of the above |

A user creates a booking over HTTP. The service inserts the row and publishes a
command; Catalog answers with an event, which the consumer turns into Confirm or
Cancel. Cancellation publishes a command after its commit. The newer generation
writes a status event into the outbox in the transaction that changes the row,
and the outbox worker publishes it later. Two more workers poll: one asks Catalog
about bookings that still wait, one repeats cancel commands.

What is hard here: calls on the same row run concurrently, with and without the
row lock; a process may die, or a statement or a publish fail, between any two
steps; messages are delivered again or dropped; workers act on lists that nobody
holds; the start date is compared on one day and the row written on another; lists
and statistics are put together from queries that see different tables; one AMQP
channel carries everything, and whoever misuses it closes it for all.
The hazards are listed, each at its line, under `hazards` in PROJECT.json.

For each component, what makes it correct:

- aggregate: a rollback knows its target, the start date rule, the life cycle;
- service: no lost update, one status event per transition and in its order, no
  cancel command for a booking that lives, every call returns;
- outbox: at least once, no duplicate without a fault, nothing stranded, final outcomes;
- consumer: an event has its effect before it counts as processed, a queue drains;
- workers: lists out of date do no harm, and what is due is reached;
- connection and start-up: no answer of Catalog gets lost between the broker and a
  handler, the prefetch window opens again, the channel outlives what the service publishes
  to its own exchange;
- HTTP API and queries: no booking falls between two pages, totals and statistics add
  up, a later answer does not take back an earlier one.

## 2. The modules

| module | models | state | actions and code |
|---|---|---|---|
| `Booking` | the aggregate as operators | - | guards and effects of the six domain methods |
| `BookingLifecycle` | the abstract specification: which status may follow which | `status` | Create, Confirm, BeginCancellation, Cancel, Rollback |
| `BookingEntity` | one object, every method in any order, days that pass, and the trip through storage | `booking`, `today`, three history variables | one action per method; `Reload` is Update followed by a scan |
| `BookingsService` | concurrent calls over PostgreSQL and the publisher, statement by statement | `rows`, `lock`, `outbox`, `published`, `calls`, `today` | `Insert` (Create), `Load` (SELECT FOR UPDATE or GetByID), `Decide`/`Reject` (the domain method), `Commit` (UpdateWithOutbox), `Update`, `Publish`/`PublishFails`, `Abort` |
| `Outbox` | outbox_messages and its workers | `status`, `retryCount`, `batch`, `step`, `handed` | `Insert`, `Fetch`, `Publish`, `PublishError`, `MarkOutboxSent`, `MarkOutboxFailed`, `MarkError`, `Crash` |
| `EventConsumer` | queues, consume loops, both handlers, ConfirmWithIdempotency | `rows`, `processed`, `queue`, `handler`, `requested` | `Deliver`, one action per statement of the confirmed handler, `Denied`, `Ack`, `DbError` (Nack), `Crash` |
| `ConfirmationWorker` | polling Catalog | `rows`, `job`, `batch`, `answer` | `GetAwaitingConfirmation`, `Ask`, `AskTooEarly`, `Apply`, `ProcessError`, `Crash` |
| `CancellationWorker` | repeating cancel commands | `rows`, `byUpdate`, `overdue`, `batch`, `tried` | `GetCancellationPendingOlderThan`, `Publish`, `PublishError`, `Crash` |
| `ServiceInstance` | one process around its AMQP channel: start, consume loops, stop, crash, lost connection | `phase`, `todo`, `loop`, `hand`, `buffer`; `channel`, `exchanges`, `ready`, `unacked` (the broker); `row` (what Cancel makes of a booking); `command`, `sent`, `settled`, `failed`, `dropped`, `strayed` (history) | `Connect` (NewConnection), `StartConsumer`, `Subscribe`, `StartFails` (Consumer.Start), `Serve`, `Stop`, `Stopped` (main), `Take`, `LoopEnds`, `Handle`, `CancelRefuses`, `HandlerFails`, `Ack`, `Nack` (consume, processDelivery), `PublishCreateBookingJob`, `Cancel`, `RequestCancellation`, `PublishOutboxMessage` (what is published on the channel); `Deliver`, `ChannelClosed`, `ConnectionLost`, `Answer`, `OthersDeclare`, `Crash` (outside) |
| `BookingsApi` | what clients of the HTTP API see, one action per statement that reads or commits on its own | `rows`, `next`, `client`, `created`, `cancelled` (history) | `Insert`, `Cancel`, `GetByID`, `CountByFilter`, `GetByFilter`, `CountTotal`, `Breakdown`, `TopResources`, each between a `Begin...` and an `Answer...`; `Fail` (500), `Elsewhere` (workers, events) |

`MC*` modules give the constants their values for TLC. `XProofs` holds the theorems about
module `X`: there is one for every module of the table but `Booking` and
`BookingLifecycle`, which the others' theorems are about as well. Modules carry *faulty variants* of some
definitions, marked as such: they are what a plausible bug would make of the
definition that follows, and are used to see that each property can fail.

How the modules fit together: `Booking` is extended by every module that moves a
booking, so there is one text of the domain rules. `BookingEntity` and
`BookingsService` both implement `BookingLifecycle` (INSTANCE with a refinement
mapping). `EventConsumer`, the two polling workers and `BookingsApi` take a transaction of
`UpdateWithOutbox` as one step: `BookingsService` takes it apart, and
`LockedReadStaysCurrent` and `TransactionsImplementLifecycle` are what justifies
the single step. Both polling workers and `BookingsApi` are proved to implement
`BookingLifecycle` in turn. `ServiceInstance` takes a whole handler or request as one step,
which `EventConsumer` and `BookingsService` take apart; `EventConsumer` in turn assumes a channel that stays open
and a process that comes back, which are the subject of `ServiceInstance`.

### Choices that need a word

- **Which generation.** `BookingsService` has both; the constant `Ops` chooses.
  `EventConsumer` has the confirmed handler that uses `processed_events` and the
  denied handler that calls `BookingsService.Cancel`: the newer denied handler
  calls `CancelWithIdempotency`, which does not exist.
- **`booking.RequestCancellation`** does not exist; `StartCancellation` is modelled.
- **Any call may fail.** Some scans name columns the query does not return
  (`GetByID` scans nine, its query has seven), some
  queries name columns no migration creates (`date_from`, `updated_at`). Every
  statement of the models may fail (`Abort`, `DbError`, `ProcessError`), which
  covers one that always does; the properties are about what happens when they work.
- **`created_at` of an outbox message** is the start of its transaction, so messages
  appear in any order; `Outbox!Insert` takes them in any order.
- **Publishing.** There are no publisher confirms: a publish that returns nil means
  the client took the message. `published`, `handed` and `sent` mean exactly that.
- **The row locks of a fetch** end with its statement (`GetPendingOutboxMessages`,
  `GetAwaitingConfirmation`) or with the transaction it commits before it returns
  (`GetCancellationPendingOlderThan`). A list that a worker fetched is a plain copy. What another worker touches in the same
  instant may be skipped.
- **Days, not instants.** The only comparison is `startDate.After(today)`; a day is
  the unit in which its value changes.
- **updated_at** is set by the newer transactions only; `CancellationWorker` keeps
  the order of the updates and how many are older than the timeout. An update moves a
  booking to the end of that order (`ToTheEnd`); the query picks increasing positions in it.
- **Lines of a statistics answer** are functions from status or resource to a count, 0
  where the answer has no line. `Sum` of such a function is the number of pairs of a key and
  a number up to its count: a sum without a recursion.
- **A missing exchange.** `PublishWithContext` returns nil for an exchange the broker does
  not know, and the broker then closes the channel. `Publishes` of `ServiceInstance` is that
  call, for the commands (`publishToCatalog`), the status event of `RequestCancellation`
  (`PublishBookingStatusChanged`) and the messages of the outbox worker, whose channel can
  only be that of `Connection`. Each of the two kinds goes to the exchange `Consumer.Start`
  declares (`Exchange`) or to one of `OtherExchanges`, which somebody else declares some day
  or never; `Deployments` says which. By their defaults the three names of config.go:18 and
  72-73 differ.
- **What main.go starts.** It starts no outbox worker and no route leads to
  `RequestCancellation`, so the process as it stands publishes commands only. The model has
  all three publishers, from the moment the server listens. A worker that ran before
  `Consumer.Start` is not modelled; it would publish before any exchange is declared.
- **A denial that comes too late.** `Cancel` refuses a booking that is cancelled or pending: by
  a user, or by the same denial that was handled before its Ack got lost. The handler
  returns that error, and the loop answers it like any other, with Nack without requeue
  (`CancelRefuses`). The confirmed handler returns nil when `Confirm` refuses.
- **Nothing reconnects.** `Connection` has no listener for a closed channel: the model
  has no action that opens another one, other than a new process.
- **What a stop does.** main cancels the context, waits for the HTTP requests and
  returns; nobody waits for the consume loops. A handler in flight fails at its next
  statement. A handler that had finished them before the signal counts as done before it.
- **Clients of the API** are outside the repository. A walk asks for page 1, 2, ... and
  stops at a page that is not full, as the fields `page` and `size` suggest. The bookings of
  `BookingsApi` move by the transactional generation.
- **Constants standing for code.** `MaxRetries` is greater than zero as the default
  of the configuration is; zero would leave every message pending (see hazards).

## 3. The runs

| run | instance | what it shows |
|---|---|---|
| `entity` | start on day 2, five days | rollback targets, the start date rule, no forgotten confirmation, the life cycle, for every call sequence |
| `service_tx` | 2 bookings, 3 calls, transactional operations, days 0-2, 4 messages | the outbox replays the table; cancel commands are honoured; late confirmations stand; refinement of the life cycle (so nothing leaves cancelled) |
| `service_mixed` | 1 booking, 2 calls, transactional operations beside `CancelPlain` and `RequestCancellation`, 2 messages | the row a transaction read stays current; its message is its transition; every call returns |
| `service_lost_update` | 1 booking, 2 calls of the older generation | **violated**: Confirm overwrites a Cancel |
| `outbox_single` | 1 worker, 3 messages, batch 2, 2 retries, 2 faults | duplicates need faults, outcomes are final, every message settles |
| `outbox_pair` | 2 workers, 2 messages, 1 fault | what holds of shared rows: nothing sent unpublished, nothing stranded |
| `consumer_answers` | 1 booking, both answers possible, 3 loops (2 for confirmations), 3 copies, 1 fault | processed events took effect; an event is applied once per loop and once more per fault; queues drain |
| `consumer_drops` | 1 booking, 2 loops, 1 copy, 1 fault | **violated**: Catalog's answer arrives |
| `confirm_polling` | 2 workers, 3 bookings, batch of 2, Catalog may never decide about the oldest, 1 fault | nothing confirmed without Catalog, nothing cancelled comes back, what Catalog decided about a booking within reach of the batch reaches the table |
| `cancel_repeat` | 1 worker, 3 bookings, batch of 2, 1 crash | a hanging cancellation within reach of the batch is tried for ever; no cancel command for a booking that merely waits |
| `api_reads` | 3 bookings of 2 resources, 2 clients that write and 1 that reads, pages of 2, top 2 | page walks skip nothing and end where the total says, statistics add up, lookups agree with earlier answers |
| `instance_life` | 3 bookings, 2 queues (2 answers in one of them), users cancel the booking that is denied, prefetch 1, commands or status events to an exchange of others, 1 stop, 1 crash, lost connection or failed statement | answers survive until a verdict or an error, and an error that is no failure is that of a booking already cancelled or pending; the window is held; the exchange of its own never costs the channel; every answer is heard while the channel is open |

### What the code does and its texts do not say

Two runs state what a text of the repository says and TLC finds that the code
does otherwise (`findings` in PROJECT.json):

- `service_lost_update`: the status diagram has no arrow out of cancelled, but the
  older `Confirm` writes over a `Cancel` that commits after it read the row.
- `consumer_drops`: the service is said to update bookings from Catalog's events,
  but one failed statement while an event is handled drops it: Nack without
  requeue, no dead letter exchange, and no confirmation worker is started.

Further differences were seen on the way. They are plain from the source, or
variants of these two, and have no run of their own:

- `Create` says that a command whose publish failed "can be processed later"
  (bookings_service.go:81); nothing publishes it again.
- README.md:65 lets a booking be cancelled from any status; `Booking.Cancel`
  refuses cancellation_pending. A denial of Catalog for such a booking is dropped, as is
  one for a booking that is cancelled (`CancelRefuses` of `ServiceInstance`).
- `ConfirmWithIdempotency` has no transaction and no row lock: it writes confirmed
  over a cancellation that commits between its read and its write.
- `GetAwaitingConfirmation` and `GetCancellationPendingOlderThan` promise a
  pessimistic lock, which ends with the query or its transaction, before the list is
  worked on: two workers hold the same bookings. `ConfirmedByCatalog` and `CancelledIsFinal` show that the
  transactions of the service make up for it.
- With more waiting bookings than a batch holds, the confirmation worker asks about the
  same oldest ones on every tick: `DecidedIsSettled` speaks of those within reach of the
  batch only. The same holds of the cancellation worker and
  `StuckCancellationIsRepeated`.
- The cancellation worker publishes from a list, so a booking confirmed since the
  fetch gets a cancel command although it stays confirmed.
- With `RABBITMQ_PUBLISHER_EXCHANGE` naming an exchange that nobody has declared yet, the
  first command closes the channel, the service stops hearing Catalog, and `/health`
  still says it is well. The exchange of the status events is declared by nothing in the
  repository: the first one that `RequestCancellation` or an outbox worker published would do
  the same. `OwnExchangeKeepsChannel` shows that the exchange Start declares is safe, and
  that the channel lives as long as nothing is published elsewhere.
- A graceful stop (main.go:127-142) may drop an answer that a handler holds: its
  statement fails and the error is a Nack without requeue. `AnswersSurvive` shows that
  a stop, a failed statement and the refusal of `Cancel` are the only ways to lose one, and
  that the last leaves no booking waiting.
- A list filtered by a status that bookings leave shifts under a client that walks
  through it, and some are never shown; a client that stops when `page * size` reaches
  `totalCount`, not at a short page, may miss what came in since.
- An unknown id in the transactional `Cancel` is a 500, since `UpdateWithOutbox` returns
  pgx.ErrNoRows unmapped; so are a date that does not parse in `Create` and a status
  that is not valid in a filter.
- The history route is nested twice (router.go:31), `GetHistory` panics, and the
  statistics cache is flushed but never read or written.

### Bounds

- *Actors.* Two calls are enough for a read and a write to interleave, and for one to
  wait for the other's lock; the third lets a call come between the two. Two workers
  share a batch; a third adds nothing to a pair of conflicting marks.
- *Bookings.* Calls interfere through one row only; a second booking lets messages of
  two bookings interleave, and gives a batch an older and a younger one.
- *Days.* One before, on and after the start date.
- *MaxOutbox* stops new transactions, in `Load` (`OutboxHasRoom`), never one that is
  open: no call hangs because of the bound. Two messages are a confirmation and a
  cancellation; four are those of two bookings.
- *MaxRetries = 2* has a first failure that retries and a last that gives up.
- *MaxFaults, MaxCopies* bound crashes, failed statements and copies Catalog sends:
  two faults hit the same message twice.
- *MaxCopies = 3* is one copy more than the two loops that may handle an event at the
  same time, so that `AppliedOnce` can tell a handler that forgets from two that race.
- *Decidable* leaves the oldest booking undecided, so that the two others compete for the
  one place left in a batch of two.
- *InPeriod* leaves booking 1 out of the statistics. *TopLimit* is 5 in the query; 2 resources against a limit of 2 make both cases of
  `StatisticsAddUp` happen, a list that was cut off or may have been, and one that was not.
- *Size = 2* over three bookings gives walks of two pages, and a full last page while only
  two are there. The ids of two overlapping inserts appear in either order.
- *Prefetch = 1* with two answers for one queue lets one delivery block the other; the
  default of the configuration only moves the point where it happens.
- *MaxStops*, *MaxFaults* of `instance_life`: a stop beside a crash, a lost connection or a
  failed statement, in any order, give up to three lives of the process. A stop makes
  statements fail as well, so a failure and a new life are seen together.
- *Deployments* of `instance_life`: commands to the exchange of its own and status events
  elsewhere, or the other way round. The first, before anything is published elsewhere, is
  also the deployment where both go to one's own.
- *Regretted* of `instance_life` is the booking that Catalog denies: only a denial looks
  whether a booking was cancelled.
- `CHECK_DEADLOCK FALSE` stands only where the instance ends by itself: every message
  is settled, every booking is cancelled for good, the outbox is full and nobody calls
  any more, every id is given out, or a process serves on a channel that is gone. That nobody waits for a lock is `EveryCallReturns`.

Symmetry is used for safety runs only, over sets whose members are interchangeable;
bookings and messages that are ordered by `created_at` are numbers and have none.

### Fairness

Weak fairness of a worker (`Work`) is the ticker of its `Run` loop: it fires for ever,
and a batch is worked through. Weak fairness of a handler or a call is a goroutine
that can run. Publishing may always fail: where fairness is stated over
`Publish \/ PublishError`, either may be the one that happens. `Update` has strong
fairness, because PostgreSQL queues the waiters of a row lock. Crashes and database
errors have none and are bounded, or, in `BookingsService`, may happen at any time.
The clock of `CancellationWorker` is fair: time passes. In `ServiceInstance` the broker
delivers what the window allows (`Deliver`) and a consume loop that can go on does
(`Loop`); starting, stopping and publishing are not fair, which is why
`HeardWhileConnected` has the hypothesis that the process comes to serve on an open
channel for good. Starting a call, Catalog's decision and the users are never fair.

## 4. The proofs

`BookingEntityProofs`, for any start date and any number of days:

- `TypeCorrect`; lemma `MethodsKeepTheFields` says what each domain method returns.
- `RollbacksKnowTheirTarget`: `RollbackKnowsItsTarget` is inductive with `HistoryFollows` (while
  the booking waits or is confirmed, the history variable is its status), which is what
  the method that starts a cancellation saves as the target.
- `ConfirmationsAreKept` (an action property) from the same invariant.
- `LateCancellationsAreImpossible`: needs `AcceptedInTime`, the same statement while the
  cancellation is still *pending*: it is accepted on one day and completed on another.
- `EntityImplementsLifecycle`: every method is a step of `BookingLifecycle` or none.

`BookingsServiceProofs`, from `ServiceAssumption` only (any sets of bookings and calls,
any start dates):

- `TypeCorrect`: `TypeOK` is inductive.
- `LockedReadStaysCurrent`: `LockedReadIsCurrent`, in **every** deployment. It is
  inductive together with the types: a transaction that read a row holds its lock, the
  lock of a row has one holder, and both writers (`Commit` and `Update`) need it.
- `TransactionsImplementLifecycle`: if `Ops \subseteq LockedOps`, the specification
  implements `BookingLifecycle`. A step that writes is a `Commit`; the row it writes is the
  one it read (previous theorem), and what it read was accepted by the domain method
  (lemma `DecisionsAreAllowed`), so the step is one of the abstract ones.
- `TransactionsNeverRevive`, `TransactionsHonourCancelCommands`: with the same
  hypothesis, by the refinement: no abstract step leaves cancelled, and a call that publishes
  a cancel command has written cancelled before. The second needs the strengthening
  that the row of *every call that still has to publish* a cancel command is cancelled.
  `service_lost_update` shows that the hypothesis is needed.
- `MessagesAreTransitions` (`OutboxMessageIsTheTransition`), in **every** deployment: the outbox
  grows by `Commit` alone (`OutboxGrowsByCommit`), and the row is still the one it read.
- `TransactionsReplay` (`OutboxReplays`), with the hypothesis on `Ops`: inductive with
  `LockedReadIsCurrent`, since the last message about a booking ends at its row and the next
  one starts there (`CommitAppends`). Unlocked writers leave no message, hence the hypothesis.
- `TransactionsRespectLateConfirmations` (`LateConfirmationStands`), same hypothesis: a call
  may look at the clock before midnight and commit after it. `DecisionIsOfItsDay` says that a
  decision is younger than every message about its booking, as the lock was held since
  the read; `MessagesArePast` that no message is dated in the future.

`OutboxProofs`, for any number of workers, messages and faults:

- `TypeCorrect`; `NothingIsMarkedSentUnsent` (strengthened by: a worker whose publish
  was accepted has handed over the first message of its batch); `NothingIsStranded`
  (the fetch filter and the CASE of `MarkOutboxFailed` agree);
- `OneWorkerOutcomesAreFinal`, for one worker: what it holds is still pending, so no
  Mark meets a settled row. `outbox_pair` does not list this property: with two it fails.
- `OneWorkerDuplicatesNeedFaults`, for one worker: `DuplicatesNeedFaults` already ties the
  count to where the worker stands (`Settled`); `DuplicatesInv` adds that a batch is
  pending and that a worker without one stands at its start.

`ConfirmationWorkerProofs`, for any number of workers and bookings, any batch size and any
number of faults:

- `TypeCorrect`; what the service, an event and a user do to a row share the lemma
  `ServiceKeepsTypes`.
- `OnlyCatalogConfirms`: `ConfirmedByCatalog` is inductive together with `AnswersAreTrue`: an
  answer a worker holds is still Catalog's, since Catalog decides once.
- `StaleListsNeverRevive`: `Confirm` looks at the row itself and not at the list.
- `WorkersImplementLifecycle`: workers, events and users together implement
  `BookingLifecycle`.

`EventConsumerProofs`, for any finite set of consumers, any bookings, copies and faults:

- `TypeCorrect`; lemmas on what each statement of a handler does to its loop (`HandlerShape`,
  `GoesOn`, `OneLoopMoves`, `WhereItGoes`).
- `ProcessedEventsTookEffect`: inductive with `EffectIsKnown` (what a loop saw of the row is
  still enough when it records the event: a booking that left awaits_confirmation never
  returns to it), although the row and the record are written without a transaction.
- `EventsAreAppliedOnce`: inductive is only the count that also knows where the loops stand.
  Before the record, every write belongs to a loop that is about to record it or to a
  fault; after it, writes and loops that looked before it are no more than all loops and
  the faults (`ConfirmationsAreCounted`). Denials have no record: `DenialsAreFinal` says that
  nothing takes the booking back to where a second denial could cancel it, which needs
  `OneAnswer`, Catalog's promise not to send both answers.

`CancellationWorkerProofs`, for any finite set of bookings, any workers, batch size and faults:

- `TypeCorrect`: an update leaves every row in the order of updated_at exactly once
  (`TouchKeepsTheOrder`).
- `WaitingBookingsAreLeftAlone`: inductive with `FetchedIsPastWaiting`: whatever happened to a
  fetched booking since, it does not wait for Catalog again (`WritesLeadOn`).
- `WorkersImplementLifecycle`: the calls move bookings as the life cycle says, the worker none.

`BookingsApiProofs`, for any number of clients, bookings and resources, any page size and
any limit:

- `TypeCorrect`: counts are numbers only if the table is finite, hence the types are
  inductive with `IdsAreDrawn` (what is in the table or in flight has an id below the
  sequence, and no two inserts share one).
- `AnswersAreKept` (`AnswersHold`): rows never vanish and never leave cancelled
  (`RowsOnlyGrow`); `AnswersAreTrue` carries this from the statement to the answer and from the
  answer to later lookups.
- `WalksSkipNothing`, `TotalsEndTheWalk`: sorting a finite list numbers its elements from 0
  without gaps (`RanksAreAll`), so a page holds what its offset says (`PageCount`). A list that
  only grows moves an element back, never forward (`RankGrows`), so the next page starts at or
  before every booking not seen yet (`CanComplete`), and the page after a full one as well.
- `ReportsAddUp` (`StatisticsAddUp`): counting in groups (`Grouping`) makes the breakdown the
  number of bookings counted then, and so the list of resources if it was not cut
  (`ShortListsAreComplete`: the first resource left out would have a whole limit of others
  before it). `ReportsFit` relates each query to the next, which counts no fewer.
- `RequestsImplementLifecycle`: inserts meet no row, cancellations are allowed transitions.


`ServiceInstanceProofs`, from `InstanceAssumption` (any queues and bookings, any prefetch,
any deployment, any number of stops, crashes, lost connections and cancellations):

- `TypeCorrect`: the types, with `LoopsHoldAnswers` (a queue without a subscription has no
  loop, and what the process holds is an answer Catalog sent).
- `WindowsAreHeld`: what the broker has outstanding is in the buffer of the client or with a
  handler, on an open channel; inductive with the types. That the broker sends no more than
  the window allows is the guard of `Deliver`, an assumption about RabbitMQ.
- `AnswersDoSurvive`: inductive with `AnswersAreFounded` (a loop acknowledges what its handler
  settled, and refuses what lost a statement or denies a booking that does not live). The
  latter stays so because a loop holds answers of its own queue: `Confirm` may take a pending
  booking back, but not one that is denied.
- `OwnExchangeIsSafe`: from Start on the exchange exists and no loop works before that
  (`DeclaredBeforeUse`), so no publish to it dooms the channel, and one that did went elsewhere
  (`strayed`).

Every safety property that a passing run checks is a theorem. The refinements of both
polling workers and of `BookingsApi` are theorems only: TLC agreed on the instances of `confirm_polling`,
`cancel_repeat` and `api_reads`. `EventConsumer` has none: its confirmations are written without
a row lock and do take bookings out of cancelled.

Only model-checked: everything under fairness (`EveryCallReturns`, `EveryMessageSettles`,
`QueuesDrain`, `DecidedIsSettled`, `StuckCancellationIsRepeated`, `HeardWhileConnected`), since liveness and
ENABLED are out of TLAPS's reach here, as is induction over recursive definitions (the
models have none).

## 5. What is not modelled, and the plan

Not modelled: decoding and validation of HTTP input, middleware and the health check (it
looks at nothing); the values of the configuration other than those that enter as
constants, and the migrator, which runs alone before the service; the notification client
and the cancel error handler (nothing calls them, or what they call does not exist);
payloads and headers of messages; the history table (nothing writes it) and its query
(it panics); the statistics cache (nothing fills it).

Order followed and what comes next:

1. done: `Booking`, `BookingEntity`, `BookingsService` with the abstract life cycle,
   `Outbox`, `EventConsumer`, `ConfirmationWorker`, `CancellationWorker`; proofs of the
   service and the outbox.
2. done: `ServiceInstance`, the AMQP channel with the start and the stop of the process;
   `BookingsApi`, the reads and answers of the HTTP API; the polling workers with more
   bookings than a batch holds.
3. done: proofs of every safety property and refinement the runs check; the life cycle
   as what both polling workers and the HTTP API implement.
4. `Retry`: the loop of `withRetry` in both clients (attempts, backoff, permanent errors
   of the notification client, cancelled context) against a reference definition.
5. `RequestId`: the codec of BookingIDToRequestID and its inverse.
6. Composition: outbox inserts driven by `BookingsService`, with `Outbox` instantiated
   over its messages.
