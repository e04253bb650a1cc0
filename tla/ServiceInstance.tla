---------------------------- MODULE ServiceInstance ----------------------------
(***************************************************************************)
(* One instance of the service around its AMQP channel: the start and the  *)
(* stop of cmd/booking-service/main.go, messaging/connection.go with the   *)
(* one channel that the publisher and every consumer share,                *)
(* Consumer.Start, and the consume loops of messaging/consumer.go.         *)
(*                                                                         *)
(* Every booking has one create command and Catalog sends one answer to    *)
(* it, into the queue of Verdict[b].  What a handler or a request does to  *)
(* the table is one step here (EventConsumer and BookingsService take them *)
(* apart): a handler comes to a verdict, is refused by Cancel, or a        *)
(* statement of it fails.  Of a row matters what Cancel makes of it.       *)
(*                                                                         *)
(* Commands and status events share the channel.  main.go as it stands     *)
(* publishes commands only; the requests for a cancellation and the outbox *)
(* worker are part of the model from the moment the server listens.        *)
(*                                                                         *)
(* The broker and amqp091-go are external.  Used of them: exchanges and    *)
(* queues are durable; a publish to an exchange that does not exist        *)
(* returns nil, after which the broker closes the channel; what was        *)
(* delivered and not acknowledged returns to its queue when the channel    *)
(* closes; the client then drops the deliveries it still buffers and       *)
(* closes the Go channels the loops read; a publish looks neither at its   *)
(* context nor, for lack of confirms, at what became of the message.       *)
(***************************************************************************)
EXTENDS Naturals, FiniteSets

CONSTANTS
  Bookings,
  Queues,            \* the queues of consumer.Subscribe
  Verdict,           \* Verdict[b]: the queue of Catalog's answer about b
  DeniedQueue,       \* the one whose handler publishes a cancel command
  Exchange,          \* RABBITMQ_EXCHANGE, of the answers
  OtherExchanges,    \* names of exchanges that the service does not declare
  Deployments,       \* the exchanges of commands and of status events
  Prefetch,          \* RABBITMQ_PREFETCH_COUNT
  Regretted,         \* bound: the bookings that users cancel
  MaxFaults,         \* bound: crashes, lost connections, failed statements
  MaxStops           \* bound: SIGTERMs

None == "none"

Exchanges == {Exchange} \cup OtherExchanges

ASSUME InstanceAssumption ==
  /\ None \notin Bookings
  /\ Verdict \in [Bookings -> Queues]
  /\ DeniedQueue \in Queues
  /\ Deployments \subseteq [commands : Exchanges, events : Exchanges]
  /\ Prefetch \in Nat \ {0}
  /\ MaxFaults \in Nat
  /\ MaxStops \in Nat

VARIABLES
  \* The process:
  publisherExchange, \* RABBITMQ_PUBLISHER_EXCHANGE of this deployment
  eventsExchange,    \* BOOKING_DOMAIN_EVENTS_EXCHANGE of this deployment
  phase,             \* where main() is
  todo,              \* Start: the subscriptions that are not set up yet
  loop,              \* what the consume loop of each queue is doing
  hand,              \* the delivery it holds, or None
  buffer,            \* deliveries the AMQP client keeps for each loop
  \* The broker:
  channel,           \* the channel of the process
  exchanges,         \* the exchanges that exist
  ready,             \* answers that wait in their queue
  unacked,           \* answers delivered on the channel, not acknowledged
  \* The table:
  row,               \* a booking may live, be pending or be cancelled
  \* History and bounds:
  command,           \* what became of the create command of each booking
  sent,              \* answers Catalog has sent
  settled,           \* answers a handler came to a verdict about
  failed,            \* answers whose handler lost a statement
  dropped,           \* answers whose handler returned an error, gone for good
  strayed,           \* the other exchanges this process has published to
  faults, stops

broker  == <<exchanges, ready, unacked>>
history == <<command, sent, settled, failed, dropped>>
bounds  == <<faults, stops>>
names   == <<publisherExchange, eventsExchange>>
process == <<names, phase, todo, strayed>>
loops   == <<loop, hand, buffer>>
vars    == <<process, loops, channel, broker, row, history, bounds>>

(* The channel is open; or the broker has closed it, or the connection is  *)
(* lost, and the client does not know yet; or both know.                   *)
Channel == {None, "open", "doomed", "severed", "closed", "lost"}

ClientKnows == channel \in {"closed", "lost"}

LoopState == {None, "idle", "handling", "ack", "nack", "ended"}

(* Every variable has its type, and a loop that works holds a delivery.    *)
TypeOK ==
  /\ publisherExchange \in Exchanges /\ eventsExchange \in Exchanges
  /\ phase \in {"down", "connected", "starting", "serving", "stopping"}
  /\ todo \subseteq Queues
  /\ loop \in [Queues -> LoopState]
  /\ hand \in [Queues -> Bookings \cup {None}]
  /\ \A q \in Queues : hand[q] = None <=> loop[q] \notin {"handling", "ack", "nack"}
  /\ buffer \in [Queues -> SUBSET Bookings]
  /\ channel \in Channel
  /\ channel = None <=> phase = "down"
  /\ exchanges \subseteq Exchanges
  /\ ready \subseteq sent /\ unacked \subseteq sent /\ ready \cap unacked = {}
  /\ row \in [Bookings -> {"live", "pending", "cancelled"}]
  /\ command \in [Bookings -> {None, "routed", "lost"}]
  /\ sent \subseteq Bookings
  /\ settled \subseteq sent
  /\ failed \subseteq sent
  /\ dropped \subseteq sent
  /\ strayed \subseteq Exchanges \ {Exchange}
  /\ faults \in 0 .. MaxFaults /\ stops \in 0 .. MaxStops

Init ==
  /\ \E d \in Deployments : publisherExchange = d.commands /\ eventsExchange = d.events
  /\ phase = "down"
  /\ todo = {}
  /\ loop = [q \in Queues |-> None]
  /\ hand = [q \in Queues |-> None]
  /\ buffer = [q \in Queues |-> {}]
  /\ channel = None
  /\ exchanges = {}
  /\ ready = {}
  /\ unacked = {}
  /\ row = [b \in Bookings |-> "live"]
  /\ command = [b \in Bookings |-> None]
  /\ sent = {}
  /\ settled = {}
  /\ failed = {}
  /\ dropped = {}
  /\ strayed = {}
  /\ faults = 0 /\ stops = 0

-----------------------------------------------------------------------------
(* The channel and the process.                                            *)

(* What the broker does with the deliveries of a channel that is gone.     *)
Requeue ==
  /\ ready' = ready \cup unacked
  /\ unacked' = {}

(* The process is gone, and the channel with it.                           *)
Exits ==
  /\ phase' = "down"
  /\ todo' = {}
  /\ loop' = [q \in Queues |-> None]
  /\ hand' = [q \in Queues |-> None]
  /\ buffer' = [q \in Queues |-> {}]
  /\ channel' = None
  /\ strayed' = {}
  /\ Requeue
  /\ UNCHANGED <<names, exchanges, row, history>>

(* NewConnection: dial, channel, prefetch.  An attempt that fails exits at *)
(* once and changes nothing.                                               *)
Connect ==
  /\ phase = "down"
  /\ phase' = "connected"
  /\ channel' = "open"
  /\ UNCHANGED <<names, todo, strayed, loops, broker, row, history, bounds>>

(* A faulty Start that leaves it to Catalog to declare the exchange.       *)
StartUndeclared ==
  /\ phase = "connected" /\ channel = "open"
  /\ phase' = "starting"
  /\ todo' = Queues
  /\ UNCHANGED <<names, strayed, loops, channel, broker, row, history, bounds>>

(* Consumer.Start begins: DeclareExchange.                                 *)
StartConsumer ==
  /\ phase = "connected" /\ channel = "open"
  /\ phase' = "starting"
  /\ todo' = Queues
  /\ exchanges' = exchanges \cup {Exchange}
  /\ UNCHANGED <<names, strayed, loops, channel, ready, unacked, row, history, bounds>>

(* DeclareAndBindQueue, Consume and the goroutine of one subscription, in  *)
(* the order of the map.  Loops that are set up work already.              *)
Subscribe(q) ==
  /\ phase = "starting" /\ q \in todo /\ channel = "open"
  /\ todo' = todo \ {q}
  /\ loop' = [loop EXCEPT ![q] = "idle"]
  /\ UNCHANGED <<names, phase, strayed, hand, buffer, channel, broker, row, history, bounds>>

(* Start returned an error, on a channel that is gone: os.Exit(1).         *)
StartFails ==
  /\ phase \in {"connected", "starting"} /\ channel # "open"
  /\ phase = "connected" \/ todo # {}
  /\ Exits
  /\ UNCHANGED bounds

(* The HTTP server listens.                                                *)
Serve ==
  /\ phase = "starting" /\ todo = {}
  /\ phase' = "serving"
  /\ UNCHANGED <<names, todo, strayed, loops, channel, broker, row, history, bounds>>

(* SIGTERM: cancel(), then Shutdown waits for the requests in flight.      *)
Stop ==
  /\ phase = "serving" /\ stops < MaxStops
  /\ phase' = "stopping"
  /\ stops' = stops + 1
  /\ UNCHANGED <<names, todo, strayed, loops, channel, broker, row, history, faults>>

(* main returns: mqConn.Close and the end of the process.  Nobody waits    *)
(* for the loops.                                                          *)
Stopped ==
  /\ phase = "stopping"
  /\ Exits
  /\ UNCHANGED bounds

Crash ==
  /\ phase # "down" /\ faults < MaxFaults
  /\ faults' = faults + 1
  /\ Exits
  /\ UNCHANGED stops

(* The client learns that the channel is gone.                             *)
ChannelClosed ==
  /\ \/ channel = "doomed" /\ channel' = "closed"
     \/ channel = "severed" /\ channel' = "lost"
  /\ buffer' = [q \in Queues |-> {}]
  /\ UNCHANGED <<process, loop, hand, broker, row, history, bounds>>

(* The connection is lost.  Nothing dials again.                           *)
ConnectionLost ==
  /\ channel = "open" /\ faults < MaxFaults
  /\ faults' = faults + 1
  /\ channel' = "severed"
  /\ Requeue
  /\ UNCHANGED <<process, loops, exchanges, row, history, stops>>

-----------------------------------------------------------------------------
(* Publishing, and the others.                                             *)

(* PublishWithContext on the shared channel, once for each of the given    *)
(* exchanges: what it does to the channel.                                 *)
Publishes(to) ==
  /\ strayed' = strayed \cup (to \ {Exchange})
  /\ IF channel = "open" /\ ~ to \subseteq exchanges
     THEN channel' = "doomed" /\ Requeue
     ELSE UNCHANGED <<channel, ready, unacked>>

(* What becomes of a command: refused by a client that knows of the close  *)
(* or accepted and lost, it is gone all the same.                          *)
Outcome == IF channel = "open" /\ publisherExchange \in exchanges THEN "routed" ELSE "lost"

(* The requests in flight at a SIGTERM are waited for.                     *)
Listens == phase \in {"serving", "stopping"}

(* POST /create after the INSERT.  An error of the publish is logged.      *)
PublishCreateBookingJob(b) ==
  /\ Listens /\ command[b] = None
  /\ command' = [command EXCEPT ![b] = Outcome]
  /\ Publishes({publisherExchange})
  /\ UNCHANGED <<names, phase, todo, loops, exchanges, row, sent, settled, failed, dropped, bounds>>

(* BookingsService.Cancel for a user: the transaction, then the command.   *)
Cancel(b) ==
  /\ Listens /\ b \in Regretted /\ command[b] # None
  /\ row[b] = "live"
  /\ row' = [row EXCEPT ![b] = "cancelled"]
  /\ Publishes({publisherExchange})
  /\ UNCHANGED <<names, phase, todo, loops, exchanges, history, bounds>>

(* The row, the status event, the cancel command; once more if asked again. *)
RequestCancellation(b) ==
  /\ Listens /\ b \in Regretted /\ command[b] # None
  /\ row[b] # "cancelled"
  /\ row' = [row EXCEPT ![b] = "pending"]
  /\ Publishes({eventsExchange, publisherExchange})
  /\ UNCHANGED <<names, phase, todo, loops, exchanges, history, bounds>>

(* OutboxWorker.processMessage: the status event of a transaction.         *)
PublishOutboxMessage ==
  /\ Listens
  /\ \E b \in Bookings : b \in settled \/ row[b] = "cancelled"
  /\ Publishes({eventsExchange})
  /\ UNCHANGED <<names, phase, todo, loops, exchanges, row, history, bounds>>

(* Catalog, or who listens to status events, declares an exchange.         *)
OthersDeclare(x) ==
  /\ x \notin exchanges
  /\ exchanges' = exchanges \cup {x}
  /\ UNCHANGED <<process, loops, channel, ready, unacked, row, history, bounds>>

Answer(b) ==
  /\ command[b] = "routed" /\ b \notin sent
  /\ sent' = sent \cup {b}
  /\ ready' = ready \cup {b}
  /\ UNCHANGED <<process, loops, channel, exchanges, unacked, row, command, settled, failed, dropped, bounds>>

-----------------------------------------------------------------------------
(* The consume loops.                                                      *)

Prefetched(q) == Cardinality({b \in unacked : Verdict[b] = q})

(* A faulty Consume with auto-ack.                                         *)
DeliverAutoAck(b) ==
  LET q == Verdict[b] IN
  /\ channel = "open" /\ loop[q] # None /\ b \in ready
  /\ ready' = ready \ {b}
  /\ buffer' = [buffer EXCEPT ![q] = @ \cup {b}]
  /\ UNCHANGED <<process, loop, hand, channel, exchanges, unacked, row, history, bounds>>

(* The broker sends at most Prefetch deliveries ahead to every consumer.   *)
Deliver(b) ==
  LET q == Verdict[b] IN
  /\ channel = "open" /\ loop[q] # None /\ b \in ready
  /\ Prefetched(q) < Prefetch
  /\ ready' = ready \ {b}
  /\ unacked' = unacked \cup {b}
  /\ buffer' = [buffer EXCEPT ![q] = @ \cup {b}]
  /\ UNCHANGED <<process, loop, hand, channel, exchanges, row, history, bounds>>

(* The select takes a delivery, also when the context is done.             *)
Take(q) ==
  /\ loop[q] = "idle"
  /\ \E b \in buffer[q] :
       /\ loop' = [loop EXCEPT ![q] = "handling"]
       /\ hand' = [hand EXCEPT ![q] = b]
       /\ buffer' = [buffer EXCEPT ![q] = @ \ {b}]
  /\ UNCHANGED <<process, channel, broker, row, history, bounds>>

(* A faulty loop that looks at the context while it has a delivery.        *)
LoopEndsBusy(q) ==
  /\ loop[q] \in {"idle", "handling"}
  /\ phase = "stopping" \/ ClientKnows
  /\ loop' = [loop EXCEPT ![q] = "ended"]
  /\ UNCHANGED <<process, hand, buffer, channel, broker, row, history, bounds>>

(* The context is done or the deliveries are closed: the loop returns.     *)
LoopEnds(q) ==
  /\ loop[q] = "idle"
  /\ phase = "stopping" \/ ClientKnows
  /\ loop' = [loop EXCEPT ![q] = "ended"]
  /\ UNCHANGED <<process, hand, buffer, channel, broker, row, history, bounds>>

(* The row once the statements of a handler took effect: Cancel is for a   *)
(* booking that lives, and Confirm takes a pending one back.               *)
Decided(q) ==
  LET b == hand[q] IN
  IF q = DeniedQueue
  THEN [row EXCEPT ![b] = IF @ = "live" THEN "cancelled" ELSE @]
  ELSE [row EXCEPT ![b] = IF @ = "pending" THEN "live" ELSE @]

(* The handler returns nil.  That of a denial has published the cancel     *)
(* command after its transaction; that of a confirmation takes a refusal   *)
(* of Confirm for an answer as well.                                       *)
Handle(q) ==
  /\ loop[q] = "handling" /\ phase # "stopping"
  /\ q = DeniedQueue => row[hand[q]] = "live"
  /\ row' = Decided(q)
  /\ settled' = settled \cup {hand[q]}
  /\ loop' = [loop EXCEPT ![q] = "ack"]
  /\ IF q = DeniedQueue
     THEN Publishes({publisherExchange})
     ELSE UNCHANGED <<strayed, channel, ready, unacked>>
  /\ UNCHANGED <<names, phase, todo, hand, buffer, exchanges, command, sent, failed, dropped, bounds>>

(* Cancel refuses a booking that is cancelled or pending, by a user or by  *)
(* the same denial the first time it came: the handler returns its error.  *)
CancelRefuses(q) ==
  /\ loop[q] = "handling" /\ phase # "stopping"
  /\ q = DeniedQueue /\ row[hand[q]] # "live"
  /\ loop' = [loop EXCEPT ![q] = "nack"]
  /\ UNCHANGED <<process, hand, buffer, channel, broker, row, history, bounds>>

(* A faulty loop that returns with the error.                              *)
HandlerFailsForGood(q) ==
  /\ loop[q] = "handling"
  /\ phase # "stopping" /\ faults < MaxFaults /\ faults' = faults + 1
  /\ failed' = failed \cup {hand[q]}
  /\ loop' = [loop EXCEPT ![q] = "ended"]
  /\ hand' = [hand EXCEPT ![q] = None]
  /\ UNCHANGED <<process, buffer, channel, broker, row, command, sent, settled, dropped, stops>>

(* The handler returns the error of a statement, as every statement gives  *)
(* one once the context is cancelled.  A statement whose answer was lost   *)
(* took effect.                                                            *)
HandlerFails(q) ==
  /\ loop[q] = "handling"
  /\ \/ phase = "stopping" /\ UNCHANGED faults
     \/ phase # "stopping" /\ faults < MaxFaults /\ faults' = faults + 1
  /\ row' \in {row, Decided(q)}
  /\ failed' = failed \cup {hand[q]}
  /\ loop' = [loop EXCEPT ![q] = "nack"]
  /\ UNCHANGED <<process, hand, buffer, channel, broker, command, sent, settled, dropped, stops>>

Done(q) ==
  /\ loop' = [loop EXCEPT ![q] = "idle"]
  /\ hand' = [hand EXCEPT ![q] = None]

(* On a channel that is not open the broker has taken the message back.    *)
Ack(q) ==
  /\ loop[q] = "ack"
  /\ Done(q)
  /\ unacked' = IF channel = "open" THEN unacked \ {hand[q]} ELSE unacked
  /\ UNCHANGED <<process, buffer, channel, exchanges, ready, row, history, bounds>>

(* A faulty processDelivery that returns without an answer to the broker.  *)
NackForgotten(q) ==
  /\ loop[q] = "nack"
  /\ Done(q)
  /\ UNCHANGED <<process, buffer, channel, broker, row, history, bounds>>

(* Nack without requeue.                                                   *)
Nack(q) ==
  /\ loop[q] = "nack"
  /\ Done(q)
  /\ IF channel = "open"
     THEN unacked' = unacked \ {hand[q]} /\ dropped' = dropped \cup {hand[q]}
     ELSE UNCHANGED <<unacked, dropped>>
  /\ UNCHANGED <<process, buffer, channel, exchanges, ready, row, command, sent, settled, failed, bounds>>

Loop(q) ==
  \/ Take(q) \/ LoopEnds(q)
  \/ Handle(q) \/ CancelRefuses(q) \/ HandlerFails(q)
  \/ Ack(q) \/ Nack(q)

-----------------------------------------------------------------------------
Next ==
  \/ Connect \/ StartConsumer \/ StartFails \/ Serve \/ Stop \/ Stopped \/ Crash
  \/ ChannelClosed \/ ConnectionLost \/ PublishOutboxMessage
  \/ \E x \in OtherExchanges : OthersDeclare(x)
  \/ \E b \in Bookings :
       \/ PublishCreateBookingJob(b) \/ Cancel(b) \/ RequestCancellation(b)
       \/ Answer(b) \/ Deliver(b)
  \/ \E q \in Queues : Subscribe(q) \/ Loop(q)

Spec == Init /\ [][Next]_vars

(* The broker delivers what it may, and a loop that can go on does.  Users, *)
(* Catalog, the start and the stop of the process are not fair.            *)
FairSpec ==
  /\ Spec
  /\ \A b \in Bookings : WF_vars(Deliver(b))
  /\ \A q \in Queues : WF_vars(Loop(q))

-----------------------------------------------------------------------------
(* An answer of Catalog outlives crashes, restarts, lost connections and   *)
(* channels the broker closes: until a handler has come to a verdict or to *)
(* an error, the broker has it.  It is dropped because a statement failed, *)
(* a stop included, or because it denies a booking that was cancelled or   *)
(* asked to be: no other booking waits for an answer that is gone.         *)
AnswersSurvive ==
  /\ sent \subseteq settled \cup dropped \cup ready \cup unacked
  /\ \A b \in dropped \ failed : Verdict[b] = DeniedQueue /\ row[b] # "live"

(* The channel is open or every delivery is back in its queue; while it is *)
(* open, what the broker waits for is in the hands of a loop or on its way *)
(* there, so that it is answered and the prefetch window opens again.      *)
WindowIsHeld ==
  \A b \in unacked :
    /\ channel = "open"
    /\ b \in buffer[Verdict[b]] \/ b = hand[Verdict[b]]

(* An instance that publishes to no other exchange than the one it         *)
(* declares, be it commands or status events, never loses its channel, and *)
(* with it the ears of the service, by its own doing, however early a loop *)
(* or a request publishes: whatever the others have or have not declared.  *)
OwnExchangeKeepsChannel ==
  channel \in {"doomed", "closed"} => strayed # {}

(* As long as the instance serves on an open channel, every answer is      *)
(* heard, so that time and again none is left: errors of the handlers and  *)
(* deliveries of a former life do not stop the loops.                      *)
HeardWhileConnected ==
  <>[](phase = "serving" /\ channel = "open") =>
    []<>(sent \subseteq settled \cup dropped)
=============================================================================
