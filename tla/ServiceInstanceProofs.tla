------------------------- MODULE ServiceInstanceProofs -------------------------
(***************************************************************************)
(* Theorems about ServiceInstance, for any bookings and queues, any        *)
(* prefetch count, any number of crashes, lost connections, failed         *)
(* statements, cancellations and stops, and any deployment of the          *)
(* publisher and of the status events.                                     *)
(***************************************************************************)
EXTENDS ServiceInstance, TLAPS

(* What makes TypeOK inductive: a queue without a subscription has no loop, *)
(* and what the process holds is an answer Catalog sent.                   *)
LoopsHoldAnswers ==
  \A q \in Queues :
    /\ q \in todo \/ phase \in {"down", "connected"} => loop[q] = None
    /\ buffer[q] \subseteq sent
    /\ hand[q] # None => hand[q] \in sent

(* Every reachable state is well typed.                                    *)
THEOREM TypeCorrect == Spec => [](TypeOK /\ LoopsHoldAnswers)
<1>1. Init => TypeOK /\ LoopsHoldAnswers
  BY InstanceAssumption DEF Init, TypeOK, LoopsHoldAnswers, LoopState, Channel, Exchanges, None
<1>2. TypeOK /\ LoopsHoldAnswers /\ [Next]_vars => TypeOK' /\ LoopsHoldAnswers'
  <2> SUFFICES ASSUME TypeOK, LoopsHoldAnswers, [Next]_vars PROVE TypeOK' /\ LoopsHoldAnswers'
    OBVIOUS
  <2> USE DEF TypeOK, LoopsHoldAnswers, LoopState, Channel, ClientKnows,
             names, process, loops, broker, history, bounds
  <2>1. CASE Connect \/ StartConsumer \/ Serve
    BY <2>1 DEF Connect, StartConsumer, Serve, Exchanges, None
  <2>2. CASE Stop
    BY <2>2, InstanceAssumption DEF Stop, None
  <2>3. CASE StartFails \/ Stopped \/ Crash
    BY <2>3, InstanceAssumption DEF StartFails, Stopped, Crash, Exits, Requeue, None
  <2>4. CASE ChannelClosed \/ ConnectionLost
    BY <2>4, InstanceAssumption DEF ChannelClosed, ConnectionLost, Requeue, None
  <2>5. ASSUME NEW b \in Bookings,
               PublishCreateBookingJob(b) \/ Cancel(b) \/ RequestCancellation(b)
        PROVE  TypeOK' /\ LoopsHoldAnswers'
    BY <2>5 DEF PublishCreateBookingJob, Cancel, RequestCancellation,
                 Publishes, Outcome, Listens, Requeue, None
  <2>6. CASE PublishOutboxMessage
    BY <2>6 DEF PublishOutboxMessage, Publishes, Listens, Requeue, None
  <2>7. ASSUME NEW x \in OtherExchanges, OthersDeclare(x)
        PROVE  TypeOK' /\ LoopsHoldAnswers'
    BY <2>7 DEF OthersDeclare, Exchanges
  <2>8. ASSUME NEW b \in Bookings, Answer(b)
        PROVE  TypeOK' /\ LoopsHoldAnswers'
    BY <2>8 DEF Answer
  <2>9. ASSUME NEW b \in Bookings, Deliver(b)
        PROVE  TypeOK' /\ LoopsHoldAnswers'
    BY <2>9, InstanceAssumption DEF Deliver
  <2>10. ASSUME NEW q \in Queues, Subscribe(q)
        PROVE  TypeOK' /\ LoopsHoldAnswers'
    BY <2>10 DEF Subscribe, None
  <2>11. ASSUME NEW q \in Queues, Take(q)
        PROVE  TypeOK' /\ LoopsHoldAnswers'
    BY <2>11, InstanceAssumption DEF Take, None
  <2>12. ASSUME NEW q \in Queues, LoopEnds(q) \/ CancelRefuses(q) \/ HandlerFails(q)
        PROVE  TypeOK' /\ LoopsHoldAnswers'
    BY <2>12, InstanceAssumption DEF LoopEnds, CancelRefuses, HandlerFails, Decided, None
  <2>13. ASSUME NEW q \in Queues, Handle(q)
        PROVE  TypeOK' /\ LoopsHoldAnswers'
    BY <2>13, InstanceAssumption DEF Handle, Decided, Publishes, Exchanges, Requeue, None
  <2>14. ASSUME NEW q \in Queues, Ack(q) \/ Nack(q)
         PROVE  TypeOK' /\ LoopsHoldAnswers'
    BY <2>14 DEF Ack, Nack, Done, None
  <2>15. CASE UNCHANGED vars
    BY <2>15 DEF vars
  <2> QED
    BY <2>1, <2>2, <2>3, <2>4, <2>5, <2>6, <2>7, <2>8, <2>9, <2>10, <2>11, <2>12, <2>13, <2>14, <2>15
    DEF Next, Loop
<1> QED
  BY <1>1, <1>2, PTL DEF Spec

-----------------------------------------------------------------------------
(* What the broker waits for is never forgotten by the client, or the      *)
(* channel is gone and it waits for nothing.                               *)
THEOREM WindowsAreHeld == Spec => []WindowIsHeld
<1>1. Init => WindowIsHeld
  BY DEF Init, WindowIsHeld
<1>2. TypeOK /\ WindowIsHeld /\ [Next]_vars => WindowIsHeld'
  <2> SUFFICES ASSUME TypeOK, WindowIsHeld, [Next]_vars PROVE WindowIsHeld'
    OBVIOUS
  <2>0. unacked \subseteq Bookings /\ \A b \in unacked : Verdict[b] \in Queues /\ b # None
    BY InstanceAssumption DEF TypeOK
  <2> USE DEF WindowIsHeld, names, process, loops, broker, history, bounds
  <2>1. CASE Connect \/ StartConsumer \/ Serve \/ Stop
    BY <2>1 DEF Connect, StartConsumer, Serve, Stop, TypeOK
  <2>2. CASE StartFails \/ Stopped \/ Crash
    BY <2>2 DEF StartFails, Stopped, Crash, Exits, Requeue
  <2>3. CASE ChannelClosed \/ ConnectionLost
    BY <2>3 DEF ChannelClosed, ConnectionLost, Requeue
  <2>4. ASSUME NEW b \in Bookings,
               PublishCreateBookingJob(b) \/ Cancel(b) \/ RequestCancellation(b)
        PROVE  WindowIsHeld'
    BY <2>4 DEF PublishCreateBookingJob, Cancel, RequestCancellation,
                 Publishes, Requeue
  <2>5. CASE PublishOutboxMessage
    BY <2>5 DEF PublishOutboxMessage, Publishes, Requeue
  <2>6. ASSUME NEW x \in OtherExchanges, OthersDeclare(x)
        PROVE  WindowIsHeld'
    BY <2>6 DEF OthersDeclare
  <2>7. ASSUME NEW b \in Bookings, Answer(b) \/ Deliver(b)
        PROVE  WindowIsHeld'
    BY <2>0, <2>7, InstanceAssumption DEF Answer, Deliver, TypeOK
  <2>8. ASSUME NEW q \in Queues, Subscribe(q)
        PROVE  WindowIsHeld'
    BY <2>8 DEF Subscribe
  <2>9. ASSUME NEW q \in Queues, Take(q)
        PROVE  WindowIsHeld'
    BY <2>0, <2>9 DEF Take, TypeOK
  <2>10. ASSUME NEW q \in Queues, LoopEnds(q) \/ CancelRefuses(q) \/ HandlerFails(q)
        PROVE  WindowIsHeld'
    BY <2>10 DEF LoopEnds, CancelRefuses, HandlerFails, Decided
  <2>11. ASSUME NEW q \in Queues, Handle(q)
        PROVE  WindowIsHeld'
    BY <2>11 DEF Handle, Publishes, Requeue
  <2>12. ASSUME NEW q \in Queues, Ack(q) \/ Nack(q)
         PROVE  WindowIsHeld'
    BY <2>0, <2>12 DEF Ack, Nack, Done, TypeOK
  <2>13. CASE UNCHANGED vars
    BY <2>13 DEF vars
  <2> QED
    BY <2>1, <2>2, <2>3, <2>4, <2>5, <2>6, <2>7, <2>8, <2>9, <2>10, <2>11, <2>12, <2>13
    DEF Next, Loop
<1> QED
  BY <1>1, <1>2, TypeCorrect, PTL DEF Spec

-----------------------------------------------------------------------------
(* Why a loop answers the broker as it does: it acknowledges what its      *)
(* handler settled, and refuses what lost a statement or denies a booking  *)
(* that Cancel refused.  A loop holds answers of its own queue, so that no *)
(* other loop can bring such a booking back.                               *)
AnswersAreFounded ==
  \A q \in Queues :
    /\ \A b \in buffer[q] : Verdict[b] = q
    /\ hand[q] # None => Verdict[hand[q]] = q
    /\ loop[q] = "ack" => hand[q] \in settled
    /\ loop[q] = "nack" => hand[q] \in failed \/ (q = DeniedQueue /\ row[hand[q]] # "live")

(* No crash, restart, lost connection or closed channel loses an answer of *)
(* Catalog; only a failed statement or stop drops one, or Cancel, which    *)
(* refuses to deny a booking that is cancelled or asked to be.             *)
THEOREM AnswersDoSurvive == Spec => []AnswersSurvive
<1> DEFINE Inv == AnswersSurvive /\ AnswersAreFounded
<1>1. Init => Inv
  BY DEF Init, AnswersSurvive, AnswersAreFounded, None
<1>2. TypeOK /\ Inv /\ [Next]_vars => Inv'
  <2> SUFFICES ASSUME TypeOK, Inv, [Next]_vars PROVE Inv'
    OBVIOUS
  <2>0. /\ loop \in [Queues -> LoopState] /\ hand \in [Queues -> Bookings \cup {None}]
        /\ buffer \in [Queues -> SUBSET Bookings]
        /\ row \in [Bookings -> {"live", "pending", "cancelled"}]
        /\ dropped \subseteq Bookings
        /\ \A q \in Queues : loop[q] \in {"handling", "ack", "nack"} => hand[q] # None
        /\ Verdict \in [Bookings -> Queues] /\ None \notin Bookings
    BY InstanceAssumption DEF TypeOK
  <2> USE DEF AnswersSurvive, AnswersAreFounded, names, process, loops, broker, history, bounds
  <2>1. CASE Connect \/ StartConsumer \/ Serve \/ Stop
    BY <2>0, <2>1 DEF Connect, StartConsumer, Serve, Stop
  <2>2. CASE StartFails \/ Stopped \/ Crash
    BY <2>2 DEF StartFails, Stopped, Crash, Exits, Requeue, None
  <2>3. CASE ChannelClosed \/ ConnectionLost
    BY <2>3 DEF ChannelClosed, ConnectionLost, Requeue
  <2>4. ASSUME NEW b \in Bookings,
               PublishCreateBookingJob(b) \/ Cancel(b) \/ RequestCancellation(b)
        PROVE  Inv'
    BY <2>0, <2>4 DEF PublishCreateBookingJob, Cancel, RequestCancellation,
                 Publishes, Listens, Requeue
  <2>5. CASE PublishOutboxMessage
    BY <2>0, <2>5 DEF PublishOutboxMessage, Publishes, Listens, Requeue
  <2>6. ASSUME NEW x \in OtherExchanges, OthersDeclare(x)
        PROVE  Inv'
    BY <2>0, <2>6 DEF OthersDeclare
  <2>7. ASSUME NEW b \in Bookings, Answer(b) \/ Deliver(b)
        PROVE  Inv'
    BY <2>0, <2>7 DEF Answer, Deliver
  <2>8. ASSUME NEW q \in Queues, Subscribe(q)
        PROVE  Inv'
    BY <2>0, <2>8 DEF Subscribe
  <2>9. ASSUME NEW q \in Queues, Take(q)
        PROVE  Inv'
    BY <2>0, <2>9 DEF Take
  <2>10. ASSUME NEW q \in Queues, LoopEnds(q) \/ CancelRefuses(q) \/ HandlerFails(q)
        PROVE  Inv'
    BY <2>0, <2>10 DEF LoopEnds, CancelRefuses, HandlerFails, Decided
  <2>11. ASSUME NEW q \in Queues, Handle(q)
        PROVE  Inv'
    BY <2>0, <2>11 DEF Handle, Decided, Publishes, Requeue
  <2>12. ASSUME NEW q \in Queues, Ack(q) \/ Nack(q)
         PROVE  Inv'
    BY <2>0, <2>12 DEF Ack, Nack, Done, None
  <2>13. CASE UNCHANGED vars
    BY <2>13 DEF vars
  <2> QED
    BY <2>1, <2>2, <2>3, <2>4, <2>5, <2>6, <2>7, <2>8, <2>9, <2>10, <2>11, <2>12, <2>13
    DEF Next, Loop
<1> QED
  BY <1>1, <1>2, TypeCorrect, PTL DEF Spec

-----------------------------------------------------------------------------
(* From Start on the exchange of the answers exists, and no loop works     *)
(* before that.                                                            *)
DeclaredBeforeUse ==
  LET started == {"starting", "serving", "stopping"} IN
  /\ phase \in started => Exchange \in exchanges
  /\ \A q \in Queues : loop[q] # None => phase \in started

(* An instance that has published its commands and status events to the    *)
(* exchange it declares, and to no other, never made the broker close its  *)
(* channel.                                                                *)
THEOREM OwnExchangeIsSafe == Spec => []OwnExchangeKeepsChannel
<1> DEFINE Inv == OwnExchangeKeepsChannel /\ DeclaredBeforeUse
<1>1. Init => Inv
  BY DEF Init, OwnExchangeKeepsChannel, DeclaredBeforeUse, None
<1>2. TypeOK /\ Inv /\ [Next]_vars => Inv'
  <2> SUFFICES ASSUME TypeOK, Inv, [Next]_vars PROVE Inv'
    OBVIOUS
  <2>0. loop \in [Queues -> LoopState]
    BY DEF TypeOK
  <2> USE DEF OwnExchangeKeepsChannel, DeclaredBeforeUse,
             names, process, loops, broker, history, bounds
  <2>1. CASE Connect \/ StartConsumer \/ Serve \/ Stop
    BY <2>1 DEF Connect, StartConsumer, Serve, Stop
  <2>2. CASE StartFails \/ Stopped \/ Crash
    BY <2>2 DEF StartFails, Stopped, Crash, Exits, None
  <2>3. CASE ChannelClosed \/ ConnectionLost
    BY <2>3 DEF ChannelClosed, ConnectionLost
  <2>4. ASSUME NEW b \in Bookings,
               PublishCreateBookingJob(b) \/ Cancel(b) \/ RequestCancellation(b)
        PROVE  Inv'
    BY <2>4 DEF PublishCreateBookingJob, Cancel, RequestCancellation,
                 Publishes, Listens
  <2>5. CASE PublishOutboxMessage
    BY <2>5 DEF PublishOutboxMessage, Publishes, Listens
  <2>6. ASSUME NEW x \in OtherExchanges, OthersDeclare(x)
        PROVE  Inv'
    BY <2>6 DEF OthersDeclare
  <2>7. ASSUME NEW b \in Bookings, Answer(b) \/ Deliver(b)
        PROVE  Inv'
    BY <2>7 DEF Answer, Deliver
  <2>8. ASSUME NEW q \in Queues, Subscribe(q)
        PROVE  Inv'
    BY <2>0, <2>8 DEF Subscribe
  <2>9. ASSUME NEW q \in Queues, Take(q) \/ LoopEnds(q) \/ CancelRefuses(q) \/ HandlerFails(q)
        PROVE  Inv'
    BY <2>0, <2>9 DEF Take, LoopEnds, CancelRefuses, HandlerFails, Decided, None
  <2>10. ASSUME NEW q \in Queues, Handle(q)
        PROVE  Inv'
    BY <2>0, <2>10 DEF Handle, Publishes, None
  <2>11. ASSUME NEW q \in Queues, Ack(q) \/ Nack(q)
        PROVE  Inv'
    BY <2>0, <2>11 DEF Ack, Nack, Done, None
  <2>12. CASE UNCHANGED vars
    BY <2>12 DEF vars
  <2> QED
    BY <2>1, <2>2, <2>3, <2>4, <2>5, <2>6, <2>7, <2>8, <2>9, <2>10, <2>11, <2>12
    DEF Next, Loop
<1> QED
  BY <1>1, <1>2, TypeCorrect, PTL DEF Spec
=============================================================================
