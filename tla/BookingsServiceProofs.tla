------------------------ MODULE BookingsServiceProofs ------------------------
(***************************************************************************)
(* Theorems about BookingsService, for any number of bookings and calls,   *)
(* any start dates, any clock and any set of operations unless a theorem   *)
(* says otherwise.                                                         *)
(***************************************************************************)
EXTENDS BookingsService, TLAPS

(* None stands apart from the ids, the calls and the statuses.             *)
LEMMA Sentinels ==
  /\ Absent \notin BookingStatus
  /\ None \notin BookingStatus
  /\ \A c \in Calls : c # None
BY ServiceAssumption
   DEF BookingStatus, AwaitsConfirmation, Confirmed, Cancelled,
       CancellationPending, Absent, None

(* What a call wants to write is a status of a booking.                    *)
LEMMA TargetIsAStatus == \A op : Target(op) \in BookingStatus
BY DEF Target, BookingStatus

(* A call that carries on after its write has a command to publish.        *)
LEMMA CommandsOf ==
  ASSUME NEW op
  PROVE  /\ CommandCount(op) \in {0, 1, 2}
         /\ \A k \in {0, 1} : k < CommandCount(op) =>
              Commands(op)[k + 1] \in {"create_job", "cancel_job", "status_changed"}
         /\ CommandCount("Create") = 1
BY DEF Commands, CommandCount, CancelOps

(* What a call in progress looks like.                                     *)
LEMMA CallShape ==
  ASSUME TypeOK, NEW c \in Calls
  PROVE  /\ calls[c].at \in {"loaded", "decided"} => calls[c] \in Loaded
         /\ calls[c].at = "stored" => calls[c] \in Publishing
         /\ Idle.at = "idle"
         /\ Idle \in CallState
BY DEF TypeOK, CallState, Idle, Loaded, Publishing

-----------------------------------------------------------------------------
(* Every reachable state is well typed.                                    *)
THEOREM TypeCorrect == Spec => []TypeOK
<1>1. Init => TypeOK
  BY ServiceAssumption DEF Init, TypeOK, CallState, Idle
<1>2. TypeOK /\ [Next]_vars => TypeOK'
  <2> SUFFICES ASSUME TypeOK, [Next]_vars PROVE TypeOK'
    OBVIOUS
  <2>1. ASSUME NEW c \in Calls, NEW b \in Bookings, Insert(c, b)
        PROVE  TypeOK'
    <3>1. 0 \in 0 .. LastDay
      BY ServiceAssumption
    <3>2. [Idle EXCEPT !.at = "stored", !.op = "Create", !.booking = b] \in Publishing
      BY <3>1 DEF Idle, Publishing
    <3>3. calls' \in [Calls -> CallState]
      BY <2>1, <3>2 DEF Insert, TypeOK, CallState
    <3>4. \A d \in Calls : calls'[d].at = "stored" =>
            calls'[d].sent < CommandCount(calls'[d].op)
      <4>1. CommandCount("Create") = 1
        BY CommandsOf
      <4> TAKE d \in Calls
      <4>2. CASE d = c
        BY <2>1, <4>1, <4>2 DEF Insert, TypeOK, Idle
      <4>3. CASE d # c
        BY <2>1, <4>3 DEF Insert, TypeOK
      <4> QED
        BY <4>2, <4>3
    <3>5. rows' \in [Bookings -> BookingStatus \cup {Absent}]
      BY <2>1 DEF Insert, TypeOK, BookingStatus
    <3> QED
      BY <2>1, <3>3, <3>4, <3>5 DEF Insert, TypeOK
  <2>2. ASSUME NEW c \in Calls, NEW op \in Ops, NEW b \in Bookings, Load(c, op, b)
        PROVE  TypeOK'
    <3>1. 0 \in 0 .. LastDay
      BY ServiceAssumption
    <3>2. rows[b] \in BookingStatus
      BY <2>2 DEF Load, TypeOK
    <3>3. [Idle EXCEPT !.at = "loaded", !.op = op, !.booking = b, !.seen = rows[b]]
            \in Loaded
      BY <3>1, <3>2 DEF Idle, Loaded
    <3>4. calls' \in [Calls -> CallState]
      BY <2>2, <3>3 DEF Load, TypeOK, CallState
    <3>5. \A d \in Calls : calls'[d].at = "stored" =>
            calls'[d].sent < CommandCount(calls'[d].op)
      BY <2>2 DEF Load, TypeOK, Idle
    <3> QED
      BY <2>2, <3>4, <3>5 DEF Load, TypeOK
  <2>3. ASSUME NEW c \in Calls, Decide(c)
        PROVE  TypeOK'
    BY <2>3, CallShape DEF Decide, TypeOK, CallState, Loaded
  <2>4. ASSUME NEW c \in Calls, Reject(c)
        PROVE  TypeOK'
    BY <2>4, CallShape DEF Reject, TypeOK, Unlock, Idle
  <2>5. ASSUME NEW c \in Calls, Commit(c)
        PROVE  TypeOK'
    <3>1. calls[c] \in Loaded
      BY <2>5, CallShape DEF Commit
    <3>2. EventOf(c) \in Event
      BY <3>1, TargetIsAStatus DEF EventOf, Event, Loaded
    <3>3. rows' \in [Bookings -> BookingStatus \cup {Absent}]
      BY <2>5, <3>1, TargetIsAStatus DEF Commit, TypeOK, Loaded
    <3>4. calls' \in [Calls -> CallState]
      BY <2>5, <3>1, CallShape DEF Commit, Stored, TypeOK, CallState, Loaded, Publishing
    <3>5. \A d \in Calls : calls'[d].at = "stored" =>
            calls'[d].sent < CommandCount(calls'[d].op)
      <4> SUFFICES ASSUME NEW d \in Calls, calls'[d].at = "stored"
                   PROVE  calls'[d].sent < CommandCount(calls'[d].op)
        OBVIOUS
      <4>1. CASE d # c
        BY <2>5, <4>1 DEF Commit, Stored, TypeOK
      <4>2. CASE d = c
        <5>1. CommandCount(calls[c].op) # 0
          BY <2>5, <3>1, <4>2 DEF Commit, Stored, TypeOK, Idle
        <5>2. calls'[c] = [calls[c] EXCEPT !.at = "stored"]
          BY <2>5, <5>1 DEF Commit, Stored, TypeOK
        <5>3. calls'[c].sent = 0 /\ calls'[c].op = calls[c].op
          BY <3>1, <5>2 DEF Loaded
        <5> QED
          BY <4>2, <5>1, <5>3, CommandsOf
      <4> QED
        BY <4>1, <4>2
    <3> QED
      BY <2>5, <3>2, <3>3, <3>4, <3>5 DEF Commit, TypeOK, Unlock
  <2>6. ASSUME NEW c \in Calls, Update(c)
        PROVE  TypeOK'
    <3>1. calls[c] \in Loaded
      BY <2>6, CallShape DEF Update
    <3>2. rows' \in [Bookings -> BookingStatus \cup {Absent}]
      BY <2>6, <3>1, TargetIsAStatus DEF Update, TypeOK, Loaded
    <3>3. calls' \in [Calls -> CallState]
      BY <2>6, <3>1, CallShape DEF Update, Stored, TypeOK, CallState, Loaded, Publishing
    <3>4. \A d \in Calls : calls'[d].at = "stored" =>
            calls'[d].sent < CommandCount(calls'[d].op)
      <4> SUFFICES ASSUME NEW d \in Calls, calls'[d].at = "stored"
                   PROVE  calls'[d].sent < CommandCount(calls'[d].op)
        OBVIOUS
      <4>1. CASE d # c
        BY <2>6, <4>1 DEF Update, Stored, TypeOK
      <4>2. CASE d = c
        <5>1. CommandCount(calls[c].op) # 0
          BY <2>6, <3>1, <4>2 DEF Update, Stored, TypeOK, Idle
        <5>2. calls'[c] = [calls[c] EXCEPT !.at = "stored"]
          BY <2>6, <5>1 DEF Update, Stored, TypeOK
        <5>3. calls'[c].sent = 0 /\ calls'[c].op = calls[c].op
          BY <3>1, <5>2 DEF Loaded
        <5> QED
          BY <4>2, <5>1, <5>3, CommandsOf
      <4> QED
        BY <4>1, <4>2
    <3> QED
      BY <2>6, <3>2, <3>3, <3>4 DEF Update, TypeOK
  <2>7. ASSUME NEW c \in Calls, calls[c].at = "stored", Published(c)
        PROVE  /\ calls' \in [Calls -> CallState]
               /\ \A d \in Calls : calls'[d].at = "stored" =>
                    calls'[d].sent < CommandCount(calls'[d].op)
    <3>1. calls[c] \in Publishing
      BY <2>7, CallShape
    <3>2. CASE calls[c].sent + 1 = CommandCount(calls[c].op)
      <4>1. calls' = [calls EXCEPT ![c] = Idle]
        BY <2>7, <3>2 DEF Published
      <4> QED
        BY <4>1, CallShape DEF TypeOK
    <3>3. CASE calls[c].sent + 1 # CommandCount(calls[c].op)
      <4>1. calls[c].sent = 0 /\ CommandCount(calls[c].op) = 2
        <5>1. CommandCount(calls[c].op) \in {0, 1, 2}
          BY CommandsOf
        <5>2. calls[c].sent < CommandCount(calls[c].op)
          BY <2>7 DEF TypeOK
        <5>3. calls[c].sent \in {0, 1}
          BY <3>1 DEF Publishing
        <5> QED
          BY <3>3, <5>1, <5>2, <5>3
      <4>2. calls' = [calls EXCEPT ![c] = [calls[c] EXCEPT !.sent = 1]]
        BY <2>7, <3>3 DEF Published
      <4>3. [calls[c] EXCEPT !.sent = 1] \in Publishing
        BY <3>1 DEF Publishing
      <4>4. calls' \in [Calls -> CallState]
        BY <4>2, <4>3 DEF TypeOK, CallState
      <4>5. ASSUME NEW d \in Calls, calls'[d].at = "stored"
            PROVE  calls'[d].sent < CommandCount(calls'[d].op)
        <5>1. CASE d = c
          BY <3>1, <4>1, <4>2, <5>1 DEF TypeOK, Publishing
        <5>2. CASE d # c
          BY <4>2, <4>5, <5>2 DEF TypeOK
        <5> QED
          BY <5>1, <5>2
      <4> QED
        BY <4>4, <4>5
    <3> QED
      BY <3>2, <3>3
  <2>8. ASSUME NEW c \in Calls, Publish(c)
        PROVE  TypeOK'
    <3>1. calls[c] \in Publishing
      BY <2>8, CallShape DEF Publish
    <3>2. Commands(calls[c].op)[calls[c].sent + 1]
            \in {"create_job", "cancel_job", "status_changed"}
      BY <2>8, <3>1, CommandsOf DEF Publish, TypeOK, Publishing
    <3>3. published' \subseteq Command
      BY <2>8, <3>1, <3>2 DEF Publish, TypeOK, Command, Publishing
    <3> QED
      BY <2>7, <2>8, <3>3 DEF Publish, TypeOK
  <2>9. ASSUME NEW c \in Calls, PublishFails(c)
        PROVE  TypeOK'
    BY <2>7, <2>9 DEF PublishFails, TypeOK
  <2>10. ASSUME NEW c \in Calls, Abort(c)
         PROVE  TypeOK'
    BY <2>10, CallShape DEF Abort, TypeOK, Unlock, Idle
  <2>11. CASE Tick
    BY <2>11, ServiceAssumption DEF Tick, TypeOK
  <2>12. CASE UNCHANGED vars
    BY <2>12 DEF vars, TypeOK
  <2> QED
    BY <2>1, <2>2, <2>3, <2>4, <2>5, <2>6, <2>8, <2>9, <2>10, <2>11, <2>12 DEF Next
<1> QED
  BY <1>1, <1>2, PTL DEF Spec

-----------------------------------------------------------------------------
(* A call loses its row lock, and the row under it changes, by no step but *)
(* its own: every other writer needs the lock that this call holds.        *)
THEOREM LockedReadStaysCurrent == Spec => []LockedReadIsCurrent
<1>1. Init => LockedReadIsCurrent
  BY DEF Init, LockedReadIsCurrent, Idle
<1>2. TypeOK /\ LockedReadIsCurrent /\ [Next]_vars => LockedReadIsCurrent'
  <2> SUFFICES ASSUME TypeOK, LockedReadIsCurrent, [Next]_vars,
                      NEW d \in Calls,
                      calls'[d].at \in {"loaded", "decided"}, calls'[d].op \in LockedOps
               PROVE  /\ lock'[calls'[d].booking] = d
                      /\ rows'[calls'[d].booking] = calls'[d].seen
    BY DEF LockedReadIsCurrent
  <2> DEFINE Holds == /\ calls[d].at \in {"loaded", "decided"}
                      /\ calls[d].op \in LockedOps
  <2>1. Holds => /\ lock[calls[d].booking] = d
                 /\ rows[calls[d].booking] = calls[d].seen
                 /\ calls[d].booking \in Bookings
                 /\ calls[d].seen \in BookingStatus
    BY CallShape DEF LockedReadIsCurrent, Loaded
  <2>2. ASSUME NEW c \in Calls, NEW b \in Bookings, Insert(c, b)
        PROVE  /\ lock'[calls'[d].booking] = d
               /\ rows'[calls'[d].booking] = calls'[d].seen
    <3>1. d # c
      BY <2>2 DEF Insert, TypeOK, Idle
    <3>2. Holds /\ calls'[d] = calls[d]
      BY <2>2, <3>1 DEF Insert, TypeOK
    <3>3. calls[d].booking # b
      BY <2>1, <2>2, <3>2, Sentinels DEF Insert
    <3> QED
      BY <2>1, <2>2, <3>2, <3>3 DEF Insert, TypeOK
  <2>3. ASSUME NEW c \in Calls, NEW op \in Ops, NEW b \in Bookings, Load(c, op, b)
        PROVE  /\ lock'[calls'[d].booking] = d
               /\ rows'[calls'[d].booking] = calls'[d].seen
    <3>1. CASE d = c
      BY <2>3, <3>1 DEF Load, TypeOK, Idle
    <3>2. CASE d # c
      <4>1. Holds /\ calls'[d] = calls[d]
        BY <2>3, <3>2 DEF Load, TypeOK
      <4>2. lock'[calls[d].booking] = lock[calls[d].booking]
        BY <2>1, <2>3, <4>1, Sentinels DEF Load, TypeOK
      <4> QED
        BY <2>1, <2>3, <4>1, <4>2 DEF Load
    <3> QED
      BY <3>1, <3>2
  <2>4. ASSUME NEW c \in Calls, Decide(c)
        PROVE  /\ lock'[calls'[d].booking] = d
               /\ rows'[calls'[d].booking] = calls'[d].seen
    <3>1. CASE d = c
      <4>1. Holds
        BY <2>4, <3>1 DEF Decide, TypeOK
      <4>2. calls'[d].booking = calls[d].booking /\ calls'[d].seen = calls[d].seen
        BY <2>4, <3>1, <4>1, CallShape DEF Decide, TypeOK, Loaded
      <4> QED
        BY <2>1, <2>4, <4>1, <4>2 DEF Decide
    <3>2. CASE d # c
      BY <2>1, <2>4, <3>2 DEF Decide, TypeOK
    <3> QED
      BY <3>1, <3>2
  <2>5. ASSUME NEW c \in Calls, c # d, calls'[d] = calls[d], lock' = Unlock(c)
        PROVE  Holds /\ lock'[calls[d].booking] = d
    BY <2>1, <2>5 DEF Unlock, TypeOK
  <2>6. ASSUME NEW c \in Calls, Reject(c) \/ Abort(c)
        PROVE  /\ lock'[calls'[d].booking] = d
               /\ rows'[calls'[d].booking] = calls'[d].seen
    <3>1. c # d
      BY <2>6 DEF Reject, Abort, TypeOK, Idle
    <3>2. calls'[d] = calls[d] /\ rows' = rows /\ lock' = Unlock(c)
      BY <2>6, <3>1 DEF Reject, Abort, TypeOK
    <3> QED
      BY <2>1, <2>5, <3>1, <3>2
  <2>7. ASSUME NEW c \in Calls, Commit(c)
        PROVE  /\ lock'[calls'[d].booking] = d
               /\ rows'[calls'[d].booking] = calls'[d].seen
    <3>1. c # d
      BY <2>7 DEF Commit, Stored, TypeOK, Idle
    <3>2. calls'[d] = calls[d] /\ lock' = Unlock(c)
      BY <2>7, <3>1 DEF Commit, Stored, TypeOK
    <3>3. Holds /\ lock'[calls[d].booking] = d
      BY <2>5, <3>1, <3>2
    <3>4. lock[calls[c].booking] = c
      BY <2>7 DEF Commit, LockedReadIsCurrent
    <3>5. rows'[calls[d].booking] = rows[calls[d].booking]
      BY <2>1, <2>7, <3>1, <3>3, <3>4 DEF Commit, TypeOK
    <3> QED
      BY <2>1, <3>2, <3>3, <3>5
  <2>8. ASSUME NEW c \in Calls, Update(c)
        PROVE  /\ lock'[calls'[d].booking] = d
               /\ rows'[calls'[d].booking] = calls'[d].seen
    <3>1. c # d
      BY <2>8 DEF Update, Stored, TypeOK, Idle
    <3>2. Holds /\ calls'[d] = calls[d] /\ lock' = lock
      BY <2>8, <3>1 DEF Update, Stored, TypeOK
    <3>3. calls[d].booking # calls[c].booking
      BY <2>1, <2>8, <3>2, Sentinels DEF Update
    <3>4. rows'[calls[d].booking] = rows[calls[d].booking]
      BY <2>1, <2>8, <3>2, <3>3 DEF Update, TypeOK
    <3> QED
      BY <2>1, <3>2, <3>4
  <2>9. ASSUME NEW c \in Calls, Publish(c) \/ PublishFails(c)
        PROVE  /\ lock'[calls'[d].booking] = d
               /\ rows'[calls'[d].booking] = calls'[d].seen
    <3>1. c # d
      <4>1. calls[c] \in Publishing
        BY <2>9, CallShape DEF Publish, PublishFails
      <4> QED
        BY <2>9, <4>1 DEF Publish, PublishFails, Published, TypeOK, Idle, Publishing
    <3>2. Holds /\ calls'[d] = calls[d] /\ lock' = lock /\ rows' = rows
      BY <2>9, <3>1 DEF Publish, PublishFails, Published, TypeOK
    <3> QED
      BY <2>1, <3>2
  <2>10. CASE Tick
    BY <2>1, <2>10 DEF Tick
  <2>11. CASE UNCHANGED vars
    BY <2>1, <2>11 DEF vars
  <2> QED
    BY <2>2, <2>3, <2>4, <2>6, <2>7, <2>8, <2>9, <2>10, <2>11 DEF Next
<1> QED
  BY <1>1, <1>2, TypeCorrect, PTL DEF Spec

-----------------------------------------------------------------------------
(* A decision that was taken is one the domain method accepts on some day, *)
(* and it is about the status the call has read.                           *)
DecisionIsAllowed ==
  \A c \in Calls :
    calls[c].at = "decided" => Allowed(calls[c].op, calls[c].seen, TRUE)

(* What the domain method accepts on a day it accepts if the start lies    *)
(* ahead.                                                                  *)
LEMMA AllowedOnSomeDay ==
  ASSUME NEW op, NEW s, NEW later \in BOOLEAN, Allowed(op, s, later)
  PROVE  Allowed(op, s, TRUE)
BY DEF Allowed, CancelAllowed, StartCancellationAllowed

(* A step changes the decision of one call at most, and only Decide takes  *)
(* one.                                                                    *)
LEMMA DecisionsAreTaken ==
  ASSUME TypeOK, [Next]_vars, NEW d \in Calls, calls'[d].at = "decided"
  PROVE  Decide(d) \/ calls'[d] = calls[d]
<1>1. ASSUME NEW c \in Calls, NEW b \in Bookings, Insert(c, b)
      PROVE  calls'[d] = calls[d]
  BY <1>1 DEF Insert, TypeOK, Idle
<1>2. ASSUME NEW c \in Calls, NEW op \in Ops, NEW b \in Bookings, Load(c, op, b)
      PROVE  calls'[d] = calls[d]
  BY <1>2 DEF Load, TypeOK, Idle
<1>3. ASSUME NEW c \in Calls, Decide(c)
      PROVE  Decide(d) \/ calls'[d] = calls[d]
  BY <1>3 DEF Decide, TypeOK
<1>4. ASSUME NEW c \in Calls, Reject(c) \/ Abort(c)
      PROVE  calls'[d] = calls[d]
  BY <1>4 DEF Reject, Abort, TypeOK, Idle
<1>5. ASSUME NEW c \in Calls, Commit(c) \/ Update(c)
      PROVE  calls'[d] = calls[d]
  <2>1. calls[c] \in Loaded /\ Stored(c)
    BY <1>5, CallShape DEF Commit, Update
  <2>2. d # c
    BY <2>1 DEF Stored, TypeOK, Idle, Loaded
  <2> QED
    BY <2>1, <2>2 DEF Stored, TypeOK
<1>6. ASSUME NEW c \in Calls, Publish(c) \/ PublishFails(c)
      PROVE  calls'[d] = calls[d]
  <2>1. calls[c] \in Publishing
    BY <1>6, CallShape DEF Publish, PublishFails
  <2> QED
    BY <1>6, <2>1 DEF Publish, PublishFails, Published, TypeOK, Idle, Publishing
<1> QED
  BY <1>1, <1>2, <1>3, <1>4, <1>5, <1>6 DEF Next, Tick, vars

(* A call that has decided was accepted by the domain method, on some day. *)
LEMMA DecisionsAreAllowed == Spec => []DecisionIsAllowed
<1>1. Init => DecisionIsAllowed
  BY DEF Init, DecisionIsAllowed, Idle
<1>2. TypeOK /\ DecisionIsAllowed /\ [Next]_vars => DecisionIsAllowed'
  <2> SUFFICES ASSUME TypeOK, DecisionIsAllowed, [Next]_vars,
                      NEW d \in Calls, calls'[d].at = "decided"
               PROVE  Allowed(calls'[d].op, calls'[d].seen, TRUE)
    BY DEF DecisionIsAllowed
  <2>1. CASE calls'[d] = calls[d]
    BY <2>1 DEF DecisionIsAllowed
  <2>2. ASSUME Decide(d)
        PROVE  Allowed(calls'[d].op, calls'[d].seen, TRUE)
    <3>1. calls[d] \in Loaded
      BY <2>2, CallShape DEF Decide
    <3>2. calls'[d].op = calls[d].op /\ calls'[d].seen = calls[d].seen
      BY <2>2, <3>1 DEF Decide, TypeOK, Loaded
    <3>3. StartsLater(calls[d].booking) \in BOOLEAN
      BY DEF StartsLater
    <3> QED
      BY <2>2, <3>2, <3>3, AllowedOnSomeDay DEF Decide
  <2> QED
    BY <2>1, <2>2, DecisionsAreTaken
<1> QED
  BY <1>1, <1>2, TypeCorrect, PTL DEF Spec

-----------------------------------------------------------------------------
(* A deployment that runs the transactional Confirm and Cancel only        *)
(* implements the life cycle: the transition a call decided on is still    *)
(* the one its commit makes.                                               *)
THEOREM TransactionsImplementLifecycle ==
  ASSUME Ops \subseteq LockedOps
  PROVE  Spec => ImplementsLifecycle
<1>1. Init => Lifecycle!Init
  BY DEF Init, Lifecycle!Init, Absent, Lifecycle!Absent
<1>2. TypeOK /\ LockedReadIsCurrent /\ DecisionIsAllowed /\ [Next]_vars
        => [Lifecycle!Next]_rows
  <2> SUFFICES ASSUME TypeOK, LockedReadIsCurrent, DecisionIsAllowed, [Next]_vars
               PROVE  Lifecycle!Next \/ rows' = rows
    OBVIOUS
  <2>1. ASSUME NEW c \in Calls, NEW b \in Bookings, Insert(c, b)
        PROVE  Lifecycle!Create(b)
    BY <2>1 DEF Insert, Lifecycle!Create, Lifecycle!Move, Lifecycle!Absent, Absent,
                Lifecycle!AwaitsConfirmation, AwaitsConfirmation
  <2>2. ASSUME NEW c \in Calls, Commit(c)
        PROVE  Lifecycle!Next
    <3> DEFINE b == calls[c].booking
    <3>1. calls[c] \in Loaded
      BY <2>2, CallShape DEF Commit
    <3>2. b \in Bookings /\ rows[b] = calls[c].seen
      BY <2>2, <3>1 DEF Commit, LockedReadIsCurrent, Loaded
    <3>3. Allowed(calls[c].op, rows[b], TRUE)
      BY <2>2, <3>2 DEF Commit, DecisionIsAllowed
    <3>4. CASE calls[c].op = "Confirm"
      <4>1. Lifecycle!Confirm(b)
        BY <2>2, <3>2, <3>3, <3>4
           DEF Commit, Allowed, ConfirmAllowed, ConfirmOps, CancelOps, Target,
               Lifecycle!Confirm, Lifecycle!Move,
               AwaitsConfirmation, CancellationPending, Confirmed,
               Lifecycle!AwaitsConfirmation, Lifecycle!CancellationPending,
               Lifecycle!Confirmed
      <4> QED
        BY <3>2, <4>1 DEF Lifecycle!Next
    <3>5. CASE calls[c].op = "Cancel"
      <4>1. Lifecycle!Cancel(b)
        BY <2>2, <3>2, <3>3, <3>5
           DEF Commit, Allowed, CancelAllowed, ConfirmOps, CancelOps, Target,
               Lifecycle!Cancel, Lifecycle!Move,
               AwaitsConfirmation, Confirmed, Cancelled,
               Lifecycle!AwaitsConfirmation, Lifecycle!Confirmed,
               Lifecycle!Cancelled, Lifecycle!CancellationPending
      <4> QED
        BY <3>2, <4>1 DEF Lifecycle!Next
    <3> QED
      BY <2>2, <3>4, <3>5 DEF Commit, LockedOps
  <2>3. ASSUME NEW c \in Calls
        PROVE  ~ Update(c)
    BY <2>3, CallShape DEF Update, Loaded, LockedOps, PlainOps
  <2> QED
    BY <2>1, <2>2, <2>3
       DEF Next, Load, Decide, Reject, Publish, PublishFails, Abort, Tick, vars,
           Lifecycle!Next
<1> QED
  BY <1>1, <1>2, TypeCorrect, LockedReadStaysCurrent, DecisionsAreAllowed, PTL
     DEF Spec, ImplementsLifecycle, Lifecycle!Spec

-----------------------------------------------------------------------------
(* In the life cycle, no transition leaves cancelled.                      *)
LEMMA NothingFollowsCancelled ==
  ASSUME TypeOK, [Lifecycle!Next]_rows, NEW b \in Bookings, rows[b] = Cancelled
  PROVE  rows'[b] = Cancelled
<1>1. CASE Lifecycle!Next
  <2>1. PICK x \in Bookings :
          \/ Lifecycle!Create(x) \/ Lifecycle!Confirm(x)
          \/ Lifecycle!BeginCancellation(x) \/ Lifecycle!Cancel(x)
          \/ Lifecycle!Rollback(x)
    BY <1>1 DEF Lifecycle!Next
  <2>2. CASE x # b
    BY <2>1, <2>2 DEF TypeOK, Lifecycle!Create, Lifecycle!Confirm,
         Lifecycle!BeginCancellation, Lifecycle!Cancel, Lifecycle!Rollback, Lifecycle!Move
  <2>3. CASE x = b
    BY <2>1, <2>3 DEF Lifecycle!Create, Lifecycle!Confirm,
         Lifecycle!BeginCancellation, Lifecycle!Cancel, Lifecycle!Rollback,
         Lifecycle!Move, Lifecycle!Absent, Lifecycle!AwaitsConfirmation,
         Lifecycle!Confirmed, Lifecycle!CancellationPending, Cancelled
  <2> QED
    BY <2>2, <2>3
<1> QED
  BY <1>1

(* The same deployment never takes a booking out of cancelled.             *)
THEOREM TransactionsNeverRevive ==
  ASSUME Ops \subseteq LockedOps
  PROVE  Spec => CancelledIsFinal
<1>1. TypeOK /\ [Lifecycle!Next]_rows
        => [\A b \in Bookings : rows[b] = Cancelled => rows'[b] = Cancelled]_vars
  BY NothingFollowsCancelled
<1> QED
  BY <1>1, TypeCorrect, TransactionsImplementLifecycle, PTL
     DEF ImplementsLifecycle, Lifecycle!Spec, CancelledIsFinal

-----------------------------------------------------------------------------
(* A cancel that still has to tell Catalog has its row cancelled: together *)
(* with CancelCommandIsHonoured an inductive invariant.                    *)
CancelIsStored ==
  \A c \in Calls :
    calls[c].at = "stored" /\ calls[c].op \in CancelOps =>
      rows[calls[c].booking] = Cancelled

(* The same deployment asks Catalog to cancel a job only for a booking     *)
(* that is cancelled and stays so.                                         *)
THEOREM TransactionsHonourCancelCommands ==
  ASSUME Ops \subseteq LockedOps
  PROVE  Spec => []CancelCommandIsHonoured
<1> DEFINE Inv == CancelIsStored /\ CancelCommandIsHonoured
<1> DEFINE Stays == \A b \in Bookings : rows[b] = Cancelled => rows'[b] = Cancelled
<1>1. Init => Inv
  BY DEF Init, CancelIsStored, CancelCommandIsHonoured, Idle
<1>2. TypeOK /\ Inv /\ [Next]_vars /\ [Stays]_vars => Inv'
  <2> SUFFICES ASSUME TypeOK, Inv, [Next]_vars, [Stays]_vars PROVE Inv'
    OBVIOUS
  <2>0. Stays
    BY DEF vars
  <2>1. ASSUME NEW d \in Calls, calls[d].at = "stored", calls[d].op \in CancelOps
        PROVE  calls[d].booking \in Bookings /\ rows'[calls[d].booking] = Cancelled
    BY <2>0, <2>1, CallShape DEF CancelIsStored, Publishing
  <2>2. ASSUME NEW d \in Calls, calls'[d].at = "stored", calls'[d].op \in CancelOps
        PROVE  rows'[calls'[d].booking] = Cancelled
    <3>1. CASE calls'[d] = calls[d]
      BY <2>1, <2>2, <3>1
    <3>2. ASSUME NEW c \in Calls, Commit(c) \/ Update(c)
          PROVE  rows'[calls'[d].booking] = Cancelled
      <4>1. calls[c] \in Loaded /\ Stored(c)
        BY <3>2, CallShape DEF Commit, Update
      <4>2. CASE d = c
        <5>1. calls'[d].op = calls[c].op /\ calls'[d].booking = calls[c].booking
          BY <2>2, <4>1, <4>2 DEF Stored, TypeOK, Idle, Loaded
        <5>2. rows' = [rows EXCEPT ![calls[c].booking] = Target(calls[c].op)]
          BY <3>2 DEF Commit, Update
        <5> QED
          BY <2>2, <4>1, <5>1, <5>2 DEF Target, TypeOK, Loaded, CancelOps, ConfirmOps
      <4>3. CASE d # c
        BY <2>1, <2>2, <4>1, <4>3 DEF Stored, TypeOK
      <4> QED
        BY <4>2, <4>3
    <3>3. ASSUME NEW c \in Calls, Publish(c) \/ PublishFails(c)
          PROVE  rows'[calls'[d].booking] = Cancelled
      <4>1. calls[c] \in Publishing /\ calls[c].at = "stored" /\ Published(c)
        BY <3>3, CallShape DEF Publish, PublishFails
      <4>2. CASE d = c
        <5>1. /\ calls'[d].op = calls[d].op
              /\ calls'[d].booking = calls[d].booking
          BY <2>2, <4>1, <4>2 DEF Published, TypeOK, Idle, Publishing
        <5> QED
          BY <2>1, <2>2, <4>1, <4>2, <5>1
      <4>3. CASE d # c
        BY <2>1, <2>2, <4>1, <4>3 DEF Published, TypeOK
      <4> QED
        BY <4>2, <4>3
    <3>4. ASSUME NEW c \in Calls, NEW b \in Bookings, Insert(c, b)
          PROVE  calls'[d] = calls[d]
      BY <2>2, <3>4 DEF Insert, TypeOK, Idle, CancelOps
    <3>5. ASSUME NEW c \in Calls, NEW op \in Ops, NEW b \in Bookings, Load(c, op, b)
          PROVE  calls'[d] = calls[d]
      BY <2>2, <3>5 DEF Load, TypeOK, Idle
    <3>6. ASSUME NEW c \in Calls, Decide(c)
          PROVE  calls'[d] = calls[d]
      <4>1. calls[c] \in Loaded
        BY <3>6, CallShape DEF Decide
      <4> QED
        BY <2>2, <3>6, <4>1 DEF Decide, TypeOK, Loaded
    <3>7. ASSUME NEW c \in Calls, Reject(c) \/ Abort(c)
          PROVE  calls'[d] = calls[d]
      BY <2>2, <3>7 DEF Reject, Abort, TypeOK, Idle
    <3> QED
      BY <3>1, <3>2, <3>3, <3>4, <3>5, <3>6, <3>7 DEF Next, Tick, vars
  <2>3. ASSUME NEW b \in Bookings, [kind |-> "cancel_job", booking |-> b] \in published'
        PROVE  rows'[b] = Cancelled
    <3>1. CASE [kind |-> "cancel_job", booking |-> b] \in published
      BY <2>0, <3>1 DEF CancelCommandIsHonoured
    <3>2. CASE [kind |-> "cancel_job", booking |-> b] \notin published
      <4>1. PICK c \in Calls : Publish(c)
        BY <2>3, <3>2 DEF Next, vars, Insert, Load, Decide, Reject, Commit, Update,
                          PublishFails, Abort, Tick
      <4>2. /\ calls[c].booking = b
            /\ Commands(calls[c].op)[calls[c].sent + 1] = "cancel_job"
        BY <2>3, <3>2, <4>1 DEF Publish
      <4>3. calls[c] \in Publishing
        BY <4>1, CallShape DEF Publish
      <4>4. calls[c].op \in CancelOps
        <5>1. calls[c].op \in {"Create", "Confirm", "Cancel"}
          BY <4>3 DEF Publishing, LockedOps
        <5>2. calls[c].op # "Confirm"
          <6>1. CommandCount("Confirm") = 0
            BY DEF CommandCount, Commands, CancelOps
          <6>2. calls[c].sent \in {0, 1} /\ calls[c].sent < CommandCount(calls[c].op)
            BY <4>1, <4>3 DEF Publish, TypeOK, Publishing
          <6> QED
            BY <6>1, <6>2
        <5>3. calls[c].op # "Create"
          <6>1. ASSUME calls[c].op = "Create"
                PROVE  FALSE
            <7>1. calls[c].sent < 1 /\ calls[c].sent \in {0, 1}
              BY <4>1, <4>3, <6>1, CommandsOf DEF Publish, TypeOK, Publishing
            <7>2. Commands("Create")[1] = "create_job"
              BY DEF Commands
            <7> QED
              BY <4>2, <6>1, <7>1, <7>2
          <6> QED
            BY <6>1
        <5> QED
          BY <5>1, <5>2, <5>3 DEF CancelOps
      <4> QED
        BY <2>1, <4>1, <4>2, <4>4 DEF Publish
    <3> QED
      BY <3>1, <3>2
  <2> QED
    BY <2>2, <2>3 DEF CancelIsStored, CancelCommandIsHonoured
<1> QED
  BY <1>1, <1>2, TypeCorrect, TransactionsNeverRevive, PTL DEF Spec, CancelledIsFinal

-----------------------------------------------------------------------------
(* Only a commit adds to the outbox.                                       *)
LEMMA OutboxGrowsByCommit ==
  ASSUME TypeOK, [Next]_vars, outbox' # outbox
  PROVE  \E c \in Calls : Commit(c)
BY DEF Next, vars, Insert, Load, Decide, Reject, Update, Publish, PublishFails, Abort, Tick

(* What a commit does to the table and to the outbox, in terms of the row  *)
(* as it was.                                                              *)
LEMMA CommitAppends ==
  ASSUME TypeOK, LockedReadIsCurrent, NEW c \in Calls, Commit(c)
  PROVE  /\ calls[c] \in Loaded
         /\ EventOf(c) \in Event
         /\ EventOf(c).booking = calls[c].booking
         /\ EventOf(c).from = rows[calls[c].booking]
         /\ EventOf(c).to = rows'[calls[c].booking]
         /\ EventOf(c).to = Target(calls[c].op)
         /\ EventOf(c).timestamp = calls[c].on
         /\ \A b \in Bookings : b # calls[c].booking => rows'[b] = rows[b]
         /\ Len(outbox') = Len(outbox) + 1
         /\ \A i \in 1 .. Len(outbox) : outbox'[i] = outbox[i]
         /\ outbox'[Len(outbox) + 1] = EventOf(c)
<1>1. calls[c] \in Loaded
  BY CallShape DEF Commit
<1>2. EventOf(c) \in Event
  BY <1>1, TargetIsAStatus DEF EventOf, Event, Loaded
<1>3. outbox \in Seq(Event) /\ outbox' = Append(outbox, EventOf(c))
  BY DEF Commit, TypeOK
<1>4. /\ Len(outbox') = Len(outbox) + 1
      /\ \A i \in 1 .. Len(outbox) : outbox'[i] = outbox[i]
      /\ outbox'[Len(outbox) + 1] = EventOf(c)
  BY <1>2, <1>3
<1>5. rows' = [rows EXCEPT ![calls[c].booking] = Target(calls[c].op)]
  BY DEF Commit
<1>6. /\ EventOf(c).booking = calls[c].booking
      /\ EventOf(c).from = calls[c].seen
      /\ EventOf(c).to = Target(calls[c].op)
      /\ EventOf(c).timestamp = calls[c].on
  BY DEF EventOf
<1>7. calls[c].seen = rows[calls[c].booking]
  BY DEF Commit, LockedReadIsCurrent
<1>8. calls[c].booking \in Bookings
  BY <1>1 DEF Loaded
<1>9. /\ rows'[calls[c].booking] = Target(calls[c].op)
      /\ \A b \in Bookings : b # calls[c].booking => rows'[b] = rows[b]
  BY <1>5, <1>8 DEF TypeOK
<1> QED
  BY <1>1, <1>2, <1>4, <1>6, <1>7, <1>9

(* Whatever unlocked writers do beside it, the message a transaction adds  *)
(* to the outbox is the transition that its commit makes.                  *)
THEOREM MessagesAreTransitions == Spec => OutboxMessageIsTheTransition
<1>1. TypeOK /\ LockedReadIsCurrent /\ [Next]_vars
        => [\A i \in DOMAIN outbox' \ DOMAIN outbox :
              /\ outbox'[i].from = rows[outbox'[i].booking]
              /\ outbox'[i].to = rows'[outbox'[i].booking]]_vars
  <2> SUFFICES ASSUME TypeOK, LockedReadIsCurrent, [Next]_vars,
                      NEW i \in DOMAIN outbox', i \notin DOMAIN outbox
               PROVE  /\ outbox'[i].from = rows[outbox'[i].booking]
                      /\ outbox'[i].to = rows'[outbox'[i].booking]
    OBVIOUS
  <2>1. PICK c \in Calls : Commit(c)
    BY OutboxGrowsByCommit
  <2>2. outbox \in Seq(Event) /\ outbox' = Append(outbox, EventOf(c))
    BY <2>1 DEF Commit, TypeOK
  <2>3. i = Len(outbox) + 1
    BY <2>2, CommitAppends, <2>1
  <2> QED
    BY <2>1, <2>3, CommitAppends
<1> QED
  BY <1>1, TypeCorrect, LockedReadStaysCurrent, PTL DEF Spec, OutboxMessageIsTheTransition

-----------------------------------------------------------------------------
(* A deployment of the transactional operations writes the history of      *)
(* every row into the outbox: nothing but a commit moves a row that exists. *)
THEOREM TransactionsReplay ==
  ASSUME Ops \subseteq LockedOps
  PROVE  Spec => []OutboxReplays
<1>1. Init => OutboxReplays
  BY DEF Init, OutboxReplays
<1>2. TypeOK /\ LockedReadIsCurrent /\ OutboxReplays /\ [Next]_vars => OutboxReplays'
  <2> SUFFICES ASSUME TypeOK, LockedReadIsCurrent, OutboxReplays, [Next]_vars
               PROVE  OutboxReplays'
    OBVIOUS
  <2>0. /\ outbox \in Seq(Event)
        /\ DOMAIN outbox = 1 .. Len(outbox)
        /\ Len(outbox) \in Nat
        /\ \A i \in DOMAIN outbox : outbox[i] \in Event
    BY DEF TypeOK
  <2>1. ASSUME NEW c \in Calls, NEW b \in Bookings, Insert(c, b)
        PROVE  OutboxReplays'
    <3>1. /\ rows[b] = Absent /\ rows'[b] = AwaitsConfirmation
          /\ \A a \in Bookings : a # b => rows'[a] = rows[a]
          /\ outbox' = outbox
      BY <2>1 DEF Insert, TypeOK
    <3>2. ASSUME NEW i \in DOMAIN outbox, LastOf(i)
          PROVE  rows'[outbox[i].booking] = outbox[i].to
      <4>1. rows[outbox[i].booking] = outbox[i].to /\ outbox[i] \in Event
        BY <2>0, <3>2 DEF OutboxReplays
      <4>2. outbox[i].booking # b
        BY <3>1, <4>1, Sentinels DEF Event
      <4> QED
        BY <3>1, <4>1, <4>2 DEF Event
    <3>3. \A i, j \in DOMAIN outbox : Precedes(i, j) => outbox[i].to = outbox[j].from
      BY DEF OutboxReplays
    <3>4. ASSUME NEW a \in Bookings
          PROVE  \/ rows'[a] \in {Absent, AwaitsConfirmation}
                 \/ \E i \in DOMAIN outbox :
                      outbox[i].booking = a /\ outbox[i].from = AwaitsConfirmation
      BY <3>1 DEF OutboxReplays
    <3> QED
      BY <3>1, <3>2, <3>3, <3>4 DEF OutboxReplays, Precedes, LastOf
  <2>2. ASSUME NEW c \in Calls, Commit(c)
        PROVE  OutboxReplays'
    <3> DEFINE b == calls[c].booking
               n == Len(outbox) + 1
               m == EventOf(c)
    <3>1. /\ b \in Bookings
          /\ m.booking = b /\ m.from = rows[b] /\ m.to = rows'[b]
          /\ \A a \in Bookings : a # b => rows'[a] = rows[a]
          /\ Len(outbox') = n
          /\ \A i \in 1 .. Len(outbox) : outbox'[i] = outbox[i]
          /\ outbox'[n] = m
          /\ m \in Event
      BY <2>2, CommitAppends DEF Loaded
    <3>2. DOMAIN outbox' = 1 .. n
      BY <2>0, <2>2, <3>1 DEF Commit
    <3>3. ASSUME NEW i \in 1 .. Len(outbox), NEW k \in i + 1 .. n,
                 \A l \in i + 1 .. k - 1 : outbox'[l].booking # outbox'[k].booking,
                 outbox'[i].booking = outbox'[k].booking
          PROVE  outbox'[i].to = outbox'[k].from
      <4>1. CASE k \in 1 .. Len(outbox)
        <5>1. Precedes(i, k)
          BY <2>0, <3>1, <3>3, <4>1 DEF Precedes
        <5> QED
          BY <2>0, <3>1, <4>1, <5>1 DEF OutboxReplays
      <4>2. CASE k = n
        <5>1. LastOf(i)
          BY <2>0, <3>1, <3>3, <4>2 DEF LastOf
        <5>2. rows[outbox[i].booking] = outbox[i].to
          BY <2>0, <5>1 DEF OutboxReplays
        <5> QED
          BY <3>1, <3>3, <4>2, <5>2
      <4> QED
        BY <2>0, <3>3, <4>1, <4>2
    <3>4. \A i, j \in DOMAIN outbox' : Precedes(i, j)' => outbox'[i].to = outbox'[j].from
      BY <2>0, <3>2, <3>3 DEF Precedes
    <3>5. ASSUME NEW i \in DOMAIN outbox', LastOf(i)'
          PROVE  rows'[outbox'[i].booking] = outbox'[i].to
      <4>1. CASE i = n
        BY <3>1, <4>1
      <4>2. CASE i \in 1 .. Len(outbox)
        <5>1. n \in i + 1 .. Len(outbox')
          BY <2>0, <3>1, <4>2
        <5>2. outbox[i].booking # b
          BY <3>1, <3>5, <4>2, <5>1 DEF LastOf
        <5>3. LastOf(i)
          BY <2>0, <3>1, <3>5, <4>2 DEF LastOf
        <5>4. rows[outbox[i].booking] = outbox[i].to /\ outbox[i].booking \in Bookings
          BY <2>0, <4>2, <5>3 DEF OutboxReplays, Event
        <5> QED
          BY <3>1, <4>2, <5>2, <5>4
      <4> QED
        BY <2>0, <3>2, <4>1, <4>2
    <3>6. ASSUME NEW a \in Bookings
          PROVE  \/ rows'[a] \in {Absent, AwaitsConfirmation}
                 \/ \E i \in DOMAIN outbox' :
                      outbox'[i].booking = a /\ outbox'[i].from = AwaitsConfirmation
      <4>1. CASE \E i \in DOMAIN outbox :
                   outbox[i].booking = a /\ outbox[i].from = AwaitsConfirmation
        BY <2>0, <3>1, <3>2, <4>1
      <4>2. CASE rows[a] \in {Absent, AwaitsConfirmation} /\ a # b
        BY <3>1, <4>2
      <4>3. CASE rows[a] \in {Absent, AwaitsConfirmation} /\ a = b
        <5>1. m.from = AwaitsConfirmation
          BY <3>1, <4>3, Sentinels DEF Event
        <5>2. n \in DOMAIN outbox'
          BY <2>0, <3>2
        <5> QED
          BY <3>1, <4>3, <5>1, <5>2
      <4> QED
        BY <4>1, <4>2, <4>3 DEF OutboxReplays
    <3> QED
      BY <3>4, <3>5, <3>6 DEF OutboxReplays
  <2>3. ASSUME NEW c \in Calls
        PROVE  ~ Update(c)
    BY <2>3, CallShape DEF Update, Loaded, LockedOps, PlainOps
  <2>4. CASE UNCHANGED <<rows, outbox>>
    BY <2>4 DEF OutboxReplays, Precedes, LastOf
  <2> QED
    BY <2>1, <2>2, <2>3, <2>4
       DEF Next, Load, Decide, Reject, Publish, PublishFails, Abort, Tick, vars
<1> QED
  BY <1>1, <1>2, TypeCorrect, LockedReadStaysCurrent, PTL DEF Spec

-----------------------------------------------------------------------------
(* A decision was taken on a day that has come, for the reason that held   *)
(* on that day, and after every message about its booking.                 *)
DecisionIsOfItsDay ==
  \A c \in Calls :
    calls[c].at = "decided" =>
      /\ Allowed(calls[c].op, calls[c].seen, calls[c].on < StartDay[calls[c].booking])
      /\ calls[c].on <= today
      /\ \A i \in DOMAIN outbox :
           outbox[i].booking = calls[c].booking => outbox[i].timestamp <= calls[c].on

(* No message is dated in the future.                                      *)
MessagesArePast == \A i \in DOMAIN outbox : outbox[i].timestamp <= today

LateConfirmationInv == DecisionIsOfItsDay /\ MessagesArePast /\ LateConfirmationStands

(* In a transactional deployment nobody cancels a booking that was         *)
(* confirmed on or after its first day, not even a call that looked at the *)
(* clock before midnight: it would have had to hold the row lock since.    *)
THEOREM TransactionsRespectLateConfirmations ==
  ASSUME Ops \subseteq LockedOps
  PROVE  Spec => []LateConfirmationStands
<1>1. Init => LateConfirmationInv
  BY DEF Init, LateConfirmationInv, DecisionIsOfItsDay, MessagesArePast,
         LateConfirmationStands, Idle
<1>2. TypeOK /\ LockedReadIsCurrent /\ LateConfirmationInv /\ [Next]_vars
        => LateConfirmationInv'
  <2> SUFFICES ASSUME TypeOK, LockedReadIsCurrent, DecisionIsOfItsDay, MessagesArePast,
                      LateConfirmationStands, [Next]_vars
               PROVE  LateConfirmationInv'
    BY DEF LateConfirmationInv
  <2>0. /\ outbox \in Seq(Event)
        /\ Len(outbox) \in Nat
        /\ \A i \in DOMAIN outbox : /\ outbox[i].booking \in Bookings
                                    /\ outbox[i].timestamp \in Nat
        /\ today \in Nat /\ today' \in Nat /\ today <= today'
    <3>1. today \in Nat /\ \A t \in 0 .. LastDay : t \in Nat
      BY ServiceAssumption DEF TypeOK
    <3>2. today' = today \/ today' = today + 1
      BY DEF Next, vars, Insert, Load, Decide, Reject, Commit, Update, Publish,
             PublishFails, Abort, Tick
    <3>3. outbox \in Seq(Event)
      BY DEF TypeOK
    <3>4. \A i \in DOMAIN outbox : outbox[i] \in Event
      BY <3>3
    <3>5. \A e \in Event : e.booking \in Bookings /\ e.timestamp \in Nat
      BY <3>1 DEF Event
    <3> QED
      BY <3>1, <3>2, <3>3, <3>4, <3>5
  <2>1. ASSUME NEW c \in Calls
        PROVE  ~ Update(c)
    BY <2>1, CallShape DEF Update, Loaded, LockedOps, PlainOps
  <2>2. MessagesArePast'
    <3>1. CASE outbox' = outbox
      BY <2>0, <3>1 DEF MessagesArePast
    <3>2. CASE outbox' # outbox
      <4>1. PICK c \in Calls : Commit(c)
        BY <3>2, OutboxGrowsByCommit
      <4>2. outbox' = Append(outbox, EventOf(c))
        BY <4>1 DEF Commit
      <4>3. EventOf(c).timestamp <= today
        BY <4>1, CommitAppends DEF Commit, DecisionIsOfItsDay
      <4>4. today' = today
        BY <4>1 DEF Commit
      <4> QED
        BY <2>0, <4>1, <4>2, <4>3, <4>4, CommitAppends DEF MessagesArePast
    <3> QED
      BY <3>1, <3>2
  <2>3. DecisionIsOfItsDay'
    <3> SUFFICES ASSUME NEW d \in Calls, calls'[d].at = "decided"
                 PROVE  /\ Allowed(calls'[d].op, calls'[d].seen,
                                   calls'[d].on < StartDay[calls'[d].booking])
                        /\ calls'[d].on <= today'
                        /\ \A i \in DOMAIN outbox' :
                             outbox'[i].booking = calls'[d].booking
                               => outbox'[i].timestamp <= calls'[d].on
      BY DEF DecisionIsOfItsDay
    <3>1. CASE Decide(d)
      <4>1. calls[d] \in Loaded
        BY <3>1, CallShape DEF Decide
      <4>2. /\ calls'[d].op = calls[d].op
            /\ calls'[d].seen = calls[d].seen
            /\ calls'[d].booking = calls[d].booking
            /\ calls'[d].on = today
        BY <3>1, <4>1 DEF Decide, TypeOK, Loaded
      <4>3. outbox' = outbox /\ today' = today
        BY <3>1 DEF Decide
      <4>4. Allowed(calls[d].op, calls[d].seen, today < StartDay[calls[d].booking])
        BY <3>1 DEF Decide, StartsLater
      <4> QED
        BY <2>0, <4>2, <4>3, <4>4 DEF MessagesArePast
    <3>2. CASE calls'[d] = calls[d]
      <4>1. calls[d] \in Loaded /\ calls[d].on \in Nat
        BY <3>2, CallShape, ServiceAssumption DEF Loaded
      <4>2. /\ Allowed(calls[d].op, calls[d].seen,
                       calls[d].on < StartDay[calls[d].booking])
            /\ calls[d].on <= today'
        BY <2>0, <3>2, <4>1 DEF DecisionIsOfItsDay
      <4>3. CASE outbox' = outbox
        BY <3>2, <4>2, <4>3 DEF DecisionIsOfItsDay
      <4>4. CASE outbox' # outbox
        <5>1. PICK c \in Calls : Commit(c)
          BY <4>4, OutboxGrowsByCommit
        <5>2. c # d
          <6>1. calls[c] \in Loaded /\ Stored(c) /\ calls[c].at = "decided"
            BY <5>1, CallShape DEF Commit
          <6> QED
            BY <3>2, <6>1 DEF Stored, TypeOK, Idle, Loaded
        <5>3. calls[c].booking # calls[d].booking
          <6>1. /\ lock[calls[c].booking] = c
            BY <5>1 DEF Commit, LockedReadIsCurrent
          <6>2. lock[calls[d].booking] = d
            BY <3>2, <4>1 DEF LockedReadIsCurrent, Loaded
          <6> QED
            BY <5>2, <6>1, <6>2
        <5>4. /\ outbox' = Append(outbox, EventOf(c))
              /\ EventOf(c).booking = calls[c].booking
              /\ EventOf(c) \in Event
          BY <5>1, CommitAppends DEF Commit
        <5>5. ASSUME NEW i \in DOMAIN outbox', outbox'[i].booking = calls[d].booking
              PROVE  outbox'[i].timestamp <= calls[d].on
          <6>1. i \in DOMAIN outbox /\ outbox'[i] = outbox[i]
            BY <2>0, <5>3, <5>4, <5>5
          <6> QED
            BY <3>2, <5>5, <6>1 DEF DecisionIsOfItsDay
        <5> QED
          BY <3>2, <4>2, <5>5
      <4> QED
        BY <4>3, <4>4
    <3> QED
      BY <3>1, <3>2, DecisionsAreTaken
  <2>4. LateConfirmationStands'
    <3> SUFFICES ASSUME NEW i \in DOMAIN outbox',
                        outbox'[i].to = Confirmed,
                        outbox'[i].timestamp >= StartDay[outbox'[i].booking]
                 PROVE  rows'[outbox'[i].booking] = Confirmed
      BY DEF LateConfirmationStands
    <3>1. ASSUME NEW c \in Calls, NEW b \in Bookings, Insert(c, b)
          PROVE  rows'[outbox'[i].booking] = Confirmed
      <4>1. outbox' = outbox /\ rows[outbox[i].booking] = Confirmed
        BY <3>1 DEF Insert, LateConfirmationStands
      <4>2. b # outbox[i].booking
        BY <3>1, <4>1, Sentinels DEF Insert, BookingStatus
      <4> QED
        BY <2>0, <3>1, <4>1, <4>2 DEF Insert, TypeOK
    <3>2. ASSUME NEW c \in Calls, Commit(c)
          PROVE  rows'[outbox'[i].booking] = Confirmed
      <4>1. /\ outbox' = Append(outbox, EventOf(c))
            /\ EventOf(c) \in Event
            /\ EventOf(c).booking = calls[c].booking
            /\ EventOf(c).from = rows[calls[c].booking]
            /\ EventOf(c).to = rows'[calls[c].booking]
            /\ EventOf(c).timestamp = calls[c].on
            /\ calls[c] \in Loaded
            /\ \A b \in Bookings : b # calls[c].booking => rows'[b] = rows[b]
        BY <3>2, CommitAppends DEF Commit
      <4>2. CASE i \notin DOMAIN outbox
        <5>1. outbox'[i] = EventOf(c)
          BY <2>0, <4>1, <4>2
        <5> QED
          BY <4>1, <5>1
      <4>3. CASE i \in DOMAIN outbox
        <5>1. outbox'[i] = outbox[i] /\ outbox[i].booking \in Bookings
          BY <2>0, <4>1, <4>3
        <5>2. rows[outbox[i].booking] = Confirmed
          BY <4>3, <5>1 DEF LateConfirmationStands
        <5>3. CASE outbox[i].booking # calls[c].booking
          BY <4>1, <5>1, <5>2, <5>3
        <5>4. CASE outbox[i].booking = calls[c].booking
          <6>1. /\ calls[c].seen = Confirmed
                /\ calls[c].op \in LockedOps
                /\ calls[c].at = "decided"
            BY <3>2, <5>2, <5>4 DEF Commit, LockedReadIsCurrent
          <6>2. /\ outbox[i].timestamp <= calls[c].on
                /\ Allowed(calls[c].op, Confirmed,
                           calls[c].on < StartDay[calls[c].booking])
            BY <4>3, <5>4, <6>1 DEF DecisionIsOfItsDay
          <6>3. calls[c].on < StartDay[calls[c].booking]
            BY <6>1, <6>2 DEF Allowed, LockedOps, ConfirmOps, ConfirmAllowed, CancelOps,
               CancelAllowed, AwaitsConfirmation, CancellationPending, Confirmed
          <6>4. /\ calls[c].on \in Nat
                /\ StartDay[calls[c].booking] \in Nat
                /\ outbox[i].timestamp \in Nat
            BY <2>0, <4>1, <4>3, ServiceAssumption DEF Loaded
          <6> QED
            BY <5>1, <5>4, <6>2, <6>3, <6>4
        <5> QED
          BY <5>3, <5>4
      <4> QED
        BY <4>2, <4>3
    <3>3. CASE UNCHANGED <<rows, outbox>>
      BY <3>3 DEF LateConfirmationStands
    <3> QED
      BY <2>1, <3>1, <3>2, <3>3
         DEF Next, Load, Decide, Reject, Publish, PublishFails, Abort, Tick, vars
  <2> QED
    BY <2>2, <2>3, <2>4 DEF LateConfirmationInv
<1> QED
  BY <1>1, <1>2, TypeCorrect, LockedReadStaysCurrent, PTL DEF Spec, LateConfirmationInv
=============================================================================
