------------------------ MODULE CancellationWorkerProofs ------------------------
(***************************************************************************)
(* Theorems about CancellationWorker, for any finite set of bookings, any  *)
(* workers, batches of any size and any number of crashes.                 *)
(***************************************************************************)
EXTENDS CancellationWorker, TLAPS

(* What the order of updated_at and the count of the overdue are, apart    *)
(* from the rows they are about.                                           *)
OrderOK ==
  /\ byUpdate \in Seq(Bookings)
  /\ \A i, j \in DOMAIN byUpdate : byUpdate[i] = byUpdate[j] => i = j
  /\ overdue \in 0 .. Len(byUpdate)

(* What a worker holds was pending when it was fetched: since then it may  *)
(* have been confirmed or cancelled, but it cannot wait for Catalog again. *)
FetchedIsPastWaiting ==
  \A w \in Workers : \A i \in DOMAIN batch[w] :
    rows[batch[w][i]] \notin {Absent, AwaitsConfirmation}

WorkerInv ==
  /\ TypeOK
  /\ FetchedIsPastWaiting
  /\ WaitingIsLeftAlone

(* An update leaves every booking in the order exactly once.               *)
LEMMA TouchKeepsTheOrder ==
  ASSUME OrderOK, NEW b \in Bookings, Touch(b)
  PROVE  OrderOK' /\ Ids(byUpdate)' = Ids(byUpdate) \cup {b}
<1> DEFINE n == Len(byUpdate)
<1>1. n \in Nat /\ DOMAIN byUpdate = 1 .. n /\ byUpdate \in [1 .. n -> Bookings]
  BY DEF OrderOK
<1>2. CASE /\ b \notin Ids(byUpdate)
           /\ byUpdate' = Append(byUpdate, b)
           /\ UNCHANGED overdue
  <2>1. /\ byUpdate' \in Seq(Bookings)
        /\ Len(byUpdate') = n + 1
        /\ \A i \in 1 .. n : byUpdate'[i] = byUpdate[i]
        /\ byUpdate'[n + 1] = b
    BY <1>1, <1>2 DEF OrderOK
  <2>2. DOMAIN byUpdate' = 1 .. n + 1 /\ 1 .. n + 1 = (1 .. n) \cup {n + 1}
    BY <1>1, <2>1
  <2>3. \A i \in 1 .. n : byUpdate[i] # b
    BY <1>1, <1>2 DEF Ids
  <2>4. \A i, j \in DOMAIN byUpdate' : byUpdate'[i] = byUpdate'[j] => i = j
    BY <1>1, <2>1, <2>2, <2>3 DEF OrderOK
  <2>5. Ids(byUpdate)' = Ids(byUpdate) \cup {b}
    BY <1>1, <2>1, <2>2 DEF Ids
  <2> QED
    BY <1>1, <1>2, <2>1, <2>4, <2>5 DEF OrderOK
<1>3. ASSUME NEW i \in DOMAIN byUpdate,
             byUpdate[i] = b,
             byUpdate' = ToTheEnd(i),
             overdue' = IF i <= overdue THEN overdue - 1 ELSE overdue
      PROVE  OrderOK' /\ Ids(byUpdate)' = Ids(byUpdate) \cup {b}
  <2>1. i \in 1 .. n
    BY <1>1
  <2>2. /\ DOMAIN byUpdate' = 1 .. n
        /\ \A j \in 1 .. n : byUpdate'[j] = IF j < i THEN byUpdate[j]
                                            ELSE IF j < n THEN byUpdate[j + 1] ELSE b
    BY <1>1, <1>3 DEF ToTheEnd
  <2>3. byUpdate' \in [1 .. n -> Bookings]
    <3>1. \A j \in 1 .. n : byUpdate'[j] \in Bookings
      BY <1>1, <2>1, <2>2
    <3> QED
      BY <1>1, <1>3, <2>2, <3>1 DEF ToTheEnd
  <2>4. byUpdate' \in Seq(Bookings) /\ Len(byUpdate') = n
    BY <1>1, <2>3
  <2>5. \A j, k \in 1 .. n : byUpdate'[j] = byUpdate'[k] => j = k
    <3>1. ASSUME NEW j \in 1 .. n, NEW k \in 1 .. n, byUpdate'[j] = byUpdate'[k]
          PROVE  j = k
      <4>1. PICK x \in 1 .. n : /\ byUpdate'[j] = byUpdate[x]
                                /\ \/ x = j /\ j < i
                                   \/ x = j + 1 /\ j >= i /\ j < n
                                   \/ x = i /\ j >= n
        BY <1>1, <1>3, <2>1, <2>2
      <4>2. PICK y \in 1 .. n : /\ byUpdate'[k] = byUpdate[y]
                                /\ \/ y = k /\ k < i
                                   \/ y = k + 1 /\ k >= i /\ k < n
                                   \/ y = i /\ k >= n
        BY <1>1, <1>3, <2>1, <2>2
      <4>3. x = y
        BY <1>1, <3>1, <4>1, <4>2 DEF OrderOK
      <4> QED
        BY <1>1, <2>1, <4>1, <4>2, <4>3
    <3> QED
      BY <3>1
  <2>6. Ids(byUpdate)' = Ids(byUpdate) \cup {b}
    <3>1. Ids(byUpdate)' \subseteq Ids(byUpdate) \cup {b}
      BY <1>1, <2>1, <2>2 DEF Ids
    <3>2. b \in Ids(byUpdate)'
      <4>1. n \in 1 .. n /\ byUpdate'[n] = b
        BY <1>1, <1>3, <2>1, <2>2
      <4> QED
        BY <2>2, <4>1 DEF Ids
    <3>3. ASSUME NEW a \in Ids(byUpdate), a # b
          PROVE  a \in Ids(byUpdate)'
      <4>1. PICK j \in 1 .. n : byUpdate[j] = a
        BY <1>1 DEF Ids
      <4>2. CASE j < i
        BY <2>2, <4>1, <4>2 DEF Ids
      <4>3. CASE j > i
        <5>1. j - 1 \in 1 .. n /\ byUpdate'[j - 1] = a
          BY <1>1, <2>1, <2>2, <4>1, <4>3
        <5> QED
          BY <2>2, <5>1 DEF Ids
      <4> QED
        BY <1>3, <2>1, <3>3, <4>1, <4>2, <4>3
    <3> QED
      BY <3>1, <3>2, <3>3
  <2>7. overdue' \in 0 .. n
    BY <1>1, <1>3, <2>1 DEF OrderOK
  <2> QED
    BY <2>2, <2>4, <2>5, <2>6, <2>7 DEF OrderOK
<1> QED
  BY <1>2, <1>3 DEF Touch

(* The table and the batches, whatever the step does to the order.         *)
LEMMA WritesLeadOn ==
  ASSUME TypeOK, FetchedIsPastWaiting, NEW b \in Bookings, NEW s \in BookingStatus,
         rows' = [rows EXCEPT ![b] = s],
         rows[b] = Absent \/ s # AwaitsConfirmation,
         UNCHANGED batch
  PROVE  /\ rows' \in [Bookings -> BookingStatus \cup {Absent}]
         /\ {a \in Bookings : rows'[a] # Absent} = {a \in Bookings : rows[a] # Absent} \cup {b}
         /\ FetchedIsPastWaiting'
<1>1. s # Absent
  BY DEF BookingStatus, AwaitsConfirmation, Confirmed, Cancelled, CancellationPending, Absent
<1>2. \A w \in Workers : \A i \in DOMAIN batch[w] : batch[w][i] \in Bookings
  BY DEF TypeOK
<1> QED
  BY <1>1, <1>2 DEF TypeOK, FetchedIsPastWaiting

(* The invariant holds in every reachable state.                           *)
LEMMA WorkerInvariant == Spec => []WorkerInv
<1>1. Init => WorkerInv
  <2> SUFFICES ASSUME Init PROVE WorkerInv
    OBVIOUS
  <2>1. TypeOK
    <3>1. Ids(byUpdate) = {} /\ {b \in Bookings : rows[b] # Absent} = {}
      BY DEF Init, Ids
    <3> QED
      BY <3>1, CancellationAssumption DEF Init, TypeOK
  <2> QED
    BY <2>1 DEF Init, WorkerInv, FetchedIsPastWaiting, WaitingIsLeftAlone
<1>2. WorkerInv /\ [Next]_vars => WorkerInv'
  <2> SUFFICES ASSUME WorkerInv, [Next]_vars PROVE WorkerInv'
    OBVIOUS
  <2>1. TypeOK /\ FetchedIsPastWaiting /\ WaitingIsLeftAlone /\ OrderOK
    BY DEF WorkerInv, TypeOK, OrderOK
  <2>2. ASSUME NEW b \in Bookings, NEW s \in BookingStatus,
               rows' = [rows EXCEPT ![b] = s],
               rows[b] = Absent \/ s # AwaitsConfirmation,
               OrderOK', Ids(byUpdate)' = Ids(byUpdate) \cup {b},
               UNCHANGED <<batch, tried, faults>>
        PROVE  WorkerInv'
    <3>1. /\ rows' \in [Bookings -> BookingStatus \cup {Absent}]
          /\ {a \in Bookings : rows'[a] # Absent} = {a \in Bookings : rows[a] # Absent} \cup {b}
          /\ FetchedIsPastWaiting'
      BY <2>1, <2>2, WritesLeadOn
    <3>2. WaitingIsLeftAlone'
      BY <2>1, <2>2 DEF WaitingIsLeftAlone
    <3>3. TypeOK'
      BY <2>1, <2>2, <3>1 DEF TypeOK, OrderOK
    <3> QED
      BY <3>1, <3>2, <3>3 DEF WorkerInv
  <2>3. ASSUME NEW b \in Bookings, Create(b) \/ Confirm(b) \/ Cancel(b)
        PROVE  WorkerInv'
    <3>1. OrderOK' /\ Ids(byUpdate)' = Ids(byUpdate) \cup {b}
      BY <2>1, <2>3, TouchKeepsTheOrder DEF Create, Confirm, Cancel
    <3>2. PICK s \in BookingStatus : /\ rows' = [rows EXCEPT ![b] = s]
                                     /\ rows[b] = Absent \/ s # AwaitsConfirmation
      BY <2>3 DEF Create, Confirm, Cancel, BookingStatus, AwaitsConfirmation, Confirmed,
                  Cancelled
    <3>3. UNCHANGED <<batch, tried, faults>>
      BY <2>3 DEF Create, Confirm, Cancel
    <3> QED
      BY <2>2, <3>1, <3>2, <3>3
  <2>4. ASSUME NEW b \in Bookings, RequestCancellation(b)
        PROVE  WorkerInv'
    <3>1. OrderOK'
      BY <2>1, <2>4 DEF RequestCancellation, OrderOK
    <3>2. rows[b] # Absent
      BY <2>4 DEF RequestCancellation, StartCancellationAllowed, AwaitsConfirmation,
                  Confirmed, CancellationPending, Absent
    <3>3. Ids(byUpdate)' = Ids(byUpdate) \cup {b}
      BY <2>1, <2>4, <3>2 DEF RequestCancellation, TypeOK
    <3>4. /\ CancellationPending \in BookingStatus
          /\ CancellationPending # AwaitsConfirmation
      BY DEF BookingStatus, CancellationPending, AwaitsConfirmation
    <3> QED
      BY <2>2, <2>4, <3>1, <3>3, <3>4 DEF RequestCancellation
  <2>5. CASE Age
    <3>1. overdue + 1 \in 0 .. Len(byUpdate)
      BY <2>1, <2>5 DEF Age, OrderOK
    <3> QED
      BY <2>1, <2>5, <3>1 DEF Age, WorkerInv, TypeOK, FetchedIsPastWaiting,
                              WaitingIsLeftAlone
  <2>6. ASSUME NEW w \in Workers, GetCancellationPendingOlderThan(w)
        PROVE  WorkerInv'
    <3>1. PICK n \in 1 .. BatchSize : \E oldest \in [1 .. n -> Stuck] :
            batch' = [batch EXCEPT ![w] = [k \in 1 .. n |-> byUpdate[oldest[k]]]]
      BY <2>6 DEF GetCancellationPendingOlderThan
    <3>2. PICK oldest \in [1 .. n -> Stuck] :
            batch' = [batch EXCEPT ![w] = [k \in 1 .. n |-> byUpdate[oldest[k]]]]
      BY <3>1
    <3> DEFINE fetched == [k \in 1 .. n |-> byUpdate[oldest[k]]]
    <3>3. \A k \in 1 .. n : /\ fetched[k] \in Bookings
                            /\ rows[fetched[k]] = CancellationPending
      <4>1. \A i \in Stuck : /\ i \in 1 .. Len(byUpdate)
                             /\ byUpdate[i] \in Bookings
                             /\ rows[byUpdate[i]] = CancellationPending
        BY <2>1 DEF Stuck, OrderOK
      <4> QED
        BY <4>1
    <3>4. fetched \in Seq(Bookings) /\ DOMAIN fetched = 1 .. n
      <4>1. n \in Nat
        BY <3>1, CancellationAssumption
      <4>2. fetched \in [1 .. n -> Bookings]
        BY <3>3
      <4> QED
        BY <4>1, <4>2
    <3>5. batch' = [batch EXCEPT ![w] = fetched] /\ UNCHANGED <<rows, byUpdate, overdue, tried, faults>>
      BY <2>6, <3>2 DEF GetCancellationPendingOlderThan
    <3> HIDE DEF fetched
    <3>6. TypeOK'
      BY <2>1, <3>4, <3>5 DEF TypeOK
    <3>7. FetchedIsPastWaiting'
      BY <2>1, <3>3, <3>4, <3>5
      DEF TypeOK, FetchedIsPastWaiting, CancellationPending, Absent, AwaitsConfirmation
    <3>8. WaitingIsLeftAlone'
      BY <2>1, <3>5 DEF WaitingIsLeftAlone
    <3> QED
      BY <3>6, <3>7, <3>8 DEF WorkerInv
  <2>7. ASSUME NEW w \in Workers, NEW taken \in BOOLEAN, Try(w, taken)
        PROVE  WorkerInv'
    <3> DEFINE b == Head(batch[w])
    <3>1. /\ batch[w] \in Seq(Bookings) /\ batch[w] # << >>
          /\ tried' = {[booking |-> b, status |-> rows[b], taken |-> taken]}
          /\ batch' = [batch EXCEPT ![w] = Tail(batch[w])]
          /\ UNCHANGED <<rows, byUpdate, overdue, faults>>
      BY <2>1, <2>7 DEF Try, TypeOK
    <3>2. /\ b \in Bookings
          /\ Tail(batch[w]) \in Seq(Bookings)
          /\ 1 \in DOMAIN batch[w] /\ b = batch[w][1]
          /\ \A i \in DOMAIN Tail(batch[w]) :
               i + 1 \in DOMAIN batch[w] /\ Tail(batch[w])[i] = batch[w][i + 1]
      BY <3>1
    <3>3. rows[b] \in BookingStatus /\ rows[b] # AwaitsConfirmation
      BY <2>1, <3>2 DEF FetchedIsPastWaiting, TypeOK
    <3>4. TypeOK'
      BY <2>1, <3>1, <3>2, <3>3 DEF TypeOK
    <3>5. FetchedIsPastWaiting'
      BY <2>1, <3>1, <3>2 DEF FetchedIsPastWaiting, TypeOK
    <3>6. WaitingIsLeftAlone'
      BY <3>1, <3>3 DEF WaitingIsLeftAlone
    <3> QED
      BY <3>4, <3>5, <3>6 DEF WorkerInv
  <2>8. ASSUME NEW w \in Workers, Crash(w)
        PROVE  WorkerInv'
    <3>1. faults + 1 \in 0 .. MaxFaults
      BY <2>1, <2>8, CancellationAssumption DEF Crash, TypeOK
    <3>2. TypeOK'
      BY <2>1, <2>8, <3>1 DEF Crash, TypeOK
    <3>3. FetchedIsPastWaiting'
      BY <2>1, <2>8 DEF Crash, FetchedIsPastWaiting, TypeOK
    <3> QED
      BY <2>1, <2>8, <3>2, <3>3 DEF Crash, WorkerInv, WaitingIsLeftAlone
  <2>9. CASE UNCHANGED vars
    BY <2>1, <2>9 DEF vars, WorkerInv, TypeOK, FetchedIsPastWaiting, WaitingIsLeftAlone
  <2> QED
    BY <2>3, <2>4, <2>5, <2>6, <2>7, <2>8, <2>9 DEF Next, Work, Publish, PublishError
<1> QED
  BY <1>1, <1>2, PTL DEF Spec

(* Every reachable state is well typed: in particular the order of         *)
(* updated_at holds every row of the table exactly once.                   *)
THEOREM TypeCorrect == Spec => []TypeOK
BY WorkerInvariant, PTL DEF WorkerInv

(* However old its batch is and whatever happened to the rows since, a     *)
(* worker never sends the cancel command of a booking that waits for       *)
(* Catalog.                                                                *)
THEOREM WaitingBookingsAreLeftAlone == Spec => []WaitingIsLeftAlone
BY WorkerInvariant, PTL DEF WorkerInv

-----------------------------------------------------------------------------
(* The rows, as the abstract life cycle sees them.                         *)
Lifecycle == INSTANCE BookingLifecycle WITH status <- rows

(* The calls that race with the worker move the bookings as the life cycle *)
(* allows, and the worker itself moves none: a pending cancellation is     *)
(* repeated, never completed.                                              *)
THEOREM WorkersImplementLifecycle == Spec => Lifecycle!Spec
<1>1. Init => Lifecycle!Init
  BY DEF Init, Lifecycle!Init, Absent, Lifecycle!Absent
<1>2. TypeOK /\ [Next]_vars => [Lifecycle!Next]_rows
  <2> SUFFICES ASSUME TypeOK, [Next]_vars
               PROVE  Lifecycle!Next \/ rows' = rows
    OBVIOUS
<2> USE DEF Lifecycle!Absent, Lifecycle!AwaitsConfirmation, Lifecycle!Confirmed,
             Lifecycle!Cancelled, Lifecycle!CancellationPending,
             Absent, AwaitsConfirmation, Confirmed, Cancelled, CancellationPending
  <2>1. ASSUME NEW b \in Bookings, Create(b) PROVE Lifecycle!Create(b)
    BY <2>1 DEF Create, Lifecycle!Create, Lifecycle!Move
  <2>2. ASSUME NEW b \in Bookings, Confirm(b) PROVE Lifecycle!Confirm(b)
    BY <2>2 DEF Confirm, ConfirmAllowed, Lifecycle!Confirm, Lifecycle!Move
  <2>3. ASSUME NEW b \in Bookings, Cancel(b) PROVE Lifecycle!Cancel(b)
    BY <2>3 DEF Cancel, CancelAllowed, Lifecycle!Cancel, Lifecycle!Move
  <2>4. ASSUME NEW b \in Bookings, RequestCancellation(b)
        PROVE  Lifecycle!BeginCancellation(b) \/ rows' = rows
    BY <2>4 DEF RequestCancellation, StartCancellationAllowed, TypeOK,
                Lifecycle!BeginCancellation, Lifecycle!Move
  <2>5. ASSUME NEW w \in Workers, Work(w) \/ Crash(w) PROVE rows' = rows
    BY <2>5 DEF Work, GetCancellationPendingOlderThan, Publish, PublishError, Try, Crash
  <2> QED
    BY <2>1, <2>2, <2>3, <2>4, <2>5 DEF Next, Age, vars, Lifecycle!Next
<1> QED
  BY <1>1, <1>2, TypeCorrect, PTL DEF Spec, Lifecycle!Spec
=============================================================================
