------------------------ MODULE ConfirmationWorkerProofs ------------------------
(***************************************************************************)
(* Theorems about ConfirmationWorker, for any number of bookings, workers  *)
(* and faults and any size of the batch.                                   *)
(***************************************************************************)
EXTENDS ConfirmationWorker, TLAPS

(* What the service and its callers may do to a row.                       *)
LEMMA ServiceKeepsTypes ==
  ASSUME TypeOK, NEW b \in Bookings,
         Create(b) \/ Confirm(b) \/ Cancel(b) \/ RequestCancellation(b) \/ CatalogEvent(b)
  PROVE  rows' \in [Bookings -> BookingStatus \cup {Absent}]
BY DEF TypeOK, Create, Confirm, Cancel, RequestCancellation, CatalogEvent, BookingStatus

(* Every reachable state is well typed.                                    *)
THEOREM TypeCorrect == Spec => []TypeOK
<1>1. Init => TypeOK
  BY WorkerAssumption DEF Init, TypeOK
<1>2. TypeOK /\ [Next]_vars => TypeOK'
  <2> SUFFICES ASSUME TypeOK, [Next]_vars PROVE TypeOK'
    OBVIOUS
  <2>1. ASSUME NEW b \in Bookings, Service(b)
        PROVE  TypeOK'
    <3>1. rows' \in [Bookings -> BookingStatus \cup {Absent}]
      BY <2>1, ServiceKeepsTypes DEF Service
    <3> QED
      BY <2>1, <3>1 DEF Service, TypeOK
  <2>2. ASSUME NEW b \in Bookings, Catalog(b)
        PROVE  TypeOK'
    BY <2>2 DEF Catalog, TypeOK, JobStatus
  <2>3. ASSUME NEW w \in Workers, GetAwaitingConfirmation(w)
        PROVE  TypeOK'
    <3>1. PICK S \in SUBSET Bookings : batch' = [batch EXCEPT ![w] = S]
      BY <2>3 DEF GetAwaitingConfirmation, Oldest, Waiting
    <3> QED
      BY <2>3, <3>1 DEF GetAwaitingConfirmation, TypeOK
  <2>4. ASSUME NEW w \in Workers, NEW b \in Bookings, Ask(w, b) \/ AskTooEarly(w, b)
        PROVE  TypeOK'
    BY <2>4 DEF Ask, AskTooEarly, Finish, First, TypeOK
  <2>5. ASSUME NEW w \in Workers, NEW b \in Bookings, Apply(w, b)
        PROVE  TypeOK'
    <3>1. rows' \in [Bookings -> BookingStatus \cup {Absent}]
      BY <2>5, ServiceKeepsTypes DEF Apply, TypeOK
    <3> QED
      BY <2>5, <3>1 DEF Apply, Finish, TypeOK
  <2>6. ASSUME NEW w \in Workers, NEW b \in Bookings, ProcessError(w, b)
        PROVE  TypeOK'
    BY <2>6, WorkerAssumption DEF ProcessError, Finish, TypeOK
  <2>7. ASSUME NEW w \in Workers, Crash(w)
        PROVE  TypeOK'
    BY <2>7, WorkerAssumption DEF Crash, TypeOK
  <2>8. CASE UNCHANGED vars
    BY <2>8 DEF vars, TypeOK
  <2> QED
    BY <2>1, <2>2, <2>3, <2>4, <2>5, <2>6, <2>7, <2>8 DEF Next, Work
<1> QED
  BY <1>1, <1>2, PTL DEF Spec

-----------------------------------------------------------------------------
(* The answer a worker holds is what Catalog decided about the first       *)
(* booking of its batch: the strengthening that makes ConfirmedByCatalog   *)
(* inductive.                                                              *)
AnswersAreTrue ==
  \A w \in Workers, b \in Bookings :
    answer[w] = "confirmed" /\ First(w, b) => job[b] = "confirmed"

(* Whatever the workers hold and however old it is, a booking is confirmed *)
(* only if Catalog confirmed its job.                                      *)
THEOREM OnlyCatalogConfirms == Spec => []ConfirmedByCatalog
<1> DEFINE Inv == ConfirmedByCatalog /\ AnswersAreTrue
<1>1. Init => Inv
  BY DEF Init, ConfirmedByCatalog, AnswersAreTrue, Confirmed, Absent, None
<1>2. TypeOK /\ Inv /\ [Next]_vars => Inv'
  <2> SUFFICES ASSUME TypeOK, Inv, [Next]_vars PROVE Inv'
    OBVIOUS
  <2>0. /\ rows \in [Bookings -> BookingStatus \cup {Absent}]
        /\ job \in [Bookings -> JobStatus \cup {None}]
        /\ batch \in [Workers -> SUBSET Bookings]
        /\ answer \in [Workers -> JobStatus \cup {None}]
        /\ \A w \in Workers : answer[w] # None => batch[w] # {}
    BY DEF TypeOK
  <2> USE DEF ConfirmedByCatalog, AnswersAreTrue
  <2>1. ASSUME NEW b \in Bookings, Service(b)
        PROVE  Inv'
    <3>1. ConfirmedByCatalog'
      BY <2>0, <2>1 DEF Service, Create, RequestCancellation, CatalogEvent, Confirm, Cancel,
           Confirmed, Cancelled, CancellationPending, AwaitsConfirmation
    <3> QED
      BY <2>1, <3>1 DEF Service, First
  <2>2. ASSUME NEW b \in Bookings, Catalog(b)
        PROVE  Inv'
    BY <2>0, <2>2 DEF Catalog, First, None
  <2>3. ASSUME NEW w \in Workers, GetAwaitingConfirmation(w)
        PROVE  Inv'
    <3>1. answer[w] = None
      BY <2>0, <2>3 DEF GetAwaitingConfirmation
    <3> QED
      BY <2>0, <2>3, <3>1 DEF GetAwaitingConfirmation, First, None
  <2>4. ASSUME NEW w \in Workers, NEW b \in Bookings, Ask(w, b) \/ AskTooEarly(w, b)
        PROVE  Inv'
    <3>1. \A c \in Bookings : First(w, b) /\ First(w, c) => b = c
      BY <2>0, WorkerAssumption DEF First
    <3> QED
      BY <2>0, <2>4, <3>1 DEF Ask, AskTooEarly, Finish, First, None
  <2>5. ASSUME NEW w \in Workers, NEW b \in Bookings, Apply(w, b)
        PROVE  Inv'
    <3>1. ConfirmedByCatalog'
      BY <2>0, <2>5 DEF Apply, Confirm, Cancel, Confirmed, Cancelled
    <3> QED
      BY <2>0, <2>5, <3>1 DEF Apply, Finish, First, None
  <2>6. ASSUME NEW w \in Workers, NEW b \in Bookings, ProcessError(w, b)
        PROVE  Inv'
    BY <2>0, <2>6 DEF ProcessError, Finish, First, None
  <2>7. ASSUME NEW w \in Workers, Crash(w)
        PROVE  Inv'
    BY <2>0, <2>7 DEF Crash, First, None
  <2>8. CASE UNCHANGED vars
    BY <2>8 DEF vars, First
  <2> QED
    BY <2>1, <2>2, <2>3, <2>4, <2>5, <2>6, <2>7, <2>8 DEF Next, Work
<1> QED
  BY <1>1, <1>2, TypeCorrect, PTL DEF Spec

-----------------------------------------------------------------------------
(* However stale the lists and answers of the workers, no step takes a     *)
(* booking out of cancelled.                                               *)
THEOREM StaleListsNeverRevive == Spec => CancelledIsFinal
<1> DEFINE Stays == \A b \in Bookings : rows[b] = Cancelled => rows'[b] = Cancelled
<1>1. TypeOK /\ [Next]_vars => Stays
  <2> SUFFICES ASSUME TypeOK, [Next]_vars PROVE Stays
    OBVIOUS
  <2>0. rows \in [Bookings -> BookingStatus \cup {Absent}]
    BY DEF TypeOK
  <2> USE DEF Confirm, Cancel, ConfirmAllowed, CancelAllowed,
             AwaitsConfirmation, Confirmed, Cancelled, CancellationPending, Absent
  <2>1. ASSUME NEW b \in Bookings, Service(b)
        PROVE  Stays
    BY <2>0, <2>1 DEF Service, Create, RequestCancellation, CatalogEvent, StartCancellationAllowed
  <2>2. ASSUME NEW w \in Workers, NEW b \in Bookings, Apply(w, b)
        PROVE  Stays
    BY <2>0, <2>2 DEF Apply
  <2>3. CASE UNCHANGED rows
    BY <2>3
  <2> QED
    BY <2>1, <2>2, <2>3 DEF Next, Work, Catalog, GetAwaitingConfirmation, Ask, AskTooEarly,
         ProcessError, Crash, vars
<1> QED
  BY <1>1, TypeCorrect, PTL DEF Spec, CancelledIsFinal

-----------------------------------------------------------------------------
(* The rows, as the abstract life cycle sees them.                         *)
Lifecycle == INSTANCE BookingLifecycle WITH status <- rows

(* What a step does to the rows is a step of the life cycle, or nothing.   *)
LEMMA MovesOfTheLifecycle ==
  ASSUME TypeOK, NEW b \in Bookings,
         Create(b) \/ Confirm(b) \/ Cancel(b) \/ RequestCancellation(b) \/ CatalogEvent(b)
  PROVE  \/ Lifecycle!Create(b) \/ Lifecycle!Confirm(b)
         \/ Lifecycle!BeginCancellation(b) \/ Lifecycle!Cancel(b)
         \/ rows' = rows
<1> USE DEF Lifecycle!Absent, Lifecycle!AwaitsConfirmation, Lifecycle!Confirmed,
            Lifecycle!Cancelled, Lifecycle!CancellationPending,
            Absent, AwaitsConfirmation, Confirmed, Cancelled, CancellationPending
<1>1. rows \in [Bookings -> BookingStatus \cup {Absent}]
  BY DEF TypeOK
<1>2. ASSUME Create(b) PROVE Lifecycle!Create(b)
  BY <1>2 DEF Create, Lifecycle!Create, Lifecycle!Move
<1>3. ASSUME Confirm(b) PROVE Lifecycle!Confirm(b) \/ rows' = rows
  BY <1>1, <1>3 DEF Confirm, ConfirmAllowed, Lifecycle!Confirm, Lifecycle!Move
<1>4. ASSUME Cancel(b) PROVE Lifecycle!Cancel(b) \/ rows' = rows
  BY <1>1, <1>4 DEF Cancel, CancelAllowed, Lifecycle!Cancel, Lifecycle!Move
<1>5. ASSUME RequestCancellation(b) PROVE Lifecycle!BeginCancellation(b) \/ rows' = rows
  BY <1>1, <1>5 DEF RequestCancellation, StartCancellationAllowed,
                    Lifecycle!BeginCancellation, Lifecycle!Move
<1> QED
  BY <1>2, <1>3, <1>4, <1>5 DEF CatalogEvent

(* However many workers act on lists and answers out of date, the bookings *)
(* move as the life cycle allows, one transition at a time.                *)
THEOREM WorkersImplementLifecycle == Spec => Lifecycle!Spec
<1>1. Init => Lifecycle!Init
  BY DEF Init, Lifecycle!Init, Absent, Lifecycle!Absent
<1>2. TypeOK /\ [Next]_vars => [Lifecycle!Next]_rows
  <2> SUFFICES ASSUME TypeOK, [Next]_vars
               PROVE  Lifecycle!Next \/ rows' = rows
    OBVIOUS
  <2>1. ASSUME NEW b \in Bookings, Service(b)
        PROVE  Lifecycle!Next \/ rows' = rows
    BY <2>1, MovesOfTheLifecycle DEF Service, Lifecycle!Next
  <2>2. ASSUME NEW w \in Workers, NEW b \in Bookings, Apply(w, b)
        PROVE  Lifecycle!Next \/ rows' = rows
    BY <2>2, MovesOfTheLifecycle DEF Apply, Lifecycle!Next
  <2>3. ASSUME NEW w \in Workers, NEW b \in Bookings,
               Ask(w, b) \/ AskTooEarly(w, b) \/ ProcessError(w, b)
        PROVE  rows' = rows
    BY <2>3 DEF Ask, AskTooEarly, ProcessError
  <2>4. ASSUME NEW w \in Workers, GetAwaitingConfirmation(w) \/ Crash(w)
        PROVE  rows' = rows
    BY <2>4 DEF GetAwaitingConfirmation, Crash
  <2>5. ASSUME NEW b \in Bookings, Catalog(b) PROVE rows' = rows
    BY <2>5 DEF Catalog
  <2> QED
    BY <2>1, <2>2, <2>3, <2>4, <2>5 DEF Next, Work, vars
<1> QED
  BY <1>1, <1>2, TypeCorrect, PTL DEF Spec, Lifecycle!Spec
=============================================================================
