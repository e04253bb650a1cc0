------------------------------ MODULE OutboxProofs ------------------------------
(***************************************************************************)
(* Theorems about Outbox, for any number of messages and workers, any      *)
(* batch size and any max_retries above zero.                              *)
(***************************************************************************)
EXTENDS Outbox, TLAPS

(* Every reachable state is well typed.                                    *)
THEOREM TypeCorrect == Spec => []TypeOK
<1>1. Init => TypeOK
  BY OutboxAssumption DEF Init, TypeOK
<1>2. TypeOK /\ [Next]_vars => TypeOK'
  <2> SUFFICES ASSUME TypeOK, [Next]_vars PROVE TypeOK'
    OBVIOUS
  <2> USE DEF TypeOK
  <2>1. ASSUME NEW m \in Messages, Insert(m)
        PROVE  TypeOK'
    BY <2>1 DEF Insert
  <2>2. ASSUME NEW w \in Workers, Fetch(w)
        PROVE  TypeOK'
    <3>1. PICK S \in SUBSET Messages : batch' = [batch EXCEPT ![w] = S]
      BY <2>2 DEF Fetch
    <3> QED
      BY <2>2, <3>1 DEF Fetch
  <2>3. ASSUME NEW w \in Workers, NEW m \in Messages,
               Publish(w, m) \/ PublishError(w, m)
        PROVE  TypeOK'
    BY <2>3 DEF Publish, PublishError
  <2>4. ASSUME NEW w \in Workers, NEW m \in Messages,
               MarkOutboxSent(w, m) \/ MarkOutboxFailed(w, m)
        PROVE  TypeOK'
    BY <2>4 DEF MarkOutboxSent, MarkOutboxFailed, Finish
  <2>5. ASSUME NEW w \in Workers, NEW m \in Messages, MarkError(w, m)
        PROVE  TypeOK'
    BY <2>5, OutboxAssumption DEF MarkError, Finish
  <2>6. ASSUME NEW w \in Workers, Crash(w)
        PROVE  TypeOK'
    BY <2>6, OutboxAssumption DEF Crash
  <2>7. CASE UNCHANGED vars
    BY <2>7 DEF vars
  <2> QED
    BY <2>1, <2>2, <2>3, <2>4, <2>5, <2>6, <2>7 DEF Next, Work
<1> QED
  BY <1>1, <1>2, PTL DEF Spec

-----------------------------------------------------------------------------
(* A worker that has published is still at the message it published: the   *)
(* strengthening that makes SentWasHanded inductive.                       *)
AcceptedWasHanded ==
  \A w \in Workers :
    /\ step[w] # "next" => batch[w] # {}
    /\ step[w] = "accepted" => \A m \in Messages : First(w, m) => handed[m] > 0

(* A message marked sent was taken by the AMQP client, with any number of  *)
(* workers, crashes and failed statements.                                 *)
THEOREM NothingIsMarkedSentUnsent == Spec => []SentWasHanded
<1> DEFINE Inv == SentWasHanded /\ AcceptedWasHanded
<1>1. Init => Inv
  BY DEF Init, SentWasHanded, AcceptedWasHanded
<1>2. TypeOK /\ Inv /\ [Next]_vars => Inv'
  <2> SUFFICES ASSUME TypeOK, Inv, [Next]_vars PROVE Inv'
    OBVIOUS
  <2> USE DEF TypeOK, SentWasHanded, AcceptedWasHanded, First
  <2>1. ASSUME NEW m \in Messages, Insert(m)
        PROVE  Inv'
    BY <2>1 DEF Insert
  <2>2. ASSUME NEW w \in Workers, Fetch(w)
        PROVE  Inv'
    <3>1. PICK S \in SUBSET Messages : S # {} /\ batch' = [batch EXCEPT ![w] = S]
      BY <2>2 DEF Fetch
    <3>2. step[w] = "next"
      BY <2>2 DEF Fetch
    <3> QED
      BY <2>2, <3>1, <3>2 DEF Fetch
  <2>3. ASSUME NEW w \in Workers, NEW m \in Messages, Publish(w, m)
        PROVE  Inv'
    <3>1. \A n \in Messages : handed'[n] >= handed[n] /\ (handed[n] > 0 => handed'[n] > 0)
      BY <2>3 DEF Publish
    <3>2. handed'[m] > 0
      BY <2>3 DEF Publish
    <3>3. \A n \in Messages : First(w, n) => n = m
      BY <2>3, OutboxAssumption DEF Publish
    <3> QED
      BY <2>3, <3>1, <3>2, <3>3 DEF Publish
  <2>4. ASSUME NEW w \in Workers, NEW m \in Messages, PublishError(w, m)
        PROVE  Inv'
    BY <2>4 DEF PublishError
  <2>5. ASSUME NEW w \in Workers, NEW m \in Messages, MarkOutboxSent(w, m)
        PROVE  Inv'
    BY <2>5 DEF MarkOutboxSent, Finish
  <2>6. ASSUME NEW w \in Workers, NEW m \in Messages, MarkOutboxFailed(w, m)
        PROVE  Inv'
    BY <2>6 DEF MarkOutboxFailed, Finish
  <2>7. ASSUME NEW w \in Workers, NEW m \in Messages, MarkError(w, m)
        PROVE  Inv'
    BY <2>7 DEF MarkError, Finish
  <2>8. ASSUME NEW w \in Workers, Crash(w)
        PROVE  Inv'
    BY <2>8 DEF Crash
  <2>9. CASE UNCHANGED vars
    BY <2>9 DEF vars
  <2> QED
    BY <2>1, <2>2, <2>3, <2>4, <2>5, <2>6, <2>7, <2>8, <2>9 DEF Next, Work
<1> QED
  BY <1>1, <1>2, TypeCorrect, PTL DEF Spec

-----------------------------------------------------------------------------
(* A worker only ever holds messages that exist, and one that does not     *)
(* exist yet has not been tried.                                           *)
BatchesExist ==
  /\ \A w \in Workers : \A m \in batch[w] : status[m] # "absent"
  /\ \A m \in Messages : status[m] = "absent" => retryCount[m] = 0

(* No message is stranded: what is pending is due, what failed is used up. *)
THEOREM NothingIsStranded == Spec => []NoMessageIsStranded
<1> DEFINE Inv == NoMessageIsStranded /\ BatchesExist
<1>1. Init => Inv
  BY DEF Init, NoMessageIsStranded, BatchesExist
<1>2. TypeOK /\ Inv /\ [Next]_vars => Inv'
  <2> SUFFICES ASSUME TypeOK, Inv, [Next]_vars PROVE Inv'
    OBVIOUS
  <2> USE OutboxAssumption DEF TypeOK, NoMessageIsStranded, BatchesExist, First
  <2>1. ASSUME NEW m \in Messages, Insert(m)
        PROVE  Inv'
    BY <2>1 DEF Insert
  <2>2. ASSUME NEW w \in Workers, Fetch(w)
        PROVE  Inv'
    <3>1. PICK S \in SUBSET {m \in Messages : Due(m)} :
            batch' = [batch EXCEPT ![w] = S]
      BY <2>2 DEF Fetch
    <3> QED
      BY <2>2, <3>1 DEF Fetch, Due
  <2>3. ASSUME NEW w \in Workers, NEW m \in Messages,
               Publish(w, m) \/ PublishError(w, m)
        PROVE  Inv'
    BY <2>3 DEF Publish, PublishError
  <2>4. ASSUME NEW w \in Workers, NEW m \in Messages, MarkOutboxSent(w, m)
        PROVE  Inv'
    BY <2>4 DEF MarkOutboxSent, Finish
  <2>5. ASSUME NEW w \in Workers, NEW m \in Messages, MarkOutboxFailed(w, m)
        PROVE  Inv'
    BY <2>5 DEF MarkOutboxFailed, Finish
  <2>6. ASSUME NEW w \in Workers, NEW m \in Messages, MarkError(w, m)
        PROVE  Inv'
    BY <2>6 DEF MarkError, Finish
  <2>7. ASSUME NEW w \in Workers, Crash(w)
        PROVE  Inv'
    BY <2>7 DEF Crash
  <2>8. CASE UNCHANGED vars
    BY <2>8 DEF vars
  <2> QED
    BY <2>1, <2>2, <2>3, <2>4, <2>5, <2>6, <2>7, <2>8 DEF Next, Work
<1> QED
  BY <1>1, <1>2, TypeCorrect, PTL DEF Spec

-----------------------------------------------------------------------------
(* One worker holds pending messages only, because nobody else marks them. *)
BatchesArePending == \A w \in Workers : \A m \in batch[w] : status[m] = "pending"

(* With one worker, a message that was sent or given up stays so.          *)
THEOREM OneWorkerOutcomesAreFinal ==
  ASSUME \A v, w \in Workers : v = w
  PROVE  Spec => OutcomeIsFinal
<1> DEFINE Final == \A m \in Messages :
                      status[m] \in {"sent", "failed"} => status'[m] = status[m]
<1>1. Init => BatchesArePending
  BY DEF Init, BatchesArePending
<1>2. TypeOK /\ BatchesArePending /\ [Next]_vars => BatchesArePending' /\ [Final]_vars
  <2> SUFFICES ASSUME TypeOK, BatchesArePending, [Next]_vars
               PROVE  BatchesArePending' /\ [Final]_vars
    OBVIOUS
  <2> USE DEF TypeOK, BatchesArePending, First
  <2>1. ASSUME NEW m \in Messages, Insert(m)
        PROVE  BatchesArePending' /\ Final
    BY <2>1 DEF Insert
  <2>2. ASSUME NEW w \in Workers, Fetch(w)
        PROVE  BatchesArePending' /\ Final
    <3>1. PICK S \in SUBSET {m \in Messages : Due(m)} :
            batch' = [batch EXCEPT ![w] = S]
      BY <2>2 DEF Fetch
    <3> QED
      BY <2>2, <3>1 DEF Fetch, Due
  <2>3. ASSUME NEW w \in Workers, NEW m \in Messages,
               Publish(w, m) \/ PublishError(w, m)
        PROVE  BatchesArePending' /\ Final
    BY <2>3 DEF Publish, PublishError
  <2>4. ASSUME NEW w \in Workers, NEW m \in Messages,
               MarkOutboxSent(w, m) \/ MarkOutboxFailed(w, m)
        PROVE  BatchesArePending' /\ Final
    BY <2>4 DEF MarkOutboxSent, MarkOutboxFailed, Finish
  <2>5. ASSUME NEW w \in Workers, NEW m \in Messages, MarkError(w, m)
        PROVE  BatchesArePending' /\ Final
    BY <2>5 DEF MarkError, Finish
  <2>6. ASSUME NEW w \in Workers, Crash(w)
        PROVE  BatchesArePending' /\ Final
    BY <2>6 DEF Crash
  <2>7. CASE UNCHANGED vars
    BY <2>7 DEF vars
  <2> QED
    BY <2>1, <2>2, <2>3, <2>4, <2>5, <2>6, <2>7 DEF Next, Work
<1> QED
  BY <1>1, <1>2, TypeCorrect, PTL DEF Spec, OutcomeIsFinal

-----------------------------------------------------------------------------
(* One worker: what it holds is pending, so a message is settled while a   *)
(* Mark is due for it and never before its first publish.                  *)
DuplicatesInv ==
  /\ DuplicatesNeedFaults
  /\ BatchesArePending
  /\ \A w \in Workers : batch[w] = {} => step[w] = "next"

(* With one worker, no message goes out twice without a crash or a failed  *)
(* statement for every copy after the first.                               *)
THEOREM OneWorkerDuplicatesNeedFaults ==
  ASSUME \A v, w \in Workers : v = w
  PROVE  Spec => []DuplicatesNeedFaults
<1>1. Init => DuplicatesInv
  BY OutboxAssumption DEF Init, DuplicatesInv, DuplicatesNeedFaults, BatchesArePending, Settled
<1>2. TypeOK /\ DuplicatesInv /\ [Next]_vars => DuplicatesInv'
  <2> SUFFICES ASSUME TypeOK, DuplicatesInv, [Next]_vars PROVE DuplicatesInv'
    OBVIOUS
  <2>0. /\ status \in [Messages -> {"absent", "pending", "sent", "failed"}]
        /\ batch \in [Workers -> SUBSET Messages]
        /\ step \in [Workers -> {"next", "accepted", "refused"}]
        /\ handed \in [Messages -> Nat]
        /\ faults \in Nat
    BY OutboxAssumption DEF TypeOK
  <2> USE DEF DuplicatesInv, DuplicatesNeedFaults, BatchesArePending, Settled, First
  <2>1. ASSUME NEW m \in Messages, Insert(m)
        PROVE  DuplicatesInv'
    BY <2>0, <2>1 DEF Insert
  <2>2. ASSUME NEW w \in Workers, Fetch(w)
        PROVE  DuplicatesInv'
    <3>1. PICK S \in SUBSET {m \in Messages : Due(m)} :
            batch' = [batch EXCEPT ![w] = S]
      BY <2>2 DEF Fetch
    <3>2. step[w] = "next"
      BY <2>2 DEF Fetch
    <3> QED
      BY <2>0, <2>2, <3>1, <3>2 DEF Fetch, Due
  <2>3. ASSUME NEW w \in Workers, NEW m \in Messages, Publish(w, m)
        PROVE  DuplicatesInv'
    BY <2>0, <2>3 DEF Publish
  <2>4. ASSUME NEW w \in Workers, NEW m \in Messages, PublishError(w, m)
        PROVE  DuplicatesInv'
    BY <2>0, <2>4 DEF PublishError
  <2>5. ASSUME NEW w \in Workers, NEW m \in Messages,
               MarkOutboxSent(w, m) \/ MarkOutboxFailed(w, m)
        PROVE  DuplicatesInv'
    <3>1. \A n \in Messages : First(w, n) => n = m
      BY <2>0, <2>5, OutboxAssumption DEF MarkOutboxSent, MarkOutboxFailed
    <3> QED
      BY <2>0, <2>5, <3>1 DEF MarkOutboxSent, MarkOutboxFailed, Finish
  <2>6. ASSUME NEW w \in Workers, NEW m \in Messages, MarkError(w, m)
        PROVE  DuplicatesInv'
    BY <2>0, <2>6 DEF MarkError, Finish
  <2>7. ASSUME NEW w \in Workers, Crash(w)
        PROVE  DuplicatesInv'
    BY <2>0, <2>7 DEF Crash
  <2>8. CASE UNCHANGED vars
    BY <2>8 DEF vars
  <2> QED
    BY <2>1, <2>2, <2>3, <2>4, <2>5, <2>6, <2>7, <2>8 DEF Next, Work
<1> QED
  BY <1>1, <1>2, TypeCorrect, PTL DEF Spec, DuplicatesInv
=============================================================================
