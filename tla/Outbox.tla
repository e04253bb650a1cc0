-------------------------------- MODULE Outbox --------------------------------
(***************************************************************************)
(* The transactional outbox: the table outbox_messages                     *)
(* (storage/postgres/outbox.go) and the workers that publish from it       *)
(* (app/worker/outbox_worker.go).                                          *)
(*                                                                         *)
(* Messages are numbered by created_at, which is the start of the          *)
(* transaction that inserts them: they become visible, when that           *)
(* transaction commits, in any order.                                      *)
(*                                                                         *)
(* GetPendingOutboxMessages runs outside a transaction, so the row locks   *)
(* of FOR UPDATE SKIP LOCKED are gone when it returns.  A worker holds     *)
(* nothing but a copy of the rows while it publishes, and the two Mark     *)
(* statements update by id whatever the row says by then.                  *)
(***************************************************************************)
EXTENDS Naturals, FiniteSets

CONSTANTS
  Workers,      \* OutboxWorker.Run loops, one per instance of the service
  Messages,     \* messages 1, 2, ... in the order of created_at
  BatchSize,    \* the LIMIT of a fetch
  MaxRetries,   \* max_retries of every message
  MaxFaults     \* bound: crashes and failed Mark statements

ASSUME OutboxAssumption ==
  /\ Messages \subseteq Nat
  /\ BatchSize \in Nat \ {0}
  /\ MaxRetries \in Nat \ {0}
  /\ MaxFaults \in Nat

VARIABLES
  status,       \* column status; "absent" before the insert commits
  retryCount,   \* column retry_count
  batch,        \* the fetched messages each worker has not finished
  step,         \* where it is with the first of them
  handed,       \* how often PublishWithContext took a message
  faults        \* crashes and failed Mark statements so far

vars == <<status, retryCount, batch, step, handed, faults>>

TypeOK ==
  /\ status \in [Messages -> {"absent", "pending", "sent", "failed"}]
  /\ retryCount \in [Messages -> Nat]
  /\ batch \in [Workers -> SUBSET Messages]
  /\ step \in [Workers -> {"next", "accepted", "refused"}]
  /\ handed \in [Messages -> Nat]
  /\ faults \in 0 .. MaxFaults

Init ==
  /\ status = [m \in Messages |-> "absent"]
  /\ retryCount = [m \in Messages |-> 0]
  /\ batch = [w \in Workers |-> {}]
  /\ step = [w \in Workers |-> "next"]
  /\ handed = [m \in Messages |-> 0]
  /\ faults = 0

-----------------------------------------------------------------------------
(* The insert of UpdateWithOutbox becomes visible.                         *)
Insert(m) ==
  /\ status[m] = "absent"
  /\ status' = [status EXCEPT ![m] = "pending"]
  /\ UNCHANGED <<retryCount, batch, step, handed, faults>>

(* A faulty filter that looks at the retries only.                         *)
DueUnfiltered(m) == status[m] # "absent" /\ retryCount[m] < MaxRetries

Due(m) == status[m] = "pending" /\ retryCount[m] < MaxRetries

(* What the other workers may have locked at this very moment, by a fetch  *)
(* or by a Mark.                                                           *)
Touched(w) == UNION {batch[v] : v \in Workers \ {w}}

(* ORDER BY created_at LIMIT BatchSize, without the rows that are locked.  *)
Oldest(S, due) ==
  /\ S \subseteq due
  /\ \A m \in S, n \in due \ S : m < n
  /\ \/ Cardinality(S) = BatchSize
     \/ S = due /\ Cardinality(S) < BatchSize

(* One tick of the worker.  The rows another worker touches are skipped or *)
(* not, depending on the instant; with no row the tick does nothing.       *)
Fetch(w) ==
  /\ batch[w] = {}
  /\ \E skipped \in SUBSET Touched(w) :
       LET due == {m \in Messages : Due(m)} \ skipped
       IN  \E S \in SUBSET due :
             /\ S # {}
             /\ Oldest(S, due)
             /\ batch' = [batch EXCEPT ![w] = S]
  /\ UNCHANGED <<status, retryCount, step, handed, faults>>

(* processBatch takes the messages in the order of the query.              *)
First(w, m) == m \in batch[w] /\ \A n \in batch[w] : m <= n

(* PublishWithContext returns nil: the client wrote the frames.  There are *)
(* no publisher confirms, so the broker may still not have the message.    *)
Publish(w, m) ==
  /\ First(w, m) /\ step[w] = "next"
  /\ handed' = [handed EXCEPT ![m] = @ + 1]
  /\ step' = [step EXCEPT ![w] = "accepted"]
  /\ UNCHANGED <<status, retryCount, batch, faults>>

PublishError(w, m) ==
  /\ First(w, m) /\ step[w] = "next"
  /\ step' = [step EXCEPT ![w] = "refused"]
  /\ UNCHANGED <<status, retryCount, batch, handed, faults>>

(* processMessage returns and the loop goes on to the next message.        *)
Finish(w, m) ==
  /\ batch' = [batch EXCEPT ![w] = @ \ {m}]
  /\ step' = [step EXCEPT ![w] = "next"]

(* A faulty worker that marks a message sent whatever publishing returned. *)
MarkOutboxSentAlways(w, m) ==
  /\ First(w, m) /\ step[w] # "next"
  /\ status' = [status EXCEPT ![m] = "sent"]
  /\ Finish(w, m)
  /\ UNCHANGED <<retryCount, handed, faults>>

MarkOutboxSent(w, m) ==
  /\ First(w, m) /\ step[w] = "accepted"
  /\ status' = [status EXCEPT ![m] = "sent"]
  /\ Finish(w, m)
  /\ UNCHANGED <<retryCount, handed, faults>>

(* Faulty retries: one never gives up, one writes a status of its own that *)
(* no fetch asks for, one does not count.                                  *)
MarkOutboxPending(w, m) ==
  /\ First(w, m) /\ step[w] = "refused"
  /\ retryCount' = [retryCount EXCEPT ![m] = @ + 1]
  /\ status' = [status EXCEPT ![m] = IF @ = "absent" THEN @ ELSE "pending"]
  /\ Finish(w, m)
  /\ UNCHANGED <<handed, faults>>

MarkOutboxRetrying(w, m) ==
  /\ First(w, m) /\ step[w] = "refused"
  /\ retryCount' = [retryCount EXCEPT ![m] = @ + 1]
  /\ status' = [status EXCEPT ![m] = "retrying"]
  /\ Finish(w, m)
  /\ UNCHANGED <<handed, faults>>

MarkOutboxUncounted(w, m) ==
  /\ First(w, m) /\ step[w] = "refused"
  /\ status' = [status EXCEPT ![m] =
                  IF retryCount[m] + 1 >= MaxRetries THEN "failed" ELSE "pending"]
  /\ Finish(w, m)
  /\ UNCHANGED <<retryCount, handed, faults>>

(* The CASE of MarkOutboxFailed gives up at max_retries.                   *)
MarkOutboxFailed(w, m) ==
  /\ First(w, m) /\ step[w] = "refused"
  /\ retryCount' = [retryCount EXCEPT ![m] = @ + 1]
  /\ status' = [status EXCEPT ![m] =
                  IF retryCount[m] + 1 >= MaxRetries THEN "failed" ELSE "pending"]
  /\ Finish(w, m)
  /\ UNCHANGED <<handed, faults>>

(* The UPDATE of a Mark fails: logged, and the row stays as it was.        *)
MarkError(w, m) ==
  /\ First(w, m) /\ step[w] # "next"
  /\ faults < MaxFaults
  /\ faults' = faults + 1
  /\ Finish(w, m)
  /\ UNCHANGED <<status, retryCount, handed>>

(* The process dies in the middle of a batch and starts again.             *)
Crash(w) ==
  /\ batch[w] # {}
  /\ faults < MaxFaults
  /\ faults' = faults + 1
  /\ batch' = [batch EXCEPT ![w] = {}]
  /\ step' = [step EXCEPT ![w] = "next"]
  /\ UNCHANGED <<status, retryCount, handed>>

-----------------------------------------------------------------------------
Work(w) ==
  \/ Fetch(w)
  \/ \E m \in Messages :
       \/ Publish(w, m) \/ PublishError(w, m)
       \/ MarkOutboxSent(w, m) \/ MarkOutboxFailed(w, m)

Next ==
  \/ \E m \in Messages : Insert(m)
  \/ \E w \in Workers : Work(w)
  \/ \E w \in Workers, m \in Messages : MarkError(w, m)
  \/ \E w \in Workers : Crash(w)

Spec == Init /\ [][Next]_vars

(* The ticker fires for ever and every worker finishes its batch.          *)
FairSpec == Spec /\ \A w \in Workers : WF_vars(Work(w))

-----------------------------------------------------------------------------
(* With any number of workers, a row marked sent was taken by the AMQP     *)
(* client at least once (MarkOutboxSent only follows a publish).           *)
SentWasHanded == \A m \in Messages : status[m] = "sent" => handed[m] > 0

(* No message is stranded: a pending one is always still due, so a later   *)
(* fetch sees it, and one that was given up used all its attempts (the     *)
(* CASE of MarkOutboxFailed against the filter of the fetch).              *)
NoMessageIsStranded ==
  \A m \in Messages :
    /\ status[m] = "pending" => retryCount[m] < MaxRetries
    /\ status[m] = "failed" => retryCount[m] >= MaxRetries

(* One of the copies of m is the one that counts.                          *)
Settled(m) ==
  \/ status[m] = "sent"
  \/ \E w \in Workers : First(w, m) /\ step[w] = "accepted"

(* With one worker, every copy of a message after the first has a crash or *)
(* a failed Mark statement to answer for: at least once, and no more than  *)
(* once without faults.                                                    *)
DuplicatesNeedFaults ==
  \A m \in Messages :
    handed[m] <= faults + (IF Settled(m) THEN 1 ELSE 0)

(* With one worker, sent and failed are final.                             *)
OutcomeIsFinal ==
  [][\A m \in Messages :
       status[m] \in {"sent", "failed"} => status'[m] = status[m]]_vars

(* Every message in the table is sent or given up in the end, whatever     *)
(* fails on the way (the retry loop of the worker).                        *)
EveryMessageSettles ==
  \A m \in Messages :
    status[m] = "pending" ~> status[m] \in {"sent", "failed"}
=============================================================================
