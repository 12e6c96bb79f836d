----------------------------- MODULE SolveWorker ------------------------------
(***************************************************************************)
(* The schedule.solve side of the worker (apps/worker/main.py): receive a  *)
(* message, claim the job, call the engine, store the result, and settle   *)
(* the message.  A worker handles one message at a time.                   *)
(*                                                                         *)
(* The claim draws a fresh uuid as execution token.  A worker has at most  *)
(* one token in hand (worker[w].holds) and uses it only for the job it was *)
(* drawn for, so the worker's name can stand for its token on the row.     *)
(*                                                                         *)
(* "rejected" is a NonRetryableJobError on its way out, "failed" any other *)
(* exception, "busy" ScheduleJobBusyError; "settled" means that only the   *)
(* ack (or the reject to the dead-letter queue) of the message is left.    *)
(***************************************************************************)
EXTENDS SolveState

Goto(w, pc) == worker' = [worker EXCEPT ![w].pc = pc]
FailWithoutToken(w) ==
    worker' = [worker EXCEPT ![w].pc = "failed", ![w].holds = FALSE]

\* nack(requeue=True), or the broker redelivering what a dead worker held.
Requeue(w, q) ==
    /\ queue' = Enqueue(q, worker[w].job, worker[w].retry)
    /\ worker' = [worker EXCEPT ![w] = IdleWorker]

\* Mutant of OwnsRow: without a token the lease is not looked at.
OwnsRowIgnoringLease(w, j) == worker[w].holds => row[j].token = w

\* The test of the conditional updates: with a token it must be the row's;
\* without one the row must have no live owner.
OwnsRow(w, j) == IF worker[w].holds THEN row[j].token = w ELSE ~LiveLease(j)

\* Give the job to a terminal status with its refund.
Terminalized(r, status, retry) ==
    [r EXCEPT !.status = status, !.retryCount = retry,
              !.token = NoToken, !.live = FALSE]

\* _terminalize_schedule_solve_job_with_refund: the row and the refund
\* change together, or not at all.
Terminalize(w, status, retry) ==
    LET j == worker[w].job
    IN  IF IsActive(j) /\ Provenance(j) /\ OwnsRow(w, j)
        THEN /\ Put(j, Terminalized(row[j], status, retry))
             /\ SettleRefunds({j})
        ELSE UNCHANGED <<row, credits, refunds>>

-----------------------------------------------------------------------------
\* consume_queue hands the next message to handle_queue_message.
Receive(w, j, r) ==
    /\ worker[w].pc = "idle"
    /\ queue[<<j, r>>] > 0
    /\ queue' = Dequeue(queue, j, r)
    /\ worker' = [worker EXCEPT ![w] =
         [pc |-> "received", job |-> j, retry |-> r, holds |-> FALSE]]
    /\ UNCHANGED <<dbVars, row, done, sweep, faults, historyVars>>

\* The row a successful claim writes.  It refreshes updatedAt, from which
\* the recovery age of a PUBLISHED, RUNNING row is counted.
ClaimedRow(w, j) ==
    [row[j] EXCEPT !.status = "RUNNING", !.retryCount = worker[w].retry,
                   !.token = w, !.live = TRUE,
                   !.due = @ /\ row[j].publication # "PUBLISHED"]

\* An active job of a paid tenant that no live owner is running.
Claimable(j) ==
    /\ Provenance(j)
    /\ IsActive(j)
    /\ PaidTenant
    /\ ~(row[j].status = "RUNNING" /\ row[j].live)

\* _claim_schedule_solve_job_sync and the completed-key test after it.
Claim(w) ==
    LET j == worker[w].job
    IN  /\ worker[w].pc = "received"
        /\ j \notin Malformed
        /\ IF Claimable(j)
           THEN /\ Put(j, ClaimedRow(w, j))
                /\ worker' = [worker EXCEPT
                     ![w].pc = IF j \in done[w] THEN "settled" ELSE "solving",
                     ![w].holds = TRUE]
           ELSE /\ Goto(w, IF ~Provenance(j) THEN "rejected"
                           ELSE IF IsTerminal(j) THEN "settled"
                           ELSE IF ~PaidTenant THEN "rejected"
                           ELSE "busy")
                /\ UNCHANGED row
        /\ UNCHANGED <<dbVars, queue, done, sweep, faults, historyVars>>

\* The claim's connection fails; its transaction may have committed.
ClaimFails(w, committed) ==
    LET j == worker[w].job
    IN  /\ Fault
        /\ worker[w].pc = "received"
        /\ j \notin Malformed
        /\ committed => Claimable(j)
        /\ IF committed THEN Put(j, ClaimedRow(w, j)) ELSE UNCHANGED row
        /\ FailWithoutToken(w)
        /\ UNCHANGED <<dbVars, queue, done, sweep, historyVars>>

\* A payload that fails validation is never claimed: handle_queue_message
\* settles its job by id, without a token, and drops the message.
DeadLetterMalformed(w) ==
    /\ worker[w].pc = "received"
    /\ worker[w].job \in Malformed
    /\ Terminalize(w, "DEAD_LETTERED", worker[w].retry)
    /\ IF Provenance(worker[w].job)
       THEN /\ Goto(w, "settled")
            /\ UNCHANGED queue
       ELSE Requeue(w, queue)
    /\ UNCHANGED <<plan, debits, publications, schedule, done, sweep, faults,
                   historyVars>>

\* That settlement fails, and the source goes back to the queue.
DeadLetterMalformedFails(w, committed) ==
    /\ Fault
    /\ worker[w].pc = "received"
    /\ worker[w].job \in Malformed
    /\ IF committed THEN Terminalize(w, "DEAD_LETTERED", worker[w].retry)
                    ELSE UNCHANGED <<row, credits, refunds>>
    /\ Requeue(w, queue)
    /\ UNCHANGED <<plan, debits, publications, schedule, done, sweep,
                   historyVars>>

\* handle_solve_job up to the persist: the engine answers with a schedule
\* that passes validation, with an infeasible or invalid one, or not at all.
CallEngine(w) ==
    /\ worker[w].pc = "solving"
    /\ \E outcome \in {"solved", "rejected", "failed"} : Goto(w, outcome)
    /\ UNCHANGED <<dbVars, row, queue, done, sweep, faults, historyVars>>

\* Mutant of DraftUnchanged: the revision is not compared.
DraftStillOpen(j) ==
    /\ PaidTenant
    /\ schedule.status = "DRAFT"

\* The draft is still the one the job took its snapshot of.
DraftUnchanged(j) ==
    /\ PaidTenant
    /\ schedule.status = "DRAFT"
    /\ schedule.revision = row[j].draftRevision

\* The writes of _persist_solved_schedule_sync.
StoreResult(w, j) ==
    /\ schedule' = [schedule EXCEPT !.revision = @ + 1]
    /\ Put(j, [row[j] EXCEPT !.status = "SUCCEEDED", !.token = NoToken,
                             !.live = FALSE, !.retryCount = worker[w].retry])
    /\ writes' = writes + 1
    /\ appliedAt' = [appliedAt EXCEPT ![j] = writes + 1]
    /\ UNCHANGED <<plan, credits, debits, refunds, publications, basis>>

\* Mutant of CanStore: the status of the job is not tested.
CanStoreEndedJob(w, j) ==
    /\ DraftUnchanged(j)
    /\ Provenance(j)
    /\ row[j].token = w

\* The job is this worker's to complete.
CanStore(w, j) ==
    /\ DraftUnchanged(j)
    /\ Provenance(j)
    /\ IsActive(j)
    /\ row[j].token = w

\* What the persist refuses with a NonRetryableJobError, before it looks at
\* the execution token.
PersistRejects(j) == \/ ~DraftUnchanged(j)
                     \/ ~Provenance(j)
                     \/ row[j].status \in Refunded

\* Mutant of Persist: every outcome is remembered as completed.
PersistRemembersAll(w) ==
    LET j == worker[w].job
    IN  /\ worker[w].pc = "solved"
        /\ IF CanStore(w, j) THEN StoreResult(w, j)
                             ELSE UNCHANGED <<dbVars, row, historyVars>>
        /\ done' = [done EXCEPT ![w] = @ \cup {j}]
        /\ Goto(w, IF PersistRejects(j) THEN "rejected" ELSE "settled")
        /\ UNCHANGED <<queue, sweep, faults>>

\* _persist_solved_schedule_sync.  A lost token (ScheduleJobOwnershipLost)
\* settles the message without touching the job.  The lease is not tested.
\* A normal return is remembered as completed.
Persist(w) ==
    LET j == worker[w].job
    IN  /\ worker[w].pc = "solved"
        /\ IF CanStore(w, j) THEN StoreResult(w, j)
                             ELSE UNCHANGED <<dbVars, row, historyVars>>
        /\ done' = IF ~PersistRejects(j) /\ (IsTerminal(j) \/ row[j].token = w)
                   THEN [done EXCEPT ![w] = @ \cup {j}] ELSE done
        /\ Goto(w, IF PersistRejects(j) THEN "rejected" ELSE "settled")
        /\ UNCHANGED <<queue, sweep, faults>>

\* The persist's connection fails; its transaction may have committed.
PersistFails(w, committed) ==
    LET j == worker[w].job
    IN  /\ Fault
        /\ worker[w].pc = "solved"
        /\ committed => CanStore(w, j)
        /\ IF committed THEN StoreResult(w, j)
                        ELSE UNCHANGED <<dbVars, row, historyVars>>
        /\ Goto(w, "failed")
        /\ UNCHANGED <<queue, done, sweep>>

\* A NonRetryableJobError: mark the job FAILED, then drop the message to the
\* dead-letter queue.  Lost ownership drops it too.
MarkFailed(w) ==
    /\ worker[w].pc = "rejected"
    /\ Terminalize(w, "FAILED", worker[w].retry)
    /\ IF Provenance(worker[w].job) THEN Goto(w, "settled")
                                    ELSE FailWithoutToken(w)
    /\ UNCHANGED <<plan, debits, publications, schedule, queue, done, sweep,
                   faults, historyVars>>

\* That update fails, and the error that leaves _process_message is a
\* retryable one without the execution token.
MarkFailedFails(w, committed) ==
    /\ Fault
    /\ worker[w].pc = "rejected"
    /\ IF committed THEN Terminalize(w, "FAILED", worker[w].retry)
                    ELSE UNCHANGED <<row, credits, refunds>>
    /\ FailWithoutToken(w)
    /\ UNCHANGED <<plan, debits, publications, schedule, queue, done, sweep,
                   historyVars>>

\* Mutant of PublishRetry: one retry too many.
PublishRetryOnceMore(w) ==
    /\ worker[w].pc = "failed"
    /\ worker[w].retry <= MaxRetries
    /\ queue' = Enqueue(queue, worker[w].job, worker[w].retry + 1)
    /\ Goto(w, "republished")
    /\ UNCHANGED <<dbVars, row, done, sweep, faults, historyVars>>

\* handle_queue_message, retries left: publish the replacement first.
PublishRetry(w) ==
    /\ worker[w].pc = "failed"
    /\ worker[w].retry < MaxRetries
    /\ queue' = Enqueue(queue, worker[w].job, worker[w].retry + 1)
    /\ Goto(w, "republished")
    /\ UNCHANGED <<dbVars, row, done, sweep, faults, historyVars>>

\* The replacement is not confirmed: the source goes back to the queue,
\* beside a replacement the broker may have taken.
PublishRetryFails(w, taken) ==
    /\ Fault
    /\ worker[w].pc = "failed"
    /\ worker[w].retry < MaxRetries
    /\ Requeue(w, IF taken
                  THEN Enqueue(queue, worker[w].job, worker[w].retry + 1)
                  ELSE queue)
    /\ UNCHANGED <<dbVars, row, done, sweep, historyVars>>

\* The RETRYING update; failing or matching no row, it is only logged.
MarkRetrying(w) ==
    LET j == worker[w].job
    IN  /\ worker[w].pc = "republished"
        /\ IF IsActive(j) /\ OwnsRow(w, j)
           THEN Put(j, [row[j] EXCEPT !.status = "RETRYING",
                                      !.retryCount = worker[w].retry + 1,
                                      !.publication = "PUBLISHED", !.due = FALSE,
                                      !.token = NoToken, !.live = FALSE])
           ELSE UNCHANGED row
        /\ Goto(w, "settled")
        /\ UNCHANGED <<dbVars, queue, done, sweep, faults, historyVars>>

MarkRetryingFails(w) ==
    /\ Fault
    /\ worker[w].pc = "republished"
    /\ Goto(w, "settled")
    /\ UNCHANGED <<dbVars, row, queue, done, sweep, historyVars>>

\* handle_queue_message, retries exhausted.  If another owner is live the
\* source goes back to the queue.
DeadLetter(w) ==
    LET j == worker[w].job
    IN  /\ worker[w].pc = "failed"
        /\ worker[w].retry = MaxRetries
        /\ Terminalize(w, "DEAD_LETTERED", MaxRetries)
        /\ IF Provenance(j) /\ (IsTerminal(j) \/ OwnsRow(w, j))
           THEN /\ Goto(w, "settled")
                /\ UNCHANGED queue
           ELSE Requeue(w, queue)
        /\ UNCHANGED <<plan, debits, publications, schedule, done, sweep,
                       faults, historyVars>>

DeadLetterFails(w, committed) ==
    /\ Fault
    /\ worker[w].pc = "failed"
    /\ worker[w].retry = MaxRetries
    /\ IF committed THEN Terminalize(w, "DEAD_LETTERED", MaxRetries)
                    ELSE UNCHANGED <<row, credits, refunds>>
    /\ Requeue(w, queue)
    /\ UNCHANGED <<plan, debits, publications, schedule, done, sweep,
                   historyVars>>

\* A busy delivery is delayed without consuming the retry budget.
DelayBusy(w) ==
    /\ worker[w].pc = "busy"
    /\ queue' = Enqueue(queue, worker[w].job, worker[w].retry)
    /\ Goto(w, "settled")
    /\ UNCHANGED <<dbVars, row, done, sweep, faults, historyVars>>

DelayBusyFails(w, taken) ==
    /\ Fault
    /\ worker[w].pc = "busy"
    /\ Requeue(w, IF taken THEN Enqueue(queue, worker[w].job, worker[w].retry)
                           ELSE queue)
    /\ UNCHANGED <<dbVars, row, done, sweep, historyVars>>

\* message.ack() or reject(requeue=False)
Settle(w) ==
    /\ worker[w].pc = "settled"
    /\ worker' = [worker EXCEPT ![w] = IdleWorker]
    /\ UNCHANGED <<dbVars, row, queue, done, sweep, faults, historyVars>>

\* The worker process stops; the broker redelivers its unsettled message to
\* the process that replaces it, whose completed-key cache is empty.
WorkerCrash(w) ==
    /\ Fault
    /\ worker[w].pc # "idle"
    /\ Requeue(w, queue)
    /\ done' = [done EXCEPT ![w] = {}]
    /\ UNCHANGED <<dbVars, row, sweep, historyVars>>
=============================================================================
