---------------------------- MODULE SolvePublisher ----------------------------
(***************************************************************************)
(* The transactional outbox publisher (schedule-solve-outbox.publisher.ts).*)
(* A sweep claims an outbox row, sends its message to RabbitMQ, waits for  *)
(* the confirm and acknowledges the row.  Sweeps run concurrently: the     *)
(* poll loop of every API process, and one for every request.  With one    *)
(* schedule at most one job is active, so a sweep claims one row at most.  *)
(*                                                                         *)
(* row[j].due stands for the time test of the claim query that applies to  *)
(* the row: nextPublishAt, publishLeaseUntil, or publishedAt / updatedAt   *)
(* older than the recovery age.                                            *)
(***************************************************************************)
EXTENDS SolveState

\* Mutant of SameClaim: the attempt number is not compared.
SameClaimAnyAttempt(p, j) == row[j].publication = "PUBLISHING"

\* The row is still the one this sweep claimed.
SameClaim(p, j) == /\ row[j].publication = "PUBLISHING"
                   /\ row[j].attempts = sweep[p].attempt

\* Mutant of SweepClaim: a confirmed publication is never sent again.
SweepClaimUnconfirmed(p, j) ==
    /\ sweep[p].pc = "idle"
    /\ IsActive(j)
    /\ row[j].due
    /\ row[j].publication # "PUBLISHED"
    /\ IF Provenance(j)
       THEN /\ Put(j, [row[j] EXCEPT !.publication = "PUBLISHING", !.due = FALSE,
                                     !.attempts = @ + 1])
            /\ sweep' = [sweep EXCEPT ![p] =
                 [pc |-> "sending", job |-> j, attempt |-> row[j].attempts + 1,
                  retry |-> IF row[j].status = "QUEUED" THEN 0
                            ELSE row[j].retryCount]]
       ELSE /\ Put(j, [row[j] EXCEPT !.publication = "FAILED", !.due = FALSE])
            /\ UNCHANGED sweep
    /\ UNCHANGED <<dbVars, queue, worker, done, faults, historyVars>>

\* claim: FOR UPDATE SKIP LOCKED, so one sweep wins.  An invalid ledger
\* parks the row instead.  A job that already ran is sent with its retry
\* count.
SweepClaim(p, j) ==
    /\ sweep[p].pc = "idle"
    /\ IsActive(j)
    /\ row[j].due
    /\ IF Provenance(j)
       THEN /\ Put(j, [row[j] EXCEPT !.publication = "PUBLISHING", !.due = FALSE,
                                     !.attempts = @ + 1])
            /\ sweep' = [sweep EXCEPT ![p] =
                 [pc |-> "sending", job |-> j, attempt |-> row[j].attempts + 1,
                  retry |-> IF row[j].status = "QUEUED" THEN 0
                            ELSE row[j].retryCount]]
       ELSE /\ Put(j, [row[j] EXCEPT !.publication = "FAILED", !.due = FALSE])
            /\ UNCHANGED sweep
    /\ UNCHANGED <<dbVars, queue, worker, done, faults, historyVars>>

\* sendToQueue, and the broker's confirm arrives.
SendConfirmed(p) ==
    /\ sweep[p].pc = "sending"
    /\ queue' = Enqueue(queue, sweep[p].job, sweep[p].retry)
    /\ sweep' = [sweep EXCEPT ![p].pc = "confirmed"]
    /\ UNCHANGED <<dbVars, row, worker, done, faults, historyVars>>

\* The transport fails or the confirm misses its deadline; the broker may
\* have taken the message all the same.
SendFailed(p, taken) ==
    /\ Fault
    /\ sweep[p].pc = "sending"
    /\ queue' = IF taken THEN Enqueue(queue, sweep[p].job, sweep[p].retry)
                         ELSE queue
    /\ sweep' = [sweep EXCEPT ![p].pc = "failing"]
    /\ UNCHANGED <<dbVars, row, worker, done, historyVars>>

\* markPublished
MarkPublished(p) ==
    LET j == sweep[p].job
    IN  /\ sweep[p].pc = "confirmed"
        /\ IF SameClaim(p, j)
           THEN Put(j, [row[j] EXCEPT !.publication = "PUBLISHED", !.due = FALSE])
           ELSE UNCHANGED row
        /\ sweep' = [sweep EXCEPT ![p] = IdleSweep]
        /\ UNCHANGED <<dbVars, queue, worker, done, faults, historyVars>>

\* markFailed.  aged: the publication is older than its maximum age.
MarkPublicationFailed(p, aged) ==
    LET j == sweep[p].job
        permanent == aged \/ sweep[p].attempt >= MaxPublishAttempts
    IN  /\ sweep[p].pc = "failing"
        /\ IF permanent
           THEN /\ sweep' = [sweep EXCEPT ![p] =
                     IF LiveLease(j) THEN IdleSweep
                     ELSE [sweep[p] EXCEPT !.pc = "terminalizing"]]
                /\ UNCHANGED row
           ELSE /\ IF SameClaim(p, j)
                   THEN Put(j, [row[j] EXCEPT !.publication = "FAILED",
                                              !.due = FALSE])
                   ELSE UNCHANGED row
                /\ sweep' = [sweep EXCEPT ![p] = IdleSweep]
        /\ UNCHANGED <<dbVars, queue, worker, done, faults, historyVars>>

\* Mutant of CanTerminalizePublication: the job's status is not tested.
CanTerminalizeEndedJob(p, j) ==
    /\ Provenance(j)
    /\ SameClaim(p, j)
    /\ ~LiveLease(j)

\* What terminalizeFailedPublication requires of the locked job.
CanTerminalizePublication(p, j) ==
    /\ IsActive(j)
    /\ Provenance(j)
    /\ SameClaim(p, j)
    /\ ~LiveLease(j)

\* terminalizeFailedPublication: FAILED and refunded, or nothing.  The stale
\* execution token stays on the row.
TerminalizePublication(p) ==
    LET j == sweep[p].job
    IN  /\ sweep[p].pc = "terminalizing"
        /\ IF CanTerminalizePublication(p, j)
           THEN /\ Put(j, [row[j] EXCEPT !.status = "FAILED",
                                         !.publication = "FAILED"])
                /\ SettleRefunds({j})
           ELSE UNCHANGED <<row, credits, refunds>>
        /\ sweep' = [sweep EXCEPT ![p] = IdleSweep]
        /\ UNCHANGED <<plan, debits, publications, schedule, queue, worker,
                       done, faults, historyVars>>

\* The API process stops, or the database refuses the sweep's last write
\* (which is then only logged): the row stays PUBLISHING.
SweepStops(p) ==
    /\ Fault
    /\ sweep[p].pc # "idle"
    /\ sweep' = [sweep EXCEPT ![p] = IdleSweep]
    /\ UNCHANGED <<dbVars, row, queue, worker, done, historyVars>>
=============================================================================
