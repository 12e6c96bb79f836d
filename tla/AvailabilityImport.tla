--------------------------- MODULE AvailabilityImport ---------------------------
(***************************************************************************)
(* Paid availability PDF imports.  The API writes the job row, with the    *)
(* encrypted document in it, and the credit debit in one transaction; an   *)
(* outbox publisher sends its id to the worker queue; a worker claims the  *)
(* row with a token and a lease, parses the document and completes the     *)
(* import.  Cancellation, deletion of the employee or of the account, the  *)
(* dead letter and the retention sweep end it otherwise, and refund it.    *)
(*                                                                         *)
(* A transaction is one step.  A claim strictly raises row.attempts, so    *)
(* the number it sets also stands for the claim's random execution token.  *)
(***************************************************************************)
EXTENDS Integers, FiniteSets

CONSTANTS
    Imports,       \* possible import requests, each with its own key
    Handlers,      \* worker processes, one message at a time
    Publishers,    \* API replicas, each with one outbox sweep
    None,
    MaxRetries,    \* WORKER_MAX_RETRIES
    Cost,          \* credits of one import
    InitialCredits,
    MaxFaults,     \* bound: lost calls, crashes and early time-outs
    MaxSwitches    \* bound: changes of plan and of the employee's account

ImportAssumption ==
    /\ IsFiniteSet(Imports)
    /\ None \notin Imports \cup Publishers
    /\ MaxRetries \in Nat
    /\ Cost \in Nat \ {0}
    /\ InitialCredits \in Nat
    /\ MaxFaults \in Nat
    /\ MaxSwitches \in Nat

VARIABLES
    plan,      \* Tenant: PAID, LAPSED or CLOSED
    target,    \* the employee: active, suspended, deleted, or renamed (has
               \* another user name than when the imports were requested)
    credits,   \* Tenant.usageCredits
    debits,    \* ledger rows feature-usage-availability-import:<id>
    refunds,   \* ledger rows feature-refund-availability-import:<id>
    row,       \* AvailabilityImportJob
    file,      \* imports whose local copy is on the upload volume
    queue,     \* worker queues: number of messages for an id and retry_count
    handler,   \* what each worker is doing
    completed, \* _COMPLETED_JOB_KEYS of each worker
    publisher, \* what each outbox sweep is doing
    faults,
    switches,
    runs       \* history: claims made for the import

imVars == <<plan, target, credits, debits, refunds, row, file, queue, handler,
            completed, publisher, faults, switches, runs>>
moneyVars == <<credits, debits, refunds>>
accountVars == <<plan, target>>
bounds == <<faults, switches>>

-----------------------------------------------------------------------------
MaxClaims == MaxRetries + 1
NoToken == 0
\* The token of a claim that was never stored.
LostToken == MaxClaims + 1

Refunded == {"FAILED", "DEAD_LETTERED", "CANCELLED"}
Terminal == Refunded \cup {"SUCCEEDED"}
Live == {"PENDING", "RUNNING", "RETRYING"}

\* wait: the publish lease is live, or nextPublishAt is not reached.  aged:
\* a RETRYING row has not changed for the recovery grace.  age: expiresAt
\* (one hour) or the hard source deadline (24 hours) is reached.
Row == [status : Live \cup Terminal \cup {"NONE"},
        attempts : 0 .. MaxClaims, token : 0 .. MaxClaims,
        lease : {"none", "live", "ended"},
        pub : {"PENDING", "PUBLISHING", "PUBLISHED", "FAILED"},
        pubToken : Publishers \cup {None}, wait : BOOLEAN,
        aged : BOOLEAN, source : BOOLEAN, age : {"young", "expired", "overdue"}]

NoRow == [status |-> "NONE", attempts |-> 0, token |-> NoToken, lease |-> "none",
          pub |-> "PENDING", pubToken |-> None, wait |-> FALSE,
          aged |-> FALSE, source |-> FALSE, age |-> "young"]

HandlerPC == {"idle", "received", "rejected", "busy", "claimed", "parsed",
              "invalid", "cleaning", "cleaned", "retry", "replaced",
              "exhausted", "poison"}
\* retry: retry_count of the message; effective: what the error that is being
\* handled says of it.
Handler == [pc : HandlerPC, i : Imports \cup {None}, retry : 0 .. MaxRetries,
            effective : 0 .. MaxRetries, token : 0 .. LostToken, source : BOOLEAN]
IdleHandler == [pc |-> "idle", i |-> None, retry |-> 0, effective |-> 0,
                token |-> NoToken, source |-> FALSE]

Publisher == [pc : {"idle", "recover", "claim", "publish"}, i : Imports \cup {None},
              retry : 0 .. MaxRetries]
IdlePublisher == [pc |-> "idle", i |-> None, retry |-> 0]

Larger(a, b) == IF a > b THEN a ELSE b
Smaller(a, b) == IF a < b THEN a ELSE b

Put(i, r) == row' = [row EXCEPT ![i] = r]
Goto(h, pc) == handler' = [handler EXCEPT ![h].pc = pc]
Enqueue(i, n) == queue' = [queue EXCEPT ![i][n] = @ + 1]

Fault == /\ faults < MaxFaults
         /\ faults' = faults + 1
         /\ UNCHANGED switches

\* ack, and reject to the dead-letter queue that nobody consumes.
Ack(h) == handler' = [handler EXCEPT ![h] = IdleHandler]

\* nack with requeue: the message comes back as it was.
Nack(h) == Ack(h) /\ Enqueue(handler[h].i, handler[h].retry)

\* An error that carries neither token nor retry count.
PlainError(h) == handler' = [handler EXCEPT ![h].pc = "retry", ![h].token = NoToken,
                                            ![h].effective = handler[h].retry]

Unexpired(i) == row[i].age = "young"

\* _has_paid_credit_reservation
Reserved(i) == i \in debits /\ i \notin refunds

-----------------------------------------------------------------------------
(* The API. *)

\* createImport: the key is new, or the request is a replay that writes
\* nothing.  The local copy is optional.
CreateImport(i, copied) ==
    /\ row[i].status = "NONE"
    /\ plan = "PAID"
    /\ target = "active"
    /\ credits >= Cost
    /\ credits' = credits - Cost
    /\ debits' = debits \cup {i}
    /\ Put(i, [NoRow EXCEPT !.status = "PENDING", !.source = TRUE])
    /\ file' = IF copied THEN file \cup {i} ELSE file
    /\ UNCHANGED <<accountVars, refunds, queue, handler, completed, publisher, bounds, runs>>

\* What every end of an import does to its row.
EndedRow(r, s) == [r EXCEPT !.status = s, !.token = NoToken, !.lease = "none",
                            !.aged = FALSE, !.source = FALSE]

\* settle_positive_credit_value, for the imports that have no refund row.
Refund(I) ==
    /\ refunds' = refunds \cup I
    /\ credits' = credits + Cost * Cardinality(I \ refunds)
    /\ UNCHANGED debits

\* cancelImport.  The local copy is unlinked after the commit, best effort.
CancelImport(i, gone) ==
    /\ row[i].status \in Live
    /\ Reserved(i)
    /\ Refund({i})
    /\ Put(i, EndedRow(row[i], "CANCELLED"))
    /\ file' = IF gone THEN file \ {i} ELSE file
    /\ UNCHANGED <<accountVars, queue, handler, completed, publisher, bounds, runs>>

\* Deletion of the employee and of the account cancel every import that did
\* not succeed, failed ones too, and refund those that were not refunded.
CancelAll(gone) ==
    LET I == {i \in Imports : row[i].status \in Live \cup Refunded}
    IN  /\ Refund(I)
        /\ row' = [i \in Imports |->
             IF i \in I
             THEN [EndedRow(row[i], "CANCELLED") EXCEPT !.pub = "FAILED",
                                                        !.pubToken = None, !.wait = FALSE]
             ELSE [row[i] EXCEPT !.pubToken = None, !.source = FALSE]]
        /\ file' = IF gone THEN {} ELSE file
        /\ UNCHANGED <<queue, handler, completed, publisher, bounds, runs>>

DeleteEmployee(gone) == /\ target # "deleted"
                        /\ plan # "CLOSED"
                        /\ target' = "deleted"
                        /\ CancelAll(gone)
                        /\ UNCHANGED plan

CloseAccount(gone) == /\ plan # "CLOSED"
                      /\ plan' = "CLOSED"
                      /\ CancelAll(gone)
                      /\ UNCHANGED target

Switch == /\ switches < MaxSwitches
          /\ switches' = switches + 1
          /\ UNCHANGED <<moneyVars, row, file, queue, handler, completed, publisher, faults, runs>>

ChangePlan(p) == /\ plan \notin {"CLOSED", p}
                 /\ plan' = p
                 /\ Switch
                 /\ UNCHANGED target

\* The employee is suspended or gets another user name.
ChangeTarget(t) == /\ target \notin {"deleted", t}
                   /\ target' = t
                   /\ Switch
                   /\ UNCHANGED plan

-----------------------------------------------------------------------------
(* The outbox publisher: one sweep is four transactions, or more. *)

SweepTo(p, pc) == publisher' = [publisher EXCEPT ![p].pc = pc]

\* reconcileWorkerAccepted
Reconcile(p) ==
    /\ publisher[p].pc = "idle"
    /\ SweepTo(p, "recover")
    /\ row' = [i \in Imports |->
         IF row[i].pub # "PUBLISHED" /\ row[i].status \notin {"NONE", "PENDING"}
            /\ row[i].attempts > 0
         THEN [row[i] EXCEPT !.pub = "PUBLISHED", !.pubToken = None, !.wait = FALSE]
         ELSE row[i]]
    /\ UNCHANGED <<accountVars, moneyVars, file, queue, handler, completed, bounds, runs>>

Stranded(i) ==
    /\ Unexpired(i)
    /\ \/ row[i].status = "RUNNING" /\ row[i].lease = "ended"
       \/ row[i].status = "RETRYING" /\ row[i].token = NoToken /\ row[i].aged

\* recoverExpiredExecutions
Recover(p) ==
    /\ publisher[p].pc = "recover"
    /\ SweepTo(p, "claim")
    /\ row' = [i \in Imports |->
         IF Stranded(i)
         THEN [row[i] EXCEPT !.status = "PENDING", !.token = NoToken, !.lease = "none",
                             !.aged = FALSE, !.pub = "PENDING", !.pubToken = None,
                             !.wait = FALSE]
         ELSE row[i]]
    /\ UNCHANGED <<accountVars, moneyVars, file, queue, handler, completed, bounds, runs>>

Publishable(i) == /\ row[i].status = "PENDING"
                  /\ Unexpired(i)
                  /\ row[i].pub # "PUBLISHED"
                  /\ ~row[i].wait

\* claim.  A batch is one row here; no row ends the sweep.
ClaimPublication(p) ==
    /\ publisher[p].pc = "claim"
    /\ \/ \E i \in Imports :
            /\ Publishable(i)
            /\ Put(i, [row[i] EXCEPT !.pub = "PUBLISHING", !.pubToken = p, !.wait = TRUE])
            /\ publisher' = [publisher EXCEPT ![p] =
                 [pc |-> "publish", i |-> i, retry |-> Smaller(row[i].attempts, MaxRetries)]]
       \/ /\ \A i \in Imports : ~Publishable(i)
          /\ SweepTo(p, "idle")
          /\ UNCHANGED row
    /\ UNCHANGED <<accountVars, moneyVars, file, queue, handler, completed, bounds, runs>>

\* The row of a publication that is still this publisher's.
OwnsPublication(p) == LET i == publisher[p].i
                      IN  row[i].pub = "PUBLISHING" /\ row[i].pubToken = p

\* The message is confirmed (publishClaim records it when the row is still its own).
Publish(p) ==
    LET i == publisher[p].i
    IN  /\ publisher[p].pc = "publish"
        /\ Enqueue(i, publisher[p].retry)
        /\ IF OwnsPublication(p)
           THEN Put(i, [row[i] EXCEPT !.pub = "PUBLISHED", !.pubToken = None, !.wait = FALSE])
           ELSE UNCHANGED row
        /\ publisher' = [publisher EXCEPT ![p] = IdlePublisher]
        /\ UNCHANGED <<accountVars, moneyVars, file, handler, completed, bounds, runs>>

\* The publish or the write after it fails: the message may be in the queue,
\* and FAILED (markFailed) may be recorded or not.
PublishFails(p, taken, marked) ==
    LET i == publisher[p].i
    IN  /\ publisher[p].pc = "publish"
        /\ Fault
        /\ IF taken THEN Enqueue(i, publisher[p].retry) ELSE UNCHANGED queue
        /\ IF marked /\ OwnsPublication(p)
           THEN Put(i, [row[i] EXCEPT !.pub = "FAILED", !.pubToken = None])
           ELSE UNCHANGED row
        /\ publisher' = [publisher EXCEPT ![p] = IdlePublisher]
        /\ UNCHANGED <<accountVars, moneyVars, file, handler, completed, runs>>

-----------------------------------------------------------------------------
(* A message in the worker. *)

\* Mutant of Receive: the key is remembered before the work is done.
ReceiveRemembers(h, i, n) ==
    /\ handler[h].pc = "idle"
    /\ queue[i][n] > 0
    /\ queue' = [queue EXCEPT ![i][n] = @ - 1]
    /\ IF i \in completed[h] THEN UNCHANGED <<handler, completed>>
       ELSE /\ handler' = [handler EXCEPT ![h] = [IdleHandler EXCEPT
                              !.pc = "received", !.i = i, !.retry = n, !.effective = n]]
            /\ completed' = [completed EXCEPT ![h] = @ \cup {i}]
    /\ UNCHANGED <<accountVars, moneyVars, row, file, publisher, bounds, runs>>

\* A message of an import this process remembers as completed is acked.
Receive(h, i, n) ==
    /\ handler[h].pc = "idle"
    /\ queue[i][n] > 0
    /\ queue' = [queue EXCEPT ![i][n] = @ - 1]
    /\ IF i \in completed[h] THEN UNCHANGED handler
       ELSE handler' = [handler EXCEPT ![h] = [IdleHandler EXCEPT
              !.pc = "received", !.i = i, !.retry = n, !.effective = n]]
    /\ UNCHANGED <<accountVars, moneyVars, row, file, completed, publisher, bounds, runs>>

Remember(h, i) == completed' = [completed EXCEPT ![h] = @ \cup {i}]

\* Refusals of claim_import before it looks at the owner.
Refusable(i) == \/ ~Unexpired(i)
                \/ target \notin {"active", "renamed"}
                \/ plan # "PAID"
                \/ ~Reserved(i)

\* The durable retry budget, tested after live ownership.
BudgetLeft(i) == row[i].attempts < MaxClaims

\* attempts after a claim: a stale message cannot reset it.
ClaimNumber(i, retry) == Larger(retry, row[i].attempts) + 1

ClaimedRow(i, retry) ==
    [row[i] EXCEPT !.status = "RUNNING", !.attempts = ClaimNumber(i, retry),
                   !.token = ClaimNumber(i, retry), !.lease = "live", !.aged = FALSE]

\* claim_import.  A renamed employee breaks the hand-off trigger of the
\* database: an ordinary error with a token that was never stored.
Claim(h) ==
    LET i == handler[h].i
        r == row[i]
        n == handler[h].retry
    IN  /\ handler[h].pc = "received"
        /\ \/ /\ r.status \in Terminal
              /\ Remember(h, i)
              /\ Ack(h)
              /\ UNCHANGED <<row, runs>>
           \/ /\ r.status \in Live
              /\ Refusable(i) \/ (r.lease # "live" /\ ~BudgetLeft(i))
              /\ Goto(h, "rejected")
              /\ UNCHANGED <<row, completed, runs>>
           \/ /\ r.status \in Live /\ ~Refusable(i) /\ r.lease = "live"
              /\ Goto(h, "busy")
              /\ UNCHANGED <<row, completed, runs>>
           \/ /\ r.status \in Live /\ ~Refusable(i) /\ r.lease # "live"
              /\ BudgetLeft(i)
              /\ IF target = "renamed"
                 THEN /\ handler' = [handler EXCEPT ![h].pc = "retry", ![h].token = LostToken]
                      /\ UNCHANGED <<row, runs>>
                 ELSE /\ Put(i, ClaimedRow(i, n))
                      /\ runs' = [runs EXCEPT ![i] = @ + 1]
                      /\ handler' = [handler EXCEPT
                           ![h] = [pc |-> "claimed", i |-> i, retry |-> n,
                                   effective |-> ClaimNumber(i, n) - 1,
                                   token |-> ClaimNumber(i, n), source |-> r.source \/ i \in file]]
              /\ UNCHANGED completed
        /\ UNCHANGED <<accountVars, moneyVars, file, queue, publisher, bounds>>

\* The claim raises, and may have been committed.
ClaimFails(h, committed) ==
    LET i == handler[h].i
        n == handler[h].retry
        claimable == /\ row[i].status \in Live /\ ~Refusable(i) /\ target = "active"
                     /\ row[i].lease # "live" /\ BudgetLeft(i)
    IN  /\ handler[h].pc = "received"
        /\ Fault
        /\ IF committed /\ claimable
           THEN /\ Put(i, ClaimedRow(i, n))
                /\ runs' = [runs EXCEPT ![i] = @ + 1]
                /\ handler' = [handler EXCEPT ![h].pc = "retry", ![h].token = ClaimNumber(i, n)]
           ELSE /\ handler' = [handler EXCEPT ![h].pc = "retry", ![h].token = LostToken]
                /\ UNCHANGED <<row, runs>>
        /\ UNCHANGED <<accountVars, moneyVars, file, queue, completed, publisher>>

\* A busy delivery is delayed without using a retry.
Delay(h) ==
    /\ handler[h].pc = "busy"
    /\ Nack(h)
    /\ UNCHANGED <<accountVars, moneyVars, row, file, completed, publisher, bounds, runs>>

\* Who may terminalize: the token's owner or, without a token, anybody when
\* the row has no owner or its lease has ended.
OwnsExecution(i, t) == IF t = NoToken THEN row[i].token = NoToken \/ row[i].lease = "ended"
                                      ELSE row[i].token = t

\* terminalize_import on a live row whose owner is t.
Settle(i, s) == /\ Reserved(i)
                /\ Refund({i})
                /\ Put(i, EndedRow(row[i], s))

\* claim_import refused: terminalize without a token.  When somebody else
\* holds the row this is a retryable error.
SettleRejected(h) ==
    LET i == handler[h].i
    IN  /\ handler[h].pc = "rejected"
        /\ \/ /\ row[i].status \in Terminal
              /\ Ack(h)
              /\ UNCHANGED <<moneyVars, row>>
           \/ /\ row[i].status \in Live /\ OwnsExecution(i, NoToken)
              /\ Settle(i, "FAILED")
              /\ Goto(h, "cleaning")
           \/ /\ row[i].status \in Live /\ ~OwnsExecution(i, NoToken)
              /\ PlainError(h)
              /\ UNCHANGED <<moneyVars, row>>
        /\ UNCHANGED <<accountVars, file, queue, completed, publisher, bounds, runs>>

\* The document is parsed outside any transaction; without its bytes, or
\* when the parser breaks, the error is retryable.
Parse(h, outcome) ==
    /\ handler[h].pc = "claimed"
    /\ outcome = "broken" \/ handler[h].source
    /\ Goto(h, CASE outcome = "good" -> "parsed"
                 [] outcome = "bad" -> "invalid"
                 [] outcome = "broken" -> "retry")
    /\ UNCHANGED <<accountVars, moneyVars, row, file, queue, completed, publisher, bounds, runs>>

\* What complete_import demands of the locked row.
Completable(h) == LET i == handler[h].i
                  IN  /\ row[i].status = "RUNNING"
                      /\ row[i].token = handler[h].token
                      /\ ~Refusable(i)

\* complete_import.  A refusal is settled as a bad document is; the
\* hand-off trigger makes a renamed employee a retryable error.
Complete(h) ==
    /\ handler[h].pc = "parsed"
    /\ \/ /\ Completable(h) /\ target = "active"
          /\ Put(handler[h].i, EndedRow(row[handler[h].i], "SUCCEEDED"))
          /\ Goto(h, "cleaned")
       \/ /\ Completable(h) /\ target # "active"
          /\ Goto(h, "retry")
          /\ UNCHANGED row
       \/ /\ ~Completable(h)
          /\ Goto(h, "invalid")
          /\ UNCHANGED row
    /\ UNCHANGED <<accountVars, moneyVars, file, queue, completed, publisher, bounds, runs>>

\* complete_import raises, and may have been committed.
CompleteFails(h, committed) ==
    /\ handler[h].pc = "parsed"
    /\ Fault
    /\ IF committed /\ Completable(h) /\ target = "active"
       THEN Put(handler[h].i, EndedRow(row[handler[h].i], "SUCCEEDED"))
       ELSE UNCHANGED row
    /\ Goto(h, "retry")
    /\ UNCHANGED <<accountVars, moneyVars, file, queue, completed, publisher, runs>>

\* The bad document is settled by its owner.  When the row is no longer
\* this worker's, the delivery is rejected and nothing is touched.
SettleInvalid(h) ==
    LET i == handler[h].i
    IN  /\ handler[h].pc = "invalid"
        /\ \/ /\ row[i].status \in Terminal
              /\ Goto(h, "cleaning")
              /\ UNCHANGED <<moneyVars, row>>
           \/ /\ row[i].status \in Live /\ OwnsExecution(i, handler[h].token)
              /\ Settle(i, "FAILED")
              /\ Goto(h, "cleaning")
           \/ /\ row[i].status \in Live /\ ~OwnsExecution(i, handler[h].token)
              /\ Ack(h)
              /\ UNCHANGED <<moneyVars, row>>
        /\ UNCHANGED <<accountVars, file, queue, completed, publisher, bounds, runs>>

\* The transaction of SettleRejected or SettleInvalid raises: an error that
\* carries no token.
SettleFails(h) ==
    /\ handler[h].pc \in {"rejected", "invalid"}
    /\ Fault
    /\ PlainError(h)
    /\ UNCHANGED <<accountVars, moneyVars, row, file, queue, completed, publisher, runs>>

\* cleanup_source, which has no guard, and the end of the delivery.
Cleanup(h) ==
    LET i == handler[h].i
    IN  /\ handler[h].pc \in {"cleaning", "cleaned"}
        /\ file' = file \ {i}
        /\ Put(i, [row[i] EXCEPT !.source = FALSE])
        /\ IF handler[h].pc = "cleaned" THEN Remember(h, i) ELSE UNCHANGED completed
        /\ Ack(h)
        /\ UNCHANGED <<accountVars, moneyVars, queue, publisher, bounds, runs>>

\* The local copy cannot be unlinked; the row is cleared all the same.
CleanupFails(h) ==
    LET i == handler[h].i
    IN  /\ handler[h].pc \in {"cleaning", "cleaned"}
        /\ Fault
        /\ Put(i, [row[i] EXCEPT !.source = FALSE])
        /\ PlainError(h)
        /\ UNCHANGED <<accountVars, moneyVars, file, queue, completed, publisher, runs>>

\* A replacement is published before the source is acked.
Replace(h) ==
    /\ handler[h].pc = "retry"
    /\ IF handler[h].effective >= MaxRetries
       THEN Goto(h, "exhausted") /\ UNCHANGED queue
       ELSE Goto(h, "replaced") /\ Enqueue(handler[h].i, handler[h].effective + 1)
    /\ UNCHANGED <<accountVars, moneyVars, row, file, completed, publisher, bounds, runs>>

ReplaceFails(h, taken) ==
    LET i == handler[h].i
        n == handler[h].retry
        e == handler[h].effective
    IN  /\ handler[h].pc = "retry"
        /\ e < MaxRetries
        /\ Fault
        /\ queue' = IF taken THEN [queue EXCEPT ![i][n] = @ + 1, ![i][e + 1] = @ + 1]
                             ELSE [queue EXCEPT ![i][n] = @ + 1]
        /\ Ack(h)
        /\ UNCHANGED <<accountVars, moneyVars, row, file, completed, publisher, runs>>

\* mark_retrying, whose failure is only logged.
MarkRetrying(h, fails) ==
    LET i == handler[h].i
    IN  /\ handler[h].pc = "replaced"
        /\ IF fails THEN Fault ELSE UNCHANGED bounds
        /\ IF ~fails /\ row[i].status \in Live /\ OwnsExecution(i, handler[h].token)
           THEN Put(i, [row[i] EXCEPT !.status = "RETRYING", !.token = NoToken,
                                      !.attempts = Larger(@, handler[h].effective + 1),
                                      !.lease = "none", !.aged = FALSE])
           ELSE UNCHANGED row
        /\ Ack(h)
        /\ UNCHANGED <<accountVars, moneyVars, file, queue, completed, publisher, runs>>

\* mark_import_retry(DEAD_LETTERED).
SettleExhausted(h) ==
    LET i == handler[h].i
    IN  /\ handler[h].pc = "exhausted"
        /\ \/ /\ row[i].status \in Terminal
              /\ Ack(h)
              /\ UNCHANGED <<moneyVars, row>>
           \/ /\ row[i].status \in Live /\ OwnsExecution(i, handler[h].token)
              /\ Settle(i, "DEAD_LETTERED")
              /\ Goto(h, "cleaning")
           \/ /\ row[i].status \in Live /\ ~OwnsExecution(i, handler[h].token)
              /\ Goto(h, "poison")
              /\ UNCHANGED <<moneyVars, row>>
        /\ UNCHANGED <<accountVars, file, queue, completed, publisher, bounds, runs>>

SettleExhaustedFails(h) ==
    /\ handler[h].pc = "exhausted"
    /\ Fault
    /\ Nack(h)
    /\ UNCHANGED <<accountVars, moneyVars, row, file, completed, publisher, runs>>

\* erase_owned_import_source.  It sets resultErasedAt, which the constraint
\* AvailabilityImportJob_result_lifecycle_check forbids on a live row and on
\* a result that is kept: the update of a live row that it owns, or of one
\* that has meanwhile succeeded, raises, and the message is requeued.
ErasePoison(h) ==
    LET i == handler[h].i
    IN  /\ handler[h].pc = "poison"
        /\ IF \/ row[i].status \in Live /\ OwnsExecution(i, handler[h].token)
              \/ row[i].status = "SUCCEEDED"
           THEN Nack(h)
           ELSE Ack(h) /\ UNCHANGED queue
        /\ UNCHANGED <<accountVars, moneyVars, row, file, completed, publisher, bounds, runs>>

\* The process stops: its message is delivered again.
HandlerStops(h) ==
    /\ handler[h].pc # "idle"
    /\ Fault
    /\ Nack(h)
    /\ completed' = [completed EXCEPT ![h] = {}]
    /\ UNCHANGED <<accountVars, moneyVars, row, file, publisher, runs>>

-----------------------------------------------------------------------------
(* Retention and time. *)

\* The retention sweep settles an expired import.
SweepExpired(i) ==
    /\ row[i].status \in Live
    /\ ~Unexpired(i)
    /\ OwnsExecution(i, NoToken)
    /\ Settle(i, "FAILED")
    /\ UNCHANGED <<accountVars, file, queue, handler, completed, publisher, bounds, runs>>

\* _erase_hard_expired_import_source, whatever the status: the document in
\* the row, the local copy, and then its key.
SweepOverdue(i) ==
    /\ row[i].age = "overdue"
    /\ row[i].source
    /\ Put(i, [row[i] EXCEPT !.source = FALSE])
    /\ file' = file \ {i}
    /\ UNCHANGED <<accountVars, moneyVars, queue, handler, completed, publisher, bounds, runs>>

\* cleanupOrphans of the API: local copies older than an hour.
CleanupOrphan(i) ==
    /\ i \in file
    /\ ~Unexpired(i)
    /\ file' = file \ {i}
    /\ UNCHANGED <<accountVars, moneyVars, row, queue, handler, completed, publisher, bounds, runs>>

Ages(i, r) == /\ Put(i, r)
              /\ UNCHANGED <<accountVars, moneyVars, file, queue, handler, completed,
                             publisher, runs>>

Expire(i) == /\ row[i].status # "NONE"
             /\ row[i].age # "overdue"
             /\ Ages(i, [row[i] EXCEPT !.age = IF @ = "young" THEN "expired" ELSE "overdue"])
             /\ UNCHANGED bounds

AtWork(i) == \E h \in Handlers : handler[h].i = i /\ handler[h].token = row[i].token

\* The lease of a worker that has stopped or has let go ends; that of a
\* worker still at work ends only when it is slower than the lease.
LeaseEnds(i) == /\ row[i].lease = "live"
                /\ ~AtWork(i)
                /\ Ages(i, [row[i] EXCEPT !.lease = "ended"])
                /\ UNCHANGED bounds

LeaseEndsEarly(i) == /\ row[i].lease = "live"
                     /\ AtWork(i)
                     /\ Fault
                     /\ Ages(i, [row[i] EXCEPT !.lease = "ended"])

PublicationDue(i) == /\ row[i].wait
                     /\ Ages(i, [row[i] EXCEPT !.wait = FALSE])
                     /\ UNCHANGED bounds

RetryAges(i) == /\ row[i].status = "RETRYING"
                /\ ~row[i].aged
                /\ Ages(i, [row[i] EXCEPT !.aged = TRUE])
                /\ UNCHANGED bounds

BrokerLoses(i, n) ==
    /\ queue[i][n] > 0
    /\ Fault
    /\ queue' = [queue EXCEPT ![i][n] = @ - 1]
    /\ UNCHANGED <<accountVars, moneyVars, row, file, handler, completed, publisher, runs>>

-----------------------------------------------------------------------------
Init ==
    /\ plan = "PAID"
    /\ target = "active"
    /\ credits = InitialCredits
    /\ debits = {}
    /\ refunds = {}
    /\ row = [i \in Imports |-> NoRow]
    /\ file = {}
    /\ queue = [i \in Imports |-> [n \in 0 .. MaxRetries |-> 0]]
    /\ handler = [h \in Handlers |-> IdleHandler]
    /\ completed = [h \in Handlers |-> {}]
    /\ publisher = [p \in Publishers |-> IdlePublisher]
    /\ faults = 0
    /\ switches = 0
    /\ runs = [i \in Imports |-> 0]

ApiStep ==
    \/ \E i \in Imports, b \in BOOLEAN : CreateImport(i, b) \/ CancelImport(i, b)
    \/ \E b \in BOOLEAN : DeleteEmployee(b) \/ CloseAccount(b)
    \/ \E p \in {"PAID", "LAPSED"} : ChangePlan(p)
    \/ \E t \in {"active", "renamed", "suspended"} : ChangeTarget(t)

PublisherStep(p) == Reconcile(p) \/ Recover(p) \/ ClaimPublication(p) \/ Publish(p)

HandlerStep(h) ==
    \/ \E i \in Imports, n \in 0 .. MaxRetries : Receive(h, i, n)
    \/ Claim(h)
    \/ Delay(h)
    \/ SettleRejected(h)
    \/ \E o \in {"good", "bad", "broken"} : Parse(h, o)
    \/ Complete(h)
    \/ SettleInvalid(h)
    \/ Cleanup(h)
    \/ Replace(h)
    \/ MarkRetrying(h, FALSE)
    \/ SettleExhausted(h)
    \/ ErasePoison(h)

HandlerFault(h) ==
    \/ \E b \in BOOLEAN : ClaimFails(h, b) \/ CompleteFails(h, b) \/ ReplaceFails(h, b)
    \/ SettleFails(h)
    \/ CleanupFails(h)
    \/ MarkRetrying(h, TRUE)
    \/ SettleExhaustedFails(h)
    \/ HandlerStops(h)

RetentionStep(i) == SweepExpired(i) \/ SweepOverdue(i) \/ CleanupOrphan(i)

TimeStep(i) == Expire(i) \/ LeaseEnds(i) \/ PublicationDue(i) \/ RetryAges(i)

Next ==
    \/ ApiStep
    \/ \E p \in Publishers :
          \/ PublisherStep(p)
          \/ \E taken, marked \in BOOLEAN : PublishFails(p, taken, marked)
    \/ \E h \in Handlers : HandlerStep(h) \/ HandlerFault(h)
    \/ \E i \in Imports :
          \/ RetentionStep(i)
          \/ TimeStep(i)
          \/ LeaseEndsEarly(i)
          \/ \E n \in 0 .. MaxRetries : BrokerLoses(i, n)

Spec == Init /\ [][Next]_imVars

\* The retention sweep, the orphan sweep and time do not stop, and a worker
\* that has taken a message goes on with it.  Nothing is assumed of the
\* publisher, of the broker or of the users.
Fairness ==
    /\ \A h \in Handlers : WF_imVars(HandlerStep(h))
    /\ \A i \in Imports : /\ WF_imVars(SweepExpired(i))
                          /\ WF_imVars(SweepOverdue(i))
                          /\ WF_imVars(CleanupOrphan(i))
                          /\ WF_imVars(Expire(i))
                          /\ WF_imVars(LeaseEnds(i))

FairSpec == Spec /\ Fairness

-----------------------------------------------------------------------------
\* Every variable has its type; the durable attempt counter stays in its
\* budget.
TypeOK ==
    /\ plan \in {"PAID", "LAPSED", "CLOSED"}
    /\ target \in {"active", "renamed", "suspended", "deleted"}
    /\ credits \in Nat
    /\ debits \subseteq Imports
    /\ refunds \subseteq Imports
    /\ row \in [Imports -> Row]
    /\ file \subseteq Imports
    /\ queue \in [Imports -> [0 .. MaxRetries -> Nat]]
    /\ handler \in [Handlers -> Handler]
    /\ completed \in [Handlers -> SUBSET Imports]
    /\ publisher \in [Publishers -> Publisher]
    /\ faults \in Nat
    /\ switches \in Nat
    /\ runs \in [Imports -> Nat]

\* An import is debited once and its price is returned exactly when it ends
\* without a result, although a worker, a cancellation, two kinds of
\* deletion, the dead letter and the retention sweep race to end it.
PaidImport ==
    /\ \A i \in Imports : /\ i \in debits <=> row[i].status # "NONE"
                          /\ i \in refunds <=> row[i].status \in Refunded
    /\ credits + Cost * Cardinality(debits \ refunds) = InitialCredits

\* The document is in the row as long as a worker may still need it, and is
\* gone from the row as soon as the import ends; no poisoned or duplicate
\* delivery takes it from a live import.
SourceLivesWithImport ==
    \A i \in Imports :
        /\ row[i].status \in Live /\ row[i].age # "overdue" => row[i].source
        /\ row[i].status \in Terminal => ~row[i].source

\* "A stale/lowered broker envelope cannot reset durable consumption": no
\* import is parsed more often than its budget allows, however many copies
\* of its messages there are and however often its owner is revoked.
RunsWithinBudget == \A i \in Imports : runs[i] <= MaxClaims

\* A key that a worker remembers as completed belongs to an import that has
\* ended: a message it drops unread is never needed.
RememberedHasEnded ==
    \A h \in Handlers : \A i \in completed[h] : row[i].status \in Terminal

\* An import that ended stays so, and one that succeeded keeps its result
\* and its charge.
EndsForGood ==
    \A i \in Imports :
        /\ row[i].status \in Terminal => row'[i].status \in Terminal
        /\ row[i].status = "SUCCEEDED" => row'[i].status = "SUCCEEDED"
EndedStaysEnded == [][EndsForGood]_imVars

\* "preventing a failed or rejected stale delivery from clearing or
\* refunding work held by a live replacement": under a live lease nobody
\* but its owner changes the status or the owner, unless people cancel it.
SparesLiveOwner ==
    \A i \in Imports :
        /\ row[i].lease = "live"
        /\ \/ row'[i].status # row[i].status
           \/ row'[i].token # row[i].token
        => \/ row'[i].status = "CANCELLED"
           \/ \E h \in Handlers : /\ handler[h].i = i
                                  /\ handler[h].token = row[i].token
                                  /\ handler'[h] # handler[h]
LeaseProtectsOwner == [][SparesLiveOwner]_imVars

\* Every import ends: whatever is lost, its expiry does not depend on the
\* broker, on the publisher or on the tenant's plan.
EveryImportEnds ==
    \A i \in Imports : (row[i].status \in Live) ~> (row[i].status \in Terminal)

\* Every document is erased, from the row and from the upload volume.
EverySourceIsErased ==
    \A i \in Imports : (row[i].source \/ i \in file) ~> ~(row[i].source \/ i \in file)

\* "the owned encrypted source is erased and the exhausted delivery can move
\* to the DLQ once": a poisoned delivery that owns the row is not requeued.
PoisonMovesOn ==
    [][\A h \in Handlers :
          handler[h].pc = "poison" /\ handler'[h].pc = "idle" /\ faults' = faults
          => queue'[handler[h].i] = queue[handler[h].i]]_imVars
=============================================================================
