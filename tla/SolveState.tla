------------------------------ MODULE SolveState ------------------------------
(***************************************************************************)
(* The shared state of the auto-schedule solve pipeline: the tables of the *)
(* PostgreSQL database that the API process, the outbox publisher and the  *)
(* Python worker all write, the RabbitMQ queue between them, and the local *)
(* state of every worker and every publisher sweep.  One tenant with one   *)
(* schedule is modelled; a job is identified with the Idempotency-Key that *)
(* created it (ScheduleSolveJob has a unique index on tenant, schedule and *)
(* key hash).                                                              *)
(*                                                                         *)
(* Every database transaction that touches a job first locks the Tenant    *)
(* row FOR UPDATE (or, in the publisher's claim, the job row), so one      *)
(* transaction is one step.  A process can stop between any two steps.     *)
(***************************************************************************)
EXTENDS Integers, FiniteSets

CONSTANTS
    Jobs,                \* the auto-schedule requests (Idempotency-Keys)
    Workers,             \* worker processes, one message at a time each
    Sweeps,              \* concurrent publisher sweeps (poll loop, request)
    PublishKeys,         \* Idempotency-Keys of schedule publications
    Malformed,           \* jobs whose payload the worker's schema refuses
    NoJob,               \* "no job" in an idle worker or sweep
    NoToken,             \* executionToken IS NULL
    Plans,               \* the subscription states this tenant may be in
    MaxRetries,          \* WORKER_MAX_RETRIES
    MaxPublishAttempts,  \* SCHEDULE_OUTBOX_MAX_PUBLISH_ATTEMPTS
    SolveCost,           \* credits of one auto-schedule
    PublishCost,         \* credits of one publication
    InitialCredits,      \* the wallet at the start
    MaxFaults,           \* bound: crashes, lost calls and early time-outs
    MaxRevision,         \* bound: schedule revisions made by edits
    LossyBroker          \* whether the broker may lose a message

ASSUME RetriesAssumption == MaxRetries \in Nat
ASSUME AttemptsAssumption == MaxPublishAttempts \in Nat \ {0}
ASSUME CostAssumption == /\ SolveCost \in Nat \ {0}
                         /\ PublishCost \in Nat
                         /\ InitialCredits \in Nat
ASSUME SetsAssumption == /\ IsFiniteSet(Jobs)
                         /\ IsFiniteSet(PublishKeys)
                         /\ Malformed \subseteq Jobs
                         /\ NoJob \notin Jobs
                         /\ NoToken \notin Workers
ASSUME PlansAssumption == Plans \subseteq {"PAID", "BETA", "LAPSED"}
ASSUME BoundsAssumption == /\ MaxFaults \in Nat
                           /\ MaxRevision \in Nat
                           /\ LossyBroker \in BOOLEAN

VARIABLES
    plan,          \* Tenant: how its subscription entitles it; "CLOSED" once
                   \* account deletion has been requested
    credits,       \* Tenant.usageCredits
    debits,        \* CreditTransaction rows schedule-credit-<job>
    refunds,       \* CreditTransaction rows schedule-credit-refund-<job>
    publications,  \* publish audit rows, with their ledger row
    schedule,      \* Schedule: status ("DELETED" is deletedAt set), revision
    row,           \* ScheduleSolveJob, one record per job
    queue,         \* messages in the main and retry queues: a bag
    worker,        \* what each worker process is doing
    done,          \* _COMPLETED_JOB_KEYS of each worker process
    sweep,         \* what each publisher sweep is doing
    faults,        \* how many faults have happened so far
    writes,        \* history: how often the draft's content was written
    basis,         \* history: writes when the job took its input snapshot
    appliedAt      \* history: the write by which the result was stored

dbVars == <<plan, credits, debits, refunds, publications, schedule>>
historyVars == <<writes, basis, appliedAt>>
vars == <<plan, credits, debits, refunds, publications, schedule, row, queue,
          worker, done, sweep, faults, writes, basis, appliedAt>>

-----------------------------------------------------------------------------
Active == {"QUEUED", "RUNNING", "RETRYING"}
Refunded == {"FAILED", "DEAD_LETTERED"}
Terminal == Refunded \cup {"SUCCEEDED"}
Status == Active \cup Terminal \cup {"NONE"}
Publication == {"PENDING", "PUBLISHING", "PUBLISHED", "FAILED"}
Retries == 0 .. MaxRetries
Message == Jobs \X Retries

Row == [status : Status,
        retryCount : Retries,
        publication : Publication,
        attempts : Nat,
        due : BOOLEAN,
        token : Workers \cup {NoToken},
        live : BOOLEAN,
        draftRevision : Nat]

WorkerPC == {"idle", "received", "solving", "solved", "rejected", "failed",
             "busy", "republished", "settled"}
SweepPC == {"idle", "sending", "confirmed", "failing", "terminalizing"}

WorkerState == [pc : WorkerPC,
                job : Jobs \cup {NoJob},
                retry : Retries,
                holds : BOOLEAN]

SweepState == [pc : SweepPC,
               job : Jobs \cup {NoJob},
               attempt : Nat,
               retry : Retries]

IdleWorker == [pc |-> "idle", job |-> NoJob, retry |-> 0, holds |-> FALSE]
IdleSweep == [pc |-> "idle", job |-> NoJob, attempt |-> 0, retry |-> 0]

NoRow == [status |-> "NONE", retryCount |-> 0, publication |-> "PENDING",
          attempts |-> 0, due |-> FALSE, token |-> NoToken, live |-> FALSE,
          draftRevision |-> 0]

IsActive(j) == row[j].status \in Active
IsTerminal(j) == row[j].status \in Terminal
ActiveJobs == {j \in Jobs : IsActive(j)}

\* executionToken IS NOT NULL AND executionLeaseUntil > CURRENT_TIMESTAMP
LiveLease(j) == row[j].token # NoToken /\ row[j].live

\* The API's scheduling entitlement: a current paid subscription, or an
\* approved internal beta grant of a trial tenant.
Entitled == plan \in {"PAID", "BETA"}

\* The worker's own check of the tenant row.
PaidTenant == plan = "PAID"

\* assertScheduleSolveCreditProvenance: the exact debit exists, and the
\* refund exists exactly for the statuses that give the credits back.
Provenance(j) == /\ j \in debits
                 /\ row[j].status \in Refunded => j \in refunds
                 /\ row[j].status \in Active \cup {"SUCCEEDED"} => j \notin refunds
                 /\ row[j].status # "NONE"

\* Mutant of SettleRefunds: one price however many jobs are settled.
SettleRefundsFlat(S) ==
    /\ refunds' = refunds \cup S
    /\ credits' = credits + SolveCost

\* settle_positive_credit_value for the refunds of the jobs of S: a ledger
\* row that exists is replayed without touching the wallet again.
SettleRefunds(S) ==
    /\ refunds' = refunds \cup S
    /\ credits' = credits + SolveCost * Cardinality(S \ refunds)

Put(j, r) == row' = [row EXCEPT ![j] = r]

\* The broker.  The retry queues only delay a message before it returns to
\* the main queue, so both are one bag; nothing orders its messages.
Enqueue(q, j, r) == [q EXCEPT ![<<j, r>>] = @ + 1]
Dequeue(q, j, r) == [q EXCEPT ![<<j, r>>] = @ - 1]

Fault == /\ faults < MaxFaults
         /\ faults' = faults + 1
=============================================================================
