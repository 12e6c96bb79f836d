------------------------------- MODULE SolveApi -------------------------------
(***************************************************************************)
(* The operations of the API process that meet the solve pipeline: the     *)
(* auto-schedule request, the draft edits, publication, reopening and      *)
(* deletion of the schedule (schedules.controller.ts, shifts.controller.ts *)
(* and the services that bump a draft's revision), and the account         *)
(* deletion barrier (tenant-deletion-billing.service.ts).  Each is one     *)
(* transaction.  A request that is refused, or answered from a stored      *)
(* result, changes nothing and has no action.                              *)
(***************************************************************************)
EXTENDS SolveState

\* POST :id/auto-schedule with an unused key: the job row, its outbox entry
\* and the debit are one transaction.  A used key, or any key while a job is
\* active, returns that job.
AutoSchedule(j) ==
    /\ row[j].status = "NONE"
    /\ schedule.status = "DRAFT"
    /\ ActiveJobs = {}
    /\ Entitled
    /\ credits >= SolveCost
    /\ Put(j, [NoRow EXCEPT !.status = "QUEUED", !.due = TRUE,
                            !.draftRevision = schedule.revision])
    /\ credits' = credits - SolveCost
    /\ debits' = debits \cup {j}
    /\ basis' = [basis EXCEPT ![j] = writes]
    /\ UNCHANGED <<plan, refunds, publications, schedule, queue, worker, done,
                   sweep, faults, writes, appliedAt>>

\* Mutant of EditDraft: the edit forgets to bump the revision.
EditDraftUnversioned ==
    /\ schedule.status = "DRAFT"
    /\ Entitled
    /\ writes < MaxRevision
    /\ writes' = writes + 1
    /\ UNCHANGED <<plan, credits, debits, refunds, publications, schedule, row,
                   queue, worker, done, sweep, faults, basis, appliedAt>>

\* A committed edit of the draft: shifts, breaks, demand windows, or a staff
\* or location change that invalidates drafts.  It does not wait for jobs.
EditDraft ==
    /\ schedule.status = "DRAFT"
    /\ Entitled
    /\ schedule.revision < MaxRevision
    /\ schedule' = [schedule EXCEPT !.revision = @ + 1]
    /\ writes' = writes + 1
    /\ UNCHANGED <<plan, credits, debits, refunds, publications, row, queue,
                   worker, done, sweep, faults, basis, appliedAt>>

\* Mutant of PublishSchedule: active jobs are not looked for.
PublishScheduleUnderSolve(k) ==
    /\ k \notin publications
    /\ Entitled
    /\ schedule.status = "DRAFT"
    /\ credits >= PublishCost
    /\ credits' = credits - PublishCost
    /\ publications' = publications \cup {k}
    /\ schedule' = [schedule EXCEPT !.status = "PUBLISHED"]
    /\ UNCHANGED <<plan, debits, refunds, row, queue, worker, done, sweep,
                   faults, writes, basis, appliedAt>>

\* POST :id/publish with an unused key.  A used key replays its audit row.
PublishSchedule(k) ==
    /\ k \notin publications
    /\ Entitled
    /\ schedule.status = "DRAFT"
    /\ ActiveJobs = {}
    /\ credits >= PublishCost
    /\ credits' = credits - PublishCost
    /\ publications' = publications \cup {k}
    /\ schedule' = [schedule EXCEPT !.status = "PUBLISHED"]
    /\ UNCHANGED <<plan, debits, refunds, row, queue, worker, done, sweep,
                   faults, writes, basis, appliedAt>>

\* POST :id/reopen
Reopen ==
    /\ Entitled
    /\ schedule.status = "PUBLISHED"
    /\ schedule.revision < MaxRevision
    /\ schedule' = [status |-> "DRAFT", revision |-> schedule.revision + 1]
    /\ UNCHANGED <<plan, credits, debits, refunds, publications, row, queue,
                   worker, done, sweep, faults, writes, basis, appliedAt>>

\* DELETE :id
Remove ==
    /\ Entitled
    /\ schedule.status = "DRAFT"
    /\ ActiveJobs = {}
    /\ schedule' = [schedule EXCEPT !.status = "DELETED"]
    /\ UNCHANGED <<plan, credits, debits, refunds, publications, row, queue,
                   worker, done, sweep, faults, writes, basis, appliedAt>>

\* The subscription starts, lapses, or a beta grant starts or ends.
ChangePlan(p) ==
    /\ plan # "CLOSED"
    /\ p # plan
    /\ plan' = p
    /\ UNCHANGED <<credits, debits, refunds, publications, schedule, row,
                   queue, worker, done, sweep, faults, writes, basis, appliedAt>>

\* The row terminalizePaidWorkForDeletion leaves: the execution token and
\* its lease stay in place.
ClosedRow(r) == IF r.status \in Active
                THEN [r EXCEPT !.status = "DEAD_LETTERED",
                               !.publication = "PUBLISHED"]
                ELSE r

\* The account deletion barrier suspends the tenant and settles its paid
\* work, unless the provenance of some paid job is invalid.
RequestTenantDeletion ==
    /\ plan # "CLOSED"
    /\ \A j \in Jobs : row[j].status # "NONE" => Provenance(j)
    /\ plan' = "CLOSED"
    /\ row' = [j \in Jobs |-> ClosedRow(row[j])]
    /\ SettleRefunds(ActiveJobs)
    /\ UNCHANGED <<debits, publications, schedule, queue, worker, done, sweep,
                   faults, writes, basis, appliedAt>>
=============================================================================
