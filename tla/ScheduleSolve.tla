---------------------------- MODULE ScheduleSolve -----------------------------
(***************************************************************************)
(* The auto-schedule solve pipeline: the API, the outbox publisher, the    *)
(* broker and the workers over one database, with the passing of time and  *)
(* the faults each part is written to survive.                             *)
(***************************************************************************)
EXTENDS SolveApi, SolvePublisher, SolveWorker

-----------------------------------------------------------------------------
(* Time and the broker.  A time-out that fires while what it waits for is  *)
(* still under way counts as a fault; one whose owner is gone just fires.  *)

\* A message of the job is queued or in a worker's hands.
InFlight(j) == \/ \E r \in Retries : queue[<<j, r>>] > 0
               \/ \E w \in Workers : worker[w].job = j

\* Nobody will move the outbox row any more unless the time-out fires.  The
\* recovery age of a published row is longer than the execution lease (10
\* and 5 minutes in docker-compose.yml).
OutboxOrphan(j) ==
    CASE row[j].publication = "PUBLISHING" ->
            ~ \E p \in Sweeps : /\ sweep[p].job = j
                                /\ sweep[p].attempt = row[j].attempts
      [] row[j].publication = "PUBLISHED" -> ~InFlight(j) /\ ~LiveLease(j)
      [] OTHER -> TRUE

\* The worker whose token is on the row is still working on the job.
OwnerAtWork(j) == \E w \in Workers : /\ row[j].token = w
                                     /\ worker[w].job = j
                                     /\ worker[w].holds

BecomesDue(j) ==
    /\ IsActive(j)
    /\ ~row[j].due
    /\ Put(j, [row[j] EXCEPT !.due = TRUE])
    /\ UNCHANGED <<dbVars, queue, worker, done, sweep, historyVars>>

OutboxTimeout(j) == OutboxOrphan(j) /\ BecomesDue(j) /\ UNCHANGED faults
EarlyOutboxTimeout(j) == ~OutboxOrphan(j) /\ BecomesDue(j) /\ Fault

LeaseEnds(j) ==
    /\ IsActive(j)
    /\ LiveLease(j)
    /\ Put(j, [row[j] EXCEPT !.live = FALSE])
    /\ UNCHANGED <<dbVars, queue, worker, done, sweep, historyVars>>

LeaseTimeout(j) == ~OwnerAtWork(j) /\ LeaseEnds(j) /\ UNCHANGED faults
EarlyLeaseTimeout(j) == OwnerAtWork(j) /\ LeaseEnds(j) /\ Fault

\* The broker is replaced and loses a message.
BrokerLoss(j, r) ==
    /\ LossyBroker
    /\ Fault
    /\ queue[<<j, r>>] > 0
    /\ queue' = Dequeue(queue, j, r)
    /\ UNCHANGED <<dbVars, row, worker, done, sweep, historyVars>>

-----------------------------------------------------------------------------
Init ==
    /\ plan \in Plans
    /\ credits = InitialCredits
    /\ debits = {}
    /\ refunds = {}
    /\ publications = {}
    /\ schedule = [status |-> "DRAFT", revision |-> 0]
    /\ row = [j \in Jobs |-> NoRow]
    /\ queue = [m \in Message |-> 0]
    /\ worker = [w \in Workers |-> IdleWorker]
    /\ done = [w \in Workers |-> {}]
    /\ sweep = [p \in Sweeps |-> IdleSweep]
    /\ faults = 0
    /\ writes = 0
    /\ basis = [j \in Jobs |-> 0]
    /\ appliedAt = [j \in Jobs |-> 0]

ApiStep ==
    \/ \E j \in Jobs : AutoSchedule(j)
    \/ EditDraft
    \/ \E k \in PublishKeys : PublishSchedule(k)
    \/ Reopen
    \/ Remove
    \/ \E p \in Plans : ChangePlan(p)
    \/ RequestTenantDeletion

\* What a running sweep does when nothing fails.
SweepStep(p) ==
    \/ \E j \in Jobs : SweepClaim(p, j)
    \/ SendConfirmed(p)
    \/ MarkPublished(p)
    \/ \E aged \in BOOLEAN : MarkPublicationFailed(p, aged)
    \/ TerminalizePublication(p)

SweepFault(p) ==
    \/ \E taken \in BOOLEAN : SendFailed(p, taken)
    \/ SweepStops(p)

\* What a running worker does when nothing fails.
WorkerStep(w) ==
    \/ \E j \in Jobs, r \in Retries : Receive(w, j, r)
    \/ Claim(w)
    \/ DeadLetterMalformed(w)
    \/ CallEngine(w)
    \/ Persist(w)
    \/ MarkFailed(w)
    \/ PublishRetry(w)
    \/ MarkRetrying(w)
    \/ DeadLetter(w)
    \/ DelayBusy(w)
    \/ Settle(w)

WorkerFault(w) ==
    \/ \E committed \in BOOLEAN : \/ ClaimFails(w, committed)
                                  \/ DeadLetterMalformedFails(w, committed)
                                  \/ PersistFails(w, committed)
                                  \/ MarkFailedFails(w, committed)
                                  \/ DeadLetterFails(w, committed)
    \/ \E taken \in BOOLEAN : \/ PublishRetryFails(w, taken)
                              \/ DelayBusyFails(w, taken)
    \/ MarkRetryingFails(w)
    \/ WorkerCrash(w)

TimeStep(j) == OutboxTimeout(j) \/ LeaseTimeout(j)

EnvironmentFault ==
    \/ \E j \in Jobs : EarlyOutboxTimeout(j) \/ EarlyLeaseTimeout(j)
    \/ \E j \in Jobs, r \in Retries : BrokerLoss(j, r)

Next ==
    \/ ApiStep
    \/ \E p \in Sweeps : SweepStep(p) \/ SweepFault(p)
    \/ \E w \in Workers : WorkerStep(w) \/ WorkerFault(w)
    \/ \E j \in Jobs : TimeStep(j)
    \/ EnvironmentFault

Spec == Init /\ [][Next]_vars

\* The poll timer keeps starting sweeps, the consumer loop keeps taking
\* messages, and time passes.  Nothing obliges a user to do anything.
Fairness ==
    /\ \A p \in Sweeps : WF_vars(SweepStep(p))
    /\ \A w \in Workers : WF_vars(WorkerStep(w))
    /\ \A j \in Jobs : WF_vars(OutboxTimeout(j)) /\ WF_vars(LeaseTimeout(j))

FairSpec == Spec /\ Fairness

-----------------------------------------------------------------------------
\* Every variable has its type; a message count never goes below zero and
\* a wallet is never overdrawn.
TypeOK ==
    /\ plan \in Plans \cup {"CLOSED"}
    /\ credits \in Nat
    /\ debits \subseteq Jobs
    /\ refunds \subseteq Jobs
    /\ publications \subseteq PublishKeys
    /\ schedule \in [status : {"DRAFT", "PUBLISHED", "DELETED"}, revision : Nat]
    /\ row \in [Jobs -> Row]
    /\ queue \in [Message -> Nat]
    /\ worker \in [Workers -> WorkerState]
    /\ done \in [Workers -> SUBSET Jobs]
    /\ sweep \in [Sweeps -> SweepState]
    /\ faults \in Nat
    /\ writes \in Nat
    /\ basis \in [Jobs -> Nat]
    /\ appliedAt \in [Jobs -> Nat]

\* Whatever processes crash and whichever messages are duplicated, a job
\* that was paid for stays exactly accounted: the debit exists as soon as
\* the job does, and the refund exists exactly when the job ended without
\* a schedule.  Hence no provenance check of the API, the publisher or the
\* worker ever fails.
PaidProvenance ==
    \A j \in Jobs : /\ j \in debits <=> row[j].status # "NONE"
                    /\ j \in refunds <=> row[j].status \in Refunded

\* The wallet is what was bought, less one price for every job that has not
\* been refunded and one for every publication: no refund is paid twice or
\* lost when the publisher, a worker and the account deletion race to end
\* the same job.
WalletConserved ==
    credits + SolveCost * Cardinality(debits \ refunds)
            + PublishCost * Cardinality(publications) = InitialCredits

\* A result is stored exactly for the jobs that succeed, and at the very
\* write that follows the job's snapshot: no edit that was accepted after
\* the solve was requested is overwritten, and no job is applied twice.
NoLostEdit ==
    \A j \in Jobs :
        /\ appliedAt[j] # 0 <=> row[j].status = "SUCCEEDED"
        /\ appliedAt[j] # 0 => appliedAt[j] = basis[j] + 1

\* While a job is active its schedule stays a draft, and the job is the
\* only active one: publication and deletion wait, and a second request
\* does not start a second solve.
ActiveJobOwnsDraft ==
    \A j \in ActiveJobs : ActiveJobs = {j} /\ schedule.status = "DRAFT"

\* The in-memory list of completed keys, which makes a worker acknowledge a
\* job it has just claimed without running it, only names jobs that did
\* succeed.
CompletedKeysSound ==
    \A w \in Workers : \A j \in done[w] : row[j].status = "SUCCEEDED"

\* A job that ended never changes its status, its refund or its result.
TerminalIsFinal ==
    [][\A j \in Jobs : IsTerminal(j) =>
          /\ row'[j].status = row[j].status
          /\ (j \in refunds') = (j \in refunds)
          /\ appliedAt'[j] = appliedAt[j]]_vars

\* While a worker's lease on a job is live, nobody but that worker (or the
\* deletion of the account) ends the job: not a publisher that has given
\* up, and not a worker with a duplicate of the message.
LiveLeaseProtects ==
    [][\A j \in Jobs : IsActive(j) /\ LiveLease(j) /\ row'[j].status \in Terminal =>
          \/ plan' # plan
          \/ \E w \in Workers : /\ row[j].token = w
                                /\ worker[w].job = j
                                /\ worker[w].holds
                                /\ worker'[w] # worker[w]]_vars

\* A sweep whose claim was superseded (its lease ran out and another sweep
\* claimed the row, or a worker took the row over) ends without touching
\* the row.
StaleSweepHarmless ==
    [][\A p \in Sweeps :
          /\ sweep[p].pc \in {"confirmed", "failing", "terminalizing"}
          /\ sweep'[p] # sweep[p]
          /\ sweep[p].attempt # row[sweep[p].job].attempts
          => row' = row]_vars

\* "Settle one source message only after durable replacement ownership is
\* known": if the broker loses nothing, an active job whose outbox row says
\* PUBLISHED always has a message queued or in a worker's hands.
PublishedHasMessage ==
    \A j \in Jobs :
        IsActive(j) /\ row[j].publication = "PUBLISHED" => InFlight(j)

\* Every accepted job ends: it is stored, or failed and refunded.
EverySolveEnds ==
    \A j \in Jobs : (row[j].status \in Active) ~> (row[j].status \in Terminal)

\* What a customer sees of a job.
Phase(r) == CASE r.status \in Active -> "open"
              [] r.status = "SUCCEEDED" -> "delivered"
              [] r.status \in Refunded -> "refunded"
              [] OTHER -> "none"

Promise == INSTANCE PaidSolve WITH
    phase <- [j \in Jobs |-> Phase(row[j])], wallet <- credits,
    sold <- publications, version <- writes, snapshot <- basis

\* The pipeline, with its crashes, duplicated messages and time-outs,
\* implements the service that PaidSolve promises.
KeepsPromise == Promise!PSpec

\* A worker turns a job away for want of a subscription only if the API
\* would turn the tenant away too.
ClaimHonoursEntitlement ==
    [][\A w \in Workers :
          worker[w].pc = "received" /\ worker'[w].pc = "rejected" => ~Entitled]_vars
=============================================================================
