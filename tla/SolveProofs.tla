---------------------------- MODULE SolveProofs ----------------------------
(***************************************************************************)
(* Proofs about the paid solve: its types and the protection of a claim,   *)
(* what happens to the credits, and that it keeps the promise of           *)
(* PaidSolve.                                                              *)
(***************************************************************************)
EXTENDS ScheduleSolve, FiniteSetTheorems, TLAPS

-----------------------------------------------------------------------------
(* Types, tokens and the order of the states. *)

\* A worker that is not idle works on a job, and one that has published a
\* replacement had a retry left.
WorkersOK ==
    \A w \in Workers :
        /\ worker[w].pc # "idle" => worker[w].job \in Jobs
        /\ worker[w].pc = "republished" => worker[w].retry < MaxRetries

\* A sweep that is not idle works on a job.
SweepsOK == \A p \in Sweeps : sweep[p].pc # "idle" => sweep[p].job \in Jobs

\* The inductive strengthening of TypeOK.
StateOK == TypeOK /\ WorkersOK /\ SweepsOK

-----------------------------------------------------------------------------
(* The values the actions write have their types. *)

\* Every status an action writes is a status.
LEMMA StatusValues ==
    /\ Active \subseteq Status /\ Refunded \subseteq Status
    /\ "QUEUED" \in Status /\ "RUNNING" \in Status /\ "RETRYING" \in Status
    /\ "SUCCEEDED" \in Status /\ "FAILED" \in Status
    /\ "DEAD_LETTERED" \in Status /\ "NONE" \in Status
BY DEF Status, Active, Terminal, Refunded

\* The first and the last retry number.
LEMMA RetryValues == 0 \in Retries /\ MaxRetries \in Retries
BY RetriesAssumption DEF Retries

\* A row with another status, publication state or due mark.
LEMMA RowUpdate ==
    ASSUME NEW r \in Row, NEW s \in Status, NEW b \in Publication,
           NEW d \in BOOLEAN, NEW n \in Nat
    PROVE  /\ [r EXCEPT !.due = d] \in Row
           /\ [r EXCEPT !.live = d] \in Row
           /\ [r EXCEPT !.publication = b, !.due = d] \in Row
           /\ [r EXCEPT !.publication = b, !.due = d, !.attempts = n] \in Row
           /\ [r EXCEPT !.status = s, !.publication = b] \in Row
BY DEF Row

\* A row with another owner.
LEMMA RowOwner ==
    ASSUME NEW r \in Row, NEW s \in Status, NEW k \in Retries,
           NEW t \in Workers, NEW d \in BOOLEAN
    PROVE  /\ [r EXCEPT !.status = s, !.retryCount = k, !.token = NoToken,
                        !.live = FALSE] \in Row
           /\ [r EXCEPT !.status = s, !.token = NoToken, !.live = FALSE,
                        !.retryCount = k] \in Row
           /\ [r EXCEPT !.status = s, !.retryCount = k, !.publication = "PUBLISHED",
                        !.due = FALSE, !.token = NoToken, !.live = FALSE] \in Row
           /\ [r EXCEPT !.status = s, !.retryCount = k, !.token = t,
                        !.live = TRUE, !.due = d] \in Row
BY DEF Row, Publication

\* The row of a new job.
LEMMA NewRow ==
    ASSUME NEW n \in Nat
    PROVE  [NoRow EXCEPT !.status = "QUEUED", !.due = TRUE,
                         !.draftRevision = n] \in Row
BY StatusValues, RetryValues DEF Row, NoRow, Publication

\* Writing a well-typed row keeps the table well typed.
LEMMA PutType ==
    ASSUME row \in [Jobs -> Row], NEW j \in Jobs, NEW r \in Row, Put(j, r)
    PROVE  row' \in [Jobs -> Row]
BY DEF Put

\* A refund settlement leaves a wallet that is not overdrawn.
LEMMA SettleType ==
    ASSUME credits \in Nat, refunds \subseteq Jobs, NEW S \in SUBSET Jobs,
           SettleRefunds(S)
    PROVE  credits' \in Nat /\ refunds' \subseteq Jobs
<1>1. IsFiniteSet(S \ refunds)
  BY SetsAssumption, FS_Subset, FS_Difference
<1>2. Cardinality(S \ refunds) \in Nat
  BY <1>1, FS_CardinalityType
<1>3. SolveCost * Cardinality(S \ refunds) \in Nat
  BY <1>2, CostAssumption
<1>. QED BY <1>3 DEF SettleRefunds

\* Adding and taking a message keep the queue a bag.
LEMMA QueueType ==
    ASSUME NEW q \in [Message -> Nat], NEW j \in Jobs, NEW r \in Retries
    PROVE  /\ Enqueue(q, j, r) \in [Message -> Nat]
           /\ q[<<j, r>>] > 0 => Dequeue(q, j, r) \in [Message -> Nat]
<1>1. <<j, r>> \in Message
  BY DEF Message
<1>2. q[<<j, r>>] \in Nat
  BY <1>1
<1>3. q[<<j, r>>] + 1 \in Nat /\ (q[<<j, r>>] > 0 => q[<<j, r>>] - 1 \in Nat)
  BY <1>2
<1>. QED BY <1>1, <1>3 DEF Enqueue, Dequeue

-----------------------------------------------------------------------------
(* The API. *)

\* Every API operation preserves the types.
LEMMA ApiType == ASSUME StateOK, ApiStep PROVE StateOK'
<1>. USE DEF StateOK, WorkersOK, SweepsOK
<1>1. CASE \E j \in Jobs : AutoSchedule(j)
  <2>. PICK j \in Jobs : AutoSchedule(j)  BY <1>1
  <2>1. schedule.revision \in Nat  BY DEF TypeOK
  <2>2. row' \in [Jobs -> Row]  BY <2>1, NewRow, PutType DEF AutoSchedule, TypeOK
  <2>3. credits' \in Nat  BY CostAssumption DEF AutoSchedule, TypeOK
  <2>. QED BY <2>2, <2>3 DEF AutoSchedule, TypeOK
<1>2. CASE EditDraft
  BY <1>2 DEF EditDraft, TypeOK
<1>3. CASE \E k \in PublishKeys : PublishSchedule(k)
  BY <1>3, CostAssumption DEF PublishSchedule, TypeOK
<1>4. CASE Reopen
  BY <1>4 DEF Reopen, TypeOK
<1>5. CASE Remove
  BY <1>5 DEF Remove, TypeOK
<1>6. CASE \E p \in Plans : ChangePlan(p)
  BY <1>6 DEF ChangePlan, TypeOK
<1>7. CASE RequestTenantDeletion
  <2>1. \A j \in Jobs : ClosedRow(row[j]) \in Row
    BY StatusValues, RowUpdate DEF ClosedRow, TypeOK, Publication
  <2>2. row' \in [Jobs -> Row]
    BY <1>7, <2>1 DEF RequestTenantDeletion
  <2>3. credits' \in Nat /\ refunds' \subseteq Jobs
    BY <1>7, SettleType DEF RequestTenantDeletion, TypeOK, ActiveJobs
  <2>. QED BY <1>7, <2>2, <2>3 DEF RequestTenantDeletion, TypeOK
<1>. QED BY <1>1, <1>2, <1>3, <1>4, <1>5, <1>6, <1>7 DEF ApiStep

-----------------------------------------------------------------------------
(* The publisher. *)

\* A sweep in a well-typed state is again one.
LEMMA SweepType ==
    ASSUME StateOK, NEW p \in Sweeps, NEW s \in SweepState,
           s.pc # "idle" => s.job \in Jobs, sweep' = [sweep EXCEPT ![p] = s]
    PROVE  sweep' \in [Sweeps -> SweepState] /\ SweepsOK'
BY DEF StateOK, TypeOK, SweepsOK

\* The idle sweep, and a sweep that moves on with its job.
LEMMA SweepMoves ==
    ASSUME StateOK, NEW p \in Sweeps
    PROVE  /\ IdleSweep \in SweepState /\ IdleSweep.pc = "idle"
           /\ sweep[p] \in SweepState
           /\ \A pc \in SweepPC : /\ [sweep[p] EXCEPT !.pc = pc] \in SweepState
                                  /\ [sweep[p] EXCEPT !.pc = pc].job = sweep[p].job
           /\ sweep[p].pc # "idle" => sweep[p].job \in Jobs
<1>1. IdleSweep \in SweepState /\ IdleSweep.pc = "idle"
  BY RetryValues DEF IdleSweep, SweepState, SweepPC
<1>2. sweep[p] \in SweepState
  BY DEF StateOK, TypeOK
<1>3. \A pc \in SweepPC : /\ [sweep[p] EXCEPT !.pc = pc] \in SweepState
                          /\ [sweep[p] EXCEPT !.pc = pc].job = sweep[p].job
  BY <1>2 DEF SweepState
<1>. QED BY <1>1, <1>2, <1>3 DEF StateOK, SweepsOK

\* What a step of the publisher leaves alone.
LEMMA SweepFrame ==
    ASSUME StateOK, UNCHANGED <<plan, debits, publications, schedule, worker,
                                done, historyVars>>,
           credits' \in Nat, refunds' \subseteq Jobs, row' \in [Jobs -> Row],
           queue' \in [Message -> Nat], faults' \in Nat,
           sweep' \in [Sweeps -> SweepState], SweepsOK'
    PROVE  StateOK'
BY DEF StateOK, TypeOK, WorkersOK, historyVars

\* Every step and every fault of a sweep preserves the types.
LEMMA PublisherType ==
    ASSUME StateOK, NEW p \in Sweeps, SweepStep(p) \/ SweepFault(p)
    PROVE  StateOK'
<1>. DEFINE j == sweep[p].job
<1>0. /\ credits \in Nat /\ refunds \subseteq Jobs /\ row \in [Jobs -> Row]
      /\ queue \in [Message -> Nat] /\ faults \in Nat
  BY DEF StateOK, TypeOK
<1>1. ASSUME NEW i \in Jobs, SweepClaim(p, i) PROVE StateOK'
  <2>0. row[i] \in Row  BY <1>0
  <2>1. row[i].attempts \in Nat /\ row[i].retryCount \in Retries
    BY <2>0 DEF Row
  <2>2. row[i].attempts + 1 \in Nat  BY <2>1
  <2>3. row' \in [Jobs -> Row]
    <3>1. /\ [row[i] EXCEPT !.publication = "PUBLISHING", !.due = FALSE,
                            !.attempts = row[i].attempts + 1] \in Row
          /\ [row[i] EXCEPT !.publication = "FAILED", !.due = FALSE] \in Row
      BY <2>0, <2>2, RowUpdate, StatusValues DEF Publication
    <3>. QED BY <1>0, <1>1, <3>1, PutType DEF SweepClaim
  <2>4. sweep' \in [Sweeps -> SweepState] /\ SweepsOK'
    <3>. DEFINE s == [pc |-> "sending", job |-> i, attempt |-> row[i].attempts + 1,
                      retry |-> IF row[i].status = "QUEUED" THEN 0
                                ELSE row[i].retryCount]
    <3>1. (IF row[i].status = "QUEUED" THEN 0 ELSE row[i].retryCount) \in Retries
      BY <2>1, RetryValues
    <3>2. s \in SweepState /\ s.job \in Jobs
      BY <2>2, <3>1 DEF SweepState, SweepPC
    <3>3. CASE sweep' = [sweep EXCEPT ![p] = s]
      BY <3>2, <3>3, SweepType
    <3>4. CASE sweep' = sweep
      BY <3>4 DEF StateOK, TypeOK, SweepsOK
    <3>. QED BY <1>1, <3>3, <3>4 DEF SweepClaim
  <2>. QED BY <1>0, <1>1, <2>3, <2>4, SweepFrame DEF SweepClaim, dbVars
<1>2. CASE SendConfirmed(p)
  <2>1. j \in Jobs /\ sweep[p].retry \in Retries
    BY <1>2, SweepMoves DEF SendConfirmed, SweepState
  <2>2. queue' \in [Message -> Nat]
    BY <1>0, <1>2, <2>1, QueueType DEF SendConfirmed
  <2>3. sweep' \in [Sweeps -> SweepState] /\ SweepsOK'
    BY <1>2, <2>1, SweepMoves, SweepType DEF SendConfirmed, SweepPC
  <2>. QED BY <1>0, <1>2, <2>2, <2>3, SweepFrame DEF SendConfirmed, dbVars
<1>3. ASSUME NEW taken \in BOOLEAN, SendFailed(p, taken) PROVE StateOK'
  <2>1. j \in Jobs /\ sweep[p].retry \in Retries
    BY <1>3, SweepMoves DEF SendFailed, SweepState
  <2>2. Enqueue(queue, j, sweep[p].retry) \in [Message -> Nat]
    BY <1>0, <2>1, QueueType
  <2>4. queue' \in [Message -> Nat]
    BY <1>0, <1>3, <2>2 DEF SendFailed
  <2>5. faults' \in Nat
    BY <1>0, <1>3 DEF SendFailed, Fault
  <2>3. sweep' \in [Sweeps -> SweepState] /\ SweepsOK'
    BY <1>3, <2>1, SweepMoves, SweepType DEF SendFailed, SweepPC
  <2>. QED BY <1>0, <1>3, <2>3, <2>4, <2>5, SweepFrame DEF SendFailed, dbVars
<1>4. CASE MarkPublished(p)
  <2>1. j \in Jobs  BY <1>4, SweepMoves DEF MarkPublished
  <2>2. [row[j] EXCEPT !.publication = "PUBLISHED", !.due = FALSE] \in Row
    BY <1>0, <2>1, RowUpdate, StatusValues DEF Publication
  <2>3. row' \in [Jobs -> Row]
    BY <1>0, <1>4, <2>1, <2>2, PutType DEF MarkPublished
  <2>4. sweep' \in [Sweeps -> SweepState] /\ SweepsOK'
    BY <1>4, SweepMoves, SweepType DEF MarkPublished
  <2>. QED BY <1>0, <1>4, <2>3, <2>4, SweepFrame DEF MarkPublished, dbVars
<1>5. ASSUME NEW aged \in BOOLEAN, MarkPublicationFailed(p, aged) PROVE StateOK'
  <2>1. j \in Jobs  BY <1>5, SweepMoves DEF MarkPublicationFailed
  <2>2. [row[j] EXCEPT !.publication = "FAILED", !.due = FALSE] \in Row
    BY <1>0, <2>1, RowUpdate, StatusValues DEF Publication
  <2>3. row' \in [Jobs -> Row]
    BY <1>0, <1>5, <2>1, <2>2, PutType DEF MarkPublicationFailed
  <2>4. sweep' \in [Sweeps -> SweepState] /\ SweepsOK'
    <3>1. CASE sweep' = [sweep EXCEPT ![p] = IdleSweep]
      BY <3>1, SweepMoves, SweepType
    <3>2. CASE sweep' = [sweep EXCEPT ![p] =
                            [sweep[p] EXCEPT !.pc = "terminalizing"]]
      BY <2>1, <3>2, SweepMoves, SweepType DEF SweepPC
    <3>. QED BY <1>5, <3>1, <3>2 DEF MarkPublicationFailed
  <2>. QED BY <1>0, <1>5, <2>3, <2>4, SweepFrame DEF MarkPublicationFailed, dbVars
<1>6. CASE TerminalizePublication(p)
  <2>1. j \in Jobs  BY <1>6, SweepMoves DEF TerminalizePublication
  <2>2. [row[j] EXCEPT !.status = "FAILED", !.publication = "FAILED"] \in Row
    BY <1>0, <2>1, RowUpdate, StatusValues DEF Publication
  <2>3. row' \in [Jobs -> Row] /\ credits' \in Nat /\ refunds' \subseteq Jobs
    <3>1. CASE Put(j, [row[j] EXCEPT !.status = "FAILED", !.publication = "FAILED"])
               /\ SettleRefunds({j})
      BY <1>0, <2>1, <2>2, <3>1, PutType, SettleType
    <3>2. CASE UNCHANGED <<row, credits, refunds>>
      BY <1>0, <3>2
    <3>. QED BY <1>6, <3>1, <3>2 DEF TerminalizePublication
  <2>4. sweep' \in [Sweeps -> SweepState] /\ SweepsOK'
    BY <1>6, SweepMoves, SweepType DEF TerminalizePublication
  <2>. QED BY <1>0, <1>6, <2>3, <2>4, SweepFrame DEF TerminalizePublication
<1>7. CASE SweepStops(p)
  <2>1. sweep' \in [Sweeps -> SweepState] /\ SweepsOK'
    BY <1>7, SweepMoves, SweepType DEF SweepStops
  <2>2. faults' \in Nat  BY <1>0, <1>7 DEF SweepStops, Fault
  <2>. QED BY <1>0, <1>7, <2>1, <2>2, SweepFrame DEF SweepStops, dbVars
<1>. QED BY <1>1, <1>2, <1>3, <1>4, <1>5, <1>6, <1>7 DEF SweepStep, SweepFault

-----------------------------------------------------------------------------
(* The workers. *)

\* A worker in a well-typed state is again one.
LEMMA WorkerType ==
    ASSUME StateOK, NEW w \in Workers, NEW s \in WorkerState,
           s.pc # "idle" => s.job \in Jobs,
           s.pc = "republished" => s.retry < MaxRetries,
           worker' = [worker EXCEPT ![w] = s]
    PROVE  worker' \in [Workers -> WorkerState] /\ WorkersOK'
BY DEF StateOK, TypeOK, WorkersOK

\* A worker that is at work has a job and a retry number of the message.
LEMMA WorkerAtWork ==
    ASSUME StateOK, NEW w \in Workers
    PROVE  /\ worker[w] \in WorkerState
           /\ worker[w].retry \in Retries
           /\ worker[w].pc # "idle" => worker[w].job \in Jobs
           /\ worker[w].pc = "republished" => worker[w].retry < MaxRetries
<1>1. worker[w] \in WorkerState
  BY DEF StateOK, TypeOK
<1>. QED BY <1>1 DEF StateOK, WorkersOK, WorkerState

\* Goto and FailWithoutToken keep the worker's job and message.
LEMMA GotoType ==
    ASSUME StateOK, NEW w \in Workers, worker[w].pc # "idle",
           NEW pc \in WorkerPC, NEW h \in BOOLEAN,
           pc = "republished" => worker[w].retry < MaxRetries,
           \/ worker' = [worker EXCEPT ![w].pc = pc]
           \/ worker' = [worker EXCEPT ![w].pc = pc, ![w].holds = h]
    PROVE  worker' \in [Workers -> WorkerState] /\ WorkersOK'
<1>0. worker[w] \in WorkerState /\ worker[w].job \in Jobs
  BY WorkerAtWork
<1>. DEFINE s == [worker[w] EXCEPT !.pc = pc]
            t == [worker[w] EXCEPT !.pc = pc, !.holds = h]
<1>1. /\ s \in WorkerState /\ s.pc = pc /\ s.job = worker[w].job
      /\ s.retry = worker[w].retry
      /\ t \in WorkerState /\ t.pc = pc /\ t.job = worker[w].job
      /\ t.retry = worker[w].retry
  BY <1>0 DEF WorkerState
<1>2. CASE worker' = [worker EXCEPT ![w].pc = pc]
  <2>1. worker' = [worker EXCEPT ![w] = s]  BY <1>2
  <2>. HIDE DEF s
  <2>. QED BY <1>0, <1>1, <2>1, WorkerType
<1>3. CASE worker' = [worker EXCEPT ![w].pc = pc, ![w].holds = h]
  <2>1. worker' = [worker EXCEPT ![w] = t]
    BY <1>3 DEF StateOK, TypeOK
  <2>. HIDE DEF t
  <2>. QED BY <1>0, <1>1, <2>1, WorkerType
<1>. QED BY <1>2, <1>3

\* The idle worker.
LEMMA IdleType ==
    ASSUME StateOK, NEW w \in Workers, worker' = [worker EXCEPT ![w] = IdleWorker]
    PROVE  worker' \in [Workers -> WorkerState] /\ WorkersOK'
<1>1. IdleWorker \in WorkerState /\ IdleWorker.pc = "idle"
  BY RetryValues DEF IdleWorker, WorkerState, WorkerPC
<1>. QED BY <1>1, WorkerType

\* A requeued message.
LEMMA RequeueType ==
    ASSUME StateOK, NEW w \in Workers, worker[w].pc # "idle",
           NEW q \in [Message -> Nat], Requeue(w, q)
    PROVE  /\ queue' \in [Message -> Nat]
           /\ worker' \in [Workers -> WorkerState] /\ WorkersOK'
BY WorkerAtWork, QueueType, IdleType DEF Requeue

\* Ending a job with its refund.
LEMMA TerminalizeType ==
    ASSUME StateOK, NEW w \in Workers, worker[w].pc # "idle",
           NEW s \in Status, NEW k \in Retries,
           Terminalize(w, s, k) \/ UNCHANGED <<row, credits, refunds>>
    PROVE  row' \in [Jobs -> Row] /\ credits' \in Nat /\ refunds' \subseteq Jobs
<1>. DEFINE j == worker[w].job
<1>0. credits \in Nat /\ refunds \subseteq Jobs /\ row \in [Jobs -> Row]
  BY DEF StateOK, TypeOK
<1>1. j \in Jobs /\ row[j] \in Row
  BY <1>0, WorkerAtWork
<1>2. CASE Put(j, Terminalized(row[j], s, k)) /\ SettleRefunds({j})
  <2>1. Terminalized(row[j], s, k) \in Row
    BY <1>1, RowOwner DEF Terminalized
  <2>. QED BY <1>0, <1>1, <1>2, <2>1, PutType, SettleType
<1>3. CASE UNCHANGED <<row, credits, refunds>>
  BY <1>0, <1>3
<1>. QED BY <1>2, <1>3 DEF Terminalize

\* What most steps of a worker leave alone.
LEMMA WorkerFrame ==
    ASSUME StateOK, UNCHANGED <<plan, debits, publications, schedule, sweep,
                                historyVars>>,
           credits' \in Nat, refunds' \subseteq Jobs, row' \in [Jobs -> Row],
           queue' \in [Message -> Nat], faults' \in Nat,
           done' \in [Workers -> SUBSET Jobs],
           worker' \in [Workers -> WorkerState], WorkersOK'
    PROVE  StateOK'
BY DEF StateOK, TypeOK, SweepsOK, historyVars

\* The row a claim writes.
LEMMA ClaimedRowType ==
    ASSUME StateOK, NEW w \in Workers, worker[w].pc # "idle"
    PROVE  ClaimedRow(w, worker[w].job) \in Row
<1>. DEFINE j == worker[w].job
<1>1. row[j] \in Row /\ worker[w].retry \in Retries
  BY WorkerAtWork DEF StateOK, TypeOK
<1>2. row[j].due \in BOOLEAN
  BY <1>1 DEF Row
<1>3. (row[j].due /\ row[j].publication # "PUBLISHED") \in BOOLEAN
  BY <1>2
<1>. HIDE DEF j
<1>. QED BY <1>1, <1>3, RowOwner, StatusValues DEF ClaimedRow, j

\* The writes of the persist have their types, and leave the rest alone.
LEMMA StoreType ==
    ASSUME StateOK, NEW w \in Workers, worker[w].pc # "idle",
           StoreResult(w, worker[w].job) \/ UNCHANGED <<dbVars, row, historyVars>>
    PROVE  /\ row' \in [Jobs -> Row]
           /\ schedule' \in [status : {"DRAFT", "PUBLISHED", "DELETED"},
                             revision : Nat]
           /\ writes' \in Nat /\ appliedAt' \in [Jobs -> Nat]
           /\ UNCHANGED <<plan, credits, debits, refunds, publications, basis>>
<1>. DEFINE j == worker[w].job
<1>0. /\ row \in [Jobs -> Row] /\ writes \in Nat /\ appliedAt \in [Jobs -> Nat]
      /\ schedule \in [status : {"DRAFT", "PUBLISHED", "DELETED"}, revision : Nat]
  BY DEF StateOK, TypeOK
<1>1. j \in Jobs /\ row[j] \in Row /\ worker[w].retry \in Retries
  BY <1>0, WorkerAtWork
<1>2. CASE StoreResult(w, j)
  <2>1. [row[j] EXCEPT !.status = "SUCCEEDED", !.token = NoToken, !.live = FALSE,
                       !.retryCount = worker[w].retry] \in Row
    BY <1>1, RowOwner, StatusValues
  <2>2. row' \in [Jobs -> Row]
    BY <1>0, <1>1, <1>2, <2>1, PutType DEF StoreResult
  <2>3. writes' \in Nat /\ appliedAt' \in [Jobs -> Nat]
    BY <1>0, <1>1, <1>2 DEF StoreResult
  <2>4. schedule.revision + 1 \in Nat  BY <1>0
  <2>5. schedule' \in [status : {"DRAFT", "PUBLISHED", "DELETED"}, revision : Nat]
    BY <1>0, <1>2, <2>4 DEF StoreResult
  <2>. QED BY <1>2, <2>2, <2>3, <2>5 DEF StoreResult
<1>3. CASE UNCHANGED <<dbVars, row, historyVars>>
  BY <1>0, <1>3 DEF dbVars, historyVars
<1>. QED BY <1>2, <1>3

\* Every step of a worker preserves the types.
LEMMA WorkerStepType ==
    ASSUME StateOK, NEW w \in Workers, WorkerStep(w)
    PROVE  StateOK'
<1>. DEFINE j == worker[w].job
            WorkerTyped == worker' \in [Workers -> WorkerState] /\ WorkersOK'
<1>0. /\ credits \in Nat /\ refunds \subseteq Jobs /\ row \in [Jobs -> Row]
      /\ queue \in [Message -> Nat] /\ faults \in Nat
      /\ done \in [Workers -> SUBSET Jobs]
  BY DEF StateOK, TypeOK
<1>1. ASSUME NEW i \in Jobs, NEW r \in Retries, Receive(w, i, r) PROVE StateOK'
  <2>1. queue' \in [Message -> Nat]
    BY <1>0, <1>1, QueueType DEF Receive
  <2>. DEFINE s == [pc |-> "received", job |-> i, retry |-> r, holds |-> FALSE]
  <2>2. s \in WorkerState /\ s.job \in Jobs /\ s.pc = "received"
    BY DEF WorkerState, WorkerPC
  <2>3. worker' = [worker EXCEPT ![w] = s]  BY <1>1 DEF Receive
  <2>. HIDE DEF s
  <2>4. WorkerTyped
    BY <2>2, <2>3, WorkerType
  <2>. QED BY <1>0, <1>1, <2>1, <2>4, WorkerFrame DEF Receive, dbVars
<1>2. CASE Claim(w)
  <2>1. WorkerTyped
    <3>1. CASE Claimable(j)
      <4>1. (IF j \in done[w] THEN "settled" ELSE "solving") \in WorkerPC
            /\ (IF j \in done[w] THEN "settled" ELSE "solving") # "republished"
        BY DEF WorkerPC
      <4>. QED BY <1>2, <3>1, <4>1, GotoType DEF Claim
    <3>2. CASE ~Claimable(j)
      <4>. DEFINE pc == IF ~Provenance(j) THEN "rejected"
                        ELSE IF IsTerminal(j) THEN "settled"
                        ELSE IF ~PaidTenant THEN "rejected"
                        ELSE "busy"
      <4>1. pc \in WorkerPC /\ pc # "republished"
        BY DEF WorkerPC
      <4>2. Goto(w, pc)  BY <1>2, <3>2 DEF Claim
      <4>. HIDE DEF pc
      <4>. QED BY <1>2, <4>1, <4>2, GotoType DEF Goto, Claim
    <3>. QED BY <3>1, <3>2
  <2>2. worker[w].pc # "idle"  BY <1>2 DEF Claim
  <2>3. row' \in [Jobs -> Row]
    BY <1>0, <1>2, <2>2, ClaimedRowType, WorkerAtWork, PutType DEF Claim
  <2>. QED BY <1>0, <1>2, <2>1, <2>3, WorkerFrame DEF Claim, dbVars
<1>3. CASE DeadLetterMalformed(w)
  <2>0. worker[w].pc # "idle"  BY <1>3 DEF DeadLetterMalformed
  <2>1. row' \in [Jobs -> Row] /\ credits' \in Nat /\ refunds' \subseteq Jobs
    BY <1>3, <2>0, TerminalizeType, WorkerAtWork, StatusValues
    DEF DeadLetterMalformed
  <2>2. queue' \in [Message -> Nat] /\ WorkerTyped
    <3>1. CASE Provenance(j)
      BY <1>0, <1>3, <2>0, <3>1, GotoType
      DEF DeadLetterMalformed, Goto, WorkerPC
    <3>2. CASE ~Provenance(j)
      BY <1>0, <1>3, <2>0, <3>2, RequeueType DEF DeadLetterMalformed
    <3>. QED BY <3>1, <3>2
  <2>. QED BY <1>0, <1>3, <2>1, <2>2, WorkerFrame DEF DeadLetterMalformed
<1>4. CASE CallEngine(w)
  <2>1. WorkerTyped
    BY <1>4, GotoType DEF CallEngine, Goto, WorkerPC
  <2>. QED BY <1>0, <1>4, <2>1, WorkerFrame DEF CallEngine, dbVars
<1>5. CASE Persist(w)
  <2>0. worker[w].pc # "idle"  BY <1>5 DEF Persist
  <2>1. StoreResult(w, j) \/ UNCHANGED <<dbVars, row, historyVars>>
    BY <1>5 DEF Persist
  <2>2. WorkerTyped
    <3>. DEFINE pc == IF PersistRejects(j) THEN "rejected" ELSE "settled"
    <3>1. pc \in WorkerPC /\ pc # "republished"  BY DEF WorkerPC
    <3>2. Goto(w, pc)  BY <1>5 DEF Persist
    <3>. HIDE DEF pc
    <3>. QED BY <2>0, <3>1, <3>2, GotoType DEF Goto
  <2>3. done' \in [Workers -> SUBSET Jobs]
    <3>1. j \in Jobs  BY <2>0, WorkerAtWork
    <3>. QED BY <1>0, <1>5, <3>1 DEF Persist
  <2>. QED BY <1>5, <2>0, <2>1, <2>2, <2>3, StoreType
           DEF Persist, StateOK, TypeOK, SweepsOK
<1>6. CASE MarkFailed(w)
  <2>0. worker[w].pc # "idle"  BY <1>6 DEF MarkFailed
  <2>1. row' \in [Jobs -> Row] /\ credits' \in Nat /\ refunds' \subseteq Jobs
    BY <1>6, <2>0, TerminalizeType, WorkerAtWork, StatusValues DEF MarkFailed
  <2>2. WorkerTyped
    BY <1>6, <2>0, GotoType DEF MarkFailed, Goto, FailWithoutToken, WorkerPC
  <2>. QED BY <1>0, <1>6, <2>1, <2>2, WorkerFrame DEF MarkFailed
<1>7. CASE PublishRetry(w)
  <2>1. worker[w].retry + 1 \in Retries
    BY <1>7, WorkerAtWork, RetriesAssumption DEF PublishRetry, Retries
  <2>2. j \in Jobs  BY <1>7, WorkerAtWork DEF PublishRetry
  <2>3. queue' \in [Message -> Nat]
    BY <1>0, <1>7, <2>1, <2>2, QueueType DEF PublishRetry
  <2>4. WorkerTyped
    BY <1>7, GotoType DEF PublishRetry, Goto, WorkerPC
  <2>. QED BY <1>0, <1>7, <2>3, <2>4, WorkerFrame DEF PublishRetry, dbVars
<1>8. CASE MarkRetrying(w)
  <2>1. worker[w].retry + 1 \in Retries
    BY <1>8, WorkerAtWork, RetriesAssumption DEF MarkRetrying, Retries
  <2>2. j \in Jobs  BY <1>8, WorkerAtWork DEF MarkRetrying
  <2>3. [row[j] EXCEPT !.status = "RETRYING", !.retryCount = worker[w].retry + 1,
                       !.publication = "PUBLISHED", !.due = FALSE,
                       !.token = NoToken, !.live = FALSE] \in Row
    BY <1>0, <2>1, <2>2, RowOwner, StatusValues
  <2>4. row' \in [Jobs -> Row]
    BY <1>0, <1>8, <2>2, <2>3, PutType DEF MarkRetrying
  <2>5. WorkerTyped
    BY <1>8, GotoType DEF MarkRetrying, Goto, WorkerPC
  <2>. QED BY <1>0, <1>8, <2>4, <2>5, WorkerFrame DEF MarkRetrying, dbVars
<1>9. CASE DeadLetter(w)
  <2>0. worker[w].pc # "idle"  BY <1>9 DEF DeadLetter
  <2>1. row' \in [Jobs -> Row] /\ credits' \in Nat /\ refunds' \subseteq Jobs
    BY <1>9, <2>0, TerminalizeType, RetryValues, StatusValues DEF DeadLetter
  <2>2. queue' \in [Message -> Nat] /\ WorkerTyped
    <3>1. CASE Goto(w, "settled") /\ queue' = queue
      BY <1>0, <2>0, <3>1, GotoType DEF Goto, WorkerPC
    <3>2. CASE Requeue(w, queue)
      BY <1>0, <2>0, <3>2, RequeueType
    <3>. QED BY <1>9, <3>1, <3>2 DEF DeadLetter
  <2>. QED BY <1>0, <1>9, <2>1, <2>2, WorkerFrame DEF DeadLetter
<1>10. CASE DelayBusy(w)
  <2>1. queue' \in [Message -> Nat]
    BY <1>0, <1>10, WorkerAtWork, QueueType DEF DelayBusy
  <2>2. WorkerTyped
    BY <1>10, GotoType DEF DelayBusy, Goto, WorkerPC
  <2>. QED BY <1>0, <1>10, <2>1, <2>2, WorkerFrame DEF DelayBusy, dbVars
<1>11. CASE Settle(w)
  <2>1. WorkerTyped  BY <1>11, IdleType DEF Settle
  <2>. QED BY <1>0, <1>11, <2>1, WorkerFrame DEF Settle, dbVars
<1>. QED BY <1>1, <1>2, <1>3, <1>4, <1>5, <1>6, <1>7, <1>8, <1>9, <1>10, <1>11
         DEF WorkerStep

\* Every fault of a worker preserves the types.
LEMMA WorkerFaultType ==
    ASSUME StateOK, NEW w \in Workers, WorkerFault(w)
    PROVE  StateOK'
<1>. DEFINE j == worker[w].job
            WorkerTyped == worker' \in [Workers -> WorkerState] /\ WorkersOK'
<1>0. /\ credits \in Nat /\ refunds \subseteq Jobs /\ row \in [Jobs -> Row]
      /\ queue \in [Message -> Nat] /\ faults \in Nat
      /\ done \in [Workers -> SUBSET Jobs]
  BY DEF StateOK, TypeOK
<1>f. ASSUME Fault PROVE faults' \in Nat
  BY <1>0, <1>f DEF Fault
<1>1. ASSUME NEW c \in BOOLEAN, ClaimFails(w, c) PROVE StateOK'
  <2>0. worker[w].pc # "idle" /\ faults' \in Nat  BY <1>1, <1>f DEF ClaimFails
  <2>1. row' \in [Jobs -> Row]
    BY <1>0, <1>1, <2>0, ClaimedRowType, WorkerAtWork, PutType DEF ClaimFails
  <2>2. WorkerTyped
    BY <1>1, <2>0, GotoType DEF ClaimFails, FailWithoutToken, WorkerPC
  <2>. QED BY <1>0, <1>1, <2>0, <2>1, <2>2, WorkerFrame DEF ClaimFails, dbVars
<1>2. ASSUME NEW c \in BOOLEAN, DeadLetterMalformedFails(w, c) PROVE StateOK'
  <2>0. worker[w].pc # "idle" /\ faults' \in Nat
    BY <1>2, <1>f DEF DeadLetterMalformedFails
  <2>1. row' \in [Jobs -> Row] /\ credits' \in Nat /\ refunds' \subseteq Jobs
    BY <1>2, <2>0, TerminalizeType, WorkerAtWork, StatusValues
    DEF DeadLetterMalformedFails
  <2>2. queue' \in [Message -> Nat] /\ WorkerTyped
    BY <1>0, <1>2, <2>0, RequeueType DEF DeadLetterMalformedFails
  <2>. QED BY <1>0, <1>2, <2>0, <2>1, <2>2, WorkerFrame DEF DeadLetterMalformedFails
<1>3. ASSUME NEW c \in BOOLEAN, PersistFails(w, c) PROVE StateOK'
  <2>0. worker[w].pc # "idle" /\ faults' \in Nat  BY <1>3, <1>f DEF PersistFails
  <2>1. StoreResult(w, j) \/ UNCHANGED <<dbVars, row, historyVars>>
    BY <1>3 DEF PersistFails
  <2>2. WorkerTyped
    BY <1>3, <2>0, GotoType DEF PersistFails, Goto, WorkerPC
  <2>. QED BY <1>3, <2>0, <2>1, <2>2, StoreType
           DEF PersistFails, StateOK, TypeOK, SweepsOK
<1>4. ASSUME NEW c \in BOOLEAN, MarkFailedFails(w, c) PROVE StateOK'
  <2>0. worker[w].pc # "idle" /\ faults' \in Nat
    BY <1>4, <1>f DEF MarkFailedFails
  <2>1. row' \in [Jobs -> Row] /\ credits' \in Nat /\ refunds' \subseteq Jobs
    BY <1>4, <2>0, TerminalizeType, WorkerAtWork, StatusValues DEF MarkFailedFails
  <2>2. WorkerTyped
    BY <1>4, <2>0, GotoType DEF MarkFailedFails, FailWithoutToken, WorkerPC
  <2>. QED BY <1>0, <1>4, <2>0, <2>1, <2>2, WorkerFrame DEF MarkFailedFails
<1>5. ASSUME NEW c \in BOOLEAN, DeadLetterFails(w, c) PROVE StateOK'
  <2>0. worker[w].pc # "idle" /\ faults' \in Nat
    BY <1>5, <1>f DEF DeadLetterFails
  <2>1. row' \in [Jobs -> Row] /\ credits' \in Nat /\ refunds' \subseteq Jobs
    BY <1>5, <2>0, TerminalizeType, RetryValues, StatusValues DEF DeadLetterFails
  <2>2. queue' \in [Message -> Nat] /\ WorkerTyped
    BY <1>0, <1>5, <2>0, RequeueType DEF DeadLetterFails
  <2>. QED BY <1>0, <1>5, <2>0, <2>1, <2>2, WorkerFrame DEF DeadLetterFails
<1>6. ASSUME NEW c \in BOOLEAN, PublishRetryFails(w, c) PROVE StateOK'
  <2>0. worker[w].pc # "idle" /\ faults' \in Nat
    BY <1>6, <1>f DEF PublishRetryFails
  <2>1. worker[w].retry + 1 \in Retries
    BY <1>6, WorkerAtWork, RetriesAssumption DEF PublishRetryFails, Retries
  <2>2. Enqueue(queue, j, worker[w].retry + 1) \in [Message -> Nat]
    BY <1>0, <2>0, <2>1, WorkerAtWork, QueueType
  <2>3. queue' \in [Message -> Nat] /\ WorkerTyped
    BY <1>0, <1>6, <2>0, <2>2, RequeueType DEF PublishRetryFails
  <2>. QED BY <1>0, <1>6, <2>0, <2>3, WorkerFrame DEF PublishRetryFails, dbVars
<1>7. ASSUME NEW c \in BOOLEAN, DelayBusyFails(w, c) PROVE StateOK'
  <2>0. worker[w].pc # "idle" /\ faults' \in Nat
    BY <1>7, <1>f DEF DelayBusyFails
  <2>1. Enqueue(queue, j, worker[w].retry) \in [Message -> Nat]
    BY <1>0, <2>0, WorkerAtWork, QueueType
  <2>2. queue' \in [Message -> Nat] /\ WorkerTyped
    BY <1>0, <1>7, <2>0, <2>1, RequeueType DEF DelayBusyFails
  <2>. QED BY <1>0, <1>7, <2>0, <2>2, WorkerFrame DEF DelayBusyFails, dbVars
<1>8. CASE MarkRetryingFails(w)
  <2>0. faults' \in Nat  BY <1>8, <1>f DEF MarkRetryingFails
  <2>1. WorkerTyped
    BY <1>8, GotoType DEF MarkRetryingFails, Goto, WorkerPC
  <2>. QED BY <1>0, <1>8, <2>0, <2>1, WorkerFrame DEF MarkRetryingFails, dbVars
<1>9. CASE WorkerCrash(w)
  <2>0. faults' \in Nat  BY <1>9, <1>f DEF WorkerCrash
  <2>1. queue' \in [Message -> Nat] /\ WorkerTyped
    BY <1>0, <1>9, RequeueType DEF WorkerCrash
  <2>2. done' \in [Workers -> SUBSET Jobs]
    BY <1>0, <1>9 DEF WorkerCrash
  <2>. QED BY <1>0, <1>9, <2>0, <2>1, <2>2, WorkerFrame DEF WorkerCrash, dbVars
<1>. QED BY <1>1, <1>2, <1>3, <1>4, <1>5, <1>6, <1>7, <1>8, <1>9 DEF WorkerFault

-----------------------------------------------------------------------------
(* Time and the broker. *)

\* The passing of time and the faults of the environment preserve the types.
LEMMA EnvironmentType ==
    ASSUME StateOK, (\E j \in Jobs : TimeStep(j)) \/ EnvironmentFault
    PROVE  StateOK'
<1>0. row \in [Jobs -> Row] /\ queue \in [Message -> Nat] /\ faults \in Nat
  BY DEF StateOK, TypeOK
<1>1. ASSUME Fault PROVE faults' \in Nat
  BY <1>0, <1>1 DEF Fault
<1>2. ASSUME NEW j \in Jobs, BecomesDue(j) \/ LeaseEnds(j), faults' \in Nat
      PROVE  StateOK'
  <2>1. /\ [row[j] EXCEPT !.due = TRUE] \in Row
        /\ [row[j] EXCEPT !.live = FALSE] \in Row
    BY <1>0 DEF Row
  <2>2. row' \in [Jobs -> Row]
    BY <1>0, <1>2, <2>1, PutType DEF BecomesDue, LeaseEnds
  <2>. QED BY <1>2, <2>2
           DEF BecomesDue, LeaseEnds, StateOK, TypeOK, WorkersOK, SweepsOK,
               dbVars, historyVars
<1>3. ASSUME NEW j \in Jobs, NEW r \in Retries, BrokerLoss(j, r) PROVE StateOK'
  <2>1. queue' \in [Message -> Nat]
    BY <1>0, <1>3, QueueType DEF BrokerLoss
  <2>2. faults' \in Nat  BY <1>1, <1>3 DEF BrokerLoss
  <2>. QED BY <1>3, <2>1, <2>2
           DEF BrokerLoss, StateOK, TypeOK, WorkersOK, SweepsOK, dbVars, historyVars
<1>4. ASSUME NEW j \in Jobs, TimeStep(j) PROVE StateOK'
  BY <1>0, <1>2, <1>4 DEF TimeStep, OutboxTimeout, LeaseTimeout
<1>5. ASSUME NEW j \in Jobs, EarlyOutboxTimeout(j) \/ EarlyLeaseTimeout(j)
      PROVE  StateOK'
  BY <1>1, <1>2, <1>5 DEF EarlyOutboxTimeout, EarlyLeaseTimeout
<1>. QED BY <1>3, <1>4, <1>5 DEF EnvironmentFault

-----------------------------------------------------------------------------
\* The initial state is well typed.
LEMMA InitType == Init => StateOK
<1>. SUFFICES ASSUME Init PROVE StateOK
  OBVIOUS
<1>1. NoRow \in Row
  BY StatusValues, RetryValues DEF NoRow, Row, Publication
<1>2. IdleWorker \in WorkerState /\ IdleWorker.pc = "idle"
  BY RetryValues DEF IdleWorker, WorkerState, WorkerPC
<1>3. IdleSweep \in SweepState /\ IdleSweep.pc = "idle"
  BY RetryValues DEF IdleSweep, SweepState, SweepPC
<1>. QED BY <1>1, <1>2, <1>3, CostAssumption
         DEF Init, StateOK, TypeOK, WorkersOK, SweepsOK

\* StateOK is inductive.
LEMMA StateInductive == StateOK /\ [Next]_vars => StateOK'
<1>. SUFFICES ASSUME StateOK, [Next]_vars PROVE StateOK'
  OBVIOUS
<1>1. CASE Next
  BY <1>1, ApiType, PublisherType, WorkerStepType, WorkerFaultType, EnvironmentType
  DEF Next
<1>2. CASE UNCHANGED vars
  BY <1>2 DEF vars, StateOK, TypeOK, WorkersOK, SweepsOK
<1>. QED BY <1>1, <1>2

\* The inductive invariant holds of every behaviour.
THEOREM StateHolds == Spec => []StateOK
BY InitType, StateInductive, PTL DEF Spec

\* In every behaviour of the pipeline, for any number of jobs, workers and
\* sweeps, no wallet is overdrawn, no message count goes below zero and no
\* retry is numbered past WORKER_MAX_RETRIES.
THEOREM TypeCorrect == Spec => []TypeOK
<1>1. StateOK => TypeOK  BY DEF StateOK
<1>. QED BY <1>1, StateHolds, PTL

-----------------------------------------------------------------------------
(* Credits and the ledger. *)

\* Outside S no job changes its status, except that an active job may become
\* active in another way; no job changes the revision of its snapshot.
KeepsRows(S) ==
    \A j \in Jobs :
        /\ row'[j].draftRevision = row[j].draftRevision
        /\ j \notin S => \/ row'[j].status = row[j].status
                         \/ row[j].status \in Active /\ row'[j].status \in Active

\* A step outside the books, which may at most reopen or delete the draft.
Quiet ==
    /\ UNCHANGED <<credits, debits, refunds, publications, historyVars>>
    /\ schedule'.revision \in {schedule.revision, schedule.revision + 1}
    /\ ActiveJobs # {} => schedule'.status \in {schedule.status, "DRAFT"}
    /\ KeepsRows({})

\* The jobs of S, active and paid for, end with a refund.
Refunds(S) ==
    /\ S \subseteq ActiveJobs
    /\ SettleRefunds(S)
    /\ \A j \in S : row'[j].status \in Refunded
    /\ KeepsRows(S)
    /\ UNCHANGED <<debits, publications, schedule, historyVars>>

\* A worker stores the result of the active job j.
Delivers(w, j) == CanStore(w, j) /\ StoreResult(w, j)

\* The kinds of steps.
Effect ==
    \/ Quiet
    \/ EditDraft
    \/ \E j \in Jobs : AutoSchedule(j)
    \/ \E k \in PublishKeys : PublishSchedule(k)
    \/ \E S \in SUBSET Jobs : Refunds(S)
    \/ \E w \in Workers, j \in Jobs : Delivers(w, j)

-----------------------------------------------------------------------------
\* Writing a row that stays in the same kind of status.
LEMMA PutKeeps ==
    ASSUME row \in [Jobs -> Row], NEW j \in Jobs, NEW r, Put(j, r),
           r.draftRevision = row[j].draftRevision,
           \/ r.status = row[j].status
           \/ row[j].status \in Active /\ r.status \in Active
    PROVE  KeepsRows({})
BY DEF Put, KeepsRows

\* The marks of the outbox and of the lease on a row.
LEMMA PutMark ==
    ASSUME row \in [Jobs -> Row], NEW j \in Jobs, NEW b, NEW d, NEW n,
           \/ Put(j, [row[j] EXCEPT !.due = d])
           \/ Put(j, [row[j] EXCEPT !.live = d])
           \/ Put(j, [row[j] EXCEPT !.publication = b, !.due = d])
           \/ Put(j, [row[j] EXCEPT !.publication = b, !.due = d, !.attempts = n])
    PROVE  KeepsRows({})
<1>1. PICK r : /\ Put(j, r)
               /\ r.status = row[j].status
               /\ r.draftRevision = row[j].draftRevision
  <2>1. row[j] \in Row  OBVIOUS
  <2>2. ASSUME NEW r \in {[row[j] EXCEPT !.due = d], [row[j] EXCEPT !.live = d],
                          [row[j] EXCEPT !.publication = b, !.due = d],
                          [row[j] EXCEPT !.publication = b, !.due = d,
                                         !.attempts = n]}
        PROVE  r.status = row[j].status /\ r.draftRevision = row[j].draftRevision
    BY <2>1 DEF Row
  <2>. QED BY <2>2
<1>. QED BY <1>1, PutKeeps

\* Ending one job with its refund.
LEMMA PutRefunds ==
    ASSUME row \in [Jobs -> Row], NEW j \in ActiveJobs, NEW r, Put(j, r),
           r.draftRevision = row[j].draftRevision, r.status \in Refunded,
           SettleRefunds({j}),
           UNCHANGED <<debits, publications, schedule, historyVars>>
    PROVE  Effect
<1>1. j \in Jobs  BY DEF ActiveJobs
<1>2. KeepsRows({j}) /\ row'[j].status \in Refunded
  BY <1>1 DEF Put, KeepsRows
<1>3. Refunds({j})
  BY <1>2 DEF Refunds
<1>. QED BY <1>1, <1>3 DEF Effect

\* What the records written by the actions say of status and snapshot.
LEMMA RowFields ==
    ASSUME NEW r \in Row, NEW s, NEW b
    PROVE  /\ [r EXCEPT !.status = s, !.publication = b].status = s
           /\ [r EXCEPT !.status = s, !.publication = b].draftRevision
                = r.draftRevision
BY DEF Row

\* The same for the records that change the owner of a job.
LEMMA RowOwnerFields ==
    ASSUME NEW r \in Row, NEW s, NEW k, NEW t, NEW d
    PROVE  /\ Terminalized(r, s, k).status = s
           /\ Terminalized(r, s, k).draftRevision = r.draftRevision
           /\ [r EXCEPT !.status = s, !.token = NoToken, !.live = FALSE,
                        !.retryCount = k].status = s
           /\ [r EXCEPT !.status = s, !.token = NoToken, !.live = FALSE,
                        !.retryCount = k].draftRevision = r.draftRevision
           /\ [r EXCEPT !.status = s, !.retryCount = k, !.publication = "PUBLISHED",
                        !.due = FALSE, !.token = NoToken, !.live = FALSE].status = s
           /\ [r EXCEPT !.status = s, !.retryCount = k, !.publication = "PUBLISHED",
                        !.due = FALSE, !.token = NoToken,
                        !.live = FALSE].draftRevision = r.draftRevision
           /\ [r EXCEPT !.status = s, !.retryCount = k, !.token = t,
                        !.live = TRUE, !.due = d].status = s
           /\ [r EXCEPT !.status = s, !.retryCount = k, !.token = t,
                        !.live = TRUE, !.due = d].draftRevision = r.draftRevision
BY DEF Row, Terminalized

\* A step that leaves the rows and the books alone is quiet.
LEMMA QuietFrame ==
    ASSUME KeepsRows({}), UNCHANGED <<dbVars, historyVars>>
    PROVE  Effect
BY DEF Effect, Quiet, dbVars

\* An untouched table keeps its rows.
LEMMA SameRows == UNCHANGED row => KeepsRows({})
BY DEF KeepsRows

\* Terminalize refunds the job, or does nothing.
LEMMA TerminalizeEffect ==
    ASSUME StateOK, NEW w \in Workers, worker[w].pc # "idle",
           NEW s \in Refunded, NEW k,
           Terminalize(w, s, k) \/ UNCHANGED <<row, credits, refunds>>,
           UNCHANGED <<debits, publications, plan, schedule, historyVars>>
    PROVE  Effect
<1>. DEFINE j == worker[w].job
<1>0. row \in [Jobs -> Row] /\ j \in Jobs /\ row[j] \in Row
  BY WorkerAtWork DEF StateOK, TypeOK, Refunded
<1>1. CASE UNCHANGED <<row, credits, refunds>>
  BY <1>1, SameRows, QuietFrame DEF dbVars
<1>2. CASE IsActive(j) /\ Put(j, Terminalized(row[j], s, k)) /\ SettleRefunds({j})
  <2>1. j \in ActiveJobs  BY <1>0, <1>2 DEF ActiveJobs
  <2>2. /\ Terminalized(row[j], s, k).status \in Refunded
        /\ Terminalized(row[j], s, k).draftRevision = row[j].draftRevision
    BY <1>0, RowOwnerFields
  <2>. HIDE DEF j
  <2>. QED BY <1>0, <1>2, <2>1, <2>2, PutRefunds
<1>. QED BY <1>1, <1>2 DEF Terminalize

-----------------------------------------------------------------------------
\* A request of the API is of one of the kinds.
LEMMA ApiEffect == ASSUME StateOK, ApiStep PROVE Effect
<1>1. CASE \E j \in Jobs : AutoSchedule(j)  BY <1>1 DEF Effect
<1>2. CASE EditDraft  BY <1>2 DEF Effect
<1>3. CASE \E k \in PublishKeys : PublishSchedule(k)  BY <1>3 DEF Effect
<1>4. CASE Reopen
  BY <1>4, SameRows DEF Reopen, Effect, Quiet, historyVars
<1>5. CASE Remove
  BY <1>5, SameRows DEF Remove, Effect, Quiet, historyVars, StateOK, TypeOK
<1>6. CASE \E p \in Plans : ChangePlan(p)
  BY <1>6, SameRows DEF ChangePlan, Effect, Quiet, historyVars
<1>7. CASE RequestTenantDeletion
  <2>1. /\ \A j \in ActiveJobs : row'[j].status \in Refunded
        /\ KeepsRows(ActiveJobs)
    <3>1. ASSUME NEW j \in Jobs
          PROVE  /\ row'[j].draftRevision = row[j].draftRevision
                 /\ row[j].status \in Active => row'[j].status \in Refunded
                 /\ row[j].status \notin Active => row'[j] = row[j]
      <4>1. row[j] \in Row /\ row'[j] = ClosedRow(row[j])
        BY <1>7 DEF RequestTenantDeletion, StateOK, TypeOK
      <4>. QED BY <4>1, RowFields DEF ClosedRow, Refunded
    <3>. QED BY <3>1 DEF KeepsRows, ActiveJobs, IsActive
  <2>2. Refunds(ActiveJobs)
    BY <1>7, <2>1 DEF RequestTenantDeletion, Refunds, historyVars
  <2>. QED BY <2>2 DEF Effect, ActiveJobs
<1>. QED BY <1>1, <1>2, <1>3, <1>4, <1>5, <1>6, <1>7 DEF ApiStep

\* A step or a fault of a sweep is of one of the kinds.
LEMMA PublisherEffect ==
    ASSUME StateOK, NEW p \in Sweeps, SweepStep(p) \/ SweepFault(p)
    PROVE  Effect
<1>. DEFINE j == sweep[p].job
<1>0. row \in [Jobs -> Row]  BY DEF StateOK, TypeOK
<1>1. ASSUME NEW i \in Jobs, SweepClaim(p, i) PROVE Effect
  <2>1. KeepsRows({})
    BY <1>0, <1>1, PutMark DEF SweepClaim
  <2>. QED BY <1>1, <2>1, QuietFrame DEF SweepClaim
<1>2. CASE SendConfirmed(p)
  BY <1>2, SameRows, QuietFrame DEF SendConfirmed
<1>3. ASSUME NEW taken \in BOOLEAN, SendFailed(p, taken) PROVE Effect
  BY <1>3, SameRows, QuietFrame DEF SendFailed
<1>4. CASE MarkPublished(p)
  <2>1. j \in Jobs  BY <1>4, SweepMoves DEF MarkPublished
  <2>2. KeepsRows({})
    BY <1>0, <1>4, <2>1, PutMark, SameRows DEF MarkPublished
  <2>. QED BY <1>4, <2>2, QuietFrame DEF MarkPublished
<1>5. ASSUME NEW aged \in BOOLEAN, MarkPublicationFailed(p, aged) PROVE Effect
  <2>1. j \in Jobs  BY <1>5, SweepMoves DEF MarkPublicationFailed
  <2>2. KeepsRows({})
    BY <1>0, <1>5, <2>1, PutMark, SameRows DEF MarkPublicationFailed
  <2>. QED BY <1>5, <2>2, QuietFrame DEF MarkPublicationFailed
<1>6. CASE TerminalizePublication(p)
  <2>1. j \in Jobs  BY <1>6, SweepMoves DEF TerminalizePublication
  <2>2. CASE CanTerminalizePublication(p, j)
    <3>1. j \in ActiveJobs
      BY <2>1, <2>2 DEF CanTerminalizePublication, ActiveJobs
    <3>2. row[j] \in Row  BY <1>0, <2>1
    <3>3. "FAILED" \in Refunded  BY DEF Refunded
    <3>. DEFINE r == [row[j] EXCEPT !.status = "FAILED", !.publication = "FAILED"]
    <3>4. r.status \in Refunded /\ r.draftRevision = row[j].draftRevision
      BY <3>2, <3>3, RowFields
    <3>5. /\ Put(j, r) /\ SettleRefunds({j})
          /\ UNCHANGED <<debits, publications, schedule, historyVars>>
      BY <1>6, <2>2 DEF TerminalizePublication
    <3>. HIDE DEF r, j
    <3>. QED BY <1>0, <3>1, <3>4, <3>5, PutRefunds
  <2>3. CASE UNCHANGED <<row, credits, refunds>>
    BY <1>6, <2>3, SameRows, QuietFrame DEF TerminalizePublication, dbVars
  <2>. QED BY <1>6, <2>2, <2>3 DEF TerminalizePublication
<1>7. CASE SweepStops(p)
  BY <1>7, SameRows, QuietFrame DEF SweepStops
<1>. QED BY <1>1, <1>2, <1>3, <1>4, <1>5, <1>6, <1>7 DEF SweepStep, SweepFault

\* A claim keeps the job active.
LEMMA ClaimKeeps ==
    ASSUME StateOK, NEW w \in Workers, worker[w].pc # "idle",
           \/ /\ Claimable(worker[w].job)
              /\ Put(worker[w].job, ClaimedRow(w, worker[w].job))
           \/ UNCHANGED row
    PROVE  KeepsRows({})
<1>. DEFINE j == worker[w].job
<1>0. row \in [Jobs -> Row] /\ j \in Jobs /\ row[j] \in Row
  BY WorkerAtWork DEF StateOK, TypeOK
<1>1. CASE Claimable(j) /\ Put(j, ClaimedRow(w, j))
  <2>1. /\ ClaimedRow(w, j).status = "RUNNING"
        /\ ClaimedRow(w, j).draftRevision = row[j].draftRevision
    BY <1>0, RowOwnerFields DEF ClaimedRow
  <2>2. row[j].status \in Active /\ "RUNNING" \in Active
    BY <1>1 DEF Claimable, IsActive, Active
  <2>. HIDE DEF j
  <2>. QED BY <1>0, <1>1, <2>1, <2>2, PutKeeps
<1>. QED BY <1>1, SameRows

\* The update that hands a job to its replacement message keeps it active.
LEMMA RetryingKeeps ==
    ASSUME StateOK, NEW w \in Workers, MarkRetrying(w) PROVE KeepsRows({})
<1>. DEFINE j == worker[w].job
            r == [row[j] EXCEPT !.status = "RETRYING",
                                !.retryCount = worker[w].retry + 1,
                                !.publication = "PUBLISHED", !.due = FALSE,
                                !.token = NoToken, !.live = FALSE]
<1>0. row \in [Jobs -> Row] /\ j \in Jobs /\ row[j] \in Row
  BY WorkerAtWork DEF StateOK, TypeOK, MarkRetrying
<1>1. r.status = "RETRYING" /\ r.draftRevision = row[j].draftRevision
  BY <1>0, RowOwnerFields
<1>2. (row[j].status \in Active /\ Put(j, r)) \/ UNCHANGED row
  BY DEF MarkRetrying, IsActive
<1>3. "RETRYING" \in Active  BY DEF Active
<1>. HIDE DEF r, j
<1>. QED BY <1>0, <1>1, <1>2, <1>3, PutKeeps, SameRows

\* A step of a worker is of one of the kinds.
LEMMA WorkerEffect ==
    ASSUME StateOK, NEW w \in Workers, WorkerStep(w) \/ WorkerFault(w)
    PROVE  Effect
<1>. DEFINE j == worker[w].job
<1>0. row \in [Jobs -> Row]  BY DEF StateOK, TypeOK
<1>r. "FAILED" \in Refunded /\ "DEAD_LETTERED" \in Refunded  BY DEF Refunded
<1>1. ASSUME \/ \E i \in Jobs, r \in Retries : Receive(w, i, r)
             \/ CallEngine(w) \/ PublishRetry(w) \/ DelayBusy(w) \/ Settle(w)
             \/ \E taken \in BOOLEAN : \/ PublishRetryFails(w, taken)
                                       \/ DelayBusyFails(w, taken)
             \/ MarkRetryingFails(w) \/ WorkerCrash(w)
      PROVE  Effect
  BY <1>1, SameRows, QuietFrame
  DEF Receive, CallEngine, PublishRetry, DelayBusy, Settle, PublishRetryFails,
      DelayBusyFails, MarkRetryingFails, WorkerCrash
<1>2. CASE Claim(w)
  BY <1>2, ClaimKeeps, QuietFrame DEF Claim
<1>3. ASSUME NEW c \in BOOLEAN, ClaimFails(w, c) PROVE Effect
  BY <1>3, ClaimKeeps, QuietFrame DEF ClaimFails
<1>4. CASE DeadLetterMalformed(w)
  BY <1>4, <1>r, TerminalizeEffect DEF DeadLetterMalformed
<1>5. ASSUME NEW c \in BOOLEAN, DeadLetterMalformedFails(w, c) PROVE Effect
  BY <1>5, <1>r, TerminalizeEffect DEF DeadLetterMalformedFails
<1>6. CASE MarkFailed(w)
  BY <1>6, <1>r, TerminalizeEffect DEF MarkFailed
<1>7. ASSUME NEW c \in BOOLEAN, MarkFailedFails(w, c) PROVE Effect
  BY <1>7, <1>r, TerminalizeEffect DEF MarkFailedFails
<1>8. CASE DeadLetter(w)
  BY <1>8, <1>r, TerminalizeEffect DEF DeadLetter
<1>9. ASSUME NEW c \in BOOLEAN, DeadLetterFails(w, c) PROVE Effect
  BY <1>9, <1>r, TerminalizeEffect DEF DeadLetterFails
<1>10. CASE Persist(w)
  <2>1. j \in Jobs  BY <1>10, WorkerAtWork DEF Persist
  <2>. QED BY <1>10, <2>1, SameRows, QuietFrame DEF Persist, Delivers, Effect
<1>11. ASSUME NEW c \in BOOLEAN, PersistFails(w, c) PROVE Effect
  <2>1. j \in Jobs  BY <1>11, WorkerAtWork DEF PersistFails
  <2>. QED BY <1>11, <2>1, SameRows, QuietFrame DEF PersistFails, Delivers, Effect
<1>12. CASE MarkRetrying(w)
  BY <1>12, RetryingKeeps, QuietFrame DEF MarkRetrying
<1>. QED BY <1>1, <1>2, <1>3, <1>4, <1>5, <1>6, <1>7, <1>8, <1>9, <1>10, <1>11,
            <1>12 DEF WorkerStep, WorkerFault

\* Time and the broker never touch the books.
LEMMA EnvironmentEffect ==
    ASSUME StateOK, (\E j \in Jobs : TimeStep(j)) \/ EnvironmentFault
    PROVE  Effect
<1>0. row \in [Jobs -> Row]  BY DEF StateOK, TypeOK
<1>1. ASSUME NEW j \in Jobs, BecomesDue(j) \/ LeaseEnds(j) PROVE Effect
  <2>1. KeepsRows({})
    BY <1>0, <1>1, PutMark DEF BecomesDue, LeaseEnds
  <2>. QED BY <1>1, <2>1, QuietFrame DEF BecomesDue, LeaseEnds
<1>2. ASSUME NEW j \in Jobs, NEW r \in Retries, BrokerLoss(j, r) PROVE Effect
  BY <1>2, SameRows, QuietFrame DEF BrokerLoss
<1>. QED BY <1>1, <1>2 DEF TimeStep, OutboxTimeout, LeaseTimeout, EnvironmentFault,
                           EarlyOutboxTimeout, EarlyLeaseTimeout

\* Every step of the pipeline is of one of the six kinds.
LEMMA StepEffect == ASSUME StateOK, [Next]_vars PROVE Effect
<1>1. CASE Next
  BY <1>1, ApiEffect, PublisherEffect, WorkerEffect, EnvironmentEffect DEF Next
<1>2. CASE UNCHANGED vars
  BY <1>2, SameRows, QuietFrame DEF vars, dbVars, historyVars
<1>. QED BY <1>1, <1>2

-----------------------------------------------------------------------------
(* The accounting invariants. *)

\* The provenance of every paid job is preserved by every step.
LEMMA ProvenanceStep ==
    ASSUME StateOK, PaidProvenance, [Next]_vars PROVE PaidProvenance'
<1>0. row \in [Jobs -> Row] /\ Effect
  BY StepEffect DEF StateOK, TypeOK
<1>1. CASE Quiet
  BY <1>1 DEF Quiet, KeepsRows, PaidProvenance, Active, Refunded
<1>2. CASE EditDraft
  BY <1>2 DEF EditDraft, PaidProvenance
<1>3. ASSUME NEW j \in Jobs, AutoSchedule(j) PROVE PaidProvenance'
  <2>1. row'[j].status = "QUEUED" /\ \A i \in Jobs \ {j} : row'[i] = row[i]
    BY <1>0, <1>3 DEF AutoSchedule, Put, NoRow
  <2>2. row[j].status = "NONE" /\ debits' = debits \cup {j} /\ refunds' = refunds
    BY <1>3 DEF AutoSchedule
  <2>. QED BY <2>1, <2>2 DEF PaidProvenance, Refunded
<1>4. ASSUME NEW k \in PublishKeys, PublishSchedule(k) PROVE PaidProvenance'
  BY <1>4 DEF PublishSchedule, PaidProvenance
<1>5. ASSUME NEW S \in SUBSET Jobs, Refunds(S) PROVE PaidProvenance'
  <2>1. debits' = debits /\ refunds' = refunds \cup S
    BY <1>5 DEF Refunds, SettleRefunds
  <2>2. \A j \in S : row[j].status \in Active /\ row'[j].status \in Refunded
    BY <1>5 DEF Refunds, ActiveJobs, IsActive
  <2>3. KeepsRows(S)  BY <1>5 DEF Refunds
  <2>. QED BY <2>1, <2>2, <2>3 DEF KeepsRows, PaidProvenance, Active, Refunded
<1>6. ASSUME NEW w \in Workers, NEW j \in Jobs, Delivers(w, j)
      PROVE  PaidProvenance'
  <2>1. row'[j].status = "SUCCEEDED" /\ \A i \in Jobs \ {j} : row'[i] = row[i]
    <3>1. row[j] \in Row  BY <1>0
    <3>. QED BY <1>0, <1>6, <3>1, RowOwnerFields DEF Delivers, StoreResult, Put
  <2>2. row[j].status \in Active /\ debits' = debits /\ refunds' = refunds
    BY <1>6 DEF Delivers, CanStore, IsActive, StoreResult
  <2>. QED BY <2>1, <2>2 DEF PaidProvenance, Active, Refunded
<1>. QED BY <1>0, <1>1, <1>2, <1>3, <1>4, <1>5, <1>6 DEF Effect

\* Nothing has been bought at the start.
LEMMA ProvenanceInit == Init => PaidProvenance
BY DEF Init, PaidProvenance, NoRow, Refunded

\* However the API, the publisher, the workers and the account deletion
\* interleave, crash and repeat themselves, the refund of a job exists
\* exactly when the job ended without a schedule, and its debit as soon as
\* the job does.
THEOREM ProvenanceHolds == Spec => []PaidProvenance
BY ProvenanceInit, ProvenanceStep, StateHolds, PTL DEF Spec

\* Distributing the price of a job.
LEMMA Price ==
    ASSUME NEW a \in Nat, NEW b \in Nat, NEW c \in Int
    PROVE  /\ c * (a - b) = c * a - c * b
           /\ c * (a + 1) = c * a + c
           /\ c * a \in Int
OBVIOUS

\* What is taken from one side of the books is put on the other.
LEMMA Balance ==
    ASSUME NEW c \in Int, NEW x \in Int, NEW y \in Int, NEW d \in Int
    PROVE  /\ (c - d) + (x + d) + y = c + x + y
           /\ (c - d) + x + (y + d) = c + x + y
           /\ (c + d) + (x - d) + y = c + x + y
OBVIOUS

\* Every step conserves the wallet with what it has paid for.
LEMMA WalletStep ==
    ASSUME StateOK, PaidProvenance, WalletConserved, [Next]_vars
    PROVE  WalletConserved'
<1>. DEFINE paid == debits \ refunds
            solves == SolveCost * Cardinality(paid)
            sales == PublishCost * Cardinality(publications)
<1>0. /\ Effect /\ credits \in Nat /\ debits \subseteq Jobs
      /\ refunds \subseteq Jobs /\ publications \subseteq PublishKeys
  BY StepEffect DEF StateOK, TypeOK
<1>1. IsFiniteSet(paid) /\ Cardinality(paid) \in Nat
  BY <1>0, SetsAssumption, FS_Subset, FS_CardinalityType
<1>2. IsFiniteSet(publications) /\ Cardinality(publications) \in Nat
  BY <1>0, SetsAssumption, FS_Subset, FS_CardinalityType
<1>3. /\ credits \in Int /\ SolveCost \in Int /\ PublishCost \in Int
      /\ solves \in Int /\ sales \in Int
  BY <1>0, <1>1, <1>2, Price, CostAssumption
<1>4. credits + solves + sales = InitialCredits
  BY DEF WalletConserved
<1>5. CASE Quiet \/ EditDraft
  BY <1>5 DEF Quiet, EditDraft, WalletConserved
<1>6. ASSUME NEW j \in Jobs, AutoSchedule(j) PROVE WalletConserved'
  <2>1. j \notin debits /\ j \notin refunds
    BY <1>6 DEF AutoSchedule, PaidProvenance, Refunded
  <2>2. /\ debits' \ refunds' = paid \cup {j} /\ credits' = credits - SolveCost
        /\ publications' = publications
    BY <1>6, <2>1 DEF AutoSchedule
  <2>3. Cardinality(paid \cup {j}) = Cardinality(paid) + 1
    BY <1>1, <2>1, FS_AddElement
  <2>4. SolveCost * (Cardinality(paid) + 1) = solves + SolveCost
    BY <1>1, Price, CostAssumption
  <2>. HIDE DEF paid
  <2>5. WalletConserved' <=>
          (credits - SolveCost) + (solves + SolveCost) + sales = InitialCredits
    BY <2>2, <2>3, <2>4, Zenon DEF WalletConserved
  <2>. QED BY <1>3, <1>4, <2>5, Balance
<1>7. ASSUME NEW k \in PublishKeys, PublishSchedule(k) PROVE WalletConserved'
  <2>1. /\ publications' = publications \cup {k} /\ k \notin publications
        /\ credits' = credits - PublishCost /\ debits' \ refunds' = paid
    BY <1>7 DEF PublishSchedule
  <2>2. Cardinality(publications') = Cardinality(publications) + 1
    BY <1>2, <2>1, FS_AddElement
  <2>3. PublishCost * (Cardinality(publications) + 1) = sales + PublishCost
    BY <1>2, Price, CostAssumption
  <2>. HIDE DEF paid
  <2>4. WalletConserved' <=>
          (credits - PublishCost) + solves + (sales + PublishCost) = InitialCredits
    BY <2>1, <2>2, <2>3, Zenon DEF WalletConserved
  <2>. QED BY <1>3, <1>4, <2>4, Balance
<1>8. ASSUME NEW S \in SUBSET Jobs, Refunds(S) PROVE WalletConserved'
  <2>. DEFINE back == SolveCost * Cardinality(S)
  <2>1. S \subseteq paid
    BY <1>8 DEF Refunds, ActiveJobs, IsActive, PaidProvenance, Active, Refunded
  <2>2. /\ debits' \ refunds' = paid \ S /\ publications' = publications
        /\ credits' = credits + back
    <3>1. S \ refunds = S  BY <2>1
    <3>. QED BY <1>8, <3>1 DEF Refunds, SettleRefunds
  <2>3. /\ IsFiniteSet(S) /\ Cardinality(S) \in Nat
        /\ Cardinality(paid \ S) = Cardinality(paid) - Cardinality(S)
    <3>1. paid \cap S = S  BY <2>1
    <3>2. IsFiniteSet(S)  BY <1>1, <2>1, FS_Subset
    <3>. HIDE DEF paid
    <3>3. Cardinality(paid \ S) = Cardinality(paid) - Cardinality(paid \cap S)
      BY <1>1, FS_Difference
    <3>. QED BY <3>1, <3>2, <3>3, FS_CardinalityType
  <2>4. SolveCost * (Cardinality(paid) - Cardinality(S)) = solves - back
        /\ back \in Int
    BY <1>1, <2>3, Price, CostAssumption
  <2>. HIDE DEF paid
  <2>5. WalletConserved' <=>
          (credits + back) + (solves - back) + sales = InitialCredits
    BY <2>2, <2>3, <2>4, Zenon DEF WalletConserved
  <2>. QED BY <1>3, <1>4, <2>4, <2>5, Balance
<1>9. ASSUME NEW w \in Workers, NEW j \in Jobs, Delivers(w, j)
      PROVE  WalletConserved'
  BY <1>9 DEF Delivers, StoreResult, WalletConserved
<1>. QED BY <1>0, <1>5, <1>6, <1>7, <1>8, <1>9 DEF Effect

\* Before anything is bought the wallet is whole.
LEMMA WalletInit == Init => WalletConserved
<1>1. Cardinality({}) = 0  BY FS_EmptySet
<1>. QED BY <1>1, CostAssumption DEF Init, WalletConserved

\* No refund is paid twice or lost, and no credit is taken without a job or
\* a publication, however the settlements race.
THEOREM WalletHolds == Spec => []WalletConserved
BY WalletInit, WalletStep, ProvenanceHolds, StateHolds, PTL DEF Spec

\* Every step leaves the jobs that have ended alone.
LEMMA FinalStep ==
    ASSUME StateOK, [Next]_vars, NEW j \in Jobs, IsTerminal(j)
    PROVE  /\ row'[j].status = row[j].status
           /\ (j \in refunds') = (j \in refunds)
           /\ appliedAt'[j] = appliedAt[j]
<1>0. row \in [Jobs -> Row] /\ appliedAt \in [Jobs -> Nat] /\ Effect
  BY StepEffect DEF StateOK, TypeOK
<1>t. row[j].status \notin Active /\ row[j].status # "NONE"
  BY DEF IsTerminal, Terminal, Refunded, Active
<1>1. CASE Quiet
  BY <1>t, <1>1 DEF Quiet, KeepsRows, historyVars
<1>2. CASE EditDraft
  BY <1>2 DEF EditDraft
<1>3. ASSUME NEW i \in Jobs, AutoSchedule(i) PROVE row'[j].status = row[j].status
  BY <1>0, <1>t, <1>3 DEF AutoSchedule, Put
<1>4. ASSUME NEW k \in PublishKeys, PublishSchedule(k)
      PROVE  UNCHANGED <<row, refunds, appliedAt>>
  BY <1>4 DEF PublishSchedule
<1>5. ASSUME NEW S \in SUBSET Jobs, Refunds(S)
      PROVE  /\ row'[j].status = row[j].status
             /\ (j \in refunds') = (j \in refunds)
             /\ appliedAt' = appliedAt
  <2>1. j \notin S  BY <1>t, <1>5 DEF Refunds, ActiveJobs, IsActive
  <2>. QED BY <1>t, <1>5, <2>1 DEF Refunds, KeepsRows, SettleRefunds, historyVars
<1>6. ASSUME NEW w \in Workers, NEW i \in Jobs, Delivers(w, i)
      PROVE  /\ row'[j].status = row[j].status
             /\ refunds' = refunds
             /\ appliedAt'[j] = appliedAt[j]
  <2>1. i # j  BY <1>t, <1>6 DEF Delivers, CanStore, IsActive
  <2>. QED BY <1>0, <1>6, <2>1 DEF Delivers, StoreResult, Put
<1>7. ASSUME NEW i \in Jobs, AutoSchedule(i) PROVE UNCHANGED <<refunds, appliedAt>>
  BY <1>7 DEF AutoSchedule
<1>. QED BY <1>0, <1>1, <1>2, <1>3, <1>4, <1>5, <1>6, <1>7 DEF Effect

\* A job that has ended keeps its status, its refund and its result: no late
\* sweep, duplicated message or second deletion request reopens it.
THEOREM FinalHolds == Spec => TerminalIsFinal
<1>1. StateOK /\ [Next]_vars =>
        [\A j \in Jobs : IsTerminal(j) =>
            /\ row'[j].status = row[j].status
            /\ (j \in refunds') = (j \in refunds)
            /\ appliedAt'[j] = appliedAt[j]]_vars
  BY FinalStep
<1>. QED BY <1>1, StateHolds, PTL DEF Spec, TerminalIsFinal

-----------------------------------------------------------------------------
(* The content of the draft. *)

\* The strengthening of NoLostEdit: a draft that still has the revision of a
\* job's snapshot has not been written since the snapshot was taken.
SnapshotOK ==
    \A j \in Jobs : row[j].status # "NONE" =>
        /\ row[j].draftRevision <= schedule.revision
        /\ row[j].draftRevision = schedule.revision => basis[j] = writes

\* Every step preserves the meaning of the draft's revision.
LEMMA EditStep ==
    ASSUME StateOK, SnapshotOK, NoLostEdit, [Next]_vars
    PROVE  SnapshotOK' /\ NoLostEdit'
<1>0. /\ Effect /\ row \in [Jobs -> Row] /\ writes \in Nat
      /\ basis \in [Jobs -> Nat] /\ appliedAt \in [Jobs -> Nat]
      /\ schedule \in [status : {"DRAFT", "PUBLISHED", "DELETED"}, revision : Nat]
  BY StepEffect DEF StateOK, TypeOK
<1>1. schedule.revision \in Nat /\ \A j \in Jobs : row[j].draftRevision \in Nat
  BY <1>0 DEF Row
<1>2. ASSUME NEW S \in SUBSET ActiveJobs, KeepsRows(S), UNCHANGED historyVars,
             \A j \in S : row'[j].status \in Refunded,
             schedule'.revision \in {schedule.revision, schedule.revision + 1}
      PROVE  SnapshotOK' /\ NoLostEdit'
  <2>1. ASSUME NEW j \in Jobs
        PROVE  /\ row'[j].draftRevision = row[j].draftRevision
               /\ row'[j].status = "NONE" <=> row[j].status = "NONE"
               /\ row'[j].status = "SUCCEEDED" <=> row[j].status = "SUCCEEDED"
    BY <1>2 DEF KeepsRows, ActiveJobs, IsActive, Active, Refunded
  <2>2. NoLostEdit'
    BY <1>2, <2>1 DEF NoLostEdit, historyVars
  <2>3. SnapshotOK'
    BY <1>1, <1>2, <2>1 DEF SnapshotOK, historyVars
  <2>. QED BY <2>2, <2>3
<1>3. CASE Quiet
  BY <1>2, <1>3 DEF Quiet
<1>4. CASE EditDraft
  <2>1. /\ schedule'.revision = schedule.revision + 1
        /\ UNCHANGED <<row, basis, appliedAt>>
    BY <1>0, <1>4 DEF EditDraft
  <2>. QED BY <1>1, <2>1 DEF SnapshotOK, NoLostEdit
<1>5. ASSUME NEW j \in Jobs, AutoSchedule(j) PROVE SnapshotOK' /\ NoLostEdit'
  <2>1. /\ row'[j].status = "QUEUED" /\ row'[j].draftRevision = schedule.revision
        /\ \A i \in Jobs \ {j} : row'[i] = row[i]
    BY <1>0, <1>5 DEF AutoSchedule, Put, NoRow
  <2>2. /\ row[j].status = "NONE" /\ UNCHANGED <<schedule, writes, appliedAt>>
        /\ basis'[j] = writes /\ \A i \in Jobs \ {j} : basis'[i] = basis[i]
    BY <1>0, <1>5 DEF AutoSchedule
  <2>3. NoLostEdit'
    BY <2>1, <2>2 DEF NoLostEdit
  <2>4. SnapshotOK'
    BY <1>1, <2>1, <2>2 DEF SnapshotOK
  <2>. QED BY <2>3, <2>4
<1>6. ASSUME NEW k \in PublishKeys, PublishSchedule(k)
      PROVE  SnapshotOK' /\ NoLostEdit'
  <2>1. /\ schedule'.revision = schedule.revision
        /\ UNCHANGED <<row, writes, basis, appliedAt>>
    BY <1>0, <1>6 DEF PublishSchedule
  <2>. QED BY <2>1 DEF SnapshotOK, NoLostEdit
<1>7. ASSUME NEW S \in SUBSET Jobs, Refunds(S) PROVE SnapshotOK' /\ NoLostEdit'
  BY <1>2, <1>7 DEF Refunds
<1>8. ASSUME NEW w \in Workers, NEW j \in Jobs, Delivers(w, j)
      PROVE  SnapshotOK' /\ NoLostEdit'
  <2>0. row[j] \in Row  BY <1>0
  <2>1. /\ row'[j].status = "SUCCEEDED"
        /\ row'[j].draftRevision = row[j].draftRevision
        /\ \A i \in Jobs \ {j} : row'[i] = row[i]
    BY <1>0, <1>8, <2>0, RowOwnerFields DEF Delivers, StoreResult, Put
  <2>2. /\ schedule'.revision = schedule.revision + 1 /\ basis' = basis
        /\ appliedAt'[j] = writes + 1
        /\ \A i \in Jobs \ {j} : appliedAt'[i] = appliedAt[i]
    BY <1>0, <1>8 DEF Delivers, StoreResult
  <2>3. row[j].status # "NONE" /\ row[j].draftRevision = schedule.revision
    BY <1>8 DEF Delivers, CanStore, IsActive, Active, DraftUnchanged
  <2>4. basis[j] = writes
    BY <2>3 DEF SnapshotOK
  <2>5. NoLostEdit'
    BY <1>0, <2>1, <2>2, <2>4 DEF NoLostEdit
  <2>6. SnapshotOK'
    BY <1>1, <2>1, <2>2, <2>3 DEF SnapshotOK
  <2>. QED BY <2>5, <2>6
<1>. QED BY <1>0, <1>3, <1>4, <1>5, <1>6, <1>7, <1>8 DEF Effect

\* No job has taken a snapshot at the start.
LEMMA EditInit == Init => SnapshotOK /\ NoLostEdit
BY DEF Init, SnapshotOK, NoLostEdit, NoRow

\* No result is stored over a draft that was edited after the solve was
\* requested, and none is stored twice.
THEOREM NoEditLost == Spec => []NoLostEdit
<1>1. Spec => [](SnapshotOK /\ NoLostEdit)
  BY EditInit, EditStep, StateHolds, PTL DEF Spec
<1>. QED BY <1>1, PTL

-----------------------------------------------------------------------------
(* The draft of an active job. *)

\* Every step leaves an active job alone with its draft.
LEMMA OwnerStep ==
    ASSUME StateOK, ActiveJobOwnsDraft, [Next]_vars PROVE ActiveJobOwnsDraft'
<1>0. /\ Effect /\ row \in [Jobs -> Row]
      /\ schedule \in [status : {"DRAFT", "PUBLISHED", "DELETED"}, revision : Nat]
  BY StepEffect DEF StateOK, TypeOK
<1>1. ASSUME ActiveJobs' \subseteq ActiveJobs,
             ActiveJobs # {} => schedule'.status \in {schedule.status, "DRAFT"}
      PROVE  ActiveJobOwnsDraft'
  BY <1>1 DEF ActiveJobOwnsDraft
<1>2. ASSUME NEW S \in SUBSET Jobs, KeepsRows(S),
             \A j \in S : row'[j].status \in Refunded
      PROVE  ActiveJobs' \subseteq ActiveJobs
  BY <1>2 DEF KeepsRows, ActiveJobs, IsActive, Active, Refunded
<1>3. CASE Quiet
  BY <1>1, <1>2, <1>3 DEF Quiet
<1>4. CASE EditDraft
  BY <1>0, <1>1, <1>4 DEF EditDraft, ActiveJobs, IsActive
<1>5. ASSUME NEW j \in Jobs, AutoSchedule(j) PROVE ActiveJobOwnsDraft'
  <2>1. /\ ActiveJobs = {} /\ schedule' = schedule /\ schedule.status = "DRAFT"
        /\ row'[j].status = "QUEUED" /\ \A i \in Jobs \ {j} : row'[i] = row[i]
    BY <1>0, <1>5 DEF AutoSchedule, Put, NoRow
  <2>2. ActiveJobs' = {j}
    BY <2>1 DEF ActiveJobs, IsActive, Active
  <2>. QED BY <2>1, <2>2 DEF ActiveJobOwnsDraft
<1>6. ASSUME NEW k \in PublishKeys, PublishSchedule(k) PROVE ActiveJobOwnsDraft'
  <2>1. ActiveJobs' = {}
    BY <1>6 DEF PublishSchedule, ActiveJobs, IsActive
  <2>. QED BY <2>1 DEF ActiveJobOwnsDraft
<1>7. ASSUME NEW S \in SUBSET Jobs, Refunds(S) PROVE ActiveJobOwnsDraft'
  BY <1>1, <1>2, <1>7 DEF Refunds
<1>8. ASSUME NEW w \in Workers, NEW j \in Jobs, Delivers(w, j)
      PROVE  ActiveJobOwnsDraft'
  <2>0. row[j] \in Row  BY <1>0
  <2>1. /\ row'[j].status = "SUCCEEDED" /\ \A i \in Jobs \ {j} : row'[i] = row[i]
        /\ schedule'.status = schedule.status
    BY <1>0, <1>8, <2>0, RowOwnerFields DEF Delivers, StoreResult, Put
  <2>2. ActiveJobs' \subseteq ActiveJobs
    BY <2>1 DEF ActiveJobs, IsActive, Active
  <2>. QED BY <1>1, <2>1, <2>2
<1>. QED BY <1>0, <1>3, <1>4, <1>5, <1>6, <1>7, <1>8 DEF Effect

\* No job is active at the start.
LEMMA OwnerInit == Init => ActiveJobOwnsDraft
BY DEF Init, ActiveJobOwnsDraft, ActiveJobs, IsActive, Active, NoRow

\* A schedule with an active job has only that one, and is neither published
\* nor deleted under it.
THEOREM DraftOwned == Spec => []ActiveJobOwnsDraft
BY OwnerInit, OwnerStep, StateHolds, PTL DEF Spec

-----------------------------------------------------------------------------
(* The completed keys. *)

\* Every step leaves only succeeded jobs in the lists of completed keys.
LEMMA KeysStep ==
    ASSUME StateOK, CompletedKeysSound, [Next]_vars PROVE CompletedKeysSound'
<1>0. /\ row \in [Jobs -> Row] /\ done \in [Workers -> SUBSET Jobs]
      /\ \A j \in Jobs : row[j].status \in Status
  BY DEF StateOK, TypeOK, Row
<1>1. ASSUME NEW j \in Jobs, row[j].status = "SUCCEEDED"
      PROVE  row'[j].status = "SUCCEEDED"
  BY <1>1, FinalStep DEF IsTerminal, Terminal
<1>2. ASSUME \A w \in Workers : done'[w] \subseteq done[w]
      PROVE  CompletedKeysSound'
  BY <1>0, <1>1, <1>2 DEF CompletedKeysSound
<1>3. ASSUME NEW w \in Workers, Persist(w) PROVE CompletedKeysSound'
  <2>. DEFINE j == worker[w].job
  <2>1. j \in Jobs  BY <1>3, WorkerAtWork DEF Persist
  <2>2. CASE done' = done
    BY <1>2, <2>2
  <2>3. CASE /\ done' = [done EXCEPT ![w] = @ \cup {j}]
             /\ ~PersistRejects(j) /\ (IsTerminal(j) \/ row[j].token = w)
    <3>1. row'[j].status = "SUCCEEDED"
      <4>1. row[j].status = "SUCCEEDED" \/ IsActive(j)
        BY <1>0, <2>1, <2>3
        DEF PersistRejects, Provenance, Status, Terminal, IsActive
      <4>2. CASE IsActive(j)
        <5>1. CanStore(w, j)
          BY <2>3, <4>2
          DEF PersistRejects, CanStore, IsActive, IsTerminal, Active, Terminal, Refunded
        <5>2. StoreResult(w, j)  BY <1>3, <5>1 DEF Persist
        <5>3. row[j] \in Row  BY <1>0, <2>1
        <5>. QED BY <1>0, <2>1, <5>2, <5>3, RowOwnerFields DEF StoreResult, Put
      <4>. QED BY <1>1, <2>1, <4>1, <4>2
    <3>. HIDE DEF j
    <3>. QED BY <1>0, <1>1, <2>1, <2>3, <3>1 DEF CompletedKeysSound
  <2>. QED BY <1>3, <2>2, <2>3 DEF Persist
<1>4. ASSUME NEW w \in Workers, WorkerStep(w) \/ WorkerFault(w), ~Persist(w)
      PROVE  \A v \in Workers : done'[v] \subseteq done[v]
  BY <1>0, <1>4
  DEF WorkerStep, WorkerFault, Receive, Claim, ClaimFails, DeadLetterMalformed,
      DeadLetterMalformedFails, CallEngine, PersistFails, MarkFailed,
      MarkFailedFails, PublishRetry, PublishRetryFails, MarkRetrying,
      MarkRetryingFails, DeadLetter, DeadLetterFails, DelayBusy, DelayBusyFails,
      Settle, WorkerCrash
<1>5. ASSUME ApiStep PROVE done' = done
  BY <1>5
  DEF ApiStep, AutoSchedule, EditDraft, PublishSchedule, Reopen, Remove, ChangePlan,
      RequestTenantDeletion
<1>8. ASSUME NEW p \in Sweeps, SweepStep(p) \/ SweepFault(p) PROVE done' = done
  BY <1>8
  DEF SweepStep, SweepFault, SweepClaim, SendConfirmed, SendFailed, MarkPublished,
      MarkPublicationFailed, TerminalizePublication, SweepStops
<1>6. ASSUME (\E j \in Jobs : TimeStep(j)) \/ EnvironmentFault PROVE done' = done
  BY <1>6
  DEF TimeStep, OutboxTimeout, LeaseTimeout, EnvironmentFault, EarlyOutboxTimeout,
      EarlyLeaseTimeout, BecomesDue, LeaseEnds, BrokerLoss
<1>7. UNCHANGED vars => done' = done  BY DEF vars
<1>. QED BY <1>2, <1>3, <1>4, <1>5, <1>6, <1>7, <1>8 DEF Next

\* The lists start empty.
LEMMA KeysInit == Init => CompletedKeysSound
BY DEF Init, CompletedKeysSound

\* A worker that skips a job because it is on its list of completed keys
\* skips a job that did succeed, even when the key was remembered for a job
\* some other worker had already completed.
THEOREM KeysHold == Spec => []CompletedKeysSound
BY KeysInit, KeysStep, StateHolds, PTL DEF Spec

-----------------------------------------------------------------------------
(* The owners of a row: the lease of a worker, the attempt of a sweep. *)

\* The strengthening of LiveLeaseProtects: a worker reaches the engine and
\* the persist only through a claim, so it has its token in hand.
TokenInHand ==
    \A w \in Workers : worker[w].pc \in {"solving", "solved"} => worker[w].holds

\* A worker that goes elsewhere than to the engine or the persist, or that
\* has its token, keeps the strengthening.
LEMMA TokenKept ==
    ASSUME StateOK, TokenInHand, NEW w \in Workers, NEW s,
           worker' = [worker EXCEPT ![w] = s],
           s.pc \in {"solving", "solved"} => s.holds
    PROVE  TokenInHand'
BY DEF StateOK, TypeOK, TokenInHand

\* The fields of a worker that an action writes.
LEMMA WorkerFields ==
    ASSUME NEW r \in WorkerState, NEW pc, NEW h
    PROVE  /\ [r EXCEPT !.pc = pc].pc = pc
           /\ [r EXCEPT !.pc = pc].holds = r.holds
           /\ [r EXCEPT !.pc = pc, !.holds = h].pc = pc
           /\ [r EXCEPT !.pc = pc, !.holds = h].holds = h
BY DEF WorkerState

\* Every step keeps the token in the hands of a worker at the engine.
LEMMA TokenStep ==
    ASSUME StateOK, TokenInHand, [Next]_vars PROVE TokenInHand'
<1>0. /\ worker \in [Workers -> WorkerState]
      /\ \A w \in Workers : worker[w] \in WorkerState
  BY DEF StateOK, TypeOK
<1>g. ASSUME NEW w \in Workers, NEW pc, Goto(w, pc),
             pc \notin {"solving", "solved"} \/ worker[w].holds
      PROVE  TokenInHand'
  <2>. DEFINE s == [worker[w] EXCEPT !.pc = pc]
  <2>1. s.pc = pc /\ s.holds = worker[w].holds
    BY <1>0, WorkerFields
  <2>2. worker' = [worker EXCEPT ![w] = s]  BY <1>g DEF Goto
  <2>. HIDE DEF s
  <2>. QED BY <1>g, <2>1, <2>2, TokenKept
<1>f. ASSUME NEW w \in Workers, NEW pc, NEW h \in BOOLEAN,
             worker' = [worker EXCEPT ![w].pc = pc, ![w].holds = h],
             pc \in {"solving", "solved"} => h
      PROVE  TokenInHand'
  <2>. DEFINE s == [worker[w] EXCEPT !.pc = pc, !.holds = h]
  <2>1. s.pc = pc /\ s.holds = h
    BY <1>0, WorkerFields
  <2>2. worker' = [worker EXCEPT ![w] = s]  BY <1>f
  <2>. HIDE DEF s
  <2>. QED BY <1>f, <2>1, <2>2, TokenKept
<1>i. ASSUME NEW w \in Workers, worker' = [worker EXCEPT ![w] = IdleWorker]
      PROVE  TokenInHand'
  BY <1>i, TokenKept DEF IdleWorker
<1>s. ASSUME worker' = worker PROVE TokenInHand'
  BY <1>s DEF TokenInHand
<1>1. ASSUME NEW w \in Workers, WorkerStep(w) PROVE TokenInHand'
  <2>1. ASSUME NEW j \in Jobs, NEW r \in Retries, Receive(w, j, r)
        PROVE  TokenInHand'
    BY <2>1, TokenKept DEF Receive
  <2>2. CASE Claim(w)
    BY <2>2, <1>g, <1>f DEF Claim
  <2>3. CASE DeadLetterMalformed(w)
    BY <2>3, <1>g, <1>i DEF DeadLetterMalformed, Requeue
  <2>4. CASE CallEngine(w)
    BY <2>4, <1>g DEF CallEngine, TokenInHand
  <2>5. CASE Persist(w)
    BY <2>5, <1>g DEF Persist
  <2>6. CASE MarkFailed(w)
    BY <2>6, <1>g, <1>f DEF MarkFailed, FailWithoutToken
  <2>7. CASE PublishRetry(w) \/ DelayBusy(w)
    BY <2>7, <1>g DEF PublishRetry, DelayBusy
  <2>8. CASE MarkRetrying(w)
    BY <2>8, <1>g DEF MarkRetrying
  <2>9. CASE DeadLetter(w)
    BY <2>9, <1>g, <1>i DEF DeadLetter, Requeue
  <2>10. CASE Settle(w)
    BY <2>10, <1>i DEF Settle
  <2>. QED BY <1>1, <2>1, <2>2, <2>3, <2>4, <2>5, <2>6, <2>7, <2>8, <2>9, <2>10
           DEF WorkerStep
<1>2. ASSUME NEW w \in Workers, WorkerFault(w) PROVE TokenInHand'
  <2>1. ASSUME NEW c \in BOOLEAN, ClaimFails(w, c) \/ MarkFailedFails(w, c)
        PROVE  TokenInHand'
    BY <2>1, <1>f DEF ClaimFails, MarkFailedFails, FailWithoutToken
  <2>2. ASSUME NEW c \in BOOLEAN, PersistFails(w, c) PROVE TokenInHand'
    BY <2>2, <1>g DEF PersistFails
  <2>3. ASSUME NEW c \in BOOLEAN, \/ DeadLetterMalformedFails(w, c)
                                 \/ DeadLetterFails(w, c)
                                 \/ PublishRetryFails(w, c) \/ DelayBusyFails(w, c)
        PROVE  TokenInHand'
    BY <2>3, <1>i DEF DeadLetterMalformedFails, DeadLetterFails, PublishRetryFails,
                      DelayBusyFails, Requeue
  <2>4. CASE MarkRetryingFails(w)
    BY <2>4, <1>g DEF MarkRetryingFails
  <2>5. CASE WorkerCrash(w)
    BY <2>5, <1>i DEF WorkerCrash, Requeue
  <2>. QED BY <1>2, <2>1, <2>2, <2>3, <2>4, <2>5 DEF WorkerFault
<1>3. ASSUME ApiStep PROVE worker' = worker
  BY <1>3
  DEF ApiStep, AutoSchedule, EditDraft, PublishSchedule, Reopen, Remove, ChangePlan,
      RequestTenantDeletion
<1>4. ASSUME NEW p \in Sweeps, SweepStep(p) \/ SweepFault(p) PROVE worker' = worker
  BY <1>4
  DEF SweepStep, SweepFault, SweepClaim, SendConfirmed, SendFailed, MarkPublished,
      MarkPublicationFailed, TerminalizePublication, SweepStops
<1>5. ASSUME (\E j \in Jobs : TimeStep(j)) \/ EnvironmentFault PROVE worker' = worker
  BY <1>5
  DEF TimeStep, OutboxTimeout, LeaseTimeout, EnvironmentFault, EarlyOutboxTimeout,
      EarlyLeaseTimeout, BecomesDue, LeaseEnds, BrokerLoss
<1>6. UNCHANGED vars => worker' = worker  BY DEF vars
<1>. QED BY <1>s, <1>1, <1>2, <1>3, <1>4, <1>5, <1>6 DEF Next

\* No worker is at the engine at the start.
LEMMA TokenInit == Init => TokenInHand
BY DEF Init, TokenInHand, IdleWorker

\* What LiveLeaseProtects says of a step.
LEMMA LeaseStep ==
    ASSUME StateOK, TokenInHand, [Next]_vars, NEW j \in Jobs,
           IsActive(j), LiveLease(j), row'[j].status \in Terminal
    PROVE  \/ plan' # plan
           \/ \E w \in Workers : /\ row[j].token = w
                                 /\ worker[w].job = j
                                 /\ worker[w].holds
                                 /\ worker'[w] # worker[w]
<1>0. /\ row \in [Jobs -> Row] /\ row[j] \in Row
      /\ worker \in [Workers -> WorkerState]
  BY DEF StateOK, TypeOK
<1>1. row'[j].status # row[j].status /\ row'[j].status \notin Active
  BY DEF IsActive, Active, Terminal, Refunded
<1>2. ASSUME NEW w \in Workers, NEW s, NEW k, Terminalize(w, s, k),
             worker[w].job \in Jobs, worker'[w] # worker[w]
      PROVE  \E v \in Workers : /\ row[j].token = v
                               /\ worker[v].job = j
                               /\ worker[v].holds
                               /\ worker'[v] # worker[v]
  BY <1>0, <1>1, <1>2 DEF Terminalize, OwnsRow, Put
<1>m. ASSUME NEW w \in Workers
      PROVE  /\ worker[w] \in WorkerState
             /\ \A pc : Goto(w, pc) => worker'[w].pc = pc
             /\ FailWithoutToken(w) => worker'[w].pc = "failed"
             /\ \A q : Requeue(w, q) => worker'[w].pc = "idle"
  <2>1. worker[w] \in WorkerState  BY <1>0
  <2>. QED BY <1>0, <2>1 DEF Goto, FailWithoutToken, Requeue, IdleWorker, WorkerState
<1>3. ASSUME NEW w \in Workers,
             \/ DeadLetterMalformed(w) \/ MarkFailed(w) \/ DeadLetter(w)
             \/ \E c \in BOOLEAN : \/ DeadLetterMalformedFails(w, c)
                                   \/ MarkFailedFails(w, c) \/ DeadLetterFails(w, c)
      PROVE  \E v \in Workers : /\ row[j].token = v
                               /\ worker[v].job = j
                               /\ worker[v].holds
                               /\ worker'[v] # worker[v]
  <2>1. worker[w].pc # "idle" /\ worker'[w] # worker[w]
    BY <1>3, <1>m
    DEF DeadLetterMalformed, MarkFailed, DeadLetter, DeadLetterMalformedFails,
        MarkFailedFails, DeadLetterFails
  <2>2. worker[w].job \in Jobs  BY <2>1, WorkerAtWork
  <2>3. \E s, k : Terminalize(w, s, k)
    BY <1>1, <1>3
    DEF DeadLetterMalformed, MarkFailed, DeadLetter, DeadLetterMalformedFails,
        MarkFailedFails, DeadLetterFails
  <2>. QED BY <1>2, <2>1, <2>2, <2>3
<1>4. ASSUME NEW w \in Workers, Persist(w) \/ \E c \in BOOLEAN : PersistFails(w, c)
      PROVE  /\ row[j].token = w /\ worker[w].job = j /\ worker[w].holds
             /\ worker'[w] # worker[w]
  <2>1. worker[w].pc = "solved" /\ worker'[w].pc # "solved"
    BY <1>4, <1>m DEF Persist, PersistFails
  <2>2. worker[w].holds /\ worker[w].job \in Jobs
    BY <2>1, WorkerAtWork DEF TokenInHand
  <2>3. /\ CanStore(w, worker[w].job) /\ StoreResult(w, worker[w].job)
    BY <1>1, <1>4 DEF Persist, PersistFails
  <2>4. worker[w].job = j
    BY <1>0, <1>1, <2>2, <2>3 DEF StoreResult, Put
  <2>. QED BY <2>1, <2>2, <2>3, <2>4 DEF CanStore
<1>5. ASSUME NEW w \in Workers,
             \/ \E i \in Jobs, r \in Retries : Receive(w, i, r)
             \/ Claim(w) \/ CallEngine(w) \/ PublishRetry(w) \/ MarkRetrying(w)
             \/ DelayBusy(w) \/ Settle(w)
             \/ \E c \in BOOLEAN : \/ ClaimFails(w, c) \/ PublishRetryFails(w, c)
                                   \/ DelayBusyFails(w, c)
             \/ MarkRetryingFails(w) \/ WorkerCrash(w)
      PROVE  FALSE
  <2>1. CASE Claim(w) \/ \E c \in BOOLEAN : ClaimFails(w, c)
    <3>1. worker[w].pc # "idle" /\ KeepsRows({})
      BY <2>1, ClaimKeeps DEF Claim, ClaimFails
    <3>. QED BY <1>1, <3>1 DEF KeepsRows, IsActive
  <2>2. CASE MarkRetrying(w)
    BY <1>1, <2>2, RetryingKeeps DEF KeepsRows, IsActive
  <2>. QED BY <1>1, <1>5, <2>1, <2>2
       DEF Receive, CallEngine, PublishRetry, DelayBusy, Settle, PublishRetryFails,
           DelayBusyFails, MarkRetryingFails, WorkerCrash
<1>6. ASSUME NEW w \in Workers, WorkerStep(w) \/ WorkerFault(w)
      PROVE  \E v \in Workers : /\ row[j].token = v
                               /\ worker[v].job = j
                               /\ worker[v].holds
                               /\ worker'[v] # worker[v]
  BY <1>3, <1>4, <1>5, <1>6 DEF WorkerStep, WorkerFault
<1>7. ASSUME NEW p \in Sweeps, SweepStep(p) \/ SweepFault(p) PROVE FALSE
  <2>0. sweep[p].pc = "terminalizing" => sweep[p].job \in Jobs
    BY SweepMoves
  <2>1. CASE TerminalizePublication(p)
    BY <1>0, <1>1, <2>0, <2>1 DEF TerminalizePublication, CanTerminalizePublication, Put
  <2>2. KeepsRows({}) => FALSE
    BY <1>1 DEF KeepsRows, IsActive
  <2>3. ASSUME NEW i \in Jobs, SweepClaim(p, i) PROVE FALSE
    BY <1>0, <2>2, <2>3, PutMark DEF SweepClaim
  <2>4. CASE MarkPublished(p)
    <3>1. sweep[p].job \in Jobs  BY <2>4, SweepMoves DEF MarkPublished
    <3>. QED BY <1>0, <2>2, <2>4, <3>1, PutMark, SameRows DEF MarkPublished
  <2>5. ASSUME NEW aged \in BOOLEAN, MarkPublicationFailed(p, aged) PROVE FALSE
    <3>1. sweep[p].job \in Jobs  BY <2>5, SweepMoves DEF MarkPublicationFailed
    <3>. QED BY <1>0, <2>2, <2>5, <3>1, PutMark, SameRows DEF MarkPublicationFailed
  <2>. QED BY <1>7, <2>1, <2>2, <2>3, <2>4, <2>5, SameRows
       DEF SweepStep, SweepFault, SendConfirmed, SendFailed, SweepStops
<1>8. ASSUME ApiStep, plan' = plan PROVE FALSE
  <2>1. CASE RequestTenantDeletion
    BY <1>8, <2>1 DEF RequestTenantDeletion
  <2>2. ASSUME NEW i \in Jobs, AutoSchedule(i) PROVE FALSE
    BY <1>0, <1>1, <2>2 DEF AutoSchedule, Put, IsActive, Active
  <2>. QED BY <1>1, <1>8, <2>1, <2>2
       DEF ApiStep, EditDraft, PublishSchedule, Reopen, Remove, ChangePlan
<1>9. ASSUME (\E i \in Jobs : TimeStep(i)) \/ EnvironmentFault PROVE FALSE
  <2>1. ASSUME NEW i \in Jobs, BecomesDue(i) \/ LeaseEnds(i) PROVE FALSE
    <3>1. KeepsRows({})  BY <1>0, <2>1, PutMark DEF BecomesDue, LeaseEnds
    <3>. QED BY <1>1, <3>1 DEF KeepsRows, IsActive
  <2>. QED BY <1>1, <1>9, <2>1
       DEF TimeStep, OutboxTimeout, LeaseTimeout, EnvironmentFault,
           EarlyOutboxTimeout, EarlyLeaseTimeout, BrokerLoss
<1>10. ~UNCHANGED vars  BY <1>1 DEF vars
<1>. QED BY <1>6, <1>7, <1>8, <1>9, <1>10 DEF Next

\* A lease that has not run out protects the job of its worker: a publisher
\* that has given up, or a worker with a duplicate of the message, cannot end
\* it.
THEOREM LeaseHolds == Spec => LiveLeaseProtects
<1>1. Spec => []TokenInHand
  BY TokenInit, TokenStep, StateHolds, PTL DEF Spec
<1>2. StateOK /\ TokenInHand /\ [Next]_vars =>
        [\A j \in Jobs : IsActive(j) /\ LiveLease(j) /\ row'[j].status \in Terminal =>
          \/ plan' # plan
          \/ \E w \in Workers : /\ row[j].token = w
                                /\ worker[w].job = j
                                /\ worker[w].holds
                                /\ worker'[w] # worker[w]]_vars
  BY LeaseStep
<1>. QED BY <1>1, <1>2, StateHolds, PTL DEF Spec, LiveLeaseProtects

\* What StaleSweepHarmless says of a step.
LEMMA StaleStep ==
    ASSUME StateOK, [Next]_vars, NEW p \in Sweeps,
           sweep[p].pc \in {"confirmed", "failing", "terminalizing"},
           sweep'[p] # sweep[p], sweep[p].attempt # row[sweep[p].job].attempts
    PROVE  row' = row
<1>0. sweep \in [Sweeps -> SweepState]  BY DEF StateOK, TypeOK
<1>1. ASSUME NEW q \in Sweeps, SweepStep(q) \/ SweepFault(q) PROVE row' = row
  <2>1. q = p
    BY <1>0, <1>1
    DEF SweepStep, SweepFault, SweepClaim, SendConfirmed, SendFailed, MarkPublished,
        MarkPublicationFailed, TerminalizePublication, SweepStops
  <2>2. ~SameClaim(p, sweep[p].job)  BY DEF SameClaim
  <2>. QED BY <1>1, <2>1, <2>2
       DEF SweepStep, SweepFault, SweepClaim, SendConfirmed, SendFailed, MarkPublished,
           MarkPublicationFailed, TerminalizePublication, SweepStops,
           CanTerminalizePublication
<1>2. ASSUME NEW w \in Workers, WorkerStep(w) \/ WorkerFault(w) PROVE sweep' = sweep
  BY <1>2
  DEF WorkerStep, WorkerFault, Receive, Claim, ClaimFails, DeadLetterMalformed,
      DeadLetterMalformedFails, CallEngine, Persist, PersistFails, MarkFailed,
      MarkFailedFails, PublishRetry, PublishRetryFails, MarkRetrying,
      MarkRetryingFails, DeadLetter, DeadLetterFails, DelayBusy, DelayBusyFails,
      Settle, WorkerCrash
<1>3. ASSUME ApiStep PROVE sweep' = sweep
  BY <1>3
  DEF ApiStep, AutoSchedule, EditDraft, PublishSchedule, Reopen, Remove, ChangePlan,
      RequestTenantDeletion
<1>4. ASSUME (\E j \in Jobs : TimeStep(j)) \/ EnvironmentFault PROVE sweep' = sweep
  BY <1>4
  DEF TimeStep, OutboxTimeout, LeaseTimeout, EnvironmentFault, EarlyOutboxTimeout,
      EarlyLeaseTimeout, BecomesDue, LeaseEnds, BrokerLoss
<1>5. UNCHANGED vars => sweep' = sweep  BY DEF vars
<1>. QED BY <1>1, <1>2, <1>3, <1>4, <1>5 DEF Next

\* A sweep that was overtaken (its publication lease ran out and another
\* sweep claimed the row) ends without touching the row.
THEOREM StaleSweepsHold == Spec => StaleSweepHarmless
<1>1. StateOK /\ [Next]_vars =>
        [\A p \in Sweeps :
          /\ sweep[p].pc \in {"confirmed", "failing", "terminalizing"}
          /\ sweep'[p] # sweep[p]
          /\ sweep[p].attempt # row[sweep[p].job].attempts
          => row' = row]_vars
  BY StaleStep
<1>. QED BY <1>1, StateHolds, PTL DEF Spec, StaleSweepHarmless

-----------------------------------------------------------------------------
(* The promise to a paying tenant. *)

\* What the customer sees of the jobs.
Phases == [j \in Jobs |-> Phase(row[j])]

\* The invariants the step simulation needs.
Simulation == StateOK /\ PaidProvenance /\ SnapshotOK /\ ActiveJobOwnsDraft

\* The phases are the groups of statuses.
LEMMA PhaseValues ==
    ASSUME NEW r
    PROVE  /\ r.status \in Active => Phase(r) = "open"
           /\ r.status = "SUCCEEDED" => Phase(r) = "delivered"
           /\ r.status \in Refunded => Phase(r) = "refunded"
           /\ r.status = "NONE" => Phase(r) = "none"
           /\ r.status \notin Active \cup Refunded \cup {"SUCCEEDED"} =>
                Phase(r) = "none"
BY DEF Phase, Active, Refunded

\* Rows of the same group of statuses are in the same phase.
LEMMA PhaseOfStatus ==
    ASSUME NEW r, NEW s,
           r.status = s.status \/ (r.status \in Active /\ s.status \in Active)
    PROVE  Phase(r) = Phase(s)
<1>1. CASE r.status \in Active /\ s.status \in Active
  BY <1>1, PhaseValues
<1>2. CASE r.status = s.status /\ s.status = "SUCCEEDED"
  BY <1>2, PhaseValues
<1>3. CASE r.status = s.status /\ s.status \in Refunded
  BY <1>3, PhaseValues
<1>4. CASE /\ r.status = s.status
           /\ s.status \notin Active \cup Refunded \cup {"SUCCEEDED"}
  BY <1>4, PhaseValues
<1>. QED BY <1>1, <1>2, <1>3, <1>4

\* Conversely, only an active job is open.
LEMMA OpenPhase ==
    ASSUME row \in [Jobs -> Row]
    PROVE  /\ \A j \in Jobs : Phase(row[j]) = "open" <=> IsActive(j)
           /\ Promise!Open = ActiveJobs
<1>1. \A j \in Jobs : Phase(row[j]) = "open" <=> IsActive(j)
  <2>1. ASSUME NEW j \in Jobs
        PROVE  row[j].status \in Active \cup Terminal \cup {"NONE"}
    BY DEF Row, Status
  <2>. QED BY <2>1, PhaseValues DEF IsActive, Terminal
<1>. QED BY <1>1 DEF Promise!Open, ActiveJobs

\* The phases after a step that moves no job between the groups.
LEMMA SamePhases ==
    ASSUME KeepsRows({})
    PROVE  Phases' = Phases
<1>1. \A j \in Jobs : Phase(row'[j]) = Phase(row[j])
  BY PhaseOfStatus DEF KeepsRows
<1>. QED BY <1>1 DEF Phases

\* The phases after a step that moves the job j only.
LEMMA OnePhase ==
    ASSUME NEW j \in Jobs, NEW ph, Phase(row'[j]) = ph,
           \A i \in Jobs \ {j} : Phase(row'[i]) = Phase(row[i])
    PROVE  Phases' = [Phases EXCEPT ![j] = ph]
BY DEF Phases

\* The initial states are those of the service.
LEMMA PromiseInit == Init => Promise!PInit
<1>. SUFFICES ASSUME Init PROVE Promise!PInit
  OBVIOUS
<1>1. \A j \in Jobs : Phase(row[j]) = "none"
  BY DEF Init, NoRow, Phase, Active, Refunded
<1>. QED BY <1>1 DEF Init, Promise!PInit

\* Every step of the pipeline is one of the service, or invisible.
LEMMA PromiseStep ==
    ASSUME Simulation, [Next]_vars
    PROVE  [Promise!PNext]_(Promise!pvars)
<1>0. /\ Effect /\ row \in [Jobs -> Row] /\ credits \in Nat
      /\ basis \in [Jobs -> Nat] /\ writes \in Nat
  BY StepEffect DEF Simulation, StateOK, TypeOK
<1>o. /\ Promise!Open = ActiveJobs
      /\ \A j \in Jobs : Phase(row[j]) = "open" <=> IsActive(j)
  BY <1>0, OpenPhase
<1>1. CASE Quiet
  BY <1>1, SamePhases DEF Quiet, Promise!pvars, Phases, historyVars
<1>2. CASE EditDraft
  BY <1>2 DEF EditDraft, Promise!PNext, Promise!Edit
<1>3. ASSUME NEW j \in Jobs, AutoSchedule(j) PROVE Promise!Buy(j)
  <2>1. row'[j].status = "QUEUED" /\ \A i \in Jobs \ {j} : row'[i] = row[i]
    BY <1>0, <1>3 DEF AutoSchedule, Put, NoRow
  <2>2. Phase(row'[j]) = "open"
    BY <2>1, PhaseValues DEF Active
  <2>3. Phases' = [Phases EXCEPT ![j] = "open"]
    BY <2>1, <2>2, OnePhase
  <2>4. Phase(row[j]) = "none"
    BY <1>3, PhaseValues DEF AutoSchedule
  <2>. QED BY <1>o, <1>3, <2>3, <2>4 DEF AutoSchedule, Promise!Buy, Phases
<1>4. ASSUME NEW k \in PublishKeys, PublishSchedule(k)
      PROVE  Promise!SellPublication(k)
  BY <1>o, <1>4 DEF PublishSchedule, Promise!SellPublication
<1>5. ASSUME NEW S \in SUBSET Jobs, Refunds(S)
      PROVE  (\E j \in Jobs : Promise!Refund(j)) \/ UNCHANGED Promise!pvars
  <2>1. CASE S = {}
    <3>1. SolveCost * Cardinality({} \ refunds) = 0 /\ refunds' = refunds
      <4>1. {} \ refunds = {}  OBVIOUS
      <4>2. Cardinality({}) = 0  BY FS_EmptySet
      <4>. QED BY <1>5, <2>1, <4>1, <4>2, CostAssumption
               DEF Refunds, SettleRefunds
    <3>2. credits' = credits
      BY <1>0, <1>5, <2>1, <3>1 DEF Refunds, SettleRefunds
    <3>. QED BY <1>5, <2>1, <3>2, SamePhases
             DEF Refunds, Promise!pvars, Phases, historyVars
  <2>2. CASE S # {}
    <3>1. PICK j \in S : TRUE  BY <2>2
    <3>2. j \in Jobs /\ IsActive(j) /\ S = {j}
      BY <1>5, <3>1 DEF Refunds, Simulation, ActiveJobOwnsDraft, ActiveJobs
    <3>3. j \notin refunds
      BY <3>2 DEF Simulation, PaidProvenance, IsActive, Active, Refunded
    <3>4. credits' = credits + SolveCost
      <4>1. S \ refunds = {j}  BY <3>2, <3>3
      <4>2. Cardinality({j}) = 1  BY FS_Singleton
      <4>3. credits' = credits + SolveCost * Cardinality({j})
        BY <1>5, <4>1 DEF Refunds, SettleRefunds
      <4>. QED BY <4>2, <4>3, CostAssumption
    <3>5. Phases' = [Phases EXCEPT ![j] = "refunded"]
      <4>1. Phase(row'[j]) = "refunded"
        BY <1>5, <3>1, PhaseValues DEF Refunds
      <4>2. \A i \in Jobs \ {j} : Phase(row'[i]) = Phase(row[i])
        BY <1>5, <3>2, PhaseOfStatus DEF Refunds, KeepsRows
      <4>. QED BY <3>2, <4>1, <4>2, OnePhase
    <3>6. Promise!Refund(j)
      BY <1>o, <1>5, <3>2, <3>4, <3>5
      DEF Refunds, Promise!Refund, Phases, historyVars
    <3>. QED BY <3>2, <3>6
  <2>. QED BY <2>1, <2>2
<1>6. ASSUME NEW w \in Workers, NEW j \in Jobs, Delivers(w, j)
      PROVE  Promise!Deliver(j)
  <2>0. row[j] \in Row  BY <1>0
  <2>1. row'[j].status = "SUCCEEDED" /\ \A i \in Jobs \ {j} : row'[i] = row[i]
    BY <1>0, <1>6, <2>0, RowOwnerFields DEF Delivers, StoreResult, Put
  <2>2. Phases' = [Phases EXCEPT ![j] = "delivered"]
    <3>1. Phase(row'[j]) = "delivered"
      BY <2>1, PhaseValues
    <3>. QED BY <2>1, <3>1, OnePhase
  <2>3. IsActive(j) /\ row[j].draftRevision = schedule.revision
    BY <1>6 DEF Delivers, CanStore, DraftUnchanged
  <2>4. basis[j] = writes
    BY <2>3 DEF Simulation, SnapshotOK, IsActive, Active
  <2>. QED BY <1>o, <1>6, <2>2, <2>3, <2>4
           DEF Delivers, StoreResult, Promise!Deliver, Phases
<1>. QED BY <1>0, <1>1, <1>2, <1>3, <1>4, <1>5, <1>6
         DEF Effect, Promise!PNext, Promise!Ends

\* The pipeline, with its queues, leases, retries and crashes, implements
\* the service a customer pays for: every solve is bought at its price, one
\* at a time, and ends at most once, delivered into the draft it was
\* computed from or paid back.
THEOREM PromiseKept == Spec => KeepsPromise
<1>1. Spec => []Simulation
  <2>1. Spec => [](SnapshotOK /\ NoLostEdit)
    BY EditInit, EditStep, StateHolds, PTL DEF Spec
  <2>. QED BY <2>1, StateHolds, ProvenanceHolds, DraftOwned, PTL DEF Simulation
<1>. QED BY <1>1, PromiseInit, PromiseStep, PTL
         DEF Spec, KeepsPromise, Promise!PSpec
=============================================================================
