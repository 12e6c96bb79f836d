--------------------------- MODULE UsageMetering ---------------------------
(***************************************************************************)
(* Metered usage.  For every period a snapshot of the active staff becomes  *)
(* a usage event, which the workers of the billing loop claim, report to    *)
(* the Stripe meter and settle.  Stripe answers a report at once and may    *)
(* reject it later: an error report, delivered to the API until it is       *)
(* acknowledged, names the rejected submissions, or only how many they      *)
(* were.  The API then gives the event a new transport identity, because    *)
(* Stripe remembers the old one, and has it sent again.                     *)
(*   worker/src/billing_usage.py, api/src/billing/stripe-meter-error.service *)
(***************************************************************************)
EXTENDS Naturals, FiniteSets

CONSTANTS
    Workers,      \* workers that dispatch usage
    Reports,      \* error reports Stripe may make
    None,
    NumPeriods,   \* periods the model runs through
    MaxStaff,
    MaxAttempts,  \* STRIPE_USAGE_MAX_ATTEMPTS
    MaxReplays,   \* STRIPE_USAGE_DEAD_LETTER_MAX_REPLAYS
    MaxFaults,    \* crashes, lost answers and refused requests
    Incomplete    \* whether Stripe may leave rejected submissions unnamed

Periods == 1 .. NumPeriods

\* How often the events can be claimed, replays included
MaxClaims == NumPeriods * MaxAttempts * (MaxReplays + 1)

UsageAssumption ==
    /\ NumPeriods \in Nat \ {0} /\ MaxAttempts \in Nat \ {0}
    /\ MaxStaff \in Nat /\ MaxReplays \in Nat /\ MaxFaults \in Nat
    /\ Incomplete \in BOOLEAN
    /\ None \notin Reports

VARIABLES
    now,       \* the current period
    staff,     \* active staff of the tenant
    row,       \* StripeUsageEvent of a period
    worker,    \* what a worker has claimed
    accepted,  \* submissions Stripe answered with success
    rejected,  \* the ones of them it rejected afterwards
    report,    \* error reports of Stripe
    handler,   \* the request that handles a report
    faults

usageVars == <<now, staff, row, worker, accepted, rejected, report, handler, faults>>

NoRow == [status |-> "none", quantity |-> 0, ident |-> 0, attempts |-> 0, submitted |-> 0,
          due |-> TRUE, aged |-> FALSE, replays |-> 0, event |-> None]

Idle == [stage |-> "idle", period |-> 0, attempts |-> 0, quantity |-> 0, ident |-> 0]

NoReport == [state |-> "none", subs |-> {}, samples |-> {}, retryable |-> FALSE, end |-> 0]

NoRequest == [stage |-> "idle", before |-> {}, todo |-> {}, seen |-> {}, accounted |-> {}]

-----------------------------------------------------------------------------
(* The billing loop of the workers. *)

PreparedAlways ==
    IF row[now].status = "none"
        THEN [row EXCEPT ![now] = [NoRow EXCEPT !.status = "PENDING", !.quantity = staff]]
        ELSE [row EXCEPT ![now].quantity = staff]

\* The snapshot of the current period: the quantity is taken again until the
\* event is claimed for the first time, and never after.
Prepared ==
    IF row[now].status = "none"
        THEN [row EXCEPT ![now] = [NoRow EXCEPT !.status = "PENDING", !.quantity = staff]]
    ELSE IF /\ row[now].status = "PENDING" /\ row[now].attempts = 0
            /\ row[now].submitted = 0
        THEN [row EXCEPT ![now].quantity = staff]
    ELSE row

\* An event that a worker may take: it waits and is due, or its sender's lease
\* has run out.
Claimable(rows) ==
    {p \in Periods :
        /\ rows[p].attempts < MaxAttempts
        /\ \/ rows[p].status \in {"PENDING", "FAILED"} /\ rows[p].due
           \/ rows[p].status = "SENDING" /\ rows[p].aged}

\* submittedAt of the latest claim; only the order of the instants matters.
Latest(rows) == CHOOSE n \in 0 .. MaxClaims :
                    /\ \A p \in Periods : rows[p].submitted =< n
                    /\ n = 0 \/ \E p \in Periods : rows[p].submitted = n

Claimed(w, rows, p) ==
    /\ row' = [rows EXCEPT ![p] =
                  [@ EXCEPT !.status = "SENDING", !.attempts = rows[p].attempts + 1,
                            !.submitted = Latest(rows) + 1, !.due = FALSE, !.aged = FALSE]]
    /\ worker' = [worker EXCEPT ![w] =
                    [stage |-> "send", period |-> p, attempts |-> rows[p].attempts + 1,
                     quantity |-> rows[p].quantity, ident |-> rows[p].ident]]

\* dispatch_usage for the tenant, from the loop or from a message: prepares
\* the snapshot and claims the next event in one transaction.
Dispatch(w) ==
    /\ worker[w] = Idle
    /\ \/ \E p \in Claimable(Prepared) : Claimed(w, Prepared, p)
       \/ /\ Claimable(Prepared) = {} /\ Prepared # row
          /\ row' = Prepared
          /\ UNCHANGED worker
    /\ UNCHANGED <<now, staff, accepted, rejected, report, handler, faults>>

\* A message that names the event: no snapshot is taken.
DispatchNamed(w) ==
    /\ worker[w] = Idle
    /\ \E p \in Claimable(row) : Claimed(w, row, p)
    /\ UNCHANGED <<now, staff, accepted, rejected, report, handler, faults>>

Submission(w) ==
    [period |-> worker[w].period, ident |-> worker[w].ident, quantity |-> worker[w].quantity]

\* Stripe keeps one submission of an identifier and answers the next ones from
\* memory.
Accept(s) ==
    accepted' = IF \E t \in accepted : t.period = s.period /\ t.ident = s.ident
                THEN accepted ELSE accepted \cup {s}

\* StripeMeterClient.send: the answer arrives, or it is lost, or the request
\* is refused, for now or for good.
Send(w) ==
    /\ worker[w].stage = "send"
    /\ \/ /\ Accept(Submission(w))
          /\ worker' = [worker EXCEPT ![w].stage = "sent"]
          /\ UNCHANGED faults
       \/ /\ faults < MaxFaults /\ faults' = faults + 1
          /\ Accept(Submission(w)) \/ UNCHANGED accepted
          /\ worker' = [worker EXCEPT ![w].stage = "failed"]
       \/ /\ faults < MaxFaults /\ faults' = faults + 1
          /\ worker' = [worker EXCEPT ![w].stage = "refused"]
          /\ UNCHANGED accepted
    /\ UNCHANGED <<now, staff, row, rejected, report, handler>>

\* The claim is still this worker's: the same attempt is being sent.
Owns(w) ==
    LET r == row[worker[w].period]
    IN r.status = "SENDING" /\ r.attempts = worker[w].attempts

MarkSent(w) ==
    /\ worker[w].stage = "sent"
    /\ row' = IF Owns(w) THEN [row EXCEPT ![worker[w].period].status = "SENT"] ELSE row
    /\ worker' = [worker EXCEPT ![w] = Idle]
    /\ UNCHANGED <<now, staff, accepted, rejected, report, handler, faults>>

\* mark_failed: a refusal for good and the last attempt end in dead letter.
MarkFailed(w) ==
    /\ worker[w].stage \in {"failed", "refused"}
    /\ LET dead == worker[w].stage = "refused" \/ worker[w].attempts >= MaxAttempts
       IN row' = IF Owns(w)
                 THEN [row EXCEPT ![worker[w].period].status =
                                      IF dead THEN "DEAD_LETTERED" ELSE "FAILED",
                                  ![worker[w].period].due = FALSE,
                                  ![worker[w].period].aged = FALSE]
                 ELSE row
    /\ worker' = [worker EXCEPT ![w] = Idle]
    /\ UNCHANGED <<now, staff, accepted, rejected, report, handler, faults>>

\* The process ends, or the transaction that settles the event fails.
WorkerCrash(w) ==
    /\ worker[w] # Idle
    /\ faults < MaxFaults /\ faults' = faults + 1
    /\ worker' = [worker EXCEPT ![w] = Idle]
    /\ UNCHANGED <<now, staff, row, accepted, rejected, report, handler>>

\* terminalize_expired_final_attempts: nobody knows what became of these.
Terminalize ==
    LET expired == {p \in Periods : /\ row[p].status = "SENDING" /\ row[p].aged
                                    /\ row[p].attempts >= MaxAttempts}
    IN /\ expired # {}
       /\ row' = [p \in Periods |->
                    IF p \in expired
                    THEN [row[p] EXCEPT !.status = "DEAD_LETTERED", !.aged = FALSE]
                    ELSE row[p]]
       /\ UNCHANGED <<now, staff, worker, accepted, rejected, report, handler, faults>>

\* requeue_dead_lettered, when the operator enables it: old dead letters start
\* again under a new transport identity.
Requeued(r) ==
    [r EXCEPT !.status = "FAILED", !.attempts = 0, !.ident = @ + 1, !.due = TRUE,
              !.aged = FALSE, !.replays = @ + 1]

RequeueDeadLettered ==
    LET replayable == {p \in Periods : /\ row[p].status = "DEAD_LETTERED" /\ row[p].aged
                                       /\ row[p].replays < MaxReplays}
    IN /\ replayable # {}
       /\ row' = [p \in Periods |-> IF p \in replayable THEN Requeued(row[p]) ELSE row[p]]
       /\ UNCHANGED <<now, staff, worker, accepted, rejected, report, handler, faults>>

-----------------------------------------------------------------------------
(* Time and staff. *)

\* A back-off ends; a lease runs out, also under a slow sender; a dead letter
\* reaches the age for a replay, which is longer than any request takes.
TimePasses(p) ==
    /\ \/ /\ row[p].status \in {"PENDING", "FAILED"} /\ ~row[p].due
          /\ row' = [row EXCEPT ![p].due = TRUE]
       \/ /\ row[p].status = "SENDING" /\ ~row[p].aged
          /\ row' = [row EXCEPT ![p].aged = TRUE]
       \/ /\ row[p].status = "DEAD_LETTERED" /\ ~row[p].aged
          /\ \A w \in Workers : worker[w].period # p
          /\ row' = [row EXCEPT ![p].aged = TRUE]
    /\ UNCHANGED <<now, staff, worker, accepted, rejected, report, handler, faults>>

NextPeriod ==
    /\ now < NumPeriods
    /\ now' = now + 1
    /\ UNCHANGED <<staff, row, worker, accepted, rejected, report, handler, faults>>

StaffChanges ==
    /\ staff' \in 0 .. MaxStaff \ {staff}
    /\ UNCHANGED <<now, row, worker, accepted, rejected, report, handler, faults>>

-----------------------------------------------------------------------------
(* Stripe rejects submissions, the API reconciles. *)

Key(s) == <<s.period, s.ident>>

\* One report for some submissions that were accepted; whatever was submitted
\* before it falls into its validation window.
Reject(e) ==
    /\ report[e] = NoReport
    /\ \E S \in SUBSET (accepted \ rejected), retryable \in BOOLEAN :
          \E named \in IF Incomplete THEN SUBSET S ELSE {S} :
             /\ S # {}
             /\ rejected' = rejected \cup S
             /\ report' = [report EXCEPT ![e] =
                    [state |-> "sent", subs |-> S, samples |-> {Key(s) : s \in named},
                     retryable |-> retryable, end |-> Latest(row)]]
    /\ UNCHANGED <<now, staff, row, worker, accepted, handler, faults>>

Count(e) == Cardinality(report[e].subs)

Handled(e) == {p \in Periods : row[p].event = e}

\* handleWebhook: an event whose rows carry it already is acknowledged.
Receive(e) ==
    /\ report[e].state = "sent" /\ handler[e] = NoRequest
    /\ IF Cardinality(Handled(e)) >= Count(e)
       THEN /\ report' = [report EXCEPT ![e].state = "answered"]
            /\ UNCHANGED handler
       ELSE /\ handler' = [handler EXCEPT ![e] =
                  [stage |-> "samples", before |-> Handled(e), todo |-> report[e].samples,
                   seen |-> {}, accounted |-> {}]]
            /\ UNCHANGED report
    /\ UNCHANGED <<now, staff, row, worker, accepted, rejected, faults>>

\* What transitionUsageEvent compares: an event that moved on is left alone.
Seen(p) ==
    [period |-> p, status |-> row[p].status, ident |-> row[p].ident,
     submitted |-> row[p].submitted, attempts |-> row[p].attempts]

\* reconcileSample: finds the event by the identity that was rejected; an
\* event that is already on its way to be repeated needs nothing.
FindSample(e) ==
    /\ handler[e].stage = "samples"
    /\ \E k \in handler[e].todo :
         LET p == k[1]
             found == row[p].ident = k[2]
             open == row[p].status \in {"SENT", "SENDING", "FAILED"}
         IN handler' = [handler EXCEPT
                ![e].todo = @ \ {k},
                ![e].accounted = IF found /\ ~open THEN @ \cup {p} ELSE @,
                ![e].seen = IF found /\ open THEN {Seen(p)} ELSE {},
                ![e].stage = IF found /\ open THEN "sample" ELSE "samples"]
    /\ UNCHANGED <<now, staff, row, worker, accepted, rejected, report, faults>>

\* transitionUsageEvent: the event gets a new identity and is sent again while
\* attempts are left.
Rotated(r, e, retryable) ==
    [r EXCEPT !.status = IF retryable /\ r.attempts < MaxAttempts THEN "FAILED"
                         ELSE "DEAD_LETTERED",
              !.ident = @ + 1, !.due = FALSE, !.aged = FALSE, !.event = e]

\* One row is changed in a transaction of its own, in the order of their
\* submission; a row that moved on fails the request.  An unnamed submission
\* may always be repeated.
Transition(e) ==
    /\ handler[e].stage \in {"sample", "candidates"}
    /\ \E s \in handler[e].seen :
         /\ \A t \in handler[e].seen : s.submitted =< t.submitted
         /\ IF Seen(s.period) = s
            THEN /\ row' = [row EXCEPT ![s.period] =
                       Rotated(@, e, handler[e].stage = "candidates" \/ report[e].retryable)]
                 /\ handler' = [handler EXCEPT
                       ![e].seen = @ \ {s}, ![e].accounted = @ \cup {s.period},
                       ![e].stage = IF @ = "sample" THEN "samples" ELSE @]
            ELSE /\ handler' = [handler EXCEPT ![e] = NoRequest]
                 /\ UNCHANGED row
    /\ UNCHANGED <<now, staff, worker, accepted, rejected, report, faults>>

\* Unnamed submissions remain: every event submitted in the window is taken
\* for one, when there are enough of them.
FindCandidates(e) ==
    LET accounted == handler[e].accounted \cup handler[e].before
        candidates == {p \in Periods \ accounted :
                          /\ row[p].status \in {"SENT", "SENDING", "FAILED"}
                          /\ row[p].submitted \in 1 .. report[e].end}
    IN /\ handler[e].stage = "samples" /\ handler[e].todo = {}
       /\ Cardinality(report[e].samples) < Count(e)
       /\ Cardinality(accounted) < Count(e)
       /\ handler' = [handler EXCEPT ![e] =
             IF Cardinality(accounted) + Cardinality(candidates) >= Count(e)
             THEN [@ EXCEPT !.stage = "candidates", !.accounted = accounted,
                            !.seen = {Seen(p) : p \in candidates}]
             ELSE NoRequest]
       /\ UNCHANGED <<now, staff, row, worker, accepted, rejected, report, faults>>

\* Everything is accounted for: Stripe is told so.  Otherwise the request
\* fails and Stripe delivers the report again.
Conclude(e) ==
    LET all == IF Cardinality(report[e].samples) < Count(e)
               THEN handler[e].accounted \cup handler[e].before ELSE handler[e].accounted
        done == Cardinality(all) >= Count(e)
    IN /\ \/ handler[e].stage = "candidates" /\ handler[e].seen = {}
          \/ /\ handler[e].stage = "samples" /\ handler[e].todo = {}
             /\ done \/ Cardinality(report[e].samples) = Count(e)
       /\ report' = IF done THEN [report EXCEPT ![e].state = "answered"] ELSE report
       /\ handler' = [handler EXCEPT ![e] = NoRequest]
       /\ UNCHANGED <<now, staff, row, worker, accepted, rejected, faults>>

\* The API process ends between two of the transactions.
RequestCrash(e) ==
    /\ handler[e] # NoRequest
    /\ faults < MaxFaults /\ faults' = faults + 1
    /\ handler' = [handler EXCEPT ![e] = NoRequest]
    /\ UNCHANGED <<now, staff, row, worker, accepted, rejected, report>>

-----------------------------------------------------------------------------
Init ==
    /\ now = 1
    /\ staff = 0
    /\ row = [p \in Periods |-> NoRow]
    /\ worker = [w \in Workers |-> Idle]
    /\ accepted = {}
    /\ rejected = {}
    /\ report = [e \in Reports |-> NoReport]
    /\ handler = [e \in Reports |-> NoRequest]
    /\ faults = 0

Next ==
    \/ \E w \in Workers :
          \/ Dispatch(w) \/ DispatchNamed(w) \/ Send(w)
          \/ MarkSent(w) \/ MarkFailed(w) \/ WorkerCrash(w)
    \/ Terminalize
    \/ RequeueDeadLettered
    \/ \E p \in Periods : TimePasses(p)
    \/ NextPeriod
    \/ StaffChanges
    \/ \E e \in Reports :
          \/ Reject(e) \/ Receive(e) \/ FindSample(e) \/ Transition(e)
          \/ FindCandidates(e) \/ Conclude(e) \/ RequestCrash(e)

Spec == Init /\ [][Next]_usageVars

SomethingRecorded == \E p \in Periods : row[p].status # "none"

\* Workers sweep every minute, requests come to an end and time passes.
Fairness ==
    /\ \A w \in Workers :
          WF_usageVars(Dispatch(w) /\ SomethingRecorded) /\ WF_usageVars(Send(w))
          /\ WF_usageVars(MarkSent(w)) /\ WF_usageVars(MarkFailed(w))
    /\ WF_usageVars(Terminalize)
    /\ \A p \in Periods : WF_usageVars(TimePasses(p))

FairSpec == Spec /\ Fairness

-----------------------------------------------------------------------------
(* Properties. *)

TypeOK ==
    /\ now \in Periods /\ staff \in 0 .. MaxStaff /\ faults \in 0 .. MaxFaults
    /\ \A p \in Periods :
          /\ row[p].status \in {"none", "PENDING", "SENDING", "FAILED", "SENT", "DEAD_LETTERED"}
          /\ row[p].attempts \in 0 .. MaxAttempts /\ row[p].replays \in 0 .. MaxReplays
          /\ row[p].quantity \in 0 .. MaxStaff /\ row[p].event \in Reports \cup {None}
    /\ \A w \in Workers :
          worker[w].stage \in {"idle", "send", "sent", "failed", "refused"}
    /\ \A e \in Reports :
          /\ report[e].state \in {"none", "sent", "answered"}
          /\ handler[e].stage \in {"idle", "samples", "sample", "candidates"}

\* The usage of a period is reported with one value: whatever was submitted
\* for it, by whichever attempt or replay, is the quantity its event holds.
OneValuePerPeriod ==
    \A s \in accepted : s.quantity = row[s.period].quantity

\* An event that counts as sent was counted: Stripe accepted a submission for
\* its period and has not rejected it, or has yet to be told that this was
\* noticed.
SentIsCounted ==
    \A p \in Periods : row[p].status = "SENT" =>
        \E s \in accepted :
            /\ s.period = p
            /\ \/ s \notin rejected
               \/ \E e \in Reports : s \in report[e].subs /\ report[e].state = "sent"

\* An event that was rejected is not sent again under the identity that
\* Stripe already knows, which would answer without counting it.
RepeatedAnew ==
    \A p \in Periods : row[p].status \in {"FAILED", "SENDING"} =>
        \A s \in rejected : (s.period = p /\ s.ident = row[p].ident) =>
            \E e \in Reports : s \in report[e].subs /\ report[e].state = "sent"

\* Every snapshot is reported or given up in the end.
EveryUsageEnds ==
    \A p \in Periods :
        row[p].status \in {"PENDING", "SENDING", "FAILED"}
            ~> row[p].status \in {"SENT", "DEAD_LETTERED"}
=============================================================================
