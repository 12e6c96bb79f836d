---------------------------- MODULE WebhookDelivery ----------------------------
(***************************************************************************)
(* Paid outgoing webhooks (apps/api/src/webhooks).  An event writes one    *)
(* WebhookDelivery row and one credit debit for every active endpoint, in  *)
(* the transaction that made the event.  A replay worker takes delivery    *)
(* ids from RabbitMQ, claims the row as SENDING, sends the request, and    *)
(* records the answer; a recovery sweep republishes rows that nobody owns. *)
(* A delivery that cannot be made is dead-lettered and refunded.           *)
(*                                                                         *)
(* A transaction is one step.  row[d].due is nextAttemptAt, and            *)
(* row[d].aged says that updatedAt of a SENDING row is older than the      *)
(* replay lease, or queuedAt of a confirmed row than the recovery age.     *)
(***************************************************************************)
EXTENDS Integers, FiniteSets

CONSTANTS
    Endpoints,     \* webhook endpoints of the tenant; the one event of the
                   \* model makes one delivery for each active endpoint
    Handlers,      \* messages the replay worker handles at the same time
    Sweeps,        \* recovery sweeps, one per worker process
    NoDelivery,    \* "no delivery" in an idle handler or sweep
    MaxAttempts,   \* WEBHOOK_RETRY_MAX_ATTEMPTS
    Cost,          \* FEATURE_CREDIT_COST.webhooks
    InitialCredits,
    MaxFaults,     \* bound: lost calls, crashes and early time-outs
    MaxSwitches    \* bound: changes of plan and of endpoints by people

WebhookAssumption ==
    /\ IsFiniteSet(Endpoints)
    /\ NoDelivery \notin Endpoints
    /\ MaxAttempts \in Nat \ {0}
    /\ Cost \in Nat \ {0}
    /\ InitialCredits \in Nat
    /\ MaxFaults \in Nat
    /\ MaxSwitches \in Nat

VARIABLES
    plan,       \* Tenant: PAID, PAUSED (past due, suspended...) or CLOSED
    active,     \* WebhookEndpoint.active
    credits,    \* Tenant.usageCredits
    debits,     \* ledger rows feature-usage-webhook-delivery:<id>
    refunds,    \* ledger rows feature-refund-webhook-delivery:<id>
    row,        \* WebhookDelivery rows; a delivery is named by its endpoint
    queue,      \* retry and delay queues: a bag of delivery ids
    handler,    \* what handleReplayMessage is doing for each message
    sweep,      \* what each recovery sweep is doing
    faults,
    switches,
    sends,      \* history: requests sent for the delivery
    accepted    \* history: attempts whose request the receiver accepted

whVars == <<plan, active, credits, debits, refunds, row, queue, handler, sweep,
          faults, switches, sends, accepted>>
moneyVars == <<credits, debits, refunds>>
historyVars == <<sends, accepted>>
bounds == <<faults, switches>>

-----------------------------------------------------------------------------
Replayable == {"PENDING", "QUEUED", "FAILED"}
Open == Replayable \cup {"SENDING"}
Ended == {"DELIVERED", "DEAD_LETTERED"}

Row == [status : Open \cup Ended \cup {"NONE"}, attempts : 0 .. MaxAttempts,
        due : {"null", "now", "later"}, aged : BOOLEAN]
NoRow == [status |-> "NONE", attempts |-> 0, due |-> "null", aged |-> FALSE]

HandlerPC == {"idle", "received", "claimed", "sending", "sent", "failing",
              "failed", "paused", "deferred", "republished"}
Handler == [pc : HandlerPC, d : Endpoints \cup {NoDelivery},
            attempt : 0 .. MaxAttempts]
IdleHandler == [pc |-> "idle", d |-> NoDelivery, attempt |-> 0]

\* The rows a sweep claimed and still has to publish, and the one it has
\* published and not yet recorded.
Sweep == [todo : SUBSET Endpoints, sent : Endpoints \cup {NoDelivery}]
IdleSweep == [todo |-> {}, sent |-> NoDelivery]

Put(d, r) == row' = [row EXCEPT ![d] = r]
Goto(h, pc) == handler' = [handler EXCEPT ![h].pc = pc]
Enqueue(d) == queue' = [queue EXCEPT ![d] = @ + 1]

Fault == /\ faults < MaxFaults
         /\ faults' = faults + 1
         /\ UNCHANGED switches

\* ack, and nack without requeue (which moves the message to the
\* dead-letter queue that nobody consumes).
Ack(h) == handler' = [handler EXCEPT ![h] = IdleHandler]

\* nack with requeue.
Nack(h) == Ack(h) /\ Enqueue(handler[h].d)

\* hasExactPaidDeliveryAuthority: a tenant with a current paid plan, and the
\* exact debit.
PaidAuthority(d) == plan = "PAID" /\ d \in debits

-----------------------------------------------------------------------------
(* The API. *)

\* enqueueEventInTransaction: every delivery is debited, or the whole
\* transaction fails and the event does not happen.
EnqueueEvent ==
    LET D == {e \in Endpoints : active[e]}
    IN  /\ plan = "PAID"
        /\ D # {}
        /\ \A e \in Endpoints : row[e].status = "NONE"
        /\ credits >= Cost * Cardinality(D)
        /\ credits' = credits - Cost * Cardinality(D)
        /\ debits' = D
        /\ row' = [e \in Endpoints |->
             IF e \in D THEN [NoRow EXCEPT !.status = "PENDING", !.due = "now"]
                        ELSE row[e]]
        /\ UNCHANGED <<plan, active, refunds, queue, handler, sweep, bounds, historyVars>>

Switch == /\ switches < MaxSwitches
          /\ switches' = switches + 1
          /\ UNCHANGED <<moneyVars, row, queue, handler, sweep, faults, historyVars>>

\* update and deactivate of the endpoints controller, which ask for the
\* webhook entitlement.
SetEndpointActive(e, on) ==
    /\ plan = "PAID"
    /\ active[e] # on
    /\ active' = [active EXCEPT ![e] = on]
    /\ Switch
    /\ UNCHANGED plan

\* The subscription lapses, or is paid again.
ChangePlan(p) ==
    /\ plan # "CLOSED"
    /\ plan # p
    /\ plan' = p
    /\ Switch
    /\ UNCHANGED active

\* Account deletion: every open delivery ends and is refunded, in the
\* transaction that closes the account and switches its endpoints off.
CloseAccount ==
    LET D == {d \in Endpoints : row[d].status \in Open}
    IN  /\ plan # "CLOSED"
        /\ plan' = "CLOSED"
        /\ active' = [e \in Endpoints |-> FALSE]
        /\ row' = [d \in Endpoints |->
             IF d \in D THEN [row[d] EXCEPT !.status = "DEAD_LETTERED",
                                            !.due = "null", !.aged = FALSE]
                        ELSE row[d]]
        /\ refunds' = refunds \cup D
        /\ credits' = credits + Cost * Cardinality(D \ refunds)
        /\ UNCHANGED <<debits, queue, handler, sweep, bounds, historyVars>>

-----------------------------------------------------------------------------
(* Settlement. *)

DeadRow(d, n) == [row[d] EXCEPT !.status = "DEAD_LETTERED", !.attempts = n,
                                !.due = "null", !.aged = FALSE]

\* What settleDeadLetteredInTransaction demands of the locked row.
CanSettle(d, n) == /\ row[d].attempts = n
                   /\ d \in debits
                   /\ row[d].status \in Open \cup {"DEAD_LETTERED"}

\* Mutant of Refund: the ledger is not asked whether the refund is there.
RefundAgain(d) ==
    /\ refunds' = refunds \cup {d}
    /\ credits' = credits + Cost
    /\ UNCHANGED debits

\* The refund is paid by the one who inserts its ledger row.
Refund(d) ==
    /\ refunds' = refunds \cup {d}
    /\ credits' = IF d \in refunds THEN credits ELSE credits + Cost
    /\ UNCHANGED debits

-----------------------------------------------------------------------------
(* A message in the replay worker. *)

Receive(h, d) ==
    /\ handler[h].pc = "idle"
    /\ queue[d] > 0
    /\ queue' = [queue EXCEPT ![d] = @ - 1]
    /\ handler' = [handler EXCEPT ![h] = [pc |-> "received", d |-> d, attempt |-> 0]]
    /\ UNCHANGED <<plan, active, moneyVars, row, sweep, bounds, historyVars>>

\* Mutant of Claimable: a SENDING row may be claimed under a live lease.
ClaimableLeased(d) == /\ row[d].attempts < MaxAttempts
                      /\ \/ row[d].status \in {"QUEUED", "SENDING"}
                         \/ row[d].status \in {"PENDING", "FAILED"} /\ row[d].due = "now"

\* The conditional update of claimReplayByDeliveryId.
Claimable(d) ==
    /\ row[d].attempts < MaxAttempts
    /\ \/ row[d].status = "QUEUED"
       \/ row[d].status \in {"PENDING", "FAILED"} /\ row[d].due = "now"
       \/ row[d].status = "SENDING" /\ row[d].aged

\* All attempts are used up and nobody is at work on the last one.
Exhausted(d) ==
    /\ row[d].attempts >= MaxAttempts
    /\ \/ row[d].status \in Replayable
       \/ row[d].status = "SENDING" /\ row[d].aged

\* retryAtForUnclaimedDelivery
HasRetryTime(d) == \/ row[d].status = "SENDING"
                   \/ row[d].status \in Replayable /\ row[d].due # "null"

\* claimReplayByDeliveryId, and what replayDelivery and handleReplayMessage
\* do at once with each answer: claimed, deferred, or not found (ack).
Claim(h) ==
    LET d == handler[h].d
        n == row[d].attempts + 1
    IN  /\ handler[h].pc = "received"
        /\ \/ /\ ~PaidAuthority(d)
              /\ Ack(h)
              /\ UNCHANGED <<moneyVars, row>>
           \/ /\ PaidAuthority(d) /\ Claimable(d) /\ active[d]
              /\ Put(d, [row[d] EXCEPT !.status = "SENDING", !.attempts = n,
                                       !.aged = FALSE])
              /\ handler' = [handler EXCEPT ![h].pc = "claimed", ![h].attempt = n]
              /\ UNCHANGED moneyVars
           \/ /\ PaidAuthority(d) /\ Claimable(d) /\ ~active[d]
              /\ Put(d, DeadRow(d, n))
              /\ Refund(d)
              /\ Ack(h)
           \/ /\ PaidAuthority(d) /\ Exhausted(d)
              /\ Put(d, DeadRow(d, row[d].attempts))
              /\ Refund(d)
              /\ Ack(h)
           \/ /\ PaidAuthority(d) /\ ~Claimable(d) /\ ~Exhausted(d)
              /\ IF HasRetryTime(d) THEN Goto(h, "deferred") ELSE Ack(h)
              /\ UNCHANGED <<moneyVars, row>>
        /\ UNCHANGED <<plan, active, queue, sweep, bounds, historyVars>>

\* The row is SENDING and this handler's attempt is the current one.
OwnsAttempt(h) == LET d == handler[h].d
                  IN  row[d].status = "SENDING" /\ row[d].attempts = handler[h].attempt

\* validateActiveDeliverySendAuthority: eligible, terminal (endpoint switched
\* off: settled at once), paused, or not found.
ValidateAuthority(h) ==
    LET d == handler[h].d
    IN  /\ handler[h].pc = "claimed"
        /\ \/ /\ OwnsAttempt(h) /\ active[d] /\ PaidAuthority(d)
              /\ Goto(h, "sending")
              /\ UNCHANGED <<moneyVars, row>>
           \/ /\ OwnsAttempt(h) /\ ~active[d]
              /\ Put(d, DeadRow(d, row[d].attempts))
              /\ Refund(d)
              /\ Goto(h, "failed")
           \/ /\ OwnsAttempt(h) /\ active[d] /\ ~PaidAuthority(d)
              /\ Put(d, [row[d] EXCEPT !.status = "FAILED", !.due = "now"])
              /\ Goto(h, "paused")
              /\ UNCHANGED moneyVars
           \/ /\ ~OwnsAttempt(h)
              /\ Goto(h, "failed")
              /\ UNCHANGED <<moneyVars, row>>
        /\ UNCHANGED <<plan, active, queue, sweep, bounds, historyVars>>

\* sendSignedWebhook.  The receiver accepts or refuses; or the answer is lost
\* on its way back.
Send(h, ok) ==
    LET d == handler[h].d
    IN  /\ handler[h].pc = "sending"
        /\ sends' = [sends EXCEPT ![d] = @ + 1]
        /\ accepted' = IF ok THEN [accepted EXCEPT ![d] = @ \cup {handler[h].attempt}]
                             ELSE accepted
        /\ Goto(h, IF ok THEN "sent" ELSE "failing")
        /\ UNCHANGED <<plan, active, moneyVars, row, queue, sweep, bounds>>

AnswerLost(h) ==
    /\ Fault
    /\ handler[h].pc = "sent"
    /\ Goto(h, "failing")
    /\ UNCHANGED <<plan, active, moneyVars, row, queue, sweep, historyVars>>

\* markDelivered; a row that is no longer this attempt's raises an error,
\* which the catch block of replayDelivery treats like a failed request.
MarkDelivered(h) ==
    LET d == handler[h].d
    IN  /\ handler[h].pc = "sent"
        /\ \/ /\ OwnsAttempt(h)
              /\ Put(d, [row[d] EXCEPT !.status = "DELIVERED", !.due = "null", !.aged = FALSE])
              /\ Ack(h)
           \/ /\ ~OwnsAttempt(h)
              /\ Goto(h, "failing")
              /\ UNCHANGED row
        /\ UNCHANGED <<plan, active, moneyVars, queue, sweep, bounds, historyVars>>

\* The transaction of ValidateAuthority or markDelivered raises; the latter
\* may have been committed.
StoreRaises(h, committed) ==
    /\ Fault
    /\ handler[h].pc \in {"claimed", "sent"}
    /\ IF committed /\ handler[h].pc = "sent" /\ OwnsAttempt(h)
       THEN Put(handler[h].d, [row[handler[h].d] EXCEPT !.status = "DELIVERED",
                                        !.due = "null", !.aged = FALSE])
       ELSE UNCHANGED row
    /\ Goto(h, "failing")
    /\ UNCHANGED <<plan, active, moneyVars, queue, sweep, historyVars>>

\* markReplayFailed.  It succeeds too when a sweep has already made the same
\* attempt FAILED; otherwise it raises and the message is requeued.
MarkReplayFailed(h) ==
    LET d == handler[h].d
    IN  /\ handler[h].pc = "failing"
        /\ \/ /\ OwnsAttempt(h)
              /\ Put(d, [row[d] EXCEPT !.status = "FAILED", !.due = "later"])
              /\ Goto(h, "failed")
              /\ UNCHANGED queue
           \/ /\ row[d].status = "FAILED" /\ row[d].attempts = handler[h].attempt
              /\ Goto(h, "failed")
              /\ UNCHANGED <<row, queue>>
           \/ /\ ~OwnsAttempt(h)
              /\ ~(row[d].status = "FAILED" /\ row[d].attempts = handler[h].attempt)
              /\ Nack(h)
              /\ UNCHANGED row
        /\ UNCHANGED <<plan, active, moneyVars, sweep, bounds, historyVars>>

LastAttempt(h) == handler[h].attempt >= MaxAttempts

\* deadLetterDelivery after the last attempt.  Whether it succeeds or
\* raises, the message is not requeued.
DeadLetter(h) ==
    LET d == handler[h].d
    IN  /\ handler[h].pc \in {"failed", "paused"}
        /\ LastAttempt(h)
        /\ IF CanSettle(d, handler[h].attempt)
           THEN Put(d, DeadRow(d, handler[h].attempt)) /\ Refund(d)
           ELSE UNCHANGED <<row, moneyVars>>
        /\ Ack(h)
        /\ UNCHANGED <<plan, active, queue, sweep, bounds, historyVars>>

DeadLetterFails(h) ==
    /\ Fault
    /\ handler[h].pc \in {"failed", "paused"}
    /\ LastAttempt(h)
    /\ Ack(h)
    /\ UNCHANGED <<plan, active, moneyVars, row, queue, sweep, historyVars>>

MustRepublish(h) == \/ handler[h].pc = "deferred"
                    \/ handler[h].pc \in {"failed", "paused"} /\ ~LastAttempt(h)

\* publishWebhookRetryAfterDelay and publishWebhookRetryAfterMs.
Republish(h) ==
    /\ MustRepublish(h)
    /\ Enqueue(handler[h].d)
    /\ Goto(h, "republished")
    /\ UNCHANGED <<plan, active, moneyVars, row, sweep, bounds, historyVars>>

\* The confirm does not come: the source message is requeued, and the
\* broker may have both.
RepublishFails(h, taken) ==
    /\ Fault
    /\ MustRepublish(h)
    /\ queue' = [queue EXCEPT ![handler[h].d] = @ + (IF taken THEN 2 ELSE 1)]
    /\ Ack(h)
    /\ UNCHANGED <<plan, active, moneyVars, row, sweep, historyVars>>

\* The row after markQueued, which tests the status and not the attempt.
Queued(d) ==
    IF row[d].status \in Replayable
    THEN [row[d] EXCEPT !.status = "QUEUED", !.due = "null", !.aged = FALSE]
    ELSE row[d]

\* recordConfirmedRetryPublication, and ack.
RecordQueued(h) ==
    /\ handler[h].pc = "republished"
    /\ Put(handler[h].d, Queued(handler[h].d))
    /\ Ack(h)
    /\ UNCHANGED <<plan, active, moneyVars, queue, sweep, bounds, historyVars>>

\* Its error is only logged.
RecordQueuedFails(h) ==
    /\ Fault
    /\ handler[h].pc = "republished"
    /\ Ack(h)
    /\ UNCHANGED <<plan, active, moneyVars, row, queue, sweep, historyVars>>

\* The process stops, or a transaction raises outside replayDelivery's catch:
\* the broker delivers the message again.
HandlerStops(h) ==
    /\ Fault
    /\ handler[h].pc # "idle"
    /\ Nack(h)
    /\ UNCHANGED <<plan, active, moneyVars, row, sweep, historyVars>>

-----------------------------------------------------------------------------
(* The recovery sweep. *)

\* The WHERE clause of claimRecoverableForQueue.
Recoverable(d) ==
    /\ PaidAuthority(d)
    /\ \/ row[d].status \in Replayable /\ row[d].due = "now"
       \/ row[d].status = "SENDING" /\ row[d].aged
       \/ row[d].status = "QUEUED" /\ row[d].due = "null" /\ row[d].aged

\* claimRecoverableForQueue: the batch is leased by a later nextAttemptAt,
\* and a stale SENDING row becomes FAILED.
SweepClaim(s) ==
    LET D == {d \in Endpoints : Recoverable(d)}
    IN  /\ sweep[s] = IdleSweep
        /\ D # {}
        /\ row' = [d \in Endpoints |->
             IF d \in D THEN [row[d] EXCEPT !.status = IF @ = "SENDING" THEN "FAILED" ELSE @,
                                            !.due = "later", !.aged = FALSE]
                        ELSE row[d]]
        /\ sweep' = [sweep EXCEPT ![s] = [todo |-> D, sent |-> NoDelivery]]
        /\ UNCHANGED <<plan, active, moneyVars, queue, handler, bounds, historyVars>>

\* publishWebhookRetryNow (or after a delay), confirmed by the broker.
SweepPublish(s, d) ==
    /\ d \in sweep[s].todo
    /\ sweep[s].sent = NoDelivery
    /\ Enqueue(d)
    /\ sweep' = [sweep EXCEPT ![s] = [todo |-> @.todo \ {d}, sent |-> d]]
    /\ UNCHANGED <<plan, active, moneyVars, row, handler, bounds, historyVars>>

SweepPublishFails(s, d, taken) ==
    /\ Fault
    /\ d \in sweep[s].todo
    /\ sweep[s].sent = NoDelivery
    /\ IF taken THEN Enqueue(d) ELSE UNCHANGED queue
    /\ sweep' = [sweep EXCEPT ![s].todo = @ \ {d}]
    /\ UNCHANGED <<plan, active, moneyVars, row, handler, historyVars>>

SweepMarkQueued(s) ==
    /\ sweep[s].sent # NoDelivery
    /\ Put(sweep[s].sent, Queued(sweep[s].sent))
    /\ sweep' = [sweep EXCEPT ![s].sent = NoDelivery]
    /\ UNCHANGED <<plan, active, moneyVars, queue, handler, bounds, historyVars>>

\* markRetryQueued raises (logged), or the process stops in the sweep.
SweepStops(s) ==
    /\ Fault
    /\ sweep[s] # IdleSweep
    /\ \/ sweep' = [sweep EXCEPT ![s] = IdleSweep]
       \/ sweep' = [sweep EXCEPT ![s].sent = NoDelivery] /\ sweep[s].sent # NoDelivery
    /\ UNCHANGED <<plan, active, moneyVars, row, queue, handler, historyVars>>

-----------------------------------------------------------------------------
(* Time and the broker. *)

\* Somebody is at work on the current attempt, or the message is on its way.
AtWork(d) == \/ \E h \in Handlers : handler[h].d = d /\ OwnsAttempt(h)
             \/ row[d].status = "QUEUED" /\ (queue[d] > 0 \/ \E h \in Handlers : handler[h].d = d)

BecomesDue(d) ==
    /\ row[d].due = "later"
    /\ Put(d, [row[d] EXCEPT !.due = "now"])
    /\ UNCHANGED <<plan, active, moneyVars, queue, handler, sweep, bounds, historyVars>>

Ages(d) ==
    /\ \/ row[d].status = "SENDING"
       \/ row[d].status = "QUEUED" /\ row[d].due = "null"
    /\ ~row[d].aged
    /\ Put(d, [row[d] EXCEPT !.aged = TRUE])
    /\ UNCHANGED <<plan, active, moneyVars, queue, handler, sweep, historyVars>>

LeaseEnds(d) == ~AtWork(d) /\ Ages(d) /\ UNCHANGED bounds
LeaseEndsEarly(d) == AtWork(d) /\ Ages(d) /\ Fault

BrokerLoses(d) ==
    /\ Fault
    /\ queue[d] > 0
    /\ queue' = [queue EXCEPT ![d] = @ - 1]
    /\ UNCHANGED <<plan, active, moneyVars, row, handler, sweep, historyVars>>

-----------------------------------------------------------------------------
Init ==
    /\ plan = "PAID"
    /\ active = [e \in Endpoints |-> TRUE]
    /\ credits = InitialCredits
    /\ debits = {}
    /\ refunds = {}
    /\ row = [d \in Endpoints |-> NoRow]
    /\ queue = [d \in Endpoints |-> 0]
    /\ handler = [h \in Handlers |-> IdleHandler]
    /\ sweep = [s \in Sweeps |-> IdleSweep]
    /\ faults = 0
    /\ switches = 0
    /\ sends = [d \in Endpoints |-> 0]
    /\ accepted = [d \in Endpoints |-> {}]

ApiStep ==
    \/ EnqueueEvent
    \/ \E e \in Endpoints, on \in BOOLEAN : SetEndpointActive(e, on)
    \/ \E p \in {"PAID", "PAUSED"} : ChangePlan(p)
    \/ CloseAccount

HandlerStep(h) ==
    \/ \E d \in Endpoints : Receive(h, d)
    \/ Claim(h)
    \/ ValidateAuthority(h)
    \/ \E ok \in BOOLEAN : Send(h, ok)
    \/ MarkDelivered(h)
    \/ MarkReplayFailed(h)
    \/ DeadLetter(h)
    \/ Republish(h)
    \/ RecordQueued(h)

HandlerFault(h) ==
    \/ AnswerLost(h)
    \/ \E committed \in BOOLEAN : StoreRaises(h, committed)
    \/ DeadLetterFails(h)
    \/ \E taken \in BOOLEAN : RepublishFails(h, taken)
    \/ RecordQueuedFails(h)
    \/ HandlerStops(h)

SweepStep(s) == \/ SweepClaim(s)
                \/ \E d \in Endpoints : SweepPublish(s, d)
                \/ SweepMarkQueued(s)

SweepFault(s) == \/ \E d \in Endpoints, taken \in BOOLEAN : SweepPublishFails(s, d, taken)
                 \/ SweepStops(s)

TimeStep(d) == BecomesDue(d) \/ LeaseEnds(d)

Next ==
    \/ ApiStep
    \/ \E h \in Handlers : HandlerStep(h) \/ HandlerFault(h)
    \/ \E s \in Sweeps : SweepStep(s) \/ SweepFault(s)
    \/ \E d \in Endpoints : TimeStep(d) \/ LeaseEndsEarly(d) \/ BrokerLoses(d)

Spec == Init /\ [][Next]_whVars

\* The worker keeps consuming, the sweep timer keeps firing, time passes.
\* Nobody has to pay, and no receiver has to accept.
Fairness ==
    /\ \A h \in Handlers : WF_whVars(HandlerStep(h))
    /\ \A s \in Sweeps : WF_whVars(SweepStep(s))
    /\ \A d \in Endpoints : WF_whVars(BecomesDue(d)) /\ WF_whVars(LeaseEnds(d))

FairSpec == Spec /\ Fairness

-----------------------------------------------------------------------------
\* Every variable has its type; the attempt counter stays in its budget.
TypeOK ==
    /\ plan \in {"PAID", "PAUSED", "CLOSED"}
    /\ active \in [Endpoints -> BOOLEAN]
    /\ credits \in Nat
    /\ debits \subseteq Endpoints
    /\ refunds \subseteq Endpoints
    /\ row \in [Endpoints -> Row]
    /\ queue \in [Endpoints -> Nat]
    /\ handler \in [Handlers -> Handler]
    /\ sweep \in [Sweeps -> Sweep]
    /\ faults \in Nat
    /\ switches \in Nat
    /\ sends \in [Endpoints -> Nat]
    /\ accepted \in [Endpoints -> SUBSET (0 .. MaxAttempts)]

\* A delivery is paid for as long as it exists, and its price is returned
\* exactly when it is dead-lettered, however many workers, sweeps and the
\* account deletion try to end it.
PaidDelivery ==
    /\ \A d \in Endpoints : /\ d \in debits <=> row[d].status # "NONE"
                            /\ d \in refunds <=> row[d].status = "DEAD_LETTERED"
    /\ credits + Cost * Cardinality(debits \ refunds) = InitialCredits

\* However many copies of the message there are and however often a lease
\* runs out, no delivery is requested more often than attempts were claimed
\* for it, so never more than MaxAttempts times.
SendsAreClaimed ==
    \A d \in Endpoints : sends[d] <= row[d].attempts

\* DELIVERED means that the receiver accepted the request of the very
\* attempt the row records: the late answer of a superseded sender does not
\* settle a newer attempt ("attempt-fenced transitions").
DeliveredWasAccepted ==
    \A d \in Endpoints :
        row[d].status = "DELIVERED" => row[d].attempts \in accepted[d]

\* No late markQueued, retry or second settlement changes a delivery that
\* was delivered or dead-lettered, and attempts never go back.
SparesEnded ==
    \A d \in Endpoints :
        /\ row[d].status \in Ended => row'[d] = row[d]
        /\ row'[d].attempts >= row[d].attempts
EndedIsFinal == [][SparesEnded]_whVars

\* While a sender's lease is live no other handler starts an attempt.
SparesSender ==
    \A d \in Endpoints :
        row[d].status = "SENDING" /\ ~row[d].aged /\ row'[d].status = "SENDING"
        => row'[d].attempts = row[d].attempts
LeaseExcludesSender == [][SparesSender]_whVars

\* Once the tenant's plan stays paid, every delivery ends, whatever was lost
\* or crashed before, and even if the last attempt's settlement failed.
EveryDeliveryEnds ==
    (<>[](plan = "PAID")) =>
        \A d \in Endpoints : (row[d].status \in Open) ~> (row[d].status \in Ended)

\* "pause new claims without [...] terminalizing queued work; an in-flight
\* send that observes a pause returns to due FAILED state": the handler that
\* met a paused tenant does not end the delivery.
\* Does not hold: see README.md, section 6.
PauseSparesDelivery ==
    [][\A h \in Handlers :
          handler[h].pc = "paused" /\ handler'[h] # handler[h]
          => (row'[handler[h].d].status = "DEAD_LETTERED"
                => row[handler[h].d].status = "DEAD_LETTERED")]_whVars
=============================================================================
