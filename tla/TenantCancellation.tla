-------------------------- MODULE TenantCancellation --------------------------
(***************************************************************************)
(* Ending a tenant's subscription.  The customer cancels, or the platform  *)
(* archives the tenant; each kind of request has one durable intent row,   *)
(* claimed with a lease by the request itself or by the reconciler of any  *)
(* replica.  The owner schedules the cancellation at Stripe outside every  *)
(* transaction, stores the result, and finalizes.  A legal hold that wins  *)
(* against an archive has the archive's own cancellation undone again, but *)
(* never a cancellation the customer wants.                                *)
(*                                                                         *)
(* One tenant.  A subscription carries the operation that last marked it.  *)
(* A call to Stripe with an idempotency key used before repeats its old    *)
(* answer and does nothing, or is refused if it asks for something else.   *)
(* The owner of a lease renews it while it waits, so that a lease runs out *)
(* under a live owner only when that process is stalled.  Purged tenants   *)
(* are suspended ones here; restoring an archived tenant is left out.      *)
(***************************************************************************)
EXTENDS Naturals, FiniteSets

CONSTANTS
    Subs,       \* subscriptions the tenant takes out, one after the other
    Procs,      \* requests and reconcilers
    None,
    MaxOps,     \* bound: operations
    MaxHolds,   \* bound: placements and releases of a legal hold
    MaxPeriods, \* bound: billing periods of a subscription
    MaxResumes, \* bound: cancellations the customer takes back in the portal
    MaxFaults,  \* bound: failed calls and crashes
    MaxStalls   \* bound: leases that run out under their owner

CancellationAssumption ==
    /\ None \notin Subs \cup Procs
    /\ {MaxOps, MaxHolds, MaxPeriods, MaxResumes, MaxFaults, MaxStalls} \subseteq Nat

VARIABLES
    tenant,    \* status, deletedAt, retentionLegalHoldAt, stripeSubscriptionId
    stripe,    \* Stripe: the subscriptions
    keys,      \* Stripe: calls made with an idempotency key, and their answers
    events,    \* Stripe: subscriptions whose deletion is still to be delivered
    intent,    \* TenantSetting: the intent row of each kind
    audits,    \* AuditLog: finalization records of an operation
    proc,      \* what each request or reconciler is doing
    told,      \* subscriptions whose cancellation the customer was last told of
    ops, holds, resumes, faults, stalls

counters == <<ops, holds, resumes, faults, stalls>>
cancelVars == <<tenant, stripe, keys, events, intent, audits, proc, told, counters>>
provider == <<stripe, keys, events>>

-----------------------------------------------------------------------------
Kinds == {"CUSTOMER_CANCELLATION", "PLATFORM_ARCHIVE"}
Customer == "CUSTOMER_CANCELLATION"
Archive == "PLATFORM_ARCHIVE"
Ops == 1 .. MaxOps
Periods == 0 .. MaxPeriods

Tenant == [status : {"ACTIVE", "PAST_DUE", "CANCELLED", "SUSPENDED"}, archived : BOOLEAN,
           hold : BOOLEAN, sub : Subs \cup {None}]

Subscription == [state : {"none", "active", "ended"}, scheduled : BOOLEAN,
                 marker : Ops \cup {None}, period : Periods]

Recoverable == {"PENDING_PROVIDER", "PROVIDER_APPLIED", "COMPENSATION_PENDING"}
IntentState == Recoverable \cup {"none", "FINALIZED", "BLOCKED", "SUPERSEDED"}
Action == {"none", "scheduled", "already_scheduled", "already_canceled"}
Undone == {"none", "not_owned", "already_unscheduled", "unscheduled", "already_terminal"}

\* action and period are the providerResult, held is terminalReason = LEGAL_HOLD.
Intent == [op : Ops \cup {None}, state : IntentState, sub : Subs \cup {None},
           owner : Procs \cup {None}, live : BOOLEAN, owned : BOOLEAN, action : Action,
           period : Periods, undone : Undone, held : BOOLEAN]
NoIntent == [op |-> None, state |-> "none", sub |-> None, owner |-> None, live |-> FALSE,
             owned |-> FALSE, action |-> "none", period |-> 0, undone |-> "none", held |-> FALSE]

\* was and hold are the state and the hold the claim saw, seen is Stripe's
\* last answer, rival the customer operation that compensation makes way for.
PC == {"idle", "renew", "retrieve", "update", "apply", "finalize",
       "undo", "look", "check", "unschedule", "recheck", "repair", "mark"}
Proc == [pc : PC, kind : Kinds, op : Ops \cup {None}, sub : Subs \cup {None},
         was : IntentState, hold : BOOLEAN, seen : Subscription,
         action : Action, owned : BOOLEAN, undone : Undone, rival : Ops \cup {None}]
NoSubscription == [state |-> "none", scheduled |-> FALSE, marker |-> None, period |-> 0]
Idle == [pc |-> "idle", kind |-> Customer, op |-> None, sub |-> None, was |-> "none",
         hold |-> FALSE, seen |-> NoSubscription, action |-> "none", owned |-> FALSE,
         undone |-> "none", rival |-> None]

\* Two calls with the same call, op and rival have the same idempotency key.
\* keeps says that the marker is left as it is, marker is the one answered.
Key == [call : {"cancel", "undo", "repair"}, op : Ops, rival : Ops \cup {None},
        keeps : BOOLEAN, marker : Ops \cup {None}]

Unleased(row) == [row EXCEPT !.owner = None, !.live = FALSE]
Terminal(action) == action = "already_canceled"
Scheduled(action) == action \in {"scheduled", "already_scheduled"}
Unbound == tenant.status = "CANCELLED" /\ ~tenant.archived /\ tenant.sub = None

-----------------------------------------------------------------------------
(* The tests of the intent store. *)

Barrier(k) == tenant.status = "SUSPENDED" \/ (k = Archive /\ tenant.hold)

\* isFinalizedProviderReadbackDue
ReadbackDue(k, row) ==
    /\ k = Customer /\ row.state = "FINALIZED" /\ Scheduled(row.action)
    /\ row.sub # None /\ stripe[row.sub].period > row.period

\* isFinalizedCustomerWebhookConvergence
WebhookConverged(k, row) ==
    k = Customer /\ row.state = "FINALIZED" /\ row.sub # None /\ Scheduled(row.action) /\ Unbound

\* isCustomerTerminalProviderConvergence
TerminalConverged(k, row, action) ==
    k = Customer /\ Terminal(action) /\ row.sub # None /\ Unbound

\* isFinalizedCustomerTerminalWinner
CustomerWon(s) ==
    /\ intent[Customer].state = "FINALIZED" /\ s # None /\ intent[Customer].sub = s
    /\ intent[Customer].action # "none" /\ Unbound

\* renewProviderClaim
Claimed(p) ==
    LET row == intent[proc[p].kind] IN
    /\ row.op = proc[p].op /\ row.owner = p
    /\ row.state \in Recoverable \/ ReadbackDue(proc[p].kind, row)

\* TENANT_CANCELLATION_SCHEDULED_BY_CUSTOMER or the record of the end
Audited(op, action) ==
    audits' = [audits EXCEPT ![op][IF Terminal(action) THEN "completed" ELSE "scheduled"] = @ + 1]

Tell(row) == told' = IF row.sub # None /\ row.action # "none" THEN told \cup {row.sub} ELSE told

-----------------------------------------------------------------------------
(* The tenant, the customer in the Stripe portal, and Stripe. *)

Subscribe(s) ==
    /\ tenant.sub = None /\ ~tenant.archived /\ tenant.status # "SUSPENDED"
    /\ stripe[s].state = "none"
    /\ stripe' = [stripe EXCEPT ![s].state = "active"]
    /\ tenant' = [tenant EXCEPT !.sub = s, !.status = "ACTIVE"]
    /\ UNCHANGED <<keys, events, intent, audits, proc, told, counters>>

PortalCancel(s) ==
    /\ stripe[s].state = "active" /\ ~stripe[s].scheduled
    /\ stripe' = [stripe EXCEPT ![s].scheduled = TRUE]
    /\ UNCHANGED <<tenant, keys, events, intent, audits, proc, told, counters>>

\* The customer takes a confirmed cancellation back.
PortalResume(s) ==
    /\ s \in told /\ stripe[s].state = "active" /\ stripe[s].scheduled /\ resumes < MaxResumes
    /\ resumes' = resumes + 1
    /\ stripe' = [stripe EXCEPT ![s].scheduled = FALSE]
    /\ told' = told \ {s}
    /\ UNCHANGED <<tenant, keys, events, intent, audits, proc, ops, holds, faults, stalls>>

PeriodEnds(s) ==
    /\ stripe[s].state = "active" /\ stripe[s].period < MaxPeriods
    /\ stripe' = [stripe EXCEPT ![s].period = @ + 1,
                                ![s].state = IF stripe[s].scheduled THEN "ended" ELSE "active"]
    /\ events' = IF stripe[s].scheduled THEN events \cup {s} ELSE events
    /\ UNCHANGED <<tenant, keys, intent, audits, proc, told, counters>>

\* placeRetentionLegalHold
PlaceHold ==
    /\ ~tenant.hold /\ holds < MaxHolds
    /\ holds' = holds + 1
    /\ tenant' = [tenant EXCEPT !.hold = TRUE]
    /\ UNCHANGED <<provider, intent, audits, proc, told, ops, resumes, faults, stalls>>

ReleaseHold ==
    /\ tenant.hold /\ holds < MaxHolds
    /\ holds' = holds + 1
    /\ tenant' = [tenant EXCEPT !.hold = FALSE]
    /\ UNCHANGED <<provider, intent, audits, proc, told, ops, resumes, faults, stalls>>

\* The barrier of requestDeletion; billing cleanup ends the subscription.
RequestDeletion ==
    /\ tenant.status # "SUSPENDED"
    /\ tenant' = [tenant EXCEPT !.status = "SUSPENDED", !.archived = FALSE]
    /\ UNCHANGED <<provider, intent, audits, proc, told, counters>>

DeletionCancels(s) ==
    /\ tenant.status = "SUSPENDED" /\ tenant.sub = s /\ stripe[s].state = "active"
    /\ stripe' = [stripe EXCEPT ![s].state = "ended"]
    /\ events' = events \cup {s}
    /\ UNCHANGED <<tenant, keys, intent, audits, proc, told, counters>>

\* shouldFenceTerminalArchiveCancellation
Fenced ==
    LET row == intent[Archive] IN
    /\ tenant.hold
    /\ \/ row.owned /\ row.state \in {"PROVIDER_APPLIED", "COMPENSATION_PENDING"}
       \/ /\ row.state = "BLOCKED" /\ row.held
          /\ Terminal(row.action) \/ (row.owned /\ row.undone = "already_terminal")

\* isExactTerminalDeletedWebhookBinding
Binding(s) ==
    \/ tenant.sub = s
    \/ /\ tenant.sub = None /\ intent[Customer].state = "FINALIZED"
       /\ intent[Customer].sub = s /\ Terminal(intent[Customer].action)

DeletedWebhook(s) ==
    /\ s \in events
    /\ events' = events \ {s}
    /\ tenant' = IF tenant.status = "SUSPENDED" \/ tenant.archived \/ ~Binding(s) THEN tenant
                 ELSE [tenant EXCEPT !.status = IF Fenced THEN "PAST_DUE" ELSE "CANCELLED",
                                     !.sub = None]
    /\ UNCHANGED <<stripe, keys, intent, audits, proc, told, counters>>

-----------------------------------------------------------------------------
(* prepare and claimRecoverable. *)

\* reconcilePrepared, up to its first step
Start(k, row) ==
    [Idle EXCEPT !.kind = k, !.op = row.op, !.sub = row.sub, !.was = row.state,
        !.hold = tenant.hold,
        !.pc = CASE row.state = "COMPENSATION_PENDING" -> "undo"
                 [] row.state = "PROVIDER_APPLIED" /\ Terminal(row.action) -> "finalize"
                 [] OTHER -> "renew"]

Claim(p, k, row) ==
    /\ intent' = [intent EXCEPT ![k] = [row EXCEPT !.owner = p, !.live = TRUE]]
    /\ proc' = [proc EXCEPT ![p] = Start(k, row)]

FinalStillApplies(k, row) ==
    /\ row.state = "FINALIZED"
    /\ row.sub = tenant.sub \/ (k = Customer /\ Terminal(row.action) /\ tenant.status = "CANCELLED"
                                /\ tenant.sub = None)
    /\ k = Customer \/ (tenant.status = "CANCELLED" /\ tenant.archived)

\* A request that meets a live lease ends with an error.
Prepare(p, k) ==
    LET row == intent[k] IN
    /\ proc[p].pc = "idle" /\ ~Barrier(k)
    /\ \/ /\ WebhookConverged(k, row)
          /\ intent' = [intent EXCEPT ![k] = [Unleased(row) EXCEPT !.action = "already_canceled"]]
          /\ Audited(row.op, "already_canceled")
          /\ Tell(row)
          /\ UNCHANGED <<proc, ops>>
       \/ /\ ~WebhookConverged(k, row)
          /\ FinalStillApplies(k, row) /\ ~ReadbackDue(k, row)
          /\ IF k = Customer THEN Tell(row) ELSE UNCHANGED told
          /\ UNCHANGED <<intent, audits, proc, ops>>
       \/ /\ ~WebhookConverged(k, row)
          /\ row.state \in Recoverable \/ (FinalStillApplies(k, row) /\ ReadbackDue(k, row))
          /\ row.sub = tenant.sub /\ ~row.live
          /\ Claim(p, k, row)
          /\ UNCHANGED <<audits, told, ops>>
       \/ /\ ~WebhookConverged(k, row) /\ ~FinalStillApplies(k, row)
          /\ row.state \in Recoverable => row.sub # tenant.sub
          /\ ops < MaxOps
          /\ ops' = ops + 1
          /\ Claim(p, k, [NoIntent EXCEPT !.op = ops + 1, !.state = "PENDING_PROVIDER",
                                          !.sub = tenant.sub])
          /\ UNCHANGED <<audits, told>>
    /\ UNCHANGED <<tenant, provider, holds, resumes, faults, stalls>>

\* terminalizeStaleIntents
Terminalized(k, row) ==
    LET blocked == tenant.status = "SUSPENDED"
        changed == row.sub # tenant.sub
        held == k = Archive /\ tenant.hold /\ row.state # "PENDING_PROVIDER" IN
    IF row.state \notin Recoverable \/ row.live \/ ~(blocked \/ changed \/ held) THEN row
    ELSE [Unleased(row) EXCEPT
             !.state = CASE blocked -> "BLOCKED"
                         [] changed -> "SUPERSEDED"
                         [] held /\ row.owned -> "COMPENSATION_PENDING"
                         [] OTHER -> "BLOCKED",
             !.held = ~blocked /\ ~changed /\ ~row.owned]
TerminalizedRows == [k \in Kinds |-> Terminalized(k, intent[k])]

\* The candidates of claimRecoverable.
Candidate(k, row) ==
    /\ row.state \in Recoverable \/ ReadbackDue(k, row)
    /\ ~row.live
    /\ tenant.status # "SUSPENDED"
    /\ row.sub = tenant.sub
    /\ \/ row.state = "COMPENSATION_PENDING" /\ row.owned
       \/ k = Customer
       \/ ~tenant.hold
       \/ row.state = "PENDING_PROVIDER"

Recover(p, k) ==
    LET rows == TerminalizedRows IN
    /\ proc[p].pc = "idle" /\ Candidate(k, rows[k])
    /\ intent' = [rows EXCEPT ![k].owner = p, ![k].live = TRUE]
    /\ proc' = [proc EXCEPT ![p] = Start(k, rows[k])]
    /\ UNCHANGED <<tenant, provider, audits, told, counters>>

\* A sweep that finds nothing to claim.
Sweep ==
    /\ TerminalizedRows # intent
    /\ \A k \in Kinds : ~Candidate(k, TerminalizedRows[k])
    /\ intent' = TerminalizedRows
    /\ UNCHANGED <<tenant, provider, audits, proc, told, counters>>

-----------------------------------------------------------------------------
(* cancelAtPeriodEnd and cancelTenantSubscriptionAtPeriodEnd. *)

ReadbackOnly(p) == proc[p].was = "FINALIZED" \/ (proc[p].kind = Archive /\ proc[p].hold)
Renewed(p) == [intent EXCEPT ![proc[p].kind].live = TRUE]

\* releaseProviderClaim
Released(p) ==
    IF intent[proc[p].kind].op = proc[p].op /\ intent[proc[p].kind].owner = p
    THEN [intent EXCEPT ![proc[p].kind] = Unleased(@)] ELSE intent
GiveUp(p) == proc' = [proc EXCEPT ![p] = Idle]

\* An unscheduled subscription is scheduled; the customer's own request also
\* takes over a cancellation that another operation scheduled.
MustUpdate(p, seen) ==
    /\ ~ReadbackOnly(p) /\ seen.state = "active"
    /\ seen.scheduled => proc[p].kind = Customer /\ seen.marker # proc[p].op

\* withProviderClaimHeartbeat, up to the operation
Renew(p) ==
    /\ proc[p].pc \in {"renew", "undo"}
    /\ \/ /\ Claimed(p)
          /\ intent' = Renewed(p)
          /\ proc' = [proc EXCEPT ![p].pc = IF @ = "undo" THEN "look" ELSE "retrieve"]
       \/ ~Claimed(p) /\ intent' = Released(p) /\ GiveUp(p)
    /\ UNCHANGED <<tenant, provider, audits, told, counters>>

Retrieved(p) == IF proc[p].sub = None THEN NoSubscription ELSE stripe[proc[p].sub]

CancelRetrieve(p) ==
    LET seen == Retrieved(p) IN
    /\ proc[p].pc = "retrieve"
    /\ proc' = [proc EXCEPT ![p].seen = seen,
           ![p].pc = IF MustUpdate(p, seen) THEN "update" ELSE "apply",
           ![p].action = CASE seen.state = "ended" -> "already_canceled"
                           [] seen.scheduled -> "already_scheduled"
                           [] OTHER -> "none",
           ![p].owned = seen.marker = proc[p].op]
    /\ UNCHANGED <<tenant, provider, intent, audits, told, counters>>

\* The calls made before with the key of this one.
Earlier(key) == {k \in keys : k.call = key.call /\ k.op = key.op /\ k.rival = key.rival}

\* An update of an ended subscription is an error, and so is a key used for
\* another update before.
Refusable(key, s) ==
    IF Earlier(key) = {} THEN stripe[s].state # "active"
    ELSE \E k \in Earlier(key) : k.keeps # key.keeps

\* The cancellation marks the subscription with its own operation, the repair
\* with the customer's.
Marked(key, s) ==
    CASE key.keeps -> stripe[s].marker
      [] ~key.keeps /\ key.call = "cancel" -> key.op
      [] OTHER -> key.rival

Updated(key, s, scheduled) ==
    /\ ~Refusable(key, s)
    /\ IF Earlier(key) = {}
       THEN /\ keys' = keys \cup {[key EXCEPT !.marker = Marked(key, s)]}
            /\ stripe' = [stripe EXCEPT ![s].scheduled = scheduled, ![s].marker = Marked(key, s)]
       ELSE UNCHANGED <<keys, stripe>>

CancelKey(p) ==
    [call |-> "cancel", op |-> proc[p].op, rival |-> None, keeps |-> FALSE, marker |-> None]
CancelUpdate(p) ==
    /\ proc[p].pc = "update"
    /\ Updated(CancelKey(p), proc[p].sub, TRUE)
    /\ proc' = [proc EXCEPT ![p].pc = "apply", ![p].owned = TRUE,
           ![p].action = IF proc[p].seen.scheduled THEN "already_scheduled" ELSE "scheduled"]
    /\ UNCHANGED <<tenant, events, intent, audits, told, counters>>

-----------------------------------------------------------------------------
(* markProviderApplied and finalize. *)

Ended == [tenant EXCEPT !.status = "CANCELLED", !.sub = None]

\* The result of a finalized schedule that was read again.
ReapplyFinal(p, row) ==
    LET converged == WebhookConverged(Customer, row)
        action == IF converged THEN "already_canceled" ELSE proc[p].action IN
    /\ converged \/ row.sub = tenant.sub
    /\ ~Barrier(Customer)
    /\ tenant' = IF Terminal(action) /\ ~converged THEN Ended ELSE tenant
    /\ IF Terminal(action) THEN Audited(row.op, action) ELSE UNCHANGED audits
    /\ intent' = [intent EXCEPT ![Customer] =
           [Unleased(row) EXCEPT !.owned = @ \/ proc[p].owned, !.action = action,
                                 !.period = proc[p].seen.period]]
    /\ GiveUp(p)
    /\ UNCHANGED told

\* Mutant: does not record whose cancellation it is.
AppliedUnmarked(p, row) ==
    [row EXCEPT !.action = proc[p].action, !.period = proc[p].seen.period, !.live = TRUE]

\* The row with the result in it, still leased.
Applied(p, row) ==
    [row EXCEPT !.owned = @ \/ proc[p].owned, !.action = proc[p].action,
                !.period = proc[p].seen.period, !.live = TRUE]

StoreResult(p, k, row) ==
    LET new == Applied(p, row)
        converged == TerminalConverged(k, row, proc[p].action)
        held == k = Archive /\ tenant.hold IN
    /\ converged \/ row.sub = tenant.sub
    /\ held \/ ~Barrier(k)
    /\ \/ /\ converged
          /\ intent' = [intent EXCEPT ![k] = [Unleased(new) EXCEPT !.state = "FINALIZED"]]
          /\ Audited(row.op, proc[p].action)
          /\ Tell(new)
          /\ GiveUp(p) /\ UNCHANGED tenant
       \/ /\ ~converged /\ held /\ ~new.owned
          /\ tenant' = IF Terminal(new.action)
                       THEN [tenant EXCEPT !.status = "PAST_DUE", !.sub = None] ELSE tenant
          /\ intent' = [intent EXCEPT ![k] = [Unleased(new) EXCEPT !.state = "BLOCKED", !.held = TRUE]]
          /\ GiveUp(p) /\ UNCHANGED <<audits, told>>
       \/ /\ ~converged /\ held /\ new.owned
          /\ intent' = [intent EXCEPT ![k] = [new EXCEPT !.state = "COMPENSATION_PENDING"]]
          /\ proc' = [proc EXCEPT ![p].pc = "undo"]
          /\ UNCHANGED <<tenant, audits, told>>
       \/ /\ ~converged /\ ~held
          /\ intent' = [intent EXCEPT ![k] = [new EXCEPT !.state = "PROVIDER_APPLIED"]]
          /\ proc' = [proc EXCEPT ![p].pc = "finalize"]
          /\ UNCHANGED <<tenant, audits, told>>

\* A result that cannot be stored keeps the lease until it runs out.
MarkProviderApplied(p) ==
    LET k == proc[p].kind
        row == intent[k] IN
    /\ proc[p].pc = "apply"
    /\ \/ Claimed(p) /\ row.state = "FINALIZED" /\ ReapplyFinal(p, row)
       \/ Claimed(p) /\ row.state # "FINALIZED" /\ StoreResult(p, k, row)
       \/ /\ IF Claimed(p)
             THEN /\ row.sub # tenant.sub \/ Barrier(k)
                  /\ ~WebhookConverged(k, row) /\ ~TerminalConverged(k, row, proc[p].action)
                  /\ (k = Archive /\ tenant.hold) => row.sub # tenant.sub
                  /\ intent' = IF row.state = "FINALIZED" THEN Released(p) ELSE Renewed(p)
             ELSE intent' = Released(p)
          /\ GiveUp(p)
          /\ UNCHANGED <<tenant, audits, told>>
    /\ UNCHANGED <<provider, counters>>

Finalizable(p) ==
    LET k == proc[p].kind
        row == intent[k] IN
    /\ row.op = proc[p].op /\ row.owner = p /\ row.state = "PROVIDER_APPLIED"
    /\ row.sub = tenant.sub \/ TerminalConverged(k, row, row.action)
    /\ ~Barrier(k)

Finalize(p) ==
    LET k == proc[p].kind
        row == intent[k] IN
    /\ proc[p].pc = "finalize"
    /\ \/ /\ Finalizable(p)
          /\ tenant' = CASE k = Archive -> [tenant EXCEPT !.archived = TRUE, !.status = "CANCELLED"]
                         [] k = Customer /\ Terminal(row.action) -> Ended
                         [] OTHER -> tenant
          /\ Audited(row.op, row.action)
          /\ intent' = [intent EXCEPT ![k] = [Unleased(row) EXCEPT !.state = "FINALIZED"]]
          /\ IF k = Customer THEN Tell(row) ELSE UNCHANGED told
       \/ /\ ~Finalizable(p)
          /\ intent' = Released(p)
          /\ UNCHANGED <<tenant, audits, told>>
    /\ GiveUp(p)
    /\ UNCHANGED <<provider, counters>>

-----------------------------------------------------------------------------
(* compensatePrepared and compensateTenantSubscriptionCancellation. *)

\* findAuthoritativeCustomerCancellationOperationId
Rival(p) ==
    IF /\ intent[Customer].state \in {"PENDING_PROVIDER", "PROVIDER_APPLIED", "FINALIZED"}
       /\ intent[Customer].sub = proc[p].sub
    THEN intent[Customer].op ELSE None

Settle(p, undone) == proc' = [proc EXCEPT ![p].pc = "mark", ![p].undone = undone]

\* preserveAuthoritativeCustomerCancellation, up to its update
Preserve(p) ==
    IF proc[p].seen.state = "ended" THEN Settle(p, "not_owned")
    ELSE proc' = [proc EXCEPT ![p].pc = "repair", ![p].rival = Rival(p)]

UndoRetrieve(p) ==
    LET seen == Retrieved(p) IN
    /\ proc[p].pc = "look"
    /\ proc' = [proc EXCEPT ![p].seen = seen,
           ![p].pc = IF proc[p].sub = None \/ seen.marker \notin {None, proc[p].op}
                     THEN "mark" ELSE "check",
           ![p].undone = IF proc[p].sub = None THEN "none" ELSE "not_owned"]
    /\ UNCHANGED <<tenant, provider, intent, audits, told, counters>>

UndoCheck(p) ==
    /\ proc[p].pc = "check"
    /\ CASE Rival(p) # None -> Preserve(p)
         [] Rival(p) = None /\ proc[p].seen.state = "ended" -> Settle(p, "already_terminal")
         [] Rival(p) = None /\ proc[p].seen.state # "ended" /\ ~proc[p].seen.scheduled ->
              Settle(p, "already_unscheduled")
         [] OTHER -> proc' = [proc EXCEPT ![p].pc = "unschedule"]
    /\ UNCHANGED <<tenant, provider, intent, audits, told, counters>>

\* The marker is cleared only where one was seen.
UndoKey(p) ==
    [call |-> "undo", op |-> proc[p].op, rival |-> None,
     keeps |-> proc[p].seen.marker = None, marker |-> None]
UndoUpdate(p) ==
    /\ proc[p].pc = "unschedule"
    /\ Updated(UndoKey(p), proc[p].sub, FALSE)
    /\ \E k \in keys' :
          /\ k.call = "undo" /\ k.op = proc[p].op
          /\ IF k.marker \notin {None, proc[p].op} THEN Settle(p, "not_owned")
             ELSE proc' = [proc EXCEPT ![p].pc = "recheck"]
    /\ UNCHANGED <<tenant, events, intent, audits, told, counters>>

UndoRecheck(p) ==
    /\ proc[p].pc = "recheck"
    /\ IF Rival(p) # None THEN Preserve(p) ELSE Settle(p, "unscheduled")
    /\ UNCHANGED <<tenant, provider, intent, audits, told, counters>>

RepairKey(p) ==
    [call |-> "repair", op |-> proc[p].op, rival |-> proc[p].rival, keeps |-> FALSE,
     marker |-> None]
UndoRepair(p) ==
    /\ proc[p].pc = "repair"
    /\ Updated(RepairKey(p), proc[p].sub, TRUE)
    /\ Settle(p, "not_owned")
    /\ UNCHANGED <<tenant, events, intent, audits, told, counters>>

MarkCompensated(p) ==
    LET row == intent[Archive]
        undone == IF proc[p].undone = "already_terminal" /\ CustomerWon(row.sub)
                  THEN "not_owned" ELSE proc[p].undone IN
    /\ proc[p].pc = "mark"
    /\ \/ /\ Claimed(p) /\ row.state = "COMPENSATION_PENDING" /\ row.owned
          /\ tenant' = IF undone = "already_terminal"
                       THEN [tenant EXCEPT !.status = "PAST_DUE", !.sub = None] ELSE tenant
          /\ intent' = [intent EXCEPT ![Archive] =
                 [Unleased(row) EXCEPT !.state = "BLOCKED", !.held = TRUE, !.undone = undone]]
       \/ /\ ~(Claimed(p) /\ row.state = "COMPENSATION_PENDING" /\ row.owned)
          /\ intent' = Released(p)
          /\ UNCHANGED tenant
    /\ GiveUp(p)
    /\ UNCHANGED <<provider, audits, told, counters>>

-----------------------------------------------------------------------------
(* Faults. *)

Busy(p) == proc[p].pc # "idle"

\* An update that Stripe refuses.
Refused(p) ==
    /\ \/ proc[p].pc = "update" /\ Refusable(CancelKey(p), proc[p].sub)
       \/ proc[p].pc = "unschedule" /\ Refusable(UndoKey(p), proc[p].sub)
       \/ proc[p].pc = "repair" /\ Refusable(RepairKey(p), proc[p].sub)
    /\ intent' = Released(p)
    /\ GiveUp(p)
    /\ UNCHANGED <<tenant, provider, audits, told, counters>>

\* A call fails, or its answer is lost after it took effect.
CallFails(p) ==
    /\ Busy(p) /\ proc[p].pc # "finalize" /\ faults < MaxFaults
    /\ faults' = faults + 1
    /\ intent' = Released(p)
    /\ GiveUp(p)
    /\ UNCHANGED <<tenant, provider, audits, told, ops, holds, resumes, stalls>>

Crash(p) ==
    /\ Busy(p) /\ faults < MaxFaults
    /\ faults' = faults + 1
    /\ GiveUp(p)
    /\ UNCHANGED <<tenant, provider, intent, audits, told, ops, holds, resumes, stalls>>

Holds(p, k) == Busy(p) /\ proc[p].kind = k /\ proc[p].op = intent[k].op

LeaseExpires(k) ==
    /\ intent[k].live
    /\ \/ ~Holds(intent[k].owner, k) /\ UNCHANGED stalls
       \/ Holds(intent[k].owner, k) /\ stalls < MaxStalls /\ stalls' = stalls + 1
    /\ intent' = [intent EXCEPT ![k].live = FALSE]
    /\ UNCHANGED <<tenant, provider, audits, proc, told, ops, holds, resumes, faults>>

-----------------------------------------------------------------------------
Init ==
    /\ tenant \in {[status |-> "ACTIVE", archived |-> FALSE, hold |-> FALSE, sub |-> s] :
                       s \in Subs}
    /\ stripe = [s \in Subs |-> IF s = tenant.sub THEN [NoSubscription EXCEPT !.state = "active"]
                                ELSE NoSubscription]
    /\ keys = {} /\ events = {}
    /\ intent = [k \in Kinds |-> NoIntent]
    /\ audits = [o \in Ops |-> [scheduled |-> 0, completed |-> 0]]
    /\ proc = [p \in Procs |-> Idle]
    /\ told = {}
    /\ ops = 0 /\ holds = 0 /\ resumes = 0 /\ faults = 0 /\ stalls = 0

Work(p) ==
    \/ Renew(p) \/ CancelRetrieve(p) \/ CancelUpdate(p) \/ MarkProviderApplied(p) \/ Finalize(p)
    \/ UndoRetrieve(p) \/ UndoCheck(p) \/ UndoUpdate(p) \/ UndoRecheck(p) \/ UndoRepair(p)
    \/ MarkCompensated(p) \/ Refused(p)

Next ==
    \/ \E s \in Subs : Subscribe(s) \/ PortalCancel(s) \/ PortalResume(s) \/ PeriodEnds(s)
                       \/ DeletionCancels(s) \/ DeletedWebhook(s)
    \/ PlaceHold \/ ReleaseHold \/ RequestDeletion \/ Sweep
    \/ \E p \in Procs : Work(p) \/ CallFails(p) \/ Crash(p)
    \/ \E p \in Procs, k \in Kinds : Prepare(p, k) \/ Recover(p, k)
    \/ \E k \in Kinds : LeaseExpires(k)

Spec == Init /\ [][Next]_cancelVars

\* Requests and reconcilers run on, the reconciler of some replica sweeps
\* every interval, and a lease nobody renews runs out.
Fairness ==
    /\ \A p \in Procs : WF_cancelVars(Work(p))
    /\ \A k \in Kinds : WF_cancelVars(\E p \in Procs : Recover(p, k))
    /\ \A k \in Kinds : WF_cancelVars(LeaseExpires(k))
    /\ WF_cancelVars(Sweep)

FairSpec == Spec /\ Fairness

-----------------------------------------------------------------------------
(* Properties. *)

TypeOK ==
    /\ tenant \in Tenant
    /\ stripe \in [Subs -> Subscription]
    /\ keys \subseteq Key
    /\ events \subseteq Subs
    /\ intent \in [Kinds -> Intent]
    /\ audits \in [Ops -> [scheduled : Nat, completed : Nat]]
    /\ proc \in [Procs -> Proc]
    /\ told \subseteq Subs
    /\ ops \in 0 .. MaxOps /\ holds \in 0 .. MaxHolds /\ resumes \in 0 .. MaxResumes
    /\ faults \in 0 .. MaxFaults /\ stalls \in 0 .. MaxStalls

\* A subscription the customer was told is cancelled is scheduled to end or
\* has ended, except while an archive is still undoing its own cancellation
\* (which then restores the customer's); a deletion ends the subscription.
\* Two histories are left out (README.md, section 6): the customer took a
\* cancellation back in the portal, and an owner that is undoing lost its
\* lease and then its call or its life before it restored.
CustomerCancellationStands ==
    (resumes = 0 /\ (stalls = 0 \/ faults = 0)) => \A s \in told :
        \/ stripe[s].scheduled \/ stripe[s].state = "ended"
        \/ intent[Archive].state = "COMPENSATION_PENDING" /\ intent[Archive].sub = s
        \/ \E p \in Procs : proc[p].pc \in {"recheck", "repair"} /\ proc[p].sub = s
        \/ tenant.status = "SUSPENDED"

\* An archive that a legal hold blocked leaves no cancellation of its own
\* scheduled at Stripe, unless a lease ran out under an owner, whose update
\* may then arrive after the intent was blocked (README.md, section 6).
BlockedArchiveIsUndone ==
    LET row == intent[Archive] IN
    (/\ row.state = "BLOCKED" /\ row.held /\ row.sub # None
     /\ stripe[row.sub].state = "active" /\ stalls = 0)
        => ~(stripe[row.sub].scheduled /\ stripe[row.sub].marker = row.op)

\* The subscription of an archived tenant is scheduled to end or has ended,
\* unless the archive recorded that it scheduled nothing, or the customer took
\* a cancellation back.
ArchivedStopsRenewal ==
    (tenant.archived /\ tenant.sub # None /\ intent[Archive].action # "none" /\ resumes = 0) =>
        stripe[tenant.sub].scheduled \/ stripe[tenant.sub].state = "ended"

\* A customer's operation has one record of the schedule and one of the end,
\* however often it is replayed, read back or met by the webhook.
AuditedOnce ==
    \A o \in Ops : audits[o].scheduled <= 1 /\ audits[o].completed <= 1

\* What the two kinds of cancellation promise, together.
Kept ==
    CustomerCancellationStands /\ BlockedArchiveIsUndone /\ ArchivedStopsRenewal /\ AuditedOnce

\* A tenant that a hold protects from its archive is not cancelled by the
\* end of the subscription the archive scheduled (the customer asked for
\* nothing): it is past due.
\* Does not hold: see README.md, section 6.
HoldFailsClosed ==
    LET row == intent[Archive] IN
    (/\ tenant.hold /\ row.op # None /\ row.sub # None /\ stripe[row.sub].marker = row.op
     /\ row.sub \notin told /\ intent[Customer].op = None)
        => tenant.status # "CANCELLED"

\* The deletion barrier is never replaced by another status.
\* Does not hold: see README.md, section 6.
BarrierStands == [][tenant.status = "SUSPENDED" => tenant'.status = "SUSPENDED"]_cancelVars

\* The archive undid its cancellation, did not hear of it, and meanwhile the
\* customer scheduled one in the portal: the retry uses the key of the first
\* undo for another update, which Stripe refuses as long as it knows the key.
UndoRefused ==
    LET row == intent[Archive] IN
    /\ row.state = "COMPENSATION_PENDING" /\ row.sub # None
    /\ stripe[row.sub].scheduled /\ stripe[row.sub].marker = None
    /\ \E k \in keys : k.call = "undo" /\ k.op = row.op /\ ~k.keeps

\* Every intent ends: finalized, blocked or superseded, or it is left to
\* retries that Stripe refuses (README.md, section 6).
EveryIntentSettles ==
    \A k \in Kinds : (intent[k].state \in Recoverable) ~>
        (intent[k].state \notin Recoverable \/ (k = Archive /\ UndoRefused))
=============================================================================
