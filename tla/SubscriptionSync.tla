-------------------------- MODULE SubscriptionSync ----------------------------
(***************************************************************************)
(* Stripe subscription webhooks.  An event is handled in three parts: the  *)
(* tenant is found from the identifiers the event carries, the current     *)
(* subscription is retrieved from Stripe, and one transaction under the    *)
(* tenant's billing lock compares the event with the newest one applied,   *)
(* records it and changes the tenant.  Nothing holds a lock between the    *)
(* parts, several replicas handle events at once, and Stripe redelivers    *)
(* what is not acknowledged.                                               *)
(*                                                                         *)
(* One tenant with one Stripe customer; its subscriptions come one after   *)
(* the other.  Stripe's unpaid is a past_due here and incomplete_expired   *)
(* a canceled.  Events are dated in seconds, and Stripe may change a       *)
(* subscription several times in one.  The plan and the end of the paid    *)
(* period are written with the status and are left out, and so are purged  *)
(* tenants and the cancellation intents and legal holds of the account     *)
(* lifecycle.                                                              *)
(***************************************************************************)
EXTENDS Integers, FiniteSets

CONSTANTS
    Subs,       \* subscriptions the tenant may take out
    Handlers,   \* webhook requests that run at the same time
    None,
    Unlisted,   \* subscriptions whose price belongs to no configured plan
    MaxChanges, \* bound: changes of subscriptions at Stripe
    MaxSwitches,\* bound: suspensions, activations, capacity overruns
    MaxFaults   \* bound: failed handlers and duplicate deliveries

SyncAssumption ==
    /\ None \notin Subs \cup Handlers
    /\ Unlisted \subseteq Subs
    /\ MaxChanges \in Nat
    /\ MaxSwitches \in Nat
    /\ MaxFaults \in Nat

VARIABLES
    stripe,    \* Stripe: status of every subscription
    clock,     \* Stripe: number of changes so far
    second,    \* Stripe: the second of the last change
    events,    \* Stripe: events emitted
    upward,    \* Stripe: whether later events have greater ids
    acked,     \* Stripe: events answered with success
    tenant,    \* status and stripeSubscriptionId
    fits,      \* the active users and locations fit the plan
    ledger,    \* BillingEvent rows
    handler,   \* what each webhook request is doing
    activation,\* stripeSubscriptionId an administrator saw active, if any
    activated, \* history: an administrator has activated the tenant
    switches,
    faults

syncVars == <<stripe, clock, second, events, upward, acked, tenant, fits, ledger, handler,
              activation, activated, switches, faults>>
provider == <<stripe, clock, second, events, upward>>
admin == <<activation, activated>>
bounds == <<switches, faults>>

-----------------------------------------------------------------------------
SubStatus == {"none", "incomplete", "trialing", "active", "past_due", "paused", "canceled"}
TenantStatus == {"TRIAL", "ACTIVE", "PAST_DUE", "CANCELLED", "SUSPENDED"}
Tenant == [status : TenantStatus, sub : Subs \cup {None}]

Invoice == {"paid", "payment_failed", "finalization_failed"}
Canonical == {"created", "updated", "paused", "resumed"}
Initial == {"created", "checkout"}
Types == Invoice \cup Canonical \cup Initial \cup {"deleted"}

\* n numbers the change that emitted the event, at is the second it was made in.
Event == [type : Types, sub : Subs, n : 1 .. MaxChanges, at : 1 .. MaxChanges]

Outcomes == {"applied", "skipped_stale", "skipped_suspended", "skipped_unverified_subscription"}
Entry == [event : Event, priority : -2 .. 1, outcome : Outcomes]

Handler == [pc : {"idle", "resolved", "unowned", "retrieved"}, event : Event \cup {None},
            seen : SubStatus \cup {None}]
Idle == [pc |-> "idle", event |-> None, seen |-> None]

Fault == faults < MaxFaults /\ faults' = faults + 1 /\ UNCHANGED switches
Switch == switches < MaxSwitches /\ switches' = switches + 1 /\ UNCHANGED faults

-----------------------------------------------------------------------------
(* Stripe, as this code uses it. *)

\* A change at Stripe, in the second of the one before or in a later one, and
\* the events it emits.
Change(s, status, types) ==
    /\ clock < MaxChanges
    /\ clock' = clock + 1
    /\ stripe' = [stripe EXCEPT ![s] = status]
    /\ second' \in {second, second + 1} \ {0}
    /\ events' = events \cup
          {[type |-> t, sub |-> s, n |-> clock + 1, at |-> second'] : t \in types}
    /\ UNCHANGED upward

\* Checkout refuses a second subscription beside a live one.
Subscribe(s) ==
    /\ stripe[s] = "none"
    /\ \A k \in Subs : stripe[k] \in {"none", "canceled"}
    /\ \E status \in {"incomplete", "trialing", "active"} : Change(s, status, {"created", "checkout"})
    /\ UNCHANGED <<acked, tenant, fits, ledger, handler, admin, bounds>>

Pay(s) ==
    /\ stripe[s] \in {"incomplete", "trialing", "past_due"}
    /\ Change(s, "active", {"paid", "updated"})
    /\ UNCHANGED <<acked, tenant, fits, ledger, handler, admin, bounds>>

FailPayment(s) ==
    /\ stripe[s] \in {"trialing", "active"}
    /\ \/ Change(s, "past_due", {"payment_failed", "updated"})
       \/ Change(s, stripe[s], {"finalization_failed"})
    /\ UNCHANGED <<acked, tenant, fits, ledger, handler, admin, bounds>>

Pause(s) ==
    /\ stripe[s] \in {"trialing", "active"}
    /\ Change(s, "paused", {"paused"})
    /\ UNCHANGED <<acked, tenant, fits, ledger, handler, admin, bounds>>

Cancel(s) ==
    /\ stripe[s] \notin {"none", "canceled"}
    /\ Change(s, "canceled", {"deleted"})
    /\ UNCHANGED <<acked, tenant, fits, ledger, handler, admin, bounds>>

-----------------------------------------------------------------------------
(* The order of events. *)

\* resolveEntitlementTerminalPriority
Priority(type, status) ==
    IF type \in {"deleted", "paused"} \/ status \in {"canceled", "paused"} THEN 1
    ELSE CASE type = "finalization_failed" -> -2
           [] type = "payment_failed" /\ status \in {"past_due", "incomplete"} -> -1
           [] OTHER -> 0

\* Ids are opaque.  Those of one change come in the order of these ranks.
Rank(t) == CASE t \in {"created", "paid", "payment_failed"} -> 0 [] OTHER -> 1
IdBelow(a, b) ==
    LET below == a.n < b.n \/ (a.n = b.n /\ Rank(a.type) < Rank(b.type))
    IN IF upward THEN below ELSE a # b /\ ~below

\* findSubscriptionEventHighWaterMark: skipped events do not count.
Applied(s) == {x \in ledger : x.event.sub = s /\ x.outcome = "applied"}

\* compareEventOrder, by second and priority only
Ahead(x, e, p) == x.event.at > e.at \/ (x.event.at = e.at /\ x.priority > p)

\* Mutant: an event is stale only when it is more than a second behind.
StaleByMargin(e, p) ==
    \E x \in Applied(e.sub) : e.at < x.event.at - 1

\* Behind the newest applied event of the subscription, which is to be behind
\* any.  Of two events of the same second and priority the id decides, except
\* that a subscription event is not stale then.
Stale(e, p) ==
    \E x \in Applied(e.sub) :
        \/ Ahead(x, e, p)
        \/ /\ e.type \notin Canonical
           /\ x.event.at = e.at /\ x.priority = p /\ ~IdBelow(x.event, e)

-----------------------------------------------------------------------------
(* handleWebhook *)

NeedsSubscription(e) == e.type # "deleted"

\* resolveTenantContext: the tenant that holds the subscription, the tenant
\* an invoice or a new subscription names, or nobody.
Resolution(e) ==
    CASE tenant.sub = e.sub -> "resolved"
      [] tenant.sub # e.sub /\ e.type \in Invoice -> "unowned"
      [] tenant.sub = None /\ e.type \in Initial -> "resolved"
      [] OTHER -> "nobody"

\* An event nobody owns is acknowledged and forgotten.
Receive(h, e) ==
    /\ handler[h].pc = "idle"
    /\ \/ e \notin acked /\ UNCHANGED bounds
       \/ e \in acked /\ Fault
    /\ IF Resolution(e) = "nobody"
       THEN /\ acked' = acked \cup {e}
            /\ UNCHANGED handler
       ELSE /\ handler' = [handler EXCEPT ![h] =
                              [Idle EXCEPT !.pc = Resolution(e), !.event = e]]
            /\ UNCHANGED acked
    /\ UNCHANGED <<provider, tenant, fits, ledger, admin>>

\* retrieveWebhookSubscription.  resolveInvoiceFirstTenantContext refuses the
\* invoice while the tenant holds another subscription, and Stripe delivers
\* it again.
Retrieve(h) ==
    LET e == handler[h].event
    IN /\ handler[h].pc \in {"resolved", "unowned"}
       /\ NeedsSubscription(e)
       /\ handler' = [handler EXCEPT ![h] =
              IF handler[h].pc = "unowned" /\ tenant.sub \notin {None, e.sub} THEN Idle
              ELSE [@ EXCEPT !.pc = "retrieved", !.seen = stripe[e.sub]]]
       /\ UNCHANGED <<provider, acked, tenant, fits, ledger, admin, bounds>>

\* A running subscription without a plan, and a checkout whose price is none
\* of the plans' (isAuthoritativeSubscriptionCheckout), are not accepted.
Accepted(e, seen) ==
    e.sub \in Unlisted => seen \notin {"active", "trialing"} /\ e.type # "checkout"

\* ensureWebhookSubscriptionBinding: the tenant once the subscription is
\* claimed, or None when it may not be.
Bound(e, seen) ==
    IF ~Accepted(e, seen) THEN None
    ELSE IF tenant.sub = e.sub THEN tenant
    ELSE IF tenant.sub # None \/ (tenant.status = "CANCELLED" /\ e.type \notin Initial) THEN None
    ELSE IF seen = "canceled" THEN tenant
    ELSE [tenant EXCEPT !.sub = e.sub]

\* applySubscriptionStatusUpdate and markTenantActive, from what was retrieved.
Synchronized(t, e, seen) ==
    [status |-> CASE seen = "active" -> IF fits THEN "ACTIVE" ELSE "PAST_DUE"
                  [] seen = "trialing" -> "TRIAL"
                  [] seen = "canceled" -> "CANCELLED"
                  [] OTHER -> "PAST_DUE",
     sub |-> IF seen = "canceled" THEN None ELSE e.sub]

\* applyWebhookSideEffect, for a deletion
Cancelled(t) == [t EXCEPT !.status = "CANCELLED", !.sub = None]

\* stripeEventId is unique.
Recorded(e) == \E x \in ledger : x.event = e

Record(e, p, outcome) ==
    /\ ledger' = ledger \cup {[event |-> e, priority |-> p, outcome |-> outcome]}
    /\ acked' = acked \cup {e}

\* isExactTerminalDeletedWebhookBinding
DeletionBinds(e) == tenant.sub = e.sub

Ready(h) == \/ handler[h].pc = "retrieved"
            \/ handler[h].pc = "resolved" /\ ~NeedsSubscription(handler[h].event)

\* The transaction of handleWebhook
Commit(h) ==
    LET e == handler[h].event
        seen == IF NeedsSubscription(e) THEN handler[h].seen ELSE "canceled"
        p == Priority(e.type, seen)
        bound == IF NeedsSubscription(e) THEN Bound(e, seen) ELSE tenant
        paid == seen = "active" /\ bound.sub = e.sub /\ bound.status # "CANCELLED"
    IN /\ Ready(h)
       /\ \/ /\ Recorded(e)
             /\ acked' = acked \cup {e}
             /\ UNCHANGED <<ledger, tenant>>
          \/ /\ ~Recorded(e)
             /\ \/ /\ tenant.status = "SUSPENDED"
                   /\ Record(e, p, "skipped_suspended")
                   /\ UNCHANGED tenant
                \/ /\ tenant.status # "SUSPENDED"
                   /\ ~NeedsSubscription(e)
                   /\ LET outcome == IF ~DeletionBinds(e) THEN "skipped_unverified_subscription"
                                     ELSE IF Stale(e, p) THEN "skipped_stale" ELSE "applied"
                      IN /\ Record(e, p, outcome)
                         /\ tenant' = IF outcome = "applied"
                                      THEN Cancelled(tenant) ELSE tenant
                \/ /\ tenant.status # "SUSPENDED"
                   /\ NeedsSubscription(e) /\ Stale(e, p)
                   /\ Record(e, p, "skipped_stale")
                   /\ UNCHANGED tenant
                \/ /\ tenant.status # "SUSPENDED"
                   /\ NeedsSubscription(e) /\ ~Stale(e, p)
                   /\ IF bound = None \/ (e.type = "paid" /\ ~paid)
                      THEN /\ Record(e, p, "skipped_unverified_subscription")
                           /\ tenant' = IF bound = None THEN tenant ELSE bound
                      ELSE /\ Record(e, p, "applied")
                           /\ tenant' = Synchronized(bound, e, seen)
       /\ handler' = [handler EXCEPT ![h] = Idle]
       /\ UNCHANGED <<provider, fits, admin, bounds>>

\* Stripe or the database fails, or the replica stops.
HandlerFails(h) ==
    /\ handler[h].pc # "idle"
    /\ handler' = [handler EXCEPT ![h] = Idle]
    /\ Fault
    /\ UNCHANGED <<provider, acked, tenant, fits, ledger, admin>>

-----------------------------------------------------------------------------
(* Other writers of the tenant's billing state. *)

\* resumeTenantSubscription, under the billing lock.  It does not look at the
\* status, so that a request admitted before a suspension may follow it; and
\* the transaction may be lost after Stripe has resumed.
ResumeTenantSubscription(s) ==
    /\ tenant.sub = s /\ stripe[s] = "paused" /\ fits
    /\ \E status \in {"active", "past_due"} :
          /\ Change(s, status, {"resumed"})
          /\ \/ tenant' = Synchronized(tenant, [sub |-> s], status) /\ UNCHANGED bounds
             \/ UNCHANGED tenant /\ Fault
    /\ UNCHANGED <<acked, fits, ledger, handler, admin>>

SuspendTenant ==
    /\ tenant.status # "SUSPENDED"
    /\ tenant' = [tenant EXCEPT !.status = "SUSPENDED"]
    /\ Switch
    /\ UNCHANGED <<provider, acked, fits, ledger, handler, admin>>

\* assertTenantCanBeActivated, for a tenant with a subscription
CheckActivation ==
    /\ activation = None /\ switches < MaxSwitches
    /\ tenant.sub # None /\ stripe[tenant.sub] = "active"
    /\ activation' = tenant.sub
    /\ UNCHANGED <<provider, acked, tenant, fits, ledger, handler, activated, bounds>>

\* activateTenant, if the binding has not changed since.
ActivateTenant ==
    /\ activation # None
    /\ activation' = None
    /\ activated' = TRUE
    /\ tenant' = IF tenant.sub = activation THEN [tenant EXCEPT !.status = "ACTIVE"] ELSE tenant
    /\ Switch
    /\ UNCHANGED <<provider, acked, fits, ledger, handler>>

\* A user or a location is added, and assertTenantFitsPlan begins to fail.
Outgrow ==
    /\ fits
    /\ fits' = FALSE
    /\ Switch
    /\ UNCHANGED <<provider, acked, tenant, ledger, handler, admin>>

-----------------------------------------------------------------------------
Init ==
    /\ stripe = [s \in Subs |-> "none"]
    /\ clock = 0
    /\ second = 0
    /\ events = {}
    /\ upward \in BOOLEAN
    /\ acked = {}
    /\ tenant = [status |-> "TRIAL", sub |-> None]
    /\ fits = TRUE
    /\ ledger = {}
    /\ handler = [h \in Handlers |-> Idle]
    /\ activation = None
    /\ activated = FALSE
    /\ switches = 0
    /\ faults = 0

Handle(h) ==
    \/ \E e \in events : Receive(h, e)
    \/ Retrieve(h)
    \/ Commit(h)
    \/ HandlerFails(h)

Next ==
    \/ \E s \in Subs : Subscribe(s)
    \/ \E s \in Subs : Pay(s)
    \/ \E s \in Subs : FailPayment(s)
    \/ \E s \in Subs : Pause(s)
    \/ \E s \in Subs : Cancel(s)
    \/ \E h \in Handlers : Handle(h)
    \/ \E s \in Subs : ResumeTenantSubscription(s)
    \/ SuspendTenant
    \/ CheckActivation
    \/ ActivateTenant
    \/ Outgrow

Spec == Init /\ [][Next]_syncVars

-----------------------------------------------------------------------------
(* Properties. *)

\* Every variable has its type.
TypeOK ==
    /\ stripe \in [Subs -> SubStatus]
    /\ events \subseteq Event /\ acked \subseteq events
    /\ tenant \in Tenant
    /\ ledger \subseteq Entry
    /\ handler \in [Handlers -> Handler]
    /\ activation \in Subs \cup {None}

Mirrors(status) ==
    CASE status = "active" -> {"ACTIVE"} \cup (IF fits THEN {} ELSE {"PAST_DUE"})
      [] status = "trialing" -> {"TRIAL"}
      [] status = "canceled" -> {"CANCELLED"}
      [] OTHER -> {"PAST_DUE"}

\* Stripe's last change of the subscription, and the only one in its second.
LastAndAlone(x) ==
    \A e \in events : e.sub = x.sub => e.n = x.n \/ e.at < x.at

\* Once an event of Stripe's last change of the bound subscription has been
\* applied the tenant shows that subscription, whatever older events are
\* still being handled from what their handlers retrieved earlier, unless
\* another change fell in the same second, or the tenant is suspended or was
\* activated by hand.
NewestEventDecides ==
    \A x \in Applied(tenant.sub) :
        LastAndAlone(x.event) /\ tenant.status # "SUSPENDED" /\ ~activated
        => tenant.status \in Mirrors(stripe[tenant.sub])

\* A tenant is never made ACTIVE on a subscription whose deletion has been
\* answered: no event of an older second undoes it.
\* Does not hold: see README.md, section 6.
AnsweredDeletionSticks ==
    [][tenant'.status = "ACTIVE" /\ tenant.status # "ACTIVE" =>
          \A e \in acked : ~(e.type = "deleted" /\ e.sub = tenant'.sub)]_syncVars

\* A subscription whose deletion was applied gives the tenant nothing any
\* more: it is never bound again and its events change nothing, unless it was
\* taken out and deleted in one and the same second.
OutlivesItsSecond(x) ==
    \A e \in events : e.sub = x.sub /\ e.type \in Initial => e.at < x.at
SparesDeleted ==
    \A x \in ledger' :
        /\ x.event.type = "deleted" /\ x.outcome = "applied" /\ tenant' # tenant
        /\ OutlivesItsSecond(x.event)
        => /\ tenant'.sub # x.event.sub
           /\ \A y \in ledger' \ ledger : y.event.sub = x.event.sub => x = y
DeletedStaysDeleted == [][SparesDeleted]_syncVars

\* The subscription a tenant is bound to is replaced only after it was let
\* go, and it is let go only when it has ended at Stripe.
LetsGoEnded ==
    tenant'.sub # tenant.sub /\ tenant.sub # None =>
        tenant'.sub = None /\ stripe[tenant.sub] = "canceled"
BindingIsExclusive == [][LetsGoEnded]_syncVars

\* An event changes the tenant at most once, and a duplicate never does.
EventAppliedOnce ==
    /\ \A x, y \in ledger : x.event = y.event => x = y
    /\ \A x \in ledger : x.event \in acked

\* A webhook makes a tenant ACTIVE only within its capacity and never past
\* the suspension of an administrator, although the event may have been
\* resolved and its subscription retrieved before.
ActivatesEntitled ==
    tenant'.status = "ACTIVE" /\ tenant.status # "ACTIVE" /\ ledger' # ledger =>
        fits /\ tenant.status # "SUSPENDED"
ActivationIsAllowed == [][ActivatesEntitled]_syncVars
=============================================================================
