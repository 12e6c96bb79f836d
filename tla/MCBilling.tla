----------------------------- MODULE MCBilling -----------------------------
(***************************************************************************)
(* The money at Stripe, for TLC: subscription webhooks, checkouts, credit   *)
(* purchases, cancellation and archiving, deletion, and metered usage.  The *)
(* components meet only at Stripe and in the tenant row, which each of them *)
(* models for itself, so one run checks them side by side: a behaviour is a behaviour  *)
(* of the component that scope names, and the reachable states are the      *)
(* union of theirs.  Some are there on several small instances, each with   *)
(* its own kind of trouble.                                                 *)
(***************************************************************************)
EXTENDS SubscriptionCheckout, TLC

\* The members of the sets, and what each instance of a component is given
CONSTANTS
    e1, p1, p2, r1, s1, s2, v1, v2, SyncSubs, SyncHandlers, SyncUnlisted, SyncMaxChanges,
    SyncMaxSwitches, SyncMaxFaults, SuspSubs, SuspHandlers, SuspUnlisted, SuspMaxChanges,
    SuspMaxSwitches, SuspMaxFaults, BuySessions, BuyHandlers, BuyMaxAttempts,
    BuyMaxSwitches, BuyMaxFaults, CancelSubs, CancelProcs, CancelMaxOps, CancelMaxHolds,
    CancelMaxPeriods, CancelMaxResumes, CancelMaxFaults, CancelMaxStalls, StallSubs,
    StallProcs, StallMaxOps, StallMaxHolds, StallMaxPeriods, StallMaxResumes,
    StallMaxFaults, StallMaxStalls, ReplSubs, ReplProcs, ReplMaxOps, ReplMaxHolds,
    ReplMaxPeriods, ReplMaxResumes, ReplMaxFaults, ReplMaxStalls, DelProcs, DelSessions,
    DelIntakes, DelMaxFaults, DelMaxStalls, UsageWorkers, UsageReports, UsageNumPeriods,
    UsageMaxStaff, UsageMaxAttempts, UsageMaxReplays, UsageMaxFaults, UnnamedWorkers,
    UnnamedReports, UnnamedNumPeriods, UnnamedMaxStaff, UnnamedMaxAttempts,
    UnnamedMaxReplays, UnnamedMaxFaults

VARIABLES
    scope, syncStripe, syncClock, syncSecond, syncEvents, syncUpward, syncAcked, syncTenant,
    syncFits, syncLedger, syncHandler, syncActivation, syncActivated, syncSwitches, syncFaults,
    suspStripe, suspClock, suspSecond, suspEvents, suspUpward, suspAcked, suspTenant, suspFits,
    suspLedger, suspHandler, suspActivation, suspActivated, suspSwitches, suspFaults, buySession,
    buyMatches, buyRefunds, buyUnacked, buyEntitled, buyPurchase, buyGrants,
    buyTerminal, buyRecords, buyHandler, buySwitches, buyFaults, cancelTenant,
    cancelStripe, cancelKeys, cancelEvents, cancelIntent, cancelAudits, cancelProc,
    cancelTold, cancelOps, cancelHolds, cancelResumes, cancelFaults, cancelStalls,
    stallTenant, stallStripe, stallKeys, stallEvents, stallIntent, stallAudits,
    stallProc, stallTold, stallOps, stallHolds, stallResumes, stallFaults, stallStalls,
    replTenant, replStripe, replKeys, replEvents, replIntent, replAudits, replProc,
    replTold, replOps, replHolds, replResumes, replFaults, replStalls, delTenant,
    delBarrier, delRow, delPurges, delClient, delSessions, delSubs, delCheckout,
    delUndoing, delProc, delFaults, delStalls, usageNow, usageStaff, usageRow, usageWorker,
    usageAccepted, usageRejected, usageReport, usageHandler, usageFaults, unnamedNow,
    unnamedStaff, unnamedRow, unnamedWorker, unnamedAccepted, unnamedRejected,
    unnamedReport, unnamedHandler, unnamedFaults

Sync == INSTANCE SubscriptionSync WITH
    Subs <- SyncSubs, Handlers <- SyncHandlers, None <- None, Unlisted <- SyncUnlisted,
    MaxChanges <- SyncMaxChanges, MaxSwitches <- SyncMaxSwitches, MaxFaults <-
    SyncMaxFaults, stripe <- syncStripe, clock <- syncClock, second <- syncSecond, events <- syncEvents,
    upward <- syncUpward, acked <- syncAcked, tenant <- syncTenant, fits <- syncFits,
    ledger <- syncLedger, handler <- syncHandler, activation <- syncActivation, activated <- syncActivated, switches
    <- syncSwitches, faults <- syncFaults

syncVars == <<syncStripe, syncClock, syncSecond, syncEvents, syncUpward, syncAcked, syncTenant,
    syncFits, syncLedger, syncHandler, syncActivation, syncActivated, syncSwitches, syncFaults>>

Suspended == INSTANCE SubscriptionSync WITH
    Subs <- SuspSubs, Handlers <- SuspHandlers, None <- None, Unlisted <- SuspUnlisted,
    MaxChanges <- SuspMaxChanges, MaxSwitches <- SuspMaxSwitches, MaxFaults <-
    SuspMaxFaults, stripe <- suspStripe, clock <- suspClock, second <- suspSecond, events <- suspEvents,
    upward <- suspUpward, acked <- suspAcked, tenant <- suspTenant, fits <- suspFits,
    ledger <- suspLedger, handler <- suspHandler, activation <- suspActivation, activated <- suspActivated, switches
    <- suspSwitches, faults <- suspFaults

suspVars == <<suspStripe, suspClock, suspSecond, suspEvents, suspUpward, suspAcked, suspTenant,
    suspFits, suspLedger, suspHandler, suspActivation, suspActivated, suspSwitches, suspFaults>>

Purchase == INSTANCE CreditPurchase WITH
    Sessions <- BuySessions, Handlers <- BuyHandlers, None <- None, MaxAttempts <-
    BuyMaxAttempts, MaxSwitches <- BuyMaxSwitches, MaxFaults <- BuyMaxFaults, session <-
    buySession, matches <- buyMatches, refunds <- buyRefunds, unacked <- buyUnacked,
    entitled <- buyEntitled, purchase <- buyPurchase, grants <- buyGrants, terminal <-
    buyTerminal, records <- buyRecords, handler <- buyHandler, switches <- buySwitches,
    faults <- buyFaults

buyVars == <<buySession, buyMatches, buyRefunds, buyUnacked, buyEntitled, buyPurchase,
    buyGrants, buyTerminal, buyRecords, buyHandler, buySwitches, buyFaults>>

Cancel == INSTANCE TenantCancellation WITH
    Subs <- CancelSubs, Procs <- CancelProcs, None <- None, MaxOps <- CancelMaxOps,
    MaxHolds <- CancelMaxHolds, MaxPeriods <- CancelMaxPeriods, MaxResumes <-
    CancelMaxResumes, MaxFaults <- CancelMaxFaults, MaxStalls <- CancelMaxStalls, tenant
    <- cancelTenant, stripe <- cancelStripe, keys <- cancelKeys, events <- cancelEvents,
    intent <- cancelIntent, audits <- cancelAudits, proc <- cancelProc, told <-
    cancelTold, ops <- cancelOps, holds <- cancelHolds, resumes <- cancelResumes, faults
    <- cancelFaults, stalls <- cancelStalls

cancelVars == <<cancelTenant, cancelStripe, cancelKeys, cancelEvents, cancelIntent,
    cancelAudits, cancelProc, cancelTold, cancelOps, cancelHolds, cancelResumes,
    cancelFaults, cancelStalls>>

Stalled == INSTANCE TenantCancellation WITH
    Subs <- StallSubs, Procs <- StallProcs, None <- None, MaxOps <- StallMaxOps,
    MaxHolds <- StallMaxHolds, MaxPeriods <- StallMaxPeriods, MaxResumes <-
    StallMaxResumes, MaxFaults <- StallMaxFaults, MaxStalls <- StallMaxStalls, tenant <-
    stallTenant, stripe <- stallStripe, keys <- stallKeys, events <- stallEvents, intent
    <- stallIntent, audits <- stallAudits, proc <- stallProc, told <- stallTold, ops <-
    stallOps, holds <- stallHolds, resumes <- stallResumes, faults <- stallFaults,
    stalls <- stallStalls

stallVars == <<stallTenant, stallStripe, stallKeys, stallEvents, stallIntent,
    stallAudits, stallProc, stallTold, stallOps, stallHolds, stallResumes, stallFaults,
    stallStalls>>

Replaced == INSTANCE TenantCancellation WITH
    Subs <- ReplSubs, Procs <- ReplProcs, None <- None, MaxOps <- ReplMaxOps, MaxHolds
    <- ReplMaxHolds, MaxPeriods <- ReplMaxPeriods, MaxResumes <- ReplMaxResumes,
    MaxFaults <- ReplMaxFaults, MaxStalls <- ReplMaxStalls, tenant <- replTenant, stripe
    <- replStripe, keys <- replKeys, events <- replEvents, intent <- replIntent, audits
    <- replAudits, proc <- replProc, told <- replTold, ops <- replOps, holds <-
    replHolds, resumes <- replResumes, faults <- replFaults, stalls <- replStalls

replVars == <<replTenant, replStripe, replKeys, replEvents, replIntent, replAudits,
    replProc, replTold, replOps, replHolds, replResumes, replFaults, replStalls>>

Delete == INSTANCE TenantDeletion WITH
    Procs <- DelProcs, Sessions <- DelSessions, Intakes <- DelIntakes, None <- None,
    MaxFaults <- DelMaxFaults, MaxStalls <- DelMaxStalls, tenant <- delTenant, barrier
    <- delBarrier, row <- delRow, purges <- delPurges, client <- delClient, sessions <-
    delSessions, subs <- delSubs, checkout <- delCheckout, undoing <- delUndoing,
    proc <- delProc, faults <- delFaults, stalls <- delStalls

delVars == <<delTenant, delBarrier, delRow, delPurges, delClient, delSessions, delSubs,
    delCheckout, delUndoing, delProc, delFaults, delStalls>>

Usage == INSTANCE UsageMetering WITH
    Workers <- UsageWorkers, Reports <- UsageReports, None <- None, NumPeriods <-
    UsageNumPeriods, MaxStaff <- UsageMaxStaff, MaxAttempts <- UsageMaxAttempts,
    MaxReplays <- UsageMaxReplays, MaxFaults <- UsageMaxFaults, Incomplete <- FALSE, now
    <- usageNow, staff <- usageStaff, row <- usageRow, worker <- usageWorker, accepted
    <- usageAccepted, rejected <- usageRejected, report <- usageReport, handler <-
    usageHandler, faults <- usageFaults

usageVars == <<usageNow, usageStaff, usageRow, usageWorker, usageAccepted,
    usageRejected, usageReport, usageHandler, usageFaults>>

Unnamed == INSTANCE UsageMetering WITH
    Workers <- UnnamedWorkers, Reports <- UnnamedReports, None <- None, NumPeriods <-
    UnnamedNumPeriods, MaxStaff <- UnnamedMaxStaff, MaxAttempts <- UnnamedMaxAttempts,
    MaxReplays <- UnnamedMaxReplays, MaxFaults <- UnnamedMaxFaults, Incomplete <- TRUE,
    now <- unnamedNow, staff <- unnamedStaff, row <- unnamedRow, worker <-
    unnamedWorker, accepted <- unnamedAccepted, rejected <- unnamedRejected, report <-
    unnamedReport, handler <- unnamedHandler, faults <- unnamedFaults

unnamedVars == <<unnamedNow, unnamedStaff, unnamedRow, unnamedWorker, unnamedAccepted,
    unnamedRejected, unnamedReport, unnamedHandler, unnamedFaults>>

\* Every component is given constants it is meant for.
ASSUME BillingAssumption ==
    /\ Sync!SyncAssumption
    /\ Suspended!SyncAssumption
    /\ Purchase!PurchaseAssumption
    /\ Cancel!CancellationAssumption
    /\ Stalled!CancellationAssumption
    /\ Replaced!CancellationAssumption
    /\ Delete!DeletionAssumption
    /\ Usage!UsageAssumption
    /\ Unnamed!UsageAssumption

\* A behaviour moves one component; the others keep one initial state.
MCInit ==
    /\ scope \in {"checkouts", "webhooks", "suspensions", "purchases", "cancellations", "stalls", "replacements", "deletions", "usage", "unnamed"}
    /\ Init
    /\ Sync!Init /\ (scope = "webhooks" \/ syncUpward)
    /\ Suspended!Init /\ (scope = "suspensions" \/ suspUpward)
    /\ Purchase!Init /\ (scope = "purchases" \/ buyMatches = {})
    /\ Cancel!Init
    /\ Stalled!Init
    /\ Replaced!Init /\ (scope = "replacements" \/ replTenant.sub = s1)
    /\ Delete!Init /\ (scope = "deletions" \/ delTenant.customer)
    /\ Usage!Init
    /\ Unnamed!Init

MCNext ==
    \/ /\ scope = "checkouts"
       /\ Next
       /\ UNCHANGED <<scope, syncVars, suspVars, buyVars, cancelVars, stallVars,
                       replVars, delVars, usageVars, unnamedVars>>
    \/ /\ scope = "webhooks"
       /\ Sync!Next
       /\ UNCHANGED <<scope, checkoutVars, suspVars, buyVars, cancelVars, stallVars,
                       replVars, delVars, usageVars, unnamedVars>>
    \/ /\ scope = "suspensions"
       /\ Suspended!Next
       /\ UNCHANGED <<scope, checkoutVars, syncVars, buyVars, cancelVars, stallVars,
                       replVars, delVars, usageVars, unnamedVars>>
    \/ /\ scope = "purchases"
       /\ Purchase!Next
       /\ UNCHANGED <<scope, checkoutVars, syncVars, suspVars, cancelVars, stallVars,
                       replVars, delVars, usageVars, unnamedVars>>
    \/ /\ scope = "cancellations"
       /\ Cancel!Next
       /\ UNCHANGED <<scope, checkoutVars, syncVars, suspVars, buyVars, stallVars,
                       replVars, delVars, usageVars, unnamedVars>>
    \/ /\ scope = "stalls"
       /\ Stalled!Next
       /\ UNCHANGED <<scope, checkoutVars, syncVars, suspVars, buyVars, cancelVars,
                       replVars, delVars, usageVars, unnamedVars>>
    \/ /\ scope = "replacements"
       /\ Replaced!Next
       /\ UNCHANGED <<scope, checkoutVars, syncVars, suspVars, buyVars, cancelVars,
                       stallVars, delVars, usageVars, unnamedVars>>
    \/ /\ scope = "deletions"
       /\ Delete!Next
       /\ UNCHANGED <<scope, checkoutVars, syncVars, suspVars, buyVars, cancelVars,
                       stallVars, replVars, usageVars, unnamedVars>>
    \/ /\ scope = "usage"
       /\ Usage!Next
       /\ UNCHANGED <<scope, checkoutVars, syncVars, suspVars, buyVars, cancelVars,
                       stallVars, replVars, delVars, unnamedVars>>
    \/ /\ scope = "unnamed"
       /\ Unnamed!Next
       /\ UNCHANGED <<scope, checkoutVars, syncVars, suspVars, buyVars, cancelVars,
                       stallVars, replVars, delVars, usageVars>>

mcVars ==
    <<scope, checkoutVars, syncVars, suspVars, buyVars, cancelVars, stallVars, replVars,
      delVars, usageVars, unnamedVars>>

MCSpec == MCInit /\ [][MCNext]_mcVars

\* Replicas, handlers and processes of a component are interchangeable.
MCSymmetry == Permutations({p1, p2})

-----------------------------------------------------------------------------
(* Properties. *)

\* Subscription webhooks: once an event of the newest change of the tenant's
\* subscription is applied the tenant shows that change, if no other fell in
\* its second and no administrator suspended or activated the tenant; and an
\* event is recorded once, whatever is delivered again or handled beside it.
SyncSafe ==
    /\ scope = "webhooks" => Sync!TypeOK /\ Sync!NewestEventDecides /\ Sync!EventAppliedOnce
    /\ scope = "suspensions" =>
          Suspended!TypeOK /\ Suspended!NewestEventDecides /\ Suspended!EventAppliedOnce

\* Credit purchases: a payment ends granted or refunded and not both, another
\* refund is asked for only when the earlier ones have failed, an answered
\* event leaves nothing owed, and a refund counts as confirmed only when Stripe
\* made it.
PurchaseSafe ==
    scope = "purchases" =>
        /\ Purchase!TypeOK /\ Purchase!OneOutcome /\ Purchase!RefundedOnce
        /\ Purchase!AnsweredIsSettled /\ Purchase!ConfirmedSucceeded

\* Steps at Stripe: a subscription that was deleted does not come back, unless
\* it was taken out in that very second, a tenant is bound to one subscription
\* at a time, no webhook activates a tenant beyond its capacity or past its
\* suspension, and credits are granted only for a verified, paid session of a
\* tenant that may buy them.
BillingSteps ==
    /\ Sync!DeletedStaysDeleted /\ Sync!BindingIsExclusive
    /\ Suspended!DeletedStaysDeleted /\ Suspended!ActivationIsAllowed
    /\ Purchase!GrantIsDue

\* Cancellation: what the customer was told is cancelled is scheduled or has
\* ended at Stripe (unless the customer took it back in the portal, or a
\* stalled compensation died before it restored it), an archive that a legal
\* hold stopped leaves nothing of its own scheduled (unless its owner stalled),
\* an archived tenant does not renew (unless its archive recorded that it
\* scheduled nothing), and each operation is audited once.  All parts are
\* checked with a failed call or crash, with a lease that runs out under its
\* owner, and with a subscription that is replaced.
CancellationSafe ==
    /\ scope = "cancellations" => Cancel!TypeOK /\ Cancel!Kept
    /\ scope = "stalls" => Stalled!TypeOK /\ Stalled!Kept
    /\ scope = "replacements" => Replaced!TypeOK /\ Replaced!Kept

\* Deletion: a purged tenant has no subscription that bills and no customer
\* the purge knew of, and a deletion is finalized once.
DeletionSafe ==
    scope = "deletions" => Delete!TypeOK /\ Delete!PurgedOwesNothing /\ Delete!FinalizedOnce

\* Usage: a period is reported with one value by whichever worker, attempt or
\* replay, what counts as sent was counted by Stripe, and what Stripe rejected
\* is repeated under a new identity; a report that leaves submissions unnamed
\* changes no value either.
UsageSafe ==
    /\ scope = "usage" =>
          Usage!TypeOK /\ Usage!OneValuePerPeriod /\ Usage!SentIsCounted /\ Usage!RepeatedAnew
    /\ scope = "unnamed" => Unnamed!TypeOK /\ Unnamed!OneValuePerPeriod
=============================================================================
