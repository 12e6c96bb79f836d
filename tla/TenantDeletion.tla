--------------------------- MODULE TenantDeletion -----------------------------
(***************************************************************************)
(* Deleting a tenant.  A request commits a barrier (SUSPENDED, with its    *)
(* audit and one reconciliation row) and claims the row with a lease and a *)
(* token; the request itself, or the reconciler of any replica, then clears *)
(* the tenant out of Stripe call by call: open checkouts are expired,      *)
(* subscriptions cancelled, the customer deleted, the bindings cleared.    *)
(* Only the owner of an unexpired claim makes the tenant PURGED.           *)
(*                                                                         *)
(* One tenant.  A checkout that began before the barrier may still be      *)
(* under way.  Stripe cancels the subscriptions of a customer it deletes,  *)
(* and neither creates nor completes a session for one.  An archive that a *)
(* legal hold stopped may still be undoing its cancellation when the       *)
(* barrier commits; when it then finds the subscription ended, it stores   *)
(* PAST_DUE over whatever the tenant has become.  The settlement of paid   *)
(* work inside the barrier is in the modules of that work.                 *)
(***************************************************************************)
EXTENDS Naturals, FiniteSets

CONSTANTS
    Procs,       \* requests and reconcilers
    Sessions,    \* checkout sessions
    Intakes,     \* privacy request references
    None,
    MaxFaults,   \* bound: failures and crashes
    MaxStalls    \* bound: leases that run out under their owner

DeletionAssumption ==
    /\ None \notin Procs \cup Sessions \cup Intakes \cup {"customer"}
    /\ {MaxFaults, MaxStalls} \subseteq Nat

VARIABLES
    tenant,    \* status, deletedAt, stripeCustomerId, stripeSubscriptionId
    barrier,   \* TENANT_DELETION_BARRIER_COMMITTED: its intake, or None
    row,       \* TenantDeletionBillingReconciliation
    purges,    \* AuditLog: TENANT_DELETION_REQUESTED_BY_...
    client,    \* Stripe: the customer
    sessions,  \* Stripe: checkout sessions
    subs,      \* Stripe: sessions whose subscription lives
    checkout,  \* the checkout request
    undoing,   \* the subscription whose archive is being undone, or None
    proc,      \* what each request or reconciler is doing
    faults, stalls

deletionVars == <<tenant, barrier, row, purges, client, sessions, subs, checkout, undoing,
                  proc, faults, stalls>>
atStripe == <<client, sessions, subs>>
records == <<tenant, barrier, row, purges, undoing>>
counters == <<faults, stalls>>

-----------------------------------------------------------------------------
\* ARCHIVED is CANCELLED with deletedAt, UNPURGED is PAST_DUE with deletedAt;
\* customer is the binding.
Tenant == [status : {"ACTIVE", "PAST_DUE", "ARCHIVED", "SUSPENDED", "PURGED", "UNPURGED"},
           customer : BOOLEAN, sub : Sessions \cup {None}]

\* by is the intake of the operator, "customer" for a customer's own request.
Barrier == [by : Intakes \cup {"customer", None}]

\* token counts the claims: each has a fresh owner and token.
Row == [state : {"none", "PENDING", "FINALIZED"}, token : Nat, leased : BOOLEAN,
        live : BOOLEAN, due : BOOLEAN]

AtStripe == {"customer", "list", "expire", "subs", "cancel", "delete"}
PC == AtStripe \cup {"idle", "barrier", "renew", "snapshot", "clear", "finalize", "failed"}
Proc == [pc : PC, token : Nat, customer : BOOLEAN, sub : Sessions \cup {None},
         todo : SUBSET Sessions]
Idle == [pc |-> "idle", token |-> 0, customer |-> FALSE, sub |-> None, todo |-> {}]

Open == {s \in Sessions : sessions[s] = "open"}
Pending == tenant.status = "SUSPENDED" /\ barrier.by # None
Fault == faults < MaxFaults /\ faults' = faults + 1

\* The exact owner and token, whether or not the lease has run out
Holds(p) == row.state = "PENDING" /\ row.leased /\ row.token = proc[p].token

\* assertExactReconciliationClaim, renewClaim
Owns(p) == Holds(p) /\ row.live

Goto(p, pc) == proc' = [proc EXCEPT ![p].pc = pc]

-----------------------------------------------------------------------------
(* The checkout of another request, and Stripe. *)

\* assertTenantCanStartCheckout
CanStart == tenant.status \in {"ACTIVE", "PAST_DUE"} /\ tenant.sub = None

StartCheckout ==
    /\ checkout = "idle" /\ CanStart
    /\ checkout' = IF tenant.customer THEN "session" ELSE "customer"
    /\ UNCHANGED <<records, atStripe, proc, counters>>

\* createCheckoutCustomerWithRecovery, under a stable idempotency key
CreateCustomer ==
    /\ checkout = "customer"
    /\ client' = IF client = "none" THEN "live" ELSE client
    /\ checkout' = "claim"
    /\ UNCHANGED <<records, sessions, subs, proc, counters>>

\* Mutant: claims the customer whatever became of the tenant.
ClaimAnyway ==
    /\ checkout = "claim"
    /\ tenant' = [tenant EXCEPT !.customer = TRUE] /\ checkout' = "session"
    /\ UNCHANGED <<barrier, row, purges, undoing, atStripe, proc, counters>>

\* claimCheckoutCustomerWithRecovery
ClaimCustomer ==
    /\ checkout = "claim"
    /\ IF CanStart
       THEN tenant' = [tenant EXCEPT !.customer = TRUE] /\ checkout' = "session"
       ELSE checkout' = "idle" /\ UNCHANGED tenant
    /\ UNCHANGED <<barrier, row, purges, undoing, atStripe, proc, counters>>

CreateSession(s) ==
    /\ checkout = "session" /\ sessions[s] = "none"
    /\ sessions' = IF client = "live" THEN [sessions EXCEPT ![s] = "open"] ELSE sessions
    /\ checkout' = "idle"
    /\ UNCHANGED <<records, client, subs, proc, counters>>

\* The customer pays on the hosted page.
Complete(s) ==
    /\ sessions[s] = "open" /\ client = "live"
    /\ sessions' = [sessions EXCEPT ![s] = "complete"]
    /\ subs' = subs \cup {s}
    /\ UNCHANGED <<records, client, checkout, proc, counters>>

\* markTenantActive: a tenant behind the barrier is left alone.
Bind(s) ==
    /\ s \in subs /\ tenant.status \in {"ACTIVE", "PAST_DUE"} /\ tenant.customer
    /\ tenant.sub = None
    /\ tenant' = [tenant EXCEPT !.sub = s, !.status = "ACTIVE"]
    /\ UNCHANGED <<barrier, row, purges, undoing, atStripe, checkout, proc, counters>>

\* finalize of an archive, while no other is being undone
ArchiveTenant ==
    /\ tenant.status \in {"ACTIVE", "PAST_DUE"} /\ undoing = None
    /\ tenant' = [tenant EXCEPT !.status = "ARCHIVED"]
    /\ UNCHANGED <<barrier, row, purges, undoing, atStripe, checkout, proc, counters>>

\* markProviderApplied: a legal hold has won against the archive.
HoldWins ==
    /\ tenant.status = "ACTIVE" /\ tenant.sub # None /\ undoing = None
    /\ undoing' = tenant.sub
    /\ UNCHANGED <<tenant, barrier, row, purges, atStripe, checkout, proc, counters>>

\* markCompensated looks neither for the barrier nor at the binding.
MarkCompensated ==
    /\ undoing # None
    /\ undoing' = None
    /\ tenant' = IF undoing \in subs THEN tenant
                 ELSE [tenant EXCEPT !.sub = None,
                          !.status = IF tenant.status = "PURGED" THEN "UNPURGED" ELSE "PAST_DUE"]
    /\ UNCHANGED <<barrier, row, purges, atStripe, checkout, proc, counters>>

-----------------------------------------------------------------------------
(* The barrier and the claim. *)

\* claimPendingDeletionBillingCandidateInTransaction
Claimable(r) == r.state = "PENDING" /\ r.due /\ (~r.leased \/ ~r.live)

Claimed(r) == [r EXCEPT !.token = @ + 1, !.leased = TRUE, !.live = TRUE]

\* Claims r in the transaction that wrote it, or leaves it and answers "pending".
ClaimOrAnswer(p, r) ==
    IF Claimable(r)
    THEN /\ row' = Claimed(r)
         /\ proc' = [proc EXCEPT ![p] = [Idle EXCEPT !.pc = "renew", !.token = r.token + 1]]
    ELSE row' = r /\ UNCHANGED proc

\* ensureReconciliationState: inserted once, ON CONFLICT DO NOTHING
EnsuredRow == IF row.state # "none" THEN row
              ELSE [state |-> "PENDING", token |-> 0, leased |-> FALSE, live |-> FALSE,
                    due |-> TRUE]

\* The intake of an operator: an archived tenant, or the request on record
Admitted(by) == by = "customer" \/ (IF barrier.by = None THEN tenant.status = "ARCHIVED"
                                    ELSE by = barrier.by)

\* requestDeletionForTarget; a PURGED tenant is only told so, and a request
\* that does not match the row of an earlier one is a conflict.
RequestDeletion(p, by) ==
    /\ proc[p].pc = "idle" /\ tenant.status # "PURGED" /\ Admitted(by)
    /\ by = "customer" => tenant.status # "ARCHIVED"
    /\ Pending \/ barrier.by = None
    /\ IF Pending
       THEN UNCHANGED <<tenant, barrier>>
       ELSE /\ tenant' = [tenant EXCEPT !.status = "SUSPENDED"]
            /\ barrier' = [by |-> by]
    /\ ClaimOrAnswer(p, EnsuredRow)
    /\ UNCHANGED <<purges, undoing, atStripe, checkout, counters>>

\* performSweep: claimEligibleDeletionBillingCandidates
Sweep(p) ==
    /\ proc[p].pc = "idle" /\ tenant.status = "SUSPENDED" /\ Claimable(row)
    /\ row' = Claimed(row)
    /\ proc' = [proc EXCEPT ![p] = [Idle EXCEPT !.pc = "barrier", !.token = row.token + 1]]
    /\ UNCHANGED <<tenant, barrier, purges, undoing, atStripe, checkout, counters>>

\* reconcileClaimedDeletionBillingCandidate: readPendingDeletionBarrier
ReadBarrier(p) ==
    /\ proc[p].pc = "barrier"
    /\ Goto(p, IF Pending THEN "renew" ELSE "failed")
    /\ UNCHANGED <<records, atStripe, checkout, counters>>

\* The renewal before the first call to Stripe
Renew(p) ==
    /\ proc[p].pc = "renew"
    /\ Goto(p, IF Owns(p) THEN "snapshot" ELSE "failed")
    /\ UNCHANGED <<records, atStripe, checkout, counters>>

-----------------------------------------------------------------------------
(* finalizeTenantBillingForPurge *)

Snapshot(p) ==
    /\ proc[p].pc = "snapshot"
    /\ proc' = [proc EXCEPT ![p] =
           [@ EXCEPT !.customer = tenant.customer, !.sub = tenant.sub,
                     !.pc = IF tenant.status \notin {"SUSPENDED", "PURGED"} THEN "failed"
                            ELSE IF tenant.customer THEN "customer"
                            ELSE IF tenant.sub = None THEN "finalize" ELSE "failed"]]
    /\ UNCHANGED <<records, atStripe, checkout, counters>>

RetrieveCustomer(p) ==
    /\ proc[p].pc = "customer"
    /\ Goto(p, IF client = "deleted" THEN "clear" ELSE "list")
    /\ UNCHANGED <<records, atStripe, checkout, counters>>

ListSessions(p) ==
    /\ proc[p].pc = "list"
    /\ proc' = [proc EXCEPT ![p].pc = "expire", ![p].todo = Open]
    /\ UNCHANGED <<records, atStripe, checkout, counters>>

\* expirePurgeCheckoutSession: a session that was completed stops the attempt.
ExpireSession(p, s) ==
    /\ proc[p].pc = "expire" /\ s \in proc[p].todo
    /\ IF sessions[s] = "complete"
       THEN Goto(p, "failed") /\ UNCHANGED sessions
       ELSE /\ sessions' = [sessions EXCEPT ![s] = "expired"]
            /\ proc' = [proc EXCEPT ![p].todo = @ \ {s}]
    /\ UNCHANGED <<records, client, subs, checkout, counters>>

SessionsDone(p) ==
    /\ proc[p].pc = "expire" /\ proc[p].todo = {}
    /\ Goto(p, "subs")
    /\ UNCHANGED <<records, atStripe, checkout, counters>>

\* Every subscription of the customer, and the bound one
ListSubscriptions(p) ==
    /\ proc[p].pc = "subs"
    /\ proc' = [proc EXCEPT ![p].pc = "cancel", ![p].todo = subs \cup ({proc[p].sub} \ {None})]
    /\ UNCHANGED <<records, atStripe, checkout, counters>>

\* One that has ended meanwhile is read back and accepted.
CancelSubscription(p, s) ==
    /\ proc[p].pc = "cancel" /\ s \in proc[p].todo
    /\ subs' = subs \ {s}
    /\ proc' = [proc EXCEPT ![p].todo = @ \ {s}]
    /\ UNCHANGED <<records, client, sessions, checkout, counters>>

SubscriptionsDone(p) ==
    /\ proc[p].pc = "cancel" /\ proc[p].todo = {}
    /\ Goto(p, "delete")
    /\ UNCHANGED <<records, atStripe, checkout, counters>>

\* deletePurgeCustomer
DeleteCustomer(p) ==
    /\ proc[p].pc = "delete"
    /\ client' = "deleted" /\ subs' = {}
    /\ Goto(p, "clear")
    /\ UNCHANGED <<records, sessions, checkout, counters>>

\* clearPurgeBillingBindings
ClearBindings(p) ==
    /\ proc[p].pc = "clear"
    /\ IF tenant.status \in {"SUSPENDED", "PURGED"}
       THEN /\ tenant' = IF tenant.customer
                         THEN [tenant EXCEPT !.customer = FALSE, !.sub = None] ELSE tenant
            /\ Goto(p, "finalize")
       ELSE Goto(p, "failed") /\ UNCHANGED tenant
    /\ UNCHANGED <<barrier, row, purges, undoing, atStripe, checkout, counters>>

\* finalizeDeletionBarrier; markReconciliationFinalized drops the lease.
Finalize(p) ==
    /\ proc[p].pc = "finalize"
    /\ IF Owns(p) /\ tenant.status \in {"SUSPENDED", "PURGED"}
       THEN /\ tenant' = [tenant EXCEPT !.status = "PURGED", !.sub = None]
            /\ purges' = IF tenant.status = "PURGED" THEN purges ELSE purges + 1
            /\ row' = [row EXCEPT !.state = "FINALIZED", !.leased = FALSE, !.live = FALSE]
            /\ proc' = [proc EXCEPT ![p] = Idle]
       ELSE Goto(p, "failed") /\ UNCHANGED <<tenant, purges, row>>
    /\ UNCHANGED <<barrier, undoing, atStripe, checkout, counters>>

-----------------------------------------------------------------------------
(* Failures. *)

\* recordReconciliationFailure
RecordFailure(p) ==
    /\ proc[p].pc = "failed"
    /\ row' = IF Holds(p) THEN [row EXCEPT !.leased = FALSE, !.live = FALSE, !.due = FALSE]
              ELSE row
    /\ proc' = [proc EXCEPT ![p] = Idle]
    /\ UNCHANGED <<tenant, barrier, purges, undoing, atStripe, checkout, counters>>

\* A call fails, the deadline passes, or the replica is told to stop.  The
\* call under way has ended before the claim is given up.
AttemptFails(p) ==
    /\ proc[p].pc \notin {"idle", "failed"} /\ Fault
    /\ Goto(p, "failed")
    /\ UNCHANGED <<records, atStripe, checkout, stalls>>

\* withClaimHeartbeat: the heartbeat finds the claim gone and aborts.
ClaimLost(p) ==
    /\ proc[p].pc \in AtStripe /\ ~Owns(p)
    /\ Goto(p, "failed")
    /\ UNCHANGED <<records, atStripe, checkout, counters>>

Crash(p) ==
    /\ proc[p].pc # "idle" /\ Fault
    /\ proc' = [proc EXCEPT ![p] = Idle]
    /\ UNCHANGED <<records, atStripe, checkout, stalls>>

Orphaned == row.leased /\ row.live
            /\ \A p \in Procs : proc[p].pc # "idle" => proc[p].token # row.token

\* The lease runs out once nothing renews it, or under a stalled owner.
LeaseExpires ==
    /\ row.leased /\ row.live
    /\ IF Orphaned THEN UNCHANGED stalls ELSE stalls < MaxStalls /\ stalls' = stalls + 1
    /\ row' = [row EXCEPT !.live = FALSE]
    /\ UNCHANGED <<tenant, barrier, purges, undoing, atStripe, checkout, proc, faults>>

BackoffPasses ==
    /\ row.state = "PENDING" /\ ~row.due
    /\ row' = [row EXCEPT !.due = TRUE]
    /\ UNCHANGED <<tenant, barrier, purges, undoing, atStripe, checkout, proc, counters>>

-----------------------------------------------------------------------------
Init ==
    /\ tenant \in {[status |-> "ACTIVE", customer |-> c, sub |-> None] : c \in BOOLEAN}
    /\ barrier = [by |-> None]
    /\ row = [state |-> "none", token |-> 0, leased |-> FALSE, live |-> FALSE, due |-> FALSE]
    /\ purges = 0
    /\ client = IF tenant.customer THEN "live" ELSE "none"
    /\ sessions = [s \in Sessions |-> "none"] /\ subs = {}
    /\ checkout = "idle" /\ undoing = None /\ proc = [p \in Procs |-> Idle]
    /\ faults = 0 /\ stalls = 0

Attempt(p) ==
    \/ ReadBarrier(p) \/ Renew(p) \/ Snapshot(p) \/ RetrieveCustomer(p) \/ ListSessions(p)
    \/ \E s \in Sessions : ExpireSession(p, s) \/ CancelSubscription(p, s)
    \/ SessionsDone(p) \/ ListSubscriptions(p) \/ SubscriptionsDone(p)
    \/ DeleteCustomer(p) \/ ClearBindings(p) \/ Finalize(p) \/ RecordFailure(p)

Customer ==
    \/ StartCheckout \/ CreateCustomer \/ ClaimCustomer \/ ArchiveTenant \/ HoldWins
    \/ MarkCompensated
    \/ \E s \in Sessions : CreateSession(s) \/ Complete(s) \/ Bind(s)

Next ==
    \/ Customer \/ LeaseExpires \/ BackoffPasses
    \/ \E p \in Procs :
          \/ Attempt(p) \/ Sweep(p) \/ AttemptFails(p) \/ ClaimLost(p) \/ Crash(p)
          \/ \E by \in Intakes \cup {"customer"} : RequestDeletion(p, by)

Spec == Init /\ [][Next]_deletionVars

\* The reconciler of every replica polls, its calls are answered or time out,
\* and clocks advance.
Fairness ==
    /\ WF_deletionVars(LeaseExpires /\ UNCHANGED stalls) /\ WF_deletionVars(BackoffPasses)
    /\ \A p \in Procs : WF_deletionVars(Attempt(p)) /\ WF_deletionVars(Sweep(p))

FairSpec == Spec /\ Fairness

-----------------------------------------------------------------------------
TypeOK ==
    /\ tenant \in Tenant /\ barrier \in Barrier /\ row \in Row /\ purges \in Nat
    /\ client \in {"none", "live", "deleted"}
    /\ sessions \in [Sessions -> {"none", "open", "complete", "expired"}]
    /\ subs \subseteq Sessions
    /\ checkout \in {"idle", "customer", "claim", "session"} /\ undoing \in Sessions \cup {None}
    /\ proc \in [Procs -> Proc]
    /\ {faults, stalls} \subseteq Nat

Purged == tenant.status \in {"PURGED", "UNPURGED"}

\* A purged tenant is bound to nothing at Stripe, pays for nothing there and
\* can start paying for nothing, whatever checkout was under way at the
\* barrier and however many attempts the cleanup took; also when a late
\* compensation has stored PAST_DUE over the purge.
PurgedOwesNothing ==
    Purged =>
        /\ ~tenant.customer /\ tenant.sub = None
        /\ subs = {} /\ (client = "live" => Open = {})

\* Deletion is recorded once: the tenant was made PURGED exactly when the row
\* is FINALIZED, with one audit, however many owners the row has had.
FinalizedOnce ==
    /\ Purged = (row.state = "FINALIZED")
    /\ purges = IF Purged THEN 1 ELSE 0

\* While no owner is stalled, the calls of two attempts never overlap at
\* Stripe: a claim is only given up when its call has ended.
NoOverlap == Cardinality({p \in Procs : proc[p].pc \in AtStripe}) <= 1

\* Once requested, a deletion ends in PURGED, unless a compensation has taken
\* the tenant out of SUSPENDED, after which nobody goes on with the deletion
\* (README.md, section 6).
DeletionCompletes == (row.state = "PENDING") ~> (Purged \/ tenant.status # "SUSPENDED")

\* A purged tenant stays purged.
\* Does not hold: see README.md, section 6.
PurgeStands == [][tenant.status = "PURGED" => tenant'.status = "PURGED"]_deletionVars

\* billing/README.md: cleanup "deletes the Customer to remove provider-side PII".
NoCustomerRemains == tenant.status = "PURGED" => client # "live"
=============================================================================
