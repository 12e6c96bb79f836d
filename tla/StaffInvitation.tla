--------------------------- MODULE StaffInvitation ----------------------------
(***************************************************************************)
(* Staff invitation e-mails.  Inviting an employee writes an outbox row in *)
(* the transaction that creates the user; the worker's sweep claims due    *)
(* rows one at a time, locks tenant, user and row, hands the e-mail to the *)
(* provider under those locks and records the outcome.  Managers retry a   *)
(* failed row and reissue a dead one; triggers on User and Tenant cancel   *)
(* what is undelivered.                                                    *)
(*                                                                         *)
(* One employee, so one row.  A row has an id that a reissue replaces, and *)
(* the id is the provider's idempotency key.  Ids are numbered: a reissue  *)
(* key determines its id, and an invitation draws a fresh one.             *)
(***************************************************************************)
EXTENDS Integers, FiniteSets

CONSTANTS
    Workers,          \* worker processes, each a sequential sweep
    Addresses,        \* e-mail addresses the employee may have
    ReissueKeys,      \* Idempotency-Key values of reissue requests
    Invitations,      \* ids that invitations may draw
    None,
    MaxAttempts,      \* STAFF_INVITATION_MAX_ATTEMPTS
    MaxManualRetries, \* MAX_MANUAL_RETRIES
    MaxFaults,        \* bound: lost calls, crashes, early time-outs
    MaxSwitches       \* bound: changes of the employee and of the tenant

InvitationAssumption ==
    /\ ReissueKeys \cap Invitations = {}
    /\ None \notin ReissueKeys \cup Invitations \cup Workers \cup Addresses
    /\ MaxAttempts \in Nat \ {0}
    /\ MaxManualRetries \in Nat
    /\ MaxFaults \in Nat
    /\ MaxSwitches \in Nat

VARIABLES
    tenant,   \* ACTIVE, SUSPENDED or CANCELLED (deleted and PURGED alike)
    user,     \* the employee
    row,      \* StaffInvitationOutbox
    reissued, \* audit log: reissue keys that replaced the row
    inbox,    \* e-mails the provider accepted
    worker,   \* what each worker is doing
    used,     \* history: ids the row has had
    faults,
    switches

siVars == <<tenant, user, row, reissued, inbox, worker, used, faults, switches>>
bounds == <<faults, switches>>

-----------------------------------------------------------------------------
Ids == ReissueKeys \cup Invitations
Terminal == {"DELIVERED", "DEAD_LETTERED", "CANCELLED"}

\* due: retryAt is reached.  to: the recipient in the encrypted payload, which
\* a trigger erases in every terminal state.
Row == [id : Ids \cup {None},
        status : {"NONE", "PENDING", "SENDING", "FAILED"} \cup Terminal,
        attempts : 0 .. MaxAttempts, retries : 0 .. MaxManualRetries,
        due : BOOLEAN, owner : Workers \cup {None}, lease : {"none", "live", "ended"},
        to : Addresses \cup {None}]
NoRow == [id |-> None, status |-> "NONE", attempts |-> 0, retries |-> 0, due |-> FALSE,
          owner |-> None, lease |-> "none", to |-> None]

User == [state : {"none", "active", "suspended", "deleted"},
         email : Addresses \cup {None}, suppressed : BOOLEAN]

\* The transaction of deliver_if_eligible is open in the pcs of Open.
Open == {"sending", "accepted"}
Worker == [pc : {"idle", "claimed", "failing"} \cup Open, id : Ids \cup {None},
           attempts : 0 .. MaxAttempts, to : Addresses \cup {None}, permanent : BOOLEAN]
Idle == [pc |-> "idle", id |-> None, attempts |-> 0, to |-> None, permanent |-> FALSE]

Fault == /\ faults < MaxFaults
         /\ faults' = faults + 1
         /\ UNCHANGED switches
Switch == /\ switches < MaxSwitches
          /\ switches' = switches + 1
          /\ UNCHANGED faults

Return(w) == worker' = [worker EXCEPT ![w] = Idle]
Goto(w, pc) == worker' = [worker EXCEPT ![w].pc = pc]

\* FOR UPDATE locks on tenant, user and row while the provider is called.
Locked == \E w \in Workers : worker[w].pc \in Open

TenantOpen == tenant = "ACTIVE"
UserActive == user.state = "active"

\* pendingDeliveryData
PendingRow(id, a) == [NoRow EXCEPT !.id = id, !.status = "PENDING", !.due = TRUE, !.to = a]

\* Every terminal transition, with the trigger that scrubs it.
Ended(r, s) == [r EXCEPT !.status = s, !.due = FALSE, !.owner = None, !.lease = "none",
                         !.to = None]

\* A trigger or a deletion cancels what is undelivered.
Cancelled(r) == IF r.status \in {"PENDING", "SENDING", "FAILED"}
                THEN Ended(r, "CANCELLED") ELSE r

-----------------------------------------------------------------------------
(* Managers. *)

\* inviteUser with enqueueInTransaction.  A deletion erases the address by
\* which an archived user would be found again, so the user is a new one.
Invite(id, a) ==
    /\ user.state = "none"
    /\ user' = [state |-> "active", email |-> a, suppressed |-> FALSE]
    /\ row' = PendingRow(id, a)
    /\ used' = used \cup {id}
    /\ UNCHANGED <<tenant, reissued, inbox, worker, bounds>>

\* retryInTransaction, when it writes.
Retry ==
    /\ ~Locked
    /\ UserActive
    /\ row.status = "FAILED"
    /\ row.attempts < MaxAttempts
    /\ row.retries < MaxManualRetries
    /\ row' = [row EXCEPT !.status = "PENDING", !.retries = @ + 1, !.due = TRUE]
    /\ UNCHANGED <<tenant, user, reissued, inbox, worker, used, bounds>>

\* The key names the row that is there, or one that was replaced before.
KeyIsUsed(k) == k = row.id \/ k \in reissued

\* reissueInTransaction, when it writes.
Reissue(k) ==
    /\ ~Locked
    /\ ~KeyIsUsed(k)
    /\ UserActive
    /\ user.email # None
    /\ row.status = "DEAD_LETTERED"
    /\ row' = PendingRow(k, user.email)
    /\ reissued' = reissued \cup {k}
    /\ used' = used \cup {k}
    /\ UNCHANGED <<tenant, user, inbox, worker, bounds>>

-----------------------------------------------------------------------------
(* The worker. *)

\* Mutant: an expired lease is not due.
DueWaiting == row.status \in {"PENDING", "FAILED"} /\ row.due

\* _due_predicate
Due == \/ row.status \in {"PENDING", "FAILED"} /\ row.due
       \/ row.status = "SENDING" /\ row.lease = "ended"

\* _cancel_ineligible
MayCancel == Due /\ (~UserActive \/ ~TenantOpen)
\* _dead_letter_suppressed
MayBury == Due /\ UserActive /\ TenantOpen /\ user.suppressed
\* _terminalize_exhausted_due, _terminalize_expired_final_attempts
Exhausted == /\ row.attempts >= MaxAttempts
             /\ \/ row.status \in {"PENDING", "FAILED"}
                \/ row.status = "SENDING" /\ row.lease = "ended"

\* claim_batch: cancellations, then exhausted rows, then one claim.
ClaimBatch(w) ==
    /\ worker[w].pc = "idle"
    /\ ~Locked
    /\ \/ /\ MayCancel
          /\ row' = Ended(row, "CANCELLED")
          /\ UNCHANGED worker
       \/ /\ MayBury \/ (Exhausted /\ ~MayCancel)
          /\ row' = Ended(row, "DEAD_LETTERED")
          /\ UNCHANGED worker
       \/ /\ Due /\ ~MayCancel /\ ~MayBury /\ ~Exhausted
          /\ row' = [row EXCEPT !.status = "SENDING", !.attempts = @ + 1, !.due = FALSE,
                                !.owner = w, !.lease = "live"]
          /\ worker' = [worker EXCEPT ![w] =
                [Idle EXCEPT !.pc = "claimed", !.id = row.id, !.to = row.to,
                             !.attempts = row.attempts + 1]]
    /\ UNCHANGED <<tenant, user, reissued, inbox, used, bounds>>

\* The row still carries the claim of this worker.
Owns(w) == /\ row.id = worker[w].id
           /\ row.status = "SENDING"
           /\ row.attempts = worker[w].attempts
           /\ row.owner = w

\* _terminalize_owned: without the claim, InvitationLeaseLostError.
EndOwned(w, s) ==
    /\ row' = IF Owns(w) THEN Ended(row, s) ELSE row
    /\ Return(w)

\* deliver_if_eligible up to the provider.  A process is sequential, and its
\* clock is read before it waits for the locks: a lease that ends meanwhile
\* is noticed when another process has claimed the row.
Begin(w) ==
    LET current == UserActive /\ user.email = worker[w].to
    IN /\ worker[w].pc = "claimed"
       /\ ~Locked
       /\ \/ /\ ~TenantOpen \/ ~current
             /\ EndOwned(w, "CANCELLED")
          \/ /\ TenantOpen /\ current /\ user.suppressed
             /\ EndOwned(w, "DEAD_LETTERED")
          \/ /\ TenantOpen /\ current /\ ~user.suppressed
             /\ IF Owns(w) THEN Goto(w, "sending") ELSE Return(w)
             /\ UNCHANGED row
       /\ UNCHANGED <<tenant, user, reissued, inbox, used, bounds>>

\* The clock of deliver_if_eligible is past the end of the lease.
LeaseIsOver(w) ==
    /\ worker[w].pc = "claimed"
    /\ ~Locked
    /\ TenantOpen /\ UserActive /\ user.email = worker[w].to /\ ~user.suppressed
    /\ row.lease = "ended"
    /\ Return(w)
    /\ UNCHANGED <<tenant, user, row, reissued, inbox, used, bounds>>

\* provider_idempotency_key
IdempotencyKey(id, a) == id
Mail(id, a) == [key |-> IdempotencyKey(id, a), id |-> id, to |-> a]
Accepts(id, a) == \A m \in inbox : m.key = IdempotencyKey(id, a) => m.to = a

\* ResendInvitationProvider.send
Send(w) ==
    /\ worker[w].pc = "sending"
    /\ Accepts(worker[w].id, worker[w].to)
    /\ inbox' = inbox \cup {Mail(worker[w].id, worker[w].to)}
    /\ Goto(w, "accepted")
    /\ UNCHANGED <<tenant, user, row, reissued, used, bounds>>

\* A refusal for good (400, 422), any other failure, or a lost answer.
SendFails(w) ==
    /\ worker[w].pc = "sending"
    /\ \E permanent \in BOOLEAN :
          worker' = [worker EXCEPT ![w].pc = "failing", ![w].permanent = permanent]
    /\ \/ UNCHANGED inbox
       \/ /\ Accepts(worker[w].id, worker[w].to)
          /\ ~worker'[w].permanent
          /\ inbox' = inbox \cup {Mail(worker[w].id, worker[w].to)}
    /\ Fault
    /\ UNCHANGED <<tenant, user, row, reissued, used>>

Deliver(w) ==
    /\ worker[w].pc = "accepted"
    /\ row' = Ended(row, "DELIVERED")
    /\ Return(w)
    /\ UNCHANGED <<tenant, user, reissued, inbox, used, bounds>>

\* The payload is not authentic, or the database fails.
DeliveryFails(w) ==
    /\ worker[w].pc \in Open \cup {"claimed"}
    /\ \E permanent \in BOOLEAN :
          /\ permanent => worker[w].pc = "claimed"
          /\ worker' = [worker EXCEPT ![w].pc = "failing", ![w].permanent = permanent]
    /\ Fault
    /\ UNCHANGED <<tenant, user, row, reissued, inbox, used>>

\* deliver_invitation: PermanentInvitationError, or the last attempt.
GivesUp(w) == worker[w].permanent \/ worker[w].attempts >= MaxAttempts

\* mark_failed, which does not look at the lease.
MarkFailed(w) ==
    /\ worker[w].pc = "failing"
    /\ ~Locked
    /\ row' = IF ~Owns(w) THEN row
              ELSE IF GivesUp(w) THEN Ended(row, "DEAD_LETTERED")
              ELSE [row EXCEPT !.status = "FAILED", !.owner = None, !.lease = "none"]
    /\ Return(w)
    /\ UNCHANGED <<tenant, user, reissued, inbox, used, bounds>>

\* The process stops and starts again with another leaseOwner, or mark_failed
\* fails and ends the sweep.
WorkerStops(w) ==
    /\ worker[w].pc # "idle"
    /\ Return(w)
    /\ row' = [row EXCEPT !.owner = IF @ = w THEN None ELSE @]
    /\ Fault
    /\ UNCHANGED <<tenant, user, reissued, inbox, used>>

-----------------------------------------------------------------------------
(* Time, and the writers of user and tenant. *)

LeaseEnds ==
    /\ row.lease = "live"
    /\ row' = [row EXCEPT !.lease = "ended"]
    /\ IF \E w \in Workers : worker[w].pc # "idle" /\ Owns(w) THEN Fault ELSE UNCHANGED bounds
    /\ UNCHANGED <<tenant, user, reissued, inbox, worker, used>>

\* _retry_delay has passed.
RetryDue ==
    /\ row.status = "FAILED"
    /\ ~row.due
    /\ row' = [row EXCEPT !.due = TRUE]
    /\ UNCHANGED <<tenant, user, reissued, inbox, worker, used, bounds>>

\* A writer of the user, with cancel_user_staff_invitation_outbox.
ChangeUser(u) ==
    /\ ~Locked
    /\ user.state \in {"active", "suspended"}
    /\ u.state \in {"active", "suspended", "deleted"}
    /\ u # user
    /\ (u.state = "deleted") = (u.email = None)
    /\ u.state = "deleted" => ~u.suppressed
    /\ user' = u
    /\ row' = IF u.state # "active" \/ u.email # user.email THEN Cancelled(row) ELSE row
    /\ Switch
    /\ UNCHANGED <<tenant, reissued, inbox, worker, used>>

\* A writer of the tenant, with cancel_tenant_staff_invitation_outbox.
ChangeTenant(t) ==
    /\ ~Locked
    /\ t # tenant
    /\ tenant # "CANCELLED"
    /\ tenant' = t
    /\ row' = IF t = "CANCELLED" THEN Cancelled(row) ELSE row
    /\ Switch
    /\ UNCHANGED <<user, reissued, inbox, worker, used>>

-----------------------------------------------------------------------------
Init ==
    /\ tenant = "ACTIVE"
    /\ user = [state |-> "none", email |-> None, suppressed |-> FALSE]
    /\ row = NoRow
    /\ reissued = {}
    /\ inbox = {}
    /\ worker = [w \in Workers |-> Idle]
    /\ used = {}
    /\ faults = 0
    /\ switches = 0

Step(w) ==
    \/ ClaimBatch(w)
    \/ Begin(w)
    \/ LeaseIsOver(w)
    \/ Send(w)
    \/ SendFails(w)
    \/ Deliver(w)
    \/ DeliveryFails(w)
    \/ MarkFailed(w)
    \/ WorkerStops(w)

Next ==
    \/ \E id \in Invitations, a \in Addresses : Invite(id, a)
    \/ Retry
    \/ \E k \in ReissueKeys : Reissue(k)
    \/ \E w \in Workers : Step(w)
    \/ LeaseEnds
    \/ RetryDue
    \/ \E u \in User : ChangeUser(u)
    \/ \E t \in {"ACTIVE", "SUSPENDED", "CANCELLED"} : ChangeTenant(t)

Spec == Init /\ [][Next]_siVars

\* run_staff_invitation_outbox_loop sweeps for ever, and time passes.
Fairness ==
    /\ \A w \in Workers : WF_siVars(Step(w))
    /\ WF_siVars(LeaseEnds)
    /\ WF_siVars(RetryDue)

FairSpec == Spec /\ Fairness

-----------------------------------------------------------------------------
(* Properties. *)

\* Every variable has its type: attempts and manual retries stay in bounds.
TypeOK ==
    /\ tenant \in {"ACTIVE", "SUSPENDED", "CANCELLED"}
    /\ user \in User
    /\ row \in Row
    /\ worker \in [Workers -> Worker]

\* The provider accepts at most one e-mail for every delivery id, and no
\* id is given to two deliveries by any mix of invitations and reissues.
OneMailPerDelivery ==
    \A m, n \in inbox : m.id = n.id => m = n

\* An undelivered row belongs to an active account and names its address.
\* (Not so for the tenant: a request that passed its guard before the tenant
\* was cancelled may still write a row, which the sweep then cancels.)
LiveRowIsWanted ==
    row.status \in {"PENDING", "SENDING", "FAILED"} =>
        UserActive /\ user.email = row.to

\* An e-mail is handed over only under the current claim of the row, and to
\* an active employee of an open tenant at the address the row was made for.
ToEmployee ==
    \A m \in inbox' \ inbox :
        /\ TenantOpen /\ UserActive /\ ~user.suppressed /\ m.to = user.email
        /\ row.id = m.id /\ row.status = "SENDING" /\ row.to = m.to
MailGoesToEmployee == [][ToEmployee]_siVars

\* A row is delivered exactly when the provider took its e-mail, and ended
\* rows come back only as a new delivery with an id nobody used before.
EndsForGood ==
    /\ row'.status = "DELIVERED" /\ row.status # "DELIVERED" =>
          \E m \in inbox : m.id = row.id /\ m.to = row.to
    /\ row.status \in Terminal /\ row' # row => row'.id \notin used
DeliveredAndFinal == [][EndsForGood]_siVars

\* Under a live lease the row is changed only by its owner, by the end of the
\* lease or by a cancellation: a late worker cannot touch a newer claim.
ClaimIsKept ==
    row.lease = "live" /\ row' # row =>
        \/ row'.status = "CANCELLED"
        \/ row' = [row EXCEPT !.lease = "ended"]
        \/ \E w \in Workers :
              /\ row.owner = w /\ worker[w].attempts = row.attempts
              /\ worker[w].pc # "idle" /\ worker'[w].pc = "idle"
LeaseProtectsClaim == [][ClaimIsKept]_siVars

\* Every undelivered invitation ends, whatever crashes or is lost.
EveryInvitationEnds ==
    row.status \in {"PENDING", "SENDING", "FAILED"} ~> row.status \in Terminal

=============================================================================
