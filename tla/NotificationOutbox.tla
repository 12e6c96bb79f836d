--------------------------- MODULE NotificationOutbox ---------------------------
(***************************************************************************)
(* The notification outbox of the API.  The transaction that publishes a   *)
(* schedule writes one intent for every assigned employee.  After it, and  *)
(* in the sweep of every replica, a delivery claims a due intent, reads    *)
(* the recipient, and then opens one transaction that locks the tenant,    *)
(* the user and the intent, writes the feed entry, hands the e-mail to the *)
(* provider while the locks are held, and records the outcome.             *)
(*                                                                         *)
(* The outbox receives schedule publications only, so every intent is of   *)
(* type SCHEDULE_PUBLISHED, and the recipient of all intents is one user.  *)
(* A claim strictly raises attempts, so the number it sets also stands for *)
(* the exact leaseUntil that the code compares.  A renewed lease is only   *)
(* ever visible inside the transaction that renews it.                     *)
(***************************************************************************)
EXTENDS Integers, FiniteSets

CONSTANTS
    Intents,      \* dedupe keys schedule-published:<schedule>:<revision>:<user>
    Deliveries,   \* deliver() calls that may run at once, on any replica
    Addresses,    \* deliverable e-mail addresses
    NoAddress,    \* a missing or system-generated address
    Unread,       \* candidateEmail is undefined
    None,
    MaxAttempts,  \* NOTIFICATION_OUTBOX_MAX_ATTEMPTS
    MaxFaults,    \* bound: lost calls, contention, crashes, early time-outs
    MaxSwitches   \* bound: changes of the recipient and of the tenant, erasures

ASSUME NotificationAssumption ==
    /\ None \notin Intents
    /\ NoAddress \notin Addresses
    /\ Unread \notin Addresses \cup {NoAddress}
    /\ MaxAttempts \in Nat \ {0}
    /\ MaxFaults \in Nat
    /\ MaxSwitches \in Nat

VARIABLES
    tenantOpen, \* Tenant is neither deleted nor PURGED
    user,       \* the recipient
    outbox,     \* NotificationOutbox
    feed,       \* Notification: one possible entry for the id of every intent
    inbox,      \* e-mails the provider accepted, under which idempotency key
    delivery,   \* what each deliver() call is doing
    faults,
    switches

noVars == <<tenantOpen, user, outbox, feed, inbox, delivery, faults, switches>>
bounds == <<faults, switches>>

-----------------------------------------------------------------------------
\* Every claim ends in a failure that is counted or costs a fault or a switch.
MaxClaims == MaxAttempts + MaxFaults + MaxSwitches + 1

Ended == {"DELIVERED", "DEAD_LETTERED"}

\* due: nextAttemptAt is reached.  content: title and body are not erased.
Row == [status : {"NONE", "PENDING", "PROCESSING", "FAILED"} \cup Ended,
        attempts : 0 .. MaxClaims, failures : 0 .. MaxAttempts,
        lease : {"none", "live", "ended"}, due : BOOLEAN, content : BOOLEAN]
NoRow == [status |-> "NONE", attempts |-> 0, failures |-> 0, lease |-> "none",
          due |-> FALSE, content |-> FALSE]

User == [state : {"active", "suspended", "deleted"},
         email : Addresses \cup {NoAddress}, suppressed : BOOLEAN]

\* mail: candidateEmail.  handoff: the prepared handoff sends, or skips.
\* The transaction is open, and its locks are held, in the pcs of Open.
Open == {"sending", "accepted", "refused"}
Delivery == [pc : {"idle", "claimed", "prepared", "postpone", "failing"} \cup Open,
             i : Intents \cup {None}, attempts : 0 .. MaxClaims,
             mail : Addresses \cup {NoAddress, Unread},
             handoff : {"none", "skip", "send"}, failed : BOOLEAN]
Idle == [pc |-> "idle", i |-> None, attempts |-> 0, mail |-> Unread,
         handoff |-> "none", failed |-> FALSE]

Goto(d, pc) == delivery' = [delivery EXCEPT ![d].pc = pc]
Return(d) == delivery' = [delivery EXCEPT ![d] = Idle]
Put(i, r) == outbox' = [outbox EXCEPT ![i] = r]

Fault == /\ faults < MaxFaults
         /\ faults' = faults + 1
         /\ UNCHANGED switches

\* The FOR UPDATE lock of an open delivery transaction.
Locked(i) == \E d \in Deliveries : delivery[d].i = i /\ delivery[d].pc \in Open

\* Its FOR SHARE locks, which stop every writer of the tenant and the user.
RecipientLocked == \E d \in Deliveries : delivery[d].pc \in Open

\* The row still belongs to the claim this delivery made.
Owns(d) == LET r == outbox[delivery[d].i]
           IN r.status = "PROCESSING" /\ r.attempts = delivery[d].attempts
              /\ r.lease = "live"

Eligible == tenantOpen /\ user.state = "active"

-----------------------------------------------------------------------------
(* The publication, and the claims. *)

\* enqueueInTransaction: createMany with skipDuplicates.
Enqueue(i) ==
    /\ outbox[i].status = "NONE"
    /\ Eligible
    /\ Put(i, [NoRow EXCEPT !.status = "PENDING", !.due = TRUE, !.content = TRUE])
    /\ UNCHANGED <<tenantOpen, user, feed, inbox, delivery, bounds>>

Claimable(r) == \/ r.status \in {"PENDING", "FAILED"} /\ r.due
                \/ r.status = "PROCESSING" /\ r.lease = "ended"

\* claim, from the sweep or from deliverPendingNow (FOR UPDATE SKIP LOCKED).
Claim(d, i) ==
    /\ delivery[d].pc = "idle"
    /\ Claimable(outbox[i])
    /\ ~Locked(i)
    /\ outbox[i].attempts < MaxClaims
    /\ Put(i, [outbox[i] EXCEPT !.status = "PROCESSING", !.attempts = @ + 1,
                                !.lease = "live"])
    /\ delivery' = [delivery EXCEPT ![d] = [Idle EXCEPT !.pc = "claimed", !.i = i,
                                            !.attempts = outbox[i].attempts + 1]]
    /\ UNCHANGED <<tenantOpen, user, feed, inbox, bounds>>

-----------------------------------------------------------------------------
(* One delivery. *)

\* What prepare() decides from the address and the suppression it reads.
Prepared(u) == IF u.email = NoAddress \/ u.suppressed THEN "skip" ELSE "send"

\* The candidate is read, and the handoff prepared, before any lock is taken.
Prepare(d) ==
    /\ delivery[d].pc = "claimed"
    /\ delivery' = [delivery EXCEPT
         ![d].pc = "prepared",
         ![d].mail = IF user.state = "active" THEN user.email ELSE Unread,
         ![d].handoff = IF user.state = "active" THEN Prepared(user) ELSE "none"]
    /\ UNCHANGED <<tenantOpen, user, outbox, feed, inbox, bounds>>

\* preparationFailed: a failed read, or the deadline of the delivery.
PrepareFails(d) ==
    /\ delivery[d].pc = "claimed"
    /\ delivery' = [delivery EXCEPT ![d].pc = "prepared", ![d].failed = TRUE]
    /\ Fault
    /\ UNCHANGED <<tenantOpen, user, outbox, feed, inbox>>

FailedRow(r) ==
    IF r.failures + 1 >= MaxAttempts
    THEN [r EXCEPT !.status = "DEAD_LETTERED", !.failures = @ + 1, !.lease = "none",
                   !.due = FALSE, !.content = FALSE]
    ELSE [r EXCEPT !.status = "FAILED", !.failures = @ + 1, !.lease = "none",
                   !.due = FALSE]
DeliveredRow(r) == [r EXCEPT !.status = "DELIVERED", !.lease = "none", !.due = FALSE,
                             !.content = FALSE]
DeadRow(r) == [r EXCEPT !.status = "DEAD_LETTERED", !.lease = "none", !.due = FALSE,
                        !.content = FALSE]

\* The upsert of the feed entry, whose update changes nothing.
Fed(f) == IF f = "none" THEN "unread" ELSE f
Write(i) == feed' = [feed EXCEPT ![i] = Fed(feed[i])]

\* Mutant: the recipient is not compared before the handoff.
RecipientTrusted(d) == FALSE

\* The recipient is not the one the handoff was prepared for.
RecipientChanged(d) == ~delivery[d].failed /\ delivery[d].mail # user.email

\* assertPreparedRecipient: a handoff refuses an address it is not bound to.
HandoffRefuses(d) == delivery[d].handoff # "none" /\ delivery[d].mail # user.email

\* The transaction takes its locks: NOWAIT, so that it meets another open
\* delivery of the row, and any other holder of a lock, as an error.
LockUnavailable(d) ==
    /\ delivery[d].pc = "prepared"
    /\ \/ Locked(delivery[d].i) /\ UNCHANGED bounds
       \/ Fault
    /\ Goto(d, "postpone")
    /\ UNCHANGED <<tenantOpen, user, outbox, feed, inbox>>

OwnershipLost(d) ==
    /\ delivery[d].pc = "prepared"
    /\ ~Locked(delivery[d].i)
    /\ ~Owns(d)
    /\ Return(d)
    /\ UNCHANGED <<tenantOpen, user, outbox, feed, inbox, bounds>>

Begin(d) ==
    LET v == delivery[d]
        i == v.i
    IN /\ v.pc = "prepared"
       /\ ~Locked(i)
       /\ Owns(d)
       /\ \/ /\ ~Eligible
             /\ Put(i, DeadRow(outbox[i]))
             /\ Return(d)
             /\ UNCHANGED feed
          \/ /\ Eligible
             /\ RecipientChanged(d)
             /\ Goto(d, "postpone")
             /\ UNCHANGED <<outbox, feed>>
          \/ /\ Eligible
             /\ ~RecipientChanged(d)
             /\ v.failed
             /\ Put(i, FailedRow(outbox[i]))
             /\ Write(i)
             /\ Return(d)
          \/ /\ Eligible
             /\ ~RecipientChanged(d)
             /\ ~v.failed
             /\ v.handoff # "send" \/ user.suppressed
             /\ Put(i, IF HandoffRefuses(d) /\ ~user.suppressed THEN FailedRow(outbox[i])
                       ELSE DeliveredRow(outbox[i]))
             /\ Write(i)
             /\ Return(d)
          \/ /\ Eligible
             /\ ~RecipientChanged(d)
             /\ v.handoff = "send"
             /\ ~user.suppressed
             /\ Goto(d, IF HandoffRefuses(d) THEN "refused" ELSE "sending")
             /\ UNCHANGED <<outbox, feed>>
       /\ UNCHANGED <<tenantOpen, user, inbox, bounds>>

\* The idempotency identity of the e-mail is the id of the intent.
\* Mutant: the address is part of the identity.
KeyPerAddress(i, a) == <<i, a>>

IdempotencyKey(i, a) == i

\* The provider repeats its answer for a key it knows with this payload,
\* and refuses a key it knows with another one.
Known(i, a) == {m \in inbox : m.key = IdempotencyKey(i, a)}
Accepts(i, a) == \A m \in Known(i, a) : m.to = a
Mail(i, a) == [key |-> IdempotencyKey(i, a), intent |-> i, to |-> a]

\* The payload is the one that prepare() froze, its address included.
Send(d) ==
    LET i == delivery[d].i
        a == delivery[d].mail
    IN /\ delivery[d].pc = "sending"
       /\ IF Accepts(i, a)
          THEN /\ inbox' = inbox \cup {Mail(i, a)}
               /\ Goto(d, "accepted")
          ELSE /\ Goto(d, "refused")
               /\ UNCHANGED inbox
       /\ UNCHANGED <<tenantOpen, user, outbox, feed, bounds>>

\* The provider fails, or the deadline passes; the e-mail may have been taken.
SendFails(d) ==
    LET i == delivery[d].i
        a == delivery[d].mail
    IN /\ delivery[d].pc = "sending"
       /\ \/ UNCHANGED inbox
          \/ Accepts(i, a) /\ inbox' = inbox \cup {Mail(i, a)}
       /\ Goto(d, "refused")
       /\ Fault
       /\ UNCHANGED <<tenantOpen, user, outbox, feed>>

Commit(d) ==
    LET i == delivery[d].i
    IN /\ \/ delivery[d].pc = "accepted" /\ Put(i, DeliveredRow(outbox[i]))
          \/ delivery[d].pc = "refused" /\ Put(i, FailedRow(outbox[i]))
       /\ Write(i)
       /\ Return(d)
       /\ UNCHANGED <<tenantOpen, user, inbox, bounds>>

\* The renewed lease or the bookkeeping deadline ends: rolled back, in silence.
LeaseRunsOut(d) ==
    /\ delivery[d].pc \in Open
    /\ Return(d)
    /\ Fault
    /\ UNCHANGED <<tenantOpen, user, outbox, feed, inbox>>

\* Any other error of the transaction.
TransactionFails(d) ==
    /\ delivery[d].pc \in Open \cup {"prepared"}
    /\ Goto(d, "failing")
    /\ Fault
    /\ UNCHANGED <<tenantOpen, user, outbox, feed, inbox>>

\* postpone: the row is tried again in a second.
Postpone(d) ==
    LET i == delivery[d].i
    IN /\ delivery[d].pc = "postpone"
       /\ IF ~Locked(i) /\ Owns(d)
          THEN Put(i, [outbox[i] EXCEPT !.status = "FAILED", !.due = FALSE,
                                        !.lease = "none"])
          ELSE UNCHANGED outbox
       /\ Return(d)
       /\ UNCHANGED <<tenantOpen, user, feed, inbox, bounds>>

\* markFailed
MarkFailed(d) ==
    LET i == delivery[d].i
    IN /\ delivery[d].pc = "failing"
       /\ IF ~Locked(i) /\ Owns(d)
          THEN Put(i, FailedRow(outbox[i]))
          ELSE UNCHANGED outbox
       /\ Return(d)
       /\ UNCHANGED <<tenantOpen, user, feed, inbox, bounds>>

\* Either bookkeeping fails, which is logged; or the process stops, and the
\* database rolls back what was open.
DeliveryStops(d) ==
    /\ delivery[d].pc # "idle"
    /\ Return(d)
    /\ Fault
    /\ UNCHANGED <<tenantOpen, user, outbox, feed, inbox>>

-----------------------------------------------------------------------------
(* Time, the reader of the feed, and the writers of tenant and user. *)

\* A lease outlives the delivery that holds it unless that is slow.
LeaseEnds(i) ==
    /\ outbox[i].lease = "live"
    /\ Put(i, [outbox[i] EXCEPT !.lease = "ended"])
    /\ IF \E d \in Deliveries : /\ delivery[d].i = i
                                /\ delivery[d].attempts = outbox[i].attempts
       THEN Fault
       ELSE UNCHANGED bounds
    /\ UNCHANGED <<tenantOpen, user, feed, inbox, delivery>>

\* nextAttemptAt is reached (retryDelayMs, or a second after a postponement).
RetryDue(i) ==
    /\ outbox[i].status = "FAILED"
    /\ ~outbox[i].due
    /\ Put(i, [outbox[i] EXCEPT !.due = TRUE])
    /\ UNCHANGED <<tenantOpen, user, feed, inbox, delivery, bounds>>

\* markAsRead and markAllAsRead
MarkRead(i) ==
    /\ feed[i] = "unread"
    /\ feed' = [feed EXCEPT ![i] = "read"]
    /\ UNCHANGED <<tenantOpen, user, outbox, inbox, delivery, bounds>>

Switch == /\ switches < MaxSwitches
          /\ switches' = switches + 1
          /\ UNCHANGED faults

\* handleProviderEvent: a hard bounce or a complaint suppresses the address.
Suppress ==
    /\ ~RecipientLocked
    /\ user.state # "deleted"
    /\ user.email # NoAddress
    /\ ~user.suppressed
    /\ user' = [user EXCEPT !.suppressed = TRUE]
    /\ Switch
    /\ UNCHANGED <<tenantOpen, outbox, feed, inbox, delivery>>

\* setSuspended; or a new role or address.  A new address clears the suppression
\* (the trigger scrub_user_email_delivery_state).
ChangeUser(u) ==
    /\ ~RecipientLocked
    /\ user.state # "deleted"
    /\ u.state # "deleted"
    /\ u # user
    /\ u.suppressed = (user.suppressed /\ u.email = user.email)
    /\ user' = u
    /\ Switch
    /\ UNCHANGED <<tenantOpen, outbox, feed, inbox, delivery>>

NoRows == [i \in Intents |-> NoRow]
NoEntries == [i \in Intents |-> "none"]

\* anonymizeDeletedUser, and the triggers on deletedAt: the intents and the
\* feed of the user go in the transaction that deletes the account.
DeleteUser ==
    /\ ~RecipientLocked
    /\ user.state # "deleted"
    /\ user' = [state |-> "deleted", email |-> NoAddress, suppressed |-> FALSE]
    /\ outbox' = NoRows
    /\ feed' = NoEntries
    /\ Switch
    /\ UNCHANGED <<tenantOpen, inbox, delivery>>

\* The tenant is archived: its rows stay until the data is purged.
CloseTenant ==
    /\ ~RecipientLocked
    /\ tenantOpen
    /\ tenantOpen' = FALSE
    /\ Switch
    /\ UNCHANGED <<user, outbox, feed, inbox, delivery>>

\* purgeTenantApplicationData and purgeTenantOwnedRecords
PurgeTenantData ==
    /\ ~RecipientLocked
    /\ ~tenantOpen
    /\ outbox' = NoRows
    /\ feed' = NoEntries
    /\ Switch
    /\ UNCHANGED <<tenantOpen, user, inbox, delivery>>

-----------------------------------------------------------------------------
Init ==
    /\ tenantOpen = TRUE
    /\ user \in {u \in User : u.state = "active" /\ u.suppressed = FALSE}
    /\ outbox = NoRows
    /\ feed = NoEntries
    /\ inbox = {}
    /\ delivery = [d \in Deliveries |-> Idle]
    /\ faults = 0
    /\ switches = 0

Step(d) ==
    \/ Prepare(d)
    \/ PrepareFails(d)
    \/ LockUnavailable(d)
    \/ OwnershipLost(d)
    \/ Begin(d)
    \/ Send(d)
    \/ SendFails(d)
    \/ Commit(d)
    \/ LeaseRunsOut(d)
    \/ TransactionFails(d)
    \/ Postpone(d)
    \/ MarkFailed(d)
    \/ DeliveryStops(d)

Next ==
    \/ \E i \in Intents : Enqueue(i) \/ LeaseEnds(i) \/ RetryDue(i) \/ MarkRead(i)
    \/ \E d \in Deliveries, i \in Intents : Claim(d, i)
    \/ \E d \in Deliveries : Step(d)
    \/ Suppress
    \/ \E u \in User : ChangeUser(u)
    \/ DeleteUser
    \/ CloseTenant
    \/ PurgeTenantData

Spec == Init /\ [][Next]_noVars

\* A delivery that has started goes on, time passes, and the timer of every
\* replica (start, kick) sweeps again for as long as it runs.
Fairness ==
    /\ \A i \in Intents : WF_noVars(LeaseEnds(i)) /\ WF_noVars(RetryDue(i))
    /\ \A i \in Intents : SF_noVars(\E d \in Deliveries : Claim(d, i))
    /\ \A d \in Deliveries : WF_noVars(Step(d))

FairSpec == Spec /\ Fairness

-----------------------------------------------------------------------------
(* Properties. *)

\* Every variable has its type, and MaxClaims is never what stops a claim.
TypeOK ==
    /\ tenantOpen \in BOOLEAN
    /\ user \in User
    /\ outbox \in [Intents -> Row]
    /\ feed \in [Intents -> {"none", "unread", "read"}]
    /\ delivery \in [Deliveries -> Delivery]
    /\ \A i \in Intents : Claimable(outbox[i]) => outbox[i].attempts < MaxClaims

\* The provider accepts at most one e-mail for an intent, whatever is retried
\* after a lost answer or a lost commit and however the address changes.
OneMailPerIntent ==
    \A m, n \in inbox : m.intent = n.intent => m = n

\* The failure budget is never overdrawn by a claim it does not know of:
\* assertFailureCount cannot fail, and an intent that is not dead has budget.
BudgetSound ==
    \A i \in Intents :
        /\ outbox[i].failures <= outbox[i].attempts
        /\ outbox[i].status \notin {"NONE", "DEAD_LETTERED"} =>
               outbox[i].failures < MaxAttempts

\* An e-mail is handed over only for an intent whose claim is still current,
\* to the address the user has, while the user is active and not suppressed.
MailGoesToRecipient ==
    [][\A m \in inbox' \ inbox :
          /\ Eligible /\ ~user.suppressed /\ m.to = user.email
          /\ \E d \in Deliveries : /\ delivery[d].i = m.intent
                                   /\ outbox[m.intent].attempts = delivery[d].attempts
                                   /\ outbox[m.intent].status = "PROCESSING"]_noVars

\* The provider accepted the e-mail for the recipient's address, or none is
\* owed: the recipient has no address, or it is suppressed, or it was when a
\* delivery of the intent prepared the handoff for it.
Handled(i) ==
    \/ \E m \in inbox : m.intent = i /\ m.to = user.email
    \/ user.suppressed
    \/ user.email = NoAddress
    \/ \E d \in Deliveries : /\ delivery[d].i = i
                              /\ delivery[d].handoff = "skip"
                              /\ delivery[d].mail = user.email

\* An intent is marked delivered only with its feed entry and when the e-mail
\* to the recipient is accepted or not owed.
DeliveredIsHandled ==
    [][\A i \in Intents :
          outbox[i].status # "DELIVERED" /\ outbox'[i].status = "DELIVERED" =>
             feed'[i] # "none" /\ Handled(i)]_noVars

\* An intent is given up only when its failures have spent the budget or its
\* recipient is gone: contention and a changed address never count.
DeadLetterHasReason ==
    [][\A i \in Intents :
          outbox[i].status # "DEAD_LETTERED" /\ outbox'[i].status = "DEAD_LETTERED" =>
             outbox'[i].failures = MaxAttempts \/ ~Eligible]_noVars

\* The intent and its feed entry are gone together, because the recipient's
\* account is or because the data of an archived tenant is purged.
Erased(i) ==
    /\ outbox'[i] = NoRow /\ feed'[i] = "none"
    /\ user'.state = "deleted" \/ ~tenantOpen

\* Under a live lease only the delivery that made the claim changes the row,
\* and a row that has ended does not change any more, until it is erased.
LeaseProtectsClaim ==
    [][\A i \in Intents :
          outbox'[i] # outbox[i] =>
             \/ Erased(i)
             \/ /\ outbox[i].status \notin Ended
                /\ outbox[i].lease = "live" =>
                      \/ outbox'[i] = [outbox[i] EXCEPT !.lease = "ended"]
                      \/ \E d \in Deliveries :
                            /\ delivery[d].i = i
                            /\ delivery[d].attempts = outbox[i].attempts
                            /\ delivery'[d] = Idle]_noVars

\* A feed entry survives, and stays read, when its intent is delivered again,
\* until it is erased; and no delivery that was under way when the account was
\* deleted brings back an intent or an entry of it.
FeedIsKept ==
    [][\A i \in Intents :
          /\ feed[i] # "none" => feed'[i] # "none" \/ Erased(i)
          /\ feed[i] = "read" => feed'[i] # "unread"
          /\ user'.state = "deleted" => outbox'[i] = NoRow /\ feed'[i] = "none"]_noVars

\* Every intent is delivered, given up or erased, after any crash and contention.
EveryIntentEnds ==
    \A i \in Intents :
        outbox[i].status = "PENDING" ~> outbox[i].status \in Ended \cup {"NONE"}

=============================================================================
