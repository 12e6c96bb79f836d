--------------------------- MODULE CreditPurchase -----------------------------
(***************************************************************************)
(* Credit packs bought through a Stripe checkout session.  The webhook of  *)
(* a paid session grants the credits, or, when the tenant may not have     *)
(* them, records that a refund is owed and then refunds; webhooks of the   *)
(* refund enter the same reconciliation.  Each transaction holds the       *)
(* tenant's billing lock over its calls to Stripe, the session is read     *)
(* before it, and a transaction may be lost after Stripe has acted.        *)
(*                                                                         *)
(* One tenant and several sessions.  The pack, the price and the customer  *)
(* of a session agree with the tenant or not, which is decided when the    *)
(* session is opened; canceled refunds are failed ones, requires_action is *)
(* pending.  Purchases recorded by earlier versions are left out.          *)
(***************************************************************************)
EXTENDS Naturals, FiniteSets

CONSTANTS
    Sessions,
    Handlers,    \* webhook requests that run at the same time
    None,
    MaxAttempts, \* MAX_REFUND_ATTEMPTS
    MaxSwitches, \* bound: changes of the tenant's entitlement
    MaxFaults    \* bound: lost transactions and repeated deliveries

PurchaseAssumption ==
    /\ None \notin Sessions \cup Nat
    /\ MaxAttempts \in Nat \ {0}
    /\ MaxSwitches \in Nat
    /\ MaxFaults \in Nat

VARIABLES
    session,   \* Stripe: status of a checkout session
    matches,   \* Stripe: the sessions that agree with the tenant's records
    refunds,   \* Stripe: refunds of a session, one for each idempotency key
    unacked,   \* Stripe: events still to be answered
    entitled,  \* the tenant has an active paid subscription
    purchase,  \* BillingEvent of the purchase: its outcomeState
    grants,    \* CreditTransaction rows of a session
    terminal,  \* sessions with a refund_confirmed BillingEvent
    records,   \* BillingEvent rows of refunds: session, refund, status, attempt
    handler,   \* what each webhook request is doing
    switches,
    faults

purchaseVars == <<session, matches, refunds, unacked, entitled, purchase, grants, terminal,
                  records, handler, switches, faults>>
stored == <<purchase, grants, terminal, records>>

-----------------------------------------------------------------------------
Attempts == 0 .. MaxAttempts - 1
RefundStatus == {"none", "pending", "succeeded", "failed"}

\* first is the status in the answer that created the refund.
Refund == [status : RefundStatus, first : RefundStatus]
NoRefund == [status |-> "none", first |-> "none"]

Event == [type : {"completed", "async", "refund"}, session : Sessions, refund : Attempts \cup {None}]
CheckoutEvent(t, s) == [type |-> t, session |-> s, refund |-> None]
RefundEvent(s, k) == [type |-> "refund", session |-> s, refund |-> k]

\* paid is what the session said before the lock was taken.
Handler == [pc : {"idle", "prepare", "reconcile"}, event : Event \cup {None}, paid : BOOLEAN]
Idle == [pc |-> "idle", event |-> None, paid |-> FALSE]

Fault == faults < MaxFaults /\ faults' = faults + 1

-----------------------------------------------------------------------------
(* createCheckoutSession, and the customer at Stripe. *)

\* assertTenantCanPurchase
OpenSession(s) ==
    /\ session[s] = "none" /\ entitled
    /\ session' = [session EXCEPT ![s] = "open"]
    /\ UNCHANGED <<matches, refunds, unacked, entitled, stored, handler, switches, faults>>

\* A delayed payment completes the session before it is paid.
CompleteSession(s) ==
    /\ session[s] = "open"
    /\ \E status \in {"unpaid", "paid"} : session' = [session EXCEPT ![s] = status]
    /\ unacked' = unacked \cup {CheckoutEvent("completed", s)}
    /\ UNCHANGED <<matches, refunds, entitled, stored, handler, switches, faults>>

AsyncPayment(s) ==
    /\ session[s] = "unpaid"
    /\ session' = [session EXCEPT ![s] = "paid"]
    /\ unacked' = unacked \cup {CheckoutEvent("async", s)}
    /\ UNCHANGED <<matches, refunds, entitled, stored, handler, switches, faults>>

RefundSettles(s, k) ==
    /\ refunds[s][k].status = "pending"
    /\ \E status \in {"succeeded", "failed"} : refunds' = [refunds EXCEPT ![s][k].status = status]
    /\ unacked' = unacked \cup {RefundEvent(s, k)}
    /\ UNCHANGED <<session, matches, entitled, stored, handler, switches, faults>>

\* refund.created and refund.updated: Stripe tells of a refund in any state.
RefundAnnounced(s, k) ==
    /\ refunds[s][k] # NoRefund /\ RefundEvent(s, k) \notin unacked
    /\ unacked' = unacked \cup {RefundEvent(s, k)}
    /\ UNCHANGED <<session, matches, refunds, entitled, stored, handler, switches, faults>>

\* The subscription ends or is paid again; the tenant is suspended or deleted.
ChangeEntitlement ==
    /\ switches < MaxSwitches
    /\ switches' = switches + 1
    /\ entitled' = ~entitled
    /\ UNCHANGED <<session, matches, refunds, unacked, stored, handler, faults>>

-----------------------------------------------------------------------------
(* handleCheckoutSessionCompleted and handleRefundLifecycleEvent. *)

\* retrievePurchaseContext.  Stripe may deliver an answered event again.
Receive(h, e) ==
    /\ handler[h].pc = "idle"
    /\ \/ e \in unacked /\ UNCHANGED faults
       \/ e \notin unacked /\ e.type # "refund" /\ session[e.session] = "paid" /\ Fault
    /\ handler' = [handler EXCEPT ![h] =
           [pc |-> IF e.type = "refund" THEN "reconcile" ELSE "prepare", event |-> e,
            paid |-> session[e.session] = "paid"]]
    /\ UNCHANGED <<session, matches, refunds, unacked, entitled, stored, switches>>

Answer(h) ==
    /\ unacked' = unacked \ {handler[h].event}
    /\ handler' = [handler EXCEPT ![h] = Idle]
Refuse(h) ==
    /\ handler' = [handler EXCEPT ![h] = Idle]
    /\ UNCHANGED unacked

\* Mutant: the tenant is not looked at again after the payment.
VerifiedAtCheckout(s) == s \in matches

\* verifyPurchase, for a paid session
Verified(s) == s \in matches /\ entitled

\* resolveSessionDisposition
Paid(h) == handler[h].paid

\* Neither granted nor refunded, and no refund owed
Unsettled(s) == s \notin terminal /\ grants[s] = 0 /\ purchase[s] = "none"

\* requiresRefund
RefundOwed(s) == [purchase EXCEPT ![s] = "refund_required"]

\* preparePurchaseTransaction
Prepare(h) ==
    LET s == handler[h].event.session
    IN /\ handler[h].pc = "prepare"
       /\ \/ /\ s \in terminal \/ grants[s] > 0
             /\ ~Unsettled(s)
             /\ Answer(h)
             /\ UNCHANGED <<purchase, grants>>
          \/ /\ s \notin terminal /\ grants[s] = 0 /\ purchase[s] = "refund_required"
             /\ ~Unsettled(s)
             /\ handler' = [handler EXCEPT ![h].pc = "reconcile"]
             /\ UNCHANGED <<unacked, purchase, grants>>
          \/ /\ Unsettled(s) /\ ~Paid(h)
             /\ Answer(h)
             /\ UNCHANGED <<purchase, grants>>
          \/ /\ Unsettled(s) /\ Paid(h) /\ Verified(s)
             /\ purchase' = [purchase EXCEPT ![s] = "complete"]
             /\ grants' = [grants EXCEPT ![s] = @ + 1]
             /\ Answer(h)
          \/ /\ Unsettled(s) /\ Paid(h) /\ ~Verified(s)
             /\ purchase' = RefundOwed(s)
             /\ IF purchase'[s] = "refund_required"
                THEN handler' = [handler EXCEPT ![h].pc = "reconcile"] /\ UNCHANGED unacked
                ELSE Answer(h)
             /\ UNCHANGED grants
       /\ UNCHANGED <<session, matches, refunds, entitled, terminal, records, switches, faults>>

\* The refund rows of a session, and the attempt of the newest.
Rows(s) == {x \in records : x.session = s}
Newest(s) == CHOOSE k \in {x.attempt : x \in Rows(s)} : \A x \in Rows(s) : x.attempt <= k

\* The refund to look at: the one of the webhook, or the newest recorded.
Subjects(h) ==
    LET e == handler[h].event
    IN CASE e.type = "refund" -> {e.refund}
         [] e.type # "refund" /\ Rows(e.session) = {} -> {None}
         [] OTHER -> {x.refund : x \in {y \in Rows(e.session) : y.attempt = Newest(e.session)}}

\* The attempt a refund counts as; one nobody recorded follows the newest.
AttemptOf(s, k) ==
    LET known == {x \in Rows(s) : x.refund = k}
    IN IF known # {} THEN (CHOOSE x \in known : \A y \in known : y.attempt <= x.attempt).attempt
       ELSE IF Rows(s) = {} THEN 0 ELSE Newest(s) + 1

\* Mutant: every request for a refund is a new one.
FreshRefund(s, k, status) ==
    IF refunds[s][k] = NoRefund \/ k + 1 \notin Attempts
    THEN [refunds[s] EXCEPT ![k] = [status |-> status, first |-> status]]
    ELSE [refunds[s] EXCEPT ![k + 1] = [status |-> status, first |-> status]]

\* refunds.create under refundIdempotencyKey: the first answer is replayed.
CreatedRefund(s, k, status) ==
    IF refunds[s][k] = NoRefund
    THEN [refunds[s] EXCEPT ![k] = [status |-> status, first |-> status]]
    ELSE refunds[s]

\* The refund is dead and another may follow.
Retries(status) == status = "failed"

\* recordRefundState: one row for each status a refund is seen in.
WithRow(rows, s, a, k, status) ==
    IF \E x \in rows : x.session = s /\ x.refund = k /\ x.status = status THEN rows
    ELSE rows \cup {[session |-> s, attempt |-> a, refund |-> k, status |-> status]}

\* recordRefundTerminal, and the answer
Conclude(h, s, status) ==
    IF status = "succeeded"
    THEN terminal' = terminal \cup {s} /\ Answer(h)
    ELSE Refuse(h) /\ UNCHANGED terminal

\* createRefund for an attempt; what it answers is stored, or the transaction
\* lost with all that it had stored.
Attempt(h, s, a, rows) ==
    \E status \in {"pending", "succeeded", "failed"} :
        LET made == CreatedRefund(s, a, status)
        IN /\ refunds[s][a] = NoRefund \/ status = refunds[s][a].first
           /\ refunds' = [refunds EXCEPT ![s] = made]
           /\ \/ /\ records' = WithRow(rows, s, a, a, made[a].first)
                 /\ Conclude(h, s, made[a].first)
                 /\ UNCHANGED faults
              \/ /\ Refuse(h)
                 /\ Fault
                 /\ UNCHANGED <<records, terminal>>

\* A refund is known: it is looked up, stored, and followed by another one
\* when it has failed.
Follow(h, s, k) ==
    LET a == AttemptOf(s, k)
        status == refunds[s][k].status
        rows == WithRow(records, s, a, k, status)
    IN IF Retries(status) /\ a + 1 \in Attempts
       THEN Attempt(h, s, a + 1, rows)
       ELSE /\ records' = rows
            /\ Conclude(h, s, status)
            /\ UNCHANGED <<refunds, faults>>

\* reconcileRefundTransaction
Reconcile(h) ==
    LET s == handler[h].event.session
    IN /\ handler[h].pc = "reconcile"
       /\ \/ /\ grants[s] > 0 \/ (s \notin terminal /\ purchase[s] # "refund_required")
             /\ Refuse(h)
             /\ UNCHANGED <<refunds, terminal, records, faults>>
          \/ /\ grants[s] = 0 /\ s \in terminal
             /\ Answer(h)
             /\ UNCHANGED <<refunds, terminal, records, faults>>
          \/ /\ grants[s] = 0 /\ s \notin terminal /\ purchase[s] = "refund_required"
             /\ \E k \in Subjects(h) :
                   IF k = None THEN Attempt(h, s, 0, records) ELSE Follow(h, s, k)
       /\ UNCHANGED <<session, matches, entitled, purchase, grants, switches>>

HandlerFails(h) ==
    /\ handler[h].pc # "idle"
    /\ Refuse(h)
    /\ Fault
    /\ UNCHANGED <<session, matches, refunds, entitled, stored, switches>>

-----------------------------------------------------------------------------
Init ==
    /\ session = [s \in Sessions |-> "none"]
    /\ matches \in SUBSET Sessions
    /\ refunds = [s \in Sessions |-> [k \in Attempts |-> NoRefund]]
    /\ unacked = {}
    /\ entitled = TRUE
    /\ purchase = [s \in Sessions |-> "none"]
    /\ grants = [s \in Sessions |-> 0]
    /\ terminal = {}
    /\ records = {}
    /\ handler = [h \in Handlers |-> Idle]
    /\ switches = 0
    /\ faults = 0

Handle(h) ==
    \/ \E e \in unacked \cup {CheckoutEvent("completed", s) : s \in Sessions} : Receive(h, e)
    \/ Prepare(h)
    \/ Reconcile(h)
    \/ HandlerFails(h)

Next ==
    \/ \E s \in Sessions : OpenSession(s) \/ CompleteSession(s) \/ AsyncPayment(s)
    \/ \E s \in Sessions, k \in Attempts : RefundSettles(s, k) \/ RefundAnnounced(s, k)
    \/ ChangeEntitlement
    \/ \E h \in Handlers : Handle(h)

Spec == Init /\ [][Next]_purchaseVars

\* Stripe settles its refunds, delivers an event until it is answered, and a
\* handler that runs goes on.
Fairness ==
    /\ \A s \in Sessions, k \in Attempts : WF_purchaseVars(RefundSettles(s, k))
    /\ \A h \in Handlers : WF_purchaseVars(Prepare(h) \/ Reconcile(h))
    /\ \A s \in Sessions :
          /\ SF_purchaseVars(\E h \in Handlers, t \in {"completed", "async"} :
                 CheckoutEvent(t, s) \in unacked /\ Receive(h, CheckoutEvent(t, s)))
          /\ \A k \in Attempts : SF_purchaseVars(\E h \in Handlers :
                 RefundEvent(s, k) \in unacked /\ Receive(h, RefundEvent(s, k)))

FairSpec == Spec /\ Fairness

-----------------------------------------------------------------------------
(* Properties. *)

\* Every variable has its type.
TypeOK ==
    /\ session \in [Sessions -> {"none", "open", "unpaid", "paid"}]
    /\ refunds \in [Sessions -> [Attempts -> Refund]]
    /\ unacked \subseteq Event
    /\ purchase \in [Sessions -> {"none", "complete", "refund_required"}]
    /\ grants \in [Sessions -> {0, 1}]
    /\ records \subseteq [session : Sessions, attempt : Nat, refund : Attempts, status : RefundStatus]
    /\ handler \in [Handlers -> Handler]

\* A purchase is granted or refunded, never both: no refund exists at Stripe
\* for a session whose credits were granted.
OneOutcome ==
    \A s \in Sessions :
        grants[s] > 0 => s \notin terminal /\ \A k \in Attempts : refunds[s][k] = NoRefund

\* At most one refund of a session is pending or has succeeded: the payment is
\* not returned twice.  Does not hold: see README.md, section 6.  (That Stripe
\* refuses to refund more than was paid is left out.)
NeverTwoRefunds ==
    \A s \in Sessions :
        Cardinality({k \in Attempts : refunds[s][k].status \in {"pending", "succeeded"}}) <= 1

\* A new refund is asked for only when every earlier one has failed, so the
\* payment is not returned twice, as long as no more than one transaction was
\* lost after Stripe had acted or event delivered again.
RefundedOnce ==
    faults <= 1 =>
        \A s \in Sessions, j, k \in Attempts :
            j < k /\ refunds[s][k] # NoRefund => refunds[s][j].status = "failed"

Exhausted(s) == \A k \in Attempts : refunds[s][k].status = "failed"

\* When Stripe has no event of a paid session left to deliver, the purchase
\* was granted or its refund confirmed.
AnsweredIsSettled ==
    \A s \in Sessions :
        session[s] = "paid" /\ (\A e \in unacked : e.session # s) =>
            grants[s] = 1 \/ s \in terminal

\* Credits are granted for a payment that was made, by a tenant that may have
\* them at that moment.
GrantsDue ==
    \A s \in Sessions : grants'[s] # grants[s] =>
        session[s] = "paid" /\ entitled /\ s \in matches
GrantIsDue == [][GrantsDue]_purchaseVars

\* A refund that is recorded as confirmed did succeed at Stripe.
ConfirmedSucceeded ==
    \A s \in terminal : \E k \in Attempts : refunds[s][k].status = "succeeded"

\* Every payment ends in credits or a confirmed refund, unless all attempts
\* to refund it have failed.
EveryPaymentSettles ==
    \A s \in Sessions :
        session[s] = "paid" ~> (grants[s] = 1 \/ s \in terminal \/ Exhausted(s))
=============================================================================
