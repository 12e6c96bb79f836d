------------------------ MODULE SubscriptionCheckout --------------------------
(***************************************************************************)
(* Hosted checkout of a first subscription.  A request finds or creates    *)
(* the tenant's Stripe customer, refuses a customer with a subscription,   *)
(* lists the checkout sessions of the customer, reuses the one for the     *)
(* same price or expires the open ones and creates another.  Requests of   *)
(* one replica queue behind each other; two replicas only share Stripe and *)
(* the database, and no lock is held across a call to Stripe.              *)
(*                                                                         *)
(* One tenant.  The plan, its capacity and the tenant's status are one     *)
(* flag, and a session is known by the order of its creation.              *)
(***************************************************************************)
EXTENDS Naturals, Sequences, FiniteSets

CONSTANTS
    Replicas,    \* API replicas; each runs one checkout of the tenant at a time
    Prices,
    None,
    MaxSessions, \* bound: sessions created
    MaxFaults    \* bound: lost answers, failures, and loss of eligibility

ASSUME CheckoutAssumption ==
    /\ MaxSessions \in Nat \ {0}
    /\ None \notin Prices /\ None \notin 1 .. MaxSessions
    /\ MaxFaults \in Nat

VARIABLES
    customers, \* Stripe: customers created for the tenant
    sessions,  \* Stripe: checkout sessions, in the order of their creation
    links,     \* sessions whose address was returned to a browser
    live,      \* Stripe: sessions whose subscription lives
    eligible,  \* assertTenantCanStartCheckout, but for the subscription
    customer,  \* stripeCustomerId
    bound,     \* stripeSubscriptionId: the session it came from
    request,   \* what each replica is doing
    faults

checkoutVars == <<customers, sessions, live, links, eligible, customer, bound, request, faults>>
atStripe == <<customers, sessions, live, links>>
tenantRow == <<eligible, customer, bound>>

-----------------------------------------------------------------------------
Ids == 1 .. MaxSessions
Known == 1 .. Len(sessions)
Session == [price : Prices, status : {"open", "complete", "expired"}, key : SUBSET Ids]
Open == {i \in Known : sessions[i].status = "open"}

\* got is the session the request means to return, if any.
Request == [pc : {"idle", "customer", "claim", "subscriptions", "list", "expire", "create",
                  "verify", "recover", "binding"},
            price : Prices \cup {None}, recovering : BOOLEAN, generation : SUBSET Ids,
            todo : SUBSET Ids, got : Ids \cup {None}]
Idle == [pc |-> "idle", price |-> None, recovering |-> FALSE, generation |-> {},
         todo |-> {}, got |-> None]

Fault == faults < MaxFaults /\ faults' = faults + 1

Goto(r, pc) == request' = [request EXCEPT ![r].pc = pc]
GiveUp(r) == request' = [request EXCEPT ![r] = Idle]

-----------------------------------------------------------------------------
(* createSubscriptionCheckoutSession *)

\* readCheckoutTenantState, under the billing lock
CanStart == eligible /\ bound = None

Start(r, p) ==
    /\ request[r].pc = "idle" /\ CanStart
    /\ request' = [request EXCEPT ![r] =
           [Idle EXCEPT !.pc = IF customer = None THEN "customer" ELSE "subscriptions",
                        !.price = p]]
    /\ UNCHANGED <<atStripe, tenantRow, faults>>

\* customers.create under stripeCustomerIdempotencyKey: the first answer is replayed.
TheCustomer == 1

\* createCheckoutCustomerWithRecovery
CreateCustomer(r) ==
    /\ request[r].pc = "customer"
    /\ customers' = TheCustomer
    /\ request' = [request EXCEPT ![r].pc = "claim", ![r].got = TheCustomer]
    /\ UNCHANGED <<sessions, live, links, tenantRow, faults>>

\* claimCheckoutCustomerWithRecovery
ClaimCustomer(r) ==
    /\ request[r].pc = "claim"
    /\ IF CanStart
       THEN /\ customer' = IF customer = None THEN request[r].got ELSE customer
            /\ request' = [request EXCEPT ![r].pc = "subscriptions", ![r].got = None]
       ELSE GiveUp(r) /\ UNCHANGED customer
    /\ UNCHANGED <<atStripe, eligible, bound, faults>>

\* assertCustomerHasNoBlockingSubscription
AssertNoSubscription(r) ==
    /\ request[r].pc = "subscriptions"
    /\ IF live = {} THEN Goto(r, "list") ELSE GiveUp(r)
    /\ UNCHANGED <<atStripe, tenantRow, faults>>

\* Mutant: any open session is taken, whatever its price.
AnyReusable(p) == Open

\* The open sessions that sell exactly this price
Reusable(p) == {i \in Open : sessions[i].price = p}

\* resolveOpenCheckoutSessions, the list: one matching session is kept, every
\* other open one is to be expired, and all of them name the generation.
List(r) ==
    /\ request[r].pc \in {"list", "recover"}
    /\ LET mine == Reusable(request[r].price)
       IN \E keep \in IF mine = {} THEN {None} ELSE mine :
             request' = [request EXCEPT ![r] =
                 [@ EXCEPT !.pc = "expire", !.recovering = (request[r].pc = "recover"),
                           !.generation = Known, !.todo = Open \ {keep}, !.got = keep]]
    /\ UNCHANGED <<atStripe, tenantRow, faults>>

\* sessions.expire fails on a session that is not open any more.
ExpireOne(r) ==
    /\ request[r].pc = "expire"
    /\ \E i \in request[r].todo :
          IF sessions[i].status = "open"
          THEN /\ sessions' = [sessions EXCEPT ![i].status = "expired"]
               /\ request' = [request EXCEPT ![r].todo = @ \ {i}]
          ELSE /\ GiveUp(r)
               /\ UNCHANGED sessions
    /\ UNCHANGED <<customers, live, links, tenantRow, faults>>

\* Mutant: the open sessions of other prices are left open.
ResolvedEarly(r) ==
    /\ request[r].pc = "expire"
    /\ CASE request[r].got # None -> Goto(r, "binding")
         [] request[r].got = None /\ request[r].recovering -> GiveUp(r)
         [] OTHER -> Goto(r, "create")
    /\ UNCHANGED <<atStripe, tenantRow, faults>>

\* The session to return, a new one, or after an error the error.
Resolved(r) ==
    /\ request[r].pc = "expire" /\ request[r].todo = {}
    /\ CASE request[r].got # None -> Goto(r, "binding")
         [] request[r].got = None /\ request[r].recovering -> GiveUp(r)
         [] OTHER -> Goto(r, "create")
    /\ UNCHANGED <<atStripe, tenantRow, faults>>

\* checkoutIdempotencyKey
SameKey(s, g, p) == s.key = g

\* sessions.create: an answer given under the key is replayed to the same
\* parameters and refused to others; the answer may be lost.
Create(r) ==
    LET g == request[r].generation
        p == request[r].price
        same == {i \in Known : SameKey(sessions[i], g, p)}
    IN /\ request[r].pc = "create"
       /\ \/ /\ same # {}
             /\ \E i \in same :
                   IF sessions[i].price = p
                   THEN request' = [request EXCEPT ![r].pc = "verify", ![r].got = i]
                   ELSE Goto(r, "recover")
             /\ UNCHANGED <<sessions, faults>>
          \/ /\ same = {} /\ Len(sessions) < MaxSessions
             /\ sessions' = Append(sessions, [price |-> p, status |-> "open", key |-> g])
             /\ \/ /\ request' = [request EXCEPT ![r].pc = "verify",
                                                 ![r].got = Len(sessions) + 1]
                   /\ UNCHANGED faults
                \/ Goto(r, "recover") /\ Fault
       /\ UNCHANGED <<customers, live, links, tenantRow>>

\* retrieveVerifiedCheckoutSession
Verify(r) ==
    /\ request[r].pc = "verify"
    /\ IF request[r].got \in Reusable(request[r].price) THEN Goto(r, "binding")
       ELSE request' = [request EXCEPT ![r].pc = "recover", ![r].got = None]
    /\ UNCHANGED <<atStripe, tenantRow, faults>>

\* assertCheckoutTenantBinding: the link is returned, or an error.
ReturnLink(r) ==
    /\ request[r].pc = "binding"
    /\ links' = IF CanStart THEN links \cup {request[r].got} ELSE links
    /\ GiveUp(r)
    /\ UNCHANGED <<customers, sessions, live, tenantRow, faults>>

\* A call fails for good, or the replica stops.
RequestFails(r) ==
    /\ request[r].pc # "idle"
    /\ GiveUp(r)
    /\ Fault
    /\ UNCHANGED <<atStripe, tenantRow>>

Checkout(r) ==
    \/ \E p \in Prices : Start(r, p)
    \/ CreateCustomer(r) \/ ClaimCustomer(r) \/ AssertNoSubscription(r)
    \/ List(r) \/ ExpireOne(r) \/ Resolved(r)
    \/ Create(r) \/ Verify(r) \/ ReturnLink(r)
    \/ RequestFails(r)

-----------------------------------------------------------------------------
(* Stripe, its webhooks and the tenant. *)

Pay(i) ==
    /\ i \in Open \cap links
    /\ sessions' = [sessions EXCEPT ![i].status = "complete"]
    /\ live' = live \cup {i}
    /\ UNCHANGED <<customers, links, tenantRow, request, faults>>

SessionExpires(i) ==
    /\ i \in Open
    /\ sessions' = [sessions EXCEPT ![i].status = "expired"]
    /\ UNCHANGED <<customers, live, links, tenantRow, request, faults>>

SubscriptionEnds(i) ==
    /\ i \in live
    /\ live' = live \ {i}
    /\ UNCHANGED <<customers, sessions, links, tenantRow, request, faults>>

\* The webhooks of a subscription (SubscriptionSync)
Bind(i) ==
    /\ bound = None /\ i \in live
    /\ bound' = i
    /\ UNCHANGED <<atStripe, eligible, customer, request, faults>>

Unbind ==
    /\ bound # None /\ bound \notin live
    /\ bound' = None
    /\ UNCHANGED <<atStripe, eligible, customer, request, faults>>

LoseEligibility ==
    /\ eligible
    /\ eligible' = FALSE
    /\ Fault
    /\ UNCHANGED <<atStripe, customer, bound, request>>

-----------------------------------------------------------------------------
Init ==
    /\ customers = 0
    /\ sessions = <<>>
    /\ live = {}
    /\ links = {}
    /\ eligible = TRUE
    /\ customer = None
    /\ bound = None
    /\ request = [r \in Replicas |-> Idle]
    /\ faults = 0

Next ==
    \/ \E r \in Replicas : Checkout(r)
    \/ \E i \in Known : Pay(i) \/ SessionExpires(i)
    \/ \E i \in live : SubscriptionEnds(i) \/ Bind(i)
    \/ Unbind
    \/ LoseEligibility

Spec == Init /\ [][Next]_checkoutVars

-----------------------------------------------------------------------------
(* Properties. *)

\* Every variable has its type, and there is never a second customer.
TypeOK ==
    /\ customers \in {0, 1}
    /\ sessions \in Seq(Session) /\ Len(sessions) <= MaxSessions
    /\ live \subseteq links /\ links \subseteq Known
    /\ eligible \in BOOLEAN
    /\ customer \in {None, 1}
    /\ bound \in Ids \cup {None}
    /\ request \in [Replicas -> Request]

\* The tenant never has two sessions that can be paid, whichever replicas
\* answer and whatever answers are lost.
OneOpenSession == Cardinality(Open) <= 1

\* The sessions of a customer form a chain: each was created by a request
\* that had seen all the earlier ones.
SessionsChain == \A i \in Known : sessions[i].key = 1 .. i - 1

\* A link that is returned sells what the request asked for.
LinkSellsWhatWasAsked ==
    \A r \in Replicas :
        request[r].pc = "binding" => sessions[request[r].got].price = request[r].price

\* A tenant never has two live subscriptions.
\* Does not hold: see README.md, section 6.
OneSubscription == Cardinality(live) <= 1
=============================================================================
