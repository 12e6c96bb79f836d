--------------------------- MODULE BillingProofs ---------------------------
(***************************************************************************)
(* Proofs about the money at Stripe.  Checkouts are proved here; the other *)
(* components of the composition are instances of StripeProofs, whose      *)
(* theorems are carried over to a behaviour of the composition.            *)
(***************************************************************************)
EXTENDS MCBilling, SequenceTheorems, FiniteSetTheorems, TLAPS

-----------------------------------------------------------------------------
(* The inductive invariant. *)

\* The generation of a request is an initial part of the sessions.
Prefix(g) == \E n \in 0 .. Len(sessions) : g = 1 .. n

\* A request that means to return a session means one that sells its price.
Sells(q) == q.got # None => q.got \in Known /\ sessions[q.got].price = q.price

\* What each stage of a request knows: its generation is what Stripe held at
\* the list; a session of the generation still open is to be expired or to be
\* returned; when a new one is created none is left.
RequestOK(q) ==
    /\ q.pc # "idle" => q.price \in Prices
    /\ q.pc = "claim" => q.got = 1
    /\ q.pc = "expire" =>
          /\ Prefix(q.generation) /\ q.todo \subseteq q.generation /\ Sells(q)
          /\ \A i \in q.generation : sessions[i].status = "open" => i \in q.todo \/ i = q.got
    /\ q.pc = "create" =>
          /\ Prefix(q.generation)
          /\ \A i \in q.generation : sessions[i].status # "open"
    /\ q.pc = "verify" => q.got \in Known
    /\ q.pc = "binding" => q.got # None /\ Sells(q)
RequestsOK == \A r \in Replicas : RequestOK(request[r])

\* OneOpenSession without counting.
OpenUnique == \A i, j \in Open : i = j

CheckoutInv == TypeOK /\ SessionsChain /\ RequestsOK /\ OpenUnique

-----------------------------------------------------------------------------
(* What the changes of the sessions keep. *)

\* No session goes away, changes its price or key, or opens again.
SessionsKept ==
    /\ sessions' \in Seq(Session) /\ Len(sessions') >= Len(sessions)
    /\ \A i \in Known : /\ sessions'[i].price = sessions[i].price
                        /\ sessions'[i].key = sessions[i].key
                        /\ sessions'[i].status = "open" => sessions[i].status = "open"

\* The length of the sessions, and what a session is.
LEMMA SessionsType ==
    ASSUME TypeOK
    PROVE  /\ Len(sessions) \in Nat /\ Known \subseteq Ids
           /\ \A i \in Known : sessions[i] \in Session
<1>1. Len(sessions) \in Nat /\ sessions \in [1 .. Len(sessions) -> Session]
  BY LenProperties DEF TypeOK
<1> QED BY <1>1, CheckoutAssumption DEF TypeOK, Known, Ids

\* What a request knows outlasts a step of another one.
LEMMA RequestKept ==
    ASSUME TypeOK, SessionsKept, NEW q, RequestOK(q)
    PROVE  RequestOK(q)'
<1>1. Len(sessions) \in Nat /\ Len(sessions') \in Nat /\ Len(sessions) =< Len(sessions')
  BY SessionsType, LenProperties DEF SessionsKept
<1>2. Known \subseteq Known' /\ (Prefix(q.generation) => Prefix(q.generation)' /\ q.generation \subseteq Known)
  BY <1>1 DEF Known, Prefix
<1>3. Sells(q) => Sells(q)'
  BY <1>2 DEF Sells, SessionsKept
<1>4. q.pc = "expire" => /\ \A i \in q.generation : sessions'[i].status = "open" => i \in q.todo \/ i = q.got
  BY <1>2 DEF RequestOK, SessionsKept
<1>5. q.pc = "create" => \A i \in q.generation : sessions'[i].status # "open"
  BY <1>2 DEF RequestOK, SessionsKept
<1> QED BY <1>2, <1>3, <1>4, <1>5 DEF RequestOK

\* A session that closes.
LEMMA Closing ==
    ASSUME TypeOK, SessionsChain, OpenUnique, NEW i \in Known, NEW st \in {"complete", "expired"},
           sessions' = [sessions EXCEPT ![i].status = st]
    PROVE  /\ SessionsKept /\ Len(sessions') = Len(sessions) /\ Known' = Known
           /\ SessionsChain' /\ OpenUnique' /\ sessions'[i].status # "open"
<1> DEFINE e == [sessions[i] EXCEPT !.status = st]
<1>1. sessions[i] \in Session /\ e \in Session
  BY SessionsType DEF Session
<1>2. /\ sessions' \in Seq(Session) /\ Len(sessions') = Len(sessions)
      /\ \A j \in 1 .. Len(sessions) : sessions'[j] = IF j = i THEN e ELSE sessions[j]
  BY <1>1, ExceptSeq DEF TypeOK, Known
<1>3. e.price = sessions[i].price /\ e.key = sessions[i].key /\ e.status = st
  BY <1>1 DEF Session
<1>4. Known' = Known /\ Len(sessions) \in Nat
  BY <1>2, SessionsType DEF Known
<1>5. \A j \in Known : /\ sessions'[j].price = sessions[j].price
                       /\ sessions'[j].key = sessions[j].key
                       /\ sessions'[j].status = "open" => sessions[j].status = "open"
  BY <1>2, <1>3 DEF Known
<1>6. SessionsKept
  BY <1>2, <1>4, <1>5 DEF SessionsKept
<1>7. SessionsChain'
  BY <1>4, <1>5 DEF SessionsChain
<1>8. OpenUnique'
  BY <1>4, <1>5 DEF OpenUnique, Open
<1> QED BY <1>2, <1>3, <1>4, <1>6, <1>7, <1>8 DEF Known

\* A session that is created when none is open.
LEMMA Creating ==
    ASSUME TypeOK, SessionsChain, NEW p \in Prices, Open = {}, Len(sessions) < MaxSessions,
           sessions' = Append(sessions, [price |-> p, status |-> "open", key |-> Known])
    PROVE  /\ SessionsKept /\ Len(sessions') = Len(sessions) + 1
           /\ SessionsChain' /\ OpenUnique'
           /\ sessions'[Len(sessions) + 1].price = p
<1> DEFINE e == [price |-> p, status |-> "open", key |-> Known]
           n == Len(sessions)
<1>1. n \in Nat /\ e \in Session
  BY SessionsType DEF Session
<1>2. /\ sessions' \in Seq(Session) /\ Len(sessions') = n + 1
      /\ \A j \in 1 .. n : sessions'[j] = sessions[j]
      /\ sessions'[n + 1] = e
  BY <1>1, AppendProperties DEF TypeOK
<1>3. Known' = Known \cup {n + 1} /\ Known = 1 .. n
  BY <1>1, <1>2 DEF Known
<1>4. SessionsKept
  BY <1>1, <1>2 DEF SessionsKept, Known
<1>5. SessionsChain'
  BY <1>1, <1>2, <1>3 DEF SessionsChain
<1>6. Open' \subseteq {n + 1}
  BY <1>2, <1>3 DEF Open
<1> QED BY <1>2, <1>4, <1>5, <1>6 DEF OpenUnique

-----------------------------------------------------------------------------
(* The steps. *)

\* Nothing that happens to the sessions.
LEMMA SameSessions ==
    ASSUME TypeOK, SessionsChain, OpenUnique, sessions' = sessions
    PROVE  SessionsKept /\ Known' = Known /\ SessionsChain' /\ OpenUnique'
<1>1. SessionsKept
  BY SessionsType DEF SessionsKept, TypeOK
<1>2. Known' = Known /\ Open' = Open
  BY DEF Known, Open
<1> QED BY <1>1, <1>2 DEF SessionsChain, OpenUnique

\* One request goes on, the others stay as they are.
LEMMA OneRequest ==
    ASSUME TypeOK, RequestsOK, SessionsKept, NEW r \in Replicas, NEW q \in Request,
           RequestOK(q)', request' = [request EXCEPT ![r] = q]
    PROVE  RequestsOK' /\ request' \in [Replicas -> Request]
<1>1. request' \in [Replicas -> Request]
  BY DEF TypeOK
<1>2. ASSUME NEW s \in Replicas PROVE RequestOK(request[s])'
  <2>1. CASE s = r
    <3>1. request'[s] = q
      BY <2>1 DEF TypeOK
    <3> QED BY <3>1 DEF RequestOK, Sells, Prefix
  <2>2. CASE s # r
    <3>1. request'[s] = request[s]
      BY <2>2 DEF TypeOK
    <3>2. PICK x : x = request[s] /\ RequestOK(x)
      BY DEF RequestsOK
    <3>3. RequestOK(x)'
      BY <3>2, RequestKept
    <3> QED BY <3>1, <3>2, <3>3 DEF RequestOK, Sells, Prefix
  <2> QED BY <2>1, <2>2
<1> QED BY <1>1, <1>2 DEF RequestsOK

\* Giving up leaves nothing to be right about.
LEMMA IdleOK == Idle \in Request /\ RequestOK(Idle) /\ RequestOK(Idle)'
BY DEF Idle, Request, RequestOK

\* A request that gives up.
LEMMA GivingUp ==
    ASSUME TypeOK, RequestsOK, SessionsKept, NEW r \in Replicas, GiveUp(r)
    PROVE  RequestsOK' /\ request' \in [Replicas -> Request]
BY IdleOK, OneRequest DEF GiveUp

\* The list: what is open is to be expired or to be returned.
LEMMA ListStep ==
    ASSUME CheckoutInv, NEW r \in Replicas, List(r)
    PROVE  RequestsOK' /\ request' \in [Replicas -> Request]
<1> USE DEF CheckoutInv
<1>1. SessionsKept /\ Known' = Known /\ sessions' = sessions
  BY SameSessions DEF List, atStripe
<1>2. PICK q : q = request[r]
  OBVIOUS
<1>3. q \in Request /\ q.pc \in {"list", "recover"} /\ q.price \in Prices
  BY <1>2 DEF List, TypeOK, RequestsOK, RequestOK
<1>4. PICK keep \in {None} \cup Reusable(q.price) :
         request' = [request EXCEPT ![r] =
             [q EXCEPT !.pc = "expire", !.recovering = (q.pc = "recover"),
                       !.generation = Known, !.todo = Open \ {keep}, !.got = keep]]
  BY <1>2 DEF List, TypeOK
<1> DEFINE p == [q EXCEPT !.pc = "expire", !.recovering = (q.pc = "recover"),
                          !.generation = Known, !.todo = Open \ {keep}, !.got = keep]
<1>5. keep = None \/ (keep \in Known /\ sessions[keep].price = q.price)
  BY DEF Reusable, Open
<1>6. PICK x : x = p
  OBVIOUS
<1>7. /\ x \in Request /\ x.pc = "expire" /\ x.price = q.price /\ x.generation = Known
      /\ x.todo = Open \ {keep} /\ x.got = keep
  BY <1>3, <1>5, <1>6, SessionsType DEF Request, Open
<1>8. RequestOK(x)'
  <2>1. Prefix(x.generation)'
    BY <1>1, <1>7, SessionsType DEF Prefix, Known
  <2>2. Sells(x)'
    BY <1>1, <1>5, <1>7 DEF Sells
  <2>3. \A i \in x.generation : sessions'[i].status = "open" => i \in x.todo \/ i = x.got
    BY <1>1, <1>7 DEF Open
  <2> QED BY <1>3, <1>7, <2>1, <2>2, <2>3 DEF RequestOK, Open
<1> QED BY <1>1, <1>4, <1>6, <1>7, <1>8, OneRequest

\* One session of the list is expired.
LEMMA ExpireStep ==
    ASSUME CheckoutInv, NEW r \in Replicas, ExpireOne(r)
    PROVE  /\ SessionsKept /\ Known' = Known /\ SessionsChain' /\ OpenUnique' /\ RequestsOK'
           /\ request' \in [Replicas -> Request]
<1> USE DEF CheckoutInv
<1>1. PICK q : q = request[r]
  OBVIOUS
<1>2. q \in Request /\ q.pc = "expire" /\ RequestOK(q)
  BY <1>1 DEF ExpireOne, TypeOK, RequestsOK
<1>3. PICK i \in q.todo :
         IF sessions[i].status = "open"
         THEN /\ sessions' = [sessions EXCEPT ![i].status = "expired"]
              /\ request' = [request EXCEPT ![r].todo = @ \ {i}]
         ELSE GiveUp(r) /\ UNCHANGED sessions
  BY <1>1 DEF ExpireOne
<1>4. i \in Known
  BY <1>2, SessionsType DEF RequestOK, Prefix, Known
<1>5. CASE sessions[i].status = "open"
  <2>1. /\ SessionsKept /\ Known' = Known /\ SessionsChain' /\ OpenUnique'
        /\ sessions'[i].status # "open"
    BY <1>3, <1>4, <1>5, Closing
  <2>2. PICK x : x = [q EXCEPT !.todo = @ \ {i}]
    OBVIOUS
  <2>3. /\ x \in Request /\ x.pc = "expire" /\ x.price = q.price /\ x.got = q.got
        /\ x.generation = q.generation /\ x.todo = q.todo \ {i}
    BY <1>2, <2>2 DEF Request
  <2>4. RequestOK(q)'
    BY <1>2, <2>1, RequestKept
  <2>5. RequestOK(x)'
    <3>1. Prefix(x.generation)' /\ x.todo \subseteq x.generation /\ Sells(x)'
      BY <1>2, <2>3, <2>4 DEF RequestOK, Sells, Prefix
    <3>2. \A j \in x.generation : sessions'[j].status = "open" => j \in x.todo \/ j = x.got
      BY <1>2, <2>1, <2>3, <2>4 DEF RequestOK
    <3> QED BY <1>2, <2>3, <2>4, <3>1, <3>2 DEF RequestOK
  <2>6. request' = [request EXCEPT ![r] = x]
    BY <1>1, <1>3, <1>5, <2>2 DEF TypeOK
  <2> QED BY <2>1, <2>3, <2>5, <2>6, OneRequest
<1>6. CASE sessions[i].status # "open"
  BY <1>3, <1>6, SameSessions, GivingUp
<1> QED BY <1>5, <1>6

\* The list is worked off: a session is returned, or none is open any more.
LEMMA ResolvedStep ==
    ASSUME CheckoutInv, NEW r \in Replicas, Resolved(r)
    PROVE  RequestsOK' /\ request' \in [Replicas -> Request]
<1> USE DEF CheckoutInv
<1>1. SessionsKept /\ Known' = Known /\ sessions' = sessions
  BY SameSessions DEF Resolved, atStripe
<1>2. PICK q : q = request[r]
  OBVIOUS
<1>3. q \in Request /\ q.pc = "expire" /\ q.todo = {} /\ RequestOK(q)'
  BY <1>1, <1>2, RequestKept DEF Resolved, TypeOK, RequestsOK
<1>4. CASE q.got # None
  <2>1. PICK x : x = [q EXCEPT !.pc = "binding"]
    OBVIOUS
  <2>2. x \in Request /\ x.pc = "binding" /\ x.price = q.price /\ x.got = q.got
    BY <1>3, <2>1 DEF Request
  <2>3. RequestOK(x)'
    BY <1>3, <1>4, <2>2 DEF RequestOK, Sells
  <2>4. request' = [request EXCEPT ![r] = x]
    BY <1>2, <1>4, <2>1 DEF Resolved, Goto, TypeOK
  <2> QED BY <1>1, <2>2, <2>3, <2>4, OneRequest
<1>5. CASE q.got = None /\ q.recovering
  BY <1>1, <1>2, <1>5, GivingUp DEF Resolved
<1>6. CASE q.got = None /\ ~q.recovering
  <2>1. PICK x : x = [q EXCEPT !.pc = "create"]
    OBVIOUS
  <2>2. /\ x \in Request /\ x.pc = "create" /\ x.price = q.price
        /\ x.generation = q.generation
    BY <1>3, <2>1 DEF Request
  <2>3. \A i \in q.generation : i # None
    BY <1>3, CheckoutAssumption DEF Request, Ids
  <2>4. RequestOK(x)'
    BY <1>3, <1>6, <2>2, <2>3 DEF RequestOK
  <2>5. request' = [request EXCEPT ![r] = x]
    BY <1>2, <1>6, <2>1 DEF Resolved, Goto, TypeOK
  <2> QED BY <1>1, <2>2, <2>4, <2>5, OneRequest
<1> QED BY <1>4, <1>5, <1>6

\* A session is created, or the one created under the same key is found.  A
\* request whose generation is not all there is finds the next session under
\* its key, so a new session follows a list that held every session.
LEMMA CreateStep ==
    ASSUME CheckoutInv, NEW r \in Replicas, Create(r)
    PROVE  /\ SessionsKept /\ Len(sessions') =< MaxSessions /\ SessionsChain' /\ OpenUnique'
           /\ RequestsOK' /\ request' \in [Replicas -> Request]
<1> USE DEF CheckoutInv
<1>1. PICK q : q = request[r]
  OBVIOUS
<1>2. q \in Request /\ q.pc = "create" /\ RequestOK(q) /\ q.price \in Prices
  BY <1>1 DEF Create, TypeOK, RequestsOK, RequestOK
<1> DEFINE same == {i \in Known : SameKey(sessions[i], q.generation, q.price)}
<1>3. Len(sessions) \in Nat /\ Len(sessions) =< MaxSessions /\ Known \subseteq Ids
  BY SessionsType DEF TypeOK
<1>4. ASSUME NEW i \in Known', i \in Ids, SessionsKept,
             \/ request' = [request EXCEPT ![r].pc = "verify", ![r].got = i]
             \/ Goto(r, "recover")
      PROVE  RequestsOK' /\ request' \in [Replicas -> Request]
  <2>1. CASE request' = [request EXCEPT ![r].pc = "verify", ![r].got = i]
    <3>1. PICK x : x = [q EXCEPT !.pc = "verify", !.got = i]
      OBVIOUS
    <3>2. x \in Request /\ x.pc = "verify" /\ x.got = i /\ x.price = q.price
      BY <1>2, <1>4, <3>1 DEF Request
    <3>3. RequestOK(x)'
      BY <1>2, <1>4, <3>2 DEF RequestOK
    <3>4. request' = [request EXCEPT ![r] = x]
      BY <1>1, <2>1, <3>1 DEF TypeOK
    <3> QED BY <1>4, <3>2, <3>3, <3>4, OneRequest
  <2>2. CASE Goto(r, "recover")
    <3>1. PICK x : x = [q EXCEPT !.pc = "recover"]
      OBVIOUS
    <3>2. x \in Request /\ x.pc = "recover" /\ x.price = q.price
      BY <1>2, <3>1 DEF Request
    <3>3. RequestOK(x)'
      BY <1>2, <3>2 DEF RequestOK
    <3>4. request' = [request EXCEPT ![r] = x]
      BY <1>1, <2>2, <3>1 DEF Goto, TypeOK
    <3> QED BY <1>4, <3>2, <3>3, <3>4, OneRequest
  <2> QED BY <1>4, <2>1, <2>2
<1>5. CASE /\ same # {} /\ UNCHANGED sessions
           /\ \E i \in same : IF sessions[i].price = q.price
                              THEN request' = [request EXCEPT ![r].pc = "verify", ![r].got = i]
                              ELSE Goto(r, "recover")
  <2>1. PICK i \in same : \/ request' = [request EXCEPT ![r].pc = "verify", ![r].got = i]
                          \/ Goto(r, "recover")
    BY <1>5
  <2>2. SessionsKept /\ Known' = Known /\ SessionsChain' /\ OpenUnique'
    BY <1>5, SameSessions
  <2>3. i \in Known' /\ i \in Ids
    BY <1>3, <2>2
  <2> QED BY <1>3, <1>4, <1>5, <2>1, <2>2, <2>3
<1>6. CASE /\ same = {} /\ Len(sessions) < MaxSessions
           /\ sessions' = Append(sessions, [price |-> q.price, status |-> "open",
                                            key |-> q.generation])
           /\ \/ request' = [request EXCEPT ![r].pc = "verify", ![r].got = Len(sessions) + 1]
              \/ Goto(r, "recover")
  <2>1. PICK n \in 0 .. Len(sessions) : q.generation = 1 .. n
    BY <1>2 DEF RequestOK, Prefix
  <2>2. n = Len(sessions)
    <3>1. SUFFICES ASSUME n < Len(sessions) PROVE FALSE
      BY <1>3, <2>1
    <3>2. n + 1 \in Known /\ sessions[n + 1].key = 1 .. (n + 1) - 1
      BY <1>3, <3>1 DEF SessionsChain, Known
    <3>3. n + 1 \in same
      BY <2>1, <3>2 DEF SameKey
    <3> QED BY <1>6, <3>3
  <2>3. q.generation = Known /\ Open = {}
    BY <1>2, <2>1, <2>2 DEF RequestOK, Open, Known
  <2>4. SessionsKept /\ Len(sessions') = Len(sessions) + 1 /\ SessionsChain' /\ OpenUnique'
    BY <1>2, <1>6, <2>3, Creating
  <2>5. Len(sessions) + 1 \in Known' /\ Len(sessions) + 1 \in Ids
    BY <1>3, <1>6, <2>4, CheckoutAssumption DEF Known, Ids
  <2>6. RequestsOK' /\ request' \in [Replicas -> Request]
    BY <1>4, <1>6, <2>4, <2>5
  <2> QED BY <1>3, <1>6, <2>4, <2>6, CheckoutAssumption
<1> QED BY <1>1, <1>5, <1>6 DEF Create

\* The stages of a request that only move it on.
LEMMA MoveStep ==
    ASSUME CheckoutInv, NEW r \in Replicas, UNCHANGED sessions,
           \/ \E p \in Prices : Start(r, p)
           \/ CreateCustomer(r) \/ ClaimCustomer(r) \/ AssertNoSubscription(r) \/ Verify(r)
           \/ GiveUp(r)
    PROVE  RequestsOK' /\ request' \in [Replicas -> Request]
<1> USE DEF CheckoutInv
<1>1. SessionsKept /\ Known' = Known
  BY SameSessions
<1>2. PICK q : q = request[r]
  OBVIOUS
<1>3. q \in Request /\ RequestOK(q) /\ (q.pc # "idle" => q.price \in Prices)
  BY <1>2 DEF TypeOK, RequestsOK, RequestOK
<1>4. ASSUME NEW x \in Request, request' = [request EXCEPT ![r] = x], x.price \in Prices,
             x.pc \in {"customer", "subscriptions", "list", "recover"}
      PROVE  RequestsOK' /\ request' \in [Replicas -> Request]
  <2>1. RequestOK(x)'
    BY <1>4 DEF RequestOK
  <2> QED BY <1>1, <1>4, <2>1, OneRequest
<1>5. ASSUME NEW p \in Prices, Start(r, p)
      PROVE  RequestsOK' /\ request' \in [Replicas -> Request]
  <2>1. PICK x : x = [Idle EXCEPT !.pc = IF customer = None THEN "customer" ELSE "subscriptions",
                                  !.price = p]
    OBVIOUS
  <2>2. x \in Request /\ x.price = p /\ x.pc \in {"customer", "subscriptions"}
    BY <2>1 DEF Idle, Request
  <2> QED BY <1>4, <1>5, <2>1, <2>2 DEF Start
<1>6. CASE CreateCustomer(r)
  <2>1. PICK x : x = [q EXCEPT !.pc = "claim", !.got = 1]
    OBVIOUS
  <2>2. 1 \in Ids /\ q.pc = "customer"
    BY <1>2, <1>6, CheckoutAssumption DEF Ids, CreateCustomer
  <2>3. x \in Request /\ x.pc = "claim" /\ x.got = 1 /\ x.price = q.price
    BY <1>3, <2>1, <2>2 DEF Request
  <2>4. RequestOK(x)'
    BY <1>3, <2>2, <2>3 DEF RequestOK
  <2>5. request' = [request EXCEPT ![r] = x]
    BY <1>2, <1>6, <2>1 DEF CreateCustomer, TheCustomer, TypeOK
  <2> QED BY <1>1, <2>3, <2>4, <2>5, OneRequest
<1>7. CASE ClaimCustomer(r)
  <2>1. CASE GiveUp(r)
    BY <1>1, <2>1, GivingUp
  <2>2. CASE request' = [request EXCEPT ![r].pc = "subscriptions", ![r].got = None]
    <3>1. PICK x : x = [q EXCEPT !.pc = "subscriptions", !.got = None]
      OBVIOUS
    <3>2. x \in Request /\ x.pc = "subscriptions" /\ x.price \in Prices
      BY <1>2, <1>3, <1>7, <3>1 DEF Request, ClaimCustomer
    <3>3. request' = [request EXCEPT ![r] = x]
      BY <1>2, <2>2, <3>1 DEF TypeOK
    <3> QED BY <1>4, <3>2, <3>3
  <2> QED BY <1>7, <2>1, <2>2 DEF ClaimCustomer
<1>8. CASE AssertNoSubscription(r)
  <2>1. CASE GiveUp(r)
    BY <1>1, <2>1, GivingUp
  <2>2. CASE Goto(r, "list")
    <3>1. PICK x : x = [q EXCEPT !.pc = "list"]
      OBVIOUS
    <3>2. x \in Request /\ x.pc = "list" /\ x.price \in Prices
      BY <1>2, <1>3, <1>8, <3>1 DEF Request, AssertNoSubscription
    <3>3. request' = [request EXCEPT ![r] = x]
      BY <1>2, <2>2, <3>1 DEF Goto, TypeOK
    <3> QED BY <1>4, <3>2, <3>3
  <2> QED BY <1>8, <2>1, <2>2 DEF AssertNoSubscription
<1>9. CASE Verify(r)
  <2>1. CASE q.got \in Reusable(q.price) /\ Goto(r, "binding")
    <3>1. PICK x : x = [q EXCEPT !.pc = "binding"]
      OBVIOUS
    <3>2. /\ x \in Request /\ x.pc = "binding" /\ x.price = q.price /\ x.got = q.got
          /\ x.price \in Prices /\ x.got \in Known /\ sessions[x.got].price = x.price
      BY <1>2, <1>3, <1>9, <2>1, <3>1 DEF Request, Verify, Reusable, Open
    <3>3. x.got # None
      BY <3>2, SessionsType, CheckoutAssumption DEF Ids
    <3>4. RequestOK(x)'
      BY <1>1, <3>2, <3>3 DEF RequestOK, Sells
    <3>5. request' = [request EXCEPT ![r] = x]
      BY <1>2, <2>1, <3>1 DEF Goto, TypeOK
    <3> QED BY <1>1, <3>2, <3>4, <3>5, OneRequest
  <2>2. CASE request' = [request EXCEPT ![r].pc = "recover", ![r].got = None]
    <3>1. PICK x : x = [q EXCEPT !.pc = "recover", !.got = None]
      OBVIOUS
    <3>2. x \in Request /\ x.pc = "recover" /\ x.price \in Prices
      BY <1>2, <1>3, <1>9, <3>1 DEF Request, Verify
    <3>3. request' = [request EXCEPT ![r] = x]
      BY <1>2, <2>2, <3>1 DEF TypeOK
    <3> QED BY <1>4, <3>2, <3>3
  <2> QED BY <1>2, <1>9, <2>1, <2>2 DEF Verify
<1>10. CASE GiveUp(r)
  BY <1>1, <1>10, GivingUp
<1> QED BY <1>5, <1>6, <1>7, <1>8, <1>9, <1>10

\* What Stripe and the tenant row keep of their types.
LEMMA RowsStep ==
    ASSUME CheckoutInv, Next, SessionsKept
    PROVE  /\ customers' \in {0, 1} /\ eligible' \in BOOLEAN /\ customer' \in {None, 1}
           /\ live' \subseteq links' /\ links' \subseteq Known' /\ bound' \in Ids \cup {None}
<1> USE DEF CheckoutInv
<1>1. Known \subseteq Known' /\ Known \subseteq Ids
  BY SessionsType, LenProperties DEF SessionsKept, Known
<1>2. \A r \in Replicas : /\ request[r].pc = "claim" => request[r].got = 1
                          /\ request[r].pc = "binding" => request[r].got \in Known
  BY DEF RequestsOK, RequestOK, Sells
<1>3. ASSUME NEW r \in Replicas, ClaimCustomer(r) PROVE customer' \in {None, 1}
  BY <1>2, <1>3 DEF ClaimCustomer, TypeOK
<1>4. ASSUME NEW r \in Replicas, ReturnLink(r)
      PROVE  live' \subseteq links' /\ links' \subseteq Known'
  BY <1>1, <1>2, <1>4 DEF ReturnLink, TypeOK
<1>5. ASSUME NEW i \in Known, Pay(i) PROVE live' \subseteq links' /\ links' \subseteq Known'
  BY <1>1, <1>5 DEF Pay, TypeOK
<1>6. ASSUME NEW i \in live, Bind(i) PROVE bound' \in Ids
  BY <1>1, <1>6 DEF Bind, TypeOK
<1>7. ASSUME NEW r \in Replicas, Checkout(r)
      PROVE  /\ customers' \in {0, 1} /\ eligible' \in BOOLEAN /\ customer' \in {None, 1}
             /\ live' \subseteq links' /\ links' \subseteq Known' /\ bound' \in Ids \cup {None}
  BY <1>1, <1>3, <1>4, <1>7
     DEF Checkout, Start, CreateCustomer, ClaimCustomer, AssertNoSubscription, List, ExpireOne,
         Resolved, Create, Verify, ReturnLink, RequestFails, TheCustomer, atStripe, tenantRow,
         TypeOK
<1>8. ASSUME NEW i \in Known, Pay(i) \/ SessionExpires(i)
      PROVE  /\ customers' \in {0, 1} /\ eligible' \in BOOLEAN /\ customer' \in {None, 1}
             /\ live' \subseteq links' /\ links' \subseteq Known' /\ bound' \in Ids \cup {None}
  BY <1>1, <1>5, <1>8 DEF Pay, SessionExpires, tenantRow, TypeOK
<1>9. ASSUME NEW i \in live, SubscriptionEnds(i) \/ Bind(i)
      PROVE  /\ customers' \in {0, 1} /\ eligible' \in BOOLEAN /\ customer' \in {None, 1}
             /\ live' \subseteq links' /\ links' \subseteq Known' /\ bound' \in Ids \cup {None}
  BY <1>1, <1>6, <1>9 DEF SubscriptionEnds, Bind, atStripe, tenantRow, TypeOK
<1>10. CASE Unbind \/ LoseEligibility
  BY <1>1, <1>10 DEF Unbind, LoseEligibility, atStripe, TypeOK
<1> QED BY <1>7, <1>8, <1>9, <1>10 DEF Next

-----------------------------------------------------------------------------
(* The invariant. *)

LEMMA InitInv == Init => CheckoutInv
<1> SUFFICES ASSUME Init PROVE CheckoutInv
  OBVIOUS
<1>1. sessions \in Seq(Session) /\ Len(sessions) = 0
  BY DEF Init
<1>2. Known = {} /\ Open = {}
  BY <1>1 DEF Known, Open
<1>3. TypeOK
  BY <1>1, <1>2, IdleOK, CheckoutAssumption DEF Init, TypeOK
<1>4. RequestsOK
  BY IdleOK DEF Init, RequestsOK
<1> QED BY <1>2, <1>3, <1>4 DEF CheckoutInv, SessionsChain, OpenUnique

LEMMA StepInv == CheckoutInv /\ [Next]_checkoutVars => CheckoutInv'
<1> SUFFICES ASSUME CheckoutInv, [Next]_checkoutVars PROVE CheckoutInv'
  OBVIOUS
<1>0. TypeOK /\ SessionsChain /\ RequestsOK /\ OpenUnique /\ Len(sessions) \in Nat
  BY SessionsType DEF CheckoutInv
<1> DEFINE Good == /\ SessionsKept /\ Len(sessions') =< MaxSessions /\ SessionsChain'
                   /\ OpenUnique' /\ RequestsOK' /\ request' \in [Replicas -> Request]
<1>1. ASSUME Next, Good PROVE CheckoutInv'
  BY <1>0, <1>1, RowsStep DEF CheckoutInv, TypeOK, SessionsKept
<1>2. ASSUME sessions' = sessions, RequestsOK' /\ request' \in [Replicas -> Request] PROVE Good
  BY <1>0, <1>2, SameSessions DEF TypeOK
<1>3. ASSUME NEW r \in Replicas, Checkout(r) PROVE Good
  <2>1. CASE List(r)
    BY <1>2, <2>1, ListStep DEF List, atStripe
  <2>2. CASE ExpireOne(r)
    <3>1. Len(sessions') = Len(sessions)
      <4>1. /\ SessionsKept /\ 1 .. Len(sessions') = 1 .. Len(sessions)
        BY <2>2, ExpireStep DEF Known
      <4>2. Len(sessions') \in Nat /\ Len(sessions) =< Len(sessions')
        BY <4>1, LenProperties DEF SessionsKept
      <4> QED BY <1>0, <4>1, <4>2
    <3> QED BY <1>0, <2>2, <3>1, ExpireStep DEF TypeOK
  <2>3. CASE Resolved(r)
    BY <1>2, <2>3, ResolvedStep DEF Resolved, atStripe
  <2>4. CASE Create(r)
    BY <2>4, CreateStep
  <2>5. CASE \/ \E p \in Prices : Start(r, p)
             \/ CreateCustomer(r) \/ ClaimCustomer(r) \/ AssertNoSubscription(r) \/ Verify(r)
    <3>1. sessions' = sessions
      BY <2>5 DEF Start, CreateCustomer, ClaimCustomer, AssertNoSubscription, Verify, atStripe
    <3> QED BY <1>2, <2>5, <3>1, MoveStep
  <2>6. CASE ReturnLink(r) \/ RequestFails(r)
    <3>1. sessions' = sessions /\ GiveUp(r)
      BY <2>6 DEF ReturnLink, RequestFails, atStripe
    <3> QED BY <1>2, <3>1, MoveStep
  <2> QED BY <1>3, <2>1, <2>2, <2>3, <2>4, <2>5, <2>6 DEF Checkout
<1>4. ASSUME UNCHANGED request, SessionsKept PROVE RequestsOK' /\ request' \in [Replicas -> Request]
  <2>1. ASSUME NEW r \in Replicas PROVE RequestOK(request[r])'
    <3>1. PICK x : x = request[r] /\ RequestOK(x)
      BY <1>0 DEF RequestsOK
    <3>2. RequestOK(x)'
      BY <1>0, <1>4, <3>1, RequestKept
    <3> QED BY <1>4, <3>1, <3>2 DEF RequestOK, Sells, Prefix
  <2> QED BY <1>0, <1>4, <2>1 DEF RequestsOK, TypeOK
<1>5. ASSUME NEW i \in Known, Pay(i) \/ SessionExpires(i) PROVE Good
  <2>1. PICK st \in {"complete", "expired"} : sessions' = [sessions EXCEPT ![i].status = st]
    BY <1>5 DEF Pay, SessionExpires
  <2>2. SessionsKept /\ Len(sessions') = Len(sessions) /\ SessionsChain' /\ OpenUnique'
    BY <1>0, <2>1, Closing
  <2>3. UNCHANGED request
    BY <1>5 DEF Pay, SessionExpires
  <2> QED BY <1>0, <1>4, <2>2, <2>3 DEF TypeOK
<1>6. ASSUME sessions' = sessions, UNCHANGED request PROVE Good
  BY <1>0, <1>2, <1>4, <1>6, SameSessions
<1>7. ASSUME NEW i \in live, SubscriptionEnds(i) \/ Bind(i) PROVE Good
  BY <1>6, <1>7 DEF SubscriptionEnds, Bind, atStripe
<1>8. ASSUME Unbind \/ LoseEligibility PROVE Good
  BY <1>6, <1>8 DEF Unbind, LoseEligibility, atStripe
<1>9. CASE Next
  BY <1>1, <1>3, <1>5, <1>7, <1>8, <1>9 DEF Next
<1>10. CASE UNCHANGED checkoutVars
  <2>1. Good
    BY <1>6, <1>10 DEF checkoutVars
  <2> QED BY <1>0, <1>10, <2>1 DEF checkoutVars, CheckoutInv, TypeOK, Known
<1> QED BY <1>9, <1>10

\* At most one session is open.
LEMMA AtMostOne == CheckoutInv => OneOpenSession
<1> SUFFICES ASSUME CheckoutInv PROVE Cardinality(Open) <= 1
  BY DEF OneOpenSession
<1>1. CASE Open = {}
  BY <1>1, FS_EmptySet
<1>2. CASE Open # {}
  <2>1. PICK i : Open = {i}
    BY <1>2 DEF CheckoutInv, OpenUnique
  <2>2. Cardinality({i}) = 1
    BY FS_Singleton, Zenon
  <2> QED BY <2>1, <2>2
<1> QED BY <1>1, <1>2

LEMMA InvHolds == Spec => []CheckoutInv
BY InitInv, StepInv, PTL DEF Spec

\* Every variable of createSubscriptionCheckoutSession has its type, and the
\* idempotency key never yields a second customer.
THEOREM CheckoutTypeCorrect == Spec => []TypeOK
<1>1. CheckoutInv => TypeOK
  BY DEF CheckoutInv
<1> QED BY <1>1, InvHolds, PTL

\* resolveOpenCheckoutSessions and the generation key leave the tenant at most
\* one session that can be paid, however many replicas answer.
THEOREM OneSessionIsOpen == Spec => []OneOpenSession
BY InvHolds, AtMostOne, PTL

\* A returned link sells the price the request asked for.
THEOREM LinkIsRight == Spec => []LinkSellsWhatWasAsked
<1>1. CheckoutInv => LinkSellsWhatWasAsked
  BY DEF CheckoutInv, RequestsOK, RequestOK, Sells, LinkSellsWhatWasAsked
<1> QED BY <1>1, InvHolds, PTL

-----------------------------------------------------------------------------
(* The other components of the composition; P1 to P4, U1 and U2 are the  *)
(* instances of the modules that prove about them.                        *)

P1 == INSTANCE StripeProofs WITH
    UsageIncomplete <- FALSE

P2 == INSTANCE StripeProofs WITH
    UsageWorkers <- UnnamedWorkers, UsageReports <- UnnamedReports, UsageNumPeriods <-
    UnnamedNumPeriods, UsageMaxStaff <- UnnamedMaxStaff, UsageMaxAttempts <-
    UnnamedMaxAttempts, UsageMaxReplays <- UnnamedMaxReplays, UsageMaxFaults <-
    UnnamedMaxFaults, UsageIncomplete <- TRUE, usageNow <- unnamedNow, usageStaff <-
    unnamedStaff, usageRow <- unnamedRow, usageWorker <- unnamedWorker, usageAccepted <-
    unnamedAccepted, usageRejected <- unnamedRejected, usageReport <- unnamedReport,
    usageHandler <- unnamedHandler, usageFaults <- unnamedFaults, SyncSubs <- SuspSubs,
    SyncHandlers <- SuspHandlers, SyncUnlisted <- SuspUnlisted, SyncMaxChanges <-
    SuspMaxChanges, SyncMaxSwitches <- SuspMaxSwitches, SyncMaxFaults <- SuspMaxFaults,
    syncStripe <- suspStripe, syncClock <- suspClock, syncSecond <- suspSecond,
    syncEvents <- suspEvents, syncUpward <- suspUpward, syncAcked <- suspAcked,
    syncTenant <- suspTenant, syncFits <- suspFits, syncLedger <- suspLedger,
    syncHandler <- suspHandler, syncActivation <- suspActivation, syncActivated <-
    suspActivated, syncSwitches <- suspSwitches, syncFaults <- suspFaults

\* The purchases of the proofs is the one of the composition.
LEMMA PurchaseSame ==
    /\ P1!Buy!PurchaseAssumption <=> Purchase!PurchaseAssumption
    /\ P1!Buy!Init <=> Purchase!Init
    /\ P1!Buy!Next <=> Purchase!Next
    /\ P1!Buy!TypeOK <=> Purchase!TypeOK
    /\ P1!Buy!OneOutcome <=> Purchase!OneOutcome
    /\ P1!Buy!RefundedOnce <=> Purchase!RefundedOnce
    /\ P1!Buy!AnsweredIsSettled <=> Purchase!AnsweredIsSettled
    /\ P1!Buy!ConfirmedSucceeded <=> Purchase!ConfirmedSucceeded
    /\ P1!Buy!purchaseVars = Purchase!purchaseVars
<1>1. P1!Buy!PurchaseAssumption <=> Purchase!PurchaseAssumption
  BY Zenon DEF P1!Buy!PurchaseAssumption, Purchase!PurchaseAssumption
<1>2. P1!Buy!Init <=> Purchase!Init
  BY Zenon DEF P1!Buy!Init, Purchase!Init, P1!Buy!Attempts, Purchase!Attempts, P1!Buy!NoRefund,
     Purchase!NoRefund, P1!Buy!Idle, Purchase!Idle
<1>3. P1!Buy!Next <=> Purchase!Next
  BY Zenon DEF P1!Buy!Next, Purchase!Next, P1!Buy!OpenSession, Purchase!OpenSession,
     P1!Buy!CompleteSession, Purchase!CompleteSession, P1!Buy!AsyncPayment,
     Purchase!AsyncPayment, P1!Buy!Attempts, Purchase!Attempts, P1!Buy!RefundSettles,
     Purchase!RefundSettles, P1!Buy!RefundAnnounced, Purchase!RefundAnnounced,
     P1!Buy!ChangeEntitlement, Purchase!ChangeEntitlement, P1!Buy!Handle, Purchase!Handle,
     P1!Buy!stored, Purchase!stored, P1!Buy!CheckoutEvent, Purchase!CheckoutEvent,
     P1!Buy!RefundEvent, Purchase!RefundEvent, P1!Buy!NoRefund, Purchase!NoRefund,
     P1!Buy!Receive, Purchase!Receive, P1!Buy!Prepare, Purchase!Prepare, P1!Buy!Reconcile,
     Purchase!Reconcile, P1!Buy!HandlerFails, Purchase!HandlerFails, P1!Buy!Fault,
     Purchase!Fault, P1!Buy!Unsettled, Purchase!Unsettled, P1!Buy!Answer, Purchase!Answer,
     P1!Buy!Paid, Purchase!Paid, P1!Buy!Verified, Purchase!Verified, P1!Buy!RefundOwed,
     Purchase!RefundOwed, P1!Buy!Refuse, Purchase!Refuse, P1!Buy!Subjects, Purchase!Subjects,
     P1!Buy!Attempt, Purchase!Attempt, P1!Buy!Follow, Purchase!Follow, P1!Buy!Idle,
     Purchase!Idle, P1!Buy!Rows, Purchase!Rows, P1!Buy!Newest, Purchase!Newest,
     P1!Buy!CreatedRefund, Purchase!CreatedRefund, P1!Buy!WithRow, Purchase!WithRow,
     P1!Buy!Conclude, Purchase!Conclude, P1!Buy!AttemptOf, Purchase!AttemptOf, P1!Buy!Retries,
     Purchase!Retries
<1>4. P1!Buy!TypeOK <=> Purchase!TypeOK
  BY Zenon DEF P1!Buy!TypeOK, Purchase!TypeOK, P1!Buy!Attempts, Purchase!Attempts,
     P1!Buy!Refund, Purchase!Refund, P1!Buy!Event, Purchase!Event, P1!Buy!RefundStatus,
     Purchase!RefundStatus, P1!Buy!Handler, Purchase!Handler
<1>5. P1!Buy!OneOutcome <=> Purchase!OneOutcome
  BY Zenon DEF P1!Buy!OneOutcome, Purchase!OneOutcome, P1!Buy!Attempts, Purchase!Attempts,
     P1!Buy!NoRefund, Purchase!NoRefund
<1>6. P1!Buy!RefundedOnce <=> Purchase!RefundedOnce
  BY Zenon DEF P1!Buy!RefundedOnce, Purchase!RefundedOnce, P1!Buy!Attempts, Purchase!Attempts,
     P1!Buy!NoRefund, Purchase!NoRefund
<1>7. P1!Buy!AnsweredIsSettled <=> Purchase!AnsweredIsSettled
  BY Zenon DEF P1!Buy!AnsweredIsSettled, Purchase!AnsweredIsSettled
<1>8. P1!Buy!ConfirmedSucceeded <=> Purchase!ConfirmedSucceeded
  BY Zenon DEF P1!Buy!ConfirmedSucceeded, Purchase!ConfirmedSucceeded, P1!Buy!Attempts,
     Purchase!Attempts
<1>9. P1!Buy!purchaseVars = Purchase!purchaseVars
  BY Zenon DEF P1!Buy!purchaseVars, Purchase!purchaseVars
<1> QED BY <1>1, <1>2, <1>3, <1>4, <1>5, <1>6, <1>7, <1>8, <1>9

LEMMA PurchaseRuns == MCSpec => P1!Buy!Spec
<1>1. MCInit => P1!Buy!Init
  BY PurchaseSame DEF MCInit
<1>2. [MCNext]_mcVars => [P1!Buy!Next]_(P1!Buy!purchaseVars)
  <2>1. UNCHANGED buyVars => UNCHANGED P1!Buy!purchaseVars
    BY DEF buyVars, P1!Buy!purchaseVars
  <2>2. [MCNext]_mcVars => Purchase!Next \/ UNCHANGED buyVars
    BY DEF MCNext, mcVars
  <2> QED BY <2>1, <2>2, PurchaseSame
<1> QED BY <1>1, <1>2, PTL DEF MCSpec, P1!Buy!Spec

\* Credit purchases in the composition: a payment ends granted or refunded and
\* not both, another refund is asked for only when the earlier ones have
\* failed, an answered event leaves nothing owed, and a refund counts as
\* confirmed only when Stripe made it.
THEOREM PurchasesAreSafe == MCSpec => []PurchaseSafe
<1>1. P1!Buy!PurchaseAssumption
  BY BillingAssumption, PurchaseSame
<1>2. P1!Buy!Spec => []P1!Buy!TypeOK
  BY <1>1, P1!PurchaseTypeCorrect
<1>3. P1!Buy!Spec => []P1!Buy!OneOutcome
  BY <1>1, P1!GrantedOrRefunded
<1>4. P1!Buy!Spec => []P1!Buy!RefundedOnce
  BY <1>1, P1!RefundsFollowFailures
<1>5. P1!Buy!Spec => []P1!Buy!AnsweredIsSettled
  BY <1>1, P1!AnswersSettle
<1>6. P1!Buy!Spec => []P1!Buy!ConfirmedSucceeded
  BY <1>1, P1!ConfirmationIsTrue
<1>7. P1!Buy!TypeOK /\ P1!Buy!OneOutcome /\ P1!Buy!RefundedOnce /\ P1!Buy!AnsweredIsSettled /\
         P1!Buy!ConfirmedSucceeded => PurchaseSafe
  BY PurchaseSame DEF PurchaseSafe
<1> QED
  BY <1>2, <1>3, <1>4, <1>5, <1>6, <1>7, PurchaseRuns, PTL

\* The usage of the proofs is the one of the composition.
LEMMA UsageSame ==
    /\ P1!Usage!UsageAssumption <=> Usage!UsageAssumption
    /\ P1!Usage!Init <=> Usage!Init
    /\ P1!Usage!Next <=> Usage!Next
    /\ P1!Usage!TypeOK <=> Usage!TypeOK
    /\ P1!Usage!OneValuePerPeriod <=> Usage!OneValuePerPeriod
    /\ P1!Usage!SentIsCounted <=> Usage!SentIsCounted
    /\ P1!Usage!RepeatedAnew <=> Usage!RepeatedAnew
    /\ P1!Usage!usageVars = Usage!usageVars
<1>1. P1!Usage!UsageAssumption <=> Usage!UsageAssumption
  BY Zenon DEF P1!Usage!UsageAssumption, Usage!UsageAssumption
<1>2. P1!Usage!Init <=> Usage!Init
  BY Zenon DEF P1!Usage!Init, Usage!Init, P1!Usage!Periods, Usage!Periods, P1!Usage!NoRow,
     Usage!NoRow, P1!Usage!Idle, Usage!Idle, P1!Usage!NoReport, Usage!NoReport,
     P1!Usage!NoRequest, Usage!NoRequest
<1>3. P1!Usage!Next <=> Usage!Next
  BY Zenon DEF P1!Usage!Next, Usage!Next, P1!Usage!Dispatch, Usage!Dispatch,
     P1!Usage!DispatchNamed, Usage!DispatchNamed, P1!Usage!Send, Usage!Send, P1!Usage!MarkSent,
     Usage!MarkSent, P1!Usage!MarkFailed, Usage!MarkFailed, P1!Usage!WorkerCrash,
     Usage!WorkerCrash, P1!Usage!Terminalize, Usage!Terminalize, P1!Usage!RequeueDeadLettered,
     Usage!RequeueDeadLettered, P1!Usage!Periods, Usage!Periods, P1!Usage!TimePasses,
     Usage!TimePasses, P1!Usage!NextPeriod, Usage!NextPeriod, P1!Usage!StaffChanges,
     Usage!StaffChanges, P1!Usage!Reject, Usage!Reject, P1!Usage!Receive, Usage!Receive,
     P1!Usage!FindSample, Usage!FindSample, P1!Usage!Transition, Usage!Transition,
     P1!Usage!FindCandidates, Usage!FindCandidates, P1!Usage!Conclude, Usage!Conclude,
     P1!Usage!RequestCrash, Usage!RequestCrash, P1!Usage!Idle, Usage!Idle, P1!Usage!Claimable,
     Usage!Claimable, P1!Usage!Prepared, Usage!Prepared, P1!Usage!Claimed, Usage!Claimed,
     P1!Usage!Accept, Usage!Accept, P1!Usage!Submission, Usage!Submission, P1!Usage!Owns,
     Usage!Owns, P1!Usage!Requeued, Usage!Requeued, P1!Usage!NoReport, Usage!NoReport,
     P1!Usage!Key, Usage!Key, P1!Usage!Latest, Usage!Latest, P1!Usage!NoRequest,
     Usage!NoRequest, P1!Usage!Handled, Usage!Handled, P1!Usage!Count, Usage!Count,
     P1!Usage!Seen, Usage!Seen, P1!Usage!Rotated, Usage!Rotated, P1!Usage!NoRow, Usage!NoRow,
     P1!Usage!MaxClaims, Usage!MaxClaims, P1!Usage!Cardinality, Usage!Cardinality
<1>4. P1!Usage!TypeOK <=> Usage!TypeOK
  BY Zenon DEF P1!Usage!TypeOK, Usage!TypeOK, P1!Usage!Periods, Usage!Periods
<1>5. P1!Usage!OneValuePerPeriod <=> Usage!OneValuePerPeriod
  BY Zenon DEF P1!Usage!OneValuePerPeriod, Usage!OneValuePerPeriod
<1>6. P1!Usage!SentIsCounted <=> Usage!SentIsCounted
  BY Zenon DEF P1!Usage!SentIsCounted, Usage!SentIsCounted, P1!Usage!Periods, Usage!Periods
<1>7. P1!Usage!RepeatedAnew <=> Usage!RepeatedAnew
  BY Zenon DEF P1!Usage!RepeatedAnew, Usage!RepeatedAnew, P1!Usage!Periods, Usage!Periods
<1>8. P1!Usage!usageVars = Usage!usageVars
  BY Zenon DEF P1!Usage!usageVars, Usage!usageVars
<1> QED BY <1>1, <1>2, <1>3, <1>4, <1>5, <1>6, <1>7, <1>8

LEMMA UsageRuns == MCSpec => P1!Usage!Spec
<1>1. MCInit => P1!Usage!Init
  BY UsageSame DEF MCInit
<1>2. [MCNext]_mcVars => [P1!Usage!Next]_(P1!Usage!usageVars)
  <2>1. UNCHANGED usageVars => UNCHANGED P1!Usage!usageVars
    BY DEF usageVars, P1!Usage!usageVars
  <2>2. [MCNext]_mcVars => Usage!Next \/ UNCHANGED usageVars
    BY DEF MCNext, mcVars
  <2> QED BY <2>1, <2>2, UsageSame
<1> QED BY <1>1, <1>2, PTL DEF MCSpec, P1!Usage!Spec

\* The usage of the proofs is the one of the composition.
LEMMA UnnamedSame ==
    /\ P2!Usage!UsageAssumption <=> Unnamed!UsageAssumption
    /\ P2!Usage!Init <=> Unnamed!Init
    /\ P2!Usage!Next <=> Unnamed!Next
    /\ P2!Usage!TypeOK <=> Unnamed!TypeOK
    /\ P2!Usage!OneValuePerPeriod <=> Unnamed!OneValuePerPeriod
    /\ P2!Usage!usageVars = Unnamed!usageVars
<1>1. P2!Usage!UsageAssumption <=> Unnamed!UsageAssumption
  BY Zenon DEF P2!Usage!UsageAssumption, Unnamed!UsageAssumption
<1>2. P2!Usage!Init <=> Unnamed!Init
  BY Zenon DEF P2!Usage!Init, Unnamed!Init, P2!Usage!Periods, Unnamed!Periods, P2!Usage!NoRow,
     Unnamed!NoRow, P2!Usage!Idle, Unnamed!Idle, P2!Usage!NoReport, Unnamed!NoReport,
     P2!Usage!NoRequest, Unnamed!NoRequest
<1>3. P2!Usage!Next <=> Unnamed!Next
  BY Zenon DEF P2!Usage!Next, Unnamed!Next, P2!Usage!Dispatch, Unnamed!Dispatch,
     P2!Usage!DispatchNamed, Unnamed!DispatchNamed, P2!Usage!Send, Unnamed!Send,
     P2!Usage!MarkSent, Unnamed!MarkSent, P2!Usage!MarkFailed, Unnamed!MarkFailed,
     P2!Usage!WorkerCrash, Unnamed!WorkerCrash, P2!Usage!Terminalize, Unnamed!Terminalize,
     P2!Usage!RequeueDeadLettered, Unnamed!RequeueDeadLettered, P2!Usage!Periods,
     Unnamed!Periods, P2!Usage!TimePasses, Unnamed!TimePasses, P2!Usage!NextPeriod,
     Unnamed!NextPeriod, P2!Usage!StaffChanges, Unnamed!StaffChanges, P2!Usage!Reject,
     Unnamed!Reject, P2!Usage!Receive, Unnamed!Receive, P2!Usage!FindSample, Unnamed!FindSample,
     P2!Usage!Transition, Unnamed!Transition, P2!Usage!FindCandidates, Unnamed!FindCandidates,
     P2!Usage!Conclude, Unnamed!Conclude, P2!Usage!RequestCrash, Unnamed!RequestCrash,
     P2!Usage!Idle, Unnamed!Idle, P2!Usage!Claimable, Unnamed!Claimable, P2!Usage!Prepared,
     Unnamed!Prepared, P2!Usage!Claimed, Unnamed!Claimed, P2!Usage!Accept, Unnamed!Accept,
     P2!Usage!Submission, Unnamed!Submission, P2!Usage!Owns, Unnamed!Owns, P2!Usage!Requeued,
     Unnamed!Requeued, P2!Usage!NoReport, Unnamed!NoReport, P2!Usage!Key, Unnamed!Key,
     P2!Usage!Latest, Unnamed!Latest, P2!Usage!NoRequest, Unnamed!NoRequest, P2!Usage!Handled,
     Unnamed!Handled, P2!Usage!Count, Unnamed!Count, P2!Usage!Seen, Unnamed!Seen,
     P2!Usage!Rotated, Unnamed!Rotated, P2!Usage!NoRow, Unnamed!NoRow, P2!Usage!MaxClaims,
     Unnamed!MaxClaims, P2!Usage!Cardinality, Unnamed!Cardinality
<1>4. P2!Usage!TypeOK <=> Unnamed!TypeOK
  BY Zenon DEF P2!Usage!TypeOK, Unnamed!TypeOK, P2!Usage!Periods, Unnamed!Periods
<1>5. P2!Usage!OneValuePerPeriod <=> Unnamed!OneValuePerPeriod
  BY Zenon DEF P2!Usage!OneValuePerPeriod, Unnamed!OneValuePerPeriod
<1>6. P2!Usage!usageVars = Unnamed!usageVars
  BY Zenon DEF P2!Usage!usageVars, Unnamed!usageVars
<1> QED BY <1>1, <1>2, <1>3, <1>4, <1>5, <1>6

LEMMA UnnamedRuns == MCSpec => P2!Usage!Spec
<1>1. MCInit => P2!Usage!Init
  BY UnnamedSame DEF MCInit
<1>2. [MCNext]_mcVars => [P2!Usage!Next]_(P2!Usage!usageVars)
  <2>1. UNCHANGED unnamedVars => UNCHANGED P2!Usage!usageVars
    BY DEF unnamedVars, P2!Usage!usageVars
  <2>2. [MCNext]_mcVars => Unnamed!Next \/ UNCHANGED unnamedVars
    BY DEF MCNext, mcVars
  <2> QED BY <2>1, <2>2, UnnamedSame
<1> QED BY <1>1, <1>2, PTL DEF MCSpec, P2!Usage!Spec

\* Usage in the composition: a period is reported with one value by whichever
\* worker, attempt or replay, what counts as sent was counted by Stripe, and
\* what Stripe rejected is repeated under a new identity; a report that leaves
\* submissions unnamed changes no value either.
THEOREM UsageIsSafe == MCSpec => []UsageSafe
<1>1. P1!Usage!UsageAssumption /\ P2!Usage!UsageAssumption
  BY BillingAssumption, UsageSame, UnnamedSame
<1>2. P1!Usage!Spec => []P1!Usage!TypeOK
  BY <1>1, P1!UsageTypeCorrect
<1>3. P1!Usage!Spec => []P1!Usage!OneValuePerPeriod
  BY <1>1, P1!ValueIsFrozen
<1>4. P1!Usage!Spec => []P1!Usage!SentIsCounted
  BY <1>1, P1!SentUsageIsCounted
<1>5. P1!Usage!Spec => []P1!Usage!RepeatedAnew
  BY <1>1, P1!RepeatsAreNew
<1>6. P2!Usage!Spec => []P2!Usage!TypeOK
  BY <1>1, P2!UsageTypeCorrect
<1>7. P2!Usage!Spec => []P2!Usage!OneValuePerPeriod
  BY <1>1, P2!ValueIsFrozen
<1>8. P1!Usage!TypeOK /\ P1!Usage!OneValuePerPeriod /\ P1!Usage!SentIsCounted /\ P1!Usage!RepeatedAnew
         /\ P2!Usage!TypeOK /\ P2!Usage!OneValuePerPeriod => UsageSafe
  BY UsageSame, UnnamedSame DEF UsageSafe
<1> QED
  BY <1>2, <1>3, <1>4, <1>5, <1>6, <1>7, <1>8, UsageRuns, UnnamedRuns, PTL

\* The deletion of the proofs is the one of the composition.
LEMMA DeleteSame ==
    /\ P1!Delete!DeletionAssumption <=> Delete!DeletionAssumption
    /\ P1!Delete!Init <=> Delete!Init
    /\ P1!Delete!Next <=> Delete!Next
    /\ P1!Delete!TypeOK <=> Delete!TypeOK
    /\ P1!Delete!PurgedOwesNothing <=> Delete!PurgedOwesNothing
    /\ P1!Delete!FinalizedOnce <=> Delete!FinalizedOnce
    /\ P1!Delete!deletionVars = Delete!deletionVars
<1>1. P1!Delete!DeletionAssumption <=> Delete!DeletionAssumption
  BY Zenon DEF P1!Delete!DeletionAssumption, Delete!DeletionAssumption
<1>2. P1!Delete!Init <=> Delete!Init
  BY Zenon DEF P1!Delete!Init, Delete!Init, P1!Delete!Idle, Delete!Idle
<1>3. P1!Delete!Next <=> Delete!Next
  BY Zenon DEF P1!Delete!Next, Delete!Next, P1!Delete!Customer, Delete!Customer,
     P1!Delete!LeaseExpires, Delete!LeaseExpires, P1!Delete!BackoffPasses, Delete!BackoffPasses,
     P1!Delete!Attempt, Delete!Attempt, P1!Delete!Sweep, Delete!Sweep, P1!Delete!AttemptFails,
     Delete!AttemptFails, P1!Delete!ClaimLost, Delete!ClaimLost, P1!Delete!Crash, Delete!Crash,
     P1!Delete!RequestDeletion, Delete!RequestDeletion, P1!Delete!StartCheckout,
     Delete!StartCheckout, P1!Delete!CreateCustomer, Delete!CreateCustomer,
     P1!Delete!ClaimCustomer, Delete!ClaimCustomer, P1!Delete!ArchiveTenant,
     Delete!ArchiveTenant, P1!Delete!HoldWins, Delete!HoldWins, P1!Delete!MarkCompensated,
     Delete!MarkCompensated, P1!Delete!CreateSession, Delete!CreateSession, P1!Delete!Complete,
     Delete!Complete, P1!Delete!Bind, Delete!Bind, P1!Delete!Orphaned, Delete!Orphaned,
     P1!Delete!atStripe, Delete!atStripe, P1!Delete!counters, Delete!counters,
     P1!Delete!ReadBarrier, Delete!ReadBarrier, P1!Delete!Renew, Delete!Renew,
     P1!Delete!Snapshot, Delete!Snapshot, P1!Delete!RetrieveCustomer, Delete!RetrieveCustomer,
     P1!Delete!ListSessions, Delete!ListSessions, P1!Delete!ExpireSession, Delete!ExpireSession,
     P1!Delete!CancelSubscription, Delete!CancelSubscription, P1!Delete!SessionsDone,
     Delete!SessionsDone, P1!Delete!ListSubscriptions, Delete!ListSubscriptions,
     P1!Delete!SubscriptionsDone, Delete!SubscriptionsDone, P1!Delete!DeleteCustomer,
     Delete!DeleteCustomer, P1!Delete!ClearBindings, Delete!ClearBindings, P1!Delete!Finalize,
     Delete!Finalize, P1!Delete!RecordFailure, Delete!RecordFailure, P1!Delete!Claimable,
     Delete!Claimable, P1!Delete!Claimed, Delete!Claimed, P1!Delete!Idle, Delete!Idle,
     P1!Delete!Fault, Delete!Fault, P1!Delete!Goto, Delete!Goto, P1!Delete!records,
     Delete!records, P1!Delete!AtStripe, Delete!AtStripe, P1!Delete!Owns, Delete!Owns,
     P1!Delete!Admitted, Delete!Admitted, P1!Delete!Pending, Delete!Pending,
     P1!Delete!ClaimOrAnswer, Delete!ClaimOrAnswer, P1!Delete!EnsuredRow, Delete!EnsuredRow,
     P1!Delete!CanStart, Delete!CanStart, P1!Delete!Open, Delete!Open, P1!Delete!Holds,
     Delete!Holds
<1>4. P1!Delete!TypeOK <=> Delete!TypeOK
  BY Zenon DEF P1!Delete!TypeOK, Delete!TypeOK, P1!Delete!Tenant, Delete!Tenant,
     P1!Delete!Barrier, Delete!Barrier, P1!Delete!Row, Delete!Row, P1!Delete!Proc, Delete!Proc,
     P1!Delete!PC, Delete!PC, P1!Delete!AtStripe, Delete!AtStripe
<1>5. P1!Delete!PurgedOwesNothing <=> Delete!PurgedOwesNothing
  BY Zenon DEF P1!Delete!PurgedOwesNothing, Delete!PurgedOwesNothing, P1!Delete!Purged,
     Delete!Purged, P1!Delete!Open, Delete!Open
<1>6. P1!Delete!FinalizedOnce <=> Delete!FinalizedOnce
  BY Zenon DEF P1!Delete!FinalizedOnce, Delete!FinalizedOnce, P1!Delete!Purged, Delete!Purged
<1>7. P1!Delete!deletionVars = Delete!deletionVars
  BY Zenon DEF P1!Delete!deletionVars, Delete!deletionVars
<1> QED BY <1>1, <1>2, <1>3, <1>4, <1>5, <1>6, <1>7

LEMMA DeleteRuns == MCSpec => P1!Delete!Spec
<1>1. MCInit => P1!Delete!Init
  BY DeleteSame DEF MCInit
<1>2. [MCNext]_mcVars => [P1!Delete!Next]_(P1!Delete!deletionVars)
  <2>1. UNCHANGED delVars => UNCHANGED P1!Delete!deletionVars
    BY DEF delVars, P1!Delete!deletionVars
  <2>2. [MCNext]_mcVars => Delete!Next \/ UNCHANGED delVars
    BY DEF MCNext, mcVars
  <2> QED BY <2>1, <2>2, DeleteSame
<1> QED BY <1>1, <1>2, PTL DEF MCSpec, P1!Delete!Spec

\* Deletions in the composition: an account that is purged owes nothing at
\* Stripe, and its final invoice is made once, whatever fails between.
THEOREM DeletionsAreSafe == MCSpec => []DeletionSafe
<1>1. P1!Delete!DeletionAssumption
  BY BillingAssumption, DeleteSame
<1>2. P1!Delete!Spec => []P1!Delete!TypeOK
  BY <1>1, P1!DeletionTypeCorrect
<1>3. P1!Delete!Spec => []P1!Delete!PurgedOwesNothing
  BY <1>1, P1!PurgedTenantOwesNothing
<1>4. P1!Delete!Spec => []P1!Delete!FinalizedOnce
  BY <1>1, P1!DeletionIsFinalizedOnce
<1>5. P1!Delete!TypeOK /\ P1!Delete!PurgedOwesNothing /\ P1!Delete!FinalizedOnce => DeletionSafe
  BY DeleteSame DEF DeletionSafe
<1> QED
  BY <1>2, <1>3, <1>4, <1>5, DeleteRuns, PTL

\* The events of the proofs is the one of the composition.
LEMMA SyncSame ==
    /\ P1!Sync!SyncAssumption <=> Sync!SyncAssumption
    /\ P1!Sync!Init <=> Sync!Init
    /\ P1!Sync!Next <=> Sync!Next
    /\ P1!Sync!TypeOK <=> Sync!TypeOK
    /\ P1!Sync!NewestEventDecides <=> Sync!NewestEventDecides
    /\ P1!Sync!EventAppliedOnce <=> Sync!EventAppliedOnce
    /\ P1!Sync!syncVars = Sync!syncVars
<1>1. P1!Sync!SyncAssumption <=> Sync!SyncAssumption
  BY Zenon DEF P1!Sync!SyncAssumption, Sync!SyncAssumption
<1>2. P1!Sync!Init <=> Sync!Init
  BY Zenon DEF P1!Sync!Init, Sync!Init, P1!Sync!Idle, Sync!Idle
<1>3. P1!Sync!Next <=> Sync!Next
  BY Zenon DEF P1!Sync!Next, Sync!Next, P1!Sync!Subscribe, Sync!Subscribe, P1!Sync!Pay,
     Sync!Pay, P1!Sync!FailPayment, Sync!FailPayment, P1!Sync!Pause, Sync!Pause, P1!Sync!Cancel,
     Sync!Cancel, P1!Sync!Handle, Sync!Handle, P1!Sync!ResumeTenantSubscription,
     Sync!ResumeTenantSubscription, P1!Sync!SuspendTenant, Sync!SuspendTenant,
     P1!Sync!CheckActivation, Sync!CheckActivation, P1!Sync!ActivateTenant, Sync!ActivateTenant,
     P1!Sync!Outgrow, Sync!Outgrow, P1!Sync!Change, Sync!Change, P1!Sync!admin, Sync!admin,
     P1!Sync!bounds, Sync!bounds, P1!Sync!Receive, Sync!Receive, P1!Sync!Retrieve,
     Sync!Retrieve, P1!Sync!Commit, Sync!Commit, P1!Sync!HandlerFails, Sync!HandlerFails,
     P1!Sync!Synchronized, Sync!Synchronized, P1!Sync!Fault, Sync!Fault, P1!Sync!Switch,
     Sync!Switch, P1!Sync!provider, Sync!provider, P1!Sync!Resolution, Sync!Resolution,
     P1!Sync!Idle, Sync!Idle, P1!Sync!NeedsSubscription, Sync!NeedsSubscription,
     P1!Sync!Priority, Sync!Priority, P1!Sync!Bound, Sync!Bound, P1!Sync!Ready, Sync!Ready,
     P1!Sync!Recorded, Sync!Recorded, P1!Sync!Record, Sync!Record, P1!Sync!DeletionBinds,
     Sync!DeletionBinds, P1!Sync!Stale, Sync!Stale, P1!Sync!Cancelled, Sync!Cancelled,
     P1!Sync!Invoice, Sync!Invoice, P1!Sync!Initial, Sync!Initial, P1!Sync!Accepted,
     Sync!Accepted, P1!Sync!Applied, Sync!Applied, P1!Sync!Ahead, Sync!Ahead, P1!Sync!Canonical,
     Sync!Canonical, P1!Sync!IdBelow, Sync!IdBelow, P1!Sync!Rank, Sync!Rank
<1>4. P1!Sync!TypeOK <=> Sync!TypeOK
  BY Zenon DEF P1!Sync!TypeOK, Sync!TypeOK, P1!Sync!SubStatus, Sync!SubStatus, P1!Sync!Event,
     Sync!Event, P1!Sync!Tenant, Sync!Tenant, P1!Sync!Entry, Sync!Entry, P1!Sync!Handler,
     Sync!Handler, P1!Sync!Types, Sync!Types, P1!Sync!TenantStatus, Sync!TenantStatus,
     P1!Sync!Outcomes, Sync!Outcomes, P1!Sync!Invoice, Sync!Invoice, P1!Sync!Canonical,
     Sync!Canonical, P1!Sync!Initial, Sync!Initial
<1>5. P1!Sync!NewestEventDecides <=> Sync!NewestEventDecides
  BY Zenon DEF P1!Sync!NewestEventDecides, Sync!NewestEventDecides, P1!Sync!Applied,
     Sync!Applied, P1!Sync!LastAndAlone, Sync!LastAndAlone, P1!Sync!Mirrors, Sync!Mirrors
<1>6. P1!Sync!EventAppliedOnce <=> Sync!EventAppliedOnce
  BY Zenon DEF P1!Sync!EventAppliedOnce, Sync!EventAppliedOnce
<1>7. P1!Sync!syncVars = Sync!syncVars
  BY Zenon DEF P1!Sync!syncVars, Sync!syncVars
<1> QED BY <1>1, <1>2, <1>3, <1>4, <1>5, <1>6, <1>7

LEMMA SyncRuns == MCSpec => P1!Sync!Spec
<1>1. MCInit => P1!Sync!Init
  BY SyncSame DEF MCInit
<1>2. [MCNext]_mcVars => [P1!Sync!Next]_(P1!Sync!syncVars)
  <2>1. UNCHANGED syncVars => UNCHANGED P1!Sync!syncVars
    BY DEF syncVars, P1!Sync!syncVars
  <2>2. [MCNext]_mcVars => Sync!Next \/ UNCHANGED syncVars
    BY DEF MCNext, mcVars
  <2> QED BY <2>1, <2>2, SyncSame
<1> QED BY <1>1, <1>2, PTL DEF MCSpec, P1!Sync!Spec

\* The events of the proofs is the one of the composition.
LEMMA SuspendedSame ==
    /\ P2!Sync!SyncAssumption <=> Suspended!SyncAssumption
    /\ P2!Sync!Init <=> Suspended!Init
    /\ P2!Sync!Next <=> Suspended!Next
    /\ P2!Sync!TypeOK <=> Suspended!TypeOK
    /\ P2!Sync!NewestEventDecides <=> Suspended!NewestEventDecides
    /\ P2!Sync!EventAppliedOnce <=> Suspended!EventAppliedOnce
    /\ P2!Sync!syncVars = Suspended!syncVars
<1>1. P2!Sync!SyncAssumption <=> Suspended!SyncAssumption
  BY Zenon DEF P2!Sync!SyncAssumption, Suspended!SyncAssumption
<1>2. P2!Sync!Init <=> Suspended!Init
  BY Zenon DEF P2!Sync!Init, Suspended!Init, P2!Sync!Idle, Suspended!Idle
<1>3. P2!Sync!Next <=> Suspended!Next
  BY Zenon DEF P2!Sync!Next, Suspended!Next, P2!Sync!Subscribe, Suspended!Subscribe,
     P2!Sync!Pay, Suspended!Pay, P2!Sync!FailPayment, Suspended!FailPayment, P2!Sync!Pause,
     Suspended!Pause, P2!Sync!Cancel, Suspended!Cancel, P2!Sync!Handle, Suspended!Handle,
     P2!Sync!ResumeTenantSubscription, Suspended!ResumeTenantSubscription,
     P2!Sync!SuspendTenant, Suspended!SuspendTenant, P2!Sync!CheckActivation,
     Suspended!CheckActivation, P2!Sync!ActivateTenant, Suspended!ActivateTenant,
     P2!Sync!Outgrow, Suspended!Outgrow, P2!Sync!Change, Suspended!Change, P2!Sync!admin,
     Suspended!admin, P2!Sync!bounds, Suspended!bounds, P2!Sync!Receive, Suspended!Receive,
     P2!Sync!Retrieve, Suspended!Retrieve, P2!Sync!Commit, Suspended!Commit,
     P2!Sync!HandlerFails, Suspended!HandlerFails, P2!Sync!Synchronized, Suspended!Synchronized,
     P2!Sync!Fault, Suspended!Fault, P2!Sync!Switch, Suspended!Switch, P2!Sync!provider,
     Suspended!provider, P2!Sync!Resolution, Suspended!Resolution, P2!Sync!Idle, Suspended!Idle,
     P2!Sync!NeedsSubscription, Suspended!NeedsSubscription, P2!Sync!Priority,
     Suspended!Priority, P2!Sync!Bound, Suspended!Bound, P2!Sync!Ready, Suspended!Ready,
     P2!Sync!Recorded, Suspended!Recorded, P2!Sync!Record, Suspended!Record,
     P2!Sync!DeletionBinds, Suspended!DeletionBinds, P2!Sync!Stale, Suspended!Stale,
     P2!Sync!Cancelled, Suspended!Cancelled, P2!Sync!Invoice, Suspended!Invoice,
     P2!Sync!Initial, Suspended!Initial, P2!Sync!Accepted, Suspended!Accepted, P2!Sync!Applied,
     Suspended!Applied, P2!Sync!Ahead, Suspended!Ahead, P2!Sync!Canonical, Suspended!Canonical,
     P2!Sync!IdBelow, Suspended!IdBelow, P2!Sync!Rank, Suspended!Rank
<1>4. P2!Sync!TypeOK <=> Suspended!TypeOK
  BY Zenon DEF P2!Sync!TypeOK, Suspended!TypeOK, P2!Sync!SubStatus, Suspended!SubStatus,
     P2!Sync!Event, Suspended!Event, P2!Sync!Tenant, Suspended!Tenant, P2!Sync!Entry,
     Suspended!Entry, P2!Sync!Handler, Suspended!Handler, P2!Sync!Types, Suspended!Types,
     P2!Sync!TenantStatus, Suspended!TenantStatus, P2!Sync!Outcomes, Suspended!Outcomes,
     P2!Sync!Invoice, Suspended!Invoice, P2!Sync!Canonical, Suspended!Canonical,
     P2!Sync!Initial, Suspended!Initial
<1>5. P2!Sync!NewestEventDecides <=> Suspended!NewestEventDecides
  BY Zenon DEF P2!Sync!NewestEventDecides, Suspended!NewestEventDecides, P2!Sync!Applied,
     Suspended!Applied, P2!Sync!LastAndAlone, Suspended!LastAndAlone, P2!Sync!Mirrors,
     Suspended!Mirrors
<1>6. P2!Sync!EventAppliedOnce <=> Suspended!EventAppliedOnce
  BY Zenon DEF P2!Sync!EventAppliedOnce, Suspended!EventAppliedOnce
<1>7. P2!Sync!syncVars = Suspended!syncVars
  BY Zenon DEF P2!Sync!syncVars, Suspended!syncVars
<1> QED BY <1>1, <1>2, <1>3, <1>4, <1>5, <1>6, <1>7

LEMMA SuspendedRuns == MCSpec => P2!Sync!Spec
<1>1. MCInit => P2!Sync!Init
  BY SuspendedSame DEF MCInit
<1>2. [MCNext]_mcVars => [P2!Sync!Next]_(P2!Sync!syncVars)
  <2>1. UNCHANGED suspVars => UNCHANGED P2!Sync!syncVars
    BY DEF suspVars, P2!Sync!syncVars
  <2>2. [MCNext]_mcVars => Suspended!Next \/ UNCHANGED suspVars
    BY DEF MCNext, mcVars
  <2> QED BY <2>1, <2>2, SuspendedSame
<1> QED BY <1>1, <1>2, PTL DEF MCSpec, P2!Sync!Spec

\* Subscription events in the composition: an event is recorded once, and once one
\* of the newest change of the bound subscription is applied the tenant shows that
\* change, whatever older ones are still being handled, if it was alone in its
\* second and no administrator overruled it.
THEOREM SyncIsSafe == MCSpec => []SyncSafe
<1>1. P1!Sync!SyncAssumption /\ P2!Sync!SyncAssumption
  BY BillingAssumption, SyncSame, SuspendedSame
<1>2. P1!Sync!Spec => []P1!Sync!TypeOK
  BY <1>1, P1!SyncTypeCorrect
<1>3. P1!Sync!Spec => []P1!Sync!NewestEventDecides
  BY <1>1, P1!NewestDecides
<1>4. P1!Sync!Spec => []P1!Sync!EventAppliedOnce
  BY <1>1, P1!EventsAppliedOnce
<1>5. P2!Sync!Spec => []P2!Sync!TypeOK
  BY <1>1, P2!SyncTypeCorrect
<1>6. P2!Sync!Spec => []P2!Sync!NewestEventDecides
  BY <1>1, P2!NewestDecides
<1>7. P2!Sync!Spec => []P2!Sync!EventAppliedOnce
  BY <1>1, P2!EventsAppliedOnce
<1>8. P1!Sync!TypeOK /\ P1!Sync!NewestEventDecides /\ P1!Sync!EventAppliedOnce /\ P2!Sync!TypeOK /\
         P2!Sync!NewestEventDecides /\ P2!Sync!EventAppliedOnce => SyncSafe
  BY SyncSame, SuspendedSame DEF SyncSafe
<1> QED
  BY <1>2, <1>3, <1>4, <1>5, <1>6, <1>7, <1>8, SyncRuns, SuspendedRuns, PTL

\* Steps in the composition: a deleted subscription does not come back, unless it
\* was taken out in that very second, a tenant is bound to one subscription at a time, a webhook activates it only within its
\* capacity and never past a suspension, and credits are granted only for a verified,
\* paid session of a tenant that may have them.
THEOREM BillingStepsHold == MCSpec => BillingSteps
<1>1. P1!Sync!SyncAssumption /\ P2!Sync!SyncAssumption /\ P1!Buy!PurchaseAssumption
  BY BillingAssumption, SyncSame, SuspendedSame, PurchaseSame
<1>2. P1!Sync!Spec => P1!Sync!DeletedStaysDeleted
  BY <1>1, P1!DeletionsStay
<1>3. P1!Sync!DeletedStaysDeleted => Sync!DeletedStaysDeleted
  <2>1. P1!Sync!SparesDeleted <=> Sync!SparesDeleted
    BY Zenon DEF P1!Sync!SparesDeleted, Sync!SparesDeleted, P1!Sync!OutlivesItsSecond,
       Sync!OutlivesItsSecond, P1!Sync!Initial, Sync!Initial
  <2>2. [P1!Sync!SparesDeleted]_(P1!Sync!syncVars) => [Sync!SparesDeleted]_(Sync!syncVars)
    BY <2>1 DEF P1!Sync!syncVars, Sync!syncVars
  <2> QED BY <2>2, PTL DEF P1!Sync!DeletedStaysDeleted, Sync!DeletedStaysDeleted
<1>4. P1!Sync!Spec => P1!Sync!BindingIsExclusive
  BY <1>1, P1!BindingsAreExclusive
<1>5. P1!Sync!BindingIsExclusive => Sync!BindingIsExclusive
  <2>1. P1!Sync!LetsGoEnded <=> Sync!LetsGoEnded
    BY Zenon DEF P1!Sync!LetsGoEnded, Sync!LetsGoEnded
  <2>2. [P1!Sync!LetsGoEnded]_(P1!Sync!syncVars) => [Sync!LetsGoEnded]_(Sync!syncVars)
    BY <2>1 DEF P1!Sync!syncVars, Sync!syncVars
  <2> QED BY <2>2, PTL DEF P1!Sync!BindingIsExclusive, Sync!BindingIsExclusive
<1>6. P2!Sync!Spec => P2!Sync!DeletedStaysDeleted
  BY <1>1, P2!DeletionsStay
<1>7. P2!Sync!DeletedStaysDeleted => Suspended!DeletedStaysDeleted
  <2>1. P2!Sync!SparesDeleted <=> Suspended!SparesDeleted
    BY Zenon DEF P2!Sync!SparesDeleted, Suspended!SparesDeleted, P2!Sync!OutlivesItsSecond,
       Suspended!OutlivesItsSecond, P2!Sync!Initial, Suspended!Initial
  <2>2. [P2!Sync!SparesDeleted]_(P2!Sync!syncVars) => [Suspended!SparesDeleted]_(Suspended!syncVars)
    BY <2>1 DEF P2!Sync!syncVars, Suspended!syncVars
  <2> QED BY <2>2, PTL DEF P2!Sync!DeletedStaysDeleted, Suspended!DeletedStaysDeleted
<1>8. P2!Sync!Spec => P2!Sync!ActivationIsAllowed
  BY <1>1, P2!ActivationsAreAllowed
<1>9. P2!Sync!ActivationIsAllowed => Suspended!ActivationIsAllowed
  <2>1. P2!Sync!ActivatesEntitled <=> Suspended!ActivatesEntitled
    BY Zenon DEF P2!Sync!ActivatesEntitled, Suspended!ActivatesEntitled
  <2>2. [P2!Sync!ActivatesEntitled]_(P2!Sync!syncVars) => [Suspended!ActivatesEntitled]_(Suspended!syncVars)
    BY <2>1 DEF P2!Sync!syncVars, Suspended!syncVars
  <2> QED BY <2>2, PTL DEF P2!Sync!ActivationIsAllowed, Suspended!ActivationIsAllowed
<1>10. P1!Buy!Spec => P1!Buy!GrantIsDue
  BY <1>1, P1!GrantsAreDue
<1>11. P1!Buy!GrantIsDue => Purchase!GrantIsDue
  <2>1. P1!Buy!GrantsDue <=> Purchase!GrantsDue
    BY Zenon DEF P1!Buy!GrantsDue, Purchase!GrantsDue
  <2>2. [P1!Buy!GrantsDue]_(P1!Buy!purchaseVars) => [Purchase!GrantsDue]_(Purchase!purchaseVars)
    BY <2>1 DEF P1!Buy!purchaseVars, Purchase!purchaseVars
  <2> QED BY <2>2, PTL DEF P1!Buy!GrantIsDue, Purchase!GrantIsDue
<1> QED
  BY <1>2, <1>3, <1>4, <1>5, <1>6, <1>7, <1>8, <1>9, <1>10, <1>11, SyncRuns, SuspendedRuns,
     PurchaseRuns, PTL DEF BillingSteps
=============================================================================
