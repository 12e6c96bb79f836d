---------------------------- MODULE StripeProofs ----------------------------
(***************************************************************************)
(* Proofs about the money at Stripe: credit purchases, metered usage, the  *)
(* account that is deleted while it owes, and the events of subscriptions. *)
(***************************************************************************)
EXTENDS Integers, FiniteSetTheorems, WellFoundedInduction, TLAPS

CONSTANTS
    None, BuySessions, BuyHandlers, BuyMaxAttempts, BuyMaxSwitches, BuyMaxFaults,
    UsageWorkers, UsageReports, UsageNumPeriods, UsageMaxStaff, UsageMaxAttempts,
    UsageMaxReplays, UsageMaxFaults, UsageIncomplete, DelProcs, DelSessions, DelIntakes,
    DelMaxFaults, DelMaxStalls, SyncSubs, SyncHandlers, SyncUnlisted, SyncMaxChanges,
    SyncMaxSwitches, SyncMaxFaults

VARIABLES
    buySession, buyMatches, buyRefunds, buyUnacked, buyEntitled, buyPurchase, buyGrants,
    buyTerminal, buyRecords, buyHandler, buySwitches, buyFaults, usageNow, usageStaff,
    usageRow, usageWorker, usageAccepted, usageRejected, usageReport, usageHandler,
    usageFaults, delTenant, delBarrier, delRow, delPurges, delClient, delSessions,
    delSubs, delCheckout, delUndoing, delProc, delFaults, delStalls, syncStripe,
    syncClock, syncSecond, syncEvents, syncUpward, syncAcked, syncTenant, syncFits,
    syncLedger, syncHandler, syncActivation, syncActivated, syncSwitches, syncFaults

Buy == INSTANCE CreditPurchase WITH
    Sessions <- BuySessions, Handlers <- BuyHandlers, None <- None, MaxAttempts <-
    BuyMaxAttempts, MaxSwitches <- BuyMaxSwitches, MaxFaults <- BuyMaxFaults, session <-
    buySession, matches <- buyMatches, refunds <- buyRefunds, unacked <- buyUnacked,
    entitled <- buyEntitled, purchase <- buyPurchase, grants <- buyGrants, terminal <-
    buyTerminal, records <- buyRecords, handler <- buyHandler, switches <- buySwitches,
    faults <- buyFaults

Usage == INSTANCE UsageMetering WITH
    Workers <- UsageWorkers, Reports <- UsageReports, None <- None, NumPeriods <-
    UsageNumPeriods, MaxStaff <- UsageMaxStaff, MaxAttempts <- UsageMaxAttempts,
    MaxReplays <- UsageMaxReplays, MaxFaults <- UsageMaxFaults, Incomplete <-
    UsageIncomplete, now <- usageNow, staff <- usageStaff, row <- usageRow, worker <-
    usageWorker, accepted <- usageAccepted, rejected <- usageRejected, report <-
    usageReport, handler <- usageHandler, faults <- usageFaults

Delete == INSTANCE TenantDeletion WITH
    Procs <- DelProcs, Sessions <- DelSessions, Intakes <- DelIntakes, None <- None,
    MaxFaults <- DelMaxFaults, MaxStalls <- DelMaxStalls, tenant <- delTenant, barrier
    <- delBarrier, row <- delRow, purges <- delPurges, client <- delClient, sessions <-
    delSessions, subs <- delSubs, checkout <- delCheckout, undoing <- delUndoing, proc
    <- delProc, faults <- delFaults, stalls <- delStalls

Sync == INSTANCE SubscriptionSync WITH
    Subs <- SyncSubs, Handlers <- SyncHandlers, None <- None, Unlisted <- SyncUnlisted,
    MaxChanges <- SyncMaxChanges, MaxSwitches <- SyncMaxSwitches, MaxFaults <-
    SyncMaxFaults, stripe <- syncStripe, clock <- syncClock, second <- syncSecond,
    events <- syncEvents, upward <- syncUpward, acked <- syncAcked, tenant <-
    syncTenant, fits <- syncFits, ledger <- syncLedger, handler <- syncHandler,
    activation <- syncActivation, activated <- syncActivated, switches <- syncSwitches,
    faults <- syncFaults

-----------------------------------------------------------------------------
(* Credit purchases. *)

(* The newest row. *)

Row == [session : BuySessions, attempt : Nat, refund : Buy!Attempts, status : Buy!RefundStatus]

\* x is a row of S with the highest attempt.
IsTop(x, S) == x \in S /\ \A y \in S : y.attempt <= x.attempt

\* A set of numbers that is not empty has a least one.
LEMMA LeastNumber ==
    ASSUME NEW T \in SUBSET Nat, T # {}
    PROVE  \E n \in T : \A m \in T : n <= m
<1>1. PICK n \in T : \A m \in T : ~ (<<m, n>> \in OpToRel(<, Nat))
  BY NatLessThanWellFounded, WFMin, Zenon
<1>2. ASSUME NEW m \in T PROVE n <= m
  <2>1. ~ (m < n)
    BY <1>1, <1>2 DEF OpToRel
  <2> QED BY <2>1
<1> QED BY <1>2

\* A finite set of rows that is not empty has one with the highest attempt.
LEMMA TopExists ==
    ASSUME NEW S \in SUBSET Row, IsFiniteSet(S), S # {}
    PROVE  \E x \in S : IsTop(x, S)
<1> DEFINE Topless(n, U) == /\ U \subseteq Row /\ IsFiniteSet(U) /\ U # {}
                            /\ Cardinality(U) = n
                            /\ \A x \in U : ~IsTop(x, U)
           T == {n \in Nat : \E U \in SUBSET Row : Topless(n, U)}
<1>1. SUFFICES ASSUME \A x \in S : ~IsTop(x, S) PROVE FALSE
  OBVIOUS
<1>2. Cardinality(S) \in T
  BY <1>1, FS_CardinalityType
<1>3. PICK n \in T : \A m \in T : n <= m
  <2>1. T \in SUBSET Nat /\ T # {}
    BY <1>2
  <2> HIDE DEF T
  <2> QED BY <2>1, LeastNumber
<1>4. PICK U \in SUBSET Row : Topless(n, U)
  BY <1>3
<1>5. PICK u \in U : TRUE
  BY <1>4
<1> DEFINE V == U \ {u}
<1>6. IsFiniteSet(V) /\ Cardinality(V) = n - 1 /\ n \in Nat
  BY <1>3, <1>4, <1>5, FS_RemoveElement
<1>7. CASE V = {}
  <2>1. U = {u} /\ u.attempt \in Nat
    BY <1>4, <1>5, <1>7 DEF Row
  <2>2. IsTop(u, U)
    BY <2>1 DEF IsTop
  <2> QED BY <1>4, <1>5, <2>2
<1>8. CASE V # {}
  <2>1. n - 1 \in Nat
    BY <1>6, FS_CardinalityType
  <2>2. n - 1 \notin T
    BY <1>3, <1>6
  <2>3. PICK v \in V : IsTop(v, V)
    BY <1>6, <1>8, <2>1, <2>2
  <2>4. u.attempt \in Nat /\ v.attempt \in Nat /\ \A y \in U : y.attempt \in Nat
    BY <1>4, <1>5, <2>3 DEF Row
  <2>5. IsTop(u, U) \/ IsTop(v, U)
    BY <1>5, <2>3, <2>4 DEF IsTop
  <2> QED BY <1>4, <1>5, <2>3, <2>5
<1> QED BY <1>7, <1>8

-----------------------------------------------------------------------------
(* The inductive invariant. *)

Typed == Buy!TypeOK /\ IsFiniteSet(buyRecords) /\ buyFaults \in Nat

Made(s, k) == buyRefunds[s][k] # Buy!NoRefund

\* An event is about a session that was completed, and a refund that exists.
EventOK(e) ==
    /\ e \in Buy!Event
    /\ buySession[e.session] \in {"unpaid", "paid"}
    /\ e.type = "async" => buySession[e.session] = "paid"
    /\ e.type = "refund" => e.refund \in Buy!Attempts /\ Made(e.session, e.refund)

\* What a handler saw of a session stays true: it was paid, or its delayed
\* payment is announced by another event.
HandlerOK(h) ==
    buyHandler[h].pc # "idle" =>
        /\ EventOK(buyHandler[h].event)
        /\ buyHandler[h].paid => buySession[buyHandler[h].event.session] = "paid"
        /\ buyHandler[h].event.type = "async" => buyHandler[h].paid
        /\ buyHandler[h].pc = "prepare" => buyHandler[h].event.type # "refund"

EventsOK == (\A e \in buyUnacked : EventOK(e)) /\ \A h \in BuyHandlers : HandlerOK(h)

\* A refund that Stripe made at once stays made; rows are about refunds.
RefundsOK ==
    /\ \A s \in BuySessions, k \in Buy!Attempts :
          /\ Made(s, k) => buyRefunds[s][k].status # "none" /\ buyRefunds[s][k].first # "none"
          /\ buyRefunds[s][k].first = "succeeded" => buyRefunds[s][k].status = "succeeded"
    /\ \A x \in buyRecords : Made(x.session, x.refund)

\* Credits are granted with the outcome of a payment, and only an owed refund
\* is made.
OutcomeOK ==
    /\ buyTerminal \subseteq BuySessions
    /\ \A s \in BuySessions :
          /\ buyPurchase[s] = "complete" <=> buyGrants[s] = 1
          /\ buyPurchase[s] # "none" => buySession[s] = "paid"
          /\ buyPurchase[s] # "refund_required" => s \notin buyTerminal /\ \A k \in Buy!Attempts : ~Made(s, k)

\* The event that will settle a payment is still to be answered, and no
\* handler will answer it without having seen the payment.
Awaited(s) ==
    \/ Buy!CheckoutEvent("async", s) \in buyUnacked
    \/ /\ Buy!CheckoutEvent("completed", s) \in buyUnacked
       /\ \A h \in BuyHandlers :
             buyHandler[h].pc = "prepare" /\ buyHandler[h].event = Buy!CheckoutEvent("completed", s) => buyHandler[h].paid

NothingForgotten ==
    \A s \in BuySessions : buySession[s] = "paid" => buyGrants[s] = 1 \/ s \in buyTerminal \/ Awaited(s)

PurchaseInv ==
    Typed /\ EventsOK /\ RefundsOK /\ OutcomeOK /\ Buy!ConfirmedSucceeded /\ NothingForgotten

\* As long as one transaction was lost at most: a refund counts as the attempt
\* it was made in, a refund is made when the earlier ones have failed and are
\* stored, and only the newest may not be stored.
Stored(s, k) == \E x \in buyRecords : x.session = s /\ x.refund = k
InOrder ==
    buyFaults <= 1 =>
        \A s \in BuySessions :
            /\ \A x \in Buy!Rows(s) : x.attempt = x.refund
            /\ \A j, k \in Buy!Attempts : j < k /\ Made(s, k) => buyRefunds[s][j].status = "failed" /\ Stored(s, j)
            /\ buyFaults = 0 => \A k \in Buy!Attempts : Made(s, k) => Stored(s, k)

-----------------------------------------------------------------------------
(* Operators. *)

\* The newest attempt is the attempt of a row, and none is newer.
LEMMA NewestType ==
    ASSUME Typed, NEW s \in BuySessions, Buy!Rows(s) # {}
    PROVE  /\ Buy!Newest(s) \in Nat
           /\ \E x \in Buy!Rows(s) : x.attempt = Buy!Newest(s)
           /\ \A x \in Buy!Rows(s) : x.attempt <= Buy!Newest(s)
<1>1. Buy!Rows(s) \in SUBSET Row /\ IsFiniteSet(Buy!Rows(s))
  BY FS_Subset DEF Typed, Buy!TypeOK, Row, Buy!Rows
<1>2. PICK x \in Buy!Rows(s) : IsTop(x, Buy!Rows(s))
  BY <1>1, TopExists
<1>3. \E k \in {y.attempt : y \in Buy!Rows(s)} : \A y \in Buy!Rows(s) : y.attempt <= k
  BY <1>2 DEF IsTop
<1>4. Buy!Newest(s) \in {y.attempt : y \in Buy!Rows(s)} /\ \A y \in Buy!Rows(s) : y.attempt <= Buy!Newest(s)
  BY <1>3 DEF Buy!Newest
<1> QED BY <1>1, <1>4 DEF Row

LEMMA AttemptOfType ==
    ASSUME Typed, NEW s \in BuySessions, NEW k \in Buy!Attempts
    PROVE  Buy!AttemptOf(s, k) \in Nat
<1> DEFINE known == {x \in Buy!Rows(s) : x.refund = k}
<1>1. CASE known # {}
  <2>1. known \in SUBSET Row /\ IsFiniteSet(known)
    BY FS_Subset DEF Typed, Buy!TypeOK, Row, Buy!Rows
  <2>2. PICK x \in known : IsTop(x, known)
    BY <1>1, <2>1, TopExists
  <2>3. \E y \in known : \A z \in known : z.attempt <= y.attempt
    BY <2>2 DEF IsTop
  <2>4. (CHOOSE y \in known : \A z \in known : z.attempt <= y.attempt) \in known
    BY <2>3
  <2>5. (CHOOSE y \in known : \A z \in known : z.attempt <= y.attempt).attempt \in Nat
    BY <2>1, <2>4 DEF Row
  <2> QED BY <1>1, <2>5 DEF Buy!AttemptOf
<1>2. CASE known = {}
  <2>1. Buy!Rows(s) # {} => Buy!Newest(s) \in Nat
    BY NewestType
  <2> QED BY <1>2, <2>1 DEF Buy!AttemptOf
<1> QED BY <1>1, <1>2

\* What recordRefundState adds to the rows.
LEMMA WithRowAdds ==
    ASSUME NEW rows \in SUBSET Row, IsFiniteSet(rows), NEW s \in BuySessions, NEW a \in Nat,
           NEW k \in Buy!Attempts, NEW status \in Buy!RefundStatus
    PROVE  LET added == Buy!WithRow(rows, s, a, k, status)
           IN /\ added \in SUBSET Row /\ IsFiniteSet(added) /\ rows \subseteq added
              /\ \E x \in added : x.session = s /\ x.refund = k
              /\ \A x \in added : x \in rows \/ (x.session = s /\ x.refund = k /\ x.attempt = a)
<1> DEFINE new == [session |-> s, attempt |-> a, refund |-> k, status |-> status]
<1>1. new \in Row
  BY DEF Row
<1>2. IsFiniteSet(rows \cup {new})
  BY FS_AddElement
<1> QED BY <1>1, <1>2 DEF Buy!WithRow

\* What createRefund does at Stripe, and how its transaction ends.
LEMMA AttemptMakes ==
    ASSUME Typed, RefundsOK, NEW h, NEW s \in BuySessions, NEW a \in Buy!Attempts, NEW rows, Buy!Attempt(h, s, a, rows)
    PROVE  LET first == buyRefunds'[s][a].first
           IN /\ buyRefunds' \in [BuySessions -> [Buy!Attempts -> Buy!Refund]]
              /\ \A t \in BuySessions, k \in Buy!Attempts : t # s \/ k # a \/ Made(t, k) => buyRefunds'[t][k] = buyRefunds[t][k]
              /\ buyRefunds'[s][a] # Buy!NoRefund /\ buyRefunds'[s][a].status # "none" /\ first # "none"
              /\ first = "succeeded" => buyRefunds'[s][a].status = "succeeded"
              /\ \/ buyRecords' = Buy!WithRow(rows, s, a, a, first) /\ Buy!Conclude(h, s, first) /\ UNCHANGED buyFaults
                 \/ Buy!Refuse(h) /\ Buy!Fault /\ UNCHANGED <<buyRecords, buyTerminal>>
<1>1. PICK status \in {"pending", "succeeded", "failed"} :
         LET made == Buy!CreatedRefund(s, a, status)
         IN /\ buyRefunds[s][a] = Buy!NoRefund \/ status = buyRefunds[s][a].first
            /\ buyRefunds' = [buyRefunds EXCEPT ![s] = made]
            /\ \/ /\ buyRecords' = Buy!WithRow(rows, s, a, a, made[a].first)
                  /\ Buy!Conclude(h, s, made[a].first)
                  /\ UNCHANGED buyFaults
               \/ /\ Buy!Refuse(h)
                  /\ Buy!Fault
                  /\ UNCHANGED <<buyRecords, buyTerminal>>
  BY DEF Buy!Attempt
<1> DEFINE made == Buy!CreatedRefund(s, a, status)
           r == [status |-> status, first |-> status]
<1>2. buyRefunds \in [BuySessions -> [Buy!Attempts -> Buy!Refund]] /\ r \in Buy!Refund /\ r # Buy!NoRefund
  BY DEF Typed, Buy!TypeOK, Buy!Refund, Buy!RefundStatus, Buy!NoRefund
<1>3. made \in [Buy!Attempts -> Buy!Refund]
  BY <1>2 DEF Buy!CreatedRefund
<1>4. \A k \in Buy!Attempts : k # a \/ Made(s, k) => made[k] = buyRefunds[s][k]
  BY <1>2 DEF Buy!CreatedRefund, Made
<1>5. made[a] # Buy!NoRefund /\ (made[a] = r \/ Made(s, a))
  BY <1>2 DEF Buy!CreatedRefund, Made
<1>6. made[a].status # "none" /\ made[a].first # "none" /\ (made[a].first = "succeeded" => made[a].status = "succeeded")
  BY <1>4, <1>5 DEF RefundsOK
<1>7. buyRefunds' = [buyRefunds EXCEPT ![s] = made] /\ buyRefunds'[s] = made
  BY <1>1, <1>2
<1> HIDE DEF made
<1>8. buyRefunds' \in [BuySessions -> [Buy!Attempts -> Buy!Refund]]
  BY <1>2, <1>3, <1>7
<1>9. \A t \in BuySessions, k \in Buy!Attempts : t # s \/ k # a \/ Made(t, k) => buyRefunds'[t][k] = buyRefunds[t][k]
  BY <1>2, <1>3, <1>4, <1>7
<1>10. \/ buyRecords' = Buy!WithRow(rows, s, a, a, made[a].first) /\ Buy!Conclude(h, s, made[a].first) /\ UNCHANGED buyFaults
       \/ Buy!Refuse(h) /\ Buy!Fault /\ UNCHANGED <<buyRecords, buyTerminal>>
  BY <1>1 DEF made
<1> QED BY <1>5, <1>6, <1>7, <1>8, <1>9, <1>10

-----------------------------------------------------------------------------
(* The invariant: steps at Stripe. *)

LEMMA InitInv == Buy!PurchaseAssumption /\ Buy!Init => PurchaseInv /\ InOrder
<1> SUFFICES ASSUME Buy!PurchaseAssumption, Buy!Init PROVE PurchaseInv /\ InOrder
  OBVIOUS
<1>1. Buy!NoRefund \in Buy!Refund /\ Buy!Idle \in Buy!Handler
  BY DEF Buy!NoRefund, Buy!Refund, Buy!RefundStatus, Buy!Idle, Buy!Handler
<1>2. Typed
  BY <1>1, FS_EmptySet DEF Buy!Init, Typed, Buy!TypeOK
<1>3. EventsOK
  BY DEF Buy!Init, EventsOK, HandlerOK, Buy!Idle
<1>4. RefundsOK
  BY DEF Buy!Init, RefundsOK, Made, Buy!NoRefund
<1>5. OutcomeOK /\ Buy!ConfirmedSucceeded /\ NothingForgotten
  BY DEF Buy!Init, OutcomeOK, Made, Buy!ConfirmedSucceeded, NothingForgotten
<1>6. InOrder
  BY DEF Buy!Init, InOrder, Buy!Rows, Made
<1> QED BY <1>2, <1>3, <1>4, <1>5, <1>6 DEF PurchaseInv

\* A session opens, is completed or is paid.
LEMMA SessionStep ==
    ASSUME PurchaseInv, NEW s \in BuySessions, Buy!OpenSession(s) \/ Buy!CompleteSession(s) \/ Buy!AsyncPayment(s)
    PROVE  PurchaseInv'
<1>1. UNCHANGED <<buyMatches, buyRefunds, buyEntitled, Buy!stored, buyHandler, buySwitches, buyFaults>>
  BY DEF Buy!OpenSession, Buy!CompleteSession, Buy!AsyncPayment
<1>2. buySession \in [BuySessions -> {"none", "open", "unpaid", "paid"}] /\ buyUnacked \subseteq Buy!Event
  BY DEF PurchaseInv, Typed, Buy!TypeOK
<1>3. /\ buySession' \in [BuySessions -> {"none", "open", "unpaid", "paid"}]
      /\ \A t \in BuySessions : buySession[t] \in {"unpaid", "paid"} => buySession'[t] \in {"unpaid", "paid"}
      /\ \A t \in BuySessions : buySession[t] = "paid" => buySession'[t] = "paid"
      /\ \A t \in BuySessions : buySession'[t] = "paid" => buySession[t] = "paid" \/ t = s
  BY <1>2 DEF Buy!OpenSession, Buy!CompleteSession, Buy!AsyncPayment
<1>4. \A t \in {"completed", "async"} : Buy!CheckoutEvent(t, s) \in Buy!Event
  BY DEF Buy!CheckoutEvent, Buy!Event
<1>5. /\ buyUnacked' \subseteq Buy!Event /\ buyUnacked \subseteq buyUnacked'
      /\ \A e \in buyUnacked' \ buyUnacked :
            /\ e \in Buy!Event /\ e.type # "refund" /\ e.session = s /\ buySession'[s] \in {"unpaid", "paid"}
            /\ e.type = "async" => buySession'[s] = "paid"
  BY <1>2, <1>4 DEF Buy!OpenSession, Buy!CompleteSession, Buy!AsyncPayment, Buy!CheckoutEvent
<1>6. Typed'
  BY <1>1, <1>3, <1>5 DEF PurchaseInv, Typed, Buy!TypeOK, Buy!stored
<1>7. \A e : EventOK(e) => (EventOK(e))'
  BY <1>1, <1>3 DEF EventOK, Made, Buy!Event
<1>8. EventsOK'
  <2>1. ASSUME NEW e \in buyUnacked' PROVE (EventOK(e))'
    BY <1>5, <1>7, <2>1 DEF PurchaseInv, EventsOK, EventOK
  <2>2. ASSUME NEW h \in BuyHandlers PROVE HandlerOK(h)'
    BY <1>1, <1>3, <2>2 DEF PurchaseInv, EventsOK, HandlerOK, EventOK, Made, Buy!Event
  <2> QED BY <2>1, <2>2 DEF EventsOK
<1>9. RefundsOK' /\ OutcomeOK' /\ Buy!ConfirmedSucceeded'
  BY <1>1, <1>3 DEF PurchaseInv, RefundsOK, OutcomeOK, Buy!ConfirmedSucceeded, Made, Buy!stored
<1>10. NothingForgotten'
  <2> SUFFICES ASSUME NEW t \in BuySessions, buySession'[t] = "paid"
               PROVE  (buyGrants[t] = 1 \/ t \in buyTerminal \/ Awaited(t))'
    BY DEF NothingForgotten
  <2>1. CASE buySession[t] = "paid"
    BY <1>1, <1>5, <2>1 DEF PurchaseInv, NothingForgotten, Awaited, Buy!stored
  <2>2. CASE buySession[t] # "paid"
    <3>1. t = s
      BY <1>3, <2>2
    <3>2. CASE Buy!AsyncPayment(s)
      BY <3>1, <3>2 DEF Buy!AsyncPayment, Awaited
    <3>3. CASE Buy!CompleteSession(s)
      <4>1. \A h \in BuyHandlers : buyHandler[h].pc = "prepare" => buyHandler[h].event # Buy!CheckoutEvent("completed", s)
        BY <3>3 DEF Buy!CompleteSession, PurchaseInv, EventsOK, HandlerOK, EventOK, Buy!CheckoutEvent
      <4> QED BY <1>1, <3>1, <3>3, <4>1 DEF Buy!CompleteSession, Awaited
    <3>4. CASE Buy!OpenSession(s)
      BY <1>2, <2>2, <3>1, <3>4 DEF Buy!OpenSession
    <3> QED BY <3>2, <3>3, <3>4
  <2> QED BY <2>1, <2>2
<1> QED BY <1>6, <1>8, <1>9, <1>10 DEF PurchaseInv

\* A refund settles, or Stripe tells of it.
LEMMA RefundStep ==
    ASSUME PurchaseInv, NEW s \in BuySessions, NEW k \in Buy!Attempts, Buy!RefundSettles(s, k) \/ Buy!RefundAnnounced(s, k)
    PROVE  PurchaseInv'
<1>1. UNCHANGED <<buySession, buyMatches, buyEntitled, Buy!stored, buyHandler, buySwitches, buyFaults>>
  BY DEF Buy!RefundSettles, Buy!RefundAnnounced
<1>2. buyRefunds \in [BuySessions -> [Buy!Attempts -> Buy!Refund]] /\ buyUnacked \subseteq Buy!Event
  BY DEF PurchaseInv, Typed, Buy!TypeOK
<1>3. /\ buyRefunds' \in [BuySessions -> [Buy!Attempts -> Buy!Refund]]
      /\ \A t \in BuySessions, j \in Buy!Attempts :
            /\ buyRefunds'[t][j].first = buyRefunds[t][j].first
            /\ \/ buyRefunds'[t][j] = buyRefunds[t][j]
               \/ buyRefunds[t][j].status = "pending" /\ buyRefunds'[t][j].status \in {"succeeded", "failed"}
  <2>1. CASE Buy!RefundSettles(s, k)
    <3>1. PICK status \in {"succeeded", "failed"} : buyRefunds' = [buyRefunds EXCEPT ![s][k].status = status]
      BY <2>1 DEF Buy!RefundSettles
    <3>2. buyRefunds[s][k] \in Buy!Refund /\ [buyRefunds[s][k] EXCEPT !.status = status] \in Buy!Refund
      <4>1. buyRefunds[s][k] \in Buy!Refund
        BY <1>2
      <4> QED BY <4>1 DEF Buy!Refund, Buy!RefundStatus
    <3>3. buyRefunds' = [buyRefunds EXCEPT ![s] = [buyRefunds[s] EXCEPT ![k] = [buyRefunds[s][k] EXCEPT !.status = status]]]
      BY <3>1
    <3>4. [buyRefunds[s][k] EXCEPT !.status = status].first = buyRefunds[s][k].first
          /\ [buyRefunds[s][k] EXCEPT !.status = status].status = status
      BY <3>2 DEF Buy!Refund
    <3> QED BY <1>2, <2>1, <3>2, <3>3, <3>4 DEF Buy!RefundSettles
  <2>2. CASE Buy!RefundAnnounced(s, k)
    BY <1>2, <2>2 DEF Buy!RefundAnnounced
  <2> QED BY <2>1, <2>2
<1>4. \A t \in BuySessions, j \in Buy!Attempts : Made(t, j) <=> buyRefunds'[t][j] # Buy!NoRefund
  BY <1>3 DEF Made, Buy!NoRefund
<1>5. Made(s, k) /\ buyUnacked' = buyUnacked \cup {Buy!RefundEvent(s, k)}
  BY DEF Buy!RefundSettles, Buy!RefundAnnounced, Made, Buy!NoRefund
<1>6. Buy!RefundEvent(s, k) \in Buy!Event
  BY DEF Buy!RefundEvent, Buy!Event
<1>7. Typed'
  BY <1>1, <1>2, <1>3, <1>5, <1>6 DEF PurchaseInv, Typed, Buy!TypeOK, Buy!stored
<1>8. buySession[s] = "paid"
  BY <1>5 DEF PurchaseInv, OutcomeOK
<1>9. EventsOK'
  <2>1. ASSUME NEW e \in buyUnacked' PROVE (EventOK(e))'
    <3>1. CASE e \in buyUnacked
      BY <1>1, <1>4, <3>1 DEF PurchaseInv, EventsOK, EventOK, Made, Buy!Event
    <3>2. CASE e = Buy!RefundEvent(s, k)
      BY <1>1, <1>4, <1>5, <1>6, <1>8, <3>2 DEF EventOK, Made, Buy!RefundEvent
    <3> QED BY <1>5, <2>1, <3>1, <3>2
  <2>2. ASSUME NEW h \in BuyHandlers PROVE HandlerOK(h)'
    BY <1>1, <1>4, <2>2 DEF PurchaseInv, EventsOK, HandlerOK, EventOK, Made, Buy!Event
  <2> QED BY <2>1, <2>2 DEF EventsOK
<1>10. RefundsOK'
  <2>1. \A t \in BuySessions, j \in Buy!Attempts :
           /\ buyRefunds'[t][j] # Buy!NoRefund => buyRefunds'[t][j].status # "none" /\ buyRefunds'[t][j].first # "none"
           /\ buyRefunds'[t][j].first = "succeeded" => buyRefunds'[t][j].status = "succeeded"
    BY <1>3, <1>4 DEF PurchaseInv, RefundsOK
  <2>2. \A x \in buyRecords : x.session \in BuySessions /\ x.refund \in Buy!Attempts
    BY DEF PurchaseInv, Typed, Buy!TypeOK
  <2> QED BY <1>1, <1>4, <2>1, <2>2 DEF PurchaseInv, RefundsOK, Made, Buy!stored
<1>11. OutcomeOK'
  BY <1>1, <1>4 DEF PurchaseInv, OutcomeOK, Made, Buy!stored
<1>12. Buy!ConfirmedSucceeded'
  BY <1>1, <1>3 DEF PurchaseInv, OutcomeOK, Buy!ConfirmedSucceeded, Buy!stored
<1>13. NothingForgotten'
  BY <1>1, <1>5 DEF PurchaseInv, NothingForgotten, Awaited, Buy!stored
<1> QED BY <1>7, <1>9, <1>10, <1>11, <1>12, <1>13 DEF PurchaseInv

-----------------------------------------------------------------------------
(* The invariant: webhook requests. *)

LEMMA ReceiveStep ==
    ASSUME PurchaseInv, NEW h \in BuyHandlers,
           NEW e \in buyUnacked \cup {Buy!CheckoutEvent("completed", s) : s \in BuySessions}, Buy!Receive(h, e)
    PROVE  PurchaseInv'
<1>1. UNCHANGED <<buySession, buyMatches, buyRefunds, buyUnacked, buyEntitled, Buy!stored, buySwitches>>
  BY DEF Buy!Receive
<1>2. EventOK(e)
  <2>1. CASE e \in buyUnacked
    BY <2>1 DEF PurchaseInv, EventsOK
  <2>2. CASE e \notin buyUnacked
    <3>1. PICK s \in BuySessions : e = Buy!CheckoutEvent("completed", s)
      BY <2>2
    <3> QED BY <2>2, <3>1 DEF Buy!Receive, EventOK, Buy!CheckoutEvent, Buy!Event
  <2> QED BY <2>1, <2>2
<1> DEFINE new == [pc |-> IF e.type = "refund" THEN "reconcile" ELSE "prepare", event |-> e,
                   paid |-> buySession[e.session] = "paid"]
<1>3. buyHandler \in [BuyHandlers -> Buy!Handler] /\ new \in Buy!Handler
  BY <1>2 DEF PurchaseInv, Typed, Buy!TypeOK, Buy!Handler, EventOK
<1>4. buyHandler' = [buyHandler EXCEPT ![h] = new]
  BY DEF Buy!Receive
<1>5. Typed'
  BY <1>1, <1>3, <1>4 DEF PurchaseInv, Typed, Buy!TypeOK, Buy!Receive, Buy!Fault, Buy!stored
<1>6. EventsOK'
  <2>1. ASSUME NEW d \in buyUnacked' PROVE (EventOK(d))'
    BY <1>1, <2>1 DEF PurchaseInv, EventsOK, EventOK, Made
  <2>2. ASSUME NEW g \in BuyHandlers PROVE HandlerOK(g)'
    <3>1. CASE g = h
      BY <1>1, <1>2, <1>3, <1>4, <3>1 DEF HandlerOK, EventOK, Made
    <3>2. CASE g # h
      BY <1>1, <1>3, <1>4, <3>2 DEF PurchaseInv, EventsOK, HandlerOK, EventOK, Made
    <3> QED BY <3>1, <3>2
  <2> QED BY <2>1, <2>2 DEF EventsOK
<1>7. RefundsOK' /\ OutcomeOK' /\ Buy!ConfirmedSucceeded'
  BY <1>1 DEF PurchaseInv, RefundsOK, OutcomeOK, Buy!ConfirmedSucceeded, Made, Buy!stored
<1>8. NothingForgotten'
  <2> SUFFICES ASSUME NEW t \in BuySessions, buySession'[t] = "paid"
               PROVE  (buyGrants[t] = 1 \/ t \in buyTerminal \/ Awaited(t))'
    BY DEF NothingForgotten
  <2>1. CASE Awaited(t)
    <3>1. ASSUME NEW g \in BuyHandlers, buyHandler'[g].event = Buy!CheckoutEvent("completed", t), buyHandler[g] # buyHandler'[g]
          PROVE  buyHandler'[g].paid
      <4>1. buyHandler'[g] = new
        BY <1>3, <1>4, <3>1
      <4>2. e = Buy!CheckoutEvent("completed", t)
        BY <3>1, <4>1
      <4>3. buySession[e.session] = "paid"
        BY <1>1, <4>2 DEF Buy!CheckoutEvent
      <4>4. new.paid = (buySession[e.session] = "paid")
        OBVIOUS
      <4> QED BY <4>1, <4>3, <4>4, Zenon
    <3> QED BY <1>1, <2>1, <3>1 DEF Awaited
  <2> QED BY <1>1, <2>1 DEF PurchaseInv, NothingForgotten, Buy!stored
<1> QED BY <1>5, <1>6, <1>7, <1>8 DEF PurchaseInv

\* What is left of the events and the handlers when a request ends, with or
\* without an answer.
LEMMA RequestEnds ==
    ASSUME Typed, EventsOK, NEW h \in BuyHandlers, Buy!Answer(h) \/ Buy!Refuse(h), UNCHANGED buySession,
           \A s \in BuySessions, k \in Buy!Attempts : Made(s, k) => buyRefunds'[s][k] # Buy!NoRefund
    PROVE  /\ EventsOK'
           /\ buyUnacked' \subseteq Buy!Event /\ buyHandler' \in [BuyHandlers -> Buy!Handler]
           /\ \A t \in BuySessions : Awaited(t) =>
                 Awaited(t)' \/ (Buy!Answer(h) /\ ~Buy!Refuse(h) /\ buyHandler[h].event.session = t
                                 /\ (buyHandler[h].pc = "prepare" => buyHandler[h].paid))
<1> DEFINE e == buyHandler[h].event
<1>1. buyHandler \in [BuyHandlers -> Buy!Handler] /\ Buy!Idle \in Buy!Handler /\ buyUnacked \subseteq Buy!Event
  BY DEF Typed, Buy!TypeOK, Buy!Idle, Buy!Handler
<1>2. buyHandler' = [buyHandler EXCEPT ![h] = Buy!Idle] /\ buyUnacked' \subseteq buyUnacked
      /\ (buyUnacked' = buyUnacked \/ (Buy!Answer(h) /\ buyUnacked' = buyUnacked \ {e}))
  BY DEF Buy!Answer, Buy!Refuse
<1>3. EventsOK'
  <2>1. ASSUME NEW d \in buyUnacked' PROVE (EventOK(d))'
    BY <1>2, <2>1 DEF EventsOK, EventOK, Made, Buy!Event
  <2>2. ASSUME NEW g \in BuyHandlers PROVE HandlerOK(g)'
    <3>1. CASE g = h
      BY <1>1, <1>2, <3>1 DEF HandlerOK, Buy!Idle
    <3>2. CASE g # h
      BY <1>1, <1>2, <3>2 DEF EventsOK, HandlerOK, EventOK, Made, Buy!Event
    <3> QED BY <3>1, <3>2
  <2> QED BY <2>1, <2>2 DEF EventsOK
<1>4. ASSUME NEW t \in BuySessions, Awaited(t), ~Awaited(t)'
      PROVE  Buy!Answer(h) /\ ~Buy!Refuse(h) /\ e.session = t /\ (buyHandler[h].pc = "prepare" => buyHandler[h].paid)
  <2>1. \A g \in BuyHandlers : buyHandler'[g].pc = "prepare" => buyHandler'[g] = buyHandler[g]
    BY <1>1, <1>2 DEF Buy!Idle
  <2>2. CASE Buy!CheckoutEvent("async", t) \in buyUnacked
    <3>1. Buy!Answer(h) /\ ~Buy!Refuse(h) /\ e = Buy!CheckoutEvent("async", t)
      BY <1>2, <1>4, <2>2 DEF Awaited, Buy!Refuse
    <3> QED BY <3>1 DEF EventsOK, HandlerOK, Buy!CheckoutEvent
  <2>3. CASE Buy!CheckoutEvent("async", t) \notin buyUnacked
    <3>1. Buy!Answer(h) /\ ~Buy!Refuse(h) /\ e = Buy!CheckoutEvent("completed", t)
      BY <1>2, <1>4, <2>1, <2>3 DEF Awaited, Buy!Refuse
    <3> QED BY <1>4, <2>3, <3>1 DEF Awaited, Buy!CheckoutEvent
  <2> QED BY <2>2, <2>3
<1> QED BY <1>1, <1>2, <1>3, <1>4

LEMMA FailStep ==
    ASSUME PurchaseInv, NEW h \in BuyHandlers, Buy!HandlerFails(h)
    PROVE  PurchaseInv'
<1>1. UNCHANGED <<buySession, buyMatches, buyRefunds, buyUnacked, buyEntitled, Buy!stored, buySwitches>> /\ Buy!Refuse(h)
  BY DEF Buy!HandlerFails, Buy!Refuse
<1>2. /\ EventsOK' /\ buyUnacked' \subseteq Buy!Event /\ buyHandler' \in [BuyHandlers -> Buy!Handler]
      /\ \A t \in BuySessions : Awaited(t) => Awaited(t)'
  <2>1. \A s \in BuySessions, k \in Buy!Attempts : Made(s, k) => buyRefunds'[s][k] # Buy!NoRefund
    BY <1>1 DEF Made
  <2> QED BY <1>1, <2>1, RequestEnds DEF PurchaseInv
<1>3. Typed'
  BY <1>1, <1>2 DEF PurchaseInv, Typed, Buy!TypeOK, Buy!HandlerFails, Buy!Fault, Buy!stored
<1>4. RefundsOK' /\ OutcomeOK' /\ Buy!ConfirmedSucceeded'
  BY <1>1 DEF PurchaseInv, RefundsOK, OutcomeOK, Buy!ConfirmedSucceeded, Made, Buy!stored
<1>5. NothingForgotten'
  BY <1>1, <1>2 DEF PurchaseInv, NothingForgotten, Buy!stored
<1> QED BY <1>2, <1>3, <1>4, <1>5 DEF PurchaseInv

\* preparePurchaseTransaction leaves the events alone, or answers when the
\* payment is settled or was not seen.
LEMMA PrepareStep ==
    ASSUME PurchaseInv, NEW h \in BuyHandlers, Buy!Prepare(h)
    PROVE  PurchaseInv'
<1> DEFINE s == buyHandler[h].event.session
<1>1. UNCHANGED <<buySession, buyMatches, buyRefunds, buyEntitled, buyTerminal, buyRecords, buySwitches, buyFaults>>
      /\ buyHandler[h].pc = "prepare"
  BY DEF Buy!Prepare
<1>2. /\ buyHandler \in [BuyHandlers -> Buy!Handler] /\ buyPurchase \in [BuySessions -> {"none", "complete", "refund_required"}]
      /\ buyGrants \in [BuySessions -> {0, 1}] /\ buyUnacked \subseteq Buy!Event
  BY DEF PurchaseInv, Typed, Buy!TypeOK
<1>3. EventOK(buyHandler[h].event) /\ s \in BuySessions /\ (buyHandler[h].paid => buySession[s] = "paid")
  BY <1>1 DEF PurchaseInv, EventsOK, HandlerOK, EventOK, Buy!Event
<1>4. \/ /\ Buy!Answer(h) /\ UNCHANGED <<buyPurchase, buyGrants>>
         /\ s \in buyTerminal \/ buyGrants[s] = 1 \/ ~buyHandler[h].paid
      \/ /\ buyHandler' = [buyHandler EXCEPT ![h].pc = "reconcile"] /\ UNCHANGED <<buyUnacked, buyGrants>>
         /\ buyPurchase' = [buyPurchase EXCEPT ![s] = "refund_required"]
         /\ s \notin buyTerminal /\ buyGrants[s] = 0 /\ buyPurchase[s] # "complete"
         /\ buyPurchase[s] = "refund_required" \/ buyHandler[h].paid
      \/ /\ Buy!Answer(h) /\ buyHandler[h].paid
         /\ buyPurchase' = [buyPurchase EXCEPT ![s] = "complete"] /\ buyGrants' = [buyGrants EXCEPT ![s] = 1]
         /\ Buy!Unsettled(s)
  <2>1. [buyPurchase EXCEPT ![s] = "refund_required"][s] = "refund_required"
    BY <1>2, <1>3
  <2>2. buyGrants[s] \in {0, 1}
    BY <1>2, <1>3
  <2>3. buyPurchase[s] = "refund_required" => buyPurchase = [buyPurchase EXCEPT ![s] = "refund_required"]
    BY <1>2, <1>3
  <2>4. CASE (s \in buyTerminal \/ buyGrants[s] > 0) /\ Buy!Answer(h) /\ UNCHANGED <<buyPurchase, buyGrants>>
    BY <2>2, <2>4
  <2>5. CASE /\ s \notin buyTerminal /\ buyGrants[s] = 0 /\ buyPurchase[s] = "refund_required"
             /\ buyHandler' = [buyHandler EXCEPT ![h].pc = "reconcile"]
             /\ UNCHANGED <<buyUnacked, buyPurchase, buyGrants>>
    BY <2>3, <2>5
  <2>6. CASE Buy!Unsettled(s) /\ ~Buy!Paid(h) /\ Buy!Answer(h) /\ UNCHANGED <<buyPurchase, buyGrants>>
    BY <2>6 DEF Buy!Paid
  <2>7. CASE /\ Buy!Unsettled(s) /\ Buy!Paid(h)
             /\ buyPurchase' = [buyPurchase EXCEPT ![s] = "complete"]
             /\ buyGrants' = [buyGrants EXCEPT ![s] = @ + 1]
             /\ Buy!Answer(h)
    BY <1>2, <1>3, <2>7 DEF Buy!Paid, Buy!Unsettled
  <2>8. CASE /\ Buy!Unsettled(s) /\ Buy!Paid(h)
             /\ buyPurchase' = Buy!RefundOwed(s)
             /\ IF buyPurchase'[s] = "refund_required"
                THEN buyHandler' = [buyHandler EXCEPT ![h].pc = "reconcile"] /\ UNCHANGED buyUnacked
                ELSE Buy!Answer(h)
             /\ UNCHANGED buyGrants
    BY <2>1, <2>8 DEF Buy!Paid, Buy!Unsettled, Buy!RefundOwed
  <2> QED BY <2>4, <2>5, <2>6, <2>7, <2>8 DEF Buy!Prepare
<1>5. \A t \in BuySessions, k \in Buy!Attempts : Made(t, k) => buyRefunds'[t][k] # Buy!NoRefund
  BY <1>1 DEF Made
<1>6. /\ EventsOK' /\ buyUnacked' \subseteq Buy!Event /\ buyHandler' \in [BuyHandlers -> Buy!Handler]
      /\ \A t \in BuySessions : Awaited(t) => Awaited(t)' \/ (Buy!Answer(h) /\ s = t /\ buyHandler[h].paid)
  <2>1. CASE Buy!Answer(h)
    BY <1>1, <1>5, <2>1, RequestEnds DEF PurchaseInv
  <2>2. CASE buyHandler' = [buyHandler EXCEPT ![h].pc = "reconcile"] /\ UNCHANGED buyUnacked
    <3>1. buyHandler[h] \in Buy!Handler
      BY <1>2
    <3>2. [buyHandler[h] EXCEPT !.pc = "reconcile"] \in Buy!Handler
      BY <3>1 DEF Buy!Handler
    <3>3. buyHandler' \in [BuyHandlers -> Buy!Handler]
      BY <1>2, <2>2, <3>2
    <3>4. \A g \in BuyHandlers : /\ buyHandler'[g].event = buyHandler[g].event /\ buyHandler'[g].paid = buyHandler[g].paid
                                 /\ buyHandler'[g].pc = buyHandler[g].pc \/ (g = h /\ buyHandler'[g].pc = "reconcile")
      BY <1>2, <2>2, <3>1 DEF Buy!Handler
    <3>5. ASSUME NEW g \in BuyHandlers PROVE HandlerOK(g)'
      <4>1. HandlerOK(g) /\ (buyHandler'[g].pc # "idle" => buyHandler[g].pc # "idle")
        BY <1>1, <3>4 DEF PurchaseInv, EventsOK
      <4> QED BY <1>1, <3>4, <4>1 DEF HandlerOK, EventOK, Made
    <3>6. \A d \in buyUnacked' : (EventOK(d))'
      BY <1>1, <2>2 DEF PurchaseInv, EventsOK, EventOK, Made
    <3>7. \A t \in BuySessions : Awaited(t) => Awaited(t)'
      BY <2>2, <3>4 DEF Awaited
    <3> QED BY <1>2, <2>2, <3>3, <3>5, <3>6, <3>7 DEF EventsOK
  <2> QED BY <1>4, <2>1, <2>2
<1>7. Typed'
  BY <1>1, <1>2, <1>3, <1>4, <1>6 DEF PurchaseInv, Typed, Buy!TypeOK
<1>8. RefundsOK' /\ Buy!ConfirmedSucceeded'
  BY <1>1 DEF PurchaseInv, RefundsOK, Buy!ConfirmedSucceeded, Made
<1>9. OutcomeOK'
  <2>1. ASSUME NEW t \in BuySessions
        PROVE  /\ buyPurchase'[t] = "complete" <=> buyGrants'[t] = 1
               /\ buyPurchase'[t] # "none" => buySession[t] = "paid"
               /\ buyPurchase'[t] # "refund_required" => t \notin buyTerminal /\ \A k \in Buy!Attempts : ~Made(t, k)
    BY <1>2, <1>3, <1>4 DEF PurchaseInv, OutcomeOK, Buy!Unsettled
  <2> QED BY <1>1, <2>1 DEF PurchaseInv, OutcomeOK, Made
<1>10. NothingForgotten'
  <2> SUFFICES ASSUME NEW t \in BuySessions, buySession[t] = "paid"
               PROVE  buyGrants'[t] = 1 \/ t \in buyTerminal \/ Awaited(t)'
    BY <1>1 DEF NothingForgotten
  <2>1. buyGrants[t] = 1 => buyGrants'[t] = 1
    BY <1>2, <1>3, <1>4
  <2>2. CASE Awaited(t) /\ ~Awaited(t)'
    <3>1. Buy!Answer(h) /\ s = t /\ buyHandler[h].paid
      BY <1>6, <2>2
    <3>2. buyHandler' # [buyHandler EXCEPT ![h].pc = "reconcile"]
      <4>1. buyHandler'[h].pc = "idle"
        BY <1>2, <3>1 DEF Buy!Answer, Buy!Idle
      <4>2. buyHandler[h] \in Buy!Handler
        BY <1>2
      <4>3. [buyHandler EXCEPT ![h].pc = "reconcile"][h].pc = "reconcile"
        BY <1>2, <4>2 DEF Buy!Handler
      <4> QED BY <4>1, <4>3
    <3> QED BY <1>2, <1>3, <1>4, <3>1, <3>2
  <2> QED BY <2>1, <2>2 DEF PurchaseInv, NothingForgotten
<1> QED BY <1>6, <1>7, <1>8, <1>9, <1>10 DEF PurchaseInv

\* The refund that is looked at exists, unless the session has no rows.
LEMMA SubjectExists ==
    ASSUME Buy!PurchaseAssumption, PurchaseInv, NEW h \in BuyHandlers, buyHandler[h].pc = "reconcile", NEW k \in Buy!Subjects(h)
    PROVE  LET s == buyHandler[h].event.session
           IN /\ s \in BuySessions
              /\ (k = None /\ Buy!Rows(s) = {}) \/ (k # None /\ k \in Buy!Attempts /\ Made(s, k))
<1> DEFINE e == buyHandler[h].event
<1>1. EventOK(e) /\ e.session \in BuySessions
  BY DEF PurchaseInv, EventsOK, HandlerOK, EventOK, Buy!Event
<1>2. \A j \in Buy!Attempts : j # None
  BY DEF Buy!Attempts, Buy!PurchaseAssumption
<1>3. CASE e.type = "refund"
  <2>1. k = e.refund
    BY <1>3 DEF Buy!Subjects
  <2> QED BY <1>1, <1>2, <1>3, <2>1 DEF EventOK
<1>4. CASE e.type # "refund" /\ Buy!Rows(e.session) = {}
  <2>1. k = None
    BY <1>4 DEF Buy!Subjects
  <2> QED BY <1>1, <1>4, <2>1
<1>5. CASE e.type # "refund" /\ Buy!Rows(e.session) # {}
  <2>1. k \in {x.refund : x \in {y \in Buy!Rows(e.session) : y.attempt = Buy!Newest(e.session)}}
    BY <1>5 DEF Buy!Subjects
  <2>2. PICK x \in Buy!Rows(e.session) : k = x.refund
    BY <2>1
  <2>3. x \in buyRecords /\ x.session = e.session /\ x.refund \in Buy!Attempts
    BY <2>2 DEF Buy!Rows, PurchaseInv, Typed, Buy!TypeOK
  <2> QED BY <1>1, <1>2, <2>2, <2>3 DEF PurchaseInv, RefundsOK
<1> QED BY <1>3, <1>4, <1>5

\* What a reconciliation does: it ends the request with nothing changed; or
\* makes the refund of an attempt a, whose transaction is stored or lost; or
\* stores the state of a refund k that is followed by no other.
Quiet(h, s) ==
    /\ UNCHANGED <<buyRefunds, buyTerminal, buyRecords, buyFaults>>
    /\ Buy!Refuse(h) \/ (Buy!Answer(h) /\ s \in buyTerminal)
MakesRefund(h, s, a, rows) == a \in Buy!Attempts /\ rows \in SUBSET Row /\ IsFiniteSet(rows) /\ Buy!Attempt(h, s, a, rows)
FollowedRows(s, k) == Buy!WithRow(buyRecords, s, Buy!AttemptOf(s, k), k, buyRefunds[s][k].status)

LEMMA ReconcileCases ==
    ASSUME Buy!PurchaseAssumption, PurchaseInv, NEW h \in BuyHandlers, Buy!Reconcile(h)
    PROVE  LET s == buyHandler[h].event.session
           IN /\ s \in BuySessions
              /\ UNCHANGED <<buySession, buyMatches, buyEntitled, buyPurchase, buyGrants, buySwitches>>
              /\ \/ Quiet(h, s)
                 \/ /\ buyPurchase[s] = "refund_required"
                    /\ \/ MakesRefund(h, s, 0, buyRecords) /\ Buy!Rows(s) = {}
                       \/ \E k \in Buy!Attempts :
                             /\ Made(s, k) /\ FollowedRows(s, k) \in SUBSET Row /\ IsFiniteSet(FollowedRows(s, k))
                             /\ \/ /\ buyRefunds[s][k].status = "failed"
                                   /\ MakesRefund(h, s, Buy!AttemptOf(s, k) + 1, FollowedRows(s, k))
                                \/ /\ buyRecords' = FollowedRows(s, k)
                                   /\ Buy!Conclude(h, s, buyRefunds[s][k].status)
                                   /\ UNCHANGED <<buyRefunds, buyFaults>>
<1> DEFINE s == buyHandler[h].event.session
<1>1. buyHandler[h].pc = "reconcile" /\ UNCHANGED <<buySession, buyMatches, buyEntitled, buyPurchase, buyGrants, buySwitches>>
  BY DEF Buy!Reconcile
<1>2. s \in BuySessions
  BY <1>1 DEF PurchaseInv, EventsOK, HandlerOK, EventOK, Buy!Event
<1>3. buyRecords \in SUBSET Row /\ IsFiniteSet(buyRecords)
  BY DEF PurchaseInv, Typed, Buy!TypeOK, Row
<1>4. CASE buyPurchase[s] = "refund_required" /\ \E k \in Buy!Subjects(h) : IF k = None THEN Buy!Attempt(h, s, 0, buyRecords) ELSE Buy!Follow(h, s, k)
  <2>1. PICK k \in Buy!Subjects(h) : IF k = None THEN Buy!Attempt(h, s, 0, buyRecords) ELSE Buy!Follow(h, s, k)
    BY <1>4
  <2>2. CASE k = None
    <3>1. 0 \in Buy!Attempts
      BY DEF Buy!Attempts, Buy!PurchaseAssumption
    <3>2. Buy!Rows(s) = {}
      BY <1>1, <2>2, SubjectExists
    <3> QED BY <1>1, <1>2, <1>3, <1>4, <2>1, <2>2, <3>1, <3>2 DEF MakesRefund
  <2>3. CASE k # None
    <3>1. k \in Buy!Attempts /\ Made(s, k)
      BY <1>1, <2>3, SubjectExists
    <3>2. Buy!AttemptOf(s, k) \in Nat
      BY <1>2, <3>1, AttemptOfType DEF PurchaseInv
    <3>3. buyRefunds[s][k].status \in Buy!RefundStatus
      <4>1. buyRefunds[s][k] \in Buy!Refund
        BY <1>2, <3>1 DEF PurchaseInv, Typed, Buy!TypeOK
      <4> QED BY <4>1 DEF Buy!Refund
    <3>4. FollowedRows(s, k) \in SUBSET Row /\ IsFiniteSet(FollowedRows(s, k))
      BY <1>2, <1>3, <3>1, <3>2, <3>3, WithRowAdds DEF FollowedRows
    <3>5. Buy!Follow(h, s, k)
      BY <2>1, <2>3
    <3> HIDE DEF s
    <3>6. CASE Buy!Retries(buyRefunds[s][k].status) /\ Buy!AttemptOf(s, k) + 1 \in Buy!Attempts
      <4>1. buyRefunds[s][k].status = "failed" /\ MakesRefund(h, s, Buy!AttemptOf(s, k) + 1, FollowedRows(s, k))
        BY <3>4, <3>5, <3>6 DEF Buy!Follow, FollowedRows, MakesRefund, Buy!Retries
      <4> QED BY <1>1, <1>2, <1>4, <3>1, <3>4, <4>1 DEF s
    <3>7. CASE ~(Buy!Retries(buyRefunds[s][k].status) /\ Buy!AttemptOf(s, k) + 1 \in Buy!Attempts)
      <4>1. buyRecords' = FollowedRows(s, k) /\ Buy!Conclude(h, s, buyRefunds[s][k].status) /\ UNCHANGED <<buyRefunds, buyFaults>>
        BY <3>5, <3>7 DEF Buy!Follow, FollowedRows
      <4> QED BY <1>1, <1>2, <1>4, <3>1, <3>4, <4>1 DEF s
    <3> QED BY <3>6, <3>7
  <2> QED BY <2>2, <2>3
<1>5. CASE Quiet(h, s)
  BY <1>1, <1>2, <1>5
<1> QED BY <1>4, <1>5 DEF Buy!Reconcile, Quiet

\* A request ends without an answer, or with one and a refund that succeeded.
EndsRequest(h, s) ==
    \/ Buy!Refuse(h) /\ UNCHANGED buyTerminal
    \/ Buy!Answer(h) /\ buyTerminal' = buyTerminal \cup {s} /\ \E k \in Buy!Attempts : buyRefunds'[s][k].status = "succeeded"

\* No refund is changed, a new one is owed, and rows are about refunds.
LEMMA ReconcileEffects ==
    ASSUME Buy!PurchaseAssumption, PurchaseInv, NEW h \in BuyHandlers, Buy!Reconcile(h)
    PROVE  LET s == buyHandler[h].event.session
           IN /\ buyRefunds' \in [BuySessions -> [Buy!Attempts -> Buy!Refund]]
              /\ \A t \in BuySessions, k \in Buy!Attempts :
                    /\ Made(t, k) => buyRefunds'[t][k] = buyRefunds[t][k]
                    /\ buyRefunds'[t][k] # buyRefunds[t][k] =>
                          /\ buyPurchase[t] = "refund_required"
                          /\ buyRefunds'[t][k].status # "none" /\ buyRefunds'[t][k].first # "none"
                          /\ buyRefunds'[t][k].first = "succeeded" => buyRefunds'[t][k].status = "succeeded"
              /\ buyRecords' \in SUBSET Row /\ IsFiniteSet(buyRecords')
              /\ \A x \in buyRecords' : buyRefunds'[x.session][x.refund] # Buy!NoRefund
              /\ buyFaults' \in Nat
              /\ EndsRequest(h, s)
<1> DEFINE s == buyHandler[h].event.session
<1>1. s \in BuySessions
  BY ReconcileCases
<1>2. /\ buyRefunds \in [BuySessions -> [Buy!Attempts -> Buy!Refund]] /\ buyRecords \in SUBSET Row /\ IsFiniteSet(buyRecords)
      /\ buyFaults \in Nat /\ \A x \in buyRecords : Made(x.session, x.refund)
  BY DEF PurchaseInv, Typed, Buy!TypeOK, Row, RefundsOK
<1>3. CASE Quiet(h, s)
  <2>1. s \in buyTerminal => \E k \in Buy!Attempts : buyRefunds[s][k].status = "succeeded"
    BY DEF PurchaseInv, Buy!ConfirmedSucceeded
  <2> QED BY <1>2, <1>3, <2>1 DEF Quiet, EndsRequest, Made
<1>4. ASSUME NEW a \in Buy!Attempts, NEW rows \in SUBSET Row, IsFiniteSet(rows), buyPurchase[s] = "refund_required",
             \A x \in rows : Made(x.session, x.refund), Buy!Attempt(h, s, a, rows)
      PROVE  /\ buyRefunds' \in [BuySessions -> [Buy!Attempts -> Buy!Refund]]
             /\ \A t \in BuySessions, k \in Buy!Attempts :
                   /\ Made(t, k) => buyRefunds'[t][k] = buyRefunds[t][k]
                   /\ buyRefunds'[t][k] # buyRefunds[t][k] =>
                         /\ buyPurchase[t] = "refund_required"
                         /\ buyRefunds'[t][k].status # "none" /\ buyRefunds'[t][k].first # "none"
                         /\ buyRefunds'[t][k].first = "succeeded" => buyRefunds'[t][k].status = "succeeded"
             /\ buyRecords' \in SUBSET Row /\ IsFiniteSet(buyRecords')
             /\ \A x \in buyRecords' : buyRefunds'[x.session][x.refund] # Buy!NoRefund
             /\ buyFaults' \in Nat
             /\ EndsRequest(h, s)
  <2> HIDE DEF s
  <2> DEFINE first == buyRefunds'[s][a].first
  <2>1. /\ buyRefunds' \in [BuySessions -> [Buy!Attempts -> Buy!Refund]]
        /\ \A t \in BuySessions, k \in Buy!Attempts : t # s \/ k # a \/ Made(t, k) => buyRefunds'[t][k] = buyRefunds[t][k]
        /\ buyRefunds'[s][a] # Buy!NoRefund /\ buyRefunds'[s][a].status # "none" /\ first # "none"
        /\ first = "succeeded" => buyRefunds'[s][a].status = "succeeded"
        /\ \/ buyRecords' = Buy!WithRow(rows, s, a, a, first) /\ Buy!Conclude(h, s, first) /\ UNCHANGED buyFaults
           \/ Buy!Refuse(h) /\ Buy!Fault /\ UNCHANGED <<buyRecords, buyTerminal>>
    BY <1>1, <1>4, AttemptMakes DEF PurchaseInv
  <2>2. \A t \in BuySessions, k \in Buy!Attempts : Made(t, k) => buyRefunds'[t][k] # Buy!NoRefund
    BY <2>1 DEF Made
  <2>3. first \in Buy!RefundStatus /\ a \in Nat
    <3>1. buyRefunds'[s][a] \in Buy!Refund
      BY <1>1, <2>1
    <3> QED BY <3>1 DEF Buy!Refund, Buy!Attempts
  <2>4. CASE buyRecords' = Buy!WithRow(rows, s, a, a, first) /\ Buy!Conclude(h, s, first) /\ UNCHANGED buyFaults
    <3>1. /\ buyRecords' \in SUBSET Row /\ IsFiniteSet(buyRecords')
          /\ \A x \in buyRecords' : x \in rows \/ (x.session = s /\ x.refund = a)
      BY <1>1, <1>4, <2>3, <2>4, WithRowAdds
    <3>2. \A x \in buyRecords' : buyRefunds'[x.session][x.refund] # Buy!NoRefund
      BY <1>4, <2>1, <2>2, <3>1 DEF Row
    <3>3. EndsRequest(h, s)
      BY <2>1, <2>4 DEF Buy!Conclude, EndsRequest
    <3>4. buyFaults' \in Nat
      BY <1>2, <2>4
    <3> QED BY <1>4, <2>1, <3>1, <3>2, <3>3, <3>4
  <2>5. CASE Buy!Refuse(h) /\ Buy!Fault /\ UNCHANGED <<buyRecords, buyTerminal>>
    <3>1. \A x \in buyRecords' : buyRefunds'[x.session][x.refund] # Buy!NoRefund
      BY <1>2, <2>2, <2>5 DEF Row
    <3>2. buyFaults' \in Nat
      BY <1>2, <2>5 DEF Buy!Fault
    <3> QED BY <1>2, <1>4, <2>1, <2>5, <3>1, <3>2 DEF EndsRequest
  <2> QED BY <2>1, <2>4, <2>5
<1>5. ASSUME NEW k \in Buy!Attempts, Made(s, k)
      PROVE  \A x \in FollowedRows(s, k) : x \in buyRecords \/ (x.session = s /\ x.refund = k)
  BY DEF FollowedRows, Buy!WithRow
<1>6. ASSUME NEW k \in Buy!Attempts, Made(s, k), FollowedRows(s, k) \in SUBSET Row, IsFiniteSet(FollowedRows(s, k)),
             buyRecords' = FollowedRows(s, k), Buy!Conclude(h, s, buyRefunds[s][k].status), UNCHANGED <<buyRefunds, buyFaults>>
      PROVE  /\ buyRecords' \in SUBSET Row /\ IsFiniteSet(buyRecords')
             /\ \A x \in buyRecords' : buyRefunds'[x.session][x.refund] # Buy!NoRefund
             /\ EndsRequest(h, s)
  BY <1>2, <1>5, <1>6 DEF Buy!Conclude, EndsRequest, Made
<1>7. CASE buyPurchase[s] = "refund_required" /\ MakesRefund(h, s, 0, buyRecords)
  BY <1>2, <1>4, <1>7 DEF MakesRefund
<1>8. ASSUME buyPurchase[s] = "refund_required", NEW k \in Buy!Attempts, Made(s, k),
             MakesRefund(h, s, Buy!AttemptOf(s, k) + 1, FollowedRows(s, k))
      PROVE  \A x \in FollowedRows(s, k) : Made(x.session, x.refund)
  BY <1>2, <1>5, <1>8
<1>9. CASE buyPurchase[s] = "refund_required" /\ \E k \in Buy!Attempts :
              /\ Made(s, k) /\ FollowedRows(s, k) \in SUBSET Row /\ IsFiniteSet(FollowedRows(s, k))
              /\ \/ /\ buyRefunds[s][k].status = "failed"
                    /\ MakesRefund(h, s, Buy!AttemptOf(s, k) + 1, FollowedRows(s, k))
                 \/ /\ buyRecords' = FollowedRows(s, k)
                    /\ Buy!Conclude(h, s, buyRefunds[s][k].status)
                    /\ UNCHANGED <<buyRefunds, buyFaults>>
  <2>1. PICK k \in Buy!Attempts :
              /\ Made(s, k) /\ FollowedRows(s, k) \in SUBSET Row /\ IsFiniteSet(FollowedRows(s, k))
              /\ \/ MakesRefund(h, s, Buy!AttemptOf(s, k) + 1, FollowedRows(s, k))
                 \/ /\ buyRecords' = FollowedRows(s, k)
                    /\ Buy!Conclude(h, s, buyRefunds[s][k].status)
                    /\ UNCHANGED <<buyRefunds, buyFaults>>
    BY <1>9
  <2>2. CASE MakesRefund(h, s, Buy!AttemptOf(s, k) + 1, FollowedRows(s, k))
    BY <1>4, <1>8, <1>9, <2>1, <2>2 DEF MakesRefund
  <2>3. CASE buyRecords' = FollowedRows(s, k) /\ Buy!Conclude(h, s, buyRefunds[s][k].status) /\ UNCHANGED <<buyRefunds, buyFaults>>
    BY <1>2, <1>6, <2>1, <2>3
  <2> QED BY <2>1, <2>2, <2>3
<1> QED BY <1>3, <1>7, <1>9, ReconcileCases

LEMMA ReconcileStep ==
    ASSUME Buy!PurchaseAssumption, PurchaseInv, NEW h \in BuyHandlers, Buy!Reconcile(h)
    PROVE  PurchaseInv'
<1> DEFINE s == buyHandler[h].event.session
<1>1. s \in BuySessions /\ UNCHANGED <<buySession, buyMatches, buyEntitled, buyPurchase, buyGrants, buySwitches>>
      /\ buyHandler[h].pc = "reconcile"
  BY ReconcileCases DEF Buy!Reconcile
<1>2. /\ buyRefunds' \in [BuySessions -> [Buy!Attempts -> Buy!Refund]]
      /\ \A t \in BuySessions, k \in Buy!Attempts :
            /\ Made(t, k) => buyRefunds'[t][k] = buyRefunds[t][k]
            /\ buyRefunds'[t][k] # buyRefunds[t][k] =>
                  /\ buyPurchase[t] = "refund_required"
                  /\ buyRefunds'[t][k].status # "none" /\ buyRefunds'[t][k].first # "none"
                  /\ buyRefunds'[t][k].first = "succeeded" => buyRefunds'[t][k].status = "succeeded"
      /\ buyRecords' \in SUBSET Row /\ IsFiniteSet(buyRecords')
      /\ \A x \in buyRecords' : buyRefunds'[x.session][x.refund] # Buy!NoRefund
      /\ buyFaults' \in Nat
      /\ EndsRequest(h, s)
  BY ReconcileEffects
<1> HIDE DEF s
<1>3. /\ EventsOK' /\ buyUnacked' \subseteq Buy!Event /\ buyHandler' \in [BuyHandlers -> Buy!Handler]
      /\ \A t \in BuySessions : Awaited(t) => Awaited(t)' \/ (Buy!Answer(h) /\ ~Buy!Refuse(h) /\ s = t)
  <2>1. \A t \in BuySessions, k \in Buy!Attempts : Made(t, k) => buyRefunds'[t][k] # Buy!NoRefund
    BY <1>2 DEF Made
  <2> QED BY <1>1, <1>2, <2>1, RequestEnds DEF PurchaseInv, EndsRequest, s
<1>4. Typed'
  BY <1>1, <1>2, <1>3 DEF PurchaseInv, Typed, Buy!TypeOK, Row
<1>5. RefundsOK'
  BY <1>2 DEF PurchaseInv, RefundsOK, Made
<1>6. OutcomeOK'
  <2>1. s \in buyTerminal' => buyPurchase[s] = "refund_required"
    <3>1. ASSUME buyPurchase[s] # "refund_required" PROVE \A k \in Buy!Attempts : buyRefunds'[s][k] = Buy!NoRefund
      BY <1>1, <1>2, <3>1 DEF PurchaseInv, OutcomeOK, Made
    <3> QED BY <1>1, <1>2, <3>1 DEF PurchaseInv, OutcomeOK, EndsRequest, Buy!NoRefund
  <2>2. \A t \in buyTerminal' : t \in buyTerminal \/ t = s
    BY <1>2 DEF EndsRequest
  <2>3. \A t \in BuySessions : buyPurchase[t] # "refund_required" => \A k \in Buy!Attempts : buyRefunds'[t][k] = Buy!NoRefund
    BY <1>2 DEF PurchaseInv, OutcomeOK, Made
  <2> QED BY <1>1, <2>1, <2>2, <2>3 DEF PurchaseInv, OutcomeOK, Made
<1>7. Buy!ConfirmedSucceeded'
  <2>1. ASSUME NEW t \in buyTerminal, NEW k \in Buy!Attempts, buyRefunds[t][k].status = "succeeded"
        PROVE  buyRefunds'[t][k].status = "succeeded"
    BY <1>2, <2>1 DEF PurchaseInv, OutcomeOK, Made, Buy!NoRefund
  <2> QED BY <1>2, <2>1 DEF PurchaseInv, Buy!ConfirmedSucceeded, EndsRequest
<1>8. NothingForgotten'
  BY <1>1, <1>2, <1>3 DEF PurchaseInv, NothingForgotten, EndsRequest
<1> QED BY <1>3, <1>4, <1>5, <1>6, <1>7, <1>8 DEF PurchaseInv

LEMMA StepInv == Buy!PurchaseAssumption /\ PurchaseInv /\ [Buy!Next]_(Buy!purchaseVars) => PurchaseInv'
<1> SUFFICES ASSUME Buy!PurchaseAssumption, PurchaseInv, [Buy!Next]_(Buy!purchaseVars) PROVE PurchaseInv'
  OBVIOUS
<1>1. CASE UNCHANGED Buy!purchaseVars \/ Buy!ChangeEntitlement
  BY <1>1 DEF Buy!ChangeEntitlement, Buy!purchaseVars, Buy!stored, PurchaseInv, Typed, Buy!TypeOK, EventsOK, HandlerOK, EventOK,
              RefundsOK, OutcomeOK, Buy!ConfirmedSucceeded, NothingForgotten, Awaited, Made
<1> QED BY <1>1, SessionStep, RefundStep, ReceiveStep, PrepareStep, ReconcileStep, FailStep DEF Buy!Next, Buy!Handle

-----------------------------------------------------------------------------
(* Refunds follow one another. *)

\* Unless two transactions were lost, a refund counts as the attempt that made
\* it, also when nobody recorded it.
LEMMA AttemptIsRight ==
    ASSUME Buy!PurchaseAssumption, PurchaseInv, InOrder, buyFaults <= 1,
           NEW s \in BuySessions, NEW k \in Buy!Attempts, Made(s, k)
    PROVE  Buy!AttemptOf(s, k) = k
<1> DEFINE known == {x \in Buy!Rows(s) : x.refund = k}
<1>1. \A x \in Buy!Rows(s) : /\ x \in buyRecords /\ x.session = s /\ x.attempt = x.refund
                             /\ x.refund \in Buy!Attempts /\ Made(s, x.refund)
  BY DEF InOrder, Buy!Rows, PurchaseInv, Typed, Buy!TypeOK, RefundsOK
<1>2. k \in Nat /\ \A x \in Buy!Rows(s) : x.refund \in Nat
  BY <1>1 DEF Buy!Attempts
<1>3. CASE known # {}
  <2>1. \E x \in known : \A y \in known : y.attempt <= x.attempt
    BY <1>1, <1>2, <1>3
  <2>2. (CHOOSE x \in known : \A y \in known : y.attempt <= x.attempt) \in known
    BY <2>1
  <2>3. (CHOOSE x \in known : \A y \in known : y.attempt <= x.attempt).attempt = k
    BY <1>1, <2>2
  <2> QED BY <1>3, <2>3 DEF Buy!AttemptOf
<1>4. CASE known = {} /\ Buy!Rows(s) = {}
  <2>1. \A j \in Buy!Attempts : ~(j < k)
    BY <1>4 DEF InOrder, Stored, Buy!Rows
  <2>2. k = 0
    BY <1>2, <2>1 DEF Buy!Attempts, Buy!PurchaseAssumption
  <2> QED BY <1>4, <2>2 DEF Buy!AttemptOf
<1>5. CASE known = {} /\ Buy!Rows(s) # {}
  <2>1. \A x \in Buy!Rows(s) : x.refund < k
    <3> SUFFICES ASSUME NEW x \in Buy!Rows(s), ~(x.refund < k) PROVE FALSE
      OBVIOUS
    <3>1. k < x.refund
      BY <1>2, <1>5
    <3>2. Stored(s, k)
      BY <1>1, <3>1 DEF InOrder
    <3> QED BY <1>5, <3>2 DEF Stored, Buy!Rows
  <2>2. k - 1 \in Buy!Attempts
    <3>1. PICK x \in Buy!Rows(s) : TRUE
      BY <1>5
    <3>2. x.refund \in Nat /\ x.refund < k
      BY <1>2, <2>1, <3>1
    <3> QED BY <1>2, <3>2 DEF Buy!Attempts, Buy!PurchaseAssumption
  <2>3. PICK x \in Buy!Rows(s) : x.refund = k - 1
    <3>1. Stored(s, k - 1)
      BY <1>2, <2>2 DEF InOrder
    <3> QED BY <3>1 DEF Stored, Buy!Rows
  <2>4. /\ Buy!Newest(s) \in Nat
        /\ \E y \in Buy!Rows(s) : y.attempt = Buy!Newest(s)
        /\ \A y \in Buy!Rows(s) : y.attempt <= Buy!Newest(s)
    BY <1>5, NewestType DEF PurchaseInv
  <2>5. Buy!Newest(s) = k - 1
    BY <1>1, <1>2, <2>1, <2>3, <2>4
  <2> QED BY <1>2, <1>5, <2>5 DEF Buy!AttemptOf
<1> QED BY <1>3, <1>4, <1>5

\* A new refund keeps the order when those before it have failed and are
\* stored with it.
LEMMA NewRefundInOrder ==
    ASSUME PurchaseInv, InOrder, buyFaults <= 1, buyFaults' <= 1,
           NEW h, NEW s \in BuySessions, NEW a \in Buy!Attempts, NEW rows \in SUBSET Row, IsFiniteSet(rows),
           buyRecords \subseteq rows,
           \A x \in rows : x \in buyRecords \/ (x.session = s /\ x.attempt = x.refund),
           \A j \in Buy!Attempts : j < a =>
               buyRefunds[s][j].status = "failed" /\ \E x \in rows : x.session = s /\ x.refund = j,
           Buy!Attempt(h, s, a, rows)
    PROVE  InOrder'
<1> DEFINE first == buyRefunds'[s][a].first
<1>1. /\ buyRefunds' \in [BuySessions -> [Buy!Attempts -> Buy!Refund]]
      /\ \A t \in BuySessions, k \in Buy!Attempts : t # s \/ k # a \/ Made(t, k) => buyRefunds'[t][k] = buyRefunds[t][k]
      /\ buyRefunds'[s][a] # Buy!NoRefund /\ buyRefunds'[s][a].status # "none" /\ first # "none"
      /\ first = "succeeded" => buyRefunds'[s][a].status = "succeeded"
      /\ \/ buyRecords' = Buy!WithRow(rows, s, a, a, first) /\ Buy!Conclude(h, s, first) /\ UNCHANGED buyFaults
         \/ Buy!Refuse(h) /\ Buy!Fault /\ UNCHANGED <<buyRecords, buyTerminal>>
  <2>1. Typed /\ RefundsOK
    BY DEF PurchaseInv
  <2>2. Buy!Attempt(h, s, a, rows)
    OBVIOUS
  <2> QED BY ONLY <2>1, <2>2, AttemptMakes, s \in BuySessions, a \in Buy!Attempts
<1>2. first \in Buy!RefundStatus /\ a \in Nat /\ buyFaults \in Nat
  <2>1. buyRefunds'[s][a] \in Buy!Refund
    BY <1>1
  <2> QED BY <2>1 DEF Buy!Refund, Buy!Attempts, PurchaseInv, Typed
<1>3. \/ /\ rows \subseteq buyRecords' /\ Stored(s, a)' /\ buyFaults' = buyFaults
         /\ \A x \in buyRecords' : x \in rows \/ (x.session = s /\ x.refund = a /\ x.attempt = a)
      \/ buyRecords' = buyRecords /\ buyFaults = 0 /\ buyFaults' = 1
  <2>1. CASE buyRecords' = Buy!WithRow(rows, s, a, a, first) /\ UNCHANGED buyFaults
    BY <1>2, <2>1, WithRowAdds DEF Stored
  <2>2. CASE Buy!Fault /\ UNCHANGED buyRecords
    BY <1>2, <2>2 DEF Buy!Fault
  <2> QED BY <1>1, <2>1, <2>2
<1> HIDE DEF first
<1>4. buyRecords \subseteq buyRecords'
  BY <1>3
<1>5. \A t \in BuySessions, j \in Buy!Attempts : buyRefunds[t][j].status = "failed" => Made(t, j) /\ buyRefunds'[t][j] = buyRefunds[t][j]
  BY <1>1 DEF Made, Buy!NoRefund
<1>6. ASSUME NEW t \in BuySessions, NEW x \in Buy!Rows(t)' PROVE x.attempt = x.refund
  BY <1>3, <1>6 DEF InOrder, Buy!Rows
<1>7. ASSUME NEW t \in BuySessions, NEW j \in Buy!Attempts, NEW k \in Buy!Attempts, j < k, Made(t, k)'
      PROVE  buyRefunds'[t][j].status = "failed" /\ Stored(t, j)'
  <2>1. CASE t # s \/ k # a
    <3>1. Made(t, k)
      BY <1>1, <1>7, <2>1 DEF Made
    <3>2. buyRefunds[t][j].status = "failed" /\ Stored(t, j)
      BY <1>7, <3>1 DEF InOrder
    <3> QED BY <1>4, <1>5, <3>2 DEF Stored
  <2>2. CASE t = s /\ k = a
    <3>1. buyRefunds[s][j].status = "failed" /\ \E x \in rows : x.session = s /\ x.refund = j
      BY <1>7, <2>2
    <3>2. buyFaults = 0 => Stored(s, j)
      BY <1>5, <3>1 DEF InOrder
    <3> QED BY <1>3, <1>5, <2>2, <3>1, <3>2 DEF Stored
  <2> QED BY <2>1, <2>2
<1>8. ASSUME buyFaults' = 0, NEW t \in BuySessions, NEW k \in Buy!Attempts, Made(t, k)' PROVE Stored(t, k)'
  <2>1. CASE t # s \/ k # a
    <3>1. Made(t, k) /\ buyFaults = 0
      BY <1>1, <1>3, <1>8, <2>1 DEF Made
    <3>2. Stored(t, k)
      BY <3>1 DEF InOrder
    <3> QED BY <1>4, <3>2 DEF Stored
  <2>2. CASE t = s /\ k = a
    BY <1>3, <1>8, <2>2
  <2> QED BY <2>1, <2>2
<1> QED BY <1>6, <1>7, <1>8 DEF InOrder

LEMMA ReconcileInOrder ==
    ASSUME Buy!PurchaseAssumption, PurchaseInv, InOrder, NEW h \in BuyHandlers, Buy!Reconcile(h), buyFaults <= 1, buyFaults' <= 1
    PROVE  InOrder'
<1> DEFINE s == buyHandler[h].event.session
<1>1. s \in BuySessions
  BY ReconcileCases
<1>2. buyRecords \in SUBSET Row /\ IsFiniteSet(buyRecords)
  BY DEF PurchaseInv, Typed, Buy!TypeOK, Row
<1>3. CASE Quiet(h, s)
  BY <1>3 DEF Quiet, InOrder, Buy!Rows, Made, Stored
<1>4. CASE MakesRefund(h, s, 0, buyRecords) /\ Buy!Rows(s) = {}
  <2>1. \A j \in Buy!Attempts : ~(j < 0)
    BY DEF Buy!Attempts
  <2> QED BY <1>1, <1>2, <1>4, <2>1, NewRefundInOrder DEF MakesRefund
<1>5. ASSUME NEW k \in Buy!Attempts, Made(s, k), FollowedRows(s, k) \in SUBSET Row, IsFiniteSet(FollowedRows(s, k))
      PROVE  /\ Buy!AttemptOf(s, k) = k /\ buyRecords \subseteq FollowedRows(s, k)
             /\ \A x \in FollowedRows(s, k) : x \in buyRecords \/ (x.session = s /\ x.attempt = x.refund)
             /\ \E x \in FollowedRows(s, k) : x.session = s /\ x.refund = k
  <2>1. Buy!AttemptOf(s, k) = k /\ k \in Nat
    BY <1>1, <1>5, AttemptIsRight DEF Buy!Attempts
  <2>2. buyRefunds[s][k].status \in Buy!RefundStatus
    <3>1. buyRefunds[s][k] \in Buy!Refund
      BY <1>1 DEF PurchaseInv, Typed, Buy!TypeOK
    <3> QED BY <3>1 DEF Buy!Refund
  <2> QED BY <1>1, <1>2, <2>1, <2>2, WithRowAdds DEF FollowedRows
<1>6. ASSUME NEW k \in Buy!Attempts, Made(s, k), FollowedRows(s, k) \in SUBSET Row, IsFiniteSet(FollowedRows(s, k)),
             buyRefunds[s][k].status = "failed", MakesRefund(h, s, Buy!AttemptOf(s, k) + 1, FollowedRows(s, k))
      PROVE  InOrder'
  <2> DEFINE rows == FollowedRows(s, k)
  <2>1. /\ buyRecords \subseteq rows
        /\ \A x \in rows : x \in buyRecords \/ (x.session = s /\ x.attempt = x.refund)
        /\ k + 1 \in Buy!Attempts /\ Buy!Attempt(h, s, k + 1, rows)
    BY <1>5, <1>6 DEF MakesRefund
  <2>2. ASSUME NEW j \in Buy!Attempts, j < k + 1
        PROVE  buyRefunds[s][j].status = "failed" /\ \E x \in rows : x.session = s /\ x.refund = j
    <3>1. CASE j = k
      BY <1>5, <1>6, <3>1
    <3>2. CASE j # k
      <4>1. j < k
        BY <2>2, <3>2 DEF Buy!Attempts
      <4>2. buyRefunds[s][j].status = "failed" /\ Stored(s, j)
        BY <1>1, <1>6, <4>1 DEF InOrder
      <4> QED BY <2>1, <4>2 DEF Stored
    <3> QED BY <3>1, <3>2
  <2> HIDE DEF rows, s
  <2>3. rows \in SUBSET Row /\ IsFiniteSet(rows)
    BY <1>6 DEF rows
  <2> QED BY <1>1, <2>1, <2>2, <2>3, NewRefundInOrder
<1>7. ASSUME NEW k \in Buy!Attempts, Made(s, k), FollowedRows(s, k) \in SUBSET Row, IsFiniteSet(FollowedRows(s, k)),
             buyRecords' = FollowedRows(s, k), UNCHANGED <<buyRefunds, buyFaults>>
      PROVE  InOrder'
  <2>1. buyRecords \subseteq buyRecords' /\ \A x \in buyRecords' : x \in buyRecords \/ x.attempt = x.refund
    BY <1>5, <1>7
  <2> QED BY <1>7, <2>1 DEF InOrder, Buy!Rows, Made, Stored
<1>8. \/ Quiet(h, s)
      \/ MakesRefund(h, s, 0, buyRecords) /\ Buy!Rows(s) = {}
      \/ \E k \in Buy!Attempts :
            /\ Made(s, k) /\ FollowedRows(s, k) \in SUBSET Row /\ IsFiniteSet(FollowedRows(s, k))
            /\ \/ /\ buyRefunds[s][k].status = "failed"
                  /\ MakesRefund(h, s, Buy!AttemptOf(s, k) + 1, FollowedRows(s, k))
               \/ buyRecords' = FollowedRows(s, k) /\ UNCHANGED <<buyRefunds, buyFaults>>
  BY ReconcileCases
<1> QED BY <1>3, <1>4, <1>6, <1>7, <1>8

LEMMA FaultsGrow ==
    ASSUME Buy!PurchaseAssumption, PurchaseInv, NEW h \in BuyHandlers, Buy!Reconcile(h)
    PROVE  buyFaults <= buyFaults'
<1>1. buyFaults \in Nat
  BY DEF PurchaseInv, Typed
<1>2. UNCHANGED buyFaults \/ Buy!Fault
  BY ReconcileCases DEF Quiet, MakesRefund, Buy!Attempt
<1> QED BY <1>1, <1>2 DEF Buy!Fault

LEMMA StepInOrder == Buy!PurchaseAssumption /\ PurchaseInv /\ InOrder /\ [Buy!Next]_(Buy!purchaseVars) => InOrder'
<1> SUFFICES ASSUME Buy!PurchaseAssumption, PurchaseInv, InOrder, [Buy!Next]_(Buy!purchaseVars) PROVE InOrder'
  OBVIOUS
<1>1. buyFaults \in Nat /\ buyFaults' \in Nat
  BY StepInv DEF PurchaseInv, Typed
<1>2. CASE UNCHANGED <<buyRefunds, buyRecords>> /\ buyFaults <= buyFaults'
  BY <1>1, <1>2 DEF InOrder, Buy!Rows, Made, Stored
<1>3. UNCHANGED buyFaults \/ Buy!Fault => buyFaults <= buyFaults'
  BY <1>1 DEF Buy!Fault
<1>4. ASSUME NEW s \in BuySessions, Buy!OpenSession(s) \/ Buy!CompleteSession(s) \/ Buy!AsyncPayment(s) PROVE InOrder'
  BY <1>2, <1>3, <1>4 DEF Buy!OpenSession, Buy!CompleteSession, Buy!AsyncPayment, Buy!stored
<1>5. ASSUME NEW s \in BuySessions, NEW k \in Buy!Attempts, Buy!RefundSettles(s, k) \/ Buy!RefundAnnounced(s, k) PROVE InOrder'
  <2>1. CASE Buy!RefundSettles(s, k)
    <3>1. UNCHANGED <<buyRecords, buyFaults>>
      BY <2>1 DEF Buy!RefundSettles, Buy!stored
    <3>2. \A t \in BuySessions, j \in Buy!Attempts : buyRefunds'[t][j] # buyRefunds[t][j] =>
             buyRefunds[t][j].status = "pending" /\ t = s /\ j = k
      BY <2>1 DEF Buy!RefundSettles, PurchaseInv, Typed, Buy!TypeOK
    <3>3. \A t \in BuySessions, j \in Buy!Attempts : Made(t, j)' => Made(t, j)
      BY <3>2 DEF Made, Buy!NoRefund
    <3>4. \A t \in BuySessions, j \in Buy!Attempts : buyRefunds[t][j].status = "failed" => buyRefunds'[t][j].status = "failed"
      BY <3>2
    <3> QED BY <3>1, <3>3, <3>4 DEF InOrder, Buy!Rows, Stored
  <2>2. CASE Buy!RefundAnnounced(s, k)
    BY <1>2, <1>3, <2>2 DEF Buy!RefundAnnounced, Buy!stored
  <2> QED BY <1>5, <2>1, <2>2
<1>6. CASE Buy!ChangeEntitlement
  BY <1>2, <1>3, <1>6 DEF Buy!ChangeEntitlement, Buy!stored
<1>7. ASSUME NEW h \in BuyHandlers, NEW e, Buy!Receive(h, e) PROVE InOrder'
  BY <1>2, <1>3, <1>7 DEF Buy!Receive, Buy!stored
<1>8. ASSUME NEW h \in BuyHandlers, Buy!Prepare(h) PROVE InOrder'
  BY <1>2, <1>3, <1>8 DEF Buy!Prepare
<1>9. ASSUME NEW h \in BuyHandlers, Buy!Reconcile(h) PROVE InOrder'
  <2>1. CASE buyFaults' <= 1
    <3>1. buyFaults <= buyFaults'
      BY <1>1, <1>9, FaultsGrow
    <3> QED BY <1>1, <1>9, <2>1, <3>1, ReconcileInOrder
  <2>2. CASE ~(buyFaults' <= 1)
    BY <2>2 DEF InOrder
  <2> QED BY <2>1, <2>2
<1>10. ASSUME NEW h \in BuyHandlers, Buy!HandlerFails(h) PROVE InOrder'
  BY <1>2, <1>3, <1>10 DEF Buy!HandlerFails, Buy!stored
<1>11. CASE UNCHANGED Buy!purchaseVars
  BY <1>2, <1>3, <1>11 DEF Buy!purchaseVars, Buy!stored
<1> QED BY <1>4, <1>5, <1>6, <1>7, <1>8, <1>9, <1>10, <1>11 DEF Buy!Next, Buy!Handle

-----------------------------------------------------------------------------
(* Theorems. *)

\* Whatever the constants, every reachable state satisfies the invariants.
LEMMA PurchaseHolds ==
    ASSUME Buy!PurchaseAssumption PROVE Buy!Spec => [](PurchaseInv /\ InOrder)
<1>1. Buy!Init => PurchaseInv /\ InOrder
  BY InitInv
<1>2. PurchaseInv /\ InOrder /\ [Buy!Next]_(Buy!purchaseVars) => PurchaseInv' /\ InOrder'
  BY StepInv, StepInOrder
<1> QED BY <1>1, <1>2, PTL DEF Buy!Spec

\* Type correctness of the credit purchases (stripe-credit-purchase.service.ts).
THEOREM PurchaseTypeCorrect == ASSUME Buy!PurchaseAssumption PROVE Buy!Spec => []Buy!TypeOK
<1>1. PurchaseInv => Buy!TypeOK
  BY DEF PurchaseInv, Typed
<1> QED BY <1>1, PurchaseHolds, PTL

\* A paid session is granted its credits or refunded, never both, however
\* webhooks, lost transactions and changes of the tenant interleave.
THEOREM GrantedOrRefunded == ASSUME Buy!PurchaseAssumption PROVE Buy!Spec => []Buy!OneOutcome
<1>1. PurchaseInv => Buy!OneOutcome
  BY DEF PurchaseInv, Typed, Buy!TypeOK, OutcomeOK, Buy!OneOutcome, Made
<1> QED BY <1>1, PurchaseHolds, PTL

\* With at most one lost transaction, a refund is asked for only when every
\* earlier refund of the session has failed.
THEOREM RefundsFollowFailures == ASSUME Buy!PurchaseAssumption PROVE Buy!Spec => []Buy!RefundedOnce
<1>1. InOrder => Buy!RefundedOnce
  BY DEF InOrder, Buy!RefundedOnce, Made
<1> QED BY <1>1, PurchaseHolds, PTL

\* refund_confirmed is stored only for a refund that succeeded at Stripe.
THEOREM ConfirmationIsTrue == ASSUME Buy!PurchaseAssumption PROVE Buy!Spec => []Buy!ConfirmedSucceeded
<1>1. PurchaseInv => Buy!ConfirmedSucceeded
  BY DEF PurchaseInv
<1> QED BY <1>1, PurchaseHolds, PTL

\* A paid session without an event left at Stripe was granted or refunded: no
\* handler answers a webhook that still has something to settle.
THEOREM AnswersSettle == ASSUME Buy!PurchaseAssumption PROVE Buy!Spec => []Buy!AnsweredIsSettled
<1>1. PurchaseInv => Buy!AnsweredIsSettled
  BY DEF PurchaseInv, NothingForgotten, Awaited, Buy!AnsweredIsSettled, Buy!CheckoutEvent
<1> QED BY <1>1, PurchaseHolds, PTL

\* Credits are granted only for a paid, matching session of a tenant that is
\* entitled at that moment, although the session was read before the lock.
THEOREM GrantsAreDue == ASSUME Buy!PurchaseAssumption PROVE Buy!Spec => Buy!GrantIsDue
<1>1. PurchaseInv /\ [Buy!Next]_(Buy!purchaseVars) => [Buy!GrantsDue]_(Buy!purchaseVars)
  <2> SUFFICES ASSUME PurchaseInv, Buy!Next PROVE Buy!GrantsDue
    OBVIOUS
  <2>1. ASSUME NEW h \in BuyHandlers, Buy!Prepare(h) PROVE Buy!GrantsDue
    <3> DEFINE s == buyHandler[h].event.session
    <3>1. buyHandler[h].paid => buySession[s] = "paid"
      BY <2>1 DEF Buy!Prepare, PurchaseInv, EventsOK, HandlerOK
    <3>2. UNCHANGED buyGrants \/ (Buy!Paid(h) /\ Buy!Verified(s) /\ buyGrants' = [buyGrants EXCEPT ![s] = @ + 1])
      BY <2>1 DEF Buy!Prepare
    <3> QED BY <3>1, <3>2 DEF Buy!GrantsDue, Buy!Paid, Buy!Verified, PurchaseInv, Typed, Buy!TypeOK
  <2>2. CASE UNCHANGED buyGrants
    BY <2>2 DEF Buy!GrantsDue
  <2>3. ASSUME NEW h \in BuyHandlers, Buy!Handle(h), ~Buy!Prepare(h) PROVE UNCHANGED buyGrants
    BY <2>3 DEF Buy!Handle, Buy!Receive, Buy!Reconcile, Buy!HandlerFails, Buy!stored
  <2>4. \/ \E h \in BuyHandlers : Buy!Handle(h)
        \/ UNCHANGED buyGrants
    BY DEF Buy!Next, Buy!OpenSession, Buy!CompleteSession, Buy!AsyncPayment, Buy!RefundSettles, Buy!RefundAnnounced, Buy!ChangeEntitlement, Buy!stored
  <2> QED BY <2>1, <2>2, <2>3, <2>4
<1> QED BY <1>1, PurchaseHolds, PTL DEF Buy!Spec, Buy!GrantIsDue

-----------------------------------------------------------------------------
(* Metered usage. *)

LEMMA UsageCardinality == \A S : Usage!Cardinality(S) = Cardinality(S)
BY DEF Usage!Cardinality, Cardinality

(* The inductive invariant. *)

\* Shapes of the records; submitted and end are only ever compared.
RowShape(r) ==
    /\ r = [status |-> r.status, quantity |-> r.quantity, ident |-> r.ident,
            attempts |-> r.attempts, submitted |-> r.submitted, due |-> r.due,
            aged |-> r.aged, replays |-> r.replays, event |-> r.event]
    /\ r.status \in {"none", "PENDING", "SENDING", "FAILED", "SENT", "DEAD_LETTERED"}
    /\ r.quantity \in 0 .. UsageMaxStaff /\ r.ident \in Nat
    /\ r.attempts \in 0 .. UsageMaxAttempts /\ r.replays \in 0 .. UsageMaxReplays
    /\ r.event \in UsageReports \cup {None}
    /\ r.status = "none" => r = Usage!NoRow
ReportShape(r) ==
    /\ r = [state |-> r.state, subs |-> r.subs, samples |-> r.samples,
            retryable |-> r.retryable, end |-> r.end]
    /\ r.state \in {"none", "sent", "answered"}
RequestShape(v) ==
    /\ v = [stage |-> v.stage, before |-> v.before, todo |-> v.todo, seen |-> v.seen,
            accounted |-> v.accounted]
    /\ v.stage \in {"idle", "samples", "sample", "candidates"}
Worker == [stage : {"idle", "send", "sent", "failed", "refused"}, period : {0} \cup Usage!Periods,
           attempts : 0 .. UsageMaxAttempts, quantity : 0 .. UsageMaxStaff, ident : Nat]
Sub == [period : Usage!Periods, ident : Nat, quantity : 0 .. UsageMaxStaff]

RowsShaped == /\ usageRow = [p \in Usage!Periods |-> usageRow[p]]
              /\ \A p \in Usage!Periods : RowShape(usageRow[p])
RestShaped == /\ usageNow \in Usage!Periods /\ usageStaff \in 0 .. UsageMaxStaff /\ usageFaults \in 0 .. UsageMaxFaults
              /\ usageWorker \in [UsageWorkers -> Worker]
ReportsShaped == /\ usageReport = [e \in UsageReports |-> usageReport[e]]
                 /\ \A e \in UsageReports : ReportShape(usageReport[e])
                 /\ usageHandler = [e \in UsageReports |-> usageHandler[e]]
                 /\ \A e \in UsageReports : RequestShape(usageHandler[e])

\* The snapshot has been claimed: its quantity is settled.
Taken(p) == usageRow[p].status \notin {"none", "PENDING"}

\* What a worker knows of the event it claimed.
WorkerOK(v) ==
    \/ v = Usage!Idle
    \/ /\ v.stage # "idle" /\ v.period \in Usage!Periods
       /\ Taken(v.period) /\ v.quantity = usageRow[v.period].quantity
       /\ v.ident =< usageRow[v.period].ident /\ v.attempts =< usageRow[v.period].attempts
       /\ v.attempts = usageRow[v.period].attempts /\ usageRow[v.period].status = "SENDING"
             => v.ident = usageRow[v.period].ident
       /\ ~(usageRow[v.period].status = "DEAD_LETTERED" /\ usageRow[v.period].aged)
       /\ v.stage = "sent" => \E s \in usageAccepted : s.period = v.period /\ s.ident = v.ident
WorkersOK == \A w \in UsageWorkers : WorkerOK(usageWorker[w])

\* Stripe holds one submission for an identity, with the quantity of its event.
SubmissionOK(s) == /\ s \in Sub /\ Taken(s.period)
                   /\ s.ident =< usageRow[s.period].ident /\ s.quantity = usageRow[s.period].quantity
SubsOK == /\ IsFiniteSet(usageAccepted) /\ usageRejected \subseteq usageAccepted
          /\ \A s \in usageAccepted : SubmissionOK(s)
          /\ \A s, t \in usageAccepted : Usage!Key(s) = Usage!Key(t) => s = t

\* An event that counts as sent was accepted under its present identity.
SentOK == \A p \in Usage!Periods : usageRow[p].status = "SENT" =>
              \E s \in usageAccepted : s.period = p /\ s.ident = usageRow[p].ident

BaseInv == RowsShaped /\ RestShaped /\ ReportsShaped /\ WorkersOK /\ SubsOK /\ SentOK

\* The event has left the identity of the submission, or rests in dead letter.
Past(s) == usageRow[s.period].ident > s.ident
Over(s) == Past(s) \/ usageRow[s.period].status = "DEAD_LETTERED"

\* Stripe still delivers a report that names the submission.
Announced(s) == \E e \in UsageReports : s \in usageReport[e].subs /\ usageReport[e].state = "sent"

\* What a complete report says, and what its handling has established.
ReportOK(e) == /\ usageReport[e].subs \subseteq usageRejected
               /\ usageReport[e].samples = {Usage!Key(s) : s \in usageReport[e].subs}
RequestOK(e) ==
    /\ usageHandler[e].stage \in {"idle", "samples", "sample"}
    /\ usageHandler[e].todo \subseteq usageReport[e].samples
    /\ \A x \in usageHandler[e].seen : \E s \in usageReport[e].subs : Usage!Key(s) = <<x.period, x.ident>>
    /\ \A p \in usageHandler[e].accounted : \E s \in usageReport[e].subs : s.period = p /\ Over(s)
UsageEventOK(p) == usageRow[p].event # None =>
                      \E s \in usageReport[usageRow[p].event].subs : s.period = p /\ Past(s)

ReportInv == /\ \A s \in usageRejected : Over(s) \/ Announced(s)
             /\ \A e \in UsageReports : ReportOK(e) /\ RequestOK(e)
             /\ \A p \in Usage!Periods : UsageEventOK(p)

UsageInv == BaseInv /\ (~UsageIncomplete => ReportInv)

-----------------------------------------------------------------------------
(* Rows. *)

Busy(p) == \E w \in UsageWorkers : usageWorker[w].period = p

\* How a step may change an event: a settled quantity stays, the identity only
\* grows, and nothing leaves dead letter under its old identity.
Forward(p) ==
    /\ RowShape(usageRow'[p])
    /\ usageRow'[p].ident >= usageRow[p].ident
    /\ Taken(p) => Taken(p)' /\ usageRow'[p].quantity = usageRow[p].quantity
    /\ usageRow[p].status = "DEAD_LETTERED" =>
          usageRow'[p].status = "DEAD_LETTERED" \/ usageRow'[p].ident > usageRow[p].ident
    /\ Busy(p) =>
          /\ usageRow'[p].attempts >= usageRow[p].attempts
          /\ usageRow'[p].attempts = usageRow[p].attempts /\ usageRow'[p].status = "SENDING" =>
                usageRow[p].status = "SENDING" /\ usageRow'[p].ident = usageRow[p].ident
          /\ usageRow'[p].status = "DEAD_LETTERED" /\ usageRow'[p].aged =>
                usageRow[p].status = "DEAD_LETTERED" /\ usageRow[p].aged

\* The step neither counts the event as sent nor records a report in it.
Calm(p) ==
    /\ usageRow'[p].event = usageRow[p].event
    /\ usageRow'[p].status = "SENT" => usageRow[p].status = "SENT" /\ usageRow'[p].ident = usageRow[p].ident

RowStep == /\ usageRow' = [p \in Usage!Periods |-> usageRow'[p]]
           /\ \A p \in Usage!Periods : Forward(p)

\* An event that stays as it is.
LEMMA SameRow ==
    ASSUME RowsShaped, NEW p \in Usage!Periods, usageRow'[p] = usageRow[p]
    PROVE  Forward(p) /\ Calm(p)
<1>1. RowShape(usageRow[p]) /\ usageRow[p].ident \in Nat /\ usageRow[p].attempts \in Int
  BY DEF RowsShaped, RowShape
<1> QED BY <1>1 DEF Forward, Calm, RowShape, Taken

LEMMA SameRows ==
    ASSUME RowsShaped, UNCHANGED usageRow
    PROVE  RowStep /\ \A p \in Usage!Periods : Calm(p)
<1>1. \A p \in Usage!Periods : Forward(p) /\ Calm(p)
  BY SameRow
<1> QED BY <1>1 DEF RowStep, RowsShaped

\* One event changes.
LEMMA OneRow ==
    ASSUME RowsShaped, NEW p \in Usage!Periods, NEW r, usageRow' = [usageRow EXCEPT ![p] = r],
           usageRow'[p] = r => Forward(p)
    PROVE  /\ RowStep /\ usageRow'[p] = r
           /\ \A q \in Usage!Periods : q # p => usageRow'[q] = usageRow[q] /\ Calm(q)
<1>1. usageRow = [q \in Usage!Periods |-> usageRow[q]]
  BY DEF RowsShaped
<1>2. /\ usageRow' = [q \in Usage!Periods |-> usageRow'[q]] /\ usageRow'[p] = r
      /\ \A q \in Usage!Periods : q # p => usageRow'[q] = usageRow[q]
  BY <1>1
<1>3. \A q \in Usage!Periods : Forward(q) /\ (q # p => Calm(q))
  BY <1>2, SameRow
<1> QED BY <1>2, <1>3 DEF RowStep

-----------------------------------------------------------------------------
(* What outlasts a forward step. *)

LEMMA SubsKept ==
    ASSUME BaseInv, RowStep, UNCHANGED <<usageAccepted, usageRejected>>
    PROVE  SubsOK'
<1>1. ASSUME NEW s \in usageAccepted PROVE SubmissionOK(s)'
  <2>1. SubmissionOK(s) /\ s.period \in Usage!Periods /\ s.ident \in Nat /\ usageRow[s.period].ident \in Nat
    BY DEF BaseInv, SubsOK, SubmissionOK, Sub, RowsShaped, RowShape
  <2>2. Forward(s.period) /\ usageRow'[s.period].ident \in Nat
    BY <2>1 DEF RowStep, Forward, RowShape
  <2> QED BY <2>1, <2>2 DEF SubmissionOK, Forward
<1> QED BY <1>1 DEF BaseInv, SubsOK

\* A worker that stays as it is.
LEMMA WorkerKept ==
    ASSUME BaseInv, RowStep, usageAccepted \subseteq usageAccepted', NEW w \in UsageWorkers, NEW v, v = usageWorker[w]
    PROVE  WorkerOK(v)'
<1>1. WorkerOK(v) /\ v \in Worker
  BY DEF BaseInv, WorkersOK, RestShaped
<1>2. CASE v # Usage!Idle
  <2>1. v.period \in Usage!Periods /\ Busy(v.period) /\ v.attempts \in Int /\ v.ident \in Nat
    BY <1>1, <1>2 DEF WorkerOK, Busy, Worker
  <2>2. RowShape(usageRow[v.period]) /\ Forward(v.period)
    BY <2>1 DEF BaseInv, RowsShaped, RowStep
  <2>3. /\ usageRow[v.period].ident \in Nat /\ usageRow[v.period].attempts \in Int
        /\ usageRow'[v.period].ident \in Nat /\ usageRow'[v.period].attempts \in Int
    BY <2>2 DEF RowShape, Forward
  <2> QED BY <1>1, <1>2, <2>1, <2>2, <2>3 DEF WorkerOK, Forward
<1> QED BY <1>1, <1>2 DEF WorkerOK

\* All workers stay as they are, or one takes the state v.
LEMMA WorkersKept ==
    ASSUME BaseInv, RowStep, usageAccepted \subseteq usageAccepted', UNCHANGED usageWorker
    PROVE  WorkersOK'
<1>1. ASSUME NEW w \in UsageWorkers PROVE WorkerOK(usageWorker[w])'
  <2>1. PICK v : v = usageWorker[w]
    OBVIOUS
  <2>2. WorkerOK(v)'
    BY <2>1, WorkerKept
  <2> QED BY <2>1, <2>2 DEF WorkerOK, Taken
<1> QED BY <1>1 DEF WorkersOK

LEMMA WorkerMoved ==
    ASSUME BaseInv, RowStep, usageAccepted \subseteq usageAccepted', NEW w \in UsageWorkers, NEW v \in Worker,
           usageWorker' = [usageWorker EXCEPT ![w] = v], WorkerOK(v)'
    PROVE  WorkersOK' /\ usageWorker' \in [UsageWorkers -> Worker]
<1>1. usageWorker \in [UsageWorkers -> Worker]
  BY DEF BaseInv, RestShaped
<1>2. /\ usageWorker' \in [UsageWorkers -> Worker] /\ usageWorker'[w] = v
      /\ \A u \in UsageWorkers : u # w => usageWorker'[u] = usageWorker[u]
  BY <1>1
<1>3. ASSUME NEW u \in UsageWorkers, u # w PROVE WorkerOK(usageWorker[u])'
  <2>1. PICK x : x = usageWorker[u]
    OBVIOUS
  <2>2. WorkerOK(x)' /\ usageWorker'[u] = x
    BY <1>2, <1>3, <2>1, WorkerKept
  <2> QED BY <2>1, <2>2 DEF WorkerOK, Taken
<1>4. WorkerOK(usageWorker[w])'
  BY <1>2 DEF WorkerOK, Taken
<1> QED BY <1>2, <1>3, <1>4 DEF WorkersOK

-----------------------------------------------------------------------------
(* Submissions and reports. *)

LEMMA OverKept ==
    ASSUME BaseInv, RowStep, NEW s \in usageAccepted
    PROVE  (Past(s) => Past(s)') /\ (Over(s) => Over(s)')
<1>1. SubmissionOK(s) /\ s.period \in Usage!Periods /\ s.ident \in Nat
  BY DEF BaseInv, SubsOK, SubmissionOK, Sub
<1>2. RowShape(usageRow[s.period]) /\ Forward(s.period)
  BY <1>1 DEF BaseInv, RowsShaped, RowStep
<1>3. usageRow[s.period].ident \in Nat /\ usageRow'[s.period].ident \in Nat
  BY <1>2 DEF RowShape, Forward
<1> QED BY <1>1, <1>2, <1>3 DEF Past, Over, SubmissionOK, Forward

LEMMA SentKept ==
    ASSUME BaseInv, \A p \in Usage!Periods : Calm(p), usageAccepted \subseteq usageAccepted'
    PROVE  SentOK'
BY DEF BaseInv, SentOK, Calm

LEMMA ReportsGo ==
    ASSUME BaseInv, ReportInv, RowStep, \A p \in Usage!Periods : usageRow'[p].event = usageRow[p].event,
           UNCHANGED <<usageRejected, usageReport, usageHandler>>
    PROVE  ReportInv'
<1>1. \A s \in usageRejected : (Past(s) => Past(s)') /\ (Over(s) => Over(s)')
  BY OverKept DEF BaseInv, SubsOK
<1>2. \A e \in UsageReports : \A s \in usageReport[e].subs : (Past(s) => Past(s)') /\ (Over(s) => Over(s)')
  BY <1>1 DEF ReportInv, ReportOK
<1>3. ASSUME NEW e \in UsageReports PROVE ReportOK(e)' /\ RequestOK(e)'
  <2>1. ReportOK(e) /\ RequestOK(e)
    BY DEF ReportInv
  <2> QED BY <1>2, <2>1 DEF ReportOK, RequestOK
<1>4. ASSUME NEW p \in Usage!Periods PROVE UsageEventOK(p)'
  <2>1. UsageEventOK(p) /\ usageRow'[p].event = usageRow[p].event /\ usageRow[p].event \in UsageReports \cup {None}
    BY DEF ReportInv, BaseInv, RowsShaped, RowShape
  <2> QED BY <1>2, <2>1 DEF UsageEventOK
<1>5. \A s \in usageRejected' : Over(s)' \/ Announced(s)'
  BY <1>1 DEF ReportInv, Announced
<1> QED BY <1>3, <1>4, <1>5 DEF ReportInv

\* A step that leaves Stripe and the reports alone.
LEMMA QuietStep ==
    ASSUME UsageInv, RowStep, \A p \in Usage!Periods : Calm(p),
           UNCHANGED <<usageAccepted, usageRejected, usageReport, usageHandler>>, RestShaped', WorkersOK'
    PROVE  UsageInv'
<1>1. BaseInv
  BY DEF UsageInv
<1>2. RowsShaped'
  BY DEF RowStep, Forward, RowsShaped
<1>3. ReportsShaped'
  BY <1>1 DEF BaseInv, ReportsShaped
<1>4. BaseInv'
  BY <1>1, <1>2, <1>3, SubsKept, SentKept DEF BaseInv
<1> QED BY <1>1, <1>4, ReportsGo DEF UsageInv, Calm

-----------------------------------------------------------------------------
(* The billing loop. *)

\* What the snapshot does to an event.
Snapshot(old, new) ==
    \/ new = old
    \/ /\ RowShape(new) /\ old.status \in {"none", "PENDING"} /\ new.status = "PENDING"
       /\ new.ident = old.ident /\ new.attempts = old.attempts /\ new.event = old.event

LEMMA PreparedRows ==
    ASSUME BaseInv
    PROVE  /\ Usage!Prepared = [p \in Usage!Periods |-> Usage!Prepared[p]]
           /\ \A p \in Usage!Periods : Snapshot(usageRow[p], Usage!Prepared[p])
<1>0. usageRow = [p \in Usage!Periods |-> usageRow[p]] /\ usageNow \in Usage!Periods /\ usageStaff \in 0 .. UsageMaxStaff
      /\ RowShape(usageRow[usageNow])
  BY DEF BaseInv, RowsShaped, RestShaped
<1>1. CASE usageRow[usageNow].status = "none"
  <2>1. Usage!Prepared = [usageRow EXCEPT ![usageNow] = [Usage!NoRow EXCEPT !.status = "PENDING", !.quantity = usageStaff]]
    BY <1>1 DEF Usage!Prepared
  <2>2. PICK r : r = [Usage!NoRow EXCEPT !.status = "PENDING", !.quantity = usageStaff]
    OBVIOUS
  <2>3. Snapshot(usageRow[usageNow], r)
    <3>1. usageRow[usageNow] = Usage!NoRow
      BY <1>0, <1>1 DEF RowShape
    <3>2. r.status = "PENDING" /\ r.ident = 0 /\ r.attempts = 0 /\ r.event = None
          /\ r.quantity = usageStaff /\ r.replays = 0 /\ Usage!NoRow.attempts = 0
          /\ Usage!NoRow.ident = 0 /\ Usage!NoRow.event = None /\ Usage!NoRow.replays = 0
      BY <2>2 DEF Usage!NoRow
    <3>3. RowShape(r)
      <4>1. 0 \in 0 .. UsageMaxAttempts /\ 0 \in 0 .. UsageMaxReplays
        BY <1>0, <3>1, <3>2 DEF RowShape
      <4>2. r = [status |-> r.status, quantity |-> r.quantity, ident |-> r.ident,
            attempts |-> r.attempts, submitted |-> r.submitted, due |-> r.due,
            aged |-> r.aged, replays |-> r.replays, event |-> r.event]
        BY <2>2 DEF Usage!NoRow
      <4> QED BY <1>0, <3>2, <4>1, <4>2 DEF RowShape
    <3> QED BY <1>1, <3>1, <3>2, <3>3 DEF Snapshot
  <2> QED BY <1>0, <2>1, <2>2, <2>3 DEF Snapshot
<1>2. CASE usageRow[usageNow].status = "PENDING" /\ usageRow[usageNow].attempts = 0 /\ usageRow[usageNow].submitted = 0
  <2>1. Usage!Prepared = [usageRow EXCEPT ![usageNow] = [usageRow[usageNow] EXCEPT !.quantity = usageStaff]]
    BY <1>2 DEF Usage!Prepared
  <2>2. PICK r : r = [usageRow[usageNow] EXCEPT !.quantity = usageStaff]
    OBVIOUS
  <2>3. r.status = usageRow[usageNow].status /\ r.ident = usageRow[usageNow].ident /\ r.attempts = usageRow[usageNow].attempts
        /\ r.event = usageRow[usageNow].event /\ RowShape(r)
    BY <1>0, <1>2, <2>2 DEF RowShape
  <2> QED BY <1>0, <1>2, <2>1, <2>2, <2>3 DEF Snapshot
<1>3. CASE usageRow[usageNow].status # "none" /\ ~(usageRow[usageNow].status = "PENDING" /\ usageRow[usageNow].attempts = 0
                                                   /\ usageRow[usageNow].submitted = 0)
  BY <1>0, <1>3 DEF Usage!Prepared, Snapshot
<1> QED BY <1>1, <1>2, <1>3

\* A snapshot is a calm step forward.
LEMMA SnapshotStep ==
    ASSUME BaseInv, NEW p \in Usage!Periods, Snapshot(usageRow[p], usageRow'[p])
    PROVE  Forward(p) /\ Calm(p)
<1>1. RowShape(usageRow[p]) /\ usageRow[p].ident \in Nat /\ usageRow[p].attempts \in Int
  BY DEF BaseInv, RowsShaped, RowShape
<1> QED BY <1>1 DEF Snapshot, Forward, Calm, Taken

\* The claim of an event among the rows that the transaction has prepared.
LEMMA ClaimStep ==
    ASSUME Usage!UsageAssumption, UsageInv, NEW rows, rows = [p \in Usage!Periods |-> rows[p]],
           \A p \in Usage!Periods : Snapshot(usageRow[p], rows[p]),
           NEW w \in UsageWorkers, usageWorker[w] = Usage!Idle, NEW p \in Usage!Claimable(rows), Usage!Claimed(w, rows, p),
           UNCHANGED <<usageNow, usageStaff, usageAccepted, usageRejected, usageReport, usageHandler, usageFaults>>
    PROVE  UsageInv'
<1>0. BaseInv /\ p \in Usage!Periods
  BY DEF UsageInv, Usage!Claimable
<1>1. RowShape(usageRow[p]) /\ Snapshot(usageRow[p], rows[p]) /\ RowShape(rows[p])
  BY <1>0 DEF BaseInv, RowsShaped, Snapshot
<1>2. /\ rows[p].attempts \in 0 .. UsageMaxAttempts /\ rows[p].attempts < UsageMaxAttempts
      /\ rows[p].status \in {"PENDING", "FAILED", "SENDING"} /\ rows[p].ident \in Nat
      /\ rows[p].quantity \in 0 .. UsageMaxStaff
  BY <1>1 DEF RowShape, Usage!Claimable
<1>3. PICK n : n = Usage!Latest(rows) + 1
  OBVIOUS
<1>4. PICK r : r = [rows[p] EXCEPT !.status = "SENDING", !.attempts = rows[p].attempts + 1,
                                   !.submitted = n, !.due = FALSE, !.aged = FALSE]
  OBVIOUS
<1>5. usageRow' = [rows EXCEPT ![p] = r]
  <2>1. usageRow' = [rows EXCEPT ![p] =
                       [rows[p] EXCEPT !.status = "SENDING", !.attempts = rows[p].attempts + 1,
                                       !.submitted = Usage!Latest(rows) + 1, !.due = FALSE, !.aged = FALSE]]
    BY DEF Usage!Claimed
  <2> QED BY <2>1, <1>3, <1>4
<1>6. /\ usageRow' = [q \in Usage!Periods |-> usageRow'[q]] /\ usageRow'[p] = r
      /\ \A q \in Usage!Periods : q # p => Snapshot(usageRow[q], usageRow'[q])
  BY <1>0, <1>5
<1>7. /\ r.status = "SENDING" /\ r.attempts = rows[p].attempts + 1 /\ r.aged = FALSE
      /\ r.ident = rows[p].ident /\ r.quantity = rows[p].quantity /\ r.event = rows[p].event
      /\ r.replays = rows[p].replays
      /\ r = [status |-> r.status, quantity |-> r.quantity, ident |-> r.ident,
              attempts |-> r.attempts, submitted |-> r.submitted, due |-> r.due,
              aged |-> r.aged, replays |-> r.replays, event |-> r.event]
  BY <1>1, <1>4 DEF RowShape
<1>8. /\ r.attempts \in 0 .. UsageMaxAttempts /\ r.attempts = usageRow[p].attempts + 1
      /\ usageRow[p].attempts \in Int /\ usageRow[p].ident \in Nat /\ r.ident = usageRow[p].ident
      /\ r.event = usageRow[p].event
  <2>1. rows[p].attempts = usageRow[p].attempts /\ rows[p].ident = usageRow[p].ident
        /\ rows[p].event = usageRow[p].event
    BY <1>1 DEF Snapshot
  <2>2. UsageMaxAttempts \in Int
    BY DEF Usage!UsageAssumption
  <2> QED BY <1>1, <1>2, <1>7, <2>1, <2>2 DEF RowShape
<1>9. RowShape(r)
  BY <1>1, <1>7, <1>8 DEF RowShape
<1>10. Forward(p) /\ Calm(p)
  <2>1. Taken(p) => usageRow[p].quantity = rows[p].quantity
    BY <1>1 DEF Snapshot, Taken
  <2>2. Taken(p)' /\ usageRow'[p].quantity = rows[p].quantity /\ usageRow'[p].ident >= usageRow[p].ident
    BY <1>6, <1>7, <1>8 DEF Taken
  <2>3. usageRow'[p].attempts > usageRow[p].attempts /\ usageRow'[p].status = "SENDING"
    BY <1>6, <1>7, <1>8
  <2>4. usageRow[p].status # "DEAD_LETTERED"
    BY <1>1, <1>2 DEF Snapshot
  <2> QED BY <1>6, <1>7, <1>8, <1>9, <2>1, <2>2, <2>3, <2>4 DEF Forward, Calm
<1>11. RowStep /\ \A q \in Usage!Periods : Calm(q)
  <2>1. \A q \in Usage!Periods : q # p => Forward(q) /\ Calm(q)
    BY <1>0, <1>6, SnapshotStep
  <2> QED BY <1>6, <1>10, <2>1 DEF RowStep
<1>12. PICK v : v = [stage |-> "send", period |-> p, attempts |-> rows[p].attempts + 1,
                     quantity |-> rows[p].quantity, ident |-> rows[p].ident]
  OBVIOUS
<1>13. usageWorker' = [usageWorker EXCEPT ![w] = v]
  BY <1>12 DEF Usage!Claimed
<1>14. v \in Worker
  BY <1>0, <1>2, <1>7, <1>8, <1>12 DEF Worker
<1>15. WorkerOK(v)'
  <2>1. v.stage = "send" /\ v.period = p /\ v.attempts = r.attempts /\ v.quantity = r.quantity
        /\ v.ident = r.ident
    BY <1>7, <1>12
  <2>2. v.ident =< r.ident /\ v.attempts =< r.attempts
    BY <1>8, <2>1
  <2> QED BY <1>0, <1>6, <1>7, <2>1, <2>2 DEF WorkerOK, Taken
<1>16. WorkersOK' /\ usageWorker' \in [UsageWorkers -> Worker]
  BY <1>0, <1>11, <1>13, <1>14, <1>15, WorkerMoved
<1>17. RestShaped'
  BY <1>0, <1>16 DEF BaseInv, RestShaped
<1> QED BY <1>11, <1>16, <1>17, QuietStep

LEMMA DispatchStep ==
    ASSUME Usage!UsageAssumption, UsageInv, NEW w \in UsageWorkers, Usage!Dispatch(w)
    PROVE  UsageInv'
<1>0. BaseInv
  BY DEF UsageInv
<1>1. CASE \E p \in Usage!Claimable(Usage!Prepared) : Usage!Claimed(w, Usage!Prepared, p)
  BY <1>0, <1>1, PreparedRows, ClaimStep DEF Usage!Dispatch
<1>2. CASE usageRow' = Usage!Prepared /\ UNCHANGED usageWorker
  <2>1. \A p \in Usage!Periods : Forward(p) /\ Calm(p)
    BY <1>0, <1>2, PreparedRows, SnapshotStep
  <2>2. RowStep
    BY <1>0, <1>2, <2>1, PreparedRows DEF RowStep
  <2>3. WorkersOK' /\ RestShaped'
    BY <1>0, <1>2, <2>2, WorkersKept DEF BaseInv, RestShaped, Usage!Dispatch
  <2> QED BY <2>1, <2>2, <2>3, QuietStep DEF Usage!Dispatch
<1> QED BY <1>1, <1>2 DEF Usage!Dispatch

LEMMA DispatchNamedStep ==
    ASSUME Usage!UsageAssumption, UsageInv, NEW w \in UsageWorkers, Usage!DispatchNamed(w)
    PROVE  UsageInv'
<1>1. usageRow = [p \in Usage!Periods |-> usageRow[p]] /\ \A p \in Usage!Periods : Snapshot(usageRow[p], usageRow[p])
  BY DEF UsageInv, BaseInv, RowsShaped, Snapshot
<1> QED BY <1>1, ClaimStep DEF Usage!DispatchNamed

\* The worker is done with its claim.
LEMMA WorkerIdles ==
    ASSUME Usage!UsageAssumption, BaseInv, RowStep, usageAccepted \subseteq usageAccepted', NEW w \in UsageWorkers,
           usageWorker' = [usageWorker EXCEPT ![w] = Usage!Idle]
    PROVE  WorkersOK' /\ usageWorker' \in [UsageWorkers -> Worker]
<1>1. Usage!Idle \in Worker
  BY DEF Usage!Idle, Worker, Usage!UsageAssumption
<1>2. WorkerOK(Usage!Idle)'
  BY DEF WorkerOK
<1> QED BY <1>1, <1>2, WorkerMoved

LEMMA MarkFailedStep ==
    ASSUME Usage!UsageAssumption, UsageInv, NEW w \in UsageWorkers, Usage!MarkFailed(w)
    PROVE  UsageInv'
<1>0. BaseInv /\ usageWorker[w] # Usage!Idle /\ WorkerOK(usageWorker[w]) /\ RowsShaped
  BY DEF UsageInv, BaseInv, WorkersOK, Usage!MarkFailed, Usage!Idle
<1>1. PICK p : p = usageWorker[w].period
  OBVIOUS
<1>2. p \in Usage!Periods /\ RowShape(usageRow[p])
  BY <1>0, <1>1 DEF WorkerOK, RowsShaped
<1>3. RowStep /\ \A q \in Usage!Periods : Calm(q)
  <2>1. CASE Usage!Owns(w)
    <3>1. usageRow[p].status = "SENDING"
      BY <2>1, <1>1 DEF Usage!Owns
    <3>2. PICK st \in {"DEAD_LETTERED", "FAILED"} :
             usageRow' = [usageRow EXCEPT ![p].status = st, ![p].due = FALSE, ![p].aged = FALSE]
      BY <2>1, <1>1 DEF Usage!MarkFailed
    <3>3. PICK r : r = [usageRow[p] EXCEPT !.status = st, !.due = FALSE, !.aged = FALSE]
      OBVIOUS
    <3>4. usageRow' = [usageRow EXCEPT ![p] = r]
      BY <3>2, <3>3, <1>2, <1>0 DEF RowsShaped
    <3>5. /\ RowShape(r) /\ r.status = st /\ r.ident = usageRow[p].ident /\ r.attempts = usageRow[p].attempts
          /\ r.quantity = usageRow[p].quantity /\ r.event = usageRow[p].event /\ r.aged = FALSE
      BY <3>3, <1>2 DEF RowShape
    <3>6. usageRow'[p] = r => Forward(p) /\ Calm(p)
      BY <3>1, <3>5 DEF Forward, Calm, Taken, RowShape
    <3> QED BY <3>4, <3>6, <1>0, <1>2, OneRow
  <2>2. CASE ~Usage!Owns(w)
    BY <2>2, <1>0, SameRows DEF Usage!MarkFailed
  <2> QED BY <2>1, <2>2
<1>4. WorkersOK' /\ usageWorker' \in [UsageWorkers -> Worker]
  BY <1>0, <1>3, WorkerIdles DEF Usage!MarkFailed
<1>5. RestShaped'
  BY <1>0, <1>4 DEF BaseInv, RestShaped, Usage!MarkFailed
<1> QED BY <1>3, <1>4, <1>5, QuietStep DEF Usage!MarkFailed

LEMMA WorkerCrashStep ==
    ASSUME Usage!UsageAssumption, UsageInv, NEW w \in UsageWorkers, Usage!WorkerCrash(w)
    PROVE  UsageInv'
<1>0. BaseInv /\ RowsShaped
  BY DEF UsageInv, BaseInv
<1>1. RowStep /\ \A q \in Usage!Periods : Calm(q)
  BY <1>0, SameRows DEF Usage!WorkerCrash
<1>2. WorkersOK' /\ usageWorker' \in [UsageWorkers -> Worker]
  BY <1>0, <1>1, WorkerIdles DEF Usage!WorkerCrash
<1>3. RestShaped'
  BY <1>0, <1>2 DEF BaseInv, RestShaped, Usage!WorkerCrash, Usage!UsageAssumption
<1> QED BY <1>1, <1>2, <1>3, QuietStep DEF Usage!WorkerCrash

\* The worker that still owns its claim counts the event as sent: Stripe holds
\* the submission under the identity of the event.
LEMMA MarkSentStep ==
    ASSUME Usage!UsageAssumption, UsageInv, NEW w \in UsageWorkers, Usage!MarkSent(w)
    PROVE  UsageInv'
<1>0. BaseInv /\ usageWorker[w] # Usage!Idle /\ WorkerOK(usageWorker[w]) /\ RowsShaped /\ usageWorker[w].stage = "sent"
  BY DEF UsageInv, BaseInv, WorkersOK, Usage!MarkSent, Usage!Idle
<1>1. PICK p : p = usageWorker[w].period
  OBVIOUS
<1>2. p \in Usage!Periods /\ RowShape(usageRow[p])
  BY <1>0, <1>1 DEF WorkerOK, RowsShaped
<1>3. CASE ~Usage!Owns(w)
  <2>1. RowStep /\ \A q \in Usage!Periods : Calm(q)
    BY <1>3, <1>0, SameRows DEF Usage!MarkSent
  <2>2. WorkersOK' /\ usageWorker' \in [UsageWorkers -> Worker]
    BY <1>0, <2>1, WorkerIdles DEF Usage!MarkSent
  <2>3. RestShaped'
    BY <1>0, <2>2 DEF BaseInv, RestShaped, Usage!MarkSent
  <2> QED BY <2>1, <2>2, <2>3, QuietStep DEF Usage!MarkSent
<1>4. CASE Usage!Owns(w)
  <2>1. usageRow[p].status = "SENDING" /\ usageRow[p].attempts = usageWorker[w].attempts
    BY <1>4, <1>1 DEF Usage!Owns
  <2>2. PICK s \in usageAccepted : s.period = p /\ s.ident = usageRow[p].ident
    BY <2>1, <1>0, <1>1 DEF WorkerOK
  <2>3. PICK r : r = [usageRow[p] EXCEPT !.status = "SENT"]
    OBVIOUS
  <2>4. usageRow' = [usageRow EXCEPT ![p] = r]
    BY <1>4, <2>3, <1>1, <1>2, <1>0 DEF RowsShaped, Usage!MarkSent
  <2>5. /\ RowShape(r) /\ r.status = "SENT" /\ r.ident = usageRow[p].ident /\ r.attempts = usageRow[p].attempts
        /\ r.quantity = usageRow[p].quantity /\ r.event = usageRow[p].event
    BY <2>3, <1>2 DEF RowShape
  <2>6. usageRow'[p] = r => Forward(p)
    BY <2>1, <2>5 DEF Forward, Taken, RowShape
  <2>7. RowStep /\ usageRow'[p] = r /\ \A q \in Usage!Periods : q # p => usageRow'[q] = usageRow[q] /\ Calm(q)
    BY <2>4, <2>6, <1>0, <1>2, OneRow
  <2>8. SentOK'
    <3>1. usageAccepted' = usageAccepted /\ SentOK
      BY <1>0 DEF BaseInv, Usage!MarkSent
    <3>2. ASSUME NEW q \in Usage!Periods, usageRow'[q].status = "SENT"
          PROVE  \E t \in usageAccepted : t.period = q /\ t.ident = usageRow'[q].ident
      BY <2>2, <2>5, <2>7, <3>1, <3>2 DEF SentOK
    <3> QED BY <3>1, <3>2 DEF SentOK
  <2>9. WorkersOK' /\ usageWorker' \in [UsageWorkers -> Worker]
    BY <1>0, <2>7, WorkerIdles DEF Usage!MarkSent
  <2>10. RestShaped' /\ ReportsShaped' /\ RowsShaped' /\ SubsOK'
    <3>1. RestShaped' /\ ReportsShaped'
      BY <1>0, <2>9 DEF BaseInv, RestShaped, ReportsShaped, Usage!MarkSent
    <3>2. RowsShaped'
      BY <2>7 DEF RowStep, Forward, RowsShaped
    <3> QED BY <1>0, <2>7, <3>1, <3>2, SubsKept DEF Usage!MarkSent
  <2>11. ~UsageIncomplete => ReportInv'
    BY <1>0, <2>5, <2>7, ReportsGo DEF UsageInv, Usage!MarkSent, RowsShaped
  <2> QED BY <2>8, <2>9, <2>10, <2>11 DEF UsageInv, BaseInv
<1> QED BY <1>3, <1>4

LEMMA TerminalizeStep ==
    ASSUME UsageInv, Usage!Terminalize
    PROVE  UsageInv'
<1>0. BaseInv /\ RowsShaped
  BY DEF UsageInv, BaseInv
<1>1. PICK E : /\ \A p \in E : p \in Usage!Periods /\ usageRow[p].status = "SENDING"
               /\ usageRow' = [p \in Usage!Periods |-> IF p \in E
                                 THEN [usageRow[p] EXCEPT !.status = "DEAD_LETTERED", !.aged = FALSE]
                                 ELSE usageRow[p]]
  BY DEF Usage!Terminalize
<1>2. ASSUME NEW p \in Usage!Periods PROVE Forward(p) /\ Calm(p)
  <2>1. CASE p \in E
    <3>1. usageRow'[p] = [usageRow[p] EXCEPT !.status = "DEAD_LETTERED", !.aged = FALSE] /\ RowShape(usageRow[p])
      BY <2>1, <1>0, <1>1 DEF RowsShaped
    <3>2. /\ RowShape(usageRow'[p]) /\ usageRow'[p].status = "DEAD_LETTERED" /\ usageRow'[p].ident = usageRow[p].ident
          /\ usageRow'[p].attempts = usageRow[p].attempts /\ usageRow'[p].aged = FALSE
          /\ usageRow'[p].quantity = usageRow[p].quantity /\ usageRow'[p].event = usageRow[p].event
      BY <3>1 DEF RowShape
    <3>3. usageRow[p].ident \in Nat /\ usageRow[p].attempts \in Int /\ usageRow[p].status = "SENDING"
      <4>1. usageRow[p].ident \in Nat /\ usageRow[p].attempts \in Int
        BY <1>0 DEF RowsShaped, RowShape
      <4> QED BY <2>1, <1>1, <4>1
    <3> QED BY <3>2, <3>3 DEF Forward, Calm, Taken
  <2> QED BY <2>1, <1>0, <1>1, SameRow
<1>3. RowStep
  BY <1>1, <1>2 DEF RowStep
<1>4. WorkersOK' /\ RestShaped'
  BY <1>0, <1>3, WorkersKept DEF Usage!Terminalize, BaseInv, RestShaped
<1> QED BY <1>2, <1>3, <1>4, QuietStep DEF Usage!Terminalize

\* Dead letters that start again: no worker holds them any more.
LEMMA RequeueStep ==
    ASSUME Usage!UsageAssumption, UsageInv, Usage!RequeueDeadLettered
    PROVE  UsageInv'
<1>0. BaseInv /\ RowsShaped
  BY DEF UsageInv, BaseInv
<1>1. PICK E : /\ \A p \in E : /\ p \in Usage!Periods /\ usageRow[p].status = "DEAD_LETTERED" /\ usageRow[p].aged
                               /\ usageRow[p].replays < UsageMaxReplays
               /\ usageRow' = [p \in Usage!Periods |-> IF p \in E THEN Usage!Requeued(usageRow[p]) ELSE usageRow[p]]
  BY DEF Usage!RequeueDeadLettered
<1>2. ASSUME NEW p \in Usage!Periods PROVE Forward(p) /\ Calm(p)
  <2>1. CASE p \in E
    <3>1. usageRow'[p] = Usage!Requeued(usageRow[p]) /\ RowShape(usageRow[p])
      BY <2>1, <1>0, <1>1 DEF RowsShaped
    <3>2. /\ usageRow[p].ident \in Nat /\ usageRow[p].replays + 1 \in 0 .. UsageMaxReplays /\ 0 \in 0 .. UsageMaxAttempts
      BY <2>1, <1>1, <3>1 DEF RowShape, Usage!UsageAssumption
    <3>3. /\ usageRow'[p].status = "FAILED" /\ usageRow'[p].ident = usageRow[p].ident + 1
          /\ usageRow'[p].attempts = 0 /\ usageRow'[p].aged = FALSE /\ usageRow'[p].replays = usageRow[p].replays + 1
          /\ usageRow'[p].quantity = usageRow[p].quantity /\ usageRow'[p].event = usageRow[p].event
      BY <3>1 DEF RowShape, Usage!Requeued
    <3>4. usageRow'[p] = [status |-> usageRow'[p].status, quantity |-> usageRow'[p].quantity,
            ident |-> usageRow'[p].ident,
            attempts |-> usageRow'[p].attempts, submitted |-> usageRow'[p].submitted, due |-> usageRow'[p].due,
            aged |-> usageRow'[p].aged, replays |-> usageRow'[p].replays, event |-> usageRow'[p].event]
      BY <3>1 DEF RowShape, Usage!Requeued
    <3>5. RowShape(usageRow'[p])
      BY <3>1, <3>2, <3>3, <3>4 DEF RowShape
    <3>6. ~Busy(p)
      <4> SUFFICES ASSUME NEW w \in UsageWorkers, usageWorker[w].period = p PROVE FALSE
        BY DEF Busy
      <4>1. WorkerOK(usageWorker[w]) /\ p # 0
        BY <1>0, <2>1, <1>1 DEF BaseInv, WorkersOK, Usage!Periods
      <4> QED BY <4>1, <2>1, <1>1 DEF WorkerOK, Usage!Idle
    <3> QED BY <2>1, <1>1, <3>2, <3>3, <3>5, <3>6 DEF Forward, Calm, Taken
  <2> QED BY <2>1, <1>0, <1>1, SameRow
<1>3. RowStep
  BY <1>1, <1>2 DEF RowStep
<1>4. WorkersOK' /\ RestShaped'
  BY <1>0, <1>3, WorkersKept DEF Usage!RequeueDeadLettered, BaseInv, RestShaped
<1> QED BY <1>2, <1>3, <1>4, QuietStep DEF Usage!RequeueDeadLettered

LEMMA TimePassesStep ==
    ASSUME UsageInv, NEW p \in Usage!Periods, Usage!TimePasses(p)
    PROVE  UsageInv'
<1>0. BaseInv /\ RowsShaped /\ RowShape(usageRow[p])
  BY DEF UsageInv, BaseInv, RowsShaped
<1>1. PICK r : /\ usageRow' = [usageRow EXCEPT ![p] = r]
               /\ \/ r = [usageRow[p] EXCEPT !.due = TRUE] /\ usageRow[p].status \in {"PENDING", "FAILED"}
                  \/ r = [usageRow[p] EXCEPT !.aged = TRUE] /\ usageRow[p].status = "SENDING"
                  \/ r = [usageRow[p] EXCEPT !.aged = TRUE] /\ usageRow[p].status = "DEAD_LETTERED" /\ ~Busy(p)
  BY DEF Usage!TimePasses, Busy
<1>2. /\ RowShape(r) /\ r.status = usageRow[p].status /\ r.ident = usageRow[p].ident
      /\ r.attempts = usageRow[p].attempts /\ r.quantity = usageRow[p].quantity /\ r.event = usageRow[p].event
      /\ usageRow[p].status # "DEAD_LETTERED" \/ ~Busy(p)
  BY <1>0, <1>1 DEF RowShape
<1>3. usageRow'[p] = r => Forward(p) /\ Calm(p)
  BY <1>2 DEF Forward, Calm, Taken, RowShape
<1>4. RowStep /\ \A q \in Usage!Periods : Calm(q)
  BY <1>0, <1>1, <1>3, OneRow
<1>5. WorkersOK' /\ RestShaped'
  BY <1>0, <1>4, WorkersKept DEF Usage!TimePasses, BaseInv, RestShaped
<1> QED BY <1>4, <1>5, QuietStep DEF Usage!TimePasses

LEMMA CalendarStep ==
    ASSUME Usage!UsageAssumption, UsageInv, Usage!NextPeriod \/ Usage!StaffChanges
    PROVE  UsageInv'
<1>0. BaseInv /\ RowsShaped
  BY DEF UsageInv, BaseInv
<1>1. RowStep /\ \A q \in Usage!Periods : Calm(q)
  BY <1>0, SameRows DEF Usage!NextPeriod, Usage!StaffChanges
<1>2. WorkersOK'
  BY <1>0, <1>1, WorkersKept DEF Usage!NextPeriod, Usage!StaffChanges
<1>3. RestShaped'
  BY <1>0 DEF Usage!NextPeriod, Usage!StaffChanges, BaseInv, RestShaped, Usage!Periods, Usage!UsageAssumption
<1> QED BY <1>1, <1>2, <1>3, QuietStep DEF Usage!NextPeriod, Usage!StaffChanges

\* Stripe keeps the submission, or holds one for the identity already.
LEMMA AcceptStep ==
    ASSUME Usage!UsageAssumption, UsageInv, NEW w \in UsageWorkers, usageWorker[w].stage = "send",
           Usage!Accept(Usage!Submission(w)), UNCHANGED <<usageRow, usageRejected>>
    PROVE  /\ SubsOK' /\ usageAccepted \subseteq usageAccepted'
           /\ \E s \in usageAccepted' : s.period = usageWorker[w].period /\ s.ident = usageWorker[w].ident
<1>0. BaseInv /\ usageWorker[w] # Usage!Idle /\ WorkerOK(usageWorker[w]) /\ usageWorker[w] \in Worker
  BY DEF UsageInv, BaseInv, WorkersOK, RestShaped, Usage!Idle
<1>1. PICK s : s = Usage!Submission(w)
  OBVIOUS
<1>2. s.period = usageWorker[w].period /\ s.ident = usageWorker[w].ident /\ s.quantity = usageWorker[w].quantity
      /\ s \in Sub
  BY <1>0, <1>1 DEF Usage!Submission, WorkerOK, Worker, Sub
<1>3. SubmissionOK(s)
  BY <1>0, <1>2 DEF SubmissionOK, WorkerOK
<1>4. CASE \E t \in usageAccepted : t.period = s.period /\ t.ident = s.ident
  <2>1. usageAccepted' = usageAccepted
    BY <1>1, <1>4 DEF Usage!Accept
  <2> QED BY <1>0, <1>2, <1>4, <2>1 DEF BaseInv, SubsOK, SubmissionOK, Taken
<1>5. CASE ~ \E t \in usageAccepted : t.period = s.period /\ t.ident = s.ident
  <2>1. usageAccepted' = usageAccepted \cup {s}
    BY <1>1, <1>5 DEF Usage!Accept
  <2>2. IsFiniteSet(usageAccepted')
    BY <1>0, <2>1, FS_AddElement DEF BaseInv, SubsOK
  <2>3. \A t \in usageAccepted' : SubmissionOK(t)'
    BY <1>0, <1>3, <2>1 DEF BaseInv, SubsOK, SubmissionOK, Taken
  <2>4. \A t, u \in usageAccepted' : Usage!Key(t) = Usage!Key(u) => t = u
    BY <1>0, <1>5, <2>1 DEF BaseInv, SubsOK, Usage!Key
  <2> QED BY <1>0, <1>2, <2>1, <2>2, <2>3, <2>4 DEF BaseInv, SubsOK
<1> QED BY <1>4, <1>5

LEMMA SendStep ==
    ASSUME Usage!UsageAssumption, UsageInv, NEW w \in UsageWorkers, Usage!Send(w)
    PROVE  UsageInv'
<1>0. BaseInv /\ usageWorker[w] # Usage!Idle /\ WorkerOK(usageWorker[w]) /\ usageWorker[w] \in Worker /\ RowsShaped
  BY DEF UsageInv, BaseInv, WorkersOK, RestShaped, Usage!Idle, Usage!Send
<1>1. RowStep /\ (\A q \in Usage!Periods : Calm(q)) /\ UNCHANGED usageRow
  BY <1>0, SameRows DEF Usage!Send
<1>2. /\ SubsOK' /\ usageAccepted \subseteq usageAccepted'
      /\ \/ usageAccepted' = usageAccepted
         \/ \E s \in usageAccepted' : s.period = usageWorker[w].period /\ s.ident = usageWorker[w].ident
  BY <1>0, <1>1, AcceptStep, SubsKept DEF Usage!Send
<1>3. PICK st \in {"sent", "failed", "refused"} :
         /\ usageWorker' = [usageWorker EXCEPT ![w].stage = st]
         /\ st = "sent" =>
               \E s \in usageAccepted' : s.period = usageWorker[w].period /\ s.ident = usageWorker[w].ident
  BY AcceptStep DEF Usage!Send
<1>4. PICK v : v = [usageWorker[w] EXCEPT !.stage = st]
  OBVIOUS
<1>5. /\ v \in Worker /\ usageWorker' = [usageWorker EXCEPT ![w] = v] /\ v.stage = st
      /\ v.period = usageWorker[w].period /\ v.ident = usageWorker[w].ident
      /\ v.attempts = usageWorker[w].attempts /\ v.quantity = usageWorker[w].quantity
  BY <1>0, <1>3, <1>4 DEF Worker, BaseInv, RestShaped
<1>6. WorkerOK(v)'
  BY <1>0, <1>1, <1>3, <1>5 DEF WorkerOK, Taken
<1>7. WorkersOK' /\ usageWorker' \in [UsageWorkers -> Worker]
  BY <1>0, <1>1, <1>2, <1>5, <1>6, WorkerMoved
<1>8. RestShaped' /\ ReportsShaped' /\ RowsShaped'
  BY <1>0, <1>7 DEF BaseInv, RestShaped, ReportsShaped, RowsShaped, Usage!Send, Usage!UsageAssumption
<1>9. SentOK'
  BY <1>0, <1>1, <1>2, SentKept
<1>10. ~UsageIncomplete => ReportInv'
  BY <1>0, <1>1, ReportsGo DEF UsageInv, Usage!Send, Calm
<1> QED BY <1>2, <1>7, <1>8, <1>9, <1>10 DEF UsageInv, BaseInv

-----------------------------------------------------------------------------
(* Counting: a complete report is answered once as many events are over as it *)
(* has submissions, which are then all over.                                 *)

LEMMA AllOver ==
    ASSUME BaseInv, ReportInv, NEW e \in UsageReports, NEW P,
           \A p \in P : \E s \in usageReport[e].subs : s.period = p /\ Over(s),
           Cardinality(P) >= Usage!Count(e)
    PROVE  \A s \in usageReport[e].subs : Over(s)
<1> DEFINE subs == usageReport[e].subs
           D == {s \in subs : Over(s)}
           f == [p \in P |-> CHOOSE s \in D : s.period = p]
<1>1. IsFiniteSet(subs)
  <2>1. subs \in SUBSET usageAccepted /\ IsFiniteSet(usageAccepted)
    BY DEF ReportInv, ReportOK, BaseInv, SubsOK
  <2> QED BY <2>1, FS_Subset
<1>2. IsFiniteSet(D) /\ Cardinality(D) =< Cardinality(subs)
      /\ (Cardinality(subs) = Cardinality(D) => subs = D)
  <2>1. D \in SUBSET subs
    OBVIOUS
  <2> HIDE DEF D, subs
  <2> QED BY <1>1, <2>1, FS_Subset
<1>3. f \in Injection(P, D)
  <2>1. ASSUME NEW p \in P PROVE f[p] \in D /\ f[p].period = p
    <3>1. \E s \in D : s.period = p
      OBVIOUS
    <3> QED BY <3>1
  <2>2. f \in [P -> D]
    BY <2>1
  <2>3. \A p, q \in P : f[p] = f[q] => p = q
    BY <2>1
  <2> HIDE DEF f, D
  <2> QED BY <2>2, <2>3 DEF Injection, IsInjective
<1>4. Cardinality(P) =< Cardinality(D) /\ IsFiniteSet(P)
  <2> HIDE DEF f, D
  <2> QED BY <1>2, <1>3, FS_Injection
<1>5. Cardinality(P) \in Nat /\ Cardinality(D) \in Nat /\ Cardinality(subs) \in Nat
  <2> HIDE DEF D, subs
  <2> QED BY <1>1, <1>2, <1>4, FS_CardinalityType
<1>6. subs = D
  <2>1. Cardinality(P) >= Cardinality(subs)
    BY UsageCardinality DEF Usage!Count
  <2> HIDE DEF D, subs
  <2> QED BY <1>2, <1>4, <1>5, <2>1
<1> QED BY <1>6

\* A complete report names as many identities as it has submissions.
LEMMA NamesAll ==
    ASSUME BaseInv, ReportInv, NEW e \in UsageReports
    PROVE  Cardinality(usageReport[e].samples) = Usage!Count(e) /\ Usage!Count(e) \in Nat
<1> DEFINE subs == usageReport[e].subs
           f == [s \in subs |-> Usage!Key(s)]
<1>1. IsFiniteSet(subs) /\ subs \subseteq usageAccepted
  <2>1. subs \in SUBSET usageAccepted /\ IsFiniteSet(usageAccepted)
    BY DEF ReportInv, ReportOK, BaseInv, SubsOK
  <2> QED BY <2>1, FS_Subset
<1>2. usageReport[e].samples = {Usage!Key(s) : s \in subs}
  BY DEF ReportInv, ReportOK
<1>3. \A s, t \in subs : Usage!Key(s) = Usage!Key(t) => s = t
  BY <1>1 DEF BaseInv, SubsOK
<1>4. PICK T : T = usageReport[e].samples
  OBVIOUS
<1>5. f \in [subs -> T] /\ (\A t \in T : \E s \in subs : f[s] = t)
      /\ \A s, t \in subs : f[s] = f[t] => s = t
  <2> HIDE DEF subs
  <2> QED BY <1>2, <1>3, <1>4
<1>6. f \in Surjection(subs, T) /\ f \in Injection(subs, T)
  <2> HIDE DEF f, subs
  <2> QED BY <1>5 DEF Surjection, Injection, IsInjective
<1>7. Cardinality(T) = Cardinality(subs)
  <2> HIDE DEF f, subs
  <2> QED BY <1>1, <1>6, FS_Surjection
<1>8. Cardinality(subs) \in Nat
  <2> HIDE DEF subs
  <2> QED BY <1>1, FS_CardinalityType
<1> QED BY UsageCardinality, <1>4, <1>7, <1>8 DEF Usage!Count

-----------------------------------------------------------------------------
(* Stripe rejects submissions, the API reconciles. *)

\* A step that leaves the events, the workers and the submissions alone.
LEMMA ReportStep ==
    ASSUME UsageInv, UNCHANGED <<usageNow, usageStaff, usageRow, usageWorker, usageAccepted>>, usageFaults' \in 0 .. UsageMaxFaults,
           usageRejected' \subseteq usageAccepted, ReportsShaped', ~UsageIncomplete => ReportInv'
    PROVE  UsageInv'
<1>0. BaseInv /\ RowsShaped
  BY DEF UsageInv, BaseInv
<1>1. RowStep /\ \A q \in Usage!Periods : Calm(q)
  BY <1>0, SameRows
<1>2. RowsShaped' /\ RestShaped' /\ WorkersOK' /\ SentOK'
  BY <1>0, <1>1, WorkersKept, SentKept DEF BaseInv, RowsShaped, RestShaped
<1>3. SubsOK'
  BY <1>0 DEF BaseInv, SubsOK, SubmissionOK, Taken
<1> QED BY <1>2, <1>3 DEF UsageInv, BaseInv

LEMMA RejectStep ==
    ASSUME UsageInv, NEW e \in UsageReports, Usage!Reject(e)
    PROVE  UsageInv'
<1>0. BaseInv /\ ReportsShaped /\ usageFaults \in 0 .. UsageMaxFaults
  BY DEF UsageInv, BaseInv, RestShaped
<1>1. PICK S, retryable, named, n :
         /\ S \in SUBSET (usageAccepted \ usageRejected)
         /\ ~UsageIncomplete => named = S
         /\ usageRejected' = usageRejected \cup S
         /\ usageReport' = [usageReport EXCEPT ![e] =
                [state |-> "sent", subs |-> S, samples |-> {Usage!Key(s) : s \in named},
                 retryable |-> retryable, end |-> n]]
  BY DEF Usage!Reject
<1>2. PICK r : r = [state |-> "sent", subs |-> S, samples |-> {Usage!Key(s) : s \in named},
                    retryable |-> retryable, end |-> n]
  OBVIOUS
<1>3. /\ usageReport' = [d \in UsageReports |-> usageReport'[d]] /\ usageReport'[e] = r
      /\ \A d \in UsageReports : d # e => usageReport'[d] = usageReport[d]
  BY <1>0, <1>1, <1>2 DEF ReportsShaped
<1>4. r.state = "sent" /\ r.subs = S /\ r.samples = {Usage!Key(s) : s \in named} /\ ReportShape(r)
  BY <1>2 DEF ReportShape
<1>5. ReportsShaped'
  BY <1>0, <1>3, <1>4 DEF ReportsShaped, Usage!Reject
<1>6. usageRejected \subseteq usageAccepted
  BY <1>0 DEF BaseInv, SubsOK
<1>7. ASSUME ~UsageIncomplete PROVE ReportInv'
  <2>0. ReportInv /\ usageReport[e].subs = {} /\ usageReport[e].samples = {} /\ usageReport[e].state = "none"
    BY <1>7 DEF UsageInv, Usage!Reject, Usage!NoReport
  <2>1. /\ \A d \in UsageReports : usageReport[d].subs \subseteq usageReport'[d].subs
        /\ \A d \in UsageReports : usageReport[d].samples \subseteq usageReport'[d].samples
        /\ \A d \in UsageReports : usageReport[d].state = "sent" => usageReport'[d].state = "sent"
    BY <1>3, <2>0
  <2>2. \A d \in UsageReports : ReportOK(d)'
    BY <1>1, <1>3, <1>4, <1>7, <2>0 DEF ReportInv, ReportOK
  <2>3. ASSUME NEW d \in UsageReports PROVE RequestOK(d)'
    <3>1. RequestOK(d)
      BY <2>0 DEF ReportInv
    <3> QED BY <3>1, <2>1 DEF RequestOK, Over, Past, Usage!Reject
  <2>4. ASSUME NEW p \in Usage!Periods PROVE UsageEventOK(p)'
    <3>1. UsageEventOK(p) /\ usageRow[p].event \in UsageReports \cup {None}
      BY <2>0, <1>0 DEF ReportInv, BaseInv, RowsShaped, RowShape
    <3> QED BY <3>1, <2>1 DEF UsageEventOK, Past, Usage!Reject
  <2>5. ASSUME NEW s \in usageRejected' PROVE Over(s)' \/ Announced(s)'
    <3>1. CASE s \in S
      BY <3>1, <1>3, <1>4 DEF Announced
    <3>2. CASE s \in usageRejected
      BY <3>2, <2>0, <2>1 DEF ReportInv, Announced, Over, Past, Usage!Reject
    <3> QED BY <1>1, <3>1, <3>2
  <2> QED BY <2>2, <2>3, <2>4, <2>5 DEF ReportInv
<1> QED BY <1>0, <1>1, <1>5, <1>6, <1>7, ReportStep DEF Usage!Reject

\* The handler of one report takes the state v.
LEMMA RequestStep ==
    ASSUME UsageInv, NEW e \in UsageReports, NEW v, RequestShape(v),
           usageHandler' = [usageHandler EXCEPT ![e] = v], usageFaults' \in 0 .. UsageMaxFaults,
           UNCHANGED <<usageNow, usageStaff, usageRow, usageWorker, usageAccepted, usageRejected, usageReport>>,
           ReportInv /\ usageHandler'[e] = v => RequestOK(e)'
    PROVE  UsageInv'
<1>0. BaseInv /\ ReportsShaped /\ usageRejected \subseteq usageAccepted
  BY DEF UsageInv, BaseInv, SubsOK
<1>1. /\ usageHandler' = [d \in UsageReports |-> usageHandler'[d]] /\ usageHandler'[e] = v
      /\ \A d \in UsageReports : d # e => usageHandler'[d] = usageHandler[d]
  BY <1>0 DEF ReportsShaped
<1>2. ReportsShaped'
  BY <1>0, <1>1 DEF ReportsShaped
<1>3. ASSUME ~UsageIncomplete PROVE ReportInv'
  <2>0. ReportInv
    BY <1>3 DEF UsageInv
  <2>1. ASSUME NEW d \in UsageReports PROVE RequestOK(d)'
    BY <1>1, <2>0 DEF ReportInv, RequestOK, Over, Past
  <2>2. \A d \in UsageReports : ReportOK(d)'
    BY <2>0 DEF ReportInv, ReportOK
  <2>3. \A p \in Usage!Periods : UsageEventOK(p)'
    BY <2>0 DEF ReportInv, UsageEventOK, Past
  <2>4. \A s \in usageRejected' : Over(s)' \/ Announced(s)'
    BY <2>0 DEF ReportInv, Announced, Over, Past
  <2> QED BY <2>1, <2>2, <2>3, <2>4 DEF ReportInv
<1> QED BY <1>0, <1>2, <1>3, ReportStep

\* The request ends without an answer.
LEMMA UsageRequestEnds ==
    ASSUME UsageInv, NEW e \in UsageReports,
           usageHandler' = [usageHandler EXCEPT ![e] = Usage!NoRequest], usageFaults' \in 0 .. UsageMaxFaults,
           UNCHANGED <<usageNow, usageStaff, usageRow, usageWorker, usageAccepted, usageRejected, usageReport>>
    PROVE  UsageInv'
<1>1. RequestShape(Usage!NoRequest)
  BY DEF RequestShape, Usage!NoRequest
<1>2. usageHandler'[e] = Usage!NoRequest => RequestOK(e)'
  BY DEF RequestOK, Usage!NoRequest
<1> QED BY <1>1, <1>2, RequestStep

\* A report is answered once all its submissions are over.
LEMMA AnswerStep ==
    ASSUME UsageInv, NEW e \in UsageReports, usageReport' = [usageReport EXCEPT ![e].state = "answered"],
           UNCHANGED <<usageNow, usageStaff, usageRow, usageWorker, usageAccepted, usageRejected, usageFaults>>,
           usageHandler' = usageHandler \/ usageHandler' = [usageHandler EXCEPT ![e] = Usage!NoRequest],
           ReportInv /\ ~UsageIncomplete => \A s \in usageReport[e].subs : Over(s)
    PROVE  UsageInv'
<1>0. BaseInv /\ ReportsShaped /\ usageRejected \subseteq usageAccepted /\ usageFaults \in 0 .. UsageMaxFaults
  BY DEF UsageInv, BaseInv, SubsOK, RestShaped
<1>1. PICK r : r = [usageReport[e] EXCEPT !.state = "answered"]
  OBVIOUS
<1>2. /\ usageReport' = [d \in UsageReports |-> usageReport'[d]] /\ usageReport'[e] = r
      /\ \A d \in UsageReports : d # e => usageReport'[d] = usageReport[d]
  BY <1>0, <1>1 DEF ReportsShaped
<1>3. /\ ReportShape(r) /\ r.state = "answered" /\ r.subs = usageReport[e].subs
      /\ r.samples = usageReport[e].samples
  BY <1>0, <1>1 DEF ReportsShaped, ReportShape
<1>4. /\ usageHandler' = [d \in UsageReports |-> usageHandler'[d]]
      /\ \A d \in UsageReports : usageHandler'[d] = usageHandler[d] \/ usageHandler'[d] = Usage!NoRequest
  BY <1>0 DEF ReportsShaped
<1>5. ReportsShaped'
  <2>1. RequestShape(Usage!NoRequest)
    BY DEF RequestShape, Usage!NoRequest
  <2> QED BY <1>0, <1>2, <1>3, <1>4, <2>1 DEF ReportsShaped
<1>6. ASSUME ~UsageIncomplete PROVE ReportInv'
  <2>0. ReportInv /\ \A s \in usageReport[e].subs : Over(s)
    BY <1>6 DEF UsageInv
  <2>1. \A d \in UsageReports : usageReport'[d].subs = usageReport[d].subs /\ usageReport'[d].samples = usageReport[d].samples
    BY <1>2, <1>3
  <2>2. \A d \in UsageReports : ReportOK(d)'
    BY <2>0, <2>1 DEF ReportInv, ReportOK
  <2>3. ASSUME NEW d \in UsageReports PROVE RequestOK(d)'
    <3>1. RequestOK(d)
      BY <2>0 DEF ReportInv
    <3>2. CASE usageHandler'[d] = usageHandler[d]
      BY <3>1, <3>2, <2>1 DEF RequestOK, Over, Past
    <3>3. CASE usageHandler'[d] = Usage!NoRequest
      BY <3>3 DEF RequestOK, Usage!NoRequest
    <3> QED BY <1>4, <3>2, <3>3
  <2>4. ASSUME NEW p \in Usage!Periods PROVE UsageEventOK(p)'
    <3>1. UsageEventOK(p) /\ usageRow[p].event \in UsageReports \cup {None}
      BY <2>0, <1>0 DEF ReportInv, BaseInv, RowsShaped, RowShape
    <3> QED BY <3>1, <2>1 DEF UsageEventOK, Past
  <2>5. ASSUME NEW s \in usageRejected PROVE Over(s) \/ Announced(s)'
    BY <2>0, <1>2 DEF ReportInv, Announced
  <2>6. \A s \in usageRejected' : Over(s)' \/ Announced(s)'
    BY <2>5 DEF Over, Past
  <2> QED BY <2>2, <2>3, <2>4, <2>6 DEF ReportInv
<1> QED BY <1>0, <1>5, <1>6, ReportStep

LEMMA UsageReceiveStep ==
    ASSUME UsageInv, NEW e \in UsageReports, Usage!Receive(e), None \notin UsageReports
    PROVE  UsageInv'
<1>0. BaseInv /\ usageFaults \in 0 .. UsageMaxFaults
  BY DEF UsageInv, BaseInv, RestShaped
<1>1. CASE Cardinality(Usage!Handled(e)) >= Usage!Count(e)
  <2>1. ASSUME ReportInv PROVE \A s \in usageReport[e].subs : Over(s)
    <3>1. ASSUME NEW p \in Usage!Handled(e) PROVE \E s \in usageReport[e].subs : s.period = p /\ Over(s)
      BY <2>1 DEF Usage!Handled, ReportInv, UsageEventOK, Over
    <3> QED BY <1>0, <1>1, <2>1, <3>1, AllOver
  <2> QED BY UsageCardinality, <1>1, <2>1, AnswerStep DEF Usage!Receive
<1>2. CASE ~(Cardinality(Usage!Handled(e)) >= Usage!Count(e))
  <2>1. PICK v : v = [stage |-> "samples", before |-> Usage!Handled(e), todo |-> usageReport[e].samples,
                      seen |-> {}, accounted |-> {}]
    OBVIOUS
  <2>2. RequestShape(v) /\ v.stage = "samples" /\ v.todo = usageReport[e].samples /\ v.seen = {}
        /\ v.accounted = {}
    BY <2>1 DEF RequestShape
  <2>3. usageHandler' = [usageHandler EXCEPT ![e] = v] /\ usageReport' = usageReport
    BY UsageCardinality, <1>2, <2>1 DEF Usage!Receive
  <2>4. usageHandler'[e] = v => RequestOK(e)'
    BY <2>2, <2>3 DEF RequestOK
  <2> QED BY UsageCardinality, <1>0, <2>2, <2>3, <2>4, RequestStep DEF Usage!Receive
<1> QED BY <1>1, <1>2

\* A submission that was rejected belongs to an event that was claimed: where
\* it is not open, it rests in dead letter.
LEMMA FindSampleStep ==
    ASSUME UsageInv, NEW e \in UsageReports, Usage!FindSample(e)
    PROVE  UsageInv'
<1>0. BaseInv /\ usageFaults \in 0 .. UsageMaxFaults /\ ReportsShaped /\ RequestShape(usageHandler[e])
  BY DEF UsageInv, BaseInv, RestShaped, ReportsShaped
<1> DEFINE open(k) == usageRow[k[1]].status \in {"SENT", "SENDING", "FAILED"}
           found(k) == usageRow[k[1]].ident = k[2]
<1>1a. PICK k \in usageHandler[e].todo :
         usageHandler' = [usageHandler EXCEPT
                ![e].todo = @ \ {k},
                ![e].accounted = IF found(k) /\ ~open(k) THEN @ \cup {k[1]} ELSE @,
                ![e].seen = IF found(k) /\ open(k) THEN {Usage!Seen(k[1])} ELSE {},
                ![e].stage = IF found(k) /\ open(k) THEN "sample" ELSE "samples"]
  BY DEF Usage!FindSample
<1>1. PICK p : p = k[1]
  OBVIOUS
<1>2. PICK v : v = [usageHandler[e] EXCEPT
                !.todo = @ \ {k},
                !.accounted = IF found(k) /\ ~open(k) THEN @ \cup {p} ELSE @,
                !.seen = IF found(k) /\ open(k) THEN {Usage!Seen(p)} ELSE {},
                !.stage = IF found(k) /\ open(k) THEN "sample" ELSE "samples"]
  OBVIOUS
<1>3. usageHandler' = [usageHandler EXCEPT ![e] = v]
  BY <1>0, <1>1a, <1>1, <1>2 DEF ReportsShaped
<1>4. /\ v.todo = usageHandler[e].todo \ {k}
      /\ v.accounted = IF found(k) /\ ~open(k) THEN usageHandler[e].accounted \cup {p} ELSE usageHandler[e].accounted
      /\ v.seen = IF found(k) /\ open(k) THEN {Usage!Seen(p)} ELSE {}
      /\ v.stage = IF found(k) /\ open(k) THEN "sample" ELSE "samples"
      /\ v = [stage |-> v.stage, before |-> v.before, todo |-> v.todo, seen |-> v.seen,
              accounted |-> v.accounted]
  BY <1>0, <1>2 DEF RequestShape
<1>5. RequestShape(v)
  BY <1>4 DEF RequestShape
<1>6. ASSUME ReportInv, usageHandler'[e] = v PROVE RequestOK(e)'
  <2>1. RequestOK(e) /\ ReportOK(e)
    BY <1>6 DEF ReportInv
  <2>2. PICK s \in usageReport[e].subs : k = Usage!Key(s)
    BY <2>1 DEF RequestOK, ReportOK
  <2>3. SubmissionOK(s) /\ s.period = p /\ s.ident = k[2]
    BY <1>0, <1>1, <2>1, <2>2 DEF ReportOK, BaseInv, SubsOK, Usage!Key
  <2>4. found(k) /\ ~open(k) => Over(s)
    <3>1. RowShape(usageRow[p]) /\ Taken(p)
      BY <1>0, <2>3 DEF BaseInv, RowsShaped, SubmissionOK, Sub
    <3> QED BY <3>1, <2>3, <1>1 DEF Over, Taken, RowShape
  <2>5. \A x \in v.seen : \E t \in usageReport[e].subs : Usage!Key(t) = <<x.period, x.ident>>
    <3>1. CASE found(k) /\ open(k)
      <4>1. PICK x : x = Usage!Seen(p)
        OBVIOUS
      <4>2. v.seen = {x} /\ x.period = p /\ x.ident = usageRow[p].ident
        BY <1>4, <3>1, <4>1 DEF Usage!Seen
      <4>3. Usage!Key(s) = <<x.period, x.ident>>
        BY <3>1, <4>2, <1>1, <2>3 DEF Usage!Key
      <4> QED BY <4>2, <4>3
    <3> QED BY <1>4, <3>1
  <2>6. \A q \in v.accounted : \E t \in usageReport[e].subs : t.period = q /\ Over(t)
    BY <1>4, <2>1, <2>3, <2>4 DEF RequestOK
  <2>7. v.todo \subseteq usageReport[e].samples /\ v.stage \in {"idle", "samples", "sample"}
    BY <1>4, <2>1 DEF RequestOK
  <2>8. usageReport' = usageReport /\ usageRow' = usageRow
    BY DEF Usage!FindSample
  <2> QED BY <1>6, <2>5, <2>6, <2>7, <2>8 DEF RequestOK, Over, Past
<1> QED BY <1>0, <1>3, <1>5, <1>6, RequestStep DEF Usage!FindSample

\* A complete report leaves nothing to guess.
LEMMA FindCandidatesStep ==
    ASSUME UsageInv, NEW e \in UsageReports, Usage!FindCandidates(e)
    PROVE  UsageInv'
<1>0. BaseInv /\ usageFaults \in 0 .. UsageMaxFaults /\ ReportsShaped /\ RequestShape(usageHandler[e])
  BY DEF UsageInv, BaseInv, RestShaped, ReportsShaped
<1>1. ~ReportInv
  <2>1. Cardinality(usageReport[e].samples) < Usage!Count(e)
    BY UsageCardinality DEF Usage!FindCandidates
  <2> QED BY <1>0, <2>1, NamesAll
<1>2. PICK v : usageHandler' = [usageHandler EXCEPT ![e] = v] /\ RequestShape(v)
  <2>1. ASSUME NEW a, NEW c
        PROVE  RequestShape([usageHandler[e] EXCEPT !.stage = "candidates", !.accounted = a, !.seen = c])
    <3>1. PICK v : v = [usageHandler[e] EXCEPT !.stage = "candidates", !.accounted = a, !.seen = c]
      OBVIOUS
    <3>2. RequestShape(v)
      BY <1>0, <3>1 DEF RequestShape
    <3> QED BY <3>1, <3>2
  <2>2. RequestShape(Usage!NoRequest)
    BY DEF RequestShape, Usage!NoRequest
  <2> QED BY UsageCardinality, <2>1, <2>2 DEF Usage!FindCandidates
<1> QED BY UsageCardinality, <1>0, <1>1, <1>2, RequestStep DEF Usage!FindCandidates

LEMMA ConcludeStep ==
    ASSUME UsageInv, NEW e \in UsageReports, Usage!Conclude(e)
    PROVE  UsageInv'
<1>0. BaseInv /\ usageFaults \in 0 .. UsageMaxFaults
  BY DEF UsageInv, BaseInv, RestShaped
<1>1. CASE usageReport' = usageReport
  BY UsageCardinality, <1>0, <1>1, UsageRequestEnds DEF Usage!Conclude
<1>2. CASE usageReport' # usageReport
  <2>1. usageReport' = [usageReport EXCEPT ![e].state = "answered"]
    BY UsageCardinality, <1>2 DEF Usage!Conclude
  <2>2. ASSUME ReportInv PROVE \A s \in usageReport[e].subs : Over(s)
    <3>1. Cardinality(usageHandler[e].accounted) >= Usage!Count(e)
      BY UsageCardinality, <1>0, <1>2, <2>2, NamesAll DEF Usage!Conclude
    <3>2. \A p \in usageHandler[e].accounted : \E s \in usageReport[e].subs : s.period = p /\ Over(s)
      BY <2>2 DEF ReportInv, RequestOK
    <3> QED BY <1>0, <2>2, <3>1, <3>2, AllOver
  <2> QED BY UsageCardinality, <2>1, <2>2, AnswerStep DEF Usage!Conclude
<1> QED BY <1>1, <1>2

LEMMA RequestCrashStep ==
    ASSUME Usage!UsageAssumption, UsageInv, NEW e \in UsageReports, Usage!RequestCrash(e)
    PROVE  UsageInv'
<1>1. usageFaults' \in 0 .. UsageMaxFaults
  BY DEF UsageInv, BaseInv, RestShaped, Usage!RequestCrash, Usage!UsageAssumption
<1> QED BY <1>1, UsageRequestEnds DEF Usage!RequestCrash

\* The event that was found and has not moved on gets a new identity, which
\* puts its rejected submission behind it.
LEMMA TransitionStep ==
    ASSUME Usage!UsageAssumption, UsageInv, NEW e \in UsageReports, Usage!Transition(e)
    PROVE  UsageInv'
<1>0. /\ BaseInv /\ usageFaults \in 0 .. UsageMaxFaults /\ ReportsShaped /\ RequestShape(usageHandler[e])
      /\ RowsShaped
  BY DEF UsageInv, BaseInv, RestShaped, ReportsShaped
<1>1. CASE usageHandler' = [usageHandler EXCEPT ![e] = Usage!NoRequest] /\ UNCHANGED usageRow
  BY <1>0, <1>1, UsageRequestEnds DEF Usage!Transition
<1>2. CASE ~(usageHandler' = [usageHandler EXCEPT ![e] = Usage!NoRequest] /\ UNCHANGED usageRow)
  <2>1. PICK x \in usageHandler[e].seen, b \in BOOLEAN :
           /\ Usage!Seen(x.period) = x
           /\ usageRow' = [usageRow EXCEPT ![x.period] = Usage!Rotated(usageRow[x.period], e, b)]
           /\ usageHandler' = [usageHandler EXCEPT
                 ![e].seen = @ \ {x}, ![e].accounted = @ \cup {x.period},
                 ![e].stage = IF @ = "sample" THEN "samples" ELSE @]
    BY <1>2 DEF Usage!Transition
  <2>2. PICK v : v = [usageHandler[e] EXCEPT
                 !.seen = @ \ {x}, !.accounted = @ \cup {x.period},
                 !.stage = IF @ = "sample" THEN "samples" ELSE @]
    OBVIOUS
  <2>3. usageHandler' = [usageHandler EXCEPT ![e] = v]
    BY <1>0, <2>1, <2>2 DEF ReportsShaped
  <2>4. /\ v.seen = usageHandler[e].seen \ {x} /\ v.accounted = usageHandler[e].accounted \cup {x.period}
        /\ v.stage = IF usageHandler[e].stage = "sample" THEN "samples" ELSE usageHandler[e].stage
        /\ v.todo = usageHandler[e].todo
        /\ v = [stage |-> v.stage, before |-> v.before, todo |-> v.todo, seen |-> v.seen,
                accounted |-> v.accounted]
    BY <1>0, <2>2 DEF RequestShape
  <2>5. RequestShape(v)
    BY <1>0, <2>4 DEF RequestShape
  <2>6. /\ usageHandler' = [d \in UsageReports |-> usageHandler'[d]] /\ usageHandler'[e] = v
        /\ \A d \in UsageReports : d # e => usageHandler'[d] = usageHandler[d]
    BY <1>0, <2>3 DEF ReportsShaped
  <2>7. ReportsShaped'
    BY <1>0, <2>5, <2>6 DEF ReportsShaped, Usage!Transition
  <2>8. /\ RowStep /\ \A q \in Usage!Periods : q # x.period => usageRow'[q] = usageRow[q]
        /\ x.period \in Usage!Periods =>
              /\ usageRow'[x.period].event = e /\ usageRow'[x.period].status # "SENT"
              /\ usageRow'[x.period].ident = usageRow[x.period].ident + 1
    <3>1. CASE x.period \notin Usage!Periods
      BY <1>0, <2>1, <3>1, SameRows DEF RowsShaped
    <3>2. CASE x.period \in Usage!Periods
      <4>1. PICK r : r = Usage!Rotated(usageRow[x.period], e, b)
        OBVIOUS
      <4>2. RowShape(usageRow[x.period])
        BY <1>0, <3>2 DEF RowsShaped
      <4>3. /\ r.status \in {"FAILED", "DEAD_LETTERED"} /\ r.ident = usageRow[x.period].ident + 1
            /\ r.aged = FALSE /\ r.event = e /\ r.attempts = usageRow[x.period].attempts
            /\ r.quantity = usageRow[x.period].quantity /\ r.replays = usageRow[x.period].replays
            /\ r = [status |-> r.status, quantity |-> r.quantity, ident |-> r.ident,
                    attempts |-> r.attempts, submitted |-> r.submitted, due |-> r.due,
                    aged |-> r.aged, replays |-> r.replays, event |-> r.event]
        BY <4>1, <4>2 DEF Usage!Rotated, RowShape
      <4>4. RowShape(r) /\ usageRow[x.period].ident \in Nat /\ usageRow[x.period].attempts \in Int
        BY <4>2, <4>3 DEF RowShape
      <4>5. usageRow'[x.period] = r => Forward(x.period)
        BY <4>3, <4>4 DEF Forward, Taken
      <4> QED BY <1>0, <2>1, <3>2, <4>1, <4>3, <4>5, OneRow
    <3> QED BY <3>1, <3>2
  <2>9. RowsShaped' /\ WorkersOK' /\ RestShaped' /\ SubsOK'
    <3>1. RowsShaped'
      BY <2>8 DEF RowStep, Forward, RowsShaped
    <3>2. WorkersOK' /\ RestShaped' /\ SubsOK'
      BY <1>0, <2>8, WorkersKept, SubsKept DEF Usage!Transition, BaseInv, RestShaped
    <3> QED BY <3>1, <3>2
  <2>10. SentOK'
    BY <1>0, <2>8 DEF BaseInv, SentOK, Usage!Transition
  <2>11. ASSUME ~UsageIncomplete PROVE ReportInv'
    <3>0. ReportInv /\ \A s \in usageRejected : s \in usageAccepted
      BY <1>0, <2>11 DEF UsageInv, BaseInv, SubsOK
    <3>1. \A s \in usageRejected : (Past(s) => Past(s)') /\ (Over(s) => Over(s)')
      BY <1>0, <2>8, <3>0, OverKept
    <3>2. \A d \in UsageReports : \A s \in usageReport[d].subs : s \in usageRejected
      BY <3>0 DEF ReportInv, ReportOK
    <3>3. UNCHANGED <<usageReport, usageRejected>>
      BY DEF Usage!Transition
    <3>4. PICK s \in usageReport[e].subs : Usage!Key(s) = <<x.period, x.ident>>
      BY <2>1, <3>0 DEF ReportInv, RequestOK
    <3>5. s.period = x.period /\ s.ident = x.ident /\ SubmissionOK(s) /\ s.period \in Usage!Periods
      BY <1>0, <3>0, <3>2, <3>4 DEF Usage!Key, BaseInv, SubsOK, SubmissionOK, Sub
    <3>6. x.ident = usageRow[x.period].ident /\ usageRow[x.period].ident \in Nat
      <4>1. Usage!Seen(x.period).ident = usageRow[x.period].ident
        BY DEF Usage!Seen
      <4> QED BY <1>0, <2>1, <3>5, <4>1 DEF RowsShaped, RowShape
    <3>7. Past(s)' /\ Over(s)'
      BY <2>8, <3>5, <3>6 DEF Past, Over
    <3>8. ASSUME NEW d \in UsageReports PROVE RequestOK(d)'
      <4>1. RequestOK(d)
        BY <3>0 DEF ReportInv
      <4>2. CASE d # e
        BY <4>1, <4>2, <2>6, <3>1, <3>2, <3>3 DEF RequestOK
      <4>3. CASE d = e
        <5>1. usageHandler'[e] = v
          BY <2>6
        <5>2. \A q \in v.accounted : \E t \in usageReport[e].subs : t.period = q /\ Over(t)'
          BY <4>1, <4>3, <2>4, <3>1, <3>2, <3>5, <3>7 DEF RequestOK
        <5>3. /\ v.stage \in {"idle", "samples", "sample"} /\ v.todo \subseteq usageReport[e].samples
              /\ \A y \in v.seen : \E t \in usageReport[e].subs : Usage!Key(t) = <<y.period, y.ident>>
          BY <4>1, <4>3, <2>4 DEF RequestOK
        <5> QED BY <4>3, <5>1, <5>2, <5>3, <3>3 DEF RequestOK
      <4> QED BY <4>2, <4>3
    <3>9. \A d \in UsageReports : ReportOK(d)'
      BY <3>0, <3>3 DEF ReportInv, ReportOK
    <3>10. ASSUME NEW p \in Usage!Periods PROVE UsageEventOK(p)'
      <4>1. UsageEventOK(p) /\ usageRow[p].event \in UsageReports \cup {None}
        BY <3>0, <1>0 DEF ReportInv, RowsShaped, RowShape
      <4>2. CASE p # x.period
        BY <4>1, <4>2, <2>8, <3>1, <3>2, <3>3 DEF UsageEventOK
      <4>3. CASE p = x.period
        BY <4>3, <2>8, <3>3, <3>5, <3>7 DEF UsageEventOK
      <4> QED BY <4>2, <4>3
    <3>11. \A t \in usageRejected' : Over(t)' \/ Announced(t)'
      BY <3>0, <3>1, <3>3 DEF ReportInv, Announced
    <3> QED BY <3>8, <3>9, <3>10, <3>11 DEF ReportInv
  <2> QED BY <2>7, <2>9, <2>10, <2>11 DEF UsageInv, BaseInv
<1> QED BY <1>1, <1>2

-----------------------------------------------------------------------------
(* The theorems. *)

LEMMA UsageInit ==
    ASSUME Usage!UsageAssumption, Usage!Init
    PROVE  UsageInv
<1>1. RowsShaped
  <2>1. RowShape(Usage!NoRow)
    BY DEF RowShape, Usage!NoRow, Usage!UsageAssumption
  <2> QED BY <2>1 DEF Usage!Init, RowsShaped
<1>2. RestShaped /\ WorkersOK
  <2>1. Usage!Idle \in Worker
    BY DEF Usage!Idle, Worker, Usage!UsageAssumption
  <2> QED BY <2>1 DEF Usage!Init, RestShaped, WorkersOK, WorkerOK, Usage!Periods, Usage!UsageAssumption
<1>3. ReportsShaped
  <2>1. ReportShape(Usage!NoReport) /\ RequestShape(Usage!NoRequest)
    BY DEF ReportShape, Usage!NoReport, RequestShape, Usage!NoRequest
  <2> QED BY <2>1 DEF Usage!Init, ReportsShaped
<1>4. SubsOK
  BY FS_EmptySet DEF Usage!Init, SubsOK
<1>5. SentOK
  BY DEF Usage!Init, SentOK, Usage!NoRow
<1>6. ReportInv
  <2>1. ASSUME NEW e \in UsageReports PROVE ReportOK(e) /\ RequestOK(e)
    BY DEF Usage!Init, ReportOK, RequestOK, Usage!NoReport, Usage!NoRequest
  <2>2. ASSUME NEW p \in Usage!Periods PROVE UsageEventOK(p)
    BY DEF Usage!Init, UsageEventOK, Usage!NoRow
  <2> QED BY <2>1, <2>2 DEF Usage!Init, ReportInv
<1> QED BY <1>1, <1>2, <1>3, <1>4, <1>5, <1>6 DEF UsageInv, BaseInv

LEMMA UsageStep ==
    ASSUME Usage!UsageAssumption, UsageInv, [Usage!Next]_(Usage!usageVars)
    PROVE  UsageInv'
<1>1. CASE UNCHANGED Usage!usageVars
  <2>1. BaseInv /\ usageFaults' \in 0 .. UsageMaxFaults /\ usageRejected' \subseteq usageAccepted /\ ReportsShaped
    BY <1>1 DEF Usage!usageVars, UsageInv, BaseInv, RestShaped, SubsOK
  <2>2. RowStep /\ \A p \in Usage!Periods : Calm(p)
    BY <1>1, <2>1, SameRows DEF BaseInv, Usage!usageVars
  <2>3. ReportsShaped' /\ (~UsageIncomplete => ReportInv')
    BY <1>1, <2>1, <2>2, ReportsGo DEF Usage!usageVars, UsageInv, ReportsShaped, Calm
  <2> QED BY <1>1, <2>1, <2>3, ReportStep DEF Usage!usageVars
<1>2. ASSUME NEW w \in UsageWorkers,
             \/ Usage!Dispatch(w) \/ Usage!DispatchNamed(w) \/ Usage!Send(w)
             \/ Usage!MarkSent(w) \/ Usage!MarkFailed(w) \/ Usage!WorkerCrash(w)
      PROVE UsageInv'
  BY <1>2, DispatchStep, DispatchNamedStep, SendStep, MarkSentStep, MarkFailedStep, WorkerCrashStep
<1>3. ASSUME NEW e \in UsageReports,
             \/ Usage!Reject(e) \/ Usage!Receive(e) \/ Usage!FindSample(e) \/ Usage!Transition(e)
             \/ Usage!FindCandidates(e) \/ Usage!Conclude(e) \/ Usage!RequestCrash(e)
      PROVE UsageInv'
  <2>1. None \notin UsageReports
    BY DEF Usage!UsageAssumption
  <2> QED BY <1>3, <2>1, RejectStep, UsageReceiveStep, FindSampleStep, TransitionStep, FindCandidatesStep,
             ConcludeStep, RequestCrashStep
<1> QED BY <1>1, <1>2, <1>3, TerminalizeStep, RequeueStep, TimePassesStep, CalendarStep DEF Usage!Next

LEMMA UsageHolds ==
    ASSUME Usage!UsageAssumption
    PROVE  Usage!Spec => []UsageInv
BY UsageInit, UsageStep, PTL DEF Usage!Spec

\* Every event, worker, report and request keeps its type: the attempts and
\* the replays of an event stay within their limits.
THEOREM UsageTypeCorrect ==
    ASSUME Usage!UsageAssumption
    PROVE  Usage!Spec => []Usage!TypeOK
<1>1. ASSUME UsageInv PROVE Usage!TypeOK
  <2>1. \A p \in Usage!Periods : RowShape(usageRow[p])
    BY <1>1 DEF UsageInv, BaseInv, RowsShaped
  <2>2. /\ usageNow \in Usage!Periods /\ usageStaff \in 0 .. UsageMaxStaff /\ usageFaults \in 0 .. UsageMaxFaults
        /\ usageWorker \in [UsageWorkers -> Worker]
    BY <1>1 DEF UsageInv, BaseInv, RestShaped
  <2>3. \A e \in UsageReports : ReportShape(usageReport[e]) /\ RequestShape(usageHandler[e])
    BY <1>1 DEF UsageInv, BaseInv, ReportsShaped
  <2> QED BY <2>1, <2>2, <2>3 DEF Usage!TypeOK, RowShape, Worker, ReportShape, RequestShape
<1> QED BY <1>1, UsageHolds, PTL

\* The usage of a period is reported with one value: the snapshot is frozen by
\* its first claim, so that attempts, replays and rotated identities all
\* submit the quantity that the event holds.
THEOREM ValueIsFrozen ==
    ASSUME Usage!UsageAssumption
    PROVE  Usage!Spec => []Usage!OneValuePerPeriod
<1>1. UsageInv => Usage!OneValuePerPeriod
  BY DEF UsageInv, BaseInv, SubsOK, SubmissionOK, Usage!OneValuePerPeriod
<1> QED BY <1>1, UsageHolds, PTL

\* While Stripe names what it rejects, an event that counts as sent was
\* accepted, and the acceptance stands or its rejection is still announced:
\* no order of settling, rejecting, rotating, crashing and repeating loses it.
THEOREM SentUsageIsCounted ==
    ASSUME Usage!UsageAssumption, ~UsageIncomplete
    PROVE  Usage!Spec => []Usage!SentIsCounted
<1>1. ASSUME UsageInv PROVE Usage!SentIsCounted
  <2> SUFFICES ASSUME NEW p \in Usage!Periods, usageRow[p].status = "SENT"
               PROVE  \E s \in usageAccepted :
                         /\ s.period = p
                         /\ \/ s \notin usageRejected
                            \/ \E e \in UsageReports : s \in usageReport[e].subs /\ usageReport[e].state = "sent"
    BY DEF Usage!SentIsCounted
  <2>1. PICK s \in usageAccepted : s.period = p /\ s.ident = usageRow[p].ident
    BY <1>1 DEF UsageInv, BaseInv, SentOK
  <2>2. usageRow[p].ident \in Nat
    BY <1>1 DEF UsageInv, BaseInv, RowsShaped, RowShape
  <2>3. ~Over(s)
    BY <2>1, <2>2 DEF Over, Past
  <2> QED BY <1>1, <2>1, <2>3 DEF UsageInv, ReportInv, Announced
<1> QED BY <1>1, UsageHolds, PTL

\* While Stripe names what it rejects, a rejected event is sent again only
\* under an identity that Stripe does not know yet, or its report is still to
\* be handled.
THEOREM RepeatsAreNew ==
    ASSUME Usage!UsageAssumption, ~UsageIncomplete
    PROVE  Usage!Spec => []Usage!RepeatedAnew
<1>1. ASSUME UsageInv PROVE Usage!RepeatedAnew
  <2> SUFFICES ASSUME NEW p \in Usage!Periods, usageRow[p].status \in {"FAILED", "SENDING"},
                      NEW s \in usageRejected, s.period = p, s.ident = usageRow[p].ident
               PROVE  \E e \in UsageReports : s \in usageReport[e].subs /\ usageReport[e].state = "sent"
    BY DEF Usage!RepeatedAnew
  <2>1. usageRow[p].ident \in Nat
    BY <1>1 DEF UsageInv, BaseInv, RowsShaped, RowShape
  <2>2. ~Over(s)
    BY <2>1 DEF Over, Past
  <2> QED BY <1>1, <2>2 DEF UsageInv, ReportInv, Announced
<1> QED BY <1>1, UsageHolds, PTL

-----------------------------------------------------------------------------
(* The deletion of an account and what it owes. *)

(* The inductive invariant. *)

Behind == delTenant.status \in {"SUSPENDED", "PURGED"}

\* A tenant without a customer either had it deleted or never had a session.
NothingSold ==
    \/ delTenant.customer
    \/ delClient = "deleted"
    \/ delCheckout # "session" /\ delSubs = {} /\ Delete!Open = {}

\* Stripe ends the subscriptions of a customer it deletes.
DeletedIsEmpty == delClient = "deleted" => delSubs = {}

\* A purged tenant is bound to nothing.
PurgedIsUnbound ==
    /\ Delete!Purged => ~delTenant.customer /\ delTenant.sub = None
    /\ delTenant.status = "UNPURGED" => delUndoing = None

\* An attempt clears the bindings of a deleted customer, and finalizes only a
\* tenant that has none, unless it has lost the barrier.
AttemptOK(q) ==
    /\ q.pc = "clear" => delClient = "deleted"
    /\ q.pc = "finalize" => (Behind => ~delTenant.customer)
AttemptsOK == \A p \in DelProcs : AttemptOK(delProc[p])

\* There is no row and no attempt without a barrier on record, so that a
\* tenant never gets behind the barrier a second time.
BarrierRecorded ==
    /\ delRow.state # "none" => delBarrier.by # None
    /\ \A p \in DelProcs : delProc[p].pc # "idle" => delBarrier.by # None

DeletionInv ==
    /\ Delete!TypeOK /\ NothingSold /\ DeletedIsEmpty /\ PurgedIsUnbound /\ AttemptsOK
    /\ Delete!FinalizedOnce /\ BarrierRecorded

LEMMA DeletionInit == ASSUME Delete!DeletionAssumption PROVE Delete!Init => DeletionInv
<1> SUFFICES ASSUME Delete!Init PROVE DeletionInv
  OBVIOUS
<1>1. PICK c \in BOOLEAN : delTenant = [status |-> "ACTIVE", customer |-> c, sub |-> None]
  BY DEF Delete!Init
<1>2. Delete!TypeOK
  BY <1>1 DEF Delete!Init, Delete!TypeOK, Delete!Tenant, Delete!Barrier, Delete!Row, Delete!Proc, Delete!Idle, Delete!PC
<1>3. NothingSold /\ DeletedIsEmpty /\ PurgedIsUnbound /\ Delete!FinalizedOnce
  BY <1>1 DEF Delete!Init, NothingSold, Delete!Open, DeletedIsEmpty, PurgedIsUnbound, Delete!FinalizedOnce, Delete!Purged
<1>4. AttemptsOK /\ BarrierRecorded
  BY DEF Delete!Init, AttemptsOK, AttemptOK, Delete!Idle, BarrierRecorded
<1> QED BY <1>2, <1>3, <1>4 DEF DeletionInv

-----------------------------------------------------------------------------
(* What the operations do to a process and to the row. *)

LEMMA GotoDoes ==
    ASSUME delProc \in [DelProcs -> Delete!Proc], NEW p \in DelProcs, NEW pc \in Delete!PC, Delete!Goto(p, pc)
    PROVE  /\ delProc' \in [DelProcs -> Delete!Proc]
           /\ delProc'[p].pc = pc
           /\ \A q \in DelProcs : q # p => delProc'[q] = delProc[q]
BY DEF Delete!Goto, Delete!Proc

LEMMA PutDoes ==
    ASSUME delProc \in [DelProcs -> Delete!Proc], NEW p \in DelProcs, NEW x \in Delete!Proc, delProc' = [delProc EXCEPT ![p] = x]
    PROVE  /\ delProc' \in [DelProcs -> Delete!Proc]
           /\ delProc'[p] = x
           /\ \A q \in DelProcs : q # p => delProc'[q] = delProc[q]
OBVIOUS

LEMMA Values ==
    /\ Delete!Idle \in Delete!Proc /\ Delete!Idle.pc = "idle"
    /\ \A n \in Nat, pc \in Delete!PC :
          /\ [Delete!Idle EXCEPT !.pc = pc, !.token = n] \in Delete!Proc
          /\ [Delete!Idle EXCEPT !.pc = pc, !.token = n].pc = pc
    /\ \A x \in Delete!Proc, T \in SUBSET DelSessions, pc \in Delete!PC :
          /\ [x EXCEPT !.pc = pc, !.todo = T] \in Delete!Proc /\ [x EXCEPT !.pc = pc, !.todo = T].pc = pc
          /\ [x EXCEPT !.todo = T] \in Delete!Proc /\ [x EXCEPT !.todo = T].pc = x.pc
    /\ \A x \in Delete!Proc, c \in BOOLEAN, s \in DelSessions \cup {None}, pc \in Delete!PC :
          /\ [x EXCEPT !.customer = c, !.sub = s, !.pc = pc] \in Delete!Proc
          /\ [x EXCEPT !.customer = c, !.sub = s, !.pc = pc].pc = pc
<1>1. Delete!Idle \in Delete!Proc /\ Delete!Idle.pc = "idle"
  BY DEF Delete!Idle, Delete!Proc, Delete!PC
<1>2. ASSUME NEW n \in Nat, NEW pc \in Delete!PC
      PROVE  /\ [Delete!Idle EXCEPT !.pc = pc, !.token = n] \in Delete!Proc
             /\ [Delete!Idle EXCEPT !.pc = pc, !.token = n].pc = pc
  BY DEF Delete!Idle, Delete!Proc
<1>3. ASSUME NEW x \in Delete!Proc, NEW T \in SUBSET DelSessions, NEW pc \in Delete!PC
      PROVE  /\ [x EXCEPT !.pc = pc, !.todo = T] \in Delete!Proc /\ [x EXCEPT !.pc = pc, !.todo = T].pc = pc
             /\ [x EXCEPT !.todo = T] \in Delete!Proc /\ [x EXCEPT !.todo = T].pc = x.pc
  BY DEF Delete!Proc
<1>4. ASSUME NEW x \in Delete!Proc, NEW c \in BOOLEAN, NEW s \in DelSessions \cup {None}, NEW pc \in Delete!PC
      PROVE  /\ [x EXCEPT !.customer = c, !.sub = s, !.pc = pc] \in Delete!Proc
             /\ [x EXCEPT !.customer = c, !.sub = s, !.pc = pc].pc = pc
  BY DEF Delete!Proc
<1> QED BY <1>1, <1>2, <1>3, <1>4

LEMMA RowValues ==
    ASSUME delRow \in Delete!Row
    PROVE  /\ Delete!EnsuredRow \in Delete!Row /\ Delete!EnsuredRow.state = IF delRow.state = "none" THEN "PENDING" ELSE delRow.state
           /\ \A r \in Delete!Row : Delete!Claimed(r) \in Delete!Row /\ Delete!Claimed(r).state = r.state /\ r.token + 1 \in Nat
           /\ [delRow EXCEPT !.leased = FALSE, !.live = FALSE, !.due = FALSE] \in Delete!Row
           /\ [delRow EXCEPT !.leased = FALSE, !.live = FALSE, !.due = FALSE].state = delRow.state
           /\ \A a \in BOOLEAN :
                 /\ [delRow EXCEPT !.live = a] \in Delete!Row /\ [delRow EXCEPT !.live = a].state = delRow.state
                 /\ [delRow EXCEPT !.due = a] \in Delete!Row /\ [delRow EXCEPT !.due = a].state = delRow.state
           /\ [delRow EXCEPT !.state = "FINALIZED", !.leased = FALSE, !.live = FALSE] \in Delete!Row
           /\ [delRow EXCEPT !.state = "FINALIZED", !.leased = FALSE, !.live = FALSE].state = "FINALIZED"
<1>1. Delete!EnsuredRow \in Delete!Row /\ Delete!EnsuredRow.state = IF delRow.state = "none" THEN "PENDING" ELSE delRow.state
  BY DEF Delete!Row, Delete!EnsuredRow
<1>2. ASSUME NEW r \in Delete!Row PROVE Delete!Claimed(r) \in Delete!Row /\ Delete!Claimed(r).state = r.state /\ r.token + 1 \in Nat
  <2>1. PICK n \in Nat : n = r.token + 1
    BY DEF Delete!Row
  <2>2. Delete!Claimed(r) = [r EXCEPT !.token = n, !.leased = TRUE, !.live = TRUE]
    BY <2>1 DEF Delete!Claimed
  <2> QED BY <2>1, <2>2 DEF Delete!Row
<1>3. ASSUME NEW a \in BOOLEAN
      PROVE  /\ [delRow EXCEPT !.live = a] \in Delete!Row /\ [delRow EXCEPT !.live = a].state = delRow.state
             /\ [delRow EXCEPT !.due = a] \in Delete!Row /\ [delRow EXCEPT !.due = a].state = delRow.state
  BY DEF Delete!Row
<1>4. /\ [delRow EXCEPT !.leased = FALSE, !.live = FALSE, !.due = FALSE] \in Delete!Row
      /\ [delRow EXCEPT !.leased = FALSE, !.live = FALSE, !.due = FALSE].state = delRow.state
  BY DEF Delete!Row
<1>5. /\ [delRow EXCEPT !.state = "FINALIZED", !.leased = FALSE, !.live = FALSE] \in Delete!Row
      /\ [delRow EXCEPT !.state = "FINALIZED", !.leased = FALSE, !.live = FALSE].state = "FINALIZED"
  BY DEF Delete!Row
<1> QED BY <1>1, <1>2, <1>3, <1>4, <1>5

LEMMA TenantValues ==
    ASSUME delTenant \in Delete!Tenant
    PROVE  /\ \A st \in {"ARCHIVED", "SUSPENDED"} :
                 LET t == [delTenant EXCEPT !.status = st]
                 IN t \in Delete!Tenant /\ t.status = st /\ t.customer = delTenant.customer /\ t.sub = delTenant.sub
           /\ LET t == [delTenant EXCEPT !.customer = TRUE]
              IN t \in Delete!Tenant /\ t.status = delTenant.status /\ t.customer /\ t.sub = delTenant.sub
           /\ \A s \in DelSessions :
                 LET t == [delTenant EXCEPT !.sub = s, !.status = "ACTIVE"]
                 IN t \in Delete!Tenant /\ t.status = "ACTIVE" /\ t.customer = delTenant.customer
           /\ \A st \in {"PAST_DUE", "UNPURGED"} :
                 LET t == [delTenant EXCEPT !.sub = None, !.status = st]
                 IN t \in Delete!Tenant /\ t.status = st /\ t.customer = delTenant.customer /\ t.sub = None
           /\ LET t == [delTenant EXCEPT !.customer = FALSE, !.sub = None]
              IN t \in Delete!Tenant /\ t.status = delTenant.status /\ ~t.customer /\ t.sub = None
           /\ LET t == [delTenant EXCEPT !.status = "PURGED", !.sub = None]
              IN t \in Delete!Tenant /\ t.status = "PURGED" /\ t.customer = delTenant.customer /\ t.sub = None
BY DEF Delete!Tenant

-----------------------------------------------------------------------------
(* The steps. *)

\* A process stays where it is, or goes where nothing is required.
Moved == \A q \in DelProcs : delProc'[q] = delProc[q] \/ delProc'[q].pc \notin {"clear", "finalize"}

\* The step of a process that changes neither the tenant nor Stripe.
LEMMA DelQuietStep ==
    ASSUME DeletionInv,
           UNCHANGED <<delTenant, delBarrier, delPurges, delClient, delSessions, delSubs, delCheckout, delUndoing>>,
           delRow' \in Delete!Row, (delRow'.state = "FINALIZED") = (delRow.state = "FINALIZED"),
           delRow'.state = delRow.state \/ delBarrier.by # None,
           \A q \in DelProcs : delProc'[q].pc = "idle" \/ delProc'[q] = delProc[q] \/ delBarrier.by # None,
           {delFaults', delStalls'} \subseteq Nat, delProc' \in [DelProcs -> Delete!Proc],
           \A q \in DelProcs : delProc'[q] = delProc[q] \/ AttemptOK(delProc'[q])
    PROVE  DeletionInv'
<1>1. Delete!TypeOK'
  BY DEF DeletionInv, Delete!TypeOK
<1>2. AttemptsOK' /\ BarrierRecorded'
  BY DEF DeletionInv, AttemptsOK, AttemptOK, Behind, BarrierRecorded
<1> QED BY <1>1, <1>2 DEF Delete!Purged, DeletionInv, NothingSold, Delete!Open, DeletedIsEmpty, PurgedIsUnbound, Delete!FinalizedOnce

LEMMA MovedIsOK == ASSUME Moved PROVE \A q \in DelProcs : delProc'[q] = delProc[q] \/ AttemptOK(delProc'[q])
BY DEF Moved, AttemptOK

\* The checkout of another request, and the customer at Stripe.
LEMMA CustomerStep == ASSUME Delete!DeletionAssumption, DeletionInv, Delete!Customer PROVE DeletionInv'
<1> USE DEF Delete!records, Delete!atStripe, Delete!counters
<1>0. Delete!TypeOK /\ delTenant \in Delete!Tenant
  BY DEF DeletionInv, Delete!TypeOK
<1>1. ASSUME UNCHANGED <<delTenant, delBarrier, delRow, delPurges, delUndoing, delProc, Delete!counters>>, delClient' \in {delClient, "live"},
             delClient = "deleted" => delClient' = "deleted", delClient' = "deleted" => delClient = "deleted"
      PROVE  /\ AttemptsOK' /\ Delete!FinalizedOnce' /\ PurgedIsUnbound' /\ BarrierRecorded'
  BY <1>0, <1>1 DEF DeletionInv, AttemptsOK, AttemptOK, Behind, Delete!FinalizedOnce, PurgedIsUnbound,
     Delete!Purged, BarrierRecorded
<1>2. CASE Delete!StartCheckout
  <2>1. Delete!TypeOK' /\ NothingSold' /\ DeletedIsEmpty'
    BY <1>0, <1>2 DEF Delete!StartCheckout, DeletionInv, Delete!TypeOK, NothingSold, Delete!Open, DeletedIsEmpty
  <2> QED BY <1>1, <1>2, <2>1 DEF DeletionInv, Delete!StartCheckout
<1>3. CASE Delete!CreateCustomer
  <2>1. Delete!TypeOK' /\ NothingSold' /\ DeletedIsEmpty'
    BY <1>0, <1>3 DEF Delete!CreateCustomer, DeletionInv, Delete!TypeOK, NothingSold, Delete!Open, DeletedIsEmpty
  <2> QED BY <1>0, <1>1, <1>3, <2>1 DEF DeletionInv, Delete!CreateCustomer, Delete!TypeOK
<1>4. ASSUME NEW s \in DelSessions, Delete!CreateSession(s) PROVE DeletionInv'
  <2>1. Delete!TypeOK'
    BY <1>0, <1>4 DEF Delete!CreateSession, Delete!TypeOK
  <2>2. NothingSold' /\ DeletedIsEmpty'
    BY <1>4 DEF Delete!CreateSession, DeletionInv, NothingSold, DeletedIsEmpty
  <2> QED BY <1>1, <1>4, <2>1, <2>2 DEF DeletionInv, Delete!CreateSession
<1>5. ASSUME NEW s \in DelSessions, Delete!Complete(s) PROVE DeletionInv'
  <2>1. Delete!TypeOK'
    BY <1>0, <1>5 DEF Delete!Complete, Delete!TypeOK
  <2>2. NothingSold' /\ DeletedIsEmpty'
    BY <1>5 DEF Delete!Complete, DeletionInv, NothingSold, DeletedIsEmpty, Delete!Open
  <2> QED BY <1>1, <1>5, <2>1, <2>2 DEF DeletionInv, Delete!Complete
<1>6. ASSUME delTenant' \in Delete!Tenant, delTenant'.status \in {"ACTIVE", "PAST_DUE", "ARCHIVED"},
             delTenant.status \in {"ACTIVE", "PAST_DUE"}, delUndoing' \in DelSessions \cup {None},
             delTenant'.customer \/ delTenant'.customer = delTenant.customer,
             delCheckout' \in {delCheckout, "idle", "session"}, delCheckout' = "session" => delCheckout = "session" \/ delTenant'.customer,
             UNCHANGED <<delBarrier, delRow, delPurges, Delete!atStripe, delProc, Delete!counters>>
      PROVE  DeletionInv'
  <2>1. Delete!TypeOK'
    BY <1>0, <1>6 DEF Delete!TypeOK
  <2>2. NothingSold' /\ DeletedIsEmpty' /\ PurgedIsUnbound' /\ Delete!FinalizedOnce'
    BY <1>6 DEF DeletionInv, NothingSold, Delete!Open, DeletedIsEmpty, PurgedIsUnbound, Delete!FinalizedOnce, Delete!Purged
  <2>3. AttemptsOK' /\ BarrierRecorded'
    BY <1>6 DEF DeletionInv, AttemptsOK, AttemptOK, Behind, BarrierRecorded
  <2> QED BY <2>1, <2>2, <2>3 DEF DeletionInv
<1>7. CASE Delete!ClaimCustomer
  <2>1. CASE Delete!CanStart
    BY <1>0, <1>6, <1>7, <2>1, TenantValues DEF Delete!ClaimCustomer, Delete!CanStart, Delete!TypeOK
  <2>2. CASE ~Delete!CanStart
    <3>1. Delete!TypeOK' /\ NothingSold' /\ DeletedIsEmpty'
      BY <1>0, <1>7, <2>2 DEF Delete!ClaimCustomer, DeletionInv, Delete!TypeOK, NothingSold, Delete!Open, DeletedIsEmpty
    <3> QED BY <1>1, <1>7, <2>2, <3>1 DEF DeletionInv, Delete!ClaimCustomer
  <2> QED BY <2>1, <2>2
<1>8. ASSUME NEW s \in DelSessions, Delete!Bind(s) PROVE DeletionInv'
  BY <1>0, <1>6, <1>8, TenantValues DEF Delete!Bind, Delete!TypeOK
<1>9. CASE Delete!ArchiveTenant
  BY <1>0, <1>6, <1>9, TenantValues DEF Delete!ArchiveTenant, Delete!TypeOK
<1>10. CASE Delete!HoldWins
  <2>1. delUndoing' \in DelSessions \cup {None}
    BY <1>0, <1>10 DEF Delete!HoldWins, Delete!Tenant
  <2> QED BY <1>0, <1>6, <1>10, <2>1 DEF Delete!HoldWins
<1>11. CASE Delete!MarkCompensated
  <2>1. /\ delTenant' \in Delete!Tenant /\ delTenant'.customer = delTenant.customer /\ delUndoing' = None
        /\ \/ delTenant' = delTenant
           \/ /\ delTenant'.sub = None
              /\ delTenant'.status = IF delTenant.status = "PURGED" THEN "UNPURGED" ELSE "PAST_DUE"
    BY <1>0, <1>11, TenantValues DEF Delete!MarkCompensated
  <2>2. UNCHANGED <<delBarrier, delRow, delPurges, delClient, delSessions, delSubs, delCheckout, delProc, delFaults, delStalls>>
    BY <1>11 DEF Delete!MarkCompensated
  <2>3. delTenant.status # "UNPURGED"
    BY <1>11 DEF Delete!MarkCompensated, DeletionInv, PurgedIsUnbound
  <2>4. Delete!TypeOK'
    BY <1>0, <2>1, <2>2 DEF Delete!TypeOK
  <2>5. NothingSold' /\ DeletedIsEmpty' /\ PurgedIsUnbound' /\ Delete!FinalizedOnce'
    BY <2>1, <2>2, <2>3
    DEF DeletionInv, NothingSold, Delete!Open, DeletedIsEmpty, PurgedIsUnbound, Delete!FinalizedOnce, Delete!Purged
  <2>6. AttemptsOK' /\ BarrierRecorded'
    BY <2>1, <2>2 DEF DeletionInv, AttemptsOK, AttemptOK, Behind, BarrierRecorded
  <2> QED BY <2>4, <2>5, <2>6 DEF DeletionInv
<1> QED BY <1>2, <1>3, <1>4, <1>5, <1>7, <1>8, <1>9, <1>10, <1>11 DEF Delete!Customer

\* The steps of an attempt.
LEMMA AttemptStep == ASSUME Delete!DeletionAssumption, DeletionInv, NEW p \in DelProcs, Delete!Attempt(p) PROVE DeletionInv'
<1> USE DEF Delete!records, Delete!atStripe, Delete!counters
<1>0. /\ Delete!TypeOK /\ delTenant \in Delete!Tenant /\ delRow \in Delete!Row /\ delProc \in [DelProcs -> Delete!Proc] /\ delProc[p] \in Delete!Proc
      /\ {delFaults, delStalls} \subseteq Nat /\ delSubs \subseteq DelSessions
  BY DEF DeletionInv, Delete!TypeOK
<1>a. delBarrier.by # None
  <2>1. delProc[p].pc # "idle"
    BY DEF Delete!Attempt, Delete!ReadBarrier, Delete!Renew, Delete!Snapshot, Delete!RetrieveCustomer, Delete!ListSessions, Delete!ExpireSession,
       Delete!CancelSubscription, Delete!SessionsDone, Delete!ListSubscriptions, Delete!SubscriptionsDone, Delete!DeleteCustomer,
       Delete!ClearBindings, Delete!Finalize, Delete!RecordFailure
  <2> QED BY <2>1 DEF DeletionInv, BarrierRecorded
<1>b. ASSUME UNCHANGED delBarrier PROVE BarrierRecorded'
  BY <1>a, <1>b DEF BarrierRecorded
<1>1. ASSUME NEW pc \in Delete!PC, Delete!Goto(p, pc), pc \notin {"clear", "finalize"}
      PROVE  delProc' \in [DelProcs -> Delete!Proc] /\ Moved
  BY <1>0, <1>1, GotoDoes DEF Moved
<1>2. ASSUME NEW x \in Delete!Proc, delProc' = [delProc EXCEPT ![p] = x], x.pc \notin {"clear", "finalize"}
      PROVE  delProc' \in [DelProcs -> Delete!Proc] /\ Moved
  BY <1>0, <1>2, PutDoes DEF Moved
<1>3. ASSUME UNCHANGED <<Delete!records, Delete!atStripe, delCheckout, Delete!counters>>, delProc' \in [DelProcs -> Delete!Proc], Moved
      PROVE  DeletionInv'
  BY <1>0, <1>a, <1>3, DelQuietStep, MovedIsOK
<1>4. CASE Delete!ReadBarrier(p)
  <2>1. PICK pc \in {"renew", "failed"} : Delete!Goto(p, pc)
    BY <1>4 DEF Delete!ReadBarrier
  <2> QED BY <1>1, <1>3, <1>4, <2>1 DEF Delete!ReadBarrier, Delete!PC, Delete!AtStripe
<1>5. CASE Delete!Renew(p)
  <2>1. PICK pc \in {"snapshot", "failed"} : Delete!Goto(p, pc)
    BY <1>5 DEF Delete!Renew
  <2> QED BY <1>1, <1>3, <1>5, <2>1 DEF Delete!Renew, Delete!PC, Delete!AtStripe
<1>6. CASE Delete!Snapshot(p)
  <2>1. PICK pc : pc = IF delTenant.status \notin {"SUSPENDED", "PURGED"} THEN "failed"
                       ELSE IF delTenant.customer THEN "customer"
                       ELSE IF delTenant.sub = None THEN "finalize" ELSE "failed"
    OBVIOUS
  <2>2. pc \in Delete!PC /\ pc # "clear" /\ (pc = "finalize" => ~delTenant.customer)
    BY <2>1 DEF Delete!PC, Delete!AtStripe, Behind
  <2>3. PICK x : x = [delProc[p] EXCEPT !.customer = delTenant.customer, !.sub = delTenant.sub, !.pc = pc]
    OBVIOUS
  <2>4. delTenant.customer \in BOOLEAN /\ delTenant.sub \in DelSessions \cup {None}
    BY <1>0 DEF Delete!Tenant
  <2>5. x \in Delete!Proc /\ x.pc = pc
    BY <1>0, <2>2, <2>3, <2>4 DEF Delete!Proc
  <2>6. delProc' = [delProc EXCEPT ![p] = x]
    BY <1>0, <1>6, <2>1, <2>3 DEF Delete!Snapshot
  <2>7. AttemptOK(x)
    BY <2>2, <2>5 DEF AttemptOK
  <2>8. delProc' \in [DelProcs -> Delete!Proc] /\ \A q \in DelProcs : delProc'[q] = delProc[q] \/ AttemptOK(delProc'[q])
    BY <1>0, <2>5, <2>6, <2>7, PutDoes
  <2> QED BY <1>0, <1>a, <1>6, <2>8, DelQuietStep DEF Delete!Snapshot
<1>7. CASE Delete!RetrieveCustomer(p)
  <2>1. CASE delClient = "deleted"
    <3>1. Delete!Goto(p, "clear")
      BY <1>7, <2>1 DEF Delete!RetrieveCustomer
    <3>2. delProc' \in [DelProcs -> Delete!Proc] /\ \A q \in DelProcs : delProc'[q] = delProc[q] \/ AttemptOK(delProc'[q])
      BY <1>0, <2>1, <3>1, GotoDoes DEF AttemptOK, Delete!PC, Delete!AtStripe
    <3> QED BY <1>0, <1>a, <1>7, <3>2, DelQuietStep DEF Delete!RetrieveCustomer
  <2>2. CASE delClient # "deleted"
    BY <1>1, <1>3, <1>7, <2>2 DEF Delete!RetrieveCustomer, Delete!PC, Delete!AtStripe
  <2> QED BY <2>1, <2>2
<1>8. CASE Delete!ListSessions(p)
  <2>1. PICK x : x = [delProc[p] EXCEPT !.pc = "expire", !.todo = Delete!Open]
    OBVIOUS
  <2>2. x \in Delete!Proc /\ x.pc = "expire"
    BY <1>0, <2>1 DEF Delete!Open, Delete!Proc, Delete!PC, Delete!AtStripe
  <2>3. delProc' = [delProc EXCEPT ![p] = x]
    BY <1>0, <1>8, <2>1 DEF Delete!ListSessions
  <2> QED BY <1>2, <1>3, <1>8, <2>2, <2>3 DEF Delete!ListSessions
<1>9. ASSUME NEW s \in DelSessions, Delete!ExpireSession(p, s) PROVE DeletionInv'
  <2>1. CASE delSessions[s] = "complete"
    BY <1>1, <1>3, <1>9, <2>1 DEF Delete!ExpireSession, Delete!PC, Delete!AtStripe
  <2>2. CASE delSessions[s] # "complete"
    <3>1. PICK x : x = [delProc[p] EXCEPT !.todo = delProc[p].todo \ {s}]
      OBVIOUS
    <3>2. x \in Delete!Proc /\ x.pc = "expire"
      BY <1>0, <1>9, <3>1, Values DEF Delete!ExpireSession, Delete!Proc
    <3>3. delProc' = [delProc EXCEPT ![p] = x]
      BY <1>0, <1>9, <2>2, <3>1 DEF Delete!ExpireSession
    <3>4. delProc' \in [DelProcs -> Delete!Proc] /\ Moved
      BY <1>2, <3>2, <3>3
    <3>5. delSessions' = [delSessions EXCEPT ![s] = "expired"] /\ UNCHANGED <<Delete!records, delClient, delSubs, delCheckout, Delete!counters>>
      BY <1>9, <2>2 DEF Delete!ExpireSession
    <3>6. Delete!TypeOK'
      BY <1>0, <3>4, <3>5 DEF Delete!TypeOK
    <3>7. Delete!Open' \subseteq Delete!Open
      BY <1>0, <3>5 DEF Delete!Open, Delete!TypeOK
    <3>8. AttemptsOK'
      BY <3>4, <3>5 DEF DeletionInv, AttemptsOK, AttemptOK, Behind, Moved
    <3> QED BY <1>b, <3>5, <3>6, <3>7, <3>8
        DEF DeletionInv, NothingSold, DeletedIsEmpty, PurgedIsUnbound, Delete!FinalizedOnce, Delete!Purged
  <2> QED BY <2>1, <2>2
<1>10. CASE Delete!SessionsDone(p)
  BY <1>1, <1>3, <1>10 DEF Delete!SessionsDone, Delete!PC, Delete!AtStripe
<1>11. CASE Delete!ListSubscriptions(p)
  <2>1. PICK T : T = delSubs \cup ({delProc[p].sub} \ {None})
    OBVIOUS
  <2>2. T \in SUBSET DelSessions
    BY <1>0, <2>1 DEF Delete!Proc
  <2>3. PICK x : x = [delProc[p] EXCEPT !.pc = "cancel", !.todo = T]
    OBVIOUS
  <2>4. x \in Delete!Proc /\ x.pc = "cancel"
    BY <1>0, <2>2, <2>3 DEF Delete!Proc, Delete!PC, Delete!AtStripe
  <2>5. delProc' = [delProc EXCEPT ![p] = x]
    BY <1>0, <1>11, <2>1, <2>3 DEF Delete!ListSubscriptions
  <2> QED BY <1>2, <1>3, <1>11, <2>4, <2>5 DEF Delete!ListSubscriptions
<1>12. ASSUME NEW s \in DelSessions, Delete!CancelSubscription(p, s) PROVE DeletionInv'
  <2>1. PICK x : x = [delProc[p] EXCEPT !.todo = delProc[p].todo \ {s}]
    OBVIOUS
  <2>2. x \in Delete!Proc /\ x.pc = "cancel"
    BY <1>0, <1>12, <2>1, Values DEF Delete!CancelSubscription, Delete!Proc
  <2>3. delProc' = [delProc EXCEPT ![p] = x]
    BY <1>0, <1>12, <2>1 DEF Delete!CancelSubscription
  <2>4. delProc' \in [DelProcs -> Delete!Proc] /\ Moved
    BY <1>2, <2>2, <2>3
  <2>5. delSubs' \subseteq delSubs /\ UNCHANGED <<Delete!records, delClient, delSessions, delCheckout, Delete!counters>>
    BY <1>12 DEF Delete!CancelSubscription
  <2>6. Delete!TypeOK'
    BY <1>0, <2>4, <2>5 DEF Delete!TypeOK
  <2>7. AttemptsOK'
    BY <2>4, <2>5 DEF DeletionInv, AttemptsOK, AttemptOK, Behind, Moved
  <2> QED BY <1>b, <2>5, <2>6, <2>7
      DEF DeletionInv, NothingSold, Delete!Open, DeletedIsEmpty, PurgedIsUnbound, Delete!FinalizedOnce, Delete!Purged
<1>13. CASE Delete!SubscriptionsDone(p)
  BY <1>1, <1>3, <1>13 DEF Delete!SubscriptionsDone, Delete!PC, Delete!AtStripe
<1>14. CASE Delete!DeleteCustomer(p)
  <2>1. delClient' = "deleted" /\ delSubs' = {} /\ UNCHANGED <<Delete!records, delSessions, delCheckout, Delete!counters>>
    BY <1>14 DEF Delete!DeleteCustomer
  <2>2. /\ delProc' \in [DelProcs -> Delete!Proc] /\ delProc'[p].pc = "clear"
        /\ \A q \in DelProcs : q # p => delProc'[q] = delProc[q]
    BY <1>0, <1>14, GotoDoes DEF Delete!DeleteCustomer, Delete!PC, Delete!AtStripe
  <2>3. Delete!TypeOK'
    BY <1>0, <2>1, <2>2 DEF Delete!TypeOK
  <2>4. AttemptsOK'
    BY <2>1, <2>2 DEF DeletionInv, AttemptsOK, AttemptOK, Behind
  <2> QED BY <1>b, <2>1, <2>3, <2>4
      DEF DeletionInv, NothingSold, DeletedIsEmpty, PurgedIsUnbound, Delete!FinalizedOnce, Delete!Purged
<1>15. CASE Delete!ClearBindings(p)
  <2>0. delClient = "deleted"
    BY <1>15 DEF Delete!ClearBindings, DeletionInv, AttemptsOK, AttemptOK
  <2>1. CASE Behind
    <3>1. /\ delProc' \in [DelProcs -> Delete!Proc] /\ delProc'[p].pc = "finalize"
          /\ \A q \in DelProcs : q # p => delProc'[q] = delProc[q]
      BY <1>0, <1>15, <2>1, GotoDoes DEF Delete!ClearBindings, Behind, Delete!PC, Delete!AtStripe
    <3>2. /\ delTenant' \in Delete!Tenant /\ delTenant'.status = delTenant.status /\ ~delTenant'.customer
          /\ delTenant.sub = None => delTenant'.sub = None
      BY <1>0, <1>15, <2>1, TenantValues DEF Delete!ClearBindings, Behind
    <3>3. UNCHANGED <<delBarrier, delRow, delPurges, delUndoing, Delete!atStripe, delCheckout, Delete!counters>>
      BY <1>15 DEF Delete!ClearBindings
    <3>4. Delete!TypeOK'
      BY <1>0, <3>1, <3>2, <3>3 DEF Delete!TypeOK
    <3>5. AttemptsOK'
      <4> SUFFICES ASSUME NEW q \in DelProcs PROVE AttemptOK(delProc[q])'
        BY DEF AttemptsOK
      <4>1. Behind' /\ ~delTenant'.customer /\ delClient' = "deleted"
        BY <2>0, <2>1, <3>2, <3>3 DEF Behind
      <4> QED BY <4>1 DEF AttemptOK
    <3> QED BY <1>b, <2>0, <3>2, <3>3, <3>4, <3>5
        DEF DeletionInv, NothingSold, DeletedIsEmpty, PurgedIsUnbound, Delete!FinalizedOnce, Delete!Purged
  <2>2. CASE ~Behind
    BY <1>1, <1>3, <1>15, <2>2 DEF Delete!ClearBindings, Behind, Delete!PC, Delete!AtStripe
  <2> QED BY <2>1, <2>2
<1>16. CASE Delete!Finalize(p)
  <2>1. CASE Delete!Owns(p) /\ Behind
    <3>1. ~delTenant.customer
      BY <1>16, <2>1 DEF Delete!Finalize, DeletionInv, AttemptsOK, AttemptOK
    <3>2. /\ delTenant' \in Delete!Tenant /\ delTenant'.status = "PURGED" /\ ~delTenant'.customer /\ delTenant'.sub = None
      BY <1>0, <1>16, <2>1, <3>1, TenantValues DEF Delete!Finalize, Behind
    <3>3. delTenant.status # "PURGED" /\ delPurges = 0
      BY <2>1 DEF Delete!Owns, Delete!Holds, DeletionInv, Delete!FinalizedOnce, Delete!Purged
    <3>4. delRow' \in Delete!Row /\ delRow'.state = "FINALIZED" /\ delPurges' = 1
      <4>1. delRow' = [delRow EXCEPT !.state = "FINALIZED", !.leased = FALSE, !.live = FALSE] /\ delPurges' = delPurges + 1
        BY <1>16, <2>1, <3>3 DEF Delete!Finalize, Behind
      <4> QED BY <1>0, <3>3, <4>1, RowValues
    <3>5. delProc' \in [DelProcs -> Delete!Proc] /\ Moved
      BY <1>2, <1>16, <2>1, Values DEF Delete!Finalize, Behind
    <3>6. UNCHANGED <<delBarrier, delUndoing, Delete!atStripe, delCheckout, Delete!counters>>
      BY <1>16 DEF Delete!Finalize
    <3>7. Delete!TypeOK'
      BY <1>0, <3>2, <3>4, <3>5, <3>6 DEF Delete!TypeOK
    <3>8. AttemptsOK'
      BY <3>2, <3>5, <3>6 DEF DeletionInv, AttemptsOK, AttemptOK, Behind, Moved
    <3>9. NothingSold'
      BY <3>1, <3>6 DEF DeletionInv, NothingSold, Delete!Open
    <3> QED BY <1>b, <3>2, <3>4, <3>6, <3>7, <3>8, <3>9
        DEF DeletionInv, DeletedIsEmpty, PurgedIsUnbound, Delete!FinalizedOnce, Delete!Purged
  <2>2. CASE ~(Delete!Owns(p) /\ Behind)
    BY <1>1, <1>3, <1>16, <2>2 DEF Delete!Finalize, Behind, Delete!PC, Delete!AtStripe
  <2> QED BY <2>1, <2>2
<1>17. CASE Delete!RecordFailure(p)
  <2>1. delProc' \in [DelProcs -> Delete!Proc] /\ Moved
    BY <1>2, <1>17, Values DEF Delete!RecordFailure
  <2>2. delRow' \in Delete!Row /\ delRow'.state = delRow.state
    BY <1>0, <1>17, RowValues DEF Delete!RecordFailure
  <2> QED BY <1>0, <1>a, <1>17, <2>1, <2>2, DelQuietStep, MovedIsOK DEF Delete!RecordFailure
<1> QED BY <1>4, <1>5, <1>6, <1>7, <1>8, <1>9, <1>10, <1>11, <1>12, <1>13, <1>14, <1>15, <1>16, <1>17 DEF Delete!Attempt

LEMMA DelClaimStep ==
    ASSUME Delete!DeletionAssumption, DeletionInv, NEW p \in DelProcs, NEW r \in Delete!Row, Delete!ClaimOrAnswer(p, r)
    PROVE  delRow' \in Delete!Row /\ delRow'.state = r.state /\ delProc' \in [DelProcs -> Delete!Proc] /\ Moved
<1>0. delProc \in [DelProcs -> Delete!Proc] /\ delRow \in Delete!Row
  BY DEF DeletionInv, Delete!TypeOK
<1>1. CASE Delete!Claimable(r)
  <2>1. PICK n \in Nat : n = r.token + 1
    BY DEF Delete!Row
  <2>2. PICK x : x = [Delete!Idle EXCEPT !.pc = "renew", !.token = n]
    OBVIOUS
  <2>3. x \in Delete!Proc /\ x.pc = "renew"
    BY <2>2 DEF Delete!Idle, Delete!Proc, Delete!PC
  <2>4. delProc' = [delProc EXCEPT ![p] = x] /\ delRow' = Delete!Claimed(r)
    BY <1>1, <2>1, <2>2 DEF Delete!ClaimOrAnswer
  <2>5. delProc' \in [DelProcs -> Delete!Proc] /\ Moved
    BY <1>0, <2>3, <2>4, PutDoes DEF Moved
  <2> QED BY <1>0, <2>4, <2>5, RowValues
<1>2. CASE ~Delete!Claimable(r)
  BY <1>0, <1>2 DEF Delete!ClaimOrAnswer, Moved
<1> QED BY <1>1, <1>2

LEMMA DelRequestStep ==
    ASSUME Delete!DeletionAssumption, DeletionInv, NEW p \in DelProcs, NEW by \in DelIntakes \cup {"customer"},
           Delete!RequestDeletion(p, by)
    PROVE  DeletionInv'
<1> USE DEF Delete!atStripe, Delete!counters
<1>0. Delete!TypeOK /\ delTenant \in Delete!Tenant /\ delRow \in Delete!Row /\ {delFaults, delStalls} \subseteq Nat
  BY DEF DeletionInv, Delete!TypeOK
<1>1. /\ delRow' \in Delete!Row /\ delProc' \in [DelProcs -> Delete!Proc] /\ Moved
      /\ delRow'.state = IF delRow.state = "none" THEN "PENDING" ELSE delRow.state
  <2>1. Delete!EnsuredRow \in Delete!Row /\ Delete!EnsuredRow.state = IF delRow.state = "none" THEN "PENDING" ELSE delRow.state
    BY <1>0, RowValues
  <2>2. Delete!ClaimOrAnswer(p, Delete!EnsuredRow)
    BY DEF Delete!RequestDeletion
  <2> QED BY <2>1, <2>2, DelClaimStep
<1>2. ~Delete!Purged /\ delRow.state # "FINALIZED" /\ delRow'.state # "FINALIZED"
  <2>1. CASE Delete!Pending
    BY <1>1, <2>1 DEF Delete!Pending, DeletionInv, Delete!FinalizedOnce, Delete!Purged
  <2>2. CASE ~Delete!Pending
    BY <1>1, <2>2 DEF Delete!RequestDeletion, DeletionInv, Delete!FinalizedOnce, Delete!Purged, BarrierRecorded
  <2> QED BY <2>1, <2>2
<1>3. UNCHANGED <<delPurges, delClient, delSessions, delSubs, delCheckout, delUndoing, delFaults, delStalls>>
  BY DEF Delete!RequestDeletion
<1>4. CASE Delete!Pending
  <2>1. UNCHANGED <<delTenant, delBarrier>>
    BY <1>4 DEF Delete!RequestDeletion
  <2> QED BY <1>0, <1>1, <1>2, <1>3, <1>4, <2>1, DelQuietStep, MovedIsOK DEF Delete!Pending
<1>5. CASE ~Delete!Pending
  <2>1. delTenant' = [delTenant EXCEPT !.status = "SUSPENDED"] /\ delBarrier' = [by |-> by]
    BY <1>5 DEF Delete!RequestDeletion
  <2>2. delTenant' \in Delete!Tenant /\ delTenant'.status = "SUSPENDED" /\ delTenant'.customer = delTenant.customer
    BY <1>0, <2>1, TenantValues
  <2>3. Delete!TypeOK'
    BY <1>0, <1>1, <1>3, <2>1, <2>2 DEF Delete!TypeOK, Delete!Barrier
  <2>4. AttemptsOK' /\ BarrierRecorded'
    <3>1. \A q \in DelProcs : delProc[q].pc = "idle"
      BY <1>5 DEF Delete!RequestDeletion, DeletionInv, BarrierRecorded
    <3>2. \A q \in DelProcs : delProc'[q].pc \notin {"clear", "finalize"}
      BY <1>1, <3>1 DEF Moved
    <3>3. delBarrier'.by # None
      BY <2>1 DEF Delete!DeletionAssumption
    <3> QED BY <3>2, <3>3 DEF AttemptsOK, AttemptOK, BarrierRecorded
  <2> QED BY <1>2, <1>3, <2>2, <2>3, <2>4
      DEF DeletionInv, NothingSold, Delete!Open, DeletedIsEmpty, PurgedIsUnbound, Delete!FinalizedOnce, Delete!Purged
<1> QED BY <1>4, <1>5

LEMMA DeletionStep == ASSUME Delete!DeletionAssumption PROVE DeletionInv /\ [Delete!Next]_(Delete!deletionVars) => DeletionInv'
<1> SUFFICES ASSUME DeletionInv, [Delete!Next]_(Delete!deletionVars) PROVE DeletionInv'
  OBVIOUS
<1> USE DEF Delete!records, Delete!atStripe, Delete!counters
<1>0. /\ delRow \in Delete!Row /\ delProc \in [DelProcs -> Delete!Proc] /\ {delFaults, delStalls} \subseteq Nat
  BY DEF DeletionInv, Delete!TypeOK
<1>1. ASSUME UNCHANGED <<delTenant, delBarrier, delPurges, delUndoing, Delete!atStripe, delCheckout>>,
             delRow' \in Delete!Row, delRow'.state = delRow.state,
             \A q \in DelProcs : delProc'[q].pc = "idle" \/ delProc'[q] = delProc[q] \/ delBarrier.by # None,
             {delFaults', delStalls'} \subseteq Nat, delProc' \in [DelProcs -> Delete!Proc], Moved
      PROVE  DeletionInv'
  BY <1>1, DelQuietStep, MovedIsOK
<1>2. CASE Delete!LeaseExpires
  <2>1. delRow' \in Delete!Row /\ delRow'.state = delRow.state
    BY <1>0, <1>2, RowValues DEF Delete!LeaseExpires
  <2>2. {delFaults', delStalls'} \subseteq Nat /\ UNCHANGED <<delTenant, delBarrier, delPurges, delUndoing, Delete!atStripe, delCheckout, delProc>>
    BY <1>0, <1>2 DEF Delete!LeaseExpires
  <2> QED BY <1>0, <1>1, <2>1, <2>2 DEF Moved
<1>3. CASE Delete!BackoffPasses
  <2>1. delRow' \in Delete!Row /\ delRow'.state = delRow.state
    BY <1>0, <1>3, RowValues DEF Delete!BackoffPasses
  <2> QED BY <1>0, <1>1, <1>3, <2>1 DEF Moved, Delete!BackoffPasses
<1>4. ASSUME NEW p \in DelProcs, Delete!Sweep(p) PROVE DeletionInv'
  <2>1. PICK n \in Nat : n = delRow.token + 1
    BY <1>0 DEF Delete!Row
  <2>2. PICK x : x = [Delete!Idle EXCEPT !.pc = "barrier", !.token = n]
    OBVIOUS
  <2>3. x \in Delete!Proc /\ x.pc = "barrier"
    BY <2>2 DEF Delete!Idle, Delete!Proc, Delete!PC
  <2>4. delProc' = [delProc EXCEPT ![p] = x] /\ delRow' = Delete!Claimed(delRow)
    BY <1>4, <2>1, <2>2 DEF Delete!Sweep
  <2>5. delProc' \in [DelProcs -> Delete!Proc] /\ Moved
    BY <1>0, <2>3, <2>4, PutDoes DEF Moved
  <2>6. delRow' \in Delete!Row /\ delRow'.state = delRow.state
    BY <1>0, <2>4, RowValues
  <2>7. delBarrier.by # None
    BY <1>4 DEF Delete!Sweep, Delete!Claimable, DeletionInv, BarrierRecorded
  <2> QED BY <1>0, <1>1, <1>4, <2>5, <2>6, <2>7 DEF Delete!Sweep
<1>5. ASSUME NEW p \in DelProcs, Delete!AttemptFails(p) \/ Delete!ClaimLost(p) PROVE DeletionInv'
  <2>1. Delete!Goto(p, "failed") /\ "failed" \in Delete!PC
    BY <1>5 DEF Delete!AttemptFails, Delete!ClaimLost, Delete!PC
  <2>2. delProc' \in [DelProcs -> Delete!Proc] /\ Moved
    BY <1>0, <2>1, GotoDoes DEF Moved
  <2>3. {delFaults', delStalls'} \subseteq Nat /\ UNCHANGED <<delTenant, delBarrier, delRow, delPurges, delUndoing, Delete!atStripe, delCheckout>>
    BY <1>0, <1>5 DEF Delete!AttemptFails, Delete!ClaimLost, Delete!Fault
  <2>4. delBarrier.by # None
    BY <1>5 DEF Delete!AttemptFails, Delete!ClaimLost, Delete!AtStripe, DeletionInv, BarrierRecorded
  <2> QED BY <1>0, <1>1, <2>2, <2>3, <2>4
<1>6. ASSUME NEW p \in DelProcs, Delete!Crash(p) PROVE DeletionInv'
  <2>1. /\ delProc' \in [DelProcs -> Delete!Proc] /\ Moved
        /\ \A q \in DelProcs : delProc'[q].pc = "idle" \/ delProc'[q] = delProc[q]
    BY <1>0, <1>6, PutDoes, Values DEF Delete!Crash, Moved
  <2>2. {delFaults', delStalls'} \subseteq Nat /\ UNCHANGED <<delTenant, delBarrier, delRow, delPurges, delUndoing, Delete!atStripe, delCheckout>>
    BY <1>0, <1>6 DEF Delete!Crash, Delete!Fault
  <2> QED BY <1>0, <1>1, <2>1, <2>2
<1>7. CASE Delete!Next
  BY <1>2, <1>3, <1>4, <1>5, <1>6, <1>7, CustomerStep, AttemptStep, DelRequestStep DEF Delete!Next
<1>8. CASE UNCHANGED Delete!deletionVars
  BY <1>0, <1>1, <1>8 DEF Delete!deletionVars, Moved
<1> QED BY <1>7, <1>8

-----------------------------------------------------------------------------
(* The theorems. *)

LEMMA DeletionHolds == ASSUME Delete!DeletionAssumption PROVE Delete!Spec => []DeletionInv
BY DeletionInit, DeletionStep, PTL DEF Delete!Spec

\* Every variable of the deletion has its type.
THEOREM DeletionTypeCorrect == ASSUME Delete!DeletionAssumption PROVE Delete!Spec => []Delete!TypeOK
<1>1. DeletionInv => Delete!TypeOK
  BY DEF DeletionInv
<1> QED BY <1>1, DeletionHolds, PTL

\* finalizeDeletionBarrier purges only a tenant that is bound to nothing, has
\* no subscription and cannot begin one, whatever checkout was under way at
\* the barrier, however attempts overlap, crash and lose their lease.
THEOREM PurgedTenantOwesNothing == ASSUME Delete!DeletionAssumption PROVE Delete!Spec => []Delete!PurgedOwesNothing
<1>1. DeletionInv => Delete!PurgedOwesNothing
  BY DEF DeletionInv, NothingSold, DeletedIsEmpty, PurgedIsUnbound, Delete!PurgedOwesNothing
<1> QED BY <1>1, DeletionHolds, PTL

\* finalizeDeletionBarrier takes effect once, however many owners the
\* reconciliation row has had.
THEOREM DeletionIsFinalizedOnce == ASSUME Delete!DeletionAssumption PROVE Delete!Spec => []Delete!FinalizedOnce
<1>1. DeletionInv => Delete!FinalizedOnce
  BY DEF DeletionInv
<1> QED BY <1>1, DeletionHolds, PTL

-----------------------------------------------------------------------------
(* Subscription events. *)

(* The inductive invariant. *)

\* No event of the subscription is newer than the change n.
Latest(n, s) == \A f \in syncEvents : f.sub = s => f.n =< n

Counts == syncClock \in Nat /\ syncSecond \in Nat /\ syncSecond =< syncClock

\* A change emits events of one subscription, in the order of their ranks, later
\* ones in no earlier second, and a deletion is the last change of its
\* subscription.
SyncEventsOK ==
    /\ \A e \in syncEvents : e.n =< syncClock /\ e.at =< syncSecond
    /\ \A e, f \in syncEvents : e.n =< f.n => e.at =< f.at
    /\ \A e, f \in syncEvents : e.n = f.n => e.sub = f.sub /\ (e = f \/ Sync!Rank(e.type) # Sync!Rank(f.type))
    /\ \A e \in syncEvents : e.type = "deleted" =>
          /\ syncStripe[e.sub] = "canceled" /\ Latest(e.n, e.sub)
          /\ \A f \in syncEvents : f.n = e.n => f = e
    /\ \A s \in SyncSubs : syncStripe[s] = "canceled" => \E e \in syncEvents : e.sub = s /\ e.type = "deleted"

\* What a handler retrieved is what the subscription is, unless it has changed
\* since; and what had ended stays so.
SyncHandlerOK(r) ==
    /\ r.pc # "idle" => r.event \in syncEvents
    /\ r.pc = "unowned" => r.event.type # "deleted"
    /\ r.pc = "retrieved" =>
          /\ r.event.type # "deleted" /\ r.seen \in Sync!SubStatus
          /\ r.seen = "canceled" => syncStripe[r.event.sub] = "canceled"
          /\ Latest(r.event.n, r.event.sub) => r.seen = syncStripe[r.event.sub]
HandlersOK == \A h \in SyncHandlers : SyncHandlerOK(syncHandler[h])

SyncInv == Sync!TypeOK /\ Counts /\ SyncEventsOK /\ HandlersOK /\ Sync!EventAppliedOnce

\* Nothing is bound to a subscription whose deletion was applied, and who is
\* left without one by a deletion is cancelled.
DeletionsHold ==
    \A x \in syncLedger : x.event.type = "deleted" /\ x.outcome = "applied" =>
        /\ Sync!OutlivesItsSecond(x.event) => syncTenant.sub # x.event.sub
        /\ syncTenant.sub # None \/ syncTenant.status \in {"CANCELLED", "SUSPENDED"}

\* The newest event of a subscription, once applied, is the deletion that
\* released it, or the tenant has this subscription and shows it.
Overruled == syncTenant.status = "SUSPENDED" \/ syncActivated
Shown(s) == syncTenant.sub = s /\ (~Overruled => syncTenant.status \in Sync!Mirrors(syncStripe[s]))
NewestOK ==
    \A x \in syncLedger : x.outcome = "applied" /\ Sync!LastAndAlone(x.event) =>
        x.event.type = "deleted" \/ Shown(x.event.sub)

-----------------------------------------------------------------------------
(* Types. *)

LEMMA Kinds ==
    /\ "created" \in Sync!Types /\ "checkout" \in Sync!Types /\ "paid" \in Sync!Types /\ "updated" \in Sync!Types
    /\ "payment_failed" \in Sync!Types /\ "finalization_failed" \in Sync!Types /\ "paused" \in Sync!Types
    /\ "deleted" \in Sync!Types /\ "resumed" \in Sync!Types
    /\ Sync!Idle \in Sync!Handler /\ Sync!Idle.pc = "idle"
    /\ \A t \in Sync!Types : Sync!Rank(t) \in {0, 1}
<1>1. Sync!Idle \in Sync!Handler /\ Sync!Idle.pc = "idle"
  BY DEF Sync!Idle, Sync!Handler
<1>2. \A t \in Sync!Types : Sync!Rank(t) \in {0, 1}
  BY DEF Sync!Rank
<1> QED BY <1>1, <1>2 DEF Sync!Types, Sync!Invoice, Sync!Canonical, Sync!Initial

LEMMA InLedger ==
    ASSUME Sync!TypeOK, Sync!EventAppliedOnce, NEW x \in syncLedger
    PROVE  /\ x \in Sync!Entry /\ x.event \in syncEvents /\ x.event \in Sync!Event /\ x.priority \in Int
           /\ x.event.n \in Int /\ x.event.at \in Int /\ x.event.type \in Sync!Types /\ x.event.sub \in SyncSubs
BY DEF Sync!TypeOK, Sync!EventAppliedOnce, Sync!Entry, Sync!Event

LEMMA InEvents ==
    ASSUME Sync!TypeOK, NEW e \in syncEvents
    PROVE  e \in Sync!Event /\ e.n \in Int /\ e.n >= 1 /\ e.at \in Int /\ e.type \in Sync!Types /\ e.sub \in SyncSubs
BY DEF Sync!TypeOK, Sync!Event

LEMMA PriorityType == \A t, s : Sync!Priority(t, s) \in -2 .. 1
BY DEF Sync!Priority

LEMMA PriorityOfDeletion == \A s : Sync!Priority("deleted", s) = 1
BY DEF Sync!Priority

-----------------------------------------------------------------------------
(* The order of events. *)

\* An event of an earlier second is behind the one that was applied.
LEMMA EarlierIsStale ==
    ASSUME SyncInv, NEW x \in syncLedger, x.outcome = "applied", NEW e \in syncEvents,
           e.sub = x.event.sub, e.at < x.event.at, NEW p
    PROVE  Sync!Stale(e, p)
<1>1. x \in Sync!Applied(e.sub) /\ x.event.at \in Int /\ e.at \in Int
  BY InLedger, InEvents DEF Sync!Applied, SyncInv
<1>2. Sync!Ahead(x, e, p)
  BY <1>1 DEF Sync!Ahead
<1> QED BY <1>1, <1>2 DEF Sync!Stale

LEMMA LastIsLatest ==
    ASSUME SyncInv, NEW e \in syncEvents, Sync!LastAndAlone(e)
    PROVE  Latest(e.n, e.sub)
<1> SUFFICES ASSUME NEW f \in syncEvents, f.sub = e.sub PROVE f.n =< e.n
  BY DEF Latest
<1>1. e.n \in Int /\ f.n \in Int /\ e.at \in Int /\ f.at \in Int
  BY InEvents DEF SyncInv
<1>2. f.n = e.n \/ f.at < e.at
  BY DEF Sync!LastAndAlone
<1>3. e.n =< f.n => e.at =< f.at
  BY DEF SyncInv, SyncEventsOK
<1> QED BY <1>1, <1>2, <1>3
-----------------------------------------------------------------------------
(* What a transaction of handleWebhook does. *)

\* The change of the tenant by the event e with priority p and outcome o: none,
\* a subscription bound by an invoice that pays nothing, the deletion of the
\* bound subscription, or the state of the subscription that was retrieved.
Claims(e) == syncTenant.sub = e.sub \/ e.type \in Sync!Initial \/ syncTenant.status # "CANCELLED"
Effect(e, p, seen, o) ==
    \/ o # "applied" /\ syncTenant' = syncTenant
    \/ /\ o # "applied" /\ syncTenant.status # "SUSPENDED" /\ e.type # "deleted" /\ ~Sync!Stale(e, p)
       /\ Claims(e) /\ syncTenant.sub = None /\ syncTenant' = [syncTenant EXCEPT !.sub = e.sub]
    \/ /\ o = "applied" /\ syncTenant.status # "SUSPENDED" /\ e.type = "deleted" /\ ~Sync!Stale(e, p)
       /\ syncTenant.sub = e.sub /\ syncTenant' = Sync!Cancelled(syncTenant)
    \/ /\ o = "applied" /\ syncTenant.status # "SUSPENDED" /\ e.type # "deleted" /\ ~Sync!Stale(e, p)
       /\ Claims(e) /\ syncTenant.sub \in {None, e.sub} /\ syncTenant' = Sync!Synchronized(syncTenant, e, seen)

Result(e, p, seen) ==
    /\ syncAcked' = syncAcked \cup {e}
    /\ \/ Sync!Recorded(e) /\ syncLedger' = syncLedger /\ syncTenant' = syncTenant
       \/ /\ ~Sync!Recorded(e)
          /\ \E o \in Sync!Outcomes :
                /\ syncLedger' = syncLedger \cup {[event |-> e, priority |-> p, outcome |-> o]}
                /\ Effect(e, p, seen, o)

LEMMA CommitDoes ==
    ASSUME SyncInv, NEW h \in SyncHandlers, Sync!Commit(h)
    PROVE  \E e \in syncEvents, p \in -2 .. 1, seen \in Sync!SubStatus :
              /\ e.type # "deleted" =>
                    syncHandler[h].pc = "retrieved" /\ syncHandler[h].event = e /\ syncHandler[h].seen = seen
              /\ Result(e, p, seen)
<1>1. syncHandler[h] \in Sync!Handler /\ SyncHandlerOK(syncHandler[h]) /\ Sync!Ready(h)
  BY DEF SyncInv, Sync!TypeOK, HandlersOK, Sync!Commit
<1>2. PICK e : e = syncHandler[h].event
  OBVIOUS
<1>3. e \in syncEvents /\ (e.type # "deleted" => syncHandler[h].pc = "retrieved" /\ syncHandler[h].seen \in Sync!SubStatus)
  BY <1>1, <1>2 DEF Sync!Ready, SyncHandlerOK, Sync!NeedsSubscription
<1>4. PICK seen : seen = IF Sync!NeedsSubscription(e) THEN syncHandler[h].seen ELSE "canceled"
  OBVIOUS
<1>5. seen \in Sync!SubStatus /\ (e.type # "deleted" => syncHandler[h].seen = seen)
  BY <1>3, <1>4 DEF Sync!NeedsSubscription, Sync!SubStatus
<1>6. PICK p \in -2 .. 1 : p = Sync!Priority(e.type, seen)
  BY PriorityType
<1>7. PICK bound : bound = IF Sync!NeedsSubscription(e) THEN Sync!Bound(e, seen) ELSE syncTenant
  OBVIOUS
<1>8. Result(e, p, seen)
  <2>1. CASE Sync!Recorded(e) /\ syncAcked' = syncAcked \cup {e} /\ UNCHANGED <<syncLedger, syncTenant>>
    BY <2>1 DEF Result
  <2>2. CASE ~Sync!Recorded(e) /\ Sync!Record(e, p, "skipped_suspended") /\ UNCHANGED syncTenant
    BY <2>2 DEF Sync!Record, Sync!Outcomes, Effect, Result
  <2>3. ASSUME ~Sync!Recorded(e), syncTenant.status # "SUSPENDED", ~Sync!NeedsSubscription(e),
               NEW o, o = IF ~Sync!DeletionBinds(e) THEN "skipped_unverified_subscription"
                          ELSE IF Sync!Stale(e, p) THEN "skipped_stale" ELSE "applied",
               Sync!Record(e, p, o), syncTenant' = IF o = "applied" THEN Sync!Cancelled(syncTenant) ELSE syncTenant
        PROVE  Result(e, p, seen)
    <3>1. o \in Sync!Outcomes
      BY <2>3 DEF Sync!Outcomes
    <3>2. Effect(e, p, seen, o)
      BY <2>3 DEF Effect, Sync!DeletionBinds, Sync!NeedsSubscription
    <3> QED BY <2>3, <3>1, <3>2 DEF Sync!Record, Result
  <2>4. CASE ~Sync!Recorded(e) /\ Sync!Record(e, p, "skipped_stale") /\ UNCHANGED syncTenant
    BY <2>4 DEF Sync!Record, Sync!Outcomes, Effect, Result
  <2>5. ASSUME ~Sync!Recorded(e), syncTenant.status # "SUSPENDED", Sync!NeedsSubscription(e), ~Sync!Stale(e, p),
               Sync!Record(e, p, "skipped_unverified_subscription"),
               syncTenant' = IF bound = None THEN syncTenant ELSE bound
        PROVE  Result(e, p, seen)
    <3>1. bound = Sync!Bound(e, seen)
      BY <1>7, <2>5
    <3>2. CASE syncTenant' = syncTenant
      BY <2>5, <3>2 DEF Sync!Record, Sync!Outcomes, Effect, Result
    <3>3. CASE syncTenant' # syncTenant
      <4>1. bound # None /\ syncTenant' = bound /\ bound # syncTenant
        BY <2>5, <3>3
      <4>2. syncTenant.sub = None /\ bound = [syncTenant EXCEPT !.sub = e.sub] /\ Claims(e)
        BY <3>1, <4>1 DEF Sync!Bound, Claims
      <4> QED BY <2>5, <4>1, <4>2 DEF Sync!Record, Sync!Outcomes, Effect, Result, Sync!NeedsSubscription
    <3> QED BY <3>2, <3>3
  <2>6. ASSUME ~Sync!Recorded(e), syncTenant.status # "SUSPENDED", Sync!NeedsSubscription(e), ~Sync!Stale(e, p), bound # None,
               Sync!Record(e, p, "applied"), syncTenant' = Sync!Synchronized(bound, e, seen)
        PROVE  Result(e, p, seen)
    <3>1. bound = Sync!Bound(e, seen)
      BY <1>7, <2>6
    <3>2. syncTenant.sub \in {None, e.sub} /\ Claims(e)
      BY <2>6, <3>1 DEF Sync!Bound, Claims
    <3>3. syncTenant' = Sync!Synchronized(syncTenant, e, seen)
      BY <2>6 DEF Sync!Synchronized
    <3> QED BY <2>6, <3>2, <3>3 DEF Sync!Record, Sync!Outcomes, Effect, Result, Sync!NeedsSubscription
  <2> QED BY <1>2, <1>4, <1>6, <1>7, <2>1, <2>2, <2>3, <2>4, <2>5, <2>6 DEF Sync!Commit
<1> QED BY <1>2, <1>3, <1>5, <1>8

-----------------------------------------------------------------------------
(* Changes at Stripe. *)

\* What the events of one change have in common: a subscription that has ended
\* does not change, it ends with a deletion, and a deletion comes alone.
Regular(s, status, types) ==
    /\ syncStripe[s] # "canceled" /\ status \in Sync!SubStatus
    /\ types \subseteq Sync!Types /\ types # {}
    /\ \A t, u \in types : t = u \/ Sync!Rank(t) # Sync!Rank(u)
    /\ status = "canceled" <=> "deleted" \in types
    /\ "deleted" \in types => types = {"deleted"}

LEMMA Emitted ==
    ASSUME SyncInv, Sync!SyncAssumption, NEW s \in SyncSubs, NEW status, NEW types,
           Sync!Change(s, status, types), Regular(s, status, types)
    PROVE  /\ syncEvents' \subseteq Sync!Event /\ syncClock' \in Nat /\ syncStripe' \in [SyncSubs -> Sync!SubStatus]
           /\ syncEvents \subseteq syncEvents'
           /\ syncSecond' \in Nat /\ syncSecond =< syncSecond' /\ syncSecond' =< syncClock'
           /\ \A e \in syncEvents' \ syncEvents : e.type \in types /\ e.sub = s /\ e.n = syncClock + 1 /\ e.at = syncSecond'
           /\ \A t \in types : [type |-> t, sub |-> s, n |-> syncClock + 1, at |-> syncSecond'] \in syncEvents'
           /\ \A e \in syncEvents : e.n < syncClock + 1 /\ e.at =< syncSecond'
<1>0. syncSecond \in Nat /\ syncSecond =< syncClock /\ syncSecond' \in {syncSecond, syncSecond + 1} \ {0}
  BY DEF SyncInv, Counts, Sync!Change
<1>1. /\ syncClock \in Nat /\ SyncMaxChanges \in Nat /\ syncClock < SyncMaxChanges /\ syncClock' = syncClock + 1
      /\ syncStripe' = [syncStripe EXCEPT ![s] = status] /\ syncStripe \in [SyncSubs -> Sync!SubStatus]
      /\ syncEvents' = syncEvents \cup {[type |-> t, sub |-> s, n |-> syncClock + 1, at |-> syncSecond'] : t \in types}
      /\ status \in Sync!SubStatus /\ types \subseteq Sync!Types /\ syncEvents \subseteq Sync!Event
  BY DEF SyncInv, Sync!SyncAssumption, Counts, Sync!TypeOK, Sync!Change, Regular
<1>2. /\ syncClock + 1 \in 1 .. SyncMaxChanges /\ syncSecond' \in 1 .. SyncMaxChanges
      /\ syncSecond' \in Nat /\ syncSecond =< syncSecond' /\ syncSecond' =< syncClock'
  BY <1>0, <1>1
<1>3. \A t \in types : [type |-> t, sub |-> s, n |-> syncClock + 1, at |-> syncSecond'] \in Sync!Event
  BY <1>1, <1>2 DEF Sync!Event
<1>4. \A e \in syncEvents : e.n < syncClock + 1 /\ e.at =< syncSecond'
  BY <1>0, <1>1, <1>2, InEvents DEF SyncInv, SyncEventsOK
<1>5. \A e \in syncEvents' \ syncEvents : e.type \in types /\ e.sub = s /\ e.n = syncClock + 1 /\ e.at = syncSecond'
  BY <1>1
<1> QED BY <1>1, <1>2, <1>3, <1>4, <1>5

\* A change leaves an older event the latest of another subscription only.
LEMMA OvertakenBy ==
    ASSUME SyncInv, Sync!SyncAssumption, NEW s \in SyncSubs, NEW status, NEW types,
           Sync!Change(s, status, types), Regular(s, status, types),
           NEW e \in syncEvents, Latest(e.n, e.sub)'
    PROVE  e.sub # s /\ Latest(e.n, e.sub)
<1>1. PICK t \in types : TRUE
  BY DEF Regular
<1>2. PICK f \in syncEvents' : f.sub = s /\ f.n = syncClock + 1
  <2>1. PICK f \in syncEvents' : f = [type |-> t, sub |-> s, n |-> syncClock + 1, at |-> syncSecond']
    BY <1>1, Emitted
  <2> QED BY <2>1
<1>3. e.n < syncClock + 1 /\ syncEvents \subseteq syncEvents'
  BY Emitted
<1>4. e.n \in Int /\ syncClock \in Int
  BY InEvents DEF SyncInv, Counts
<1>5. e.sub # s
  BY <1>2, <1>3, <1>4 DEF Latest
<1> QED BY <1>3, <1>5 DEF Latest

\* And it leaves one alone in its second, as the last, only there.
LEMMA AloneStays ==
    ASSUME SyncInv, Sync!SyncAssumption, NEW s \in SyncSubs, NEW status, NEW types,
           Sync!Change(s, status, types), Regular(s, status, types),
           NEW e \in syncEvents, Sync!LastAndAlone(e)'
    PROVE  e.sub # s /\ Sync!LastAndAlone(e)
<1>1. PICK t \in types : TRUE
  BY DEF Regular
<1>2. PICK f \in syncEvents' : f.sub = s /\ f.n = syncClock + 1 /\ f.at = syncSecond'
  <2>1. PICK f \in syncEvents' : f = [type |-> t, sub |-> s, n |-> syncClock + 1, at |-> syncSecond']
    BY <1>1, Emitted
  <2> QED BY <2>1
<1>3. e.n < syncClock + 1 /\ e.at =< syncSecond' /\ syncEvents \subseteq syncEvents' /\ syncSecond' \in Nat
  BY Emitted
<1>4. e.n \in Int /\ syncClock \in Int /\ e.at \in Int
  BY InEvents DEF SyncInv, Counts
<1>5. e.sub # s
  BY <1>2, <1>3, <1>4 DEF Sync!LastAndAlone
<1> QED BY <1>3, <1>5 DEF Sync!LastAndAlone

LEMMA ChangeKeepsEvents ==
    ASSUME SyncInv, Sync!SyncAssumption, NEW s \in SyncSubs, NEW status, NEW types,
           Sync!Change(s, status, types), Regular(s, status, types)
    PROVE  SyncEventsOK'
<1>1. /\ syncClock \in Nat /\ syncClock' = syncClock + 1 /\ syncStripe \in [SyncSubs -> Sync!SubStatus]
      /\ syncStripe' = [syncStripe EXCEPT ![s] = status] /\ SyncEventsOK
  BY DEF SyncInv, Counts, Sync!TypeOK, Sync!Change
<1>2. \A e \in syncEvents : /\ e.n \in Int /\ e.n < syncClock + 1 /\ e.sub \in SyncSubs
                             /\ e.at \in Int /\ e.at =< syncSecond'
  BY Emitted, InEvents DEF SyncInv
<1>3. \A e \in syncEvents' : e \in syncEvents \/ (e.type \in types /\ e.sub = s /\ e.n = syncClock + 1 /\ e.at = syncSecond')
  BY Emitted
<1>4. \A e \in syncEvents' : e \in Sync!Event
  BY Emitted
<1>5. \A e \in syncEvents' : e.n =< syncClock' /\ e.at =< syncSecond'
  BY <1>1, <1>2, <1>3, Emitted
<1>9. ASSUME NEW e \in syncEvents', NEW f \in syncEvents', e.n =< f.n PROVE e.at =< f.at
  <2>1. CASE e \in syncEvents /\ f \in syncEvents
    BY <1>1, <1>9, <2>1 DEF SyncEventsOK
  <2>2. CASE f \notin syncEvents
    BY <1>3, <1>5, <2>2
  <2>3. CASE e \notin syncEvents /\ f \in syncEvents
    BY <1>1, <1>2, <1>3, <1>9, <2>3
  <2> QED BY <2>1, <2>2, <2>3
<1>6. ASSUME NEW e \in syncEvents', NEW f \in syncEvents', e.n = f.n
      PROVE  e.sub = f.sub /\ (e = f \/ Sync!Rank(e.type) # Sync!Rank(f.type))
  <2>1. CASE e \in syncEvents /\ f \in syncEvents
    BY <1>1, <1>6, <2>1 DEF SyncEventsOK
  <2>2. CASE e \notin syncEvents /\ f \notin syncEvents
    <3>1. e.type \in types /\ f.type \in types /\ e.sub = f.sub /\ e.at = f.at
      BY <1>3, <2>2
    <3>2. e.type = f.type => e = f
      BY <1>4, <1>6, <3>1 DEF Sync!Event
    <3> QED BY <3>1, <3>2 DEF Regular
  <2>3. CASE e \in syncEvents /\ f \notin syncEvents
    BY <1>1, <1>2, <1>3, <1>6, <2>3
  <2>4. CASE e \notin syncEvents /\ f \in syncEvents
    BY <1>1, <1>2, <1>3, <1>6, <2>4
  <2> QED BY <2>1, <2>2, <2>3, <2>4
<1>7. ASSUME NEW e \in syncEvents', e.type = "deleted"
      PROVE  syncStripe'[e.sub] = "canceled" /\ Latest(e.n, e.sub)' /\ \A f \in syncEvents' : f.n = e.n => f = e
  <2>1. CASE e \in syncEvents
    <3>1. syncStripe[e.sub] = "canceled" /\ Latest(e.n, e.sub) /\ \A f \in syncEvents : f.n = e.n => f = e
      BY <1>1, <1>7, <2>1 DEF SyncEventsOK
    <3>2. e.sub # s
      BY <3>1 DEF Regular
    <3>3. syncStripe'[e.sub] = "canceled"
      BY <1>1, <1>2, <2>1, <3>1, <3>2
    <3>4. \A f \in syncEvents' : f.sub = e.sub => f.n =< e.n
      BY <1>3, <3>1, <3>2 DEF Latest
    <3>5. \A f \in syncEvents' : f.n = e.n => f = e
      BY <1>1, <1>2, <1>3, <2>1, <3>1
    <3> QED BY <3>3, <3>4, <3>5 DEF Latest
  <2>2. CASE e \notin syncEvents
    <3>1. e.sub = s /\ e.n = syncClock + 1 /\ types = {"deleted"} /\ status = "canceled"
      BY <1>3, <1>7, <2>2 DEF Regular
    <3>2. \A f \in syncEvents' : f.n =< e.n
      BY <1>1, <1>2, <1>3, <3>1
    <3>3. ASSUME NEW f \in syncEvents', f.n = e.n PROVE f = e
      <4>1. f \notin syncEvents
        BY <1>1, <1>2, <3>1, <3>3
      <4>2. f.type = e.type /\ f.sub = e.sub /\ f.at = e.at
        BY <1>3, <1>7, <2>2, <3>1, <4>1
      <4> QED BY <1>4, <3>3, <4>2 DEF Sync!Event
    <3> QED BY <1>1, <3>1, <3>2, <3>3 DEF Latest
  <2> QED BY <2>1, <2>2
<1>8. ASSUME NEW k \in SyncSubs, syncStripe'[k] = "canceled"
      PROVE  \E e \in syncEvents' : e.sub = k /\ e.type = "deleted"
  <2>1. CASE k = s
    <3>1. "deleted" \in types
      BY <1>1, <1>8, <2>1 DEF Regular
    <3>2. PICK e \in syncEvents' : e = [type |-> "deleted", sub |-> s, n |-> syncClock + 1, at |-> syncSecond']
      BY <3>1, Emitted
    <3> QED BY <2>1, <3>2
  <2>2. CASE k # s
    <3>1. syncStripe[k] = "canceled"
      BY <1>1, <1>8, <2>2
    <3> QED BY <1>1, <3>1, Emitted DEF SyncEventsOK
  <2> QED BY <2>1, <2>2
<1> QED BY <1>5, <1>6, <1>7, <1>8, <1>9 DEF SyncEventsOK

LEMMA ChangeKeepsHandlers ==
    ASSUME SyncInv, Sync!SyncAssumption, NEW s \in SyncSubs, NEW status, NEW types,
           Sync!Change(s, status, types), Regular(s, status, types), UNCHANGED syncHandler
    PROVE  HandlersOK'
<1> SUFFICES ASSUME NEW h \in SyncHandlers PROVE SyncHandlerOK(syncHandler[h])'
  BY DEF HandlersOK
<1>1. PICK r : r = syncHandler[h]
  OBVIOUS
<1>2. r \in Sync!Handler /\ SyncHandlerOK(r) /\ syncHandler'[h] = r
  BY <1>1 DEF SyncInv, Sync!TypeOK, HandlersOK
<1>3. syncStripe' = [syncStripe EXCEPT ![s] = status] /\ syncStripe \in [SyncSubs -> Sync!SubStatus] /\ syncStripe[s] # "canceled"
  BY DEF SyncInv, Sync!TypeOK, Sync!Change, Regular
<1>4. r.pc # "idle" => r.event \in syncEvents /\ r.event \in syncEvents' /\ r.event.sub \in SyncSubs
  BY <1>2, Emitted, InEvents DEF SyncInv, SyncHandlerOK
<1>5. ASSUME r.pc = "retrieved", r.seen = "canceled" PROVE syncStripe'[r.event.sub] = "canceled"
  BY <1>2, <1>3, <1>4, <1>5 DEF SyncHandlerOK
<1>6. ASSUME r.pc = "retrieved", Latest(r.event.n, r.event.sub)' PROVE r.seen = syncStripe'[r.event.sub]
  <2>1. PICK e \in syncEvents : e = r.event
    BY <1>4, <1>6
  <2>2. Latest(e.n, e.sub)'
    BY <1>6, <2>1
  <2>3. e.sub # s /\ Latest(e.n, e.sub)
    BY <2>2, OvertakenBy
  <2> QED BY <1>2, <1>3, <1>4, <1>6, <2>1, <2>3 DEF SyncHandlerOK
<1>7. SyncHandlerOK(r)'
  BY <1>2, <1>4, <1>5, <1>6 DEF SyncHandlerOK
<1> QED BY <1>2, <1>7 DEF SyncHandlerOK
-----------------------------------------------------------------------------
(* The steps. *)

\* A step that only Stripe or an administrator takes.
SyncQuiet == UNCHANGED <<syncLedger, syncAcked, syncHandler>>

\* Every kind of change is regular.
AtStripe(s) ==
    \E status, types : Sync!Change(s, status, types) /\ Regular(s, status, types)

LEMMA ChangesAreRegular ==
    ASSUME SyncInv, NEW s \in SyncSubs,
           \/ Sync!Subscribe(s) \/ Sync!Pay(s) \/ Sync!FailPayment(s) \/ Sync!Pause(s) \/ Sync!Cancel(s)
           \/ Sync!ResumeTenantSubscription(s)
    PROVE  AtStripe(s) /\ SyncQuiet /\ UNCHANGED Sync!admin
<1>1. /\ \A t \in {"created", "checkout"} : t \in Sync!Types
      /\ \A t \in {"paid", "updated"} : t \in Sync!Types
      /\ \A t \in {"payment_failed", "updated"} : t \in Sync!Types
      /\ \A t \in {"finalization_failed", "paused", "deleted", "resumed"} : t \in Sync!Types
  BY Kinds
<1>2. /\ Sync!Rank("created") # Sync!Rank("checkout") /\ Sync!Rank("paid") # Sync!Rank("updated")
      /\ Sync!Rank("payment_failed") # Sync!Rank("updated")
  BY DEF Sync!Rank
<1>3. CASE Sync!Subscribe(s)
  <2>1. PICK status \in {"incomplete", "trialing", "active"} : Sync!Change(s, status, {"created", "checkout"})
    BY <1>3 DEF Sync!Subscribe
  <2>2. Regular(s, status, {"created", "checkout"})
    BY <1>1, <1>2, <1>3, <2>1 DEF Regular, Sync!Subscribe, Sync!SubStatus
  <2> QED BY <1>3, <2>1, <2>2 DEF AtStripe, SyncQuiet, Sync!admin, Sync!Subscribe
<1>4. CASE Sync!Pay(s)
  <2>1. Sync!Change(s, "active", {"paid", "updated"})
    BY <1>4 DEF Sync!Pay
  <2>2. Regular(s, "active", {"paid", "updated"})
    BY <1>1, <1>2, <1>4 DEF Regular, Sync!Pay, Sync!SubStatus
  <2> QED BY <1>4, <2>1, <2>2 DEF AtStripe, SyncQuiet, Sync!admin, Sync!Pay
<1>5. CASE Sync!FailPayment(s)
  <2>1. CASE Sync!Change(s, "past_due", {"payment_failed", "updated"})
    <3>1. Regular(s, "past_due", {"payment_failed", "updated"})
      BY <1>1, <1>2, <1>5 DEF Regular, Sync!FailPayment, Sync!SubStatus
    <3> QED BY <1>5, <2>1, <3>1 DEF AtStripe, SyncQuiet, Sync!admin, Sync!FailPayment
  <2>2. CASE Sync!Change(s, syncStripe[s], {"finalization_failed"})
    <3>1. Regular(s, syncStripe[s], {"finalization_failed"})
      BY <1>1, <1>5 DEF Regular, Sync!FailPayment, Sync!SubStatus
    <3> QED BY <1>5, <2>2, <3>1 DEF AtStripe, SyncQuiet, Sync!admin, Sync!FailPayment
  <2> QED BY <1>5, <2>1, <2>2 DEF Sync!FailPayment
<1>6. CASE Sync!Pause(s)
  <2>1. Sync!Change(s, "paused", {"paused"})
    BY <1>6 DEF Sync!Pause
  <2>2. Regular(s, "paused", {"paused"})
    BY <1>1, <1>6 DEF Regular, Sync!Pause, Sync!SubStatus
  <2> QED BY <1>6, <2>1, <2>2 DEF AtStripe, SyncQuiet, Sync!admin, Sync!Pause
<1>7. CASE Sync!Cancel(s)
  <2>1. Sync!Change(s, "canceled", {"deleted"})
    BY <1>7 DEF Sync!Cancel
  <2>2. Regular(s, "canceled", {"deleted"})
    BY <1>1, <1>7 DEF Regular, Sync!Cancel, Sync!SubStatus
  <2> QED BY <1>7, <2>1, <2>2 DEF AtStripe, SyncQuiet, Sync!admin, Sync!Cancel
<1>8. CASE Sync!ResumeTenantSubscription(s)
  <2>1. PICK status \in {"active", "past_due"} : Sync!Change(s, status, {"resumed"})
    BY <1>8 DEF Sync!ResumeTenantSubscription
  <2>2. Regular(s, status, {"resumed"})
    BY <1>1, <1>8, <2>1 DEF Regular, Sync!ResumeTenantSubscription, Sync!SubStatus
  <2> QED BY <1>8, <2>1, <2>2 DEF AtStripe, SyncQuiet, Sync!admin, Sync!ResumeTenantSubscription
<1> QED BY <1>3, <1>4, <1>5, <1>6, <1>7, <1>8

\* Who else than a webhook changes the tenant: it keeps its subscription.
Kept == syncTenant' \in Sync!Tenant /\ syncTenant'.sub = syncTenant.sub

LEMMA ChangeStep ==
    ASSUME SyncInv, Sync!SyncAssumption, NEW s \in SyncSubs, AtStripe(s), SyncQuiet, UNCHANGED Sync!admin, Kept
    PROVE  SyncInv'
<1>1. PICK status, types : Sync!Change(s, status, types) /\ Regular(s, status, types)
  BY DEF AtStripe
<1>2. SyncEventsOK' /\ HandlersOK'
  BY <1>1, ChangeKeepsEvents, ChangeKeepsHandlers DEF SyncQuiet
<1>3. Sync!TypeOK' /\ Counts'
  BY <1>1, Emitted DEF Sync!TypeOK, Counts, SyncQuiet, Kept, SyncInv, Sync!admin
<1> QED BY <1>2, <1>3 DEF SyncInv, Sync!EventAppliedOnce, SyncQuiet

LEMMA AdminStep ==
    ASSUME SyncInv, SyncQuiet, UNCHANGED Sync!provider, syncTenant' \in Sync!Tenant, syncActivation' \in SyncSubs \cup {None}
    PROVE  SyncInv'
BY DEF SyncInv, SyncQuiet, Sync!provider, Sync!TypeOK, Counts, SyncEventsOK, HandlersOK, SyncHandlerOK, Sync!EventAppliedOnce, Latest

\* A handler takes up an event, retrieves its subscription or ends.
LEMMA HandlerStep ==
    ASSUME SyncInv, NEW h \in SyncHandlers, NEW r, r \in Sync!Handler, SyncHandlerOK(r),
           syncHandler' = [syncHandler EXCEPT ![h] = r], UNCHANGED <<Sync!provider, syncTenant, syncLedger, Sync!admin>>,
           syncAcked' = syncAcked \/ \E e \in syncEvents : syncAcked' = syncAcked \cup {e}
    PROVE  SyncInv'
<1>1. Sync!TypeOK' /\ Counts'
  BY DEF SyncInv, Sync!provider, Sync!admin, Sync!TypeOK, Counts
<1>2. SyncEventsOK'
  BY DEF SyncInv, Sync!provider, SyncEventsOK, Latest
<1>3. HandlersOK'
  <2> SUFFICES ASSUME NEW k \in SyncHandlers PROVE SyncHandlerOK(syncHandler[k])'
    BY DEF HandlersOK
  <2>1. PICK q : q = syncHandler'[k]
    OBVIOUS
  <2>2. SyncHandlerOK(q)
    BY <2>1 DEF SyncInv, Sync!TypeOK, HandlersOK
  <2>3. SyncHandlerOK(q)'
    BY <2>2 DEF SyncHandlerOK, Latest, Sync!provider
  <2> QED BY <2>1, <2>3 DEF SyncHandlerOK
<1>4. Sync!EventAppliedOnce'
  BY DEF SyncInv, Sync!EventAppliedOnce
<1> QED BY <1>1, <1>2, <1>3, <1>4 DEF SyncInv

LEMMA IdleIsOK == SyncHandlerOK(Sync!Idle) /\ Sync!Idle \in Sync!Handler
BY Kinds DEF SyncHandlerOK, Sync!Idle
LEMMA CommitStep ==
    ASSUME SyncInv, Sync!SyncAssumption, NEW h \in SyncHandlers, Sync!Commit(h)
    PROVE  SyncInv'
<1>1. PICK e \in syncEvents, p \in -2 .. 1, seen \in Sync!SubStatus : Result(e, p, seen)
  BY CommitDoes
<1>2. syncHandler' = [syncHandler EXCEPT ![h] = Sync!Idle] /\ UNCHANGED <<Sync!provider, Sync!admin, Sync!bounds>>
  BY DEF Sync!Commit
<1>3. e \in Sync!Event /\ e.sub \in SyncSubs /\ syncTenant \in Sync!Tenant
  BY InEvents DEF SyncInv, Sync!TypeOK
<1>4. syncTenant' \in Sync!Tenant
  <2>1. ASSUME NEW o, Effect(e, p, seen, o) PROVE syncTenant' \in Sync!Tenant
    <3>1. [syncTenant EXCEPT !.sub = e.sub] \in Sync!Tenant
      BY <1>3 DEF Sync!Tenant
    <3>2. Sync!Cancelled(syncTenant) \in Sync!Tenant
      BY <1>3 DEF Sync!Tenant, Sync!Cancelled, Sync!TenantStatus
    <3>3. Sync!Synchronized(syncTenant, e, seen) \in Sync!Tenant
      BY <1>3 DEF Sync!Tenant, Sync!Synchronized, Sync!TenantStatus
    <3> QED BY <1>3, <2>1, <3>1, <3>2, <3>3 DEF Effect
  <2> QED BY <1>1, <1>3, <2>1 DEF Result
<1>5. syncLedger' \subseteq Sync!Entry /\ Sync!EventAppliedOnce'
  <2>1. CASE syncLedger' = syncLedger
    BY <1>1, <2>1 DEF Result, SyncInv, Sync!TypeOK, Sync!EventAppliedOnce
  <2>2. CASE ~Sync!Recorded(e) /\ \E o \in Sync!Outcomes : syncLedger' = syncLedger \cup {[event |-> e, priority |-> p, outcome |-> o]}
    <3>1. PICK o \in Sync!Outcomes : syncLedger' = syncLedger \cup {[event |-> e, priority |-> p, outcome |-> o]}
      BY <2>2
    <3>2. PICK z : z = [event |-> e, priority |-> p, outcome |-> o]
      OBVIOUS
    <3>3. z \in Sync!Entry /\ z.event = e /\ syncLedger' = syncLedger \cup {z}
      BY <1>3, <3>1, <3>2 DEF Sync!Entry
    <3>4. \A x \in syncLedger : x.event # e
      BY <2>2 DEF Sync!Recorded
    <3>5. syncAcked' = syncAcked \cup {e} /\ Sync!EventAppliedOnce /\ syncLedger \subseteq Sync!Entry
      BY <1>1 DEF Result, SyncInv, Sync!TypeOK
    <3> QED BY <3>3, <3>4, <3>5 DEF Sync!EventAppliedOnce
  <2> QED BY <1>1, <2>1, <2>2 DEF Result
<1>6. Sync!TypeOK' /\ Counts'
  <2>1. syncAcked' \subseteq syncEvents
    BY <1>1 DEF Result, SyncInv, Sync!TypeOK
  <2> QED BY <1>2, <1>4, <1>5, <2>1, IdleIsOK DEF SyncInv, Sync!TypeOK, Counts, Sync!provider, Sync!admin, Sync!bounds
<1>7. SyncEventsOK'
  BY <1>2 DEF SyncInv, Sync!provider, SyncEventsOK, Latest
<1>8. HandlersOK'
  <2> SUFFICES ASSUME NEW k \in SyncHandlers PROVE SyncHandlerOK(syncHandler[k])'
    BY DEF HandlersOK
  <2>1. PICK q : q = syncHandler'[k]
    OBVIOUS
  <2>2. SyncHandlerOK(q)
    BY <1>2, <2>1, IdleIsOK DEF SyncInv, Sync!TypeOK, HandlersOK
  <2>3. SyncHandlerOK(q)'
    BY <1>2, <2>2 DEF SyncHandlerOK, Latest, Sync!provider
  <2> QED BY <2>1, <2>3 DEF SyncHandlerOK
<1> QED BY <1>5, <1>6, <1>7, <1>8 DEF SyncInv

LEMMA SyncReceiveStep ==
    ASSUME SyncInv, Sync!SyncAssumption, NEW h \in SyncHandlers, NEW e \in syncEvents, Sync!Receive(h, e)
    PROVE  SyncInv' /\ UNCHANGED <<Sync!provider, syncTenant, syncFits, syncLedger, Sync!admin>>
<1>1. UNCHANGED <<Sync!provider, syncTenant, syncFits, syncLedger, Sync!admin>>
  BY DEF Sync!Receive, Sync!bounds, Sync!Fault
<1>2. CASE Sync!Resolution(e) = "nobody"
  <2>1. PICK r : r = syncHandler[h]
    OBVIOUS
  <2>2. r \in Sync!Handler /\ SyncHandlerOK(r) /\ syncHandler' = [syncHandler EXCEPT ![h] = r] /\ syncAcked' = syncAcked \cup {e}
    BY <1>2, <2>1 DEF Sync!Receive, SyncInv, Sync!TypeOK, HandlersOK
  <2> QED BY <1>1, <2>2, HandlerStep
<1>3. CASE Sync!Resolution(e) # "nobody"
  <2>1. PICK r : r = [Sync!Idle EXCEPT !.pc = Sync!Resolution(e), !.event = e]
    OBVIOUS
  <2>2. Sync!Resolution(e) = "resolved" \/ (Sync!Resolution(e) = "unowned" /\ e.type # "deleted")
    BY <1>3 DEF Sync!Resolution, Sync!Invoice
  <2>3. r.pc = Sync!Resolution(e) /\ r.event = e /\ r.seen = None
    BY <2>1 DEF Sync!Idle
  <2>4. r \in Sync!Handler
    BY <2>1, <2>2, InEvents DEF SyncInv, Sync!Idle, Sync!Handler
  <2>5. SyncHandlerOK(r)
    BY <2>2, <2>3 DEF SyncHandlerOK
  <2>6. syncHandler' = [syncHandler EXCEPT ![h] = r] /\ syncAcked' = syncAcked
    BY <1>3, <2>1 DEF Sync!Receive
  <2> QED BY <1>1, <2>4, <2>5, <2>6, HandlerStep
<1> QED BY <1>2, <1>3

LEMMA RetrieveStep ==
    ASSUME SyncInv, Sync!SyncAssumption, NEW h \in SyncHandlers, Sync!Retrieve(h)
    PROVE  SyncInv' /\ UNCHANGED <<Sync!provider, syncTenant, syncFits, syncLedger, Sync!admin>>
<1>1. UNCHANGED <<Sync!provider, syncTenant, syncFits, syncLedger, Sync!admin>> /\ syncAcked' = syncAcked
  BY DEF Sync!Retrieve, Sync!bounds
<1>2. PICK e, r : /\ e = syncHandler[h].event
                  /\ r = IF syncHandler[h].pc = "unowned" /\ syncTenant.sub \notin {None, e.sub} THEN Sync!Idle
                         ELSE [syncHandler[h] EXCEPT !.pc = "retrieved", !.seen = syncStripe[e.sub]]
  OBVIOUS
<1>3. syncHandler' = [syncHandler EXCEPT ![h] = r]
  BY <1>2 DEF Sync!Retrieve, SyncInv, Sync!TypeOK
<1>4. syncHandler[h] \in Sync!Handler /\ SyncHandlerOK(syncHandler[h]) /\ syncStripe \in [SyncSubs -> Sync!SubStatus]
  BY DEF SyncInv, Sync!TypeOK, HandlersOK
<1>5. e \in syncEvents /\ e.type # "deleted" /\ e.sub \in SyncSubs
  BY <1>2, <1>4, InEvents DEF Sync!Retrieve, SyncHandlerOK, Sync!NeedsSubscription, SyncInv
<1>6. CASE r = Sync!Idle
  BY <1>1, <1>3, <1>6, IdleIsOK, HandlerStep
<1>7. CASE r = [syncHandler[h] EXCEPT !.pc = "retrieved", !.seen = syncStripe[e.sub]]
  <2>1. r \in Sync!Handler /\ r.pc = "retrieved" /\ r.event = e /\ r.seen = syncStripe[e.sub]
    BY <1>2, <1>4, <1>5, <1>7 DEF Sync!Handler
  <2>2. SyncHandlerOK(r)
    BY <1>4, <1>5, <2>1 DEF SyncHandlerOK
  <2> QED BY <1>1, <1>3, <2>1, <2>2, HandlerStep
<1> QED BY <1>2, <1>6, <1>7

\* Every step is one of these.
Webhook == \E h \in SyncHandlers : Sync!Commit(h)
Handling == UNCHANGED <<Sync!provider, syncTenant, syncFits, syncLedger, Sync!admin>>
Changing == \E s \in SyncSubs :
    /\ AtStripe(s) /\ Kept /\ UNCHANGED <<syncFits, Sync!admin>> /\ syncLedger' = syncLedger
    /\ syncTenant' = syncTenant \/ syncTenant.sub = s
Ruling ==
    /\ SyncQuiet /\ UNCHANGED Sync!provider /\ Kept /\ syncLedger' = syncLedger
    /\ syncActivated' = syncActivated \/ syncActivated' = TRUE
    /\ syncFits' = syncFits \/ syncFits' = FALSE
    /\ \/ syncTenant'.status \in {syncTenant.status, "SUSPENDED"}
       \/ syncActivated' = TRUE /\ syncTenant.sub # None

LEMMA StepKinds ==
    ASSUME SyncInv, Sync!SyncAssumption, [Sync!Next]_(Sync!syncVars)
    PROVE  SyncInv' /\ (Webhook \/ Handling \/ Changing \/ Ruling)
<1>1. syncTenant \in Sync!Tenant /\ syncActivation \in SyncSubs \cup {None}
  BY DEF SyncInv, Sync!TypeOK
<1>2. CASE UNCHANGED Sync!syncVars
  <2>1. SyncQuiet /\ UNCHANGED Sync!provider
    BY <1>2 DEF SyncQuiet, Sync!provider, Sync!syncVars
  <2> QED BY <1>1, <1>2, <2>1, AdminStep DEF Sync!syncVars, Handling, Sync!admin
<1>3. ASSUME NEW s \in SyncSubs, Sync!Subscribe(s) \/ Sync!Pay(s) \/ Sync!FailPayment(s) \/ Sync!Pause(s) \/ Sync!Cancel(s)
      PROVE  SyncInv' /\ Changing
  <2>1. AtStripe(s) /\ SyncQuiet /\ UNCHANGED Sync!admin
    BY <1>3, ChangesAreRegular
  <2>2. UNCHANGED <<syncTenant, syncFits>>
    BY <1>3 DEF Sync!Subscribe, Sync!Pay, Sync!FailPayment, Sync!Pause, Sync!Cancel
  <2> QED BY <1>1, <2>1, <2>2, ChangeStep DEF Changing, Kept, SyncQuiet
<1>4. ASSUME NEW s \in SyncSubs, Sync!ResumeTenantSubscription(s) PROVE SyncInv' /\ Changing
  <2>1. AtStripe(s) /\ SyncQuiet /\ UNCHANGED Sync!admin
    BY <1>4, ChangesAreRegular
  <2>2. syncTenant.sub = s /\ UNCHANGED syncFits
    BY <1>4 DEF Sync!ResumeTenantSubscription
  <2>3. Kept
    <3>1. PICK status \in {"active", "past_due"} : syncTenant' = syncTenant \/ syncTenant' = Sync!Synchronized(syncTenant, [sub |-> s], status)
      BY <1>4 DEF Sync!ResumeTenantSubscription
    <3> QED BY <1>1, <2>2, <3>1 DEF Sync!Synchronized, Kept, Sync!Tenant, Sync!TenantStatus
  <2> QED BY <1>1, <2>1, <2>2, <2>3, ChangeStep DEF Changing, SyncQuiet
<1>5. ASSUME NEW h \in SyncHandlers, Sync!Handle(h) PROVE SyncInv' /\ (Webhook \/ Handling)
  <2>1. CASE \E e \in syncEvents : Sync!Receive(h, e)
    BY <2>1, SyncReceiveStep DEF Handling
  <2>2. CASE Sync!Retrieve(h)
    BY <2>2, RetrieveStep DEF Handling
  <2>3. CASE Sync!Commit(h)
    BY <2>3, CommitStep DEF Webhook
  <2>4. CASE Sync!HandlerFails(h)
    <3>1. UNCHANGED <<Sync!provider, syncTenant, syncFits, syncLedger, Sync!admin, syncAcked>> /\ syncHandler' = [syncHandler EXCEPT ![h] = Sync!Idle]
      BY <2>4 DEF Sync!HandlerFails
    <3> QED BY <3>1, IdleIsOK, HandlerStep DEF Handling
  <2> QED BY <1>5, <2>1, <2>2, <2>3, <2>4 DEF Sync!Handle
<1>6. CASE Sync!SuspendTenant \/ Sync!CheckActivation \/ Sync!ActivateTenant \/ Sync!Outgrow
  <2>1. SyncQuiet /\ UNCHANGED Sync!provider /\ syncLedger' = syncLedger
    BY <1>6 DEF SyncQuiet, Sync!SuspendTenant, Sync!CheckActivation, Sync!ActivateTenant, Sync!Outgrow
  <2>2. Ruling /\ syncActivation' \in SyncSubs \cup {None}
    <3>1. CASE Sync!SuspendTenant
      BY <1>1, <2>1, <3>1 DEF Sync!SuspendTenant, Kept, Sync!Tenant, Sync!TenantStatus, Ruling, Sync!admin
    <3>2. CASE Sync!CheckActivation
      BY <1>1, <2>1, <3>2 DEF Sync!CheckActivation, Kept, Sync!Tenant, Ruling
    <3>3. CASE Sync!ActivateTenant
      BY <1>1, <2>1, <3>3 DEF Sync!ActivateTenant, Kept, Sync!Tenant, Sync!TenantStatus, Ruling
    <3>4. CASE Sync!Outgrow
      BY <1>1, <2>1, <3>4 DEF Sync!Outgrow, Kept, Ruling, Sync!admin
    <3> QED BY <1>6, <3>1, <3>2, <3>3, <3>4
  <2> QED BY <2>1, <2>2, AdminStep DEF Ruling, Kept
<1> QED BY <1>2, <1>3, <1>4, <1>5, <1>6 DEF Sync!Next
LEMMA SyncStarts == ASSUME Sync!SyncAssumption, Sync!Init PROVE SyncInv /\ DeletionsHold /\ NewestOK
<1>1. Sync!TypeOK /\ Counts
  BY IdleIsOK DEF Sync!Init, Sync!TypeOK, Counts, Sync!Tenant, Sync!TenantStatus, Sync!SubStatus
<1>2. HandlersOK
  BY IdleIsOK DEF Sync!Init, HandlersOK
<1>3. SyncEventsOK /\ Sync!EventAppliedOnce /\ DeletionsHold /\ NewestOK
  BY DEF Sync!Init, SyncEventsOK, Sync!EventAppliedOnce, DeletionsHold, NewestOK
<1> QED BY <1>1, <1>2, <1>3 DEF SyncInv

-----------------------------------------------------------------------------
(* What has been deleted. *)

\* Events of another subscription than the ones whose deletion was applied
\* change the tenant: the others are behind, or cannot claim a cancelled one.
LEMMA DeletedIsSpared ==
    ASSUME SyncInv, DeletionsHold, NEW x \in syncLedger, x.event.type = "deleted",
           x.outcome = "applied", Sync!OutlivesItsSecond(x.event), NEW e \in syncEvents, NEW p,
           syncTenant.sub \in {None, e.sub}, syncTenant.status # "SUSPENDED", Claims(e), ~Sync!Stale(e, p)
    PROVE  e.sub # x.event.sub
<1> SUFFICES ASSUME e.sub = x.event.sub PROVE FALSE
  OBVIOUS
<1>1. syncTenant.sub # x.event.sub /\ (syncTenant.sub # None \/ syncTenant.status \in {"CANCELLED", "SUSPENDED"})
  BY DEF DeletionsHold
<1>2. syncTenant.sub = None /\ syncTenant.status = "CANCELLED" /\ e.type \in Sync!Initial
  BY <1>1 DEF Claims
<1>3. e.at < x.event.at
  BY <1>2 DEF Sync!OutlivesItsSecond
<1> QED BY <1>3, EarlierIsStale

\* Events that come later do not take this from a deletion.
LEMMA OutlivingIsKept ==
    ASSUME SyncInv, Sync!SyncAssumption, NEW x \in syncLedger, x.event.type = "deleted",
           Webhook \/ Handling \/ Changing \/ Ruling
    PROVE  Sync!OutlivesItsSecond(x.event)' => Sync!OutlivesItsSecond(x.event)
<1>1. syncEvents \subseteq syncEvents'
  <2>1. CASE Changing
    BY <2>1, Emitted DEF Changing, AtStripe
  <2>2. CASE Webhook \/ Handling \/ Ruling
    BY <2>2 DEF Webhook, Sync!Commit, Handling, Ruling, Sync!provider
  <2> QED BY <2>1, <2>2
<1> QED BY <1>1 DEF Sync!OutlivesItsSecond

\* Where a transaction may lead the binding.
LEMMA Rebinding ==
    ASSUME SyncInv, Sync!SyncAssumption, NEW e \in syncEvents, NEW p, NEW seen, NEW o, Effect(e, p, seen, o)
    PROVE  /\ syncTenant' = syncTenant \/ (syncTenant.sub \in {None, e.sub} /\ ~Sync!Stale(e, p))
           /\ syncTenant'.sub \in {syncTenant.sub, e.sub, None}
           /\ o = "applied" /\ e.type = "deleted" => syncTenant'.sub = None
           /\ syncTenant' # syncTenant /\ e.type # "deleted" => Claims(e)
           /\ syncTenant' # syncTenant => syncTenant.status # "SUSPENDED"
           /\ syncTenant' # syncTenant => syncTenant'.sub # None \/ syncTenant'.status = "CANCELLED"
<1>1. syncTenant \in Sync!Tenant
  BY DEF SyncInv, Sync!TypeOK
<1>2. syncTenant' = syncTenant \/ (syncTenant.sub \in {None, e.sub} /\ ~Sync!Stale(e, p))
  BY DEF Effect
<1>3. [syncTenant EXCEPT !.sub = e.sub].sub = e.sub /\ Sync!Cancelled(syncTenant).sub = None
  BY <1>1 DEF Sync!Cancelled, Sync!Tenant
<1>4. Sync!Synchronized(syncTenant, e, seen).sub \in {None, e.sub}
  BY DEF Sync!Synchronized
<1>5. syncTenant'.sub \in {syncTenant.sub, e.sub, None}
  BY <1>3, <1>4 DEF Effect
<1>6. o = "applied" /\ e.type = "deleted" => syncTenant'.sub = None
  BY <1>3 DEF Effect
<1>7. /\ syncTenant' # syncTenant /\ e.type # "deleted" => Claims(e)
      /\ syncTenant' # syncTenant => syncTenant.status # "SUSPENDED"
  BY DEF Effect
<1>8. e.sub # None
  BY InEvents DEF SyncInv, Sync!SyncAssumption
<1>9. Sync!Cancelled(syncTenant).status = "CANCELLED"
  BY <1>1 DEF Sync!Cancelled, Sync!Tenant
<1>10. Sync!Synchronized(syncTenant, e, seen).sub = e.sub \/ Sync!Synchronized(syncTenant, e, seen).status = "CANCELLED"
  BY DEF Sync!Synchronized
<1>11. syncTenant' # syncTenant => syncTenant'.sub # None \/ syncTenant'.status = "CANCELLED"
  BY <1>3, <1>8, <1>9, <1>10 DEF Effect
<1> QED BY <1>2, <1>5, <1>6, <1>7, <1>11

LEMMA DeletionsKept ==
    ASSUME SyncInv, Sync!SyncAssumption, DeletionsHold, [Sync!Next]_(Sync!syncVars)
    PROVE  DeletionsHold' /\ Sync!SparesDeleted
<1>1. Webhook \/ Handling \/ Changing \/ Ruling
  BY StepKinds
<1>2. CASE Handling \/ Changing \/ Ruling
  <2>1. syncLedger' = syncLedger /\ syncTenant'.sub = syncTenant.sub
    BY <1>2 DEF Handling, Changing, Ruling, Kept
  <2>2. syncTenant.sub = None => syncTenant'.status \in {syncTenant.status, "SUSPENDED"}
    BY <1>2 DEF Handling, Changing, Ruling, Sync!SyncAssumption
  <2>3. \A x \in syncLedger : x.event.type = "deleted" =>
           (Sync!OutlivesItsSecond(x.event)' => Sync!OutlivesItsSecond(x.event))
    BY <1>1, OutlivingIsKept
  <2> QED BY <2>1, <2>2, <2>3 DEF DeletionsHold, Sync!SparesDeleted, Sync!OutlivesItsSecond
<1>3. ASSUME NEW h \in SyncHandlers, Sync!Commit(h) PROVE DeletionsHold' /\ Sync!SparesDeleted
  <2>1. PICK e \in syncEvents, p \in -2 .. 1, seen \in Sync!SubStatus : Result(e, p, seen)
    BY <1>3, CommitDoes
  <2>2. CASE syncLedger' = syncLedger /\ syncTenant' = syncTenant
    <3>1. syncEvents' = syncEvents
      BY <1>3 DEF Sync!Commit, Sync!provider
    <3> QED BY <2>2, <3>1 DEF DeletionsHold, Sync!SparesDeleted, Sync!OutlivesItsSecond
  <2>3. CASE ~Sync!Recorded(e) /\ \E o \in Sync!Outcomes :
                /\ syncLedger' = syncLedger \cup {[event |-> e, priority |-> p, outcome |-> o]}
                /\ Effect(e, p, seen, o)
    <3>1. PICK o \in Sync!Outcomes : /\ syncLedger' = syncLedger \cup {[event |-> e, priority |-> p, outcome |-> o]}
                                     /\ Effect(e, p, seen, o)
      BY <2>3
    <3>2. PICK z : z = [event |-> e, priority |-> p, outcome |-> o]
      OBVIOUS
    <3>3. syncLedger' = syncLedger \cup {z} /\ z.event = e /\ z.outcome = o
      BY <3>1, <3>2
    <3>4. /\ syncTenant' = syncTenant \/ (syncTenant.sub \in {None, e.sub} /\ ~Sync!Stale(e, p))
          /\ syncTenant'.sub \in {syncTenant.sub, e.sub, None}
          /\ o = "applied" /\ e.type = "deleted" => syncTenant'.sub = None
          /\ syncTenant' # syncTenant /\ e.type # "deleted" => Claims(e)
          /\ syncTenant' # syncTenant => syncTenant.status # "SUSPENDED"
          /\ syncTenant' # syncTenant => syncTenant'.sub # None \/ syncTenant'.status = "CANCELLED"
      BY <3>1, Rebinding
    <3>5. e.sub \in SyncSubs /\ None \notin SyncSubs
      BY InEvents DEF SyncInv, Sync!SyncAssumption
    <3>6. ASSUME NEW x \in syncLedger, x.event.type = "deleted", x.outcome = "applied"
          PROVE  /\ Sync!OutlivesItsSecond(x.event) =>
                       syncTenant'.sub # x.event.sub /\ (syncTenant' # syncTenant => e.sub # x.event.sub)
                 /\ syncTenant'.sub # None \/ syncTenant'.status \in {"CANCELLED", "SUSPENDED"}
      <4>1. /\ Sync!OutlivesItsSecond(x.event) => syncTenant.sub # x.event.sub
            /\ syncTenant.sub # None \/ syncTenant.status \in {"CANCELLED", "SUSPENDED"}
            /\ x.event.sub \in SyncSubs /\ x.event \in syncEvents
        BY <3>6, InLedger DEF DeletionsHold, SyncInv
      <4>2. CASE syncTenant' = syncTenant
        BY <4>1, <4>2
      <4>3. CASE syncTenant' # syncTenant
        <5>1. ASSUME Sync!OutlivesItsSecond(x.event) PROVE e.sub # x.event.sub
          <6>1. CASE e.type = "deleted"
            <7>1. PICK f \in syncEvents : f = x.event
              BY <4>1
            <7>2. Latest(e.n, e.sub) /\ Latest(f.n, f.sub) /\ (f.n = e.n => f = e)
              BY <3>6, <6>1, <7>1 DEF SyncInv, SyncEventsOK
            <7>3. e.n \in Int /\ f.n \in Int
              BY InEvents DEF SyncInv
            <7>4. e # x.event
              BY <2>3 DEF Sync!Recorded
            <7> QED BY <7>1, <7>2, <7>3, <7>4 DEF Latest
          <6>2. CASE e.type # "deleted"
            BY <3>4, <3>6, <4>3, <5>1, <6>2, DeletedIsSpared
          <6> QED BY <6>1, <6>2
        <5> QED BY <3>4, <3>5, <4>1, <4>3, <5>1
      <4> QED BY <4>2, <4>3
    <3>7. DeletionsHold'
      <4>1. syncEvents' = syncEvents
        BY <1>3 DEF Sync!Commit, Sync!provider
      <4>2. \A d : Sync!OutlivesItsSecond(d)' <=> Sync!OutlivesItsSecond(d)
        BY <4>1 DEF Sync!OutlivesItsSecond
      <4>3. ASSUME o = "applied", e.type = "deleted" PROVE syncTenant'.sub = None /\ syncTenant'.status = "CANCELLED"
        BY <3>1, <4>3 DEF Effect, Sync!Cancelled, SyncInv, Sync!TypeOK, Sync!Tenant
      <4> QED BY <3>3, <3>4, <3>5, <3>6, <4>2, <4>3 DEF DeletionsHold
    <3>8. Sync!SparesDeleted
      BY <3>3, <3>4, <3>5, <3>6 DEF Sync!SparesDeleted
    <3> QED BY <3>7, <3>8
  <2> QED BY <2>1, <2>2, <2>3 DEF Result
<1> QED BY <1>1, <1>2, <1>3 DEF Webhook

-----------------------------------------------------------------------------
(* The newest event. *)

\* The newest event of a subscription was retrieved as it is at Stripe, and
\* that is not ended unless the event is the deletion.
LEMMA NewestIsCurrent ==
    ASSUME SyncInv, NEW h \in SyncHandlers, NEW e \in syncEvents, e.type # "deleted", Latest(e.n, e.sub),
           syncHandler[h].pc = "retrieved", syncHandler[h].event = e
    PROVE  syncHandler[h].seen = syncStripe[e.sub] /\ syncStripe[e.sub] # "canceled"
<1>1. syncHandler[h].seen = syncStripe[e.sub]
  BY DEF SyncInv, HandlersOK, SyncHandlerOK
<1>2. ASSUME syncStripe[e.sub] = "canceled" PROVE FALSE
  <2>1. e.sub \in SyncSubs /\ e.n \in Int
    BY InEvents DEF SyncInv
  <2>2. PICK d \in syncEvents : d.sub = e.sub /\ d.type = "deleted"
    BY <1>2, <2>1 DEF SyncInv, SyncEventsOK
  <2>3. Latest(d.n, d.sub) /\ (e.n = d.n => e = d) /\ d.n \in Int
    BY <2>2, InEvents DEF SyncInv, SyncEventsOK
  <2>4. d.n = e.n
    BY <2>1, <2>2, <2>3 DEF Latest
  <2> QED BY <2>2, <2>3, <2>4
<1> QED BY <1>1, <1>2

LEMMA SynchronizedIsShown ==
    ASSUME NEW e, NEW seen, seen # "canceled", seen = syncStripe[e.sub], UNCHANGED <<syncStripe, syncFits>>,
           syncTenant' = Sync!Synchronized(syncTenant, e, seen)
    PROVE  Shown(e.sub)'
<1>1. syncTenant'.sub = e.sub
  BY DEF Sync!Synchronized
<1>2. syncTenant'.status \in Sync!Mirrors(syncStripe[e.sub])'
  BY DEF Sync!Synchronized, Sync!Mirrors
<1> QED BY <1>1, <1>2 DEF Shown

LEMMA NewestKept ==
    ASSUME SyncInv, Sync!SyncAssumption, NewestOK, [Sync!Next]_(Sync!syncVars)
    PROVE  NewestOK'
<1>1. Webhook \/ Handling \/ Changing \/ Ruling
  BY StepKinds
<1>2. CASE Handling
  BY <1>2 DEF Handling, Sync!provider, Sync!admin, NewestOK, Shown, Overruled, Sync!Mirrors, Sync!LastAndAlone
<1>3. CASE Ruling
  <2>1. UNCHANGED <<syncLedger, syncEvents, syncStripe>> /\ syncTenant'.sub = syncTenant.sub
    BY <1>3 DEF Ruling, Sync!provider, Kept
  <2>2. \A s : Shown(s) => Shown(s)'
    <3> SUFFICES ASSUME NEW s, Shown(s), ~Overruled' PROVE syncTenant'.status \in Sync!Mirrors(syncStripe[s])'
      BY <2>1 DEF Shown
    <3>1. syncTenant'.status = syncTenant.status /\ ~Overruled
      BY <1>3 DEF Ruling, Overruled
    <3>2. syncTenant.status \in Sync!Mirrors(syncStripe[s])
      BY <3>1 DEF Shown
    <3>3. syncFits' = syncFits \/ syncFits' = FALSE
      BY <1>3 DEF Ruling
    <3> QED BY <2>1, <3>1, <3>2, <3>3 DEF Sync!Mirrors
  <2> QED BY <2>1, <2>2 DEF NewestOK, Sync!LastAndAlone
<1>4. ASSUME NEW s \in SyncSubs, AtStripe(s), Kept, UNCHANGED <<syncFits, Sync!admin>>, syncLedger' = syncLedger, syncTenant' = syncTenant \/ syncTenant.sub = s
      PROVE  NewestOK'
  <2> SUFFICES ASSUME NEW x \in syncLedger, x.outcome = "applied", Sync!LastAndAlone(x.event)',
                      x.event.type # "deleted"
               PROVE  Shown(x.event.sub)'
    BY <1>4 DEF NewestOK
  <2>1. PICK status, types : Sync!Change(s, status, types) /\ Regular(s, status, types)
    BY <1>4 DEF AtStripe
  <2>2. PICK e \in syncEvents : e = x.event
    BY InLedger DEF SyncInv
  <2>3. Sync!LastAndAlone(e)'
    BY <2>2
  <2>4. e.sub # s /\ Sync!LastAndAlone(e)
    BY <2>1, <2>3, AloneStays
  <2>5. Shown(e.sub)
    BY <2>2, <2>4 DEF NewestOK
  <2>6. syncTenant' = syncTenant
    BY <1>4, <2>4, <2>5 DEF Shown
  <2>7. syncStripe'[e.sub] = syncStripe[e.sub] /\ e.sub \in SyncSubs
    BY <2>1, <2>4, InEvents DEF Sync!Change, SyncInv, Sync!TypeOK
  <2>8. Shown(e.sub)'
    BY <1>4, <2>5, <2>6, <2>7 DEF Shown, Overruled, Sync!Mirrors, Sync!admin
  <2> QED BY <2>2, <2>8 DEF Shown
<1>5. ASSUME NEW h \in SyncHandlers, Sync!Commit(h) PROVE NewestOK'
  <2>1. PICK e \in syncEvents, p \in -2 .. 1, seen \in Sync!SubStatus :
           /\ e.type # "deleted" => syncHandler[h].pc = "retrieved" /\ syncHandler[h].event = e /\ syncHandler[h].seen = seen
           /\ Result(e, p, seen)
    BY <1>5, CommitDoes
  <2>2. UNCHANGED <<syncStripe, syncEvents, syncFits, syncActivated>>
    BY <1>5 DEF Sync!Commit, Sync!provider, Sync!admin
  <2>3. CASE syncLedger' = syncLedger /\ syncTenant' = syncTenant
    BY <2>2, <2>3 DEF NewestOK, Shown, Overruled, Sync!Mirrors, Sync!LastAndAlone
  <2>4. CASE ~Sync!Recorded(e) /\ \E o \in Sync!Outcomes :
                /\ syncLedger' = syncLedger \cup {[event |-> e, priority |-> p, outcome |-> o]}
                /\ Effect(e, p, seen, o)
    <3>1. PICK o \in Sync!Outcomes : /\ syncLedger' = syncLedger \cup {[event |-> e, priority |-> p, outcome |-> o]}
                                     /\ Effect(e, p, seen, o)
      BY <2>4
    <3>2. PICK z : z = [event |-> e, priority |-> p, outcome |-> o]
      OBVIOUS
    <3>3. syncLedger' = syncLedger \cup {z} /\ z.event = e /\ z.outcome = o
      BY <3>1, <3>2
    <3>4. ASSUME e.type # "deleted", Latest(e.n, e.sub), syncTenant' = Sync!Synchronized(syncTenant, e, seen)
          PROVE  Shown(e.sub)'
      <4>1. seen = syncStripe[e.sub] /\ seen # "canceled"
        BY <2>1, <3>4, NewestIsCurrent
      <4> QED BY <2>2, <3>4, <4>1, SynchronizedIsShown
    <3>5. ASSUME o = "applied", Sync!LastAndAlone(e), e.type # "deleted" PROVE Shown(e.sub)'
      <4>1. syncTenant' = Sync!Synchronized(syncTenant, e, seen)
        BY <3>1, <3>5 DEF Effect
      <4> QED BY <3>4, <3>5, <4>1, LastIsLatest
    <3>6. ASSUME NEW x \in syncLedger, x.outcome = "applied", Sync!LastAndAlone(x.event), x.event.type # "deleted"
          PROVE  Shown(x.event.sub)'
      <4>1. x.event \in syncEvents /\ x.event.n \in Int /\ x.event.sub \in SyncSubs /\ e.n \in Int /\ None \notin SyncSubs
        BY InLedger, InEvents DEF SyncInv, Sync!SyncAssumption
      <4>2. Shown(x.event.sub)
        BY <3>6 DEF NewestOK
      <4>3. PICK s : s = x.event.sub
        OBVIOUS
      <4>4. Shown(s) /\ s # None
        BY <4>1, <4>2, <4>3
      <4>5. CASE syncTenant' = syncTenant
        <5>1. Shown(s)'
          BY <2>2, <4>4, <4>5 DEF Shown, Overruled, Sync!Mirrors
        <5> QED BY <4>3, <5>1 DEF Shown
      <4>6. CASE syncTenant' # syncTenant
        <5>1. ~Sync!Stale(e, p) /\ e.sub = s
          BY <3>1, <4>4, <4>6, Rebinding DEF Shown
        <5>2. ~(e.at < x.event.at)
          BY <3>6, <4>3, <5>1, EarlierIsStale
        <5>3. e.n = x.event.n /\ Latest(e.n, e.sub)
          <6>1. PICK f \in syncEvents : f = x.event
            BY <4>1
          <6>2. Latest(f.n, f.sub)
            BY <3>6, <6>1, LastIsLatest
          <6> QED BY <3>6, <4>3, <5>1, <5>2, <6>1, <6>2 DEF Sync!LastAndAlone
        <5>4. e.type # "deleted"
          BY <3>6, <4>1, <5>3 DEF SyncInv, SyncEventsOK
        <5>5. syncTenant' = Sync!Synchronized(syncTenant, e, seen)
          BY <3>1, <4>4, <4>6, <5>4 DEF Effect, Shown
        <5>6. Shown(e.sub)'
          BY <3>4, <5>3, <5>4, <5>5
        <5> QED BY <4>3, <5>1, <5>6 DEF Shown
      <4> QED BY <4>5, <4>6
    <3>7. \A f : Sync!LastAndAlone(f)' <=> Sync!LastAndAlone(f)
      BY <2>2 DEF Sync!LastAndAlone
    <3> QED BY <3>3, <3>5, <3>6, <3>7 DEF NewestOK, Shown
  <2> QED BY <2>1, <2>3, <2>4 DEF Result
<1> QED BY <1>1, <1>2, <1>3, <1>4, <1>5 DEF Webhook, Changing

-----------------------------------------------------------------------------
(* The theorems. *)

LEMMA SyncHolds == ASSUME Sync!SyncAssumption PROVE Sync!Spec => []SyncInv
<1>1. SyncInv /\ [Sync!Next]_(Sync!syncVars) => SyncInv'
  BY StepKinds
<1> QED BY <1>1, SyncStarts, PTL DEF Sync!Spec

\* The state of the subscription handlers always has its type.
THEOREM SyncTypeCorrect == ASSUME Sync!SyncAssumption PROVE Sync!Spec => []Sync!TypeOK
<1>1. SyncInv => Sync!TypeOK
  BY DEF SyncInv
<1> QED BY <1>1, SyncHolds, PTL

\* handleWebhook records an event once, however often it is delivered and by
\* however many replicas it is handled, and what it recorded was answered.
THEOREM EventsAppliedOnce == ASSUME Sync!SyncAssumption PROVE Sync!Spec => []Sync!EventAppliedOnce
<1>1. SyncInv => Sync!EventAppliedOnce
  BY DEF SyncInv
<1> QED BY <1>1, SyncHolds, PTL

\* A tenant lets go of its subscription only when that has ended at Stripe, and
\* takes another one only afterwards.
THEOREM BindingsAreExclusive == ASSUME Sync!SyncAssumption PROVE Sync!Spec => Sync!BindingIsExclusive
<1>1. ASSUME SyncInv, [Sync!Next]_(Sync!syncVars) PROVE [Sync!LetsGoEnded]_(Sync!syncVars)
  <2> SUFFICES ASSUME syncTenant'.sub # syncTenant.sub, syncTenant.sub # None
               PROVE  syncTenant'.sub = None /\ syncStripe[syncTenant.sub] = "canceled"
    BY DEF Sync!LetsGoEnded
  <2>1. PICK h \in SyncHandlers : Sync!Commit(h)
    BY <1>1, StepKinds DEF Webhook, Handling, Changing, Ruling, Kept
  <2>2. PICK e \in syncEvents, p \in -2 .. 1, seen \in Sync!SubStatus :
           /\ e.type # "deleted" => syncHandler[h].pc = "retrieved" /\ syncHandler[h].event = e /\ syncHandler[h].seen = seen
           /\ Result(e, p, seen)
    BY <1>1, <2>1, CommitDoes
  <2>3. PICK o : Effect(e, p, seen, o)
    BY <2>2 DEF Result
  <2>4. CASE e.type = "deleted"
    <3>1. syncStripe[e.sub] = "canceled"
      BY <1>1, <2>4 DEF SyncInv, SyncEventsOK
    <3> QED BY <1>1, <2>3, <2>4, <3>1 DEF Effect, Sync!Cancelled, SyncInv, Sync!TypeOK, Sync!Tenant
  <2>5. CASE e.type # "deleted"
    <3>1. syncTenant.sub = e.sub /\ syncTenant' = Sync!Synchronized(syncTenant, e, seen)
      BY <2>3, <2>5 DEF Effect
    <3>2. seen = "canceled" /\ syncTenant'.sub = None
      BY <3>1 DEF Sync!Synchronized
    <3>3. syncStripe[e.sub] = "canceled"
      BY <1>1, <2>2, <2>5, <3>2 DEF SyncInv, HandlersOK, SyncHandlerOK
    <3> QED BY <3>1, <3>2, <3>3
  <2> QED BY <2>4, <2>5
<1> QED BY <1>1, SyncHolds, PTL DEF Sync!Spec, Sync!BindingIsExclusive

\* A webhook makes a tenant ACTIVE only within its capacity and never past a
\* suspension, whatever it had retrieved before.
THEOREM ActivationsAreAllowed == ASSUME Sync!SyncAssumption PROVE Sync!Spec => Sync!ActivationIsAllowed
<1>1. ASSUME SyncInv, [Sync!Next]_(Sync!syncVars) PROVE [Sync!ActivatesEntitled]_(Sync!syncVars)
  <2> SUFFICES ASSUME syncTenant'.status = "ACTIVE", syncTenant.status # "ACTIVE", syncLedger' # syncLedger
               PROVE  syncFits /\ syncTenant.status # "SUSPENDED"
    BY DEF Sync!ActivatesEntitled
  <2>1. PICK h \in SyncHandlers : Sync!Commit(h)
    BY <1>1, StepKinds DEF Webhook, Handling, Changing, Ruling
  <2>2. PICK e \in syncEvents, p \in -2 .. 1, seen \in Sync!SubStatus : Result(e, p, seen)
    BY <1>1, <2>1, CommitDoes
  <2>3. PICK o : Effect(e, p, seen, o)
    BY <2>2 DEF Result
  <2>4. syncTenant \in Sync!Tenant
    BY <1>1 DEF SyncInv, Sync!TypeOK
  <2>5. syncTenant.status # "SUSPENDED" /\ syncTenant' = Sync!Synchronized(syncTenant, e, seen)
    BY <2>3, <2>4 DEF Effect, Sync!Cancelled, Sync!Tenant
  <2> QED BY <2>5 DEF Sync!Synchronized
<1> QED BY <1>1, SyncHolds, PTL DEF Sync!Spec, Sync!ActivationIsAllowed

\* A subscription whose deletion was applied is never bound again and its events
\* change nothing, unless it was taken out in the second of its deletion.
THEOREM DeletionsStay == ASSUME Sync!SyncAssumption PROVE Sync!Spec => Sync!DeletedStaysDeleted
<1>1. SyncInv /\ DeletionsHold /\ [Sync!Next]_(Sync!syncVars) => DeletionsHold' /\ [Sync!SparesDeleted]_(Sync!syncVars)
  BY DeletionsKept
<1>2. Sync!Init => DeletionsHold
  BY SyncStarts
<1> QED BY <1>1, <1>2, SyncHolds, PTL DEF Sync!Spec, Sync!DeletedStaysDeleted

\* An event of the newest change of a subscription, once applied, is what the
\* tenant shows, if no other change fell in its second and no administrator
\* overruled it: no event that is still being handled from what was retrieved
\* earlier undoes it.
THEOREM NewestDecides == ASSUME Sync!SyncAssumption PROVE Sync!Spec => []Sync!NewestEventDecides
<1>1. SyncInv /\ DeletionsHold /\ NewestOK /\ [Sync!Next]_(Sync!syncVars) => DeletionsHold' /\ NewestOK'
  BY DeletionsKept, NewestKept
<1>2. Sync!Init => DeletionsHold /\ NewestOK
  BY SyncStarts
<1>3. ASSUME SyncInv, DeletionsHold, NewestOK PROVE Sync!NewestEventDecides
  <2> SUFFICES ASSUME NEW x \in Sync!Applied(syncTenant.sub), Sync!LastAndAlone(x.event), ~Overruled
               PROVE  syncTenant.status \in Sync!Mirrors(syncStripe[syncTenant.sub])
    BY DEF Sync!NewestEventDecides, Overruled
  <2>1. x \in syncLedger /\ x.event.sub = syncTenant.sub /\ x.outcome = "applied"
    BY DEF Sync!Applied
  <2>2. ASSUME x.event.type = "deleted" PROVE Sync!OutlivesItsSecond(x.event)
    <3>1. x.event \in syncEvents
      BY <1>3, <2>1, InLedger DEF SyncInv
    <3>2. \A f \in syncEvents : f.n = x.event.n => f = x.event
      BY <1>3, <2>2, <3>1 DEF SyncInv, SyncEventsOK
    <3> QED BY <2>2, <3>2 DEF Sync!LastAndAlone, Sync!OutlivesItsSecond, Sync!Initial
  <2>3. x.event.type # "deleted"
    BY <1>3, <2>1, <2>2 DEF DeletionsHold
  <2> QED BY <1>3, <2>1, <2>3 DEF NewestOK, Shown
<1> QED BY <1>1, <1>2, <1>3, SyncHolds, PTL DEF Sync!Spec
=============================================================================
