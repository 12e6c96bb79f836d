--------------------------- MODULE DeliveryProofs ---------------------------
(***************************************************************************)
(* Proofs about what the services deliver.  The notification outbox, the   *)
(* invitations and the password resets are proved here; the webhooks and   *)
(* the exports are instances of OperationsProofs, the imports of           *)
(* PeopleProofs, whose theorems are carried over to the composition.       *)
(***************************************************************************)
EXTENDS MCDelivery, TLAPS

-----------------------------------------------------------------------------
(* The inductive invariant. *)

Letter == [key : Intents, intent : Intents, to : Addresses \cup {NoAddress}]

Types ==
    /\ tenantOpen \in BOOLEAN
    /\ user \in User
    /\ outbox \in [Intents -> Row]
    /\ feed \in [Intents -> {"none", "unread", "read"}]
    /\ inbox \subseteq Letter
    /\ delivery \in [Deliveries -> Delivery]

\* Only a claimed row has a lease, every failure belongs to a claim of its own,
\* and a row that is not given up has budget left.
RowOK(r) ==
    /\ r.lease # "none" => r.status = "PROCESSING"
    /\ r.failures =< r.attempts
    /\ r.status = "PROCESSING" => r.failures < r.attempts
    /\ r.status # "DEAD_LETTERED" => r.failures < MaxAttempts
RowsOK == \A i \in Intents : RowOK(outbox[i])

\* The provider knows an intent under its own key and with one payload.
InboxOK == (\A m \in inbox : m.key = m.intent) /\ OneMailPerIntent

\* An open transaction holds a current claim and a recipient who may get mail,
\* and hands over the address he has.
DeliveryOK(v) ==
    /\ v.pc # "idle" => v.i \in Intents
    /\ v.pc = "claimed" => ~v.failed
    /\ v.pc = "claimed" \/ v.failed => v.handoff = "none"
    /\ v.pc = "claimed" \/ (v.handoff = "none" /\ ~v.failed) => v.mail = Unread
    /\ v.pc \in Open =>
          /\ outbox[v.i].status = "PROCESSING" /\ outbox[v.i].attempts = v.attempts
          /\ Eligible /\ ~user.suppressed
    /\ v.pc = "sending" => v.mail = user.email
    /\ v.pc = "accepted" => \E m \in inbox : m.intent = v.i /\ m.to = user.email
DeliveriesOK == \A d \in Deliveries : DeliveryOK(delivery[d])

\* One transaction at a time holds the lock of an intent.
Exclusive ==
    \A d, e \in Deliveries :
        delivery[d].pc \in Open /\ delivery[e].pc \in Open /\ delivery[d].i = delivery[e].i
            => d = e

OutboxInv == Types /\ RowsOK /\ InboxOK /\ DeliveriesOK /\ Exclusive

-----------------------------------------------------------------------------
(* Rows. *)

\* The rows that a delivery writes.
LEMMA WrittenRows ==
    ASSUME NEW r \in Row, RowOK(r), r.status = "PROCESSING"
    PROVE  /\ FailedRow(r) \in Row /\ RowOK(FailedRow(r)) /\ FailedRow(r).status # "DELIVERED"
           /\ FailedRow(r).status = "DEAD_LETTERED" => FailedRow(r).failures = MaxAttempts
           /\ DeliveredRow(r) \in Row /\ RowOK(DeliveredRow(r))
           /\ DeliveredRow(r).status = "DELIVERED"
           /\ DeadRow(r) \in Row /\ RowOK(DeadRow(r)) /\ DeadRow(r).status = "DEAD_LETTERED"
<1>1. /\ r.failures \in Nat /\ r.attempts \in Nat /\ r.failures < MaxAttempts
      /\ r.failures < r.attempts /\ MaxAttempts \in Nat
      /\ r.failures + 1 \in 0 .. MaxAttempts
  BY NotificationAssumption DEF Row, RowOK, MaxClaims
<1>2. /\ DeliveredRow(r) \in Row /\ DeliveredRow(r).status = "DELIVERED"
      /\ DeliveredRow(r).lease = "none" /\ DeliveredRow(r).failures = r.failures
      /\ DeliveredRow(r).attempts = r.attempts
  BY DEF DeliveredRow, Row, Ended
<1>3. /\ DeadRow(r) \in Row /\ DeadRow(r).status = "DEAD_LETTERED"
      /\ DeadRow(r).lease = "none" /\ DeadRow(r).failures = r.failures
      /\ DeadRow(r).attempts = r.attempts
  BY DEF DeadRow, Row, Ended
<1>4. /\ FailedRow(r) \in Row /\ FailedRow(r).lease = "none"
      /\ FailedRow(r).failures = r.failures + 1 /\ FailedRow(r).attempts = r.attempts
      /\ FailedRow(r).status = IF r.failures + 1 >= MaxAttempts THEN "DEAD_LETTERED" ELSE "FAILED"
  BY <1>1 DEF FailedRow, Row, Ended
<1>5. RowOK(DeliveredRow(r)) /\ RowOK(DeadRow(r)) /\ RowOK(FailedRow(r))
  BY <1>1, <1>2, <1>3, <1>4 DEF RowOK
<1> QED BY <1>1, <1>2, <1>3, <1>4, <1>5

\* One row is written.
LEMMA PutRow ==
    ASSUME Types, RowsOK, NEW i \in Intents, NEW r \in Row, RowOK(r), Put(i, r)
    PROVE  /\ outbox' \in [Intents -> Row] /\ RowsOK' /\ outbox'[i] = r
           /\ \A j \in Intents : j # i => outbox'[j] = outbox[j]
<1>1. /\ outbox' \in [Intents -> Row] /\ outbox'[i] = r
      /\ \A j \in Intents : j # i => outbox'[j] = outbox[j]
  BY DEF Put, Types
<1>2. RowsOK'
  BY <1>1 DEF RowsOK, RowOK
<1> QED BY <1>1, <1>2

-----------------------------------------------------------------------------
(* Deliveries. *)

\* What a delivery may rely on: nobody writes the recipient or takes its claim
\* while it holds the lock.
World ==
    /\ \/ UNCHANGED <<user, tenantOpen>>
       \/ ~RecipientLocked
    /\ inbox \subseteq inbox'
Keeps(e) ==
    delivery[e].pc \in Open =>
        /\ outbox'[delivery[e].i].status = outbox[delivery[e].i].status
        /\ outbox'[delivery[e].i].attempts = outbox[delivery[e].i].attempts
Frame(d) == World /\ \A e \in Deliveries : e # d => Keeps(e)

\* What a delivery knows outlasts the step of another one.
LEMMA DeliveryKept ==
    ASSUME DeliveriesOK, World, NEW e \in Deliveries, Keeps(e), NEW v, v = delivery[e]
    PROVE  DeliveryOK(v)'
<1>1. DeliveryOK(v)
  BY DEF DeliveriesOK
<1>3. v.pc \in Open => UNCHANGED <<user, tenantOpen>>
  BY DEF World, RecipientLocked
<1>4. v.pc \in Open => /\ outbox'[v.i].status = "PROCESSING" /\ outbox'[v.i].attempts = v.attempts
                       /\ Eligible' /\ ~user'.suppressed
  BY <1>1, <1>3 DEF DeliveryOK, Keeps, Eligible
<1>5. v.pc = "accepted" => \E m \in inbox' : m.intent = v.i /\ m.to = user'.email
  BY <1>1, <1>3 DEF DeliveryOK, World, Open
<1>6. v.pc = "sending" => v.mail = user'.email
  BY <1>1, <1>3 DEF DeliveryOK, Open
<1> QED BY <1>1, <1>4, <1>5, <1>6 DEF DeliveryOK

\* Deliveries that all stay as they are.
LEMMA NoDelivery ==
    ASSUME Types, DeliveriesOK, Exclusive, World, \A e \in Deliveries : Keeps(e),
           UNCHANGED delivery
    PROVE  DeliveriesOK' /\ Exclusive' /\ delivery' \in [Deliveries -> Delivery]
<1>1. ASSUME NEW e \in Deliveries PROVE DeliveryOK(delivery[e])'
  <2>1. PICK x : x = delivery[e]
    OBVIOUS
  <2>2. DeliveryOK(x)'
    BY <2>1, DeliveryKept
  <2> QED BY <2>1, <2>2 DEF DeliveryOK, Eligible
<1> QED BY <1>1 DEF DeliveriesOK, Exclusive, Types

\* One delivery goes on.  It takes a lock only when nobody holds it.
LEMMA OneDelivery ==
    ASSUME Types, DeliveriesOK, Exclusive, NEW d \in Deliveries, Frame(d), NEW v \in Delivery,
           DeliveryOK(v)', delivery' = [delivery EXCEPT ![d] = v],
           v.pc \in Open => \/ ~Locked(v.i)
                            \/ delivery[d].pc \in Open /\ delivery[d].i = v.i
    PROVE  /\ DeliveriesOK' /\ Exclusive' /\ delivery' \in [Deliveries -> Delivery]
           /\ delivery'[d] = v /\ \A e \in Deliveries : e # d => delivery'[e] = delivery[e]
<1>1. /\ delivery' \in [Deliveries -> Delivery] /\ delivery'[d] = v
      /\ \A e \in Deliveries : e # d => delivery'[e] = delivery[e]
  BY DEF Types
<1>2. ASSUME NEW e \in Deliveries PROVE DeliveryOK(delivery[e])'
  <2>1. CASE e = d
    <3>1. delivery'[e] = v
      BY <1>1, <2>1
    <3> QED BY <3>1 DEF DeliveryOK, Eligible
  <2>2. CASE e # d
    <3>1. PICK x : x = delivery[e]
      OBVIOUS
    <3>2. DeliveryOK(x)' /\ delivery'[e] = x
      BY <1>1, <2>2, <3>1, DeliveryKept DEF Frame
    <3> QED BY <3>2 DEF DeliveryOK, Eligible
  <2> QED BY <2>1, <2>2
<1>3. Exclusive'
  <2>1. ASSUME NEW e \in Deliveries, e # d, v.pc \in Open, delivery[e].pc \in Open,
               delivery[e].i = v.i
        PROVE  FALSE
    <3>1. Locked(v.i)
      BY <2>1 DEF Locked
    <3> QED BY <2>1, <3>1 DEF Exclusive
  <2> QED BY <1>1, <2>1 DEF Exclusive
<1> QED BY <1>1, <1>2, <1>3 DEF DeliveriesOK

\* Returning is always possible.
LEMMA IdleOK == Idle \in Delivery /\ DeliveryOK(Idle)' /\ Idle.pc \notin Open
<1>1. 0 \in 0 .. MaxClaims
  BY NotificationAssumption DEF MaxClaims
<1> QED BY <1>1 DEF Idle, Delivery, DeliveryOK, Open

\* A delivery returns.
LEMMA Returning ==
    ASSUME Types, DeliveriesOK, Exclusive, NEW d \in Deliveries, Frame(d), Return(d)
    PROVE  /\ DeliveriesOK' /\ Exclusive' /\ delivery' \in [Deliveries -> Delivery]
           /\ delivery'[d] = Idle
BY IdleOK, OneDelivery DEF Return

\* A delivery moves on without taking a lock and without a promise.
LEMMA Moving ==
    ASSUME Types, DeliveriesOK, Exclusive, NEW d \in Deliveries, Frame(d),
           delivery[d].pc # "idle", NEW pc \in {"postpone", "failing"}, Goto(d, pc),
           UNCHANGED <<user, tenantOpen>>
    PROVE  DeliveriesOK' /\ Exclusive' /\ delivery' \in [Deliveries -> Delivery]
<1>1. PICK v : v = delivery[d]
  OBVIOUS
<1>2. v \in Delivery /\ DeliveryOK(v) /\ v.i \in Intents
  BY <1>1 DEF Types, DeliveriesOK, DeliveryOK
<1>3. PICK w : w = [v EXCEPT !.pc = pc]
  OBVIOUS
<1>4. /\ w \in Delivery /\ w.pc = pc /\ w.i = v.i /\ w.handoff = v.handoff /\ w.mail = v.mail
      /\ w.failed = v.failed
  BY <1>2, <1>3 DEF Delivery
<1>5. DeliveryOK(w)' /\ w.pc \notin Open
  BY <1>2, <1>4 DEF DeliveryOK, Open
<1>6. delivery' = [delivery EXCEPT ![d] = w]
  BY <1>1, <1>3 DEF Goto, Types
<1> QED BY <1>4, <1>5, <1>6, OneDelivery

\* A step that touches only the deliveries, or one row nobody else has locked.
LEMMA QuietFrame ==
    ASSUME NEW d, UNCHANGED <<user, tenantOpen, outbox>>, inbox \subseteq inbox'
    PROVE  Frame(d)
BY DEF Frame, World, Keeps

LEMMA RowFrame ==
    ASSUME DeliveriesOK, Exclusive, UNCHANGED <<user, tenantOpen, inbox>>,
           NEW d \in Deliveries, NEW i \in Intents,
           ~Locked(i) \/ (delivery[d].pc \in Open /\ delivery[d].i = i),
           \A j \in Intents : j # i => outbox'[j] = outbox[j]
    PROVE  Frame(d)
<1>1. ASSUME NEW e \in Deliveries, e # d, delivery[e].pc \in Open
      PROVE  outbox'[delivery[e].i] = outbox[delivery[e].i]
  <2>1. delivery[e].i \in Intents
    BY <1>1 DEF DeliveriesOK, DeliveryOK, Open
  <2>2. delivery[e].i # i
    BY <1>1 DEF Locked, Exclusive
  <2> QED BY <2>1, <2>2
<1> QED BY <1>1 DEF Frame, World, Keeps

\* The feed after the transaction wrote it.
LEMMA WrittenFeed ==
    ASSUME Types, NEW i \in Intents, Write(i)
    PROVE  feed' \in [Intents -> {"none", "unread", "read"}] /\ feed'[i] # "none"
BY DEF Types, Write, Fed

-----------------------------------------------------------------------------
(* The steps of a delivery. *)

LEMMA PrepareStep ==
    ASSUME OutboxInv, NEW d \in Deliveries, Prepare(d) \/ PrepareFails(d)
    PROVE  OutboxInv'
<1> USE DEF OutboxInv
<1>1. /\ UNCHANGED <<tenantOpen, user, outbox, feed, inbox>> /\ delivery[d].pc = "claimed"
      /\ Frame(d)
  BY QuietFrame DEF Prepare, PrepareFails
<1>2. PICK v : v = delivery[d]
  OBVIOUS
<1>3. v \in Delivery /\ v.pc = "claimed" /\ v.i \in Intents /\ v.handoff = "none"
  BY <1>1, <1>2 DEF Types, DeliveriesOK, DeliveryOK
<1>4. ASSUME NEW w \in Delivery, w.pc = "prepared", w.i = v.i, w.failed => w.handoff = "none",
             w.handoff = "none" /\ ~w.failed => w.mail = Unread,
             delivery' = [delivery EXCEPT ![d] = w]
      PROVE  OutboxInv'
  <2>1. DeliveryOK(w)' /\ w.pc \notin Open
    BY <1>1, <1>3, <1>4 DEF DeliveryOK, Open
  <2>2. DeliveriesOK' /\ Exclusive' /\ delivery' \in [Deliveries -> Delivery]
    BY <1>1, <1>4, <2>1, OneDelivery
  <2> QED BY <1>1, <2>2 DEF Types, RowsOK, RowOK, InboxOK, OneMailPerIntent
<1>5. CASE PrepareFails(d)
  <2>1. PICK w : w = [v EXCEPT !.pc = "prepared", !.failed = TRUE]
    OBVIOUS
  <2>2. w \in Delivery /\ w.pc = "prepared" /\ w.i = v.i /\ w.handoff = "none" /\ w.failed
    BY <1>3, <2>1 DEF Delivery
  <2>3. delivery' = [delivery EXCEPT ![d] = w]
    BY <1>2, <1>5, <2>1 DEF PrepareFails, Types
  <2> QED BY <1>4, <2>2, <2>3
<1>6. CASE Prepare(d) /\ user.state = "active"
  <2>1. PICK w : w = [v EXCEPT !.pc = "prepared", !.mail = user.email, !.handoff = Prepared(user)]
    OBVIOUS
  <2>2. /\ w \in Delivery /\ w.pc = "prepared" /\ w.i = v.i /\ w.mail = user.email
        /\ w.handoff = Prepared(user) /\ w.failed = v.failed
    BY <1>3, <2>1 DEF Delivery, Prepared, Types, User
  <2>3. v.failed = FALSE
    BY <1>1, <1>2, <1>3 DEF DeliveriesOK, DeliveryOK, Delivery
  <2>5. delivery' = [delivery EXCEPT ![d] = w]
    BY <1>2, <1>6, <2>1 DEF Prepare, Types
  <2>4. w.handoff # "none"
    BY <2>2 DEF Prepared
  <2> QED BY <1>4, <2>2, <2>3, <2>4, <2>5
<1>7. CASE Prepare(d) /\ user.state # "active"
  <2>1. PICK w : w = [v EXCEPT !.pc = "prepared", !.mail = Unread, !.handoff = "none"]
    OBVIOUS
  <2>2. w \in Delivery /\ w.pc = "prepared" /\ w.i = v.i /\ w.handoff = "none" /\ w.mail = Unread
    BY <1>3, <2>1 DEF Delivery
  <2>3. delivery' = [delivery EXCEPT ![d] = w]
    BY <1>2, <1>7, <2>1 DEF Prepare, Types
  <2> QED BY <1>4, <2>2, <2>3
<1> QED BY <1>5, <1>6, <1>7

\* A delivery writes the row of its intent and returns.
LEMMA Finishing ==
    ASSUME OutboxInv, NEW d \in Deliveries, NEW i \in Intents, delivery[d].i = i,
           ~Locked(i) \/ delivery[d].pc \in Open,
           NEW r \in Row, RowOK(r), Put(i, r), Return(d), UNCHANGED <<tenantOpen, user, inbox>>,
           feed' \in [Intents -> {"none", "unread", "read"}]
    PROVE  OutboxInv'
<1> USE DEF OutboxInv
<1>1. /\ outbox' \in [Intents -> Row] /\ RowsOK'
      /\ \A j \in Intents : j # i => outbox'[j] = outbox[j]
  BY PutRow
<1>2. Frame(d)
  BY <1>1, RowFrame
<1>3. DeliveriesOK' /\ Exclusive' /\ delivery' \in [Deliveries -> Delivery]
  BY <1>2, Returning
<1>4. InboxOK'
  BY DEF InboxOK, OneMailPerIntent
<1> QED BY <1>1, <1>3, <1>4 DEF Types

\* A delivery only moves on or returns.
LEMMA Passing ==
    ASSUME OutboxInv, NEW d \in Deliveries, UNCHANGED <<tenantOpen, user, inbox, outbox, feed>>,
           \/ Return(d)
           \/ delivery[d].pc # "idle" /\ (Goto(d, "postpone") \/ Goto(d, "failing"))
    PROVE  OutboxInv'
<1> USE DEF OutboxInv
<1>1. Frame(d)
  BY QuietFrame
<1>2. DeliveriesOK' /\ Exclusive' /\ delivery' \in [Deliveries -> Delivery]
  BY <1>1, Returning, Moving
<1> QED BY <1>2 DEF Types, RowsOK, RowOK, InboxOK, OneMailPerIntent

\* The claim a delivery owns.
LEMMA OwnedRow ==
    ASSUME OutboxInv, NEW d \in Deliveries, delivery[d].pc # "idle",
           Owns(d) \/ delivery[d].pc \in Open
    PROVE  /\ delivery[d].i \in Intents /\ outbox[delivery[d].i] \in Row
           /\ RowOK(outbox[delivery[d].i]) /\ outbox[delivery[d].i].status = "PROCESSING"
           /\ outbox[delivery[d].i].attempts = delivery[d].attempts
<1>1. delivery[d].i \in Intents
  BY DEF OutboxInv, DeliveriesOK, DeliveryOK
<1> QED BY <1>1 DEF OutboxInv, Types, RowsOK, DeliveriesOK, DeliveryOK, Owns

LEMMA BeginStep ==
    ASSUME OutboxInv, NEW d \in Deliveries, Begin(d)
    PROVE  OutboxInv'
<1> DEFINE i == delivery[d].i
<1>1. /\ delivery[d].pc = "prepared" /\ ~Locked(i) /\ Owns(d)
      /\ UNCHANGED <<tenantOpen, user, inbox>>
  BY DEF Begin
<1>2. i \in Intents /\ outbox[i] \in Row /\ RowOK(outbox[i]) /\ outbox[i].status = "PROCESSING"
  BY <1>1, OwnedRow
<1>3. feed \in [Intents -> {"none", "unread", "read"}] /\ Types
  BY DEF OutboxInv, Types
<1>4. CASE Put(i, DeadRow(outbox[i])) /\ Return(d) /\ UNCHANGED feed
  BY <1>1, <1>2, <1>3, <1>4, WrittenRows, Finishing
<1>5. CASE Goto(d, "postpone") /\ UNCHANGED <<outbox, feed>>
  BY <1>1, <1>5, Passing
<1>6. CASE Put(i, FailedRow(outbox[i])) /\ Write(i) /\ Return(d)
  BY <1>1, <1>2, <1>3, <1>6, WrittenRows, WrittenFeed, Finishing
<1>7. ASSUME NEW r, r \in {DeliveredRow(outbox[i]), FailedRow(outbox[i])}, Put(i, r),
             Write(i), Return(d)
      PROVE  OutboxInv'
  <2>1. r \in Row /\ RowOK(r)
    BY <1>2, <1>7, WrittenRows
  <2> QED BY <1>1, <1>2, <1>3, <1>7, <2>1, WrittenFeed, Finishing
<1>8. ASSUME Eligible, delivery[d].handoff = "send", ~user.suppressed, NEW pc,
             pc = IF HandoffRefuses(d) THEN "refused" ELSE "sending",
             Goto(d, pc), UNCHANGED <<outbox, feed>>
      PROVE  OutboxInv'
  <2> USE DEF OutboxInv
  <2>1. PICK v : v = delivery[d]
    OBVIOUS
  <2>2. v \in Delivery /\ DeliveryOK(v) /\ v.i = i /\ v.handoff = "send"
    BY <1>8, <2>1 DEF Types, DeliveriesOK
  <2>3. PICK w : w = [v EXCEPT !.pc = pc]
    OBVIOUS
  <2>10. pc \in {"sending", "refused"} /\ (pc = "sending" => v.mail = user.email)
    BY <1>8, <2>1, <2>2 DEF HandoffRefuses
  <2>4. /\ w \in Delivery /\ w.pc = pc /\ w.i = i /\ w.attempts = v.attempts
        /\ w.handoff = "send" /\ w.failed = v.failed /\ w.mail = v.mail
    BY <2>2, <2>3, <2>10 DEF Delivery, Open
  <2>5. outbox[i].attempts = v.attempts
    BY <1>1, <2>1 DEF Owns
  <2>6. DeliveryOK(w)'
    BY <1>1, <1>2, <1>8, <2>2, <2>4, <2>5, <2>10 DEF DeliveryOK, Open, Eligible
  <2>7. delivery' = [delivery EXCEPT ![d] = w]
    BY <1>8, <2>1, <2>3 DEF Goto, Types
  <2>8. Frame(d)
    BY <1>1, <1>8, QuietFrame
  <2>9. DeliveriesOK' /\ Exclusive' /\ delivery' \in [Deliveries -> Delivery]
    BY <1>1, <2>4, <2>6, <2>7, <2>8, OneDelivery
  <2> QED BY <1>1, <1>8, <2>9 DEF Types, RowsOK, RowOK, InboxOK, OneMailPerIntent
<1>9. CASE \E r \in {DeliveredRow(outbox[i]), FailedRow(outbox[i])} :
              Put(i, r) /\ Write(i) /\ Return(d)
  BY <1>7, <1>9
<1> QED BY <1>4, <1>5, <1>6, <1>8, <1>9 DEF Begin

\* The provider takes one payload for an intent.
LEMMA Accepting ==
    ASSUME Types, InboxOK, NEW i \in Intents, Accepts(i, user.email),
           inbox' = inbox \cup {Mail(i, user.email)}
    PROVE  /\ inbox' \subseteq Letter /\ InboxOK' /\ inbox \subseteq inbox'
           /\ \E m \in inbox' : m.intent = i /\ m.to = user.email
<1> DEFINE n == Mail(i, user.email)
<1>1. n \in Letter /\ n.key = i /\ n.intent = i /\ n.to = user.email
  BY DEF Mail, IdempotencyKey, Letter, Types, User
<1>2. ASSUME NEW m \in inbox, m.intent = i PROVE m = n
  <2>1. m.key = i /\ m.to = user.email /\ m \in Letter
    BY <1>2 DEF InboxOK, Accepts, Known, IdempotencyKey, Types
  <2> QED BY <1>1, <1>2, <2>1 DEF Letter
<1> HIDE DEF n
<1>3. \A m, o \in inbox' : m.intent = o.intent => m = o
  BY <1>1, <1>2 DEF n, InboxOK, OneMailPerIntent
<1> QED BY <1>1, <1>3 DEF n, InboxOK, OneMailPerIntent, Types

LEMMA SendStep ==
    ASSUME OutboxInv, NEW d \in Deliveries, Send(d) \/ SendFails(d)
    PROVE  OutboxInv'
<1> USE DEF OutboxInv
<1>1. /\ delivery[d].pc = "sending" /\ UNCHANGED <<tenantOpen, user, outbox, feed>>
  BY DEF Send, SendFails
<1>2. PICK v : v = delivery[d]
  OBVIOUS
<1>3. v \in Delivery /\ v.pc = "sending" /\ v.i \in Intents /\ DeliveryOK(v)
  BY <1>1, <1>2 DEF Types, DeliveriesOK, DeliveryOK
<1>4. \/ UNCHANGED inbox /\ Goto(d, "refused")
      \/ /\ Accepts(v.i, user.email) /\ inbox' = inbox \cup {Mail(v.i, user.email)}
         /\ Goto(d, "accepted") \/ Goto(d, "refused")
  BY <1>2, <1>3 DEF Send, SendFails, DeliveryOK
<1>5. inbox' \subseteq Letter /\ InboxOK' /\ inbox \subseteq inbox'
  BY <1>3, <1>4, Accepting DEF Types, InboxOK, OneMailPerIntent
<1>6. PICK pc \in {"accepted", "refused"} :
         /\ Goto(d, pc)
         /\ pc = "accepted" => \E m \in inbox' : m.intent = v.i /\ m.to = user.email
  BY <1>3, <1>4, Accepting
<1>7. PICK w : w = [v EXCEPT !.pc = pc]
  OBVIOUS
<1>8. /\ w \in Delivery /\ w.pc = pc /\ w.i = v.i /\ w.attempts = v.attempts
      /\ w.handoff = v.handoff /\ w.failed = v.failed /\ w.mail = v.mail
  BY <1>3, <1>7 DEF Delivery, Open
<1>9. DeliveryOK(w)'
  BY <1>1, <1>3, <1>6, <1>8 DEF DeliveryOK, Open, Eligible
<1>10. delivery' = [delivery EXCEPT ![d] = w]
  BY <1>2, <1>6, <1>7 DEF Goto, Types
<1>11. Frame(d)
  BY <1>1, <1>5, QuietFrame
<1>12. DeliveriesOK' /\ Exclusive' /\ delivery' \in [Deliveries -> Delivery]
  BY <1>2, <1>3, <1>8, <1>9, <1>10, <1>11, OneDelivery DEF Open
<1> QED BY <1>1, <1>5, <1>12 DEF Types, RowsOK, RowOK

LEMMA CommitStep ==
    ASSUME OutboxInv, NEW d \in Deliveries, Commit(d)
    PROVE  OutboxInv'
<1> DEFINE i == delivery[d].i
<1>1. /\ delivery[d].pc \in Open /\ delivery[d].pc # "idle"
      /\ UNCHANGED <<tenantOpen, user, inbox>> /\ Write(i) /\ Return(d)
  BY DEF Commit, Open
<1>2. i \in Intents /\ outbox[i] \in Row /\ RowOK(outbox[i]) /\ outbox[i].status = "PROCESSING"
  BY <1>1, OwnedRow
<1>3. feed' \in [Intents -> {"none", "unread", "read"}]
  BY <1>1, <1>2, WrittenFeed DEF OutboxInv
<1>4. CASE Put(i, DeliveredRow(outbox[i]))
  BY <1>1, <1>2, <1>3, <1>4, WrittenRows, Finishing
<1>5. CASE Put(i, FailedRow(outbox[i]))
  BY <1>1, <1>2, <1>3, <1>5, WrittenRows, Finishing
<1> QED BY <1>4, <1>5 DEF Commit

\* The row after a postponement.
LEMMA PostponedRow ==
    ASSUME NEW r \in Row, RowOK(r), r.status = "PROCESSING"
    PROVE  LET p == [r EXCEPT !.status = "FAILED", !.due = FALSE, !.lease = "none"]
           IN  p \in Row /\ RowOK(p) /\ p.status = "FAILED"
<1> DEFINE p == [r EXCEPT !.status = "FAILED", !.due = FALSE, !.lease = "none"]
<1>1. /\ p \in Row /\ p.status = "FAILED" /\ p.lease = "none"
      /\ p.failures = r.failures /\ p.attempts = r.attempts
  BY DEF Row
<1> HIDE DEF p
<1>2. RowOK(p)
  BY <1>1 DEF RowOK
<1> QED BY <1>1, <1>2 DEF p

LEMMA BookkeepingStep ==
    ASSUME OutboxInv, NEW d \in Deliveries, Postpone(d) \/ MarkFailed(d)
    PROVE  OutboxInv'
<1> DEFINE i == delivery[d].i
<1>1. /\ delivery[d].pc # "idle" /\ Return(d) /\ UNCHANGED <<tenantOpen, user, feed, inbox>>
  BY DEF Postpone, MarkFailed
<1>2. feed' \in [Intents -> {"none", "unread", "read"}]
  BY <1>1 DEF OutboxInv, Types
<1>3. CASE UNCHANGED outbox
  BY <1>1, <1>3, Passing
<1>4. CASE ~Locked(i) /\ Owns(d)
  <2>1. i \in Intents /\ outbox[i] \in Row /\ RowOK(outbox[i]) /\ outbox[i].status = "PROCESSING"
    BY <1>1, <1>4, OwnedRow
  <2>2. CASE Postpone(d)
    <3>1. PICK p : p = [outbox[i] EXCEPT !.status = "FAILED", !.due = FALSE, !.lease = "none"]
      OBVIOUS
    <3>2. p \in Row /\ RowOK(p)
      BY <2>1, <3>1, PostponedRow
    <3>3. Put(i, p)
      BY <1>4, <2>2, <3>1 DEF Postpone, Put
    <3> QED BY <1>1, <1>2, <1>4, <2>1, <3>2, <3>3, Finishing
  <2>3. CASE MarkFailed(d)
    BY <1>1, <1>2, <1>4, <2>1, <2>3, WrittenRows, Finishing DEF MarkFailed
  <2> QED BY <2>2, <2>3
<1> QED BY <1>3, <1>4 DEF Postpone, MarkFailed

LEMMA DeliveryStep ==
    ASSUME OutboxInv, NEW d \in Deliveries, Step(d)
    PROVE  OutboxInv'
<1>1. CASE Prepare(d) \/ PrepareFails(d)
  BY <1>1, PrepareStep
<1>2. CASE LockUnavailable(d) \/ TransactionFails(d)
  <2>1. /\ delivery[d].pc # "idle" /\ UNCHANGED <<tenantOpen, user, inbox, outbox, feed>>
        /\ Goto(d, "postpone") \/ Goto(d, "failing")
    BY <1>2 DEF LockUnavailable, TransactionFails, Open
  <2> QED BY <2>1, Passing
<1>3. CASE OwnershipLost(d) \/ LeaseRunsOut(d) \/ DeliveryStops(d)
  BY <1>3, Passing DEF OwnershipLost, LeaseRunsOut, DeliveryStops
<1>4. CASE Begin(d) \/ Commit(d)
  BY <1>4, BeginStep, CommitStep
<1>5. CASE Send(d) \/ SendFails(d) \/ Postpone(d) \/ MarkFailed(d)
  BY <1>5, SendStep, BookkeepingStep
<1> QED BY <1>1, <1>2, <1>3, <1>4, <1>5 DEF Step

-----------------------------------------------------------------------------
(* The other steps. *)

LEMMA ClaimStep ==
    ASSUME OutboxInv, NEW d \in Deliveries, NEW i \in Intents, Claim(d, i)
    PROVE  OutboxInv'
<1> USE DEF OutboxInv
<1>1. /\ delivery[d].pc = "idle" /\ ~Locked(i) /\ outbox[i].attempts < MaxClaims
      /\ Claimable(outbox[i]) /\ UNCHANGED <<tenantOpen, user, feed, inbox>>
  BY DEF Claim
<1>2. PICK r : r = [outbox[i] EXCEPT !.status = "PROCESSING", !.attempts = @ + 1, !.lease = "live"]
  OBVIOUS
<1>3. outbox[i] \in Row /\ RowOK(outbox[i]) /\ outbox[i].attempts + 1 \in 0 .. MaxClaims
  <2>1. outbox[i] \in Row /\ RowOK(outbox[i]) /\ outbox[i].attempts \in 0 .. MaxClaims
    BY DEF Types, RowsOK, Row
  <2> QED BY <1>1, <2>1, NotificationAssumption DEF MaxClaims
<1>4. /\ r \in Row /\ r.status = "PROCESSING" /\ r.attempts = outbox[i].attempts + 1
      /\ r.failures = outbox[i].failures /\ r.lease = "live"
  BY <1>2, <1>3 DEF Row
<1>5. RowOK(r)
  <2>1. /\ outbox[i].failures \in Nat /\ outbox[i].attempts \in Nat
        /\ outbox[i].status # "DEAD_LETTERED"
    BY <1>1, <1>3, NotificationAssumption DEF Row, MaxClaims, Claimable
  <2> QED BY <1>3, <1>4, <2>1 DEF RowOK
<1>6. Put(i, r)
  BY <1>2 DEF Claim
<1>7. outbox' \in [Intents -> Row] /\ RowsOK' /\ \A j \in Intents : j # i => outbox'[j] = outbox[j]
  BY <1>4, <1>5, <1>6, PutRow
<1>8. PICK v : v = [Idle EXCEPT !.pc = "claimed", !.i = i, !.attempts = outbox[i].attempts + 1]
  OBVIOUS
<1>9. /\ v \in Delivery /\ v.pc = "claimed" /\ v.i = i /\ v.handoff = "none" /\ v.failed = FALSE
      /\ v.mail = Unread
  BY <1>3, <1>8 DEF Idle, Delivery
<1>10. DeliveryOK(v)' /\ v.pc \notin Open
  BY <1>9 DEF DeliveryOK, Open
<1>11. Frame(d)
  BY <1>1, <1>7, RowFrame
<1>12. DeliveriesOK' /\ Exclusive' /\ delivery' \in [Deliveries -> Delivery]
  BY <1>8, <1>9, <1>10, <1>11, OneDelivery DEF Claim
<1> QED BY <1>1, <1>7, <1>12 DEF Types, InboxOK, OneMailPerIntent

\* A row changes while nothing else does: it was not claimed, or keeps its claim.
LEMMA RowStep ==
    ASSUME OutboxInv, NEW i \in Intents, Enqueue(i) \/ LeaseEnds(i) \/ RetryDue(i)
    PROVE  OutboxInv'
<1> USE DEF OutboxInv
<1>1. UNCHANGED <<tenantOpen, user, feed, inbox, delivery>>
  BY DEF Enqueue, LeaseEnds, RetryDue
<1>2. outbox[i] \in Row /\ RowOK(outbox[i])
  BY DEF Types, RowsOK
<1>3. PICK r \in Row : /\ RowOK(r) /\ Put(i, r)
                       /\ \/ outbox[i].status # "PROCESSING"
                          \/ r.status = outbox[i].status /\ r.attempts = outbox[i].attempts
  <2>1. CASE Enqueue(i)
    <3>1. PICK r : r = [NoRow EXCEPT !.status = "PENDING", !.due = TRUE, !.content = TRUE]
      OBVIOUS
    <3>2. 0 \in 0 .. MaxClaims /\ 0 \in 0 .. MaxAttempts
      BY NotificationAssumption DEF MaxClaims
    <3>3. /\ r \in Row /\ r.status = "PENDING" /\ r.attempts = 0 /\ r.failures = 0
          /\ r.lease = "none"
      BY <3>1, <3>2 DEF NoRow, Row
    <3>4. RowOK(r)
      BY <3>3, NotificationAssumption DEF RowOK
    <3> QED BY <2>1, <3>1, <3>3, <3>4 DEF Enqueue
  <2>2. CASE LeaseEnds(i)
    <3>1. PICK r : r = [outbox[i] EXCEPT !.lease = "ended"]
      OBVIOUS
    <3>2. /\ r \in Row /\ r.status = outbox[i].status /\ r.attempts = outbox[i].attempts
          /\ r.failures = outbox[i].failures /\ r.lease = "ended"
      BY <1>2, <3>1 DEF Row
    <3>3. RowOK(r)
      BY <1>2, <2>2, <3>2 DEF RowOK, LeaseEnds
    <3> QED BY <2>2, <3>1, <3>2, <3>3 DEF LeaseEnds
  <2>3. CASE RetryDue(i)
    <3>1. PICK r : r = [outbox[i] EXCEPT !.due = TRUE]
      OBVIOUS
    <3>2. /\ r \in Row /\ r.status = outbox[i].status /\ r.attempts = outbox[i].attempts
          /\ r.failures = outbox[i].failures /\ r.lease = outbox[i].lease
      BY <1>2, <3>1 DEF Row
    <3>3. RowOK(r)
      BY <1>2, <3>2 DEF RowOK
    <3> QED BY <2>3, <3>1, <3>2, <3>3 DEF RetryDue
  <2> QED BY <2>1, <2>2, <2>3
<1>4. /\ outbox' \in [Intents -> Row] /\ RowsOK' /\ outbox'[i] = r
      /\ \A j \in Intents : j # i => outbox'[j] = outbox[j]
  BY <1>3, PutRow
<1>5. World
  BY <1>1 DEF World
<1>6. ASSUME NEW e \in Deliveries PROVE Keeps(e)
  <2>1. delivery[e].pc \in Open => /\ delivery[e].i \in Intents
                                   /\ outbox[delivery[e].i].status = "PROCESSING"
    BY DEF DeliveriesOK, DeliveryOK, Open
  <2> QED BY <1>3, <1>4, <2>1 DEF Keeps
<1>7. DeliveriesOK' /\ Exclusive' /\ delivery' \in [Deliveries -> Delivery]
  BY <1>1, <1>5, <1>6, NoDelivery
<1> QED BY <1>1, <1>4, <1>7 DEF Types, InboxOK, OneMailPerIntent

LEMMA ReaderStep ==
    ASSUME OutboxInv, NEW i \in Intents, MarkRead(i)
    PROVE  OutboxInv'
<1> USE DEF OutboxInv
<1>1. UNCHANGED <<tenantOpen, user, outbox, inbox, delivery>>
  BY DEF MarkRead
<1>2. feed' \in [Intents -> {"none", "unread", "read"}]
  BY DEF MarkRead, Types
<1>3. World /\ \A e \in Deliveries : Keeps(e)
  BY <1>1 DEF World, Keeps
<1>4. DeliveriesOK' /\ Exclusive' /\ delivery' \in [Deliveries -> Delivery]
  BY <1>1, <1>3, NoDelivery
<1> QED BY <1>1, <1>2, <1>4 DEF Types, RowsOK, RowOK, InboxOK, OneMailPerIntent

\* The writers of the user and the tenant, who wait for the locks.
LEMMA WriterStep ==
    ASSUME OutboxInv, Suppress \/ CloseTenant \/ \E u \in User : ChangeUser(u)
    PROVE  OutboxInv'
<1> USE DEF OutboxInv
<1>1. ~RecipientLocked /\ UNCHANGED <<outbox, feed, inbox, delivery>>
  BY DEF Suppress, CloseTenant, ChangeUser
<1>2. user' \in User /\ tenantOpen' \in BOOLEAN
  BY DEF Suppress, CloseTenant, ChangeUser, Types, User
<1>3. World /\ \A e \in Deliveries : Keeps(e)
  BY <1>1 DEF World, Keeps
<1>4. DeliveriesOK' /\ Exclusive' /\ delivery' \in [Deliveries -> Delivery]
  BY <1>1, <1>3, NoDelivery
<1> QED BY <1>1, <1>2, <1>4 DEF Types, RowsOK, RowOK, InboxOK, OneMailPerIntent

LEMMA EmptyRow == NoRow \in Row /\ RowOK(NoRow)
BY NotificationAssumption DEF NoRow, Row, RowOK, MaxClaims

\* Erasure takes every intent and every entry, and waits for the locks too.
LEMMA ErasureStep ==
    ASSUME OutboxInv, DeleteUser \/ PurgeTenantData
    PROVE  OutboxInv'
<1> USE DEF OutboxInv
<1>1. /\ ~RecipientLocked /\ outbox' = NoRows /\ feed' = NoEntries
      /\ UNCHANGED <<tenantOpen, inbox, delivery>>
  BY DEF DeleteUser, PurgeTenantData
<1>2. user' \in User
  <2>1. CASE DeleteUser
    BY <2>1 DEF DeleteUser, User
  <2>2. CASE PurgeTenantData
    BY <2>2 DEF PurgeTenantData, Types
  <2> QED BY <2>1, <2>2
<1>3. /\ outbox' \in [Intents -> Row] /\ RowsOK'
      /\ feed' \in [Intents -> {"none", "unread", "read"}]
  BY <1>1, EmptyRow DEF NoRows, NoEntries, RowsOK, RowOK
<1>4. World /\ \A e \in Deliveries : Keeps(e)
  BY <1>1 DEF World, Keeps, RecipientLocked
<1>5. DeliveriesOK' /\ Exclusive' /\ delivery' \in [Deliveries -> Delivery]
  BY <1>1, <1>4, NoDelivery
<1> QED BY <1>1, <1>2, <1>3, <1>5 DEF Types, InboxOK, OneMailPerIntent

-----------------------------------------------------------------------------
(* The invariant. *)

LEMMA InitInv == Init => OutboxInv
<1> SUFFICES ASSUME Init PROVE OutboxInv
  OBVIOUS
<1>2. Idle \in Delivery /\ DeliveryOK(Idle) /\ Idle.pc \notin Open
  <2>1. 0 \in 0 .. MaxClaims
    BY NotificationAssumption DEF MaxClaims
  <2> QED BY <2>1 DEF Idle, Delivery, DeliveryOK, Open
<1>3. Types /\ RowsOK
  BY EmptyRow, <1>2 DEF Init, Types, RowsOK, NoRows, NoEntries
<1>4. InboxOK /\ DeliveriesOK /\ Exclusive
  BY <1>2 DEF Init, InboxOK, OneMailPerIntent, DeliveriesOK, Exclusive
<1> QED BY <1>3, <1>4 DEF OutboxInv

LEMMA StepInv == OutboxInv /\ [Next]_noVars => OutboxInv'
<1> SUFFICES ASSUME OutboxInv, [Next]_noVars PROVE OutboxInv'
  OBVIOUS
<1>1. ASSUME NEW i \in Intents, Enqueue(i) \/ LeaseEnds(i) \/ RetryDue(i) \/ MarkRead(i)
      PROVE  OutboxInv'
  BY <1>1, RowStep, ReaderStep
<1>2. ASSUME NEW d \in Deliveries, NEW i \in Intents, Claim(d, i) PROVE OutboxInv'
  BY <1>2, ClaimStep
<1>3. ASSUME NEW d \in Deliveries, Step(d) PROVE OutboxInv'
  BY <1>3, DeliveryStep
<1>4. CASE Suppress \/ CloseTenant \/ \E u \in User : ChangeUser(u)
  BY <1>4, WriterStep
<1>6. CASE DeleteUser \/ PurgeTenantData
  BY <1>6, ErasureStep
<1>5. CASE UNCHANGED noVars
  <2>1. UNCHANGED <<tenantOpen, user, outbox, feed, inbox, delivery>>
    BY <1>5 DEF noVars
  <2> QED BY <2>1 DEF OutboxInv, Types, RowsOK, RowOK, InboxOK, OneMailPerIntent, DeliveriesOK,
                      DeliveryOK, Exclusive, Eligible
<1> QED BY <1>1, <1>2, <1>3, <1>4, <1>5, <1>6 DEF Next

LEMMA InvHolds == Spec => []OutboxInv
BY InitInv, StepInv, PTL DEF Spec

-----------------------------------------------------------------------------
(* The theorems. *)

\* The idempotency key of deliver() and the locks of its transaction keep the
\* provider from taking a second e-mail for an intent, whatever is retried.
THEOREM OneMail == Spec => []OneMailPerIntent
<1>1. OutboxInv => OneMailPerIntent
  BY DEF OutboxInv, InboxOK
<1> QED BY <1>1, InvHolds, PTL

\* Every failure that markFailed or the transaction counts belongs to a claim
\* of its own, and an intent that is not dead-lettered has budget left.
THEOREM BudgetHolds == Spec => []BudgetSound
<1>1. OutboxInv => BudgetSound
  BY DEF OutboxInv, RowsOK, RowOK, BudgetSound
<1> QED BY <1>1, InvHolds, PTL

-----------------------------------------------------------------------------
(* What a step may never do. *)

\* The delivery whose claim the row is of ends it.
EndedBy(d, i) ==
    /\ delivery[d].i = i /\ delivery[d].attempts = outbox[i].attempts /\ delivery'[d] = Idle
    /\ outbox[i].status = "PROCESSING"
    /\ outbox'[i].status = "DEAD_LETTERED" => outbox'[i].failures = MaxAttempts \/ ~Eligible
    /\ outbox'[i].status = "DELIVERED" => feed'[i] # "none" /\ Handled(i)

\* How a row changes: by erasure, before a claim or by one, by its lease, or
\* by the delivery that holds the claim.
RowChange(i) ==
    \/ Erased(i)
    \/ /\ outbox[i].status \notin Ended /\ outbox[i].lease # "live"
       /\ outbox'[i].status \in {"PENDING", "FAILED", "PROCESSING"}
    \/ /\ outbox[i].status = "PROCESSING"
       /\ outbox'[i] = [outbox[i] EXCEPT !.lease = "ended"]
    \/ \E d \in Deliveries : EndedBy(d, i)

LEMMA Returned ==
    ASSUME OutboxInv, NEW d \in Deliveries, Return(d)
    PROVE  delivery'[d] = Idle
BY DEF OutboxInv, Types, Return

\* Only the row that an action writes changes.
LEMMA OnlyThat ==
    ASSUME OutboxInv, NEW i \in Intents, NEW j \in Intents, NEW r, Put(j, r),
           outbox'[i] # outbox[i]
    PROVE  i = j /\ outbox'[i] = r
BY DEF OutboxInv, Types, Put

LEMMA OutsideChange ==
    ASSUME OutboxInv, NEW i \in Intents, NEW j \in Intents, outbox'[i] # outbox[i],
           Enqueue(j) \/ RetryDue(j) \/ LeaseEnds(j) \/ \E d \in Deliveries : Claim(d, j)
    PROVE  RowChange(i)
<1>1. outbox[i] \in Row /\ RowOK(outbox[i])
  BY DEF OutboxInv, Types, RowsOK
<1>2. CASE Enqueue(j)
  <2>1. i = j /\ outbox'[i] = [NoRow EXCEPT !.status = "PENDING", !.due = TRUE, !.content = TRUE]
    BY <1>2, OnlyThat DEF Enqueue
  <2>2. outbox'[i].status = "PENDING" /\ outbox[i].status = "NONE" /\ outbox[i].lease # "live"
    BY <1>1, <1>2, <2>1 DEF Enqueue, NoRow, RowOK
  <2> QED BY <2>2 DEF RowChange, Ended
<1>3. CASE RetryDue(j)
  <2>1. i = j /\ outbox'[i] = [outbox[i] EXCEPT !.due = TRUE]
    BY <1>3, OnlyThat DEF RetryDue
  <2>2. outbox'[i].status = "FAILED" /\ outbox[i].status = "FAILED" /\ outbox[i].lease # "live"
    BY <1>1, <1>3, <2>1 DEF RetryDue, Row, RowOK
  <2> QED BY <2>2 DEF RowChange, Ended
<1>4. CASE LeaseEnds(j)
  <2>1. i = j /\ outbox'[i] = [outbox[i] EXCEPT !.lease = "ended"]
    BY <1>4, OnlyThat DEF LeaseEnds
  <2>2. outbox[i].status = "PROCESSING"
    BY <1>1, <1>4, <2>1 DEF LeaseEnds, RowOK
  <2> QED BY <2>1, <2>2 DEF RowChange
<1>5. ASSUME NEW d \in Deliveries, Claim(d, j) PROVE RowChange(i)
  <2>1. i = j /\ outbox'[i] = [outbox[i] EXCEPT !.status = "PROCESSING", !.attempts = @ + 1,
                                                !.lease = "live"]
    BY <1>5, OnlyThat DEF Claim
  <2>2. outbox'[i].status = "PROCESSING"
    BY <1>1, <2>1 DEF Row
  <2>3. outbox[i].status \notin Ended /\ outbox[i].lease # "live"
    BY <1>1, <1>5, <2>1 DEF Claim, Claimable, RowOK, Ended
  <2> QED BY <2>2, <2>3 DEF RowChange
<1> QED BY <1>2, <1>3, <1>4, <1>5

LEMMA BeginChange ==
    ASSUME OutboxInv, NEW i \in Intents, NEW d \in Deliveries, outbox'[i] # outbox[i], Begin(d)
    PROVE  EndedBy(d, i)
<1> DEFINE j == delivery[d].i
<1>1. delivery[d].pc = "prepared" /\ Owns(d)
  BY DEF Begin
<1>2. /\ j \in Intents /\ outbox[j] \in Row /\ RowOK(outbox[j])
      /\ outbox[j].status = "PROCESSING" /\ outbox[j].attempts = delivery[d].attempts
  BY <1>1, OwnedRow
<1>3. CASE ~Eligible /\ Put(j, DeadRow(outbox[j])) /\ Return(d)
  <2>1. i = j /\ outbox'[i] = DeadRow(outbox[j]) /\ delivery'[d] = Idle
    BY <1>2, <1>3, OnlyThat, Returned
  <2> QED BY <1>2, <1>3, <2>1, WrittenRows DEF EndedBy
<1>4. CASE Put(j, FailedRow(outbox[j])) /\ Return(d)
  <2>1. i = j /\ outbox'[i] = FailedRow(outbox[j]) /\ delivery'[d] = Idle
    BY <1>2, <1>4, OnlyThat, Returned
  <2> QED BY <1>2, <2>1, WrittenRows DEF EndedBy
<1>5. CASE /\ Eligible /\ ~RecipientChanged(d) /\ ~delivery[d].failed
           /\ delivery[d].handoff # "send" \/ user.suppressed
           /\ Put(j, DeliveredRow(outbox[j])) /\ Write(j) /\ Return(d)
  <2>1. i = j /\ outbox'[i] = DeliveredRow(outbox[j]) /\ delivery'[d] = Idle
    BY <1>2, <1>5, OnlyThat, Returned
  <2>2. feed'[i] # "none"
    BY <1>2, <1>5, <2>1, WrittenFeed DEF OutboxInv
  <2>3. Handled(i)
    <3>1. delivery[d].mail = user.email
      BY <1>5 DEF RecipientChanged
    <3>2. delivery[d].handoff \in {"skip", "send"}
      <4>1. user.email # Unread /\ delivery[d].handoff \in {"none", "skip", "send"}
        BY NotificationAssumption DEF OutboxInv, Types, User, Delivery
      <4> QED BY <1>5, <3>1, <4>1 DEF OutboxInv, DeliveriesOK, DeliveryOK
    <3> QED BY <1>5, <2>1, <3>1, <3>2 DEF Handled
  <2> QED BY <1>2, <2>1, <2>2, <2>3, WrittenRows DEF EndedBy
<1>6. ASSUME UNCHANGED outbox PROVE FALSE
  BY <1>6
<1> QED BY <1>3, <1>4, <1>5, <1>6 DEF Begin, HandoffRefuses

LEMMA CommitChange ==
    ASSUME OutboxInv, NEW i \in Intents, NEW d \in Deliveries, outbox'[i] # outbox[i], Commit(d)
    PROVE  EndedBy(d, i)
<1> DEFINE j == delivery[d].i
<1>1. delivery[d].pc \in Open /\ delivery[d].pc # "idle" /\ Write(j) /\ Return(d)
  BY DEF Commit, Open
<1>2. /\ j \in Intents /\ outbox[j] \in Row /\ RowOK(outbox[j])
      /\ outbox[j].status = "PROCESSING" /\ outbox[j].attempts = delivery[d].attempts
  BY <1>1, OwnedRow
<1>3. CASE delivery[d].pc = "accepted" /\ Put(j, DeliveredRow(outbox[j]))
  <2>1. i = j /\ outbox'[i] = DeliveredRow(outbox[j]) /\ delivery'[d] = Idle
    BY <1>1, <1>2, <1>3, OnlyThat, Returned
  <2>2. feed'[i] # "none"
    BY <1>1, <1>2, <2>1, WrittenFeed DEF OutboxInv
  <2>3. Handled(i)
    BY <1>3, <2>1 DEF OutboxInv, DeliveriesOK, DeliveryOK, Handled
  <2> QED BY <1>2, <2>1, <2>2, <2>3, WrittenRows DEF EndedBy
<1>4. CASE Put(j, FailedRow(outbox[j]))
  <2>1. i = j /\ outbox'[i] = FailedRow(outbox[j]) /\ delivery'[d] = Idle
    BY <1>1, <1>2, <1>4, OnlyThat, Returned
  <2> QED BY <1>2, <2>1, WrittenRows DEF EndedBy
<1> QED BY <1>3, <1>4 DEF Commit

LEMMA BookkeepingChange ==
    ASSUME OutboxInv, NEW i \in Intents, NEW d \in Deliveries, outbox'[i] # outbox[i],
           Postpone(d) \/ MarkFailed(d)
    PROVE  EndedBy(d, i)
<1> DEFINE j == delivery[d].i
<1>1. delivery[d].pc # "idle" /\ Return(d) /\ Owns(d)
  BY DEF Postpone, MarkFailed
<1>2. /\ j \in Intents /\ outbox[j] \in Row /\ RowOK(outbox[j])
      /\ outbox[j].status = "PROCESSING" /\ outbox[j].attempts = delivery[d].attempts
  BY <1>1, OwnedRow
<1>3. CASE Put(j, FailedRow(outbox[j]))
  <2>1. i = j /\ outbox'[i] = FailedRow(outbox[j]) /\ delivery'[d] = Idle
    BY <1>1, <1>2, <1>3, OnlyThat, Returned
  <2> QED BY <1>2, <2>1, WrittenRows DEF EndedBy
<1>4. CASE Put(j, [outbox[j] EXCEPT !.status = "FAILED", !.due = FALSE, !.lease = "none"])
  <2>1. /\ i = j /\ delivery'[d] = Idle
        /\ outbox'[i] = [outbox[j] EXCEPT !.status = "FAILED", !.due = FALSE, !.lease = "none"]
    BY <1>1, <1>2, <1>4, OnlyThat, Returned
  <2>2. outbox'[i].status = "FAILED"
    BY <1>2, <2>1, PostponedRow
  <2> QED BY <1>2, <2>1, <2>2 DEF EndedBy
<1> QED BY <1>3, <1>4 DEF Postpone, MarkFailed

LEMMA ChangesAreKnown ==
    ASSUME OutboxInv, Next, NEW i \in Intents, outbox'[i] # outbox[i]
    PROVE  RowChange(i)
<1>1. ASSUME NEW j \in Intents, Enqueue(j) \/ LeaseEnds(j) \/ RetryDue(j) \/ MarkRead(j)
      PROVE  RowChange(i)
  BY <1>1, OutsideChange DEF MarkRead
<1>2. ASSUME NEW d \in Deliveries, NEW j \in Intents, Claim(d, j) PROVE RowChange(i)
  BY <1>2, OutsideChange
<1>3. ASSUME NEW d \in Deliveries, Step(d) PROVE RowChange(i)
  <2>1. Begin(d) \/ Commit(d) \/ Postpone(d) \/ MarkFailed(d)
    BY <1>3 DEF Step, Prepare, PrepareFails, LockUnavailable, OwnershipLost, Send, SendFails,
                LeaseRunsOut, TransactionFails, DeliveryStops
  <2> QED BY <2>1, BeginChange, CommitChange, BookkeepingChange DEF RowChange
<1>4. ASSUME Suppress \/ CloseTenant \/ \E u \in User : ChangeUser(u) PROVE FALSE
  BY <1>4 DEF Suppress, CloseTenant, ChangeUser
<1>5. CASE DeleteUser \/ PurgeTenantData
  BY <1>5 DEF DeleteUser, PurgeTenantData, NoRows, NoEntries, Erased, RowChange
<1> QED BY <1>1, <1>2, <1>3, <1>4, <1>5 DEF Next

\* A row that becomes terminal was ended by the delivery that holds its claim.
LEMMA EndingIsOwned ==
    ASSUME OutboxInv, Next, NEW i \in Intents, outbox[i].status # outbox'[i].status,
           outbox'[i].status \in Ended
    PROVE  \E d \in Deliveries : EndedBy(d, i)
<1>1. RowChange(i)
  BY ChangesAreKnown
<1>2. ASSUME outbox'[i] = [outbox[i] EXCEPT !.lease = "ended"] PROVE FALSE
  <2>1. outbox[i] \in Row
    BY DEF OutboxInv, Types
  <2> QED BY <1>2, <2>1 DEF Row
<1> QED BY <1>1, <1>2 DEF RowChange, Ended, Erased, NoRow

\* deliver() marks an intent delivered only with its feed entry and an e-mail
\* the provider accepted for the recipient, unless none is owed.
THEOREM DeliveredMeansHandled == Spec => DeliveredIsHandled
<1> DEFINE A == \A i \in Intents :
                  outbox[i].status # "DELIVERED" /\ outbox'[i].status = "DELIVERED" =>
                     feed'[i] # "none" /\ Handled(i)
<1>1. OutboxInv /\ [Next]_noVars => [A]_noVars
  <2> SUFFICES ASSUME OutboxInv, Next, NEW i \in Intents,
                      outbox[i].status # "DELIVERED", outbox'[i].status = "DELIVERED"
               PROVE  feed'[i] # "none" /\ Handled(i)
    OBVIOUS
  <2>1. PICK d \in Deliveries : EndedBy(d, i)
    BY EndingIsOwned DEF Ended
  <2> QED BY <2>1 DEF EndedBy
<1> QED BY <1>1, InvHolds, PTL DEF Spec, DeliveredIsHandled

\* An intent is dead-lettered only for a spent budget or a recipient who is gone.
THEOREM DeadLettersHaveReasons == Spec => DeadLetterHasReason
<1> DEFINE A == \A i \in Intents :
                  outbox[i].status # "DEAD_LETTERED" /\ outbox'[i].status = "DEAD_LETTERED" =>
                     outbox'[i].failures = MaxAttempts \/ ~Eligible
<1>1. OutboxInv /\ [Next]_noVars => [A]_noVars
  <2> SUFFICES ASSUME OutboxInv, Next, NEW i \in Intents,
                      outbox[i].status # "DEAD_LETTERED", outbox'[i].status = "DEAD_LETTERED"
               PROVE  outbox'[i].failures = MaxAttempts \/ ~Eligible
    OBVIOUS
  <2>1. PICK d \in Deliveries : EndedBy(d, i)
    BY EndingIsOwned DEF Ended
  <2> QED BY <2>1 DEF EndedBy
<1> QED BY <1>1, InvHolds, PTL DEF Spec, DeadLetterHasReason

\* Under a live lease the row is changed only by the delivery that claimed it,
\* and a terminal row never changes, until an erasure takes it.
THEOREM ClaimsAreProtected == Spec => LeaseProtectsClaim
<1> DEFINE A == \A i \in Intents :
                  outbox'[i] # outbox[i] =>
                     \/ Erased(i)
                     \/ /\ outbox[i].status \notin Ended
                        /\ outbox[i].lease = "live" =>
                              \/ outbox'[i] = [outbox[i] EXCEPT !.lease = "ended"]
                              \/ \E d \in Deliveries :
                                    /\ delivery[d].i = i
                                    /\ delivery[d].attempts = outbox[i].attempts
                                    /\ delivery'[d] = Idle
<1>1. OutboxInv /\ [Next]_noVars => [A]_noVars
  <2> SUFFICES ASSUME OutboxInv, Next, NEW i \in Intents, outbox'[i] # outbox[i], ~Erased(i)
               PROVE  /\ outbox[i].status \notin Ended
                      /\ outbox[i].lease = "live" =>
                            \/ outbox'[i] = [outbox[i] EXCEPT !.lease = "ended"]
                            \/ \E d \in Deliveries :
                                  /\ delivery[d].i = i
                                  /\ delivery[d].attempts = outbox[i].attempts
                                  /\ delivery'[d] = Idle
    OBVIOUS
  <2>1. RowChange(i)
    BY ChangesAreKnown
  <2> QED BY <2>1 DEF RowChange, EndedBy, Ended
<1> QED BY <1>1, InvHolds, PTL DEF Spec, LeaseProtectsClaim

\* The e-mail of an intent goes out under the current claim of its row, to the
\* address of an active recipient who is not suppressed.
THEOREM MailIsAddressed == Spec => MailGoesToRecipient
<1> DEFINE A == \A m \in inbox' \ inbox :
                  /\ Eligible /\ ~user.suppressed /\ m.to = user.email
                  /\ \E d \in Deliveries : /\ delivery[d].i = m.intent
                                           /\ outbox[m.intent].attempts = delivery[d].attempts
                                           /\ outbox[m.intent].status = "PROCESSING"
<1>1. OutboxInv /\ [Next]_noVars => [A]_noVars
  <2> SUFFICES ASSUME OutboxInv, Next, NEW m \in inbox' \ inbox
               PROVE  /\ Eligible /\ ~user.suppressed /\ m.to = user.email
                      /\ \E d \in Deliveries : /\ delivery[d].i = m.intent
                                               /\ outbox[m.intent].attempts = delivery[d].attempts
                                               /\ outbox[m.intent].status = "PROCESSING"
    OBVIOUS
  <2>1. PICK d \in Deliveries : Send(d) \/ SendFails(d)
    <3>1. inbox' # inbox
      OBVIOUS
    <3> QED BY <3>1 DEF Next, Step, Enqueue, LeaseEnds, RetryDue, MarkRead, Claim, Suppress,
               ChangeUser, CloseTenant, DeleteUser, PurgeTenantData, Prepare, PrepareFails,
               LockUnavailable, OwnershipLost, Begin, Commit, LeaseRunsOut, TransactionFails, Postpone, MarkFailed, DeliveryStops
  <2>2. delivery[d].pc \in Open /\ delivery[d].pc # "idle" /\ DeliveryOK(delivery[d])
    BY <2>1 DEF Send, SendFails, Open, OutboxInv, DeliveriesOK
  <2>3. m = Mail(delivery[d].i, user.email)
    BY <2>1, <2>2 DEF Send, SendFails, DeliveryOK
  <2>4. m.intent = delivery[d].i /\ m.to = user.email
    BY <2>3 DEF Mail
  <2> QED BY <2>2, <2>4 DEF DeliveryOK
<1> QED BY <1>1, InvHolds, PTL DEF Spec, MailGoesToRecipient

\* What a deleted account leaves: no intent and no entry, and a delivery that
\* was under way finds no claim of its own any more.
Gone == user.state = "deleted" => \A i \in Intents : outbox[i] = NoRow /\ feed[i] = "none"

\* The upsert of a delivery needs an open transaction or a claimed row.
LEMMA FeedChanges ==
    ASSUME OutboxInv, Next
    PROVE  \/ UNCHANGED feed
           \/ \E j \in Intents : MarkRead(j)
           \/ DeleteUser \/ PurgeTenantData
           \/ Eligible /\ UNCHANGED user /\ \E j : Write(j)
<1>1. ASSUME NEW d \in Deliveries, Commit(d) PROVE Eligible /\ UNCHANGED user /\ \E j : Write(j)
  BY <1>1 DEF Commit, OutboxInv, DeliveriesOK, DeliveryOK, Open
<1>2. ASSUME NEW d \in Deliveries, Begin(d)
      PROVE  UNCHANGED feed \/ (Eligible /\ UNCHANGED user /\ \E j : Write(j))
  BY <1>2 DEF Begin
<1> QED BY <1>1, <1>2 DEF Next, Step, Enqueue, LeaseEnds, RetryDue, Claim, Suppress, ChangeUser,
       CloseTenant, Prepare, PrepareFails, LockUnavailable, OwnershipLost, Send, SendFails,
       LeaseRunsOut, TransactionFails, Postpone, MarkFailed, DeliveryStops

LEMMA GoneStep ==
    ASSUME OutboxInv, Gone, Next
    PROVE  Gone'
<1>1. CASE DeleteUser
  BY <1>1 DEF DeleteUser, Gone, NoRows, NoEntries
<1>2. CASE PurgeTenantData
  BY <1>2 DEF PurgeTenantData, Gone, NoRows, NoEntries
<1>3. CASE ~DeleteUser /\ ~PurgeTenantData
  <2> SUFFICES ASSUME user'.state = "deleted", NEW i \in Intents
               PROVE  outbox'[i] = NoRow /\ feed'[i] = "none"
    BY DEF Gone
  <2>1. user.state = "deleted" /\ UNCHANGED user
    BY <1>3 DEF Next, Step, Enqueue, LeaseEnds, RetryDue, MarkRead, Claim, Suppress, ChangeUser,
          CloseTenant, Prepare, PrepareFails, LockUnavailable, OwnershipLost, Begin, Send,
          SendFails, Commit, LeaseRunsOut, TransactionFails, Postpone, MarkFailed, DeliveryStops,
          OutboxInv, Types, User
  <2>2. \A j \in Intents : outbox[j] = NoRow /\ feed[j] = "none"
    BY <2>1 DEF Gone
  <2>3. feed'[i] = "none"
    BY <1>3, <2>1, <2>2, FeedChanges DEF MarkRead, Eligible
  <2>4. ASSUME outbox'[i] # outbox[i] PROVE FALSE
    <3>1. ~Erased(i)
      BY <2>2, <2>4 DEF Erased
    <3>2. outbox[i].status = "NONE" /\ outbox[i].lease = "none"
      BY <2>2 DEF NoRow
    <3>3. ~\E d \in Deliveries : EndedBy(d, i)
      BY <3>2 DEF EndedBy
    <3>4. ASSUME NEW j \in Intents PROVE ~Enqueue(j) /\ ~LeaseEnds(j) /\ ~RetryDue(j)
      BY <2>1, <2>2 DEF Enqueue, LeaseEnds, RetryDue, NoRow, Eligible
    <3>5. ASSUME NEW j \in Intents, NEW d \in Deliveries PROVE ~Claim(d, j)
      BY <2>2 DEF Claim, Claimable, NoRow
    <3>6. \E d \in Deliveries : Step(d)
      BY <1>3, <2>4, <3>4, <3>5 DEF Next, MarkRead, Suppress, ChangeUser, CloseTenant
    <3>7. \E d \in Deliveries : Begin(d) \/ Commit(d) \/ Postpone(d) \/ MarkFailed(d)
      BY <2>4, <3>6 DEF Step, Prepare, PrepareFails, LockUnavailable, OwnershipLost, Send,
            SendFails, LeaseRunsOut, TransactionFails, DeliveryStops
    <3> QED BY <2>4, <3>3, <3>7, BeginChange, CommitChange, BookkeepingChange
  <2> QED BY <2>2, <2>3, <2>4
<1> QED BY <1>1, <1>2, <1>3

\* No delivery takes a feed entry back, marks a read one unread, or brings one
\* back to an account that is deleted.
THEOREM FeedSurvives == Spec => FeedIsKept
<1> DEFINE A == \A i \in Intents :
                  /\ feed[i] # "none" => feed'[i] # "none" \/ Erased(i)
                  /\ feed[i] = "read" => feed'[i] # "unread"
                  /\ user'.state = "deleted" => outbox'[i] = NoRow /\ feed'[i] = "none"
<1>1. Init => Gone
  BY DEF Init, Gone, User
<1>2. OutboxInv /\ Gone /\ [Next]_noVars => Gone'
  BY GoneStep DEF noVars, Gone
<1>3. OutboxInv /\ Gone /\ [Next]_noVars => [A]_noVars
  <2> SUFFICES ASSUME OutboxInv, Gone, Next, NEW i \in Intents
               PROVE  /\ feed[i] # "none" => feed'[i] # "none" \/ Erased(i)
                      /\ feed[i] = "read" => feed'[i] # "unread"
                      /\ user'.state = "deleted" => outbox'[i] = NoRow /\ feed'[i] = "none"
    OBVIOUS
  <2>1. user'.state = "deleted" => outbox'[i] = NoRow /\ feed'[i] = "none"
    BY GoneStep DEF Gone
  <2>2. feed \in [Intents -> {"none", "unread", "read"}]
    BY DEF OutboxInv, Types
  <2>3. CASE DeleteUser \/ PurgeTenantData
    BY <2>1, <2>3 DEF DeleteUser, PurgeTenantData, NoRows, NoEntries, Erased
  <2>4. CASE UNCHANGED feed \/ (\E j : Write(j)) \/ \E j \in Intents : MarkRead(j)
    BY <2>1, <2>2, <2>4 DEF Write, Fed, MarkRead
  <2> QED BY <2>3, <2>4, FeedChanges
<1> QED BY <1>1, <1>2, <1>3, InvHolds, PTL DEF Spec, FeedIsKept

-----------------------------------------------------------------------------
(* The other components of the composition; P1 to P4, U1 and U2 are the  *)
(* instances of the modules that prove about them.                        *)

-----------------------------------------------------------------------------
(* Invitations. *)

Live == {"PENDING", "SENDING", "FAILED"}
Mails == [key : Invite!Ids \cup {None}, id : Invite!Ids \cup {None}, to : InviteAddresses \cup {None}]

\* Only a row in SENDING has an owner and a lease.
RowIsOwned == inviteRow.status # "SENDING" => inviteRow.owner = None /\ inviteRow.lease = "none"

\* A busy worker whose name is on the row has the row's number of attempts.
OwnerKnows ==
    \A w \in InviteWorkers : inviteRow.owner = w /\ inviteWorker[w].pc # "idle" =>
        inviteWorker[w].attempts = inviteRow.attempts

\* A worker that holds the locks has the claim of the row, and nothing it
\* checked has changed.
OpenHolds ==
    \A w \in InviteWorkers : inviteWorker[w].pc \in Invite!Open =>
        /\ Invite!TenantOpen /\ Invite!UserActive /\ ~inviteUser.suppressed /\ inviteUser.email = inviteWorker[w].to
        /\ Invite!Owns(w) /\ inviteRow.to = inviteWorker[w].to

AcceptedIsSent ==
    \A w \in InviteWorkers : inviteWorker[w].pc = "accepted" => Invite!Mail(inviteWorker[w].id, inviteWorker[w].to) \in inviteInbox

\* Before the employee is invited there is no row.
FirstInvitation == inviteUser.state = "none" => inviteRow = Invite!NoRow

UsedAreKnown == inviteUsed \subseteq InviteInvitations \cup inviteReissued

MailsAreKeyed == inviteInbox \subseteq Mails /\ \A m \in inviteInbox : m.key = m.id

RowFacts == RowIsOwned /\ Invite!LiveRowIsWanted /\ FirstInvitation /\ UsedAreKnown
WorkerFacts == OwnerKnows /\ OpenHolds /\ AcceptedIsSent
MailFacts == MailsAreKeyed /\ Invite!OneMailPerDelivery

Inv == Invite!TypeOK /\ RowFacts /\ WorkerFacts /\ MailFacts

-----------------------------------------------------------------------------
(* The values a row and a worker are given. *)

LEMMA Values ==
  ASSUME Invite!InvitationAssumption
  PROVE  /\ Invite!NoRow \in Invite!Row /\ Invite!NoRow.status = "NONE" /\ Invite!NoRow.owner = None
         /\ Invite!NoRow.lease = "none"
         /\ Invite!Idle \in Invite!Worker /\ Invite!Idle.pc = "idle"
  BY DEF Invite!InvitationAssumption, Invite!NoRow, Invite!Row, Invite!Idle, Invite!Worker

LEMMA PendingValue ==
  ASSUME Invite!InvitationAssumption, NEW id \in Invite!Ids, NEW a \in InviteAddresses
  PROVE  LET r == Invite!PendingRow(id, a) IN
         /\ r \in Invite!Row /\ r.id = id /\ r.status = "PENDING" /\ r.owner = None
         /\ r.lease = "none" /\ r.to = a
<1>1. PICK r : r = Invite!PendingRow(id, a)
  OBVIOUS
<1>2. r = [Invite!NoRow EXCEPT !.id = id, !.status = "PENDING", !.due = TRUE, !.to = a]
  BY <1>1 DEF Invite!PendingRow
<1>3. /\ r \in Invite!Row /\ r.id = id /\ r.status = "PENDING" /\ r.owner = None
      /\ r.lease = "none" /\ r.to = a
  BY <1>2, Values DEF Invite!NoRow, Invite!Row
<1>. QED
  BY <1>1, <1>3

LEMMA EndedValue ==
  ASSUME Invite!InvitationAssumption, NEW r \in Invite!Row, NEW s \in Invite!Terminal
  PROVE  LET e == Invite!Ended(r, s) IN
         /\ e \in Invite!Row /\ e.id = r.id /\ e.status = s /\ e.owner = None
         /\ e.lease = "none"
  BY DEF Invite!InvitationAssumption, Invite!Ended, Invite!Row, Invite!Terminal

LEMMA CancelledValue ==
  ASSUME Invite!InvitationAssumption, NEW r \in Invite!Row
  PROVE  /\ Invite!Cancelled(r) \in Invite!Row
         /\ Invite!Cancelled(r).status \notin Live
         /\ r.status \in Live => Invite!Cancelled(r) = Invite!Ended(r, "CANCELLED")
         /\ r.status \notin Live => Invite!Cancelled(r) = r
  BY EndedValue DEF Invite!Cancelled, Live, Invite!Terminal

-----------------------------------------------------------------------------
(* What a step does to the row. *)

RowEnds(s) ==
    /\ inviteRow.status \in Live
    /\ inviteRow' = Invite!Ended(inviteRow, s)
    /\ UNCHANGED <<inviteTenant, inviteUser, inviteReissued, inviteUsed>>

\* The row is replaced by a new delivery, which the employee is to get.
RowStarts(id, a) ==
    /\ inviteRow.status \notin Live
    /\ inviteRow' = Invite!PendingRow(id, a)
    /\ inviteUser'.state = "active" /\ inviteUser'.email = a
    /\ inviteUsed' = inviteUsed \cup {id}

\* The row moves in the cycle of claims and failures.
RowMoves(r) ==
    /\ inviteRow.status \in Live /\ r.status \in Live
    /\ inviteRow' = r /\ r.to = inviteRow.to
    /\ r.status # "SENDING" => r.owner = None /\ r.lease = "none"
    /\ UNCHANGED <<inviteTenant, inviteUser, inviteReissued, inviteUsed>>

RowGoal ==
    /\ inviteTenant' \in {"ACTIVE", "SUSPENDED", "CANCELLED"} /\ inviteUser' \in Invite!User /\ inviteRow' \in Invite!Row
    /\ RowFacts'

LEMMA RowKinds ==
  ASSUME Invite!InvitationAssumption, Inv
  PROVE  /\ \A s \in Invite!Terminal : RowEnds(s) => RowGoal
         /\ \A r \in Invite!Row : RowMoves(r) => RowGoal
         /\ UNCHANGED <<inviteTenant, inviteUser, inviteRow, inviteReissued, inviteUsed>> => RowGoal
<1>1. inviteRow \in Invite!Row /\ inviteUser \in Invite!User /\ RowFacts /\ inviteTenant \in {"ACTIVE", "SUSPENDED", "CANCELLED"}
  BY DEF Inv, Invite!TypeOK
<1>2. inviteRow.status \in Live => Invite!UserActive /\ inviteUser.email = inviteRow.to
  BY <1>1 DEF RowFacts, Invite!LiveRowIsWanted, Live
<1>3. ASSUME NEW s \in Invite!Terminal, RowEnds(s) PROVE RowGoal
  <2>1. inviteRow' \in Invite!Row /\ inviteRow'.status = s /\ inviteRow'.owner = None /\ inviteRow'.lease = "none"
    BY <1>1, <1>3, EndedValue DEF RowEnds
  <2>2. inviteUser.state = "active"
    BY <1>2, <1>3 DEF RowEnds, Invite!UserActive
  <2>. QED
    BY <1>1, <1>3, <2>1, <2>2
    DEF RowEnds, RowGoal, RowFacts, RowIsOwned, Invite!LiveRowIsWanted, FirstInvitation, UsedAreKnown,
        Invite!Terminal
<1>4. ASSUME NEW r \in Invite!Row, RowMoves(r) PROVE RowGoal
  <2>1. inviteUser.state = "active"
    BY <1>2, <1>4 DEF RowMoves, Invite!UserActive
  <2>. QED
    BY <1>1, <1>2, <1>4, <2>1
    DEF RowMoves, RowGoal, RowFacts, RowIsOwned, Invite!LiveRowIsWanted, FirstInvitation, UsedAreKnown,
        Live, Invite!UserActive
<1>5. ASSUME UNCHANGED <<inviteTenant, inviteUser, inviteRow, inviteReissued, inviteUsed>> PROVE RowGoal
  BY <1>1, <1>5
  DEF RowGoal, RowFacts, RowIsOwned, Invite!LiveRowIsWanted, FirstInvitation, UsedAreKnown, Invite!UserActive
<1>. QED
  BY <1>3, <1>4, <1>5

LEMMA RowStarting ==
  ASSUME Invite!InvitationAssumption, Inv, NEW id \in Invite!Ids, NEW a \in InviteAddresses, RowStarts(id, a),
         inviteUser' \in Invite!User, UNCHANGED inviteTenant, inviteReissued \subseteq inviteReissued',
         id \in InviteInvitations \cup inviteReissued'
  PROVE  RowGoal
<1>1. inviteRow' \in Invite!Row /\ inviteRow'.status = "PENDING" /\ inviteRow'.owner = None /\ inviteRow'.lease = "none" /\ inviteRow'.to = a
  BY PendingValue DEF RowStarts
<1>. QED
  BY <1>1 DEF RowStarts, RowGoal, RowFacts, RowIsOwned, Invite!LiveRowIsWanted, FirstInvitation, UsedAreKnown,
        Invite!UserActive, Inv, Invite!TypeOK

LEMMA RowInvited ==
  ASSUME Invite!InvitationAssumption, Inv, NEW id \in InviteInvitations, NEW a \in InviteAddresses, Invite!Invite(id, a)
  PROVE  RowGoal /\ inviteRow = Invite!NoRow
<1>1. inviteRow = Invite!NoRow /\ inviteRow.status \notin Live
  BY Values DEF Inv, RowFacts, FirstInvitation, Invite!Invite, Live
<1>2. inviteUser' \in Invite!User /\ inviteUser'.state = "active" /\ inviteUser'.email = a
  BY DEF Invite!Invite, Invite!User
<1>3. RowStarts(id, a) /\ UNCHANGED <<inviteTenant, inviteReissued>>
  BY <1>1, <1>2 DEF RowStarts, Invite!Invite
<1>. QED
  BY <1>1, <1>2, <1>3, RowStarting DEF Invite!Ids

LEMMA RowReissued ==
  ASSUME Invite!InvitationAssumption, Inv, NEW k \in InviteReissueKeys, Invite!Reissue(k)
  PROVE  RowGoal
<1>1. inviteUser \in Invite!User /\ inviteUser.email \in InviteAddresses
  BY DEF Inv, Invite!TypeOK, Invite!User, Invite!Reissue
<1>2. RowStarts(k, inviteUser.email) /\ UNCHANGED <<inviteTenant, inviteUser>> /\ inviteReissued' = inviteReissued \cup {k}
  BY DEF RowStarts, Invite!Reissue, Live, Invite!UserActive
<1>. QED
  BY <1>1, <1>2, RowStarting DEF Invite!Ids

LEMMA RowRetried ==
  ASSUME Invite!InvitationAssumption, Inv, Invite!Retry
  PROVE  RowGoal /\ inviteRow'.owner = inviteRow.owner /\ inviteRow'.attempts = inviteRow.attempts
<1>1. inviteRow \in Invite!Row /\ RowIsOwned
  BY DEF Inv, Invite!TypeOK, RowFacts
<1>2. PICK r : r = [inviteRow EXCEPT !.status = "PENDING", !.retries = inviteRow.retries + 1, !.due = TRUE]
  OBVIOUS
<1>3. inviteRow.retries + 1 \in 0 .. InviteMaxManualRetries
  BY <1>1 DEF Invite!Retry, Invite!Row, Invite!InvitationAssumption
<1>4. /\ r \in Invite!Row /\ r.status = "PENDING" /\ r.owner = inviteRow.owner /\ r.lease = inviteRow.lease
      /\ r.to = inviteRow.to /\ r.attempts = inviteRow.attempts
  BY <1>1, <1>2, <1>3 DEF Invite!Row
<1>5. inviteRow' = r /\ inviteRow.status = "FAILED" /\ UNCHANGED <<inviteTenant, inviteUser, inviteReissued, inviteUsed>>
  BY <1>2 DEF Invite!Retry
<1>6. RowMoves(r)
  BY <1>1, <1>4, <1>5 DEF RowMoves, RowIsOwned, Live
<1>. QED
  BY <1>4, <1>5, <1>6, RowKinds

LEMMA RowTimed ==
  ASSUME Invite!InvitationAssumption, Inv, Invite!LeaseEnds \/ Invite!RetryDue
  PROVE  /\ RowGoal
         /\ inviteRow'.owner = inviteRow.owner /\ inviteRow'.attempts = inviteRow.attempts
         /\ inviteRow'.id = inviteRow.id /\ inviteRow'.to = inviteRow.to /\ inviteRow'.status = inviteRow.status
<1>1. inviteRow \in Invite!Row /\ RowIsOwned
  BY DEF Inv, Invite!TypeOK, RowFacts
<1>3. CASE Invite!LeaseEnds
  <2>1. PICK r : r = [inviteRow EXCEPT !.lease = "ended"]
    OBVIOUS
  <2>2. /\ r \in Invite!Row /\ r.status = inviteRow.status /\ r.owner = inviteRow.owner
        /\ r.to = inviteRow.to /\ r.id = inviteRow.id /\ r.attempts = inviteRow.attempts
    BY <1>1, <2>1 DEF Invite!Row
  <2>3. inviteRow' = r /\ inviteRow.lease = "live" /\ UNCHANGED <<inviteTenant, inviteUser, inviteReissued, inviteUsed>>
    BY <1>3, <2>1 DEF Invite!LeaseEnds
  <2>4. RowMoves(r) /\ inviteRow.status = "SENDING"
    BY <1>1, <2>2, <2>3 DEF RowMoves, RowIsOwned, Live
  <2>. QED
    BY <1>3, <2>2, <2>3, <2>4, RowKinds
<1>4. CASE Invite!RetryDue
  <2>1. PICK r : r = [inviteRow EXCEPT !.due = TRUE]
    OBVIOUS
  <2>2. /\ r \in Invite!Row /\ r.status = inviteRow.status /\ r.owner = inviteRow.owner /\ r.lease = inviteRow.lease
        /\ r.to = inviteRow.to /\ r.id = inviteRow.id /\ r.attempts = inviteRow.attempts
    BY <1>1, <2>1 DEF Invite!Row
  <2>3. inviteRow' = r /\ inviteRow.status = "FAILED" /\ UNCHANGED <<inviteTenant, inviteUser, inviteReissued, inviteUsed>>
    BY <1>4, <2>1 DEF Invite!RetryDue
  <2>4. RowMoves(r)
    BY <1>1, <2>2, <2>3 DEF RowMoves, RowIsOwned, Live
  <2>. QED
    BY <1>4, <2>2, <2>3, <2>4, RowKinds
<1>. QED
  BY <1>3, <1>4

LEMMA RowChanged ==
  ASSUME Invite!InvitationAssumption, Inv,
         (\E u \in Invite!User : Invite!ChangeUser(u))
           \/ (\E t \in {"ACTIVE", "SUSPENDED", "CANCELLED"} : Invite!ChangeTenant(t))
  PROVE  /\ RowGoal
         /\ inviteRow' = inviteRow \/ inviteRow' = Invite!Cancelled(inviteRow)
<1>1. inviteRow \in Invite!Row /\ inviteUser \in Invite!User /\ RowFacts /\ inviteTenant \in {"ACTIVE", "SUSPENDED", "CANCELLED"}
  BY DEF Inv, Invite!TypeOK
<1>2. /\ Invite!Cancelled(inviteRow) \in Invite!Row /\ Invite!Cancelled(inviteRow).status \notin Live
      /\ Invite!Cancelled(inviteRow).status # "SENDING" =>
            Invite!Cancelled(inviteRow).owner = None /\ Invite!Cancelled(inviteRow).lease = "none"
      /\ inviteRow.status \notin Live => Invite!Cancelled(inviteRow) = inviteRow
  BY <1>1, CancelledValue, EndedValue DEF RowFacts, RowIsOwned, Invite!Terminal
<1>3. CASE \E u \in Invite!User : Invite!ChangeUser(u)
  <2>1. PICK u \in Invite!User : Invite!ChangeUser(u)
    BY <1>3
  <2>2. /\ inviteUser' = u /\ u.state \in {"active", "suspended", "deleted"} /\ UNCHANGED <<inviteTenant, inviteReissued, inviteUsed>>
        /\ inviteRow' = Invite!Cancelled(inviteRow) \/ (inviteRow' = inviteRow /\ u.state = "active" /\ u.email = inviteUser.email)
    BY <2>1 DEF Invite!ChangeUser
  <2>3. inviteRow' \in Invite!Row /\ (inviteRow' = inviteRow \/ inviteRow' = Invite!Cancelled(inviteRow))
    BY <1>1, <1>2, <2>2
  <2>4. RowIsOwned'
    BY <1>1, <1>2, <2>2 DEF RowFacts, RowIsOwned, Live
  <2>5. Invite!LiveRowIsWanted'
    BY <1>1, <1>2, <2>2 DEF RowFacts, Invite!LiveRowIsWanted, Live, Invite!UserActive
  <2>6. FirstInvitation' /\ UsedAreKnown'
    BY <1>1, <2>2 DEF RowFacts, FirstInvitation, UsedAreKnown
  <2>. QED
    BY <1>1, <2>2, <2>3, <2>4, <2>5, <2>6 DEF RowGoal, RowFacts
<1>4. CASE \E t \in {"ACTIVE", "SUSPENDED", "CANCELLED"} : Invite!ChangeTenant(t)
  <2>1. PICK t \in {"ACTIVE", "SUSPENDED", "CANCELLED"} : Invite!ChangeTenant(t)
    BY <1>4
  <2>2. /\ inviteTenant' = t /\ UNCHANGED <<inviteUser, inviteReissued, inviteUsed>>
        /\ inviteRow' = Invite!Cancelled(inviteRow) \/ inviteRow' = inviteRow
    BY <2>1 DEF Invite!ChangeTenant
  <2>3. inviteRow' \in Invite!Row
    BY <1>1, <1>2, <2>2
  <2>4. RowIsOwned'
    BY <1>1, <1>2, <2>2 DEF RowFacts, RowIsOwned, Live
  <2>5. Invite!LiveRowIsWanted'
    BY <1>1, <1>2, <2>2 DEF RowFacts, Invite!LiveRowIsWanted, Live, Invite!UserActive
  <2>6. FirstInvitation' /\ UsedAreKnown'
    BY <1>1, <1>2, <2>2, Values DEF RowFacts, FirstInvitation, UsedAreKnown, Live
  <2>. QED
    BY <1>1, <2>2, <2>3, <2>4, <2>5, <2>6 DEF RowGoal, RowFacts
<1>. QED
  BY <1>3, <1>4

-----------------------------------------------------------------------------
(* What a step does to a worker. *)

\* The worker moves with what it knows, or is idle again.
Walks(w, x) ==
    /\ inviteWorker' = [inviteWorker EXCEPT ![w] = x]
    /\ \/ x.pc = "idle"
       \/ /\ inviteWorker[w].pc # "idle" /\ x.attempts = inviteWorker[w].attempts
          /\ x.id = inviteWorker[w].id /\ x.to = inviteWorker[w].to

SameClaim == inviteRow'.owner = inviteRow.owner /\ inviteRow'.attempts = inviteRow.attempts

WorkerGoal == inviteWorker' \in [InviteWorkers -> Invite!Worker] /\ WorkerFacts'

\* A step while nobody holds the locks, and after which nobody does.
LEMMA UnlockedStep ==
  ASSUME Invite!InvitationAssumption, Inv, ~Invite!Locked,
         \/ UNCHANGED inviteWorker
         \/ \E w \in InviteWorkers, x \in Invite!Worker : Walks(w, x) /\ x.pc \notin Invite!Open,
         inviteRow'.owner = None \/ SameClaim
  PROVE  WorkerGoal
<1>1. inviteWorker \in [InviteWorkers -> Invite!Worker] /\ OwnerKnows
  BY DEF Inv, Invite!TypeOK, WorkerFacts
<1>2. CASE UNCHANGED inviteWorker
  BY <1>1, <1>2
  DEF WorkerGoal, WorkerFacts, OwnerKnows, OpenHolds, AcceptedIsSent, Invite!Locked, Invite!Open, SameClaim,
      Invite!InvitationAssumption
<1>3. CASE \E w \in InviteWorkers, x \in Invite!Worker : Walks(w, x) /\ x.pc \notin Invite!Open
  <2>1. PICK w \in InviteWorkers, x \in Invite!Worker : Walks(w, x) /\ x.pc \notin Invite!Open
    BY <1>3
  <2>2. /\ inviteWorker' \in [InviteWorkers -> Invite!Worker] /\ inviteWorker'[w] = x
        /\ \A v \in InviteWorkers \ {w} : inviteWorker'[v] = inviteWorker[v]
    BY <1>1, <2>1 DEF Walks
  <2>3. \A v \in InviteWorkers : inviteWorker'[v].pc \notin Invite!Open
    BY <2>1, <2>2 DEF Invite!Locked
  <2>4. OwnerKnows'
    BY <1>1, <2>1, <2>2 DEF OwnerKnows, Walks, SameClaim, Invite!InvitationAssumption
  <2>. QED
    BY <2>2, <2>3, <2>4 DEF WorkerGoal, WorkerFacts, OpenHolds, AcceptedIsSent, Invite!Open
<1>. QED
  BY <1>2, <1>3

\* One worker at most holds the locks.
LEMMA LockHolder ==
  ASSUME Inv, NEW w \in InviteWorkers, NEW v \in InviteWorkers, inviteWorker[w].pc \in Invite!Open, inviteWorker[v].pc \in Invite!Open
  PROVE  w = v
  BY DEF Inv, WorkerFacts, OpenHolds, Invite!Owns

\* A step that leaves the claim as it is, whoever holds the locks.
LEMMA HeldStep ==
  ASSUME Invite!InvitationAssumption, Inv, UNCHANGED <<inviteTenant, inviteUser>>,
         inviteRow'.id = inviteRow.id, inviteRow'.status = inviteRow.status, inviteRow'.attempts = inviteRow.attempts,
         inviteRow'.to = inviteRow.to,
         NEW w \in InviteWorkers, NEW x \in Invite!Worker, Walks(w, x), inviteInbox \subseteq inviteInbox',
         x.pc \in Invite!Open => inviteWorker[w].pc \in Invite!Open,
         x.pc = "accepted" => Invite!Mail(x.id, x.to) \in inviteInbox',
         \A v \in InviteWorkers \ {w} : inviteRow'.owner = v <=> inviteRow.owner = v,
         inviteRow'.owner = inviteRow.owner \/ (x.pc = "idle" /\ inviteRow'.owner # w)
  PROVE  WorkerGoal
<1>1. inviteWorker \in [InviteWorkers -> Invite!Worker] /\ OwnerKnows /\ OpenHolds /\ AcceptedIsSent
  BY DEF Inv, Invite!TypeOK, WorkerFacts
<1>2. /\ inviteWorker' \in [InviteWorkers -> Invite!Worker] /\ inviteWorker'[w] = x
      /\ \A v \in InviteWorkers \ {w} : inviteWorker'[v] = inviteWorker[v]
  BY <1>1 DEF Walks
<1>3. OwnerKnows'
  BY <1>1, <1>2 DEF OwnerKnows, Walks
<1>4. ASSUME NEW v \in InviteWorkers, inviteWorker'[v].pc \in Invite!Open
      PROVE  /\ Invite!TenantOpen' /\ Invite!UserActive' /\ ~inviteUser'.suppressed /\ inviteUser'.email = inviteWorker'[v].to
             /\ Invite!Owns(v)' /\ inviteRow'.to = inviteWorker'[v].to
  <2>1. inviteWorker[v].pc \in Invite!Open /\ inviteWorker'[v].to = inviteWorker[v].to /\ inviteWorker'[v].id = inviteWorker[v].id
        /\ inviteWorker'[v].attempts = inviteWorker[v].attempts /\ (inviteRow.owner = v => inviteRow'.owner = v)
    BY <1>2, <1>4 DEF Walks, Invite!Open
  <2>2. /\ Invite!TenantOpen /\ Invite!UserActive /\ ~inviteUser.suppressed /\ inviteUser.email = inviteWorker[v].to
        /\ Invite!Owns(v) /\ inviteRow.to = inviteWorker[v].to
    BY <1>1, <2>1 DEF OpenHolds
  <2>. QED
    BY <2>1, <2>2 DEF Invite!TenantOpen, Invite!UserActive, Invite!Owns
<1>5. OpenHolds'
  BY <1>4 DEF OpenHolds
<1>6. AcceptedIsSent'
  BY <1>1, <1>2 DEF AcceptedIsSent
<1>. QED
  BY <1>2, <1>3, <1>5, <1>6 DEF WorkerGoal, WorkerFacts

\* Time alone.
LEMMA StillStep ==
  ASSUME Inv, UNCHANGED <<inviteTenant, inviteUser, inviteWorker, inviteInbox>>, SameClaim,
         inviteRow'.id = inviteRow.id, inviteRow'.status = inviteRow.status, inviteRow'.to = inviteRow.to
  PROVE  WorkerGoal
  BY DEF Inv, Invite!TypeOK, WorkerFacts, WorkerGoal, OwnerKnows, OpenHolds, AcceptedIsSent, SameClaim,
         Invite!Owns, Invite!TenantOpen, Invite!UserActive

\* The values a worker is given when it goes on.
LEMMA GotoValue ==
  ASSUME Inv, NEW w \in InviteWorkers, NEW pc \in Invite!Open, NEW x, x = [inviteWorker[w] EXCEPT !.pc = pc]
  PROVE  /\ x \in Invite!Worker /\ x.pc = pc /\ x.attempts = inviteWorker[w].attempts
         /\ x.id = inviteWorker[w].id /\ x.to = inviteWorker[w].to
  BY DEF Inv, Invite!TypeOK, Invite!Worker, Invite!Open

LEMMA ReturnWalks ==
  ASSUME Invite!InvitationAssumption, NEW w \in InviteWorkers, Invite!Return(w)
  PROVE  Invite!Idle \in Invite!Worker /\ Invite!Idle.pc = "idle" /\ Walks(w, Invite!Idle)
  BY Values DEF Invite!Return, Walks

StepGoal == RowGoal /\ WorkerGoal

LEMMA InviteClaimStep ==
  ASSUME Invite!InvitationAssumption, Inv, NEW w \in InviteWorkers, Invite!ClaimBatch(w)
  PROVE  StepGoal
<1>1. inviteRow \in Invite!Row /\ inviteWorker \in [InviteWorkers -> Invite!Worker] /\ ~Invite!Locked /\ UNCHANGED <<inviteTenant, inviteUser, inviteReissued, inviteInbox, inviteUsed>>
  BY DEF Invite!ClaimBatch, Inv, Invite!TypeOK
<1>2. ASSUME NEW s \in Invite!Terminal, inviteRow.status \in Live, inviteRow' = Invite!Ended(inviteRow, s), UNCHANGED inviteWorker
      PROVE  StepGoal
  <2>1. RowGoal
    BY <1>1, <1>2, RowKinds DEF RowEnds
  <2>2. inviteRow'.owner = None
    BY <1>1, <1>2, EndedValue
  <2>. QED
    BY <1>1, <1>2, <2>1, <2>2, UnlockedStep DEF StepGoal
<1>3. CASE Invite!MayCancel /\ inviteRow' = Invite!Ended(inviteRow, "CANCELLED") /\ UNCHANGED inviteWorker
  BY <1>2, <1>3 DEF Invite!MayCancel, Invite!Due, Live, Invite!Terminal
<1>4. CASE (Invite!MayBury \/ (Invite!Exhausted /\ ~Invite!MayCancel)) /\ inviteRow' = Invite!Ended(inviteRow, "DEAD_LETTERED") /\ UNCHANGED inviteWorker
  BY <1>2, <1>4 DEF Invite!MayBury, Invite!Exhausted, Invite!Due, Live, Invite!Terminal
<1>5. CASE /\ Invite!Due /\ ~Invite!Exhausted
           /\ inviteRow' = [inviteRow EXCEPT !.status = "SENDING", !.attempts = @ + 1, !.due = FALSE,
                                             !.owner = w, !.lease = "live"]
           /\ inviteWorker' = [inviteWorker EXCEPT ![w] =
                 [Invite!Idle EXCEPT !.pc = "claimed", !.id = inviteRow.id, !.to = inviteRow.to,
                                     !.attempts = inviteRow.attempts + 1]]
  <2>1. PICK n : n = inviteRow.attempts + 1
    OBVIOUS
  <2>2. n \in 0 .. InviteMaxAttempts
    BY <1>1, <1>5, <2>1 DEF Invite!Exhausted, Invite!Due, Invite!Row, Invite!InvitationAssumption
  <2>3. PICK r : r = [inviteRow EXCEPT !.status = "SENDING", !.attempts = n, !.due = FALSE,
                                       !.owner = w, !.lease = "live"]
    OBVIOUS
  <2>4. /\ r \in Invite!Row /\ r.status = "SENDING" /\ r.attempts = n /\ r.owner = w /\ r.to = inviteRow.to
        /\ inviteRow' = r
    BY <1>1, <1>5, <2>1, <2>2, <2>3 DEF Invite!Row
  <2>5. RowGoal
    <3>1. RowMoves(r)
      BY <1>1, <1>5, <2>4 DEF RowMoves, Live, Invite!Due
    <3>. QED
      BY <2>4, <3>1, RowKinds
  <2>6. PICK x : x = [Invite!Idle EXCEPT !.pc = "claimed", !.id = inviteRow.id, !.to = inviteRow.to, !.attempts = n]
    OBVIOUS
  <2>7. x \in Invite!Worker /\ x.pc = "claimed" /\ x.attempts = n
    BY <1>1, <2>2, <2>6 DEF Invite!Idle, Invite!Worker, Invite!Row
  <2>8. /\ inviteWorker' \in [InviteWorkers -> Invite!Worker] /\ inviteWorker'[w] = x
        /\ \A v \in InviteWorkers \ {w} : inviteWorker'[v] = inviteWorker[v]
    BY <1>1, <1>5, <2>1, <2>6, <2>7
  <2>9. \A v \in InviteWorkers : inviteWorker'[v].pc \notin Invite!Open
    BY <1>1, <2>7, <2>8 DEF Invite!Locked, Invite!Open
  <2>10. OwnerKnows'
    BY <2>4, <2>7, <2>8 DEF OwnerKnows
  <2>. QED
    BY <2>5, <2>8, <2>9, <2>10 DEF StepGoal, WorkerGoal, WorkerFacts, OpenHolds, AcceptedIsSent, Invite!Open
<1>. QED
  BY <1>3, <1>4, <1>5 DEF Invite!ClaimBatch

LEMMA EndOwnedStep ==
  ASSUME Invite!InvitationAssumption, Inv, NEW w \in InviteWorkers, NEW s \in Invite!Terminal, ~Invite!Locked, Invite!EndOwned(w, s),
         UNCHANGED <<inviteTenant, inviteUser, inviteReissued, inviteInbox, inviteUsed>>
  PROVE  StepGoal
<1>1. inviteRow \in Invite!Row /\ Walks(w, Invite!Idle) /\ Invite!Idle \in Invite!Worker /\ Invite!Idle.pc \notin Invite!Open
  BY ReturnWalks DEF Inv, Invite!TypeOK, Invite!EndOwned, Invite!Open
<1>2. CASE Invite!Owns(w)
  <2>1. inviteRow' = Invite!Ended(inviteRow, s) /\ inviteRow.status \in Live
    BY <1>2 DEF Invite!EndOwned, Invite!Owns, Live
  <2>2. RowGoal
    BY <2>1, RowKinds DEF RowEnds
  <2>3. inviteRow'.owner = None
    BY <1>1, <2>1, EndedValue
  <2>. QED
    BY <1>1, <2>2, <2>3, UnlockedStep DEF StepGoal
<1>3. CASE ~Invite!Owns(w)
  <2>1. inviteRow' = inviteRow
    BY <1>3 DEF Invite!EndOwned
  <2>. QED
    BY <1>1, <2>1, RowKinds, UnlockedStep DEF StepGoal, SameClaim
<1>. QED
  BY <1>2, <1>3

LEMMA ReturnStep ==
  ASSUME Invite!InvitationAssumption, Inv, NEW w \in InviteWorkers, ~Invite!Locked, Invite!Return(w),
         UNCHANGED <<inviteTenant, inviteUser, inviteRow, inviteReissued, inviteInbox, inviteUsed>>
  PROVE  StepGoal
<1>1. Walks(w, Invite!Idle) /\ Invite!Idle \in Invite!Worker /\ Invite!Idle.pc \notin Invite!Open
  BY ReturnWalks DEF Invite!Open
<1>. QED
  BY <1>1, RowKinds, UnlockedStep DEF StepGoal, SameClaim

LEMMA InviteBeginStep ==
  ASSUME Invite!InvitationAssumption, Inv, NEW w \in InviteWorkers, Invite!Begin(w)
  PROVE  StepGoal
<1>1. /\ inviteRow \in Invite!Row /\ inviteWorker \in [InviteWorkers -> Invite!Worker] /\ ~Invite!Locked
      /\ UNCHANGED <<inviteTenant, inviteUser, inviteReissued, inviteInbox, inviteUsed>> /\ inviteWorker[w].pc = "claimed"
  BY DEF Invite!Begin, Inv, Invite!TypeOK
<1>2. CASE Invite!EndOwned(w, "CANCELLED") \/ Invite!EndOwned(w, "DEAD_LETTERED")
  BY <1>1, <1>2, EndOwnedStep DEF Invite!Terminal
<1>3. CASE Invite!Return(w) /\ UNCHANGED inviteRow
  BY <1>1, <1>3, ReturnStep
<1>4. CASE /\ Invite!TenantOpen /\ Invite!UserActive /\ inviteUser.email = inviteWorker[w].to /\ ~inviteUser.suppressed
           /\ Invite!Owns(w) /\ Invite!Goto(w, "sending") /\ UNCHANGED inviteRow
  <2>1. RowGoal
    BY <1>1, <1>4, RowKinds
  <2>2. PICK x : x = [inviteWorker[w] EXCEPT !.pc = "sending"]
    OBVIOUS
  <2>3. /\ x \in Invite!Worker /\ x.pc = "sending" /\ x.attempts = inviteWorker[w].attempts
        /\ x.id = inviteWorker[w].id /\ x.to = inviteWorker[w].to
    BY <2>2, GotoValue DEF Invite!Open
  <2>4. /\ inviteWorker' \in [InviteWorkers -> Invite!Worker] /\ inviteWorker'[w] = x
        /\ \A v \in InviteWorkers \ {w} : inviteWorker'[v] = inviteWorker[v]
    BY <1>1, <1>4, <2>2, <2>3 DEF Invite!Goto
  <2>5. OwnerKnows'
    BY <1>1, <1>4, <2>3, <2>4 DEF OwnerKnows, Inv, WorkerFacts
  <2>6. \A v \in InviteWorkers \ {w} : inviteWorker'[v].pc \notin Invite!Open
    BY <1>1, <2>4 DEF Invite!Locked
  <2>7. inviteRow.to = inviteWorker[w].to
    BY <1>4 DEF Inv, RowFacts, Invite!LiveRowIsWanted, Invite!Owns
  <2>8. OpenHolds'
    BY <1>1, <1>4, <2>3, <2>4, <2>6, <2>7 DEF OpenHolds, Invite!TenantOpen, Invite!UserActive, Invite!Owns
  <2>9. AcceptedIsSent'
    BY <2>3, <2>4, <2>6 DEF AcceptedIsSent, Invite!Open
  <2>. QED
    BY <2>1, <2>4, <2>5, <2>8, <2>9 DEF StepGoal, WorkerGoal, WorkerFacts
<1>. QED
  BY <1>2, <1>3, <1>4 DEF Invite!Begin

LEMMA InviteSendStep ==
  ASSUME Invite!InvitationAssumption, Inv, NEW w \in InviteWorkers, Invite!Send(w)
  PROVE  StepGoal
<1>1. /\ inviteWorker[w].pc = "sending" /\ UNCHANGED <<inviteTenant, inviteUser, inviteRow, inviteReissued, inviteUsed>>
      /\ inviteInbox' = inviteInbox \cup {Invite!Mail(inviteWorker[w].id, inviteWorker[w].to)}
  BY DEF Invite!Send
<1>2. PICK x : x = [inviteWorker[w] EXCEPT !.pc = "accepted"]
  OBVIOUS
<1>3. /\ x \in Invite!Worker /\ x.pc = "accepted" /\ x.attempts = inviteWorker[w].attempts
      /\ x.id = inviteWorker[w].id /\ x.to = inviteWorker[w].to
  BY <1>2, GotoValue DEF Invite!Open
<1>4. Walks(w, x)
  BY <1>1, <1>2, <1>3 DEF Walks, Invite!Send, Invite!Goto
<1>5. inviteWorker[w].pc \in Invite!Open /\ Invite!Mail(x.id, x.to) \in inviteInbox' /\ inviteInbox \subseteq inviteInbox'
  BY <1>1, <1>3 DEF Invite!Open
<1>6. WorkerGoal
  BY <1>1, <1>3, <1>4, <1>5, HeldStep
<1>. QED
  BY <1>1, <1>6, RowKinds DEF StepGoal

\* The delivery fails with the claim as it was.
LEMMA FailingStep ==
  ASSUME Invite!InvitationAssumption, Inv, NEW w \in InviteWorkers, NEW p \in BOOLEAN,
         inviteWorker[w].pc # "idle", inviteInbox \subseteq inviteInbox',
         inviteWorker' = [inviteWorker EXCEPT ![w].pc = "failing", ![w].permanent = p],
         UNCHANGED <<inviteTenant, inviteUser, inviteRow, inviteReissued, inviteUsed>>
  PROVE  StepGoal
<1>2. PICK x : x = [inviteWorker[w] EXCEPT !.pc = "failing", !.permanent = p]
  OBVIOUS
<1>3. /\ x \in Invite!Worker /\ x.pc = "failing" /\ x.attempts = inviteWorker[w].attempts
      /\ x.id = inviteWorker[w].id /\ x.to = inviteWorker[w].to
  BY <1>2 DEF Inv, Invite!TypeOK, Invite!Worker
<1>4. Walks(w, x)
  BY <1>2, <1>3 DEF Walks
<1>5. WorkerGoal
  BY <1>3, <1>4, HeldStep DEF Invite!Open
<1>. QED
  BY <1>5, RowKinds DEF StepGoal

LEMMA DeliverStep ==
  ASSUME Invite!InvitationAssumption, Inv, NEW w \in InviteWorkers, Invite!Deliver(w)
  PROVE  StepGoal /\ Invite!Owns(w)
<1>1. /\ inviteWorker[w].pc = "accepted" /\ inviteRow' = Invite!Ended(inviteRow, "DELIVERED")
      /\ UNCHANGED <<inviteTenant, inviteUser, inviteReissued, inviteInbox, inviteUsed>> /\ inviteRow \in Invite!Row
  BY DEF Invite!Deliver, Inv, Invite!TypeOK
<1>2. Invite!Owns(w)
  BY <1>1 DEF Inv, WorkerFacts, OpenHolds, Invite!Open
<1>3. RowGoal
  BY <1>1, <1>2, RowKinds DEF RowEnds, Invite!Owns, Live, Invite!Terminal
<1>4. inviteRow'.owner = None
  BY <1>1, EndedValue DEF Invite!Terminal
<1>5. /\ inviteWorker' \in [InviteWorkers -> Invite!Worker] /\ inviteWorker'[w].pc = "idle"
      /\ \A v \in InviteWorkers \ {w} : inviteWorker'[v] = inviteWorker[v]
  BY Values DEF Invite!Deliver, Invite!Return, Inv, Invite!TypeOK
<1>6. \A v \in InviteWorkers : inviteWorker'[v].pc \notin Invite!Open
  BY <1>1, <1>5, LockHolder DEF Invite!Open
<1>7. OwnerKnows'
  BY <1>4 DEF OwnerKnows, Invite!InvitationAssumption
<1>. QED
  BY <1>2, <1>3, <1>5, <1>6, <1>7 DEF StepGoal, WorkerGoal, WorkerFacts, OpenHolds, AcceptedIsSent, Invite!Open

LEMMA MarkFailedStep ==
  ASSUME Invite!InvitationAssumption, Inv, NEW w \in InviteWorkers, Invite!MarkFailed(w)
  PROVE  StepGoal
<1>1. inviteRow \in Invite!Row /\ ~Invite!Locked /\ Invite!Return(w) /\ UNCHANGED <<inviteTenant, inviteUser, inviteReissued, inviteInbox, inviteUsed>>
  BY DEF Invite!MarkFailed, Inv, Invite!TypeOK
<1>2. CASE ~Invite!Owns(w) \/ Invite!GivesUp(w)
  <2>1. Invite!EndOwned(w, "DEAD_LETTERED")
    BY <1>2 DEF Invite!MarkFailed, Invite!EndOwned
  <2>. QED
    BY <1>1, <2>1, EndOwnedStep DEF Invite!Terminal
<1>3. CASE Invite!Owns(w) /\ ~Invite!GivesUp(w)
  <2>1. PICK r : r = [inviteRow EXCEPT !.status = "FAILED", !.owner = None, !.lease = "none"]
    OBVIOUS
  <2>2. r \in Invite!Row /\ r.status = "FAILED" /\ r.owner = None /\ r.lease = "none" /\ r.to = inviteRow.to /\ inviteRow' = r
    BY <1>1, <1>3, <2>1 DEF Invite!Row, Invite!MarkFailed
  <2>3. RowGoal
    <3>1. RowMoves(r)
      BY <1>1, <1>3, <2>2 DEF RowMoves, Invite!Owns, Live
    <3>. QED
      BY <2>2, <3>1, RowKinds
  <2>4. Walks(w, Invite!Idle) /\ Invite!Idle \in Invite!Worker /\ Invite!Idle.pc \notin Invite!Open
    BY <1>1, ReturnWalks DEF Invite!Open
  <2>5. WorkerGoal
    BY <1>1, <2>2, <2>4, UnlockedStep
  <2>. QED
    BY <2>3, <2>5 DEF StepGoal
<1>. QED
  BY <1>2, <1>3

LEMMA StopStep ==
  ASSUME Invite!InvitationAssumption, Inv, NEW w \in InviteWorkers, Invite!WorkerStops(w)
  PROVE  StepGoal /\ (inviteRow' # inviteRow => inviteRow.status = "SENDING" /\ inviteRow.owner = w /\ inviteRow'.id = inviteRow.id)
<1>1. /\ inviteRow \in Invite!Row /\ RowIsOwned /\ Invite!Return(w) /\ UNCHANGED <<inviteTenant, inviteUser, inviteReissued, inviteInbox, inviteUsed>>
      /\ inviteWorker[w].pc # "idle"
  BY DEF Invite!WorkerStops, Inv, Invite!TypeOK, RowFacts
<1>2. Walks(w, Invite!Idle) /\ Invite!Idle \in Invite!Worker /\ Invite!Idle.pc = "idle" /\ Invite!Idle.pc \notin Invite!Open
  BY <1>1, ReturnWalks DEF Invite!Open
<1>3. CASE inviteRow.owner # w
  <2>1. inviteRow' = inviteRow
    BY <1>1, <1>3 DEF Invite!WorkerStops, Invite!Row
  <2>2. WorkerGoal
    BY <1>1, <1>2, <2>1, HeldStep
  <2>. QED
    BY <1>1, <2>1, <2>2, RowKinds DEF StepGoal
<1>4. CASE inviteRow.owner = w
  <2>1. PICK r : r = [inviteRow EXCEPT !.owner = None]
    OBVIOUS
  <2>2. /\ r \in Invite!Row /\ r.owner = None /\ r.id = inviteRow.id /\ r.status = inviteRow.status /\ r.to = inviteRow.to
        /\ r.attempts = inviteRow.attempts /\ r.lease = inviteRow.lease /\ inviteRow' = r
    BY <1>1, <1>4, <2>1 DEF Invite!Row, Invite!WorkerStops
  <2>3. inviteRow.status = "SENDING" /\ w # None
    BY <1>1, <1>4 DEF RowIsOwned, Invite!InvitationAssumption
  <2>4. RowGoal
    <3>1. RowMoves(r)
      BY <1>1, <2>2, <2>3 DEF RowMoves, Live
    <3>. QED
      BY <2>2, <3>1, RowKinds
  <2>5. \A v \in InviteWorkers \ {w} : inviteRow'.owner = v <=> inviteRow.owner = v
    BY <1>4, <2>2 DEF Invite!InvitationAssumption
  <2>6. WorkerGoal
    BY <1>1, <1>2, <2>2, <2>3, <2>5, HeldStep
  <2>. QED
    BY <1>4, <2>2, <2>3, <2>4, <2>6 DEF StepGoal
<1>. QED
  BY <1>3, <1>4

LEMMA WorkerSteps ==
  ASSUME Invite!InvitationAssumption, Inv, NEW w \in InviteWorkers, Invite!Step(w)
  PROVE  StepGoal
<1>1. CASE Invite!ClaimBatch(w)
  BY <1>1, InviteClaimStep
<1>2. CASE Invite!Begin(w)
  BY <1>2, InviteBeginStep
<1>3. CASE Invite!LeaseIsOver(w)
  BY <1>3, ReturnStep DEF Invite!LeaseIsOver
<1>4. CASE Invite!Send(w)
  BY <1>4, InviteSendStep
<1>5. CASE Invite!SendFails(w)
  <2>1. PICK p \in BOOLEAN : inviteWorker' = [inviteWorker EXCEPT ![w].pc = "failing", ![w].permanent = p]
    BY <1>5 DEF Invite!SendFails
  <2>2. /\ inviteWorker[w].pc # "idle" /\ inviteInbox \subseteq inviteInbox'
        /\ UNCHANGED <<inviteTenant, inviteUser, inviteRow, inviteReissued, inviteUsed>>
    BY <1>5 DEF Invite!SendFails
  <2>. QED
    BY <2>1, <2>2, FailingStep
<1>6. CASE Invite!Deliver(w)
  BY <1>6, DeliverStep
<1>7. CASE Invite!DeliveryFails(w)
  <2>1. PICK p \in BOOLEAN : inviteWorker' = [inviteWorker EXCEPT ![w].pc = "failing", ![w].permanent = p]
    BY <1>7 DEF Invite!DeliveryFails
  <2>2. /\ inviteWorker[w].pc # "idle" /\ inviteInbox \subseteq inviteInbox'
        /\ UNCHANGED <<inviteTenant, inviteUser, inviteRow, inviteReissued, inviteUsed>>
    BY <1>7 DEF Invite!DeliveryFails, Invite!Open
  <2>. QED
    BY <2>1, <2>2, FailingStep
<1>8. CASE Invite!MarkFailed(w)
  BY <1>8, MarkFailedStep
<1>9. CASE Invite!WorkerStops(w)
  BY <1>9, StopStep
<1>. QED
  BY <1>1, <1>2, <1>3, <1>4, <1>5, <1>6, <1>7, <1>8, <1>9 DEF Invite!Step

LEMMA OtherSteps ==
  ASSUME Invite!InvitationAssumption, Inv, Invite!Next, ~ \E w \in InviteWorkers : Invite!Step(w)
  PROVE  StepGoal
<1>1. ASSUME NEW id \in InviteInvitations, NEW a \in InviteAddresses, Invite!Invite(id, a) PROVE StepGoal
  <2>1. RowGoal
    BY <1>1, RowInvited
  <2>2. ~Invite!Locked
    BY <1>1 DEF Invite!Invite, Invite!Locked, Inv, WorkerFacts, OpenHolds, Invite!UserActive
  <2>3. inviteRow'.owner = None
    BY <1>1, PendingValue DEF Invite!Invite, Invite!Ids
  <2>. QED
    BY <1>1, <2>1, <2>2, <2>3, UnlockedStep DEF Invite!Invite, StepGoal
<1>2. CASE Invite!Retry
  BY <1>2, RowRetried, UnlockedStep DEF Invite!Retry, StepGoal, SameClaim
<1>3. ASSUME NEW k \in InviteReissueKeys, Invite!Reissue(k) PROVE StepGoal
  <2>1. RowGoal /\ inviteUser.email \in InviteAddresses
    BY <1>3, RowReissued DEF Invite!Reissue, Inv, Invite!TypeOK, Invite!User
  <2>2. inviteRow'.owner = None
    BY <1>3, <2>1, PendingValue DEF Invite!Reissue, Invite!Ids
  <2>. QED
    BY <1>3, <2>1, <2>2, UnlockedStep DEF Invite!Reissue, StepGoal
<1>4. CASE Invite!LeaseEnds \/ Invite!RetryDue
  <2>1. /\ RowGoal /\ SameClaim /\ inviteRow'.id = inviteRow.id /\ inviteRow'.to = inviteRow.to
        /\ inviteRow'.status = inviteRow.status /\ UNCHANGED <<inviteTenant, inviteUser, inviteWorker, inviteInbox>>
    BY <1>4, RowTimed DEF SameClaim, Invite!LeaseEnds, Invite!RetryDue
  <2>. QED
    BY <2>1, StillStep DEF StepGoal
<1>5. CASE (\E u \in Invite!User : Invite!ChangeUser(u))
             \/ (\E t \in {"ACTIVE", "SUSPENDED", "CANCELLED"} : Invite!ChangeTenant(t))
  <2>1. RowGoal /\ (inviteRow' = inviteRow \/ inviteRow' = Invite!Cancelled(inviteRow)) /\ inviteRow \in Invite!Row
    BY <1>5, RowChanged DEF Inv, Invite!TypeOK
  <2>2. ~Invite!Locked /\ UNCHANGED inviteWorker
    BY <1>5 DEF Invite!ChangeUser, Invite!ChangeTenant
  <2>3. inviteRow'.owner = None \/ inviteRow' = inviteRow
    BY <2>1, CancelledValue, EndedValue DEF Invite!Terminal
  <2>. QED
    BY <2>1, <2>2, <2>3, UnlockedStep DEF StepGoal, SameClaim
<1>. QED
  BY <1>1, <1>2, <1>3, <1>4, <1>5 DEF Invite!Next

-----------------------------------------------------------------------------
(* The mailbox. *)

LEMMA MailPreserved ==
  ASSUME Invite!InvitationAssumption, Inv, [Invite!Next]_(Invite!siVars)
  PROVE  MailFacts'
<1>1. MailFacts /\ inviteWorker \in [InviteWorkers -> Invite!Worker]
  BY DEF Inv, Invite!TypeOK
<1>2. ASSUME NEW w \in InviteWorkers, Invite!Accepts(inviteWorker[w].id, inviteWorker[w].to),
             inviteInbox' = inviteInbox \cup {Invite!Mail(inviteWorker[w].id, inviteWorker[w].to)}
      PROVE  MailFacts'
  <2>1. PICK i, a : i = inviteWorker[w].id /\ a = inviteWorker[w].to
    OBVIOUS
  <2>2. i \in Invite!Ids \cup {None} /\ a \in InviteAddresses \cup {None}
    BY <1>1, <2>1 DEF Invite!Worker
  <2>3. PICK n : n = [key |-> i, id |-> i, to |-> a]
    OBVIOUS
  <2>4. n \in Mails /\ n.key = i /\ n.id = i /\ n.to = a
    BY <2>2, <2>3 DEF Mails
  <2>5. inviteInbox' = inviteInbox \cup {n} /\ \A m \in inviteInbox : m.key = i => m.to = a
    BY <1>2, <2>1, <2>3 DEF Invite!Mail, Invite!Accepts, Invite!IdempotencyKey
  <2>6. \A m \in inviteInbox : m.id = i => m = n
    <3>1. TAKE m \in inviteInbox
    <3>2. HAVE m.id = i
    <3>3. m \in Mails /\ m.key = i /\ m.to = a
      BY <1>1, <2>5, <3>2 DEF MailFacts, MailsAreKeyed
    <3>4. m = [key |-> m.key, id |-> m.id, to |-> m.to]
      BY <3>3 DEF Mails
    <3>. QED
      BY <2>3, <3>2, <3>3, <3>4
  <2>7. MailsAreKeyed'
    BY <1>1, <2>4, <2>5 DEF MailFacts, MailsAreKeyed, Mails
  <2>8. Invite!OneMailPerDelivery'
    BY <1>1, <2>4, <2>5, <2>6 DEF MailFacts, Invite!OneMailPerDelivery
  <2>. QED
    BY <2>7, <2>8 DEF MailFacts
<1>3. CASE UNCHANGED inviteInbox
  BY <1>1, <1>3 DEF MailFacts, MailsAreKeyed, Invite!OneMailPerDelivery, Mails
<1>4. ASSUME NEW w \in InviteWorkers, Invite!Step(w) PROVE MailFacts'
  <2>1. CASE Invite!Send(w)
    BY <1>2, <2>1 DEF Invite!Send
  <2>2. CASE Invite!SendFails(w)
    BY <1>2, <1>3, <2>2 DEF Invite!SendFails
  <2>. QED
    BY <1>3, <1>4, <2>1, <2>2 DEF Invite!Step, Invite!ClaimBatch, Invite!Begin, Invite!LeaseIsOver, Invite!Deliver, Invite!DeliveryFails,
                                  Invite!MarkFailed, Invite!WorkerStops
<1>. QED
  BY <1>3, <1>4 DEF Invite!Next, Invite!Invite, Invite!Retry, Invite!Reissue, Invite!LeaseEnds, Invite!RetryDue, Invite!ChangeUser, Invite!ChangeTenant, Invite!siVars

-----------------------------------------------------------------------------
(* The theorems. *)

LEMMA Start ==
  ASSUME Invite!InvitationAssumption, Invite!Init
  PROVE  Inv
<1>1. inviteUser \in Invite!User /\ inviteUser.state = "none" /\ inviteRow = Invite!NoRow /\ inviteRow \in Invite!Row
  BY Values DEF Invite!Init, Invite!User
<1>2. Invite!TypeOK /\ \A w \in InviteWorkers : inviteWorker[w].pc = "idle"
  BY <1>1, Values DEF Invite!Init, Invite!TypeOK
<1>3. RowFacts
  BY <1>1, Values
  DEF Invite!Init, RowFacts, RowIsOwned, Invite!LiveRowIsWanted, FirstInvitation, UsedAreKnown
<1>4. WorkerFacts
  BY <1>2 DEF WorkerFacts, OwnerKnows, OpenHolds, AcceptedIsSent, Invite!Open
<1>5. MailFacts
  BY DEF Invite!Init, MailFacts, MailsAreKeyed, Invite!OneMailPerDelivery
<1>. QED
  BY <1>2, <1>3, <1>4, <1>5 DEF Inv

LEMMA Preserved ==
  ASSUME Invite!InvitationAssumption, Inv, [Invite!Next]_(Invite!siVars)
  PROVE  Inv'
<1>1. CASE Invite!Next
  <2>1. StepGoal
    BY <1>1, WorkerSteps, OtherSteps
  <2>. QED
    BY <2>1, MailPreserved DEF StepGoal, RowGoal, WorkerGoal, Inv, Invite!TypeOK
<1>2. CASE UNCHANGED Invite!siVars
  <2>1. WorkerGoal
    BY <1>2, StillStep DEF Invite!siVars, SameClaim
  <2>2. RowGoal
    BY <1>2, RowKinds DEF Invite!siVars
  <2>. QED
    BY <2>1, <2>2, MailPreserved DEF RowGoal, WorkerGoal, Inv, Invite!TypeOK
<1>. QED
  BY <1>1, <1>2

\* The inductive invariant holds in every reachable state.
THEOREM Invariance ==
  ASSUME Invite!InvitationAssumption
  PROVE  Invite!Spec => []Inv
<1>1. Invite!Init => Inv
  BY Start
<1>2. Inv /\ [Invite!Next]_(Invite!siVars) => Inv'
  BY Preserved
<1>. QED
  BY <1>1, <1>2, PTL DEF Invite!Spec

\* Attempts and manual retries of an invitation stay within their budgets.
THEOREM InvitationTypeCorrect ==
  ASSUME Invite!InvitationAssumption
  PROVE  Invite!Spec => []Invite!TypeOK
<1>1. Inv => Invite!TypeOK
  BY DEF Inv
<1>. QED
  BY <1>1, Invariance, PTL

\* The provider accepts at most one e-mail for a delivery of an invitation,
\* for any number of workers, crashes, lost answers and reissues.
THEOREM OneMailIsAccepted ==
  ASSUME Invite!InvitationAssumption
  PROVE  Invite!Spec => []Invite!OneMailPerDelivery
<1>1. Inv => Invite!OneMailPerDelivery
  BY DEF Inv, MailFacts
<1>. QED
  BY <1>1, Invariance, PTL

\* A row that can still be sent belongs to an active employee and names the
\* address the employee has.
THEOREM LiveRowsAreWanted ==
  ASSUME Invite!InvitationAssumption
  PROVE  Invite!Spec => []Invite!LiveRowIsWanted
<1>1. Inv => Invite!LiveRowIsWanted
  BY DEF Inv, RowFacts
<1>. QED
  BY <1>1, Invariance, PTL

-----------------------------------------------------------------------------
(* What steps do. *)

\* The ways in which the row changes.
InviteRowChange ==
    \/ inviteRow' = inviteRow
    \/ inviteRow.status = "NONE" /\ inviteRow.lease # "live" /\ inviteRow'.status # "DELIVERED"
    \/ /\ inviteRow.status = "DEAD_LETTERED" /\ inviteRow.lease # "live"
       /\ inviteRow'.id \notin inviteUsed /\ inviteRow'.status # "DELIVERED"
    \/ inviteRow.status \in Live /\ inviteRow.lease # "live" /\ inviteRow'.status # "DELIVERED"
    \/ inviteRow.status \in Live /\ inviteRow'.status = "CANCELLED"
    \/ inviteRow.status \in Live /\ inviteRow' = [inviteRow EXCEPT !.lease = "ended"]
    \/ /\ inviteRow.status \in Live
       /\ \E w \in InviteWorkers :
            /\ inviteRow.owner = w /\ inviteWorker[w].attempts = inviteRow.attempts
            /\ inviteWorker[w].pc # "idle" /\ inviteWorker'[w].pc = "idle"
            /\ inviteRow'.status = "DELIVERED" => \E m \in inviteInbox : m.id = inviteRow.id /\ m.to = inviteRow.to

LEMMA ReturnIdles ==
  ASSUME Invite!InvitationAssumption, Inv, NEW w \in InviteWorkers, Invite!Return(w)
  PROVE  inviteWorker'[w].pc = "idle"
  BY Values DEF Invite!Return, Inv, Invite!TypeOK

LEMMA EndOwnedChange ==
  ASSUME Invite!InvitationAssumption, Inv, NEW w \in InviteWorkers, NEW s \in {"CANCELLED", "DEAD_LETTERED"},
         Invite!EndOwned(w, s), inviteWorker[w].pc # "idle"
  PROVE  InviteRowChange
<1>1. CASE ~Invite!Owns(w)
  BY <1>1 DEF Invite!EndOwned, InviteRowChange
<1>2. CASE Invite!Owns(w)
  <2>1. inviteRow'.status = s
    BY <1>2, EndedValue DEF Invite!EndOwned, Inv, Invite!TypeOK, Invite!Terminal
  <2>2. inviteWorker'[w].pc = "idle"
    BY ReturnIdles DEF Invite!EndOwned
  <2>. QED
    BY <1>2, <2>1, <2>2 DEF InviteRowChange, Invite!Owns, Live
<1>. QED
  BY <1>1, <1>2

LEMMA WorkerChanges ==
  ASSUME Invite!InvitationAssumption, Inv, NEW w \in InviteWorkers, Invite!Step(w)
  PROVE  InviteRowChange
<1>0. inviteRow \in Invite!Row /\ RowIsOwned
  BY DEF Inv, Invite!TypeOK, RowFacts
<1>1. CASE Invite!ClaimBatch(w)
  <2>1. CASE Invite!MayCancel /\ inviteRow' = Invite!Ended(inviteRow, "CANCELLED")
    BY <1>0, <2>1, EndedValue DEF InviteRowChange, Invite!MayCancel, Invite!Due, Live, Invite!Terminal
  <2>2. ASSUME inviteRow.status \in Live, inviteRow.lease # "live", inviteRow' = Invite!Ended(inviteRow, "DEAD_LETTERED")
        PROVE  InviteRowChange
    BY <1>0, <2>2, EndedValue DEF InviteRowChange, Invite!Terminal
  <2>3. CASE (Invite!MayBury \/ Invite!Exhausted) /\ inviteRow' = Invite!Ended(inviteRow, "DEAD_LETTERED")
    BY <1>0, <2>2, <2>3 DEF Invite!MayBury, Invite!Due, Invite!Exhausted, Live, RowIsOwned
  <2>4. CASE Invite!Due /\ inviteRow' = [inviteRow EXCEPT !.status = "SENDING", !.attempts = @ + 1, !.due = FALSE,
                                                          !.owner = w, !.lease = "live"]
    <3>1. inviteRow'.status = "SENDING"
      BY <1>0, <2>4 DEF Invite!Row
    <3>2. inviteRow.status \in Live /\ inviteRow.lease # "live"
      BY <1>0, <2>4 DEF Invite!Due, Live, RowIsOwned
    <3>. QED
      BY <3>1, <3>2 DEF InviteRowChange
  <2>. QED
    BY <1>1, <2>1, <2>3, <2>4 DEF Invite!ClaimBatch
<1>2. CASE Invite!Begin(w)
  <2>1. CASE Invite!EndOwned(w, "CANCELLED") \/ Invite!EndOwned(w, "DEAD_LETTERED")
    BY <1>2, <2>1, EndOwnedChange DEF Invite!Begin
  <2>2. CASE UNCHANGED inviteRow
    BY <2>2 DEF InviteRowChange
  <2>. QED
    BY <1>2, <2>1, <2>2 DEF Invite!Begin
<1>3. CASE Invite!LeaseIsOver(w) \/ Invite!Send(w) \/ Invite!SendFails(w) \/ Invite!DeliveryFails(w)
  BY <1>3 DEF Invite!LeaseIsOver, Invite!Send, Invite!SendFails, Invite!DeliveryFails, InviteRowChange
<1>4. CASE Invite!Deliver(w)
  <2>1. Invite!Owns(w) /\ inviteRow.to = inviteWorker[w].to /\ inviteWorker[w].pc = "accepted"
    BY <1>4 DEF Invite!Deliver, Inv, WorkerFacts, OpenHolds, Invite!Open
  <2>2. PICK m : m = Invite!Mail(inviteWorker[w].id, inviteWorker[w].to)
    OBVIOUS
  <2>3. m \in inviteInbox /\ m.id = inviteRow.id /\ m.to = inviteRow.to
    BY <2>1, <2>2 DEF Invite!Mail, Inv, WorkerFacts, AcceptedIsSent, Invite!Owns
  <2>4. inviteWorker'[w].pc = "idle"
    BY <1>4, ReturnIdles DEF Invite!Deliver
  <2>. QED
    BY <2>1, <2>3, <2>4 DEF InviteRowChange, Invite!Owns, Live
<1>5. CASE Invite!MarkFailed(w)
  <2>1. CASE ~Invite!Owns(w) \/ Invite!GivesUp(w)
    <3>1. Invite!EndOwned(w, "DEAD_LETTERED")
      BY <1>5, <2>1 DEF Invite!MarkFailed, Invite!EndOwned
    <3>. QED
      BY <1>5, <3>1, EndOwnedChange DEF Invite!MarkFailed
  <2>2. CASE Invite!Owns(w) /\ ~Invite!GivesUp(w)
    <3>1. inviteRow'.status = "FAILED"
      BY <1>0, <1>5, <2>2 DEF Invite!MarkFailed, Invite!Row
    <3>2. inviteWorker'[w].pc = "idle" /\ inviteWorker[w].pc # "idle"
      BY <1>5, ReturnIdles DEF Invite!MarkFailed
    <3>. QED
      BY <2>2, <3>1, <3>2 DEF InviteRowChange, Invite!Owns, Live
  <2>. QED
    BY <2>1, <2>2
<1>6. CASE Invite!WorkerStops(w)
  <2>1. CASE inviteRow' = inviteRow
    BY <2>1 DEF InviteRowChange
  <2>2. CASE inviteRow' # inviteRow
    <3>1. inviteRow.status = "SENDING" /\ inviteRow.owner = w
      BY <1>6, <2>2, StopStep
    <3>2. inviteWorker'[w].pc = "idle" /\ inviteWorker[w].pc # "idle"
      BY <1>6, ReturnIdles DEF Invite!WorkerStops
    <3>3. inviteWorker[w].attempts = inviteRow.attempts
      BY <3>1, <3>2 DEF Inv, WorkerFacts, OwnerKnows
    <3>4. inviteRow'.status = "SENDING"
      BY <1>0, <1>6, <3>1 DEF Invite!WorkerStops, Invite!Row
    <3>. QED
      BY <3>1, <3>2, <3>3, <3>4 DEF InviteRowChange, Live
  <2>. QED
    BY <2>1, <2>2
<1>. QED
  BY <1>1, <1>2, <1>3, <1>4, <1>5, <1>6 DEF Invite!Step

LEMMA RowChanges ==
  ASSUME Invite!InvitationAssumption, Inv, [Invite!Next]_(Invite!siVars)
  PROVE  InviteRowChange
<1>0. inviteRow \in Invite!Row /\ RowIsOwned
  BY DEF Inv, Invite!TypeOK, RowFacts
<1>1. ASSUME NEW id \in InviteInvitations, NEW a \in InviteAddresses, Invite!Invite(id, a) PROVE InviteRowChange
  <2>1. inviteRow = Invite!NoRow
    BY <1>1, RowInvited
  <2>2. inviteRow'.status = "PENDING"
    BY <1>1, PendingValue DEF Invite!Invite, Invite!Ids
  <2>. QED
    BY <2>1, <2>2, Values DEF InviteRowChange
<1>2. ASSUME NEW k \in InviteReissueKeys, Invite!Reissue(k) PROVE InviteRowChange
  <2>1. inviteUser.email \in InviteAddresses
    BY <1>2 DEF Invite!Reissue, Inv, Invite!TypeOK, Invite!User
  <2>2. inviteRow'.status = "PENDING" /\ inviteRow'.id = k
    BY <1>2, <2>1, PendingValue DEF Invite!Reissue, Invite!Ids
  <2>3. k \notin inviteUsed
    BY <1>2 DEF Invite!Reissue, Invite!KeyIsUsed, Inv, RowFacts, UsedAreKnown, Invite!InvitationAssumption
  <2>4. inviteRow.status = "DEAD_LETTERED" /\ inviteRow.lease # "live"
    BY <1>0, <1>2 DEF Invite!Reissue, RowIsOwned
  <2>. QED
    BY <2>2, <2>3, <2>4 DEF InviteRowChange
<1>3. CASE Invite!Retry \/ Invite!RetryDue
  <2>1. inviteRow.status = "FAILED" /\ inviteRow.lease # "live"
    BY <1>0, <1>3 DEF Invite!Retry, Invite!RetryDue, RowIsOwned
  <2>2. inviteRow'.status # "DELIVERED"
    BY <1>0, <1>3 DEF Invite!Retry, Invite!RetryDue, Invite!Row
  <2>. QED
    BY <2>1, <2>2 DEF InviteRowChange, Live
<1>4. CASE Invite!LeaseEnds
  BY <1>0, <1>4 DEF Invite!LeaseEnds, InviteRowChange, RowIsOwned, Live
<1>5. CASE (\E u \in Invite!User : Invite!ChangeUser(u))
             \/ (\E t \in {"ACTIVE", "SUSPENDED", "CANCELLED"} : Invite!ChangeTenant(t))
  <2>1. inviteRow' = inviteRow \/ inviteRow' = Invite!Cancelled(inviteRow)
    BY <1>5, RowChanged
  <2>2. inviteRow' = inviteRow \/ (inviteRow.status \in Live /\ inviteRow'.status = "CANCELLED")
    BY <1>0, <2>1, CancelledValue, EndedValue DEF Invite!Terminal
  <2>. QED
    BY <2>2 DEF InviteRowChange
<1>6. CASE UNCHANGED Invite!siVars
  BY <1>6 DEF Invite!siVars, InviteRowChange
<1>. QED
  BY <1>1, <1>2, <1>3, <1>4, <1>5, <1>6, WorkerChanges DEF Invite!Next

\* An e-mail is handed over only under the current claim, and only to an
\* active employee of an open tenant at the address the employee has.
THEOREM InvitationsReachEmployees ==
  ASSUME Invite!InvitationAssumption
  PROVE  Invite!Spec => Invite!MailGoesToEmployee
<1>1. Inv /\ [Invite!Next]_(Invite!siVars) => [Invite!ToEmployee]_(Invite!siVars)
  <2>1. ASSUME NEW w \in InviteWorkers, inviteWorker[w].pc = "sending", Inv,
               inviteInbox' \subseteq inviteInbox \cup {Invite!Mail(inviteWorker[w].id, inviteWorker[w].to)}
        PROVE  Invite!ToEmployee
    <3>1. /\ Invite!TenantOpen /\ Invite!UserActive /\ ~inviteUser.suppressed /\ inviteUser.email = inviteWorker[w].to
          /\ Invite!Owns(w) /\ inviteRow.to = inviteWorker[w].to
      BY <2>1 DEF Inv, WorkerFacts, OpenHolds, Invite!Open
    <3>2. \A m \in inviteInbox' \ inviteInbox : m.id = inviteWorker[w].id /\ m.to = inviteWorker[w].to
      BY <2>1 DEF Invite!Mail
    <3>. QED
      BY <3>1, <3>2 DEF Invite!ToEmployee, Invite!Owns
  <2>2. ASSUME UNCHANGED inviteInbox PROVE Invite!ToEmployee
    BY <2>2 DEF Invite!ToEmployee
  <2>3. ASSUME Inv, NEW w \in InviteWorkers, Invite!Step(w) PROVE Invite!ToEmployee
    <3>1. CASE Invite!Send(w) \/ Invite!SendFails(w)
      BY <2>1, <2>3, <3>1 DEF Invite!Send, Invite!SendFails
    <3>. QED
      BY <2>2, <2>3, <3>1 DEF Invite!Step, Invite!ClaimBatch, Invite!Begin, Invite!LeaseIsOver, Invite!Deliver, Invite!DeliveryFails,
                              Invite!MarkFailed, Invite!WorkerStops
  <2>. QED
    BY <2>2, <2>3 DEF Invite!Next, Invite!Invite, Invite!Retry, Invite!Reissue, Invite!LeaseEnds, Invite!RetryDue, Invite!ChangeUser, Invite!ChangeTenant
<1>. QED
  BY <1>1, Invariance, PTL DEF Invite!Spec, Invite!MailGoesToEmployee

\* A row becomes DELIVERED only once the provider took its e-mail, and a row
\* that has ended comes back only under an id that nobody used before.
THEOREM InvitationsEndForGood ==
  ASSUME Invite!InvitationAssumption
  PROVE  Invite!Spec => Invite!DeliveredAndFinal
<1>1. ASSUME Inv, [Invite!Next]_(Invite!siVars) PROVE Invite!EndsForGood
  <2>1. InviteRowChange /\ inviteRow \in Invite!Row
    BY <1>1, RowChanges DEF Inv, Invite!TypeOK
  <2>2. inviteRow' = [inviteRow EXCEPT !.lease = "ended"] => inviteRow'.status = inviteRow.status
    BY <2>1 DEF Invite!Row
  <2>. QED
    BY <2>1, <2>2 DEF InviteRowChange, Invite!EndsForGood, Live, Invite!Terminal
<1>2. Inv /\ [Invite!Next]_(Invite!siVars) => [Invite!EndsForGood]_(Invite!siVars)
  BY <1>1
<1>. QED
  BY <1>2, Invariance, PTL DEF Invite!Spec, Invite!DeliveredAndFinal

\* Under a live lease only the owner, the end of the lease or a cancellation
\* changes the row.
THEOREM InvitationClaimsAreProtected ==
  ASSUME Invite!InvitationAssumption
  PROVE  Invite!Spec => Invite!LeaseProtectsClaim
<1>1. ASSUME Inv, [Invite!Next]_(Invite!siVars) PROVE Invite!ClaimIsKept
  <2>1. InviteRowChange /\ RowIsOwned
    BY <1>1, RowChanges DEF Inv, RowFacts
  <2>. QED
    BY <2>1 DEF InviteRowChange, Invite!ClaimIsKept, RowIsOwned
<1>2. Inv /\ [Invite!Next]_(Invite!siVars) => [Invite!ClaimIsKept]_(Invite!siVars)
  BY <1>1
<1>. QED
  BY <1>2, Invariance, PTL DEF Invite!Spec, Invite!LeaseProtectsClaim

\* A behaviour of the composition is one of this component.
LEMMA InviteRuns == MCSpec => Invite!Spec
<1>1. MCInit => Invite!Init
  BY DEF MCInit
<1>2. [MCNext]_mcVars => [Invite!Next]_(Invite!siVars)
  <2>1. UNCHANGED inviteVars => UNCHANGED Invite!siVars
    BY DEF inviteVars, Invite!siVars
  <2>2. [MCNext]_mcVars => Invite!Next \/ UNCHANGED inviteVars
    BY DEF MCNext, mcVars
  <2> QED BY <2>1, <2>2
<1> QED BY <1>1, <1>2, PTL DEF MCSpec, Invite!Spec

-----------------------------------------------------------------------------
(* Password resets. *)

ResetMails == [link : Reset!Links, to : ResetAddresses \cup {None}]

WorldTypes ==
    /\ resetOpen \in BOOLEAN /\ resetAllowed \in BOOLEAN
    /\ resetUser \in Reset!User
    /\ resetToken \in [Reset!Links -> Reset!Token]
    /\ resetRow \in [Reset!Links -> Reset!Row]
    /\ resetSessions \subseteq Reset!Passwords
    /\ resetRedeem \in [ResetRedeemers -> Reset!Links \cup {None}]
    /\ resetInbox \subseteq ResetMails

\* Links are issued in order, and what was not issued has left no trace.
Issued ==
    \A n \in Reset!Links : resetToken[n].state = "none" =>
        /\ \A k \in Reset!Links : k > n => resetToken[k].state = "none"
        /\ resetRow[n].status = "NONE"
        /\ \A m \in resetInbox : m.link # n

\* An e-mail that can still be sent is for the address the account has, and
\* its link is live, or it was sent before.
ResetRowsOK ==
    \A n \in Reset!Links :
        /\ resetRow[n].status # "SENDING" => resetRow[n].lease = "none"
        /\ resetRow[n].status \in Reset!Waiting =>
             /\ resetRow[n].to = resetUser.email /\ resetToken[n].state # "none"
             /\ resetToken[n].state = "live" \/ [link |-> n, to |-> resetUser.email] \in resetInbox

\* A live link was sent to no other address than the account has.
LiveMail ==
    \A n \in Reset!Links : resetToken[n].state = "live" =>
        \A m \in resetInbox : m.link = n => m.to = resetUser.email

\* Who redeems a link has it from an e-mail.
Redeeming == \A r \in ResetRedeemers : resetRedeem[r] # None => \E m \in resetInbox : m.link = resetRedeem[r]

ResetWorld ==
    /\ WorldTypes /\ Issued /\ ResetRowsOK /\ LiveMail /\ Redeeming
    /\ Reset!OnlyNewestLinkLives /\ Reset!SessionsFollowPassword

\* A worker that holds the locks has the claim of its row, and nothing it
\* checked has changed.
HolderOK(w) ==
    /\ resetOpen /\ resetUser.state = "active" /\ ~resetUser.suppressed /\ resetUser.email = resetWorker[w].to
    /\ resetWorker[w].link \in Reset!Links /\ resetRow[resetWorker[w].link].status = "SENDING"
    /\ resetWorker[w].pc = "accepted" => Reset!Mail(w) \in resetInbox

Holders ==
    /\ resetWorker \in [ResetWorkers -> Reset!Worker]
    /\ \A w \in ResetWorkers : resetWorker[w].pc # "idle" => resetWorker[w].link \in Reset!Links
    /\ \A w \in ResetWorkers : resetWorker[w].pc \in Reset!Open => HolderOK(w)
    /\ \A w, v \in ResetWorkers : resetWorker[w].pc \in Reset!Open /\ resetWorker[v].pc \in Reset!Open => w = v

ResetInv == ResetWorld /\ Holders

-----------------------------------------------------------------------------
(* Values. *)

LEMMA ResetValues ==
  ASSUME Reset!ResetAssumption
  PROVE  /\ Reset!NoRow \in Reset!Row /\ Reset!NoRow.status = "NONE" /\ Reset!NoRow.lease = "none"
         /\ Reset!Idle \in Reset!Worker /\ Reset!Idle.pc = "idle"
         /\ Reset!Links \subseteq Nat /\ None \notin ResetAddresses
  BY DEF Reset!ResetAssumption, Reset!NoRow, Reset!Row, Reset!Idle, Reset!Worker, Reset!Links

LEMMA ResetEndedValue ==
  ASSUME Reset!ResetAssumption, NEW r \in Reset!Row, NEW s \in {"DELIVERED", "DEAD_LETTERED"}
  PROVE  Reset!Ended(r, s) \in Reset!Row /\ Reset!Ended(r, s).status = s /\ Reset!Ended(r, s).lease = "none"
  BY DEF Reset!ResetAssumption, Reset!Ended, Reset!NoRow, Reset!Row

LEMMA BuriedValue ==
  ASSUME Reset!ResetAssumption, NEW r \in Reset!Row
  PROVE  /\ Reset!Buried(r) \in Reset!Row /\ Reset!Buried(r).status \notin Reset!Waiting
         /\ r.status \in Reset!Waiting => Reset!Buried(r).status = "DEAD_LETTERED" /\ Reset!Buried(r).lease = "none"
         /\ r.status \notin Reset!Waiting => Reset!Buried(r) = r
  BY ResetEndedValue DEF Reset!Buried, Reset!Waiting

LEMMA ConsumedValue ==
  ASSUME NEW t \in Reset!Token
  PROVE  /\ Reset!Consumed(t) \in Reset!Token /\ Reset!Consumed(t).state # "live"
         /\ Reset!Consumed(t).state = "none" <=> t.state = "none"
         /\ t.state = "live" => Reset!Consumed(t).state = "consumed"
  BY DEF Reset!Consumed, Reset!Token

LEMMA ConsumeAllValue ==
  ASSUME resetToken \in [Reset!Links -> Reset!Token]
  PROVE  /\ Reset!ConsumeAll \in [Reset!Links -> Reset!Token]
         /\ \A n \in Reset!Links : /\ Reset!ConsumeAll[n].state # "live"
                                   /\ Reset!ConsumeAll[n].state = "none" <=> resetToken[n].state = "none"
                                   /\ resetToken[n].state = "live" => Reset!ConsumeAll[n].state = "consumed"
  BY ConsumedValue DEF Reset!ConsumeAll

LEMMA BuryAllValue ==
  ASSUME Reset!ResetAssumption, resetRow \in [Reset!Links -> Reset!Row]
  PROVE  /\ Reset!BuryAll \in [Reset!Links -> Reset!Row]
         /\ \A n \in Reset!Links :
              /\ Reset!BuryAll[n].status \notin Reset!Waiting
              /\ resetRow[n].status \in Reset!Waiting =>
                    Reset!BuryAll[n].status = "DEAD_LETTERED" /\ Reset!BuryAll[n].lease = "none"
              /\ resetRow[n].status \notin Reset!Waiting => Reset!BuryAll[n] = resetRow[n]
  BY BuriedValue DEF Reset!BuryAll

-----------------------------------------------------------------------------
(* The account, its links and its rows. *)

\* What claims, deliveries and failures do to the rows.
RowsMove ==
    /\ resetRow' \in [Reset!Links -> Reset!Row]
    /\ \A n \in Reset!Links :
         \/ resetRow'[n] = resetRow[n]
         \/ /\ resetRow[n].status \in Reset!Waiting /\ resetRow'[n].status # "NONE"
            /\ resetRow'[n].status \in Reset!Waiting => resetRow'[n].to = resetRow[n].to
            /\ resetRow'[n].status # "SENDING" => resetRow'[n].lease = "none"

LEMMA RowsMoving ==
  ASSUME Reset!ResetAssumption, ResetInv, RowsMove,
         UNCHANGED <<resetOpen, resetAllowed, resetUser, resetToken, resetSessions, resetInbox, resetRedeem>>
  PROVE  ResetWorld'
<1>1. ResetWorld
  BY DEF ResetInv
<1>2. WorldTypes' /\ LiveMail' /\ Redeeming' /\ Reset!OnlyNewestLinkLives' /\ Reset!SessionsFollowPassword'
  BY <1>1 DEF ResetWorld, WorldTypes, LiveMail, Redeeming, Reset!OnlyNewestLinkLives, Reset!SessionsFollowPassword,
              RowsMove, ResetMails
<1>3. Issued'
  BY <1>1 DEF ResetWorld, Issued, RowsMove, Reset!Waiting
<1>4. ResetRowsOK'
  BY <1>1 DEF ResetWorld, ResetRowsOK, RowsMove
<1>. QED
  BY <1>2, <1>3, <1>4 DEF ResetWorld

\* The provider accepts an e-mail.
LEMMA Mailing ==
  ASSUME Reset!ResetAssumption, ResetInv, NEW m \in ResetMails, resetInbox' = resetInbox \cup {m},
         m.to = resetUser.email, resetToken[m.link].state # "none",
         UNCHANGED <<resetOpen, resetAllowed, resetUser, resetToken, resetRow, resetSessions, resetRedeem>>
  PROVE  ResetWorld'
<1>1. ResetWorld /\ resetInbox \subseteq resetInbox' /\ resetInbox' \subseteq ResetMails
  BY DEF ResetInv, ResetWorld, WorldTypes
<1>2. WorldTypes' /\ Reset!OnlyNewestLinkLives' /\ Reset!SessionsFollowPassword'
  BY <1>1 DEF ResetWorld, WorldTypes, Reset!OnlyNewestLinkLives, Reset!SessionsFollowPassword, ResetMails
<1>3. Issued'
  BY <1>1 DEF ResetWorld, Issued
<1>4. ResetRowsOK'
  BY <1>1 DEF ResetWorld, ResetRowsOK
<1>5. LiveMail'
  BY <1>1 DEF ResetWorld, LiveMail
<1>6. Redeeming'
  BY <1>1 DEF ResetWorld, Redeeming
<1>. QED
  BY <1>2, <1>3, <1>4, <1>5, <1>6 DEF ResetWorld

\* The account keeps its address and its password.
LEMMA Staying ==
  ASSUME Reset!ResetAssumption, ResetInv, resetOpen' \in BOOLEAN, resetAllowed' \in BOOLEAN, resetUser' \in Reset!User,
         resetUser'.email = resetUser.email, resetUser'.password = resetUser.password,
         resetSessions' \subseteq {resetUser.password}, resetSessions' \subseteq Reset!Passwords,
         resetRedeem' \in [ResetRedeemers -> Reset!Links \cup {None}],
         \A r \in ResetRedeemers : resetRedeem'[r] # None => \E m \in resetInbox : m.link = resetRedeem'[r],
         UNCHANGED <<resetToken, resetRow, resetInbox>>
  PROVE  ResetWorld'
<1>1. ResetWorld
  BY DEF ResetInv
<1>2. WorldTypes' /\ Reset!OnlyNewestLinkLives' /\ Reset!SessionsFollowPassword'
  BY <1>1 DEF ResetWorld, WorldTypes, Reset!OnlyNewestLinkLives, Reset!SessionsFollowPassword, ResetMails
<1>3. Issued' /\ LiveMail' /\ Redeeming'
  BY <1>1 DEF ResetWorld, Issued, LiveMail, Redeeming
<1>4. ResetRowsOK'
  BY <1>1 DEF ResetWorld, ResetRowsOK
<1>. QED
  BY <1>2, <1>3, <1>4 DEF ResetWorld

LEMMA CreateStep ==
  ASSUME Reset!ResetAssumption, ResetInv, NEW n \in Reset!Links, Reset!CreatePasswordReset(n)
  PROVE  ResetWorld'
<1>1. ResetWorld /\ resetToken \in [Reset!Links -> Reset!Token] /\ resetRow \in [Reset!Links -> Reset!Row] /\ resetUser \in Reset!User
  BY DEF ResetInv, ResetWorld, WorldTypes
<1>2. UNCHANGED <<resetOpen, resetAllowed, resetUser, resetSessions, resetInbox, resetRedeem>>
  BY DEF Reset!CreatePasswordReset
<1>3. PICK t : t = [Reset!ConsumeAll[n] EXCEPT !.state = "live"]
  OBVIOUS
<1>4. t \in Reset!Token /\ t.state = "live"
  BY <1>1, <1>3, ConsumeAllValue DEF Reset!Token
<1>5. resetToken' = [Reset!ConsumeAll EXCEPT ![n] = t]
  BY <1>3 DEF Reset!CreatePasswordReset
<1>6. /\ resetToken' \in [Reset!Links -> Reset!Token] /\ resetToken'[n].state = "live"
      /\ \A k \in Reset!Links \ {n} : /\ resetToken'[k].state # "live"
                                      /\ resetToken'[k].state = "none" <=> resetToken[k].state = "none"
  BY <1>1, <1>4, <1>5, ConsumeAllValue
<1>7. PICK r : r = [Reset!NoRow EXCEPT !.status = "PENDING", !.due = TRUE, !.to = resetUser.email]
  OBVIOUS
<1>8. r \in Reset!Row /\ r.status = "PENDING" /\ r.lease = "none" /\ r.to = resetUser.email
  <2>1. resetUser.email \in ResetAddresses \cup {None} /\ ResetMaxAttempts \in Nat /\ 0 \in 0 .. ResetMaxAttempts
    BY <1>1 DEF Reset!User, Reset!ResetAssumption
  <2>2. r = [status |-> "PENDING", attempts |-> 0, due |-> TRUE, lease |-> "none", to |-> resetUser.email]
    BY <1>7 DEF Reset!NoRow
  <2>. QED
    BY <2>1, <2>2 DEF Reset!Row, Reset!Waiting
<1>9. resetRow' = [Reset!BuryAll EXCEPT ![n] = r]
  BY <1>7 DEF Reset!CreatePasswordReset
<1>10. /\ resetRow' \in [Reset!Links -> Reset!Row] /\ resetRow'[n] = r
       /\ \A k \in Reset!Links \ {n} : resetRow'[k].status \notin Reset!Waiting /\ resetRow'[k] = Reset!BuryAll[k]
  BY <1>1, <1>8, <1>9, BuryAllValue
<1>11. /\ resetToken[n].state = "none"
       /\ \A k \in Reset!Links : k < n => resetToken[k].state # "none"
  BY DEF Reset!CreatePasswordReset, Reset!Links, Reset!ResetAssumption
<1>12. \A k \in Reset!Links : k > n => resetToken[k].state = "none"
  BY <1>1, <1>11 DEF ResetWorld, Issued
<1>13. Reset!OnlyNewestLinkLives'
  BY <1>6, <1>12, ResetValues DEF Reset!OnlyNewestLinkLives
<1>14. Issued'
  <2>1. ASSUME NEW k \in Reset!Links, resetToken'[k].state = "none"
        PROVE  /\ \A j \in Reset!Links : j > k => resetToken'[j].state = "none"
               /\ resetRow'[k].status = "NONE" /\ \A m \in resetInbox' : m.link # k
    <3>1. k # n /\ resetToken[k].state = "none"
      BY <1>6, <2>1
    <3>2. k > n
      BY <1>11, <3>1, ResetValues
    <3>3. \A j \in Reset!Links : j > k => j # n /\ resetToken[j].state = "none"
      BY <1>12, <3>2, ResetValues
    <3>4. resetRow[k].status = "NONE" /\ \A m \in resetInbox : m.link # k
      BY <1>1, <3>1 DEF ResetWorld, Issued
    <3>5. resetRow'[k].status = "NONE"
      BY <1>1, <1>10, <3>1, <3>4, BuryAllValue DEF Reset!Waiting
    <3>. QED
      BY <1>2, <1>6, <3>3, <3>4, <3>5
  <2>. QED
    BY <2>1 DEF Issued
<1>15. ResetRowsOK'
  <2>1. ASSUME NEW k \in Reset!Links, resetRow'[k].status # "SENDING" PROVE resetRow'[k].lease = "none"
    BY <1>1, <1>8, <1>10, <2>1, BuryAllValue DEF ResetWorld, ResetRowsOK, Reset!Waiting
  <2>2. \A k \in Reset!Links : resetRow'[k].status \in Reset!Waiting => k = n
    BY <1>10
  <2>. QED
    BY <1>2, <1>6, <1>8, <1>10, <2>1, <2>2 DEF ResetRowsOK
<1>16. LiveMail'
  BY <1>1, <1>2, <1>6, <1>11 DEF ResetWorld, Issued, LiveMail
<1>17. WorldTypes' /\ Redeeming' /\ Reset!SessionsFollowPassword'
  BY <1>1, <1>2, <1>6, <1>10 DEF ResetWorld, WorldTypes, Redeeming, Reset!SessionsFollowPassword, ResetMails
<1>. QED
  BY <1>13, <1>14, <1>15, <1>16, <1>17 DEF ResetWorld

\* Every link that is live is consumed, and the rows are not, or were all, put
\* away; the account's address may be another one.
LEMMA Consuming ==
  ASSUME Reset!ResetAssumption, ResetInv, resetToken' = Reset!ConsumeAll, resetUser' \in Reset!User,
         resetRow' \in [Reset!Links -> Reset!Row], resetSessions' \subseteq {resetUser'.password}, resetSessions' \subseteq Reset!Passwords,
         resetRedeem' \in [ResetRedeemers -> Reset!Links \cup {None}],
         \A r \in ResetRedeemers : resetRedeem'[r] = None \/ resetRedeem'[r] = resetRedeem[r],
         \A n \in Reset!Links : resetRow'[n].status # "SENDING" => resetRow'[n].lease = "none",
         \A n \in Reset!Links : resetRow[n].status = "NONE" => resetRow'[n].status = "NONE",
         \A n \in Reset!Links : resetRow'[n].status \in Reset!Waiting =>
             /\ resetRow'[n].to = resetUser'.email /\ resetToken[n].state # "none"
             /\ [link |-> n, to |-> resetUser'.email] \in resetInbox,
         UNCHANGED <<resetOpen, resetAllowed, resetInbox>>
  PROVE  ResetWorld'
<1>1. ResetWorld /\ resetToken \in [Reset!Links -> Reset!Token]
  BY DEF ResetInv, ResetWorld, WorldTypes
<1>2. /\ resetToken' \in [Reset!Links -> Reset!Token]
      /\ \A n \in Reset!Links : /\ resetToken'[n].state # "live"
                                /\ resetToken'[n].state = "none" <=> resetToken[n].state = "none"
  BY <1>1, ConsumeAllValue
<1>3. Reset!OnlyNewestLinkLives' /\ LiveMail'
  BY <1>2 DEF Reset!OnlyNewestLinkLives, LiveMail
<1>4. Issued'
  BY <1>1, <1>2 DEF ResetWorld, Issued
<1>5. ResetRowsOK'
  BY <1>2 DEF ResetRowsOK
<1>6. WorldTypes' /\ Reset!SessionsFollowPassword'
  BY <1>1, <1>2 DEF ResetWorld, WorldTypes, Reset!SessionsFollowPassword, ResetMails
<1>7. Redeeming'
  BY <1>1 DEF ResetWorld, Redeeming
<1>. QED
  BY <1>3, <1>4, <1>5, <1>6, <1>7 DEF ResetWorld

LEMMA ResetStep ==
  ASSUME Reset!ResetAssumption, ResetInv, NEW r \in ResetRedeemers, Reset!ResetPasswordWithToken(r)
  PROVE  ResetWorld'
<1>1. ResetWorld /\ resetUser \in Reset!User /\ resetRedeem \in [ResetRedeemers -> Reset!Links \cup {None}]
  BY DEF ResetInv, ResetWorld, WorldTypes
<1>2. PICK n : n = resetRedeem[r]
  OBVIOUS
<1>3. n \in Reset!Links /\ resetRedeem' = [resetRedeem EXCEPT ![r] = None] /\ UNCHANGED <<resetOpen, resetAllowed, resetRow, resetInbox>>
  BY <1>1, <1>2 DEF Reset!ResetPasswordWithToken
<1>4. /\ resetRedeem' \in [ResetRedeemers -> Reset!Links \cup {None}]
      /\ \A q \in ResetRedeemers : resetRedeem'[q] = None \/ resetRedeem'[q] = resetRedeem[q]
  BY <1>1, <1>3
<1>5. CASE Reset!CanRecover /\ Reset!Usable(n)
  <2>1. resetUser' = [resetUser EXCEPT !.password = n] /\ resetSessions' = {} /\ resetToken' = Reset!ConsumeAll
    BY <1>2, <1>5 DEF Reset!ResetPasswordWithToken
  <2>2. resetUser' \in Reset!User /\ resetUser'.email = resetUser.email
    BY <1>1, <1>3, <2>1 DEF Reset!User, Reset!Links, Reset!Passwords, Reset!ResetAssumption
  <2>3. ASSUME NEW k \in Reset!Links, resetRow[k].status \in Reset!Waiting
        PROVE  /\ resetRow[k].to = resetUser.email /\ resetToken[k].state # "none"
               /\ [link |-> k, to |-> resetUser.email] \in resetInbox
    <3>1. /\ resetRow[k].to = resetUser.email /\ resetToken[k].state # "none"
          /\ resetToken[k].state = "live" \/ [link |-> k, to |-> resetUser.email] \in resetInbox
      BY <1>1, <2>3 DEF ResetWorld, ResetRowsOK
    <3>2. ASSUME resetToken[k].state = "live" PROVE [link |-> k, to |-> resetUser.email] \in resetInbox
      <4>1. k = n
        BY <1>1, <1>3, <1>5, <3>2, ResetValues DEF ResetWorld, Reset!OnlyNewestLinkLives, Reset!Usable
      <4>2. PICK m \in resetInbox : m.link = n
        BY <1>1, <1>2, <1>3 DEF ResetWorld, Redeeming, Reset!ResetPasswordWithToken
      <4>3. m \in ResetMails /\ m.to = resetUser.email
        BY <1>1, <1>3, <1>5, <4>2 DEF ResetWorld, WorldTypes, LiveMail, Reset!Usable
      <4>4. m = [link |-> m.link, to |-> m.to]
        BY <4>3 DEF ResetMails
      <4>. QED
        BY <4>1, <4>2, <4>3, <4>4
    <3>. QED
      BY <3>1, <3>2
  <2>4. /\ \A k \in Reset!Links : resetRow'[k].status # "SENDING" => resetRow'[k].lease = "none"
        /\ \A k \in Reset!Links : resetRow[k].status = "NONE" => resetRow'[k].status = "NONE"
        /\ resetRow' \in [Reset!Links -> Reset!Row]
    BY <1>1, <1>3 DEF ResetWorld, ResetRowsOK, WorldTypes
  <2>5. \A k \in Reset!Links : resetRow'[k].status \in Reset!Waiting =>
             /\ resetRow'[k].to = resetUser'.email /\ resetToken[k].state # "none"
             /\ [link |-> k, to |-> resetUser'.email] \in resetInbox
    BY <1>3, <2>2, <2>3
  <2>. QED
    BY <1>3, <1>4, <2>1, <2>2, <2>4, <2>5, Consuming
<1>6. CASE ~(Reset!CanRecover /\ Reset!Usable(n))
  <2>1. UNCHANGED <<resetUser, resetSessions, resetToken>>
    BY <1>2, <1>6 DEF Reset!ResetPasswordWithToken
  <2>2. \A q \in ResetRedeemers : resetRedeem'[q] # None => \E m \in resetInbox : m.link = resetRedeem'[q]
    BY <1>1, <1>4 DEF ResetWorld, Redeeming
  <2>. QED
    BY <1>1, <1>3, <1>4, <2>1, <2>2, Staying DEF ResetWorld, WorldTypes, Reset!SessionsFollowPassword
<1>. QED
  BY <1>5, <1>6

LEMMA ChangeEmailStep ==
  ASSUME Reset!ResetAssumption, ResetInv, NEW a \in ResetAddresses, Reset!ChangeEmail(a)
  PROVE  ResetWorld'
<1>1. ResetWorld /\ resetUser \in Reset!User /\ resetRow \in [Reset!Links -> Reset!Row] /\ resetRedeem \in [ResetRedeemers -> Reset!Links \cup {None}]
  BY DEF ResetInv, ResetWorld, WorldTypes
<1>2. /\ resetUser' = [resetUser EXCEPT !.email = a, !.suppressed = FALSE]
      /\ resetToken' = Reset!ConsumeAll /\ resetRow' = Reset!BuryAll /\ resetSessions' = {}
      /\ UNCHANGED <<resetOpen, resetAllowed, resetInbox, resetRedeem>>
  BY DEF Reset!ChangeEmail
<1>3. resetUser' \in Reset!User
  BY <1>1, <1>2 DEF Reset!User
<1>4. /\ \A k \in Reset!Links : resetRow'[k].status # "SENDING" => resetRow'[k].lease = "none"
      /\ \A k \in Reset!Links : resetRow[k].status = "NONE" => resetRow'[k].status = "NONE"
      /\ \A k \in Reset!Links : resetRow'[k].status \notin Reset!Waiting
      /\ resetRow' \in [Reset!Links -> Reset!Row]
  BY <1>1, <1>2, BuryAllValue DEF ResetWorld, ResetRowsOK, Reset!Waiting
<1>. QED
  BY <1>1, <1>2, <1>3, <1>4, Consuming

LEMMA DeleteStep ==
  ASSUME Reset!ResetAssumption, ResetInv, Reset!DeleteUser
  PROVE  ResetWorld'
<1>1. ResetWorld /\ resetRedeem \in [ResetRedeemers -> Reset!Links \cup {None}]
  BY DEF ResetInv, ResetWorld, WorldTypes
<1>2. /\ resetUser' = [state |-> "deleted", email |-> None, suppressed |-> FALSE, password |-> None]
      /\ resetToken' = Reset!ConsumeAll /\ resetRow' = [n \in Reset!Links |-> Reset!NoRow] /\ resetSessions' = {}
      /\ UNCHANGED <<resetOpen, resetAllowed, resetInbox, resetRedeem>>
  BY DEF Reset!DeleteUser
<1>3. resetUser' \in Reset!User
  BY <1>2 DEF Reset!User
<1>4. /\ \A k \in Reset!Links : resetRow'[k].lease = "none" /\ resetRow'[k].status = "NONE"
      /\ resetRow' \in [Reset!Links -> Reset!Row]
  BY <1>2, ResetValues
<1>. QED
  BY <1>1, <1>2, <1>3, <1>4, Consuming DEF Reset!Waiting

LEMMA ExpireStep ==
  ASSUME Reset!ResetAssumption, ResetInv, NEW n \in Reset!Links, Reset!LinkExpires(n)
  PROVE  ResetWorld'
<1>1. ResetWorld /\ resetToken \in [Reset!Links -> Reset!Token]
  BY DEF ResetInv, ResetWorld, WorldTypes
<1>2. PICK t : t = [resetToken[n] EXCEPT !.expired = TRUE]
  OBVIOUS
<1>3. t \in Reset!Token /\ t.state = resetToken[n].state
  BY <1>1, <1>2 DEF Reset!Token
<1>4. resetToken' = [resetToken EXCEPT ![n] = t] /\ UNCHANGED <<resetOpen, resetAllowed, resetUser, resetRow, resetSessions, resetInbox, resetRedeem>>
  BY <1>2 DEF Reset!LinkExpires
<1>5. resetToken' \in [Reset!Links -> Reset!Token] /\ \A k \in Reset!Links : resetToken'[k].state = resetToken[k].state
  BY <1>1, <1>3, <1>4
<1>6. WorldTypes' /\ Redeeming' /\ Reset!SessionsFollowPassword'
  BY <1>1, <1>4, <1>5 DEF ResetWorld, WorldTypes, Redeeming, Reset!SessionsFollowPassword, ResetMails
<1>7. Issued'
  BY <1>1, <1>4, <1>5 DEF ResetWorld, Issued
<1>8. ResetRowsOK'
  BY <1>1, <1>4, <1>5 DEF ResetWorld, ResetRowsOK
<1>9. LiveMail' /\ Reset!OnlyNewestLinkLives'
  BY <1>1, <1>4, <1>5 DEF ResetWorld, LiveMail, Reset!OnlyNewestLinkLives
<1>. QED
  BY <1>6, <1>7, <1>8, <1>9 DEF ResetWorld

-----------------------------------------------------------------------------
(* The workers. *)

LEMMA WorkerUpdate ==
  ASSUME ResetInv, NEW w \in ResetWorkers, NEW x \in Reset!Worker, resetWorker' = [resetWorker EXCEPT ![w] = x]
  PROVE  /\ resetWorker' \in [ResetWorkers -> Reset!Worker] /\ resetWorker'[w] = x
         /\ \A v \in ResetWorkers \ {w} : resetWorker'[v] = resetWorker[v]
  BY DEF ResetInv, Holders

\* A step while nobody holds the locks, and after which nobody does.
LEMMA FreeStep ==
  ASSUME ResetInv, ~Reset!Locked,
         \/ UNCHANGED resetWorker
         \/ \E w \in ResetWorkers, x \in Reset!Worker :
              /\ resetWorker' = [resetWorker EXCEPT ![w] = x] /\ x.pc \notin Reset!Open
              /\ x.pc # "idle" => x.link \in Reset!Links
  PROVE  Holders'
<1>1. CASE UNCHANGED resetWorker
  BY <1>1 DEF ResetInv, Holders, Reset!Locked
<1>2. ASSUME NEW w \in ResetWorkers, NEW x \in Reset!Worker, resetWorker' = [resetWorker EXCEPT ![w] = x],
             x.pc \notin Reset!Open, x.pc # "idle" => x.link \in Reset!Links
      PROVE  Holders'
  <2>1. /\ resetWorker' \in [ResetWorkers -> Reset!Worker] /\ resetWorker'[w] = x
        /\ \A v \in ResetWorkers \ {w} : resetWorker'[v] = resetWorker[v]
    BY <1>2, WorkerUpdate
  <2>2. \A v \in ResetWorkers : resetWorker'[v].pc \notin Reset!Open
    BY <1>2, <2>1 DEF Reset!Locked
  <2>3. \A v \in ResetWorkers : resetWorker'[v].pc # "idle" => resetWorker'[v].link \in Reset!Links
    BY <1>2, <2>1 DEF ResetInv, Holders
  <2>. QED
    BY <2>1, <2>2, <2>3 DEF Holders
<1>. QED
  BY <1>1, <1>2

\* A step that leaves alone what the holder of the locks relies on.
LEMMA ResetHeldStep ==
  ASSUME ResetInv, UNCHANGED <<resetOpen, resetUser>>, resetInbox \subseteq resetInbox',
         resetWorker' \in [ResetWorkers -> Reset!Worker],
         \A v \in ResetWorkers : resetWorker'[v].pc # "idle" => resetWorker'[v].link \in Reset!Links,
         \A v \in ResetWorkers : resetWorker'[v].pc \in Reset!Open =>
            /\ resetWorker[v].pc \in Reset!Open
            /\ resetWorker'[v].link = resetWorker[v].link /\ resetWorker'[v].to = resetWorker[v].to
            /\ resetRow'[resetWorker[v].link].status = resetRow[resetWorker[v].link].status
            /\ resetWorker'[v].pc = "accepted" => Reset!Mail(v)' \in resetInbox'
  PROVE  Holders'
<1>1. ASSUME NEW v \in ResetWorkers, resetWorker'[v].pc \in Reset!Open PROVE HolderOK(v)'
  <2>1. HolderOK(v)
    BY <1>1 DEF ResetInv, Holders
  <2>2. /\ resetWorker'[v].link = resetWorker[v].link /\ resetWorker'[v].to = resetWorker[v].to
        /\ resetRow'[resetWorker[v].link].status = resetRow[resetWorker[v].link].status
        /\ resetWorker'[v].pc = "accepted" => Reset!Mail(v)' \in resetInbox'
    BY <1>1
  <2>. QED
    BY <2>1, <2>2 DEF HolderOK
<1>. QED
  BY <1>1 DEF ResetInv, Holders

LEMMA ReturnUpdate ==
  ASSUME Reset!ResetAssumption, ResetInv, NEW w \in ResetWorkers, Reset!Return(w)
  PROVE  /\ resetWorker' \in [ResetWorkers -> Reset!Worker] /\ resetWorker'[w].pc = "idle"
         /\ \A v \in ResetWorkers \ {w} : resetWorker'[v] = resetWorker[v]
  BY ResetValues, WorkerUpdate DEF Reset!Return

LEMMA ReturnFree ==
  ASSUME Reset!ResetAssumption, ResetInv, NEW w \in ResetWorkers, Reset!Return(w), ~Reset!Locked
  PROVE  Holders'
  BY ResetValues, FreeStep DEF Reset!Return, Reset!Open

\* A row of which only the holder of the claim, or a claim, moves.
LEMMA OneRowMoves ==
  ASSUME Reset!ResetAssumption, ResetInv, NEW n \in Reset!Links, NEW r \in Reset!Row, resetRow' = [resetRow EXCEPT ![n] = r],
         resetRow[n].status \in Reset!Waiting, r.status # "NONE", r.status \in Reset!Waiting => r.to = resetRow[n].to,
         r.status # "SENDING" => r.lease = "none",
         UNCHANGED <<resetOpen, resetAllowed, resetUser, resetToken, resetSessions, resetInbox, resetRedeem>>
  PROVE  ResetWorld'
<1>1. resetRow \in [Reset!Links -> Reset!Row]
  BY DEF ResetInv, ResetWorld, WorldTypes
<1>2. RowsMove
  BY <1>1 DEF RowsMove
<1>. QED
  BY <1>2, RowsMoving

LEMMA SameRows ==
  ASSUME Reset!ResetAssumption, ResetInv, UNCHANGED <<resetOpen, resetAllowed, resetUser, resetToken, resetRow, resetSessions, resetInbox, resetRedeem>>
  PROVE  ResetWorld'
<1>1. RowsMove
  BY DEF ResetInv, ResetWorld, WorldTypes, RowsMove
<1>. QED
  BY <1>1, RowsMoving

LEMMA ResetClaimStep ==
  ASSUME Reset!ResetAssumption, ResetInv, NEW w \in ResetWorkers, Reset!Claim(w)
  PROVE  ResetInv'
<1>1. /\ resetRow \in [Reset!Links -> Reset!Row] /\ ~Reset!Locked /\ ResetRowsOK
      /\ UNCHANGED <<resetOpen, resetAllowed, resetUser, resetToken, resetSessions, resetInbox, resetRedeem>>
  BY DEF Reset!Claim, ResetInv, ResetWorld, WorldTypes
<1>2. CASE resetRow' = Reset!ClaimedFrom /\ UNCHANGED resetWorker
  <2>1. RowsMove
    <3>1. \A n \in Reset!Links : resetRow'[n] = resetRow[n] \/ (resetRow[n].status \in Reset!Waiting /\ resetRow'[n] = Reset!Buried(resetRow[n]))
      BY <1>2 DEF Reset!ClaimedFrom, Reset!Due, Reset!Waiting
    <3>2. resetRow' \in [Reset!Links -> Reset!Row]
      BY <1>1, <1>2, BuriedValue DEF Reset!ClaimedFrom
    <3>. QED
      BY <1>1, <3>1, <3>2, BuriedValue DEF RowsMove, Reset!Waiting
  <2>2. Holders'
    BY <1>1, <1>2, FreeStep
  <2>. QED
    BY <1>1, <2>1, <2>2, RowsMoving DEF ResetInv
<1>3. ASSUME NEW n \in Reset!Links, Reset!Claimable(n),
             resetRow' = [resetRow EXCEPT ![n].status = "SENDING", ![n].attempts = @ + 1,
                                          ![n].due = FALSE, ![n].lease = "live"],
             resetWorker' = [resetWorker EXCEPT ![w] =
                   [Reset!Idle EXCEPT !.pc = "claimed", !.link = n,
                                      !.attempts = resetRow[n].attempts + 1, !.to = resetRow[n].to]]
      PROVE  ResetInv'
  <2>1. PICK a : a = resetRow[n].attempts + 1
    OBVIOUS
  <2>2. a \in 0 .. ResetMaxAttempts
    BY <1>1, <1>3, <2>1 DEF Reset!Claimable, Reset!Row, Reset!ResetAssumption
  <2>3. PICK r : r = [resetRow[n] EXCEPT !.status = "SENDING", !.attempts = a, !.due = FALSE, !.lease = "live"]
    OBVIOUS
  <2>4. r \in Reset!Row /\ r.status = "SENDING" /\ r.to = resetRow[n].to
    BY <1>1, <2>2, <2>3 DEF Reset!Row, Reset!Waiting
  <2>5. resetRow' = [resetRow EXCEPT ![n] = r]
    BY <1>3, <2>1, <2>3
  <2>6. resetRow[n].status \in Reset!Waiting
    BY <1>3 DEF Reset!Claimable, Reset!ClaimedFrom, Reset!Due, Reset!Waiting
  <2>7. ResetWorld'
    BY <1>1, <2>4, <2>5, <2>6, OneRowMoves
  <2>8. PICK x : x = [Reset!Idle EXCEPT !.pc = "claimed", !.link = n, !.attempts = a, !.to = resetRow[n].to]
    OBVIOUS
  <2>9. x \in Reset!Worker /\ x.pc = "claimed" /\ x.link = n
    BY <1>1, <2>2, <2>8 DEF Reset!Idle, Reset!Worker, Reset!Row
  <2>10. resetWorker' = [resetWorker EXCEPT ![w] = x]
    BY <1>3, <2>1, <2>8
  <2>11. Holders'
    BY <1>1, <2>9, <2>10, FreeStep DEF Reset!Open
  <2>. QED
    BY <2>7, <2>11 DEF ResetInv
<1>. QED
  BY <1>2, <1>3 DEF Reset!Claim

LEMMA EndStep ==
  ASSUME Reset!ResetAssumption, ResetInv, NEW n \in Reset!Links, NEW s \in {"DELIVERED", "DEAD_LETTERED"},
         resetRow' = [resetRow EXCEPT ![n] = Reset!Ended(@, s)], resetRow[n].status = "SENDING",
         UNCHANGED <<resetOpen, resetAllowed, resetUser, resetToken, resetSessions, resetInbox, resetRedeem>>
  PROVE  ResetWorld'
<1>1. PICK r : r = Reset!Ended(resetRow[n], s)
  OBVIOUS
<1>2. r \in Reset!Row /\ r.status = s /\ r.lease = "none"
  BY <1>1, ResetEndedValue DEF ResetInv, ResetWorld, WorldTypes
<1>3. resetRow' = [resetRow EXCEPT ![n] = r]
  BY <1>1
<1>. QED
  BY <1>2, <1>3, OneRowMoves DEF Reset!Waiting

LEMMA ResetGotoValue ==
  ASSUME ResetInv, NEW w \in ResetWorkers, NEW pc \in Reset!Open, NEW x, x = [resetWorker[w] EXCEPT !.pc = pc]
  PROVE  x \in Reset!Worker /\ x.pc = pc /\ x.link = resetWorker[w].link /\ x.to = resetWorker[w].to
  BY DEF ResetInv, Holders, Reset!Worker, Reset!Open

LEMMA ResetBeginStep ==
  ASSUME Reset!ResetAssumption, ResetInv, NEW w \in ResetWorkers, Reset!Begin(w)
  PROVE  ResetInv'
<1>1. /\ resetRow \in [Reset!Links -> Reset!Row] /\ ~Reset!Locked /\ resetWorker[w].pc = "claimed" /\ resetWorker[w].link \in Reset!Links
      /\ UNCHANGED <<resetOpen, resetAllowed, resetUser, resetToken, resetSessions, resetInbox, resetRedeem>>
  BY DEF Reset!Begin, ResetInv, ResetWorld, WorldTypes, Holders
<1>2. ASSUME Reset!Return(w), resetRow' = resetRow PROVE ResetInv'
  BY <1>1, <1>2, SameRows, ReturnFree DEF ResetInv
<1>3. ASSUME Reset!Return(w), Reset!Owns(w), resetRow' = [resetRow EXCEPT ![resetWorker[w].link] = Reset!Ended(@, "DEAD_LETTERED")]
      PROVE  ResetInv'
  <2>1. ResetWorld'
    BY <1>1, <1>3, EndStep DEF Reset!Owns
  <2>. QED
    BY <1>1, <1>3, <2>1, ReturnFree DEF ResetInv
<1>4. ASSUME resetOpen, Reset!Current(w), Reset!Owns(w), Reset!Goto(w, "sending"), UNCHANGED resetRow PROVE ResetInv'
  <2>1. ResetWorld'
    BY <1>1, <1>4, SameRows
  <2>2. PICK x : x = [resetWorker[w] EXCEPT !.pc = "sending"]
    OBVIOUS
  <2>3. x \in Reset!Worker /\ x.pc = "sending" /\ x.link = resetWorker[w].link /\ x.to = resetWorker[w].to
    BY <2>2, ResetGotoValue DEF Reset!Open
  <2>4. /\ resetWorker' \in [ResetWorkers -> Reset!Worker] /\ resetWorker'[w] = x
        /\ \A v \in ResetWorkers \ {w} : resetWorker'[v] = resetWorker[v]
    BY <1>4, <2>2, <2>3, WorkerUpdate DEF Reset!Goto
  <2>5. \A v \in ResetWorkers \ {w} : resetWorker'[v].pc \notin Reset!Open
    BY <1>1, <2>4 DEF Reset!Locked
  <2>6. HolderOK(w)'
    BY <1>1, <1>4, <2>3, <2>4 DEF HolderOK, Reset!Current, Reset!Owns
  <2>7. \A v \in ResetWorkers : resetWorker'[v].pc # "idle" => resetWorker'[v].link \in Reset!Links
    BY <1>1, <2>3, <2>4 DEF ResetInv, Holders
  <2>8. Holders'
    BY <2>4, <2>5, <2>6, <2>7 DEF Holders
  <2>. QED
    BY <2>1, <2>8 DEF ResetInv
<1>5. CASE ~resetOpen \/ ~Reset!Current(w)
  BY <1>2, <1>3, <1>5 DEF Reset!Begin
<1>6. CASE resetOpen /\ Reset!Current(w)
  BY <1>2, <1>4, <1>6 DEF Reset!Begin
<1>. QED
  BY <1>5, <1>6

\* The holder of the locks may send its e-mail, and the link of an e-mail that
\* was not sent before is live.
LEMMA HolderMails ==
  ASSUME Reset!ResetAssumption, ResetInv, NEW w \in ResetWorkers, resetWorker[w].pc \in Reset!Open
  PROVE  /\ HolderOK(w) /\ Reset!Mail(w) \in ResetMails
         /\ Reset!Mail(w).to = resetUser.email /\ Reset!Mail(w).link = resetWorker[w].link
         /\ resetToken[resetWorker[w].link].state # "none"
         /\ Reset!Mail(w) \notin resetInbox => resetToken[resetWorker[w].link].state = "live"
<1>1. HolderOK(w) /\ resetWorker[w] \in Reset!Worker /\ ResetRowsOK
  BY DEF ResetInv, Holders, ResetWorld
<1>2. /\ resetWorker[w].link \in Reset!Links /\ resetWorker[w].to = resetUser.email /\ resetWorker[w].to \in ResetAddresses \cup {None}
      /\ resetRow[resetWorker[w].link].status \in Reset!Waiting
  BY <1>1 DEF HolderOK, Reset!Worker, Reset!Waiting
<1>3. Reset!Mail(w) = [link |-> resetWorker[w].link, to |-> resetUser.email]
  BY <1>2 DEF Reset!Mail
<1>4. Reset!Mail(w) \in ResetMails /\ Reset!Mail(w).to = resetUser.email /\ Reset!Mail(w).link = resetWorker[w].link
  BY <1>2, <1>3 DEF ResetMails
<1>5. /\ resetToken[resetWorker[w].link].state # "none"
      /\ resetToken[resetWorker[w].link].state = "live" \/ Reset!Mail(w) \in resetInbox
  BY <1>1, <1>2, <1>3 DEF ResetRowsOK
<1>. QED
  BY <1>1, <1>4, <1>5

LEMMA ResetSendStep ==
  ASSUME Reset!ResetAssumption, ResetInv, NEW w \in ResetWorkers, Reset!Send(w)
  PROVE  ResetInv'
<1>1. /\ resetWorker[w].pc \in Reset!Open /\ resetWorker[w].pc # "idle" /\ resetInbox' = resetInbox \cup {Reset!Mail(w)}
      /\ UNCHANGED <<resetOpen, resetAllowed, resetUser, resetToken, resetRow, resetSessions, resetRedeem>>
  BY DEF Reset!Send, Reset!Open
<1>2. ResetWorld'
  BY <1>1, HolderMails, Mailing
<1>3. PICK x : x = [resetWorker[w] EXCEPT !.pc = "accepted"]
  OBVIOUS
<1>4. x \in Reset!Worker /\ x.pc = "accepted" /\ x.link = resetWorker[w].link /\ x.to = resetWorker[w].to
  BY <1>3, ResetGotoValue DEF Reset!Open
<1>5. /\ resetWorker' \in [ResetWorkers -> Reset!Worker] /\ resetWorker'[w] = x
      /\ \A v \in ResetWorkers \ {w} : resetWorker'[v] = resetWorker[v]
  BY <1>3, <1>4, WorkerUpdate DEF Reset!Send, Reset!Goto
<1>6. \A v \in ResetWorkers : resetWorker'[v].pc # "idle" => resetWorker'[v].link \in Reset!Links
  BY <1>1, <1>4, <1>5 DEF ResetInv, Holders
<1>7. ASSUME NEW v \in ResetWorkers, resetWorker'[v].pc \in Reset!Open
      PROVE  /\ resetWorker[v].pc \in Reset!Open
             /\ resetWorker'[v].link = resetWorker[v].link /\ resetWorker'[v].to = resetWorker[v].to
             /\ resetRow'[resetWorker[v].link].status = resetRow[resetWorker[v].link].status
             /\ resetWorker'[v].pc = "accepted" => Reset!Mail(v)' \in resetInbox'
  <2>1. v = w
    BY <1>1, <1>5, <1>7 DEF ResetInv, Holders
  <2>2. Reset!Mail(w)' = Reset!Mail(w)
    BY <1>4, <1>5 DEF Reset!Mail
  <2>. QED
    BY <1>1, <1>4, <1>5, <2>1, <2>2
<1>8. Holders'
  BY <1>1, <1>5, <1>6, <1>7, ResetHeldStep
<1>. QED
  BY <1>2, <1>8 DEF ResetInv

\* One worker leaves what it was doing; the others stay.
LEMMA LeavingHolders ==
  ASSUME Reset!ResetAssumption, ResetInv, UNCHANGED <<resetOpen, resetUser>>, resetInbox \subseteq resetInbox',
         NEW w \in ResetWorkers, NEW x \in Reset!Worker, resetWorker' = [resetWorker EXCEPT ![w] = x],
         x.pc \notin Reset!Open, x.pc # "idle" => x.link \in Reset!Links,
         \A v \in ResetWorkers \ {w} : resetWorker[v].pc \in Reset!Open => resetRow'[resetWorker[v].link].status = resetRow[resetWorker[v].link].status
  PROVE  Holders'
<1>1. /\ resetWorker' \in [ResetWorkers -> Reset!Worker] /\ resetWorker'[w] = x
      /\ \A v \in ResetWorkers \ {w} : resetWorker'[v] = resetWorker[v]
  BY WorkerUpdate
<1>2. \A v \in ResetWorkers : resetWorker'[v].pc # "idle" => resetWorker'[v].link \in Reset!Links
  BY <1>1 DEF ResetInv, Holders
<1>3. ASSUME NEW v \in ResetWorkers, resetWorker'[v].pc \in Reset!Open
      PROVE  /\ resetWorker[v].pc \in Reset!Open
             /\ resetWorker'[v].link = resetWorker[v].link /\ resetWorker'[v].to = resetWorker[v].to
             /\ resetRow'[resetWorker[v].link].status = resetRow[resetWorker[v].link].status
             /\ resetWorker'[v].pc = "accepted" => Reset!Mail(v)' \in resetInbox'
  <2>1. v # w /\ resetWorker'[v] = resetWorker[v] /\ resetWorker[v].pc \in Reset!Open
    BY <1>1, <1>3
  <2>2. resetWorker[v].pc = "accepted" => Reset!Mail(v) \in resetInbox
    BY <2>1 DEF ResetInv, Holders, HolderOK
  <2>3. Reset!Mail(v)' = Reset!Mail(v)
    BY <2>1 DEF Reset!Mail
  <2>. QED
    BY <2>1, <2>2, <2>3
<1>. QED
  BY <1>1, <1>2, <1>3, ResetHeldStep

LEMMA FailingHolders ==
  ASSUME Reset!ResetAssumption, ResetInv, NEW w \in ResetWorkers, NEW p \in BOOLEAN, resetWorker[w].pc # "idle",
         resetWorker' = [resetWorker EXCEPT ![w].pc = "failing", ![w].permanent = p],
         resetInbox \subseteq resetInbox', UNCHANGED <<resetOpen, resetUser, resetRow>>
  PROVE  Holders'
<1>1. PICK x : x = [resetWorker[w] EXCEPT !.pc = "failing", !.permanent = p]
  OBVIOUS
<1>2. x \in Reset!Worker /\ x.pc = "failing" /\ x.link = resetWorker[w].link
  <2>1. resetWorker[w] \in Reset!Worker
    BY DEF ResetInv, Holders
  <2>. QED
    BY <1>1, <2>1 DEF Reset!Worker
<1>3. resetWorker' = [resetWorker EXCEPT ![w] = x] /\ resetWorker[w].link \in Reset!Links
  BY <1>1 DEF ResetInv, Holders
<1>. QED
  BY <1>2, <1>3, LeavingHolders DEF Reset!Open

LEMMA SendFailsStep ==
  ASSUME Reset!ResetAssumption, ResetInv, NEW w \in ResetWorkers, Reset!SendFails(w)
  PROVE  ResetInv'
<1>1. PICK p \in BOOLEAN : resetWorker' = [resetWorker EXCEPT ![w].pc = "failing", ![w].permanent = p]
  BY DEF Reset!SendFails
<1>2. /\ resetInbox' = resetInbox \/ resetInbox' = resetInbox \cup {Reset!Mail(w)}
      /\ resetWorker[w].pc \in Reset!Open /\ resetWorker[w].pc # "idle"
      /\ UNCHANGED <<resetOpen, resetAllowed, resetUser, resetToken, resetRow, resetSessions, resetRedeem>>
  BY DEF Reset!SendFails, Reset!Open
<1>3. ResetWorld'
  BY <1>2, HolderMails, Mailing, SameRows
<1>4. Holders'
  BY <1>1, <1>2, FailingHolders
<1>. QED
  BY <1>3, <1>4 DEF ResetInv

LEMMA ResetDeliverStep ==
  ASSUME Reset!ResetAssumption, ResetInv, NEW w \in ResetWorkers, Reset!Deliver(w)
  PROVE  ResetInv' /\ resetRow[resetWorker[w].link].status = "SENDING" /\ resetWorker[w].link \in Reset!Links /\ Reset!Mail(w) \in resetInbox
<1>1. /\ resetWorker[w].pc = "accepted" /\ resetWorker[w].pc \in Reset!Open /\ Reset!Return(w)
      /\ resetRow' = [resetRow EXCEPT ![resetWorker[w].link] = Reset!Ended(@, "DELIVERED")]
      /\ UNCHANGED <<resetOpen, resetAllowed, resetUser, resetToken, resetSessions, resetInbox, resetRedeem>>
  BY DEF Reset!Deliver, Reset!Open
<1>2. HolderOK(w)
  BY <1>1 DEF ResetInv, Holders
<1>3. ResetWorld'
  BY <1>1, <1>2, EndStep DEF HolderOK
<1>4. \A v \in ResetWorkers \ {w} : resetWorker[v].pc \notin Reset!Open
  BY <1>1 DEF ResetInv, Holders
<1>5. Holders'
  BY <1>1, <1>4, ResetValues, LeavingHolders DEF Reset!Return, Reset!Open
<1>. QED
  BY <1>1, <1>2, <1>3, <1>5 DEF ResetInv, HolderOK

LEMMA ResetMarkFailedStep ==
  ASSUME Reset!ResetAssumption, ResetInv, NEW w \in ResetWorkers, Reset!MarkFailed(w)
  PROVE  ResetInv'
<1>1. /\ resetRow \in [Reset!Links -> Reset!Row] /\ ~Reset!Locked /\ Reset!Return(w) /\ resetWorker[w].link \in Reset!Links
      /\ UNCHANGED <<resetOpen, resetAllowed, resetUser, resetToken, resetSessions, resetInbox, resetRedeem>>
  BY DEF Reset!MarkFailed, ResetInv, ResetWorld, WorldTypes, Holders
<1>2. Holders'
  BY <1>1, ReturnFree
<1>3. PICK n : n = resetWorker[w].link
  OBVIOUS
<1>4. CASE ~Reset!Owns(w)
  BY <1>1, <1>2, <1>4, SameRows DEF Reset!MarkFailed, ResetInv
<1>5. CASE Reset!Owns(w) /\ Reset!GivesUp(w)
  <2>1. resetRow' = [resetRow EXCEPT ![n] = Reset!Ended(@, "DEAD_LETTERED")]
    BY <1>3, <1>5 DEF Reset!MarkFailed
  <2>2. ResetWorld'
    BY <1>1, <1>3, <1>5, <2>1, EndStep DEF Reset!Owns
  <2>. QED
    BY <1>2, <2>2 DEF ResetInv
<1>6. CASE Reset!Owns(w) /\ ~Reset!GivesUp(w)
  <2>1. PICK r : r = [resetRow[n] EXCEPT !.status = "FAILED", !.lease = "none"]
    OBVIOUS
  <2>2. r \in Reset!Row /\ r.status = "FAILED" /\ r.lease = "none" /\ r.to = resetRow[n].to
    BY <1>1, <1>3, <2>1 DEF Reset!Row, Reset!Waiting
  <2>3. resetRow' = [resetRow EXCEPT ![n] = r] /\ resetRow[n].status \in Reset!Waiting
    BY <1>3, <1>6, <2>1 DEF Reset!MarkFailed, Reset!Owns, Reset!Waiting
  <2>4. ResetWorld'
    BY <1>1, <1>3, <2>2, <2>3, OneRowMoves
  <2>. QED
    BY <1>2, <2>4 DEF ResetInv
<1>. QED
  BY <1>4, <1>5, <1>6

LEMMA StrandedStep ==
  ASSUME Reset!ResetAssumption, ResetInv, NEW w \in ResetWorkers, Reset!TerminalizeStranded(w)
  PROVE  ResetInv'
<1>1. /\ resetRow \in [Reset!Links -> Reset!Row] /\ ~Reset!Locked /\ UNCHANGED resetWorker
      /\ UNCHANGED <<resetOpen, resetAllowed, resetUser, resetToken, resetSessions, resetInbox, resetRedeem>>
      /\ resetRow' = [n \in Reset!Links |-> IF Reset!Stranded(n) THEN Reset!Buried(resetRow[n]) ELSE resetRow[n]]
  BY DEF Reset!TerminalizeStranded, ResetInv, ResetWorld, WorldTypes
<1>2. RowsMove
  <2>1. \A n \in Reset!Links : resetRow'[n] = resetRow[n] \/ (resetRow[n].status \in Reset!Waiting /\ resetRow'[n] = Reset!Buried(resetRow[n]))
    BY <1>1 DEF Reset!Stranded
  <2>2. resetRow' \in [Reset!Links -> Reset!Row]
    BY <1>1, BuriedValue
  <2>. QED
    BY <1>1, <2>1, <2>2, BuriedValue DEF RowsMove, Reset!Waiting
<1>. QED
  BY <1>1, <1>2, RowsMoving, FreeStep DEF ResetInv

LEMMA ResetWorkerSteps ==
  ASSUME Reset!ResetAssumption, ResetInv, NEW w \in ResetWorkers, Reset!Step(w)
  PROVE  ResetInv'
<1>1. CASE Reset!DeliveryFails(w)
  <2>1. PICK p \in BOOLEAN : resetWorker' = [resetWorker EXCEPT ![w].pc = "failing", ![w].permanent = p]
    BY <1>1 DEF Reset!DeliveryFails
  <2>2. /\ resetWorker[w].pc # "idle"
        /\ UNCHANGED <<resetOpen, resetAllowed, resetUser, resetToken, resetRow, resetSessions, resetInbox, resetRedeem>>
    BY <1>1 DEF Reset!DeliveryFails, Reset!Open
  <2>. QED
    BY <2>1, <2>2, FailingHolders, SameRows DEF ResetInv
<1>2. CASE Reset!WorkerStops(w)
  <2>1. UNCHANGED <<resetOpen, resetAllowed, resetUser, resetToken, resetRow, resetSessions, resetInbox, resetRedeem>> /\ Reset!Return(w)
    BY <1>2 DEF Reset!WorkerStops
  <2>2. Holders'
    BY <2>1, ResetValues, LeavingHolders DEF Reset!Return, Reset!Open
  <2>. QED
    BY <2>1, <2>2, SameRows DEF ResetInv
<1>. QED
  BY <1>1, <1>2, ResetClaimStep, ResetBeginStep, ResetSendStep, SendFailsStep, ResetDeliverStep, ResetMarkFailedStep,
     StrandedStep DEF Reset!Step

LEMMA TimeStep ==
  ASSUME Reset!ResetAssumption, ResetInv, NEW n \in Reset!Links, Reset!LeaseEnds(n) \/ Reset!RetryDue(n)
  PROVE  ResetInv' /\ resetRow[n].status \in Reset!Waiting
<1>1. resetRow \in [Reset!Links -> Reset!Row] /\ ResetRowsOK
  BY DEF ResetInv, ResetWorld, WorldTypes
<1>2. UNCHANGED <<resetOpen, resetAllowed, resetUser, resetToken, resetSessions, resetInbox, resetWorker, resetRedeem>>
  BY DEF Reset!LeaseEnds, Reset!RetryDue
<1>3. PICK r \in Reset!Row : /\ resetRow' = [resetRow EXCEPT ![n] = r] /\ r.status = resetRow[n].status /\ r.to = resetRow[n].to
                             /\ resetRow[n].status \in Reset!Waiting /\ (r.status # "SENDING" => r.lease = "none")
  <2>1. CASE Reset!LeaseEnds(n)
    <3>1. PICK r : r = [resetRow[n] EXCEPT !.lease = "ended"]
      OBVIOUS
    <3>2. r \in Reset!Row /\ r.status = resetRow[n].status /\ r.to = resetRow[n].to
      BY <1>1, <3>1 DEF Reset!Row
    <3>3. resetRow' = [resetRow EXCEPT ![n] = r] /\ resetRow[n].status = "SENDING"
      BY <1>1, <2>1, <3>1 DEF Reset!LeaseEnds, ResetRowsOK
    <3>. QED
      BY <3>2, <3>3 DEF Reset!Waiting
  <2>2. CASE Reset!RetryDue(n)
    <3>1. PICK r : r = [resetRow[n] EXCEPT !.due = TRUE]
      OBVIOUS
    <3>2. r \in Reset!Row /\ r.status = resetRow[n].status /\ r.to = resetRow[n].to /\ r.lease = resetRow[n].lease
      BY <1>1, <3>1 DEF Reset!Row
    <3>3. resetRow' = [resetRow EXCEPT ![n] = r] /\ resetRow[n].status = "FAILED" /\ resetRow[n].lease = "none"
      BY <1>1, <2>2, <3>1 DEF Reset!RetryDue, ResetRowsOK
    <3>. QED
      BY <3>2, <3>3 DEF Reset!Waiting
  <2>. QED
    BY <2>1, <2>2
<1>4. ResetWorld'
  BY <1>2, <1>3, OneRowMoves DEF Reset!Waiting
<1>5. \A k \in Reset!Links : resetRow'[k].status = resetRow[k].status
  BY <1>1, <1>3
<1>6. \A v \in ResetWorkers : Reset!Mail(v)' = Reset!Mail(v)
  BY <1>2 DEF Reset!Mail
<1>7. Holders'
  <2>1. \A v \in ResetWorkers : resetWorker[v].pc \in Reset!Open => HolderOK(v)
    BY DEF ResetInv, Holders
  <2>2. \A v \in ResetWorkers : resetWorker'[v].pc \in Reset!Open =>
            /\ resetWorker[v].pc \in Reset!Open
            /\ resetWorker'[v].link = resetWorker[v].link /\ resetWorker'[v].to = resetWorker[v].to
            /\ resetRow'[resetWorker[v].link].status = resetRow[resetWorker[v].link].status
            /\ resetWorker'[v].pc = "accepted" => Reset!Mail(v)' \in resetInbox'
    BY <1>2, <1>5, <1>6, <2>1 DEF HolderOK
  <2>. QED
    BY <1>2, <2>2, ResetHeldStep DEF ResetInv, Holders
<1>. QED
  BY <1>3, <1>4, <1>7 DEF ResetInv

LEMMA UnlockedSteps ==
  ASSUME Reset!ResetAssumption, ResetInv,
         \/ \E n \in Reset!Links : Reset!CreatePasswordReset(n)
         \/ \E r \in ResetRedeemers : Reset!ResetPasswordWithToken(r)
         \/ Reset!SignIn
         \/ \E a \in ResetAddresses : Reset!ChangeEmail(a)
         \/ Reset!Suspend \/ Reset!Suppress \/ Reset!DeleteUser \/ Reset!ChangePolicy \/ Reset!ChangeTenant
  PROVE  ResetInv'
<1>1. ~Reset!Locked /\ UNCHANGED resetWorker
  BY DEF Reset!CreatePasswordReset, Reset!ResetPasswordWithToken, Reset!SignIn, Reset!ChangeEmail, Reset!Suspend, Reset!Suppress,
         Reset!DeleteUser, Reset!ChangePolicy, Reset!ChangeTenant
<1>2. Holders'
  BY <1>1, FreeStep
<1>3. /\ WorldTypes /\ Redeeming /\ Reset!SessionsFollowPassword /\ resetUser \in Reset!User /\ resetSessions \subseteq Reset!Passwords
      /\ resetOpen \in BOOLEAN /\ resetAllowed \in BOOLEAN
  BY DEF ResetInv, ResetWorld, WorldTypes
<1>4. \A r \in ResetRedeemers : resetRedeem[r] # None => \E m \in resetInbox : m.link = resetRedeem[r]
  BY <1>3 DEF Redeeming
<1>5. ASSUME UNCHANGED <<resetToken, resetRow, resetInbox, resetRedeem>>, resetOpen' \in BOOLEAN, resetAllowed' \in BOOLEAN,
             resetUser' \in Reset!User, resetUser'.email = resetUser.email, resetUser'.password = resetUser.password,
             resetSessions' \subseteq {resetUser.password}, resetSessions' \subseteq Reset!Passwords
      PROVE  ResetWorld'
  <2>1. resetRedeem' \in [ResetRedeemers -> Reset!Links \cup {None}]
    BY <1>3, <1>5 DEF WorldTypes
  <2>2. \A r \in ResetRedeemers : resetRedeem'[r] # None => \E m \in resetInbox : m.link = resetRedeem'[r]
    BY <1>4, <1>5
  <2>. QED
    BY <1>5, <2>1, <2>2, Staying
<1>6. CASE Reset!SignIn
  <2>1. resetUser.password \in Reset!Passwords
    BY <1>3, <1>6 DEF Reset!SignIn, Reset!CanRecover, Reset!User
  <2>2. resetSessions' \subseteq {resetUser.password} /\ resetSessions' \subseteq Reset!Passwords
    BY <1>3, <1>6, <2>1 DEF Reset!SignIn, Reset!SessionsFollowPassword
  <2>. QED
    BY <1>2, <1>3, <1>5, <1>6, <2>2 DEF Reset!SignIn, ResetInv
<1>7. CASE Reset!Suspend
  <2>1. resetUser' \in Reset!User /\ resetUser'.email = resetUser.email /\ resetUser'.password = resetUser.password
    BY <1>3, <1>7 DEF Reset!Suspend, Reset!User
  <2>. QED
    BY <1>2, <1>3, <1>5, <1>7, <2>1 DEF Reset!Suspend, ResetInv
<1>8. CASE Reset!Suppress
  <2>1. resetUser' \in Reset!User /\ resetUser'.email = resetUser.email /\ resetUser'.password = resetUser.password
    BY <1>3, <1>8 DEF Reset!Suppress, Reset!User
  <2>. QED
    BY <1>2, <1>3, <1>5, <1>8, <2>1 DEF Reset!Suppress, ResetInv, Reset!SessionsFollowPassword
<1>9. CASE Reset!ChangePolicy \/ Reset!ChangeTenant
  <2>1. /\ UNCHANGED <<resetToken, resetRow, resetInbox, resetRedeem, resetUser, resetSessions>>
        /\ resetOpen' \in BOOLEAN /\ resetAllowed' \in BOOLEAN
    BY <1>3, <1>9 DEF Reset!ChangePolicy, Reset!ChangeTenant
  <2>. QED
    BY <1>2, <1>3, <1>5, <2>1 DEF ResetInv, Reset!SessionsFollowPassword
<1>. QED
  BY <1>2, <1>6, <1>7, <1>8, <1>9, CreateStep, ResetStep, ChangeEmailStep, DeleteStep DEF ResetInv

LEMMA LocateStep ==
  ASSUME Reset!ResetAssumption, ResetInv, NEW r \in ResetRedeemers, NEW n \in Reset!Links, Reset!Locate(r, n)
  PROVE  ResetInv'
<1>1. /\ resetRedeem' = [resetRedeem EXCEPT ![r] = n] /\ \E m \in resetInbox : m.link = n
      /\ UNCHANGED <<resetOpen, resetAllowed, resetUser, resetToken, resetRow, resetSessions, resetInbox, resetWorker>>
  BY DEF Reset!Locate
<1>2. ResetWorld /\ WorldTypes
  BY DEF ResetInv, ResetWorld
<1>3. resetRedeem' \in [ResetRedeemers -> Reset!Links \cup {None}]
  BY <1>1, <1>2 DEF WorldTypes
<1>4. \A q \in ResetRedeemers : resetRedeem'[q] # None => \E m \in resetInbox : m.link = resetRedeem'[q]
  BY <1>1, <1>2 DEF ResetWorld, WorldTypes, Redeeming
<1>5. ResetWorld'
  BY <1>1, <1>2, <1>3, <1>4, Staying DEF ResetWorld, WorldTypes, Reset!SessionsFollowPassword
<1>6. Holders'
  BY <1>1 DEF ResetInv, Holders, HolderOK, Reset!Mail
<1>. QED
  BY <1>5, <1>6 DEF ResetInv

LEMMA ResetPreserved ==
  ASSUME Reset!ResetAssumption, ResetInv, [Reset!Next]_(Reset!prVars)
  PROVE  ResetInv'
<1>1. ASSUME NEW n \in Reset!Links, Reset!LinkExpires(n) PROVE ResetInv'
  <2>1. Holders'
    BY <1>1 DEF Reset!LinkExpires, ResetInv, Holders, HolderOK, Reset!Mail
  <2>. QED
    BY <1>1, <2>1, ExpireStep DEF ResetInv
<1>2. CASE UNCHANGED Reset!prVars
  <2>1. Holders'
    BY <1>2 DEF Reset!prVars, ResetInv, Holders, HolderOK, Reset!Mail
  <2>. QED
    BY <1>2, <2>1, SameRows DEF ResetInv, Reset!prVars
<1>. QED
  BY <1>1, <1>2, LocateStep, ResetWorkerSteps, TimeStep, UnlockedSteps DEF Reset!Next

LEMMA ResetStart ==
  ASSUME Reset!ResetAssumption, Reset!Init
  PROVE  ResetInv
<1>1. PICK a \in ResetAddresses :
         resetUser = [state |-> "active", email |-> a, suppressed |-> FALSE, password |-> 0]
  BY DEF Reset!Init
<1>2. resetUser \in Reset!User
  BY <1>1 DEF Reset!User, Reset!Passwords, Reset!ResetAssumption
<1>3. /\ resetToken \in [Reset!Links -> Reset!Token] /\ \A n \in Reset!Links : resetToken[n].state = "none"
  BY DEF Reset!Init, Reset!Token
<1>4. resetRow \in [Reset!Links -> Reset!Row] /\ \A n \in Reset!Links : resetRow[n].status = "NONE" /\ resetRow[n].lease = "none"
  BY ResetValues DEF Reset!Init
<1>5. resetWorker \in [ResetWorkers -> Reset!Worker] /\ \A w \in ResetWorkers : resetWorker[w].pc = "idle"
  BY ResetValues DEF Reset!Init
<1>6. ResetWorld
  BY <1>2, <1>3, <1>4
  DEF Reset!Init, ResetWorld, WorldTypes, Issued, ResetRowsOK, LiveMail, Redeeming, Reset!OnlyNewestLinkLives,
      Reset!SessionsFollowPassword, Reset!Waiting
<1>. QED
  BY <1>5, <1>6 DEF ResetInv, Holders, Reset!Open

-----------------------------------------------------------------------------
(* The theorems. *)

\* The inductive invariant holds in every reachable state.
THEOREM ResetInvariance ==
  ASSUME Reset!ResetAssumption
  PROVE  Reset!Spec => []ResetInv
<1>1. Reset!Init => ResetInv
  BY ResetStart
<1>2. ResetInv /\ [Reset!Next]_(Reset!prVars) => ResetInv'
  BY ResetPreserved
<1>. QED
  BY <1>1, <1>2, PTL DEF Reset!Spec

\* Every variable has its type; the attempts of a row stay within their budget.
THEOREM ResetTypeCorrect ==
  ASSUME Reset!ResetAssumption
  PROVE  Reset!Spec => []Reset!TypeOK
<1>1. ResetInv => Reset!TypeOK
  BY DEF ResetInv, ResetWorld, WorldTypes, Holders, Reset!TypeOK
<1>. QED
  BY <1>1, ResetInvariance, PTL

\* At most one link of the account can be redeemed, and it is the newest.
THEOREM OneLinkIsLive ==
  ASSUME Reset!ResetAssumption
  PROVE  Reset!Spec => []Reset!OnlyNewestLinkLives
<1>1. ResetInv => Reset!OnlyNewestLinkLives
  BY DEF ResetInv, ResetWorld
<1>. QED
  BY <1>1, ResetInvariance, PTL

\* No session opened with an earlier password outlives a reset.
THEOREM ResetEndsSessions ==
  ASSUME Reset!ResetAssumption
  PROVE  Reset!Spec => []Reset!SessionsFollowPassword
<1>1. ResetInv => Reset!SessionsFollowPassword
  BY DEF ResetInv, ResetWorld
<1>. QED
  BY <1>1, ResetInvariance, PTL

-----------------------------------------------------------------------------
(* What steps do. *)

LEMMA PasswordChanges ==
  ASSUME Reset!ResetAssumption, ResetInv, [Reset!Next]_(Reset!prVars)
  PROVE  Reset!PasswordStep
<1>1. ResetWorld /\ resetUser \in Reset!User /\ resetToken \in [Reset!Links -> Reset!Token] /\ resetRedeem \in [ResetRedeemers -> Reset!Links \cup {None}]
  BY DEF ResetInv, ResetWorld, WorldTypes
<1>2. ASSUME NEW r \in ResetRedeemers, Reset!ResetPasswordWithToken(r) PROVE Reset!PasswordStep
  <2>1. CASE Reset!CanRecover /\ Reset!Usable(resetRedeem[r])
    <3>1. PICK n : n = resetRedeem[r]
      OBVIOUS
    <3>2. n \in Reset!Links /\ Reset!Usable(n) /\ Reset!CanRecover /\ resetToken' = Reset!ConsumeAll
      BY <1>1, <1>2, <2>1, <3>1 DEF Reset!ResetPasswordWithToken
    <3>3. resetUser'.password = n
      BY <1>1, <1>2, <2>1, <3>1 DEF Reset!ResetPasswordWithToken, Reset!User
    <3>4. resetToken'[n].state = "consumed"
      BY <1>1, <3>2, ConsumeAllValue DEF Reset!Usable
    <3>5. Reset!Authorised(n)
      BY <1>1, <3>2, <3>4 DEF Reset!Authorised, Reset!Usable, Reset!CanRecover, ResetWorld, Reset!OnlyNewestLinkLives, LiveMail
    <3>. QED
      BY <3>3, <3>5 DEF Reset!PasswordStep
  <2>. QED
    BY <1>2, <2>1 DEF Reset!ResetPasswordWithToken, Reset!PasswordStep
<1>3. ASSUME NEW a \in ResetAddresses, Reset!ChangeEmail(a) PROVE Reset!PasswordStep
  BY <1>1, <1>3 DEF Reset!ChangeEmail, Reset!PasswordStep, Reset!User
<1>4. CASE Reset!Suspend \/ Reset!Suppress
  BY <1>1, <1>4 DEF Reset!Suspend, Reset!Suppress, Reset!PasswordStep, Reset!User
<1>5. CASE Reset!DeleteUser
  BY <1>5 DEF Reset!DeleteUser, Reset!PasswordStep
<1>6. ASSUME UNCHANGED resetUser PROVE Reset!PasswordStep
  BY <1>6 DEF Reset!PasswordStep
<1>7. ASSUME NEW w \in ResetWorkers, Reset!Step(w) PROVE Reset!PasswordStep
  BY <1>6, <1>7 DEF Reset!Step, Reset!Claim, Reset!Begin, Reset!Send, Reset!SendFails, Reset!Deliver, Reset!DeliveryFails, Reset!MarkFailed,
                    Reset!TerminalizeStranded, Reset!WorkerStops
<1>. QED
  BY <1>2, <1>3, <1>4, <1>5, <1>6, <1>7
  DEF Reset!Next, Reset!prVars, Reset!CreatePasswordReset, Reset!Locate, Reset!SignIn, Reset!LeaseEnds, Reset!RetryDue, Reset!LinkExpires,
      Reset!ChangePolicy, Reset!ChangeTenant

\* Whoever changes the password holds the newest, unspent, unexpired link, and
\* it was sent to the address the account has at that moment.
THEOREM ResetsAreAuthorised ==
  ASSUME Reset!ResetAssumption
  PROVE  Reset!Spec => Reset!ResetIsAuthorised
<1>1. ResetInv /\ [Reset!Next]_(Reset!prVars) => [Reset!PasswordStep]_(Reset!prVars)
  BY PasswordChanges
<1>. QED
  BY <1>1, ResetInvariance, PTL DEF Reset!Spec, Reset!ResetIsAuthorised

\* The first e-mail of a link reaches an account that may use it, while the
\* link has been neither spent nor superseded.
THEOREM ResetMailIsUseful ==
  ASSUME Reset!ResetAssumption
  PROVE  Reset!Spec => Reset!MailIsUseful
<1>1. ResetInv /\ [Reset!Next]_(Reset!prVars) => [Reset!MailStep]_(Reset!prVars)
  <2>1. ASSUME ResetInv, NEW w \in ResetWorkers, resetWorker[w].pc = "sending",
               resetInbox' = resetInbox \/ resetInbox' = resetInbox \cup {Reset!Mail(w)}
        PROVE  Reset!MailStep
    <3>1. resetWorker[w].pc \in Reset!Open
      BY <2>1 DEF Reset!Open
    <3>2. HolderOK(w)
      BY <2>1, <3>1, HolderMails
    <3>3. Reset!Mail(w).to = resetUser.email /\ (Reset!Mail(w) \notin resetInbox => resetToken[Reset!Mail(w).link].state = "live")
      BY <2>1, <3>1, HolderMails
    <3>. QED
      BY <2>1, <3>2, <3>3 DEF Reset!MailStep, HolderOK
  <2>2. ASSUME UNCHANGED resetInbox PROVE Reset!MailStep
    BY <2>2 DEF Reset!MailStep
  <2>3. ASSUME ResetInv, NEW w \in ResetWorkers, Reset!Step(w) PROVE Reset!MailStep
    <3>1. CASE Reset!Send(w) \/ Reset!SendFails(w)
      BY <2>1, <2>3, <3>1 DEF Reset!Send, Reset!SendFails
    <3>. QED
      BY <2>2, <2>3, <3>1 DEF Reset!Step, Reset!Claim, Reset!Begin, Reset!Deliver, Reset!DeliveryFails, Reset!MarkFailed,
                              Reset!TerminalizeStranded, Reset!WorkerStops
  <2>. QED
    BY <2>2, <2>3
    DEF Reset!Next, Reset!CreatePasswordReset, Reset!Locate, Reset!ResetPasswordWithToken, Reset!SignIn, Reset!LeaseEnds, Reset!RetryDue,
        Reset!LinkExpires, Reset!ChangeEmail, Reset!Suspend, Reset!Suppress, Reset!DeleteUser, Reset!ChangePolicy, Reset!ChangeTenant
<1>. QED
  BY <1>1, ResetInvariance, PTL DEF Reset!Spec, Reset!MailIsUseful

\* What a step does to one row.
ResetRowChange(n) ==
    \/ resetRow'[n] = resetRow[n]
    \/ resetRow'[n] = Reset!NoRow
    \/ resetRow[n].status \notin {"DELIVERED", "DEAD_LETTERED"} /\ resetRow'[n].status # "DELIVERED"
    \/ /\ resetRow[n].status \notin {"DELIVERED", "DEAD_LETTERED"}
       /\ \E m \in resetInbox : m.link = n

LEMMA ResetWorkerChanges ==
  ASSUME Reset!ResetAssumption, ResetInv, NEW w \in ResetWorkers, Reset!Step(w), NEW n \in Reset!Links
  PROVE  ResetRowChange(n)
<1>1. resetRow \in [Reset!Links -> Reset!Row]
  BY DEF ResetInv, ResetWorld, WorldTypes
<1>2. CASE resetRow' = [resetRow EXCEPT ![resetWorker[w].link] = Reset!Ended(@, "DEAD_LETTERED")] /\ Reset!Owns(w)
  BY <1>1, <1>2, ResetEndedValue DEF Reset!Owns, ResetRowChange
<1>3. CASE Reset!Claim(w)
  <2>1. CASE resetRow' = Reset!ClaimedFrom
    BY <1>1, <2>1, BuriedValue DEF Reset!ClaimedFrom, Reset!Due, ResetRowChange, Reset!Waiting
  <2>2. ASSUME NEW k \in Reset!Links, Reset!Claimable(k),
               resetRow' = [resetRow EXCEPT ![k].status = "SENDING", ![k].attempts = @ + 1,
                                            ![k].due = FALSE, ![k].lease = "live"]
        PROVE  ResetRowChange(n)
    <3>1. resetRow[k].status \in Reset!Waiting
      BY <2>2 DEF Reset!Claimable, Reset!ClaimedFrom, Reset!Due, Reset!Waiting
    <3>2. resetRow'[k].status = "SENDING" /\ \A j \in Reset!Links \ {k} : resetRow'[j] = resetRow[j]
      BY <1>1, <2>2 DEF Reset!Row
    <3>. QED
      BY <3>1, <3>2 DEF ResetRowChange, Reset!Waiting
  <2>. QED
    BY <1>3, <2>1, <2>2 DEF Reset!Claim
<1>4. CASE Reset!Begin(w)
  BY <1>2, <1>4 DEF Reset!Begin, ResetRowChange
<1>5. CASE Reset!Deliver(w)
  <2>1. resetRow[resetWorker[w].link].status = "SENDING" /\ resetWorker[w].link \in Reset!Links /\ Reset!Mail(w) \in resetInbox
    BY <1>5, ResetDeliverStep
  <2>2. Reset!Mail(w).link = resetWorker[w].link
    BY DEF Reset!Mail
  <2>. QED
    BY <1>1, <1>5, <2>1, <2>2 DEF Reset!Deliver, ResetRowChange
<1>6. CASE Reset!MarkFailed(w)
  <2>1. CASE Reset!Owns(w) /\ ~Reset!GivesUp(w)
    <3>1. resetWorker[w].link \in Reset!Links
      BY <1>6 DEF Reset!MarkFailed, ResetInv, Holders
    <3>2. resetRow'[resetWorker[w].link].status = "FAILED" /\ \A j \in Reset!Links \ {resetWorker[w].link} : resetRow'[j] = resetRow[j]
      BY <1>1, <1>6, <2>1, <3>1 DEF Reset!MarkFailed, Reset!Row
    <3>. QED
      BY <2>1, <3>2 DEF ResetRowChange, Reset!Owns
  <2>. QED
    BY <1>2, <1>6, <2>1 DEF Reset!MarkFailed, ResetRowChange
<1>7. CASE Reset!TerminalizeStranded(w)
  BY <1>1, <1>7, BuriedValue DEF Reset!TerminalizeStranded, Reset!Stranded, ResetRowChange, Reset!Waiting
<1>. QED
  BY <1>3, <1>4, <1>5, <1>6, <1>7 DEF Reset!Step, Reset!Send, Reset!SendFails, Reset!DeliveryFails, Reset!WorkerStops, ResetRowChange

\* A delivered row had its e-mail accepted; rows never leave a terminal state
\* but by the deletion of the account.
THEOREM ResetRowsEndForGood ==
  ASSUME Reset!ResetAssumption
  PROVE  Reset!Spec => Reset!DeliveredIsSent
<1>1. ASSUME ResetInv, [Reset!Next]_(Reset!prVars), NEW n \in Reset!Links PROVE ResetRowChange(n)
  <2>1. resetRow \in [Reset!Links -> Reset!Row] /\ resetToken \in [Reset!Links -> Reset!Token] /\ ResetWorld
    BY <1>1 DEF ResetInv, ResetWorld, WorldTypes
  <2>2. ASSUME NEW k \in Reset!Links, Reset!CreatePasswordReset(k) PROVE ResetRowChange(n)
    <3>1. PICK r : r = [Reset!NoRow EXCEPT !.status = "PENDING", !.due = TRUE, !.to = resetUser.email]
      OBVIOUS
    <3>2. r.status = "PENDING"
      BY <3>1 DEF Reset!NoRow
    <3>3. resetRow' = [Reset!BuryAll EXCEPT ![k] = r]
      BY <2>2, <3>1 DEF Reset!CreatePasswordReset
    <3>4. resetRow[k].status = "NONE"
      BY <2>1, <2>2 DEF Reset!CreatePasswordReset, ResetWorld, Issued
    <3>5. resetRow'[k] = r /\ \A j \in Reset!Links \ {k} : resetRow'[j] = Reset!BuryAll[j]
      BY <2>1, <3>3, BuryAllValue
    <3>. QED
      BY <2>1, <3>2, <3>4, <3>5, BuryAllValue DEF ResetRowChange, Reset!Waiting
  <2>3. ASSUME NEW k \in Reset!Links, Reset!LeaseEnds(k) \/ Reset!RetryDue(k) PROVE ResetRowChange(n)
    <3>1. resetRow[k].status \in Reset!Waiting
      BY <1>1, <2>3, TimeStep
    <3>2. resetRow'[k].status = resetRow[k].status /\ \A j \in Reset!Links \ {k} : resetRow'[j] = resetRow[j]
      BY <2>1, <2>3 DEF Reset!LeaseEnds, Reset!RetryDue, Reset!Row
    <3>. QED
      BY <3>1, <3>2 DEF ResetRowChange, Reset!Waiting
  <2>4. ASSUME NEW a \in ResetAddresses, Reset!ChangeEmail(a) PROVE ResetRowChange(n)
    BY <2>1, <2>4, BuryAllValue DEF Reset!ChangeEmail, ResetRowChange, Reset!Waiting
  <2>5. CASE Reset!DeleteUser
    BY <2>5 DEF Reset!DeleteUser, ResetRowChange
  <2>6. ASSUME UNCHANGED resetRow PROVE ResetRowChange(n)
    BY <2>6 DEF ResetRowChange
  <2>. QED
    BY <1>1, <2>2, <2>3, <2>4, <2>5, <2>6, ResetWorkerChanges
    DEF Reset!Next, Reset!prVars, Reset!Locate, Reset!ResetPasswordWithToken, Reset!SignIn, Reset!LinkExpires, Reset!Suspend, Reset!Suppress,
        Reset!ChangePolicy, Reset!ChangeTenant
<1>2. ASSUME ResetInv, [Reset!Next]_(Reset!prVars) PROVE Reset!RowStep
  <2>1. ASSUME NEW n \in Reset!Links, resetRow'[n] # resetRow[n]
        PROVE  /\ resetRow'[n].status = "DELIVERED" => \E m \in resetInbox : m.link = n
               /\ resetRow[n].status \in {"DELIVERED", "DEAD_LETTERED"} => resetRow'[n] = Reset!NoRow
    BY <1>1, <1>2, <2>1, ResetValues DEF ResetRowChange
  <2>. QED
    BY <2>1 DEF Reset!RowStep
<1>3. ResetInv /\ [Reset!Next]_(Reset!prVars) => [Reset!RowStep]_(Reset!prVars)
  BY <1>2
<1>. QED
  BY <1>3, ResetInvariance, PTL DEF Reset!Spec, Reset!DeliveredIsSent

\* A behaviour of the composition is one of this component.
LEMMA ResetRuns == MCSpec => Reset!Spec
<1>1. MCInit => Reset!Init
  BY DEF MCInit
<1>2. [MCNext]_mcVars => [Reset!Next]_(Reset!prVars)
  <2>1. UNCHANGED resetVars => UNCHANGED Reset!prVars
    BY DEF resetVars, Reset!prVars
  <2>2. [MCNext]_mcVars => Reset!Next \/ UNCHANGED resetVars
    BY DEF MCNext, mcVars
  <2> QED BY <2>1, <2>2
<1> QED BY <1>1, <1>2, PTL DEF MCSpec, Reset!Spec

\* Links sent by e-mail in the composition: at most one e-mail for a delivery of
\* an invitation, a row that can still be sent belongs to an employee who is still
\* to be invited, only the newest reset link can be redeemed, and every live
\* session was opened with the password the account has now.
THEOREM LinksAreSafe == MCSpec => []LinksSafe
<1>1. Invite!InvitationAssumption /\ Reset!ResetAssumption
  BY DeliveryAssumption
<1> QED
  BY <1>1, InviteRuns, ResetRuns, InvitationTypeCorrect, OneMailIsAccepted, LiveRowsAreWanted,
     ResetTypeCorrect, OneLinkIsLive, ResetEndsSessions, PTL DEF LinksSafe

LEMMA NotificationRuns == MCSpec => Spec
<1>1. MCInit => Init
  BY DEF MCInit
<1>2. [MCNext]_mcVars => [Next]_noVars
  BY DEF MCNext, mcVars
<1> QED BY <1>1, <1>2, PTL DEF MCSpec, Spec

\* E-mail of all three outboxes in the composition: it goes to the address the
\* recipient has and only under a current claim, a row is delivered only once its
\* e-mail is accepted or none is owed, it is given up only for a reason, a stale
\* worker changes nothing, and a reset link changes the password only while it
\* is the authorised one.  What is erased with an account or a tenant's data
\* stays erased.
THEOREM MailStepsHold == MCSpec => MailSteps
<1>1. Invite!InvitationAssumption /\ Reset!ResetAssumption
  BY DeliveryAssumption
<1> QED
  BY <1>1, NotificationRuns, InviteRuns, ResetRuns, MailIsAddressed, DeliveredMeansHandled,
     DeadLettersHaveReasons, ClaimsAreProtected, FeedSurvives, InvitationsReachEmployees,
     InvitationsEndForGood, InvitationClaimsAreProtected, ResetsAreAuthorised,
     ResetMailIsUseful, ResetRowsEndForGood, PTL DEF MailSteps

P1 == INSTANCE OperationsProofs WITH
    HookNoDelivery <- None, CardsCards <- None, CardsUsers <- None, CardsAmendments <-
    None, CardsNumPeriods <- None, CardsPeriodLength <- None, CardsMaxRevision <- None,
    cardsNow <- None, cardsEffective <- None, cardsPeriod <- None, cardsCard <- None,
    cardsDecision <- None, cardsAmendment <- None, cardsEntries <- None, EdtUsers <-
    None, EdtLocations <- None, EdtClients <- None, EdtNumSchedules <- None,
    EdtNumShifts <- None, EdtSlots <- None, EdtDemands <- None, EdtDays <- None,
    EdtDrafts <- None, EdtDayLength <- None, EdtLongShift <- None, EdtMaxHours <- None,
    EdtLimits <- None, EdtAvailable <- None, EdtScheduleCost <- None, EdtCredits <-
    None, EdtMaxEdits <- None, EdtMaxSwitches <- None, edtSchedule <- None, edtShift <-
    None, edtPerson <- None, edtClosed <- None, edtHooks <- None, edtCredits <- None,
    edtBoard <- None, edtContract <- None, edtSolve <- None, edtAnnounced <- None,
    edtEdition <- None, edtEdits <- None, edtSwitches <- None

P2 == INSTANCE OperationsProofs WITH
    HookEndpoints <- PairEndpoints, HookHandlers <- PairHandlers, HookSweeps <-
    PairSweeps, HookNoDelivery <- None, HookMaxAttempts <- PairMaxAttempts, HookCost <-
    PairCost, HookInitialCredits <- PairInitialCredits, HookMaxFaults <- PairMaxFaults,
    HookMaxSwitches <- PairMaxSwitches, hookPlan <- pairPlan, hookActive <- pairActive,
    hookCredits <- pairCredits, hookDebits <- pairDebits, hookRefunds <- pairRefunds,
    hookRow <- pairRow, hookQueue <- pairQueue, hookHandler <- pairHandler, hookSweep <-
    pairSweep, hookFaults <- pairFaults, hookSwitches <- pairSwitches, hookSends <-
    pairSends, hookAccepted <- pairAccepted, ExportProcs <- ExportsProcs, ExportNumJobs
    <- ExportsNumJobs, ExportTenants <- ExportsTenants, ExportTenantOf <-
    ExportsTenantOf, ExportMaxArtifact <- ExportsMaxArtifact, ExportSizes <-
    ExportsSizes, ExportGlobalQuota <- ExportsGlobalQuota, ExportTenantQuota <-
    ExportsTenantQuota, ExportMaxAttempts <- ExportsMaxAttempts, ExportMaxFaults <-
    ExportsMaxFaults, exportJob <- exportsJob, exportExpired <- exportsExpired,
    exportFiles <- exportsFiles, exportWhole <- exportsWhole, exportAged <- exportsAged,
    exportProc <- exportsProc, exportPurged <- exportsPurged, exportFaults <-
    exportsFaults, CardsCards <- None, CardsUsers <- None, CardsAmendments <- None,
    CardsNumPeriods <- None, CardsPeriodLength <- None, CardsMaxRevision <- None,
    cardsNow <- None, cardsEffective <- None, cardsPeriod <- None, cardsCard <- None,
    cardsDecision <- None, cardsAmendment <- None, cardsEntries <- None, EdtUsers <-
    None, EdtLocations <- None, EdtClients <- None, EdtNumSchedules <- None,
    EdtNumShifts <- None, EdtSlots <- None, EdtDemands <- None, EdtDays <- None,
    EdtDrafts <- None, EdtDayLength <- None, EdtLongShift <- None, EdtMaxHours <- None,
    EdtLimits <- None, EdtAvailable <- None, EdtScheduleCost <- None, EdtCredits <-
    None, EdtMaxEdits <- None, EdtMaxSwitches <- None, edtSchedule <- None, edtShift <-
    None, edtPerson <- None, edtClosed <- None, edtHooks <- None, edtCredits <- None,
    edtBoard <- None, edtContract <- None, edtSolve <- None, edtAnnounced <- None,
    edtEdition <- None, edtEdits <- None, edtSwitches <- None

\* The webhooks of the proofs is the one of the composition.
LEMMA HookSame ==
    /\ P1!Hook!WebhookAssumption <=> Hook!WebhookAssumption
    /\ P1!Hook!Init <=> Hook!Init
    /\ P1!Hook!Next <=> Hook!Next
    /\ P1!Hook!TypeOK <=> Hook!TypeOK
    /\ P1!Hook!PaidDelivery <=> Hook!PaidDelivery
    /\ P1!Hook!SendsAreClaimed <=> Hook!SendsAreClaimed
    /\ P1!Hook!DeliveredWasAccepted <=> Hook!DeliveredWasAccepted
    /\ P1!Hook!whVars = Hook!whVars
<1>1. P1!Hook!WebhookAssumption <=> Hook!WebhookAssumption
  BY Zenon DEF P1!Hook!WebhookAssumption, Hook!WebhookAssumption, P1!Hook!IsFiniteSet,
     Hook!IsFiniteSet
<1>2. P1!Hook!Init <=> Hook!Init
  BY Zenon DEF P1!Hook!Init, Hook!Init, P1!Hook!NoRow, Hook!NoRow, P1!Hook!IdleHandler,
     Hook!IdleHandler, P1!Hook!IdleSweep, Hook!IdleSweep
<1>3. P1!Hook!Next <=> Hook!Next
  BY Zenon DEF P1!Hook!Next, Hook!Next, P1!Hook!ApiStep, Hook!ApiStep, P1!Hook!HandlerStep,
     Hook!HandlerStep, P1!Hook!HandlerFault, Hook!HandlerFault, P1!Hook!SweepStep,
     Hook!SweepStep, P1!Hook!SweepFault, Hook!SweepFault, P1!Hook!TimeStep, Hook!TimeStep,
     P1!Hook!LeaseEndsEarly, Hook!LeaseEndsEarly, P1!Hook!BrokerLoses, Hook!BrokerLoses,
     P1!Hook!EnqueueEvent, Hook!EnqueueEvent, P1!Hook!SetEndpointActive, Hook!SetEndpointActive,
     P1!Hook!ChangePlan, Hook!ChangePlan, P1!Hook!CloseAccount, Hook!CloseAccount,
     P1!Hook!Receive, Hook!Receive, P1!Hook!Claim, Hook!Claim, P1!Hook!ValidateAuthority,
     Hook!ValidateAuthority, P1!Hook!Send, Hook!Send, P1!Hook!MarkDelivered, Hook!MarkDelivered,
     P1!Hook!MarkReplayFailed, Hook!MarkReplayFailed, P1!Hook!DeadLetter, Hook!DeadLetter,
     P1!Hook!Republish, Hook!Republish, P1!Hook!RecordQueued, Hook!RecordQueued,
     P1!Hook!AnswerLost, Hook!AnswerLost, P1!Hook!StoreRaises, Hook!StoreRaises,
     P1!Hook!DeadLetterFails, Hook!DeadLetterFails, P1!Hook!RepublishFails, Hook!RepublishFails,
     P1!Hook!RecordQueuedFails, Hook!RecordQueuedFails, P1!Hook!HandlerStops, Hook!HandlerStops,
     P1!Hook!SweepClaim, Hook!SweepClaim, P1!Hook!SweepPublish, Hook!SweepPublish,
     P1!Hook!SweepMarkQueued, Hook!SweepMarkQueued, P1!Hook!SweepPublishFails,
     Hook!SweepPublishFails, P1!Hook!SweepStops, Hook!SweepStops, P1!Hook!BecomesDue,
     Hook!BecomesDue, P1!Hook!LeaseEnds, Hook!LeaseEnds, P1!Hook!AtWork, Hook!AtWork,
     P1!Hook!Ages, Hook!Ages, P1!Hook!Fault, Hook!Fault, P1!Hook!moneyVars, Hook!moneyVars,
     P1!Hook!historyVars, Hook!historyVars, P1!Hook!NoRow, Hook!NoRow, P1!Hook!bounds,
     Hook!bounds, P1!Hook!Switch, Hook!Switch, P1!Hook!Open, Hook!Open, P1!Hook!PaidAuthority,
     Hook!PaidAuthority, P1!Hook!Ack, Hook!Ack, P1!Hook!Claimable, Hook!Claimable, P1!Hook!Put,
     Hook!Put, P1!Hook!DeadRow, Hook!DeadRow, P1!Hook!Refund, Hook!Refund, P1!Hook!Exhausted,
     Hook!Exhausted, P1!Hook!HasRetryTime, Hook!HasRetryTime, P1!Hook!Goto, Hook!Goto,
     P1!Hook!OwnsAttempt, Hook!OwnsAttempt, P1!Hook!Nack, Hook!Nack, P1!Hook!LastAttempt,
     Hook!LastAttempt, P1!Hook!CanSettle, Hook!CanSettle, P1!Hook!MustRepublish,
     Hook!MustRepublish, P1!Hook!Enqueue, Hook!Enqueue, P1!Hook!Queued, Hook!Queued,
     P1!Hook!Recoverable, Hook!Recoverable, P1!Hook!IdleSweep, Hook!IdleSweep,
     P1!Hook!Replayable, Hook!Replayable, P1!Hook!IdleHandler, Hook!IdleHandler,
     P1!Hook!Cardinality, Hook!Cardinality
<1>4. P1!Hook!TypeOK <=> Hook!TypeOK
  BY Zenon DEF P1!Hook!TypeOK, Hook!TypeOK, P1!Hook!Row, Hook!Row, P1!Hook!Handler,
     Hook!Handler, P1!Hook!Sweep, Hook!Sweep, P1!Hook!Open, Hook!Open, P1!Hook!Ended,
     Hook!Ended, P1!Hook!HandlerPC, Hook!HandlerPC, P1!Hook!Replayable, Hook!Replayable
<1>5. P1!Hook!PaidDelivery <=> Hook!PaidDelivery
  BY Zenon DEF P1!Hook!PaidDelivery, Hook!PaidDelivery, P1!Hook!Cardinality, Hook!Cardinality
<1>6. P1!Hook!SendsAreClaimed <=> Hook!SendsAreClaimed
  BY Zenon DEF P1!Hook!SendsAreClaimed, Hook!SendsAreClaimed
<1>7. P1!Hook!DeliveredWasAccepted <=> Hook!DeliveredWasAccepted
  BY Zenon DEF P1!Hook!DeliveredWasAccepted, Hook!DeliveredWasAccepted
<1>8. P1!Hook!whVars = Hook!whVars
  BY Zenon DEF P1!Hook!whVars, Hook!whVars
<1> QED BY <1>1, <1>2, <1>3, <1>4, <1>5, <1>6, <1>7, <1>8

LEMMA HookRuns == MCSpec => P1!Hook!Spec
<1>1. MCInit => P1!Hook!Init
  BY HookSame DEF MCInit
<1>2. [MCNext]_mcVars => [P1!Hook!Next]_(P1!Hook!whVars)
  <2>1. UNCHANGED hookVars => UNCHANGED P1!Hook!whVars
    BY DEF hookVars, P1!Hook!whVars
  <2>2. [MCNext]_mcVars => Hook!Next \/ UNCHANGED hookVars
    BY DEF MCNext, mcVars
  <2> QED BY <2>1, <2>2, HookSame
<1> QED BY <1>1, <1>2, PTL DEF MCSpec, P1!Hook!Spec

\* The webhooks of the proofs is the one of the composition.
LEMMA HookPairSame ==
    /\ P2!Hook!WebhookAssumption <=> HookPair!WebhookAssumption
    /\ P2!Hook!Init <=> HookPair!Init
    /\ P2!Hook!Next <=> HookPair!Next
    /\ P2!Hook!TypeOK <=> HookPair!TypeOK
    /\ P2!Hook!PaidDelivery <=> HookPair!PaidDelivery
    /\ P2!Hook!whVars = HookPair!whVars
<1>1. P2!Hook!WebhookAssumption <=> HookPair!WebhookAssumption
  BY Zenon DEF P2!Hook!WebhookAssumption, HookPair!WebhookAssumption, P2!Hook!IsFiniteSet,
     HookPair!IsFiniteSet
<1>2. P2!Hook!Init <=> HookPair!Init
  BY Zenon DEF P2!Hook!Init, HookPair!Init, P2!Hook!NoRow, HookPair!NoRow, P2!Hook!IdleHandler,
     HookPair!IdleHandler, P2!Hook!IdleSweep, HookPair!IdleSweep
<1>3. P2!Hook!Next <=> HookPair!Next
  BY Zenon DEF P2!Hook!Next, HookPair!Next, P2!Hook!ApiStep, HookPair!ApiStep,
     P2!Hook!HandlerStep, HookPair!HandlerStep, P2!Hook!HandlerFault, HookPair!HandlerFault,
     P2!Hook!SweepStep, HookPair!SweepStep, P2!Hook!SweepFault, HookPair!SweepFault,
     P2!Hook!TimeStep, HookPair!TimeStep, P2!Hook!LeaseEndsEarly, HookPair!LeaseEndsEarly,
     P2!Hook!BrokerLoses, HookPair!BrokerLoses, P2!Hook!EnqueueEvent, HookPair!EnqueueEvent,
     P2!Hook!SetEndpointActive, HookPair!SetEndpointActive, P2!Hook!ChangePlan,
     HookPair!ChangePlan, P2!Hook!CloseAccount, HookPair!CloseAccount, P2!Hook!Receive,
     HookPair!Receive, P2!Hook!Claim, HookPair!Claim, P2!Hook!ValidateAuthority,
     HookPair!ValidateAuthority, P2!Hook!Send, HookPair!Send, P2!Hook!MarkDelivered,
     HookPair!MarkDelivered, P2!Hook!MarkReplayFailed, HookPair!MarkReplayFailed,
     P2!Hook!DeadLetter, HookPair!DeadLetter, P2!Hook!Republish, HookPair!Republish,
     P2!Hook!RecordQueued, HookPair!RecordQueued, P2!Hook!AnswerLost, HookPair!AnswerLost,
     P2!Hook!StoreRaises, HookPair!StoreRaises, P2!Hook!DeadLetterFails,
     HookPair!DeadLetterFails, P2!Hook!RepublishFails, HookPair!RepublishFails,
     P2!Hook!RecordQueuedFails, HookPair!RecordQueuedFails, P2!Hook!HandlerStops,
     HookPair!HandlerStops, P2!Hook!SweepClaim, HookPair!SweepClaim, P2!Hook!SweepPublish,
     HookPair!SweepPublish, P2!Hook!SweepMarkQueued, HookPair!SweepMarkQueued,
     P2!Hook!SweepPublishFails, HookPair!SweepPublishFails, P2!Hook!SweepStops,
     HookPair!SweepStops, P2!Hook!BecomesDue, HookPair!BecomesDue, P2!Hook!LeaseEnds,
     HookPair!LeaseEnds, P2!Hook!AtWork, HookPair!AtWork, P2!Hook!Ages, HookPair!Ages,
     P2!Hook!Fault, HookPair!Fault, P2!Hook!moneyVars, HookPair!moneyVars, P2!Hook!historyVars,
     HookPair!historyVars, P2!Hook!NoRow, HookPair!NoRow, P2!Hook!bounds, HookPair!bounds,
     P2!Hook!Switch, HookPair!Switch, P2!Hook!Open, HookPair!Open, P2!Hook!PaidAuthority,
     HookPair!PaidAuthority, P2!Hook!Ack, HookPair!Ack, P2!Hook!Claimable, HookPair!Claimable,
     P2!Hook!Put, HookPair!Put, P2!Hook!DeadRow, HookPair!DeadRow, P2!Hook!Refund,
     HookPair!Refund, P2!Hook!Exhausted, HookPair!Exhausted, P2!Hook!HasRetryTime,
     HookPair!HasRetryTime, P2!Hook!Goto, HookPair!Goto, P2!Hook!OwnsAttempt,
     HookPair!OwnsAttempt, P2!Hook!Nack, HookPair!Nack, P2!Hook!LastAttempt,
     HookPair!LastAttempt, P2!Hook!CanSettle, HookPair!CanSettle, P2!Hook!MustRepublish,
     HookPair!MustRepublish, P2!Hook!Enqueue, HookPair!Enqueue, P2!Hook!Queued, HookPair!Queued,
     P2!Hook!Recoverable, HookPair!Recoverable, P2!Hook!IdleSweep, HookPair!IdleSweep,
     P2!Hook!Replayable, HookPair!Replayable, P2!Hook!IdleHandler, HookPair!IdleHandler,
     P2!Hook!Cardinality, HookPair!Cardinality
<1>4. P2!Hook!TypeOK <=> HookPair!TypeOK
  BY Zenon DEF P2!Hook!TypeOK, HookPair!TypeOK, P2!Hook!Row, HookPair!Row, P2!Hook!Handler,
     HookPair!Handler, P2!Hook!Sweep, HookPair!Sweep, P2!Hook!Open, HookPair!Open,
     P2!Hook!Ended, HookPair!Ended, P2!Hook!HandlerPC, HookPair!HandlerPC, P2!Hook!Replayable,
     HookPair!Replayable
<1>5. P2!Hook!PaidDelivery <=> HookPair!PaidDelivery
  BY Zenon DEF P2!Hook!PaidDelivery, HookPair!PaidDelivery, P2!Hook!Cardinality,
     HookPair!Cardinality
<1>6. P2!Hook!whVars = HookPair!whVars
  BY Zenon DEF P2!Hook!whVars, HookPair!whVars
<1> QED BY <1>1, <1>2, <1>3, <1>4, <1>5, <1>6

LEMMA HookPairRuns == MCSpec => P2!Hook!Spec
<1>1. MCInit => P2!Hook!Init
  BY HookPairSame DEF MCInit
<1>2. [MCNext]_mcVars => [P2!Hook!Next]_(P2!Hook!whVars)
  <2>1. UNCHANGED pairVars => UNCHANGED P2!Hook!whVars
    BY DEF pairVars, P2!Hook!whVars
  <2>2. [MCNext]_mcVars => HookPair!Next \/ UNCHANGED pairVars
    BY DEF MCNext, mcVars
  <2> QED BY <2>1, <2>2, HookPairSame
<1> QED BY <1>1, <1>2, PTL DEF MCSpec, P2!Hook!Spec

\* Webhooks in the composition: a request goes out only for a delivery claimed
\* for that attempt, a delivery is DELIVERED only after its receiver accepted
\* it, and the wallet holds what it held, less one debit for every delivery
\* that is under way or was made.
THEOREM WebhooksAreSafe == MCSpec => []WebhookSafe
<1>1. P1!Hook!WebhookAssumption /\ P2!Hook!WebhookAssumption
  BY DeliveryAssumption, HookSame, HookPairSame
<1>2. P1!Hook!Spec => []P1!Hook!TypeOK
  BY <1>1, P1!WebhookTypeCorrect
<1>3. P1!Hook!Spec => []P1!Hook!SendsAreClaimed
  BY <1>1, P1!RequestsAreClaimed
<1>4. P1!Hook!Spec => []P1!Hook!DeliveredWasAccepted
  BY <1>1, P1!DeliveriesWereAccepted
<1>5. P1!Hook!Spec => []P1!Hook!PaidDelivery
  BY <1>1, P1!DeliveriesArePaid
<1>6. P2!Hook!Spec => []P2!Hook!TypeOK
  BY <1>1, P2!WebhookTypeCorrect
<1>7. P2!Hook!Spec => []P2!Hook!PaidDelivery
  BY <1>1, P2!DeliveriesArePaid
<1>8. P1!Hook!TypeOK /\ P1!Hook!SendsAreClaimed /\ P1!Hook!DeliveredWasAccepted /\
         P1!Hook!PaidDelivery /\ P2!Hook!TypeOK /\ P2!Hook!PaidDelivery => WebhookSafe
  BY HookSame, HookPairSame DEF WebhookSafe
<1> QED
  BY <1>2, <1>3, <1>4, <1>5, <1>6, <1>7, <1>8, HookRuns, HookPairRuns, PTL

\* The exports of the proofs is the one of the composition.
LEMMA ExportSame ==
    /\ P1!Export!ExportAssumption <=> Export!ExportAssumption
    /\ P1!Export!Init <=> Export!Init
    /\ P1!Export!Next <=> Export!Next
    /\ P1!Export!TypeOK <=> Export!TypeOK
    /\ P1!Export!QuotaHolds <=> Export!QuotaHolds
    /\ P1!Export!ReadyIsWhole <=> Export!ReadyIsWhole
    /\ P1!Export!exportVars = Export!exportVars
<1>1. P1!Export!ExportAssumption <=> Export!ExportAssumption
  BY Zenon DEF P1!Export!ExportAssumption, Export!ExportAssumption, P1!Export!Jobs, Export!Jobs
<1>2. P1!Export!Init <=> Export!Init
  BY Zenon DEF P1!Export!Init, Export!Init, P1!Export!Jobs, Export!Jobs, P1!Export!NoJob,
     Export!NoJob, P1!Export!Idle, Export!Idle
<1>3. P1!Export!Next <=> Export!Next
  BY Zenon DEF P1!Export!Next, Export!Next, P1!Export!Jobs, Export!Jobs, P1!Export!Start,
     Export!Start, P1!Export!Expire, Export!Expire, P1!Export!LeaseLapses, Export!LeaseLapses,
     P1!Export!CleanupLeaseLapses, Export!CleanupLeaseLapses, P1!Export!Claim, Export!Claim,
     P1!Export!CleanFails, Export!CleanFails, P1!Export!Work, Export!Work,
     P1!Export!ClaimCleanup, Export!ClaimCleanup, P1!Export!GenerationFails,
     Export!GenerationFails, P1!Export!Crash, Export!Crash, P1!Export!Age, Export!Age,
     P1!Export!Purge, Export!Purge, P1!Export!Active, Export!Active, P1!Export!Busy,
     Export!Busy, P1!Export!Fault, Export!Fault, P1!Export!QuotaFree, Export!QuotaFree,
     P1!Export!Claimable, Export!Claimable, P1!Export!QuotaAvailable, Export!QuotaAvailable,
     P1!Export!Idle, Export!Idle, P1!Export!CleanupOwned, Export!CleanupOwned, P1!Export!Begin,
     Export!Begin, P1!Export!Lock, Export!Lock, P1!Export!Heartbeat, Export!Heartbeat,
     P1!Export!UpdateProgress, Export!UpdateProgress, P1!Export!CloseWriter, Export!CloseWriter,
     P1!Export!RenewLease, Export!RenewLease, P1!Export!Rename, Export!Rename,
     P1!Export!Finalize, Export!Finalize, P1!Export!MarkForCleanup, Export!MarkForCleanup,
     P1!Export!CleanFinal, Export!CleanFinal, P1!Export!CleanPart, Export!CleanPart,
     P1!Export!SweepRead, Export!SweepRead, P1!Export!SweepOrphans, Export!SweepOrphans,
     P1!Export!CleanupDue, Export!CleanupDue, P1!Export!JobFree, Export!JobFree,
     P1!Export!CleanupClaimed, Export!CleanupClaimed, P1!Export!Empty, Export!Empty,
     P1!Export!Go, Export!Go, P1!Export!NoJob, Export!NoJob, P1!Export!UsedByOthers,
     Export!UsedByOthers, P1!Export!Mine, Export!Mine, P1!Export!File, Export!File,
     P1!Export!RowFree, Export!RowFree, P1!Export!Renewable, Export!Renewable,
     P1!Export!Finalizable, Export!Finalizable, P1!Export!Finalized, Export!Finalized,
     P1!Export!ProtectedEntries, Export!ProtectedEntries, P1!Export!Used, Export!Used,
     P1!Export!ProtectedKeys, Export!ProtectedKeys, P1!Export!FilesOf, Export!FilesOf,
     P1!Export!Booked, Export!Booked, P1!Export!Cardinality, Export!Cardinality
<1>4. P1!Export!TypeOK <=> Export!TypeOK
  BY Zenon DEF P1!Export!TypeOK, Export!TypeOK, P1!Export!Jobs, Export!Jobs
<1>5. P1!Export!QuotaHolds <=> Export!QuotaHolds
  BY Zenon DEF P1!Export!QuotaHolds, Export!QuotaHolds, P1!Export!Used, Export!Used,
     P1!Export!Jobs, Export!Jobs, P1!Export!Booked, Export!Booked, P1!Export!Cardinality,
     Export!Cardinality
<1>6. P1!Export!ReadyIsWhole <=> Export!ReadyIsWhole
  BY Zenon DEF P1!Export!ReadyIsWhole, Export!ReadyIsWhole, P1!Export!Jobs, Export!Jobs,
     P1!Export!File, Export!File
<1>7. P1!Export!exportVars = Export!exportVars
  BY Zenon DEF P1!Export!exportVars, Export!exportVars
<1> QED BY <1>1, <1>2, <1>3, <1>4, <1>5, <1>6, <1>7

LEMMA ExportRuns == MCSpec => P1!Export!Spec
<1>1. MCInit => P1!Export!Init
  BY ExportSame DEF MCInit
<1>2. [MCNext]_mcVars => [P1!Export!Next]_(P1!Export!exportVars)
  <2>1. UNCHANGED exportVars => UNCHANGED P1!Export!exportVars
    BY DEF exportVars, P1!Export!exportVars
  <2>2. [MCNext]_mcVars => Export!Next \/ UNCHANGED exportVars
    BY DEF MCNext, mcVars
  <2> QED BY <2>1, <2>2, ExportSame
<1> QED BY <1>1, <1>2, PTL DEF MCSpec, P1!Export!Spec

\* The exports of the proofs is the one of the composition.
LEMMA ExportsSame ==
    /\ P2!Export!ExportAssumption <=> Exports!ExportAssumption
    /\ P2!Export!Init <=> Exports!Init
    /\ P2!Export!Next <=> Exports!Next
    /\ P2!Export!TypeOK <=> Exports!TypeOK
    /\ P2!Export!QuotaHolds <=> Exports!QuotaHolds
    /\ P2!Export!ReadyIsWhole <=> Exports!ReadyIsWhole
    /\ P2!Export!exportVars = Exports!exportVars
<1>1. P2!Export!ExportAssumption <=> Exports!ExportAssumption
  BY Zenon DEF P2!Export!ExportAssumption, Exports!ExportAssumption, P2!Export!Jobs,
     Exports!Jobs
<1>2. P2!Export!Init <=> Exports!Init
  BY Zenon DEF P2!Export!Init, Exports!Init, P2!Export!Jobs, Exports!Jobs, P2!Export!NoJob,
     Exports!NoJob, P2!Export!Idle, Exports!Idle
<1>3. P2!Export!Next <=> Exports!Next
  BY Zenon DEF P2!Export!Next, Exports!Next, P2!Export!Jobs, Exports!Jobs, P2!Export!Start,
     Exports!Start, P2!Export!Expire, Exports!Expire, P2!Export!LeaseLapses,
     Exports!LeaseLapses, P2!Export!CleanupLeaseLapses, Exports!CleanupLeaseLapses,
     P2!Export!Claim, Exports!Claim, P2!Export!CleanFails, Exports!CleanFails, P2!Export!Work,
     Exports!Work, P2!Export!ClaimCleanup, Exports!ClaimCleanup, P2!Export!GenerationFails,
     Exports!GenerationFails, P2!Export!Crash, Exports!Crash, P2!Export!Age, Exports!Age,
     P2!Export!Purge, Exports!Purge, P2!Export!Active, Exports!Active, P2!Export!Busy,
     Exports!Busy, P2!Export!Fault, Exports!Fault, P2!Export!QuotaFree, Exports!QuotaFree,
     P2!Export!Claimable, Exports!Claimable, P2!Export!QuotaAvailable, Exports!QuotaAvailable,
     P2!Export!Idle, Exports!Idle, P2!Export!CleanupOwned, Exports!CleanupOwned,
     P2!Export!Begin, Exports!Begin, P2!Export!Lock, Exports!Lock, P2!Export!Heartbeat,
     Exports!Heartbeat, P2!Export!UpdateProgress, Exports!UpdateProgress, P2!Export!CloseWriter,
     Exports!CloseWriter, P2!Export!RenewLease, Exports!RenewLease, P2!Export!Rename,
     Exports!Rename, P2!Export!Finalize, Exports!Finalize, P2!Export!MarkForCleanup,
     Exports!MarkForCleanup, P2!Export!CleanFinal, Exports!CleanFinal, P2!Export!CleanPart,
     Exports!CleanPart, P2!Export!SweepRead, Exports!SweepRead, P2!Export!SweepOrphans,
     Exports!SweepOrphans, P2!Export!CleanupDue, Exports!CleanupDue, P2!Export!JobFree,
     Exports!JobFree, P2!Export!CleanupClaimed, Exports!CleanupClaimed, P2!Export!Empty,
     Exports!Empty, P2!Export!Go, Exports!Go, P2!Export!NoJob, Exports!NoJob,
     P2!Export!UsedByOthers, Exports!UsedByOthers, P2!Export!Mine, Exports!Mine, P2!Export!File,
     Exports!File, P2!Export!RowFree, Exports!RowFree, P2!Export!Renewable, Exports!Renewable,
     P2!Export!Finalizable, Exports!Finalizable, P2!Export!Finalized, Exports!Finalized,
     P2!Export!ProtectedEntries, Exports!ProtectedEntries, P2!Export!Used, Exports!Used,
     P2!Export!ProtectedKeys, Exports!ProtectedKeys, P2!Export!FilesOf, Exports!FilesOf,
     P2!Export!Booked, Exports!Booked, P2!Export!Cardinality, Exports!Cardinality
<1>4. P2!Export!TypeOK <=> Exports!TypeOK
  BY Zenon DEF P2!Export!TypeOK, Exports!TypeOK, P2!Export!Jobs, Exports!Jobs
<1>5. P2!Export!QuotaHolds <=> Exports!QuotaHolds
  BY Zenon DEF P2!Export!QuotaHolds, Exports!QuotaHolds, P2!Export!Used, Exports!Used,
     P2!Export!Jobs, Exports!Jobs, P2!Export!Booked, Exports!Booked, P2!Export!Cardinality,
     Exports!Cardinality
<1>6. P2!Export!ReadyIsWhole <=> Exports!ReadyIsWhole
  BY Zenon DEF P2!Export!ReadyIsWhole, Exports!ReadyIsWhole, P2!Export!Jobs, Exports!Jobs,
     P2!Export!File, Exports!File
<1>7. P2!Export!exportVars = Exports!exportVars
  BY Zenon DEF P2!Export!exportVars, Exports!exportVars
<1> QED BY <1>1, <1>2, <1>3, <1>4, <1>5, <1>6, <1>7

LEMMA ExportsRuns == MCSpec => P2!Export!Spec
<1>1. MCInit => P2!Export!Init
  BY ExportsSame DEF MCInit
<1>2. [MCNext]_mcVars => [P2!Export!Next]_(P2!Export!exportVars)
  <2>1. UNCHANGED exportsVars => UNCHANGED P2!Export!exportVars
    BY DEF exportsVars, P2!Export!exportVars
  <2>2. [MCNext]_mcVars => Exports!Next \/ UNCHANGED exportsVars
    BY DEF MCNext, mcVars
  <2> QED BY <2>1, <2>2, ExportsSame
<1> QED BY <1>1, <1>2, PTL DEF MCSpec, P2!Export!Spec

\* Exports in the composition: the rows never book more storage than there is, for
\* all tenants and for each, what may still have a file books its storage, and a
\* finished export has its file, written to the end.
THEOREM ExportsAreSafe == MCSpec => []ExportSafe
<1>1. P1!Export!ExportAssumption /\ P2!Export!ExportAssumption
  BY DeliveryAssumption, ExportSame, ExportsSame
<1>2. P1!Export!Spec => []P1!Export!TypeOK
  BY <1>1, P1!ExportsTypeCorrect
<1>3. P1!Export!Spec => []P1!Export!QuotaHolds
  BY <1>1, P1!StorageIsBooked
<1>4. P1!Export!Spec => []P1!Export!ReadyIsWhole
  BY <1>1, P1!FinishedIsWhole
<1>5. P2!Export!Spec => []P2!Export!TypeOK
  BY <1>1, P2!ExportsTypeCorrect
<1>6. P2!Export!Spec => []P2!Export!QuotaHolds
  BY <1>1, P2!StorageIsBooked
<1>7. P2!Export!Spec => []P2!Export!ReadyIsWhole
  BY <1>1, P2!FinishedIsWhole
<1>8. P1!Export!TypeOK /\ P1!Export!QuotaHolds /\ P1!Export!ReadyIsWhole /\ P2!Export!TypeOK /\
         P2!Export!QuotaHolds /\ P2!Export!ReadyIsWhole => ExportSafe
  BY ExportSame, ExportsSame DEF ExportSafe
<1> QED
  BY <1>2, <1>3, <1>4, <1>5, <1>6, <1>7, <1>8, ExportRuns, ExportsRuns, PTL

U1 == INSTANCE PeopleProofs WITH
    MfaSessions <- None, MfaRequests <- None, MfaSteps <- None, MfaBackups <- None,
    MfaDemo <- None, MfaMaxSecrets <- None, MfaMaxChanges <- None, mfaUser <- None,
    mfaPolicy <- None, mfaSession <- None, mfaClaims <- None, mfaMarker <- None, mfaReq
    <- None, mfaDrawn <- None, mfaPassed <- None, mfaUses <- None, mfaExempt <- None,
    mfaChanges <- None, LadderUsers <- None, LadderCustomRoles <- None, LadderRequests
    <- None, LadderHired <- None, LadderPermissionSets <- None, LadderRoleSets <- None,
    LadderMaxLogins <- None, ladderRole <- None, ladderStatus <- None, ladderLocked <-
    None, ladderAssigned <- None, ladderCustom <- None, ladderSession <- None,
    ladderLive <- None, ladderRequest <- None, LoginRequests <- None, LoginPasswords <-
    None, LoginPins <- None, LoginEmails <- None, LoginMaxTries <- None,
    LoginMaxSessions <- None, LoginMaxChanges <- None, loginTenant <- None, loginUser <-
    None, loginSessions <- None, loginIssued <- None, loginReq <- None, loginWrong <-
    None, loginLapsed <- None, loginChanges <- None

U2 == INSTANCE PeopleProofs WITH
    ImportImports <- RetryImports, ImportHandlers <- RetryHandlers, ImportPublishers <-
    RetryPublishers, ImportMaxRetries <- RetryMaxRetries, ImportCost <- RetryCost,
    ImportInitialCredits <- RetryInitialCredits, ImportMaxFaults <- RetryMaxFaults,
    ImportMaxSwitches <- RetryMaxSwitches, importPlan <- retryPlan, importTarget <-
    retryTarget, importCredits <- retryCredits, importDebits <- retryDebits,
    importRefunds <- retryRefunds, importRow <- retryRow, importFile <- retryFile,
    importQueue <- retryQueue, importHandler <- retryHandler, importCompleted <-
    retryCompleted, importPublisher <- retryPublisher, importFaults <- retryFaults,
    importSwitches <- retrySwitches, importRuns <- retryRuns, MfaSessions <- None,
    MfaRequests <- None, MfaSteps <- None, MfaBackups <- None, MfaDemo <- None,
    MfaMaxSecrets <- None, MfaMaxChanges <- None, mfaUser <- None, mfaPolicy <- None,
    mfaSession <- None, mfaClaims <- None, mfaMarker <- None, mfaReq <- None, mfaDrawn
    <- None, mfaPassed <- None, mfaUses <- None, mfaExempt <- None, mfaChanges <- None,
    LadderUsers <- None, LadderCustomRoles <- None, LadderRequests <- None, LadderHired
    <- None, LadderPermissionSets <- None, LadderRoleSets <- None, LadderMaxLogins <-
    None, ladderRole <- None, ladderStatus <- None, ladderLocked <- None, ladderAssigned
    <- None, ladderCustom <- None, ladderSession <- None, ladderLive <- None,
    ladderRequest <- None, LoginRequests <- None, LoginPasswords <- None, LoginPins <-
    None, LoginEmails <- None, LoginMaxTries <- None, LoginMaxSessions <- None,
    LoginMaxChanges <- None, loginTenant <- None, loginUser <- None, loginSessions <-
    None, loginIssued <- None, loginReq <- None, loginWrong <- None, loginLapsed <-
    None, loginChanges <- None

\* The imports of the proofs is the one of the composition.
LEMMA ImportSame ==
    /\ U1!Import!ImportAssumption <=> Import!ImportAssumption
    /\ U1!Import!Init <=> Import!Init
    /\ U1!Import!Next <=> Import!Next
    /\ U1!Import!TypeOK <=> Import!TypeOK
    /\ U1!Import!SourceLivesWithImport <=> Import!SourceLivesWithImport
    /\ U1!Import!PaidImport <=> Import!PaidImport
    /\ U1!Import!RunsWithinBudget <=> Import!RunsWithinBudget
    /\ U1!Import!RememberedHasEnded <=> Import!RememberedHasEnded
    /\ U1!Import!imVars = Import!imVars
<1>1. U1!Import!ImportAssumption <=> Import!ImportAssumption
  BY Zenon DEF U1!Import!ImportAssumption, Import!ImportAssumption, U1!Import!IsFiniteSet,
     Import!IsFiniteSet
<1>2. U1!Import!Init <=> Import!Init
  BY Zenon DEF U1!Import!Init, Import!Init, U1!Import!NoRow, Import!NoRow,
     U1!Import!IdleHandler, Import!IdleHandler, U1!Import!IdlePublisher, Import!IdlePublisher,
     U1!Import!NoToken, Import!NoToken
<1>3. U1!Import!Next <=> Import!Next
  BY Zenon DEF U1!Import!Next, Import!Next, U1!Import!ApiStep, Import!ApiStep,
     U1!Import!PublisherStep, Import!PublisherStep, U1!Import!PublishFails, Import!PublishFails,
     U1!Import!HandlerStep, Import!HandlerStep, U1!Import!HandlerFault, Import!HandlerFault,
     U1!Import!RetentionStep, Import!RetentionStep, U1!Import!TimeStep, Import!TimeStep,
     U1!Import!LeaseEndsEarly, Import!LeaseEndsEarly, U1!Import!BrokerLoses, Import!BrokerLoses,
     U1!Import!CreateImport, Import!CreateImport, U1!Import!CancelImport, Import!CancelImport,
     U1!Import!DeleteEmployee, Import!DeleteEmployee, U1!Import!CloseAccount,
     Import!CloseAccount, U1!Import!ChangePlan, Import!ChangePlan, U1!Import!ChangeTarget,
     Import!ChangeTarget, U1!Import!Reconcile, Import!Reconcile, U1!Import!Recover,
     Import!Recover, U1!Import!ClaimPublication, Import!ClaimPublication, U1!Import!Publish,
     Import!Publish, U1!Import!Fault, Import!Fault, U1!Import!Enqueue, Import!Enqueue,
     U1!Import!OwnsPublication, Import!OwnsPublication, U1!Import!Put, Import!Put,
     U1!Import!IdlePublisher, Import!IdlePublisher, U1!Import!accountVars, Import!accountVars,
     U1!Import!moneyVars, Import!moneyVars, U1!Import!Receive, Import!Receive, U1!Import!Claim,
     Import!Claim, U1!Import!Delay, Import!Delay, U1!Import!SettleRejected,
     Import!SettleRejected, U1!Import!Parse, Import!Parse, U1!Import!Complete, Import!Complete,
     U1!Import!SettleInvalid, Import!SettleInvalid, U1!Import!Cleanup, Import!Cleanup,
     U1!Import!Replace, Import!Replace, U1!Import!MarkRetrying, Import!MarkRetrying,
     U1!Import!SettleExhausted, Import!SettleExhausted, U1!Import!ErasePoison,
     Import!ErasePoison, U1!Import!ClaimFails, Import!ClaimFails, U1!Import!CompleteFails,
     Import!CompleteFails, U1!Import!ReplaceFails, Import!ReplaceFails, U1!Import!SettleFails,
     Import!SettleFails, U1!Import!CleanupFails, Import!CleanupFails,
     U1!Import!SettleExhaustedFails, Import!SettleExhaustedFails, U1!Import!HandlerStops,
     Import!HandlerStops, U1!Import!SweepExpired, Import!SweepExpired, U1!Import!SweepOverdue,
     Import!SweepOverdue, U1!Import!CleanupOrphan, Import!CleanupOrphan, U1!Import!Expire,
     Import!Expire, U1!Import!LeaseEnds, Import!LeaseEnds, U1!Import!PublicationDue,
     Import!PublicationDue, U1!Import!RetryAges, Import!RetryAges, U1!Import!AtWork,
     Import!AtWork, U1!Import!Ages, Import!Ages, U1!Import!NoRow, Import!NoRow,
     U1!Import!bounds, Import!bounds, U1!Import!Live, Import!Live, U1!Import!Reserved,
     Import!Reserved, U1!Import!Refund, Import!Refund, U1!Import!EndedRow, Import!EndedRow,
     U1!Import!CancelAll, Import!CancelAll, U1!Import!Switch, Import!Switch, U1!Import!SweepTo,
     Import!SweepTo, U1!Import!Stranded, Import!Stranded, U1!Import!NoToken, Import!NoToken,
     U1!Import!Publishable, Import!Publishable, U1!Import!Smaller, Import!Smaller,
     U1!Import!IdleHandler, Import!IdleHandler, U1!Import!Terminal, Import!Terminal,
     U1!Import!Remember, Import!Remember, U1!Import!Ack, Import!Ack, U1!Import!Refusable,
     Import!Refusable, U1!Import!BudgetLeft, Import!BudgetLeft, U1!Import!Goto, Import!Goto,
     U1!Import!LostToken, Import!LostToken, U1!Import!ClaimedRow, Import!ClaimedRow,
     U1!Import!ClaimNumber, Import!ClaimNumber, U1!Import!Nack, Import!Nack,
     U1!Import!OwnsExecution, Import!OwnsExecution, U1!Import!Settle, Import!Settle,
     U1!Import!PlainError, Import!PlainError, U1!Import!Completable, Import!Completable,
     U1!Import!Larger, Import!Larger, U1!Import!Unexpired, Import!Unexpired, U1!Import!Refunded,
     Import!Refunded, U1!Import!MaxClaims, Import!MaxClaims, U1!Import!Cardinality,
     Import!Cardinality
<1>4. U1!Import!TypeOK <=> Import!TypeOK
  BY Zenon DEF U1!Import!TypeOK, Import!TypeOK, U1!Import!Row, Import!Row, U1!Import!Handler,
     Import!Handler, U1!Import!Publisher, Import!Publisher, U1!Import!Live, Import!Live,
     U1!Import!Terminal, Import!Terminal, U1!Import!MaxClaims, Import!MaxClaims,
     U1!Import!HandlerPC, Import!HandlerPC, U1!Import!LostToken, Import!LostToken,
     U1!Import!Refunded, Import!Refunded
<1>5. U1!Import!SourceLivesWithImport <=> Import!SourceLivesWithImport
  BY Zenon DEF U1!Import!SourceLivesWithImport, Import!SourceLivesWithImport, U1!Import!Live,
     Import!Live, U1!Import!Terminal, Import!Terminal, U1!Import!Refunded, Import!Refunded
<1>6. U1!Import!PaidImport <=> Import!PaidImport
  BY Zenon DEF U1!Import!PaidImport, Import!PaidImport, U1!Import!Refunded, Import!Refunded,
     U1!Import!Cardinality, Import!Cardinality
<1>7. U1!Import!RunsWithinBudget <=> Import!RunsWithinBudget
  BY Zenon DEF U1!Import!RunsWithinBudget, Import!RunsWithinBudget, U1!Import!MaxClaims,
     Import!MaxClaims
<1>8. U1!Import!RememberedHasEnded <=> Import!RememberedHasEnded
  BY Zenon DEF U1!Import!RememberedHasEnded, Import!RememberedHasEnded, U1!Import!Terminal,
     Import!Terminal, U1!Import!Refunded, Import!Refunded
<1>9. U1!Import!imVars = Import!imVars
  BY Zenon DEF U1!Import!imVars, Import!imVars
<1> QED BY <1>1, <1>2, <1>3, <1>4, <1>5, <1>6, <1>7, <1>8, <1>9

LEMMA ImportRuns == MCSpec => U1!Import!Spec
<1>1. MCInit => U1!Import!Init
  BY ImportSame DEF MCInit
<1>2. [MCNext]_mcVars => [U1!Import!Next]_(U1!Import!imVars)
  <2>1. UNCHANGED importVars => UNCHANGED U1!Import!imVars
    BY DEF importVars, U1!Import!imVars
  <2>2. [MCNext]_mcVars => Import!Next \/ UNCHANGED importVars
    BY DEF MCNext, mcVars
  <2> QED BY <2>1, <2>2, ImportSame
<1> QED BY <1>1, <1>2, PTL DEF MCSpec, U1!Import!Spec

\* The imports of the proofs is the one of the composition.
LEMMA RetriedSame ==
    /\ U2!Import!ImportAssumption <=> Retried!ImportAssumption
    /\ U2!Import!Init <=> Retried!Init
    /\ U2!Import!Next <=> Retried!Next
    /\ U2!Import!TypeOK <=> Retried!TypeOK
    /\ U2!Import!SourceLivesWithImport <=> Retried!SourceLivesWithImport
    /\ U2!Import!PaidImport <=> Retried!PaidImport
    /\ U2!Import!imVars = Retried!imVars
<1>1. U2!Import!ImportAssumption <=> Retried!ImportAssumption
  BY Zenon DEF U2!Import!ImportAssumption, Retried!ImportAssumption, U2!Import!IsFiniteSet,
     Retried!IsFiniteSet
<1>2. U2!Import!Init <=> Retried!Init
  BY Zenon DEF U2!Import!Init, Retried!Init, U2!Import!NoRow, Retried!NoRow,
     U2!Import!IdleHandler, Retried!IdleHandler, U2!Import!IdlePublisher, Retried!IdlePublisher,
     U2!Import!NoToken, Retried!NoToken
<1>3. U2!Import!Next <=> Retried!Next
  BY Zenon DEF U2!Import!Next, Retried!Next, U2!Import!ApiStep, Retried!ApiStep,
     U2!Import!PublisherStep, Retried!PublisherStep, U2!Import!PublishFails,
     Retried!PublishFails, U2!Import!HandlerStep, Retried!HandlerStep, U2!Import!HandlerFault,
     Retried!HandlerFault, U2!Import!RetentionStep, Retried!RetentionStep, U2!Import!TimeStep,
     Retried!TimeStep, U2!Import!LeaseEndsEarly, Retried!LeaseEndsEarly, U2!Import!BrokerLoses,
     Retried!BrokerLoses, U2!Import!CreateImport, Retried!CreateImport, U2!Import!CancelImport,
     Retried!CancelImport, U2!Import!DeleteEmployee, Retried!DeleteEmployee,
     U2!Import!CloseAccount, Retried!CloseAccount, U2!Import!ChangePlan, Retried!ChangePlan,
     U2!Import!ChangeTarget, Retried!ChangeTarget, U2!Import!Reconcile, Retried!Reconcile,
     U2!Import!Recover, Retried!Recover, U2!Import!ClaimPublication, Retried!ClaimPublication,
     U2!Import!Publish, Retried!Publish, U2!Import!Fault, Retried!Fault, U2!Import!Enqueue,
     Retried!Enqueue, U2!Import!OwnsPublication, Retried!OwnsPublication, U2!Import!Put,
     Retried!Put, U2!Import!IdlePublisher, Retried!IdlePublisher, U2!Import!accountVars,
     Retried!accountVars, U2!Import!moneyVars, Retried!moneyVars, U2!Import!Receive,
     Retried!Receive, U2!Import!Claim, Retried!Claim, U2!Import!Delay, Retried!Delay,
     U2!Import!SettleRejected, Retried!SettleRejected, U2!Import!Parse, Retried!Parse,
     U2!Import!Complete, Retried!Complete, U2!Import!SettleInvalid, Retried!SettleInvalid,
     U2!Import!Cleanup, Retried!Cleanup, U2!Import!Replace, Retried!Replace,
     U2!Import!MarkRetrying, Retried!MarkRetrying, U2!Import!SettleExhausted,
     Retried!SettleExhausted, U2!Import!ErasePoison, Retried!ErasePoison, U2!Import!ClaimFails,
     Retried!ClaimFails, U2!Import!CompleteFails, Retried!CompleteFails, U2!Import!ReplaceFails,
     Retried!ReplaceFails, U2!Import!SettleFails, Retried!SettleFails, U2!Import!CleanupFails,
     Retried!CleanupFails, U2!Import!SettleExhaustedFails, Retried!SettleExhaustedFails,
     U2!Import!HandlerStops, Retried!HandlerStops, U2!Import!SweepExpired, Retried!SweepExpired,
     U2!Import!SweepOverdue, Retried!SweepOverdue, U2!Import!CleanupOrphan,
     Retried!CleanupOrphan, U2!Import!Expire, Retried!Expire, U2!Import!LeaseEnds,
     Retried!LeaseEnds, U2!Import!PublicationDue, Retried!PublicationDue, U2!Import!RetryAges,
     Retried!RetryAges, U2!Import!AtWork, Retried!AtWork, U2!Import!Ages, Retried!Ages,
     U2!Import!NoRow, Retried!NoRow, U2!Import!bounds, Retried!bounds, U2!Import!Live,
     Retried!Live, U2!Import!Reserved, Retried!Reserved, U2!Import!Refund, Retried!Refund,
     U2!Import!EndedRow, Retried!EndedRow, U2!Import!CancelAll, Retried!CancelAll,
     U2!Import!Switch, Retried!Switch, U2!Import!SweepTo, Retried!SweepTo, U2!Import!Stranded,
     Retried!Stranded, U2!Import!NoToken, Retried!NoToken, U2!Import!Publishable,
     Retried!Publishable, U2!Import!Smaller, Retried!Smaller, U2!Import!IdleHandler,
     Retried!IdleHandler, U2!Import!Terminal, Retried!Terminal, U2!Import!Remember,
     Retried!Remember, U2!Import!Ack, Retried!Ack, U2!Import!Refusable, Retried!Refusable,
     U2!Import!BudgetLeft, Retried!BudgetLeft, U2!Import!Goto, Retried!Goto,
     U2!Import!LostToken, Retried!LostToken, U2!Import!ClaimedRow, Retried!ClaimedRow,
     U2!Import!ClaimNumber, Retried!ClaimNumber, U2!Import!Nack, Retried!Nack,
     U2!Import!OwnsExecution, Retried!OwnsExecution, U2!Import!Settle, Retried!Settle,
     U2!Import!PlainError, Retried!PlainError, U2!Import!Completable, Retried!Completable,
     U2!Import!Larger, Retried!Larger, U2!Import!Unexpired, Retried!Unexpired,
     U2!Import!Refunded, Retried!Refunded, U2!Import!MaxClaims, Retried!MaxClaims,
     U2!Import!Cardinality, Retried!Cardinality
<1>4. U2!Import!TypeOK <=> Retried!TypeOK
  BY Zenon DEF U2!Import!TypeOK, Retried!TypeOK, U2!Import!Row, Retried!Row, U2!Import!Handler,
     Retried!Handler, U2!Import!Publisher, Retried!Publisher, U2!Import!Live, Retried!Live,
     U2!Import!Terminal, Retried!Terminal, U2!Import!MaxClaims, Retried!MaxClaims,
     U2!Import!HandlerPC, Retried!HandlerPC, U2!Import!LostToken, Retried!LostToken,
     U2!Import!Refunded, Retried!Refunded
<1>5. U2!Import!SourceLivesWithImport <=> Retried!SourceLivesWithImport
  BY Zenon DEF U2!Import!SourceLivesWithImport, Retried!SourceLivesWithImport, U2!Import!Live,
     Retried!Live, U2!Import!Terminal, Retried!Terminal, U2!Import!Refunded, Retried!Refunded
<1>6. U2!Import!PaidImport <=> Retried!PaidImport
  BY Zenon DEF U2!Import!PaidImport, Retried!PaidImport, U2!Import!Refunded, Retried!Refunded,
     U2!Import!Cardinality, Retried!Cardinality
<1>7. U2!Import!imVars = Retried!imVars
  BY Zenon DEF U2!Import!imVars, Retried!imVars
<1> QED BY <1>1, <1>2, <1>3, <1>4, <1>5, <1>6, <1>7

LEMMA RetriedRuns == MCSpec => U2!Import!Spec
<1>1. MCInit => U2!Import!Init
  BY RetriedSame DEF MCInit
<1>2. [MCNext]_mcVars => [U2!Import!Next]_(U2!Import!imVars)
  <2>1. UNCHANGED retryVars => UNCHANGED U2!Import!imVars
    BY DEF retryVars, U2!Import!imVars
  <2>2. [MCNext]_mcVars => Retried!Next \/ UNCHANGED retryVars
    BY DEF MCNext, mcVars
  <2> QED BY <2>1, <2>2, RetriedSame
<1> QED BY <1>1, <1>2, PTL DEF MCSpec, U2!Import!Spec

\* Imports in the composition: the document is in its row exactly as long as the
\* import may need it, no import is parsed more often than its budget allows, a
\* worker remembers as completed only what has ended, and every import costs its
\* debit once and is refunded when it ends without a result.
THEOREM ImportsAreSafe == MCSpec => []ImportSafe
<1>1. U1!Import!ImportAssumption /\ U2!Import!ImportAssumption
  BY DeliveryAssumption, ImportSame, RetriedSame
<1>2. U1!Import!Spec => []U1!Import!TypeOK
  BY <1>1, U1!ImportTypeCorrect
<1>3. U1!Import!Spec => []U1!Import!SourceLivesWithImport
  BY <1>1, U1!SourcesLive
<1>4. U1!Import!Spec => []U1!Import!PaidImport
  BY <1>1, U1!ImportsArePaid
<1>5. U1!Import!Spec => []U1!Import!RunsWithinBudget
  BY <1>1, U1!RunsAreBudgeted
<1>6. U1!Import!Spec => []U1!Import!RememberedHasEnded
  BY <1>1, U1!RememberedEnded
<1>7. U2!Import!Spec => []U2!Import!TypeOK
  BY <1>1, U2!ImportTypeCorrect
<1>8. U2!Import!Spec => []U2!Import!SourceLivesWithImport
  BY <1>1, U2!SourcesLive
<1>9. U2!Import!Spec => []U2!Import!PaidImport
  BY <1>1, U2!ImportsArePaid
<1>10. U1!Import!TypeOK /\ U1!Import!SourceLivesWithImport /\ U1!Import!PaidImport /\
         U1!Import!RunsWithinBudget /\ U1!Import!RememberedHasEnded /\ U2!Import!TypeOK /\
         U2!Import!SourceLivesWithImport /\ U2!Import!PaidImport => ImportSafe
  BY ImportSame, RetriedSame DEF ImportSafe
<1> QED
  BY <1>2, <1>3, <1>4, <1>5, <1>6, <1>7, <1>8, <1>9, <1>10, ImportRuns, RetriedRuns, PTL

\* Webhooks and imports in the composition: what has ended never changes again, and
\* while the lease of a sender or worker is live nobody else takes its row.
THEOREM QueueStepsHold == MCSpec => QueueSteps
<1>1. P1!Hook!WebhookAssumption /\ U1!Import!ImportAssumption /\ U2!Import!ImportAssumption
  BY DeliveryAssumption, HookSame, ImportSame, RetriedSame
<1>2. P1!Hook!Spec => P1!Hook!EndedIsFinal
  BY <1>1, P1!EndedStays
<1>3. P1!Hook!EndedIsFinal => Hook!EndedIsFinal
  <2>1. P1!Hook!SparesEnded <=> Hook!SparesEnded
    BY Zenon DEF P1!Hook!SparesEnded, Hook!SparesEnded, P1!Hook!Ended, Hook!Ended
  <2>2. [P1!Hook!SparesEnded]_(P1!Hook!whVars) => [Hook!SparesEnded]_(Hook!whVars)
    BY <2>1 DEF P1!Hook!whVars, Hook!whVars
  <2> QED BY <2>2, PTL DEF P1!Hook!EndedIsFinal, Hook!EndedIsFinal
<1>4. P1!Hook!Spec => P1!Hook!LeaseExcludesSender
  BY <1>1, P1!LeaseHolds
<1>5. P1!Hook!LeaseExcludesSender => Hook!LeaseExcludesSender
  <2>1. P1!Hook!SparesSender <=> Hook!SparesSender
    BY Zenon DEF P1!Hook!SparesSender, Hook!SparesSender
  <2>2. [P1!Hook!SparesSender]_(P1!Hook!whVars) => [Hook!SparesSender]_(Hook!whVars)
    BY <2>1 DEF P1!Hook!whVars, Hook!whVars
  <2> QED BY <2>2, PTL DEF P1!Hook!LeaseExcludesSender, Hook!LeaseExcludesSender
<1>6. U1!Import!Spec => U1!Import!EndedStaysEnded
  BY <1>1, U1!ImportsEndForGood
<1>7. U1!Import!EndedStaysEnded => Import!EndedStaysEnded
  <2>1. U1!Import!EndsForGood <=> Import!EndsForGood
    BY Zenon DEF U1!Import!EndsForGood, Import!EndsForGood, U1!Import!Terminal, Import!Terminal,
       U1!Import!Refunded, Import!Refunded
  <2>2. [U1!Import!EndsForGood]_(U1!Import!imVars) => [Import!EndsForGood]_(Import!imVars)
    BY <2>1 DEF U1!Import!imVars, Import!imVars
  <2> QED BY <2>2, PTL DEF U1!Import!EndedStaysEnded, Import!EndedStaysEnded
<1>8. U1!Import!Spec => U1!Import!LeaseProtectsOwner
  BY <1>1, U1!LeasesProtect
<1>9. U1!Import!LeaseProtectsOwner => Import!LeaseProtectsOwner
  <2>1. U1!Import!SparesLiveOwner <=> Import!SparesLiveOwner
    BY Zenon DEF U1!Import!SparesLiveOwner, Import!SparesLiveOwner
  <2>2. [U1!Import!SparesLiveOwner]_(U1!Import!imVars) => [Import!SparesLiveOwner]_(Import!imVars)
    BY <2>1 DEF U1!Import!imVars, Import!imVars
  <2> QED BY <2>2, PTL DEF U1!Import!LeaseProtectsOwner, Import!LeaseProtectsOwner
<1>10. U2!Import!Spec => U2!Import!EndedStaysEnded
  BY <1>1, U2!ImportsEndForGood
<1>11. U2!Import!EndedStaysEnded => Retried!EndedStaysEnded
  <2>1. U2!Import!EndsForGood <=> Retried!EndsForGood
    BY Zenon DEF U2!Import!EndsForGood, Retried!EndsForGood, U2!Import!Terminal,
       Retried!Terminal, U2!Import!Refunded, Retried!Refunded
  <2>2. [U2!Import!EndsForGood]_(U2!Import!imVars) => [Retried!EndsForGood]_(Retried!imVars)
    BY <2>1 DEF U2!Import!imVars, Retried!imVars
  <2> QED BY <2>2, PTL DEF U2!Import!EndedStaysEnded, Retried!EndedStaysEnded
<1> QED
  BY <1>2, <1>3, <1>4, <1>5, <1>6, <1>7, <1>8, <1>9, <1>10, <1>11, HookRuns, ImportRuns,
     RetriedRuns, PTL DEF QueueSteps
=============================================================================
