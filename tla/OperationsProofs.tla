-------------------------- MODULE OperationsProofs --------------------------
(***************************************************************************)
(* Proofs about a workspace that runs: outgoing webhooks, the time cards   *)
(* and periods of the payroll, the editing and publication of schedules,   *)
(* and the export of an account's data.                                    *)
(***************************************************************************)
EXTENDS Integers, FiniteSetTheorems, WellFoundedInduction, TLAPS

CONSTANTS
    None, HookEndpoints, HookHandlers, HookSweeps, HookNoDelivery, HookMaxAttempts,
    HookCost, HookInitialCredits, HookMaxFaults, HookMaxSwitches, CardsCards,
    CardsUsers, CardsAmendments, CardsNumPeriods, CardsPeriodLength, CardsMaxRevision,
    EdtUsers, EdtLocations, EdtClients, EdtNumSchedules, EdtNumShifts, EdtSlots,
    EdtDemands, EdtDays, EdtDrafts, EdtDayLength, EdtLongShift, EdtMaxHours, EdtLimits,
    EdtAvailable, EdtScheduleCost, EdtCredits, EdtMaxEdits, EdtMaxSwitches, ExportProcs,
    ExportNumJobs, ExportTenants, ExportTenantOf, ExportMaxArtifact, ExportSizes,
    ExportGlobalQuota, ExportTenantQuota, ExportMaxAttempts, ExportMaxFaults

VARIABLES
    hookPlan, hookActive, hookCredits, hookDebits, hookRefunds, hookRow, hookQueue,
    hookHandler, hookSweep, hookFaults, hookSwitches, hookSends, hookAccepted, cardsNow,
    cardsEffective, cardsPeriod, cardsCard, cardsDecision, cardsAmendment, cardsEntries,
    edtSchedule, edtShift, edtPerson, edtClosed, edtHooks, edtCredits, edtBoard,
    edtContract, edtSolve, edtAnnounced, edtEdition, edtEdits, edtSwitches, exportJob,
    exportExpired, exportFiles, exportWhole, exportAged, exportProc, exportPurged,
    exportFaults

Hook == INSTANCE WebhookDelivery WITH
    Endpoints <- HookEndpoints, Handlers <- HookHandlers, Sweeps <- HookSweeps,
    NoDelivery <- HookNoDelivery, MaxAttempts <- HookMaxAttempts, Cost <- HookCost,
    InitialCredits <- HookInitialCredits, MaxFaults <- HookMaxFaults, MaxSwitches <-
    HookMaxSwitches, plan <- hookPlan, active <- hookActive, credits <- hookCredits,
    debits <- hookDebits, refunds <- hookRefunds, row <- hookRow, queue <- hookQueue,
    handler <- hookHandler, sweep <- hookSweep, faults <- hookFaults, switches <-
    hookSwitches, sends <- hookSends, accepted <- hookAccepted

Pay == INSTANCE Payroll WITH
    Cards <- CardsCards, Users <- CardsUsers, Amendments <- CardsAmendments, NumPeriods
    <- CardsNumPeriods, PeriodLength <- CardsPeriodLength, MaxRevision <-
    CardsMaxRevision, NoCard <- None, NoAmendment <- None, now <- cardsNow, effective <-
    cardsEffective, period <- cardsPeriod, card <- cardsCard, decision <- cardsDecision,
    amendment <- cardsAmendment, entries <- cardsEntries

Edit == INSTANCE ScheduleEditing WITH
    Users <- EdtUsers, Locations <- EdtLocations, Clients <- EdtClients, NumSchedules <-
    EdtNumSchedules, NumShifts <- EdtNumShifts, None <- None, Slots <- EdtSlots, Demands
    <- EdtDemands, Days <- EdtDays, Drafts <- EdtDrafts, DayLength <- EdtDayLength,
    LongShift <- EdtLongShift, MaxHours <- EdtMaxHours, Limits <- EdtLimits, Available
    <- EdtAvailable, ScheduleCost <- EdtScheduleCost, Credits <- EdtCredits, MaxEdits <-
    EdtMaxEdits, MaxSwitches <- EdtMaxSwitches, schedule <- edtSchedule, shift <-
    edtShift, person <- edtPerson, closed <- edtClosed, hooks <- edtHooks, credits <-
    edtCredits, board <- edtBoard, contract <- edtContract, solve <- edtSolve, announced
    <- edtAnnounced, edition <- edtEdition, edits <- edtEdits, switches <- edtSwitches

Export == INSTANCE TenantExport WITH
    Procs <- ExportProcs, NumJobs <- ExportNumJobs, Tenants <- ExportTenants, TenantOf
    <- ExportTenantOf, None <- None, MaxArtifact <- ExportMaxArtifact, Sizes <-
    ExportSizes, GlobalQuota <- ExportGlobalQuota, TenantQuota <- ExportTenantQuota,
    MaxAttempts <- ExportMaxAttempts, MaxFaults <- ExportMaxFaults, job <- exportJob,
    expired <- exportExpired, files <- exportFiles, whole <- exportWhole, aged <-
    exportAged, proc <- exportProc, purged <- exportPurged, faults <- exportFaults

-----------------------------------------------------------------------------
(* Outgoing webhooks. *)

LEMMA HookCardinality == \A S : Hook!Cardinality(S) = Cardinality(S)
BY DEF Hook!Cardinality, Cardinality

LEMMA HookFinite == \A S : Hook!IsFiniteSet(S) = IsFiniteSet(S)
BY DEF Hook!IsFiniteSet, IsFiniteSet

(* The inductive invariant. *)

\* A delivery that was not made is as it began, one that ended has no time.
RowOK(r) == /\ r.status = "NONE" => r = Hook!NoRow
            /\ r.status \in Hook!Ended => r.due = "null" /\ ~r.aged
RowsOK == \A d \in HookEndpoints : RowOK(hookRow[d])

\* A handler at work has a delivery; the receiver accepted what it calls sent.
HandlerOK(v) == /\ v.pc # "idle" => v.d \in HookEndpoints
                /\ v.pc = "sent" => v.attempt \in hookAccepted[v.d]
HandlersOK == \A h \in HookHandlers : HandlerOK(hookHandler[h])

\* The handler may still send the request of an attempt it has claimed.
MaySend(v, d) == v.d = d /\ v.pc \in {"claimed", "sending"}
Senders(d) == {h \in HookHandlers : MaySend(hookHandler[h], d)}

\* Every request that was sent or may still be sent has an attempt of its own.
Metered == \A d \in HookEndpoints :
              /\ IsFiniteSet(Senders(d))
              /\ hookSends[d] + Cardinality(Senders(d)) <= hookRow[d].attempts

WebhookInv == /\ Hook!TypeOK /\ RowsOK /\ HandlersOK /\ Metered
              /\ Hook!PaidDelivery /\ Hook!DeliveredWasAccepted

-----------------------------------------------------------------------------
(* Rows. *)

\* What a step may do to the row of a delivery: nothing once it has ended, no
\* step back, and no new attempt under a live lease.
Fenced(d) ==
    /\ hookRow[d].status \in Hook!Ended => hookRow'[d] = hookRow[d]
    /\ hookRow'[d].attempts >= hookRow[d].attempts
    /\ hookRow[d].status = "SENDING" /\ ~hookRow[d].aged /\ hookRow'[d].status = "SENDING"
          => hookRow'[d].attempts = hookRow[d].attempts

\* A step that leaves all rows well formed, fences them, and completes only
\* what was accepted.
RowStep == /\ hookRow' \in [HookEndpoints -> Hook!Row]
           /\ RowsOK'
           /\ \A d \in HookEndpoints : Fenced(d)
           /\ Hook!DeliveredWasAccepted'

\* r may replace the row of d.
WriteOK(d, r) ==
    /\ r \in Hook!Row /\ RowOK(r)
    /\ hookRow[d].status \in Hook!Open
    /\ r.status # "NONE"
    /\ r.attempts >= hookRow[d].attempts
    /\ hookRow[d].status = "SENDING" /\ ~hookRow[d].aged /\ r.status = "SENDING"
          => r.attempts = hookRow[d].attempts
    /\ r.status = "DELIVERED" => r.attempts \in hookAccepted[d]

\* No row is touched.
LEMMA RowsKept ==
    ASSUME WebhookInv, UNCHANGED hookRow,
           \A d \in HookEndpoints : hookAccepted[d] \subseteq hookAccepted'[d]
    PROVE  RowStep
<1>1. hookRow \in [HookEndpoints -> Hook!Row] /\ RowsOK /\ Hook!DeliveredWasAccepted
  BY DEF WebhookInv, Hook!TypeOK
<1>2. \A d \in HookEndpoints : hookRow[d].attempts \in Int
  BY <1>1 DEF Hook!Row
<1> QED BY <1>1, <1>2 DEF RowStep, RowsOK, RowOK, Fenced, Hook!DeliveredWasAccepted

\* One row is written.
LEMMA RowWritten ==
    ASSUME WebhookInv, UNCHANGED hookAccepted, NEW d \in HookEndpoints, NEW r, Hook!Put(d, r),
           r = hookRow[d] \/ WriteOK(d, r)
    PROVE  /\ RowStep
           /\ hookRow'[d] = r
           /\ \A e \in HookEndpoints : e # d => hookRow'[e] = hookRow[e]
<1>1. /\ hookRow \in [HookEndpoints -> Hook!Row] /\ RowsOK /\ Hook!DeliveredWasAccepted
      /\ r \in Hook!Row /\ RowOK(r)
  BY DEF WebhookInv, Hook!TypeOK, WriteOK, RowsOK
<1>2. /\ hookRow' \in [HookEndpoints -> Hook!Row] /\ hookRow'[d] = r
      /\ \A e \in HookEndpoints : e # d => hookRow'[e] = hookRow[e]
  BY <1>1 DEF Hook!Put
<1>3. RowsOK'
  BY <1>1, <1>2 DEF RowsOK, RowOK
<1>4. Hook!DeliveredWasAccepted'
  BY <1>1, <1>2 DEF Hook!DeliveredWasAccepted, WriteOK
<1>5. \A e \in HookEndpoints : hookRow[e].attempts \in Int
  BY <1>1 DEF Hook!Row
<1>6. Fenced(d)
  <2>1. CASE r = hookRow[d]
    BY <1>2, <1>5, <2>1 DEF Fenced
  <2>2. CASE WriteOK(d, r)
    BY <1>2, <2>2 DEF Fenced, WriteOK, Hook!Open, Hook!Replayable, Hook!Ended
  <2> QED BY <2>1, <2>2
<1>7. \A e \in HookEndpoints : Fenced(e)
  BY <1>2, <1>5, <1>6 DEF Fenced
<1> QED BY <1>2, <1>3, <1>4, <1>7 DEF RowStep

-----------------------------------------------------------------------------
(* Handlers. *)

\* Handler h becomes v, and gains no request to send.
Moves(h, v) == /\ v \in Hook!Handler
               /\ HandlerOK(v)
               /\ \A d \in HookEndpoints : MaySend(v, d) => MaySend(hookHandler[h], d)
               /\ hookHandler' = [hookHandler EXCEPT ![h] = v]

\* No handler gains a request to send, and what is sent was accepted.
HandlersStep == /\ hookHandler' \in [HookHandlers -> Hook!Handler]
                /\ HandlersOK'
                /\ Metered'

\* Fewer handlers may send, rows step forward and nothing is sent.
LEMMA Counted ==
    ASSUME WebhookInv, RowStep, UNCHANGED hookSends,
           \A h \in HookHandlers, d \in HookEndpoints : MaySend(hookHandler'[h], d) => MaySend(hookHandler[h], d)
    PROVE  Metered'
<1> SUFFICES ASSUME NEW d \in HookEndpoints
             PROVE  /\ IsFiniteSet(Senders(d)')
                    /\ hookSends'[d] + Cardinality(Senders(d)') <= hookRow'[d].attempts
  BY DEF Metered
<1>1. /\ IsFiniteSet(Senders(d)) /\ hookSends[d] + Cardinality(Senders(d)) <= hookRow[d].attempts
      /\ hookSends[d] \in Nat /\ hookRow[d].attempts \in Int
  BY DEF WebhookInv, Metered, Hook!TypeOK, Hook!Row
<1>2. Senders(d)' \subseteq Senders(d)
  BY DEF Senders, MaySend
<1>3. /\ IsFiniteSet(Senders(d)') /\ Cardinality(Senders(d)') <= Cardinality(Senders(d))
      /\ Cardinality(Senders(d)') \in Nat /\ Cardinality(Senders(d)) \in Nat
  BY <1>1, <1>2, FS_Subset, FS_CardinalityType
<1>4. hookRow'[d].attempts >= hookRow[d].attempts /\ hookRow'[d].attempts \in Int
  BY DEF RowStep, Fenced, Hook!Row
<1> HIDE DEF Senders
<1> QED BY <1>1, <1>3, <1>4

\* No handler moves.
LEMMA HandlersKept ==
    ASSUME WebhookInv, RowStep, UNCHANGED <<hookHandler, hookSends, hookAccepted>>
    PROVE  HandlersStep
<1>1. hookHandler \in [HookHandlers -> Hook!Handler] /\ HandlersOK
  BY DEF WebhookInv, Hook!TypeOK
<1>2. Metered'
  BY Counted
<1> QED BY <1>1, <1>2 DEF HandlersStep, HandlersOK, HandlerOK

\* One handler moves.
LEMMA HandlerMoved ==
    ASSUME WebhookInv, RowStep, UNCHANGED <<hookSends, hookAccepted>>,
           NEW h \in HookHandlers, NEW v, Moves(h, v)
    PROVE  HandlersStep
<1>1. /\ hookHandler \in [HookHandlers -> Hook!Handler] /\ HandlersOK /\ v \in Hook!Handler
      /\ hookHandler' = [hookHandler EXCEPT ![h] = v] /\ HandlerOK(v)
      /\ \A d \in HookEndpoints : MaySend(v, d) => MaySend(hookHandler[h], d)
  BY DEF WebhookInv, Hook!TypeOK, Moves
<1>2. /\ hookHandler' \in [HookHandlers -> Hook!Handler] /\ hookHandler'[h] = v
      /\ \A g \in HookHandlers : g # h => hookHandler'[g] = hookHandler[g]
  BY <1>1
<1>3. HandlersOK'
  BY <1>1, <1>2 DEF HandlersOK, HandlerOK
<1>4. Metered'
  BY <1>1, <1>2, Counted DEF MaySend
<1> QED BY <1>2, <1>3, <1>4 DEF HandlersStep

\* The handler gives its message up.
LEMMA Idles ==
    ASSUME Hook!WebhookAssumption, WebhookInv, NEW h \in HookHandlers, Hook!Ack(h)
    PROVE  Moves(h, Hook!IdleHandler)
<1>1. Hook!IdleHandler \in Hook!Handler /\ Hook!IdleHandler.pc = "idle"
  <2>1. 0 \in 0 .. HookMaxAttempts
    BY HookFinite DEF Hook!WebhookAssumption
  <2> QED BY <2>1 DEF Hook!IdleHandler, Hook!Handler, Hook!HandlerPC
<1> QED BY <1>1 DEF Moves, HandlerOK, MaySend, Hook!Ack

\* The handler goes on to a point where it has nothing to send.
LEMMA Goes ==
    ASSUME WebhookInv, NEW h \in HookHandlers, hookHandler[h].pc # "idle",
           NEW pc \in Hook!HandlerPC \ {"idle", "sent", "claimed", "sending"}, Hook!Goto(h, pc)
    PROVE  Moves(h, [hookHandler[h] EXCEPT !.pc = pc])
<1> DEFINE v == [hookHandler[h] EXCEPT !.pc = pc]
<1>1. hookHandler \in [HookHandlers -> Hook!Handler] /\ hookHandler[h] \in Hook!Handler /\ HandlerOK(hookHandler[h])
  BY DEF WebhookInv, Hook!TypeOK, HandlersOK
<1>2. v \in Hook!Handler /\ v.pc = pc /\ v.d = hookHandler[h].d /\ v.d \in HookEndpoints
  BY <1>1 DEF Hook!Handler, HandlerOK
<1>3. HandlerOK(v) /\ \A d \in HookEndpoints : ~MaySend(v, d)
  BY <1>2 DEF HandlerOK, MaySend
<1>4. hookHandler' = [hookHandler EXCEPT ![h] = v]
  BY <1>1 DEF Hook!Goto
<1> QED BY <1>2, <1>3, <1>4 DEF Moves

-----------------------------------------------------------------------------
(* The wallet. *)

MoneyStep == /\ hookCredits' \in Nat
             /\ hookDebits' \subseteq HookEndpoints
             /\ hookRefunds' \subseteq HookEndpoints
             /\ Hook!PaidDelivery'

\* Deliveries that are paid and not returned.
Kept == hookDebits \ hookRefunds

LEMMA Price ==
    ASSUME Hook!WebhookAssumption, WebhookInv
    PROVE  /\ IsFiniteSet(HookEndpoints) /\ HookCost \in Nat /\ HookInitialCredits \in Nat /\ hookCredits \in Nat
           /\ hookDebits \subseteq HookEndpoints /\ hookRefunds \subseteq HookEndpoints
           /\ IsFiniteSet(Kept) /\ Cardinality(Kept) \in Nat
           /\ hookCredits + HookCost * Cardinality(Kept) = HookInitialCredits
           /\ \A d \in HookEndpoints : /\ d \in hookDebits <=> hookRow[d].status # "NONE"
                                       /\ d \in hookRefunds <=> hookRow[d].status = "DEAD_LETTERED"
<1>1. /\ IsFiniteSet(HookEndpoints) /\ HookCost \in Nat /\ HookInitialCredits \in Nat /\ hookCredits \in Nat
      /\ hookDebits \subseteq HookEndpoints /\ hookRefunds \subseteq HookEndpoints
      /\ hookCredits + HookCost * Cardinality(Kept) = HookInitialCredits
      /\ \A d \in HookEndpoints : /\ d \in hookDebits <=> hookRow[d].status # "NONE"
                                  /\ d \in hookRefunds <=> hookRow[d].status = "DEAD_LETTERED"
  BY HookCardinality, HookFinite DEF Hook!WebhookAssumption, WebhookInv, Hook!TypeOK, Hook!PaidDelivery, Kept
<1>2. Kept \subseteq HookEndpoints
  BY <1>1 DEF Kept
<1>3. IsFiniteSet(Kept) /\ Cardinality(Kept) \in Nat
  BY <1>1, <1>2, FS_Subset, FS_CardinalityType
<1> QED BY <1>1, <1>3

LEMMA Times ==
    ASSUME NEW c \in Nat, NEW m \in Nat, NEW n \in Nat
    PROVE  c * m \in Nat /\ c * (m + n) = c * m + c * n
OBVIOUS

\* No delivery is made or given up.
LEMMA MoneyKept ==
    ASSUME WebhookInv, UNCHANGED Hook!moneyVars,
           \A d \in HookEndpoints : /\ hookRow'[d].status = "NONE" <=> hookRow[d].status = "NONE"
                                    /\ hookRow'[d].status = "DEAD_LETTERED" <=> hookRow[d].status = "DEAD_LETTERED"
    PROVE  MoneyStep
<1>1. hookCredits \in Nat /\ hookDebits \subseteq HookEndpoints /\ hookRefunds \subseteq HookEndpoints /\ Hook!PaidDelivery
  BY DEF WebhookInv, Hook!TypeOK
<1> QED BY HookCardinality, <1>1 DEF MoneyStep, Hook!PaidDelivery, Hook!moneyVars

\* The deliveries of D are given up and their price returned.
LEMMA MoneyReturned ==
    ASSUME Hook!WebhookAssumption, WebhookInv, NEW D \in SUBSET HookEndpoints,
           \A d \in D : hookRow[d].status \in Hook!Open /\ hookRow'[d].status = "DEAD_LETTERED",
           \A d \in HookEndpoints \ D : hookRow'[d].status = hookRow[d].status,
           hookDebits' = hookDebits, hookRefunds' = hookRefunds \cup D,
           hookCredits' = hookCredits + HookCost * Cardinality(D)
    PROVE  MoneyStep
<1>1. D \subseteq Kept
  BY Price DEF Kept, Hook!Open, Hook!Replayable
<1>2. IsFiniteSet(D) /\ Cardinality(D) \in Nat
  BY <1>1, Price, FS_Subset, FS_CardinalityType
<1>3. hookDebits' \ hookRefunds' = Kept \ D
  BY DEF Kept
<1>4. IsFiniteSet(Kept \ D) /\ Cardinality(Kept \ D) = Cardinality(Kept) - Cardinality(D)
  <2>1. Kept \cap D = D
    BY <1>1
  <2>2. IsFiniteSet(Kept)
    BY Price
  <2>3. IsFiniteSet(Kept \ D) /\ Cardinality(Kept \ D) = Cardinality(Kept) - Cardinality(Kept \cap D)
    BY <2>2, FS_Difference, Zenon
  <2> QED BY <2>1, <2>3
<1>5. Cardinality(Kept \ D) \in Nat
  BY <1>4, FS_CardinalityType
<1>6. /\ HookCost * Cardinality(D) \in Nat
      /\ HookCost * (Cardinality(D) + Cardinality(Kept \ D)) = HookCost * Cardinality(D) + HookCost * Cardinality(Kept \ D)
      /\ HookCost * Cardinality(Kept \ D) \in Nat
  BY <1>2, <1>5, Price, Times
<1>7. Cardinality(D) + Cardinality(Kept \ D) = Cardinality(Kept)
  BY <1>2, <1>4, <1>5, Price
<1>8. hookCredits + (HookCost * Cardinality(D) + HookCost * Cardinality(Kept \ D)) = HookInitialCredits
  BY <1>6, <1>7, Price
<1>9. hookCredits' \in Nat /\ hookCredits' + HookCost * Cardinality(Kept \ D) = HookInitialCredits
  BY <1>6, <1>8, Price
<1>10. \A d \in HookEndpoints : /\ d \in hookDebits' <=> hookRow'[d].status # "NONE"
                                /\ d \in hookRefunds' <=> hookRow'[d].status = "DEAD_LETTERED"
  BY Price DEF Hook!Open, Hook!Replayable
<1> QED BY HookCardinality, <1>3, <1>9, <1>10, Price DEF MoneyStep, Hook!PaidDelivery

\* One delivery is given up.
LEMMA MoneyRefunded ==
    ASSUME Hook!WebhookAssumption, WebhookInv, NEW d \in HookEndpoints, Hook!Refund(d),
           hookRow[d].status \in Hook!Open, hookRow'[d].status = "DEAD_LETTERED",
           \A e \in HookEndpoints : e # d => hookRow'[e].status = hookRow[e].status
    PROVE  MoneyStep
<1>1. d \notin hookRefunds
  BY Price DEF Hook!Open, Hook!Replayable
<1>2. Cardinality({d}) = 1 /\ HookCost * 1 = HookCost
  <2>1. Cardinality({d}) = 1
    BY FS_Singleton, Zenon
  <2> QED BY <2>1, Price
<1>3. /\ hookDebits' = hookDebits /\ hookRefunds' = hookRefunds \cup {d}
      /\ hookCredits' = hookCredits + HookCost * Cardinality({d})
  BY <1>1, <1>2 DEF Hook!Refund
<1> QED BY <1>3, MoneyReturned

-----------------------------------------------------------------------------
(* A step of the whole, from its parts. *)

RestTyped == /\ hookPlan \in {"PAID", "PAUSED", "CLOSED"}
             /\ hookActive \in [HookEndpoints -> BOOLEAN]
             /\ hookQueue \in [HookEndpoints -> Nat]
             /\ hookSweep \in [HookSweeps -> Hook!Sweep]
             /\ hookFaults \in Nat
             /\ hookSwitches \in Nat
             /\ hookSends \in [HookEndpoints -> Nat]
             /\ hookAccepted \in [HookEndpoints -> SUBSET (0 .. HookMaxAttempts)]

StepOK == WebhookInv' /\ \A d \in HookEndpoints : Fenced(d)

LEMMA Together ==
    ASSUME RowStep, HandlersStep, MoneyStep, RestTyped'
    PROVE  StepOK
BY DEF RowStep, HandlersStep, MoneyStep, RestTyped, StepOK, WebhookInv, Hook!TypeOK

\* A put of a message, or a message taken.
LEMMA Queues ==
    ASSUME WebhookInv
    PROVE  /\ hookQueue \in [HookEndpoints -> Nat]
           /\ \A d \in HookEndpoints : Hook!Enqueue(d) => hookQueue' \in [HookEndpoints -> Nat]
BY DEF WebhookInv, Hook!TypeOK, Hook!Enqueue

\* Nothing is written to the rows or the wallet.
LEMMA NoWrite ==
    ASSUME WebhookInv, UNCHANGED <<hookRow, Hook!moneyVars, hookAccepted>>
    PROVE  RowStep /\ MoneyStep
BY RowsKept, MoneyKept

\* A row is written, and its delivery goes on or is made.
LEMMA LiveWrite ==
    ASSUME WebhookInv, NEW d \in HookEndpoints, NEW r, WriteOK(d, r), r.status # "DEAD_LETTERED",
           Hook!Put(d, r), UNCHANGED <<Hook!moneyVars, hookAccepted>>
    PROVE  RowStep /\ MoneyStep
<1>1. /\ RowStep /\ hookRow'[d] = r
      /\ \A e \in HookEndpoints : e # d => hookRow'[e] = hookRow[e]
  BY RowWritten
<1>2. MoneyStep
  BY <1>1, MoneyKept DEF WriteOK, Hook!Open, Hook!Replayable
<1> QED BY <1>1, <1>2

\* A delivery is dead-lettered and its price returned.
LEMMA DeadWrite ==
    ASSUME Hook!WebhookAssumption, WebhookInv, NEW d \in HookEndpoints, NEW n \in 0 .. HookMaxAttempts,
           n >= hookRow[d].attempts, hookRow[d].status \in Hook!Open, Hook!Put(d, Hook!DeadRow(d, n)), Hook!Refund(d),
           UNCHANGED hookAccepted
    PROVE  RowStep /\ MoneyStep
<1>1. hookRow[d] \in Hook!Row
  BY DEF WebhookInv, Hook!TypeOK
<1>2. WriteOK(d, Hook!DeadRow(d, n)) /\ Hook!DeadRow(d, n).status = "DEAD_LETTERED"
  BY <1>1 DEF WriteOK, Hook!DeadRow, Hook!Row, RowOK, Hook!Open, Hook!Replayable, Hook!Ended
<1>3. /\ RowStep /\ hookRow'[d] = Hook!DeadRow(d, n)
      /\ \A e \in HookEndpoints : e # d => hookRow'[e] = hookRow[e]
  BY <1>2, RowWritten
<1>4. MoneyStep
  BY <1>2, <1>3, MoneyRefunded
<1> QED BY <1>3, <1>4

\* What a handler with a message has.
LEMMA AtHand ==
    ASSUME Hook!WebhookAssumption, WebhookInv, NEW h \in HookHandlers, hookHandler[h].pc # "idle"
    PROVE  /\ hookHandler \in [HookHandlers -> Hook!Handler] /\ hookHandler[h] \in Hook!Handler
           /\ HandlerOK(hookHandler[h]) /\ hookHandler[h].d \in HookEndpoints
           /\ hookHandler[h].attempt \in 0 .. HookMaxAttempts
           /\ hookRow[hookHandler[h].d] \in Hook!Row /\ RowOK(hookRow[hookHandler[h].d])
           /\ hookRow[hookHandler[h].d].attempts \in 0 .. HookMaxAttempts
           /\ HookMaxAttempts \in Nat \ {0}
<1>1. /\ hookHandler \in [HookHandlers -> Hook!Handler] /\ hookHandler[h] \in Hook!Handler /\ HandlerOK(hookHandler[h])
      /\ hookRow \in [HookEndpoints -> Hook!Row] /\ RowsOK /\ HookMaxAttempts \in Nat \ {0}
  BY HookFinite DEF Hook!WebhookAssumption, WebhookInv, Hook!TypeOK, HandlersOK
<1>2. hookHandler[h].d \in HookEndpoints /\ hookHandler[h].attempt \in 0 .. HookMaxAttempts
  BY <1>1 DEF HandlerOK, Hook!Handler
<1>3. hookRow[hookHandler[h].d] \in Hook!Row
  BY <1>1, <1>2
<1> QED BY <1>1, <1>2, <1>3 DEF RowsOK, Hook!Row

\* The types of what a step leaves alone.
LEMMA RestKept ==
    ASSUME WebhookInv
    PROVE  RestTyped
BY DEF WebhookInv, Hook!TypeOK, RestTyped

-----------------------------------------------------------------------------
(* The steps of a handler. *)

LEMMA ReceiveStep ==
    ASSUME Hook!WebhookAssumption, WebhookInv, NEW h \in HookHandlers, NEW d \in HookEndpoints, Hook!Receive(h, d)
    PROVE  StepOK
<1>1. RowStep /\ MoneyStep
  BY NoWrite DEF Hook!Receive, Hook!historyVars
<1>2. hookQueue' \in [HookEndpoints -> Nat]
  <2>1. hookQueue \in [HookEndpoints -> Nat] /\ hookQueue[d] - 1 \in Nat
    BY Queues DEF Hook!Receive
  <2> QED BY <2>1 DEF Hook!Receive
<1>3. RestTyped'
  BY <1>2, RestKept DEF RestTyped, Hook!Receive, Hook!historyVars, Hook!bounds
<1> DEFINE v == [pc |-> "received", d |-> d, attempt |-> 0]
<1>4. v \in Hook!Handler /\ v.pc = "received" /\ v.d = d
  BY HookFinite DEF Hook!Handler, Hook!HandlerPC, Hook!WebhookAssumption
<1>5. Moves(h, v)
  BY <1>4 DEF Moves, HandlerOK, MaySend, Hook!Receive
<1>6. HandlersStep
  BY <1>1, <1>5, HandlerMoved DEF Hook!Receive, Hook!historyVars
<1> QED BY <1>1, <1>3, <1>6, Together

\* A handler writes nothing more than a row and the wallet, and moves.
LEMMA HandlerWrites ==
    ASSUME WebhookInv, RowStep, MoneyStep, NEW h \in HookHandlers, NEW v, Moves(h, v), RestTyped',
           UNCHANGED Hook!historyVars
    PROVE  StepOK
BY HandlerMoved, Together DEF Hook!historyVars

\* The claim of an attempt: one more request may be sent, and the row counts it.
LEMMA ClaimAttempt ==
    ASSUME Hook!WebhookAssumption, WebhookInv, NEW h \in HookHandlers, hookHandler[h].pc = "received",
           NEW d, d = hookHandler[h].d, NEW n, n = hookRow[d].attempts + 1, Hook!Claimable(d),
           Hook!Put(d, [hookRow[d] EXCEPT !.status = "SENDING", !.attempts = n, !.aged = FALSE]),
           hookHandler' = [hookHandler EXCEPT ![h].pc = "claimed", ![h].attempt = n],
           UNCHANGED <<Hook!moneyVars, Hook!historyVars>>, RestTyped'
    PROVE  StepOK
<1> DEFINE r == [hookRow[d] EXCEPT !.status = "SENDING", !.attempts = n, !.aged = FALSE]
           v == [hookHandler[h] EXCEPT !.pc = "claimed", !.attempt = n]
<1>1. /\ d \in HookEndpoints /\ hookRow[d] \in Hook!Row /\ hookRow[d].attempts \in Nat /\ n \in 0 .. HookMaxAttempts
      /\ n \in Nat /\ hookHandler[h] \in Hook!Handler /\ hookHandler \in [HookHandlers -> Hook!Handler]
  BY AtHand DEF Hook!Claimable
<1>2. WriteOK(d, r) /\ r.status = "SENDING" /\ r.attempts = n
  <2>1. r \in Hook!Row /\ r.status = "SENDING" /\ r.attempts = n
    BY <1>1 DEF Hook!Row, Hook!Open
  <2>2. hookRow[d].status \in Hook!Open /\ (hookRow[d].status = "SENDING" => hookRow[d].aged)
    BY DEF Hook!Claimable, Hook!Open, Hook!Replayable
  <2>3. n >= hookRow[d].attempts
    BY <1>1
  <2> QED BY <2>1, <2>2, <2>3 DEF WriteOK, RowOK, Hook!Ended
<1>3. RowStep /\ MoneyStep
  BY <1>1, <1>2, LiveWrite DEF Hook!historyVars
<1>4. hookRow'[d] = r /\ \A e \in HookEndpoints : e # d => hookRow'[e] = hookRow[e]
  BY <1>1, <1>2, RowWritten DEF Hook!historyVars
<1>5. v \in Hook!Handler /\ v.pc = "claimed" /\ v.d = d
  BY <1>1 DEF Hook!Handler, Hook!HandlerPC
<1>6. hookHandler' = [hookHandler EXCEPT ![h] = v]
  BY <1>1
<1>7. /\ hookHandler' \in [HookHandlers -> Hook!Handler] /\ hookHandler'[h] = v
      /\ \A g \in HookHandlers : g # h => hookHandler'[g] = hookHandler[g]
  BY <1>1, <1>5, <1>6
<1>8. HandlersOK'
  BY <1>1, <1>5, <1>7 DEF HandlersOK, HandlerOK, WebhookInv, Hook!historyVars
<1>9. ASSUME NEW e \in HookEndpoints
      PROVE  /\ IsFiniteSet(Senders(e)')
             /\ hookSends'[e] + Cardinality(Senders(e)') <= hookRow'[e].attempts
  <2>1. /\ IsFiniteSet(Senders(e)) /\ hookSends[e] + Cardinality(Senders(e)) <= hookRow[e].attempts
        /\ hookSends[e] \in Nat /\ hookRow[e].attempts \in Int
    BY DEF WebhookInv, Metered, Hook!TypeOK, Hook!Row
  <2>2. Cardinality(Senders(e)) \in Nat
    BY <2>1, FS_CardinalityType
  <2>3. CASE e = d
    <3>1. Senders(e)' = Senders(e) \cup {h} /\ h \notin Senders(e)
      BY <1>5, <1>7, <2>3 DEF Senders, MaySend
    <3>2. IsFiniteSet(Senders(e)') /\ Cardinality(Senders(e)') = Cardinality(Senders(e)) + 1
      BY <2>1, <3>1, FS_AddElement
    <3>3. hookRow'[e].attempts = hookRow[e].attempts + 1
      BY <1>2, <1>4, <2>3
    <3> HIDE DEF Senders
    <3> QED BY <2>1, <2>2, <3>2, <3>3 DEF Hook!historyVars
  <2>4. CASE e # d
    <3>1. Senders(e)' = Senders(e)
      BY <1>5, <1>7, <2>4 DEF Senders, MaySend
    <3> QED BY <1>4, <2>1, <2>4, <3>1 DEF Hook!historyVars
  <2> QED BY <2>3, <2>4
<1>10. HandlersStep
  BY <1>7, <1>8, <1>9 DEF HandlersStep, Metered
<1> QED BY <1>3, <1>10, Together

LEMMA ClaimStep ==
    ASSUME Hook!WebhookAssumption, WebhookInv, NEW h \in HookHandlers, Hook!Claim(h)
    PROVE  StepOK
<1> DEFINE d == hookHandler[h].d
           n == hookRow[d].attempts + 1
<1>1. /\ hookHandler[h].pc = "received"
      /\ UNCHANGED <<hookPlan, hookActive, hookQueue, hookSweep, hookFaults, hookSwitches, hookSends, hookAccepted>>
  BY DEF Hook!Claim, Hook!bounds, Hook!historyVars
<1>2. RestTyped'
  BY <1>1, RestKept DEF RestTyped
<1>3. d \in HookEndpoints /\ hookRow[d] \in Hook!Row /\ hookRow[d].attempts \in 0 .. HookMaxAttempts
  BY <1>1, AtHand
<1>a. ~(Hook!Claimable(d) /\ Hook!Exhausted(d))
  BY HookFinite, <1>3 DEF Hook!Claimable, Hook!Exhausted, Hook!WebhookAssumption
<1>4. CASE Hook!PaidAuthority(d) /\ Hook!Claimable(d) /\ hookActive[d]
  <2>1. /\ Hook!Put(d, [hookRow[d] EXCEPT !.status = "SENDING", !.attempts = n, !.aged = FALSE])
        /\ hookHandler' = [hookHandler EXCEPT ![h].pc = "claimed", ![h].attempt = n]
        /\ UNCHANGED Hook!moneyVars
    BY <1>a, <1>4 DEF Hook!Claim
  <2> QED BY <1>1, <1>2, <1>4, <2>1, ClaimAttempt DEF Hook!historyVars
<1>5. CASE Hook!PaidAuthority(d) /\ Hook!Claimable(d) /\ ~hookActive[d]
  <2>1. Hook!Put(d, Hook!DeadRow(d, n)) /\ Hook!Refund(d) /\ Hook!Ack(h)
    BY <1>a, <1>5 DEF Hook!Claim
  <2>2. n \in 0 .. HookMaxAttempts /\ n >= hookRow[d].attempts /\ hookRow[d].status \in Hook!Open
    BY HookFinite, <1>3, <1>5 DEF Hook!Claimable, Hook!Open, Hook!Replayable, Hook!WebhookAssumption
  <2>3. RowStep /\ MoneyStep
    BY <1>1, <1>3, <2>1, <2>2, DeadWrite
  <2> QED BY <1>1, <1>2, <2>1, <2>3, Idles, HandlerWrites DEF Hook!historyVars
<1>6. CASE Hook!PaidAuthority(d) /\ Hook!Exhausted(d)
  <2>1. Hook!Put(d, Hook!DeadRow(d, hookRow[d].attempts)) /\ Hook!Refund(d) /\ Hook!Ack(h)
    BY <1>a, <1>6 DEF Hook!Claim
  <2>2. hookRow[d].attempts >= hookRow[d].attempts /\ hookRow[d].status \in Hook!Open
    BY <1>3, <1>6 DEF Hook!Exhausted, Hook!Open
  <2>3. RowStep /\ MoneyStep
    BY <1>1, <1>3, <2>1, <2>2, DeadWrite
  <2> QED BY <1>1, <1>2, <2>1, <2>3, Idles, HandlerWrites DEF Hook!historyVars
<1>7. CASE ~Hook!PaidAuthority(d) \/ (~Hook!Claimable(d) /\ ~Hook!Exhausted(d))
  <2>1. UNCHANGED <<Hook!moneyVars, hookRow>> /\ (Hook!Ack(h) \/ Hook!Goto(h, "deferred"))
    BY <1>7 DEF Hook!Claim
  <2>2. RowStep /\ MoneyStep
    BY <1>1, <2>1, NoWrite
  <2>3. "deferred" \in Hook!HandlerPC \ {"idle", "sent", "claimed", "sending"}
    BY DEF Hook!HandlerPC
  <2> QED BY <1>1, <1>2, <2>1, <2>2, <2>3, Idles, Goes, HandlerWrites DEF Hook!historyVars
<1> QED BY <1>4, <1>5, <1>6, <1>7

\* The row of an attempt that this handler owns is SENDING.
LEMMA Owned ==
    ASSUME Hook!WebhookAssumption, WebhookInv, NEW h \in HookHandlers, hookHandler[h].pc # "idle",
           NEW d, d = hookHandler[h].d, Hook!OwnsAttempt(h)
    PROVE  /\ d \in HookEndpoints /\ hookRow[d] \in Hook!Row /\ hookRow[d].status = "SENDING"
           /\ hookRow[d].status \in Hook!Open /\ hookRow[d].attempts = hookHandler[h].attempt
           /\ hookRow[d].attempts \in 0 .. HookMaxAttempts /\ hookRow[d].attempts >= hookRow[d].attempts
BY AtHand DEF Hook!OwnsAttempt, Hook!Open

\* The row that records a delivery made by its current attempt.
LEMMA DeliveredWrite ==
    ASSUME Hook!WebhookAssumption, WebhookInv, NEW h \in HookHandlers, hookHandler[h].pc = "sent",
           NEW d, d = hookHandler[h].d, Hook!OwnsAttempt(h)
    PROVE  LET r == [hookRow[d] EXCEPT !.status = "DELIVERED", !.due = "null", !.aged = FALSE]
           IN  WriteOK(d, r) /\ r.status = "DELIVERED"
<1> DEFINE r == [hookRow[d] EXCEPT !.status = "DELIVERED", !.due = "null", !.aged = FALSE]
<1>1. d \in HookEndpoints /\ hookRow[d] \in Hook!Row /\ hookRow[d].status = "SENDING" /\ hookRow[d].status \in Hook!Open
      /\ hookRow[d].attempts \in 0 .. HookMaxAttempts /\ hookRow[d].attempts \in hookAccepted[d]
  BY AtHand, Owned DEF HandlerOK
<1>2. /\ r \in Hook!Row /\ r.status = "DELIVERED" /\ r.attempts = hookRow[d].attempts
      /\ r.due = "null" /\ r.aged = FALSE
  BY <1>1 DEF Hook!Row, Hook!Ended
<1> QED BY <1>1, <1>2 DEF WriteOK, RowOK

\* The row that records that the current attempt failed.
LEMMA FailedWrite ==
    ASSUME Hook!WebhookAssumption, WebhookInv, NEW h \in HookHandlers, hookHandler[h].pc # "idle",
           NEW d, d = hookHandler[h].d, Hook!OwnsAttempt(h), NEW t \in {"now", "later"}
    PROVE  LET r == [hookRow[d] EXCEPT !.status = "FAILED", !.due = t]
           IN  WriteOK(d, r) /\ r.status = "FAILED"
<1> DEFINE r == [hookRow[d] EXCEPT !.status = "FAILED", !.due = t]
<1>1. /\ d \in HookEndpoints /\ hookRow[d] \in Hook!Row /\ hookRow[d].status = "SENDING" /\ hookRow[d].status \in Hook!Open
      /\ hookRow[d].attempts \in 0 .. HookMaxAttempts
  BY Owned
<1>2. r \in Hook!Row /\ r.status = "FAILED" /\ r.attempts = hookRow[d].attempts
  BY <1>1 DEF Hook!Row, Hook!Open, Hook!Replayable
<1> QED BY <1>1, <1>2 DEF WriteOK, RowOK, Hook!Ended

LEMMA ValidateStep ==
    ASSUME Hook!WebhookAssumption, WebhookInv, NEW h \in HookHandlers, Hook!ValidateAuthority(h)
    PROVE  StepOK
<1> DEFINE d == hookHandler[h].d
           v == [hookHandler[h] EXCEPT !.pc = "sending"]
<1>1. /\ hookHandler[h].pc = "claimed" /\ hookHandler[h].pc # "idle"
      /\ UNCHANGED <<hookPlan, hookActive, hookQueue, hookSweep, hookFaults, hookSwitches, Hook!historyVars>>
  BY DEF Hook!ValidateAuthority, Hook!bounds
<1>2. RestTyped' /\ UNCHANGED hookAccepted
  BY <1>1, RestKept DEF RestTyped, Hook!historyVars
<1>3. {"failed", "paused"} \subseteq Hook!HandlerPC \ {"idle", "sent", "claimed", "sending"}
  BY DEF Hook!HandlerPC
<1>4. CASE Hook!Goto(h, "sending") /\ UNCHANGED <<Hook!moneyVars, hookRow>>
  <2>1. v \in Hook!Handler /\ v.pc = "sending" /\ v.d = d /\ d \in HookEndpoints
        /\ hookHandler \in [HookHandlers -> Hook!Handler]
    BY <1>1, AtHand DEF Hook!Handler, Hook!HandlerPC
  <2>2. hookHandler' = [hookHandler EXCEPT ![h] = v]
    BY <1>4, <2>1 DEF Hook!Goto
  <2>3. Moves(h, v)
    BY <1>1, <2>1, <2>2 DEF Moves, HandlerOK, MaySend
  <2> QED BY <1>1, <1>2, <1>4, <2>3, NoWrite, HandlerWrites
<1>5. CASE /\ Hook!OwnsAttempt(h) /\ Hook!Put(d, Hook!DeadRow(d, hookRow[d].attempts)) /\ Hook!Refund(d)
           /\ Hook!Goto(h, "failed")
  <2>1. RowStep /\ MoneyStep
    BY <1>1, <1>2, <1>5, Owned, DeadWrite
  <2> QED BY <1>1, <1>2, <1>3, <1>5, <2>1, Goes, HandlerWrites
<1>6. CASE /\ Hook!OwnsAttempt(h) /\ Hook!Put(d, [hookRow[d] EXCEPT !.status = "FAILED", !.due = "now"])
           /\ Hook!Goto(h, "paused") /\ UNCHANGED Hook!moneyVars
  <2>1. RowStep /\ MoneyStep
    BY <1>1, <1>2, <1>6, Owned, FailedWrite, LiveWrite
  <2> QED BY <1>1, <1>2, <1>3, <1>6, <2>1, Goes, HandlerWrites
<1>7. CASE Hook!Goto(h, "failed") /\ UNCHANGED <<Hook!moneyVars, hookRow>>
  <2>1. RowStep /\ MoneyStep
    BY <1>2, <1>7, NoWrite
  <2> QED BY <1>1, <1>2, <1>3, <1>7, <2>1, Goes, HandlerWrites
<1> QED BY <1>4, <1>5, <1>6, <1>7 DEF Hook!ValidateAuthority

\* A request goes out: the handler has used up its attempt.
LEMMA SendStep ==
    ASSUME Hook!WebhookAssumption, WebhookInv, NEW h \in HookHandlers, NEW ok \in BOOLEAN, Hook!Send(h, ok)
    PROVE  StepOK
<1> DEFINE d == hookHandler[h].d
           pc == IF ok THEN "sent" ELSE "failing"
           v == [hookHandler[h] EXCEPT !.pc = pc]
<1>1. /\ hookHandler[h].pc = "sending" /\ hookHandler[h].pc # "idle"
      /\ UNCHANGED <<hookPlan, hookActive, Hook!moneyVars, hookRow, hookQueue, hookSweep, hookFaults, hookSwitches>>
      /\ hookSends' = [hookSends EXCEPT ![d] = @ + 1] /\ Hook!Goto(h, pc)
      /\ hookAccepted' = IF ok THEN [hookAccepted EXCEPT ![d] = @ \cup {hookHandler[h].attempt}] ELSE hookAccepted
  BY DEF Hook!Send, Hook!bounds
<1>2. /\ d \in HookEndpoints /\ hookHandler[h] \in Hook!Handler /\ hookHandler \in [HookHandlers -> Hook!Handler]
      /\ hookHandler[h].attempt \in 0 .. HookMaxAttempts
      /\ hookSends \in [HookEndpoints -> Nat] /\ hookAccepted \in [HookEndpoints -> SUBSET (0 .. HookMaxAttempts)]
  BY <1>1, AtHand DEF WebhookInv, Hook!TypeOK
<1>3. /\ hookSends' \in [HookEndpoints -> Nat] /\ hookAccepted' \in [HookEndpoints -> SUBSET (0 .. HookMaxAttempts)]
      /\ hookSends'[d] = hookSends[d] + 1 /\ \A e \in HookEndpoints : e # d => hookSends'[e] = hookSends[e]
      /\ \A e \in HookEndpoints : hookAccepted[e] \subseteq hookAccepted'[e]
      /\ ok => hookHandler[h].attempt \in hookAccepted'[d]
  BY <1>1, <1>2
<1>4. RestTyped'
  BY <1>1, <1>3, RestKept DEF RestTyped
<1>5. RowStep /\ MoneyStep
  BY <1>1, <1>3, RowsKept, MoneyKept
<1>6. /\ v \in Hook!Handler /\ v.pc = pc /\ v.d = d /\ v.attempt = hookHandler[h].attempt
      /\ pc \in {"sent", "failing"} /\ (pc = "sent" => ok)
  BY <1>2 DEF Hook!Handler, Hook!HandlerPC
<1>7. hookHandler' = [hookHandler EXCEPT ![h] = v]
  BY <1>1, <1>2 DEF Hook!Goto
<1>8. /\ hookHandler' \in [HookHandlers -> Hook!Handler] /\ hookHandler'[h] = v
      /\ \A g \in HookHandlers : g # h => hookHandler'[g] = hookHandler[g]
  BY <1>2, <1>6, <1>7
<1>9. HandlersOK'
  <2>1. v.d \in HookEndpoints /\ (v.pc = "sent" => v.attempt \in hookAccepted'[v.d])
    BY <1>2, <1>3, <1>6
  <2>2. ASSUME NEW g \in HookHandlers, g # h PROVE HandlerOK(hookHandler[g])'
    <3>1. HandlerOK(hookHandler[g])
      BY DEF WebhookInv, HandlersOK
    <3> QED BY <1>3, <1>8, <2>2, <3>1 DEF HandlerOK
  <2> QED BY <1>8, <2>1, <2>2 DEF HandlersOK, HandlerOK
<1>10. ASSUME NEW e \in HookEndpoints
       PROVE  /\ IsFiniteSet(Senders(e)')
              /\ hookSends'[e] + Cardinality(Senders(e)') <= hookRow'[e].attempts
  <2>1. /\ IsFiniteSet(Senders(e)) /\ hookSends[e] + Cardinality(Senders(e)) <= hookRow[e].attempts
        /\ hookSends[e] \in Nat /\ hookRow[e].attempts \in Int
    BY DEF WebhookInv, Metered, Hook!TypeOK, Hook!Row
  <2>2. Cardinality(Senders(e)) \in Nat
    BY <2>1, FS_CardinalityType
  <2>3. CASE e = d
    <3>1. Senders(e)' = Senders(e) \ {h} /\ h \in Senders(e)
      BY <1>1, <1>6, <1>8, <2>3 DEF Senders, MaySend
    <3>2. IsFiniteSet(Senders(e)') /\ Cardinality(Senders(e)') = Cardinality(Senders(e)) - 1
      BY <2>1, <3>1, FS_RemoveElement
    <3> HIDE DEF Senders
    <3> QED BY <1>1, <1>3, <2>1, <2>2, <2>3, <3>2
  <2>4. CASE e # d
    <3>1. Senders(e)' = Senders(e)
      BY <1>6, <1>8, <2>4 DEF Senders, MaySend
    <3> QED BY <1>1, <1>3, <2>1, <2>4, <3>1
  <2> QED BY <2>3, <2>4
<1>11. HandlersStep
  BY <1>8, <1>9, <1>10 DEF HandlersStep, Metered
<1> QED BY <1>4, <1>5, <1>11, Together

\* A handler that writes nothing and goes on or gives its message up.
LEMMA PassesOn ==
    ASSUME Hook!WebhookAssumption, WebhookInv, NEW h \in HookHandlers, hookHandler[h].pc # "idle",
           UNCHANGED <<hookRow, Hook!moneyVars, Hook!historyVars>>, RestTyped',
           \/ Hook!Ack(h)
           \/ \E pc \in {"failing", "failed", "paused", "deferred", "republished"} : Hook!Goto(h, pc)
    PROVE  StepOK
<1>1. RowStep /\ MoneyStep
  BY NoWrite DEF Hook!historyVars
<1>2. CASE Hook!Ack(h)
  BY <1>1, <1>2, Idles, HandlerWrites
<1>3. ASSUME NEW pc \in {"failing", "failed", "paused", "deferred", "republished"}, Hook!Goto(h, pc)
      PROVE  StepOK
  <2>1. pc \in Hook!HandlerPC \ {"idle", "sent", "claimed", "sending"}
    BY DEF Hook!HandlerPC
  <2> QED BY <1>1, <1>3, <2>1, Goes, HandlerWrites
<1> QED BY <1>2, <1>3

\* The counter of faults.
LEMMA FaultCounts ==
    ASSUME WebhookInv, Hook!Fault
    PROVE  hookFaults' \in Nat /\ hookSwitches' = hookSwitches
BY DEF WebhookInv, Hook!TypeOK, Hook!Fault

LEMMA AnswerLostStep ==
    ASSUME Hook!WebhookAssumption, WebhookInv, NEW h \in HookHandlers, Hook!AnswerLost(h)
    PROVE  StepOK
<1>1. RestTyped'
  BY FaultCounts, RestKept DEF RestTyped, Hook!AnswerLost, Hook!historyVars
<1> QED BY <1>1, PassesOn DEF Hook!AnswerLost

LEMMA MarkDeliveredStep ==
    ASSUME Hook!WebhookAssumption, WebhookInv, NEW h \in HookHandlers, Hook!MarkDelivered(h)
    PROVE  StepOK
<1> DEFINE d == hookHandler[h].d
<1>1. /\ hookHandler[h].pc = "sent" /\ hookHandler[h].pc # "idle"
      /\ UNCHANGED <<hookPlan, hookActive, Hook!moneyVars, hookQueue, hookSweep, hookFaults, hookSwitches, Hook!historyVars>>
  BY DEF Hook!MarkDelivered, Hook!bounds
<1>2. RestTyped' /\ UNCHANGED hookAccepted
  BY <1>1, RestKept DEF RestTyped, Hook!historyVars
<1>3. CASE Hook!OwnsAttempt(h)
  <2>1. Hook!Ack(h) /\ Hook!Put(d, [hookRow[d] EXCEPT !.status = "DELIVERED", !.due = "null", !.aged = FALSE])
    BY <1>3 DEF Hook!MarkDelivered
  <2>2. RowStep /\ MoneyStep
    BY <1>1, <1>2, <1>3, <2>1, Owned, DeliveredWrite, LiveWrite
  <2> QED BY <1>1, <1>2, <2>1, <2>2, Idles, HandlerWrites
<1>4. CASE ~Hook!OwnsAttempt(h)
  <2>1. Hook!Goto(h, "failing") /\ UNCHANGED hookRow
    BY <1>4 DEF Hook!MarkDelivered
  <2> QED BY <1>1, <1>2, <2>1, PassesOn
<1> QED BY <1>3, <1>4

LEMMA StoreRaisesStep ==
    ASSUME Hook!WebhookAssumption, WebhookInv, NEW h \in HookHandlers, NEW committed \in BOOLEAN,
           Hook!StoreRaises(h, committed)
    PROVE  StepOK
<1> DEFINE d == hookHandler[h].d
<1>1. /\ hookHandler[h].pc \in {"claimed", "sent"} /\ hookHandler[h].pc # "idle" /\ Hook!Goto(h, "failing")
      /\ UNCHANGED <<hookPlan, hookActive, Hook!moneyVars, hookQueue, hookSweep, hookSwitches, Hook!historyVars>>
      /\ hookFaults' \in Nat
  BY FaultCounts DEF Hook!StoreRaises
<1>2. RestTyped' /\ UNCHANGED hookAccepted
  BY <1>1, RestKept DEF RestTyped, Hook!historyVars
<1>3. CASE committed /\ hookHandler[h].pc = "sent" /\ Hook!OwnsAttempt(h)
  <2>1. Hook!Put(d, [hookRow[d] EXCEPT !.status = "DELIVERED", !.due = "null", !.aged = FALSE])
    BY <1>3 DEF Hook!StoreRaises
  <2>2. RowStep /\ MoneyStep
    BY <1>1, <1>2, <1>3, <2>1, Owned, DeliveredWrite, LiveWrite
  <2>3. "failing" \in Hook!HandlerPC \ {"idle", "sent", "claimed", "sending"}
    BY DEF Hook!HandlerPC
  <2> QED BY <1>1, <1>2, <2>2, <2>3, Goes, HandlerWrites
<1>4. CASE ~(committed /\ hookHandler[h].pc = "sent" /\ Hook!OwnsAttempt(h))
  <2>1. UNCHANGED hookRow
    BY <1>4 DEF Hook!StoreRaises
  <2> QED BY <1>1, <1>2, <2>1, PassesOn
<1> QED BY <1>3, <1>4

LEMMA MarkFailedStep ==
    ASSUME Hook!WebhookAssumption, WebhookInv, NEW h \in HookHandlers, Hook!MarkReplayFailed(h)
    PROVE  StepOK
<1> DEFINE d == hookHandler[h].d
<1>1. /\ hookHandler[h].pc = "failing" /\ hookHandler[h].pc # "idle"
      /\ UNCHANGED <<hookPlan, hookActive, Hook!moneyVars, hookSweep, hookFaults, hookSwitches, Hook!historyVars>>
  BY DEF Hook!MarkReplayFailed, Hook!bounds
<1>2. d \in HookEndpoints
  BY <1>1, AtHand
<1>3. hookQueue' \in [HookEndpoints -> Nat]
  BY <1>2, Queues DEF Hook!MarkReplayFailed, Hook!Nack
<1>4. RestTyped' /\ UNCHANGED hookAccepted
  BY <1>1, <1>3, RestKept DEF RestTyped, Hook!historyVars
<1>5. CASE Hook!OwnsAttempt(h) /\ Hook!Put(d, [hookRow[d] EXCEPT !.status = "FAILED", !.due = "later"])
           /\ Hook!Goto(h, "failed")
  <2>1. RowStep /\ MoneyStep
    BY <1>1, <1>2, <1>4, <1>5, FailedWrite, LiveWrite
  <2>2. "failed" \in Hook!HandlerPC \ {"idle", "sent", "claimed", "sending"}
    BY DEF Hook!HandlerPC
  <2> QED BY <1>1, <1>4, <1>5, <2>1, <2>2, Goes, HandlerWrites
<1>6. CASE UNCHANGED hookRow /\ (Hook!Goto(h, "failed") \/ Hook!Ack(h))
  BY <1>1, <1>4, <1>6, PassesOn
<1> QED BY <1>5, <1>6 DEF Hook!MarkReplayFailed, Hook!Nack

LEMMA DeadLetterStep ==
    ASSUME Hook!WebhookAssumption, WebhookInv, NEW h \in HookHandlers, Hook!DeadLetter(h)
    PROVE  StepOK
<1> DEFINE d == hookHandler[h].d
           n == hookHandler[h].attempt
<1>1. /\ hookHandler[h].pc \in {"failed", "paused"} /\ hookHandler[h].pc # "idle" /\ Hook!Ack(h)
      /\ UNCHANGED <<hookPlan, hookActive, hookQueue, hookSweep, hookFaults, hookSwitches, Hook!historyVars>>
  BY DEF Hook!DeadLetter, Hook!bounds
<1>2. RestTyped' /\ UNCHANGED hookAccepted
  BY <1>1, RestKept DEF RestTyped, Hook!historyVars
<1>3. d \in HookEndpoints /\ hookRow[d] \in Hook!Row /\ RowOK(hookRow[d]) /\ n \in 0 .. HookMaxAttempts
  BY <1>1, AtHand
<1>4. CASE Hook!CanSettle(d, n) /\ hookRow[d].status \in Hook!Open
  <2>1. Hook!Put(d, Hook!DeadRow(d, n)) /\ Hook!Refund(d) /\ n >= hookRow[d].attempts
    BY <1>3, <1>4 DEF Hook!DeadLetter, Hook!CanSettle
  <2>2. RowStep /\ MoneyStep
    BY <1>2, <1>3, <1>4, <2>1, DeadWrite
  <2> QED BY <1>1, <1>2, <2>2, Idles, HandlerWrites
<1>5. CASE Hook!CanSettle(d, n) /\ hookRow[d].status \notin Hook!Open
  <2>1. Hook!Put(d, Hook!DeadRow(d, n)) /\ Hook!Refund(d) /\ hookRow[d].attempts = n /\ hookRow[d].status = "DEAD_LETTERED"
    BY <1>5 DEF Hook!DeadLetter, Hook!CanSettle
  <2>2. hookRow[d].due = "null" /\ hookRow[d].aged = FALSE
    BY <1>3, <2>1 DEF RowOK, Hook!Ended, Hook!Row
  <2>3. Hook!DeadRow(d, n) = hookRow[d]
    BY <1>3, <2>1, <2>2 DEF Hook!DeadRow, Hook!Row
  <2>4. d \in hookRefunds
    BY <1>3, <2>1, Price
  <2>5. UNCHANGED <<hookRow, Hook!moneyVars>>
    <3>1. hookRow \in [HookEndpoints -> Hook!Row]
      BY DEF WebhookInv, Hook!TypeOK
    <3> QED BY <1>3, <2>1, <2>3, <2>4, <3>1 DEF Hook!Put, Hook!Refund, Hook!moneyVars
  <2> QED BY <1>1, <1>2, <2>5, PassesOn
<1>6. CASE ~Hook!CanSettle(d, n)
  <2>1. UNCHANGED <<hookRow, Hook!moneyVars>>
    BY <1>6 DEF Hook!DeadLetter
  <2> QED BY <1>1, <1>2, <2>1, PassesOn
<1> QED BY <1>4, <1>5, <1>6

LEMMA RepublishStep ==
    ASSUME Hook!WebhookAssumption, WebhookInv, NEW h \in HookHandlers,
           Hook!Republish(h) \/ \E taken \in BOOLEAN : Hook!RepublishFails(h, taken)
    PROVE  StepOK
<1> DEFINE d == hookHandler[h].d
<1>1. /\ hookHandler[h].pc # "idle" /\ (Hook!Goto(h, "republished") \/ Hook!Ack(h)) /\ UNCHANGED hookRow
      /\ UNCHANGED <<hookPlan, hookActive, Hook!moneyVars, hookSweep, Hook!historyVars>>
      /\ hookFaults' \in Nat /\ hookSwitches' \in Nat
  BY FaultCounts, RestKept DEF Hook!Republish, Hook!RepublishFails, Hook!MustRepublish, Hook!bounds, RestTyped
<1>2. d \in HookEndpoints
  BY <1>1, AtHand
<1>3. hookQueue' \in [HookEndpoints -> Nat]
  <2>1. CASE Hook!Republish(h)
    BY <1>2, <2>1, Queues DEF Hook!Republish
  <2>2. ASSUME NEW taken \in BOOLEAN, Hook!RepublishFails(h, taken) PROVE hookQueue' \in [HookEndpoints -> Nat]
    <3>1. hookQueue' = [hookQueue EXCEPT ![d] = @ + (IF taken THEN 2 ELSE 1)]
      BY <2>2 DEF Hook!RepublishFails
    <3>2. hookQueue \in [HookEndpoints -> Nat] /\ (IF taken THEN 2 ELSE 1) \in Nat
      BY Queues
    <3> QED BY <1>2, <3>1, <3>2
  <2> QED BY <2>1, <2>2
<1>4. RestTyped'
  BY <1>1, <1>3, RestKept DEF RestTyped, Hook!historyVars
<1> QED BY <1>1, <1>4, PassesOn

\* The row after markQueued.
LEMMA QueuedWrite ==
    ASSUME Hook!WebhookAssumption, WebhookInv, NEW d \in HookEndpoints, Hook!Put(d, Hook!Queued(d)),
           UNCHANGED <<Hook!moneyVars, hookAccepted>>
    PROVE  RowStep /\ MoneyStep
<1> DEFINE r == [hookRow[d] EXCEPT !.status = "QUEUED", !.due = "null", !.aged = FALSE]
<1>1. hookRow \in [HookEndpoints -> Hook!Row] /\ hookRow[d] \in Hook!Row /\ hookRow[d].attempts \in Int
  BY DEF WebhookInv, Hook!TypeOK, Hook!Row
<1>2. CASE hookRow[d].status \in Hook!Replayable
  <2>1. r \in Hook!Row /\ r.status = "QUEUED" /\ r.attempts = hookRow[d].attempts
    BY <1>1 DEF Hook!Row, Hook!Open, Hook!Replayable
  <2>2. hookRow[d].status \in Hook!Open /\ Hook!Put(d, r)
    BY <1>2 DEF Hook!Open, Hook!Queued
  <2>3. WriteOK(d, r)
    BY <1>1, <2>1, <2>2 DEF WriteOK, RowOK, Hook!Ended
  <2> QED BY <2>1, <2>2, <2>3, LiveWrite
<1>3. CASE hookRow[d].status \notin Hook!Replayable
  <2>1. UNCHANGED hookRow
    BY <1>1, <1>3 DEF Hook!Queued, Hook!Put
  <2> QED BY <2>1, NoWrite
<1> QED BY <1>2, <1>3

LEMMA RecordQueuedStep ==
    ASSUME Hook!WebhookAssumption, WebhookInv, NEW h \in HookHandlers, Hook!RecordQueued(h)
    PROVE  StepOK
<1>1. hookHandler[h].pc # "idle" /\ Hook!Put(hookHandler[h].d, Hook!Queued(hookHandler[h].d)) /\ Hook!Ack(h)
      /\ UNCHANGED <<Hook!moneyVars, Hook!historyVars, hookAccepted>>
  BY DEF Hook!RecordQueued, Hook!historyVars
<1>2. RestTyped'
  BY RestKept DEF RestTyped, Hook!RecordQueued, Hook!historyVars, Hook!bounds
<1>3. RowStep /\ MoneyStep
  BY <1>1, AtHand, QueuedWrite
<1> QED BY <1>1, <1>2, <1>3, Idles, HandlerWrites

\* The message is lost or delivered again, or the last write fails.
LEMMA HandlerGivesUp ==
    ASSUME Hook!WebhookAssumption, WebhookInv, NEW h \in HookHandlers,
           Hook!DeadLetterFails(h) \/ Hook!RecordQueuedFails(h) \/ Hook!HandlerStops(h)
    PROVE  StepOK
<1>1. hookHandler[h].pc # "idle" /\ Hook!Ack(h)
      /\ UNCHANGED <<hookPlan, hookActive, Hook!moneyVars, hookRow, hookSweep, Hook!historyVars, hookSwitches>> /\ hookFaults' \in Nat
  BY FaultCounts DEF Hook!DeadLetterFails, Hook!RecordQueuedFails, Hook!HandlerStops, Hook!Nack
<1>2. hookQueue' \in [HookEndpoints -> Nat]
  BY <1>1, AtHand, Queues DEF Hook!DeadLetterFails, Hook!RecordQueuedFails, Hook!HandlerStops, Hook!Nack
<1>3. RestTyped'
  BY <1>1, <1>2, RestKept DEF RestTyped, Hook!historyVars
<1> QED BY <1>1, <1>3, PassesOn

-----------------------------------------------------------------------------
(* The recovery sweep, time and the broker. *)

\* Several rows are written in one transaction.
LEMMA RowsWritten ==
    ASSUME WebhookInv, UNCHANGED hookAccepted, hookRow' \in [HookEndpoints -> Hook!Row],
           \A d \in HookEndpoints : hookRow'[d] = hookRow[d] \/ WriteOK(d, hookRow'[d])
    PROVE  RowStep
<1>1. hookRow \in [HookEndpoints -> Hook!Row] /\ RowsOK /\ Hook!DeliveredWasAccepted
  BY DEF WebhookInv, Hook!TypeOK
<1>2. ASSUME NEW d \in HookEndpoints
      PROVE  /\ RowOK(hookRow'[d]) /\ Fenced(d)
             /\ hookRow'[d].status = "DELIVERED" => hookRow'[d].attempts \in hookAccepted[d]
  <2>1. hookRow[d].attempts \in Int /\ RowOK(hookRow[d])
    BY <1>1 DEF Hook!Row, RowsOK
  <2>2. CASE hookRow'[d] = hookRow[d]
    BY <1>1, <2>1, <2>2 DEF Fenced, Hook!DeliveredWasAccepted
  <2>3. CASE WriteOK(d, hookRow'[d])
    BY <2>3 DEF Fenced, WriteOK, Hook!Open, Hook!Replayable, Hook!Ended
  <2> QED BY <2>2, <2>3
<1> QED BY <1>2 DEF RowStep, RowsOK, RowOK, Hook!DeliveredWasAccepted

\* A step that moves no handler and sends nothing.
LEMMA NobodyMoves ==
    ASSUME WebhookInv, RowStep, MoneyStep, RestTyped', UNCHANGED <<hookHandler, Hook!historyVars>>
    PROVE  StepOK
BY HandlersKept, Together DEF Hook!historyVars

LEMMA SweepClaimStep ==
    ASSUME Hook!WebhookAssumption, WebhookInv, NEW s \in HookSweeps, Hook!SweepClaim(s)
    PROVE  StepOK
<1> DEFINE D == {d \in HookEndpoints : Hook!Recoverable(d)}
           r(d) == [hookRow[d] EXCEPT !.status = IF @ = "SENDING" THEN "FAILED" ELSE @,
                                      !.due = "later", !.aged = FALSE]
<1>1. /\ UNCHANGED <<hookPlan, hookActive, Hook!moneyVars, hookQueue, hookHandler, hookFaults, hookSwitches, Hook!historyVars>>
      /\ hookRow' = [d \in HookEndpoints |-> IF d \in D THEN r(d) ELSE hookRow[d]]
      /\ hookSweep' = [hookSweep EXCEPT ![s] = [todo |-> D, sent |-> HookNoDelivery]]
  BY DEF Hook!SweepClaim, Hook!bounds
<1>2. hookRow \in [HookEndpoints -> Hook!Row] /\ hookSweep \in [HookSweeps -> Hook!Sweep]
  BY DEF WebhookInv, Hook!TypeOK
<1>3. ASSUME NEW d \in D
      PROVE  WriteOK(d, r(d)) /\ r(d).status \in Hook!Replayable
  <2>1. hookRow[d] \in Hook!Row /\ hookRow[d].attempts \in Int /\ hookRow[d].status \in Hook!Open /\ d \in HookEndpoints
    BY <1>2 DEF Hook!Recoverable, Hook!Open, Hook!Replayable, Hook!Row
  <2>2. /\ r(d) \in Hook!Row /\ r(d).status = IF hookRow[d].status = "SENDING" THEN "FAILED" ELSE hookRow[d].status
        /\ r(d).attempts = hookRow[d].attempts
    BY <2>1 DEF Hook!Row, Hook!Open, Hook!Replayable
  <2> QED BY <2>1, <2>2 DEF WriteOK, RowOK, Hook!Open, Hook!Replayable, Hook!Ended
<1>4. /\ hookRow' \in [HookEndpoints -> Hook!Row]
      /\ \A d \in HookEndpoints : hookRow'[d] = hookRow[d] \/ (WriteOK(d, hookRow'[d]) /\ hookRow'[d].status \in Hook!Replayable)
  <2>1. \A d \in HookEndpoints : (IF d \in D THEN r(d) ELSE hookRow[d]) \in Hook!Row
    BY <1>2, <1>3 DEF WriteOK
  <2>2. \A d \in HookEndpoints : hookRow'[d] = IF d \in D THEN r(d) ELSE hookRow[d]
    BY <1>1
  <2> HIDE DEF D, r
  <2> QED BY <1>1, <1>3, <2>1, <2>2
<1>5. RowStep
  BY <1>1, <1>4, RowsWritten DEF Hook!historyVars
<1>6. MoneyStep
  BY <1>1, <1>4, MoneyKept DEF WriteOK, Hook!Open, Hook!Replayable
<1>7. hookSweep' \in [HookSweeps -> Hook!Sweep]
  <2>1. [todo |-> D, sent |-> HookNoDelivery] \in Hook!Sweep
    BY DEF Hook!Sweep
  <2> HIDE DEF D
  <2> QED BY <1>1, <1>2, <2>1
<1>8. RestTyped'
  BY <1>1, <1>7, RestKept DEF RestTyped, Hook!historyVars
<1> QED BY <1>1, <1>5, <1>6, <1>8, NobodyMoves

\* A sweep publishes what it claimed, or stops.
LEMMA SweepSendStep ==
    ASSUME Hook!WebhookAssumption, WebhookInv, NEW s \in HookSweeps,
           \/ Hook!SweepStops(s)
           \/ \E d \in HookEndpoints : Hook!SweepPublish(s, d)
           \/ \E d \in HookEndpoints, taken \in BOOLEAN : Hook!SweepPublishFails(s, d, taken)
    PROVE  StepOK
<1>1. /\ UNCHANGED <<hookPlan, hookActive, Hook!moneyVars, hookRow, hookHandler, Hook!historyVars>>
      /\ hookFaults' \in Nat /\ hookSwitches' \in Nat
  BY FaultCounts, RestKept DEF Hook!SweepStops, Hook!SweepPublish, Hook!SweepPublishFails, Hook!bounds, RestTyped
<1>2. hookQueue' \in [HookEndpoints -> Nat]
  BY Queues DEF Hook!SweepStops, Hook!SweepPublish, Hook!SweepPublishFails
<1>3. hookSweep' \in [HookSweeps -> Hook!Sweep]
  <2>1. hookSweep \in [HookSweeps -> Hook!Sweep]
    BY RestKept DEF RestTyped
  <2>2. CASE Hook!SweepStops(s)
    BY <2>1, <2>2 DEF Hook!SweepStops, Hook!Sweep, Hook!IdleSweep
  <2>3. ASSUME NEW d \in HookEndpoints, Hook!SweepPublish(s, d) PROVE hookSweep' \in [HookSweeps -> Hook!Sweep]
    BY <2>1, <2>3 DEF Hook!SweepPublish, Hook!Sweep
  <2>4. ASSUME NEW d \in HookEndpoints, NEW taken \in BOOLEAN, Hook!SweepPublishFails(s, d, taken)
        PROVE  hookSweep' \in [HookSweeps -> Hook!Sweep]
    BY <2>1, <2>4 DEF Hook!SweepPublishFails, Hook!Sweep
  <2> QED BY <2>2, <2>3, <2>4
<1>4. RestTyped'
  BY <1>1, <1>2, <1>3, RestKept DEF RestTyped, Hook!historyVars
<1>5. RowStep /\ MoneyStep
  BY <1>1, NoWrite DEF Hook!historyVars
<1> QED BY <1>1, <1>4, <1>5, NobodyMoves

LEMMA SweepMarkStep ==
    ASSUME Hook!WebhookAssumption, WebhookInv, NEW s \in HookSweeps, Hook!SweepMarkQueued(s)
    PROVE  StepOK
<1>1. /\ UNCHANGED <<hookPlan, hookActive, Hook!moneyVars, hookQueue, hookHandler, hookFaults, hookSwitches, Hook!historyVars>>
      /\ hookSweep[s].sent # HookNoDelivery /\ Hook!Put(hookSweep[s].sent, Hook!Queued(hookSweep[s].sent))
      /\ hookSweep' = [hookSweep EXCEPT ![s].sent = HookNoDelivery]
  BY DEF Hook!SweepMarkQueued, Hook!bounds
<1>2. hookSweep \in [HookSweeps -> Hook!Sweep]
  BY RestKept DEF RestTyped
<1>3. hookSweep' \in [HookSweeps -> Hook!Sweep] /\ hookSweep[s].sent \in HookEndpoints
  BY <1>1, <1>2 DEF Hook!Sweep
<1>4. RestTyped'
  BY <1>1, <1>3, RestKept DEF RestTyped, Hook!historyVars
<1>5. RowStep /\ MoneyStep
  BY <1>1, <1>3, QueuedWrite DEF Hook!historyVars
<1> QED BY <1>1, <1>4, <1>5, NobodyMoves

\* Time passes for one row.
LEMMA TimePasses ==
    ASSUME Hook!WebhookAssumption, WebhookInv, NEW d \in HookEndpoints,
           Hook!BecomesDue(d) \/ Hook!LeaseEnds(d) \/ Hook!LeaseEndsEarly(d)
    PROVE  StepOK
<1>1. /\ UNCHANGED <<hookPlan, hookActive, Hook!moneyVars, hookQueue, hookHandler, hookSweep, Hook!historyVars, hookAccepted>>
      /\ hookFaults' \in Nat /\ hookSwitches' \in Nat
  BY FaultCounts, RestKept DEF Hook!BecomesDue, Hook!LeaseEnds, Hook!LeaseEndsEarly, Hook!Ages, Hook!bounds, Hook!historyVars, RestTyped
<1>2. RestTyped'
  BY <1>1, RestKept DEF RestTyped, Hook!historyVars
<1>3. hookRow[d] \in Hook!Row /\ RowOK(hookRow[d]) /\ hookRow[d].attempts \in Int
  BY DEF WebhookInv, Hook!TypeOK, RowsOK, Hook!Row
<1>4. CASE Hook!BecomesDue(d)
  <2> DEFINE r == [hookRow[d] EXCEPT !.due = "now"]
  <2>1. Hook!Put(d, r) /\ hookRow[d].due = "later"
    BY <1>4 DEF Hook!BecomesDue
  <2>2. hookRow[d].status \in Hook!Open
    BY <1>3, <2>1 DEF RowOK, Hook!NoRow, Hook!Row
  <2>3. r \in Hook!Row /\ r.status = hookRow[d].status /\ r.attempts = hookRow[d].attempts
    BY <1>3 DEF Hook!Row
  <2>4. WriteOK(d, r) /\ r.status # "DEAD_LETTERED"
    BY <1>3, <2>2, <2>3 DEF WriteOK, RowOK, Hook!Open, Hook!Replayable, Hook!Ended
  <2> QED BY <1>1, <1>2, <2>1, <2>4, LiveWrite, NobodyMoves
<1>5. CASE Hook!Ages(d)
  <2> DEFINE r == [hookRow[d] EXCEPT !.aged = TRUE]
  <2>1. Hook!Put(d, r) /\ hookRow[d].status \in {"SENDING", "QUEUED"}
    BY <1>5 DEF Hook!Ages
  <2>2. r \in Hook!Row /\ r.status = hookRow[d].status /\ r.attempts = hookRow[d].attempts
    BY <1>3 DEF Hook!Row
  <2>3. WriteOK(d, r) /\ r.status # "DEAD_LETTERED"
    BY <1>3, <2>1, <2>2 DEF WriteOK, RowOK, Hook!Open, Hook!Replayable, Hook!Ended
  <2> QED BY <1>1, <1>2, <2>1, <2>3, LiveWrite, NobodyMoves
<1> QED BY <1>4, <1>5 DEF Hook!LeaseEnds, Hook!LeaseEndsEarly

LEMMA BrokerStep ==
    ASSUME Hook!WebhookAssumption, WebhookInv, NEW d \in HookEndpoints, Hook!BrokerLoses(d)
    PROVE  StepOK
<1>1. UNCHANGED <<hookPlan, hookActive, Hook!moneyVars, hookRow, hookHandler, hookSweep, Hook!historyVars, hookAccepted, hookSwitches>>
      /\ hookFaults' \in Nat
  BY FaultCounts DEF Hook!BrokerLoses, Hook!historyVars
<1>2. hookQueue' \in [HookEndpoints -> Nat]
  <2>1. hookQueue \in [HookEndpoints -> Nat] /\ hookQueue[d] - 1 \in Nat
    BY Queues DEF Hook!BrokerLoses
  <2> QED BY <2>1 DEF Hook!BrokerLoses
<1>3. RestTyped'
  BY <1>1, <1>2, RestKept DEF RestTyped, Hook!historyVars
<1> QED BY <1>1, <1>3, NoWrite, NobodyMoves

-----------------------------------------------------------------------------
(* The API. *)

\* The event is the first one, so nothing is owed yet and nobody sends.
LEMMA EnqueueStep ==
    ASSUME Hook!WebhookAssumption, WebhookInv, Hook!EnqueueEvent
    PROVE  StepOK
<1> DEFINE D == {e \in HookEndpoints : hookActive[e]}
           new == [Hook!NoRow EXCEPT !.status = "PENDING", !.due = "now"]
<1>1. /\ \A e \in HookEndpoints : hookRow[e].status = "NONE"
      /\ hookCredits >= HookCost * Cardinality(D) /\ hookCredits' = hookCredits - HookCost * Cardinality(D)
      /\ hookDebits' = D /\ hookRefunds' = hookRefunds
      /\ hookRow' = [e \in HookEndpoints |-> IF e \in D THEN new ELSE hookRow[e]]
      /\ UNCHANGED <<hookPlan, hookActive, hookQueue, hookHandler, hookSweep, hookFaults, hookSwitches, Hook!historyVars>>
  BY HookCardinality DEF Hook!EnqueueEvent, Hook!bounds
<1>2. RestTyped' /\ UNCHANGED hookAccepted
  BY <1>1, RestKept DEF RestTyped, Hook!historyVars
<1>3. hookRow \in [HookEndpoints -> Hook!Row] /\ \A e \in HookEndpoints : hookRow[e] = Hook!NoRow
  BY <1>1 DEF WebhookInv, Hook!TypeOK, RowsOK, RowOK
<1>4. new \in Hook!Row /\ new.status = "PENDING" /\ new.attempts = 0
  <2>1. 0 \in 0 .. HookMaxAttempts /\ "PENDING" \in Hook!Open
    BY HookFinite DEF Hook!WebhookAssumption, Hook!Open, Hook!Replayable
  <2> QED BY <2>1 DEF Hook!NoRow, Hook!Row
<1>5. /\ hookRow' \in [HookEndpoints -> Hook!Row]
      /\ \A e \in HookEndpoints : hookRow'[e] = IF e \in D THEN new ELSE Hook!NoRow
  <2> HIDE DEF D, new
  <2> QED BY <1>1, <1>3, <1>4
<1>6. RowStep
  <2>1. Hook!NoRow.status = "NONE" /\ Hook!NoRow.attempts = 0
    BY DEF Hook!NoRow
  <2>2. RowsOK' /\ Hook!DeliveredWasAccepted' /\ \A e \in HookEndpoints : Fenced(e)
    <3> HIDE DEF D, new
    <3> QED BY <1>3, <1>4, <1>5, <2>1 DEF RowsOK, RowOK, Hook!Ended, Hook!DeliveredWasAccepted, Fenced
  <2> QED BY <1>5, <2>2 DEF RowStep
<1>7. MoneyStep
  <2>1. hookDebits = {} /\ hookRefunds = {}
    BY <1>1, Price
  <2>2. hookDebits' \ hookRefunds' = D
    BY <1>1, <2>1
  <2>3. IsFiniteSet(D) /\ Cardinality(D) \in Nat
    <3>1. D \subseteq HookEndpoints
      OBVIOUS
    <3> HIDE DEF D
    <3> QED BY <3>1, Price, FS_Subset, FS_CardinalityType
  <2>4. HookCost * Cardinality(D) \in Nat
    BY <2>3, Price, Times
  <2>5. hookCredits' \in Nat /\ hookCredits' + HookCost * Cardinality(D) = hookCredits
    <3> HIDE DEF D
    <3> QED BY <1>1, <2>4, Price
  <2>6. hookCredits = HookInitialCredits
    <3>1. Kept = {} /\ Cardinality(Kept) = 0
      BY <2>1, FS_EmptySet DEF Kept
    <3> QED BY <3>1, Price
  <2>7. \A e \in HookEndpoints : /\ e \in hookDebits' <=> hookRow'[e].status # "NONE"
                                 /\ e \in hookRefunds' <=> hookRow'[e].status = "DEAD_LETTERED"
    <3>1. Hook!NoRow.status = "NONE"
      BY DEF Hook!NoRow
    <3> HIDE DEF D, new
    <3> QED BY <1>1, <1>4, <1>5, <2>1, <3>1
  <2>8. hookDebits' \subseteq HookEndpoints /\ hookRefunds' \subseteq HookEndpoints
    BY <1>1, <2>1
  <2> QED BY HookCardinality, <2>2, <2>5, <2>6, <2>7, <2>8 DEF MoneyStep, Hook!PaidDelivery
<1> QED BY <1>1, <1>2, <1>6, <1>7, NobodyMoves

LEMMA CloseStep ==
    ASSUME Hook!WebhookAssumption, WebhookInv, Hook!CloseAccount
    PROVE  StepOK
<1> DEFINE D == {d \in HookEndpoints : hookRow[d].status \in Hook!Open}
           r(d) == [hookRow[d] EXCEPT !.status = "DEAD_LETTERED", !.due = "null", !.aged = FALSE]
<1>1. /\ hookPlan' = "CLOSED" /\ hookActive' = [e \in HookEndpoints |-> FALSE]
      /\ hookRow' = [d \in HookEndpoints |-> IF d \in D THEN r(d) ELSE hookRow[d]]
      /\ hookDebits' = hookDebits /\ hookRefunds' = hookRefunds \cup D
      /\ hookCredits' = hookCredits + HookCost * Cardinality(D \ hookRefunds)
      /\ UNCHANGED <<hookQueue, hookHandler, hookSweep, hookFaults, hookSwitches, Hook!historyVars>>
  BY HookCardinality DEF Hook!CloseAccount, Hook!bounds
<1>2. RestTyped' /\ UNCHANGED hookAccepted
  BY <1>1, RestKept DEF RestTyped, Hook!historyVars
<1>3. hookRow \in [HookEndpoints -> Hook!Row]
  BY DEF WebhookInv, Hook!TypeOK
<1>4. ASSUME NEW d \in D
      PROVE  WriteOK(d, r(d)) /\ r(d).status = "DEAD_LETTERED"
  <2>1. hookRow[d] \in Hook!Row /\ hookRow[d].attempts \in Int /\ hookRow[d].status \in Hook!Open
    BY <1>3 DEF Hook!Row
  <2>2. /\ r(d) \in Hook!Row /\ r(d).status = "DEAD_LETTERED" /\ r(d).due = "null" /\ r(d).aged = FALSE
        /\ r(d).attempts = hookRow[d].attempts
    BY <2>1 DEF Hook!Row, Hook!Ended
  <2> QED BY <2>1, <2>2 DEF WriteOK, RowOK
<1>5. /\ hookRow' \in [HookEndpoints -> Hook!Row]
      /\ \A d \in D : hookRow'[d] = r(d)
      /\ \A d \in HookEndpoints \ D : hookRow'[d] = hookRow[d]
      /\ D \in SUBSET HookEndpoints
  <2>1. \A d \in D : d \in HookEndpoints /\ r(d) \in Hook!Row
    BY <1>4 DEF WriteOK
  <2> HIDE DEF D, r
  <2> QED BY <1>1, <1>3, <2>1
<1>6. RowStep
  <2>1. \A d \in HookEndpoints : hookRow'[d] = hookRow[d] \/ WriteOK(d, hookRow'[d])
    <3> HIDE DEF D, r
    <3> QED BY <1>4, <1>5
  <2> QED BY <1>2, <1>5, <2>1, RowsWritten
<1>7. MoneyStep
  <2>1. D \ hookRefunds = D
    BY Price DEF Hook!Open, Hook!Replayable
  <2>2. \A d \in D : hookRow[d].status \in Hook!Open /\ hookRow'[d].status = "DEAD_LETTERED"
    BY <1>4, <1>5
  <2> HIDE DEF D, r
  <2> QED BY <1>1, <1>5, <2>1, <2>2, MoneyReturned
<1> QED BY <1>1, <1>2, <1>6, <1>7, NobodyMoves

LEMMA SwitchStep ==
    ASSUME Hook!WebhookAssumption, WebhookInv,
           \/ \E e \in HookEndpoints, on \in BOOLEAN : Hook!SetEndpointActive(e, on)
           \/ \E p \in {"PAID", "PAUSED"} : Hook!ChangePlan(p)
    PROVE  StepOK
<1>1. UNCHANGED <<Hook!moneyVars, hookRow, hookQueue, hookHandler, hookSweep, hookFaults, Hook!historyVars, hookAccepted>>
  BY DEF Hook!SetEndpointActive, Hook!ChangePlan, Hook!Switch, Hook!historyVars
<1>2. /\ hookPlan' \in {"PAID", "PAUSED", "CLOSED"} /\ hookActive' \in [HookEndpoints -> BOOLEAN]
      /\ hookSwitches' \in Nat
  BY RestKept DEF RestTyped, Hook!SetEndpointActive, Hook!ChangePlan, Hook!Switch
<1>3. RestTyped'
  BY <1>1, <1>2, RestKept DEF RestTyped, Hook!historyVars
<1> QED BY <1>1, <1>3, NoWrite, NobodyMoves

-----------------------------------------------------------------------------
(* The invariant and the theorems. *)

LEMMA WebhookInit ==
    ASSUME Hook!WebhookAssumption, Hook!Init
    PROVE  WebhookInv
<1>1. /\ Hook!NoRow \in Hook!Row /\ Hook!NoRow.status = "NONE" /\ Hook!NoRow.attempts = 0
      /\ Hook!IdleHandler \in Hook!Handler /\ Hook!IdleHandler.pc = "idle" /\ Hook!IdleSweep \in Hook!Sweep
      /\ HookMaxAttempts \in Nat /\ HookCost \in Nat /\ HookInitialCredits \in Nat
  BY HookFinite DEF Hook!WebhookAssumption, Hook!NoRow, Hook!Row, Hook!IdleHandler, Hook!Handler, Hook!HandlerPC, Hook!IdleSweep, Hook!Sweep
<1>2. Hook!TypeOK /\ RowsOK /\ HandlersOK /\ Hook!DeliveredWasAccepted
  BY <1>1 DEF Hook!Init, Hook!TypeOK, RowsOK, RowOK, Hook!Ended, HandlersOK, HandlerOK, Hook!DeliveredWasAccepted
<1>3. Metered
  <2>1. \A d \in HookEndpoints : Senders(d) = {}
    BY <1>1 DEF Hook!Init, Senders, MaySend
  <2>2. IsFiniteSet({}) /\ Cardinality({}) = 0
    BY FS_EmptySet
  <2>3. \A d \in HookEndpoints : hookSends[d] = 0 /\ hookRow[d].attempts = 0
    BY <1>1 DEF Hook!Init
  <2> QED BY <2>1, <2>2, <2>3 DEF Metered
<1>4. Hook!PaidDelivery
  <2>1. hookDebits \ hookRefunds = {} /\ Cardinality({}) = 0
    BY FS_EmptySet DEF Hook!Init
  <2> QED BY HookCardinality, <1>1, <2>1 DEF Hook!Init, Hook!PaidDelivery
<1> QED BY <1>2, <1>3, <1>4 DEF WebhookInv

LEMMA WebhookNext ==
    ASSUME Hook!WebhookAssumption, WebhookInv, Hook!Next
    PROVE  StepOK
<1>1. CASE Hook!ApiStep
  BY <1>1, EnqueueStep, CloseStep, SwitchStep DEF Hook!ApiStep
<1>2. ASSUME NEW h \in HookHandlers, Hook!HandlerStep(h)
      PROVE  StepOK
  BY <1>2, ReceiveStep, ClaimStep, ValidateStep, SendStep, MarkDeliveredStep, MarkFailedStep,
     DeadLetterStep, RepublishStep, RecordQueuedStep DEF Hook!HandlerStep
<1>3. ASSUME NEW h \in HookHandlers, Hook!HandlerFault(h)
      PROVE  StepOK
  BY <1>3, AnswerLostStep, StoreRaisesStep, RepublishStep, HandlerGivesUp DEF Hook!HandlerFault
<1>4. ASSUME NEW s \in HookSweeps, Hook!SweepStep(s) \/ Hook!SweepFault(s)
      PROVE  StepOK
  BY <1>4, SweepClaimStep, SweepSendStep, SweepMarkStep DEF Hook!SweepStep, Hook!SweepFault
<1>5. ASSUME NEW d \in HookEndpoints, Hook!TimeStep(d) \/ Hook!LeaseEndsEarly(d) \/ Hook!BrokerLoses(d)
      PROVE  StepOK
  BY <1>5, TimePasses, BrokerStep DEF Hook!TimeStep
<1> QED BY <1>1, <1>2, <1>3, <1>4, <1>5 DEF Hook!Next

\* The invariant is kept by every step and by stuttering.
LEMMA WebhookStep ==
    ASSUME Hook!WebhookAssumption, WebhookInv, [Hook!Next]_(Hook!whVars)
    PROVE  WebhookInv'
<1>1. CASE Hook!Next
  BY <1>1, WebhookNext DEF StepOK
<1>2. CASE UNCHANGED Hook!whVars
  BY HookCardinality, <1>2 DEF Hook!whVars, WebhookInv, Hook!TypeOK, RowsOK, RowOK, HandlersOK, HandlerOK, Metered, Senders,
     MaySend, Hook!PaidDelivery, Hook!DeliveredWasAccepted
<1> QED BY <1>1, <1>2

LEMMA WebhookHolds == ASSUME Hook!WebhookAssumption PROVE Hook!Spec => []WebhookInv
BY WebhookInit, WebhookStep, PTL DEF Hook!Spec

\* Every variable keeps its type, and no row counts more attempts than
\* WEBHOOK_RETRY_MAX_ATTEMPTS allows.
THEOREM WebhookTypeCorrect == ASSUME Hook!WebhookAssumption PROVE Hook!Spec => []Hook!TypeOK
<1>1. WebhookInv => Hook!TypeOK
  BY DEF WebhookInv
<1> QED BY <1>1, WebhookHolds, PTL

\* The wallet and the ledger: a delivery is paid for as long as it exists and
\* its price is returned exactly when it is dead-lettered, whoever ends it.
THEOREM DeliveriesArePaid == ASSUME Hook!WebhookAssumption PROVE Hook!Spec => []Hook!PaidDelivery
<1>1. WebhookInv => Hook!PaidDelivery
  BY DEF WebhookInv
<1> QED BY <1>1, WebhookHolds, PTL

\* No delivery is requested more often than attempts were claimed for it.
THEOREM RequestsAreClaimed == ASSUME Hook!WebhookAssumption PROVE Hook!Spec => []Hook!SendsAreClaimed
<1>1. WebhookInv => Hook!SendsAreClaimed
  <2> SUFFICES ASSUME WebhookInv, NEW d \in HookEndpoints PROVE hookSends[d] <= hookRow[d].attempts
    BY DEF Hook!SendsAreClaimed
  <2>1. /\ IsFiniteSet(Senders(d)) /\ hookSends[d] + Cardinality(Senders(d)) <= hookRow[d].attempts
        /\ hookSends[d] \in Nat /\ hookRow[d].attempts \in Int
    BY DEF WebhookInv, Metered, Hook!TypeOK, Hook!Row
  <2>2. Cardinality(Senders(d)) \in Nat
    BY <2>1, FS_CardinalityType
  <2> HIDE DEF Senders
  <2> QED BY <2>1, <2>2
<1> QED BY <1>1, WebhookHolds, PTL

\* A delivery is DELIVERED only when the receiver accepted the request of the
\* very attempt the row records.
THEOREM DeliveriesWereAccepted == ASSUME Hook!WebhookAssumption PROVE Hook!Spec => []Hook!DeliveredWasAccepted
<1>1. WebhookInv => Hook!DeliveredWasAccepted
  BY DEF WebhookInv
<1> QED BY <1>1, WebhookHolds, PTL

LEMMA WebhookSteps ==
    ASSUME Hook!WebhookAssumption, WebhookInv, [Hook!Next]_(Hook!whVars)
    PROVE  \A d \in HookEndpoints : Fenced(d)
<1>1. CASE Hook!Next
  BY <1>1, WebhookNext DEF StepOK
<1>2. CASE UNCHANGED Hook!whVars
  BY <1>2, RowsKept DEF Hook!whVars, RowStep
<1> QED BY <1>1, <1>2

\* No late markQueued, retry or second settlement changes a delivery that was
\* delivered or dead-lettered, and attempts never go back.
THEOREM EndedStays == ASSUME Hook!WebhookAssumption PROVE Hook!Spec => Hook!EndedIsFinal
<1>1. WebhookInv /\ [Hook!Next]_(Hook!whVars) => [Hook!SparesEnded]_(Hook!whVars)
  BY WebhookSteps DEF Fenced, Hook!SparesEnded
<1> QED BY <1>1, WebhookHolds, PTL DEF Hook!Spec, Hook!EndedIsFinal

\* While a sender's lease is live no other handler starts an attempt.
THEOREM LeaseHolds == ASSUME Hook!WebhookAssumption PROVE Hook!Spec => Hook!LeaseExcludesSender
<1>1. WebhookInv /\ [Hook!Next]_(Hook!whVars) => [Hook!SparesSender]_(Hook!whVars)
  BY WebhookSteps DEF Fenced, Hook!SparesSender
<1> QED BY <1>1, WebhookHolds, PTL DEF Hook!Spec, Hook!LeaseExcludesSender

-----------------------------------------------------------------------------
(* Time cards and payroll periods. *)

LEMMA PayCardinality == \A S : Pay!Cardinality(S) = Cardinality(S)
BY DEF Pay!Cardinality, Cardinality

(***************************************************************************)
(* The periods are the windows [Start, End) of a line, one after the other. *)
(***************************************************************************)

\* A later multiple is at least one length further.
LEMMA Further ==
  ASSUME NEW L \in Nat, NEW a \in Int, NEW b \in Int, a < b
  PROVE  a * L + L =< b * L
<1>1. PICK d \in Nat : d = b - a - 1
  BY SMT
<1>2. d * L \in Nat
  BY <1>1, SMT
<1>3. b = a + 1 + d
  BY <1>1, SMT
<1>4. b * L = a * L + L + d * L
  BY <1>1, <1>3, SMT
<1>. QED
  BY <1>2, <1>4, SMT

\* The windows lie in the horizon, are not empty and do not meet.
LEMMA Windows ==
  ASSUME Pay!PayrollAssumption
  PROVE  /\ Pay!Horizon \in Nat
         /\ \A p \in Pay!Periods : /\ p \in Nat /\ p # Pay!Unset
                                   /\ Pay!Start(p) \in Int /\ Pay!End(p) \in Int
                                   /\ 0 =< Pay!Start(p) /\ Pay!Start(p) < Pay!End(p) /\ Pay!End(p) =< Pay!Horizon
         /\ \A p, q \in Pay!Periods : p # q => Pay!End(p) =< Pay!Start(q) \/ Pay!End(q) =< Pay!Start(p)
<1>1. PICK L \in Nat : L = CardsPeriodLength /\ L > 0
  BY DEF Pay!PayrollAssumption
<1>2. CardsNumPeriods \in Nat
  BY DEF Pay!PayrollAssumption
<1>3. \A p \in Pay!Periods : p \in Nat /\ p >= 1 /\ p =< CardsNumPeriods /\ p # Pay!Unset
  BY <1>2 DEF Pay!Periods, Pay!Unset
<1>4. Pay!Horizon \in Nat /\ Pay!Horizon = CardsNumPeriods * L
  BY <1>1, <1>2, SMT DEF Pay!Horizon
<1>5. ASSUME NEW p \in Pay!Periods
      PROVE  /\ Pay!Start(p) = (p - 1) * L /\ Pay!End(p) = p * L
             /\ Pay!Start(p) \in Nat /\ Pay!End(p) \in Nat /\ Pay!End(p) = Pay!Start(p) + L
  <2>1. PICK k \in Nat : k = p - 1
    BY <1>3
  <2>2. k * L \in Nat /\ p = k + 1
    BY <1>1, <1>3, <2>1, SMT
  <2>3. p * L = k * L + L
    BY <1>1, <2>1, <2>2, SMT
  <2>. QED
    BY <1>1, <2>1, <2>2, <2>3, SMT DEF Pay!Start, Pay!End
<1>6. ASSUME NEW p \in Pay!Periods PROVE Pay!End(p) =< Pay!Horizon
  <2>1. CASE p = CardsNumPeriods
    BY <1>4, <1>5, <2>1
  <2>2. CASE p < CardsNumPeriods
    BY <1>1, <1>2, <1>3, <1>4, <1>5, <2>2, Further
  <2>. QED
    BY <1>2, <1>3, <2>1, <2>2
<1>7. ASSUME NEW p \in Pay!Periods, NEW q \in Pay!Periods, p < q PROVE Pay!End(p) =< Pay!Start(q)
  <2>1. p * L + L =< q * L
    BY <1>1, <1>3, <1>7, Further
  <2>. QED
    BY <1>1, <1>5, <2>1
<1>. QED
  BY <1>1, <1>3, <1>4, <1>5, <1>6, <1>7

\* An instant is in one window at most.
LEMMA CoversOne ==
  ASSUME Pay!PayrollAssumption, NEW p \in Pay!Periods, NEW q \in Pay!Periods, NEW t \in Int,
         Pay!Covers(p, t), Pay!Covers(q, t)
  PROVE  p = q
  BY Windows DEF Pay!Covers

(***************************************************************************)
(* The inductive invariant.                                                *)
(***************************************************************************)
Types ==
    /\ Pay!TypeOK
    /\ cardsEntries \in [Pay!Periods -> SUBSET Pay!EntryRows]
    /\ \E k \in 0 .. CardsNumPeriods : cardsNow = k * CardsPeriodLength

\* Periods begin with the policy; a closed card ends after it begins, and an
\* assigned one began in its period.
CardsRowOK(r) ==
    /\ r.out # Pay!Unset => r.in < r.out
    /\ r.period # Pay!Unset => Pay!Covers(r.period, r.in)

CardsRowsOK ==
    /\ \A p \in Pay!Periods : cardsPeriod[p] # "NONE" => cardsEffective # Pay!Unset /\ cardsEffective =< Pay!Start(p)
    /\ \A c \in CardsCards : Pay!Exists(c) => CardsRowOK(cardsCard[c])

\* A revision of a card is decided once, and not by its employee.
DecisionsOK ==
    /\ \A d \in cardsDecision : Pay!Exists(d.card) /\ d.by # cardsCard[d.card].user
    /\ \A d, f \in cardsDecision : (d.card = f.card /\ d.rev = f.rev) => d = f

\* e is the entry of card c in period p: the card is the period's, its current
\* revision was approved, and the entry says what the card says.
PaidCard(p, c, e) ==
    /\ Pay!Exists(c) /\ cardsCard[c].period = p /\ cardsCard[c].out # Pay!Unset
    /\ \E u \in CardsUsers :
         /\ [card |-> c, rev |-> cardsCard[c].rev, by |-> u, verdict |-> "APPROVED"] \in cardsDecision
         /\ e = [src |-> "TIME_CARD", id |-> c, rev |-> cardsCard[c].rev, user |-> cardsCard[c].user,
                 minutes |-> Pay!Minutes(cardsCard[c]), by |-> u]

\* e is the entry of amendment a in period p.
PaidAmendment(p, a, e) ==
    /\ cardsAmendment[a] # None
    /\ cardsAmendment[a].into = p /\ cardsAmendment[a].verdict = "APPROVED"
    /\ e = [src |-> "AMENDMENT", id |-> a, rev |-> 1,
            user |-> cardsCard[cardsAmendment[a].card].user,
            minutes |-> cardsAmendment[a].minutes - Pay!Minutes(cardsCard[cardsAmendment[a].card]),
            by |-> cardsAmendment[a].decider]

EntriesOK ==
    \A p \in Pay!Periods : \A e \in cardsEntries[p] :
        /\ cardsPeriod[p] = "LOCKED"
        /\ \/ \E c \in CardsCards : PaidCard(p, c, e)
           \/ \E a \in CardsAmendments : PaidAmendment(p, a, e)

\* A card that began in a locked period is paid there.
PaidOK ==
    \A p \in Pay!Periods, c \in CardsCards :
        (cardsPeriod[p] = "LOCKED" /\ Pay!Exists(c) /\ Pay!Covers(p, cardsCard[c].in)) =>
            \E e \in cardsEntries[p] : PaidCard(p, c, e)

\* An amendment corrects an entry of somebody else, is decided by a third, and
\* one amendment of a card is approved at most.
AmendmentOK(a) ==
    /\ \E e \in cardsEntries[cardsAmendment[a].from] : PaidCard(cardsAmendment[a].from, cardsAmendment[a].card, e)
    /\ cardsAmendment[a].by # cardsCard[cardsAmendment[a].card].user
    /\ cardsAmendment[a].verdict # "PENDING" =>
         /\ cardsAmendment[a].decider \in CardsUsers
         /\ cardsAmendment[a].decider # cardsAmendment[a].by
         /\ cardsAmendment[a].decider # cardsCard[cardsAmendment[a].card].user

AmendmentsOK ==
    /\ \A a \in CardsAmendments : cardsAmendment[a] # None => AmendmentOK(a)
    /\ \A a, b \in CardsAmendments :
         (/\ cardsAmendment[a] # None /\ cardsAmendment[b] # None
          /\ cardsAmendment[a].card = cardsAmendment[b].card
          /\ cardsAmendment[a].verdict = "APPROVED" /\ cardsAmendment[b].verdict = "APPROVED") => a = b

Inv == Types /\ CardsRowsOK /\ DecisionsOK /\ EntriesOK /\ PaidOK /\ AmendmentsOK

\* What the types say about the rows.
LEMMA RowTypes ==
  ASSUME Pay!PayrollAssumption, Types
  PROVE  /\ \A c \in CardsCards : Pay!Exists(c) => cardsCard[c] \in Pay!CardRows
         /\ \A r \in Pay!CardRows :
              /\ r.user \in CardsUsers /\ r.in \in Pay!Instants /\ r.in \in Int
              /\ r.out \in Pay!Instants \cup {Pay!Unset} /\ r.out \in Int
              /\ r.period \in Pay!Periods \cup {Pay!Unset}
              /\ r.rev \in 1 .. CardsMaxRevision /\ r.rev \in Int
              /\ Pay!Minutes(r) \in Int
         /\ \A a \in CardsAmendments : cardsAmendment[a] # None => cardsAmendment[a] \in Pay!AmendmentRows
         /\ \A r \in Pay!AmendmentRows :
              /\ r.card \in CardsCards /\ r.from \in Pay!Periods /\ r.into \in Pay!Periods
              /\ r.by \in CardsUsers /\ r.minutes \in Nat
              /\ r.verdict \in {"PENDING", "APPROVED", "REJECTED"}
<1>1. CardsMaxRevision \in Nat
  BY DEF Pay!PayrollAssumption
<1>2. Pay!Instants \subseteq Int /\ Pay!Unset \in Int
  BY Windows DEF Pay!Instants, Pay!Unset
<1>3. \A c \in CardsCards : Pay!Exists(c) => cardsCard[c] \in Pay!CardRows
  BY DEF Types, Pay!TypeOK, Pay!Exists
<1>4. ASSUME NEW r \in Pay!CardRows
      PROVE  /\ r.user \in CardsUsers /\ r.in \in Pay!Instants /\ r.in \in Int
             /\ r.out \in Pay!Instants \cup {Pay!Unset} /\ r.out \in Int
             /\ r.period \in Pay!Periods \cup {Pay!Unset}
             /\ r.rev \in 1 .. CardsMaxRevision /\ r.rev \in Int
             /\ Pay!Minutes(r) \in Int
  <2>1. /\ r.user \in CardsUsers /\ r.in \in Pay!Instants /\ r.out \in Pay!Instants \cup {Pay!Unset}
        /\ r.period \in Pay!Periods \cup {Pay!Unset} /\ r.rev \in 1 .. CardsMaxRevision
    BY DEF Pay!CardRows
  <2>2. r.in \in Int /\ r.out \in Int /\ r.rev \in Int
    <3>1. r.in \in Int
      BY <1>2, <2>1
    <3>2. r.out \in Int
      BY <1>2, <2>1
    <3>3. r.rev \in Int
      BY <1>1, <2>1
    <3>. QED
      BY <3>1, <3>2, <3>3
  <2>. QED
    BY <2>1, <2>2 DEF Pay!Minutes
<1>5. \A a \in CardsAmendments : cardsAmendment[a] # None => cardsAmendment[a] \in Pay!AmendmentRows
  BY DEF Types, Pay!TypeOK
<1>6. \A r \in Pay!AmendmentRows :
              /\ r.card \in CardsCards /\ r.from \in Pay!Periods /\ r.into \in Pay!Periods
              /\ r.by \in CardsUsers /\ r.minutes \in Nat
              /\ r.verdict \in {"PENDING", "APPROVED", "REJECTED"}
  BY DEF Pay!AmendmentRows
<1>. QED
  BY <1>3, <1>4, <1>5, <1>6

\* The card of an entry is frozen.
LEMMA PaidIsFrozen ==
  ASSUME Inv, NEW p \in Pay!Periods, NEW e \in cardsEntries[p], NEW c \in CardsCards, PaidCard(p, c, e)
  PROVE  Pay!Frozen(cardsCard[c])
  BY DEF Inv, EntriesOK, PaidCard, Pay!Frozen

(***************************************************************************)
(* The steps.                                                              *)
(***************************************************************************)

\* Cards are written by clocking in and out, by corrections and by adoption.
CardAction(c) ==
    \/ \E u \in CardsUsers, t \in Pay!Instants : Pay!ClockIn(c, u, t)
    \/ \E t \in Pay!Instants : Pay!ClockOut(c, t)
    \/ \E in \in Pay!Instants, out \in Pay!Instants \cup {Pay!Unset} : Pay!Correct(c, in, out)
    \/ \E p \in Pay!Periods : Pay!AdoptCard(c, p)

PeriodAction ==
    \/ Pay!Tick
    \/ \E p \in Pay!Periods : Pay!CreatePolicy(p) \/ Pay!CreatePeriod(p) \/ Pay!StartReview(p)

LEMMA StepKinds ==
  ASSUME Pay!Next
  PROVE  \/ \E c \in CardsCards : CardAction(c)
         \/ PeriodAction
         \/ \E p \in Pay!Periods : Pay!LockPeriod(p)
         \/ \E c \in CardsCards, u \in CardsUsers, v \in {"APPROVED", "REJECTED"} : Pay!DecideCard(c, u, v)
         \/ \E a \in CardsAmendments, c \in CardsCards, p \in Pay!Periods, q \in Pay!Periods, u \in CardsUsers,
               m \in 0 .. CardsPeriodLength : Pay!CreateAmendment(a, c, p, q, u, m)
         \/ \E a \in CardsAmendments, u \in CardsUsers, v \in {"APPROVED", "REJECTED"} :
               Pay!DecideAmendment(a, u, v)
  BY Zenon DEF Pay!Next, CardAction, PeriodAction

\* A card that is written is not frozen, before and after, and stays the
\* card of its employee.
LEMMA CardSteps ==
  ASSUME Pay!PayrollAssumption, Inv, NEW c \in CardsCards, CardAction(c)
  PROVE  \E r \in Pay!CardRows :
           /\ cardsCard' = [cardsCard EXCEPT ![c] = r]
           /\ UNCHANGED <<cardsNow, cardsEffective, cardsPeriod, cardsDecision, cardsAmendment, cardsEntries>>
           /\ Pay!Exists(c) => ~Pay!Frozen(cardsCard[c]) /\ r.user = cardsCard[c].user
           /\ ~Pay!Frozen(r)
           /\ CardsRowOK(r)
<1>1. /\ cardsEffective \in Int /\ CardsMaxRevision \in Nat /\ 1 \in 1 .. CardsMaxRevision
      /\ \A p \in Pay!Periods : cardsPeriod[p] \in {"NONE", "OPEN", "REVIEW", "LOCKED"}
      /\ Pay!Unset \in Int /\ \A t \in Pay!Instants : t \in Int /\ t # Pay!Unset
  BY Windows DEF Pay!PayrollAssumption, Inv, Types, Pay!TypeOK, Pay!Instants, Pay!Unset
<1>2. ASSUME NEW t \in Pay!Instants, NEW p \in Pay!Assignment(t)
      PROVE  /\ p \in Pay!Periods \cup {Pay!Unset}
             /\ p # Pay!Unset => p \in Pay!Periods /\ cardsPeriod[p] = "OPEN" /\ Pay!Covers(p, t)
             /\ \A q \in Pay!Periods : cardsPeriod[q] = "LOCKED" => ~(p = q \/ Pay!Covers(q, t))
  <2>1. CASE cardsEffective = Pay!Unset \/ t < cardsEffective
    <3>1. p = Pay!Unset
      BY <2>1 DEF Pay!Assignment
    <3>2. \A q \in Pay!Periods : cardsPeriod[q] = "LOCKED" => ~Pay!Covers(q, t)
      BY <1>1, <2>1, Windows DEF Inv, CardsRowsOK, Pay!Covers
    <3>. QED
      BY <3>1, <3>2, Windows
  <2>2. CASE ~(cardsEffective = Pay!Unset \/ t < cardsEffective)
    <3>1. p \in Pay!Periods /\ cardsPeriod[p] = "OPEN" /\ Pay!Covers(p, t)
      BY <2>2 DEF Pay!Assignment
    <3>2. \A q \in Pay!Periods : Pay!Covers(q, t) => q = p
      BY <1>1, <3>1, CoversOne
    <3>. QED
      BY <3>1, <3>2
  <2>. QED
    BY <2>1, <2>2
<1>3. CASE \E u \in CardsUsers, t \in Pay!Instants : Pay!ClockIn(c, u, t)
  <2>1. PICK u \in CardsUsers, t \in Pay!Instants : Pay!ClockIn(c, u, t)
    BY <1>3
  <2>2. PICK p \in Pay!Assignment(t) : cardsCard' = [cardsCard EXCEPT ![c] =
                       [user |-> u, in |-> t, out |-> Pay!Unset, period |-> p, rev |-> 1]]
    BY <2>1 DEF Pay!ClockIn
  <2>3. PICK r : r = [user |-> u, in |-> t, out |-> Pay!Unset, period |-> p, rev |-> 1]
    OBVIOUS
  <2>4. r \in Pay!CardRows /\ r.out = Pay!Unset /\ r.period = p /\ r.in = t
    BY <1>1, <1>2, <2>3 DEF Pay!CardRows
  <2>5. ~Pay!Frozen(r) /\ CardsRowOK(r)
    BY <1>2, <2>4 DEF Pay!Frozen, CardsRowOK
  <2>6. ~Pay!Exists(c) /\ UNCHANGED <<cardsNow, cardsEffective, cardsPeriod, cardsDecision, cardsAmendment, cardsEntries>>
    BY <2>1 DEF Pay!ClockIn
  <2>. QED
    BY <2>2, <2>3, <2>4, <2>5, <2>6
<1>4. ASSUME NEW r0 \in Pay!CardRows, r0 = cardsCard[c], Pay!Exists(c), NEW n, r0.rev < CardsMaxRevision,
             n = r0.rev + 1
      PROVE  n \in 1 .. CardsMaxRevision
  BY <1>1, <1>4, RowTypes DEF Inv
<1>5. Pay!Exists(c) => cardsCard[c] \in Pay!CardRows /\ CardsRowOK(cardsCard[c])
  BY RowTypes DEF Inv, CardsRowsOK
<1>6. CASE \E t \in Pay!Instants : Pay!ClockOut(c, t)
  <2>1. PICK t \in Pay!Instants : Pay!ClockOut(c, t)
    BY <1>6
  <2>2. PICK r : r = [cardsCard[c] EXCEPT !.out = t, !.rev = cardsCard[c].rev + 1]
    OBVIOUS
  <2>3. Pay!Exists(c) /\ cardsCard[c] \in Pay!CardRows /\ CardsRowOK(cardsCard[c])
    BY <1>5, <2>1 DEF Pay!ClockOut, Pay!IsOpen
  <2>4. cardsCard[c].rev + 1 \in 1 .. CardsMaxRevision
    BY <1>4, <2>1, <2>3 DEF Pay!ClockOut
  <2>5. /\ r \in Pay!CardRows /\ r.out = t /\ r.period = cardsCard[c].period /\ r.in = cardsCard[c].in
        /\ r.user = cardsCard[c].user
    BY <2>2, <2>3, <2>4 DEF Pay!CardRows
  <2>6. cardsCard' = [cardsCard EXCEPT ![c] = r]
    BY <2>1, <2>2 DEF Pay!ClockOut
  <2>7. ~Pay!Frozen(cardsCard[c]) /\ cardsCard[c].in < t
    BY <2>1 DEF Pay!ClockOut
  <2>8. ~Pay!Frozen(r) /\ CardsRowOK(r)
    BY <2>3, <2>5, <2>7 DEF Pay!Frozen, CardsRowOK
  <2>9. UNCHANGED <<cardsNow, cardsEffective, cardsPeriod, cardsDecision, cardsAmendment, cardsEntries>>
    BY <2>1 DEF Pay!ClockOut
  <2>. QED
    BY <2>5, <2>6, <2>7, <2>8, <2>9
<1>7. CASE \E in \in Pay!Instants, out \in Pay!Instants \cup {Pay!Unset} : Pay!Correct(c, in, out)
  <2>1. PICK in \in Pay!Instants, out \in Pay!Instants \cup {Pay!Unset} : Pay!Correct(c, in, out)
    BY <1>7
  <2>2. PICK p \in Pay!Assignment(in) :
           /\ Pay!CorrectionAllowed(c, in, out, p)
           /\ cardsCard[c].rev < CardsMaxRevision
           /\ cardsCard' = [cardsCard EXCEPT ![c].in = in, ![c].out = out, ![c].period = p,
                                             ![c].rev = @ + 1]
    BY <2>1 DEF Pay!Correct
  <2>3. PICK r : r = [cardsCard[c] EXCEPT !.in = in, !.out = out, !.period = p,
                                          !.rev = cardsCard[c].rev + 1]
    OBVIOUS
  <2>4. Pay!Exists(c) /\ cardsCard[c] \in Pay!CardRows /\ CardsRowOK(cardsCard[c])
    BY <1>5, <2>2 DEF Pay!CorrectionAllowed
  <2>5. cardsCard[c].rev + 1 \in 1 .. CardsMaxRevision
    BY <1>4, <2>2, <2>4
  <2>6. /\ r \in Pay!CardRows /\ r.out = out /\ r.period = p /\ r.in = in
        /\ r.user = cardsCard[c].user
    BY <1>2, <2>3, <2>4, <2>5 DEF Pay!CardRows
  <2>7. cardsCard' = [cardsCard EXCEPT ![c] = r]
    BY <2>2, <2>3
  <2>8. ~Pay!Frozen(cardsCard[c]) /\ (out # Pay!Unset => in < out)
    BY <2>2 DEF Pay!CorrectionAllowed
  <2>9. ~Pay!Frozen(r) /\ CardsRowOK(r)
    BY <1>2, <2>6, <2>8 DEF Pay!Frozen, CardsRowOK
  <2>10. UNCHANGED <<cardsNow, cardsEffective, cardsPeriod, cardsDecision, cardsAmendment, cardsEntries>>
    BY <2>1 DEF Pay!Correct
  <2>. QED
    BY <2>6, <2>7, <2>8, <2>9, <2>10
<1>8. CASE \E p \in Pay!Periods : Pay!AdoptCard(c, p)
  <2>1. PICK p \in Pay!Periods : Pay!AdoptCard(c, p)
    BY <1>8
  <2>2. PICK r : r = [cardsCard[c] EXCEPT !.period = p, !.rev = cardsCard[c].rev + 1]
    OBVIOUS
  <2>3. Pay!Exists(c) /\ cardsCard[c] \in Pay!CardRows /\ CardsRowOK(cardsCard[c])
    BY <1>5, <2>1 DEF Pay!AdoptCard
  <2>4. cardsCard[c].rev + 1 \in 1 .. CardsMaxRevision
    BY <1>4, <2>1, <2>3 DEF Pay!AdoptCard
  <2>5. /\ r \in Pay!CardRows /\ r.out = cardsCard[c].out /\ r.period = p /\ r.in = cardsCard[c].in
        /\ r.user = cardsCard[c].user
    BY <2>2, <2>3, <2>4 DEF Pay!CardRows
  <2>6. cardsCard' = [cardsCard EXCEPT ![c] = r]
    BY <2>1, <2>2 DEF Pay!AdoptCard
  <2>7. /\ cardsPeriod[p] = "OPEN" /\ cardsCard[c].out # Pay!Unset /\ cardsCard[c].period = Pay!Unset
        /\ Pay!Start(p) =< cardsCard[c].in /\ cardsCard[c].out =< Pay!End(p)
    BY <2>1 DEF Pay!AdoptCard
  <2>8. cardsCard[c].in \in Int /\ cardsCard[c].out \in Int
    BY <2>3, RowTypes DEF Inv
  <2>9. Pay!Covers(p, cardsCard[c].in)
    BY <2>3, <2>7, <2>8, Windows DEF Pay!Covers, CardsRowOK
  <2>10. \A q \in Pay!Periods : Pay!Covers(q, cardsCard[c].in) => q = p
    BY <2>8, <2>9, CoversOne
  <2>11. ~Pay!Frozen(cardsCard[c]) /\ ~Pay!Frozen(r) /\ CardsRowOK(r)
    BY <2>3, <2>5, <2>7, <2>9, <2>10, Windows DEF Pay!Frozen, CardsRowOK
  <2>12. UNCHANGED <<cardsNow, cardsEffective, cardsPeriod, cardsDecision, cardsAmendment, cardsEntries>>
    BY <2>1 DEF Pay!AdoptCard
  <2>. QED
    BY <2>5, <2>6, <2>11, <2>12
<1>. QED
  BY <1>3, <1>6, <1>7, <1>8 DEF CardAction

(***************************************************************************)
(* What no step undoes: a card stays the card of its employee and a frozen  *)
(* one stays as it is, decisions and the entries of a locked period stand,  *)
(* and an amendment keeps what it asks for and, once decided, its verdict.  *)
(***************************************************************************)
Keeps ==
    /\ \A c \in CardsCards : Pay!Exists(c) => Pay!Exists(c)' /\ cardsCard'[c].user = cardsCard[c].user
    /\ \A c \in CardsCards : (Pay!Exists(c) /\ Pay!Frozen(cardsCard[c])) => cardsCard'[c] = cardsCard[c]
    /\ cardsDecision \subseteq cardsDecision'
    /\ \A p \in Pay!Periods :
         cardsPeriod[p] = "LOCKED" => cardsPeriod'[p] = "LOCKED" /\ cardsEntries'[p] = cardsEntries[p]
    /\ \A a \in CardsAmendments : cardsAmendment[a] # None =>
         /\ cardsAmendment'[a] # None
         /\ cardsAmendment'[a].card = cardsAmendment[a].card /\ cardsAmendment'[a].from = cardsAmendment[a].from
         /\ cardsAmendment'[a].into = cardsAmendment[a].into /\ cardsAmendment'[a].by = cardsAmendment[a].by
         /\ cardsAmendment'[a].minutes = cardsAmendment[a].minutes
         /\ cardsAmendment[a].verdict # "PENDING" => cardsAmendment'[a] = cardsAmendment[a]

LEMMA StepKeeps ==
  ASSUME Pay!PayrollAssumption, Inv, [Pay!Next]_(Pay!vars)
  PROVE  Keeps
<1>1. /\ cardsCard \in [CardsCards -> Pay!CardRows \cup {None}]
      /\ cardsPeriod \in [Pay!Periods -> {"NONE", "OPEN", "REVIEW", "LOCKED"}]
      /\ cardsAmendment \in [CardsAmendments -> Pay!AmendmentRows \cup {None}]
      /\ cardsEntries \in [Pay!Periods -> SUBSET Pay!EntryRows]
      /\ None \notin Pay!CardRows /\ None \notin Pay!AmendmentRows
  BY DEF Pay!PayrollAssumption, Inv, Types, Pay!TypeOK
<1>2. CASE UNCHANGED Pay!vars
  BY <1>2 DEF Pay!vars, Keeps, Pay!Exists
<1>3. CASE \E c \in CardsCards : CardAction(c)
  <2>1. PICK c \in CardsCards : CardAction(c)
    BY <1>3
  <2>2. PICK r \in Pay!CardRows :
           /\ cardsCard' = [cardsCard EXCEPT ![c] = r]
           /\ UNCHANGED <<cardsNow, cardsEffective, cardsPeriod, cardsDecision, cardsAmendment, cardsEntries>>
           /\ Pay!Exists(c) => ~Pay!Frozen(cardsCard[c]) /\ r.user = cardsCard[c].user
    BY <2>1, CardSteps
  <2>3. cardsCard'[c] = r /\ \A d \in CardsCards \ {c} : cardsCard'[d] = cardsCard[d]
    BY <1>1, <2>2
  <2>. QED
    BY <1>1, <2>2, <2>3 DEF Keeps, Pay!Exists
<1>4. CASE PeriodAction
  <2>1. /\ UNCHANGED <<cardsCard, cardsDecision, cardsAmendment, cardsEntries>>
        /\ \A p \in Pay!Periods : cardsPeriod[p] = "LOCKED" => cardsPeriod'[p] = "LOCKED"
    BY <1>1, <1>4 DEF PeriodAction, Pay!Tick, Pay!CreatePolicy, Pay!CreatePeriod, Pay!StartReview
  <2>. QED
    BY <2>1 DEF Keeps, Pay!Exists
<1>5. CASE \E p \in Pay!Periods : Pay!LockPeriod(p)
  <2>1. PICK p \in Pay!Periods : Pay!LockPeriod(p)
    BY <1>5
  <2>2. /\ UNCHANGED <<cardsCard, cardsDecision, cardsAmendment>> /\ cardsPeriod[p] = "REVIEW"
        /\ \A q \in Pay!Periods \ {p} : cardsPeriod'[q] = cardsPeriod[q] /\ cardsEntries'[q] = cardsEntries[q]
    BY <1>1, <2>1 DEF Pay!LockPeriod
  <2>. QED
    BY <2>2 DEF Keeps, Pay!Exists
<1>6. CASE \E c \in CardsCards, u \in CardsUsers, v \in {"APPROVED", "REJECTED"} : Pay!DecideCard(c, u, v)
  BY <1>6 DEF Pay!DecideCard, Keeps, Pay!Exists
<1>7. CASE \E a \in CardsAmendments, c \in CardsCards, p \in Pay!Periods, q \in Pay!Periods, u \in CardsUsers,
               m \in 0 .. CardsPeriodLength : Pay!CreateAmendment(a, c, p, q, u, m)
  <2>1. PICK a \in CardsAmendments, c \in CardsCards, p \in Pay!Periods, q \in Pay!Periods, u \in CardsUsers,
               m \in 0 .. CardsPeriodLength : Pay!CreateAmendment(a, c, p, q, u, m)
    BY <1>7
  <2>2. /\ UNCHANGED <<cardsCard, cardsDecision, cardsPeriod, cardsEntries>> /\ cardsAmendment[a] = None
        /\ \A b \in CardsAmendments \ {a} : cardsAmendment'[b] = cardsAmendment[b]
    BY <1>1, <2>1 DEF Pay!CreateAmendment
  <2>. QED
    BY <2>2 DEF Keeps, Pay!Exists
<1>8. CASE \E a \in CardsAmendments, u \in CardsUsers, v \in {"APPROVED", "REJECTED"} :
               Pay!DecideAmendment(a, u, v)
  <2>1. PICK a \in CardsAmendments, u \in CardsUsers, v \in {"APPROVED", "REJECTED"} :
               Pay!DecideAmendment(a, u, v)
    BY <1>8
  <2>2. PICK r : r = [cardsAmendment[a] EXCEPT !.verdict = v, !.decider = u]
    OBVIOUS
  <2>3. cardsAmendment[a] # None /\ cardsAmendment[a] \in Pay!AmendmentRows
    BY <1>1, <2>1 DEF Pay!DecideAmendment
  <2>4. /\ r \in Pay!AmendmentRows
        /\ r.card = cardsAmendment[a].card /\ r.from = cardsAmendment[a].from
        /\ r.into = cardsAmendment[a].into /\ r.by = cardsAmendment[a].by
        /\ r.minutes = cardsAmendment[a].minutes
    BY <2>2, <2>3 DEF Pay!AmendmentRows
  <2>5. /\ UNCHANGED <<cardsCard, cardsDecision, cardsPeriod, cardsEntries>> /\ cardsAmendment[a].verdict = "PENDING"
        /\ cardsAmendment'[a] = r
        /\ \A b \in CardsAmendments \ {a} : cardsAmendment'[b] = cardsAmendment[b]
    BY <1>1, <2>1, <2>2 DEF Pay!DecideAmendment
  <2>. QED
    BY <1>1, <2>3, <2>4, <2>5 DEF Keeps, Pay!Exists
<1>. QED
  BY <1>2, <1>3, <1>4, <1>5, <1>6, <1>7, <1>8, StepKinds

\* So an entry stays the entry of its card, ...
LEMMA PaidCardKept ==
  ASSUME Inv, Keeps, NEW p \in Pay!Periods, NEW e \in cardsEntries[p], NEW c \in CardsCards,
         PaidCard(p, c, e)
  PROVE  PaidCard(p, c, e)' /\ e \in cardsEntries'[p] /\ cardsCard'[c] = cardsCard[c]
<1>1. Pay!Frozen(cardsCard[c]) /\ Pay!Exists(c)
  BY PaidIsFrozen DEF PaidCard
<1>2. cardsCard'[c] = cardsCard[c] /\ Pay!Exists(c)'
  BY <1>1 DEF Keeps
<1>3. e \in cardsEntries'[p] /\ cardsDecision \subseteq cardsDecision'
  BY DEF Keeps, Inv, EntriesOK
<1>. QED
  BY <1>2, <1>3 DEF PaidCard

\* ... an amendment still corrects the entry it was requested for, ...
LEMMA AmendmentKept ==
  ASSUME Pay!PayrollAssumption, Inv, Keeps, NEW a \in CardsAmendments, cardsAmendment[a] # None
  PROVE  /\ \E e \in cardsEntries'[cardsAmendment'[a].from] :
              PaidCard(cardsAmendment[a].from, cardsAmendment[a].card, e)'
         /\ cardsCard'[cardsAmendment[a].card] = cardsCard[cardsAmendment[a].card]
         /\ cardsAmendment'[a].from = cardsAmendment[a].from
         /\ cardsAmendment'[a].card = cardsAmendment[a].card
         /\ cardsAmendment'[a].by # cardsCard'[cardsAmendment[a].card].user
<1>1. cardsAmendment[a].from \in Pay!Periods /\ cardsAmendment[a].card \in CardsCards
  BY RowTypes DEF Inv
<1>2. PICK e \in cardsEntries[cardsAmendment[a].from] : PaidCard(cardsAmendment[a].from, cardsAmendment[a].card, e)
  BY DEF Inv, AmendmentsOK, AmendmentOK
<1>3. /\ PaidCard(cardsAmendment[a].from, cardsAmendment[a].card, e)'
      /\ e \in cardsEntries'[cardsAmendment[a].from]
      /\ cardsCard'[cardsAmendment[a].card] = cardsCard[cardsAmendment[a].card]
  <2>. DEFINE p == cardsAmendment[a].from
              c == cardsAmendment[a].card
  <2>1. PICK q, d : q = p /\ d = c
    OBVIOUS
  <2>2. q \in Pay!Periods /\ d \in CardsCards /\ e \in cardsEntries[q] /\ PaidCard(q, d, e)
    BY <1>1, <1>2, <2>1
  <2>3. cardsCard'[d] = cardsCard[d] /\ e \in cardsEntries'[q]
    BY <2>2, PaidCardKept
  <2>4. cardsAmendment'[a].from = q /\ cardsAmendment'[a].card = d
    BY <2>1 DEF Keeps
  <2>5. Pay!Exists(d) /\ Pay!Exists(d)' /\ cardsCard[d].period = q /\ cardsCard[d].out # Pay!Unset
    BY <2>2 DEF PaidCard, Keeps
  <2>6. PICK u \in CardsUsers :
         /\ [card |-> d, rev |-> cardsCard[d].rev, by |-> u, verdict |-> "APPROVED"] \in cardsDecision
         /\ e = [src |-> "TIME_CARD", id |-> d, rev |-> cardsCard[d].rev, user |-> cardsCard[d].user,
                 minutes |-> Pay!Minutes(cardsCard[d]), by |-> u]
    BY <2>2 DEF PaidCard
  <2>7. cardsDecision \subseteq cardsDecision'
    BY DEF Keeps
  <2>. QED
    BY <2>1, <2>3, <2>4, <2>5, <2>6, <2>7 DEF PaidCard, Pay!Exists
<1>4. /\ cardsAmendment'[a].from = cardsAmendment[a].from
      /\ cardsAmendment'[a].card = cardsAmendment[a].card
      /\ cardsAmendment'[a].by = cardsAmendment[a].by
  BY DEF Keeps
<1>5. cardsAmendment[a].by # cardsCard[cardsAmendment[a].card].user
  BY DEF Inv, AmendmentsOK, AmendmentOK
<1>. QED
  BY <1>3, <1>4, <1>5

\* ... and an approved amendment stays what its entry says.
LEMMA PaidAmendmentKept ==
  ASSUME Pay!PayrollAssumption, Inv, Keeps, NEW p \in Pay!Periods, NEW e, NEW a \in CardsAmendments,
         PaidAmendment(p, a, e)
  PROVE  PaidAmendment(p, a, e)'
<1>1. cardsAmendment[a] # None /\ cardsAmendment[a].verdict # "PENDING"
  BY DEF PaidAmendment
<1>2. cardsAmendment'[a] = cardsAmendment[a]
  BY <1>1 DEF Keeps
<1>3. cardsCard'[cardsAmendment[a].card] = cardsCard[cardsAmendment[a].card]
  BY <1>1, AmendmentKept
<1>. QED
  BY <1>2, <1>3 DEF PaidAmendment

\* Locking writes the entries of the period's cards and amendments.
LEMMA Locks ==
  ASSUME Pay!PayrollAssumption, Inv, NEW p \in Pay!Periods, Pay!LockPeriod(p)
  PROVE  /\ cardsEntries'[p] \subseteq Pay!EntryRows
         /\ \A e \in cardsEntries'[p] : \/ \E c \in CardsCards : PaidCard(p, c, e)
                                        \/ \E a \in CardsAmendments : PaidAmendment(p, a, e)
         /\ \A c \in Pay!Candidates(p) : \E e \in cardsEntries'[p] : PaidCard(p, c, e)
<1>1. cardsEntries'[p] = Pay!CardSources(p) \cup Pay!AmendmentSources(p)
  BY DEF Pay!LockPeriod, Inv, Types
<1>. DEFINE CE(c) == [src |-> "TIME_CARD", id |-> c, rev |-> cardsCard[c].rev,
                     user |-> cardsCard[c].user, minutes |-> Pay!Minutes(cardsCard[c]),
                     by |-> (CHOOSE d \in Pay!CurrentDecision(c) : TRUE).by]
            AE(a) == [src |-> "AMENDMENT", id |-> a, rev |-> 1, user |-> Pay!OriginalEntry(a).user,
                     minutes |-> Pay!MinuteDelta(a), by |-> cardsAmendment[a].decider]
<1>2. ASSUME NEW c \in Pay!Candidates(p)
      PROVE  c \in CardsCards /\ PaidCard(p, c, CE(c)) /\ CE(c) \in Pay!EntryRows
  <2>1. c \in CardsCards /\ Pay!Exists(c)
    BY DEF Pay!Candidates
  <2>2. cardsCard[c].period = p /\ cardsCard[c].out # Pay!Unset
    BY <2>1 DEF Pay!LockPeriod, Pay!CandidatesValid, Pay!IsOpen
  <2>3. PICK d \in Pay!CurrentDecision(c) : d.verdict = "APPROVED"
    BY DEF Pay!LockPeriod
  <2>4. d \in cardsDecision /\ d.card = c /\ d.rev = cardsCard[c].rev
    BY <2>3 DEF Pay!CurrentDecision
  <2>5. \A f \in Pay!CurrentDecision(c) : f = d
    BY <2>4 DEF Pay!CurrentDecision, Inv, DecisionsOK
  <2>6. (CHOOSE f \in Pay!CurrentDecision(c) : TRUE) = d
    BY <2>3, <2>5, Zenon
  <2>7. d = [card |-> c, rev |-> cardsCard[c].rev, by |-> d.by, verdict |-> "APPROVED"]
    <3>1. d \in [card: CardsCards, rev: 1 .. CardsMaxRevision, by: CardsUsers, verdict: {"APPROVED", "REJECTED"}]
      BY <2>4 DEF Inv, Types, Pay!TypeOK
    <3>. QED
      BY <2>3, <2>4, <3>1
  <2>8. d.by \in CardsUsers
    BY <2>4 DEF Inv, Types, Pay!TypeOK
  <2>9. CE(c) = [src |-> "TIME_CARD", id |-> c, rev |-> cardsCard[c].rev,
                 user |-> cardsCard[c].user, minutes |-> Pay!Minutes(cardsCard[c]), by |-> d.by]
    BY <2>6
  <2>10. cardsCard[c].user \in CardsUsers /\ cardsCard[c].rev \in 1 .. CardsMaxRevision /\ Pay!Minutes(cardsCard[c]) \in Int
    BY <2>1, RowTypes DEF Inv
  <2>11. PaidCard(p, c, CE(c))
    BY <2>1, <2>2, <2>4, <2>7, <2>8, <2>9 DEF PaidCard
  <2>12. CE(c) \in Pay!EntryRows
    BY <2>1, <2>8, <2>9, <2>10 DEF Pay!EntryRows
  <2>. QED
    BY <2>1, <2>11, <2>12
<1>3. ASSUME NEW a \in CardsAmendments, cardsAmendment[a] # None, cardsAmendment[a].into = p,
             cardsAmendment[a].verdict = "APPROVED"
      PROVE  PaidAmendment(p, a, AE(a)) /\ AE(a) \in Pay!EntryRows
  <2>. DEFINE q == cardsAmendment[a].from
              c == cardsAmendment[a].card
  <2>1. q \in Pay!Periods /\ c \in CardsCards /\ cardsAmendment[a].minutes \in Nat
    BY <1>3, RowTypes DEF Inv
  <2>2. PICK e \in cardsEntries[q] : PaidCard(q, c, e)
    BY <1>3 DEF Inv, AmendmentsOK, AmendmentOK
  <2>3. e.src = "TIME_CARD" /\ e.id = c
    BY <2>2 DEF PaidCard
  <2>4. PICK o : o = Pay!OriginalEntry(a)
    OBVIOUS
  <2>5. o \in cardsEntries[q] /\ o.src = "TIME_CARD" /\ o.id = c
    <3>1. \E f \in cardsEntries[cardsAmendment[a].from] : f.src = "TIME_CARD" /\ f.id = cardsAmendment[a].card
      BY <2>3
    <3>. QED
      BY <2>4, <3>1, Zenon DEF Pay!OriginalEntry
  <2>6. o.user = cardsCard[c].user /\ o.minutes = Pay!Minutes(cardsCard[c])
    <3>1. (\E d \in CardsCards : PaidCard(q, d, o)) \/ (\E b \in CardsAmendments : PaidAmendment(q, b, o))
      BY <2>1, <2>5 DEF Inv, EntriesOK
    <3>2. ~\E b \in CardsAmendments : PaidAmendment(q, b, o)
      BY <2>5 DEF PaidAmendment
    <3>3. PICK d \in CardsCards : PaidCard(q, d, o)
      BY <3>1, <3>2
    <3>. QED
      BY <2>5, <3>3 DEF PaidCard
  <2>7. cardsCard[c].user \in CardsUsers /\ Pay!Minutes(cardsCard[c]) \in Int
    <3>1. Pay!Exists(c)
      BY <2>2 DEF PaidCard
    <3>. QED
      BY <2>1, <3>1, RowTypes DEF Inv
  <2>8. cardsAmendment[a].decider \in CardsUsers
    BY <1>3 DEF Inv, AmendmentsOK, AmendmentOK
  <2>9. AE(a) = [src |-> "AMENDMENT", id |-> a, rev |-> 1, user |-> cardsCard[c].user,
                 minutes |-> cardsAmendment[a].minutes - Pay!Minutes(cardsCard[c]), by |-> cardsAmendment[a].decider]
    BY <2>4, <2>6 DEF Pay!MinuteDelta
  <2>10. cardsAmendment[a].minutes - Pay!Minutes(cardsCard[c]) \in Int
    BY <2>1, <2>7
  <2>11. PaidAmendment(p, a, AE(a))
    BY <1>3, <2>9 DEF PaidAmendment
  <2>12. AE(a) \in Pay!EntryRows
    BY <2>7, <2>8, <2>9, <2>10 DEF Pay!EntryRows
  <2>. QED
    BY <2>11, <2>12
<1>4. Pay!CardSources(p) = {CE(c) : c \in Pay!Candidates(p)}
  BY DEF Pay!CardSources
<1>5. ASSUME NEW e \in Pay!AmendmentSources(p)
      PROVE  \E a \in CardsAmendments : PaidAmendment(p, a, e) /\ e \in Pay!EntryRows
  BY <1>3 DEF Pay!AmendmentSources, Pay!AmendmentsInto
<1>. HIDE DEF CE, AE
<1>. QED
  BY <1>1, <1>2, <1>4, <1>5

(***************************************************************************)
(* Every step preserves the invariant.                                     *)
(***************************************************************************)
LEMMA TypesKept ==
  ASSUME Pay!PayrollAssumption, Inv, [Pay!Next]_(Pay!vars)
  PROVE  Types'
<1>1. /\ cardsCard \in [CardsCards -> Pay!CardRows \cup {None}]
      /\ cardsPeriod \in [Pay!Periods -> {"NONE", "OPEN", "REVIEW", "LOCKED"}]
      /\ cardsAmendment \in [CardsAmendments -> Pay!AmendmentRows \cup {None}]
      /\ cardsEntries \in [Pay!Periods -> SUBSET Pay!EntryRows]
      /\ cardsNow \in Pay!Instants /\ cardsEffective \in Pay!Instants \cup {Pay!Unset}
      /\ cardsDecision \subseteq
           [card: CardsCards, rev: 1 .. CardsMaxRevision, by: CardsUsers, verdict: {"APPROVED", "REJECTED"}]
      /\ \E k \in 0 .. CardsNumPeriods : cardsNow = k * CardsPeriodLength
  BY DEF Inv, Types, Pay!TypeOK
<1>. DEFINE Rest == /\ cardsNow' = cardsNow /\ cardsEffective' = cardsEffective /\ cardsPeriod' = cardsPeriod
                    /\ cardsDecision' = cardsDecision /\ cardsAmendment' = cardsAmendment /\ cardsEntries' = cardsEntries
                    /\ cardsCard' = cardsCard
<1>2. CASE UNCHANGED Pay!vars
  BY <1>1, <1>2 DEF Pay!vars, Types, Pay!TypeOK
<1>3. CASE \E c \in CardsCards : CardAction(c)
  <2>1. PICK c \in CardsCards, r \in Pay!CardRows :
           /\ cardsCard' = [cardsCard EXCEPT ![c] = r]
           /\ UNCHANGED <<cardsNow, cardsEffective, cardsPeriod, cardsDecision, cardsAmendment, cardsEntries>>
    BY <1>3, CardSteps
  <2>2. cardsCard' \in [CardsCards -> Pay!CardRows \cup {None}]
    BY <1>1, <2>1
  <2>. QED
    BY <1>1, <2>1, <2>2 DEF Types, Pay!TypeOK
<1>4. CASE Pay!Tick
  <2>1. PICK k \in 0 .. CardsNumPeriods : cardsNow = k * CardsPeriodLength
    BY <1>1
  <2>2. PICK L \in Nat : L = CardsPeriodLength /\ L > 0
    BY DEF Pay!PayrollAssumption
  <2>3. CardsNumPeriods \in Nat /\ k \in Nat /\ k =< CardsNumPeriods
    BY <2>1 DEF Pay!PayrollAssumption
  <2>4. cardsNow < Pay!Horizon /\ cardsNow' = cardsNow + L
    BY <1>4, <2>2 DEF Pay!Tick
  <2>5. k < CardsNumPeriods
    <3>1. CASE k = CardsNumPeriods
      <4>1. cardsNow = Pay!Horizon /\ Pay!Horizon \in Nat
        BY <2>1, <2>3, <3>1, Windows DEF Pay!Horizon
      <4>. QED
        BY <2>4, <4>1
    <3>. QED
      BY <2>3, <3>1
  <2>6. k * L + L =< CardsNumPeriods * L
    BY <2>2, <2>3, <2>5, Further
  <2>7. k * L \in Nat /\ (k + 1) * L = k * L + L
    BY <2>2, <2>3, SMT
  <2>8. cardsNow' = (k + 1) * L /\ k + 1 \in 0 .. CardsNumPeriods
    BY <2>1, <2>2, <2>3, <2>4, <2>5, <2>7
  <2>9. cardsNow' \in Pay!Instants
    <3>1. Pay!Horizon = CardsNumPeriods * L /\ Pay!Horizon \in Nat
      BY <2>2, Windows DEF Pay!Horizon
    <3>. QED
      BY <2>2, <2>6, <2>7, <2>8, <3>1 DEF Pay!Instants
  <2>10. \E j \in 0 .. CardsNumPeriods : cardsNow' = j * CardsPeriodLength
    BY <2>2, <2>8
  <2>11. UNCHANGED <<cardsEffective, cardsPeriod, cardsCard, cardsDecision, cardsAmendment, cardsEntries>>
    BY <1>4 DEF Pay!Tick
  <2>. QED
    BY <1>1, <2>9, <2>10, <2>11 DEF Types, Pay!TypeOK
<1>5. ASSUME NEW p \in Pay!Periods, Pay!CreatePolicy(p) \/ Pay!CreatePeriod(p) \/ Pay!StartReview(p)
      PROVE  Types'
  <2>1. /\ UNCHANGED <<cardsNow, cardsCard, cardsDecision, cardsAmendment, cardsEntries>>
        /\ cardsPeriod' \in [Pay!Periods -> {"NONE", "OPEN", "REVIEW", "LOCKED"}]
    BY <1>1, <1>5 DEF Pay!CreatePolicy, Pay!CreatePeriod, Pay!StartReview
  <2>2. Pay!Start(p) \in Pay!Instants
    BY Windows DEF Pay!Instants
  <2>3. cardsEffective' \in Pay!Instants \cup {Pay!Unset}
    BY <1>1, <1>5, <2>2 DEF Pay!CreatePolicy, Pay!CreatePeriod, Pay!StartReview
  <2>. QED
    BY <1>1, <2>1, <2>3 DEF Types, Pay!TypeOK
<1>6. CASE PeriodAction
  BY <1>4, <1>5, <1>6 DEF PeriodAction
<1>7. CASE \E p \in Pay!Periods : Pay!LockPeriod(p)
  <2>1. PICK p \in Pay!Periods : Pay!LockPeriod(p)
    BY <1>7
  <2>2. /\ UNCHANGED <<cardsNow, cardsEffective, cardsCard, cardsDecision, cardsAmendment>>
        /\ cardsPeriod' \in [Pay!Periods -> {"NONE", "OPEN", "REVIEW", "LOCKED"}]
        /\ cardsEntries' = [cardsEntries EXCEPT ![p] = cardsEntries'[p]]
    BY <1>1, <2>1 DEF Pay!LockPeriod
  <2>3. cardsEntries'[p] \in SUBSET Pay!EntryRows
    BY <2>1, Locks
  <2>4. cardsEntries' \in [Pay!Periods -> SUBSET Pay!EntryRows]
    BY <1>1, <2>2, <2>3
  <2>. QED
    BY <1>1, <2>2, <2>4 DEF Types, Pay!TypeOK
<1>8. CASE \E c \in CardsCards, u \in CardsUsers, v \in {"APPROVED", "REJECTED"} : Pay!DecideCard(c, u, v)
  <2>1. PICK c \in CardsCards, u \in CardsUsers, v \in {"APPROVED", "REJECTED"} : Pay!DecideCard(c, u, v)
    BY <1>8
  <2>2. cardsCard[c].rev \in 1 .. CardsMaxRevision
    BY <2>1, RowTypes DEF Pay!DecideCard, Inv
  <2>3. cardsDecision' \subseteq
           [card: CardsCards, rev: 1 .. CardsMaxRevision, by: CardsUsers, verdict: {"APPROVED", "REJECTED"}]
    BY <1>1, <2>1, <2>2 DEF Pay!DecideCard
  <2>4. UNCHANGED <<cardsNow, cardsEffective, cardsPeriod, cardsCard, cardsAmendment, cardsEntries>>
    BY <2>1 DEF Pay!DecideCard
  <2>. QED
    BY <1>1, <2>3, <2>4 DEF Types, Pay!TypeOK
<1>9. CASE \E a \in CardsAmendments, c \in CardsCards, p \in Pay!Periods, q \in Pay!Periods, u \in CardsUsers,
               m \in 0 .. CardsPeriodLength : Pay!CreateAmendment(a, c, p, q, u, m)
  <2>1. PICK a \in CardsAmendments, c \in CardsCards, p \in Pay!Periods, q \in Pay!Periods, u \in CardsUsers,
               m \in 0 .. CardsPeriodLength : Pay!CreateAmendment(a, c, p, q, u, m)
    BY <1>9
  <2>2. m \in Nat
    BY DEF Pay!PayrollAssumption
  <2>3. cardsAmendment' \in [CardsAmendments -> Pay!AmendmentRows \cup {None}]
    BY <1>1, <2>1, <2>2 DEF Pay!CreateAmendment, Pay!AmendmentRows
  <2>4. UNCHANGED <<cardsNow, cardsEffective, cardsPeriod, cardsCard, cardsDecision, cardsEntries>>
    BY <2>1 DEF Pay!CreateAmendment
  <2>. QED
    BY <1>1, <2>3, <2>4 DEF Types, Pay!TypeOK
<1>10. CASE \E a \in CardsAmendments, u \in CardsUsers, v \in {"APPROVED", "REJECTED"} :
               Pay!DecideAmendment(a, u, v)
  <2>1. PICK a \in CardsAmendments, u \in CardsUsers, v \in {"APPROVED", "REJECTED"} :
               Pay!DecideAmendment(a, u, v)
    BY <1>10
  <2>2. cardsAmendment[a] \in Pay!AmendmentRows
    BY <1>1, <2>1 DEF Pay!DecideAmendment
  <2>3. [cardsAmendment[a] EXCEPT !.verdict = v, !.decider = u] \in Pay!AmendmentRows
    BY <2>2 DEF Pay!AmendmentRows
  <2>4. cardsAmendment' = [cardsAmendment EXCEPT ![a] = [cardsAmendment[a] EXCEPT !.verdict = v, !.decider = u]]
    BY <2>1 DEF Pay!DecideAmendment
  <2>5. cardsAmendment' \in [CardsAmendments -> Pay!AmendmentRows \cup {None}]
    BY <1>1, <2>3, <2>4
  <2>6. UNCHANGED <<cardsNow, cardsEffective, cardsPeriod, cardsCard, cardsDecision, cardsEntries>>
    BY <2>1 DEF Pay!DecideAmendment
  <2>. QED
    BY <1>1, <2>5, <2>6 DEF Types, Pay!TypeOK
<1>. QED
  BY <1>2, <1>3, <1>6, <1>7, <1>8, <1>9, <1>10, StepKinds

LEMMA CardsRowsKept ==
  ASSUME Pay!PayrollAssumption, Inv, [Pay!Next]_(Pay!vars)
  PROVE  CardsRowsOK'
<1>1. /\ cardsCard \in [CardsCards -> Pay!CardRows \cup {None}]
      /\ cardsPeriod \in [Pay!Periods -> {"NONE", "OPEN", "REVIEW", "LOCKED"}]
      /\ cardsEffective \in Int
  BY Windows DEF Inv, Types, Pay!TypeOK, Pay!Instants, Pay!Unset
<1>2. CardsRowsOK
  BY DEF Inv
<1>3. CASE \E c \in CardsCards : CardAction(c)
  <2>1. PICK c \in CardsCards, r \in Pay!CardRows :
           /\ cardsCard' = [cardsCard EXCEPT ![c] = r]
           /\ UNCHANGED <<cardsNow, cardsEffective, cardsPeriod, cardsDecision, cardsAmendment, cardsEntries>>
           /\ CardsRowOK(r)
    BY <1>3, CardSteps
  <2>2. cardsCard'[c] = r /\ \A d \in CardsCards \ {c} : cardsCard'[d] = cardsCard[d]
    BY <1>1, <2>1
  <2>3. \A d \in CardsCards : Pay!Exists(d)' => CardsRowOK(cardsCard'[d])
    BY <1>2, <2>1, <2>2 DEF CardsRowsOK, Pay!Exists
  <2>. QED
    BY <1>2, <2>1, <2>3 DEF CardsRowsOK, CardsRowOK, Pay!Covers, Pay!Start, Pay!End
<1>4. CASE UNCHANGED <<cardsCard, cardsPeriod, cardsEffective>>
  BY <1>2, <1>4 DEF CardsRowsOK, CardsRowOK, Pay!Exists, Pay!Covers, Pay!Start, Pay!End
<1>5. ASSUME NEW p \in Pay!Periods,
             Pay!CreatePolicy(p) \/ Pay!CreatePeriod(p) \/ Pay!StartReview(p) \/ Pay!LockPeriod(p)
      PROVE  CardsRowsOK'
  <2>1. UNCHANGED cardsCard
    BY <1>5 DEF Pay!CreatePolicy, Pay!CreatePeriod, Pay!StartReview, Pay!LockPeriod
  <2>2. \A c \in CardsCards : Pay!Exists(c)' => CardsRowOK(cardsCard'[c])
    BY <1>2, <2>1 DEF CardsRowsOK, Pay!Exists
  <2>3. \A q \in Pay!Periods : cardsPeriod'[q] # "NONE" => cardsEffective' # Pay!Unset /\ cardsEffective' =< Pay!Start(q)
    <3>1. CASE Pay!CreatePolicy(p)
      <4>1. cardsEffective = Pay!Unset /\ UNCHANGED cardsPeriod
        BY <3>1 DEF Pay!CreatePolicy
      <4>. QED
        BY <1>2, <4>1 DEF CardsRowsOK
    <3>2. CASE Pay!CreatePeriod(p)
      BY <1>1, <1>2, <3>2 DEF Pay!CreatePeriod, CardsRowsOK
    <3>3. CASE Pay!StartReview(p) \/ Pay!LockPeriod(p)
      BY <1>1, <1>2, <3>3 DEF Pay!StartReview, Pay!LockPeriod, CardsRowsOK
    <3>. QED
      BY <1>5, <3>1, <3>2, <3>3
  <2>. QED
    BY <2>2, <2>3 DEF CardsRowsOK, CardsRowOK, Pay!Covers, Pay!Start, Pay!End
<1>6. CASE \/ \E c \in CardsCards, u \in CardsUsers, v \in {"APPROVED", "REJECTED"} : Pay!DecideCard(c, u, v)
           \/ \E a \in CardsAmendments, c \in CardsCards, p \in Pay!Periods, q \in Pay!Periods, u \in CardsUsers,
               m \in 0 .. CardsPeriodLength : Pay!CreateAmendment(a, c, p, q, u, m)
           \/ \E a \in CardsAmendments, u \in CardsUsers, v \in {"APPROVED", "REJECTED"} :
               Pay!DecideAmendment(a, u, v)
           \/ Pay!Tick
           \/ UNCHANGED Pay!vars
  BY <1>4, <1>6 DEF Pay!DecideCard, Pay!CreateAmendment, Pay!DecideAmendment, Pay!Tick, Pay!vars
<1>. QED
  BY <1>3, <1>5, <1>6, StepKinds DEF PeriodAction

LEMMA DecisionsKept ==
  ASSUME Pay!PayrollAssumption, Inv, [Pay!Next]_(Pay!vars)
  PROVE  DecisionsOK'
<1>1. /\ Keeps /\ DecisionsOK
      /\ \A d \in cardsDecision : d.card \in CardsCards
  BY StepKeeps DEF Inv, Types, Pay!TypeOK
<1>2. \A d \in cardsDecision : Pay!Exists(d.card)' /\ d.by # cardsCard'[d.card].user
  BY <1>1 DEF Keeps, DecisionsOK
<1>3. CASE UNCHANGED cardsDecision
  BY <1>1, <1>2, <1>3 DEF DecisionsOK
<1>4. CASE \E c \in CardsCards, u \in CardsUsers, v \in {"APPROVED", "REJECTED"} : Pay!DecideCard(c, u, v)
  <2>1. PICK c \in CardsCards, u \in CardsUsers, v \in {"APPROVED", "REJECTED"} : Pay!DecideCard(c, u, v)
    BY <1>4
  <2>2. PICK n : n = [card |-> c, rev |-> cardsCard[c].rev, by |-> u, verdict |-> v]
    OBVIOUS
  <2>3. /\ cardsDecision' = cardsDecision \cup {n} /\ UNCHANGED cardsCard
        /\ Pay!Exists(c) /\ cardsCard[c].user # u
        /\ \A d \in cardsDecision : ~(d.card = c /\ d.rev = cardsCard[c].rev)
    BY <2>1, <2>2 DEF Pay!DecideCard
  <2>4. n.card = c /\ n.rev = cardsCard[c].rev /\ n.by = u
    BY <2>2
  <2>5. \A d \in cardsDecision' : Pay!Exists(d.card)' /\ d.by # cardsCard'[d.card].user
    BY <1>2, <2>3, <2>4 DEF Pay!Exists
  <2>6. \A d, f \in cardsDecision' : (d.card = f.card /\ d.rev = f.rev) => d = f
    BY <1>1, <2>3, <2>4 DEF DecisionsOK
  <2>. QED
    BY <2>5, <2>6 DEF DecisionsOK
<1>5. CASE \E c \in CardsCards : CardAction(c)
  BY <1>3, <1>5, CardSteps
<1>6. CASE \/ PeriodAction
           \/ \E p \in Pay!Periods : Pay!LockPeriod(p)
           \/ \E a \in CardsAmendments, c \in CardsCards, p \in Pay!Periods, q \in Pay!Periods, u \in CardsUsers,
               m \in 0 .. CardsPeriodLength : Pay!CreateAmendment(a, c, p, q, u, m)
           \/ \E a \in CardsAmendments, u \in CardsUsers, v \in {"APPROVED", "REJECTED"} :
               Pay!DecideAmendment(a, u, v)
           \/ UNCHANGED Pay!vars
  BY <1>3, <1>6 DEF PeriodAction, Pay!Tick, Pay!CreatePolicy, Pay!CreatePeriod, Pay!StartReview, Pay!LockPeriod,
                    Pay!CreateAmendment, Pay!DecideAmendment, Pay!vars
<1>. QED
  BY <1>4, <1>5, <1>6, StepKinds

\* Entries and locked periods come from locking only.
LEMMA OthersLockNothing ==
  ASSUME Pay!PayrollAssumption, Inv, [Pay!Next]_(Pay!vars), ~\E p \in Pay!Periods : Pay!LockPeriod(p)
  PROVE  /\ cardsEntries' = cardsEntries
         /\ \A p \in Pay!Periods : cardsPeriod'[p] = "LOCKED" => cardsPeriod[p] = "LOCKED"
<1>1. cardsPeriod \in [Pay!Periods -> {"NONE", "OPEN", "REVIEW", "LOCKED"}]
  BY DEF Inv, Types, Pay!TypeOK
<1>2. CASE \E c \in CardsCards : CardAction(c)
  BY <1>2, CardSteps
<1>3. CASE PeriodAction
  BY <1>1, <1>3 DEF PeriodAction, Pay!Tick, Pay!CreatePolicy, Pay!CreatePeriod, Pay!StartReview
<1>4. CASE \/ \E c \in CardsCards, u \in CardsUsers, v \in {"APPROVED", "REJECTED"} : Pay!DecideCard(c, u, v)
           \/ \E a \in CardsAmendments, c \in CardsCards, p \in Pay!Periods, q \in Pay!Periods, u \in CardsUsers,
               m \in 0 .. CardsPeriodLength : Pay!CreateAmendment(a, c, p, q, u, m)
           \/ \E a \in CardsAmendments, u \in CardsUsers, v \in {"APPROVED", "REJECTED"} :
               Pay!DecideAmendment(a, u, v)
           \/ UNCHANGED Pay!vars
  BY <1>4 DEF Pay!DecideCard, Pay!CreateAmendment, Pay!DecideAmendment, Pay!vars
<1>. QED
  BY <1>2, <1>3, <1>4, StepKinds

LEMMA EntriesKept ==
  ASSUME Pay!PayrollAssumption, Inv, [Pay!Next]_(Pay!vars)
  PROVE  EntriesOK'
<1>1. Keeps /\ EntriesOK
  BY StepKeeps DEF Inv
<1>2. ASSUME NEW p \in Pay!Periods, NEW e \in cardsEntries[p]
      PROVE  /\ cardsPeriod'[p] = "LOCKED"
             /\ \/ \E c \in CardsCards : PaidCard(p, c, e)'
                \/ \E a \in CardsAmendments : PaidAmendment(p, a, e)'
  BY <1>1, PaidCardKept, PaidAmendmentKept DEF EntriesOK, Keeps
<1>3. ASSUME NEW p \in Pay!Periods, Pay!LockPeriod(p), NEW e \in cardsEntries'[p]
      PROVE  /\ cardsPeriod'[p] = "LOCKED"
             /\ \/ \E c \in CardsCards : PaidCard(p, c, e)'
                \/ \E a \in CardsAmendments : PaidAmendment(p, a, e)'
  <2>1. cardsPeriod'[p] = "LOCKED" /\ UNCHANGED <<cardsCard, cardsDecision, cardsAmendment>>
    BY <1>3 DEF Pay!LockPeriod, Inv, Types, Pay!TypeOK
  <2>2. \/ \E c \in CardsCards : PaidCard(p, c, e)
        \/ \E a \in CardsAmendments : PaidAmendment(p, a, e)
    BY <1>3, Locks
  <2>. QED
    BY <2>1, <2>2 DEF PaidCard, PaidAmendment, Pay!Exists
<1>4. ASSUME NEW p \in Pay!Periods, Pay!LockPeriod(p), NEW q \in Pay!Periods \ {p}
      PROVE  cardsEntries'[q] = cardsEntries[q]
  BY <1>4 DEF Pay!LockPeriod, Inv, Types
<1>5. CASE \E p \in Pay!Periods : Pay!LockPeriod(p)
  BY <1>2, <1>3, <1>4, <1>5 DEF EntriesOK
<1>6. CASE ~\E p \in Pay!Periods : Pay!LockPeriod(p)
  <2>1. cardsEntries' = cardsEntries
    BY <1>6, OthersLockNothing
  <2>. QED
    BY <1>2, <2>1 DEF EntriesOK
<1>. QED
  BY <1>5, <1>6

LEMMA PaidKept ==
  ASSUME Pay!PayrollAssumption, Inv, [Pay!Next]_(Pay!vars)
  PROVE  PaidOK'
<1>1. Keeps /\ PaidOK /\ CardsRowsOK
  BY StepKeeps DEF Inv
<1>. SUFFICES ASSUME NEW p \in Pay!Periods, NEW c \in CardsCards, cardsPeriod'[p] = "LOCKED", Pay!Exists(c)',
                     Pay!Covers(p, cardsCard'[c].in)
              PROVE  \E e \in cardsEntries'[p] : PaidCard(p, c, e)'
  BY DEF PaidOK, Pay!Covers, Pay!Start, Pay!End
<1>2. CASE cardsPeriod[p] = "LOCKED" /\ cardsCard'[c] = cardsCard[c]
  <2>1. PICK e \in cardsEntries[p] : PaidCard(p, c, e)
    BY <1>1, <1>2 DEF PaidOK, Pay!Exists
  <2>. QED
    BY <1>1, <2>1, PaidCardKept
<1>3. CASE \E q \in Pay!Periods : Pay!LockPeriod(q)
  <2>1. PICK q \in Pay!Periods : Pay!LockPeriod(q)
    BY <1>3
  <2>2. /\ UNCHANGED <<cardsCard, cardsDecision>>
        /\ \A r \in Pay!Periods \ {q} : cardsPeriod'[r] = cardsPeriod[r]
    BY <2>1 DEF Pay!LockPeriod, Inv, Types, Pay!TypeOK
  <2>3. CASE p = q
    <3>1. Pay!Exists(c) /\ Pay!Covers(p, cardsCard[c].in)
      BY <2>2 DEF Pay!Exists
    <3>2. cardsCard[c].in \in Int /\ cardsCard[c].out \in Int /\ CardsRowOK(cardsCard[c])
      BY <1>1, <3>1, RowTypes DEF Inv, CardsRowsOK
    <3>3. c \in Pay!Candidates(p)
      BY <3>1, <3>2, Windows DEF Pay!Candidates, Pay!IsOpen, Pay!Covers, CardsRowOK
    <3>4. PICK e \in cardsEntries'[p] : PaidCard(p, c, e)
      BY <2>1, <2>3, <3>3, Locks
    <3>. QED
      BY <2>2, <3>4 DEF PaidCard, Pay!Exists
  <2>. QED
    BY <1>2, <2>2, <2>3
<1>4. CASE ~\E q \in Pay!Periods : Pay!LockPeriod(q)
  <2>1. cardsPeriod[p] = "LOCKED"
    BY <1>4, OthersLockNothing
  <2>2. CASE \E d \in CardsCards : CardAction(d)
    <3>1. PICK d \in CardsCards, r \in Pay!CardRows :
           /\ cardsCard' = [cardsCard EXCEPT ![d] = r]
           /\ UNCHANGED <<cardsNow, cardsEffective, cardsPeriod, cardsDecision, cardsAmendment, cardsEntries>>
           /\ ~Pay!Frozen(r)
      BY <2>2, CardSteps
    <3>2. CASE c = d
      <4>1. cardsCard'[c] = r
        BY <3>1, <3>2 DEF Inv, Types, Pay!TypeOK
      <4>. QED
        BY <2>1, <3>1, <4>1 DEF Pay!Frozen
    <3>3. CASE c # d
      <4>1. cardsCard'[c] = cardsCard[c]
        BY <3>1, <3>3 DEF Inv, Types, Pay!TypeOK
      <4>. QED
        BY <1>2, <2>1, <4>1
    <3>. QED
      BY <3>2, <3>3
  <2>3. CASE ~\E d \in CardsCards : CardAction(d)
    <3>1. UNCHANGED cardsCard
      <4>1. CASE UNCHANGED Pay!vars
        BY <4>1 DEF Pay!vars
      <4>2. CASE PeriodAction
        BY <4>2 DEF PeriodAction, Pay!Tick, Pay!CreatePolicy, Pay!CreatePeriod, Pay!StartReview
      <4>3. CASE \/ \E d \in CardsCards, u \in CardsUsers, v \in {"APPROVED", "REJECTED"} : Pay!DecideCard(d, u, v)
                 \/ \E a \in CardsAmendments, d \in CardsCards, r \in Pay!Periods, q \in Pay!Periods, u \in CardsUsers,
                      m \in 0 .. CardsPeriodLength : Pay!CreateAmendment(a, d, r, q, u, m)
                 \/ \E a \in CardsAmendments, u \in CardsUsers, v \in {"APPROVED", "REJECTED"} :
                      Pay!DecideAmendment(a, u, v)
        BY <4>3 DEF Pay!DecideCard, Pay!CreateAmendment, Pay!DecideAmendment
      <4>. QED
        BY <1>4, <2>3, <4>1, <4>2, <4>3, StepKinds
    <3>. QED
      BY <1>2, <2>1, <3>1
  <2>. QED
    BY <2>2, <2>3
<1>. QED
  BY <1>3, <1>4

LEMMA AmendmentsKept ==
  ASSUME Pay!PayrollAssumption, Inv, [Pay!Next]_(Pay!vars)
  PROVE  AmendmentsOK'
<1>1. Keeps /\ AmendmentsOK /\ cardsAmendment \in [CardsAmendments -> Pay!AmendmentRows \cup {None}]
  BY StepKeeps DEF Inv, Types, Pay!TypeOK
<1>2. ASSUME NEW a \in CardsAmendments, cardsAmendment[a] # None, cardsAmendment'[a] = cardsAmendment[a]
      PROVE  AmendmentOK(a)'
  <2>1. AmendmentOK(a)
    BY <1>1, <1>2 DEF AmendmentsOK
  <2>2. PICK e \in cardsEntries'[cardsAmendment'[a].from] :
              PaidCard(cardsAmendment[a].from, cardsAmendment[a].card, e)'
    BY <1>1, <1>2, AmendmentKept
  <2>3. PaidCard(cardsAmendment[a].from, cardsAmendment[a].card, e)'
    BY <2>2
  <2>4. cardsCard'[cardsAmendment[a].card] = cardsCard[cardsAmendment[a].card]
    BY <1>1, <1>2, AmendmentKept
  <2>. QED
    BY <1>2, <2>1, <2>2, <2>3, <2>4 DEF AmendmentOK
<1>3. ASSUME UNCHANGED cardsAmendment
      PROVE  AmendmentsOK'
  BY <1>1, <1>2, <1>3 DEF AmendmentsOK
<1>4. CASE \E a \in CardsAmendments, c \in CardsCards, p \in Pay!Periods, q \in Pay!Periods, u \in CardsUsers,
               m \in 0 .. CardsPeriodLength : Pay!CreateAmendment(a, c, p, q, u, m)
  <2>1. PICK a \in CardsAmendments, c \in CardsCards, p \in Pay!Periods, q \in Pay!Periods, u \in CardsUsers,
               m \in 0 .. CardsPeriodLength : Pay!CreateAmendment(a, c, p, q, u, m)
    BY <1>4
  <2>2. PICK r : r = [card |-> c, from |-> p, into |-> q, by |-> u, minutes |-> m,
                      verdict |-> "PENDING", decider |-> None]
    OBVIOUS
  <2>3. r.card = c /\ r.from = p /\ r.by = u /\ r.verdict = "PENDING"
    BY <2>2
  <2>4. /\ cardsAmendment'[a] = r /\ \A b \in CardsAmendments \ {a} : cardsAmendment'[b] = cardsAmendment[b]
        /\ UNCHANGED <<cardsCard, cardsDecision, cardsEntries>>
    BY <1>1, <2>1, <2>2 DEF Pay!CreateAmendment
  <2>5. PICK e \in cardsEntries[p] : e.src = "TIME_CARD" /\ e.id = c /\ e.user # u
    BY <2>1 DEF Pay!CreateAmendment
  <2>6. PaidCard(p, c, e) /\ cardsCard[c].user # u
    <3>1. (\E d \in CardsCards : PaidCard(p, d, e)) \/ (\E b \in CardsAmendments : PaidAmendment(p, b, e))
      BY <2>5 DEF Inv, EntriesOK
    <3>2. ~\E b \in CardsAmendments : PaidAmendment(p, b, e)
      BY <2>5 DEF PaidAmendment
    <3>3. PICK d \in CardsCards : PaidCard(p, d, e)
      BY <3>1, <3>2
    <3>4. d = c /\ e.user = cardsCard[c].user
      BY <2>5, <3>3 DEF PaidCard
    <3>. QED
      BY <2>5, <3>3, <3>4
  <2>7. PaidCard(p, c, e)'
    BY <2>4, <2>6 DEF PaidCard, Pay!Exists
  <2>8. AmendmentOK(a)'
    BY <2>3, <2>4, <2>5, <2>6, <2>7 DEF AmendmentOK
  <2>9. \A b \in CardsAmendments : cardsAmendment'[b] # None => AmendmentOK(b)'
    BY <1>2, <2>4, <2>8
  <2>10. \A b, d \in CardsAmendments :
         (/\ cardsAmendment'[b] # None /\ cardsAmendment'[d] # None
          /\ cardsAmendment'[b].card = cardsAmendment'[d].card
          /\ cardsAmendment'[b].verdict = "APPROVED" /\ cardsAmendment'[d].verdict = "APPROVED") => b = d
    BY <1>1, <2>3, <2>4 DEF AmendmentsOK
  <2>. QED
    BY <2>9, <2>10 DEF AmendmentsOK
<1>5. CASE \E a \in CardsAmendments, u \in CardsUsers, v \in {"APPROVED", "REJECTED"} :
               Pay!DecideAmendment(a, u, v)
  <2>1. PICK a \in CardsAmendments, u \in CardsUsers, v \in {"APPROVED", "REJECTED"} :
               Pay!DecideAmendment(a, u, v)
    BY <1>5
  <2>2. PICK r : r = [cardsAmendment[a] EXCEPT !.verdict = v, !.decider = u]
    OBVIOUS
  <2>3. cardsAmendment[a] # None /\ cardsAmendment[a] \in Pay!AmendmentRows
    BY <1>1, <2>1 DEF Pay!DecideAmendment
  <2>4. /\ r.card = cardsAmendment[a].card /\ r.from = cardsAmendment[a].from
        /\ r.by = cardsAmendment[a].by /\ r.verdict = v /\ r.decider = u
    BY <2>2, <2>3 DEF Pay!AmendmentRows
  <2>5. /\ UNCHANGED <<cardsCard, cardsDecision, cardsEntries>>
        /\ cardsAmendment'[a] = r
        /\ \A b \in CardsAmendments \ {a} : cardsAmendment'[b] = cardsAmendment[b]
    BY <1>1, <2>1, <2>2 DEF Pay!DecideAmendment
  <2>6. PICK p, c : p = cardsAmendment[a].from /\ c = cardsAmendment[a].card
    OBVIOUS
  <2>7. p \in Pay!Periods /\ c \in CardsCards
    BY <2>3, <2>6, RowTypes DEF Inv
  <2>8. AmendmentOK(a)
    BY <1>1, <2>3 DEF AmendmentsOK
  <2>9. PICK e \in cardsEntries[p] : PaidCard(p, c, e)
    BY <2>6, <2>8 DEF AmendmentOK
  <2>10. Pay!OriginalEntry(a).user = cardsCard[c].user
    <3>1. PICK o : o = Pay!OriginalEntry(a)
      OBVIOUS
    <3>2. \E f \in cardsEntries[cardsAmendment[a].from] : f.src = "TIME_CARD" /\ f.id = cardsAmendment[a].card
      BY <2>6, <2>9 DEF PaidCard
    <3>3. o \in cardsEntries[cardsAmendment[a].from] /\ o.src = "TIME_CARD" /\ o.id = cardsAmendment[a].card
      BY <3>1, <3>2, Zenon DEF Pay!OriginalEntry
    <3>4. (\E d \in CardsCards : PaidCard(p, d, o)) \/ (\E b \in CardsAmendments : PaidAmendment(p, b, o))
      BY <2>6, <2>7, <3>3 DEF Inv, EntriesOK
    <3>5. ~\E b \in CardsAmendments : PaidAmendment(p, b, o)
      BY <3>3 DEF PaidAmendment
    <3>6. PICK d \in CardsCards : PaidCard(p, d, o)
      BY <3>4, <3>5
    <3>. QED
      BY <2>6, <3>1, <3>3, <3>6 DEF PaidCard
  <2>11. u # cardsAmendment[a].by /\ u # cardsCard[c].user
    BY <2>1, <2>10 DEF Pay!DecideAmendment, Pay!Independent
  <2>12. PaidCard(p, c, e)'
    BY <2>5, <2>9 DEF PaidCard, Pay!Exists
  <2>13. AmendmentOK(a)'
    BY <2>4, <2>5, <2>6, <2>8, <2>9, <2>11, <2>12 DEF AmendmentOK
  <2>14. \A b \in CardsAmendments : cardsAmendment'[b] # None => AmendmentOK(b)'
    BY <1>2, <2>5, <2>13
  <2>15. ASSUME NEW b \in CardsAmendments \ {a}, cardsAmendment[b] # None, v = "APPROVED",
                cardsAmendment[b].card = c, cardsAmendment[b].verdict = "APPROVED"
         PROVE  FALSE
    <3>1. PICK q : q = cardsAmendment[b].from
      OBVIOUS
    <3>2. AmendmentOK(b)
      BY <1>1, <2>15 DEF AmendmentsOK
    <3>3. PICK f \in cardsEntries[q] : PaidCard(q, c, f)
      BY <2>15, <3>1, <3>2 DEF AmendmentOK
    <3>4. q = p
      BY <2>9, <3>3 DEF PaidCard
    <3>5. Pay!NotYetAmended(a)
      BY <2>1, <2>15 DEF Pay!DecideAmendment
    <3>. QED
      BY <2>6, <2>15, <3>1, <3>4, <3>5 DEF Pay!NotYetAmended
  <2>16. \A b, d \in CardsAmendments :
         (/\ cardsAmendment'[b] # None /\ cardsAmendment'[d] # None
          /\ cardsAmendment'[b].card = cardsAmendment'[d].card
          /\ cardsAmendment'[b].verdict = "APPROVED" /\ cardsAmendment'[d].verdict = "APPROVED") => b = d
    BY <1>1, <2>4, <2>5, <2>6, <2>15 DEF AmendmentsOK
  <2>. QED
    BY <2>14, <2>16 DEF AmendmentsOK
<1>6. CASE \E c \in CardsCards : CardAction(c)
  BY <1>3, <1>6, CardSteps
<1>7. CASE \/ PeriodAction
           \/ \E p \in Pay!Periods : Pay!LockPeriod(p)
           \/ \E c \in CardsCards, u \in CardsUsers, v \in {"APPROVED", "REJECTED"} : Pay!DecideCard(c, u, v)
           \/ UNCHANGED Pay!vars
  BY <1>3, <1>7 DEF PeriodAction, Pay!Tick, Pay!CreatePolicy, Pay!CreatePeriod, Pay!StartReview, Pay!LockPeriod,
                    Pay!DecideCard, Pay!vars
<1>. QED
  BY <1>4, <1>5, <1>6, <1>7, StepKinds

LEMMA InitInv ==
  ASSUME Pay!PayrollAssumption, Pay!Init
  PROVE  Inv
<1>1. Types
  <2>1. 0 \in Pay!Instants /\ Pay!Unset \in Pay!Instants \cup {Pay!Unset}
    BY Windows DEF Pay!Instants
  <2>2. \E k \in 0 .. CardsNumPeriods : cardsNow = k * CardsPeriodLength
    <3>1. cardsNow = 0 * CardsPeriodLength /\ 0 \in 0 .. CardsNumPeriods
      BY DEF Pay!Init, Pay!PayrollAssumption
    <3>. QED
      BY <3>1
  <2>. QED
    BY <2>1, <2>2 DEF Pay!Init, Types, Pay!TypeOK
<1>2. CardsRowsOK /\ DecisionsOK /\ EntriesOK /\ PaidOK /\ AmendmentsOK
  BY DEF Pay!Init, CardsRowsOK, DecisionsOK, EntriesOK, PaidOK, AmendmentsOK, Pay!Exists
<1>. QED
  BY <1>1, <1>2 DEF Inv

THEOREM Invariance ==
  ASSUME Pay!PayrollAssumption PROVE Pay!Spec => []Inv
<1>1. Pay!Init => Inv
  BY InitInv
<1>2. Inv /\ [Pay!Next]_(Pay!vars) => Inv'
  BY TypesKept, CardsRowsKept, DecisionsKept, EntriesKept, PaidKept, AmendmentsKept DEF Inv
<1>. QED
  BY <1>1, <1>2, PTL DEF Pay!Spec

\* Every row has its type, whatever is clocked, corrected, decided and locked.
THEOREM PayrollTypeCorrect ==
  ASSUME Pay!PayrollAssumption PROVE Pay!Spec => []Pay!TypeOK
<1>1. Inv => Pay!TypeOK
  BY DEF Inv, Types
<1>. QED
  BY <1>1, Invariance, PTL

\* Locking pays exactly the period's work: every card clocked in during a
\* LOCKED period is paid there with its current revision and minutes, approved
\* by somebody else, and nowhere else.
THEOREM PeriodsAreExact ==
  ASSUME Pay!PayrollAssumption PROVE Pay!Spec => []Pay!LockedPeriodIsExact
<1>1. ASSUME Inv PROVE Pay!LockedPeriodIsExact
  <2>1. ASSUME NEW p \in Pay!Periods, cardsPeriod[p] = "LOCKED", NEW c \in CardsCards, Pay!Exists(c),
               Pay!Covers(p, cardsCard[c].in)
        PROVE  \E e \in cardsEntries[p] :
                  /\ e.src = "TIME_CARD" /\ e.id = c
                  /\ e.rev = cardsCard[c].rev
                  /\ e.minutes = Pay!Minutes(cardsCard[c])
                  /\ [card |-> c, rev |-> e.rev, by |-> e.by, verdict |-> "APPROVED"] \in cardsDecision
                  /\ e.by # cardsCard[c].user
    <3>1. PICK e \in cardsEntries[p] : PaidCard(p, c, e)
      BY <1>1, <2>1 DEF Inv, PaidOK
    <3>2. PICK u \in CardsUsers :
         /\ [card |-> c, rev |-> cardsCard[c].rev, by |-> u, verdict |-> "APPROVED"] \in cardsDecision
         /\ e = [src |-> "TIME_CARD", id |-> c, rev |-> cardsCard[c].rev, user |-> cardsCard[c].user,
                 minutes |-> Pay!Minutes(cardsCard[c]), by |-> u]
      BY <3>1 DEF PaidCard
    <3>3. u # cardsCard[c].user
      BY <1>1, <3>2 DEF Inv, DecisionsOK
    <3>. QED
      BY <3>2, <3>3
  <2>2. ASSUME NEW p \in Pay!Periods, NEW e \in cardsEntries[p], e.src = "TIME_CARD"
        PROVE  e.id \in CardsCards /\ cardsCard[e.id].period = p
    <3>1. (\E d \in CardsCards : PaidCard(p, d, e)) \/ (\E b \in CardsAmendments : PaidAmendment(p, b, e))
      BY <1>1, <2>2 DEF Inv, EntriesOK
    <3>2. ~\E b \in CardsAmendments : PaidAmendment(p, b, e)
      BY <2>2 DEF PaidAmendment
    <3>3. PICK d \in CardsCards : PaidCard(p, d, e)
      BY <3>1, <3>2
    <3>. QED
      BY <3>3 DEF PaidCard
  <2>. QED
    BY <2>1, <2>2 DEF Pay!LockedPeriodIsExact
<1>. QED
  BY <1>1, Invariance, PTL

\* What is paid for a card is its minutes, once, or what its one approved
\* amendment says, in two entries.
THEOREM CardsArePaidOnce ==
  ASSUME Pay!PayrollAssumption PROVE Pay!Spec => []Pay!CardIsPaidOnce
<1>1. ASSUME Inv PROVE Pay!CardIsPaidOnce
  <2>. SUFFICES ASSUME NEW c \in CardsCards
                PROVE  LET paid == UNION {{<<p, e>> : e \in {f \in cardsEntries[p] : Pay!Paying(c, f)}} :
                                             p \in Pay!Periods}
                       IN  \A x \in paid :
                \/ paid = {x} /\ x[2].minutes = Pay!Minutes(cardsCard[c])
                \/ \E y \in paid : \E a \in CardsAmendments :
                       /\ paid = {x, y} /\ x # y
                       /\ cardsAmendment[a] # None /\ cardsAmendment[a].card = c
                       /\ cardsAmendment[a].verdict = "APPROVED"
                       /\ cardsPeriod[cardsAmendment[a].into] = "LOCKED"
                       /\ x[2].minutes + y[2].minutes = cardsAmendment[a].minutes
    BY Zenon DEF Pay!CardIsPaidOnce
  <2>. DEFINE paid == UNION {{<<p, e>> : e \in {f \in cardsEntries[p] : Pay!Paying(c, f)}} : p \in Pay!Periods}
  <2>1. \A x : x \in paid <=> \E p \in Pay!Periods : \E e \in cardsEntries[p] : Pay!Paying(c, e) /\ x = <<p, e>>
    OBVIOUS
  <2>2. ASSUME NEW p \in Pay!Periods, NEW e \in cardsEntries[p], Pay!Paying(c, e)
        PROVE  \/ PaidCard(p, c, e)
               \/ \E a \in CardsAmendments : PaidAmendment(p, a, e) /\ cardsAmendment[a].card = c
    <3>1. (\E d \in CardsCards : PaidCard(p, d, e)) \/ (\E b \in CardsAmendments : PaidAmendment(p, b, e))
      BY <1>1, <2>2 DEF Inv, EntriesOK
    <3>2. ASSUME NEW d \in CardsCards, PaidCard(p, d, e) PROVE d = c
      <4>1. e.src = "TIME_CARD" /\ e.id = d
        BY <3>2 DEF PaidCard
      <4>. QED
        BY <2>2, <4>1 DEF Pay!Paying
    <3>3. ASSUME NEW b \in CardsAmendments, PaidAmendment(p, b, e) PROVE cardsAmendment[b].card = c
      <4>1. e.src = "AMENDMENT" /\ e.id = b
        BY <3>3 DEF PaidAmendment
      <4>. QED
        BY <2>2, <4>1 DEF Pay!Paying
    <3>. QED
      BY <3>1, <3>2, <3>3
  <2>3. ASSUME NEW p, NEW e, NEW q, NEW f, PaidCard(p, c, e), PaidCard(q, c, f)
        PROVE  <<p, e>> = <<q, f>>
    <3>1. p = q
      BY <2>3 DEF PaidCard
    <3>2. PICK u \in CardsUsers :
         /\ [card |-> c, rev |-> cardsCard[c].rev, by |-> u, verdict |-> "APPROVED"] \in cardsDecision
         /\ e = [src |-> "TIME_CARD", id |-> c, rev |-> cardsCard[c].rev, user |-> cardsCard[c].user,
                 minutes |-> Pay!Minutes(cardsCard[c]), by |-> u]
      BY <2>3 DEF PaidCard
    <3>3. PICK v \in CardsUsers :
         /\ [card |-> c, rev |-> cardsCard[c].rev, by |-> v, verdict |-> "APPROVED"] \in cardsDecision
         /\ f = [src |-> "TIME_CARD", id |-> c, rev |-> cardsCard[c].rev, user |-> cardsCard[c].user,
                 minutes |-> Pay!Minutes(cardsCard[c]), by |-> v]
      BY <2>3 DEF PaidCard
    <3>4. u = v
      BY <1>1, <3>2, <3>3 DEF Inv, DecisionsOK
    <3>. QED
      BY <3>1, <3>2, <3>3, <3>4
  <2>4. ASSUME NEW p, NEW e, NEW q, NEW f, NEW a \in CardsAmendments, NEW b \in CardsAmendments,
               PaidAmendment(p, a, e), PaidAmendment(q, b, f),
               cardsAmendment[a].card = c, cardsAmendment[b].card = c
        PROVE  a = b /\ <<p, e>> = <<q, f>>
    BY <1>1, <2>4 DEF Inv, AmendmentsOK, PaidAmendment
  <2>5. ASSUME NEW p \in Pay!Periods, NEW e \in cardsEntries[p], NEW a \in CardsAmendments,
               PaidAmendment(p, a, e), cardsAmendment[a].card = c
        PROVE  \E q \in Pay!Periods : \E f \in cardsEntries[q] : PaidCard(q, c, f)
    <3>1. cardsAmendment[a] # None /\ cardsAmendment[a].from \in Pay!Periods
      BY <1>1, <2>5, RowTypes DEF Inv, PaidAmendment
    <3>. QED
      BY <1>1, <2>5, <3>1 DEF Inv, AmendmentsOK, AmendmentOK
  <2>6. ASSUME NEW p \in Pay!Periods, NEW e \in cardsEntries[p], PaidCard(p, c, e)
        PROVE  Pay!Paying(c, e) /\ e.minutes = Pay!Minutes(cardsCard[c]) /\ e.src = "TIME_CARD"
    BY <2>6 DEF PaidCard, Pay!Paying
  <2>7. ASSUME NEW q \in Pay!Periods, NEW f \in cardsEntries[q], NEW a \in CardsAmendments,
               PaidAmendment(q, a, f), cardsAmendment[a].card = c
        PROVE  /\ Pay!Paying(c, f) /\ f.src = "AMENDMENT"
               /\ f.minutes = cardsAmendment[a].minutes - Pay!Minutes(cardsCard[c])
               /\ cardsAmendment[a] # None /\ cardsAmendment[a].verdict = "APPROVED"
               /\ cardsPeriod[cardsAmendment[a].into] = "LOCKED"
    BY <1>1, <2>7 DEF PaidAmendment, Pay!Paying, Inv, EntriesOK
  <2>8. ASSUME NEW p \in Pay!Periods, NEW e \in cardsEntries[p], PaidCard(p, c, e),
               NEW q \in Pay!Periods, NEW f \in cardsEntries[q], NEW a \in CardsAmendments,
               PaidAmendment(q, a, f), cardsAmendment[a].card = c
        PROVE  /\ paid = {<<p, e>>, <<q, f>>} /\ <<p, e>> # <<q, f>>
               /\ e.minutes + f.minutes = cardsAmendment[a].minutes
               /\ f.minutes + e.minutes = cardsAmendment[a].minutes
    <3>1. e.src = "TIME_CARD" /\ e.minutes = Pay!Minutes(cardsCard[c]) /\ Pay!Paying(c, e)
      BY <2>6, <2>8
    <3>2. /\ f.src = "AMENDMENT" /\ f.minutes = cardsAmendment[a].minutes - Pay!Minutes(cardsCard[c])
          /\ Pay!Paying(c, f) /\ cardsAmendment[a] # None
      BY <2>7, <2>8
    <3>3. Pay!Minutes(cardsCard[c]) \in Int /\ cardsAmendment[a].minutes \in Nat
      BY <1>1, <2>8, <3>2, RowTypes DEF Inv, PaidCard
    <3>4. <<p, e>> \in paid /\ <<q, f>> \in paid
      BY <2>1, <3>1, <3>2
    <3>5. \A x \in paid : x = <<p, e>> \/ x = <<q, f>>
      <4>. SUFFICES ASSUME NEW x \in paid PROVE x = <<p, e>> \/ x = <<q, f>>
        OBVIOUS
      <4>1. PICK s, g : s \in Pay!Periods /\ g \in cardsEntries[s] /\ Pay!Paying(c, g) /\ x = <<s, g>>
        BY <2>1
      <4>. HIDE DEF paid
      <4>2. CASE PaidCard(s, c, g)
        BY <2>3, <2>8, <4>1, <4>2
      <4>3. CASE \E b \in CardsAmendments : PaidAmendment(s, b, g) /\ cardsAmendment[b].card = c
        BY <2>4, <2>8, <4>1, <4>3
      <4>. QED
        BY <2>2, <4>1, <4>2, <4>3
    <3>. HIDE DEF paid
    <3>6. paid = {<<p, e>>, <<q, f>>}
      BY <3>4, <3>5
    <3>7. <<p, e>> # <<q, f>>
      BY <3>1, <3>2
    <3>. QED
      BY <3>1, <3>2, <3>3, <3>6, <3>7
  <2>. HIDE DEF paid
  <2>9. ASSUME NEW x \in paid
        PROVE   \/ paid = {x} /\ x[2].minutes = Pay!Minutes(cardsCard[c])
                \/ \E y \in paid : \E a \in CardsAmendments :
                       /\ paid = {x, y} /\ x # y
                       /\ cardsAmendment[a] # None /\ cardsAmendment[a].card = c
                       /\ cardsAmendment[a].verdict = "APPROVED"
                       /\ cardsPeriod[cardsAmendment[a].into] = "LOCKED"
                       /\ x[2].minutes + y[2].minutes = cardsAmendment[a].minutes
    <3>1. PICK p, e : p \in Pay!Periods /\ e \in cardsEntries[p] /\ Pay!Paying(c, e) /\ x = <<p, e>>
      BY <2>1
    <3>2. x[2] = e
      BY <3>1
    <3>3. CASE PaidCard(p, c, e)
      <4>1. CASE \E q \in Pay!Periods : \E f \in cardsEntries[q] : \E a \in CardsAmendments :
                     PaidAmendment(q, a, f) /\ cardsAmendment[a].card = c
        <5>1. PICK q, f, a : q \in Pay!Periods /\ f \in cardsEntries[q] /\ a \in CardsAmendments /\
                     PaidAmendment(q, a, f) /\ cardsAmendment[a].card = c
          BY <4>1
        <5>2. PICK y : y = <<q, f>>
          OBVIOUS
        <5>3. paid = {x, y} /\ x # y /\ e.minutes + f.minutes = cardsAmendment[a].minutes
          BY <2>8, <3>1, <3>3, <5>1, <5>2
        <5>4. y \in paid /\ y[2] = f
          BY <5>2, <5>3
        <5>5. /\ cardsAmendment[a] # None /\ cardsAmendment[a].verdict = "APPROVED"
              /\ cardsPeriod[cardsAmendment[a].into] = "LOCKED"
          BY <2>7, <5>1
        <5>. QED
          BY <3>2, <5>1, <5>3, <5>4, <5>5
      <4>2. CASE ~\E q \in Pay!Periods : \E f \in cardsEntries[q] : \E a \in CardsAmendments :
                     PaidAmendment(q, a, f) /\ cardsAmendment[a].card = c
        <5>1. \A y \in paid : y = x
          BY <2>1, <2>2, <2>3, <3>1, <3>3, <4>2
        <5>2. paid = {x}
          BY <5>1
        <5>. QED
          BY <2>6, <3>1, <3>2, <3>3, <5>2
      <4>. QED
        BY <4>1, <4>2
    <3>4. CASE \E a \in CardsAmendments : PaidAmendment(p, a, e) /\ cardsAmendment[a].card = c
      <4>1. PICK a \in CardsAmendments : PaidAmendment(p, a, e) /\ cardsAmendment[a].card = c
        BY <3>4
      <4>2. PICK q, f : q \in Pay!Periods /\ f \in cardsEntries[q] /\ PaidCard(q, c, f)
        BY <2>5, <3>1, <4>1
      <4>3. PICK y : y = <<q, f>>
        OBVIOUS
      <4>4. paid = {x, y} /\ x # y /\ e.minutes + f.minutes = cardsAmendment[a].minutes
        <5>1. paid = {y, x} /\ y # x /\ e.minutes + f.minutes = cardsAmendment[a].minutes
          BY <2>8, <3>1, <4>1, <4>2, <4>3
        <5>. QED
          BY <5>1
      <4>5. y \in paid /\ y[2] = f
        BY <4>3, <4>4
      <4>6. /\ cardsAmendment[a] # None /\ cardsAmendment[a].verdict = "APPROVED"
            /\ cardsPeriod[cardsAmendment[a].into] = "LOCKED"
        BY <2>7, <3>1, <4>1
      <4>. QED
        BY <3>2, <4>1, <4>4, <4>5, <4>6
    <3>. QED
      BY <2>2, <3>1, <3>3, <3>4
  <2>. QED
    BY <2>9 DEF paid
<1>. QED
  BY <1>1, Invariance, PTL

\* Three different users stand behind every paid amendment.
THEOREM ThreeStandBehind ==
  ASSUME Pay!PayrollAssumption PROVE Pay!Spec => []Pay!AmendmentsAreIndependent
<1>1. ASSUME Inv PROVE Pay!AmendmentsAreIndependent
  <2>. SUFFICES ASSUME NEW p \in Pay!Periods, NEW e \in cardsEntries[p], e.src = "AMENDMENT"
                PROVE  Cardinality({e.user, e.by, cardsAmendment[e.id].by}) = 3
    BY PayCardinality DEF Pay!AmendmentsAreIndependent
  <2>1. PICK a \in CardsAmendments : PaidAmendment(p, a, e)
    <3>1. (\E d \in CardsCards : PaidCard(p, d, e)) \/ (\E b \in CardsAmendments : PaidAmendment(p, b, e))
      BY <1>1 DEF Inv, EntriesOK
    <3>2. ASSUME NEW d \in CardsCards, PaidCard(p, d, e) PROVE FALSE
      <4>1. e.src = "TIME_CARD"
        BY <3>2 DEF PaidCard
      <4>. QED
        BY <4>1
    <3>. QED
      BY <3>1, <3>2
  <2>2. AmendmentOK(a) /\ cardsAmendment[a].verdict = "APPROVED"
    BY <1>1, <2>1 DEF Inv, AmendmentsOK, PaidAmendment
  <2>3. PICK x, y, z : x = e.user /\ y = e.by /\ z = cardsAmendment[e.id].by
    OBVIOUS
  <2>4. x # y /\ x # z /\ y # z
    BY <2>1, <2>2, <2>3 DEF PaidAmendment, AmendmentOK
  <2>5. IsFiniteSet({x}) /\ Cardinality({x}) = 1
    BY FS_Singleton
  <2>6. IsFiniteSet({x} \cup {y}) /\ Cardinality({x} \cup {y}) = 2
    <3>1. y \notin {x}
      BY <2>4
    <3>2. IsFiniteSet({x} \cup {y}) /\ Cardinality({x} \cup {y}) = Cardinality({x}) + 1
      BY <2>5, <3>1, FS_AddElement
    <3>. QED
      BY <2>5, <3>2
  <2>7. Cardinality(({x} \cup {y}) \cup {z}) = 3
    <3>1. z \notin {x} \cup {y}
      BY <2>4
    <3>2. Cardinality(({x} \cup {y}) \cup {z}) = Cardinality({x} \cup {y}) + 1
      BY <2>6, <3>1, FS_AddElement
    <3>. QED
      BY <2>6, <3>2
  <2>8. ({x} \cup {y}) \cup {z} = {x, y, z}
    OBVIOUS
  <2>. QED
    BY <2>3, <2>7, <2>8
<1>. QED
  BY <1>1, Invariance, PTL

\* The entries of a locked period never change again.
THEOREM EntriesAreFinal ==
  ASSUME Pay!PayrollAssumption PROVE Pay!Spec => Pay!LockedEntriesStand
<1>1. Inv /\ [Pay!Next]_(Pay!vars) => [Pay!EntriesStand]_(Pay!vars)
  BY StepKeeps DEF Keeps, Pay!EntriesStand
<1>. QED
  BY <1>1, Invariance, PTL DEF Pay!Spec, Pay!LockedEntriesStand

-----------------------------------------------------------------------------
(* Schedules, shifts and publications. *)

LEMMA EditCardinality == \A S : Edit!Cardinality(S) = Cardinality(S)
BY DEF Edit!Cardinality, Cardinality

Statuses == {"none", "DRAFT", "PUBLISHED", "DELETED"}
ScheduleRows == [status : Statuses, loc : EdtLocations \cup {None}, start : Int, end : Int,
                 revision : Nat, demand : SUBSET EdtDemands, limit : Nat]
ShiftRows == [sched : {0} \cup Edit!Schedules, user : Edit!Assignees, start : Int, end : Int,
              breaks : SUBSET Int, used : BOOLEAN]
BoardRows == [sched : {0} \cup Edit!Schedules, revision : Nat,
              shifts : SUBSET (Edit!Shifts \X ShiftRows), without : SUBSET EdtUsers, read : BOOLEAN]

EdtRowTypes == edtSchedule \in [Edit!Schedules -> ScheduleRows] /\ edtShift \in [Edit!Shifts -> ShiftRows]
ContractTypes ==
    /\ DOMAIN edtContract = EdtClients
    /\ \A c \in EdtClients : edtContract[c].sched \in {0} \cup Edit!Schedules /\ edtContract[c].revision \in Nat
WorldTypes ==
    /\ edtPerson \in [EdtUsers -> Edit!Person] /\ edtClosed \subseteq EdtLocations /\ edtHooks \in {0, 1}
    /\ edtCredits \in Nat
    /\ edtBoard \in [EdtClients -> BoardRows]
    /\ ContractTypes
    /\ edtSolve \in [Edit!Schedules -> Nat \cup {Edit!NoSolve}]
    /\ edtAnnounced \subseteq Edit!Schedules \X Nat \X EdtUsers
    /\ DOMAIN edtEdition = Edit!Schedules

EdtTypes == EdtRowTypes /\ WorldTypes

-----------------------------------------------------------------------------
(* The invariant. *)

\* A board and a contract never run ahead of the schedule they name, and one
\* with its revision has its content.
BoardOK(c) ==
    LET s == edtBoard[c].sched IN
    s # 0 =>
        /\ edtSchedule[s].status # "none" /\ edtBoard[c].revision =< edtSchedule[s].revision
        /\ Edit!Exists(s) /\ edtBoard[c].read /\ edtBoard[c].revision = edtSchedule[s].revision
               => edtBoard[c].shifts = Edit!Shown(s, edtBoard[c].without)
Boards == \A c \in EdtClients : BoardOK(c)

ContractOK(c) ==
    LET s == edtContract[c].sched IN
    s # 0 =>
        /\ edtSchedule[s].status # "none" /\ edtContract[c].revision =< edtSchedule[s].revision
        /\ Edit!Exists(s) /\ edtContract[c].revision = edtSchedule[s].revision
               => edtContract[c].content = Edit!Content(s)
Contracts == \A c \in EdtClients : ContractOK(c)

\* A draft has a revision that was never announced.
Announced ==
    \A a \in edtAnnounced :
        /\ edtSchedule[a[1]].status # "none" /\ a[2] =< edtSchedule[a[1]].revision
        /\ Edit!Draft(a[1]) => a[2] < edtSchedule[a[1]].revision

Apart(s, t) ==
    Edit!Exists(s) /\ Edit!Exists(t) /\ edtSchedule[s].loc = edtSchedule[t].loc
        => ~Edit!Overlaps(edtSchedule[s], edtSchedule[t])
Tiled == \A s, t \in Edit!Schedules : s # t => Apart(s, t)

Seated(i) ==
    LET s == edtShift[i].sched IN
    /\ s \in Edit!Schedules /\ Edit!Exists(s)
    /\ Edit!Within(edtShift[i], edtSchedule[s]) /\ Edit!Inside(edtShift[i].breaks, edtShift[i])
Rows == \A i \in Edit!Shifts : edtShift[i].sched # 0 => edtShift[i].used /\ Seated(i)

Clash(i, j) ==
    /\ edtShift[i].sched # 0 /\ edtShift[j].sched # 0
    /\ edtShift[i].user = edtShift[j].user /\ edtShift[i].user # None
    /\ Edit!Overlaps(edtShift[i], edtShift[j])
Alone(i) == \A j \in Edit!Shifts : i # j => ~Clash(i, j)
Apiece == \A i \in Edit!Shifts : Alone(i)

\* The published schedules are manned.  Of any of them, one has a limit that
\* holds for the hours of all: the one that was published last.
Manned ==
    \A s \in Edit!Published : Edit!Covered(s) /\ \A i \in Edit!Of(s) : Edit!HasRequiredBreaks(edtShift[i])
WorksIn(u, s) == \E i \in Edit!Of(s) : edtShift[i].user = u
Light(u, S) ==
    Edit!Worked(u, S) = {} \/ \E s \in S : WorksIn(u, s) /\ Edit!Hours(u, S) =< edtSchedule[s].limit
Loads == \A u \in EdtUsers : \A S \in SUBSET Edit!Published : Light(u, S)

EdtInv ==
       /\ EdtTypes /\ Tiled /\ Rows /\ Apiece
       /\ Boards /\ Contracts /\ Announced /\ Edit!PublishedAsConfirmed /\ Manned /\ Loads

-----------------------------------------------------------------------------
(* What a step does to a schedule and to a shift. *)

SameRows(s) ==
    \A i \in Edit!Shifts : edtShift[i].sched = s \/ edtShift'[i].sched = s => edtShift'[i] = edtShift[i]
SameWindow(s) ==
    /\ edtSchedule'[s].loc = edtSchedule[s].loc
    /\ edtSchedule'[s].start = edtSchedule[s].start /\ edtSchedule'[s].end = edtSchedule[s].end

Rests(s) == edtSchedule'[s] = edtSchedule[s] /\ SameRows(s) /\ edtEdition'[s] = edtEdition[s]
Revised(s) ==
    /\ Edit!Draft(s) /\ edtSchedule'[s].status = "DRAFT" /\ SameWindow(s)
    /\ edtSchedule'[s].revision = edtSchedule[s].revision + 1
Withdrawn(s) ==
    /\ edtSchedule[s].status = "PUBLISHED" /\ edtSchedule'[s].status = "DRAFT" /\ SameWindow(s)
    /\ edtSchedule'[s].revision = edtSchedule[s].revision + 1
Removed(s) ==
    /\ Edit!Draft(s) /\ edtSchedule'[s].status = "DELETED"
    /\ edtSchedule'[s].revision = edtSchedule[s].revision
    /\ \A i \in Edit!Shifts : edtShift'[i].sched # s
Born(s) == edtSchedule[s].status = "none" /\ edtSchedule'[s].status = "DRAFT"
Issued(s) ==
    /\ Edit!Draft(s) /\ edtSchedule'[s].status = "PUBLISHED" /\ SameWindow(s)
    /\ edtSchedule'[s].revision = edtSchedule[s].revision
    /\ edtSchedule'[s].demand = edtSchedule[s].demand /\ edtSchedule'[s].limit = edtSchedule[s].limit
    /\ SameRows(s)
    /\ \E c \in EdtClients : /\ edtContract[c].sched = s /\ edtContract[c].revision = edtSchedule[s].revision
                             /\ edtEdition'[s] = edtContract[c].content
                             /\ edtCredits - edtCredits' = edtContract[c].price
    /\ \A i \in Edit!Assigned(s) : /\ <<s, edtSchedule[s].revision, edtShift[i].user>> \in edtAnnounced'
                                   /\ Edit!Hours(edtShift[i].user, Edit!Schedules) =< edtSchedule[s].limit
    /\ Edit!Covered(s) /\ \A i \in Edit!Of(s) : Edit!HasRequiredBreaks(edtShift[i])

EdtMoves(s) ==
    Rests(s) \/ Revised(s) \/ Withdrawn(s) \/ Removed(s) \/ Born(s) \/ Issued(s)

\* A shift stays where it is, perhaps without its user, or is gone.
Stays(i) ==
    edtShift'[i].sched # 0 =>
        /\ edtShift'[i].sched = edtShift[i].sched /\ edtShift'[i].used = edtShift[i].used
        /\ edtShift'[i].start = edtShift[i].start /\ edtShift'[i].end = edtShift[i].end
        /\ edtShift'[i].breaks = edtShift[i].breaks
        /\ edtShift'[i].user \in {edtShift[i].user, None}

\* A new or changed shift is in its place, and its user has no other there.
Placed(i) == edtShift'[i].used /\ Seated(i)' /\ Alone(i)'

Step ==
    /\ \A s \in Edit!Schedules : EdtMoves(s)
    /\ \A s, t \in Edit!Schedules : s # t /\ Born(s) => Apart(s, t)'
    /\ \A i \in Edit!Shifts : Stays(i) \/ Placed(i)

-----------------------------------------------------------------------------
(* Such a step keeps the invariant. *)

LEMMA TiledStep ==
  ASSUME EdtTypes, EdtTypes', Tiled, Step
  PROVE  Tiled'
<1>1. SUFFICES ASSUME NEW s \in Edit!Schedules, NEW t \in Edit!Schedules, s # t PROVE Apart(s, t)'
  BY DEF Tiled
<1>2. ASSUME NEW r \in Edit!Schedules, ~Born(r), Edit!Exists(r)' PROVE Edit!Exists(r) /\ SameWindow(r)
  <2>1. EdtMoves(r)
    BY DEF Step
  <2>. QED
    BY <1>2, <2>1
    DEF EdtMoves, Rests, Revised, Withdrawn, Removed, Issued, SameWindow, Edit!Exists, Edit!Draft
<1>3. CASE Born(s)
  BY <1>1, <1>3 DEF Step
<1>4. CASE Born(t)
  <2>1. Apart(t, s)'
    BY <1>1, <1>4 DEF Step
  <2>2. /\ edtSchedule'[s].start \in Int /\ edtSchedule'[s].end \in Int
        /\ edtSchedule'[t].start \in Int /\ edtSchedule'[t].end \in Int
    BY DEF EdtTypes, EdtRowTypes, ScheduleRows
  <2>. QED
    BY <2>1, <2>2 DEF Apart, Edit!Overlaps
<1>5. CASE ~Born(s) /\ ~Born(t)
  <2>1. SUFFICES ASSUME Edit!Exists(s)', Edit!Exists(t)', edtSchedule'[s].loc = edtSchedule'[t].loc
                 PROVE  ~Edit!Overlaps(edtSchedule'[s], edtSchedule'[t])
    BY DEF Apart
  <2>2. Edit!Exists(s) /\ SameWindow(s) /\ Edit!Exists(t) /\ SameWindow(t)
    BY <1>2, <1>5, <2>1
  <2>3. ~Edit!Overlaps(edtSchedule[s], edtSchedule[t])
    BY <1>1, <2>1, <2>2 DEF Tiled, Apart, SameWindow
  <2>. QED
    BY <2>2, <2>3 DEF Edit!Overlaps, SameWindow
<1>. QED
  BY <1>3, <1>4, <1>5

LEMMA RowsStep ==
  ASSUME EdtTypes, EdtTypes', Rows, Step
  PROVE  Rows'
<1>1. SUFFICES ASSUME NEW i \in Edit!Shifts, edtShift'[i].sched # 0
               PROVE  edtShift'[i].used /\ Seated(i)'
  BY DEF Rows
<1>2. CASE Placed(i)
  BY <1>2 DEF Placed
<1>3. CASE Stays(i)
  <2>1. /\ edtShift'[i].sched = edtShift[i].sched /\ edtShift'[i].used = edtShift[i].used
        /\ edtShift'[i].start = edtShift[i].start /\ edtShift'[i].end = edtShift[i].end
        /\ edtShift'[i].breaks = edtShift[i].breaks
    BY <1>1, <1>3 DEF Stays
  <2>2. PICK s : s = edtShift[i].sched
    OBVIOUS
  <2>3. edtShift[i].used /\ s \in Edit!Schedules /\ Edit!Exists(s)
        /\ Edit!Within(edtShift[i], edtSchedule[s]) /\ Edit!Inside(edtShift[i].breaks, edtShift[i])
    BY <1>1, <2>1, <2>2 DEF Rows, Seated
  <2>4. EdtMoves(s)
    BY <2>3 DEF Step
  <2>5. Edit!Exists(s)' /\ SameWindow(s)
    BY <1>1, <2>1, <2>2, <2>3, <2>4
    DEF EdtMoves, Rests, Revised, Withdrawn, Removed, Issued, Born, SameWindow, Edit!Exists, Edit!Draft
  <2>. QED
    BY <2>1, <2>2, <2>3, <2>5 DEF Seated, Edit!Within, Edit!Inside, SameWindow
<1>. QED
  BY <1>2, <1>3 DEF Step

LEMMA ApieceStep ==
  ASSUME EdtTypes, EdtTypes', Apiece, Step
  PROVE  Apiece'
<1>1. SUFFICES ASSUME NEW i \in Edit!Shifts, NEW j \in Edit!Shifts, i # j, Clash(i, j)' PROVE FALSE
  BY DEF Apiece, Alone
<1>2. CASE Placed(i)
  BY <1>1, <1>2 DEF Placed, Alone
<1>3. CASE Placed(j)
  <2>1. ~Clash(j, i)'
    BY <1>1, <1>3 DEF Placed, Alone
  <2>2. /\ edtShift'[i].start \in Int /\ edtShift'[i].end \in Int
        /\ edtShift'[j].start \in Int /\ edtShift'[j].end \in Int
    BY DEF EdtTypes, EdtRowTypes, ShiftRows
  <2>. QED
    BY <1>1, <2>1, <2>2 DEF Clash, Edit!Overlaps
<1>4. CASE Stays(i) /\ Stays(j)
  <2>1. Clash(i, j)
    BY <1>1, <1>4 DEF Clash, Stays, Edit!Overlaps
  <2>. QED
    BY <1>1, <2>1 DEF Apiece, Alone
<1>. QED
  BY <1>2, <1>3, <1>4 DEF Step

\* The rows and the content of a schedule whose shifts are the same.
LEMMA SameContent ==
  ASSUME NEW s \in Edit!Schedules, SameRows(s)
  PROVE  /\ Edit!Of(s)' = Edit!Of(s) /\ \A H : Edit!Shown(s, H)' = Edit!Shown(s, H)
         /\ edtSchedule'[s].demand = edtSchedule[s].demand => Edit!Content(s)' = Edit!Content(s)
<1>1. \A i \in Edit!Shifts : /\ edtShift'[i].sched = s <=> edtShift[i].sched = s
                             /\ edtShift[i].sched = s => edtShift'[i] = edtShift[i]
  BY DEF SameRows
<1>2. s # 0
  BY DEF Edit!Schedules
<1>3. Edit!Of(s)' = Edit!Of(s)
  BY <1>1, <1>2 DEF Edit!Of, Edit!Live
<1>4. \A i \in Edit!Of(s) : edtShift'[i] = edtShift[i]
  BY <1>1 DEF Edit!Of, Edit!Live
<1>5. ASSUME NEW H PROVE Edit!Shown(s, H)' = Edit!Shown(s, H)
  <2>1. PICK K : K = {k \in Edit!Of(s) : edtShift[k].user \notin H}
    OBVIOUS
  <2>2. {k \in Edit!Of(s)' : edtShift'[k].user \notin H} = K
    BY <1>3, <1>4, <2>1
  <2>3. {<<i, edtShift'[i]>> : i \in K} = {<<i, edtShift[i]>> : i \in K}
    BY <1>4, <2>1
  <2>. QED
    BY <2>1, <2>2, <2>3 DEF Edit!Shown
<1>6. {<<i, edtShift'[i]>> : i \in Edit!Of(s)} = {<<i, edtShift[i]>> : i \in Edit!Of(s)}
  BY <1>4
<1>. QED
  BY <1>3, <1>5, <1>6 DEF Edit!Content

\* What follows for whoever named a revision of a schedule.
Follows(s, r) ==
    /\ edtSchedule[s].status # "none" /\ r =< edtSchedule[s].revision =>
          /\ edtSchedule'[s].status # "none" /\ r =< edtSchedule'[s].revision
          /\ Edit!Exists(s)' /\ r = edtSchedule'[s].revision =>
                Edit!Exists(s) /\ r = edtSchedule[s].revision /\ SameRows(s)
                  /\ edtSchedule'[s].demand = edtSchedule[s].demand

LEMMA MovesFollow ==
  ASSUME EdtTypes, NEW s \in Edit!Schedules, EdtMoves(s), NEW r \in Nat
  PROVE  Follows(s, r)
<1>1. edtSchedule[s].revision \in Nat
  BY DEF EdtTypes, EdtRowTypes, ScheduleRows
<1>. QED
  BY <1>1 DEF Follows, EdtMoves, Rests, Revised, Withdrawn, Removed, Issued, Born, Edit!Exists, Edit!Draft

LEMMA BoardsStep ==
  ASSUME EdtTypes, EdtTypes', Boards, Step,
         \A c \in EdtClients : edtBoard'[c] = edtBoard[c] \/ BoardOK(c)'
  PROVE  Boards'
<1>1. SUFFICES ASSUME NEW c \in EdtClients, edtBoard'[c] = edtBoard[c] PROVE BoardOK(c)'
  BY DEF Boards
<1>2. PICK s, H : s = edtBoard[c].sched /\ H = edtBoard[c].without
  OBVIOUS
<1>3. SUFFICES ASSUME s # 0
      PROVE  /\ edtSchedule'[s].status # "none" /\ edtBoard[c].revision =< edtSchedule'[s].revision
             /\ Edit!Exists(s)' /\ edtBoard[c].read /\ edtBoard[c].revision = edtSchedule'[s].revision
                    => edtBoard[c].shifts = Edit!Shown(s, H)'
  BY <1>1, <1>2 DEF BoardOK
<1>4. s \in Edit!Schedules /\ edtBoard[c].revision \in Nat
  <2>1. edtBoard[c] \in BoardRows
    BY DEF EdtTypes, WorldTypes
  <2>. QED
    BY <1>2, <1>3, <2>1 DEF BoardRows
<1>5. Follows(s, edtBoard[c].revision)
  BY <1>4, MovesFollow DEF Step
<1>6. BoardOK(c)
  BY DEF Boards
<1>7. SameRows(s) => Edit!Shown(s, H)' = Edit!Shown(s, H)
  BY <1>4, SameContent
<1>. QED
  BY <1>2, <1>3, <1>4, <1>5, <1>6, <1>7 DEF BoardOK, Follows

LEMMA ContractsStep ==
  ASSUME EdtTypes, EdtTypes', Contracts, Step,
         \A c \in EdtClients : edtContract'[c] = edtContract[c] \/ ContractOK(c)'
  PROVE  Contracts'
<1>1. SUFFICES ASSUME NEW c \in EdtClients, edtContract'[c] = edtContract[c] PROVE ContractOK(c)'
  BY DEF Contracts
<1>2. PICK s : s = edtContract[c].sched
  OBVIOUS
<1>3. SUFFICES ASSUME s # 0
      PROVE  /\ edtSchedule'[s].status # "none" /\ edtContract[c].revision =< edtSchedule'[s].revision
             /\ Edit!Exists(s)' /\ edtContract[c].revision = edtSchedule'[s].revision
                    => edtContract[c].content = Edit!Content(s)'
  BY <1>1, <1>2 DEF ContractOK
<1>4. s \in Edit!Schedules /\ edtContract[c].revision \in Nat
  BY <1>2, <1>3 DEF EdtTypes, WorldTypes, ContractTypes
<1>5. Follows(s, edtContract[c].revision)
  BY <1>4, MovesFollow DEF Step
<1>6. ContractOK(c)
  BY DEF Contracts
<1>. QED
  BY <1>2, <1>3, <1>4, <1>5, <1>6, SameContent DEF ContractOK, Follows

\* Notifications are added for the schedule that is published, at its revision.
Notifies ==
    \A a \in edtAnnounced' : a \in edtAnnounced \/ (Issued(a[1]) /\ a[2] = edtSchedule[a[1]].revision)

LEMMA AnnouncedStep ==
  ASSUME EdtTypes, EdtTypes', Announced, Step, Notifies
  PROVE  Announced'
<1>1. SUFFICES ASSUME NEW a \in edtAnnounced'
      PROVE  /\ edtSchedule'[a[1]].status # "none" /\ a[2] =< edtSchedule'[a[1]].revision
             /\ edtSchedule'[a[1]].status = "DRAFT" => a[2] < edtSchedule'[a[1]].revision
  BY DEF Announced, Edit!Draft
<1>2. a[1] \in Edit!Schedules /\ a[2] \in Nat
  BY DEF EdtTypes, WorldTypes
<1>3. edtSchedule[a[1]].revision \in Nat
  BY <1>2 DEF EdtTypes, EdtRowTypes, ScheduleRows
<1>4. CASE Issued(a[1]) /\ a[2] = edtSchedule[a[1]].revision
  BY <1>3, <1>4 DEF Issued
<1>5. CASE a \in edtAnnounced
  <2>1. /\ edtSchedule[a[1]].status # "none" /\ a[2] =< edtSchedule[a[1]].revision
        /\ Edit!Draft(a[1]) => a[2] < edtSchedule[a[1]].revision
    BY <1>5 DEF Announced
  <2>2. EdtMoves(a[1])
    BY <1>2 DEF Step
  <2>. QED
    BY <1>2, <1>3, <2>1, <2>2
    DEF EdtMoves, Rests, Revised, Withdrawn, Removed, Issued, Born, Edit!Draft
<1>. QED
  BY <1>4, <1>5 DEF Notifies

LEMMA ConfirmedStep ==
  ASSUME EdtTypes, EdtTypes', Contracts, Edit!PublishedAsConfirmed, Step
  PROVE  Edit!PublishedAsConfirmed'
<1>1. SUFFICES ASSUME NEW s \in Edit!Schedules, edtSchedule'[s].status = "PUBLISHED"
               PROVE  Edit!Content(s)' = edtEdition'[s]
  BY DEF Edit!PublishedAsConfirmed
<1>2. Rests(s) \/ Issued(s)
  BY <1>1 DEF Step, EdtMoves, Revised, Withdrawn, Removed, Born
<1>3. CASE Rests(s)
  BY <1>1, <1>3, SameContent DEF Rests, Edit!PublishedAsConfirmed
<1>4. CASE Issued(s)
  <2>1. PICK c \in EdtClients : /\ edtContract[c].sched = s
                                /\ edtContract[c].revision = edtSchedule[s].revision
                                /\ edtEdition'[s] = edtContract[c].content
    BY <1>4 DEF Issued
  <2>2. s # 0
    BY DEF Edit!Schedules
  <2>3. edtContract[c].content = Edit!Content(s)
    BY <1>4, <2>1, <2>2 DEF Contracts, ContractOK, Issued, Edit!Exists, Edit!Draft
  <2>. QED
    BY <1>4, <2>1, <2>3, SameContent DEF Issued
<1>. QED
  BY <1>2, <1>3, <1>4

\* The hours that somebody works are finitely many.
LEMMA FiniteHours ==
  ASSUME Edit!EditingAssumption, EdtTypes, NEW u, NEW S
  PROVE  IsFiniteSet(Edit!Worked(u, S)) /\ Edit!Hours(u, S) \in Nat
<1>1. PICK I : I = {k \in Edit!Live : edtShift[k].user = u /\ edtShift[k].sched \in S}
  OBVIOUS
<1>2. IsFiniteSet(I) /\ I \subseteq Edit!Shifts
  <2>1. IsFiniteSet(Edit!Shifts)
    BY FS_Interval DEF Edit!Shifts, Edit!EditingAssumption
  <2>2. I \in SUBSET Edit!Shifts
    BY <1>1 DEF Edit!Live
  <2>. QED
    BY <2>1, <2>2, FS_Subset
<1>3. PICK f : f = [i \in I |-> {i} \X (edtShift[i].start .. edtShift[i].end - 1)]
  OBVIOUS
<1>4. PICK R : R = {{i} \X (edtShift[i].start .. edtShift[i].end - 1) : i \in I}
  OBVIOUS
<1>5. f \in Surjection(I, R)
  BY <1>3, <1>4 DEF Surjection
<1>6. IsFiniteSet(R)
  BY <1>2, <1>5, FS_Surjection
<1>7. ASSUME NEW i \in I PROVE IsFiniteSet({i} \X (edtShift[i].start .. edtShift[i].end - 1))
  <2>1. edtShift[i].start \in Int /\ edtShift[i].end - 1 \in Int
    BY <1>2 DEF EdtTypes, EdtRowTypes, ShiftRows
  <2>2. IsFiniteSet(edtShift[i].start .. edtShift[i].end - 1) /\ IsFiniteSet({i})
    BY <2>1, FS_Interval, FS_Singleton
  <2>. QED
    BY <2>2, FS_Product
<1>8. \A T \in R : IsFiniteSet(T)
  BY <1>4, <1>7
<1>9. IsFiniteSet(UNION R)
  BY <1>6, <1>8, FS_UNION
<1>10. Edit!Worked(u, S) = UNION R
  BY <1>1, <1>4 DEF Edit!Worked
<1>. QED
  BY EditCardinality, <1>9, <1>10, FS_CardinalityType DEF Edit!Hours

\* A published schedule was published before, or just now.
LEMMA PublishedSince ==
  ASSUME Step, NEW s \in Edit!Published'
  PROVE  /\ s \in Edit!Schedules /\ Edit!Of(s)' = Edit!Of(s) /\ \A i \in Edit!Of(s) : edtShift'[i] = edtShift[i]
         /\ edtSchedule'[s].demand = edtSchedule[s].demand /\ edtSchedule'[s].limit = edtSchedule[s].limit
         /\ s \in Edit!Published \/ Issued(s)
<1>1. s \in Edit!Schedules /\ edtSchedule'[s].status = "PUBLISHED"
  BY DEF Edit!Published
<1>2. \/ Rests(s) /\ s \in Edit!Published
      \/ Issued(s)
  BY <1>1 DEF Step, EdtMoves, Rests, Revised, Withdrawn, Removed, Born, Edit!Published
<1>3. /\ SameRows(s) /\ edtSchedule'[s].demand = edtSchedule[s].demand
      /\ edtSchedule'[s].limit = edtSchedule[s].limit
  BY <1>2 DEF Rests, Issued
<1>4. Edit!Of(s)' = Edit!Of(s)
  BY <1>1, <1>3, SameContent
<1>5. \A i \in Edit!Of(s) : edtShift'[i] = edtShift[i]
  BY <1>3 DEF SameRows, Edit!Of, Edit!Live
<1>. QED
  BY <1>1, <1>2, <1>3, <1>4, <1>5

LEMMA MannedStep ==
  ASSUME Manned, Step
  PROVE  Manned'
<1>1. ASSUME NEW s \in Edit!Published'
      PROVE  Edit!Covered(s)' /\ (\A i \in Edit!Of(s) : Edit!HasRequiredBreaks(edtShift[i]))'
  <2>1. Edit!Covered(s) /\ \A i \in Edit!Of(s) : Edit!HasRequiredBreaks(edtShift[i])
    BY PublishedSince DEF Issued, Manned
  <2>. QED
    BY <2>1, PublishedSince DEF Edit!Covered
<1>. QED
  BY <1>1 DEF Manned

\* Fewer hours are within the same limit.
LEMMA FewerHours ==
  ASSUME Edit!EditingAssumption, EdtTypes, EdtTypes', NEW u, NEW S, NEW T, NEW m \in Nat,
         Edit!Worked(u, S)' \subseteq Edit!Worked(u, T), Edit!Hours(u, T) =< m
  PROVE  Edit!Hours(u, S)' =< m
<1>1. IsFiniteSet(Edit!Worked(u, T)) /\ Edit!Hours(u, T) \in Nat
  BY FiniteHours
<1>2. PICK W : W = Edit!Worked(u, S)'
  OBVIOUS
<1>3. W \in SUBSET Edit!Worked(u, T)
  BY <1>2
<1>4. IsFiniteSet(W) /\ Cardinality(W) =< Cardinality(Edit!Worked(u, T))
  BY <1>1, <1>3, FS_Subset
<1>5. Cardinality(W) \in Nat
  BY <1>4, FS_CardinalityType
<1>6. Edit!Hours(u, S)' = Cardinality(W)
  BY EditCardinality, <1>2 DEF Edit!Hours
<1>. QED
  BY EditCardinality, <1>1, <1>4, <1>5, <1>6 DEF Edit!Hours

LEMMA LoadsStep ==
  ASSUME Edit!EditingAssumption, EdtTypes, EdtTypes', Loads, Step
  PROVE  Loads'
<1>1. SUFFICES ASSUME NEW u \in EdtUsers, NEW S \in SUBSET Edit!Published', Edit!Worked(u, S)' # {}
               PROVE  \E s \in S : WorksIn(u, s)' /\ Edit!Hours(u, S)' =< edtSchedule'[s].limit
  BY DEF Loads, Light
<1>2. ASSUME NEW h \in Edit!Worked(u, S)'
      PROVE  \E i \in Edit!Live : /\ edtShift[i].user = u /\ edtShift[i].sched \in S
                                  /\ h \in {i} \X (edtShift[i].start .. edtShift[i].end - 1)
  <2>1. PICK i \in Edit!Shifts : /\ edtShift'[i].sched # 0 /\ edtShift'[i].user = u
                                 /\ edtShift'[i].sched \in S
                                 /\ h \in {i} \X (edtShift'[i].start .. edtShift'[i].end - 1)
    BY <1>2 DEF Edit!Worked, Edit!Live
  <2>2. PICK s : s = edtShift'[i].sched
    OBVIOUS
  <2>3. i \in Edit!Of(s)' /\ s \in Edit!Published'
    BY <1>1, <2>1, <2>2 DEF Edit!Of, Edit!Live
  <2>4. i \in Edit!Of(s) /\ edtShift'[i] = edtShift[i]
    BY <2>3, PublishedSince
  <2>. QED
    BY <2>1, <2>4 DEF Edit!Of
<1>3. ASSUME NEW s \in S
      PROVE  /\ WorksIn(u, s) => WorksIn(u, s)'
             /\ edtSchedule'[s].limit = edtSchedule[s].limit /\ edtSchedule[s].limit \in Nat
  <2>1. s \in Edit!Published'
    BY <1>1
  <2>2. edtSchedule[s].limit \in Nat
    BY <2>1, PublishedSince DEF EdtTypes, EdtRowTypes, ScheduleRows
  <2>. QED
    BY <2>1, <2>2, PublishedSince DEF WorksIn
<1>4. CASE \E s \in S : Issued(s) /\ WorksIn(u, s)
  <2>1. PICK s \in S : Issued(s) /\ WorksIn(u, s)
    BY <1>4
  <2>2. PICK i \in Edit!Of(s) : edtShift[i].user = u
    BY <2>1 DEF WorksIn
  <2>3. i \in Edit!Assigned(s)
    BY <2>2 DEF Edit!Assigned, Edit!EditingAssumption
  <2>4. Edit!Hours(u, Edit!Schedules) =< edtSchedule[s].limit
    BY <2>1, <2>2, <2>3 DEF Issued
  <2>5. S \subseteq Edit!Schedules
    BY <1>1, PublishedSince
  <2>6. Edit!Worked(u, S)' \subseteq Edit!Worked(u, Edit!Schedules)
    BY <1>2, <2>5 DEF Edit!Worked
  <2>7. Edit!Hours(u, S)' =< edtSchedule[s].limit
    BY <1>3, <2>4, <2>6, FewerHours
  <2>. QED
    BY <1>3, <2>1, <2>7
<1>5. CASE ~\E s \in S : Issued(s) /\ WorksIn(u, s)
  <2>1. PICK T : T = S \cap Edit!Published
    OBVIOUS
  <2>2. ASSUME NEW i \in Edit!Live, edtShift[i].user = u, edtShift[i].sched \in S
        PROVE  edtShift[i].sched \in T
    <3>1. PICK s : s = edtShift[i].sched
      OBVIOUS
    <3>2. WorksIn(u, s)
      BY <2>2, <3>1 DEF WorksIn, Edit!Of
    <3>3. ~Issued(s)
      BY <1>5, <2>2, <3>1, <3>2
    <3>4. s \in Edit!Published
      BY <1>1, <2>2, <3>1, <3>3, PublishedSince
    <3>. QED
      BY <2>1, <2>2, <3>1, <3>4
  <2>3. Edit!Worked(u, S)' \subseteq Edit!Worked(u, T)
    BY <1>2, <2>2 DEF Edit!Worked
  <2>4. Light(u, T)
    BY <2>1 DEF Loads
  <2>5. PICK s \in T : WorksIn(u, s) /\ Edit!Hours(u, T) =< edtSchedule[s].limit
    BY <1>1, <2>3, <2>4 DEF Light
  <2>6. s \in S
    BY <2>1, <2>5
  <2>7. Edit!Hours(u, S)' =< edtSchedule[s].limit
    BY <1>3, <2>3, <2>5, <2>6, FewerHours
  <2>. QED
    BY <1>3, <2>5, <2>6, <2>7
<1>. QED
  BY <1>4, <1>5

\* What an action has to show.
Goal ==
    /\ EdtTypes' /\ Step /\ Notifies
    /\ \A c \in EdtClients : edtBoard'[c] = edtBoard[c] \/ BoardOK(c)'
    /\ \A c \in EdtClients : edtContract'[c] = edtContract[c] \/ ContractOK(c)'

LEMMA GoalKeeps ==
  ASSUME Edit!EditingAssumption, EdtInv, Goal
  PROVE  EdtInv'
BY TiledStep, RowsStep, ApieceStep, BoardsStep, ContractsStep, AnnouncedStep, ConfirmedStep,
   MannedStep, LoadsStep
DEF EdtInv, Goal
-----------------------------------------------------------------------------
(* Steps that edit drafts. *)

LEMMA DraftsRevised ==
  ASSUME EdtTypes, NEW S \in SUBSET Edit!Schedules, UNCHANGED edtEdition,
         \A s \in S : Revised(s),
         \A s \in Edit!Schedules \ S : edtSchedule'[s] = edtSchedule[s],
         \A i \in Edit!Shifts : \/ edtShift'[i] = edtShift[i]
                                \/ edtShift[i].sched \in S \cup {0} /\ edtShift'[i].sched \in S \cup {0}
  PROVE  \A s \in Edit!Schedules : EdtMoves(s) /\ ~Born(s)
<1>1. SUFFICES ASSUME NEW s \in Edit!Schedules PROVE EdtMoves(s) /\ ~Born(s)
  OBVIOUS
<1>2. CASE s \in S
  BY <1>2 DEF EdtMoves, Revised, Born, Edit!Draft
<1>3. CASE s \notin S
  <2>1. s # 0
    BY DEF Edit!Schedules
  <2>2. edtSchedule'[s] = edtSchedule[s]
    BY <1>3
  <2>3. SameRows(s)
    BY <1>3, <2>1 DEF SameRows
  <2>. QED
    BY <2>2, <2>3 DEF EdtMoves, Rests, Born
<1>. QED
  BY <1>2, <1>3

LEMMA EditGoal ==
  ASSUME EdtInv, EdtTypes', NEW S \in SUBSET Edit!Schedules, UNCHANGED <<edtEdition, edtAnnounced, edtContract>>,
         \A s \in S : Revised(s),
         \A s \in Edit!Schedules \ S : edtSchedule'[s] = edtSchedule[s],
         \A i \in Edit!Shifts : \/ edtShift'[i] = edtShift[i]
                                \/ /\ edtShift[i].sched \in S \cup {0} /\ edtShift'[i].sched \in S \cup {0}
                                   /\ Stays(i) \/ Placed(i),
         \A c \in EdtClients : edtBoard'[c] = edtBoard[c] \/ BoardOK(c)'
  PROVE  Goal
<1>1. \A s \in Edit!Schedules : EdtMoves(s) /\ ~Born(s)
  BY DraftsRevised DEF EdtInv
<1>2. \A i \in Edit!Shifts : Stays(i) \/ Placed(i)
  BY DEF Stays
<1>3. Step
  BY <1>1, <1>2 DEF Step
<1>4. Notifies
  BY DEF Notifies
<1>5. \A c \in EdtClients : edtContract'[c] = edtContract[c]
  OBVIOUS
<1>. QED
  BY <1>3, <1>4, <1>5 DEF Goal

LEMMA BumpedRows ==
  ASSUME EdtRowTypes, NEW S, NEW s \in Edit!Schedules
  PROVE  /\ Edit!Bumped(S) \in [Edit!Schedules -> ScheduleRows]
         /\ s \notin S => Edit!Bumped(S)[s] = edtSchedule[s]
         /\ s \in S => /\ Edit!Bumped(S)[s].revision = edtSchedule[s].revision + 1
                       /\ Edit!Bumped(S)[s].status = edtSchedule[s].status
                       /\ Edit!Bumped(S)[s].loc = edtSchedule[s].loc
                       /\ Edit!Bumped(S)[s].start = edtSchedule[s].start
                       /\ Edit!Bumped(S)[s].end = edtSchedule[s].end
                       /\ Edit!Bumped(S)[s].demand = edtSchedule[s].demand
<1>1. \A t \in Edit!Schedules : edtSchedule[t] \in ScheduleRows
  BY DEF EdtRowTypes
<1>2. ASSUME NEW t \in Edit!Schedules
      PROVE  /\ [edtSchedule[t] EXCEPT !.revision = @ + 1] \in ScheduleRows
             /\ [edtSchedule[t] EXCEPT !.revision = @ + 1].revision = edtSchedule[t].revision + 1
             /\ [edtSchedule[t] EXCEPT !.revision = @ + 1].status = edtSchedule[t].status
             /\ [edtSchedule[t] EXCEPT !.revision = @ + 1].loc = edtSchedule[t].loc
             /\ [edtSchedule[t] EXCEPT !.revision = @ + 1].start = edtSchedule[t].start
             /\ [edtSchedule[t] EXCEPT !.revision = @ + 1].end = edtSchedule[t].end
             /\ [edtSchedule[t] EXCEPT !.revision = @ + 1].demand = edtSchedule[t].demand
  BY <1>1 DEF ScheduleRows
<1>. QED
  BY <1>1, <1>2 DEF Edit!Bumped

LEMMA BumpRevises ==
  ASSUME EdtTypes, NEW S \in SUBSET Edit!Schedules, \A s \in S : Edit!Draft(s), edtSchedule' = Edit!Bumped(S)
  PROVE  /\ edtSchedule' \in [Edit!Schedules -> ScheduleRows]
         /\ \A s \in S : Revised(s)
         /\ \A s \in Edit!Schedules \ S : edtSchedule'[s] = edtSchedule[s]
<1>1. EdtRowTypes
  BY DEF EdtTypes
<1>2. edtSchedule' \in [Edit!Schedules -> ScheduleRows]
  <2>1. CASE Edit!Schedules = {}
    BY <2>1 DEF Edit!Bumped
  <2>2. ASSUME NEW s \in Edit!Schedules PROVE edtSchedule' \in [Edit!Schedules -> ScheduleRows]
    BY <1>1, BumpedRows
  <2>. QED
    BY <2>1, <2>2
<1>3. ASSUME NEW s \in S PROVE Revised(s)
  <2>1. s \in Edit!Schedules /\ Edit!Draft(s)
    OBVIOUS
  <2>. QED
    BY <1>1, <2>1, BumpedRows DEF Revised, SameWindow, Edit!Draft
<1>4. ASSUME NEW s \in Edit!Schedules \ S PROVE edtSchedule'[s] = edtSchedule[s]
  BY <1>1, BumpedRows
<1>. QED
  BY <1>2, <1>3, <1>4

LEMMA DemandRevises ==
  ASSUME EdtTypes, NEW s \in Edit!Schedules, Edit!Draft(s), NEW W \in SUBSET EdtDemands,
         edtSchedule' = [Edit!Bumped({s}) EXCEPT ![s].demand = W]
  PROVE  /\ edtSchedule' \in [Edit!Schedules -> ScheduleRows]
         /\ Revised(s)
         /\ \A t \in Edit!Schedules \ {s} : edtSchedule'[t] = edtSchedule[t]
<1>1. EdtRowTypes
  BY DEF EdtTypes
<1>2. PICK f : f = Edit!Bumped({s})
  OBVIOUS
<1>3. f \in [Edit!Schedules -> ScheduleRows] /\ \A t \in Edit!Schedules \ {s} : f[t] = edtSchedule[t]
  BY <1>1, <1>2, BumpedRows
<1>4. PICK r : r = [f[s] EXCEPT !.demand = W]
  OBVIOUS
<1>5. f[s] \in ScheduleRows
  BY <1>3
<1>6. r \in ScheduleRows /\ r.status = f[s].status /\ r.loc = f[s].loc /\ r.start = f[s].start
      /\ r.end = f[s].end /\ r.revision = f[s].revision
  BY <1>4, <1>5 DEF ScheduleRows
<1>7. edtSchedule' = [f EXCEPT ![s] = r]
  BY <1>2, <1>4
<1>8. edtSchedule'[s] = r /\ \A t \in Edit!Schedules \ {s} : edtSchedule'[t] = f[t]
  BY <1>3, <1>7
<1>9. Revised(s)
  <2>1. /\ f[s].revision = edtSchedule[s].revision + 1 /\ f[s].status = edtSchedule[s].status
        /\ f[s].loc = edtSchedule[s].loc /\ f[s].start = edtSchedule[s].start
        /\ f[s].end = edtSchedule[s].end
    BY <1>1, <1>2, BumpedRows
  <2>. QED
    BY <1>6, <1>8, <2>1 DEF Revised, SameWindow, Edit!Draft
<1>. QED
  BY <1>3, <1>6, <1>7, <1>8, <1>9

LEMMA LimitRevises ==
  ASSUME EdtTypes, NEW s \in Edit!Schedules, Edit!Draft(s), NEW h \in Nat,
         edtSchedule' = [Edit!Bumped({s}) EXCEPT ![s].limit = h]
  PROVE  /\ edtSchedule' \in [Edit!Schedules -> ScheduleRows]
         /\ Revised(s)
         /\ \A t \in Edit!Schedules \ {s} : edtSchedule'[t] = edtSchedule[t]
<1>1. EdtRowTypes
  BY DEF EdtTypes
<1>2. PICK f : f = Edit!Bumped({s})
  OBVIOUS
<1>3. f \in [Edit!Schedules -> ScheduleRows] /\ \A t \in Edit!Schedules \ {s} : f[t] = edtSchedule[t]
  BY <1>1, <1>2, BumpedRows
<1>4. PICK r : r = [f[s] EXCEPT !.limit = h]
  OBVIOUS
<1>5. f[s] \in ScheduleRows
  BY <1>3
<1>6. r \in ScheduleRows /\ r.status = f[s].status /\ r.loc = f[s].loc /\ r.start = f[s].start
      /\ r.end = f[s].end /\ r.revision = f[s].revision
  BY <1>4, <1>5 DEF ScheduleRows
<1>7. edtSchedule' = [f EXCEPT ![s] = r]
  BY <1>2, <1>4
<1>8. edtSchedule'[s] = r /\ \A t \in Edit!Schedules \ {s} : edtSchedule'[t] = f[t]
  BY <1>3, <1>7
<1>9. Revised(s)
  <2>1. /\ f[s].revision = edtSchedule[s].revision + 1 /\ f[s].status = edtSchedule[s].status
        /\ f[s].loc = edtSchedule[s].loc /\ f[s].start = edtSchedule[s].start
        /\ f[s].end = edtSchedule[s].end
    BY <1>1, <1>2, BumpedRows
  <2>. QED
    BY <1>6, <1>8, <2>1 DEF Revised, SameWindow, Edit!Draft
<1>. QED
  BY <1>3, <1>6, <1>7, <1>8, <1>9

LEMMA EditTypes ==
  ASSUME EdtTypes, UNCHANGED Edit!world, edtCredits' \in Nat, edtBoard' \in [EdtClients -> BoardRows],
         edtSchedule' \in [Edit!Schedules -> ScheduleRows], edtShift' \in [Edit!Shifts -> ShiftRows]
  PROVE  EdtTypes'
BY DEF EdtTypes, EdtRowTypes, WorldTypes, ContractTypes, Edit!world

LEMMA Paid ==
  ASSUME Edit!EditingAssumption, EdtTypes, Edit!Pay
  PROVE  edtCredits' \in Nat
BY DEF Edit!EditingAssumption, EdtTypes, WorldTypes, Edit!Pay

LEMMA FreeIsAlone ==
  ASSUME EdtTypes, EdtTypes', Edit!EditingAssumption, NEW i \in Edit!Shifts, NEW u, NEW w, NEW B, Edit!Free(u, w, B),
         edtShift'[i].user = u, edtShift'[i].start = w.start, edtShift'[i].end = w.end,
         \A j \in Edit!Shifts \ {i} : edtShift'[j].sched = 0 \/ (j \notin B /\ edtShift'[j] = edtShift[j])
  PROVE  Alone(i)'
<1>1. SUFFICES ASSUME NEW j \in Edit!Shifts, i # j, Clash(i, j)' PROVE FALSE
  BY DEF Alone
<1>2. /\ edtShift'[i].start \in Int /\ edtShift'[i].end \in Int
      /\ edtShift'[j].start \in Int /\ edtShift'[j].end \in Int
  BY DEF EdtTypes, EdtRowTypes, ShiftRows
<1>3. /\ edtShift'[j].sched # 0 /\ edtShift'[j].user = u /\ u # None
      /\ Edit!Overlaps(edtShift'[i], edtShift'[j])
  BY <1>1 DEF Clash
<1>4. j \in Edit!Live \ B /\ edtShift'[j] = edtShift[j]
  BY <1>1, <1>3 DEF Edit!Live
<1>5. ~Edit!Overlaps(edtShift[j], w)
  BY <1>3, <1>4 DEF Edit!Free
<1>. QED
  BY <1>2, <1>3, <1>4, <1>5 DEF Edit!Overlaps

LEMMA SeatIn ==
  ASSUME NEW i \in Edit!Shifts, NEW s \in Edit!Schedules, NEW w, SameWindow(s), Edit!Exists(s)',
         Edit!Within(w, edtSchedule[s]), edtShift'[i].sched = s, edtShift'[i].start = w.start,
         edtShift'[i].end = w.end, Edit!Inside(edtShift'[i].breaks, w)
  PROVE  Seated(i)'
BY DEF Seated, SameWindow, Edit!Within, Edit!Inside

LEMMA RowValue ==
  ASSUME Edit!EditingAssumption, NEW s \in Edit!Schedules, NEW u \in Edit!Assignees, NEW w,
         w.start \in Int, w.end \in Int
  PROVE  /\ Edit!Row(s, u, w) \in ShiftRows
         /\ Edit!Row(s, u, w).sched = s /\ Edit!Row(s, u, w).user = u /\ Edit!Row(s, u, w).used
         /\ Edit!Row(s, u, w).start = w.start /\ Edit!Row(s, u, w).end = w.end
         /\ Edit!Row(s, u, w).breaks = {}
BY DEF Edit!Row, Edit!NoShift, ShiftRows

LEMMA GoneValue ==
  ASSUME NEW i
  PROVE  Edit!Gone(i) \in ShiftRows /\ Edit!Gone(i).sched = 0
<1>1. Edit!NoShift \in ShiftRows /\ Edit!NoShift.sched = 0
  BY DEF Edit!NoShift, ShiftRows, Edit!Assignees
<1>. QED
  BY <1>1 DEF Edit!Gone, ShiftRows

LEMMA ChangedValue ==
  ASSUME EdtTypes, NEW i \in Edit!Shifts, NEW u \in Edit!Assignees, NEW w, w.start \in Int, w.end \in Int
  PROVE  /\ Edit!Changed(i, u, w) \in ShiftRows
         /\ Edit!Changed(i, u, w).sched = edtShift[i].sched /\ Edit!Changed(i, u, w).user = u
         /\ Edit!Changed(i, u, w).used = edtShift[i].used
         /\ Edit!Changed(i, u, w).start = w.start /\ Edit!Changed(i, u, w).end = w.end
         /\ Edit!Changed(i, u, w).breaks = Edit!Translated(edtShift[i], w.start)
<1>1. edtShift[i] \in ShiftRows
  BY DEF EdtTypes, EdtRowTypes
<1>2. Edit!Translated(edtShift[i], w.start) \in SUBSET Int
  BY <1>1 DEF Edit!Translated, ShiftRows
<1>3. PICK B : B = Edit!Translated(edtShift[i], w.start)
  OBVIOUS
<1>. QED
  BY <1>1, <1>2, <1>3 DEF Edit!Changed, ShiftRows

\* One shift of one draft changes.
LEMMA OneShift ==
  ASSUME EdtInv, NEW i \in Edit!Shifts, NEW s \in Edit!Schedules, Edit!Draft(s), NEW r \in ShiftRows,
         edtShift' = [edtShift EXCEPT ![i] = r], edtSchedule' = Edit!Bumped({s}),
         edtShift[i].sched \in {0, s}, r.sched \in {0, s},
         UNCHANGED <<Edit!world, edtBoard>>, edtCredits' \in Nat
  PROVE  /\ EdtTypes' /\ Revised(s) /\ edtShift'[i] = r
         /\ \A j \in Edit!Shifts \ {i} : edtShift'[j] = edtShift[j]
         /\ Stays(i) \/ Placed(i) => Goal
<1>1. /\ edtSchedule' \in [Edit!Schedules -> ScheduleRows]
      /\ \A t \in {s} : Revised(t)
      /\ \A t \in Edit!Schedules \ {s} : edtSchedule'[t] = edtSchedule[t]
  <2>1. EdtTypes /\ {s} \in SUBSET Edit!Schedules /\ \A t \in {s} : Edit!Draft(t)
    BY DEF EdtInv
  <2>. QED
    BY <2>1, BumpRevises
<1>2. edtShift' \in [Edit!Shifts -> ShiftRows] /\ edtShift'[i] = r
      /\ \A j \in Edit!Shifts \ {i} : edtShift'[j] = edtShift[j]
  BY DEF EdtInv, EdtTypes, EdtRowTypes
<1>3. EdtTypes'
  BY <1>1, <1>2, EditTypes DEF EdtInv, EdtTypes, WorldTypes
<1>4. ASSUME Stays(i) \/ Placed(i) PROVE Goal
  <2>1. \A j \in Edit!Shifts : \/ edtShift'[j] = edtShift[j]
                               \/ /\ edtShift[j].sched \in {s} \cup {0} /\ edtShift'[j].sched \in {s} \cup {0}
                                  /\ Stays(j) \/ Placed(j)
    BY <1>2, <1>4
  <2>2. UNCHANGED <<edtEdition, edtAnnounced, edtContract>> /\ edtBoard' = edtBoard
    BY DEF Edit!world
  <2>3. {s} \in SUBSET Edit!Schedules
    OBVIOUS
  <2>. QED
    BY <1>1, <1>3, <2>1, <2>2, <2>3, EditGoal
<1>. QED
  BY <1>1, <1>2, <1>3, <1>4

LEMMA SlotTypes ==
  ASSUME Edit!EditingAssumption, NEW w \in EdtSlots
  PROVE  w.start \in Int /\ w.end \in Int /\ w.start \in Nat /\ w.start < w.end
BY DEF Edit!EditingAssumption

LEMMA CreateShiftGoal ==
  ASSUME Edit!EditingAssumption, EdtInv, NEW i \in Edit!Shifts, NEW s \in Edit!Schedules, NEW u \in Edit!Assignees,
         NEW w \in EdtSlots, Edit!CreateShift(i, s, u, w)
  PROVE  Goal
<1>1. PICK r : r = Edit!Row(s, u, w)
  OBVIOUS
<1>2. /\ r \in ShiftRows /\ r.sched = s /\ r.user = u /\ r.used /\ r.start = w.start
      /\ r.end = w.end /\ r.breaks = {}
  BY <1>1, RowValue, SlotTypes
<1>3. edtShift[i].sched = 0
  BY DEF Edit!CreateShift, Edit!Fresh, Edit!Unused, EdtInv, Rows
<1>4. /\ Edit!Draft(s) /\ Edit!Within(w, edtSchedule[s]) /\ Edit!Free(u, w, {}) /\ Edit!Pay
      /\ edtShift' = [edtShift EXCEPT ![i] = r] /\ edtSchedule' = Edit!Bumped({s})
      /\ UNCHANGED <<Edit!world, edtBoard>>
  BY <1>1 DEF Edit!CreateShift
<1>5. edtCredits' \in Nat
  BY <1>4, Paid DEF EdtInv
<1>6. /\ EdtTypes' /\ Revised(s) /\ edtShift'[i] = r
      /\ \A j \in Edit!Shifts \ {i} : edtShift'[j] = edtShift[j]
      /\ Stays(i) \/ Placed(i) => Goal
  BY <1>2, <1>3, <1>4, <1>5, OneShift
<1>7. Alone(i)'
  BY <1>2, <1>4, <1>6, FreeIsAlone DEF EdtInv
<1>8. Seated(i)'
  <2>1. SameWindow(s) /\ Edit!Exists(s)'
    BY <1>6 DEF Revised, Edit!Exists
  <2>2. Edit!Inside(edtShift'[i].breaks, w)
    BY <1>2, <1>6 DEF Edit!Inside
  <2>. QED
    BY <1>2, <1>4, <1>6, <2>1, <2>2, SeatIn
<1>. QED
  BY <1>2, <1>6, <1>7, <1>8 DEF Placed

LEMMA UpdateShiftGoal ==
  ASSUME Edit!EditingAssumption, EdtInv, NEW i \in Edit!Shifts, NEW u \in Edit!Assignees, NEW w \in EdtSlots,
         Edit!UpdateShift(i, u, w)
  PROVE  Goal
<1>1. PICK s : s = edtShift[i].sched
  OBVIOUS
<1>2. PICK r : r = Edit!Changed(i, u, w)
  OBVIOUS
<1>3. /\ i \in Edit!Live /\ Edit!Draft(s) /\ Edit!Within(w, edtSchedule[s])
      /\ Edit!Inside(Edit!Translated(edtShift[i], w.start), w) /\ Edit!Free(u, w, {i}) /\ Edit!Pay
      /\ edtShift' = [edtShift EXCEPT ![i] = r] /\ edtSchedule' = Edit!Bumped({s})
      /\ UNCHANGED <<Edit!world, edtBoard>>
  BY <1>1, <1>2 DEF Edit!UpdateShift
<1>4. s \in Edit!Schedules /\ edtShift[i].used
  BY <1>1, <1>3 DEF Edit!Live, EdtInv, Rows, Seated
<1>5. /\ r \in ShiftRows /\ r.sched = s /\ r.user = u /\ r.used /\ r.start = w.start
      /\ r.end = w.end /\ r.breaks = Edit!Translated(edtShift[i], w.start)
  BY <1>1, <1>2, <1>4, ChangedValue, SlotTypes DEF EdtInv
<1>6. edtCredits' \in Nat
  BY <1>3, Paid DEF EdtInv
<1>7. /\ EdtTypes' /\ Revised(s) /\ edtShift'[i] = r
      /\ \A j \in Edit!Shifts \ {i} : edtShift'[j] = edtShift[j]
      /\ Stays(i) \/ Placed(i) => Goal
  BY <1>1, <1>3, <1>4, <1>5, <1>6, OneShift
<1>8. Alone(i)'
  <2>1. \A j \in Edit!Shifts \ {i} : j \notin {i} /\ edtShift'[j] = edtShift[j]
    BY <1>7
  <2>. QED
    BY <1>3, <1>5, <1>7, <2>1, FreeIsAlone DEF EdtInv
<1>9. Seated(i)'
  <2>1. SameWindow(s) /\ Edit!Exists(s)'
    BY <1>7 DEF Revised, Edit!Exists
  <2>. QED
    BY <1>3, <1>4, <1>5, <1>7, <2>1, SeatIn
<1>. QED
  BY <1>5, <1>7, <1>8, <1>9 DEF Placed

LEMMA RemoveShiftGoal ==
  ASSUME Edit!EditingAssumption, EdtInv, NEW i \in Edit!Shifts, Edit!RemoveShift(i)
  PROVE  Goal
<1>1. PICK s : s = edtShift[i].sched
  OBVIOUS
<1>2. PICK r : r = Edit!Gone(i)
  OBVIOUS
<1>3. /\ i \in Edit!Live /\ Edit!Draft(s) /\ edtShift' = [edtShift EXCEPT ![i] = r] /\ edtSchedule' = Edit!Bumped({s})
      /\ UNCHANGED <<Edit!world, edtBoard>> /\ edtCredits' = edtCredits
  BY <1>1, <1>2 DEF Edit!RemoveShift
<1>4. s \in Edit!Schedules
  BY <1>1, <1>3 DEF Edit!Live, EdtInv, Rows, Seated
<1>5. r \in ShiftRows /\ r.sched = 0 /\ edtCredits' \in Nat
  BY <1>2, <1>3, GoneValue DEF EdtInv, EdtTypes, WorldTypes
<1>6. edtShift'[i] = r /\ (Stays(i) \/ Placed(i) => Goal)
  BY <1>1, <1>3, <1>4, <1>5, OneShift
<1>. QED
  BY <1>5, <1>6 DEF Stays

LEMMA ReplaceBreaksGoal ==
  ASSUME Edit!EditingAssumption, EdtInv, NEW i \in Edit!Shifts, NEW b \in Int, Edit!ReplaceBreaks(i, {b})
  PROVE  Goal
<1>1. PICK s : s = edtShift[i].sched
  OBVIOUS
<1>2. PICK r : r = [edtShift[i] EXCEPT !.breaks = {b}]
  OBVIOUS
<1>3. /\ i \in Edit!Live /\ Edit!Draft(s) /\ Edit!Inside({b}, edtShift[i]) /\ edtShift' = [edtShift EXCEPT ![i] = r]
      /\ edtSchedule' = Edit!Bumped({s}) /\ UNCHANGED <<Edit!world, edtBoard>> /\ Edit!Pay
  BY <1>1, <1>2 DEF Edit!ReplaceBreaks
<1>4. s \in Edit!Schedules /\ edtShift[i].used /\ Edit!Within(edtShift[i], edtSchedule[s])
  BY <1>1, <1>3 DEF Edit!Live, EdtInv, Rows, Seated
<1>5. edtShift[i] \in ShiftRows /\ edtCredits' \in Nat
  BY <1>3, Paid DEF EdtInv, EdtTypes, EdtRowTypes
<1>6. /\ r \in ShiftRows /\ r.sched = s /\ r.user = edtShift[i].user /\ r.used
      /\ r.start = edtShift[i].start /\ r.end = edtShift[i].end /\ r.breaks = {b}
  BY <1>1, <1>2, <1>4, <1>5 DEF ShiftRows
<1>7. /\ EdtTypes' /\ Revised(s) /\ edtShift'[i] = r
      /\ \A j \in Edit!Shifts \ {i} : edtShift'[j] = edtShift[j]
      /\ Stays(i) \/ Placed(i) => Goal
  BY <1>1, <1>3, <1>4, <1>5, <1>6, OneShift
<1>8. Alone(i)'
  <2>1. s # 0
    BY <1>4 DEF Edit!Schedules
  <2>2. Alone(i)
    BY DEF EdtInv, Apiece
  <2>. QED
    BY <1>1, <1>6, <1>7, <2>1, <2>2 DEF Alone, Clash, Edit!Overlaps
<1>9. Seated(i)'
  <2>1. SameWindow(s) /\ Edit!Exists(s)'
    BY <1>7 DEF Revised, Edit!Exists
  <2>. QED
    BY <1>3, <1>4, <1>6, <1>7, <2>1, SeatIn
<1>. QED
  BY <1>6, <1>7, <1>8, <1>9 DEF Placed
LEMMA BulkAssignGoal ==
  ASSUME Edit!EditingAssumption, EdtInv, NEW D \in SUBSET Edit!Shifts, NEW f \in [D -> Edit!Assignees],
         Edit!BulkAssign(f)
  PROVE  Goal
<1>1. PICK C : C = {i \in D : edtShift[i].user # f[i]}
  OBVIOUS
<1>2. PICK S : S = {edtShift[i].sched : i \in C}
  OBVIOUS
<1>3. /\ \A i \in D : /\ i \in Edit!Live /\ Edit!Draft(edtShift[i].sched)
                      /\ Edit!Free(f[i], edtShift[i], D)
      /\ Edit!NoBatchOverlaps(f) /\ Edit!Pay /\ UNCHANGED <<Edit!world, edtBoard>>
      /\ edtShift' = [i \in Edit!Shifts |-> IF i \in C THEN [edtShift[i] EXCEPT !.user = f[i]] ELSE edtShift[i]]
      /\ edtSchedule' = Edit!Bumped(S)
  BY <1>1, <1>2 DEF Edit!BulkAssign
<1>4. \A i \in D : edtShift[i].sched \in Edit!Schedules /\ edtShift[i].used /\ Seated(i)
  BY <1>3 DEF Edit!Live, EdtInv, Rows, Seated
<1>5. S \in SUBSET Edit!Schedules /\ \A s \in S : Edit!Draft(s)
  BY <1>1, <1>2, <1>3, <1>4
<1>6. /\ edtSchedule' \in [Edit!Schedules -> ScheduleRows] /\ \A s \in S : Revised(s)
      /\ \A s \in Edit!Schedules \ S : edtSchedule'[s] = edtSchedule[s]
  BY <1>3, <1>5, BumpRevises DEF EdtInv
<1>7. ASSUME NEW i \in Edit!Shifts
      PROVE  /\ edtShift'[i] \in ShiftRows /\ edtShift'[i].sched = edtShift[i].sched
             /\ edtShift'[i].start = edtShift[i].start /\ edtShift'[i].end = edtShift[i].end
             /\ edtShift'[i].breaks = edtShift[i].breaks /\ edtShift'[i].used = edtShift[i].used
             /\ i \in D => edtShift'[i].user = f[i]
             /\ i \notin C => edtShift'[i] = edtShift[i]
  <2>1. edtShift[i] \in ShiftRows
    BY DEF EdtInv, EdtTypes, EdtRowTypes
  <2>2. CASE i \in C
    <3>1. f[i] \in Edit!Assignees
      BY <1>1, <2>2
    <3>2. PICK r : r = [edtShift[i] EXCEPT !.user = f[i]]
      OBVIOUS
    <3>3. /\ r \in ShiftRows /\ r.sched = edtShift[i].sched /\ r.start = edtShift[i].start
          /\ r.end = edtShift[i].end /\ r.breaks = edtShift[i].breaks /\ r.used = edtShift[i].used
          /\ r.user = f[i]
      BY <2>1, <3>1, <3>2 DEF ShiftRows
    <3>4. edtShift'[i] = r
      BY <1>3, <2>2, <3>2
    <3>. QED
      BY <2>2, <3>3, <3>4
  <2>3. CASE i \notin C
    <3>1. edtShift'[i] = edtShift[i]
      BY <1>3, <2>3
    <3>. QED
      BY <1>1, <2>1, <2>3, <3>1
  <2>. QED
    BY <2>2, <2>3
<1>8. EdtTypes'
  <2>1. edtShift' \in [Edit!Shifts -> ShiftRows]
    BY <1>3, <1>7
  <2>2. edtCredits' \in Nat /\ edtBoard' \in [EdtClients -> BoardRows] /\ UNCHANGED Edit!world
    BY <1>3, Paid DEF EdtInv, EdtTypes, WorldTypes
  <2>. QED
    BY <1>6, <2>1, <2>2, EditTypes DEF EdtInv
<1>9. ASSUME NEW i \in C PROVE Placed(i)
  <2>1. i \in D /\ i \in Edit!Shifts
    BY <1>1
  <2>2. Alone(i)'
    <3>1. SUFFICES ASSUME NEW j \in Edit!Shifts, i # j, Clash(i, j)' PROVE FALSE
      BY DEF Alone
    <3>2. /\ edtShift[i].start \in Int /\ edtShift[i].end \in Int
          /\ edtShift[j].start \in Int /\ edtShift[j].end \in Int
      BY <2>1 DEF EdtInv, EdtTypes, EdtRowTypes, ShiftRows
    <3>3. /\ edtShift[j].sched # 0 /\ edtShift'[j].user = f[i] /\ f[i] # None
          /\ Edit!Overlaps(edtShift[i], edtShift[j])
      BY <1>7, <2>1, <3>1 DEF Clash, Edit!Overlaps
    <3>4. CASE j \in D
      BY <1>3, <1>7, <2>1, <3>1, <3>3, <3>4 DEF Edit!NoBatchOverlaps
    <3>5. CASE j \notin D
      <4>1. edtShift'[j] = edtShift[j] /\ j \in Edit!Live \ D
        BY <1>1, <1>7, <3>3, <3>5 DEF Edit!Live
      <4>2. ~Edit!Overlaps(edtShift[j], edtShift[i])
        BY <1>3, <2>1, <3>3, <4>1 DEF Edit!Free
      <4>. QED
        BY <3>2, <3>3, <4>2 DEF Edit!Overlaps
    <3>. QED
      BY <3>4, <3>5
  <2>3. PICK s : s = edtShift[i].sched
    OBVIOUS
  <2>4. s \in S /\ s \in Edit!Schedules /\ Edit!Within(edtShift[i], edtSchedule[s])
        /\ Edit!Inside(edtShift[i].breaks, edtShift[i])
    BY <1>2, <1>4, <2>1, <2>3 DEF Seated
  <2>5. SameWindow(s) /\ Edit!Exists(s)'
    BY <1>6, <2>4 DEF Revised, Edit!Exists
  <2>6. Seated(i)'
    BY <1>7, <2>1, <2>3, <2>4, <2>5, SeatIn
  <2>. QED
    BY <1>4, <1>7, <2>1, <2>2, <2>6 DEF Placed
<1>10. \A i \in Edit!Shifts : \/ edtShift'[i] = edtShift[i]
                              \/ /\ edtShift[i].sched \in S \cup {0} /\ edtShift'[i].sched \in S \cup {0}
                                 /\ Stays(i) \/ Placed(i)
  BY <1>2, <1>7, <1>9
<1>11. UNCHANGED <<edtEdition, edtAnnounced, edtContract>> /\ edtBoard' = edtBoard
  BY <1>3 DEF Edit!world
<1>. QED
  BY <1>5, <1>6, <1>8, <1>10, <1>11, EditGoal

LEMMA DeactivateGoal ==
  ASSUME Edit!EditingAssumption, EdtInv, NEW u \in EdtUsers, NEW p \in Edit!Person, Edit!Deactivate(u, p)
  PROVE  Goal
<1>1. PICK M : M = {i \in Edit!Live : edtShift[i].user = u /\ Edit!Draft(edtShift[i].sched)}
  OBVIOUS
<1>2. PICK S : S = {edtShift[i].sched : i \in M}
  OBVIOUS
<1>3. /\ edtShift' = [i \in Edit!Shifts |-> IF i \in M THEN [edtShift[i] EXCEPT !.user = None] ELSE edtShift[i]]
      /\ edtSchedule' = Edit!Bumped(S) /\ edtPerson' = [edtPerson EXCEPT ![u] = p]
      /\ UNCHANGED <<edtClosed, edtHooks, edtCredits, edtBoard, edtContract, edtSolve, edtAnnounced, edtEdition>>
  BY <1>1, <1>2 DEF Edit!Deactivate
<1>4. S \in SUBSET Edit!Schedules /\ \A s \in S : Edit!Draft(s)
  BY <1>1, <1>2 DEF Edit!Live, EdtInv, Rows, Seated
<1>5. /\ edtSchedule' \in [Edit!Schedules -> ScheduleRows] /\ \A s \in S : Revised(s)
      /\ \A s \in Edit!Schedules \ S : edtSchedule'[s] = edtSchedule[s]
  BY <1>3, <1>4, BumpRevises DEF EdtInv
<1>6. ASSUME NEW i \in Edit!Shifts
      PROVE  /\ edtShift'[i] \in ShiftRows
             /\ edtShift'[i] = edtShift[i] \/ (edtShift[i].sched \in S /\ edtShift'[i].sched \in S /\ Stays(i))
  <2>1. edtShift[i] \in ShiftRows
    BY DEF EdtInv, EdtTypes, EdtRowTypes
  <2>2. CASE i \in M
    <3>1. PICK r : r = [edtShift[i] EXCEPT !.user = None]
      OBVIOUS
    <3>2. /\ r \in ShiftRows /\ r.sched = edtShift[i].sched /\ r.start = edtShift[i].start
          /\ r.end = edtShift[i].end /\ r.breaks = edtShift[i].breaks /\ r.used = edtShift[i].used
          /\ r.user = None
      BY <2>1, <3>1 DEF ShiftRows, Edit!Assignees
    <3>3. edtShift'[i] = r /\ edtShift[i].sched \in S
      BY <1>2, <1>3, <2>2, <3>1
    <3>. QED
      BY <3>2, <3>3 DEF Stays
  <2>3. CASE i \notin M
    BY <1>3, <2>1, <2>3
  <2>. QED
    BY <2>2, <2>3
<1>7. edtShift' \in [Edit!Shifts -> ShiftRows]
  BY <1>3, <1>6
<1>8. EdtTypes'
  BY <1>3, <1>5, <1>7 DEF EdtInv, EdtTypes, EdtRowTypes, WorldTypes, ContractTypes
<1>9. \A i \in Edit!Shifts : \/ edtShift'[i] = edtShift[i]
                             \/ /\ edtShift[i].sched \in S \cup {0} /\ edtShift'[i].sched \in S \cup {0}
                                /\ Stays(i) \/ Placed(i)
  BY <1>6
<1>10. UNCHANGED <<edtEdition, edtAnnounced, edtContract>> /\ edtBoard' = edtBoard
  BY <1>3
<1>. QED
  BY <1>4, <1>5, <1>8, <1>9, <1>10, EditGoal

LEMMA RemoveLocationGoal ==
  ASSUME Edit!EditingAssumption, EdtInv, NEW l \in EdtLocations, Edit!RemoveLocation(l)
  PROVE  Goal
<1>1. PICK S : S = {s \in Edit!Schedules : Edit!Draft(s) /\ edtSchedule[s].loc = l}
  OBVIOUS
<1>2. /\ edtSchedule' = Edit!Bumped(S) /\ edtClosed' = edtClosed \cup {l}
      /\ UNCHANGED <<edtShift, edtPerson, edtHooks, edtCredits, edtBoard, edtContract, edtSolve, edtAnnounced, edtEdition>>
  BY <1>1 DEF Edit!RemoveLocation
<1>3. S \in SUBSET Edit!Schedules /\ \A s \in S : Edit!Draft(s)
  BY <1>1
<1>4. /\ edtSchedule' \in [Edit!Schedules -> ScheduleRows] /\ \A s \in S : Revised(s)
      /\ \A s \in Edit!Schedules \ S : edtSchedule'[s] = edtSchedule[s]
  BY <1>2, <1>3, BumpRevises DEF EdtInv
<1>5. EdtTypes'
  BY <1>2, <1>4 DEF EdtInv, EdtTypes, EdtRowTypes, WorldTypes, ContractTypes
<1>. QED
  BY <1>2, <1>3, <1>4, <1>5, EditGoal

LEMMA ReplaceDemandGoal ==
  ASSUME Edit!EditingAssumption, EdtInv, NEW s \in Edit!Schedules, NEW W \in Edit!Windows, Edit!ReplaceDemand(s, W)
  PROVE  Goal
<1>1. W \in SUBSET EdtDemands /\ Edit!Draft(s)
      /\ edtSchedule' = [Edit!Bumped({s}) EXCEPT ![s].demand = W]
      /\ UNCHANGED <<Edit!world, edtShift, edtCredits, edtBoard>>
  BY DEF Edit!Windows, Edit!ReplaceDemand
<1>2. /\ edtSchedule' \in [Edit!Schedules -> ScheduleRows] /\ Revised(s)
      /\ \A t \in Edit!Schedules \ {s} : edtSchedule'[t] = edtSchedule[t]
  BY <1>1, DemandRevises DEF EdtInv
<1>3. EdtTypes'
  BY <1>1, <1>2, EditTypes DEF EdtInv, EdtTypes, EdtRowTypes, WorldTypes
<1>4. UNCHANGED <<edtEdition, edtAnnounced, edtContract, edtShift, edtBoard>>
  BY <1>1 DEF Edit!world
<1>5. {s} \in SUBSET Edit!Schedules /\ \A t \in {s} : Revised(t)
  BY <1>2
<1>. QED
  BY <1>2, <1>3, <1>4, <1>5, EditGoal

\* A client that changed its draft knows what the draft has become.
LEMMA BoardAdvances ==
  ASSUME EdtInv, NEW c \in EdtClients, NEW s \in Edit!Schedules, Edit!IfMatch(c, s),
         edtSchedule'[s].status # "none", edtSchedule'[s].revision = edtSchedule[s].revision + 1,
         NEW B \in SUBSET (Edit!Shifts \X ShiftRows), B = Edit!Shown(s, {})',
         edtBoard' = [edtBoard EXCEPT ![c].revision = @ + 1, ![c].without = {}, ![c].shifts = B]
  PROVE  /\ edtBoard' \in [EdtClients -> BoardRows]
         /\ \A d \in EdtClients : edtBoard'[d] = edtBoard[d] \/ BoardOK(d)'
<1>1. edtBoard \in [EdtClients -> BoardRows] /\ edtBoard[c] \in BoardRows
  BY DEF EdtInv, EdtTypes, WorldTypes
<1>2. PICK b : b = [edtBoard[c] EXCEPT !.revision = edtBoard[c].revision + 1, !.without = {},
                                       !.shifts = B]
  OBVIOUS
<1>3. /\ b \in BoardRows /\ b.sched = edtBoard[c].sched /\ b.revision = edtBoard[c].revision + 1
      /\ b.shifts = B /\ b.without = {} /\ b.read = edtBoard[c].read
  <2>1. /\ edtBoard[c].sched \in {0} \cup Edit!Schedules /\ edtBoard[c].revision \in Nat
        /\ edtBoard[c].read \in BOOLEAN
    BY <1>1 DEF BoardRows
  <2>2. b = [sched |-> edtBoard[c].sched, revision |-> edtBoard[c].revision + 1, shifts |-> B,
             without |-> {}, read |-> edtBoard[c].read]
    BY <1>1, <1>2 DEF BoardRows
  <2>. QED
    BY <2>1, <2>2 DEF BoardRows
<1>4. edtBoard' = [edtBoard EXCEPT ![c] = b]
  BY <1>1, <1>2
<1>5. edtBoard' \in [EdtClients -> BoardRows] /\ edtBoard'[c] = b
      /\ \A d \in EdtClients \ {c} : edtBoard'[d] = edtBoard[d]
  BY <1>1, <1>3, <1>4
<1>6. edtSchedule[s].revision \in Nat
  BY DEF EdtInv, EdtTypes, EdtRowTypes, ScheduleRows
<1>7. b.sched = s /\ b.revision = edtSchedule'[s].revision
  BY <1>3 DEF Edit!IfMatch
<1>8. BoardOK(c)'
  <2>1. b.revision =< edtSchedule'[s].revision
    BY <1>6, <1>7
  <2>. QED
    BY <1>3, <1>5, <1>7, <2>1 DEF BoardOK
<1>. QED
  BY <1>5, <1>8

\* The same when the shifts are what they were.
LEMMA BoardKeepsUp ==
  ASSUME EdtInv, NEW c \in EdtClients, NEW s \in Edit!Schedules, Edit!IfMatch(c, s), Edit!Exists(s),
         edtSchedule'[s].status # "none", edtSchedule'[s].revision = edtSchedule[s].revision + 1,
         edtShift' = edtShift, edtBoard' = [edtBoard EXCEPT ![c].revision = @ + 1]
  PROVE  /\ edtBoard' \in [EdtClients -> BoardRows]
         /\ \A d \in EdtClients : edtBoard'[d] = edtBoard[d] \/ BoardOK(d)'
<1>1. edtBoard \in [EdtClients -> BoardRows] /\ edtBoard[c] \in BoardRows
  BY DEF EdtInv, EdtTypes, WorldTypes
<1>2. PICK b : b = [edtBoard[c] EXCEPT !.revision = @ + 1]
  OBVIOUS
<1>3. /\ b \in BoardRows /\ b.sched = edtBoard[c].sched /\ b.revision = edtBoard[c].revision + 1
      /\ b.shifts = edtBoard[c].shifts /\ b.without = edtBoard[c].without /\ b.read = edtBoard[c].read
  BY <1>1, <1>2 DEF BoardRows
<1>4. edtBoard' = [edtBoard EXCEPT ![c] = b]
  BY <1>1, <1>2
<1>5. edtBoard' \in [EdtClients -> BoardRows] /\ edtBoard'[c] = b
      /\ \A d \in EdtClients \ {c} : edtBoard'[d] = edtBoard[d]
  BY <1>1, <1>3, <1>4
<1>6. edtSchedule[s].revision \in Nat
  BY DEF EdtInv, EdtTypes, EdtRowTypes, ScheduleRows
<1>7. b.sched = s /\ b.revision = edtSchedule'[s].revision
  BY <1>3 DEF Edit!IfMatch
<1>8. s # 0
  BY DEF Edit!Schedules
<1>9. b.shifts = Edit!Shown(s, b.without)
  BY <1>3, <1>8 DEF Edit!IfMatch, EdtInv, Boards, BoardOK
<1>10. Edit!Shown(s, b.without)' = Edit!Shown(s, b.without)
  BY DEF Edit!Shown, Edit!Of, Edit!Live
<1>11. BoardOK(c)'
  <2>1. b.revision =< edtSchedule'[s].revision
    BY <1>6, <1>7
  <2>. QED
    BY <1>3, <1>5, <1>7, <1>9, <1>10, <2>1 DEF BoardOK
<1>. QED
  BY <1>5, <1>11

LEMMA ReplaceGoal ==
  ASSUME Edit!EditingAssumption, EdtInv, NEW c \in EdtClients, NEW s \in Edit!Schedules, NEW W \in Edit!Windows,
         Edit!Replace(c, s, W)
  PROVE  Goal
<1>1. W \in SUBSET EdtDemands /\ Edit!Draft(s) /\ Edit!IfMatch(c, s)
      /\ edtSchedule' = [Edit!Bumped({s}) EXCEPT ![s].demand = W]
      /\ edtBoard' = [edtBoard EXCEPT ![c].revision = @ + 1]
      /\ UNCHANGED <<Edit!world, edtShift, edtCredits>>
  BY DEF Edit!Windows, Edit!Replace
<1>2. /\ edtSchedule' \in [Edit!Schedules -> ScheduleRows] /\ Revised(s)
      /\ \A t \in Edit!Schedules \ {s} : edtSchedule'[t] = edtSchedule[t]
  BY <1>1, DemandRevises DEF EdtInv
<1>3. Edit!Exists(s) /\ edtSchedule'[s].status # "none"
      /\ edtSchedule'[s].revision = edtSchedule[s].revision + 1
  BY <1>1, <1>2 DEF Revised, Edit!Exists, Edit!Draft
<1>4. /\ edtBoard' \in [EdtClients -> BoardRows]
      /\ \A d \in EdtClients : edtBoard'[d] = edtBoard[d] \/ BoardOK(d)'
  BY <1>1, <1>3, BoardKeepsUp
<1>5. EdtTypes'
  BY <1>1, <1>2, <1>4, EditTypes DEF EdtInv, EdtTypes, EdtRowTypes, WorldTypes
<1>6. UNCHANGED <<edtEdition, edtAnnounced, edtContract, edtShift>>
  BY <1>1 DEF Edit!world
<1>7. {s} \in SUBSET Edit!Schedules /\ \A t \in {s} : Revised(t)
  BY <1>2
<1>. QED
  BY <1>2, <1>4, <1>5, <1>6, <1>7, EditGoal

\* A change set as the client asks for it.
Request(s, del, upd, new) ==
    /\ del \subseteq Edit!Shifts
    /\ \A i \in DOMAIN upd : /\ upd[i].user \in Edit!Assignees
                             /\ upd[i].start \in Int /\ upd[i].end \in Int
    /\ DOMAIN new \subseteq Edit!Shifts
    /\ \A i \in DOMAIN new : /\ new[i].user \in Edit!Assignees
                             /\ new[i].start \in Int /\ new[i].end \in Int

PlanOK(s, del, new, plan) ==
    /\ DOMAIN plan = (Edit!Of(s) \ del) \cup DOMAIN new
    /\ DOMAIN plan \subseteq Edit!Shifts
    /\ \A i \in DOMAIN plan : plan[i] \in ShiftRows /\ plan[i].sched = s /\ plan[i].used
    /\ DOMAIN plan \subseteq Edit!Of(s) \cup {i \in Edit!Shifts : edtShift[i].sched = 0}

LEMMA PlannedRows ==
  ASSUME Edit!EditingAssumption, EdtInv, NEW s \in Edit!Schedules, NEW del, NEW upd, NEW new,
         Request(s, del, upd, new), DOMAIN upd \subseteq Edit!Of(s),
         \A i \in DOMAIN new : Edit!Fresh(i)
  PROVE  PlanOK(s, del, new, Edit!Planned(s, del, upd, new))
<1>1. PICK plan : plan = Edit!Planned(s, del, upd, new)
  OBVIOUS
<1>2. plan = [i \in (Edit!Of(s) \ del) \cup DOMAIN new |->
                 IF i \in DOMAIN new THEN Edit!Row(s, new[i].user, new[i])
                 ELSE IF i \in DOMAIN upd THEN Edit!Changed(i, upd[i].user, upd[i]) ELSE edtShift[i]]
  BY <1>1 DEF Edit!Planned
<1>3. DOMAIN plan = (Edit!Of(s) \ del) \cup DOMAIN new
  BY <1>2
<1>4. Edit!Of(s) \subseteq Edit!Shifts /\ \A i \in Edit!Of(s) : edtShift[i].sched = s /\ edtShift[i].used
                                                                  /\ edtShift[i] \in ShiftRows
  BY DEF Edit!Of, Edit!Live, EdtInv, Rows, EdtTypes, EdtRowTypes
<1>5. \A i \in DOMAIN new : i \in Edit!Shifts /\ edtShift[i].sched = 0
  BY DEF Request, Edit!Fresh, Edit!Unused, EdtInv, Rows
<1>6. ASSUME NEW i \in DOMAIN plan
      PROVE  plan[i] \in ShiftRows /\ plan[i].sched = s /\ plan[i].used
  <2>1. CASE i \in DOMAIN new
    <3>1. plan[i] = Edit!Row(s, new[i].user, new[i])
      BY <1>2, <1>3, <2>1
    <3>2. new[i].user \in Edit!Assignees /\ new[i].start \in Int /\ new[i].end \in Int
      BY <2>1 DEF Request
    <3>. QED
      BY <3>1, <3>2, RowValue
  <2>2. CASE i \notin DOMAIN new /\ i \in DOMAIN upd
    <3>1. plan[i] = Edit!Changed(i, upd[i].user, upd[i])
      BY <1>2, <1>3, <2>2
    <3>2. upd[i].user \in Edit!Assignees /\ upd[i].start \in Int /\ upd[i].end \in Int
      BY <2>2 DEF Request
    <3>3. i \in Edit!Of(s) /\ i \in Edit!Shifts
      BY <1>4, <2>2
    <3>. QED
      BY <1>4, <3>1, <3>2, <3>3, ChangedValue DEF EdtInv
  <2>3. CASE i \notin DOMAIN new /\ i \notin DOMAIN upd
    <3>1. plan[i] = edtShift[i] /\ i \in Edit!Of(s)
      BY <1>2, <1>3, <2>3
    <3>. QED
      BY <1>4, <3>1
  <2>. QED
    BY <2>1, <2>2, <2>3
<1>. QED
  BY <1>1, <1>3, <1>4, <1>5, <1>6 DEF PlanOK

LEMMA ApplyGoal ==
  ASSUME Edit!EditingAssumption, EdtInv, NEW c \in EdtClients, NEW s \in Edit!Schedules, NEW del, NEW upd,
         NEW new, Request(s, del, upd, new), Edit!Apply(c, s, del, upd, new)
  PROVE  Goal
<1>1. PICK plan : plan = Edit!Planned(s, del, upd, new)
  OBVIOUS
<1>2. PICK D : D = DOMAIN plan
  OBVIOUS
<1>3. /\ Edit!Draft(s) /\ Edit!IfMatch(c, s) /\ del \cup DOMAIN upd \subseteq Edit!Of(s)
      /\ \A i \in DOMAIN new : Edit!Fresh(i)
      /\ Edit!PlanIsValid(s, plan)
      /\ edtShift' = [i \in Edit!Shifts |-> IF i \in D THEN plan[i]
                                            ELSE IF i \in del THEN Edit!Gone(i) ELSE edtShift[i]]
      /\ edtSchedule' = Edit!Bumped({s})
      /\ edtBoard' = [edtBoard EXCEPT ![c].revision = @ + 1, ![c].without = {},
                                      ![c].shifts = {<<i, plan[i]>> : i \in D}]
      /\ UNCHANGED <<Edit!world, edtCredits>>
  BY <1>1, <1>2 DEF Edit!Apply
<1>4. /\ D = (Edit!Of(s) \ del) \cup DOMAIN new /\ D \subseteq Edit!Shifts
      /\ \A i \in D : plan[i] \in ShiftRows /\ plan[i].sched = s /\ plan[i].used
      /\ D \subseteq Edit!Of(s) \cup {i \in Edit!Shifts : edtShift[i].sched = 0}
  <2>1. DOMAIN upd \subseteq Edit!Of(s) /\ \A i \in DOMAIN new : Edit!Fresh(i)
    BY <1>3
  <2>2. PlanOK(s, del, new, Edit!Planned(s, del, upd, new))
    BY <2>1, PlannedRows
  <2>. QED
    BY <1>1, <1>2, <2>2 DEF PlanOK
<1>5. /\ edtSchedule' \in [Edit!Schedules -> ScheduleRows] /\ \A t \in {s} : Revised(t)
      /\ \A t \in Edit!Schedules \ {s} : edtSchedule'[t] = edtSchedule[t]
  <2>1. EdtTypes /\ {s} \in SUBSET Edit!Schedules /\ \A t \in {s} : Edit!Draft(t)
    BY <1>3 DEF EdtInv
  <2>. QED
    BY <1>3, <2>1, BumpRevises
<1>6. ASSUME NEW i \in Edit!Shifts
      PROVE  /\ edtShift'[i] \in ShiftRows
             /\ i \in D => edtShift'[i] = plan[i]
             /\ i \notin D => \/ edtShift'[i] = edtShift[i] /\ i \notin Edit!Of(s)
                              \/ edtShift'[i].sched = 0 /\ edtShift[i].sched = s
  <2>1. edtShift[i] \in ShiftRows
    BY DEF EdtInv, EdtTypes, EdtRowTypes
  <2>2. CASE i \in D
    BY <1>3, <1>4, <2>2
  <2>3. CASE i \notin D /\ i \in del
    <3>1. edtShift'[i] = Edit!Gone(i) /\ i \in Edit!Of(s)
      BY <1>3, <2>3
    <3>. QED
      BY <2>3, <3>1, GoneValue DEF Edit!Of
  <2>4. CASE i \notin D /\ i \notin del
    BY <1>3, <1>4, <2>1, <2>4
  <2>. QED
    BY <2>2, <2>3, <2>4
<1>7. s # 0
  BY DEF Edit!Schedules
<1>8. Edit!Of(s)' = D
  <2>1. \A i \in Edit!Shifts : edtShift'[i].sched = s <=> i \in D
    BY <1>4, <1>6, <1>7 DEF Edit!Of, Edit!Live
  <2>. QED
    BY <1>4, <1>7, <2>1 DEF Edit!Of, Edit!Live
<1>9. /\ edtBoard' \in [EdtClients -> BoardRows]
      /\ \A d \in EdtClients : edtBoard'[d] = edtBoard[d] \/ BoardOK(d)'
  <2>1. PICK B : B = {<<i, plan[i]>> : i \in D}
    OBVIOUS
  <2>2. B \in SUBSET (Edit!Shifts \X ShiftRows)
    BY <1>4, <2>1
  <2>3. B = Edit!Shown(s, {})'
    <3>1. {k \in Edit!Of(s)' : edtShift'[k].user \notin {}} = D
      BY <1>8
    <3>. QED
      BY <1>4, <1>6, <2>1, <3>1 DEF Edit!Shown
  <2>4. edtSchedule'[s].status # "none" /\ edtSchedule'[s].revision = edtSchedule[s].revision + 1
    BY <1>5 DEF Revised
  <2>5. edtBoard' = [edtBoard EXCEPT ![c].revision = @ + 1, ![c].without = {}, ![c].shifts = B]
    BY <1>3, <2>1
  <2>. QED
    BY <1>3, <2>2, <2>3, <2>4, <2>5, BoardAdvances
<1>10. EdtTypes'
  <2>1. edtShift' \in [Edit!Shifts -> ShiftRows]
    BY <1>3, <1>6
  <2>2. edtCredits' \in Nat /\ UNCHANGED Edit!world
    BY <1>3 DEF EdtInv, EdtTypes, WorldTypes
  <2>. QED
    BY <1>5, <1>9, <2>1, <2>2, EditTypes DEF EdtInv
<1>11. ASSUME NEW i \in D PROVE Placed(i)
  <2>1. i \in Edit!Shifts /\ edtShift'[i] = plan[i] /\ edtShift'[i].sched = s /\ edtShift'[i].used
    BY <1>4, <1>6
  <2>2. Alone(i)'
    <3>1. SUFFICES ASSUME NEW j \in Edit!Shifts, i # j, Clash(i, j)' PROVE FALSE
      BY DEF Alone
    <3>2. /\ edtShift'[i].start \in Int /\ edtShift'[i].end \in Int
          /\ edtShift'[j].start \in Int /\ edtShift'[j].end \in Int
      BY <1>6, <2>1 DEF ShiftRows
    <3>3. /\ edtShift'[j].sched # 0 /\ plan[i].user = edtShift'[j].user /\ plan[i].user # None
          /\ Edit!Overlaps(plan[i], edtShift'[j])
      BY <2>1, <3>1 DEF Clash
    <3>4. CASE j \in D
      BY <1>2, <1>3, <1>6, <3>1, <3>3, <3>4 DEF Edit!PlanIsValid
    <3>5. CASE j \notin D
      <4>1. edtShift'[j] = edtShift[j] /\ j \in Edit!Live \ Edit!Of(s)
        BY <1>6, <3>3, <3>5 DEF Edit!Live
      <4>2. Edit!Free(plan[i].user, plan[i], Edit!Of(s))
        BY <1>2, <1>3 DEF Edit!PlanIsValid
      <4>3. ~Edit!Overlaps(edtShift[j], plan[i])
        BY <3>3, <4>1, <4>2 DEF Edit!Free
      <4>. QED
        BY <2>1, <3>2, <3>3, <4>1, <4>3 DEF Edit!Overlaps
    <3>. QED
      BY <3>4, <3>5
  <2>3. Edit!Within(plan[i], edtSchedule[s]) /\ Edit!Inside(plan[i].breaks, plan[i])
    BY <1>2, <1>3 DEF Edit!PlanIsValid
  <2>4. SameWindow(s) /\ Edit!Exists(s)'
    BY <1>5 DEF Revised, Edit!Exists
  <2>5. Seated(i)'
    BY <2>1, <2>3, <2>4, SeatIn
  <2>. QED
    BY <2>1, <2>2, <2>5 DEF Placed
<1>12. \A i \in Edit!Shifts : \/ edtShift'[i] = edtShift[i]
                              \/ /\ edtShift[i].sched \in {s} \cup {0} /\ edtShift'[i].sched \in {s} \cup {0}
                                 /\ Stays(i) \/ Placed(i)
  <2>1. SUFFICES ASSUME NEW i \in Edit!Shifts
        PROVE  \/ edtShift'[i] = edtShift[i]
               \/ /\ edtShift[i].sched \in {s} \cup {0} /\ edtShift'[i].sched \in {s} \cup {0}
                  /\ Stays(i) \/ Placed(i)
    OBVIOUS
  <2>2. CASE i \in D
    <3>1. edtShift[i].sched \in {s} \cup {0}
      BY <1>4, <2>2 DEF Edit!Of
    <3>. QED
      BY <1>4, <1>6, <1>11, <2>2, <3>1
  <2>3. CASE i \notin D
    BY <1>6, <2>3 DEF Stays
  <2>. QED
    BY <2>2, <2>3
<1>13. UNCHANGED <<edtEdition, edtAnnounced, edtContract>>
  BY <1>3 DEF Edit!world
<1>14. {s} \in SUBSET Edit!Schedules
  OBVIOUS
<1>. QED
  BY <1>5, <1>9, <1>10, <1>12, <1>13, <1>14, EditGoal
-----------------------------------------------------------------------------
(* Steps that make, remove, publish and reopen schedules. *)

LEMMA DayValue ==
  ASSUME Edit!EditingAssumption, NEW t \in Nat
  PROVE  Edit!Day(t).start \in Int /\ Edit!Day(t).end \in Int
<1>1. EdtDayLength \in Nat \ {0}
  BY DEF Edit!EditingAssumption
<1>2. t \div EdtDayLength \in Int
  BY <1>1
<1>. QED
  BY <1>1, <1>2 DEF Edit!Day

LEMMA NewScheduleValue ==
  ASSUME Edit!EditingAssumption, NEW l \in EdtLocations, NEW w, w.start \in Int, w.end \in Int
  PROVE  /\ Edit!NewSchedule(l, w) \in ScheduleRows
         /\ Edit!NewSchedule(l, w).status = "DRAFT" /\ Edit!NewSchedule(l, w).loc = l
         /\ Edit!NewSchedule(l, w).start = w.start /\ Edit!NewSchedule(l, w).end = w.end
<1>1. Edit!NoSchedule \in ScheduleRows
  BY DEF Edit!NoSchedule, ScheduleRows, Statuses, Edit!EditingAssumption
<1>. QED
  BY <1>1 DEF Edit!NewSchedule, Edit!NoSchedule, ScheduleRows, Statuses

\* A new draft comes, perhaps with its first shift.
LEMMA BirthStep ==
  ASSUME Edit!EditingAssumption, EdtInv, EdtTypes', NEW s \in Edit!Schedules, NEW r \in ScheduleRows,
         r.status = "DRAFT", NEW w, r.start = w.start, r.end = w.end,
         Edit!FreshSchedule(s), Edit!NoOverlapAt(r.loc, w), UNCHANGED edtEdition,
         edtSchedule' = [edtSchedule EXCEPT ![s] = r],
         \A i \in Edit!Shifts : \/ edtShift'[i] = edtShift[i]
                                \/ edtShift[i].sched = 0 /\ edtShift'[i].sched = s /\ Placed(i)
  PROVE  Step
<1>1. edtSchedule'[s] = r /\ \A t \in Edit!Schedules \ {s} : edtSchedule'[t] = edtSchedule[t]
  BY DEF EdtInv, EdtTypes, EdtRowTypes
<1>2. Born(s)
  BY <1>1 DEF Born, Edit!FreshSchedule
<1>3. ASSUME NEW t \in Edit!Schedules, t # s PROVE Rests(t) /\ ~Born(t)
  <2>1. t # 0
    BY DEF Edit!Schedules
  <2>. QED
    BY <1>1, <1>3, <2>1 DEF Rests, SameRows, Born
<1>4. ASSUME NEW t \in Edit!Schedules, s # t PROVE Apart(s, t)'
  <2>1. SUFFICES ASSUME Edit!Exists(t)', edtSchedule'[s].loc = edtSchedule'[t].loc
                 PROVE  ~Edit!Overlaps(edtSchedule'[s], edtSchedule'[t])
    BY DEF Apart
  <2>2. edtSchedule'[t] = edtSchedule[t] /\ Edit!Exists(t) /\ edtSchedule[t].loc = r.loc
    BY <1>1, <1>4, <2>1 DEF Edit!Exists
  <2>3. ~Edit!Overlaps(edtSchedule[t], w)
    BY <2>2 DEF Edit!NoOverlapAt
  <2>4. /\ edtSchedule'[s].start \in Int /\ edtSchedule'[s].end \in Int
        /\ edtSchedule'[t].start \in Int /\ edtSchedule'[t].end \in Int
    BY DEF EdtTypes, EdtRowTypes, ScheduleRows
  <2>. QED
    BY <1>1, <2>2, <2>3, <2>4 DEF Edit!Overlaps
<1>5. \A t \in Edit!Schedules : EdtMoves(t)
  BY <1>2, <1>3 DEF EdtMoves
<1>6. \A t, q \in Edit!Schedules : t # q /\ Born(t) => Apart(t, q)'
  BY <1>3, <1>4
<1>7. \A i \in Edit!Shifts : Stays(i) \/ Placed(i)
  BY DEF Stays
<1>. QED
  BY <1>5, <1>6, <1>7 DEF Step

LEMMA CreateScheduleGoal ==
  ASSUME Edit!EditingAssumption, EdtInv, NEW s \in Edit!Schedules, NEW l \in EdtLocations, NEW d \in EdtDays,
         Edit!CreateSchedule(s, l, d)
  PROVE  Goal
<1>1. PICK w : w = Edit!Day(d * EdtDayLength)
  OBVIOUS
<1>2. w.start \in Int /\ w.end \in Int
  <2>1. d \in Nat /\ EdtDayLength \in Nat
    BY DEF Edit!EditingAssumption
  <2>2. d * EdtDayLength \in Nat
    BY <2>1
  <2>. QED
    BY <1>1, <2>2, DayValue
<1>3. PICK r : r = Edit!NewSchedule(l, w)
  OBVIOUS
<1>4. r \in ScheduleRows /\ r.status = "DRAFT" /\ r.loc = l /\ r.start = w.start /\ r.end = w.end
  BY <1>2, <1>3, NewScheduleValue
<1>5. /\ Edit!FreshSchedule(s) /\ Edit!NoOverlapAt(r.loc, w) /\ edtSchedule' = [edtSchedule EXCEPT ![s] = r]
      /\ UNCHANGED <<Edit!world, edtShift, edtCredits, edtBoard>>
  BY <1>1, <1>3, <1>4 DEF Edit!CreateSchedule
<1>6. EdtTypes'
  <2>1. edtSchedule' \in [Edit!Schedules -> ScheduleRows]
    BY <1>4, <1>5 DEF EdtInv, EdtTypes, EdtRowTypes
  <2>. QED
    BY <1>5, <2>1, EditTypes DEF EdtInv, EdtTypes, EdtRowTypes, WorldTypes
<1>7. UNCHANGED <<edtEdition, edtAnnounced, edtContract, edtBoard, edtShift>>
  BY <1>5 DEF Edit!world
<1>8. Step
  BY <1>4, <1>5, <1>6, <1>7, BirthStep
<1>. QED
  BY <1>6, <1>7, <1>8 DEF Goal, Notifies

LEMMA CreateShiftAndDraftGoal ==
  ASSUME Edit!EditingAssumption, EdtInv, NEW i \in Edit!Shifts, NEW s \in Edit!Schedules, NEW l \in EdtLocations,
         NEW u \in Edit!Assignees, NEW w \in EdtSlots, Edit!CreateShiftAndDraft(i, s, l, u, w)
  PROVE  Goal
<1>1. PICK d : d = Edit!Day(w.start)
  OBVIOUS
<1>2. d.start \in Int /\ d.end \in Int
  BY <1>1, DayValue, SlotTypes
<1>3. PICK n : n = Edit!NewSchedule(l, d)
  OBVIOUS
<1>4. n \in ScheduleRows /\ n.status = "DRAFT" /\ n.loc = l /\ n.start = d.start /\ n.end = d.end
  BY <1>2, <1>3, NewScheduleValue
<1>5. PICK r : r = [n EXCEPT !.revision = 1]
  OBVIOUS
<1>6. r \in ScheduleRows /\ r.status = "DRAFT" /\ r.loc = l /\ r.start = d.start /\ r.end = d.end
  BY <1>4, <1>5 DEF ScheduleRows
<1>7. PICK q : q = Edit!Row(s, u, w)
  OBVIOUS
<1>8. /\ q \in ShiftRows /\ q.sched = s /\ q.user = u /\ q.used /\ q.start = w.start
      /\ q.end = w.end /\ q.breaks = {}
  BY <1>7, RowValue, SlotTypes
<1>9. /\ Edit!Fresh(i) /\ Edit!FreshSchedule(s) /\ Edit!NoOverlapAt(l, d) /\ Edit!Within(w, d) /\ Edit!Free(u, w, {}) /\ Edit!Pay
      /\ edtShift' = [edtShift EXCEPT ![i] = q] /\ edtSchedule' = [edtSchedule EXCEPT ![s] = r]
      /\ UNCHANGED <<Edit!world, edtBoard>>
  BY <1>1, <1>3, <1>5, <1>7 DEF Edit!CreateShiftAndDraft
<1>10. edtShift[i].sched = 0
  BY <1>9 DEF Edit!Fresh, Edit!Unused, EdtInv, Rows
<1>11. /\ edtSchedule' \in [Edit!Schedules -> ScheduleRows] /\ edtShift' \in [Edit!Shifts -> ShiftRows]
       /\ edtSchedule'[s] = r /\ edtShift'[i] = q /\ \A j \in Edit!Shifts \ {i} : edtShift'[j] = edtShift[j]
  BY <1>6, <1>8, <1>9 DEF EdtInv, EdtTypes, EdtRowTypes
<1>12. EdtTypes'
  <2>1. edtCredits' \in Nat
    BY <1>9, Paid DEF EdtInv
  <2>. QED
    BY <1>9, <1>11, <2>1, EditTypes DEF EdtInv, EdtTypes, EdtRowTypes, WorldTypes
<1>13. UNCHANGED <<edtEdition, edtAnnounced, edtContract, edtBoard>>
  BY <1>9 DEF Edit!world
<1>14. Placed(i)
  <2>1. Alone(i)'
    BY <1>8, <1>9, <1>11, <1>12, FreeIsAlone DEF EdtInv
  <2>2. Seated(i)'
    BY <1>6, <1>8, <1>9, <1>11 DEF Seated, Edit!Exists, Edit!Within, Edit!Inside
  <2>. QED
    BY <1>8, <1>11, <2>1, <2>2 DEF Placed
<1>15. \A j \in Edit!Shifts : \/ edtShift'[j] = edtShift[j]
                              \/ edtShift[j].sched = 0 /\ edtShift'[j].sched = s /\ Placed(j)
  BY <1>8, <1>10, <1>11, <1>14
<1>16. Step
  BY <1>6, <1>9, <1>12, <1>13, <1>15, BirthStep
<1>. QED
  BY <1>12, <1>13, <1>16 DEF Goal, Notifies

LEMMA StatusValue ==
  ASSUME EdtTypes, NEW s \in Edit!Schedules, NEW x \in Statuses,
         edtSchedule' = [edtSchedule EXCEPT ![s].status = x]
  PROVE  /\ edtSchedule' \in [Edit!Schedules -> ScheduleRows]
         /\ edtSchedule'[s].status = x /\ SameWindow(s)
         /\ edtSchedule'[s].revision = edtSchedule[s].revision
         /\ edtSchedule'[s].demand = edtSchedule[s].demand /\ edtSchedule'[s].limit = edtSchedule[s].limit
         /\ \A t \in Edit!Schedules \ {s} : edtSchedule'[t] = edtSchedule[t]
<1>1. edtSchedule \in [Edit!Schedules -> ScheduleRows] /\ edtSchedule[s] \in ScheduleRows
  BY DEF EdtTypes, EdtRowTypes
<1>2. PICK r : r = [edtSchedule[s] EXCEPT !.status = x]
  OBVIOUS
<1>3. /\ r \in ScheduleRows /\ r.status = x /\ r.loc = edtSchedule[s].loc
      /\ r.start = edtSchedule[s].start /\ r.end = edtSchedule[s].end
      /\ r.revision = edtSchedule[s].revision /\ r.demand = edtSchedule[s].demand
      /\ r.limit = edtSchedule[s].limit
  BY <1>1, <1>2 DEF ScheduleRows
<1>4. edtSchedule' = [edtSchedule EXCEPT ![s] = r]
  BY <1>1, <1>2
<1>. QED
  BY <1>1, <1>3, <1>4 DEF SameWindow

LEMMA RemoveScheduleGoal ==
  ASSUME Edit!EditingAssumption, EdtInv, NEW s \in Edit!Schedules, Edit!RemoveSchedule(s)
  PROVE  Goal
<1>1. /\ Edit!Draft(s) /\ edtSchedule' = [edtSchedule EXCEPT ![s].status = "DELETED"]
      /\ edtShift' = [i \in Edit!Shifts |-> IF i \in Edit!Of(s) THEN Edit!Gone(i) ELSE edtShift[i]]
      /\ UNCHANGED <<edtPerson, edtClosed, edtHooks, edtCredits, edtBoard, edtContract, edtSolve, edtAnnounced, edtEdition>>
  BY DEF Edit!RemoveSchedule
<1>2. /\ edtSchedule' \in [Edit!Schedules -> ScheduleRows] /\ edtSchedule'[s].status = "DELETED"
      /\ edtSchedule'[s].revision = edtSchedule[s].revision
      /\ \A t \in Edit!Schedules \ {s} : edtSchedule'[t] = edtSchedule[t]
  <2>1. EdtTypes /\ "DELETED" \in Statuses
    BY DEF EdtInv, Statuses
  <2>. QED
    BY <1>1, <2>1, StatusValue
<1>3. s # 0
  BY DEF Edit!Schedules
<1>4. ASSUME NEW i \in Edit!Shifts
      PROVE  /\ edtShift'[i] \in ShiftRows
             /\ edtShift[i].sched = s => edtShift'[i].sched = 0
             /\ edtShift[i].sched # s => edtShift'[i] = edtShift[i]
  <2>1. edtShift[i] \in ShiftRows
    BY DEF EdtInv, EdtTypes, EdtRowTypes
  <2>2. i \in Edit!Of(s) <=> edtShift[i].sched = s
    BY <1>3 DEF Edit!Of, Edit!Live
  <2>. QED
    BY <1>1, <2>1, <2>2, GoneValue
<1>5. EdtTypes'
  <2>1. edtShift' \in [Edit!Shifts -> ShiftRows]
    BY <1>1, <1>4
  <2>. QED
    BY <1>1, <1>2, <2>1 DEF EdtInv, EdtTypes, EdtRowTypes, WorldTypes, ContractTypes
<1>6. Removed(s) /\ ~Born(s)
  BY <1>1, <1>2, <1>3, <1>4 DEF Removed, Born
<1>7. ASSUME NEW t \in Edit!Schedules, t # s PROVE Rests(t) /\ ~Born(t)
  <2>1. t # 0
    BY DEF Edit!Schedules
  <2>. QED
    BY <1>1, <1>2, <1>4, <1>7, <2>1 DEF Rests, SameRows, Born
<1>8. \A i \in Edit!Shifts : Stays(i)
  BY <1>4 DEF Stays
<1>9. Step
  BY <1>6, <1>7, <1>8 DEF Step, EdtMoves
<1>. QED
  BY <1>1, <1>5, <1>9 DEF Goal, Notifies

LEMMA FinishSolveGoal ==
  ASSUME Edit!EditingAssumption, EdtInv, NEW s \in Edit!Schedules, NEW i \in Edit!Shifts, NEW u \in EdtUsers,
         NEW w \in EdtSlots, NEW h \in EdtLimits, Edit!FinishSolve(s, i, u, w, w.start, h)
  PROVE  Goal
<1>1. PICK q : q = Edit!Row(s, u, w)
  OBVIOUS
<1>2. PICK r : r = [q EXCEPT !.breaks = {w.start}]
  OBVIOUS
<1>3. u \in Edit!Assignees /\ w.start \in Int /\ w.end \in Int
  BY SlotTypes DEF Edit!Assignees
<1>4. q \in ShiftRows /\ q.sched = s /\ q.user = u /\ q.used /\ q.start = w.start /\ q.end = w.end
  BY <1>1, <1>3, RowValue
<1>5. /\ r \in ShiftRows /\ r.sched = s /\ r.user = u /\ r.used /\ r.start = w.start
      /\ r.end = w.end /\ r.breaks = {w.start}
  BY <1>2, <1>3, <1>4 DEF ShiftRows
<1>6. /\ Edit!Draft(s) /\ Edit!Fresh(i) /\ Edit!Within(w, edtSchedule[s]) /\ Edit!Inside({w.start}, w)
      /\ Edit!Free(u, w, Edit!Of(s)) /\ edtSchedule' = [Edit!Bumped({s}) EXCEPT ![s].limit = h]
      /\ edtShift' = [k \in Edit!Shifts |-> IF k = i THEN r ELSE IF k \in Edit!Of(s) THEN Edit!Gone(k) ELSE edtShift[k]]
      /\ edtSolve' = [edtSolve EXCEPT ![s] = Edit!NoSolve]
      /\ UNCHANGED <<edtPerson, edtClosed, edtHooks, edtCredits, edtBoard, edtContract, edtAnnounced, edtEdition>>
  BY <1>1, <1>2 DEF Edit!FinishSolve, Edit!AssignedNoOverlap
<1>7. edtShift[i].sched = 0 /\ s # 0
  BY <1>6 DEF Edit!Fresh, Edit!Unused, EdtInv, Rows, Edit!Schedules
<1>8. /\ edtSchedule' \in [Edit!Schedules -> ScheduleRows] /\ \A t \in {s} : Revised(t)
      /\ \A t \in Edit!Schedules \ {s} : edtSchedule'[t] = edtSchedule[t]
  <2>1. EdtTypes /\ h \in Nat /\ Edit!Draft(s)
    BY <1>6 DEF EdtInv, Edit!EditingAssumption
  <2>. QED
    BY <1>6, <2>1, LimitRevises
<1>9. ASSUME NEW k \in Edit!Shifts, k # i
      PROVE  /\ edtShift'[k] \in ShiftRows
             /\ k \in Edit!Of(s) => edtShift'[k].sched = 0 /\ edtShift[k].sched = s
             /\ k \notin Edit!Of(s) => edtShift'[k] = edtShift[k]
  <2>1. edtShift[k] \in ShiftRows
    BY DEF EdtInv, EdtTypes, EdtRowTypes
  <2>2. k \in Edit!Of(s) => edtShift[k].sched = s
    BY DEF Edit!Of
  <2>. QED
    BY <1>6, <1>9, <2>1, <2>2, GoneValue
<1>10. edtShift'[i] = r
  BY <1>6
<1>11. EdtTypes'
  <2>1. edtShift' \in [Edit!Shifts -> ShiftRows]
    BY <1>5, <1>6, <1>9, <1>10
  <2>2. edtSolve' \in [Edit!Schedules -> Nat \cup {Edit!NoSolve}]
    BY <1>6 DEF EdtInv, EdtTypes, WorldTypes
  <2>. QED
    BY <1>6, <1>8, <2>1, <2>2 DEF EdtInv, EdtTypes, EdtRowTypes, WorldTypes, ContractTypes
<1>12. Placed(i)
  <2>1. \A j \in Edit!Shifts \ {i} : edtShift'[j].sched = 0 \/ (j \notin Edit!Of(s) /\ edtShift'[j] = edtShift[j])
    BY <1>9
  <2>2. Alone(i)'
    BY <1>5, <1>6, <1>10, <1>11, <2>1, FreeIsAlone DEF EdtInv
  <2>3. SameWindow(s) /\ Edit!Exists(s)'
    BY <1>8 DEF Revised, Edit!Exists
  <2>4. Seated(i)'
    BY <1>5, <1>6, <1>10, <2>3, SeatIn
  <2>. QED
    BY <1>5, <1>10, <2>2, <2>4 DEF Placed
<1>13. \A k \in Edit!Shifts : \/ edtShift'[k] = edtShift[k]
                              \/ /\ edtShift[k].sched \in {s} \cup {0} /\ edtShift'[k].sched \in {s} \cup {0}
                                 /\ Stays(k) \/ Placed(k)
  <2>1. SUFFICES ASSUME NEW k \in Edit!Shifts
        PROVE  \/ edtShift'[k] = edtShift[k]
               \/ /\ edtShift[k].sched \in {s} \cup {0} /\ edtShift'[k].sched \in {s} \cup {0}
                  /\ Stays(k) \/ Placed(k)
    OBVIOUS
  <2>2. CASE k = i
    BY <1>5, <1>7, <1>10, <1>12, <2>2
  <2>3. CASE k # i
    BY <1>9, <2>3 DEF Stays
  <2>. QED
    BY <2>2, <2>3
<1>14. UNCHANGED <<edtEdition, edtAnnounced, edtContract>> /\ edtBoard' = edtBoard /\ {s} \in SUBSET Edit!Schedules
  BY <1>6
<1>. QED
  BY <1>8, <1>11, <1>13, <1>14, EditGoal

\* One schedule changes and its shifts do not.
LEMMA OneSchedule ==
  ASSUME NEW s \in Edit!Schedules, edtShift' = edtShift, EdtMoves(s), ~Born(s),
         \A t \in Edit!Schedules \ {s} : edtSchedule'[t] = edtSchedule[t] /\ edtEdition'[t] = edtEdition[t]
  PROVE  Step
<1>1. ASSUME NEW t \in Edit!Schedules, t # s PROVE Rests(t) /\ ~Born(t)
  BY <1>1 DEF Rests, SameRows, Born
<1>2. \A i \in Edit!Shifts : Stays(i)
  BY DEF Stays
<1>. QED
  BY <1>1, <1>2 DEF Step, EdtMoves

LEMMA ReopenedValue ==
  ASSUME EdtTypes, NEW s \in Edit!Schedules, edtSchedule[s].status = "PUBLISHED", edtSchedule' = Edit!Reopened(s)
  PROVE  /\ edtSchedule' \in [Edit!Schedules -> ScheduleRows] /\ Withdrawn(s)
         /\ \A t \in Edit!Schedules \ {s} : edtSchedule'[t] = edtSchedule[t]
<1>1. PICK f : f = Edit!Bumped({s})
  OBVIOUS
<1>2. /\ f \in [Edit!Schedules -> ScheduleRows] /\ \A t \in Edit!Schedules \ {s} : f[t] = edtSchedule[t]
      /\ f[s].revision = edtSchedule[s].revision + 1 /\ f[s].loc = edtSchedule[s].loc
      /\ f[s].start = edtSchedule[s].start /\ f[s].end = edtSchedule[s].end
  <2>1. EdtRowTypes
    BY DEF EdtTypes
  <2>. QED
    BY <1>1, <2>1, BumpedRows
<1>3. PICK r : r = [f[s] EXCEPT !.status = "DRAFT"]
  OBVIOUS
<1>4. f[s] \in ScheduleRows
  BY <1>2
<1>5. /\ r \in ScheduleRows /\ r.status = "DRAFT" /\ r.loc = f[s].loc /\ r.start = f[s].start
      /\ r.end = f[s].end /\ r.revision = f[s].revision
  BY <1>3, <1>4 DEF ScheduleRows, Statuses
<1>6. edtSchedule' = [f EXCEPT ![s] = r]
  BY <1>1, <1>3 DEF Edit!Reopened
<1>7. edtSchedule' \in [Edit!Schedules -> ScheduleRows] /\ edtSchedule'[s] = r
      /\ \A t \in Edit!Schedules \ {s} : edtSchedule'[t] = f[t]
  BY <1>2, <1>5, <1>6
<1>. QED
  BY <1>2, <1>5, <1>7 DEF Withdrawn, SameWindow

LEMMA ReopenGoal ==
  ASSUME Edit!EditingAssumption, EdtInv, NEW s \in Edit!Schedules, Edit!Reopen(s)
  PROVE  Goal
<1>1. /\ edtSchedule[s].status = "PUBLISHED" /\ edtSchedule' = Edit!Reopened(s)
      /\ UNCHANGED <<edtShift, edtPerson, edtClosed, edtHooks, edtCredits, edtBoard, edtContract, edtSolve, edtAnnounced,
                     edtEdition>>
  BY DEF Edit!Reopen
<1>2. /\ edtSchedule' \in [Edit!Schedules -> ScheduleRows] /\ Withdrawn(s)
      /\ \A t \in Edit!Schedules \ {s} : edtSchedule'[t] = edtSchedule[t]
  BY <1>1, ReopenedValue DEF EdtInv
<1>3. EdtTypes'
  BY <1>1, <1>2 DEF EdtInv, EdtTypes, EdtRowTypes, WorldTypes, ContractTypes
<1>4. EdtMoves(s) /\ ~Born(s)
  BY <1>1, <1>2 DEF EdtMoves, Born
<1>5. Step
  BY <1>1, <1>2, <1>4, OneSchedule
<1>. QED
  BY <1>1, <1>3, <1>5 DEF Goal, Notifies

LEMMA ReopenSeenGoal ==
  ASSUME Edit!EditingAssumption, EdtInv, NEW c \in EdtClients, NEW s \in Edit!Schedules, Edit!ReopenSeen(c, s)
  PROVE  Goal
<1>1. /\ edtSchedule[s].status = "PUBLISHED" /\ edtSchedule' = Edit!Reopened(s) /\ Edit!IfMatch(c, s)
      /\ edtBoard' = [edtBoard EXCEPT ![c].revision = @ + 1]
      /\ UNCHANGED <<edtShift, edtPerson, edtClosed, edtHooks, edtCredits, edtContract, edtSolve, edtAnnounced,
                     edtEdition>>
  BY DEF Edit!ReopenSeen
<1>2. /\ edtSchedule' \in [Edit!Schedules -> ScheduleRows] /\ Withdrawn(s)
      /\ \A t \in Edit!Schedules \ {s} : edtSchedule'[t] = edtSchedule[t]
  BY <1>1, ReopenedValue DEF EdtInv
<1>3. Edit!Exists(s) /\ edtSchedule'[s].status # "none"
      /\ edtSchedule'[s].revision = edtSchedule[s].revision + 1
  BY <1>1, <1>2 DEF Withdrawn, Edit!Exists
<1>4. /\ edtBoard' \in [EdtClients -> BoardRows]
      /\ \A d \in EdtClients : edtBoard'[d] = edtBoard[d] \/ BoardOK(d)'
  BY <1>1, <1>3, BoardKeepsUp
<1>5. EdtTypes'
  BY <1>1, <1>2, <1>4 DEF EdtInv, EdtTypes, EdtRowTypes, WorldTypes, ContractTypes
<1>6. EdtMoves(s) /\ ~Born(s)
  BY <1>1, <1>2 DEF EdtMoves, Born
<1>7. Step
  BY <1>1, <1>2, <1>6, OneSchedule
<1>. QED
  BY <1>1, <1>4, <1>5, <1>7 DEF Goal, Notifies

LEMMA PriceType ==
  ASSUME Edit!EditingAssumption, EdtTypes
  PROVE  Edit!Price \in Nat
<1>1. EdtScheduleCost \in Nat /\ edtHooks \in {0, 1}
  BY DEF Edit!EditingAssumption, EdtTypes, WorldTypes
<1>2. CASE edtHooks = 0
  BY <1>1, <1>2 DEF Edit!Price
<1>3. CASE edtHooks = 1
  BY <1>1, <1>3 DEF Edit!Price
<1>. QED
  BY <1>1, <1>2, <1>3

\* A set of numbers that is not empty has a least one.
LEMMA LeastNumber ==
  ASSUME NEW T \in SUBSET Nat, T # {}
  PROVE  \E n \in T : \A m \in T : n <= m
<1>1. PICK n \in T : \A m \in T : ~ (<<m, n>> \in OpToRel(<, Nat))
  BY NatLessThanWellFounded, WFMin, Zenon
<1>2. ASSUME NEW m \in T PROVE n <= m
  <2>1. n \in Nat /\ m \in Nat
    OBVIOUS
  <2>2. ~(m < n)
    BY <1>1, <1>2 DEF OpToRel
  <2>. QED
    BY <2>1, <2>2
<1>. QED
  BY <1>2

\* Between the boundaries next to an instant nothing changes.
LEMMA SegmentAround ==
  ASSUME NEW B \in SUBSET Int, NEW t \in Int, NEW lo \in B, lo =< t, NEW hi \in B, t < hi
  PROVE  \E g \in Edit!Segments(B) : g[1] =< t /\ t < g[2] /\ g[1] \in Int /\ g[2] \in Int
<1>1. PICK L : L = {n \in Nat : t - n \in B}
  OBVIOUS
<1>2. PICK H : H = {n \in Nat : t + 1 + n \in B}
  OBVIOUS
<1>3. t - lo \in L /\ hi - (t + 1) \in H
  <2>1. t - lo \in Nat /\ t - (t - lo) = lo /\ hi - (t + 1) \in Nat
        /\ t + 1 + (hi - (t + 1)) = hi
    OBVIOUS
  <2>. QED
    BY <1>1, <1>2, <2>1
<1>4. PICK m \in L : \A k \in L : m =< k
  <2>1. L \in SUBSET Nat /\ L # {}
    BY <1>1, <1>3
  <2>. QED
    BY <2>1, LeastNumber
<1>5. PICK n \in H : \A k \in H : n =< k
  <2>1. H \in SUBSET Nat /\ H # {}
    BY <1>2, <1>3
  <2>. QED
    BY <2>1, LeastNumber
<1>6. m \in Nat /\ n \in Nat /\ t - m \in B /\ t + 1 + n \in B
  BY <1>1, <1>2
<1>7. ASSUME NEW c \in B PROVE c =< t - m \/ t + 1 + n =< c
  <2>1. CASE c =< t
    <3>1. t - c \in Nat /\ t - (t - c) = c
      BY <2>1
    <3>2. m =< t - c
      BY <1>1, <1>4, <3>1
    <3>. QED
      BY <1>6, <3>2
  <2>2. CASE c > t
    <3>1. c - (t + 1) \in Nat /\ t + 1 + (c - (t + 1)) = c
      BY <2>2
    <3>2. n =< c - (t + 1)
      BY <1>2, <1>5, <3>1
    <3>. QED
      BY <1>6, <3>2
  <2>. QED
    BY <2>1, <2>2
<1>8. PICK g : g = <<t - m, t + 1 + n>>
  OBVIOUS
<1>9. g \in B \X B /\ g[1] = t - m /\ g[2] = t + 1 + n
  BY <1>6, <1>8
<1>10. g \in Edit!Segments(B)
  BY <1>6, <1>7, <1>9 DEF Edit!Segments
<1>. QED
  BY <1>6, <1>9, <1>10

LEMMA MaxOfTwo ==
  ASSUME NEW a \in Int, NEW b \in Int
  PROVE  Edit!Max({a, b}) \in Int /\ Edit!Min({a, b}) \in Int
<1>1. \E x \in {a, b} : \A y \in {a, b} : x >= y
  OBVIOUS
<1>2. \E x \in {a, b} : \A y \in {a, b} : x =< y
  OBVIOUS
<1>. QED
  BY <1>1, <1>2 DEF Edit!Max, Edit!Min

\* The publication checks the segments; that covers every instant.
LEMMA SegmentsCover ==
  ASSUME Edit!EditingAssumption, EdtTypes, NEW s \in Edit!Schedules, Edit!DemandIsCovered(s)
  PROVE  Edit!Covered(s)
<1>1. SUFFICES ASSUME NEW w \in edtSchedule[s].demand, NEW t \in w.start .. w.end - 1
      PROVE  \E i \in Edit!Of(s) : /\ edtShift[i].user # None /\ t \notin edtShift[i].breaks
                                   /\ edtShift[i].start =< t /\ t < edtShift[i].end
  BY DEF Edit!Covered
<1>2. w.start \in Int /\ w.end \in Int
  <2>1. w \in EdtDemands
    BY DEF EdtTypes, EdtRowTypes, ScheduleRows
  <2>. QED
    BY <2>1 DEF Edit!EditingAssumption
<1>3. t \in Int /\ w.start =< t /\ t < w.end
  BY <1>1, <1>2
<1>4. PICK B : B = Edit!CoverageBoundaries(s, w)
  OBVIOUS
<1>5. B \in SUBSET Int /\ w.start \in B /\ w.end \in B
  <2>1. ASSUME NEW i \in Edit!Shifts
        PROVE  edtShift[i].start \in Int /\ edtShift[i].end \in Int /\ edtShift[i].breaks \subseteq Int
    BY DEF EdtTypes, EdtRowTypes, ShiftRows
  <2>2. PICK E : E = {x \in UNION {{[start |-> edtShift[i].start, end |-> edtShift[i].end]} \cup
                                   {[start |-> b, end |-> b + 1] : b \in edtShift[i].breaks} :
                                      i \in {k \in Edit!Assigned(s) : Edit!Overlaps(edtShift[k], w)}} :
                        Edit!Overlaps(x, w)}
    OBVIOUS
  <2>3. Edit!Assigned(s) \subseteq Edit!Shifts
    BY DEF Edit!Assigned, Edit!Of, Edit!Live
  <2>4. \A e \in E : e.start \in Int /\ e.end \in Int
    BY <2>1, <2>2, <2>3
  <2>5. B = {w.start, w.end} \cup UNION {{Edit!Max({w.start, e.start}), Edit!Min({w.end, e.end})} : e \in E}
    BY <1>4, <2>2 DEF Edit!CoverageBoundaries
  <2>6. \A e \in E : Edit!Max({w.start, e.start}) \in Int /\ Edit!Min({w.end, e.end}) \in Int
    BY <1>2, <2>4, MaxOfTwo
  <2>7. PICK U : U = UNION {{Edit!Max({w.start, e.start}), Edit!Min({w.end, e.end})} : e \in E}
    OBVIOUS
  <2>8. ASSUME NEW x \in U PROVE x \in Int
    <3>1. PICK e \in E : x \in {Edit!Max({w.start, e.start}), Edit!Min({w.end, e.end})}
      BY <2>7
    <3>. QED
      BY <2>6, <3>1
  <2>9. B = {w.start, w.end} \cup U
    BY <2>5, <2>7
  <2>. QED
    BY <1>2, <2>8, <2>9
<1>6. PICK g \in Edit!Segments(B) : g[1] =< t /\ t < g[2] /\ g[1] \in Int /\ g[2] \in Int
  BY <1>3, <1>5, SegmentAround
<1>7. PICK i \in Edit!Assigned(s) : Edit!Working(edtShift[i], g[1], g[2])
  BY <1>4, <1>6 DEF Edit!DemandIsCovered
<1>8. i \in Edit!Of(s) /\ edtShift[i].user # None /\ i \in Edit!Shifts
  BY DEF Edit!Assigned, Edit!Of, Edit!Live
<1>9. edtShift[i].start \in Int /\ edtShift[i].end \in Int
  BY <1>8 DEF EdtTypes, EdtRowTypes, ShiftRows
<1>10. edtShift[i].start =< g[1] /\ g[2] =< edtShift[i].end
       /\ \A k \in edtShift[i].breaks : ~(k < g[2] /\ g[1] < k + 1)
  BY <1>7 DEF Edit!Working
<1>11. t \notin edtShift[i].breaks
  BY <1>3, <1>6, <1>10
<1>12. edtShift[i].start =< t /\ t < edtShift[i].end
  BY <1>3, <1>6, <1>9, <1>10
<1>. QED
  BY <1>8, <1>11, <1>12

LEMMA PublishGoal ==
  ASSUME Edit!EditingAssumption, EdtInv, NEW c \in EdtClients, NEW s \in Edit!Schedules, Edit!Publish(c, s)
  PROVE  Goal
<1>1. /\ Edit!Draft(s) /\ Edit!ContractMatches(c, s) /\ edtCredits >= Edit!Price /\ edtCredits' = edtCredits - Edit!Price
      /\ edtSchedule' = [edtSchedule EXCEPT ![s].status = "PUBLISHED"]
      /\ edtAnnounced' = edtAnnounced \cup {<<s, edtSchedule[s].revision, edtShift[i].user>> : i \in Edit!Assigned(s)}
      /\ edtEdition' = [edtEdition EXCEPT ![s] = edtContract[c].content]
      /\ UNCHANGED <<edtShift, edtPerson, edtClosed, edtHooks, edtBoard, edtContract, edtSolve>>
  BY DEF Edit!Publish
<1>2. /\ edtSchedule' \in [Edit!Schedules -> ScheduleRows] /\ edtSchedule'[s].status = "PUBLISHED"
      /\ SameWindow(s) /\ edtSchedule'[s].revision = edtSchedule[s].revision
      /\ edtSchedule'[s].demand = edtSchedule[s].demand /\ edtSchedule'[s].limit = edtSchedule[s].limit
      /\ \A t \in Edit!Schedules \ {s} : edtSchedule'[t] = edtSchedule[t]
  <2>1. EdtTypes /\ "PUBLISHED" \in Statuses
    BY DEF EdtInv, Statuses
  <2>. QED
    BY <1>1, <2>1, StatusValue
<1>3. edtCredits \in Nat /\ Edit!Price \in Nat
  BY PriceType DEF EdtInv, EdtTypes, WorldTypes
<1>4. edtCredits' \in Nat /\ edtCredits - edtCredits' = edtContract[c].price
  BY <1>1, <1>3 DEF Edit!ContractMatches
<1>5. DOMAIN edtEdition' = Edit!Schedules /\ edtEdition'[s] = edtContract[c].content
      /\ \A t \in Edit!Schedules \ {s} : edtEdition'[t] = edtEdition[t]
  BY <1>1 DEF EdtInv, EdtTypes, WorldTypes
<1>6. edtAnnounced' \subseteq Edit!Schedules \X Nat \X EdtUsers
  <2>1. edtSchedule[s].revision \in Nat
    BY DEF EdtInv, EdtTypes, EdtRowTypes, ScheduleRows
  <2>2. \A i \in Edit!Assigned(s) : edtShift[i].user \in EdtUsers
    BY DEF Edit!Assigned, Edit!Of, Edit!Live, EdtInv, EdtTypes, EdtRowTypes, ShiftRows, Edit!Assignees
  <2>3. edtAnnounced \subseteq Edit!Schedules \X Nat \X EdtUsers
    BY DEF EdtInv, EdtTypes, WorldTypes
  <2>. QED
    BY <1>1, <2>1, <2>2, <2>3
<1>7. EdtTypes'
  BY <1>1, <1>2, <1>4, <1>5, <1>6 DEF EdtInv, EdtTypes, EdtRowTypes, WorldTypes, ContractTypes
<1>8. Issued(s)
  <2>1. SameRows(s)
    BY <1>1 DEF SameRows
  <2>2. \A i \in Edit!Assigned(s) : /\ <<s, edtSchedule[s].revision, edtShift[i].user>> \in edtAnnounced'
                                    /\ Edit!Hours(edtShift[i].user, Edit!Schedules) =< edtSchedule[s].limit
    BY <1>1 DEF Edit!Publish, Edit!WithinMaxHours
  <2>3. edtContract[c].sched = s /\ edtContract[c].revision = edtSchedule[s].revision
    BY <1>1 DEF Edit!ContractMatches
  <2>4. Edit!Covered(s) /\ \A i \in Edit!Of(s) : Edit!HasRequiredBreaks(edtShift[i])
    BY SegmentsCover DEF Edit!Publish, Edit!PublishableShifts, EdtInv
  <2>. QED
    BY <1>1, <1>2, <1>4, <1>5, <2>1, <2>2, <2>3, <2>4 DEF Issued
<1>9. Step
  <2>1. EdtMoves(s) /\ ~Born(s)
    BY <1>1, <1>8 DEF EdtMoves, Born, Edit!Draft
  <2>. QED
    BY <1>1, <1>2, <1>5, <2>1, OneSchedule
<1>10. Notifies
  <2>1. SUFFICES ASSUME NEW a \in edtAnnounced', a \notin edtAnnounced
                 PROVE  Issued(a[1]) /\ a[2] = edtSchedule[a[1]].revision
    BY DEF Notifies
  <2>2. PICK i \in Edit!Assigned(s) : a = <<s, edtSchedule[s].revision, edtShift[i].user>>
    BY <1>1, <2>1
  <2>3. a[1] = s /\ a[2] = edtSchedule[s].revision
    BY <2>2
  <2>. QED
    BY <1>8, <2>3
<1>. QED
  BY <1>1, <1>7, <1>9, <1>10 DEF Goal
-----------------------------------------------------------------------------
(* Steps that leave the rows alone. *)

LEMMA CalmStep ==
  ASSUME UNCHANGED <<edtSchedule, edtShift, edtEdition>>
  PROVE  Step
<1>1. \A s \in Edit!Schedules : Rests(s) /\ ~Born(s)
  BY DEF Rests, SameRows, Born
<1>2. \A i \in Edit!Shifts : Stays(i)
  BY DEF Stays
<1>. QED
  BY <1>1, <1>2 DEF Step, EdtMoves

LEMMA ReadScheduleGoal ==
  ASSUME Edit!EditingAssumption, EdtInv, NEW c \in EdtClients, NEW s \in Edit!Schedules, Edit!ReadSchedule(c, s)
  PROVE  Goal
<1>1. PICK b : b = [Edit!NoBoard EXCEPT !.sched = s, !.revision = edtSchedule[s].revision]
  OBVIOUS
<1>2. edtSchedule[s].revision \in Nat
  BY DEF EdtInv, EdtTypes, EdtRowTypes, ScheduleRows
<1>3. b \in BoardRows /\ b.sched = s /\ b.revision = edtSchedule[s].revision /\ ~b.read
  <2>1. b = [sched |-> s, revision |-> edtSchedule[s].revision, shifts |-> {}, without |-> {},
             read |-> FALSE]
    BY <1>1 DEF Edit!NoBoard
  <2>. QED
    BY <1>2, <2>1 DEF BoardRows
<1>4. /\ Edit!Exists(s) /\ edtBoard' = [edtBoard EXCEPT ![c] = b]
      /\ UNCHANGED <<edtSchedule, edtShift, edtPerson, edtClosed, edtHooks, edtCredits, edtContract, edtSolve,
                     edtAnnounced, edtEdition>>
  BY <1>1 DEF Edit!ReadSchedule
<1>5. edtBoard' \in [EdtClients -> BoardRows] /\ edtBoard'[c] = b
      /\ \A d \in EdtClients \ {c} : edtBoard'[d] = edtBoard[d]
  BY <1>3, <1>4 DEF EdtInv, EdtTypes, WorldTypes
<1>6. BoardOK(c)'
  BY <1>2, <1>3, <1>4, <1>5 DEF BoardOK, Edit!Exists
<1>7. EdtTypes'
  BY <1>4, <1>5 DEF EdtInv, EdtTypes, EdtRowTypes, WorldTypes, ContractTypes
<1>. QED
  BY <1>4, <1>5, <1>6, <1>7, CalmStep DEF Goal, Notifies

LEMMA ReadShiftsGoal ==
  ASSUME Edit!EditingAssumption, EdtInv, NEW c \in EdtClients, Edit!ReadShifts(c)
  PROVE  Goal
<1>1. PICK s : s = edtBoard[c].sched
  OBVIOUS
<1>2. PICK B : B = Edit!Shown(s, Edit!Hidden)
  OBVIOUS
<1>3. edtBoard \in [EdtClients -> BoardRows] /\ edtBoard[c] \in BoardRows
  BY DEF EdtInv, EdtTypes, WorldTypes
<1>4. B \in SUBSET (Edit!Shifts \X ShiftRows)
  BY <1>2 DEF Edit!Shown, Edit!Of, Edit!Live, EdtInv, EdtTypes, EdtRowTypes
<1>5. PICK b : b = [edtBoard[c] EXCEPT !.shifts = B, !.without = Edit!Hidden, !.read = TRUE]
  OBVIOUS
<1>6. /\ b \in BoardRows /\ b.sched = s /\ b.revision = edtBoard[c].revision
      /\ b.shifts = B /\ b.without = Edit!Hidden /\ b.read
  <2>1. edtBoard[c].sched \in {0} \cup Edit!Schedules /\ edtBoard[c].revision \in Nat
        /\ Edit!Hidden \in SUBSET EdtUsers
    BY <1>3 DEF BoardRows, Edit!Hidden
  <2>2. b = [sched |-> edtBoard[c].sched, revision |-> edtBoard[c].revision, shifts |-> B,
             without |-> Edit!Hidden, read |-> TRUE]
    BY <1>3, <1>5 DEF BoardRows
  <2>. QED
    BY <1>1, <1>4, <2>1, <2>2 DEF BoardRows
<1>7. /\ edtBoard' = [edtBoard EXCEPT ![c] = b] /\ s # 0
      /\ UNCHANGED <<edtSchedule, edtShift, edtPerson, edtClosed, edtHooks, edtCredits, edtContract, edtSolve,
                     edtAnnounced, edtEdition>>
  BY <1>1, <1>2, <1>3, <1>5 DEF Edit!ReadShifts
<1>8. edtBoard' \in [EdtClients -> BoardRows] /\ edtBoard'[c] = b
      /\ \A d \in EdtClients \ {c} : edtBoard'[d] = edtBoard[d]
  BY <1>3, <1>6, <1>7
<1>9. Edit!Shown(s, b.without)' = B
  BY <1>2, <1>6, <1>7 DEF Edit!Shown, Edit!Of, Edit!Live
<1>10. BoardOK(c)
  BY DEF EdtInv, Boards
<1>11. BoardOK(c)'
  BY <1>1, <1>6, <1>7, <1>8, <1>9, <1>10 DEF BoardOK
<1>12. EdtTypes'
  BY <1>7, <1>8 DEF EdtInv, EdtTypes, EdtRowTypes, WorldTypes, ContractTypes
<1>. QED
  BY <1>7, <1>8, <1>11, <1>12, CalmStep DEF Goal, Notifies

LEMMA PublishPreflightGoal ==
  ASSUME Edit!EditingAssumption, EdtInv, NEW c \in EdtClients, NEW s \in Edit!Schedules, Edit!PublishPreflight(c, s)
  PROVE  Goal
<1>1. PICK k : k = [sched |-> s, revision |-> edtSchedule[s].revision, price |-> Edit!Price,
                    content |-> Edit!Content(s)]
  OBVIOUS
<1>2. /\ Edit!Draft(s) /\ edtContract' = [edtContract EXCEPT ![c] = k]
      /\ UNCHANGED <<edtSchedule, edtShift, edtPerson, edtClosed, edtHooks, edtCredits, edtBoard, edtSolve, edtAnnounced,
                     edtEdition>>
  BY <1>1 DEF Edit!PublishPreflight
<1>3. edtSchedule[s].revision \in Nat
  BY DEF EdtInv, EdtTypes, EdtRowTypes, ScheduleRows
<1>4. k.sched = s /\ k.revision = edtSchedule[s].revision /\ k.content = Edit!Content(s)
  BY <1>1
<1>5. DOMAIN edtContract' = EdtClients /\ edtContract'[c] = k
      /\ \A d \in EdtClients \ {c} : edtContract'[d] = edtContract[d]
  BY <1>2 DEF EdtInv, EdtTypes, WorldTypes, ContractTypes
<1>6. Edit!Content(s)' = Edit!Content(s)
  BY <1>2 DEF Edit!Content, Edit!Of, Edit!Live
<1>7. ContractOK(c)'
  BY <1>2, <1>3, <1>4, <1>5, <1>6 DEF ContractOK, Edit!Draft
<1>8. ContractTypes'
  BY <1>3, <1>4, <1>5 DEF EdtInv, EdtTypes, WorldTypes, ContractTypes
<1>9. EdtTypes'
  BY <1>2, <1>8 DEF EdtInv, EdtTypes, EdtRowTypes, WorldTypes
<1>. QED
  BY <1>2, <1>5, <1>7, <1>9, CalmStep DEF Goal, Notifies

LEMMA CalmGoal ==
  ASSUME Edit!EditingAssumption, EdtInv,
         Edit!ToggleHook \/ (\E s \in Edit!Schedules : Edit!StartSolve(s) \/ Edit!FailSolve(s)) \/ UNCHANGED Edit!editVars
  PROVE  Goal
<1>1. UNCHANGED <<edtSchedule, edtShift, edtPerson, edtClosed, edtCredits, edtBoard, edtContract, edtAnnounced, edtEdition>>
  BY DEF Edit!ToggleHook, Edit!StartSolve, Edit!FailSolve, Edit!editVars
<1>2. edtHooks' \in {0, 1}
  BY DEF Edit!ToggleHook, Edit!StartSolve, Edit!FailSolve, Edit!editVars, EdtInv, EdtTypes, WorldTypes
<1>3. edtSolve' \in [Edit!Schedules -> Nat \cup {Edit!NoSolve}]
  <2>1. edtSolve \in [Edit!Schedules -> Nat \cup {Edit!NoSolve}]
        /\ \A s \in Edit!Schedules : edtSchedule[s].revision \in Nat
    BY DEF EdtInv, EdtTypes, EdtRowTypes, ScheduleRows, WorldTypes
  <2>2. ASSUME NEW s \in Edit!Schedules, Edit!StartSolve(s) PROVE edtSolve' \in [Edit!Schedules -> Nat \cup {Edit!NoSolve}]
    BY <2>1, <2>2 DEF Edit!StartSolve
  <2>3. ASSUME NEW s \in Edit!Schedules, Edit!FailSolve(s) PROVE edtSolve' \in [Edit!Schedules -> Nat \cup {Edit!NoSolve}]
    BY <2>1, <2>3 DEF Edit!FailSolve
  <2>. QED
    BY <2>1, <2>2, <2>3 DEF Edit!ToggleHook, Edit!editVars
<1>4. EdtTypes'
  BY <1>1, <1>2, <1>3 DEF EdtInv, EdtTypes, EdtRowTypes, WorldTypes, ContractTypes
<1>. QED
  BY <1>1, <1>4, CalmStep DEF Goal, Notifies

LEMMA ReinstateGoal ==
  ASSUME Edit!EditingAssumption, EdtInv, NEW u \in EdtUsers, Edit!Reinstate(u)
  PROVE  Goal
<1>1. /\ edtPerson' = [edtPerson EXCEPT ![u] = "eligible"]
      /\ UNCHANGED <<edtSchedule, edtShift, edtClosed, edtHooks, edtCredits, edtBoard, edtContract, edtSolve,
                     edtAnnounced, edtEdition>>
  BY DEF Edit!Reinstate
<1>2. edtPerson' \in [EdtUsers -> Edit!Person]
  BY <1>1 DEF EdtInv, EdtTypes, WorldTypes, Edit!Person
<1>3. EdtTypes'
  BY <1>1, <1>2 DEF EdtInv, EdtTypes, EdtRowTypes, WorldTypes, ContractTypes
<1>. QED
  BY <1>1, <1>3, CalmStep DEF Goal, Notifies

-----------------------------------------------------------------------------
(* All steps. *)

LEMMA ApplySomeGoal ==
  ASSUME Edit!EditingAssumption, EdtInv, NEW c \in EdtClients, NEW s \in Edit!Schedules, Edit!ApplySome(c, s)
  PROVE  Goal
<1>1. Edit!Of(s) \subseteq Edit!Shifts
  BY DEF Edit!Of, Edit!Live
<1>2. DOMAIN Edit!NoOps = {}
  BY DEF Edit!NoOps
<1>3. ASSUME NEW i \in Edit!Of(s), Edit!Apply(c, s, {i}, Edit!NoOps, Edit!NoOps) PROVE Goal
  <2>1. Request(s, {i}, Edit!NoOps, Edit!NoOps)
    BY <1>1, <1>2 DEF Request
  <2>. QED
    BY <1>3, <2>1, ApplyGoal
<1>4. ASSUME NEW i, NEW u \in Edit!Assignees, NEW w \in EdtSlots
      PROVE  /\ DOMAIN Edit!Asked(i, u, w) = {i}
             /\ \A k \in {i} : /\ Edit!Asked(i, u, w)[k].user \in Edit!Assignees
                               /\ Edit!Asked(i, u, w)[k].start \in Int /\ Edit!Asked(i, u, w)[k].end \in Int
  BY SlotTypes DEF Edit!Asked
<1>5. ASSUME NEW i \in Edit!Of(s), NEW u \in Edit!Assignees, NEW w \in EdtSlots,
             Edit!Apply(c, s, {}, Edit!Asked(i, u, w), Edit!NoOps)
      PROVE  Goal
  <2>1. Request(s, {}, Edit!Asked(i, u, w), Edit!NoOps)
    <3>1. PICK f : f = Edit!Asked(i, u, w)
      OBVIOUS
    <3>2. /\ DOMAIN f = {i}
          /\ \A k \in {i} : f[k].user \in Edit!Assignees /\ f[k].start \in Int /\ f[k].end \in Int
      BY <1>4, <3>1
    <3>. QED
      BY <1>2, <3>1, <3>2 DEF Request
  <2>. QED
    BY <1>5, <2>1, ApplyGoal
<1>6. ASSUME NEW i \in Edit!Shifts, NEW D \in {{}} \cup {{k} : k \in Edit!Of(s)}, NEW u \in Edit!Assignees,
             NEW w \in EdtSlots, Edit!Apply(c, s, D, Edit!NoOps, Edit!Asked(i, u, w))
      PROVE  Goal
  <2>1. D \subseteq Edit!Shifts
    BY <1>1
  <2>2. Request(s, D, Edit!NoOps, Edit!Asked(i, u, w))
    <3>1. PICK f : f = Edit!Asked(i, u, w)
      OBVIOUS
    <3>2. /\ DOMAIN f = {i}
          /\ \A k \in {i} : f[k].user \in Edit!Assignees /\ f[k].start \in Int /\ f[k].end \in Int
      BY <1>4, <3>1
    <3>. QED
      BY <1>2, <2>1, <3>1, <3>2 DEF Request
  <2>. QED
    BY <1>6, <2>2, ApplyGoal
<1>7. ASSUME NEW i \in Edit!Of(s), NEW j \in Edit!Of(s),
             Edit!Apply(c, s, {}, [k \in {i, j} |-> IF k = i THEN Edit!Kept(j) ELSE Edit!Kept(i)], Edit!NoOps)
      PROVE  Goal
  <2>1. PICK f : f = [k \in {i, j} |-> IF k = i THEN Edit!Kept(j) ELSE Edit!Kept(i)]
    OBVIOUS
  <2>2. \A k \in Edit!Of(s) : Edit!Kept(k).user \in Edit!Assignees /\ Edit!Kept(k).start \in Int /\ Edit!Kept(k).end \in Int
    BY <1>1 DEF Edit!Kept, EdtInv, EdtTypes, EdtRowTypes, ShiftRows
  <2>3. DOMAIN f = {i, j} /\ \A k \in {i, j} : f[k] = Edit!Kept(i) \/ f[k] = Edit!Kept(j)
    BY <2>1
  <2>4. Request(s, {}, f, Edit!NoOps)
    BY <1>2, <2>2, <2>3 DEF Request
  <2>5. Edit!Apply(c, s, {}, f, Edit!NoOps)
    BY <1>7, <2>1
  <2>. QED
    BY <2>4, <2>5, ApplyGoal
<1>. QED
  BY <1>3, <1>5, <1>6, <1>7 DEF Edit!ApplySome

LEMMA NextGoal ==
  ASSUME Edit!EditingAssumption, EdtInv, [Edit!Next]_(Edit!editVars)
  PROVE  Goal
<1>1. CASE Edit!EditShifts
  <2>1. ASSUME NEW i \in Edit!Shifts, NEW b \in edtShift[i].start .. edtShift[i].end - 1,
               Edit!ReplaceBreaks(i, {b})
        PROVE  Goal
    <3>1. b \in Int
      BY DEF EdtInv, EdtTypes, EdtRowTypes, ShiftRows
    <3>. QED
      BY <2>1, <3>1, ReplaceBreaksGoal
  <2>2. ASSUME NEW i \in Edit!Shifts, NEW j \in Edit!Shifts, NEW f \in [{i, j} -> Edit!Assignees], Edit!BulkAssign(f)
        PROVE  Goal
    <3>1. {i, j} \in SUBSET Edit!Shifts
      OBVIOUS
    <3>. QED
      BY <2>2, <3>1, BulkAssignGoal
  <2>. QED
    BY <1>1, <2>1, <2>2, CreateShiftGoal, CreateShiftAndDraftGoal, UpdateShiftGoal,
       RemoveShiftGoal
    DEF Edit!EditShifts
<1>2. CASE Edit!EditSchedules
  BY <1>2, CreateScheduleGoal, ReplaceDemandGoal, RemoveScheduleGoal, ReopenGoal, CalmGoal,
     FinishSolveGoal
  DEF Edit!EditSchedules
<1>3. CASE Edit!UseBoards
  BY <1>3, ReadShiftsGoal, ReadScheduleGoal, ApplySomeGoal, ReopenSeenGoal,
     PublishPreflightGoal, PublishGoal, ReplaceGoal
  DEF Edit!UseBoards
<1>. QED
  BY <1>1, <1>2, <1>3, DeactivateGoal, ReinstateGoal, RemoveLocationGoal, CalmGoal
  DEF Edit!Next, Edit!Person

LEMMA DayStarts ==
  ASSUME NEW k \in Nat, NEW D \in Nat \ {0}
  PROVE  (k * D) \div D = k
<1>1. PICK q : q = (k * D) \div D
  OBVIOUS
<1>2. q \in Int /\ D * q =< k * D /\ k * D < D * q + D
  BY <1>1
<1>3. CASE q < k
  <2>1. PICK m \in Nat : k = q + 1 + m
    BY <1>2, <1>3
  <2>2. k * D = D * q + D + m * D
    BY <1>2, <2>1
  <2>3. m * D >= 0
    OBVIOUS
  <2>. QED
    BY <1>2, <2>2, <2>3
<1>4. CASE q > k
  <2>1. PICK m \in Nat : q = k + 1 + m
    BY <1>2, <1>4
  <2>2. D * q = k * D + D + m * D
    BY <1>2, <2>1
  <2>3. m * D >= 0
    OBVIOUS
  <2>. QED
    BY <1>2, <2>2, <2>3
<1>. QED
  BY <1>1, <1>2, <1>3, <1>4

LEMMA EdtInitInv ==
  ASSUME Edit!EditingAssumption, Edit!Init
  PROVE  EdtInv
<1>1. PICK l \in EdtLocations :
        edtSchedule = [s \in Edit!Schedules |->
            IF s - 1 \in EdtDrafts THEN Edit!NewSchedule(l, Edit!Day((s - 1) * EdtDayLength)) ELSE Edit!NoSchedule]
  BY DEF Edit!Init
<1>2. EdtDayLength \in Nat \ {0}
  BY DEF Edit!EditingAssumption
<1>3. ASSUME NEW s \in Edit!Schedules
      PROVE  /\ edtSchedule[s] \in ScheduleRows /\ edtSchedule[s].status \in {"none", "DRAFT"}
             /\ Edit!Exists(s) => /\ edtSchedule[s].start = (s - 1) * EdtDayLength
                                  /\ edtSchedule[s].end = s * EdtDayLength
  <2>1. s \in Nat /\ s - 1 \in Nat
    BY DEF Edit!Schedules, Edit!EditingAssumption
  <2>2. (s - 1) * EdtDayLength \in Nat /\ s * EdtDayLength \in Nat
    BY <1>2, <2>1
  <2>3. PICK w : w = Edit!Day((s - 1) * EdtDayLength)
    OBVIOUS
  <2>4. w.start = (s - 1) * EdtDayLength /\ w.end = s * EdtDayLength
    <3>1. ((s - 1) * EdtDayLength) \div EdtDayLength = s - 1
      BY <1>2, <2>1, DayStarts
    <3>2. (s - 1) + 1 = s
      BY <2>1
    <3>. QED
      BY <2>3, <3>1, <3>2 DEF Edit!Day
  <2>5. /\ Edit!NewSchedule(l, w) \in ScheduleRows /\ Edit!NewSchedule(l, w).status = "DRAFT"
        /\ Edit!NewSchedule(l, w).start = w.start /\ Edit!NewSchedule(l, w).end = w.end
    <3>1. w.start \in Int /\ w.end \in Int
      BY <2>2, <2>4
    <3>. QED
      BY <3>1, NewScheduleValue
  <2>6. Edit!NoSchedule \in ScheduleRows /\ Edit!NoSchedule.status = "none"
    BY DEF Edit!NoSchedule, ScheduleRows, Statuses, Edit!EditingAssumption
  <2>7. CASE s - 1 \in EdtDrafts
    <3>1. edtSchedule[s] = Edit!NewSchedule(l, w)
      BY <1>1, <2>3, <2>7
    <3>. QED
      BY <2>4, <2>5, <3>1
  <2>8. CASE s - 1 \notin EdtDrafts
    <3>1. edtSchedule[s] = Edit!NoSchedule
      BY <1>1, <2>8
    <3>. QED
      BY <2>6, <3>1 DEF Edit!Exists
  <2>. QED
    BY <2>7, <2>8
<1>4. Edit!NoShift \in ShiftRows /\ Edit!NoShift.sched = 0
  BY DEF Edit!NoShift, ShiftRows, Edit!Assignees
<1>5. EdtRowTypes /\ \A i \in Edit!Shifts : edtShift[i].sched = 0
  BY <1>1, <1>3, <1>4 DEF Edit!Init, EdtRowTypes
<1>6. Edit!NoBoard \in BoardRows /\ Edit!NoBoard.sched = 0
  BY DEF Edit!NoBoard, BoardRows
<1>7. Edit!NoContract.sched = 0 /\ Edit!NoContract.revision = 0
  BY DEF Edit!NoContract
<1>8. WorldTypes
  BY <1>6, <1>7 DEF Edit!Init, WorldTypes, ContractTypes, Edit!EditingAssumption, Edit!Person
<1>9. Tiled
  <2>1. SUFFICES ASSUME NEW s \in Edit!Schedules, NEW t \in Edit!Schedules, s # t, Edit!Exists(s), Edit!Exists(t)
                 PROVE  ~Edit!Overlaps(edtSchedule[s], edtSchedule[t])
    BY DEF Tiled, Apart
  <2>2. /\ edtSchedule[s].start = (s - 1) * EdtDayLength /\ edtSchedule[s].end = s * EdtDayLength
        /\ edtSchedule[t].start = (t - 1) * EdtDayLength /\ edtSchedule[t].end = t * EdtDayLength
    BY <1>3, <2>1
  <2>3. s \in Int /\ t \in Int
    BY DEF Edit!Schedules
  <2>4. \A a, b \in Int : a =< b => a * EdtDayLength =< b * EdtDayLength
    <3>1. SUFFICES ASSUME NEW a \in Int, NEW b \in Int, a =< b
                   PROVE  a * EdtDayLength =< b * EdtDayLength
      OBVIOUS
    <3>2. PICK m \in Nat : b = a + m
      BY <3>1
    <3>3. b * EdtDayLength = a * EdtDayLength + m * EdtDayLength /\ m * EdtDayLength >= 0
      BY <1>2, <3>2
    <3>. QED
      BY <1>2, <3>3
  <2>5. CASE s < t
    <3>1. s * EdtDayLength =< (t - 1) * EdtDayLength
      BY <2>3, <2>4, <2>5
    <3>2. s * EdtDayLength \in Int /\ (t - 1) * EdtDayLength \in Int
      BY <1>2, <2>3
    <3>. QED
      BY <2>2, <3>1, <3>2 DEF Edit!Overlaps
  <2>6. CASE t < s
    <3>1. t * EdtDayLength =< (s - 1) * EdtDayLength
      BY <2>3, <2>4, <2>6
    <3>2. t * EdtDayLength \in Int /\ (s - 1) * EdtDayLength \in Int
      BY <1>2, <2>3
    <3>. QED
      BY <2>2, <3>1, <3>2 DEF Edit!Overlaps
  <2>. QED
    BY <2>1, <2>3, <2>5, <2>6
<1>10. Rows /\ Apiece
  BY <1>5 DEF Rows, Apiece, Alone, Clash
<1>11. Boards /\ Contracts /\ Announced
  BY <1>6, <1>7 DEF Edit!Init, Boards, BoardOK, Contracts, ContractOK, Announced
<1>12. Edit!PublishedAsConfirmed
  BY <1>3 DEF Edit!PublishedAsConfirmed
<1>13. Manned /\ Loads
  <2>1. Edit!Published = {}
    BY <1>3 DEF Edit!Published
  <2>2. \A u \in EdtUsers : Edit!Worked(u, {}) = {}
    BY DEF Edit!Worked
  <2>. QED
    BY <2>1, <2>2 DEF Manned, Loads, Light
<1>. QED
  BY <1>5, <1>8, <1>9, <1>10, <1>11, <1>12, <1>13 DEF EdtInv, EdtTypes

-----------------------------------------------------------------------------
(* Theorems. *)

\* The invariant that the results rest on.
THEOREM EdtInvariance ==
  ASSUME Edit!EditingAssumption
  PROVE  Edit!Spec => []EdtInv
<1>1. Edit!Init => EdtInv
  BY EdtInitInv
<1>2. EdtInv /\ [Edit!Next]_(Edit!editVars) => EdtInv'
  BY NextGoal, GoalKeeps
<1>. QED
  BY <1>1, <1>2, PTL DEF Edit!Spec

\* Every row and every board keeps its type.
THEOREM EditingTypeCorrect ==
  ASSUME Edit!EditingAssumption
  PROVE  Edit!Spec => []Edit!TypeOK
<1>1. EdtInv => Edit!TypeOK
  <2>1. SUFFICES ASSUME EdtInv PROVE Edit!TypeOK
    OBVIOUS
  <2>2. \A s \in Edit!Schedules : edtSchedule[s].status \in Statuses
    BY <2>1 DEF EdtInv, EdtTypes, EdtRowTypes, ScheduleRows
  <2>3. \A i \in Edit!Shifts : edtShift[i].sched \in {0} \cup Edit!Schedules /\ edtShift[i].user \in Edit!Assignees
    BY <2>1 DEF EdtInv, EdtTypes, EdtRowTypes, ShiftRows
  <2>. QED
    BY <2>1, <2>2, <2>3 DEF Edit!TypeOK, Statuses, EdtInv, EdtTypes, WorldTypes
<1>. QED
  BY <1>1, EdtInvariance, PTL

\* However managers, clients and the solver race, nobody is assigned to two
\* shifts at a time.
THEOREM NobodyWorksTwice ==
  ASSUME Edit!EditingAssumption
  PROVE  Edit!Spec => []Edit!NobodyIsDoubleBooked
<1>1. EdtInv => Edit!NobodyIsDoubleBooked
  BY DEF EdtInv, Apiece, Alone, Clash, Edit!NobodyIsDoubleBooked, Edit!Live
<1>. QED
  BY <1>1, EdtInvariance, PTL

\* Schedules of a location lie apart, and every shift with its breaks lies in
\* the schedule it belongs to.
THEOREM RowsAlwaysFit ==
  ASSUME Edit!EditingAssumption
  PROVE  Edit!Spec => []Edit!RowsFit
<1>1. EdtInv => Edit!RowsFit
  BY DEF EdtInv, Tiled, Apart, Rows, Seated, Edit!RowsFit, Edit!Live
<1>. QED
  BY <1>1, EdtInvariance, PTL

\* Who names the current revision has seen the current shifts, apart from those
\* of the users that were hidden when the board was read.
THEOREM RevisionsNameContents ==
  ASSUME Edit!EditingAssumption
  PROVE  Edit!Spec => []Edit!RevisionNamesContent
<1>1. EdtInv => Edit!RevisionNamesContent
  <2>1. SUFFICES ASSUME EdtInv, NEW c \in EdtClients, NEW s \in Edit!Schedules, Edit!Exists(s), Edit!IfMatch(c, s)
                 PROVE  edtBoard[c].shifts = Edit!Shown(s, edtBoard[c].without)
    BY DEF Edit!RevisionNamesContent
  <2>2. s # 0
    BY DEF Edit!Schedules
  <2>3. edtBoard[c].sched = s /\ edtBoard[c].read /\ edtBoard[c].revision = edtSchedule[s].revision
    BY <2>1 DEF Edit!IfMatch
  <2>4. BoardOK(c)
    BY <2>1 DEF EdtInv, Boards
  <2>. QED
    BY <2>1, <2>2, <2>3, <2>4 DEF BoardOK
<1>. QED
  BY <1>1, EdtInvariance, PTL

\* What is published is what was confirmed.
THEOREM PublishedIsConfirmed ==
  ASSUME Edit!EditingAssumption
  PROVE  Edit!Spec => []Edit!PublishedAsConfirmed
<1>1. EdtInv => Edit!PublishedAsConfirmed
  BY DEF EdtInv
<1>. QED
  BY <1>1, EdtInvariance, PTL

\* What is published can be worked: its demand is covered at every instant, long
\* shifts have their lunch, and nobody works more published hours than one of
\* the schedules they work in allows.
THEOREM PublishedCanBeWorked ==
  ASSUME Edit!EditingAssumption
  PROVE  Edit!Spec => []Edit!PublishedIsWorkable
<1>1. EdtInv => Edit!PublishedIsWorkable
  BY DEF EdtInv, Manned, Loads, Light, WorksIn, Edit!PublishedIsWorkable
<1>. QED
  BY <1>1, EdtInvariance, PTL

\* A publication costs what was confirmed and is announced to everybody it
\* assigns, as something new.
THEOREM PublicationsAreAnnounced ==
  ASSUME Edit!EditingAssumption
  PROVE  Edit!Spec => Edit!PublicationIsAnnounced
<1>1. ASSUME EdtInv, [Edit!Next]_(Edit!editVars) PROVE Edit!Announces
  <2>1. SUFFICES ASSUME NEW s \in Edit!Schedules, edtSchedule[s].status = "DRAFT",
                        edtSchedule'[s].status = "PUBLISHED"
                 PROVE  /\ \A i \in Edit!Assigned(s) :
                              <<s, edtSchedule[s].revision, edtShift[i].user>> \in edtAnnounced' \ edtAnnounced
                        /\ \E c \in EdtClients : edtCredits - edtCredits' = edtContract[c].price
    BY DEF Edit!Announces
  <2>2. EdtMoves(s)
    BY <1>1, NextGoal DEF Goal, Step
  <2>3. Issued(s)
    BY <2>1, <2>2 DEF EdtMoves, Rests, Revised, Withdrawn, Removed, Born
  <2>4. ASSUME NEW u PROVE <<s, edtSchedule[s].revision, u>> \notin edtAnnounced
    <3>1. SUFFICES ASSUME <<s, edtSchedule[s].revision, u>> \in edtAnnounced PROVE FALSE
      OBVIOUS
    <3>2. edtSchedule[s].revision < edtSchedule[s].revision
      BY <1>1, <2>1, <3>1 DEF EdtInv, Announced, Edit!Draft
    <3>3. edtSchedule[s].revision \in Nat
      BY <1>1 DEF EdtInv, EdtTypes, EdtRowTypes, ScheduleRows
    <3>. QED
      BY <3>2, <3>3
  <2>. QED
    BY <2>3, <2>4 DEF Issued
<1>2. EdtInv /\ [Edit!Next]_(Edit!editVars) => [Edit!Announces]_(Edit!editVars)
  BY <1>1
<1>. QED
  BY <1>2, EdtInvariance, PTL DEF Edit!Spec, Edit!PublicationIsAnnounced

-----------------------------------------------------------------------------
(* Exports of an account. *)

LEMMA ExportCardinality == \A S : Export!Cardinality(S) = Cardinality(S)
BY DEF Export!Cardinality, Cardinality

(* The inductive invariant. *)

States == {"none", "QUEUED", "RUNNING", "READY", "FAILED", "EXPIRED", "purged"}
Tokens == 0 .. ExportMaxAttempts
Bytes == 0 .. ExportMaxArtifact
Row == [state : States, token : Tokens, lease : BOOLEAN, attempts : Tokens,
        key : Tokens, bytes : Bytes, cleanup : {"NONE", "PENDING", "COMPLETE"},
        owner : ExportProcs \cup {None}, ownerLease : BOOLEAN]

Claims == Export!Jobs \X (1 .. ExportMaxAttempts)
FileSet == [job : Export!Jobs, token : 1 .. ExportMaxAttempts, name : {"final", "part"}]

\* The phases of a claim, and those in which its file is complete
Done == {"written", "renewed", "renamed"}
Held == Done \cup {"claimed", "locking", "writing", "closing", "failing", "own"}
Phases == Held \cup {"idle", "cleaning", "half", "sweeping"}
Places == 0 .. ExportNumJobs
Proc == [phase : Phases, job : Places, token : Tokens, owns : BOOLEAN,
         size : Bytes, todo : SUBSET Export!Jobs, ok : BOOLEAN,
         spared : SUBSET FileSet, old : SUBSET Claims]

ExportTypes ==
    /\ exportJob \in [Export!Jobs -> Row] /\ exportExpired \in [Export!Jobs -> BOOLEAN]
    /\ exportFiles \in SUBSET FileSet /\ exportWhole \in SUBSET Claims /\ exportAged \in SUBSET Claims
    /\ exportProc \in [ExportProcs -> Proc]

\* What a row says of itself: only an export whose files may exist has a token
\* or a key, and then it books storage.
ExportRowOK(r) ==
    /\ r.state \in {"none", "QUEUED", "RUNNING"} => r.key = 0 /\ r.cleanup = "NONE"
    /\ r.state = "RUNNING" => r.token # 0 /\ r.bytes = ExportMaxArtifact
    /\ r.state = "READY" => r.key # 0 /\ r.cleanup = "NONE"
    /\ r.token # 0 \/ r.key # 0 => r.bytes > 0
    /\ r.cleanup = "COMPLETE" => r.bytes = 0 /\ r.token = 0 /\ r.key = 0
    /\ r.token =< r.attempts
    /\ r.state = "purged" => r.cleanup = "NONE"
ExportRowsOK == \A j \in Export!Jobs : ExportRowOK(exportJob[j])

\* The claim t of the export j writes its artifact, or has finished it.
Current(j, t) ==
    \/ exportJob[j].state = "RUNNING" /\ exportJob[j].token = t
    \/ exportJob[j].state = "READY" /\ exportJob[j].key = t

\* What a replica knows: the number of its claim was given out, a complete file
\* is whole, a renamed one is there while its claim is current, a cleanup
\* between its deletions has its row, and a sweep spares what is current.
ProcOK(q) ==
    /\ q.phase \in Held => /\ q.job \in Export!Jobs /\ q.token \in 1 .. ExportMaxAttempts
                           /\ exportJob[q.job].state # "purged" => q.token =< exportJob[q.job].attempts
    /\ q.phase \in Done => q.size \in ExportSizes /\ <<q.job, q.token>> \in exportWhole
    /\ q.phase = "renamed" /\ Current(q.job, q.token) => Export!File(q.job, q.token, "final") \in exportFiles
    /\ q.phase = "half" => q.job \in Export!Jobs /\ exportJob[q.job].cleanup = "PENDING"
    /\ q.phase = "sweeping" =>
          \A j \in Export!Jobs, t \in 1 .. ExportMaxAttempts : <<j, t>> \in q.old =>
              exportExpired[j] /\ (Current(j, t) => Export!File(j, t, "final") \in q.spared)
ProcsOK == \A p \in ExportProcs : ProcOK(exportProc[p])

OneHalf == \A p, q \in ExportProcs : exportProc[p].phase = "half" /\ exportProc[q].phase = "half" => p = q

\* Only files of expired exports are old.
AgesOK == \A j \in Export!Jobs, t \in 1 .. ExportMaxAttempts : <<j, t>> \in exportAged => exportExpired[j]

ReadyOK == \A j \in Export!Jobs : exportJob[j].state = "READY" =>
    Export!File(j, exportJob[j].key, "final") \in exportFiles /\ <<j, exportJob[j].key>> \in exportWhole

Quotas ==
    /\ Export!Used(Export!Jobs) =< ExportGlobalQuota
    /\ \A t \in ExportTenants : Export!Used({j \in Export!Jobs : ExportTenantOf[j] = t}) =< ExportTenantQuota

ExportInv ==
    /\ ExportTypes /\ ExportRowsOK /\ ProcsOK /\ OneHalf /\ AgesOK /\ ReadyOK /\ Quotas

LEMMA Values ==
    ASSUME Export!ExportAssumption
    PROVE  /\ Export!NoJob \in Row /\ ExportRowOK(Export!NoJob) /\ Export!NoJob.state = "none" /\ Export!NoJob.bytes = 0
           /\ Export!Idle \in Proc /\ Export!Idle.phase = "idle"
           /\ ExportSizes \subseteq 1 .. ExportMaxArtifact /\ ExportMaxArtifact \in Nat \ {0}
           /\ ExportNumJobs \in Nat /\ ExportMaxAttempts \in Nat
           /\ ExportGlobalQuota \in Nat /\ ExportTenantQuota \in Nat
           /\ ExportTenantOf \in [Export!Jobs -> ExportTenants] /\ Export!Jobs = 1 .. ExportNumJobs
           /\ 0 \in Tokens /\ 0 \in Bytes /\ ExportMaxArtifact \in Bytes /\ ExportSizes \subseteq Bytes
           /\ Tokens \subseteq Nat /\ Bytes \subseteq Nat /\ \A b \in Bytes : b =< ExportMaxArtifact
           /\ 1 .. ExportMaxAttempts \subseteq Tokens /\ \A t \in Tokens : t # 0 => t \in 1 .. ExportMaxAttempts
           /\ Export!Jobs \subseteq Places
<1>1. /\ ExportSizes \subseteq 1 .. ExportMaxArtifact /\ ExportMaxArtifact \in Nat \ {0}
      /\ ExportNumJobs \in Nat /\ ExportMaxAttempts \in Nat
      /\ ExportGlobalQuota \in Nat /\ ExportTenantQuota \in Nat
      /\ ExportTenantOf \in [Export!Jobs -> ExportTenants] /\ Export!Jobs = 1 .. ExportNumJobs
  BY DEF Export!ExportAssumption, Export!Jobs
<1>2. Export!NoJob \in Row /\ ExportRowOK(Export!NoJob) /\ Export!NoJob.state = "none" /\ Export!NoJob.bytes = 0
  BY <1>1 DEF Export!NoJob, Row, ExportRowOK, States, Tokens, Bytes
<1>3. Export!Idle \in Proc /\ Export!Idle.phase = "idle"
  BY <1>1 DEF Export!Idle, Proc, Phases, Places, Tokens, Bytes
<1>4. /\ 0 \in Tokens /\ 0 \in Bytes /\ ExportMaxArtifact \in Bytes /\ ExportSizes \subseteq Bytes
      /\ Tokens \subseteq Nat /\ Bytes \subseteq Nat /\ \A b \in Bytes : b =< ExportMaxArtifact
      /\ 1 .. ExportMaxAttempts \subseteq Tokens /\ \A t \in Tokens : t # 0 => t \in 1 .. ExportMaxAttempts
      /\ Export!Jobs \subseteq Places
  BY <1>1 DEF Tokens, Bytes, Places
<1> QED BY <1>1, <1>2, <1>3, <1>4

-----------------------------------------------------------------------------
(* Sums of booked bytes. *)

LEMMA BookedFinite ==
    ASSUME Export!ExportAssumption, NEW S \in SUBSET Export!Jobs
    PROVE  /\ IsFiniteSet(Export!Booked(S)) /\ Export!Used(S) \in Nat
           /\ IsFiniteSet(S \X (1 .. ExportMaxArtifact))
<1>1. IsFiniteSet(Export!Jobs) /\ IsFiniteSet(1 .. ExportMaxArtifact)
  BY Values, FS_Interval, 1 \in Int, ExportNumJobs \in Int, ExportMaxArtifact \in Int
<1>2. IsFiniteSet(S)
  BY <1>1, FS_Subset
<1>3. IsFiniteSet(S \X (1 .. ExportMaxArtifact))
  BY <1>1, <1>2, FS_Product
<1>4. Export!Booked(S) \in SUBSET (S \X (1 .. ExportMaxArtifact))
  BY DEF Export!Booked
<1>5. IsFiniteSet(Export!Booked(S))
  BY <1>3, <1>4, FS_Subset
<1> QED BY ExportCardinality, <1>3, <1>5, FS_CardinalityType DEF Export!Used

\* What books no more than before fits as before.
LEMMA QuotasShrink ==
    ASSUME Export!ExportAssumption, ExportTypes, ExportTypes', Quotas, \A j \in Export!Jobs : exportJob'[j].bytes =< exportJob[j].bytes
    PROVE  Quotas'
<1>1. ASSUME NEW S \in SUBSET Export!Jobs PROVE Export!Used(S)' =< Export!Used(S) /\ Export!Used(S) \in Nat /\ Export!Used(S)' \in Nat
  <2>1. Export!Booked(S)' \in SUBSET Export!Booked(S)
    <3> SUFFICES ASSUME NEW b \in S \X (1 .. ExportMaxArtifact), b[2] =< exportJob'[b[1]].bytes
                 PROVE  b[2] =< exportJob[b[1]].bytes
      BY DEF Export!Booked
    <3>1. PICK k \in S, n \in 1 .. ExportMaxArtifact : b = <<k, n>>
      OBVIOUS
    <3>2. k \in Export!Jobs /\ exportJob'[k].bytes \in Int /\ exportJob[k].bytes \in Int /\ n \in Int
      BY <1>1, Values DEF ExportTypes, Row
    <3> QED BY <3>1, <3>2
  <2>2. IsFiniteSet(Export!Booked(S)) /\ Export!Used(S) \in Nat
    BY BookedFinite
  <2>3. Cardinality(Export!Booked(S)') =< Cardinality(Export!Booked(S)) /\ IsFiniteSet(Export!Booked(S)')
    BY <2>1, <2>2, FS_Subset
  <2>4. Export!Used(S)' = Cardinality(Export!Booked(S)') /\ Export!Used(S) = Cardinality(Export!Booked(S))
    BY ExportCardinality DEF Export!Used
  <2> QED BY <2>2, <2>3, <2>4, FS_CardinalityType
<1>2. Export!Used(Export!Jobs)' =< ExportGlobalQuota
  <2>1. Export!Used(Export!Jobs)' =< Export!Used(Export!Jobs) /\ Export!Used(Export!Jobs) \in Nat /\ Export!Used(Export!Jobs)' \in Nat
    BY <1>1
  <2> QED BY <2>1, Values DEF Quotas
<1>3. ASSUME NEW t \in ExportTenants PROVE Export!Used({j \in Export!Jobs : ExportTenantOf[j] = t})' =< ExportTenantQuota
  <2>1. PICK S \in SUBSET Export!Jobs : S = {j \in Export!Jobs : ExportTenantOf[j] = t}
    OBVIOUS
  <2>2. Export!Used(S)' =< Export!Used(S) /\ Export!Used(S) \in Nat /\ Export!Used(S)' \in Nat
    BY <1>1
  <2>3. Export!Used({j \in Export!Jobs : ExportTenantOf[j] = t})' = Export!Used(S)'
    BY ExportCardinality, <2>1 DEF Export!Used, Export!Booked
  <2>4. Export!Used(S) =< ExportTenantQuota
    BY <2>1 DEF Quotas
  <2> QED BY <2>2, <2>3, <2>4, Values
<1> QED BY <1>2, <1>3 DEF Quotas

\* A claim books the largest artifact where it fits beside the others.
LEMMA ClaimFits ==
    ASSUME Export!ExportAssumption, ExportTypes, ExportTypes', ExportRowsOK, NEW j \in Export!Jobs, NEW S \in SUBSET Export!Jobs,
           \A k \in Export!Jobs \ {j} : exportJob'[k] = exportJob[k]
    PROVE  /\ j \in S => Export!Used(S)' =< Export!UsedByOthers(j, S) + ExportMaxArtifact
           /\ j \notin S => Export!Used(S)' = Export!Used(S)
           /\ Export!UsedByOthers(j, S) \in Nat /\ Export!Used(S)' \in Nat
<1>1. PICK R \in SUBSET Export!Jobs : R = {k \in S \ {j} : exportJob[k].cleanup # "COMPLETE"}
  OBVIOUS
<1>2. Export!UsedByOthers(j, S) = Cardinality(Export!Booked(R)) /\ IsFiniteSet(Export!Booked(R))
  BY ExportCardinality, <1>1, BookedFinite DEF Export!UsedByOthers, Export!Used
<1>3. PICK M : M = {j} \X (1 .. ExportMaxArtifact)
  OBVIOUS
<1>4. IsFiniteSet(M) /\ Cardinality(M) = ExportMaxArtifact
  <2>1. ExportMaxArtifact \in Int /\ 1 \in Int /\ ~(1 > ExportMaxArtifact) /\ ExportMaxArtifact - 1 + 1 = ExportMaxArtifact
    BY Values
  <2>2. IsFiniteSet(1 .. ExportMaxArtifact) /\ Cardinality(1 .. ExportMaxArtifact) = ExportMaxArtifact
    BY <2>1, FS_Interval
  <2>3. IsFiniteSet({j}) /\ Cardinality({j}) = 1
    BY FS_Singleton
  <2>4. PICK A, B : A = {j} /\ B = 1 .. ExportMaxArtifact
    OBVIOUS
  <2>5. IsFiniteSet(A) /\ IsFiniteSet(B) /\ Cardinality(A) = 1 /\ Cardinality(B) = ExportMaxArtifact /\ M = A \X B
    BY <1>3, <2>2, <2>3, <2>4
  <2>6. IsFiniteSet(A \X B) /\ Cardinality(A \X B) = Cardinality(A) * Cardinality(B)
    BY <2>5, FS_Product
  <2> QED BY <2>1, <2>5, <2>6
<1>5. Export!Booked(S)' \in SUBSET (Export!Booked(R) \cup M)
  <2> SUFFICES ASSUME NEW b \in S \X (1 .. ExportMaxArtifact), b[2] =< exportJob'[b[1]].bytes, b \notin M
               PROVE  b \in Export!Booked(R)
    BY DEF Export!Booked
  <2>1. PICK k \in S, n \in 1 .. ExportMaxArtifact : b = <<k, n>>
    OBVIOUS
  <2>2. k # j
    BY <1>3, <2>1
  <2>3. exportJob'[k] = exportJob[k] /\ ExportRowOK(exportJob[k]) /\ n > 0 /\ n =< exportJob[k].bytes
    BY <2>1, <2>2, Values DEF ExportRowsOK
  <2>4. exportJob[k].cleanup # "COMPLETE"
    BY <2>3, Values DEF ExportRowOK
  <2> QED BY <1>1, <2>1, <2>2, <2>3, <2>4 DEF Export!Booked
<1>6. /\ IsFiniteSet(Export!Booked(R) \cup M)
      /\ Cardinality(Export!Booked(R) \cup M) =< Cardinality(Export!Booked(R)) + Cardinality(M)
  <2>1. IsFiniteSet(Export!Booked(R) \cap M)
    BY <1>4, FS_Subset, Export!Booked(R) \cap M \in SUBSET M
  <2>2. /\ IsFiniteSet(Export!Booked(R) \cup M)
        /\ Cardinality(Export!Booked(R) \cup M)
             = Cardinality(Export!Booked(R)) + Cardinality(M) - Cardinality(Export!Booked(R) \cap M)
    BY <1>2, <1>4, FS_Union
  <2>3. /\ Cardinality(Export!Booked(R)) \in Nat /\ Cardinality(M) \in Nat
        /\ Cardinality(Export!Booked(R) \cap M) \in Nat
    BY <1>2, <1>4, <2>1, FS_CardinalityType
  <2> QED BY <2>2, <2>3
<1>7. IsFiniteSet(Export!Booked(S)') /\ Cardinality(Export!Booked(S)') =< Cardinality(Export!Booked(R) \cup M)
  BY <1>5, <1>6, FS_Subset
<1>8. /\ Export!Used(S)' = Cardinality(Export!Booked(S)') /\ Cardinality(Export!Booked(S)') \in Nat
      /\ Cardinality(Export!Booked(R)) \in Nat /\ Cardinality(Export!Booked(R) \cup M) \in Nat
  BY ExportCardinality, <1>2, <1>6, <1>7, FS_CardinalityType DEF Export!Used
<1>9. Export!Used(S)' =< Export!UsedByOthers(j, S) + ExportMaxArtifact
  BY <1>2, <1>4, <1>6, <1>7, <1>8, Values
<1>10. ASSUME j \notin S PROVE Export!Used(S)' = Export!Used(S)
  <2>1. \A b \in S \X (1 .. ExportMaxArtifact) : exportJob'[b[1]] = exportJob[b[1]]
    BY <1>10
  <2>2. Export!Booked(S)' = Export!Booked(S)
    BY <2>1 DEF Export!Booked
  <2> QED BY ExportCardinality, <2>2 DEF Export!Used
<1> QED BY <1>2, <1>8, <1>9, <1>10
-----------------------------------------------------------------------------
(* What every step does to the rows, the files and the other replicas. *)

\* A claim becomes current when it is made, and a purged row stays one.
Moved(j) ==
    /\ ExportRowOK(exportJob[j])'
    /\ \A t \in 1 .. ExportMaxAttempts :
          Current(j, t)' => Current(j, t) \/ (~exportExpired[j] /\ t = exportJob[j].attempts + 1)
    /\ \/ exportJob'[j].state = "purged"
       \/ exportJob[j].state # "purged" /\ exportJob'[j].attempts >= exportJob[j].attempts

\* The row is changed in its leases at most.
ExportRests(j) ==
    /\ exportJob'[j].state = exportJob[j].state /\ exportJob'[j].token = exportJob[j].token /\ exportJob'[j].key = exportJob[j].key
    /\ exportJob'[j].attempts = exportJob[j].attempts /\ exportJob'[j].bytes = exportJob[j].bytes
    /\ exportJob'[j].cleanup = exportJob[j].cleanup

\* Nothing that is current loses its artifact.
FinalsKept == \A j \in Export!Jobs, t \in 1 .. ExportMaxAttempts :
    Current(j, t)' /\ Export!File(j, t, "final") \in exportFiles => Export!File(j, t, "final") \in exportFiles'

Grows == exportWhole \subseteq exportWhole' /\ \A j \in Export!Jobs : exportExpired[j] => exportExpired'[j]

LEMMA RestMoves ==
    ASSUME Export!ExportAssumption, ExportTypes, ExportRowsOK, NEW j \in Export!Jobs, ExportRests(j)
    PROVE  Moved(j)
<1>1. ExportRowOK(exportJob[j]) /\ exportJob[j].attempts \in Int
  BY Values DEF ExportRowsOK, ExportTypes, Row
<1>2. ExportRowOK(exportJob[j])'
  BY <1>1 DEF ExportRowOK, ExportRests
<1>3. \A t \in 1 .. ExportMaxAttempts : Current(j, t)' => Current(j, t)
  BY DEF Current, ExportRests
<1> QED BY <1>1, <1>2, <1>3 DEF Moved, ExportRests

\* A replica that stands still knows what it knew.
LEMMA Standing ==
    ASSUME Export!ExportAssumption, ExportTypes, ProcsOK, NEW p \in ExportProcs, exportProc'[p] = exportProc[p],
           exportJob' \in [Export!Jobs -> Row], \A j \in Export!Jobs : Moved(j), FinalsKept, Grows,
           exportProc[p].phase = "half" => exportJob'[exportProc[p].job].cleanup = "PENDING"
    PROVE  ProcOK(exportProc[p])'
<1>0. PICK q : q = exportProc[p]
  OBVIOUS
<1>1. ProcOK(q) /\ q \in Proc
  BY <1>0 DEF ProcsOK, ExportTypes
<1>2. ASSUME q.phase \in Held
      PROVE  /\ q.job \in Export!Jobs /\ q.token \in 1 .. ExportMaxAttempts
             /\ exportJob'[q.job].state # "purged" => q.token =< exportJob'[q.job].attempts
             /\ Current(q.job, q.token)' => Current(q.job, q.token)
  <2>1. /\ q.job \in Export!Jobs /\ q.token \in 1 .. ExportMaxAttempts
        /\ exportJob[q.job].state # "purged" => q.token =< exportJob[q.job].attempts
    BY <1>1, <1>2 DEF ProcOK
  <2>2. /\ Moved(q.job) /\ exportJob[q.job].attempts \in Int /\ ExportMaxAttempts \in Int /\ q.token \in Int
        /\ exportJob'[q.job].attempts \in Int
    <3>1. PICK j : j = q.job
      OBVIOUS
    <3>2. j \in Export!Jobs /\ Moved(j)
      BY <2>1, <3>1
    <3>3. exportJob[j] \in Row /\ exportJob'[j] \in Row
      BY <3>2 DEF ExportTypes
    <3>4. exportJob[j].attempts \in Int /\ exportJob'[j].attempts \in Int
      BY <3>3, Values DEF Row
    <3>5. ExportMaxAttempts \in Int /\ q.token \in Int
      BY <2>1, Values
    <3> QED BY <3>1, <3>2, <3>4, <3>5
  <2>3. CASE exportJob'[q.job].state = "purged"
    BY <2>1, <2>3 DEF Current
  <2>4. CASE exportJob'[q.job].state # "purged"
    <3>1. /\ exportJob[q.job].state # "purged" /\ exportJob'[q.job].attempts >= exportJob[q.job].attempts
          /\ ExportRowOK(exportJob[q.job])'
      BY <2>2, <2>4 DEF Moved
    <3>2. q.token =< exportJob[q.job].attempts /\ ~(q.token = exportJob[q.job].attempts + 1)
      BY <2>1, <2>2, <3>1
    <3>3. Current(q.job, q.token)' => Current(q.job, q.token)
      BY <2>1, <2>2, <3>2 DEF Moved
    <3>4. q.token =< exportJob'[q.job].attempts
      BY <2>2, <3>1, <3>2 DEF ExportRowOK
    <3> QED BY <2>1, <3>3, <3>4
  <2> QED BY <2>3, <2>4
<1>3. ASSUME q.phase \in Done PROVE q.size \in ExportSizes /\ <<q.job, q.token>> \in exportWhole'
  BY <1>1, <1>3 DEF ProcOK, Grows
<1>4. ASSUME q.phase = "renamed", Current(q.job, q.token)'
      PROVE  Export!File(q.job, q.token, "final") \in exportFiles'
  <2>1. q.phase \in Held
    BY <1>4 DEF Held, Done
  <2>2. q.job \in Export!Jobs /\ q.token \in 1 .. ExportMaxAttempts /\ Current(q.job, q.token)
    BY <1>2, <1>4, <2>1
  <2>3. Export!File(q.job, q.token, "final") \in exportFiles
    BY <1>1, <1>4, <2>2 DEF ProcOK
  <2> QED BY <1>4, <2>2, <2>3 DEF FinalsKept
<1>5. q.phase = "half" => q.job \in Export!Jobs /\ exportJob'[q.job].cleanup = "PENDING"
  BY <1>0, <1>1 DEF ProcOK
<1>6. ASSUME q.phase = "sweeping", NEW j \in Export!Jobs, NEW t \in 1 .. ExportMaxAttempts, <<j, t>> \in q.old
      PROVE  exportExpired'[j] /\ (Current(j, t)' => Export!File(j, t, "final") \in q.spared)
  <2>1. exportExpired[j] /\ (Current(j, t) => Export!File(j, t, "final") \in q.spared)
    BY <1>1, <1>6 DEF ProcOK
  <2>2. Moved(j) /\ exportExpired'[j]
    BY <2>1 DEF Grows
  <2> QED BY <2>1, <2>2 DEF Moved
<1>7. exportProc'[p] = q
  BY <1>0
<1>8. /\ exportProc'[p].phase \in Held =>
            /\ exportProc'[p].job \in Export!Jobs /\ exportProc'[p].token \in 1 .. ExportMaxAttempts
            /\ exportJob'[exportProc'[p].job].state # "purged" => exportProc'[p].token =< exportJob'[exportProc'[p].job].attempts
      /\ exportProc'[p].phase \in Done => exportProc'[p].size \in ExportSizes /\ <<exportProc'[p].job, exportProc'[p].token>> \in exportWhole'
      /\ exportProc'[p].phase = "half" => exportProc'[p].job \in Export!Jobs /\ exportJob'[exportProc'[p].job].cleanup = "PENDING"
  BY <1>2, <1>3, <1>5, <1>7
<1>9. exportProc'[p].phase = "renamed" /\ Current(exportProc[p].job, exportProc[p].token)'
         => Export!File(exportProc'[p].job, exportProc'[p].token, "final") \in exportFiles'
  BY <1>4, <1>7 DEF Current
<1>10. exportProc'[p].phase = "sweeping" =>
          \A j \in Export!Jobs, t \in 1 .. ExportMaxAttempts : <<j, t>> \in exportProc'[p].old =>
              exportExpired'[j] /\ (Current(j, t)' => Export!File(j, t, "final") \in exportProc'[p].spared)
  BY <1>6, <1>7
<1> QED BY <1>8, <1>9, <1>10 DEF ProcOK, Export!File

\* A finished export keeps its artifact.
LEMMA ReadyKept ==
    ASSUME Export!ExportAssumption, ExportTypes, ExportRowsOK, ReadyOK, FinalsKept, Grows,
           \A j \in Export!Jobs : exportJob'[j].state = "READY" => exportJob[j].state = "READY" /\ exportJob'[j].key = exportJob[j].key
    PROVE  ReadyOK'
<1> SUFFICES ASSUME NEW j \in Export!Jobs, exportJob'[j].state = "READY"
             PROVE  Export!File(j, exportJob'[j].key, "final") \in exportFiles' /\ <<j, exportJob'[j].key>> \in exportWhole'
  BY DEF ReadyOK, Export!File
<1>1. exportJob[j].state = "READY" /\ exportJob'[j].key = exportJob[j].key
  OBVIOUS
<1>2. exportJob[j].key \in 1 .. ExportMaxAttempts
  BY <1>1, Values DEF ExportTypes, Row, ExportRowsOK, ExportRowOK
<1>3. Current(j, exportJob[j].key)'
  BY <1>1 DEF Current
<1>4. Export!File(j, exportJob[j].key, "final") \in exportFiles /\ <<j, exportJob[j].key>> \in exportWhole
  BY <1>1 DEF ReadyOK
<1> QED BY <1>1, <1>2, <1>3, <1>4 DEF FinalsKept, Grows

\* A step of one replica, by what it does to the rows and the files.
LEMMA Preserved ==
    ASSUME Export!ExportAssumption, ExportInv, ExportTypes', NEW p,
           \A q \in ExportProcs \ {p} : exportProc'[q] = exportProc[q],
           p \in ExportProcs => exportProc'[p] = exportProc[p] \/ ProcOK(exportProc[p])',
           \A q \in ExportProcs : exportProc[q].phase = "half" /\ exportProc'[q] = exportProc[q] => exportJob'[exportProc[q].job].cleanup = "PENDING",
           p \in ExportProcs /\ exportProc'[p].phase = "half" => exportProc[p].phase = "half" \/ Export!QuotaFree,
           \A j \in Export!Jobs : Moved(j), FinalsKept, Grows, AgesOK', ReadyOK', Quotas'
    PROVE  ExportInv'
<1>1. ExportRowsOK'
  BY DEF Moved, ExportRowsOK
<1>2. ASSUME NEW q \in ExportProcs PROVE ProcOK(exportProc[q])'
  <2>1. CASE exportProc'[q] = exportProc[q]
    BY <2>1, Standing DEF ExportInv, ExportTypes
  <2>2. CASE exportProc'[q] # exportProc[q]
    <3>1. q = p
      BY <2>2
    <3> QED BY <2>2, <3>1
  <2> QED BY <2>1, <2>2
<1>3. OneHalf'
  BY DEF OneHalf, Export!QuotaFree, ExportInv
<1>4. ProcsOK'
  BY <1>2 DEF ProcsOK
<1> QED BY <1>1, <1>3, <1>4 DEF ExportInv

\* A step that leaves the rows but for their leases
LEMMA RestingStep ==
    ASSUME Export!ExportAssumption, ExportInv, ExportTypes', NEW p,
           \A q \in ExportProcs \ {p} : exportProc'[q] = exportProc[q],
           p \in ExportProcs => exportProc'[p] = exportProc[p] \/ ProcOK(exportProc[p])',
           p \in ExportProcs /\ exportProc'[p].phase = "half" => exportProc[p].phase = "half" \/ Export!QuotaFree,
           \A j \in Export!Jobs : ExportRests(j), FinalsKept, Grows, AgesOK'
    PROVE  ExportInv'
<1>1. \A j \in Export!Jobs : Moved(j)
  BY RestMoves DEF ExportInv, ExportRests
<1>2. \A j \in Export!Jobs : exportJob'[j].state = "READY" => exportJob[j].state = "READY" /\ exportJob'[j].key = exportJob[j].key
  BY DEF ExportRests
<1>3. ReadyOK'
  BY <1>2, ReadyKept DEF ExportInv
<1>4. \A j \in Export!Jobs : exportJob'[j].bytes =< exportJob[j].bytes
  BY Values DEF ExportRests, ExportInv, ExportTypes, Row
<1>5. Quotas'
  BY <1>4, QuotasShrink DEF ExportInv
<1>6. ASSUME NEW q \in ExportProcs, exportProc[q].phase = "half", exportProc'[q] = exportProc[q]
      PROVE  exportJob'[exportProc[q].job].cleanup = "PENDING"
  <2>1. exportProc[q].job \in Export!Jobs /\ exportJob[exportProc[q].job].cleanup = "PENDING"
    BY <1>6 DEF ExportInv, ProcsOK, ProcOK
  <2> QED BY <2>1 DEF ExportRests
<1> QED BY <1>1, <1>3, <1>5, <1>6, Preserved

\* Rows that rest when they are unchanged
LEMMA Unchanged == (exportJob' = exportJob) => \A j \in Export!Jobs : ExportRests(j)
BY DEF ExportRests

LEMMA NoFileLost == (exportFiles \subseteq exportFiles') => FinalsKept
BY DEF FinalsKept
LEMMA PutProc ==
    ASSUME exportProc \in [ExportProcs -> Proc], NEW p \in ExportProcs, NEW x \in Proc, exportProc' = [exportProc EXCEPT ![p] = x]
    PROVE  /\ exportProc' \in [ExportProcs -> Proc] /\ exportProc'[p] = x
           /\ \A q \in ExportProcs \ {p} : exportProc'[q] = exportProc[q]
OBVIOUS

LEMMA GoDoes ==
    ASSUME exportProc \in [ExportProcs -> Proc], NEW p \in ExportProcs, NEW phase \in Phases, Export!Go(p, phase)
    PROVE  /\ exportProc' \in [ExportProcs -> Proc] /\ exportProc'[p] = [exportProc[p] EXCEPT !.phase = phase]
           /\ exportProc'[p].phase = phase /\ exportProc'[p].job = exportProc[p].job /\ exportProc'[p].token = exportProc[p].token
           /\ exportProc'[p].size = exportProc[p].size
           /\ \A q \in ExportProcs \ {p} : exportProc'[q] = exportProc[q]
BY DEF Export!Go, Proc

\* Nothing is known of a replica outside a claim, a cleanup or a sweep.
LEMMA Free ==
    ASSUME NEW p \in ExportProcs, exportProc'[p].phase \in {"idle", "cleaning"}
    PROVE  ProcOK(exportProc[p])'
BY DEF ProcOK, Held, Done

\* A replica that goes on with its claim
LEMMA Advances ==
    ASSUME Export!ExportAssumption, ExportTypes, ProcsOK, NEW p \in ExportProcs, exportProc[p].phase \in Held, exportJob' \in [Export!Jobs -> Row],
           exportProc'[p].job = exportProc[p].job, exportProc'[p].token = exportProc[p].token, exportProc'[p].phase \in Held,
           exportProc'[p].phase \in Done => exportProc'[p].size \in ExportSizes /\ <<exportProc[p].job, exportProc[p].token>> \in exportWhole',
           exportProc'[p].phase = "renamed" => Export!File(exportProc[p].job, exportProc[p].token, "final") \in exportFiles',
           \A j \in Export!Jobs : Moved(j)
    PROVE  ProcOK(exportProc[p])'
<1>0. PICK j, n : j = exportProc[p].job /\ n = exportProc[p].token
  OBVIOUS
<1>1. /\ j \in Export!Jobs /\ n \in 1 .. ExportMaxAttempts
      /\ exportJob[j].state # "purged" => n =< exportJob[j].attempts
  BY <1>0 DEF ProcsOK, ProcOK
<1>2. /\ Moved(j) /\ exportJob[j].attempts \in Int /\ ExportMaxAttempts \in Int
      /\ n \in Int /\ exportJob'[j].attempts \in Int
  <2>1. exportJob[j] \in Row /\ exportJob'[j] \in Row /\ ExportMaxAttempts \in Nat
    BY <1>1, Values DEF ExportTypes
  <2>2. \A r \in Row : r.attempts \in Int
    BY Values DEF Row
  <2> QED BY <1>1, <2>1, <2>2
<1>3. ASSUME exportJob'[j].state # "purged" PROVE n =< exportJob'[j].attempts
  <2>1. /\ exportJob[j].state # "purged" /\ exportJob'[j].attempts >= exportJob[j].attempts
    BY <1>2, <1>3 DEF Moved
  <2>2. n =< exportJob[j].attempts
    BY <1>1, <2>1
  <2> QED BY <1>2, <2>1, <2>2
<1>4. exportProc'[p].phase \notin {"half", "sweeping"}
  BY DEF Held, Done
<1> QED BY <1>0, <1>1, <1>3, <1>4 DEF ProcOK, Export!File

-----------------------------------------------------------------------------
(* The steps of a replica that writes. *)

LEMMA BeginStep == ASSUME Export!ExportAssumption, ExportInv, NEW p \in ExportProcs, Export!Begin(p) PROVE ExportInv'
<1>1. ExportTypes /\ ProcsOK /\ exportProc[p] \in Proc /\ exportProc[p].phase = "claimed"
  BY DEF ExportInv, ExportTypes, Export!Begin
<1>2. PICK o \in BOOLEAN : o = (Export!Mine(p) /\ ~exportExpired[exportProc[p].job] /\ exportJob[exportProc[p].job].cleanup = "NONE")
  BY DEF Export!Mine
<1>3. PICK x : x = [exportProc[p] EXCEPT !.phase = "locking", !.owns = o]
  OBVIOUS
<1>4. x \in Proc /\ x.phase = "locking" /\ x.job = exportProc[p].job /\ x.token = exportProc[p].token
  BY <1>1, <1>3 DEF Proc, Phases, Held
<1>5. exportProc' = [exportProc EXCEPT ![p] = x]
  BY <1>2, <1>3 DEF Export!Begin
<1>6. /\ exportProc' \in [ExportProcs -> Proc] /\ exportProc'[p] = x
      /\ \A q \in ExportProcs \ {p} : exportProc'[q] = exportProc[q]
  BY <1>1, <1>4, <1>5, PutProc DEF ExportTypes
<1>7. ExportTypes' /\ FinalsKept /\ Grows /\ AgesOK' /\ (\A j \in Export!Jobs : ExportRests(j))
  BY <1>1, <1>6, Unchanged, NoFileLost DEF Export!Begin, ExportTypes, Grows, ExportInv, AgesOK
<1>8. \A j \in Export!Jobs : Moved(j)
  BY <1>7, RestMoves DEF ExportInv
<1>9. ProcOK(exportProc[p])'
  BY <1>1, <1>4, <1>6, <1>7, <1>8, Advances DEF Held, Done, ExportTypes
<1> QED BY <1>4, <1>6, <1>7, <1>9, RestingStep

\* A step that leaves the rows and takes a replica on with its claim
LEMMA HeldStep ==
    ASSUME Export!ExportAssumption, ExportInv, NEW p \in ExportProcs, NEW phase \in Held, Export!Go(p, phase),
           exportProc[p].phase \in Held, \A j \in Export!Jobs : ExportRests(j), exportJob' \in [Export!Jobs -> Row],
           phase \in Done => exportProc[p].phase \in Done,
           phase = "renamed" => Export!File(exportProc[p].job, exportProc[p].token, "final") \in exportFiles',
           exportFiles' \in SUBSET FileSet, FinalsKept, UNCHANGED <<exportExpired, exportWhole, exportAged>>
    PROVE  ExportInv'
<1>1. /\ ExportTypes /\ ProcsOK /\ phase \in Phases
      /\ phase # "half"
  BY DEF ExportInv, Phases, Held, Done
<1>2. /\ exportProc' \in [ExportProcs -> Proc] /\ exportProc'[p].phase = phase
      /\ exportProc'[p].job = exportProc[p].job /\ exportProc'[p].token = exportProc[p].token /\ exportProc'[p].size = exportProc[p].size
      /\ \A q \in ExportProcs \ {p} : exportProc'[q] = exportProc[q]
  BY <1>1, GoDoes DEF ExportTypes
<1>3. ExportTypes' /\ Grows /\ AgesOK'
  BY <1>1, <1>2 DEF ExportTypes, Grows, ExportInv, AgesOK
<1>4. \A j \in Export!Jobs : Moved(j)
  BY RestMoves DEF ExportInv
<1>5. phase \in Done => exportProc[p].size \in ExportSizes /\ <<exportProc[p].job, exportProc[p].token>> \in exportWhole'
  BY <1>1 DEF ProcsOK, ProcOK
<1>6. ProcOK(exportProc[p])'
  BY <1>1, <1>2, <1>4, <1>5, Advances
<1> QED BY <1>1, <1>2, <1>3, <1>6, RestingStep

LEMMA FileKind ==
    ASSUME NEW j \in Export!Jobs, NEW t \in 1 .. ExportMaxAttempts, NEW n \in {"final", "part"}
    PROVE  /\ Export!File(j, t, n) \in FileSet
           /\ Export!File(j, t, n).job = j /\ Export!File(j, t, n).token = t /\ Export!File(j, t, n).name = n
BY DEF Export!File, FileSet

LEMMA LockStep == ASSUME Export!ExportAssumption, ExportInv, NEW p \in ExportProcs, Export!Lock(p) PROVE ExportInv'
<1>1. ExportTypes /\ ProcsOK /\ exportProc[p].phase \in Held /\ exportJob' = exportJob /\ UNCHANGED <<exportExpired, exportWhole, exportAged>>
  BY DEF ExportInv, Export!Lock, Held
<1>2. exportProc[p].job \in Export!Jobs /\ exportProc[p].token \in 1 .. ExportMaxAttempts
  BY <1>1 DEF ProcsOK, ProcOK
<1>3. Export!File(exportProc[p].job, exportProc[p].token, "part") \in FileSet
  BY <1>2, FileKind
<1>4. exportFiles' \in SUBSET FileSet /\ exportFiles \subseteq exportFiles'
  BY <1>1, <1>3 DEF Export!Lock, ExportTypes
<1>5. PICK phase \in {"writing", "failing"} : Export!Go(p, phase)
  BY DEF Export!Lock
<1>6. phase \in Held /\ phase \notin Done
  BY <1>5 DEF Held, Done
<1>7. FinalsKept /\ (\A j \in Export!Jobs : ExportRests(j)) /\ exportJob' \in [Export!Jobs -> Row]
  BY <1>1, <1>4, Unchanged, NoFileLost DEF ExportTypes
<1> QED BY <1>1, <1>4, <1>5, <1>6, <1>7, HeldStep DEF Done

LEMMA ProgressStep ==
    ASSUME Export!ExportAssumption, ExportInv, NEW p \in ExportProcs, Export!UpdateProgress(p) \/ Export!GenerationFails(p)
    PROVE  ExportInv'
<1>1. ExportTypes /\ exportProc[p].phase \in Held /\ exportJob' = exportJob /\ UNCHANGED <<exportExpired, exportFiles, exportWhole, exportAged>>
  BY DEF ExportInv, Export!UpdateProgress, Export!GenerationFails, Held, Done
<1>2. PICK phase \in {"closing", "failing"} : Export!Go(p, phase)
  BY DEF Export!UpdateProgress, Export!GenerationFails
<1>3. phase \in Held /\ phase \notin Done
  BY <1>2 DEF Held, Done
<1>4. FinalsKept /\ (\A j \in Export!Jobs : ExportRests(j)) /\ exportJob' \in [Export!Jobs -> Row] /\ exportFiles' \in SUBSET FileSet
  BY <1>1, Unchanged, NoFileLost DEF ExportTypes
<1> QED BY <1>1, <1>2, <1>3, <1>4, HeldStep DEF Done

LEMMA ExportCloseStep ==
    ASSUME Export!ExportAssumption, ExportInv, NEW p \in ExportProcs, NEW n \in ExportSizes, Export!CloseWriter(p, n)
    PROVE  ExportInv'
<1>1. ExportTypes /\ ProcsOK /\ exportProc[p] \in Proc /\ exportProc[p].phase \in Held
  BY DEF ExportInv, ExportTypes, Export!CloseWriter, Held
<1>2. exportProc[p].job \in Export!Jobs /\ exportProc[p].token \in 1 .. ExportMaxAttempts /\ n \in Bytes
  BY <1>1, Values DEF ProcsOK, ProcOK
<1>3. PICK x : x = [exportProc[p] EXCEPT !.phase = "written", !.size = n]
  OBVIOUS
<1>4. x \in Proc /\ x.phase = "written" /\ x.job = exportProc[p].job /\ x.token = exportProc[p].token /\ x.size = n
  BY <1>1, <1>2, <1>3 DEF Proc, Phases, Held, Done
<1>5. exportProc' = [exportProc EXCEPT ![p] = x]
  BY <1>3 DEF Export!CloseWriter
<1>6. /\ exportProc' \in [ExportProcs -> Proc] /\ exportProc'[p] = x
      /\ \A q \in ExportProcs \ {p} : exportProc'[q] = exportProc[q]
  BY <1>1, <1>4, <1>5, PutProc DEF ExportTypes
<1>7. exportWhole' = exportWhole \cup {<<exportProc[p].job, exportProc[p].token>>} /\ <<exportProc[p].job, exportProc[p].token>> \in Claims
  BY <1>2 DEF Export!CloseWriter, Claims
<1>8. ExportTypes' /\ FinalsKept /\ Grows /\ AgesOK' /\ (\A j \in Export!Jobs : ExportRests(j))
  BY <1>1, <1>6, <1>7, Unchanged, NoFileLost DEF Export!CloseWriter, ExportTypes, Grows, ExportInv, AgesOK
<1>9. \A j \in Export!Jobs : Moved(j)
  BY <1>8, RestMoves DEF ExportInv
<1>10. ProcOK(exportProc[p])'
  BY <1>1, <1>4, <1>6, <1>7, <1>8, <1>9, Advances DEF Held, Done, ExportTypes
<1> QED BY <1>4, <1>6, <1>8, <1>10, RestingStep

\* Rows of which a lease changes
LEMMA LeaseRests ==
    ASSUME exportJob \in [Export!Jobs -> Row], NEW j \in Export!Jobs, NEW b \in BOOLEAN,
           exportJob' = [exportJob EXCEPT ![j].lease = b] \/ exportJob' = [exportJob EXCEPT ![j].ownerLease = b]
    PROVE  exportJob' \in [Export!Jobs -> Row] /\ \A k \in Export!Jobs : ExportRests(k)
BY DEF Row, ExportRests

LEMMA RenewStep == ASSUME Export!ExportAssumption, ExportInv, NEW p \in ExportProcs, Export!RenewLease(p) PROVE ExportInv'
<1>1. /\ ExportTypes /\ ProcsOK /\ exportProc[p].phase = "written" /\ exportProc[p].phase \in Held
      /\ UNCHANGED <<exportExpired, exportFiles, exportWhole, exportAged>>
  BY DEF ExportInv, Export!RenewLease, Held, Done
<1>2. exportProc[p].job \in Export!Jobs
  BY <1>1 DEF ProcsOK, ProcOK
<1>3. PICK b \in BOOLEAN : b = IF Export!Renewable(p) THEN TRUE ELSE exportJob[exportProc[p].job].lease
  BY <1>1, <1>2 DEF ExportTypes, Row
<1>4. exportJob' = [exportJob EXCEPT ![exportProc[p].job].lease = b]
  BY <1>3 DEF Export!RenewLease
<1>5. PICK phase \in {"renewed", "failing"} : Export!Go(p, phase)
  BY DEF Export!RenewLease
<1>6. phase \in Held /\ phase # "renamed" /\ exportProc[p].phase \in Done
  BY <1>1, <1>5 DEF Held, Done
<1>7. FinalsKept /\ (\A j \in Export!Jobs : ExportRests(j)) /\ exportJob' \in [Export!Jobs -> Row] /\ exportFiles' \in SUBSET FileSet
  BY <1>1, <1>2, <1>4, LeaseRests, NoFileLost DEF ExportTypes
<1> QED BY <1>1, <1>5, <1>6, <1>7, HeldStep

LEMMA RenameStep == ASSUME Export!ExportAssumption, ExportInv, NEW p \in ExportProcs, Export!Rename(p) PROVE ExportInv'
<1>1. /\ ExportTypes /\ ProcsOK /\ exportProc[p].phase = "renewed" /\ exportProc[p].phase \in Held /\ exportJob' = exportJob
      /\ UNCHANGED <<exportExpired, exportWhole, exportAged>>
  BY DEF ExportInv, Export!Rename, Held, Done
<1>2. exportProc[p].job \in Export!Jobs /\ exportProc[p].token \in 1 .. ExportMaxAttempts
  BY <1>1 DEF ProcsOK, ProcOK
<1>3. /\ Export!File(exportProc[p].job, exportProc[p].token, "final") \in FileSet
      /\ Export!File(exportProc[p].job, exportProc[p].token, "part").name = "part"
  BY <1>2, FileKind
<1>4. exportFiles' \in SUBSET FileSet
  BY <1>1, <1>3 DEF Export!Rename, ExportTypes
<1>5. ASSUME NEW f \in exportFiles, f.name = "final" PROVE f \in exportFiles'
  BY <1>3, <1>5 DEF Export!Rename
<1>6. PICK phase \in {"renamed", "failing"} :
          Export!Go(p, phase) /\ (phase = "renamed" => Export!File(exportProc[p].job, exportProc[p].token, "final") \in exportFiles')
  BY DEF Export!Rename
<1>7. phase \in Held /\ exportProc[p].phase \in Done
  BY <1>1, <1>6 DEF Held, Done
<1>8. FinalsKept
  BY <1>5, FileKind DEF FinalsKept
<1>9. (\A j \in Export!Jobs : ExportRests(j)) /\ exportJob' \in [Export!Jobs -> Row]
  BY <1>1, Unchanged DEF ExportTypes
<1> QED BY <1>1, <1>4, <1>6, <1>7, <1>8, <1>9, HeldStep

\* Steps of the clock and of the heartbeat, which change one lease
LEMMA LeaseStep ==
    ASSUME Export!ExportAssumption, ExportInv, NEW j \in Export!Jobs, NEW b \in BOOLEAN,
           exportJob' = [exportJob EXCEPT ![j].lease = b] \/ exportJob' = [exportJob EXCEPT ![j].ownerLease = b],
           UNCHANGED <<exportExpired, exportFiles, exportWhole, exportAged, exportProc>>
    PROVE  ExportInv'
<1>1. ExportTypes' /\ Grows /\ AgesOK' /\ FinalsKept /\ (\A k \in Export!Jobs : ExportRests(k))
  BY LeaseRests, NoFileLost DEF ExportInv, ExportTypes, Grows, AgesOK
<1>2. \A q \in ExportProcs : exportProc'[q] = exportProc[q]
  OBVIOUS
<1> QED BY <1>1, <1>2, RestingStep

LEMMA LeaseSteps ==
    ASSUME Export!ExportAssumption, ExportInv
    PROVE  /\ \A p \in ExportProcs : Export!Heartbeat(p) => ExportInv'
           /\ \A j \in Export!Jobs : Export!LeaseLapses(j) \/ Export!CleanupLeaseLapses(j) => ExportInv'
<1>1. ASSUME NEW p \in ExportProcs, Export!Heartbeat(p) PROVE ExportInv'
  <2>1. exportProc[p].job \in Export!Jobs
    BY <1>1 DEF ExportInv, ProcsOK, ProcOK, Export!Heartbeat, Held
  <2>2. exportJob' = [exportJob EXCEPT ![exportProc[p].job].lease = TRUE] /\ UNCHANGED <<exportExpired, exportFiles, exportWhole, exportAged, exportProc>>
    BY <1>1 DEF Export!Heartbeat
  <2> QED BY <2>1, <2>2, LeaseStep
<1>2. ASSUME NEW j \in Export!Jobs, Export!LeaseLapses(j) \/ Export!CleanupLeaseLapses(j) PROVE ExportInv'
  <2>1. /\ exportJob' = [exportJob EXCEPT ![j].lease = FALSE] \/ exportJob' = [exportJob EXCEPT ![j].ownerLease = FALSE]
        /\ UNCHANGED <<exportExpired, exportFiles, exportWhole, exportAged, exportProc>>
    BY <1>2 DEF Export!LeaseLapses, Export!CleanupLeaseLapses
  <2> QED BY <2>1, LeaseStep
<1> QED BY <1>1, <1>2
-----------------------------------------------------------------------------
(* Crashes, cleanups and sweeps that leave the rows. *)

\* A step that leaves the rows and sets one replica to x
LEMMA ResetStep ==
    ASSUME Export!ExportAssumption, ExportInv, NEW p \in ExportProcs, NEW x \in Proc, exportProc' = [exportProc EXCEPT ![p] = x],
           ProcOK(exportProc[p])', x.phase = "half" => Export!QuotaFree,
           \A j \in Export!Jobs : ExportRests(j), exportJob' \in [Export!Jobs -> Row],
           exportFiles' \in SUBSET FileSet, FinalsKept, UNCHANGED <<exportExpired, exportWhole, exportAged>>
    PROVE  ExportInv'
<1>1. /\ exportProc' \in [ExportProcs -> Proc] /\ exportProc'[p] = x
      /\ \A q \in ExportProcs \ {p} : exportProc'[q] = exportProc[q]
  BY PutProc DEF ExportInv, ExportTypes
<1>2. ExportTypes' /\ Grows /\ AgesOK'
  BY <1>1 DEF ExportTypes, Grows, ExportInv, AgesOK
<1> QED BY <1>1, <1>2, RestingStep

LEMMA CrashStep == ASSUME Export!ExportAssumption, ExportInv, NEW p \in ExportProcs, Export!Crash(p) PROVE ExportInv'
<1>1. /\ exportProc' = [exportProc EXCEPT ![p] = Export!Idle] /\ exportJob' = exportJob /\ UNCHANGED <<exportExpired, exportFiles, exportWhole, exportAged>>
      /\ Export!Idle \in Proc /\ Export!Idle.phase = "idle" /\ ExportTypes
  BY Values DEF Export!Crash, ExportInv
<1>2. exportProc'[p] = Export!Idle
  BY <1>1 DEF ExportTypes
<1>3. ProcOK(exportProc[p])'
  BY <1>1, <1>2, Free
<1>4. FinalsKept /\ (\A j \in Export!Jobs : ExportRests(j)) /\ exportJob' \in [Export!Jobs -> Row] /\ exportFiles' \in SUBSET FileSet
  BY <1>1, Unchanged, NoFileLost DEF ExportTypes
<1> QED BY <1>1, <1>3, <1>4, ResetStep

\* The rows of a cleanup are not current.
LEMMA PendingIsNotCurrent ==
    ASSUME ExportRowsOK, NEW j \in Export!Jobs, exportJob[j].cleanup = "PENDING"
    PROVE  /\ \A t : ~Current(j, t)
           /\ exportJob[j].state \notin {"none", "QUEUED", "RUNNING", "READY", "purged"}
BY DEF ExportRowsOK, ExportRowOK, Current

LEMMA CleanFinalStep ==
    ASSUME Export!ExportAssumption, ExportInv, NEW p \in ExportProcs, NEW j \in Export!Jobs, Export!CleanFinal(p, j)
    PROVE  ExportInv'
<1>1. /\ ExportTypes /\ exportProc[p] \in Proc /\ exportProc[p].phase = "cleaning" /\ Export!QuotaFree
      /\ exportJob' = exportJob /\ UNCHANGED <<exportExpired, exportWhole, exportAged>>
  BY DEF Export!CleanFinal, ExportInv, ExportTypes
<1>2. (\A k \in Export!Jobs : ExportRests(k)) /\ exportJob' \in [Export!Jobs -> Row]
  BY <1>1, Unchanged DEF ExportTypes
<1>3. CASE /\ Export!CleanupOwned(p, j)
           /\ exportFiles' = exportFiles \ ({Export!File(j, exportJob[j].token, "final"), Export!File(j, exportJob[j].key, "final")})
           /\ exportProc' = [exportProc EXCEPT ![p].phase = "half", ![p].job = j]
  <2>1. PICK x : x = [exportProc[p] EXCEPT !.phase = "half", !.job = j]
    OBVIOUS
  <2>2. x \in Proc /\ x.phase = "half" /\ x.job = j
    BY <1>1, <2>1, Values DEF Proc, Phases
  <2>3. exportProc' = [exportProc EXCEPT ![p] = x] /\ exportProc'[p] = x
    BY <1>1, <1>3, <2>1 DEF ExportTypes
  <2>4. exportJob[j].cleanup = "PENDING"
    BY <1>3 DEF Export!CleanupOwned
  <2>5. ProcOK(exportProc[p])'
    BY <1>1, <2>2, <2>3, <2>4 DEF ProcOK, Held, Done
  <2>6. ASSUME NEW k \in Export!Jobs, NEW t \in 1 .. ExportMaxAttempts, Current(k, t)', Export!File(k, t, "final") \in exportFiles
        PROVE  Export!File(k, t, "final") \in exportFiles'
    <3>1. Current(k, t)
      BY <1>1, <2>6 DEF Current
    <3>2. k # j
      BY <2>4, <3>1, PendingIsNotCurrent DEF ExportInv
    <3>3. Export!File(k, t, "final").job = k /\ Export!File(j, exportJob[j].token, "final").job = j
          /\ Export!File(j, exportJob[j].key, "final").job = j
      BY DEF Export!File
    <3> QED BY <1>3, <2>6, <3>2, <3>3
  <2>7. FinalsKept
    BY <2>6 DEF FinalsKept
  <2>8. exportFiles' \in SUBSET FileSet
    BY <1>1, <1>3 DEF ExportTypes
  <2> QED BY <1>1, <1>2, <2>2, <2>3, <2>5, <2>7, <2>8, ResetStep
<1>4. CASE exportProc' = [exportProc EXCEPT ![p].todo = @ \ {j}] /\ UNCHANGED exportFiles
  <2>1. PICK x : x = [exportProc[p] EXCEPT !.todo = @ \ {j}]
    OBVIOUS
  <2>2. x \in Proc /\ x.phase = "cleaning"
    BY <1>1, <2>1 DEF Proc
  <2>3. exportProc' = [exportProc EXCEPT ![p] = x] /\ exportProc'[p] = x
    BY <1>1, <1>4, <2>1 DEF ExportTypes
  <2>4. ProcOK(exportProc[p])'
    BY <2>2, <2>3, Free
  <2>5. FinalsKept /\ exportFiles' \in SUBSET FileSet
    BY <1>1, <1>4, NoFileLost DEF ExportTypes
  <2> QED BY <1>1, <1>2, <2>2, <2>3, <2>4, <2>5, ResetStep
<1> QED BY <1>3, <1>4 DEF Export!CleanFinal

LEMMA CleanFailsStep ==
    ASSUME Export!ExportAssumption, ExportInv, NEW p \in ExportProcs, NEW j \in Export!Jobs, Export!CleanFails(p, j)
    PROVE  ExportInv'
<1>1. ExportTypes /\ exportProc[p] \in Proc /\ UNCHANGED <<exportExpired, exportFiles, exportWhole, exportAged>>
  BY DEF Export!CleanFails, ExportInv, ExportTypes
<1>2. PICK x : x = [exportProc[p] EXCEPT !.phase = "cleaning", !.todo = @ \ {j}, !.ok = FALSE]
  OBVIOUS
<1>3. x \in Proc /\ x.phase = "cleaning"
  BY <1>1, <1>2 DEF Proc, Phases
<1>4. exportProc' = [exportProc EXCEPT ![p] = x] /\ exportProc'[p] = x
  BY <1>1, <1>2 DEF Export!CleanFails, ExportTypes
<1>5. ProcOK(exportProc[p])'
  BY <1>3, <1>4, Free
<1>6. exportJob' = exportJob \/ exportJob' = [exportJob EXCEPT ![j].owner = None, ![j].ownerLease = FALSE]
  BY DEF Export!CleanFails
<1>7. (\A k \in Export!Jobs : ExportRests(k)) /\ exportJob' \in [Export!Jobs -> Row]
  BY <1>1, <1>6 DEF ExportTypes, Row, ExportRests
<1>8. FinalsKept /\ exportFiles' \in SUBSET FileSet
  BY <1>1, NoFileLost DEF ExportTypes
<1> QED BY <1>1, <1>3, <1>4, <1>5, <1>7, <1>8, ResetStep

LEMMA SweepReadStep == ASSUME Export!ExportAssumption, ExportInv, NEW p \in ExportProcs, Export!SweepRead(p) PROVE ExportInv'
<1>1. ExportTypes /\ exportJob' = exportJob /\ UNCHANGED <<exportExpired, exportFiles, exportWhole, exportAged>>
  BY DEF Export!SweepRead, ExportInv
<1>2. FinalsKept /\ (\A j \in Export!Jobs : ExportRests(j)) /\ exportJob' \in [Export!Jobs -> Row] /\ exportFiles' \in SUBSET FileSet
  BY <1>1, Unchanged, NoFileLost DEF ExportTypes
<1>3. CASE exportProc' = [exportProc EXCEPT ![p] = Export!Idle]
  <2>1. exportProc'[p] = Export!Idle /\ Export!Idle \in Proc /\ Export!Idle.phase = "idle"
    BY <1>1, <1>3, Values DEF ExportTypes
  <2>2. ProcOK(exportProc[p])'
    BY <2>1, Free
  <2> QED BY <1>1, <1>2, <1>3, <2>1, <2>2, ResetStep
<1>4. CASE exportProc' = [exportProc EXCEPT ![p] = [Export!Idle EXCEPT !.phase = "sweeping", !.old = exportAged,
                                                                       !.spared = Export!ProtectedEntries]]
  <2>1. ASSUME NEW j \in Export!Jobs, NEW t \in 1 .. ExportMaxAttempts, Current(j, t)
        PROVE  Export!File(j, t, "final") \in Export!ProtectedEntries
    <3>0. t # 0
      BY Values
    <3>1. CASE exportJob[j].state = "RUNNING" /\ exportJob[j].token = t
      <4>1. exportJob[j].token # 0 /\ Export!File(j, t, "final") \in Export!FilesOf(j, exportJob[j].token)
        BY <3>0, <3>1 DEF Export!FilesOf
      <4>2. Export!FilesOf(j, exportJob[j].token) \in {Export!FilesOf(k, exportJob[k].token) : k \in {i \in Export!Jobs : exportJob[i].token # 0}}
        BY <4>1
      <4> QED BY <4>1, <4>2 DEF Export!ProtectedEntries
    <3>2. CASE exportJob[j].state = "READY" /\ exportJob[j].key = t
      BY <3>0, <3>2 DEF Export!ProtectedEntries, Export!ProtectedKeys
    <3> QED BY <2>1, <3>1, <3>2 DEF Current
  <2>2. Export!ProtectedEntries \in SUBSET FileSet
    <3>1. \A j \in Export!Jobs : exportJob[j].key # 0 => Export!File(j, exportJob[j].key, "final") \in FileSet
      BY <1>1, Values DEF ExportTypes, Row, Export!File, FileSet
    <3>2. \A j \in Export!Jobs : exportJob[j].token # 0 => Export!FilesOf(j, exportJob[j].token) \subseteq FileSet
      BY <1>1, Values DEF ExportTypes, Row, Export!File, FileSet, Export!FilesOf
    <3> QED BY <3>1, <3>2 DEF Export!ProtectedEntries, Export!ProtectedKeys
  <2>3. PICK x : x = [Export!Idle EXCEPT !.phase = "sweeping", !.old = exportAged, !.spared = Export!ProtectedEntries]
    OBVIOUS
  <2>4. x \in Proc /\ x.phase = "sweeping" /\ x.old = exportAged /\ x.spared = Export!ProtectedEntries
    BY <1>1, <2>2, <2>3, Values DEF Proc, Phases, ExportTypes
  <2>5. exportProc' = [exportProc EXCEPT ![p] = x] /\ exportProc'[p] = x
    BY <1>1, <1>4, <2>3 DEF ExportTypes
  <2>6. ASSUME NEW j \in Export!Jobs, NEW t \in 1 .. ExportMaxAttempts, <<j, t>> \in x.old
        PROVE  exportExpired'[j] /\ (Current(j, t)' => Export!File(j, t, "final") \in x.spared)
    <3>1. exportExpired[j]
      BY <2>4, <2>6 DEF ExportInv, AgesOK
    <3>2. Current(j, t)' => Current(j, t)
      BY <1>1 DEF Current
    <3> QED BY <1>1, <2>1, <2>4, <3>1, <3>2
  <2>7. ProcOK(exportProc[p])'
    BY <2>4, <2>5, <2>6 DEF ProcOK, Held, Done, Export!File
  <2> QED BY <1>1, <1>2, <2>4, <2>5, <2>7, ResetStep
<1> QED BY <1>3, <1>4 DEF Export!SweepRead

LEMMA SweepStep == ASSUME Export!ExportAssumption, ExportInv, NEW p \in ExportProcs, Export!SweepOrphans(p) PROVE ExportInv'
<1>1. /\ ExportTypes /\ exportJob' = exportJob /\ UNCHANGED <<exportExpired, exportWhole, exportAged>> /\ exportProc[p].phase = "sweeping"
      /\ exportProc' = [exportProc EXCEPT ![p] = Export!Idle]
      /\ exportFiles' = {f \in exportFiles : <<f.job, f.token>> \notin exportProc[p].old \/ f \in exportProc[p].spared}
  BY DEF Export!SweepOrphans, ExportInv
<1>2. exportProc'[p] = Export!Idle /\ Export!Idle \in Proc /\ Export!Idle.phase = "idle"
  BY <1>1, Values DEF ExportTypes
<1>3. ProcOK(exportProc[p])'
  BY <1>2, Free
<1>4. ASSUME NEW j \in Export!Jobs, NEW t \in 1 .. ExportMaxAttempts, Current(j, t)', Export!File(j, t, "final") \in exportFiles
      PROVE  Export!File(j, t, "final") \in exportFiles'
  <2>1. Current(j, t)
    BY <1>1, <1>4 DEF Current
  <2>2. <<j, t>> \in exportProc[p].old => Export!File(j, t, "final") \in exportProc[p].spared
    BY <1>1, <2>1 DEF ExportInv, ProcsOK, ProcOK
  <2>3. Export!File(j, t, "final").job = j /\ Export!File(j, t, "final").token = t
    BY FileKind
  <2> QED BY <1>1, <1>4, <2>2, <2>3
<1>5. FinalsKept
  BY <1>4 DEF FinalsKept
<1>6. (\A j \in Export!Jobs : ExportRests(j)) /\ exportJob' \in [Export!Jobs -> Row] /\ exportFiles' \in SUBSET FileSet
  BY <1>1, Unchanged DEF ExportTypes
<1> QED BY <1>1, <1>2, <1>3, <1>5, <1>6, ResetStep

LEMMA ClockStep ==
    ASSUME Export!ExportAssumption, ExportInv,
           (\E j \in Export!Jobs : Export!Expire(j)) \/ (\E f \in exportFiles : Export!Age(f))
    PROVE  ExportInv'
<1>1. ExportTypes /\ exportJob' = exportJob /\ UNCHANGED <<exportFiles, exportWhole, exportProc>>
  BY DEF Export!Expire, Export!Age, ExportInv
<1>2. (\A j \in Export!Jobs : ExportRests(j)) /\ FinalsKept
  BY <1>1, Unchanged, NoFileLost
<1>3. CASE \E j \in Export!Jobs : Export!Expire(j)
  <2>1. PICK j \in Export!Jobs : Export!Expire(j)
    BY <1>3
  <2>2. exportExpired' = [exportExpired EXCEPT ![j] = TRUE] /\ exportAged' = exportAged
    BY <2>1 DEF Export!Expire
  <2>3. exportExpired' \in [Export!Jobs -> BOOLEAN] /\ \A k \in Export!Jobs : exportExpired[k] => exportExpired'[k]
    BY <1>1, <2>2 DEF ExportTypes
  <2> QED BY <1>1, <1>2, <2>2, <2>3, RestingStep DEF ExportTypes, Grows, ExportInv, AgesOK
<1>4. CASE \E f \in exportFiles : Export!Age(f)
  <2>1. PICK f \in exportFiles : Export!Age(f)
    BY <1>4
  <2>2. f.job \in Export!Jobs /\ f.token \in 1 .. ExportMaxAttempts /\ exportExpired[f.job]
        /\ exportAged' = exportAged \cup {<<f.job, f.token>>} /\ exportExpired' = exportExpired
    BY <1>1, <2>1 DEF Export!Age, ExportTypes, FileSet
  <2>3. exportAged' \in SUBSET Claims
    BY <1>1, <2>2 DEF ExportTypes, Claims
  <2>4. AgesOK'
    BY <2>2 DEF AgesOK, ExportInv
  <2>5. ExportTypes' /\ Grows
    BY <1>1, <2>2, <2>3 DEF ExportTypes, Grows
  <2> QED BY <1>1, <1>2, <2>4, <2>5, RestingStep
<1> QED BY <1>3, <1>4
-----------------------------------------------------------------------------
(* The steps that change rows. *)

\* A step of at most one replica that changes one row, at a time when no
\* cleanup is between its deletions
LEMMA ExportRowStep ==
    ASSUME Export!ExportAssumption, ExportInv, NEW j \in Export!Jobs, NEW r \in Row, exportJob' = [exportJob EXCEPT ![j] = r],
           Moved(j), r.bytes =< exportJob[j].bytes \/ Quotas',
           r.state = "READY" => Export!File(j, r.key, "final") \in exportFiles /\ <<j, r.key>> \in exportWhole,
           \A q \in ExportProcs : exportProc[q].phase = "half" /\ exportProc'[q] = exportProc[q] /\ exportProc[q].job = j => r.cleanup = "PENDING",
           NEW p, \A q \in ExportProcs \ {p} : exportProc'[q] = exportProc[q], exportProc' \in [ExportProcs -> Proc],
           p \in ExportProcs => exportProc'[p] = exportProc[p] \/ ProcOK(exportProc[p])',
           p \in ExportProcs /\ exportProc'[p].phase = "half" => exportProc[p].phase = "half",
           exportFiles' \in SUBSET FileSet, \A f \in exportFiles : f.name = "final" => f \in exportFiles',
           UNCHANGED <<exportExpired, exportWhole, exportAged>>
    PROVE  ExportInv'
<1>1. ExportTypes /\ exportJob'[j] = r /\ exportJob' \in [Export!Jobs -> Row] /\ \A k \in Export!Jobs \ {j} : exportJob'[k] = exportJob[k]
  BY DEF ExportInv, ExportTypes
<1>2. ExportTypes' /\ Grows /\ AgesOK'
  BY <1>1 DEF ExportTypes, Grows, AgesOK, ExportInv
<1>3. \A k \in Export!Jobs \ {j} : ExportRests(k)
  BY <1>1 DEF ExportRests
<1>4. \A k \in Export!Jobs : Moved(k)
  BY <1>3, RestMoves DEF ExportInv
<1>5. FinalsKept
  BY FileKind DEF FinalsKept
<1>6. Quotas'
  <2>1. CASE r.bytes =< exportJob[j].bytes
    <3>1. ASSUME NEW k \in Export!Jobs PROVE exportJob'[k].bytes =< exportJob[k].bytes
      <4>1. exportJob[k] \in Row
        BY <1>1 DEF ExportTypes
      <4>2. exportJob[k].bytes \in Nat
        BY <4>1, Values DEF Row
      <4> QED BY <1>1, <2>1, <4>2
    <3> QED BY <1>1, <1>2, <3>1, QuotasShrink DEF ExportInv
  <2> QED BY <2>1
<1>7. ReadyOK'
  <2> SUFFICES ASSUME NEW k \in Export!Jobs, exportJob'[k].state = "READY"
               PROVE  Export!File(k, exportJob'[k].key, "final") \in exportFiles' /\ <<k, exportJob'[k].key>> \in exportWhole'
    BY DEF ReadyOK, Export!File
  <2>1. Export!File(k, exportJob'[k].key, "final") \in exportFiles /\ <<k, exportJob'[k].key>> \in exportWhole
    BY <1>1 DEF ExportInv, ReadyOK
  <2>2. Export!File(k, exportJob'[k].key, "final").name = "final"
    BY DEF Export!File
  <2> QED BY <2>1, <2>2
<1>8. ASSUME NEW q \in ExportProcs, exportProc[q].phase = "half", exportProc'[q] = exportProc[q]
      PROVE  exportJob'[exportProc[q].job].cleanup = "PENDING"
  <2>1. exportProc[q].job \in Export!Jobs /\ exportJob[exportProc[q].job].cleanup = "PENDING"
    BY <1>8 DEF ExportInv, ProcsOK, ProcOK
  <2> QED BY <1>1, <1>8, <2>1
<1> QED BY <1>2, <1>4, <1>5, <1>6, <1>7, <1>8, Preserved

LEMMA StartStep == ASSUME Export!ExportAssumption, ExportInv, NEW j \in Export!Jobs, Export!Start(j) PROVE ExportInv'
<1>1. ExportTypes /\ exportJob[j] \in Row /\ ExportRowOK(exportJob[j]) /\ exportJob[j].state = "none" /\ UNCHANGED <<exportExpired, exportFiles, exportWhole, exportAged, exportProc>>
  BY DEF Export!Start, ExportInv, ExportTypes, ExportRowsOK
<1>2. PICK r : r = [exportJob[j] EXCEPT !.state = "QUEUED"]
  OBVIOUS
<1>3. /\ r \in Row /\ r.state = "QUEUED" /\ r.bytes = exportJob[j].bytes /\ r.cleanup = exportJob[j].cleanup
      /\ r.token = exportJob[j].token /\ r.key = exportJob[j].key /\ r.attempts = exportJob[j].attempts
  BY <1>1, <1>2 DEF Row, States
<1>4. exportJob' = [exportJob EXCEPT ![j] = r] /\ exportJob'[j] = r
  BY <1>1, <1>2 DEF Export!Start, ExportTypes
<1>5. exportJob[j].attempts \in Int /\ exportJob[j].bytes \in Int
  BY <1>1, Values DEF Row
<1>6. Moved(j)
  <2>1. ExportRowOK(exportJob[j])'
    BY <1>1, <1>3, <1>4 DEF ExportRowOK
  <2>2. \A t \in 1 .. ExportMaxAttempts : ~Current(j, t)'
    BY <1>3, <1>4 DEF Current
  <2> QED BY <1>1, <1>3, <1>4, <1>5, <2>1, <2>2 DEF Moved
<1>7. ASSUME NEW q \in ExportProcs, exportProc[q].phase = "half", exportProc[q].job = j PROVE r.cleanup = "PENDING"
  BY <1>3, <1>7 DEF ExportInv, ProcsOK, ProcOK
<1>8. /\ exportProc' \in [ExportProcs -> Proc] /\ exportFiles' \in SUBSET FileSet /\ \A f \in exportFiles : f \in exportFiles'
      /\ \A q \in ExportProcs : exportProc'[q] = exportProc[q]
  BY <1>1 DEF ExportTypes
<1>9. r.bytes =< exportJob[j].bytes /\ r.state # "READY"
  BY <1>3, <1>5
<1> QED BY <1>1, <1>3, <1>4, <1>6, <1>7, <1>8, <1>9, ExportRowStep

LEMMA ExportClaimStep ==
    ASSUME Export!ExportAssumption, ExportInv, NEW p \in ExportProcs, NEW j \in Export!Jobs, Export!Claim(p, j)
    PROVE  ExportInv'
<1>1. /\ ExportTypes /\ exportJob[j] \in Row /\ ExportRowOK(exportJob[j]) /\ Export!QuotaFree
      /\ exportJob[j].state \in {"QUEUED", "RUNNING"} /\ ~exportExpired[j] /\ exportJob[j].attempts < ExportMaxAttempts
      /\ UNCHANGED <<exportExpired, exportFiles, exportWhole, exportAged>>
  BY DEF Export!Claim, Export!Claimable, ExportInv, ExportTypes, ExportRowsOK
<1>2. PICK n \in 1 .. ExportMaxAttempts : n = exportJob[j].attempts + 1
  <2>1. exportJob[j].attempts \in Nat
    BY <1>1, Values DEF Row
  <2> QED BY <1>1, <2>1, Values
<1>3. /\ \A q \in ExportProcs : exportProc[q].phase # "half"
      /\ exportFiles' \in SUBSET FileSet /\ \A f \in exportFiles : f \in exportFiles'
  BY <1>1 DEF Export!QuotaFree, ExportTypes
<1>4. /\ exportJob[j].attempts \in Int /\ exportJob[j].bytes \in Nat /\ ExportMaxArtifact \in Nat \ {0}
      /\ ExportMaxAttempts \in Nat /\ n \in Int /\ n =< ExportMaxAttempts /\ n # 0
  BY <1>1, <1>2, Values DEF Row
<1>41. n \in Tokens /\ ExportMaxArtifact \in Bytes /\ 0 \in Bytes /\ 0 \in Tokens
  BY <1>2, Values
<1>5. CASE /\ Export!QuotaAvailable(j)
           /\ exportJob' = [exportJob EXCEPT ![j].state = "RUNNING", ![j].bytes = ExportMaxArtifact,
                                             ![j].token = exportJob[j].attempts + 1, ![j].lease = TRUE,
                                             ![j].attempts = @ + 1]
           /\ exportProc' = [exportProc EXCEPT ![p] = [Export!Idle EXCEPT !.phase = "claimed", !.job = j,
                                                                          !.token = exportJob[j].attempts + 1]]
  <2>1. PICK r : r = [exportJob[j] EXCEPT !.state = "RUNNING", !.bytes = ExportMaxArtifact, !.token = n,
                                          !.lease = TRUE, !.attempts = n]
    OBVIOUS
  <2>2. /\ r \in Row /\ r.state = "RUNNING" /\ r.bytes = ExportMaxArtifact /\ r.token = n /\ r.attempts = n
        /\ r.key = exportJob[j].key /\ r.cleanup = exportJob[j].cleanup
    BY <1>1, <1>41, <2>1 DEF Row, States
  <2>3. exportJob' = [exportJob EXCEPT ![j] = r] /\ exportJob'[j] = r
    BY <1>1, <1>2, <1>5, <2>1 DEF ExportTypes
  <2>4. Moved(j)
    <3>1. ExportRowOK(exportJob[j])'
      BY <1>1, <1>4, <2>2, <2>3 DEF ExportRowOK
    <3>2. \A t \in 1 .. ExportMaxAttempts : Current(j, t)' => t = exportJob[j].attempts + 1
      BY <1>2, <2>2, <2>3 DEF Current
    <3>3. exportJob'[j].attempts >= exportJob[j].attempts /\ exportJob[j].state # "purged"
      BY <1>1, <1>2, <1>4, <2>2, <2>3
    <3> QED BY <1>1, <3>1, <3>2, <3>3 DEF Moved
  <2>5. PICK x : x = [Export!Idle EXCEPT !.phase = "claimed", !.job = j, !.token = n]
    OBVIOUS
  <2>6. x \in Proc /\ x.phase = "claimed" /\ x.job = j /\ x.token = n
    BY <1>4, <2>5, Values DEF Proc, Phases, Held
  <2>7. exportProc' = [exportProc EXCEPT ![p] = x]
    BY <1>2, <1>5, <2>5
  <2>8. /\ exportProc' \in [ExportProcs -> Proc] /\ exportProc'[p] = x
        /\ \A q \in ExportProcs \ {p} : exportProc'[q] = exportProc[q]
    BY <1>1, <2>6, <2>7, PutProc DEF ExportTypes
  <2>9. ProcOK(exportProc[p])'
    BY <1>4, <2>2, <2>3, <2>6, <2>8 DEF ProcOK, Held, Done
  <2>10. Quotas'
    <3>1. ExportTypes' /\ \A k \in Export!Jobs \ {j} : exportJob'[k] = exportJob[k]
      BY <1>1, <2>2, <2>3, <2>8 DEF ExportTypes
    <3>2. Export!Used(Export!Jobs)' =< ExportGlobalQuota
      <4>1. Export!Used(Export!Jobs)' =< Export!UsedByOthers(j, Export!Jobs) + ExportMaxArtifact /\ Export!UsedByOthers(j, Export!Jobs) \in Nat /\ Export!Used(Export!Jobs)' \in Nat
        BY <1>1, <3>1, ClaimFits DEF ExportInv
      <4> QED BY <1>4, <1>5, <4>1, Values DEF Export!QuotaAvailable
    <3>3. ASSUME NEW t \in ExportTenants PROVE Export!Used({k \in Export!Jobs : ExportTenantOf[k] = t})' =< ExportTenantQuota
      <4>1. PICK S \in SUBSET Export!Jobs : S = {k \in Export!Jobs : ExportTenantOf[k] = t}
        OBVIOUS
      <4>2. Export!Used({k \in Export!Jobs : ExportTenantOf[k] = t})' = Export!Used(S)'
        BY ExportCardinality, <4>1 DEF Export!Used, Export!Booked
      <4>3. /\ j \in S => Export!Used(S)' =< Export!UsedByOthers(j, S) + ExportMaxArtifact
            /\ j \notin S => Export!Used(S)' = Export!Used(S)
            /\ Export!UsedByOthers(j, S) \in Nat /\ Export!Used(S)' \in Nat
        BY <1>1, <3>1, ClaimFits DEF ExportInv
      <4>4. CASE j \in S
        <5>1. Export!UsedByOthers(j, S) + ExportMaxArtifact =< ExportTenantQuota
          BY <1>5, <4>1, <4>4 DEF Export!QuotaAvailable
        <5> QED BY <1>4, <4>2, <4>3, <4>4, <5>1, Values
      <4>5. CASE j \notin S
        BY <4>1, <4>2, <4>3, <4>5 DEF ExportInv, Quotas
      <4> QED BY <4>4, <4>5
    <3> QED BY <3>2, <3>3 DEF Quotas
  <2> QED BY <1>1, <1>3, <2>2, <2>3, <2>4, <2>6, <2>8, <2>9, <2>10, ExportRowStep
<1>6. CASE /\ exportJob' = [exportJob EXCEPT ![j].state = "FAILED", ![j].bytes = 0, ![j].token = 0,
                                             ![j].lease = FALSE, ![j].attempts = @ + 1]
           /\ UNCHANGED exportProc
  <2>1. PICK r : r = [exportJob[j] EXCEPT !.state = "FAILED", !.bytes = 0, !.token = 0, !.lease = FALSE,
                                          !.attempts = n]
    OBVIOUS
  <2>2. /\ r \in Row /\ r.state = "FAILED" /\ r.bytes = 0 /\ r.token = 0 /\ r.attempts = n
        /\ r.key = exportJob[j].key /\ r.cleanup = exportJob[j].cleanup
    BY <1>1, <1>41, <2>1 DEF Row, States
  <2>3. exportJob' = [exportJob EXCEPT ![j] = r] /\ exportJob'[j] = r
    BY <1>1, <1>2, <1>6, <2>1 DEF ExportTypes
  <2>4. Moved(j)
    <3>1. ExportRowOK(exportJob[j])'
      BY <1>1, <1>4, <2>2, <2>3 DEF ExportRowOK
    <3>2. \A t \in 1 .. ExportMaxAttempts : ~Current(j, t)'
      BY <2>2, <2>3 DEF Current
    <3>3. exportJob'[j].attempts >= exportJob[j].attempts /\ exportJob[j].state # "purged"
      BY <1>1, <1>2, <1>4, <2>2, <2>3
    <3> QED BY <3>1, <3>2, <3>3 DEF Moved
  <2>5. exportProc' \in [ExportProcs -> Proc] /\ \A q \in ExportProcs : exportProc'[q] = exportProc[q]
    BY <1>1, <1>6 DEF ExportTypes
  <2>6. r.bytes =< exportJob[j].bytes
    BY <1>4, <2>2
  <2> QED BY <1>1, <1>3, <2>2, <2>3, <2>4, <2>5, <2>6, ExportRowStep
<1> QED BY <1>5, <1>6 DEF Export!Claim

LEMMA FinalizeStep == ASSUME Export!ExportAssumption, ExportInv, NEW p \in ExportProcs, Export!Finalize(p) PROVE ExportInv'
<1>0. PICK j : j = exportProc[p].job
  OBVIOUS
<1>1. /\ ExportTypes /\ ProcsOK /\ exportProc[p] \in Proc /\ exportProc[p].phase = "renamed" /\ Export!QuotaFree
      /\ UNCHANGED <<exportExpired, exportFiles, exportWhole, exportAged>>
  BY DEF Export!Finalize, ExportInv, ExportTypes
<1>2. exportProc[p].phase \in Held /\ exportProc[p].phase \in Done
  BY <1>1 DEF Held, Done
<1>3. /\ j \in Export!Jobs /\ exportProc[p].token \in 1 .. ExportMaxAttempts /\ exportProc[p].size \in ExportSizes
      /\ <<j, exportProc[p].token>> \in exportWhole
      /\ Current(j, exportProc[p].token) => Export!File(j, exportProc[p].token, "final") \in exportFiles
  BY <1>0, <1>1, <1>2 DEF ProcsOK, ProcOK
<1>4. CASE ~Export!Finalizable(p) /\ Export!Go(p, "failing") /\ UNCHANGED <<exportJob, exportFaults>>
  <2>1. FinalsKept /\ (\A k \in Export!Jobs : ExportRests(k)) /\ exportJob' \in [Export!Jobs -> Row] /\ exportFiles' \in SUBSET FileSet
    BY <1>1, <1>4, Unchanged, NoFileLost DEF ExportTypes
  <2> QED BY <1>1, <1>2, <1>4, <2>1, HeldStep DEF Held, Done
<1>5. CASE /\ Export!Finalizable(p) /\ exportJob' = Export!Finalized(p)
           /\ exportProc' = [exportProc EXCEPT ![p] = Export!Idle] \/ Export!Go(p, "failing")
  <2>1. /\ exportJob[j] \in Row /\ ExportRowOK(exportJob[j]) /\ exportJob[j].state = "RUNNING" /\ exportJob[j].token = exportProc[p].token
        /\ exportJob[j].cleanup = "NONE" /\ exportJob[j].bytes = ExportMaxArtifact
    BY <1>0, <1>1, <1>3, <1>5 DEF Export!Finalizable, Export!Mine, ExportInv, ExportRowsOK, ExportRowOK, ExportTypes
  <2>2. /\ exportProc[p].size \in 1 .. ExportMaxArtifact /\ ExportMaxArtifact \in Nat /\ ExportMaxAttempts \in Nat
        /\ exportJob[j].attempts \in Nat
    BY <1>3, <2>1, Values DEF Row
  <2>21. exportProc[p].size \in Bytes /\ exportProc[p].token \in Tokens /\ 0 \in Tokens
    BY <1>3, Values
  <2>3. PICK r : r = [exportJob[j] EXCEPT !.state = "READY", !.key = exportProc[p].token, !.bytes = exportProc[p].size,
                                          !.token = 0, !.lease = FALSE]
    OBVIOUS
  <2>4. /\ r \in Row /\ r.state = "READY" /\ r.key = exportProc[p].token /\ r.bytes = exportProc[p].size
        /\ r.token = 0 /\ r.attempts = exportJob[j].attempts /\ r.cleanup = "NONE"
    BY <2>1, <2>21, <2>3 DEF Row, States
  <2>5. exportJob' = [exportJob EXCEPT ![j] = r] /\ exportJob'[j] = r
    BY <1>0, <1>1, <1>3, <1>5, <2>3 DEF Export!Finalized, ExportTypes
  <2>6. Moved(j)
    <3>1. ExportRowOK(exportJob[j])'
      BY <1>3, <2>2, <2>4, <2>5 DEF ExportRowOK
    <3>2. \A t \in 1 .. ExportMaxAttempts : Current(j, t)' => Current(j, t)
      BY <2>1, <2>4, <2>5 DEF Current
    <3> QED BY <2>1, <2>2, <2>4, <2>5, <3>1, <3>2 DEF Moved
  <2>7. Export!File(j, r.key, "final") \in exportFiles /\ <<j, r.key>> \in exportWhole /\ r.bytes =< exportJob[j].bytes
    BY <1>3, <2>1, <2>2, <2>4 DEF Current
  <2>8. /\ \A q \in ExportProcs : exportProc[q].phase # "half"
        /\ exportFiles' \in SUBSET FileSet /\ \A f \in exportFiles : f \in exportFiles'
    BY <1>1 DEF Export!QuotaFree, ExportTypes
  <2>9. CASE exportProc' = [exportProc EXCEPT ![p] = Export!Idle]
    <3>1. /\ exportProc' \in [ExportProcs -> Proc] /\ exportProc'[p] = Export!Idle /\ Export!Idle.phase = "idle"
          /\ \A q \in ExportProcs \ {p} : exportProc'[q] = exportProc[q]
      BY <1>1, <2>9, Values, PutProc DEF ExportTypes
    <3>2. ProcOK(exportProc[p])'
      BY <3>1, Free
    <3> QED BY <1>1, <1>3, <2>4, <2>5, <2>6, <2>7, <2>8, <3>1, <3>2, ExportRowStep
  <2>10. CASE Export!Go(p, "failing")
    <3>1. /\ exportProc' \in [ExportProcs -> Proc] /\ exportProc'[p].phase = "failing" /\ exportProc'[p].job = j
          /\ exportProc'[p].token = exportProc[p].token /\ \A q \in ExportProcs \ {p} : exportProc'[q] = exportProc[q]
      BY <1>0, <1>1, <2>10, GoDoes DEF ExportTypes, Phases, Held
    <3>2. exportJob' \in [Export!Jobs -> Row] /\ \A k \in Export!Jobs \ {j} : ExportRests(k)
      BY <1>1, <1>3, <2>4, <2>5 DEF ExportTypes, ExportRests
    <3>3. \A k \in Export!Jobs : Moved(k)
      BY <2>6, <3>2, RestMoves DEF ExportInv
    <3>4. ProcOK(exportProc[p])'
      BY <1>0, <1>1, <1>2, <3>1, <3>2, <3>3, Advances DEF Held, Done
    <3> QED BY <1>1, <1>3, <2>4, <2>5, <2>6, <2>7, <2>8, <3>1, <3>4, ExportRowStep
  <2> QED BY <1>5, <2>9, <2>10
<1> QED BY <1>4, <1>5 DEF Export!Finalize
LEMMA MarkStep == ASSUME Export!ExportAssumption, ExportInv, NEW p \in ExportProcs, Export!MarkForCleanup(p) PROVE ExportInv'
<1>0. PICK j : j = exportProc[p].job
  OBVIOUS
<1>1. /\ ExportTypes /\ ProcsOK /\ exportProc[p].phase = "failing" /\ Export!QuotaFree
      /\ UNCHANGED <<exportExpired, exportFiles, exportWhole, exportAged>>
  BY DEF Export!MarkForCleanup, ExportInv
<1>2. exportProc[p].phase \in Held
  BY <1>1 DEF Held
<1>3. j \in Export!Jobs
  BY <1>0, <1>1, <1>2 DEF ProcsOK, ProcOK
<1>4. CASE exportProc' = [exportProc EXCEPT ![p] = Export!Idle] /\ UNCHANGED exportJob
  <2>1. exportProc'[p] = Export!Idle /\ Export!Idle \in Proc /\ Export!Idle.phase = "idle"
    BY <1>1, <1>4, Values DEF ExportTypes
  <2>2. ProcOK(exportProc[p])'
    BY <2>1, Free
  <2>3. FinalsKept /\ (\A k \in Export!Jobs : ExportRests(k)) /\ exportJob' \in [Export!Jobs -> Row] /\ exportFiles' \in SUBSET FileSet
    BY <1>1, <1>4, Unchanged, NoFileLost DEF ExportTypes
  <2> QED BY <1>1, <1>4, <2>1, <2>2, <2>3, ResetStep
<1>5. CASE /\ Export!Mine(p) /\ exportJob[j].cleanup = "NONE" /\ Export!Go(p, "own")
           /\ exportJob' = [exportJob EXCEPT ![j].state = "FAILED", ![j].cleanup = "PENDING", ![j].owner = None]
  <2>1. exportJob[j] \in Row /\ ExportRowOK(exportJob[j]) /\ exportJob[j].state = "RUNNING"
    BY <1>0, <1>1, <1>3, <1>5 DEF Export!Mine, ExportInv, ExportRowsOK, ExportTypes
  <2>2. PICK r : r = [exportJob[j] EXCEPT !.state = "FAILED", !.cleanup = "PENDING", !.owner = None]
    OBVIOUS
  <2>3. /\ r \in Row /\ r.state = "FAILED" /\ r.cleanup = "PENDING" /\ r.key = exportJob[j].key
        /\ r.token = exportJob[j].token /\ r.attempts = exportJob[j].attempts /\ r.bytes = exportJob[j].bytes
        /\ exportJob[j].attempts \in Nat /\ exportJob[j].bytes \in Nat
    BY <2>1, <2>2, Values DEF Row, States
  <2>4. exportJob' = [exportJob EXCEPT ![j] = r] /\ exportJob'[j] = r
    BY <1>1, <1>3, <1>5, <2>2 DEF ExportTypes
  <2>5. Moved(j)
    <3>1. ExportRowOK(exportJob[j])'
      BY <2>1, <2>3, <2>4 DEF ExportRowOK
    <3>2. \A t \in 1 .. ExportMaxAttempts : ~Current(j, t)'
      BY <2>3, <2>4 DEF Current
    <3> QED BY <2>1, <2>3, <2>4, <3>1, <3>2 DEF Moved
  <2>6. /\ exportProc' \in [ExportProcs -> Proc] /\ exportProc'[p].phase = "own" /\ exportProc'[p].job = j
        /\ exportProc'[p].token = exportProc[p].token /\ \A q \in ExportProcs \ {p} : exportProc'[q] = exportProc[q]
    BY <1>0, <1>1, <1>5, GoDoes DEF ExportTypes, Phases, Held
  <2>7. exportJob' \in [Export!Jobs -> Row] /\ \A k \in Export!Jobs \ {j} : ExportRests(k)
    BY <1>1, <1>3, <2>3, <2>4 DEF ExportTypes, ExportRests
  <2>8. \A k \in Export!Jobs : Moved(k)
    BY <2>5, <2>7, RestMoves DEF ExportInv
  <2>9. ProcOK(exportProc[p])'
    BY <1>0, <1>1, <1>2, <2>6, <2>7, <2>8, Advances DEF Held, Done
  <2>10. /\ \A q \in ExportProcs : exportProc[q].phase # "half"
         /\ exportFiles' \in SUBSET FileSet /\ \A f \in exportFiles : f \in exportFiles'
         /\ r.bytes =< exportJob[j].bytes
    BY <1>1, <2>3 DEF Export!QuotaFree, ExportTypes
  <2> QED BY <1>1, <1>3, <2>3, <2>4, <2>5, <2>6, <2>9, <2>10, ExportRowStep
<1> QED BY <1>0, <1>4, <1>5 DEF Export!MarkForCleanup

LEMMA CleanPartStep == ASSUME Export!ExportAssumption, ExportInv, NEW p \in ExportProcs, Export!CleanPart(p) PROVE ExportInv'
<1>0. PICK j : j = exportProc[p].job
  OBVIOUS
<1>1. /\ ExportTypes /\ exportProc[p] \in Proc /\ exportProc[p].phase = "half" /\ UNCHANGED <<exportExpired, exportWhole, exportAged>>
      /\ exportFiles' = exportFiles \ {Export!File(j, exportJob[j].token, "part")}
  BY <1>0 DEF Export!CleanPart, ExportInv, ExportTypes
<1>2. j \in Export!Jobs /\ exportJob[j].cleanup = "PENDING"
  BY <1>0, <1>1 DEF ExportInv, ProcsOK, ProcOK
<1>3. exportJob[j] \in Row /\ ExportRowOK(exportJob[j])
      /\ exportJob[j].state \notin {"none", "QUEUED", "RUNNING", "READY", "purged"}
  BY <1>1, <1>2, PendingIsNotCurrent DEF ExportInv, ExportRowsOK, ExportTypes
<1>4. PICK r : r = [exportJob[j] EXCEPT !.cleanup = "COMPLETE", !.owner = None, !.ownerLease = FALSE,
                                        !.key = 0, !.bytes = 0, !.token = 0, !.lease = FALSE]
  OBVIOUS
<1>5. /\ r \in Row /\ r.state = exportJob[j].state /\ r.cleanup = "COMPLETE" /\ r.key = 0
      /\ r.token = 0 /\ r.attempts = exportJob[j].attempts /\ r.bytes = 0
      /\ exportJob[j].attempts \in Nat /\ exportJob[j].bytes \in Nat
  BY <1>3, <1>4, Values DEF Row
<1>6. exportJob' = [exportJob EXCEPT ![j] = r] /\ exportJob'[j] = r
  BY <1>0, <1>1, <1>2, <1>4 DEF Export!CleanPart, ExportTypes
<1>7. Moved(j)
  <2>1. ExportRowOK(exportJob[j])'
    BY <1>3, <1>5, <1>6 DEF ExportRowOK
  <2>2. \A t \in 1 .. ExportMaxAttempts : ~Current(j, t)'
    BY <1>3, <1>5, <1>6 DEF Current
  <2> QED BY <1>3, <1>5, <1>6, <2>1, <2>2 DEF Moved
<1>8. PICK x : x = [exportProc[p] EXCEPT !.phase = "cleaning", !.todo = @ \ {j}]
  OBVIOUS
<1>9. x \in Proc /\ x.phase = "cleaning"
  BY <1>1, <1>8 DEF Proc, Phases
<1>10. exportProc' = [exportProc EXCEPT ![p] = x]
  BY <1>0, <1>8 DEF Export!CleanPart
<1>11. /\ exportProc' \in [ExportProcs -> Proc] /\ exportProc'[p] = x
       /\ \A q \in ExportProcs \ {p} : exportProc'[q] = exportProc[q]
  BY <1>1, <1>9, <1>10, PutProc DEF ExportTypes
<1>12. ProcOK(exportProc[p])'
  BY <1>9, <1>11, Free
<1>13. \A q \in ExportProcs : ~(exportProc[q].phase = "half" /\ exportProc'[q] = exportProc[q])
  BY <1>1, <1>9, <1>11 DEF ExportInv, OneHalf
<1>14. exportFiles' \in SUBSET FileSet /\ \A f \in exportFiles : f.name = "final" => f \in exportFiles'
  BY <1>1 DEF ExportTypes, Export!File
<1>15. r.bytes =< exportJob[j].bytes /\ r.state # "READY"
  BY <1>3, <1>5
<1> QED BY <1>1, <1>2, <1>5, <1>6, <1>7, <1>9, <1>11, <1>12, <1>13, <1>14, <1>15, ExportRowStep

\* A step that changes several rows, none of which is current afterwards, at a
\* time when no cleanup is between its deletions
LEMMA ExportRowsStep ==
    ASSUME Export!ExportAssumption, ExportInv, Export!QuotaFree, exportJob' \in [Export!Jobs -> Row],
           \A j \in Export!Jobs : exportJob'[j] = exportJob[j] \/ (Moved(j) /\ exportJob'[j].bytes =< exportJob[j].bytes /\ exportJob'[j].state # "READY"),
           NEW p, \A q \in ExportProcs \ {p} : exportProc'[q] = exportProc[q], exportProc' \in [ExportProcs -> Proc],
           p \in ExportProcs => exportProc'[p] = exportProc[p] \/ ProcOK(exportProc[p])',
           p \in ExportProcs => exportProc'[p].phase # "half",
           UNCHANGED <<exportExpired, exportFiles, exportWhole, exportAged>>
    PROVE  ExportInv'
<1>1. ExportTypes' /\ Grows /\ AgesOK' /\ FinalsKept
  BY NoFileLost DEF ExportTypes, Grows, AgesOK, ExportInv
<1>2. \A j \in Export!Jobs : exportJob'[j] = exportJob[j] => ExportRests(j)
  BY DEF ExportRests
<1>3. \A j \in Export!Jobs : Moved(j)
  BY <1>2, RestMoves DEF ExportInv
<1>4. \A j \in Export!Jobs : exportJob'[j].bytes =< exportJob[j].bytes
  BY Values DEF ExportInv, ExportTypes, Row
<1>5. Quotas'
  BY <1>1, <1>4, QuotasShrink DEF ExportInv
<1>6. ReadyOK'
  BY <1>1, ReadyKept DEF ExportInv
<1>7. \A q \in ExportProcs : exportProc[q].phase # "half"
  BY DEF Export!QuotaFree
<1> QED BY <1>1, <1>3, <1>5, <1>6, <1>7, Preserved

LEMMA ClaimCleanupStep ==
    ASSUME Export!ExportAssumption, ExportInv, NEW p \in ExportProcs, Export!ClaimCleanup(p)
    PROVE  ExportInv'
<1>1. PICK S \in SUBSET Export!Jobs :
          /\ \A j \in S : Export!CleanupDue(j)
          /\ exportJob' = Export!CleanupClaimed(p, S)
          /\ exportProc' = [exportProc EXCEPT ![p] = [Export!Idle EXCEPT !.phase = "cleaning",
                                                                         !.todo = {j \in S : ~Export!Empty(j)},
                                                                         !.ok = exportProc[p].phase = "idle"]]
  <2>1. PICK D : D = {j \in Export!Jobs : Export!CleanupDue(j) /\ Export!JobFree(j)}
    OBVIOUS
  <2>2. PICK S : S = IF exportProc[p].phase = "own" THEN D \cap {exportProc[p].job} ELSE D
    OBVIOUS
  <2>3. S \in SUBSET Export!Jobs /\ \A j \in S : Export!CleanupDue(j)
    BY <2>1, <2>2
  <2> QED BY <2>1, <2>2, <2>3 DEF Export!ClaimCleanup
<1>2. ExportTypes /\ ExportRowsOK /\ Export!QuotaFree /\ UNCHANGED <<exportExpired, exportFiles, exportWhole, exportAged>>
  BY DEF Export!ClaimCleanup, ExportInv
<1>3. PICK x : x = [Export!Idle EXCEPT !.phase = "cleaning", !.todo = {j \in S : ~Export!Empty(j)},
                                       !.ok = exportProc[p].phase = "idle"]
  OBVIOUS
<1>4. x \in Proc /\ x.phase = "cleaning"
  BY <1>3, Values DEF Proc, Phases
<1>5. exportProc' = [exportProc EXCEPT ![p] = x]
  BY <1>1, <1>3
<1>6. /\ exportProc' \in [ExportProcs -> Proc] /\ exportProc'[p] = x
      /\ \A q \in ExportProcs \ {p} : exportProc'[q] = exportProc[q]
  BY <1>2, <1>4, <1>5, PutProc DEF ExportTypes
<1>7. ProcOK(exportProc[p])'
  BY <1>4, <1>6, Free
<1>8. ASSUME NEW j \in Export!Jobs
      PROVE  /\ exportJob'[j] \in Row
             /\ \/ exportJob'[j] = exportJob[j]
                \/ Moved(j) /\ exportJob'[j].bytes =< exportJob[j].bytes /\ exportJob'[j].state # "READY"
  <2>1. exportJob[j] \in Row /\ ExportRowOK(exportJob[j])
    BY <1>2 DEF ExportTypes, ExportRowsOK
  <2>2. CASE j \notin S
    BY <1>1, <2>1, <2>2 DEF Export!CleanupClaimed
  <2>3. CASE j \in S
    <3>1. PICK s : s = IF exportExpired[j] THEN "EXPIRED" ELSE exportJob[j].state
      OBVIOUS
    <3>2. PICK c : c = IF Export!Empty(j) THEN "COMPLETE" ELSE "PENDING"
      OBVIOUS
    <3>3. PICK o : o = IF Export!Empty(j) THEN None ELSE p
      OBVIOUS
    <3>4. PICK l \in BOOLEAN : l = ~Export!Empty(j)
      BY DEF Export!Empty
    <3>5. s \in States /\ c \in {"COMPLETE", "PENDING"} /\ o \in ExportProcs \cup {None}
      BY <2>1, <3>1, <3>2, <3>3 DEF Row, States
    <3>6. exportJob'[j] = [exportJob[j] EXCEPT !.state = s, !.cleanup = c, !.owner = o, !.ownerLease = l]
      BY <1>1, <2>3, <3>1, <3>2, <3>3, <3>4 DEF Export!CleanupClaimed
    <3>7. /\ exportJob'[j] \in Row /\ exportJob'[j].state = s /\ exportJob'[j].cleanup = c /\ exportJob'[j].key = exportJob[j].key
          /\ exportJob'[j].token = exportJob[j].token /\ exportJob'[j].attempts = exportJob[j].attempts
          /\ exportJob'[j].bytes = exportJob[j].bytes /\ exportJob[j].attempts \in Nat /\ exportJob[j].bytes \in Nat
      BY <2>1, <3>5, <3>6, Values DEF Row
    <3>8. /\ s \notin {"none", "QUEUED", "RUNNING", "READY", "purged"}
          /\ exportJob[j].state \notin {"none", "purged"}
      <4>1. Export!CleanupDue(j)
        BY <1>1, <2>3
      <4>2. CASE exportJob[j].cleanup = "PENDING"
        BY <1>2, <3>1, <4>2, PendingIsNotCurrent
      <4>3. CASE exportExpired[j] /\ exportJob[j].state \in {"QUEUED", "RUNNING", "READY", "FAILED"}
        BY <3>1, <4>3
      <4> QED BY <4>1, <4>2, <4>3 DEF Export!CleanupDue
    <3>9. ExportRowOK(exportJob[j])'
      BY <2>1, <3>2, <3>5, <3>7, <3>8 DEF ExportRowOK, Export!Empty
    <3>10. \A t \in 1 .. ExportMaxAttempts : ~Current(j, t)'
      BY <3>7, <3>8 DEF Current
    <3> QED BY <3>7, <3>8, <3>9, <3>10 DEF Moved
  <2> QED BY <2>2, <2>3
<1>9. exportJob' \in [Export!Jobs -> Row]
  BY <1>1, <1>8 DEF Export!CleanupClaimed
<1> QED BY <1>2, <1>4, <1>6, <1>7, <1>8, <1>9, ExportRowsStep

LEMMA PurgeStep == ASSUME Export!ExportAssumption, ExportInv, NEW t \in ExportTenants, Export!Purge(t) PROVE ExportInv'
<1>1. /\ ExportTypes /\ ExportRowsOK /\ Export!QuotaFree /\ UNCHANGED <<exportExpired, exportFiles, exportWhole, exportAged, exportProc>>
      /\ exportJob' = [j \in Export!Jobs |-> IF ExportTenantOf[j] = t /\ exportJob[j].state # "none"
                                             THEN [Export!NoJob EXCEPT !.state = "purged"] ELSE exportJob[j]]
  BY DEF Export!Purge, ExportInv
<1>2. PICK r : r = [Export!NoJob EXCEPT !.state = "purged"]
  OBVIOUS
<1>3. /\ r \in Row /\ r.state = "purged" /\ r.cleanup = "NONE" /\ r.key = 0 /\ r.token = 0
      /\ r.bytes = 0 /\ r.attempts = 0
  BY <1>2, Values DEF Export!NoJob, Row, States
<1>4. ASSUME NEW j \in Export!Jobs
      PROVE  /\ exportJob'[j] \in Row
             /\ \/ exportJob'[j] = exportJob[j]
                \/ Moved(j) /\ exportJob'[j].bytes =< exportJob[j].bytes /\ exportJob'[j].state # "READY"
  <2>1. exportJob[j] \in Row /\ exportJob[j].bytes \in Nat
    BY <1>1, Values DEF ExportTypes, Row
  <2>2. CASE exportJob'[j] = exportJob[j]
    BY <2>1, <2>2
  <2>3. CASE exportJob'[j] = r
    <3>1. ExportRowOK(exportJob[j])'
      BY <1>3, <2>3 DEF ExportRowOK
    <3>2. \A n \in 1 .. ExportMaxAttempts : ~Current(j, n)'
      BY <1>3, <2>3 DEF Current
    <3> QED BY <1>3, <2>1, <2>3, <3>1, <3>2 DEF Moved
  <2> QED BY <1>1, <1>2, <2>2, <2>3
<1>5. exportJob' \in [Export!Jobs -> Row]
  BY <1>1, <1>4
<1>6. exportProc' \in [ExportProcs -> Proc] /\ \A q \in ExportProcs : exportProc'[q] = exportProc[q]
  BY <1>1 DEF ExportTypes
<1>7. None \notin ExportProcs
  BY DEF Export!ExportAssumption
<1> QED BY <1>1, <1>4, <1>5, <1>6, <1>7, ExportRowsStep

-----------------------------------------------------------------------------
(* The theorems. *)

LEMMA ExportInit == ASSUME Export!ExportAssumption, Export!Init PROVE ExportInv
<1>1. ExportTypes
  BY Values DEF Export!Init, ExportTypes
<1>2. ExportRowsOK /\ ReadyOK
  BY Values DEF Export!Init, ExportRowsOK, ReadyOK
<1>3. ProcsOK /\ OneHalf
  BY Values DEF Export!Init, ProcsOK, ProcOK, OneHalf, Held, Done
<1>4. AgesOK
  BY DEF Export!Init, AgesOK
<1>5. ASSUME NEW S \in SUBSET Export!Jobs PROVE Export!Used(S) = 0
  <2>1. \A j \in S : exportJob[j].bytes = 0
    BY Values DEF Export!Init
  <2>2. \A n \in 1 .. ExportMaxArtifact : ~(n =< 0)
    BY Values
  <2>3. ASSUME NEW b \in S \X (1 .. ExportMaxArtifact), b[2] =< exportJob[b[1]].bytes PROVE FALSE
    <3>1. PICK k \in S, n \in 1 .. ExportMaxArtifact : b = <<k, n>>
      OBVIOUS
    <3> QED BY <2>1, <2>2, <2>3, <3>1
  <2>4. Export!Booked(S) = {}
    BY <2>3 DEF Export!Booked
  <2> QED BY ExportCardinality, <2>4, FS_EmptySet DEF Export!Used
<1>6. Quotas
  <2>1. Export!Used(Export!Jobs) = 0
    BY <1>5
  <2>2. ASSUME NEW t \in ExportTenants PROVE Export!Used({j \in Export!Jobs : ExportTenantOf[j] = t}) = 0
    BY <1>5
  <2> QED BY <2>1, <2>2, Values DEF Quotas
<1> QED BY <1>1, <1>2, <1>3, <1>4, <1>6 DEF ExportInv

LEMMA ExportStep == ASSUME Export!ExportAssumption, ExportInv, [Export!Next]_(Export!exportVars) PROVE ExportInv'
<1>1. ASSUME NEW j \in Export!Jobs, Export!Start(j) PROVE ExportInv'
  BY <1>1, StartStep
<1>2. ASSUME (\E j \in Export!Jobs : Export!Expire(j)) \/ (\E f \in exportFiles : Export!Age(f)) PROVE ExportInv'
  BY <1>2, ClockStep
<1>3. ASSUME NEW j \in Export!Jobs, Export!LeaseLapses(j) \/ Export!CleanupLeaseLapses(j) PROVE ExportInv'
  BY <1>3, LeaseSteps
<1>4. ASSUME NEW p \in ExportProcs, NEW j \in Export!Jobs, Export!Claim(p, j) \/ Export!CleanFails(p, j) PROVE ExportInv'
  BY <1>4, ExportClaimStep, CleanFailsStep
<1>5. ASSUME NEW p \in ExportProcs, Export!Work(p) PROVE ExportInv'
  BY <1>5, BeginStep, LockStep, LeaseSteps, ProgressStep, ExportCloseStep, RenewStep, RenameStep,
     FinalizeStep, MarkStep, CleanFinalStep, CleanPartStep, SweepReadStep, SweepStep DEF Export!Work
<1>6. ASSUME NEW p \in ExportProcs, Export!ClaimCleanup(p) \/ Export!GenerationFails(p) \/ Export!Crash(p) PROVE ExportInv'
  BY <1>6, ClaimCleanupStep, ProgressStep, CrashStep
<1>7. ASSUME NEW t \in ExportTenants, Export!Purge(t) PROVE ExportInv'
  BY <1>7, PurgeStep
<1>8. CASE UNCHANGED Export!exportVars
  <2>1. /\ exportJob' = exportJob /\ exportExpired' = exportExpired /\ exportFiles' = exportFiles /\ exportWhole' = exportWhole /\ exportAged' = exportAged
        /\ exportProc' = exportProc
    BY <1>8 DEF Export!exportVars
  <2>2. ExportTypes' /\ Grows /\ AgesOK' /\ FinalsKept /\ (\A k \in Export!Jobs : ExportRests(k))
    BY <2>1, Unchanged, NoFileLost DEF ExportInv, ExportTypes, Grows, AgesOK
  <2> QED BY <2>1, <2>2, RestingStep
<1> QED BY <1>1, <1>2, <1>3, <1>4, <1>5, <1>6, <1>7, <1>8 DEF Export!Next

LEMMA ExportIsInvariant == ASSUME Export!ExportAssumption PROVE Export!Spec => []ExportInv
<1>1. Export!Init => ExportInv
  BY ExportInit
<1>2. ExportInv /\ [Export!Next]_(Export!exportVars) => ExportInv'
  BY ExportStep
<1> QED BY <1>1, <1>2, PTL DEF Export!Spec

\* Rows and files have their types: a file in the artifact directory always
\* belongs to a claim that was made.
THEOREM ExportsTypeCorrect == ASSUME Export!ExportAssumption PROVE Export!Spec => []Export!TypeOK
<1>1. ExportInv => Export!TypeOK
  <2> SUFFICES ASSUME ExportInv PROVE Export!TypeOK
    OBVIOUS
  <2>1. ASSUME NEW j \in Export!Jobs
        PROVE  /\ exportJob[j].state \in States /\ exportJob[j].cleanup \in {"NONE", "PENDING", "COMPLETE"}
               /\ exportJob[j].bytes \in Bytes /\ exportJob[j].owner \in ExportProcs \cup {None}
    BY DEF ExportInv, ExportTypes, Row
  <2>2. \A f \in exportFiles : f.job \in Export!Jobs /\ f.token \in 1 .. ExportMaxAttempts
    BY DEF ExportInv, ExportTypes, FileSet
  <2> QED BY <2>1, <2>2 DEF Export!TypeOK, States, Bytes
<1> QED BY <1>1, ExportIsInvariant, PTL

\* The storage that the rows book fits the quotas of all tenants and of each,
\* and what may still have a file books storage, although exports fail, lose
\* their lease, are claimed again, expire and are cleaned up at any time.
THEOREM StorageIsBooked == ASSUME Export!ExportAssumption PROVE Export!Spec => []Export!QuotaHolds
<1>1. ExportInv => Export!QuotaHolds
  <2> SUFFICES ASSUME ExportInv PROVE Export!QuotaHolds
    OBVIOUS
  <2>1. ASSUME NEW j \in Export!Jobs, NEW f \in exportFiles, f.job = j, f.token \in {exportJob[j].token, exportJob[j].key}
        PROVE  exportJob[j].bytes > 0
    <3>1. f.token # 0
      BY Values DEF ExportInv, ExportTypes, FileSet
    <3> QED BY <2>1, <3>1 DEF ExportInv, ExportRowsOK, ExportRowOK
  <2> QED BY <2>1 DEF ExportInv, Quotas, Export!QuotaHolds
<1> QED BY <1>1, ExportIsInvariant, PTL

\* A finished export has its file, complete and renamed, although writers that
\* lost their lease, cleanups and sweeps with an old list work beside it.
THEOREM FinishedIsWhole == ASSUME Export!ExportAssumption PROVE Export!Spec => []Export!ReadyIsWhole
<1>1. ExportInv => Export!ReadyIsWhole
  BY DEF ExportInv, ReadyOK, Export!ReadyIsWhole
<1> QED BY <1>1, ExportIsInvariant, PTL
=============================================================================
