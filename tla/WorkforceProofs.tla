-------------------------- MODULE WorkforceProofs --------------------------
(***************************************************************************)
(* Proofs about time cards, payroll and schedules.  The export of a period *)
(* is proved here; the other components of the composition are instances   *)
(* of OperationsProofs, whose theorems are carried over to the composition. *)
(***************************************************************************)
EXTENDS MCWorkforce, FiniteSetTheorems, TLAPS

-----------------------------------------------------------------------------
(* The inductive invariant. *)

\* Confirmed prices are prices, nothing is paid before there is a batch, and
\* the key of the batch is one whose operator confirmed a price.
PaidOnce ==
    /\ confirmed \in [DOMAIN confirmed -> Costs]
    /\ batch = NoBatch => wallet = Credits
    /\ batch # NoBatch => batch.key \in DOMAIN confirmed

\* Receipts are numbered without gaps in the order they came.
Numbered ==
    /\ IsFiniteSet(receipts)
    /\ \A r \in receipts : r.at < Cardinality(receipts)
    /\ \A r, s \in receipts : r.at = s.at => r = s

\* The receipts that mention a line, and the last receipt of a set.
Saying(l) == {r \in receipts : l \in DOMAIN r.payload.outcome}
IsLast(r, S) == r \in S /\ \A s \in S : s.at =< r.at

\* The stored state of a line is what the last receipt about it said.
LineIsLatest(l) ==
    IF Saying(l) = {} THEN line[l] = "PENDING"
    ELSE \E r \in Saying(l) : IsLast(r, Saying(l)) /\ line[l] = r.payload.outcome[l]
LinesOK == \A l \in Lines : LineIsLatest(l)

\* The status of the batch against the stored states and the last total.
Agrees == \E r \in receipts : IsLast(r, receipts) /\ r.payload.totalAgrees
StatusOK ==
    /\ batch = NoBatch \/ batch.status \in {"GENERATED", "DOWNLOADED"} => receipts = {}
    /\ batch # NoBatch /\ batch.status \in {"RECONCILING", "RECONCILED"} =>
          /\ receipts # {}
          /\ batch.status = "RECONCILED" <=> Agrees /\ \A l \in Lines : line[l] = "ACCEPTED"

ReceiptInv == TypeOK /\ Numbered /\ LinesOK /\ StatusOK

-----------------------------------------------------------------------------
(* Types. *)

\* The outcomes of a payload are about lines, and merging them keeps the type.
LEMMA MergedType ==
    ASSUME NEW p \in Payloads, line \in [Lines -> Outcomes]
    PROVE  /\ Merged(p.outcome) \in [Lines -> Outcomes]
           /\ p.outcome \in [DOMAIN p.outcome -> Outcomes]
           /\ p.totalAgrees \in BOOLEAN
<1>1. p.outcome \in UNION {[s -> Outcomes] : s \in SUBSET Lines \ {{}}} /\ p.totalAgrees \in BOOLEAN
  BY DEF Payloads
<1>2. PICK s \in SUBSET Lines \ {{}} : p.outcome \in [s -> Outcomes]
  BY <1>1
<1> QED BY <1>1, <1>2 DEF Merged

LEMMA InitType == Init => TypeOK /\ PaidOnce /\ OneExportIsPaid /\ ReceiptInv
<1> SUFFICES ASSUME Init PROVE TypeOK /\ PaidOnce /\ OneExportIsPaid /\ ReceiptInv
  OBVIOUS
<1>1. TypeOK
  BY ExportAssumption DEF Init, TypeOK, Outcomes
<1>2. PaidOnce
  BY DEF Init, PaidOnce
<1>3. OneExportIsPaid
  BY DEF Init, OneExportIsPaid
<1>4. Numbered
  BY FS_EmptySet DEF Init, Numbered
<1>5. LinesOK /\ StatusOK
  BY DEF Init, LinesOK, LineIsLatest, Saying, StatusOK
<1> QED BY <1>1, <1>2, <1>3, <1>4, <1>5 DEF ReceiptInv

LEMMA TypeStep == TypeOK /\ Numbered /\ [Next]_vars => TypeOK'
<1> SUFFICES ASSUME TypeOK, Numbered, [Next]_vars PROVE TypeOK'
  OBVIOUS
<1> USE DEF TypeOK
<1>1. ASSUME NEW k \in Costs, SetCost(k) PROVE TypeOK'
  BY <1>1 DEF SetCost
<1>2. ASSUME NEW key \in Keys, AskExport(key) PROVE TypeOK'
  BY <1>2 DEF AskExport
<1>3. ASSUME NEW key \in Keys, CreateExport(key) PROVE TypeOK'
  <2>1. wallet' \in Nat
    BY <1>3, ExportAssumption DEF CreateExport
  <2>2. batch' \in Batch
    BY <1>3 DEF CreateExport, Batch
  <2> QED BY <1>3, <2>1, <2>2 DEF CreateExport
<1>4. CASE DownloadExport
  BY <1>4 DEF DownloadExport, Batch
<1>5. ASSUME NEW ev \in Events, NEW p \in Payloads, ReconcileExport(ev, p) PROVE TypeOK'
  <2>1. line' \in [Lines -> Outcomes]
    BY <1>5, MergedType DEF ReconcileExport
  <2>2. Cardinality(receipts) \in Nat
    BY FS_CardinalityType DEF Numbered
  <2>3. receipts' \subseteq [event: Events, payload: Payloads, at: Nat]
    BY <1>5, <2>2 DEF ReconcileExport
  <2>4. batch' \in Batch
    BY <1>5 DEF ReconcileExport, Batch
  <2> QED BY <1>5, <2>1, <2>3, <2>4 DEF ReconcileExport
<1>6. CASE UNCHANGED vars
  BY <1>6 DEF vars
<1> QED BY <1>1, <1>2, <1>3, <1>4, <1>5, <1>6 DEF Next

-----------------------------------------------------------------------------
(* One export is paid. *)

LEMMA PaidStep == TypeOK /\ PaidOnce /\ OneExportIsPaid /\ [Next]_vars
                     => PaidOnce' /\ OneExportIsPaid'
<1> SUFFICES ASSUME TypeOK, PaidOnce, OneExportIsPaid, [Next]_vars
             PROVE  PaidOnce' /\ OneExportIsPaid'
  OBVIOUS
<1>1. ASSUME NEW k \in Costs, SetCost(k) PROVE PaidOnce' /\ OneExportIsPaid'
  BY <1>1 DEF SetCost, PaidOnce, OneExportIsPaid
<1>2. ASSUME NEW key \in Keys, AskExport(key) PROVE PaidOnce' /\ OneExportIsPaid'
  <2>1. PICK k \in Costs : confirmed' = [x \in DOMAIN confirmed \cup {key} |->
                                           IF x = key THEN k ELSE confirmed[x]]
    BY <1>2 DEF AskExport
  <2>2. confirmed' \in [DOMAIN confirmed' -> Costs]
    BY <2>1 DEF PaidOnce
  <2>3. batch # NoBatch => /\ batch.key \in DOMAIN confirmed'
                           /\ confirmed'[batch.key] = confirmed[batch.key]
    BY <1>2, <2>1 DEF AskExport, PaidOnce
  <2> QED BY <1>2, <2>2, <2>3 DEF AskExport, PaidOnce, OneExportIsPaid
<1>3. ASSUME NEW key \in Keys, CreateExport(key) PROVE PaidOnce' /\ OneExportIsPaid'
  <2>1. batch' = [key |-> key, status |-> "GENERATED"] /\ batch' # NoBatch /\ batch'.key = key
    BY <1>3, ExportAssumption DEF CreateExport, Batch
  <2>2. PaidOnce'
    BY <1>3, <2>1 DEF CreateExport, PaidOnce
  <2>3. debits' = {[key |-> key, amount |-> cost, after |-> wallet - cost]}
    BY <1>3 DEF CreateExport, OneExportIsPaid
  <2>4. wallet' = Credits - cost /\ confirmed'[key] = cost
    BY <1>3 DEF CreateExport, PaidOnce, PriceConfirmed
  <2> QED BY <2>1, <2>2, <2>3, <2>4 DEF OneExportIsPaid
<1>4. CASE DownloadExport
  <2>1. batch' # NoBatch /\ batch'.key = batch.key
    BY <1>4, ExportAssumption DEF DownloadExport, Batch, TypeOK
  <2> QED BY <1>4, <2>1 DEF DownloadExport, PaidOnce, OneExportIsPaid
<1>5. ASSUME NEW ev \in Events, NEW p \in Payloads, ReconcileExport(ev, p)
      PROVE  PaidOnce' /\ OneExportIsPaid'
  <2>1. batch' # NoBatch /\ batch'.key = batch.key
    BY <1>5, ExportAssumption DEF ReconcileExport, Batch, TypeOK
  <2> QED BY <1>5, <2>1 DEF ReconcileExport, PaidOnce, OneExportIsPaid
<1>6. CASE UNCHANGED vars
  BY <1>6 DEF vars, PaidOnce, OneExportIsPaid
<1> QED BY <1>1, <1>2, <1>3, <1>4, <1>5, <1>6 DEF Next

-----------------------------------------------------------------------------
(* A reconciled batch is what its receipts say. *)

\* A new receipt gets the next number.
LEMMA NumberedStep ==
    ASSUME TypeOK, Numbered, NEW ev \in Events, NEW p \in Payloads, ReconcileExport(ev, p)
    PROVE  LET n == [event |-> ev, payload |-> p, at |-> Cardinality(receipts)]
           IN  /\ receipts' = receipts \cup {n}
               /\ \A r \in receipts : r.at < n.at
               /\ Numbered'
<1> DEFINE n == [event |-> ev, payload |-> p, at |-> Cardinality(receipts)]
<1>1. receipts' = receipts \cup {n}
  BY DEF ReconcileExport
<1>2. Cardinality(receipts) \in Nat /\ \A r \in receipts : r.at \in Nat /\ r.at < Cardinality(receipts)
  BY FS_CardinalityType DEF Numbered, TypeOK
<1>3. n \notin receipts
  BY <1>2
<1>4. IsFiniteSet(receipts') /\ Cardinality(receipts') = Cardinality(receipts) + 1
  BY <1>1, <1>3, FS_AddElement DEF Numbered
<1>5. \A r \in receipts' : r.at < Cardinality(receipts')
  BY <1>1, <1>2, <1>4
<1>6. \A r, s \in receipts' : r.at = s.at => r = s
  BY <1>1, <1>2 DEF Numbered
<1> QED BY <1>1, <1>2, <1>4, <1>5, <1>6 DEF Numbered

LEMMA ReceiptStep == ReceiptInv /\ [Next]_vars => Numbered' /\ LinesOK' /\ StatusOK'
<1> SUFFICES ASSUME ReceiptInv, [Next]_vars PROVE Numbered' /\ LinesOK' /\ StatusOK'
  OBVIOUS
<1> USE DEF ReceiptInv
<1>1. ASSUME UNCHANGED <<receipts, line>> PROVE Numbered' /\ LinesOK'
  BY <1>1 DEF Numbered, LinesOK, LineIsLatest, Saying, IsLast
<1>2. ASSUME UNCHANGED <<receipts, line, batch>> PROVE Numbered' /\ LinesOK' /\ StatusOK'
  BY <1>1, <1>2 DEF StatusOK, Agrees, IsLast
<1>3. ASSUME NEW k \in Costs, SetCost(k) PROVE Numbered' /\ LinesOK' /\ StatusOK'
  BY <1>2, <1>3 DEF SetCost
<1>4. ASSUME NEW key \in Keys, AskExport(key) PROVE Numbered' /\ LinesOK' /\ StatusOK'
  BY <1>2, <1>4 DEF AskExport
<1>5. ASSUME NEW key \in Keys, CreateExport(key) PROVE Numbered' /\ LinesOK' /\ StatusOK'
  <2>1. batch' # NoBatch /\ batch'.status = "GENERATED" /\ receipts' = {}
    BY <1>5, ExportAssumption DEF CreateExport, StatusOK, Batch
  <2> QED BY <1>1, <1>5, <2>1 DEF CreateExport, StatusOK
<1>6. CASE DownloadExport
  <2>1. batch' # NoBatch /\ batch'.status = "DOWNLOADED" /\ receipts' = {}
    BY <1>6, ExportAssumption DEF DownloadExport, StatusOK, Batch, TypeOK
  <2> QED BY <1>1, <1>6, <2>1 DEF DownloadExport, StatusOK
<1>7. ASSUME NEW ev \in Events, NEW p \in Payloads, ReconcileExport(ev, p)
      PROVE  Numbered' /\ LinesOK' /\ StatusOK'
  <2> DEFINE n == [event |-> ev, payload |-> p, at |-> Cardinality(receipts)]
  <2>1. /\ receipts' = receipts \cup {n}
        /\ \A r \in receipts : r.at < n.at
        /\ Numbered'
    BY <1>7, NumberedStep
  <2>2. n.at \in Nat /\ \A r \in receipts : r.at \in Nat
    BY FS_CardinalityType DEF Numbered, TypeOK
  <2>3. IsLast(n, receipts')
    BY <2>1, <2>2 DEF IsLast
  <2>4. ASSUME NEW l \in Lines PROVE LineIsLatest(l)'
    <3>1. line'[l] = IF l \in DOMAIN p.outcome THEN p.outcome[l] ELSE line[l]
      BY <1>7 DEF ReconcileExport, Merged
    <3>2. CASE l \in DOMAIN p.outcome
      <4>1. n \in Saying(l)'
        BY <2>1, <3>2 DEF Saying
      <4>2. IsLast(n, Saying(l)')
        BY <2>1, <2>2, <4>1 DEF Saying, IsLast
      <4> QED BY <3>1, <3>2, <4>1, <4>2 DEF LineIsLatest, IsLast
    <3>3. CASE l \notin DOMAIN p.outcome
      <4>1. Saying(l)' = Saying(l)
        BY <2>1, <3>3 DEF Saying
      <4> QED BY <3>1, <3>3, <4>1 DEF LinesOK, LineIsLatest, IsLast
    <3> QED BY <3>2, <3>3
  <2>5. Agrees' <=> p.totalAgrees
    <3>1. n.payload = p /\ p.totalAgrees \in BOOLEAN
      BY MergedType DEF TypeOK
    <3>2. ASSUME NEW r \in receipts', IsLast(r, receipts') PROVE r = n
      <4>1. n.at =< r.at
        BY <2>3, <3>2 DEF IsLast
      <4>2. r \notin receipts
        BY <2>1, <2>2, <4>1
      <4> QED BY <2>1, <4>2
    <3>3. ASSUME Agrees' PROVE p.totalAgrees
      <4>1. PICK r \in receipts' : IsLast(r, receipts') /\ r.payload.totalAgrees
        BY <3>3 DEF Agrees
      <4> QED BY <3>1, <3>2, <4>1
    <3>4. ASSUME p.totalAgrees PROVE Agrees'
      <4>1. n \in receipts' /\ n.payload.totalAgrees
        BY <2>1, <3>1, <3>4
      <4> QED BY <2>3, <4>1 DEF Agrees
    <3> QED BY <3>3, <3>4
  <2>6. batch' # NoBatch /\ batch'.status = IF AllAccepted(p) /\ p.totalAgrees THEN "RECONCILED"
                                            ELSE "RECONCILING"
    BY <1>7, ExportAssumption DEF ReconcileExport, Batch, TypeOK
  <2>7. AllAccepted(p) <=> \A l \in Lines : line'[l] = "ACCEPTED"
    BY <1>7 DEF ReconcileExport, AllAccepted
  <2>8. StatusOK'
    BY <2>1, <2>5, <2>6, <2>7 DEF StatusOK
  <2> QED BY <2>1, <2>4, <2>8 DEF LinesOK
<1>8. CASE UNCHANGED vars
  BY <1>2, <1>8 DEF vars
<1> QED BY <1>3, <1>4, <1>5, <1>6, <1>7, <1>8 DEF Next

\* The invariant says what the receipts taken together say.
LEMMA StatusIsTrue == ReceiptInv => ReconciledIsTrue
<1> SUFFICES ASSUME ReceiptInv PROVE ReconciledIsTrue
  OBVIOUS
<1>1. ASSUME NEW l \in Lines PROVE LatestOutcome(l) = line[l]
  <2> DEFINE S == Saying(l)
             c == CHOOSE r \in S : \A s \in S : s.at =< r.at
  <2>1. LatestOutcome(l) = IF S = {} THEN "PENDING" ELSE c.payload.outcome[l]
    BY DEF LatestOutcome, Saying
  <2>2. LineIsLatest(l)
    BY DEF ReceiptInv, LinesOK
  <2>3. CASE S = {}
    BY <2>1, <2>2, <2>3 DEF LineIsLatest
  <2>4. CASE S # {}
    <3>1. PICK r \in S : IsLast(r, S) /\ line[l] = r.payload.outcome[l]
      BY <2>2, <2>4 DEF LineIsLatest
    <3>2. c \in S /\ \A s \in S : s.at =< c.at
      BY <3>1 DEF IsLast
    <3>3. r \in receipts /\ c \in receipts /\ r.at \in Nat /\ c.at \in Nat
      BY <3>1, <3>2 DEF Saying, ReceiptInv, TypeOK
    <3>4. r = c
      BY <3>1, <3>2, <3>3 DEF IsLast, ReceiptInv, Numbered
    <3> QED BY <2>1, <2>4, <3>1, <3>4
  <2> QED BY <2>3, <2>4
<1>2. Agrees <=> \E r \in receipts : r.payload.totalAgrees /\ \A s \in receipts : s.at =< r.at
  BY DEF Agrees, IsLast
<1>3. (\A l \in Lines : LatestOutcome(l) = "ACCEPTED") <=> (\A l \in Lines : line[l] = "ACCEPTED")
  BY <1>1
<1>4. batch = NoBatch \/ batch.status \in {"GENERATED", "DOWNLOADED", "RECONCILING", "RECONCILED"}
  BY DEF ReceiptInv, TypeOK, Batch
<1> QED BY <1>2, <1>3, <1>4 DEF ReconciledIsTrue, ReceiptInv, StatusOK

-----------------------------------------------------------------------------
(* Theorems. *)

\* Every row of the export keeps its type: in particular no wallet is
\* overdrawn by an export.
THEOREM ExportTypeCorrect == Spec => []TypeOK
<1>1. Init => ReceiptInv
  BY InitType
<1>2. ReceiptInv /\ [Next]_vars => ReceiptInv'
  BY TypeStep, ReceiptStep DEF ReceiptInv
<1>3. ReceiptInv => TypeOK
  BY DEF ReceiptInv
<1> QED BY <1>1, <1>2, <1>3, PTL DEF Spec

\* createExport: whatever is repeated, confirmed or repriced, the tenant pays
\* for one export what the operator whose request made it confirmed.
THEOREM ExportPaidOnce == Spec => []OneExportIsPaid
<1>1. Init => PaidOnce /\ OneExportIsPaid
  BY InitType
<1>2. TypeOK /\ PaidOnce /\ OneExportIsPaid /\ [Next]_vars => (PaidOnce /\ OneExportIsPaid)'
  BY PaidStep
<1> QED BY <1>1, <1>2, ExportTypeCorrect, PTL DEF Spec

\* reconcileExport: a batch is RECONCILED exactly when the receipts, in
\* whatever order and over however many events, say so together.
THEOREM ReconciliationIsTrue == Spec => []ReconciledIsTrue
<1>1. Init => ReceiptInv
  BY InitType
<1>2. ReceiptInv /\ [Next]_vars => ReceiptInv'
  BY TypeStep, ReceiptStep DEF ReceiptInv
<1> QED BY <1>1, <1>2, StatusIsTrue, PTL DEF Spec

-----------------------------------------------------------------------------
(* The other components of the composition; P1 to P4, U1 and U2 are the  *)
(* instances of the modules that prove about them.                        *)

P1 == INSTANCE OperationsProofs WITH
    HookEndpoints <- None, HookHandlers <- None, HookSweeps <- None, HookNoDelivery <-
    None, HookMaxAttempts <- None, HookCost <- None, HookInitialCredits <- None,
    HookMaxFaults <- None, HookMaxSwitches <- None, hookPlan <- None, hookActive <-
    None, hookCredits <- None, hookDebits <- None, hookRefunds <- None, hookRow <- None,
    hookQueue <- None, hookHandler <- None, hookSweep <- None, hookFaults <- None,
    hookSwitches <- None, hookSends <- None, hookAccepted <- None, ExportProcs <- None,
    ExportNumJobs <- None, ExportTenants <- None, ExportTenantOf <- None,
    ExportMaxArtifact <- None, ExportSizes <- None, ExportGlobalQuota <- None,
    ExportTenantQuota <- None, ExportMaxAttempts <- None, ExportMaxFaults <- None,
    exportJob <- None, exportExpired <- None, exportFiles <- None, exportWhole <- None,
    exportAged <- None, exportProc <- None, exportPurged <- None, exportFaults <- None

P2 == INSTANCE OperationsProofs WITH
    CardsCards <- AmendCards, CardsUsers <- AmendUsers, CardsAmendments <-
    AmendAmendments, CardsNumPeriods <- AmendNumPeriods, CardsPeriodLength <-
    AmendPeriodLength, CardsMaxRevision <- AmendMaxRevision, cardsNow <- amendNow,
    cardsEffective <- amendEffective, cardsPeriod <- amendPeriod, cardsCard <-
    amendCard, cardsDecision <- amendDecision, cardsAmendment <- amendAmendment,
    cardsEntries <- amendEntries, EdtUsers <- PubUsers, EdtLocations <- PubLocations,
    EdtClients <- PubClients, EdtNumSchedules <- PubNumSchedules, EdtNumShifts <-
    PubNumShifts, EdtSlots <- PubSlots, EdtDemands <- PubDemands, EdtDays <- PubDays,
    EdtDrafts <- PubDrafts, EdtDayLength <- PubDayLength, EdtLongShift <- PubLongShift,
    EdtMaxHours <- PubMaxHours, EdtLimits <- PubLimits, EdtAvailable <- PubAvailable,
    EdtScheduleCost <- PubScheduleCost, EdtCredits <- PubCredits, EdtMaxEdits <-
    PubMaxEdits, EdtMaxSwitches <- PubMaxSwitches, edtSchedule <- pubSchedule, edtShift
    <- pubShift, edtPerson <- pubPerson, edtClosed <- pubClosed, edtHooks <- pubHooks,
    edtCredits <- pubCredits, edtBoard <- pubBoard, edtContract <- pubContract, edtSolve
    <- pubSolve, edtAnnounced <- pubAnnounced, edtEdition <- pubEdition, edtEdits <-
    pubEdits, edtSwitches <- pubSwitches, HookEndpoints <- None, HookHandlers <- None,
    HookSweeps <- None, HookNoDelivery <- None, HookMaxAttempts <- None, HookCost <-
    None, HookInitialCredits <- None, HookMaxFaults <- None, HookMaxSwitches <- None,
    hookPlan <- None, hookActive <- None, hookCredits <- None, hookDebits <- None,
    hookRefunds <- None, hookRow <- None, hookQueue <- None, hookHandler <- None,
    hookSweep <- None, hookFaults <- None, hookSwitches <- None, hookSends <- None,
    hookAccepted <- None, ExportProcs <- None, ExportNumJobs <- None, ExportTenants <-
    None, ExportTenantOf <- None, ExportMaxArtifact <- None, ExportSizes <- None,
    ExportGlobalQuota <- None, ExportTenantQuota <- None, ExportMaxAttempts <- None,
    ExportMaxFaults <- None, exportJob <- None, exportExpired <- None, exportFiles <-
    None, exportWhole <- None, exportAged <- None, exportProc <- None, exportPurged <-
    None, exportFaults <- None

\* The payroll of the proofs is the one of the composition.
LEMMA PaySame ==
    /\ P1!Pay!PayrollAssumption <=> Pay!PayrollAssumption
    /\ P1!Pay!Init <=> Pay!Init
    /\ P1!Pay!Next <=> Pay!Next
    /\ P1!Pay!TypeOK <=> Pay!TypeOK
    /\ P1!Pay!LockedPeriodIsExact <=> Pay!LockedPeriodIsExact
    /\ P1!Pay!vars = Pay!vars
<1>1. P1!Pay!PayrollAssumption <=> Pay!PayrollAssumption
  BY Zenon DEF P1!Pay!PayrollAssumption, Pay!PayrollAssumption, P1!Pay!CardRows, Pay!CardRows,
     P1!Pay!AmendmentRows, Pay!AmendmentRows, P1!Pay!Instants, Pay!Instants, P1!Pay!Unset,
     Pay!Unset, P1!Pay!Periods, Pay!Periods, P1!Pay!Horizon, Pay!Horizon
<1>2. P1!Pay!Init <=> Pay!Init
  BY Zenon DEF P1!Pay!Init, Pay!Init, P1!Pay!Unset, Pay!Unset, P1!Pay!Periods, Pay!Periods
<1>3. P1!Pay!Next <=> Pay!Next
  BY Zenon DEF P1!Pay!Next, Pay!Next, P1!Pay!Tick, Pay!Tick, P1!Pay!Instants, Pay!Instants,
     P1!Pay!ClockIn, Pay!ClockIn, P1!Pay!ClockOut, Pay!ClockOut, P1!Pay!Unset, Pay!Unset,
     P1!Pay!Correct, Pay!Correct, P1!Pay!Periods, Pay!Periods, P1!Pay!CreatePolicy,
     Pay!CreatePolicy, P1!Pay!CreatePeriod, Pay!CreatePeriod, P1!Pay!StartReview,
     Pay!StartReview, P1!Pay!LockPeriod, Pay!LockPeriod, P1!Pay!AdoptCard, Pay!AdoptCard,
     P1!Pay!DecideCard, Pay!DecideCard, P1!Pay!CreateAmendment, Pay!CreateAmendment,
     P1!Pay!DecideAmendment, Pay!DecideAmendment, P1!Pay!Horizon, Pay!Horizon, P1!Pay!Exists,
     Pay!Exists, P1!Pay!NoOverlap, Pay!NoOverlap, P1!Pay!Assignment, Pay!Assignment,
     P1!Pay!IsOpen, Pay!IsOpen, P1!Pay!Frozen, Pay!Frozen, P1!Pay!End, Pay!End,
     P1!Pay!CorrectionAllowed, Pay!CorrectionAllowed, P1!Pay!Start, Pay!Start,
     P1!Pay!CandidatesValid, Pay!CandidatesValid, P1!Pay!Candidates, Pay!Candidates,
     P1!Pay!CurrentDecision, Pay!CurrentDecision, P1!Pay!AmendmentsInto, Pay!AmendmentsInto,
     P1!Pay!CardSources, Pay!CardSources, P1!Pay!AmendmentSources, Pay!AmendmentSources,
     P1!Pay!Independent, Pay!Independent, P1!Pay!NotYetAmended, Pay!NotYetAmended,
     P1!Pay!Covers, Pay!Covers, P1!Pay!MembershipMayChange, Pay!MembershipMayChange,
     P1!Pay!Minutes, Pay!Minutes, P1!Pay!OriginalEntry, Pay!OriginalEntry, P1!Pay!MinuteDelta,
     Pay!MinuteDelta
<1>4. P1!Pay!TypeOK <=> Pay!TypeOK
  BY Zenon DEF P1!Pay!TypeOK, Pay!TypeOK, P1!Pay!Instants, Pay!Instants, P1!Pay!Unset,
     Pay!Unset, P1!Pay!Periods, Pay!Periods, P1!Pay!CardRows, Pay!CardRows,
     P1!Pay!AmendmentRows, Pay!AmendmentRows, P1!Pay!EntryRows, Pay!EntryRows, P1!Pay!Horizon,
     Pay!Horizon
<1>5. P1!Pay!LockedPeriodIsExact <=> Pay!LockedPeriodIsExact
  BY Zenon DEF P1!Pay!LockedPeriodIsExact, Pay!LockedPeriodIsExact, P1!Pay!Periods, Pay!Periods,
     P1!Pay!Exists, Pay!Exists, P1!Pay!Covers, Pay!Covers, P1!Pay!Minutes, Pay!Minutes,
     P1!Pay!Start, Pay!Start, P1!Pay!End, Pay!End
<1>6. P1!Pay!vars = Pay!vars
  BY Zenon DEF P1!Pay!vars, Pay!vars
<1> QED BY <1>1, <1>2, <1>3, <1>4, <1>5, <1>6

LEMMA PayRuns == MCSpec => P1!Pay!Spec
<1>1. MCInit => P1!Pay!Init
  BY PaySame DEF MCInit
<1>2. [MCNext]_mcVars => [P1!Pay!Next]_(P1!Pay!vars)
  <2>1. UNCHANGED cardsVars => UNCHANGED P1!Pay!vars
    BY DEF cardsVars, P1!Pay!vars
  <2>2. [MCNext]_mcVars => Pay!Next \/ UNCHANGED cardsVars
    BY DEF MCNext, mcVars
  <2> QED BY <2>1, <2>2, PaySame
<1> QED BY <1>1, <1>2, PTL DEF MCSpec, P1!Pay!Spec

\* The payroll of the proofs is the one of the composition.
LEMMA AmendSame ==
    /\ P2!Pay!PayrollAssumption <=> Amend!PayrollAssumption
    /\ P2!Pay!Init <=> Amend!Init
    /\ P2!Pay!Next <=> Amend!Next
    /\ P2!Pay!CardIsPaidOnce <=> Amend!CardIsPaidOnce
    /\ P2!Pay!AmendmentsAreIndependent <=> Amend!AmendmentsAreIndependent
    /\ P2!Pay!vars = Amend!vars
<1>1. P2!Pay!PayrollAssumption <=> Amend!PayrollAssumption
  BY Zenon DEF P2!Pay!PayrollAssumption, Amend!PayrollAssumption, P2!Pay!CardRows,
     Amend!CardRows, P2!Pay!AmendmentRows, Amend!AmendmentRows, P2!Pay!Instants, Amend!Instants,
     P2!Pay!Unset, Amend!Unset, P2!Pay!Periods, Amend!Periods, P2!Pay!Horizon, Amend!Horizon
<1>2. P2!Pay!Init <=> Amend!Init
  BY Zenon DEF P2!Pay!Init, Amend!Init, P2!Pay!Unset, Amend!Unset, P2!Pay!Periods, Amend!Periods
<1>3. P2!Pay!Next <=> Amend!Next
  BY Zenon DEF P2!Pay!Next, Amend!Next, P2!Pay!Tick, Amend!Tick, P2!Pay!Instants,
     Amend!Instants, P2!Pay!ClockIn, Amend!ClockIn, P2!Pay!ClockOut, Amend!ClockOut,
     P2!Pay!Unset, Amend!Unset, P2!Pay!Correct, Amend!Correct, P2!Pay!Periods, Amend!Periods,
     P2!Pay!CreatePolicy, Amend!CreatePolicy, P2!Pay!CreatePeriod, Amend!CreatePeriod,
     P2!Pay!StartReview, Amend!StartReview, P2!Pay!LockPeriod, Amend!LockPeriod,
     P2!Pay!AdoptCard, Amend!AdoptCard, P2!Pay!DecideCard, Amend!DecideCard,
     P2!Pay!CreateAmendment, Amend!CreateAmendment, P2!Pay!DecideAmendment,
     Amend!DecideAmendment, P2!Pay!Horizon, Amend!Horizon, P2!Pay!Exists, Amend!Exists,
     P2!Pay!NoOverlap, Amend!NoOverlap, P2!Pay!Assignment, Amend!Assignment, P2!Pay!IsOpen,
     Amend!IsOpen, P2!Pay!Frozen, Amend!Frozen, P2!Pay!End, Amend!End, P2!Pay!CorrectionAllowed,
     Amend!CorrectionAllowed, P2!Pay!Start, Amend!Start, P2!Pay!CandidatesValid,
     Amend!CandidatesValid, P2!Pay!Candidates, Amend!Candidates, P2!Pay!CurrentDecision,
     Amend!CurrentDecision, P2!Pay!AmendmentsInto, Amend!AmendmentsInto, P2!Pay!CardSources,
     Amend!CardSources, P2!Pay!AmendmentSources, Amend!AmendmentSources, P2!Pay!Independent,
     Amend!Independent, P2!Pay!NotYetAmended, Amend!NotYetAmended, P2!Pay!Covers, Amend!Covers,
     P2!Pay!MembershipMayChange, Amend!MembershipMayChange, P2!Pay!Minutes, Amend!Minutes,
     P2!Pay!OriginalEntry, Amend!OriginalEntry, P2!Pay!MinuteDelta, Amend!MinuteDelta
<1>4. P2!Pay!CardIsPaidOnce <=> Amend!CardIsPaidOnce
  BY Zenon DEF P2!Pay!CardIsPaidOnce, Amend!CardIsPaidOnce, P2!Pay!Paying, Amend!Paying,
     P2!Pay!Periods, Amend!Periods, P2!Pay!Minutes, Amend!Minutes
<1>5. P2!Pay!AmendmentsAreIndependent <=> Amend!AmendmentsAreIndependent
  BY Zenon DEF P2!Pay!AmendmentsAreIndependent, Amend!AmendmentsAreIndependent, P2!Pay!Periods,
     Amend!Periods, P2!Pay!Cardinality, Amend!Cardinality
<1>6. P2!Pay!vars = Amend!vars
  BY Zenon DEF P2!Pay!vars, Amend!vars
<1> QED BY <1>1, <1>2, <1>3, <1>4, <1>5, <1>6

LEMMA AmendRuns == MCSpec => P2!Pay!Spec
<1>1. MCInit => P2!Pay!Init
  BY AmendSame DEF MCInit
<1>2. [MCNext]_mcVars => [P2!Pay!Next]_(P2!Pay!vars)
  <2>1. UNCHANGED amendVars => UNCHANGED P2!Pay!vars
    BY DEF amendVars, P2!Pay!vars
  <2>2. [MCNext]_mcVars => Amend!Next \/ UNCHANGED amendVars
    BY DEF MCNext, mcVars
  <2> QED BY <2>1, <2>2, AmendSame
<1> QED BY <1>1, <1>2, PTL DEF MCSpec, P2!Pay!Spec

\* Payroll in the composition: a locked period pays exactly the work that began in
\* it, as it was approved, a card is paid once, amended or not, and three different
\* users stand behind an amendment.
THEOREM PayrollIsSafe == MCSpec => []PayrollSafe
<1>1. P1!Pay!PayrollAssumption /\ P2!Pay!PayrollAssumption
  BY WorkforceAssumption, PaySame, AmendSame
<1>2. P1!Pay!Spec => []P1!Pay!TypeOK
  BY <1>1, P1!PayrollTypeCorrect
<1>3. P1!Pay!Spec => []P1!Pay!LockedPeriodIsExact
  BY <1>1, P1!PeriodsAreExact
<1>4. P2!Pay!Spec => []P2!Pay!CardIsPaidOnce
  BY <1>1, P2!CardsArePaidOnce
<1>5. P2!Pay!Spec => []P2!Pay!AmendmentsAreIndependent
  BY <1>1, P2!ThreeStandBehind
<1>6. P1!Pay!TypeOK /\ P1!Pay!LockedPeriodIsExact /\ P2!Pay!CardIsPaidOnce /\
         P2!Pay!AmendmentsAreIndependent => PayrollSafe
  BY PaySame, AmendSame DEF PayrollSafe
<1> QED
  BY <1>2, <1>3, <1>4, <1>5, <1>6, PayRuns, AmendRuns, PTL

-----------------------------------------------------------------------------
(* The generation of breaks. *)

LEMMA BreaksCardinality == \A S : Breaks!Cardinality(S) = Cardinality(S)
BY DEF Breaks!Cardinality, Cardinality

Shifts == [start: Breaks!Instants, end: Breaks!Instants, stamp: Nat, exists: BOOLEAN]
Rows == [status: {"none", "PENDING", "SUCCEEDED", "FAILED"}, body: Breaks!Bodies \cup {None},
         token: BrkHandlers \cup {None}, live: BOOLEAN, failure: Breaks!Failures \cup {None},
         data: SUBSET Breaks!Instants]
HandlerRows == [pc: {"idle", "prepare", "complete", "recover", "fail", "done"},
                key: BrkKeys \cup {None}, body: Breaks!Bodies \cup {None},
                failure: Breaks!Failures \cup {None}, data: SUBSET Breaks!Instants,
                snapshot: Shifts \cup {None}]

Types ==
    /\ brkShift \in Shifts /\ brkBreaks \subseteq Breaks!Instants /\ brkOffset \in {0, 1}
    /\ brkRow \in [BrkKeys -> Rows] /\ brkHandler \in [BrkHandlers -> HandlerRows]
    /\ brkWallet \in Nat /\ brkDebits \subseteq BrkKeys \cup BrkEdits /\ brkReceipts \subseteq BrkEdits
    /\ IsFiniteSet(brkDebits)
    /\ brkUnseen \in [BrkHandlers -> SUBSET {"v1", "v2", "setup"}]

\* What a handler computed belongs to the shift it read, and as long as the
\* shift has that stamp only edits of v1 were made since.
Computed(h) ==
    LET r == brkHandler[h] IN
    /\ r.snapshot \in Shifts /\ Breaks!Fits(r.data, r.snapshot)
    /\ r.snapshot.stamp =< brkShift.stamp
    /\ r.snapshot.stamp = brkShift.stamp => brkUnseen[h] \subseteq {"v1"}

HandlersOK ==
    \A h \in BrkHandlers :
        /\ brkHandler[h].pc # "idle" => brkHandler[h].key \in BrkKeys /\ brkHandler[h].body \in Breaks!Bodies
        /\ brkHandler[h].pc = "complete" => Computed(h)

Inv == Types /\ HandlersOK /\ Breaks!BreaksStayInside /\ Breaks!GenerationIsPaidOnce /\ Breaks!AnswersAgree

LEMMA IdleType ==
  ASSUME Breaks!BreaksAssumption
  PROVE  Breaks!Idle \in HandlerRows /\ Breaks!NoRow \in Rows
  BY DEF Breaks!Idle, Breaks!NoRow, HandlerRows, Rows

(***************************************************************************)
(* What a step does to a handler, to the rows and to the shift.            *)
(***************************************************************************)

\* A handler moves alone; it comes to complete only by reading the shift.
Moves(h, x) ==
    /\ brkHandler' = [brkHandler EXCEPT ![h] = x]
    /\ x.pc # "idle" => x.key \in BrkKeys /\ x.body \in Breaks!Bodies
    /\ x.pc = "complete" =>
         /\ x.snapshot = brkShift /\ x.data = Breaks!Plan
         /\ brkShift' = brkShift /\ brkUnseen'[h] = {}
    /\ brkUnseen' \in [BrkHandlers -> SUBSET {"v1", "v2", "setup"}]
    /\ \A g \in BrkHandlers \ {h} : brkUnseen'[g] = brkUnseen[g]

LEMMA HandlerMoves ==
  ASSUME Breaks!BreaksAssumption, Inv, NEW h \in BrkHandlers, Breaks!Generate(h)
  PROVE  \E x \in HandlerRows : Moves(h, x)
<1>1. brkHandler \in [BrkHandlers -> HandlerRows] /\ brkHandler[h] \in HandlerRows /\ brkShift \in Shifts
  BY DEF Inv, Types
<1>2. brkUnseen \in [BrkHandlers -> SUBSET {"v1", "v2", "setup"}]
  BY DEF Inv, Types
<1>3. ASSUME NEW x, x \in HandlerRows, brkHandler' = [brkHandler EXCEPT ![h] = x], UNCHANGED brkUnseen,
             x.pc # "complete", x.pc # "idle" => x.key \in BrkKeys /\ x.body \in Breaks!Bodies
      PROVE  \E y \in HandlerRows : Moves(h, y)
  BY <1>2, <1>3 DEF Moves
<1>4. ASSUME NEW p \in {"recover", "fail", "done"}, NEW f \in Breaks!Failures \cup {None},
             brkHandler[h].pc # "idle",
             brkHandler' = [brkHandler EXCEPT ![h].pc = p, ![h].failure = f], UNCHANGED brkUnseen
      PROVE  \E y \in HandlerRows : Moves(h, y)
  <2>1. PICK x : x = [brkHandler[h] EXCEPT !.pc = p, !.failure = f]
    OBVIOUS
  <2>2. x \in HandlerRows /\ x.pc = p /\ x.key = brkHandler[h].key /\ x.body = brkHandler[h].body
    BY <1>1, <2>1 DEF HandlerRows
  <2>3. brkHandler' = [brkHandler EXCEPT ![h] = x]
    BY <1>4, <2>1
  <2>. QED
    BY <1>3, <1>4, <2>2, <2>3 DEF Inv, HandlersOK
<1>5. ASSUME NEW p \in {"recover", "fail", "done"}, brkHandler[h].pc # "idle", Breaks!Goto(h, p),
             UNCHANGED brkUnseen
      PROVE  \E y \in HandlerRows : Moves(h, y)
  <2>1. PICK x : x = [brkHandler[h] EXCEPT !.pc = p]
    OBVIOUS
  <2>2. x \in HandlerRows /\ x.pc = p /\ x.key = brkHandler[h].key /\ x.body = brkHandler[h].body
    BY <1>1, <2>1 DEF HandlerRows
  <2>3. brkHandler' = [brkHandler EXCEPT ![h] = x]
    BY <1>5, <2>1 DEF Breaks!Goto
  <2>. QED
    BY <1>3, <1>5, <2>2, <2>3 DEF Inv, HandlersOK
<1>6. ASSUME brkHandler' = [brkHandler EXCEPT ![h] = Breaks!Idle], UNCHANGED brkUnseen
      PROVE  \E y \in HandlerRows : Moves(h, y)
  <2>1. Breaks!Idle \in HandlerRows /\ Breaks!Idle.pc = "idle"
    BY IdleType DEF Breaks!Idle
  <2>. QED
    BY <1>3, <1>6, <2>1
<1>7. CASE \E k \in BrkKeys, b \in Breaks!Bodies : Breaks!Claim(h, k, b)
  <2>1. PICK k \in BrkKeys, b \in Breaks!Bodies : Breaks!Claim(h, k, b)
    BY <1>7
  <2>2. PICK x : x = [Breaks!Idle EXCEPT !.pc = "prepare", !.key = k, !.body = b]
    OBVIOUS
  <2>3. x \in HandlerRows /\ x.pc = "prepare" /\ x.key = k /\ x.body = b
    BY <2>2, IdleType DEF Breaks!Idle, HandlerRows
  <2>4. brkHandler' = [brkHandler EXCEPT ![h] = x] /\ UNCHANGED brkUnseen
    BY <2>1, <2>2 DEF Breaks!Claim
  <2>. QED
    BY <1>3, <2>3, <2>4
<1>8. CASE Breaks!Prepare(h)
  <2>1. CASE UNCHANGED brkUnseen /\ \E f \in Breaks!Failures : Breaks!Failing(h, f)
    BY <1>4, <1>8, <2>1 DEF Breaks!Failing, Breaks!Prepare
  <2>2. CASE /\ brkHandler' = [brkHandler EXCEPT ![h].pc = "complete", ![h].data = Breaks!Plan,
                                                 ![h].snapshot = brkShift]
             /\ brkUnseen' = [brkUnseen EXCEPT ![h] = {}]
    <3>1. PICK x : x = [brkHandler[h] EXCEPT !.pc = "complete", !.data = Breaks!Plan, !.snapshot = brkShift]
      OBVIOUS
    <3>2. Breaks!Plan \in SUBSET Breaks!Instants
      <4>1. PICK a, b, o : a = brkShift.start /\ b = brkShift.end /\ o = brkShift.start + brkOffset
        OBVIOUS
      <4>2. a \in Nat /\ b \in Nat /\ b =< BrkHorizon /\ BrkHorizon \in Nat
        BY <1>1, <4>1 DEF Shifts, Breaks!Instants, Breaks!BreaksAssumption
      <4>3. \A y \in Breaks!Plan : y = o /\ a =< y /\ y < b
        BY <4>1 DEF Breaks!Plan, Breaks!Inside
      <4>4. o \in Nat
        BY <4>1, <4>2 DEF Inv, Types
      <4>. QED
        BY <4>2, <4>3, <4>4 DEF Breaks!Instants
    <3>3. /\ x \in HandlerRows /\ x.pc = "complete" /\ x.key = brkHandler[h].key
          /\ x.body = brkHandler[h].body /\ x.data = Breaks!Plan /\ x.snapshot = brkShift
      BY <1>1, <3>1, <3>2 DEF HandlerRows
    <3>4. brkHandler' = [brkHandler EXCEPT ![h] = x]
      BY <2>2, <3>1
    <3>5. UNCHANGED brkShift
      BY <1>8 DEF Breaks!Prepare, Breaks!world
    <3>6. /\ brkUnseen'[h] = {} /\ \A g \in BrkHandlers \ {h} : brkUnseen'[g] = brkUnseen[g]
          /\ brkUnseen' \in [BrkHandlers -> SUBSET {"v1", "v2", "setup"}]
      BY <1>2, <2>2
    <3>7. brkHandler[h].key \in BrkKeys /\ brkHandler[h].body \in Breaks!Bodies
      BY <1>8 DEF Breaks!Prepare, Inv, HandlersOK
    <3>. QED
      BY <3>3, <3>4, <3>5, <3>6, <3>7 DEF Moves
  <2>. QED
    BY <1>8, <2>1, <2>2 DEF Breaks!Prepare, Breaks!Failures
<1>9. CASE Breaks!Complete(h)
  <2>1. brkHandler[h].pc # "idle" /\ UNCHANGED brkUnseen
    BY <1>9 DEF Breaks!Complete
  <2>2. CASE Breaks!Goto(h, "done")
    BY <1>5, <2>1, <2>2
  <2>3. CASE \E f \in Breaks!Failures, p \in {"recover", "fail"} :
               brkHandler' = [brkHandler EXCEPT ![h].pc = p, ![h].failure = f]
    BY <1>4, <2>1, <2>3
  <2>4. Breaks!Refusal(h) \in Breaks!Failures
    BY DEF Breaks!Refusal, Breaks!Failures
  <2>. QED
    BY <1>9, <2>2, <2>3, <2>4 DEF Breaks!Complete, Breaks!Failing, Breaks!Failures
<1>10. CASE Breaks!CompleteLost(h)
  <2>1. "unavailable" \in Breaks!Failures
    BY DEF Breaks!Failures
  <2>. QED
    BY <1>4, <1>10, <2>1 DEF Breaks!CompleteLost
<1>11. CASE Breaks!Recover(h)
  BY <1>5, <1>11 DEF Breaks!Recover
<1>12. CASE Breaks!RecoverFails(h)
  <2>1. "unavailable" \in Breaks!Failures
    BY DEF Breaks!Failures
  <2>. QED
    BY <1>4, <1>12, <2>1 DEF Breaks!RecoverFails, Breaks!Failing
<1>13. CASE Breaks!Fail(h)
  BY <1>5, <1>13 DEF Breaks!Fail
<1>14. CASE Breaks!Return(h)
  BY <1>6, <1>14 DEF Breaks!Return
<1>15. CASE Breaks!HandlerStops(h)
  BY <1>6, <1>15 DEF Breaks!HandlerStops
<1>. QED
  BY <1>7, <1>8, <1>9, <1>10, <1>11, <1>12, <1>13, <1>14, <1>15 DEF Breaks!Generate

\* The row of key k is written, and it was not SUCCEEDED.
Writes(k, r) ==
    /\ brkRow' = [brkRow EXCEPT ![k] = r]
    /\ brkRow[k].status # "SUCCEEDED" /\ r.status # "SUCCEEDED"
    /\ UNCHANGED <<Breaks!world, Breaks!money, brkAnswers>>
    /\ (brkRow[k].status = "FAILED" /\ brkRow[k].body.api = "v1")
         => brkRow[k].failure \notin {"conflict", "rejected"}

\* An answer repeats the row.
Repeats(k) ==
    /\ brkRow[k].status = "SUCCEEDED" /\ Breaks!Reply(k, brkRow[k].data)
    /\ UNCHANGED <<Breaks!world, Breaks!money, brkRow>>

Commits(h) ==
    /\ brkHandler[h].pc = "complete" /\ Breaks!Commit(h)
    /\ UNCHANGED brkAnswers \/ Breaks!Reply(brkHandler[h].key, brkHandler[h].data)

LEMMA GenerationKinds ==
  ASSUME Breaks!BreaksAssumption, Inv, NEW h \in BrkHandlers, Breaks!Generate(h)
  PROVE  \/ UNCHANGED <<Breaks!world, Breaks!money, brkRow, brkAnswers>>
         \/ \E k \in BrkKeys : \E r \in Rows : Writes(k, r)
         \/ \E k \in BrkKeys : Repeats(k)
         \/ Commits(h)
<1>1. /\ brkRow \in [BrkKeys -> Rows] /\ brkHandler[h] \in HandlerRows
      /\ brkHandler[h].pc # "idle" => brkHandler[h].key \in BrkKeys /\ brkHandler[h].body \in Breaks!Bodies
  BY DEF Inv, Types, HandlersOK
<1>2. CASE \E k \in BrkKeys, b \in Breaks!Bodies : Breaks!Claim(h, k, b)
  <2>1. PICK k \in BrkKeys, b \in Breaks!Bodies : Breaks!Claim(h, k, b)
    BY <1>2
  <2>2. PICK r : r = Breaks!Pending(h, b)
    OBVIOUS
  <2>3. r \in Rows /\ r.status = "PENDING"
    BY <2>2 DEF Breaks!Pending, Breaks!NoRow, Rows
  <2>4. brkRow' = [brkRow EXCEPT ![k] = r] /\ UNCHANGED <<Breaks!world, Breaks!money, brkAnswers>>
    BY <2>1, <2>2 DEF Breaks!Claim, Breaks!Put
  <2>5. brkRow[k].status # "SUCCEEDED"
    BY <2>1 DEF Breaks!Claim, Breaks!Reclaimable, Breaks!Retryable
  <2>6. (brkRow[k].status = "FAILED" /\ brkRow[k].body.api = "v1")
         => brkRow[k].failure \notin {"conflict", "rejected"}
    BY <2>1 DEF Breaks!Claim, Breaks!Reclaimable, Breaks!Retryable
  <2>. QED
    BY <2>3, <2>4, <2>5, <2>6 DEF Writes
<1>3. CASE Breaks!Fail(h)
  <2>1. brkHandler[h].key \in BrkKeys
    BY <1>1, <1>3 DEF Breaks!Fail
  <2>2. CASE ~Breaks!Owns(h)
    BY <1>3, <2>2 DEF Breaks!Fail
  <2>3. CASE Breaks!Owns(h)
    <3>1. PICK k \in BrkKeys : k = brkHandler[h].key
      BY <2>1
    <3>2. PICK r : r = [Breaks!NoRow EXCEPT !.status = "FAILED", !.body = brkRow[k].body,
                                            !.failure = brkHandler[h].failure]
      OBVIOUS
    <3>3. r \in Rows /\ r.status = "FAILED"
      <4>1. brkRow[k].body \in Breaks!Bodies \cup {None} /\ brkHandler[h].failure \in Breaks!Failures \cup {None}
        BY <1>1 DEF Rows, HandlerRows
      <4>. QED
        BY <3>2, <4>1 DEF Breaks!NoRow, Rows
    <3>4. brkRow' = [brkRow EXCEPT ![k] = r] /\ UNCHANGED <<Breaks!world, Breaks!money, brkAnswers>>
      BY <1>3, <2>3, <3>1, <3>2 DEF Breaks!Fail, Breaks!Put
    <3>5. brkRow[k].status = "PENDING"
      BY <2>3, <3>1 DEF Breaks!Owns
    <3>. QED
      BY <3>3, <3>4, <3>5 DEF Writes
  <2>. QED
    BY <2>2, <2>3
<1>4. CASE Breaks!Recover(h)
  <2>1. brkHandler[h].key \in BrkKeys
    BY <1>1, <1>4 DEF Breaks!Recover
  <2>. QED
    BY <1>4, <2>1 DEF Breaks!Recover, Repeats
<1>5. CASE Breaks!Complete(h)
  BY <1>5 DEF Breaks!Complete, Commits
<1>6. CASE Breaks!CompleteLost(h)
  BY <1>6 DEF Breaks!CompleteLost, Commits
<1>7. CASE Breaks!Prepare(h) \/ Breaks!RecoverFails(h) \/ Breaks!Return(h) \/ Breaks!HandlerStops(h)
  BY <1>7 DEF Breaks!Prepare, Breaks!RecoverFails, Breaks!Return, Breaks!HandlerStops
<1>. QED
  BY <1>2, <1>3, <1>4, <1>5, <1>6, <1>7 DEF Breaks!Generate

\* Manual edits and moves are paid, and set a stamp unless they are of v1.
EditStep(e) ==
    /\ Breaks!Editable(e) /\ Breaks!Pay(e)
    /\ brkShift' \in Shifts /\ brkBreaks' \subseteq Breaks!Instants /\ Breaks!Fits(brkBreaks', brkShift')
    /\ \E x \in {"v1", "v2", "setup"} :
         /\ Breaks!Seen(x)
         /\ brkShift'.stamp = (IF x = "v1" THEN brkShift.stamp ELSE brkShift.stamp + 1)
    /\ UNCHANGED <<brkOffset, brkRow, brkHandler, brkAnswers>>

LEMMA EditSteps ==
  ASSUME Breaks!BreaksAssumption, Inv, NEW e \in BrkEdits,
         \/ \E api \in Breaks!Apis, B \in SUBSET Breaks!Instants : Breaks!ReplaceShiftBreaks(e, api, B)
         \/ \E start, end \in Breaks!Instants : Breaks!SetupShift(e, start, end)
  PROVE  EditStep(e)
<1>1. brkShift \in Shifts /\ brkBreaks \subseteq Breaks!Instants /\ Breaks!Fits(brkBreaks, brkShift)
  BY DEF Inv, Types, Breaks!BreaksStayInside
<1>2. PICK n \in Nat : n = brkShift.stamp
  BY <1>1 DEF Shifts
<1>3. PICK s : s = [brkShift EXCEPT !.stamp = @ + 1]
  OBVIOUS
<1>4. /\ s \in Shifts /\ s.stamp = n + 1 /\ s.start = brkShift.start /\ s.end = brkShift.end
  BY <1>1, <1>2, <1>3 DEF Shifts
<1>5. CASE \E api \in Breaks!Apis, B \in SUBSET Breaks!Instants : Breaks!ReplaceShiftBreaks(e, api, B)
  <2>1. PICK api \in Breaks!Apis, B \in SUBSET Breaks!Instants : Breaks!ReplaceShiftBreaks(e, api, B)
    BY <1>5
  <2>2. /\ Breaks!Editable(e) /\ Breaks!Pay(e) /\ brkBreaks' = B /\ Breaks!Fits(B, brkShift) /\ Breaks!Seen(api)
        /\ UNCHANGED <<brkOffset, brkRow, brkHandler, brkAnswers>>
    BY <2>1 DEF Breaks!ReplaceShiftBreaks
  <2>3. brkShift' = IF api = "v2" THEN s ELSE brkShift
    BY <1>3, <2>1 DEF Breaks!ReplaceShiftBreaks, Breaks!Touched
  <2>4. /\ brkShift' \in Shifts /\ brkShift'.start = brkShift.start /\ brkShift'.end = brkShift.end
        /\ brkShift'.stamp = (IF api = "v1" THEN brkShift.stamp ELSE brkShift.stamp + 1)
        /\ api \in {"v1", "v2", "setup"}
    BY <1>1, <1>2, <1>4, <2>3 DEF Breaks!Apis
  <2>5. Breaks!Fits(brkBreaks', brkShift')
    BY <2>2, <2>4 DEF Breaks!Fits, Breaks!Inside
  <2>. QED
    BY <2>2, <2>4, <2>5 DEF EditStep
<1>6. CASE \E start, end \in Breaks!Instants : Breaks!SetupShift(e, start, end)
  <2>1. PICK start \in Breaks!Instants, end \in Breaks!Instants : Breaks!SetupShift(e, start, end)
    BY <1>6
  <2>2. /\ Breaks!Editable(e) /\ Breaks!Pay(e) /\ brkBreaks' = Breaks!MovedBreaks(start) /\ Breaks!Seen("setup")
        /\ \A c \in brkBreaks : c + start - brkShift.start < end
        /\ UNCHANGED <<brkOffset, brkRow, brkHandler, brkAnswers>>
    BY <2>1 DEF Breaks!SetupShift
  <2>0. PICK m \in Nat : m = n + 1
    OBVIOUS
  <2>3. PICK t : t = [brkShift EXCEPT !.start = start, !.end = end, !.stamp = m]
    OBVIOUS
  <2>4. t \in Shifts /\ t.start = start /\ t.end = end /\ t.stamp = m
    BY <1>1, <2>3 DEF Shifts
  <2>5. brkShift' = t
    BY <1>2, <2>0, <2>1, <2>3 DEF Breaks!SetupShift
  <2>6. BrkHorizon \in Nat /\ start \in Nat /\ end \in Nat
    BY DEF Breaks!BreaksAssumption, Breaks!Instants
  <2>7. ASSUME NEW b \in Breaks!MovedBreaks(start) PROVE start =< b /\ b < end /\ b \in Breaks!Instants
    <3>1. PICK c \in brkBreaks : b + brkShift.start = c + start
      BY DEF Breaks!MovedBreaks
    <3>2. PICK a \in Nat : a = brkShift.start
      BY <1>1, <2>6 DEF Shifts, Breaks!Instants
    <3>3. b \in Breaks!Instants /\ b \in Nat /\ c \in Nat
      BY <1>1, <2>6 DEF Breaks!MovedBreaks, Breaks!Instants
    <3>4. a =< c /\ c + start - a < end
      BY <1>1, <2>2, <3>2 DEF Breaks!Fits, Breaks!Inside
    <3>. QED
      BY <2>6, <3>1, <3>2, <3>3, <3>4
  <2>8. Breaks!Fits(brkBreaks', brkShift') /\ brkBreaks' \subseteq Breaks!Instants
    BY <2>2, <2>4, <2>5, <2>7 DEF Breaks!Fits, Breaks!Inside
  <2>. QED
    BY <1>2, <2>0, <2>2, <2>4, <2>5, <2>8 DEF EditStep
<1>. QED
  BY <1>5, <1>6

\* The switches leave the rows, the money and the handlers alone.
SwitchStep ==
    /\ UNCHANGED <<brkRow, Breaks!money, brkReceipts, brkHandler, brkAnswers, brkUnseen, brkBreaks>>
    /\ brkOffset' \in {0, 1}
    /\ brkShift' \in Shifts /\ brkShift'.start = brkShift.start /\ brkShift'.end = brkShift.end
    /\ brkShift'.stamp = brkShift.stamp
    /\ ~brkDraft => brkShift' = brkShift

LEMMA SwitchSteps ==
  ASSUME Inv, Breaks!TogglePublication \/ Breaks!ToggleEntitlement \/ Breaks!ReplacePolicy \/ Breaks!RemoveShift
  PROVE  SwitchStep
<1>1. brkShift \in Shifts /\ brkOffset \in {0, 1}
  BY DEF Inv, Types
<1>2. CASE Breaks!TogglePublication \/ Breaks!ToggleEntitlement \/ Breaks!ReplacePolicy
  BY <1>1, <1>2 DEF Breaks!TogglePublication, Breaks!ToggleEntitlement, Breaks!ReplacePolicy, Breaks!others, Breaks!money, SwitchStep
<1>3. CASE Breaks!RemoveShift
  <2>1. PICK s : s = [brkShift EXCEPT !.exists = FALSE]
    OBVIOUS
  <2>2. /\ s \in Shifts /\ s.start = brkShift.start /\ s.end = brkShift.end
        /\ s.stamp = brkShift.stamp
    BY <1>1, <2>1 DEF Shifts
  <2>3. brkShift' = s /\ brkDraft /\ UNCHANGED <<Breaks!others, brkBreaks, brkOffset>>
    BY <1>3, <2>1 DEF Breaks!RemoveShift
  <2>. QED
    BY <1>1, <2>2, <2>3 DEF SwitchStep, Breaks!others, Breaks!money
<1>. QED
  BY <1>2, <1>3

\* A lapse of a lease writes its row, a reused answer repeats one.
LEMMA KeySteps ==
  ASSUME Inv, NEW k \in BrkKeys, Breaks!Reuse(k) \/ Breaks!ClaimExpires(k)
  PROVE  /\ (\E r \in Rows : Writes(k, r)) \/ Repeats(k)
         /\ UNCHANGED <<brkHandler, brkUnseen>>
<1>1. brkRow \in [BrkKeys -> Rows]
  BY DEF Inv, Types
<1>2. CASE Breaks!Reuse(k)
  BY <1>2 DEF Breaks!Reuse, Repeats
<1>3. CASE Breaks!ClaimExpires(k)
  <2>1. PICK r : r = [brkRow[k] EXCEPT !.live = FALSE]
    OBVIOUS
  <2>2. r \in Rows /\ r.status = brkRow[k].status
    BY <1>1, <2>1 DEF Rows
  <2>3. /\ brkRow' = [brkRow EXCEPT ![k] = r] /\ brkRow[k].status = "PENDING"
        /\ UNCHANGED <<Breaks!world, Breaks!money, brkHandler, brkAnswers, brkUnseen>>
    BY <1>3, <2>1 DEF Breaks!ClaimExpires
  <2>. QED
    BY <2>2, <2>3 DEF Writes
<1>. QED
  BY <1>2, <1>3

LEMMA StepKinds ==
  ASSUME Breaks!BreaksAssumption, Inv, [Breaks!Next]_(Breaks!brVars)
  PROVE  \/ \E h \in BrkHandlers : Breaks!Generate(h)
         \/ \E k \in BrkKeys : Breaks!Reuse(k) \/ Breaks!ClaimExpires(k)
         \/ \E e \in BrkEdits : EditStep(e)
         \/ SwitchStep
         \/ UNCHANGED Breaks!brVars
<1>1. CASE \E e \in BrkEdits, api \in Breaks!Apis, B \in SUBSET Breaks!Instants : Breaks!ReplaceShiftBreaks(e, api, B)
  BY <1>1, EditSteps
<1>2. CASE \E e \in BrkEdits, start, end \in Breaks!Instants : Breaks!SetupShift(e, start, end)
  BY <1>2, EditSteps
<1>3. CASE Breaks!TogglePublication \/ Breaks!ToggleEntitlement \/ Breaks!ReplacePolicy \/ Breaks!RemoveShift
  BY <1>3, SwitchSteps
<1>. QED
  BY <1>1, <1>2, <1>3, Zenon DEF Breaks!Next

(***************************************************************************)
(* The commit of a generation.                                             *)
(***************************************************************************)
LEMMA CommitFacts ==
  ASSUME Breaks!BreaksAssumption, Inv, NEW h \in BrkHandlers, Commits(h)
  PROVE  \E k \in BrkKeys : \E r \in Rows :
           /\ k = brkHandler[h].key
           /\ brkRow' = [brkRow EXCEPT ![k] = r]
           /\ brkRow[k].status = "PENDING" /\ r.status = "SUCCEEDED"
           /\ r.data = brkHandler[h].data /\ r.body = brkRow[k].body
           /\ UNCHANGED brkAnswers \/ Breaks!Reply(k, brkHandler[h].data)
           /\ brkWallet > 0 /\ brkWallet' = brkWallet - 1 /\ brkDebits' = brkDebits \cup {k}
           /\ UNCHANGED <<brkReceipts, brkOffset>>
           /\ brkShift' \in Shifts /\ brkBreaks' \subseteq Breaks!Instants /\ Breaks!Fits(brkBreaks', brkShift')
           /\ brkShift'.stamp >= brkShift.stamp
           /\ (brkShift' = brkShift /\ brkBreaks' = brkBreaks)
                \/ (brkDraft /\ brkShift'.stamp > brkShift.stamp /\ brkUnseen[h] \subseteq {"v1"})
           /\ brkHandler[h].body.persist => brkDraft /\ brkUnseen[h] \subseteq {"v1"}
<1>1. PICK k \in BrkKeys : k = brkHandler[h].key
  BY DEF Commits, Inv, HandlersOK
<1>2. /\ brkRow[k] \in Rows /\ brkRow \in [BrkKeys -> Rows] /\ brkShift \in Shifts /\ brkBreaks \subseteq Breaks!Instants
      /\ brkHandler[h] \in HandlerRows /\ Breaks!Fits(brkBreaks, brkShift)
  BY DEF Inv, Types, Breaks!BreaksStayInside
<1>3. PICK r : r = [brkRow[k] EXCEPT !.status = "SUCCEEDED", !.token = None,
                                     !.live = FALSE, !.data = brkHandler[h].data]
  OBVIOUS
<1>4. brkHandler[h].data \in SUBSET Breaks!Instants
  BY <1>2 DEF HandlerRows
<1>5. r \in Rows /\ r.status = "SUCCEEDED" /\ r.data = brkHandler[h].data /\ r.body = brkRow[k].body
  BY <1>2, <1>3, <1>4 DEF Rows
<1>6. /\ brkRow' = [brkRow EXCEPT ![k] = r] /\ brkRow[k].status = "PENDING"
      /\ UNCHANGED brkAnswers \/ Breaks!Reply(k, brkHandler[h].data)
      /\ brkWallet > 0 /\ brkWallet' = brkWallet - 1 /\ brkDebits' = brkDebits \cup {k}
      /\ UNCHANGED <<brkReceipts, brkOffset>>
  BY <1>1, <1>3 DEF Commits, Breaks!Commit, Breaks!Owns, Breaks!CanPay
<1>7. PICK n \in Nat : n = brkShift.stamp
  BY <1>2 DEF Shifts
<1>8. CASE ~brkHandler[h].body.persist
  <2>1. UNCHANGED <<brkBreaks, brkShift>>
    BY <1>8 DEF Commits, Breaks!Commit
  <2>2. /\ brkShift' \in Shifts /\ brkBreaks' \subseteq Breaks!Instants /\ Breaks!Fits(brkBreaks', brkShift')
        /\ brkShift'.stamp >= brkShift.stamp /\ brkShift' = brkShift /\ brkBreaks' = brkBreaks
    BY <1>2, <1>7, <2>1
  <2>. QED
    BY <1>1, <1>5, <1>6, <1>8, <2>2
<1>9. CASE brkHandler[h].body.persist
  <2>1. PICK s : s = [brkShift EXCEPT !.stamp = @ + 1]
    OBVIOUS
  <2>2. s \in Shifts /\ s.stamp = n + 1 /\ s.start = brkShift.start /\ s.end = brkShift.end
    BY <1>2, <1>7, <2>1 DEF Shifts
  <2>3. /\ brkShift' = s /\ brkBreaks' = brkHandler[h].data
        /\ brkDraft /\ brkShift = brkHandler[h].snapshot
    BY <1>9, <2>1 DEF Commits, Breaks!Commit, Breaks!Persistable
  <2>4. Computed(h)
    BY DEF Commits, Inv, HandlersOK
  <2>5. Breaks!Fits(brkHandler[h].data, brkShift) /\ brkUnseen[h] \subseteq {"v1"}
    BY <2>3, <2>4 DEF Computed
  <2>6. Breaks!Fits(brkBreaks', brkShift')
    BY <2>2, <2>3, <2>5 DEF Breaks!Fits, Breaks!Inside
  <2>7. s.stamp >= brkShift.stamp /\ s.stamp > brkShift.stamp
    BY <1>7, <2>2
  <2>. QED
    BY <1>1, <1>4, <1>5, <1>6, <1>9, <2>2, <2>3, <2>5, <2>6, <2>7
<1>. QED
  BY <1>8, <1>9

(***************************************************************************)
(* Every step preserves the invariant.                                     *)
(***************************************************************************)

\* The rows, the shift, the money and the answers.
WorldOK ==
    /\ brkShift \in Shifts /\ brkBreaks \subseteq Breaks!Instants /\ brkOffset \in {0, 1}
    /\ brkRow \in [BrkKeys -> Rows]
    /\ brkWallet \in Nat /\ brkDebits \subseteq BrkKeys \cup BrkEdits /\ brkReceipts \subseteq BrkEdits
    /\ IsFiniteSet(brkDebits)
    /\ Breaks!BreaksStayInside /\ Breaks!GenerationIsPaidOnce /\ Breaks!AnswersAgree

LEMMA WorldKept ==
  ASSUME Breaks!BreaksAssumption, Inv, [Breaks!Next]_(Breaks!brVars)
  PROVE  WorldOK' /\ brkShift'.stamp >= brkShift.stamp
<1>1. /\ WorldOK /\ brkShift.stamp \in Nat /\ brkShift.stamp >= brkShift.stamp
      /\ Cardinality(brkDebits) \in Nat /\ BrkCredits \in Nat /\ BrkKeys \cap BrkEdits = {}
  BY FS_CardinalityType DEF Inv, Types, Shifts, Breaks!BreaksAssumption, WorldOK
<1>2. ASSUME NEW x \in BrkKeys \cup BrkEdits, x \notin brkDebits, brkWallet > 0, brkWallet' = brkWallet - 1,
             brkDebits' = brkDebits \cup {x}
      PROVE  /\ brkWallet' \in Nat /\ brkDebits' \subseteq BrkKeys \cup BrkEdits /\ IsFiniteSet(brkDebits')
             /\ brkWallet' + Cardinality(brkDebits') = BrkCredits
  <2>1. IsFiniteSet(brkDebits') /\ Cardinality(brkDebits') = Cardinality(brkDebits) + 1
    BY <1>1, <1>2, FS_AddElement DEF WorldOK
  <2>2. brkWallet + Cardinality(brkDebits) = BrkCredits /\ brkWallet \in Nat
    BY BreaksCardinality, <1>1 DEF WorldOK, Breaks!GenerationIsPaidOnce
  <2>. QED
    BY <1>1, <1>2, <2>1, <2>2 DEF WorldOK
<1>3. CASE UNCHANGED <<Breaks!world, Breaks!money, brkRow, brkAnswers>>
  BY BreaksCardinality, <1>1, <1>3 DEF Breaks!world, Breaks!money, WorldOK, Breaks!BreaksStayInside, Breaks!Fits, Breaks!Inside,
                    Breaks!GenerationIsPaidOnce, Breaks!AnswersAgree
<1>4. ASSUME NEW k \in BrkKeys, NEW r \in Rows, Writes(k, r)
      PROVE  WorldOK' /\ brkShift'.stamp >= brkShift.stamp
  <2>1. UNCHANGED <<brkShift, brkBreaks, brkOffset, brkReceipts, brkWallet, brkDebits, brkAnswers>>
    BY <1>4 DEF Writes, Breaks!world, Breaks!money
  <2>2. /\ brkRow' \in [BrkKeys -> Rows] /\ brkRow'[k] = r
        /\ \A j \in BrkKeys \ {k} : brkRow'[j] = brkRow[j]
    BY <1>1, <1>4 DEF Writes, WorldOK
  <2>3. brkRow[k].status # "SUCCEEDED" /\ r.status # "SUCCEEDED"
    BY <1>4 DEF Writes
  <2>4. Breaks!GenerationIsPaidOnce'
    <3>1. \A j \in BrkKeys : j \in brkDebits <=> brkRow'[j].status = "SUCCEEDED"
      BY BreaksCardinality, <1>1, <2>2, <2>3 DEF WorldOK, Breaks!GenerationIsPaidOnce
    <3>. QED
      BY BreaksCardinality, <1>1, <2>1, <3>1 DEF WorldOK, Breaks!GenerationIsPaidOnce
  <2>5. Breaks!AnswersAgree'
    BY <1>1, <1>4, <2>1, <2>3 DEF WorldOK, Breaks!AnswersAgree, Writes
  <2>6. Breaks!BreaksStayInside'
    BY <1>1, <2>1 DEF WorldOK, Breaks!BreaksStayInside, Breaks!Fits, Breaks!Inside
  <2>. QED
    BY <1>1, <2>1, <2>2, <2>4, <2>5, <2>6 DEF WorldOK
<1>5. ASSUME NEW k \in BrkKeys, Repeats(k)
      PROVE  WorldOK' /\ brkShift'.stamp >= brkShift.stamp
  <2>1. UNCHANGED <<brkShift, brkBreaks, brkOffset, brkReceipts, brkWallet, brkDebits, brkRow>>
    BY <1>5 DEF Repeats, Breaks!world, Breaks!money
  <2>2. PICK a : a = [key |-> k, body |-> brkRow[k].body, data |-> brkRow[k].data]
    OBVIOUS
  <2>3. /\ brkAnswers' = brkAnswers \cup {a} /\ brkRow[k].status = "SUCCEEDED"
        /\ a.key = k /\ a.body = brkRow[k].body /\ a.data = brkRow[k].data
    BY <1>5, <2>2 DEF Repeats, Breaks!Reply
  <2>4. Breaks!AnswersAgree'
    BY <1>1, <2>1, <2>3 DEF WorldOK, Breaks!AnswersAgree
  <2>5. Breaks!GenerationIsPaidOnce'
    BY BreaksCardinality, <1>1, <2>1 DEF WorldOK, Breaks!GenerationIsPaidOnce
  <2>6. Breaks!BreaksStayInside'
    BY <1>1, <2>1 DEF WorldOK, Breaks!BreaksStayInside, Breaks!Fits, Breaks!Inside
  <2>. QED
    BY <1>1, <2>1, <2>4, <2>5, <2>6 DEF WorldOK
<1>6. ASSUME NEW h \in BrkHandlers, Commits(h)
      PROVE  WorldOK' /\ brkShift'.stamp >= brkShift.stamp
  <2>1. PICK k \in BrkKeys, r \in Rows :
           /\ brkRow' = [brkRow EXCEPT ![k] = r]
           /\ brkRow[k].status = "PENDING" /\ r.status = "SUCCEEDED"
           /\ r.data = brkHandler[h].data /\ r.body = brkRow[k].body
           /\ UNCHANGED brkAnswers \/ Breaks!Reply(k, brkHandler[h].data)
           /\ brkWallet > 0 /\ brkWallet' = brkWallet - 1 /\ brkDebits' = brkDebits \cup {k}
           /\ UNCHANGED <<brkReceipts, brkOffset>>
           /\ brkShift' \in Shifts /\ brkBreaks' \subseteq Breaks!Instants /\ Breaks!Fits(brkBreaks', brkShift')
           /\ brkShift'.stamp >= brkShift.stamp
    BY <1>6, CommitFacts
  <2>2. /\ brkRow' \in [BrkKeys -> Rows] /\ brkRow'[k] = r
        /\ \A j \in BrkKeys \ {k} : brkRow'[j] = brkRow[j]
    BY <1>1, <2>1 DEF WorldOK
  <2>3. k \notin brkDebits
    BY BreaksCardinality, <1>1, <2>1 DEF WorldOK, Breaks!GenerationIsPaidOnce
  <2>4. /\ brkWallet' \in Nat /\ brkDebits' \subseteq BrkKeys \cup BrkEdits /\ IsFiniteSet(brkDebits')
        /\ brkWallet' + Cardinality(brkDebits') = BrkCredits
    BY <1>2, <2>1, <2>3
  <2>5. Breaks!GenerationIsPaidOnce'
    <3>1. \A j \in BrkKeys : j \in brkDebits' <=> brkRow'[j].status = "SUCCEEDED"
      BY BreaksCardinality, <1>1, <2>1, <2>2 DEF WorldOK, Breaks!GenerationIsPaidOnce
    <3>2. brkDebits' \cap BrkEdits = brkReceipts'
      BY BreaksCardinality, <1>1, <2>1 DEF WorldOK, Breaks!GenerationIsPaidOnce
    <3>. QED
      BY BreaksCardinality, <2>4, <3>1, <3>2 DEF Breaks!GenerationIsPaidOnce
  <2>6. \A a \in brkAnswers : a.key # k
    BY <1>1, <2>1 DEF WorldOK, Breaks!AnswersAgree
  <2>7. \A a \in brkAnswers : /\ brkRow'[a.key].status = "SUCCEEDED"
                              /\ a.data = brkRow'[a.key].data /\ a.body = brkRow'[a.key].body
    BY <1>1, <2>1, <2>6 DEF WorldOK, Breaks!AnswersAgree
  <2>8. Breaks!AnswersAgree'
    <3>1. CASE UNCHANGED brkAnswers
      BY <2>7, <3>1 DEF Breaks!AnswersAgree
    <3>2. CASE Breaks!Reply(k, brkHandler[h].data)
      <4>1. PICK a : a = [key |-> k, body |-> brkRow[k].body, data |-> brkHandler[h].data]
        OBVIOUS
      <4>2. brkAnswers' = brkAnswers \cup {a} /\ a.key = k /\ a.body = r.body /\ a.data = r.data
        BY <2>1, <3>2, <4>1 DEF Breaks!Reply
      <4>. QED
        BY <2>1, <2>2, <2>7, <4>2 DEF Breaks!AnswersAgree
    <3>. QED
      BY <2>1, <3>1, <3>2
  <2>9. Breaks!BreaksStayInside'
    BY <2>1 DEF Breaks!BreaksStayInside, Breaks!Fits, Breaks!Inside
  <2>10. brkOffset' \in {0, 1} /\ brkReceipts' \subseteq BrkEdits
    BY <1>1, <2>1 DEF WorldOK
  <2>. QED
    BY <2>1, <2>2, <2>4, <2>5, <2>8, <2>9, <2>10 DEF WorldOK
<1>7. ASSUME NEW e \in BrkEdits, EditStep(e)
      PROVE  WorldOK' /\ brkShift'.stamp >= brkShift.stamp
  <2>1. /\ brkShift' \in Shifts /\ brkBreaks' \subseteq Breaks!Instants /\ Breaks!Fits(brkBreaks', brkShift')
        /\ UNCHANGED <<brkRow, brkAnswers>> /\ e \notin brkReceipts /\ brkWallet > 0
        /\ brkWallet' = brkWallet - 1 /\ brkDebits' = brkDebits \cup {e} /\ brkReceipts' = brkReceipts \cup {e}
    BY <1>7 DEF EditStep, Breaks!Editable, Breaks!CanPay, Breaks!Pay
  <2>2. brkShift'.stamp >= brkShift.stamp
    BY <1>1, <1>7 DEF EditStep
  <2>3. e \notin brkDebits
    BY BreaksCardinality, <1>1, <2>1 DEF WorldOK, Breaks!GenerationIsPaidOnce
  <2>4. /\ brkWallet' \in Nat /\ brkDebits' \subseteq BrkKeys \cup BrkEdits /\ IsFiniteSet(brkDebits')
        /\ brkWallet' + Cardinality(brkDebits') = BrkCredits
    BY <1>2, <2>1, <2>3
  <2>5. Breaks!GenerationIsPaidOnce'
    <3>1. e \notin BrkKeys
      BY <1>1
    <3>2. \A j \in BrkKeys : j \in brkDebits' <=> brkRow'[j].status = "SUCCEEDED"
      BY BreaksCardinality, <1>1, <2>1, <3>1 DEF WorldOK, Breaks!GenerationIsPaidOnce
    <3>3. brkDebits' \cap BrkEdits = brkReceipts'
      BY BreaksCardinality, <1>1, <2>1 DEF WorldOK, Breaks!GenerationIsPaidOnce
    <3>. QED
      BY BreaksCardinality, <2>4, <3>2, <3>3 DEF Breaks!GenerationIsPaidOnce
  <2>6. Breaks!AnswersAgree'
    BY <1>1, <2>1 DEF WorldOK, Breaks!AnswersAgree
  <2>7. Breaks!BreaksStayInside'
    BY <2>1 DEF Breaks!BreaksStayInside, Breaks!Fits, Breaks!Inside
  <2>8. brkReceipts' \subseteq BrkEdits /\ brkRow' \in [BrkKeys -> Rows] /\ brkOffset' \in {0, 1}
    BY <1>1, <1>7, <2>1 DEF WorldOK, EditStep
  <2>. QED
    BY <2>1, <2>2, <2>4, <2>5, <2>6, <2>7, <2>8 DEF WorldOK
<1>8. CASE SwitchStep
  <2>1. Breaks!BreaksStayInside'
    BY <1>1, <1>8 DEF SwitchStep, WorldOK, Breaks!BreaksStayInside, Breaks!Fits, Breaks!Inside
  <2>2. Breaks!GenerationIsPaidOnce' /\ Breaks!AnswersAgree'
    BY BreaksCardinality, <1>1, <1>8 DEF SwitchStep, Breaks!money, WorldOK, Breaks!GenerationIsPaidOnce, Breaks!AnswersAgree
  <2>. QED
    BY <1>1, <1>8, <2>1, <2>2 DEF SwitchStep, Breaks!money, WorldOK
<1>9. CASE UNCHANGED Breaks!brVars
  BY <1>3, <1>9 DEF Breaks!brVars, Breaks!world, Breaks!money
<1>10. ASSUME NEW h \in BrkHandlers, Breaks!Generate(h)
       PROVE  WorldOK' /\ brkShift'.stamp >= brkShift.stamp
  BY <1>3, <1>4, <1>5, <1>6, <1>10, GenerationKinds
<1>11. ASSUME NEW k \in BrkKeys, Breaks!Reuse(k) \/ Breaks!ClaimExpires(k)
       PROVE  WorldOK' /\ brkShift'.stamp >= brkShift.stamp
  BY <1>4, <1>5, <1>11, KeySteps
<1>. QED
  BY <1>7, <1>8, <1>9, <1>10, <1>11, StepKinds

\* What a handler that keeps its place computed stays as it is.
LEMMA ComputedKept ==
  ASSUME Breaks!BreaksAssumption, Inv, [Breaks!Next]_(Breaks!brVars), NEW h \in BrkHandlers,
         brkHandler'[h] = brkHandler[h], brkHandler[h].pc = "complete",
         \/ brkUnseen'[h] = brkUnseen[h]
         \/ \E x \in {"v1", "v2", "setup"} :
              /\ brkUnseen'[h] = brkUnseen[h] \cup {x}
              /\ x # "v1" => brkShift'.stamp > brkShift.stamp
  PROVE  Computed(h)'
<1>1. Computed(h)
  BY DEF Inv, HandlersOK
<1>2. PICK s : s = brkHandler[h].snapshot
  OBVIOUS
<1>3. PICK m \in Nat, n \in Nat, q \in Nat :
         m = s.stamp /\ n = brkShift.stamp /\ q = brkShift'.stamp /\ n =< q
  BY <1>1, <1>2, WorldKept DEF Computed, Shifts, Inv, Types, WorldOK
<1>4. m =< n /\ (m = n => brkUnseen[h] \subseteq {"v1"})
  BY <1>1, <1>2, <1>3 DEF Computed
<1>5. m =< q /\ (m = q => brkUnseen'[h] \subseteq {"v1"})
  BY <1>3, <1>4
<1>. QED
  BY <1>1, <1>2, <1>3, <1>5 DEF Computed, Breaks!Fits, Breaks!Inside

LEMMA HandlersKept ==
  ASSUME Breaks!BreaksAssumption, Inv, [Breaks!Next]_(Breaks!brVars)
  PROVE  /\ brkHandler' \in [BrkHandlers -> HandlerRows]
         /\ brkUnseen' \in [BrkHandlers -> SUBSET {"v1", "v2", "setup"}]
         /\ HandlersOK'
<1>1. /\ brkHandler \in [BrkHandlers -> HandlerRows] /\ HandlersOK /\ brkShift \in Shifts
      /\ brkUnseen \in [BrkHandlers -> SUBSET {"v1", "v2", "setup"}]
  BY DEF Inv, Types
<1>2. CASE UNCHANGED <<brkHandler, brkUnseen>>
  <2>1. \A h \in BrkHandlers : brkHandler[h].pc = "complete" => Computed(h)'
    BY <1>2, ComputedKept
  <2>. QED
    BY <1>1, <1>2, <2>1 DEF HandlersOK
<1>3. ASSUME NEW h \in BrkHandlers, Breaks!Generate(h)
      PROVE  /\ brkHandler' \in [BrkHandlers -> HandlerRows]
             /\ brkUnseen' \in [BrkHandlers -> SUBSET {"v1", "v2", "setup"}]
             /\ HandlersOK'
  <2>1. PICK x \in HandlerRows : Moves(h, x)
    BY <1>3, HandlerMoves
  <2>2. /\ brkHandler' \in [BrkHandlers -> HandlerRows] /\ brkHandler'[h] = x
        /\ \A g \in BrkHandlers \ {h} : brkHandler'[g] = brkHandler[g] /\ brkUnseen'[g] = brkUnseen[g]
        /\ brkUnseen' \in [BrkHandlers -> SUBSET {"v1", "v2", "setup"}]
    BY <1>1, <2>1 DEF Moves
  <2>3. \A g \in BrkHandlers \ {h} : brkHandler'[g].pc = "complete" => Computed(g)'
    BY <2>2, ComputedKept
  <2>4. ASSUME x.pc = "complete" PROVE Computed(h)'
    <3>1. /\ x.snapshot = brkShift /\ x.data = Breaks!Plan /\ brkShift' = brkShift /\ brkUnseen'[h] = {}
      BY <2>1, <2>4 DEF Moves
    <3>2. Breaks!Fits(Breaks!Plan, brkShift)
      BY DEF Breaks!Plan, Breaks!Fits
    <3>3. brkShift.stamp \in Nat
      BY <1>1 DEF Shifts
    <3>4. Breaks!Fits(x.data, x.snapshot)
      BY <3>1, <3>2
    <3>. QED
      BY <1>1, <2>2, <3>1, <3>3, <3>4 DEF Computed, Breaks!Fits, Breaks!Inside
  <2>5. x.pc # "idle" => x.key \in BrkKeys /\ x.body \in Breaks!Bodies
    BY <2>1 DEF Moves
  <2>6. \A g \in BrkHandlers : brkHandler'[g].pc = "complete" => Computed(g)'
    BY <2>2, <2>3, <2>4
  <2>7. \A g \in BrkHandlers : brkHandler'[g].pc # "idle" =>
                                   brkHandler'[g].key \in BrkKeys /\ brkHandler'[g].body \in Breaks!Bodies
    BY <1>1, <2>2, <2>5 DEF HandlersOK
  <2>. QED
    BY <2>2, <2>6, <2>7 DEF HandlersOK
<1>4. ASSUME NEW e \in BrkEdits, EditStep(e)
      PROVE  /\ brkHandler' \in [BrkHandlers -> HandlerRows]
             /\ brkUnseen' \in [BrkHandlers -> SUBSET {"v1", "v2", "setup"}]
             /\ HandlersOK'
  <2>1. PICK x \in {"v1", "v2", "setup"} :
         /\ Breaks!Seen(x)
         /\ brkShift'.stamp = (IF x = "v1" THEN brkShift.stamp ELSE brkShift.stamp + 1)
    BY <1>4 DEF EditStep
  <2>2. /\ UNCHANGED brkHandler /\ \A h \in BrkHandlers : brkUnseen'[h] = brkUnseen[h] \cup {x}
        /\ brkUnseen' \in [BrkHandlers -> SUBSET {"v1", "v2", "setup"}]
    BY <1>1, <1>4, <2>1 DEF EditStep, Breaks!Seen
  <2>3. x # "v1" => brkShift'.stamp > brkShift.stamp
    <3>1. brkShift.stamp \in Nat
      BY <1>1 DEF Shifts
    <3>. QED
      BY <2>1, <3>1
  <2>4. \A h \in BrkHandlers : brkHandler[h].pc = "complete" => Computed(h)'
    BY <2>2, <2>3, ComputedKept
  <2>. QED
    BY <1>1, <2>2, <2>4 DEF HandlersOK
<1>5. CASE \E k \in BrkKeys : Breaks!Reuse(k) \/ Breaks!ClaimExpires(k)
  BY <1>2, <1>5, KeySteps
<1>6. CASE SwitchStep \/ UNCHANGED Breaks!brVars
  BY <1>2, <1>6 DEF SwitchStep, Breaks!brVars
<1>. QED
  BY <1>3, <1>4, <1>5, <1>6, StepKinds

LEMMA InitInv ==
  ASSUME Breaks!BreaksAssumption, Breaks!Init
  PROVE  Inv
<1>1. brkShift \in Shifts /\ 0 \in Breaks!Instants /\ BrkHorizon \in Breaks!Instants
  BY DEF Breaks!Init, Shifts, Breaks!Instants, Breaks!BreaksAssumption
<1>2. IsFiniteSet({}) /\ Cardinality({}) = 0
  BY FS_EmptySet
<1>3. Breaks!Idle \in HandlerRows /\ Breaks!NoRow \in Rows /\ Breaks!Idle.pc = "idle" /\ Breaks!NoRow.status = "none"
  BY IdleType DEF Breaks!Idle, Breaks!NoRow
<1>4. Types
  BY <1>1, <1>2, <1>3 DEF Breaks!Init, Types, Breaks!BreaksAssumption
<1>5. Breaks!GenerationIsPaidOnce
  BY BreaksCardinality, <1>2, <1>3 DEF Breaks!Init, Breaks!GenerationIsPaidOnce, Breaks!BreaksAssumption
<1>6. HandlersOK /\ Breaks!BreaksStayInside /\ Breaks!AnswersAgree
  BY <1>3 DEF Breaks!Init, HandlersOK, Breaks!BreaksStayInside, Breaks!Fits, Breaks!AnswersAgree
<1>. QED
  BY <1>4, <1>5, <1>6 DEF Inv

THEOREM Invariance ==
  ASSUME Breaks!BreaksAssumption PROVE Breaks!Spec => []Inv
<1>1. Breaks!Init => Inv
  BY InitInv
<1>2. ASSUME Inv, [Breaks!Next]_(Breaks!brVars) PROVE Inv'
  BY <1>2, WorldKept, HandlersKept DEF WorldOK, Inv, Types
<1>. QED
  BY <1>1, <1>2, PTL DEF Breaks!Spec

\* Every row has its type, for any number of keys, edits and handlers.
THEOREM BreaksTypeCorrect ==
  ASSUME Breaks!BreaksAssumption PROVE Breaks!Spec => []Breaks!TypeOK
<1>1. ASSUME Inv PROVE Breaks!TypeOK
  <2>1. \A k \in BrkKeys : /\ brkRow[k].status \in {"none", "PENDING", "SUCCEEDED", "FAILED"}
                           /\ brkRow[k].body \in Breaks!Bodies \cup {None}
                           /\ brkRow[k].failure \in Breaks!Failures \cup {None}
    BY <1>1 DEF Inv, Types, Rows
  <2>2. \A h \in BrkHandlers :
          brkHandler[h].pc \in {"idle", "prepare", "complete", "recover", "fail", "done"}
    BY <1>1 DEF Inv, Types, HandlerRows
  <2>. QED
    BY <1>1, <2>1, <2>2 DEF Inv, Types, Breaks!TypeOK, Shifts
<1>. QED
  BY <1>1, Invariance, PTL

\* Saved breaks lie inside their shift, however edits, generations and moves
\* of the shift follow one another.
THEOREM BreaksAreInside ==
  ASSUME Breaks!BreaksAssumption PROVE Breaks!Spec => []Breaks!BreaksStayInside
  BY Invariance, PTL DEF Inv

\* A generation is paid when it succeeded and only then, and once, whatever
\* was lost, retried or taken over.
THEOREM GenerationsArePaidOnce ==
  ASSUME Breaks!BreaksAssumption PROVE Breaks!Spec => []Breaks!GenerationIsPaidOnce
  BY Invariance, PTL DEF Inv

\* All answers to one key are the stored one.
THEOREM GenerationAnswersAgree ==
  ASSUME Breaks!BreaksAssumption PROVE Breaks!Spec => []Breaks!AnswersAgree
  BY Invariance, PTL DEF Inv

\* A generation is saved only over the shift it was computed for, nothing
\* changes a published schedule, and what v1 rejected stays so.
THEOREM SavedGenerationsAreCurrent ==
  ASSUME Breaks!BreaksAssumption PROVE Breaks!Spec => Breaks!GenerationIsCurrent
<1>1. ASSUME Inv, Breaks!Next PROVE Breaks!SavedIsCurrent
  <2>0. brkRow \in [BrkKeys -> Rows] /\ brkHandler \in [BrkHandlers -> HandlerRows]
    BY <1>1 DEF Inv, Types
  <2>1. ASSUME UNCHANGED <<brkShift, brkBreaks>>,
               \A k \in BrkKeys : brkRow'[k].status = "SUCCEEDED" => brkRow[k].status = "SUCCEEDED",
               \A k \in BrkKeys : (brkRow[k].status = "FAILED" /\ brkRow[k].body.api = "v1"
                  /\ brkRow[k].failure \in {"conflict", "rejected"}) => brkRow'[k] = brkRow[k]
        PROVE  Breaks!SavedIsCurrent
    <3>1. ASSUME NEW h \in BrkHandlers, Breaks!Persists(h) PROVE FALSE
      <4>1. PICK k : k = brkHandler[h].key
        OBVIOUS
      <4>2. k \in BrkKeys /\ brkRow'[k].status = "SUCCEEDED" /\ brkRow[k].status = "PENDING"
        BY <1>1, <3>1, <4>1 DEF Breaks!Persists, Inv, HandlersOK
      <4>. QED
        BY <2>1, <4>2
    <3>. QED
      BY <2>1, <3>1 DEF Breaks!SavedIsCurrent
  <2>2. ASSUME UNCHANGED <<Breaks!world, Breaks!money, brkRow, brkAnswers>> PROVE Breaks!SavedIsCurrent
    BY <2>1, <2>2 DEF Breaks!world
  <2>3. ASSUME NEW k \in BrkKeys, NEW r \in Rows, Writes(k, r) PROVE Breaks!SavedIsCurrent
    BY <2>0, <2>1, <2>3 DEF Writes, Breaks!world
  <2>4. ASSUME NEW k \in BrkKeys, Repeats(k) PROVE Breaks!SavedIsCurrent
    BY <2>1, <2>4 DEF Repeats, Breaks!world
  <2>5. ASSUME NEW h \in BrkHandlers, Breaks!Generate(h), Commits(h) PROVE Breaks!SavedIsCurrent
    <3>1. PICK k \in BrkKeys, r \in Rows :
           /\ k = brkHandler[h].key
           /\ brkRow' = [brkRow EXCEPT ![k] = r]
           /\ brkRow[k].status = "PENDING"
           /\ Breaks!Fits(brkBreaks', brkShift')
           /\ (brkShift' = brkShift /\ brkBreaks' = brkBreaks)
                \/ (brkDraft /\ brkShift'.stamp > brkShift.stamp /\ brkUnseen[h] \subseteq {"v1"})
           /\ brkHandler[h].body.persist => brkDraft /\ brkUnseen[h] \subseteq {"v1"}
      BY <1>1, <2>5, CommitFacts
    <3>2. \A g \in BrkHandlers \ {h} : brkHandler'[g] = brkHandler[g]
      BY <1>1, <2>0, <2>5, HandlerMoves DEF Moves
    <3>3. \A g \in BrkHandlers : Breaks!Persists(g) => g = h
      BY <3>2 DEF Breaks!Persists
    <3>4. \A g \in BrkHandlers : Breaks!Persists(g) =>
             brkUnseen[g] \subseteq {"v1"} /\ Breaks!Fits(brkBreaks', brkShift') /\ brkDraft
      BY <3>1, <3>3 DEF Breaks!Persists
    <3>5. ~brkDraft => brkBreaks' = brkBreaks /\ brkShift' = brkShift
      BY <3>1
    <3>6. \A j \in BrkKeys : brkRow[j].status = "FAILED" => brkRow'[j] = brkRow[j]
      BY <2>0, <3>1
    <3>. QED
      BY <3>4, <3>5, <3>6 DEF Breaks!SavedIsCurrent
  <2>6. ASSUME NEW e \in BrkEdits, EditStep(e) PROVE Breaks!SavedIsCurrent
    <3>1. UNCHANGED <<brkRow, brkHandler>> /\ brkDraft
      BY <2>6 DEF EditStep, Breaks!Editable
    <3>. QED
      BY <3>1 DEF Breaks!SavedIsCurrent, Breaks!Persists
  <2>7. CASE SwitchStep
    BY <2>7 DEF SwitchStep, Breaks!SavedIsCurrent, Breaks!Persists
  <2>8. CASE UNCHANGED Breaks!brVars
    BY <2>2, <2>8 DEF Breaks!brVars, Breaks!world, Breaks!money
  <2>9. ASSUME NEW h \in BrkHandlers, Breaks!Generate(h) PROVE Breaks!SavedIsCurrent
    BY <1>1, <2>2, <2>3, <2>4, <2>5, <2>9, GenerationKinds
  <2>10. ASSUME NEW k \in BrkKeys, Breaks!Reuse(k) \/ Breaks!ClaimExpires(k) PROVE Breaks!SavedIsCurrent
    BY <1>1, <2>3, <2>4, <2>10, KeySteps
  <2>. QED
    BY <1>1, <2>6, <2>7, <2>8, <2>9, <2>10, StepKinds
<1>2. Inv /\ [Breaks!Next]_(Breaks!brVars) => [Breaks!SavedIsCurrent]_(Breaks!brVars)
  BY <1>1
<1>. QED
  BY <1>2, Invariance, PTL DEF Breaks!Spec, Breaks!GenerationIsCurrent

\* A behaviour of the composition is one of this component.
LEMMA BreaksRuns == MCSpec => Breaks!Spec
<1>1. MCInit => Breaks!Init
  BY DEF MCInit
<1>2. [MCNext]_mcVars => [Breaks!Next]_(Breaks!brVars)
  <2>1. UNCHANGED brkVars => UNCHANGED Breaks!brVars
    BY DEF brkVars, Breaks!brVars
  <2>2. [MCNext]_mcVars => Breaks!Next \/ UNCHANGED brkVars
    BY DEF MCNext, mcVars
  <2> QED BY <2>1, <2>2
<1> QED BY <1>1, <1>2, PTL DEF MCSpec, Breaks!Spec

\* Breaks in the composition: they lie inside their shift, a generation is paid
\* when it succeeds and only once, and all answers to one key are the same.
THEOREM BreaksAreSafe == MCSpec => []BreaksSafe
<1>1. Breaks!BreaksAssumption
  BY WorkforceAssumption
<1> QED
  BY <1>1, BreaksRuns, BreaksTypeCorrect, BreaksAreInside, GenerationsArePaidOnce,
     GenerationAnswersAgree, PTL DEF BreaksSafe

\* The editing of the proofs is the one of the composition.
LEMMA EditSame ==
    /\ P1!Edit!EditingAssumption <=> Edit!EditingAssumption
    /\ P1!Edit!Init <=> Edit!Init
    /\ P1!Edit!Next <=> Edit!Next
    /\ P1!Edit!TypeOK <=> Edit!TypeOK
    /\ P1!Edit!NobodyIsDoubleBooked <=> Edit!NobodyIsDoubleBooked
    /\ P1!Edit!RowsFit <=> Edit!RowsFit
    /\ P1!Edit!RevisionNamesContent <=> Edit!RevisionNamesContent
    /\ P1!Edit!PublishedAsConfirmed <=> Edit!PublishedAsConfirmed
    /\ P1!Edit!PublishedIsWorkable <=> Edit!PublishedIsWorkable
    /\ P1!Edit!editVars = Edit!editVars
<1>1. P1!Edit!EditingAssumption <=> Edit!EditingAssumption
  BY Zenon DEF P1!Edit!EditingAssumption, Edit!EditingAssumption
<1>2. P1!Edit!Init <=> Edit!Init
  BY Zenon DEF P1!Edit!Init, Edit!Init, P1!Edit!Schedules, Edit!Schedules, P1!Edit!NewSchedule,
     Edit!NewSchedule, P1!Edit!Day, Edit!Day, P1!Edit!NoSchedule, Edit!NoSchedule,
     P1!Edit!Shifts, Edit!Shifts, P1!Edit!NoShift, Edit!NoShift, P1!Edit!NoBoard, Edit!NoBoard,
     P1!Edit!NoContract, Edit!NoContract, P1!Edit!NoSolve, Edit!NoSolve
<1>3. P1!Edit!Next <=> Edit!Next
  BY Zenon DEF P1!Edit!Next, Edit!Next, P1!Edit!EditShifts, Edit!EditShifts,
     P1!Edit!EditSchedules, Edit!EditSchedules, P1!Edit!UseBoards, Edit!UseBoards,
     P1!Edit!Deactivate, Edit!Deactivate, P1!Edit!Reinstate, Edit!Reinstate,
     P1!Edit!RemoveLocation, Edit!RemoveLocation, P1!Edit!ToggleHook, Edit!ToggleHook,
     P1!Edit!Shifts, Edit!Shifts, P1!Edit!Assignees, Edit!Assignees, P1!Edit!Schedules,
     Edit!Schedules, P1!Edit!CreateShift, Edit!CreateShift, P1!Edit!CreateShiftAndDraft,
     Edit!CreateShiftAndDraft, P1!Edit!UpdateShift, Edit!UpdateShift, P1!Edit!RemoveShift,
     Edit!RemoveShift, P1!Edit!ReplaceBreaks, Edit!ReplaceBreaks, P1!Edit!BulkAssign,
     Edit!BulkAssign, P1!Edit!CreateSchedule, Edit!CreateSchedule, P1!Edit!Windows,
     Edit!Windows, P1!Edit!ReplaceDemand, Edit!ReplaceDemand, P1!Edit!RemoveSchedule,
     Edit!RemoveSchedule, P1!Edit!Reopen, Edit!Reopen, P1!Edit!StartSolve, Edit!StartSolve,
     P1!Edit!FailSolve, Edit!FailSolve, P1!Edit!FinishSolve, Edit!FinishSolve,
     P1!Edit!ReadShifts, Edit!ReadShifts, P1!Edit!ReadSchedule, Edit!ReadSchedule,
     P1!Edit!ApplySome, Edit!ApplySome, P1!Edit!ReopenSeen, Edit!ReopenSeen,
     P1!Edit!PublishPreflight, Edit!PublishPreflight, P1!Edit!Publish, Edit!Publish,
     P1!Edit!Replace, Edit!Replace, P1!Edit!Live, Edit!Live, P1!Edit!Draft, Edit!Draft,
     P1!Edit!Switch, Edit!Switch, P1!Edit!Bumped, Edit!Bumped, P1!Edit!Edit, Edit!Edit,
     P1!Edit!Fresh, Edit!Fresh, P1!Edit!Open, Edit!Open, P1!Edit!Schedulable, Edit!Schedulable,
     P1!Edit!Within, Edit!Within, P1!Edit!Free, Edit!Free, P1!Edit!Pay, Edit!Pay, P1!Edit!Row,
     Edit!Row, P1!Edit!world, Edit!world, P1!Edit!FreshSchedule, Edit!FreshSchedule,
     P1!Edit!NoOverlapAt, Edit!NoOverlapAt, P1!Edit!Day, Edit!Day, P1!Edit!NewSchedule,
     Edit!NewSchedule, P1!Edit!Changed, Edit!Changed, P1!Edit!Inside, Edit!Inside,
     P1!Edit!Translated, Edit!Translated, P1!Edit!Gone, Edit!Gone, P1!Edit!NoBatchOverlaps,
     Edit!NoBatchOverlaps, P1!Edit!DemandFits, Edit!DemandFits, P1!Edit!NoSolve, Edit!NoSolve,
     P1!Edit!Of, Edit!Of, P1!Edit!Reopened, Edit!Reopened, P1!Edit!Eligible, Edit!Eligible,
     P1!Edit!AssignedNoOverlap, Edit!AssignedNoOverlap, P1!Edit!Shown, Edit!Shown,
     P1!Edit!Hidden, Edit!Hidden, P1!Edit!Exists, Edit!Exists, P1!Edit!NoBoard, Edit!NoBoard,
     P1!Edit!Apply, Edit!Apply, P1!Edit!NoOps, Edit!NoOps, P1!Edit!Asked, Edit!Asked,
     P1!Edit!Kept, Edit!Kept, P1!Edit!IfMatch, Edit!IfMatch, P1!Edit!Price, Edit!Price,
     P1!Edit!Content, Edit!Content, P1!Edit!PublishableShifts, Edit!PublishableShifts,
     P1!Edit!DemandIsCovered, Edit!DemandIsCovered, P1!Edit!WithinAvailability,
     Edit!WithinAvailability, P1!Edit!WithinMaxHours, Edit!WithinMaxHours,
     P1!Edit!ContractMatches, Edit!ContractMatches, P1!Edit!Assigned, Edit!Assigned,
     P1!Edit!Unused, Edit!Unused, P1!Edit!Overlaps, Edit!Overlaps, P1!Edit!NoShift,
     Edit!NoShift, P1!Edit!NoSchedule, Edit!NoSchedule, P1!Edit!Planned, Edit!Planned,
     P1!Edit!Requested, Edit!Requested, P1!Edit!PlanIsValid, Edit!PlanIsValid,
     P1!Edit!HasRequiredBreaks, Edit!HasRequiredBreaks, P1!Edit!Segments, Edit!Segments,
     P1!Edit!CoverageBoundaries, Edit!CoverageBoundaries, P1!Edit!Working, Edit!Working,
     P1!Edit!LocalDays, Edit!LocalDays, P1!Edit!Hours, Edit!Hours, P1!Edit!Length, Edit!Length,
     P1!Edit!Worked, Edit!Worked, P1!Edit!Cardinality, Edit!Cardinality, P1!Edit!Max, Edit!Max,
     P1!Edit!Min, Edit!Min
<1>4. P1!Edit!TypeOK <=> Edit!TypeOK
  BY Zenon DEF P1!Edit!TypeOK, Edit!TypeOK, P1!Edit!Schedules, Edit!Schedules, P1!Edit!Shifts,
     Edit!Shifts, P1!Edit!Assignees, Edit!Assignees, P1!Edit!Person, Edit!Person,
     P1!Edit!NoSolve, Edit!NoSolve
<1>5. P1!Edit!NobodyIsDoubleBooked <=> Edit!NobodyIsDoubleBooked
  BY Zenon DEF P1!Edit!NobodyIsDoubleBooked, Edit!NobodyIsDoubleBooked, P1!Edit!Live, Edit!Live,
     P1!Edit!Overlaps, Edit!Overlaps, P1!Edit!Shifts, Edit!Shifts
<1>6. P1!Edit!RowsFit <=> Edit!RowsFit
  BY Zenon DEF P1!Edit!RowsFit, Edit!RowsFit, P1!Edit!Schedules, Edit!Schedules, P1!Edit!Exists,
     Edit!Exists, P1!Edit!Overlaps, Edit!Overlaps, P1!Edit!Live, Edit!Live, P1!Edit!Within,
     Edit!Within, P1!Edit!Inside, Edit!Inside, P1!Edit!Shifts, Edit!Shifts
<1>7. P1!Edit!RevisionNamesContent <=> Edit!RevisionNamesContent
  BY Zenon DEF P1!Edit!RevisionNamesContent, Edit!RevisionNamesContent, P1!Edit!Schedules,
     Edit!Schedules, P1!Edit!Exists, Edit!Exists, P1!Edit!IfMatch, Edit!IfMatch, P1!Edit!Shown,
     Edit!Shown, P1!Edit!Of, Edit!Of, P1!Edit!Live, Edit!Live, P1!Edit!Shifts, Edit!Shifts
<1>8. P1!Edit!PublishedAsConfirmed <=> Edit!PublishedAsConfirmed
  BY Zenon DEF P1!Edit!PublishedAsConfirmed, Edit!PublishedAsConfirmed, P1!Edit!Schedules,
     Edit!Schedules, P1!Edit!Content, Edit!Content, P1!Edit!Of, Edit!Of, P1!Edit!Live,
     Edit!Live, P1!Edit!Shifts, Edit!Shifts
<1>9. P1!Edit!PublishedIsWorkable <=> Edit!PublishedIsWorkable
  BY Zenon DEF P1!Edit!PublishedIsWorkable, Edit!PublishedIsWorkable, P1!Edit!Published,
     Edit!Published, P1!Edit!Covered, Edit!Covered, P1!Edit!Of, Edit!Of,
     P1!Edit!HasRequiredBreaks, Edit!HasRequiredBreaks, P1!Edit!Worked, Edit!Worked,
     P1!Edit!Hours, Edit!Hours, P1!Edit!Schedules, Edit!Schedules, P1!Edit!Live, Edit!Live,
     P1!Edit!Length, Edit!Length, P1!Edit!Shifts, Edit!Shifts, P1!Edit!Cardinality,
     Edit!Cardinality
<1>10. P1!Edit!editVars = Edit!editVars
  BY Zenon DEF P1!Edit!editVars, Edit!editVars
<1> QED BY <1>1, <1>2, <1>3, <1>4, <1>5, <1>6, <1>7, <1>8, <1>9, <1>10

LEMMA EditRuns == MCSpec => P1!Edit!Spec
<1>1. MCInit => P1!Edit!Init
  BY EditSame DEF MCInit
<1>2. [MCNext]_mcVars => [P1!Edit!Next]_(P1!Edit!editVars)
  <2>1. UNCHANGED edtVars => UNCHANGED P1!Edit!editVars
    BY DEF edtVars, P1!Edit!editVars
  <2>2. [MCNext]_mcVars => Edit!Next \/ UNCHANGED edtVars
    BY DEF MCNext, mcVars
  <2> QED BY <2>1, <2>2, EditSame
<1> QED BY <1>1, <1>2, PTL DEF MCSpec, P1!Edit!Spec

\* The editing of the proofs is the one of the composition.
LEMMA PublicationSame ==
    /\ P2!Edit!EditingAssumption <=> Publication!EditingAssumption
    /\ P2!Edit!Init <=> Publication!Init
    /\ P2!Edit!Next <=> Publication!Next
    /\ P2!Edit!RowsFit <=> Publication!RowsFit
    /\ P2!Edit!RevisionNamesContent <=> Publication!RevisionNamesContent
    /\ P2!Edit!PublishedAsConfirmed <=> Publication!PublishedAsConfirmed
    /\ P2!Edit!PublishedIsWorkable <=> Publication!PublishedIsWorkable
    /\ P2!Edit!editVars = Publication!editVars
<1>1. P2!Edit!EditingAssumption <=> Publication!EditingAssumption
  BY Zenon DEF P2!Edit!EditingAssumption, Publication!EditingAssumption
<1>2. P2!Edit!Init <=> Publication!Init
  BY Zenon DEF P2!Edit!Init, Publication!Init, P2!Edit!Schedules, Publication!Schedules,
     P2!Edit!NewSchedule, Publication!NewSchedule, P2!Edit!Day, Publication!Day,
     P2!Edit!NoSchedule, Publication!NoSchedule, P2!Edit!Shifts, Publication!Shifts,
     P2!Edit!NoShift, Publication!NoShift, P2!Edit!NoBoard, Publication!NoBoard,
     P2!Edit!NoContract, Publication!NoContract, P2!Edit!NoSolve, Publication!NoSolve
<1>3. P2!Edit!Next <=> Publication!Next
  BY Zenon DEF P2!Edit!Next, Publication!Next, P2!Edit!EditShifts, Publication!EditShifts,
     P2!Edit!EditSchedules, Publication!EditSchedules, P2!Edit!UseBoards, Publication!UseBoards,
     P2!Edit!Deactivate, Publication!Deactivate, P2!Edit!Reinstate, Publication!Reinstate,
     P2!Edit!RemoveLocation, Publication!RemoveLocation, P2!Edit!ToggleHook,
     Publication!ToggleHook, P2!Edit!Shifts, Publication!Shifts, P2!Edit!Assignees,
     Publication!Assignees, P2!Edit!Schedules, Publication!Schedules, P2!Edit!CreateShift,
     Publication!CreateShift, P2!Edit!CreateShiftAndDraft, Publication!CreateShiftAndDraft,
     P2!Edit!UpdateShift, Publication!UpdateShift, P2!Edit!RemoveShift, Publication!RemoveShift,
     P2!Edit!ReplaceBreaks, Publication!ReplaceBreaks, P2!Edit!BulkAssign,
     Publication!BulkAssign, P2!Edit!CreateSchedule, Publication!CreateSchedule,
     P2!Edit!Windows, Publication!Windows, P2!Edit!ReplaceDemand, Publication!ReplaceDemand,
     P2!Edit!RemoveSchedule, Publication!RemoveSchedule, P2!Edit!Reopen, Publication!Reopen,
     P2!Edit!StartSolve, Publication!StartSolve, P2!Edit!FailSolve, Publication!FailSolve,
     P2!Edit!FinishSolve, Publication!FinishSolve, P2!Edit!ReadShifts, Publication!ReadShifts,
     P2!Edit!ReadSchedule, Publication!ReadSchedule, P2!Edit!ApplySome, Publication!ApplySome,
     P2!Edit!ReopenSeen, Publication!ReopenSeen, P2!Edit!PublishPreflight,
     Publication!PublishPreflight, P2!Edit!Publish, Publication!Publish, P2!Edit!Replace,
     Publication!Replace, P2!Edit!Live, Publication!Live, P2!Edit!Draft, Publication!Draft,
     P2!Edit!Switch, Publication!Switch, P2!Edit!Bumped, Publication!Bumped, P2!Edit!Edit,
     Publication!Edit, P2!Edit!Fresh, Publication!Fresh, P2!Edit!Open, Publication!Open,
     P2!Edit!Schedulable, Publication!Schedulable, P2!Edit!Within, Publication!Within,
     P2!Edit!Free, Publication!Free, P2!Edit!Pay, Publication!Pay, P2!Edit!Row, Publication!Row,
     P2!Edit!world, Publication!world, P2!Edit!FreshSchedule, Publication!FreshSchedule,
     P2!Edit!NoOverlapAt, Publication!NoOverlapAt, P2!Edit!Day, Publication!Day,
     P2!Edit!NewSchedule, Publication!NewSchedule, P2!Edit!Changed, Publication!Changed,
     P2!Edit!Inside, Publication!Inside, P2!Edit!Translated, Publication!Translated,
     P2!Edit!Gone, Publication!Gone, P2!Edit!NoBatchOverlaps, Publication!NoBatchOverlaps,
     P2!Edit!DemandFits, Publication!DemandFits, P2!Edit!NoSolve, Publication!NoSolve,
     P2!Edit!Of, Publication!Of, P2!Edit!Reopened, Publication!Reopened, P2!Edit!Eligible,
     Publication!Eligible, P2!Edit!AssignedNoOverlap, Publication!AssignedNoOverlap,
     P2!Edit!Shown, Publication!Shown, P2!Edit!Hidden, Publication!Hidden, P2!Edit!Exists,
     Publication!Exists, P2!Edit!NoBoard, Publication!NoBoard, P2!Edit!Apply, Publication!Apply,
     P2!Edit!NoOps, Publication!NoOps, P2!Edit!Asked, Publication!Asked, P2!Edit!Kept,
     Publication!Kept, P2!Edit!IfMatch, Publication!IfMatch, P2!Edit!Price, Publication!Price,
     P2!Edit!Content, Publication!Content, P2!Edit!PublishableShifts,
     Publication!PublishableShifts, P2!Edit!DemandIsCovered, Publication!DemandIsCovered,
     P2!Edit!WithinAvailability, Publication!WithinAvailability, P2!Edit!WithinMaxHours,
     Publication!WithinMaxHours, P2!Edit!ContractMatches, Publication!ContractMatches,
     P2!Edit!Assigned, Publication!Assigned, P2!Edit!Unused, Publication!Unused,
     P2!Edit!Overlaps, Publication!Overlaps, P2!Edit!NoShift, Publication!NoShift,
     P2!Edit!NoSchedule, Publication!NoSchedule, P2!Edit!Planned, Publication!Planned,
     P2!Edit!Requested, Publication!Requested, P2!Edit!PlanIsValid, Publication!PlanIsValid,
     P2!Edit!HasRequiredBreaks, Publication!HasRequiredBreaks, P2!Edit!Segments,
     Publication!Segments, P2!Edit!CoverageBoundaries, Publication!CoverageBoundaries,
     P2!Edit!Working, Publication!Working, P2!Edit!LocalDays, Publication!LocalDays,
     P2!Edit!Hours, Publication!Hours, P2!Edit!Length, Publication!Length, P2!Edit!Worked,
     Publication!Worked, P2!Edit!Cardinality, Publication!Cardinality, P2!Edit!Max,
     Publication!Max, P2!Edit!Min, Publication!Min
<1>4. P2!Edit!RowsFit <=> Publication!RowsFit
  BY Zenon DEF P2!Edit!RowsFit, Publication!RowsFit, P2!Edit!Schedules, Publication!Schedules,
     P2!Edit!Exists, Publication!Exists, P2!Edit!Overlaps, Publication!Overlaps, P2!Edit!Live,
     Publication!Live, P2!Edit!Within, Publication!Within, P2!Edit!Inside, Publication!Inside,
     P2!Edit!Shifts, Publication!Shifts
<1>5. P2!Edit!RevisionNamesContent <=> Publication!RevisionNamesContent
  BY Zenon DEF P2!Edit!RevisionNamesContent, Publication!RevisionNamesContent,
     P2!Edit!Schedules, Publication!Schedules, P2!Edit!Exists, Publication!Exists,
     P2!Edit!IfMatch, Publication!IfMatch, P2!Edit!Shown, Publication!Shown, P2!Edit!Of,
     Publication!Of, P2!Edit!Live, Publication!Live, P2!Edit!Shifts, Publication!Shifts
<1>6. P2!Edit!PublishedAsConfirmed <=> Publication!PublishedAsConfirmed
  BY Zenon DEF P2!Edit!PublishedAsConfirmed, Publication!PublishedAsConfirmed,
     P2!Edit!Schedules, Publication!Schedules, P2!Edit!Content, Publication!Content, P2!Edit!Of,
     Publication!Of, P2!Edit!Live, Publication!Live, P2!Edit!Shifts, Publication!Shifts
<1>7. P2!Edit!PublishedIsWorkable <=> Publication!PublishedIsWorkable
  BY Zenon DEF P2!Edit!PublishedIsWorkable, Publication!PublishedIsWorkable, P2!Edit!Published,
     Publication!Published, P2!Edit!Covered, Publication!Covered, P2!Edit!Of, Publication!Of,
     P2!Edit!HasRequiredBreaks, Publication!HasRequiredBreaks, P2!Edit!Worked,
     Publication!Worked, P2!Edit!Hours, Publication!Hours, P2!Edit!Schedules,
     Publication!Schedules, P2!Edit!Live, Publication!Live, P2!Edit!Length, Publication!Length,
     P2!Edit!Shifts, Publication!Shifts, P2!Edit!Cardinality, Publication!Cardinality
<1>8. P2!Edit!editVars = Publication!editVars
  BY Zenon DEF P2!Edit!editVars, Publication!editVars
<1> QED BY <1>1, <1>2, <1>3, <1>4, <1>5, <1>6, <1>7, <1>8

LEMMA PublicationRuns == MCSpec => P2!Edit!Spec
<1>1. MCInit => P2!Edit!Init
  BY PublicationSame DEF MCInit
<1>2. [MCNext]_mcVars => [P2!Edit!Next]_(P2!Edit!editVars)
  <2>1. UNCHANGED pubVars => UNCHANGED P2!Edit!editVars
    BY DEF pubVars, P2!Edit!editVars
  <2>2. [MCNext]_mcVars => Publication!Next \/ UNCHANGED pubVars
    BY DEF MCNext, mcVars
  <2> QED BY <2>1, <2>2, PublicationSame
<1> QED BY <1>1, <1>2, PTL DEF MCSpec, P2!Edit!Spec

\* Schedules in the composition: nobody has two shifts at a time, rows fit into each
\* other, a board with the current revision shows the current shifts, and what is
\* published is what was confirmed, with its demand covered.
THEOREM EditingIsSafe == MCSpec => []EditingSafe
<1>1. P1!Edit!EditingAssumption /\ P2!Edit!EditingAssumption
  BY WorkforceAssumption, EditSame, PublicationSame
<1>2. P1!Edit!Spec => []P1!Edit!TypeOK
  BY <1>1, P1!EditingTypeCorrect
<1>3. P1!Edit!Spec => []P1!Edit!NobodyIsDoubleBooked
  BY <1>1, P1!NobodyWorksTwice
<1>4. P1!Edit!Spec => []P1!Edit!RowsFit
  BY <1>1, P1!RowsAlwaysFit
<1>5. P1!Edit!Spec => []P1!Edit!RevisionNamesContent
  BY <1>1, P1!RevisionsNameContents
<1>6. P1!Edit!Spec => []P1!Edit!PublishedAsConfirmed
  BY <1>1, P1!PublishedIsConfirmed
<1>7. P1!Edit!Spec => []P1!Edit!PublishedIsWorkable
  BY <1>1, P1!PublishedCanBeWorked
<1>8. P2!Edit!Spec => []P2!Edit!RowsFit
  BY <1>1, P2!RowsAlwaysFit
<1>9. P2!Edit!Spec => []P2!Edit!RevisionNamesContent
  BY <1>1, P2!RevisionsNameContents
<1>10. P2!Edit!Spec => []P2!Edit!PublishedAsConfirmed
  BY <1>1, P2!PublishedIsConfirmed
<1>11. P2!Edit!Spec => []P2!Edit!PublishedIsWorkable
  BY <1>1, P2!PublishedCanBeWorked
<1>12. P1!Edit!TypeOK /\ P1!Edit!NobodyIsDoubleBooked /\ P1!Edit!RowsFit /\
         P1!Edit!RevisionNamesContent /\ P1!Edit!PublishedAsConfirmed /\
         P1!Edit!PublishedIsWorkable /\ P2!Edit!RowsFit /\ P2!Edit!RevisionNamesContent /\
         P2!Edit!PublishedAsConfirmed /\ P2!Edit!PublishedIsWorkable => EditingSafe
  BY EditSame, PublicationSame DEF EditingSafe
<1> QED
  BY <1>2, <1>3, <1>4, <1>5, <1>6, <1>7, <1>8, <1>9, <1>10, <1>11, <1>12, EditRuns,
     PublicationRuns, PTL

\* Steps in the composition: what a locked period paid never changes again, breaks
\* are generated only for the shift they were computed from, and a publication costs
\* what was confirmed and is announced to everybody it assigns.
THEOREM WorkforceStepsHold == MCSpec => WorkforceSteps
<1>1. P1!Pay!PayrollAssumption /\ P2!Edit!EditingAssumption /\ Breaks!BreaksAssumption
  BY WorkforceAssumption, PaySame, PublicationSame
<1>2. P1!Pay!Spec => P1!Pay!LockedEntriesStand
  BY <1>1, P1!EntriesAreFinal
<1>3. P1!Pay!LockedEntriesStand => Pay!LockedEntriesStand
  <2>1. P1!Pay!EntriesStand <=> Pay!EntriesStand
    BY Zenon DEF P1!Pay!EntriesStand, Pay!EntriesStand, P1!Pay!Periods, Pay!Periods
  <2>2. [P1!Pay!EntriesStand]_(P1!Pay!vars) => [Pay!EntriesStand]_(Pay!vars)
    BY <2>1 DEF P1!Pay!vars, Pay!vars
  <2> QED BY <2>2, PTL DEF P1!Pay!LockedEntriesStand, Pay!LockedEntriesStand
<1>4. P2!Edit!Spec => P2!Edit!PublicationIsAnnounced
  BY <1>1, P2!PublicationsAreAnnounced
<1>5. P2!Edit!PublicationIsAnnounced => Publication!PublicationIsAnnounced
  <2>1. P2!Edit!Announces <=> Publication!Announces
    BY Zenon DEF P2!Edit!Announces, Publication!Announces, P2!Edit!Schedules,
       Publication!Schedules, P2!Edit!Assigned, Publication!Assigned, P2!Edit!Of,
       Publication!Of, P2!Edit!Live, Publication!Live, P2!Edit!Shifts, Publication!Shifts
  <2>2. [P2!Edit!Announces]_(P2!Edit!editVars) => [Publication!Announces]_(Publication!editVars)
    BY <2>1 DEF P2!Edit!editVars, Publication!editVars
  <2> QED BY <2>2, PTL DEF P2!Edit!PublicationIsAnnounced, Publication!PublicationIsAnnounced
<1> QED
  BY <1>1, <1>2, <1>3, <1>4, <1>5, PayRuns, PublicationRuns, BreaksRuns,
     SavedGenerationsAreCurrent, PTL DEF WorkforceSteps
=============================================================================
