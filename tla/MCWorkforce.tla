---------------------------- MODULE MCWorkforce ----------------------------
(***************************************************************************)
(* Schedules, time and payroll, for TLC: the editing and publication of      *)
(* schedules, the generation of breaks, clocking and payroll periods, and   *)
(* the export of a locked period to the payroll provider.  A behaviour is   *)
(* a behaviour of the component that scope names, the reachable states are  *)
(* the union of theirs.  Payroll is there twice: with several cards, and    *)
(* with several amendments of one card over a longer run of periods.  So is *)
(* editing: over two days that are there from the start, and with more      *)
(* publications of one day.                                                 *)
(***************************************************************************)
EXTENDS PayrollExport, TLC

\* The members of the sets, and what each instance of a component is given
CONSTANTS
    e1, k1, p1, p2, a1, a2, c1, c2, u1, u2, u3, l1, None, CardsCards, CardsUsers,
    CardsAmendments, CardsNumPeriods, CardsPeriodLength, CardsMaxRevision, AmendCards,
    AmendUsers, AmendAmendments, AmendNumPeriods, AmendPeriodLength, AmendMaxRevision,
    EdtUsers, EdtLocations, EdtClients, EdtNumSchedules, EdtNumShifts, EdtSlots,
    EdtDemands, EdtDays, EdtDrafts, EdtDayLength, EdtLongShift, EdtMaxHours, EdtLimits,
    EdtAvailable, EdtScheduleCost, EdtCredits, EdtMaxEdits, EdtMaxSwitches, PubUsers,
    PubLocations, PubClients, PubNumSchedules, PubNumShifts, PubSlots, PubDemands,
    PubDays, PubDrafts, PubDayLength, PubLongShift, PubMaxHours, PubLimits,
    PubAvailable, PubScheduleCost, PubCredits, PubMaxEdits, PubMaxSwitches, BrkKeys,
    BrkEdits, BrkHandlers, BrkHorizon, BrkCredits, BrkMaxSwitches, BrkMaxFaults

VARIABLES
    scope, cardsNow, cardsEffective, cardsPeriod, cardsCard, cardsDecision,
    cardsAmendment, cardsEntries, amendNow, amendEffective, amendPeriod, amendCard,
    amendDecision, amendAmendment, amendEntries, edtSchedule, edtShift, edtPerson,
    edtClosed, edtHooks, edtCredits, edtBoard, edtContract, edtSolve, edtAnnounced,
    edtEdition, edtEdits, edtSwitches, pubSchedule, pubShift, pubPerson, pubClosed,
    pubHooks, pubCredits, pubBoard, pubContract, pubSolve, pubAnnounced, pubEdition,
    pubEdits, pubSwitches, brkShift, brkBreaks, brkDraft, brkEntitled, brkOffset,
    brkRow, brkWallet, brkDebits, brkReceipts, brkHandler, brkSwitches, brkFaults,
    brkAnswers, brkUnseen

Pay == INSTANCE Payroll WITH
    Cards <- CardsCards, Users <- CardsUsers, Amendments <- CardsAmendments, NumPeriods
    <- CardsNumPeriods, PeriodLength <- CardsPeriodLength, MaxRevision <-
    CardsMaxRevision, NoCard <- None, NoAmendment <- None, now <- cardsNow, effective <-
    cardsEffective, period <- cardsPeriod, card <- cardsCard, decision <- cardsDecision,
    amendment <- cardsAmendment, entries <- cardsEntries

cardsVars == <<cardsNow, cardsEffective, cardsPeriod, cardsCard, cardsDecision,
    cardsAmendment, cardsEntries>>

Amend == INSTANCE Payroll WITH
    Cards <- AmendCards, Users <- AmendUsers, Amendments <- AmendAmendments, NumPeriods
    <- AmendNumPeriods, PeriodLength <- AmendPeriodLength, MaxRevision <-
    AmendMaxRevision, NoCard <- None, NoAmendment <- None, now <- amendNow, effective <-
    amendEffective, period <- amendPeriod, card <- amendCard, decision <- amendDecision,
    amendment <- amendAmendment, entries <- amendEntries

amendVars == <<amendNow, amendEffective, amendPeriod, amendCard, amendDecision,
    amendAmendment, amendEntries>>

Edit == INSTANCE ScheduleEditing WITH
    Users <- EdtUsers, Locations <- EdtLocations, Clients <- EdtClients, NumSchedules <-
    EdtNumSchedules, NumShifts <- EdtNumShifts, None <- None, Slots <- EdtSlots, Demands
    <- EdtDemands, Days <- EdtDays, Drafts <- EdtDrafts, DayLength <- EdtDayLength,
    LongShift <- EdtLongShift, MaxHours <- EdtMaxHours, Limits <- EdtLimits,
    Available <- EdtAvailable, ScheduleCost <- EdtScheduleCost, Credits <- EdtCredits,
    MaxEdits <- EdtMaxEdits, MaxSwitches <- EdtMaxSwitches, schedule <- edtSchedule,
    shift <- edtShift, person <- edtPerson, closed <- edtClosed, hooks <- edtHooks,
    credits <- edtCredits, board <- edtBoard, contract <- edtContract, solve <-
    edtSolve, announced <- edtAnnounced, edition <- edtEdition, edits <- edtEdits,
    switches <- edtSwitches

edtVars == <<edtSchedule, edtShift, edtPerson, edtClosed, edtHooks, edtCredits,
    edtBoard, edtContract, edtSolve, edtAnnounced, edtEdition, edtEdits, edtSwitches>>

Publication == INSTANCE ScheduleEditing WITH
    Users <- PubUsers, Locations <- PubLocations, Clients <- PubClients, NumSchedules <-
    PubNumSchedules, NumShifts <- PubNumShifts, None <- None, Slots <- PubSlots, Demands
    <- PubDemands, Days <- PubDays, Drafts <- PubDrafts, DayLength <- PubDayLength,
    LongShift <- PubLongShift, MaxHours <- PubMaxHours, Limits <- PubLimits,
    Available <- PubAvailable, ScheduleCost <- PubScheduleCost, Credits <- PubCredits,
    MaxEdits <- PubMaxEdits, MaxSwitches <- PubMaxSwitches, schedule <- pubSchedule,
    shift <- pubShift, person <- pubPerson, closed <- pubClosed, hooks <- pubHooks,
    credits <- pubCredits, board <- pubBoard, contract <- pubContract, solve <-
    pubSolve, announced <- pubAnnounced, edition <- pubEdition, edits <- pubEdits,
    switches <- pubSwitches

pubVars == <<pubSchedule, pubShift, pubPerson, pubClosed, pubHooks, pubCredits,
    pubBoard, pubContract, pubSolve, pubAnnounced, pubEdition, pubEdits, pubSwitches>>

Breaks == INSTANCE BreakGeneration WITH
    Keys <- BrkKeys, Edits <- BrkEdits, Handlers <- BrkHandlers, Horizon <- BrkHorizon,
    Credits <- BrkCredits, None <- None, MaxSwitches <- BrkMaxSwitches, MaxFaults <-
    BrkMaxFaults, shift <- brkShift, breaks <- brkBreaks, draft <- brkDraft, entitled <-
    brkEntitled, offset <- brkOffset, row <- brkRow, wallet <- brkWallet, debits <-
    brkDebits, receipts <- brkReceipts, handler <- brkHandler, switches <- brkSwitches,
    faults <- brkFaults, answers <- brkAnswers, unseen <- brkUnseen

brkVars == <<brkShift, brkBreaks, brkDraft, brkEntitled, brkOffset, brkRow, brkWallet,
    brkDebits, brkReceipts, brkHandler, brkSwitches, brkFaults, brkAnswers, brkUnseen>>

\* Every component is given constants it is meant for.
ASSUME WorkforceAssumption ==
    /\ Pay!PayrollAssumption
    /\ Amend!PayrollAssumption
    /\ Edit!EditingAssumption
    /\ Publication!EditingAssumption
    /\ Breaks!BreaksAssumption

\* A behaviour moves one component; the others keep one initial state.
MCInit ==
    /\ scope \in {"exports", "cards", "amendments", "schedules", "publications", "breaks"}
    /\ Init /\ (scope = "exports" \/ cost = 1)
    /\ Pay!Init
    /\ Amend!Init
    /\ Edit!Init
    /\ Publication!Init
    /\ Breaks!Init

MCNext ==
    \/ /\ scope = "exports"
       /\ Next
       /\ UNCHANGED <<scope, cardsVars, amendVars, edtVars, pubVars, brkVars>>
    \/ /\ scope = "cards"
       /\ Pay!Next
       /\ UNCHANGED <<scope, vars, amendVars, edtVars, pubVars, brkVars>>
    \/ /\ scope = "amendments"
       /\ Amend!Next
       /\ UNCHANGED <<scope, vars, cardsVars, edtVars, pubVars, brkVars>>
    \/ /\ scope = "schedules"
       /\ Edit!Next
       /\ UNCHANGED <<scope, vars, cardsVars, amendVars, pubVars, brkVars>>
    \/ /\ scope = "publications"
       /\ Publication!Next
       /\ UNCHANGED <<scope, vars, cardsVars, amendVars, edtVars, brkVars>>
    \/ /\ scope = "breaks"
       /\ Breaks!Next
       /\ UNCHANGED <<scope, vars, cardsVars, amendVars, edtVars, pubVars>>

mcVars ==
    <<scope, vars, cardsVars, amendVars, edtVars, pubVars, brkVars>>

MCSpec == MCInit /\ [][MCNext]_mcVars

\* The shifts, demands and availability that the instances of editing know
EditSlots == {[start |-> 0, end |-> 2], [start |-> 1, end |-> 3], [start |-> 2, end |-> 3]}
EditDemands == {[start |-> 2, end |-> 3]}
PublicationSlots == {[start |-> 0, end |-> 2]}
PublicationDemands == {[start |-> 1, end |-> 2]}
BothDays == {u1} \X {0, 1}

-----------------------------------------------------------------------------
(* Properties. *)

\* Payroll periods: a locked period pays exactly the work that began in it, as
\* someone else than the employee approved it; all periods together pay a card
\* once, as it is or as its one approved amendment says; and three different
\* users stand behind a paid amendment.
PayrollSafe ==
    /\ scope = "cards" => Pay!TypeOK /\ Pay!LockedPeriodIsExact
    /\ scope = "amendments" => Amend!CardIsPaidOnce /\ Amend!AmendmentsAreIndependent

\* Breaks: they lie inside their shift, a generation is paid when it succeeds
\* and only once, and all answers to one key are the same.
BreaksSafe ==
    scope = "breaks" => Breaks!TypeOK /\ Breaks!BreaksStayInside
                        /\ Breaks!GenerationIsPaidOnce /\ Breaks!AnswersAgree

\* Schedules: nobody has two shifts at a time, rows fit into each other, a board
\* with the current revision shows the current shifts of those who were not
\* hidden when it was read, and what is published is what was confirmed, with
\* its demand covered and within one of its schedules' weekly hours.
EditingSafe ==
    /\ scope = "schedules" =>
          /\ Edit!TypeOK /\ Edit!NobodyIsDoubleBooked /\ Edit!RowsFit
          /\ Edit!RevisionNamesContent /\ Edit!PublishedAsConfirmed /\ Edit!PublishedIsWorkable
    /\ scope = "publications" =>
          /\ Publication!RowsFit /\ Publication!RevisionNamesContent
          /\ Publication!PublishedAsConfirmed /\ Publication!PublishedIsWorkable

\* What a locked period paid never changes again, breaks are generated only for
\* the shift they were computed from, and a publication costs what was
\* confirmed and is announced to everybody it assigns.
WorkforceSteps ==
    Pay!LockedEntriesStand /\ Breaks!GenerationIsCurrent /\ Publication!PublicationIsAnnounced
=============================================================================
