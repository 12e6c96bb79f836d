----------------------------- MODULE MCDelivery -----------------------------
(***************************************************************************)
(* What leaves the system through an outbox or a queue, for TLC: outgoing   *)
(* webhooks, availability imports, notification e-mails, staff invitations, *)
(* password-reset e-mails and exports of an account's data.  The components *)
(* share no state, so one run checks them side by side: a behaviour is a    *)
(* behaviour of the component that scope names, and the reachable states    *)
(* are the union of theirs.                                                 *)
(***************************************************************************)
EXTENDS NotificationOutbox, TLC

\* The members of the sets, and what each instance of a component is given
CONSTANTS
    p1, p2, q1, q2, e1, e2, i1, a1, a2, b1, b2, k1, k2, n1, HookEndpoints, HookHandlers,
    HookSweeps, HookMaxAttempts, HookCost, HookInitialCredits, HookMaxFaults,
    HookMaxSwitches, PairEndpoints, PairHandlers, PairSweeps, PairMaxAttempts, PairCost,
    PairInitialCredits, PairMaxFaults, PairMaxSwitches, ImportImports, ImportHandlers,
    ImportPublishers, ImportMaxRetries, ImportCost, ImportInitialCredits,
    ImportMaxFaults, ImportMaxSwitches, RetryImports, RetryHandlers, RetryPublishers,
    RetryMaxRetries, RetryCost, RetryInitialCredits, RetryMaxFaults, RetryMaxSwitches,
    InviteWorkers, InviteAddresses, InviteReissueKeys, InviteInvitations,
    InviteMaxAttempts, InviteMaxManualRetries, InviteMaxFaults, InviteMaxSwitches,
    ExportProcs, ExportNumJobs, ExportTenants, ExportTenantOf, ExportMaxArtifact,
    ExportSizes, ExportGlobalQuota, ExportTenantQuota, ExportMaxAttempts,
    ExportMaxFaults, ExportsProcs, ExportsNumJobs, ExportsTenants, ExportsTenantOf,
    ExportsMaxArtifact, ExportsSizes, ExportsGlobalQuota, ExportsTenantQuota,
    ExportsMaxAttempts, ExportsMaxFaults, ResetWorkers, ResetRedeemers, ResetAddresses,
    ResetMaxLinks, ResetMaxAttempts, ResetMaxFaults, ResetMaxSwitches

VARIABLES
    scope, hookPlan, hookActive, hookCredits, hookDebits, hookRefunds, hookRow,
    hookQueue, hookHandler, hookSweep, hookFaults, hookSwitches, hookSends,
    hookAccepted, pairPlan, pairActive, pairCredits, pairDebits, pairRefunds, pairRow,
    pairQueue, pairHandler, pairSweep, pairFaults, pairSwitches, pairSends,
    pairAccepted, importPlan, importTarget, importCredits, importDebits, importRefunds,
    importRow, importFile, importQueue, importHandler, importCompleted, importPublisher,
    importFaults, importSwitches, importRuns, retryPlan, retryTarget, retryCredits,
    retryDebits, retryRefunds, retryRow, retryFile, retryQueue, retryHandler,
    retryCompleted, retryPublisher, retryFaults, retrySwitches, retryRuns, inviteTenant,
    inviteUser, inviteRow, inviteReissued, inviteInbox, inviteWorker, inviteUsed,
    inviteFaults, inviteSwitches, exportJob, exportExpired, exportFiles, exportWhole,
    exportAged, exportProc, exportPurged, exportFaults, exportsJob, exportsExpired,
    exportsFiles, exportsWhole, exportsAged, exportsProc, exportsPurged, exportsFaults,
    resetOpen, resetAllowed, resetUser, resetToken, resetRow, resetSessions, resetInbox,
    resetWorker, resetRedeem, resetFaults, resetSwitches

Hook == INSTANCE WebhookDelivery WITH
    Endpoints <- HookEndpoints, Handlers <- HookHandlers, Sweeps <- HookSweeps,
    NoDelivery <- None, MaxAttempts <- HookMaxAttempts, Cost <- HookCost, InitialCredits
    <- HookInitialCredits, MaxFaults <- HookMaxFaults, MaxSwitches <- HookMaxSwitches,
    plan <- hookPlan, active <- hookActive, credits <- hookCredits, debits <-
    hookDebits, refunds <- hookRefunds, row <- hookRow, queue <- hookQueue, handler <-
    hookHandler, sweep <- hookSweep, faults <- hookFaults, switches <- hookSwitches,
    sends <- hookSends, accepted <- hookAccepted

hookVars == <<hookPlan, hookActive, hookCredits, hookDebits, hookRefunds, hookRow,
    hookQueue, hookHandler, hookSweep, hookFaults, hookSwitches, hookSends,
    hookAccepted>>

HookPair == INSTANCE WebhookDelivery WITH
    Endpoints <- PairEndpoints, Handlers <- PairHandlers, Sweeps <- PairSweeps,
    NoDelivery <- None, MaxAttempts <- PairMaxAttempts, Cost <- PairCost, InitialCredits
    <- PairInitialCredits, MaxFaults <- PairMaxFaults, MaxSwitches <- PairMaxSwitches,
    plan <- pairPlan, active <- pairActive, credits <- pairCredits, debits <-
    pairDebits, refunds <- pairRefunds, row <- pairRow, queue <- pairQueue, handler <-
    pairHandler, sweep <- pairSweep, faults <- pairFaults, switches <- pairSwitches,
    sends <- pairSends, accepted <- pairAccepted

pairVars == <<pairPlan, pairActive, pairCredits, pairDebits, pairRefunds, pairRow,
    pairQueue, pairHandler, pairSweep, pairFaults, pairSwitches, pairSends,
    pairAccepted>>

Import == INSTANCE AvailabilityImport WITH
    Imports <- ImportImports, Handlers <- ImportHandlers, Publishers <-
    ImportPublishers, None <- None, MaxRetries <- ImportMaxRetries, Cost <- ImportCost,
    InitialCredits <- ImportInitialCredits, MaxFaults <- ImportMaxFaults, MaxSwitches <-
    ImportMaxSwitches, plan <- importPlan, target <- importTarget, credits <-
    importCredits, debits <- importDebits, refunds <- importRefunds, row <- importRow,
    file <- importFile, queue <- importQueue, handler <- importHandler, completed <-
    importCompleted, publisher <- importPublisher, faults <- importFaults, switches <-
    importSwitches, runs <- importRuns

importVars == <<importPlan, importTarget, importCredits, importDebits, importRefunds,
    importRow, importFile, importQueue, importHandler, importCompleted, importPublisher,
    importFaults, importSwitches, importRuns>>

Retried == INSTANCE AvailabilityImport WITH
    Imports <- RetryImports, Handlers <- RetryHandlers, Publishers <- RetryPublishers,
    None <- None, MaxRetries <- RetryMaxRetries, Cost <- RetryCost, InitialCredits <-
    RetryInitialCredits, MaxFaults <- RetryMaxFaults, MaxSwitches <- RetryMaxSwitches,
    plan <- retryPlan, target <- retryTarget, credits <- retryCredits, debits <-
    retryDebits, refunds <- retryRefunds, row <- retryRow, file <- retryFile, queue <-
    retryQueue, handler <- retryHandler, completed <- retryCompleted, publisher <-
    retryPublisher, faults <- retryFaults, switches <- retrySwitches, runs <- retryRuns

retryVars == <<retryPlan, retryTarget, retryCredits, retryDebits, retryRefunds,
    retryRow, retryFile, retryQueue, retryHandler, retryCompleted, retryPublisher,
    retryFaults, retrySwitches, retryRuns>>

Invite == INSTANCE StaffInvitation WITH
    Workers <- InviteWorkers, Addresses <- InviteAddresses, ReissueKeys <-
    InviteReissueKeys, Invitations <- InviteInvitations, None <- None, MaxAttempts <-
    InviteMaxAttempts, MaxManualRetries <- InviteMaxManualRetries, MaxFaults <-
    InviteMaxFaults, MaxSwitches <- InviteMaxSwitches, tenant <- inviteTenant, user <-
    inviteUser, row <- inviteRow, reissued <- inviteReissued, inbox <- inviteInbox,
    worker <- inviteWorker, used <- inviteUsed, faults <- inviteFaults, switches <-
    inviteSwitches

inviteVars == <<inviteTenant, inviteUser, inviteRow, inviteReissued, inviteInbox,
    inviteWorker, inviteUsed, inviteFaults, inviteSwitches>>

Export == INSTANCE TenantExport WITH
    Procs <- ExportProcs, NumJobs <- ExportNumJobs, Tenants <- ExportTenants, TenantOf
    <- ExportTenantOf, None <- None, MaxArtifact <- ExportMaxArtifact, Sizes <-
    ExportSizes, GlobalQuota <- ExportGlobalQuota, TenantQuota <- ExportTenantQuota,
    MaxAttempts <- ExportMaxAttempts, MaxFaults <- ExportMaxFaults, job <- exportJob,
    expired <- exportExpired, files <- exportFiles, whole <- exportWhole, aged <-
    exportAged, proc <- exportProc, purged <- exportPurged, faults <- exportFaults

exportVars == <<exportJob, exportExpired, exportFiles, exportWhole, exportAged,
    exportProc, exportPurged, exportFaults>>

Exports == INSTANCE TenantExport WITH
    Procs <- ExportsProcs, NumJobs <- ExportsNumJobs, Tenants <- ExportsTenants,
    TenantOf <- ExportsTenantOf, None <- None, MaxArtifact <- ExportsMaxArtifact, Sizes
    <- ExportsSizes, GlobalQuota <- ExportsGlobalQuota, TenantQuota <-
    ExportsTenantQuota, MaxAttempts <- ExportsMaxAttempts, MaxFaults <-
    ExportsMaxFaults, job <- exportsJob, expired <- exportsExpired, files <-
    exportsFiles, whole <- exportsWhole, aged <- exportsAged, proc <- exportsProc,
    purged <- exportsPurged, faults <- exportsFaults

exportsVars == <<exportsJob, exportsExpired, exportsFiles, exportsWhole, exportsAged,
    exportsProc, exportsPurged, exportsFaults>>

Reset == INSTANCE PasswordReset WITH
    Workers <- ResetWorkers, Redeemers <- ResetRedeemers, Addresses <- ResetAddresses,
    None <- None, MaxLinks <- ResetMaxLinks, MaxAttempts <- ResetMaxAttempts, MaxFaults
    <- ResetMaxFaults, MaxSwitches <- ResetMaxSwitches, open <- resetOpen, allowed <-
    resetAllowed, user <- resetUser, token <- resetToken, row <- resetRow, sessions <-
    resetSessions, inbox <- resetInbox, worker <- resetWorker, redeem <- resetRedeem,
    faults <- resetFaults, switches <- resetSwitches

resetVars == <<resetOpen, resetAllowed, resetUser, resetToken, resetRow, resetSessions,
    resetInbox, resetWorker, resetRedeem, resetFaults, resetSwitches>>

\* Every component is given constants it is meant for.
ASSUME DeliveryAssumption ==
    /\ Hook!WebhookAssumption
    /\ HookPair!WebhookAssumption
    /\ Import!ImportAssumption
    /\ Retried!ImportAssumption
    /\ Invite!InvitationAssumption
    /\ Export!ExportAssumption
    /\ Exports!ExportAssumption
    /\ Reset!ResetAssumption

\* A behaviour moves one component; the others keep one initial state.
MCInit ==
    /\ scope \in {"notifications", "webhooks", "webhook pair", "imports", "retried imports", "invitations", "exports", "two exports", "resets"}
    /\ Init /\ (scope = "notifications" \/ user.email = NoAddress)
    /\ Hook!Init
    /\ HookPair!Init
    /\ Import!Init
    /\ Retried!Init
    /\ Invite!Init
    /\ Export!Init
    /\ Exports!Init
    /\ Reset!Init /\ (scope = "resets" \/ resetUser.email = b1)

MCNext ==
    \/ /\ scope = "notifications"
       /\ Next
       /\ UNCHANGED <<scope, hookVars, pairVars, importVars, retryVars, inviteVars,
                       exportVars, exportsVars, resetVars>>
    \/ /\ scope = "webhooks"
       /\ Hook!Next
       /\ UNCHANGED <<scope, noVars, pairVars, importVars, retryVars, inviteVars,
                       exportVars, exportsVars, resetVars>>
    \/ /\ scope = "webhook pair"
       /\ HookPair!Next
       /\ UNCHANGED <<scope, noVars, hookVars, importVars, retryVars, inviteVars,
                       exportVars, exportsVars, resetVars>>
    \/ /\ scope = "imports"
       /\ Import!Next
       /\ UNCHANGED <<scope, noVars, hookVars, pairVars, retryVars, inviteVars,
                       exportVars, exportsVars, resetVars>>
    \/ /\ scope = "retried imports"
       /\ Retried!Next
       /\ UNCHANGED <<scope, noVars, hookVars, pairVars, importVars, inviteVars,
                       exportVars, exportsVars, resetVars>>
    \/ /\ scope = "invitations"
       /\ Invite!Next
       /\ UNCHANGED <<scope, noVars, hookVars, pairVars, importVars, retryVars,
                       exportVars, exportsVars, resetVars>>
    \/ /\ scope = "exports"
       /\ Export!Next
       /\ UNCHANGED <<scope, noVars, hookVars, pairVars, importVars, retryVars,
                       inviteVars, exportsVars, resetVars>>
    \/ /\ scope = "two exports"
       /\ Exports!Next
       /\ UNCHANGED <<scope, noVars, hookVars, pairVars, importVars, retryVars,
                       inviteVars, exportVars, resetVars>>
    \/ /\ scope = "resets"
       /\ Reset!Next
       /\ UNCHANGED <<scope, noVars, hookVars, pairVars, importVars, retryVars,
                       inviteVars, exportVars, exportsVars>>

mcVars ==
    <<scope, noVars, hookVars, pairVars, importVars, retryVars, inviteVars, exportVars,
      exportsVars, resetVars>>

MCSpec == MCInit /\ [][MCNext]_mcVars

\* The tenants that the exports of the two instances belong to
OneOwner == [j \in {1} |-> e1]
TwoOwners == [j \in 1 .. 2 |-> IF j = 1 THEN e1 ELSE e2]

\* The processes of a component and the addresses are interchangeable.
MCSymmetry == Permutations({p1, p2}) \cup Permutations({a1, a2})

-----------------------------------------------------------------------------
(* Properties. *)

\* Webhooks: a request goes out only for a delivery claimed for that attempt,
\* a delivery is DELIVERED only after its receiver accepted it, and the
\* wallet holds what it held, less one debit for every delivery that is under
\* way or was made, whatever was retried, refunded or abandoned.
WebhookSafe ==
    /\ scope = "webhooks" =>
          Hook!TypeOK /\ Hook!SendsAreClaimed /\ Hook!DeliveredWasAccepted /\ Hook!PaidDelivery
    /\ scope = "webhook pair" => HookPair!TypeOK /\ HookPair!PaidDelivery

\* Imports: the encrypted file exists exactly as long as its import may need
\* it, no import is run more often than its budget allows, a worker remembers
\* as completed only what has ended, and every import costs its debit once.
ImportSafe ==
    /\ scope = "imports" =>
          /\ Import!TypeOK /\ Import!SourceLivesWithImport /\ Import!RunsWithinBudget
          /\ Import!RememberedHasEnded /\ Import!PaidImport
    /\ scope = "retried imports" =>
          Retried!TypeOK /\ Retried!SourceLivesWithImport /\ Retried!PaidImport

\* Webhooks and imports: what has ended never changes again, and while the
\* lease of a sender or worker is live nobody else takes its row.
QueueSteps ==
    /\ Hook!EndedIsFinal /\ Hook!LeaseExcludesSender
    /\ Import!EndedStaysEnded /\ Import!LeaseProtectsOwner /\ Retried!EndedStaysEnded

\* Links sent by e-mail: at most one e-mail for a delivery of an invitation,
\* and a row that can still be sent belongs to an employee who is still to be
\* invited; only the newest reset link can still be redeemed, and every live
\* session was opened with the password the account has now.
LinksSafe ==
    /\ scope = "invitations" =>
          Invite!TypeOK /\ Invite!OneMailPerDelivery /\ Invite!LiveRowIsWanted
    /\ scope = "resets" =>
          Reset!TypeOK /\ Reset!OnlyNewestLinkLives /\ Reset!SessionsFollowPassword

\* Exports: the rows never book more storage than there is, a row that names a
\* file books it, and a finished export has its whole file until it is cleaned
\* up, although writers that lost their lease share the directory.
ExportSafe ==
    /\ scope = "exports" => Export!TypeOK /\ Export!QuotaHolds /\ Export!ReadyIsWhole
    /\ scope = "two exports" => Exports!TypeOK /\ Exports!QuotaHolds /\ Exports!ReadyIsWhole

\* E-mail of all three outboxes: it goes to the address the recipient has and
\* only under a current claim, a row is delivered only once its e-mail is
\* accepted or none is owed, it is given up only for a reason, a stale worker
\* changes nothing, and a reset link changes the password only while it is
\* the authorised one.  What is erased with an account or with the data of a
\* tenant stays erased, whatever delivery of it was under way.
MailSteps ==
    /\ MailGoesToRecipient /\ DeliveredIsHandled /\ DeadLetterHasReason
    /\ LeaseProtectsClaim /\ FeedIsKept
    /\ Invite!MailGoesToEmployee /\ Invite!DeliveredAndFinal
    /\ Invite!LeaseProtectsClaim
    /\ Reset!ResetIsAuthorised /\ Reset!MailIsUseful /\ Reset!DeliveredIsSent
=============================================================================
