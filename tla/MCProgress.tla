----------------------------- MODULE MCProgress -----------------------------
(***************************************************************************)
(* What must eventually happen, for TLC: the components that promise to     *)
(* finish what they took on, side by side.  A behaviour is a behaviour of   *)
(* the component that scope names.  The others stand still in an initial    *)
(* state in which none of their fair actions can be taken, so their         *)
(* fairness asks nothing of it.                                             *)
(***************************************************************************)
EXTENDS TLC

CONSTANTS
    a1, e1, i1, k1, n1, p1, p2, q1, r1, s1, None, NoAddress, Unread

VARIABLES
    scope, hookPlan, hookActive, hookCredits, hookDebits, hookRefunds, hookRow,
    hookQueue, hookHandler, hookSweep, hookFaults, hookSwitches, hookSends,
    hookAccepted, importPlan, importTarget, importCredits, importDebits, importRefunds,
    importRow, importFile, importQueue, importHandler, importCompleted, importPublisher,
    importFaults, importSwitches, importRuns, retryPlan, retryTarget, retryCredits,
    retryDebits, retryRefunds, retryRow, retryFile, retryQueue, retryHandler,
    retryCompleted, retryPublisher, retryFaults, retrySwitches, retryRuns,
    mailTenantOpen, mailUser, mailOutbox, mailFeed, mailInbox, mailDelivery, mailFaults,
    mailSwitches, inviteTenant, inviteUser, inviteRow, inviteReissued, inviteInbox,
    inviteWorker, inviteUsed, inviteFaults, inviteSwitches, resetOpen, resetAllowed,
    resetUser, resetToken, resetRow, resetSessions, resetInbox, resetWorker,
    resetRedeem, resetFaults, resetSwitches, buySession, buyMatches, buyRefunds,
    buyUnacked, buyEntitled, buyPurchase, buyGrants, buyTerminal, buyRecords,
    buyHandler, buySwitches, buyFaults, cancelTenant, cancelStripe, cancelKeys,
    cancelEvents, cancelIntent, cancelAudits, cancelProc, cancelTold, cancelOps,
    cancelHolds, cancelResumes, cancelFaults, cancelStalls, delTenant, delBarrier,
    delRow, delPurges, delClient, delSessions, delSubs, delCheckout, delUndoing,
    delProc, delFaults, delStalls, usageNow, usageStaff, usageRow, usageWorker, usageAccepted,
    usageRejected, usageReport, usageHandler, usageFaults, exportJob, exportExpired,
    exportFiles, exportWhole, exportAged, exportProc, exportPurged, exportFaults

Hook == INSTANCE WebhookDelivery WITH
    Endpoints <- {e1}, Handlers <- {p1}, Sweeps <- {q1}, NoDelivery <- None, MaxAttempts
    <- 2, Cost <- 2, InitialCredits <- 5, MaxFaults <- 1, MaxSwitches <- 2, plan <-
    hookPlan, active <- hookActive, credits <- hookCredits, debits <- hookDebits,
    refunds <- hookRefunds, row <- hookRow, queue <- hookQueue, handler <- hookHandler,
    sweep <- hookSweep, faults <- hookFaults, switches <- hookSwitches, sends <-
    hookSends, accepted <- hookAccepted

hookVars == <<hookPlan, hookActive, hookCredits, hookDebits, hookRefunds, hookRow,
    hookQueue, hookHandler, hookSweep, hookFaults, hookSwitches, hookSends,
    hookAccepted>>

Import == INSTANCE AvailabilityImport WITH
    Imports <- {i1}, Handlers <- {p1}, Publishers <- {q1}, None <- None, MaxRetries <-
    0, Cost <- 2, InitialCredits <- 5, MaxFaults <- 1, MaxSwitches <- 0, plan <-
    importPlan, target <- importTarget, credits <- importCredits, debits <-
    importDebits, refunds <- importRefunds, row <- importRow, file <- importFile, queue
    <- importQueue, handler <- importHandler, completed <- importCompleted, publisher <-
    importPublisher, faults <- importFaults, switches <- importSwitches, runs <-
    importRuns

importVars == <<importPlan, importTarget, importCredits, importDebits, importRefunds,
    importRow, importFile, importQueue, importHandler, importCompleted, importPublisher,
    importFaults, importSwitches, importRuns>>

Retried == INSTANCE AvailabilityImport WITH
    Imports <- {i1}, Handlers <- {p1}, Publishers <- {q1}, None <- None, MaxRetries <-
    1, Cost <- 2, InitialCredits <- 5, MaxFaults <- 0, MaxSwitches <- 0, plan <-
    retryPlan, target <- retryTarget, credits <- retryCredits, debits <- retryDebits,
    refunds <- retryRefunds, row <- retryRow, file <- retryFile, queue <- retryQueue,
    handler <- retryHandler, completed <- retryCompleted, publisher <- retryPublisher,
    faults <- retryFaults, switches <- retrySwitches, runs <- retryRuns

retryVars == <<retryPlan, retryTarget, retryCredits, retryDebits, retryRefunds,
    retryRow, retryFile, retryQueue, retryHandler, retryCompleted, retryPublisher,
    retryFaults, retrySwitches, retryRuns>>

Mail == INSTANCE NotificationOutbox WITH
    Intents <- {i1}, Deliveries <- {p1, p2}, Addresses <- {a1}, NoAddress <- NoAddress,
    Unread <- Unread, None <- None, MaxAttempts <- 2, MaxFaults <- 1, MaxSwitches <- 1,
    tenantOpen <- mailTenantOpen, user <- mailUser, outbox <- mailOutbox, feed <-
    mailFeed, inbox <- mailInbox, delivery <- mailDelivery, faults <- mailFaults,
    switches <- mailSwitches

mailVars == <<mailTenantOpen, mailUser, mailOutbox, mailFeed, mailInbox, mailDelivery,
    mailFaults, mailSwitches>>

Invite == INSTANCE StaffInvitation WITH
    Workers <- {p1, p2}, Addresses <- {a1}, ReissueKeys <- {k1}, Invitations <- {n1},
    None <- None, MaxAttempts <- 2, MaxManualRetries <- 1, MaxFaults <- 2, MaxSwitches
    <- 1, tenant <- inviteTenant, user <- inviteUser, row <- inviteRow, reissued <-
    inviteReissued, inbox <- inviteInbox, worker <- inviteWorker, used <- inviteUsed,
    faults <- inviteFaults, switches <- inviteSwitches

inviteVars == <<inviteTenant, inviteUser, inviteRow, inviteReissued, inviteInbox,
    inviteWorker, inviteUsed, inviteFaults, inviteSwitches>>

Reset == INSTANCE PasswordReset WITH
    Workers <- {p1, p2}, Redeemers <- {}, Addresses <- {a1}, None <- None, MaxLinks <-
    1, MaxAttempts <- 2, MaxFaults <- 2, MaxSwitches <- 1, open <- resetOpen, allowed <-
    resetAllowed, user <- resetUser, token <- resetToken, row <- resetRow, sessions <-
    resetSessions, inbox <- resetInbox, worker <- resetWorker, redeem <- resetRedeem,
    faults <- resetFaults, switches <- resetSwitches

resetVars == <<resetOpen, resetAllowed, resetUser, resetToken, resetRow, resetSessions,
    resetInbox, resetWorker, resetRedeem, resetFaults, resetSwitches>>

Purchase == INSTANCE CreditPurchase WITH
    Sessions <- {s1}, Handlers <- {p1}, None <- None, MaxAttempts <- 3, MaxSwitches
    <- 0, MaxFaults <- 1, session <- buySession, matches <- buyMatches, refunds <-
    buyRefunds, unacked <- buyUnacked, entitled <- buyEntitled, purchase <- buyPurchase,
    grants <- buyGrants, terminal <- buyTerminal, records <- buyRecords, handler <-
    buyHandler, switches <- buySwitches, faults <- buyFaults

buyVars == <<buySession, buyMatches, buyRefunds, buyUnacked, buyEntitled, buyPurchase,
    buyGrants, buyTerminal, buyRecords, buyHandler, buySwitches, buyFaults>>

Cancel == INSTANCE TenantCancellation WITH
    Subs <- {s1}, Procs <- {p1, p2}, None <- None, MaxOps <- 1, MaxHolds <- 2,
    MaxPeriods <- 1, MaxResumes <- 0, MaxFaults <- 1, MaxStalls <- 0, tenant <-
    cancelTenant, stripe <- cancelStripe, keys <- cancelKeys, events <- cancelEvents,
    intent <- cancelIntent, audits <- cancelAudits, proc <- cancelProc, told <-
    cancelTold, ops <- cancelOps, holds <- cancelHolds, resumes <- cancelResumes, faults
    <- cancelFaults, stalls <- cancelStalls

cancelVars == <<cancelTenant, cancelStripe, cancelKeys, cancelEvents, cancelIntent,
    cancelAudits, cancelProc, cancelTold, cancelOps, cancelHolds, cancelResumes,
    cancelFaults, cancelStalls>>

Delete == INSTANCE TenantDeletion WITH
    Procs <- {p1, p2}, Sessions <- {s1}, Intakes <- {r1}, None <- None, MaxFaults <- 2,
    MaxStalls <- 0, tenant <- delTenant, barrier <- delBarrier, row <- delRow, purges <-
    delPurges, client <- delClient, sessions <- delSessions, subs <- delSubs, checkout
    <- delCheckout, undoing <- delUndoing, proc <- delProc,
    faults <- delFaults, stalls <- delStalls

delVars == <<delTenant, delBarrier, delRow, delPurges, delClient, delSessions, delSubs,
    delCheckout, delUndoing, delProc, delFaults, delStalls>>

Usage == INSTANCE UsageMetering WITH
    Workers <- {p1}, Reports <- {e1}, None <- None, NumPeriods <- 1, MaxStaff <- 0,
    MaxAttempts <- 2, MaxReplays <- 1, MaxFaults <- 2, Incomplete <- FALSE, now <-
    usageNow, staff <- usageStaff, row <- usageRow, worker <- usageWorker, accepted <-
    usageAccepted, rejected <- usageRejected, report <- usageReport, handler <-
    usageHandler, faults <- usageFaults

usageVars == <<usageNow, usageStaff, usageRow, usageWorker, usageAccepted,
    usageRejected, usageReport, usageHandler, usageFaults>>

Export == INSTANCE TenantExport WITH
    Procs <- {p1}, NumJobs <- 1, Tenants <- {e1}, TenantOf <- [j \in {1} |-> e1], None
    <- None, MaxArtifact <- 2, Sizes <- {1}, GlobalQuota <- 2, TenantQuota <- 2,
    MaxAttempts <- 2, MaxFaults <- 1, job <- exportJob, expired <- exportExpired, files
    <- exportFiles, whole <- exportWhole, aged <- exportAged, proc <- exportProc, purged
    <- exportPurged, faults <- exportFaults

exportVars == <<exportJob, exportExpired, exportFiles, exportWhole, exportAged,
    exportProc, exportPurged, exportFaults>>

\* Every component is given constants it is meant for.
ASSUME
    /\ Hook!WebhookAssumption
    /\ Import!ImportAssumption
    /\ Retried!ImportAssumption
    /\ Mail!NotificationAssumption
    /\ Invite!InvitationAssumption
    /\ Reset!ResetAssumption
    /\ Purchase!PurchaseAssumption
    /\ Cancel!CancellationAssumption
    /\ Delete!DeletionAssumption
    /\ Usage!UsageAssumption
    /\ Export!ExportAssumption

\* A behaviour moves one component; the others keep one initial state.
MCInit ==
    /\ scope \in {"webhooks", "imports", "retried imports", "mails", "invitations", "resets", "purchases", "cancellations", "deletions", "usage", "exports"}
    /\ Hook!Init
    /\ Import!Init
    /\ Retried!Init
    /\ Mail!Init /\ (scope = "mails" \/ mailUser.email = a1)
    /\ Invite!Init
    /\ Reset!Init
    /\ Purchase!Init /\ (scope = "purchases" \/ buyMatches = {})
    /\ Cancel!Init
    /\ Delete!Init /\ (scope = "deletions" \/ delTenant.customer)
    /\ Usage!Init
    /\ Export!Init

MCNext ==
    \/ /\ scope = "webhooks"
       /\ Hook!Next
       /\ UNCHANGED <<scope, importVars, retryVars, mailVars, inviteVars, resetVars,
                       buyVars, cancelVars, delVars, usageVars, exportVars>>
    \/ /\ scope = "imports"
       /\ Import!Next
       /\ UNCHANGED <<scope, hookVars, retryVars, mailVars, inviteVars, resetVars,
                       buyVars, cancelVars, delVars, usageVars, exportVars>>
    \/ /\ scope = "retried imports"
       /\ Retried!Next
       /\ UNCHANGED <<scope, hookVars, importVars, mailVars, inviteVars, resetVars,
                       buyVars, cancelVars, delVars, usageVars, exportVars>>
    \/ /\ scope = "mails"
       /\ Mail!Next
       /\ UNCHANGED <<scope, hookVars, importVars, retryVars, inviteVars, resetVars,
                       buyVars, cancelVars, delVars, usageVars, exportVars>>
    \/ /\ scope = "invitations"
       /\ Invite!Next
       /\ UNCHANGED <<scope, hookVars, importVars, retryVars, mailVars, resetVars,
                       buyVars, cancelVars, delVars, usageVars, exportVars>>
    \/ /\ scope = "resets"
       /\ Reset!Next
       /\ UNCHANGED <<scope, hookVars, importVars, retryVars, mailVars, inviteVars,
                       buyVars, cancelVars, delVars, usageVars, exportVars>>
    \/ /\ scope = "purchases"
       /\ Purchase!Next
       /\ UNCHANGED <<scope, hookVars, importVars, retryVars, mailVars, inviteVars,
                       resetVars, cancelVars, delVars, usageVars, exportVars>>
    \/ /\ scope = "cancellations"
       /\ Cancel!Next
       /\ UNCHANGED <<scope, hookVars, importVars, retryVars, mailVars, inviteVars,
                       resetVars, buyVars, delVars, usageVars, exportVars>>
    \/ /\ scope = "deletions"
       /\ Delete!Next
       /\ UNCHANGED <<scope, hookVars, importVars, retryVars, mailVars, inviteVars,
                       resetVars, buyVars, cancelVars, usageVars, exportVars>>
    \/ /\ scope = "usage"
       /\ Usage!Next
       /\ UNCHANGED <<scope, hookVars, importVars, retryVars, mailVars, inviteVars,
                       resetVars, buyVars, cancelVars, delVars, exportVars>>
    \/ /\ scope = "exports"
       /\ Export!Next
       /\ UNCHANGED <<scope, hookVars, importVars, retryVars, mailVars, inviteVars,
                       resetVars, buyVars, cancelVars, delVars, usageVars>>

mcVars ==
    <<scope, hookVars, importVars, retryVars, mailVars, inviteVars, resetVars, buyVars,
      cancelVars, delVars, usageVars, exportVars>>

MCSpec == MCInit /\ [][MCNext]_mcVars

\* The fairness each component's scheduling justifies.
MCFairSpec ==
    /\ MCSpec
    /\ Hook!Fairness
    /\ Import!Fairness
    /\ Retried!Fairness
    /\ Mail!Fairness
    /\ Invite!Fairness
    /\ Reset!Fairness
    /\ Purchase!Fairness
    /\ Cancel!Fairness
    /\ Delete!Fairness
    /\ Usage!Fairness
    /\ Export!Fairness

-----------------------------------------------------------------------------
(* Properties. *)

\* Something was taken on and is not finished: a webhook delivery or an import
\* is open or its document is still stored, an e-mail is neither delivered nor
\* given up, a payment has brought neither credits nor a refund, a
\* cancellation or an archive is not settled, a tenant behind the barrier of
\* its deletion is not purged, a usage snapshot is neither reported nor given
\* up, an export is under way or has left a file.
Owed ==
    \/ \E d \in {e1} : hookRow[d].status \in Hook!Open
    \/ \E i \in {i1} : importRow[i].status \in Import!Live \/ importRow[i].source \/ i \in importFile
    \/ \E i \in {i1} : retryRow[i].status \in Import!Live \/ retryRow[i].source \/ i \in retryFile
    \/ \E i \in {i1} : mailOutbox[i].status \in {"PENDING", "PROCESSING", "FAILED"}
    \/ inviteRow.status \in {"PENDING", "SENDING", "FAILED"}
    \/ \E n \in Reset!Links : resetRow[n].status \in Reset!Waiting
    \/ \E s \in {s1} : /\ buySession[s] = "paid"
                       /\ ~(buyGrants[s] = 1 \/ s \in buyTerminal \/ Purchase!Exhausted(s))
    \/ \E k \in Cancel!Kinds : /\ cancelIntent[k].state \in Cancel!Recoverable
                               /\ ~(k = Cancel!Archive /\ Cancel!UndoRefused)
    \/ delRow.state = "PENDING" /\ delTenant.status = "SUSPENDED"
    \/ \E n \in Usage!Periods : usageRow[n].status \in {"PENDING", "SENDING", "FAILED"}
    \/ Export!Active(1) \/ exportFiles # {}

\* Whatever is owed is done in the end, whatever failed or crashed before
\* within each component's bound of faults (a lease runs out when its owner
\* has crashed; no component has a stalled owner here).  Deliveries of
\* webhooks wait for a plan that pays for them.  Two things are no longer owed
\* (README.md, section 6): a deletion whose barrier a late compensation of an
\* archive replaced, which nobody goes on with, and an archive whose undo
\* Stripe refuses because of the key of an earlier one.
NothingStaysOwed == <>[](hookPlan = "PAID") => (Owed ~> ~Owed)
=============================================================================
