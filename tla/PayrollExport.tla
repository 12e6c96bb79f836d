---------------------------- MODULE PayrollExport ----------------------------
(***************************************************************************)
(* The export of one LOCKED payroll period and its reconciliation with the  *)
(* external payroll provider (createExport, downloadExport and              *)
(* reconcileExport of apps/api-v2/src/payroll/payroll.service.ts).  An       *)
(* operator confirms a credit cost and asks for the export with an          *)
(* idempotency key, possibly again and again because responses get lost;    *)
(* another operator may ask with another key while an administrator changes *)
(* the price.  The provider's results are typed in or sent as events, late, *)
(* twice and in any order.                                                  *)
(***************************************************************************)
EXTENDS Naturals, FiniteSets

CONSTANTS
    Keys,       \* idempotency keys of export requests
    Costs,      \* credit costs the time_cards feature may have
    Credits,    \* the wallet at the start
    Lines,      \* locked entries of the period, one export line each
    Events,     \* provider event ids
    NoBatch

\* Rows of PayrollExportBatch
Batch == [key: Keys, status: {"GENERATED", "DOWNLOADED", "RECONCILING", "RECONCILED"}]

ASSUME ExportAssumption ==
    /\ Costs \subseteq Nat \ {0}
    /\ Credits \in Nat
    /\ NoBatch \notin Batch

VARIABLES
    cost,       \* the current price
    wallet,     \* usage credits of the tenant
    confirmed,  \* requests sent: the cost each key's operator confirmed
    batch,      \* the PayrollExportBatch row
    debits,     \* CreditTransaction rows of payroll exports
    receipts,   \* PayrollReconciliationReceipt rows in the order they came
    line        \* the PayrollReconciliationLineState rows

vars == <<cost, wallet, confirmed, batch, debits, receipts, line>>

Outcomes == {"PENDING", "ACCEPTED", "REJECTED"}

\* What one provider event reports: outcomes of some lines and a total that
\* agrees with the batch or does not.
Payloads ==
    [outcome: UNION {[s -> Outcomes] : s \in SUBSET Lines \ {{}}}, totalAgrees: BOOLEAN]

-----------------------------------------------------------------------------
\* A release changes FEATURE_CREDIT_COST.
SetCost(k) ==
    /\ cost' = k
    /\ UNCHANGED <<wallet, confirmed, batch, debits, receipts, line>>

\* An operator confirms the price shown and sends the request.
AskExport(key) ==
    /\ key \notin DOMAIN confirmed
    /\ \E k \in Costs : confirmed' = [x \in DOMAIN confirmed \cup {key} |->
                                        IF x = key THEN k ELSE confirmed[x]]
    /\ UNCHANGED <<cost, wallet, batch, debits, receipts, line>>

\* Mutant: the confirmed cost is not compared with the current one.
AnyPrice(key) == TRUE

PriceConfirmed(key) == confirmed[key] = cost

\* A saved batch of the same key is answered before anything is charged; a
\* batch of another key is a conflict.  The debit, the batch and its lines are
\* one transaction.
CreateExport(key) ==
    /\ key \in DOMAIN confirmed
    /\ batch = NoBatch
    /\ PriceConfirmed(key)
    /\ cost =< wallet
    /\ wallet' = wallet - cost
    /\ debits' = debits \cup {[key |-> key, amount |-> cost, after |-> wallet - cost]}
    /\ batch' = [key |-> key, status |-> "GENERATED"]
    /\ UNCHANGED <<cost, confirmed, receipts, line>>

DownloadExport ==
    /\ batch # NoBatch
    /\ batch.status = "GENERATED"
    /\ batch' = [batch EXCEPT !.status = "DOWNLOADED"]
    /\ UNCHANGED <<cost, wallet, confirmed, debits, receipts, line>>

-----------------------------------------------------------------------------
Recorded(ev) == \E r \in receipts : r.event = ev

Merged(f) == [l \in Lines |-> IF l \in DOMAIN f THEN f[l] ELSE line[l]]

\* Mutant: the event's own lines decide, not the accumulated states.
AllReported(p) == \A l \in DOMAIN p.outcome : p.outcome[l] = "ACCEPTED"

AllAccepted(p) == \A l \in Lines : Merged(p.outcome)[l] = "ACCEPTED"

TakesReceipts == batch.status \notin {"GENERATED", "RECONCILED"}

\* An event already recorded is answered from its receipt (or is a conflict
\* when it says something else) and changes nothing.
ReconcileExport(ev, p) ==
    /\ batch # NoBatch
    /\ ~Recorded(ev)
    /\ TakesReceipts
    /\ receipts' = receipts \cup {[event |-> ev, payload |-> p, at |-> Cardinality(receipts)]}
    /\ line' = Merged(p.outcome)
    /\ batch' = [batch EXCEPT !.status =
                    IF AllAccepted(p) /\ p.totalAgrees THEN "RECONCILED" ELSE "RECONCILING"]
    /\ UNCHANGED <<cost, wallet, confirmed, debits>>

-----------------------------------------------------------------------------
Init ==
    /\ cost \in Costs
    /\ wallet = Credits
    /\ confirmed = <<>>
    /\ batch = NoBatch
    /\ debits = {}
    /\ receipts = {}
    /\ line = [l \in Lines |-> "PENDING"]

Next ==
    \/ \E k \in Costs : SetCost(k)
    \/ \E key \in Keys : AskExport(key) \/ CreateExport(key)
    \/ DownloadExport
    \/ \E ev \in Events, p \in Payloads : ReconcileExport(ev, p)

Spec == Init /\ [][Next]_vars

-----------------------------------------------------------------------------
(* Properties                                                               *)

\* Every row has its type.
TypeOK ==
    /\ cost \in Costs /\ wallet \in Nat
    /\ DOMAIN confirmed \subseteq Keys
    /\ batch \in Batch \cup {NoBatch}
    /\ receipts \subseteq [event: Events, payload: Payloads, at: Nat]
    /\ line \in [Lines -> Outcomes]

\* However often the export is asked for, with whatever keys and while the
\* price changes, the tenant pays for one export, what the operator whose
\* request made it confirmed, and pays nothing while there is no export.
OneExportIsPaid ==
    /\ batch = NoBatch => debits = {}
    /\ batch # NoBatch => \E d \in debits :
           /\ debits = {d}
           /\ d.key = batch.key
           /\ d.amount = confirmed[batch.key]
           /\ wallet = Credits - d.amount

\* The state of a line is what the last receipt that mentions it says.
LatestOutcome(l) ==
    LET saying == {r \in receipts : l \in DOMAIN r.payload.outcome}
    IN  IF saying = {} THEN "PENDING"
        ELSE (CHOOSE r \in saying : \A s \in saying : s.at =< r.at).payload.outcome[l]

\* A batch counts as final exactly when the receipts taken together say so:
\* every line's last outcome is ACCEPTED and the last total agrees.
ReconciledIsTrue ==
    (batch # NoBatch /\ batch.status = "RECONCILED") <=>
        /\ receipts # {}
        /\ \A l \in Lines : LatestOutcome(l) = "ACCEPTED"
        /\ \E r \in receipts : r.payload.totalAgrees /\ \A s \in receipts : s.at =< r.at
=============================================================================
