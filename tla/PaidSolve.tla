------------------------------ MODULE PaidSolve -------------------------------
(***************************************************************************)
(* What the auto-schedule service promises to the customer who pays for    *)
(* it, without queues, leases, retries or processes.  A solve is bought at *)
(* its price and ends at most once: it is delivered into the very draft it *)
(* was computed from, or the price goes back to the wallet.                *)
(***************************************************************************)
EXTENDS Integers, FiniteSets

CONSTANTS Jobs, PublishKeys, SolveCost, PublishCost, InitialCredits

VARIABLES
    phase,     \* of each solve: "none", "open", "delivered" or "refunded"
    wallet,    \* the tenant's credits
    sold,      \* the publications that were paid for
    version,   \* the version of the draft's content
    snapshot   \* the version each solve was computed from

pvars == <<phase, wallet, sold, version, snapshot>>

Open == {j \in Jobs : phase[j] = "open"}

PInit ==
    /\ phase = [j \in Jobs |-> "none"]
    /\ wallet = InitialCredits
    /\ sold = {}
    /\ version = 0
    /\ snapshot = [j \in Jobs |-> 0]

\* A solve is bought; there is one at a time.
Buy(j) ==
    /\ phase[j] = "none"
    /\ Open = {}
    /\ wallet >= SolveCost
    /\ phase' = [phase EXCEPT ![j] = "open"]
    /\ wallet' = wallet - SolveCost
    /\ snapshot' = [snapshot EXCEPT ![j] = version]
    /\ UNCHANGED <<sold, version>>

\* The customer edits the draft.
Edit ==
    /\ version' = version + 1
    /\ UNCHANGED <<phase, wallet, sold, snapshot>>

\* The result replaces the draft it was computed from.
Deliver(j) ==
    /\ phase[j] = "open"
    /\ snapshot[j] = version
    /\ phase' = [phase EXCEPT ![j] = "delivered"]
    /\ version' = version + 1
    /\ UNCHANGED <<wallet, sold, snapshot>>

\* The solve ends without a result, and its price is paid back.
Refund(j) ==
    /\ phase[j] = "open"
    /\ phase' = [phase EXCEPT ![j] = "refunded"]
    /\ wallet' = wallet + SolveCost
    /\ UNCHANGED <<sold, version, snapshot>>

\* A publication is bought; it waits for the open solve.
SellPublication(k) ==
    /\ k \notin sold
    /\ Open = {}
    /\ wallet >= PublishCost
    /\ sold' = sold \cup {k}
    /\ wallet' = wallet - PublishCost
    /\ UNCHANGED <<phase, version, snapshot>>

Ends(j) == Deliver(j) \/ Refund(j)

PNext == \/ \E j \in Jobs : Buy(j) \/ Ends(j)
         \/ Edit
         \/ \E k \in PublishKeys : SellPublication(k)

PSpec == PInit /\ [][PNext]_pvars
=============================================================================
