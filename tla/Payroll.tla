------------------------------- MODULE Payroll -------------------------------
(***************************************************************************)
(* Time cards and payroll periods of one tenant.  Employees clock in and    *)
(* out (apps/api-v2/src/time), managers correct cards, and a payroll period *)
(* goes OPEN -> REVIEW -> LOCKED (apps/api-v2/src/payroll): during review    *)
(* every card revision is approved or rejected by someone else than its     *)
(* employee, locking copies the approved cards into immutable entries, and  *)
(* a locked entry is corrected only by an amendment paid in a later period. *)
(*                                                                          *)
(* Every operation is one serializable transaction under the tenant's       *)
(* payroll advisory lock, so one operation is one action; the database      *)
(* triggers of 20260716_payroll_controls.sql are conjuncts of its guard.    *)
(* Minutes are instants of a small clock; breaks are left out.              *)
(***************************************************************************)
EXTENDS Integers, FiniteSets

CONSTANTS
    Cards,          \* clock-in operations; each creates at most one card
    Users,          \* employees, managers and approvers
    Amendments,     \* amendment requests
    NumPeriods,     \* payroll periods 1..NumPeriods, one after the other
    PeriodLength,   \* instants of a period
    MaxRevision,    \* revisions of a card (bound)
    NoCard, NoAmendment

VARIABLES
    now,        \* the server's clock
    effective,  \* effectiveFrom of the payroll policy, or Unset
    period,     \* status of each period's row, "NONE" before it is created
    card,       \* the TimeCard rows
    decision,   \* the PayrollTimeCardApproval rows
    amendment,  \* the PayrollAmendment rows with their decision
    entries     \* the PayrollLockedEntry rows of each period

vars == <<now, effective, period, card, decision, amendment, entries>>

Periods == 1 .. NumPeriods
Horizon == NumPeriods * PeriodLength
Instants == 0 .. Horizon
Unset == -1
Start(p) == (p - 1) * PeriodLength
End(p) == p * PeriodLength
Covers(p, t) == Start(p) =< t /\ t < End(p)

CardRows ==
    [user: Users, in: Instants, out: Instants \cup {Unset},
     period: Periods \cup {Unset}, rev: 1 .. MaxRevision]

EntryRows ==
    [src: {"TIME_CARD"}, id: Cards, rev: 1 .. MaxRevision, user: Users,
     minutes: Int, by: Users]
    \cup
    [src: {"AMENDMENT"}, id: Amendments, rev: {1}, user: Users,
     minutes: Int, by: Users]

AmendmentRows ==
    [card: Cards, from: Periods, into: Periods, by: Users, minutes: Nat,
     verdict: {"PENDING", "APPROVED", "REJECTED"}, decider: Users \cup {NoAmendment}]

PayrollAssumption ==
    /\ NumPeriods \in Nat \ {0}
    /\ PeriodLength \in Nat \ {0}
    /\ MaxRevision \in Nat \ {0}
    /\ NoCard \notin CardRows /\ NoAmendment \notin AmendmentRows

Exists(c) == card[c] # NoCard
IsOpen(c) == Exists(c) /\ card[c].out = Unset
Minutes(r) == r.out - r.in

-----------------------------------------------------------------------------
(* Clock-in, clock-out and correction                                       *)

\* The period a clock-in at t is assigned to: none where no policy is
\* effective, otherwise an OPEN period that covers t, if there is one.
Assignment(t) ==
    IF effective = Unset \/ t < effective THEN {Unset}
    ELSE {p \in Periods : period[p] = "OPEN" /\ Covers(p, t)}

\* TimeCard_employee_no_overlap: the cards of one employee do not overlap,
\* an open card lasting for ever.
NoOverlap(c, u, in, out) ==
    \A d \in Cards \ {c} :
        (Exists(d) /\ card[d].user = u) =>
            \/ card[d].out # Unset /\ card[d].out =< in
            \/ out # Unset /\ out =< card[d].in

\* TimeCard_payroll_period_locked: no change of a card that belongs to, or was
\* clocked in during, a LOCKED period.
Frozen(r) ==
    \E p \in Periods : period[p] = "LOCKED" /\ (r.period = p \/ Covers(p, r.in))

\* A retried clock-in finds its card by the operation id and changes nothing.
ClockIn(c, u, t) ==
    /\ ~Exists(c)
    /\ NoOverlap(c, u, t, Unset)
    /\ \E p \in Assignment(t) :
           card' = [card EXCEPT ![c] =
                       [user |-> u, in |-> t, out |-> Unset, period |-> p, rev |-> 1]]
    /\ UNCHANGED <<now, effective, period, decision, amendment, entries>>

ClockOut(c, t) ==
    /\ IsOpen(c)
    /\ card[c].in < t
    /\ ~Frozen(card[c])
    /\ card[c].period # Unset => t =< End(card[c].period)
    /\ NoOverlap(c, card[c].user, card[c].in, t)
    /\ card[c].rev < MaxRevision
    /\ card' = [card EXCEPT ![c].out = t, ![c].rev = @ + 1]
    /\ UNCHANGED <<now, effective, period, decision, amendment, entries>>

\* The membership of a card is immutable once either period is in review.
MembershipMayChange(from, to) ==
    from # to => \A p \in {from, to} \ {Unset} : period[p] = "OPEN"

CorrectionAllowed(c, in, out, p) ==
    /\ Exists(c)
    /\ out # Unset => in < out
    /\ p \in Assignment(in)
    /\ ~Frozen(card[c])
    /\ ~Frozen([card[c] EXCEPT !.in = in, !.period = p])
    /\ MembershipMayChange(card[c].period, p)
    /\ (out # Unset /\ p # Unset) => out =< End(p)
    /\ NoOverlap(c, card[c].user, in, out)

Correct(c, in, out) ==
    /\ \E p \in Assignment(in) :
           /\ CorrectionAllowed(c, in, out, p)
           /\ card[c].rev < MaxRevision
           /\ card' = [card EXCEPT ![c].in = in, ![c].out = out, ![c].period = p,
                                   ![c].rev = @ + 1]
    /\ UNCHANGED <<now, effective, period, decision, amendment, entries>>

-----------------------------------------------------------------------------
(* Policy, periods and review                                               *)

CreatePolicy(p) ==
    /\ effective = Unset
    /\ effective' = Start(p)
    /\ UNCHANGED <<now, period, card, decision, amendment, entries>>

CreatePeriod(p) ==
    /\ effective # Unset /\ effective =< Start(p)
    /\ period[p] = "NONE"
    /\ period' = [period EXCEPT ![p] = "OPEN"]
    /\ UNCHANGED <<now, effective, card, decision, amendment, entries>>

\* Only a complete, unassigned card wholly inside an open period is adopted.
AdoptCard(c, p) ==
    /\ period[p] = "OPEN"
    /\ Exists(c) /\ card[c].out # Unset /\ card[c].period = Unset
    /\ Start(p) =< card[c].in /\ card[c].out =< End(p)
    /\ card[c].rev < MaxRevision
    /\ card' = [card EXCEPT ![c].period = p, ![c].rev = @ + 1]
    /\ UNCHANGED <<now, effective, period, decision, amendment, entries>>

\* Mutant: only the assigned cards are read.
AssignedCards(p) == {c \in Cards : Exists(c) /\ card[c].period = p}

\* The cards lockPayrollCandidateCards reads: assigned to the period, or
\* overlapping its window.
Candidates(p) ==
    {c \in Cards : /\ Exists(c)
                   /\ \/ card[c].period = p
                      \/ card[c].in < End(p) /\ (IsOpen(c) \/ card[c].out > Start(p))}

CandidatesValid(p) ==
    \A c \in Candidates(p) :
        /\ ~IsOpen(c)
        /\ card[c].period = p
        /\ Start(p) =< card[c].in /\ card[c].out =< End(p)

StartReview(p) ==
    /\ period[p] = "OPEN"
    /\ End(p) =< now
    /\ CandidatesValid(p)
    /\ period' = [period EXCEPT ![p] = "REVIEW"]
    /\ UNCHANGED <<now, effective, card, decision, amendment, entries>>

DecideCard(c, u, verdict) ==
    /\ Exists(c) /\ ~IsOpen(c) /\ card[c].period # Unset
    /\ period[card[c].period] = "REVIEW"
    /\ card[c].user # u
    /\ ~\E d \in decision : d.card = c /\ d.rev = card[c].rev
    /\ decision' = decision \cup
           {[card |-> c, rev |-> card[c].rev, by |-> u, verdict |-> verdict]}
    /\ UNCHANGED <<now, effective, period, card, amendment, entries>>

-----------------------------------------------------------------------------
(* Locking                                                                  *)

CurrentDecision(c) == {d \in decision : d.card = c /\ d.rev = card[c].rev}

AmendmentsInto(p) ==
    {a \in Amendments : amendment[a] # NoAmendment /\ amendment[a].into = p}

\* The entry an amendment corrects.
OriginalEntry(a) ==
    CHOOSE e \in entries[amendment[a].from] :
        e.src = "TIME_CARD" /\ e.id = amendment[a].card

CardSources(p) ==
    {[src |-> "TIME_CARD", id |-> c, rev |-> card[c].rev, user |-> card[c].user,
      minutes |-> Minutes(card[c]),
      by |-> (CHOOSE d \in CurrentDecision(c) : TRUE).by] : c \in Candidates(p)}

MinuteDelta(a) == amendment[a].minutes - OriginalEntry(a).minutes

AmendmentSources(p) ==
    {[src |-> "AMENDMENT", id |-> a, rev |-> 1, user |-> OriginalEntry(a).user,
      minutes |-> MinuteDelta(a), by |-> amendment[a].decider] :
        a \in {b \in AmendmentsInto(p) : amendment[b].verdict = "APPROVED"}}

LockPeriod(p) ==
    /\ period[p] = "REVIEW"
    /\ End(p) =< now
    /\ CandidatesValid(p)
    /\ \A c \in Candidates(p) : \E d \in CurrentDecision(c) : d.verdict = "APPROVED"
    /\ \A a \in AmendmentsInto(p) : amendment[a].verdict # "PENDING"
    /\ entries' = [entries EXCEPT ![p] = CardSources(p) \cup AmendmentSources(p)]
    /\ period' = [period EXCEPT ![p] = "LOCKED"]
    /\ UNCHANGED <<now, effective, card, decision, amendment>>

-----------------------------------------------------------------------------
(* Amendments                                                               *)

CreateAmendment(a, c, from, into, u, minutes) ==
    /\ amendment[a] = NoAmendment
    /\ \E e \in entries[from] : e.src = "TIME_CARD" /\ e.id = c /\ e.user # u
    /\ period[into] = "OPEN"
    /\ End(from) =< Start(into)
    /\ amendment' = [amendment EXCEPT ![a] =
           [card |-> c, from |-> from, into |-> into, by |-> u, minutes |-> minutes,
            verdict |-> "PENDING", decider |-> NoAmendment]]
    /\ UNCHANGED <<now, effective, period, card, decision, entries>>

\* validate_payroll_amendment_decision: at most one approved amendment of an
\* entry.
NotYetAmended(a) ==
    ~\E b \in Amendments \ {a} :
        /\ amendment[b] # NoAmendment
        /\ amendment[b].card = amendment[a].card
        /\ amendment[b].from = amendment[a].from
        /\ amendment[b].verdict = "APPROVED"

Independent(a, u) == amendment[a].by # u /\ OriginalEntry(a).user # u

DecideAmendment(a, u, verdict) ==
    /\ amendment[a] # NoAmendment
    /\ amendment[a].verdict = "PENDING"
    /\ period[amendment[a].into] = "REVIEW"
    /\ Independent(a, u)
    /\ verdict = "APPROVED" => NotYetAmended(a)
    /\ amendment' = [amendment EXCEPT ![a].verdict = verdict, ![a].decider = u]
    /\ UNCHANGED <<now, effective, period, card, decision, entries>>

-----------------------------------------------------------------------------
Tick ==
    /\ now < Horizon
    /\ now' = now + PeriodLength
    /\ UNCHANGED <<effective, period, card, decision, amendment, entries>>

Init ==
    /\ now = 0
    /\ effective = Unset
    /\ period = [p \in Periods |-> "NONE"]
    /\ card = [c \in Cards |-> NoCard]
    /\ decision = {}
    /\ amendment = [a \in Amendments |-> NoAmendment]
    /\ entries = [p \in Periods |-> {}]

Next ==
    \/ Tick
    \/ \E c \in Cards, u \in Users, t \in Instants : ClockIn(c, u, t)
    \/ \E c \in Cards, t \in Instants : ClockOut(c, t)
    \/ \E c \in Cards, in \in Instants, out \in Instants \cup {Unset} : Correct(c, in, out)
    \/ \E p \in Periods : CreatePolicy(p) \/ CreatePeriod(p) \/ StartReview(p) \/ LockPeriod(p)
    \/ \E c \in Cards, p \in Periods : AdoptCard(c, p)
    \/ \E c \in Cards, u \in Users, v \in {"APPROVED", "REJECTED"} : DecideCard(c, u, v)
    \/ \E a \in Amendments, c \in Cards, p \in Periods, q \in Periods, u \in Users,
          m \in 0 .. PeriodLength : CreateAmendment(a, c, p, q, u, m)
    \/ \E a \in Amendments, u \in Users, v \in {"APPROVED", "REJECTED"} :
          DecideAmendment(a, u, v)

Spec == Init /\ [][Next]_vars

-----------------------------------------------------------------------------
(* Properties                                                               *)

\* Every row has its type.
TypeOK ==
    /\ now \in Instants
    /\ effective \in Instants \cup {Unset}
    /\ period \in [Periods -> {"NONE", "OPEN", "REVIEW", "LOCKED"}]
    /\ card \in [Cards -> CardRows \cup {NoCard}]
    /\ decision \subseteq
           [card: Cards, rev: 1 .. MaxRevision, by: Users, verdict: {"APPROVED", "REJECTED"}]
    /\ amendment \in [Amendments -> AmendmentRows \cup {NoAmendment}]
    /\ \A p \in Periods : entries[p] \subseteq EntryRows

\* Locking pays exactly the period's work: every card clocked in during a
\* LOCKED period has one entry there, of the card's current revision and
\* minutes and approved by someone else, whatever clock-ins, corrections and
\* adoptions raced with the review, and no other period pays it.
LockedPeriodIsExact ==
    \A p \in Periods : period[p] = "LOCKED" =>
        /\ \A c \in Cards : (Exists(c) /\ Covers(p, card[c].in)) =>
              \E e \in entries[p] :
                  /\ e.src = "TIME_CARD" /\ e.id = c
                  /\ e.rev = card[c].rev
                  /\ e.minutes = Minutes(card[c])
                  /\ [card |-> c, rev |-> e.rev, by |-> e.by, verdict |-> "APPROVED"] \in decision
                  /\ e.by # card[c].user
        /\ \A e \in entries[p] : e.src = "TIME_CARD" =>
              \A q \in Periods \ {p} :
                  ~\E f \in entries[q] : f.src = "TIME_CARD" /\ f.id = e.id

\* What the locked periods pay for a card is one entry with the minutes of the
\* card, or that entry and a second one that makes up the difference to what
\* its one approved amendment says, however many amendments were requested, in
\* whatever periods and order they were decided and locked.
Paying(c, e) ==
    \/ e.src = "TIME_CARD" /\ e.id = c
    \/ e.src = "AMENDMENT" /\ amendment[e.id].card = c
CardIsPaidOnce ==
    \A c \in Cards :
        LET paid == UNION {{<<p, e>> : e \in {f \in entries[p] : Paying(c, f)}} : p \in Periods}
        IN  \A x \in paid :
                \/ paid = {x} /\ x[2].minutes = Minutes(card[c])
                \/ \E y \in paid : \E a \in Amendments :
                       /\ paid = {x, y} /\ x # y
                       /\ amendment[a] # NoAmendment /\ amendment[a].card = c
                       /\ amendment[a].verdict = "APPROVED"
                       /\ period[amendment[a].into] = "LOCKED"
                       /\ x[2].minutes + y[2].minutes = amendment[a].minutes

\* Nobody pays oneself: three different users stand behind a paid amendment,
\* the employee, the requester and the approver.
AmendmentsAreIndependent ==
    \A p \in Periods : \A e \in entries[p] : e.src = "AMENDMENT" =>
        Cardinality({e.user, e.by, amendment[e.id].by}) = 3

\* The entries of a locked period never change again.
EntriesStand ==
    \A p \in Periods : period[p] = "LOCKED" =>
        entries'[p] = entries[p] /\ period'[p] = "LOCKED"
LockedEntriesStand == [][EntriesStand]_vars

\* A reviewed card of which the current revision was decided can get a new
\* revision while its period is in review: the break trigger asks for "a new
\* parent revision" and decisions are bound to revisions so that a rejected
\* card can be corrected and approved.
\* Does not hold: see README.md, section 6.
ReviewedCardCanBeRevised ==
    \A c \in Cards :
        (/\ Exists(c) /\ card[c].period # Unset
         /\ period[card[c].period] = "REVIEW"
         /\ \E d \in CurrentDecision(c) : d.verdict = "REJECTED") =>
            \E in \in Instants, out \in Instants \cup {Unset} :
                \E p \in Assignment(in) : CorrectionAllowed(c, in, out, p)
=============================================================================
