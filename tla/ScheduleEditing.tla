--------------------------- MODULE ScheduleEditing ---------------------------
(***************************************************************************)
(* The schedules of a tenant and everything that edits them: the shift and  *)
(* schedule controllers of the first API, the change sets of API v2 (which  *)
(* name the revision their client saw), the solver, break edits, and the    *)
(* deactivation of staff.  A draft is published against the contract that   *)
(* its client confirmed, and reopened to be edited again.                   *)
(*   api/src/shifts, api/src/schedules, api-v2/src/scheduling,              *)
(*   api/src/common/schedulable-user.ts, worker/main.py                     *)
(*                                                                          *)
(* Every editing request locks the tenant (or the location) for its whole   *)
(* transaction and is one action.  A board is read without locks, in two.   *)
(* Time is a row of instants, all in one week; a break is the unit interval *)
(* that starts at an instant.                                               *)
(***************************************************************************)
EXTENDS Integers, FiniteSets, FiniteSetsExt

CONSTANTS
    Users, Locations, Clients,
    NumSchedules, NumShifts,  \* rows the model may create (bounds)
    None,
    Slots,         \* the windows of shifts that requests ask for
    Demands,       \* the windows of demand that requests ask for
    Days,          \* the days of the week
    Drafts,        \* days whose drafts are there at the start
    DayLength,     \* 24 hours
    LongShift,     \* the length from which a shift must have its lunch
    MaxHours,      \* DEFAULT_MAX_HOURS_PER_WEEK
    Limits,        \* values of max_hours_per_week that solve requests ask for
    Available,     \* which users are available on which days
    ScheduleCost,  \* the price of a publication, and of a manual edit
    Credits,       \* the wallet at the start
    MaxEdits,      \* edits (bound)
    MaxSwitches    \* other changes: publications, people, solves (bound)

EditingAssumption ==
    /\ {DayLength, LongShift, ScheduleCost} \subseteq Nat \ {0}
    /\ {NumSchedules, NumShifts, MaxHours, Credits, MaxEdits, MaxSwitches} \subseteq Nat
    /\ Limits \cup Days \subseteq Nat /\ Available \subseteq Users \X Days
    /\ Drafts \in {{}} \cup {0 .. n - 1 : n \in 1 .. NumSchedules}
    /\ \A w \in Slots \cup Demands : w.start \in Nat /\ w.end \in Nat /\ w.start < w.end
    /\ None \notin Users

Schedules == 1 .. NumSchedules
Shifts == 1 .. NumShifts

VARIABLES
    schedule,   \* the Schedule rows
    shift,      \* the Shift rows with their breaks
    person,     \* users: whether they may be scheduled, and whether boards show them
    closed,     \* locations that are deleted
    hooks,      \* active endpoints that subscribe to schedule.published
    credits,
    board,      \* what a client has on its screen
    contract,   \* the publish contract a client has confirmed
    solve,      \* the revision an active solve job was made from
    announced,  \* dedupe keys of the notifications
    edition,    \* history: what the client confirmed that published a schedule
    edits, switches

editVars == <<schedule, shift, person, closed, hooks, credits, board, contract, solve,
              announced, edition, edits, switches>>
world == <<person, closed, hooks, contract, solve, announced, edition, switches>>

\* limit is the max_hours_per_week of the last solve that succeeded.
NoSchedule == [status |-> "none", loc |-> None, start |-> 0, end |-> 0, revision |-> 0,
               demand |-> {}, limit |-> MaxHours]
NoShift == [sched |-> 0, user |-> None, start |-> 0, end |-> 0, breaks |-> {}, used |-> FALSE]
\* without are the users that the board did not show when it was read.
NoBoard == [sched |-> 0, revision |-> 0, shifts |-> {}, without |-> {}, read |-> FALSE]
NoSolve == -1
NoContract == [sched |-> 0, revision |-> 0, price |-> 0, content |-> {}]

Edit == edits < MaxEdits /\ edits' = edits + 1
Switch == switches < MaxSwitches /\ switches' = switches + 1

-----------------------------------------------------------------------------
(* Rows and what the requests ask of them. *)

Overlaps(a, b) == a.start < b.end /\ a.end > b.start

Live == {i \in Shifts : shift[i].sched # 0}
Of(s) == {i \in Live : shift[i].sched = s}
Draft(s) == schedule[s].status = "DRAFT"
Open(s) == schedule[s].loc \notin closed
Exists(s) == schedule[s].status \in {"DRAFT", "PUBLISHED"}
Unused == {i \in Shifts : ~shift[i].used}
\* The identifier of a new row
Fresh(i) == i \in Unused /\ \A k \in Unused : i =< k
FreshSchedule(s) ==
    schedule[s].status = "none" /\ \A k \in Schedules : k < s => schedule[k].status # "none"

Content(s) == {<<i, shift[i]>> : i \in Of(s)} \cup {<<None, w>> : w \in schedule[s].demand}

\* A shift belongs to the schedule it starts in, and lasts at most a day.
Within(w, r) ==
    /\ r.start =< w.start /\ w.start < r.end
    /\ w.start < w.end /\ w.end - w.start =< DayLength

\* A suspended user may not be scheduled.  Neither may one who is deleted or
\* has another role than manager or staff: boards do not show those.
Person == {"eligible", "suspended", "hidden"}
Eligible == {u \in Users : person[u] = "eligible"}
Hidden == {u \in Users : person[u] = "hidden"}
Schedulable(u) == u = None \/ u \in Eligible

\* Nobody has two shifts at a time; the rows of `but` are about to change.
Free(u, w, but) ==
    u = None \/ \A i \in Live \ but : shift[i].user # u \/ ~Overlaps(shift[i], w)

Translated(r, start) == {b + start - r.start : b \in r.breaks}
Inside(B, w) == \A b \in B : w.start =< b /\ b < w.end

Row(s, u, w) == [NoShift EXCEPT !.sched = s, !.user = u, !.start = w.start, !.end = w.end,
                                !.used = TRUE]
Changed(i, u, w) == [shift[i] EXCEPT !.user = u, !.start = w.start, !.end = w.end,
                                     !.breaks = Translated(shift[i], w.start)]
Gone(i) == [NoShift EXCEPT !.used = TRUE]

Bumped(S) ==
    [s \in Schedules |->
        IF s \in S THEN [schedule[s] EXCEPT !.revision = @ + 1] ELSE schedule[s]]

Pay == credits >= ScheduleCost /\ credits' = credits - ScheduleCost

-----------------------------------------------------------------------------
(* Schedules. *)

NoOverlapAt(l, w) ==
    \A s \in Schedules : Exists(s) /\ schedule[s].loc = l => ~Overlaps(schedule[s], w)

NewSchedule(l, w) == [NoSchedule EXCEPT !.status = "DRAFT", !.loc = l, !.start = w.start,
                                        !.end = w.end]

Day(t) == LET d == t \div DayLength IN [start |-> d * DayLength, end |-> (d + 1) * DayLength]

\* API v2 answers with the draft that has this very window, if there is one.
CreateSchedule(s, l, d) ==
    /\ Edit
    /\ FreshSchedule(s) /\ l \notin closed
    /\ NoOverlapAt(l, Day(d * DayLength))
    /\ schedule' = [schedule EXCEPT ![s] = NewSchedule(l, Day(d * DayLength))]
    /\ UNCHANGED <<world, shift, credits, board>>

RemoveSchedule(s) ==
    /\ Switch
    /\ Draft(s) /\ solve[s] = NoSolve
    /\ shift' = [i \in Shifts |-> IF i \in Of(s) THEN Gone(i) ELSE shift[i]]
    /\ schedule' = [schedule EXCEPT ![s].status = "DELETED"]
    /\ UNCHANGED <<person, closed, hooks, credits, board, contract, solve, announced,
                   edition, edits>>

DemandFits(s, W) == \A w \in W : Within(w, schedule[s])

ReplaceDemand(s, W) ==
    /\ Edit
    /\ Draft(s) /\ Open(s) /\ DemandFits(s, W)
    /\ schedule' = [Bumped({s}) EXCEPT ![s].demand = W]
    /\ UNCHANGED <<world, shift, credits, board>>

-----------------------------------------------------------------------------
(* Shifts, first API: paid, and without a word on what the client has seen. *)

CreateShift(i, s, u, w) ==
    /\ Edit
    /\ Fresh(i) /\ Draft(s) /\ Open(s) /\ Schedulable(u)
    /\ Within(w, schedule[s]) /\ Free(u, w, {})
    /\ Pay
    /\ shift' = [shift EXCEPT ![i] = Row(s, u, w)]
    /\ schedule' = Bumped({s})
    /\ UNCHANGED <<world, board>>

\* Without a schedule that the shift starts in, its day becomes a new draft.
CreateShiftAndDraft(i, s, l, u, w) ==
    /\ Edit
    /\ Fresh(i) /\ FreshSchedule(s) /\ l \notin closed /\ Schedulable(u)
    /\ NoOverlapAt(l, Day(w.start))
    /\ Within(w, Day(w.start)) /\ Free(u, w, {})
    /\ Pay
    /\ shift' = [shift EXCEPT ![i] = Row(s, u, w)]
    /\ schedule' = [schedule EXCEPT ![s] = [NewSchedule(l, Day(w.start)) EXCEPT !.revision = 1]]
    /\ UNCHANGED <<world, board>>

UpdateShift(i, u, w) ==
    LET s == shift[i].sched IN
    /\ Edit
    /\ i \in Live /\ Draft(s)
    /\ Changed(i, u, w) # shift[i]
    /\ u = shift[i].user \/ (Open(s) /\ Schedulable(u))
    /\ Within(w, schedule[s])
    /\ Inside(Translated(shift[i], w.start), w)
    /\ Free(u, w, {i})
    /\ Pay
    /\ shift' = [shift EXCEPT ![i] = Changed(i, u, w)]
    /\ schedule' = Bumped({s})
    /\ UNCHANGED <<world, board>>

RemoveShift(i) ==
    /\ Edit
    /\ i \in Live /\ Draft(shift[i].sched)
    /\ shift' = [shift EXCEPT ![i] = Gone(i)]
    /\ schedule' = Bumped({shift[i].sched})
    /\ UNCHANGED <<world, credits, board>>

\* Assignments of several shifts at once, in any drafts.
NoBatchOverlaps(f) ==
    \A i, j \in DOMAIN f : i # j /\ f[i] = f[j] /\ f[i] # None => ~Overlaps(shift[i], shift[j])

BulkAssign(f) ==
    LET changed == {i \in DOMAIN f : shift[i].user # f[i]} IN
    /\ Edit
    /\ \A i \in DOMAIN f : /\ i \in Live /\ Draft(shift[i].sched) /\ Open(shift[i].sched)
                           /\ Schedulable(f[i])
                           /\ Free(f[i], shift[i], DOMAIN f)
    /\ NoBatchOverlaps(f)
    /\ changed # {}
    /\ Pay
    /\ shift' = [i \in Shifts |->
                    IF i \in changed THEN [shift[i] EXCEPT !.user = f[i]] ELSE shift[i]]
    /\ schedule' = Bumped({shift[i].sched : i \in changed})
    /\ UNCHANGED <<world, board>>

-----------------------------------------------------------------------------
(* API v2: a client loads a board, and names its revision in what it asks. *)

ReadSchedule(c, s) ==
    /\ Switch
    /\ Exists(s) /\ Open(s)
    /\ board' = [board EXCEPT ![c] = [NoBoard EXCEPT !.sched = s, !.revision = schedule[s].revision]]
    /\ UNCHANGED <<schedule, shift, person, closed, hooks, credits, contract, solve,
                   announced, edition, edits>>

Shown(s, without) == {<<i, shift[i]>> : i \in {k \in Of(s) : shift[k].user \notin without}}

ReadShifts(c) ==
    /\ board[c].sched # 0 /\ ~board[c].read
    /\ board' = [board EXCEPT ![c].shifts = Shown(board[c].sched, Hidden),
                              ![c].without = Hidden, ![c].read = TRUE]
    /\ UNCHANGED <<schedule, shift, person, closed, hooks, credits, contract, solve,
                   announced, edition, edits, switches>>

IfMatch(c, s) == board[c].sched = s /\ board[c].read /\ board[c].revision = schedule[s].revision

\* What a change set makes of the shifts of s: some go, some are updated (a
\* user and a window each), new ones come.
Planned(s, del, upd, new) ==
    [i \in (Of(s) \ del) \cup DOMAIN new |->
        IF i \in DOMAIN new THEN Row(s, new[i].user, new[i])
        ELSE IF i \in DOMAIN upd THEN Changed(i, upd[i].user, upd[i]) ELSE shift[i]]

PlanIsValid(s, plan) ==
    /\ \A i \in DOMAIN plan : Within(plan[i], schedule[s]) /\ Inside(plan[i].breaks, plan[i])
    /\ \A i, j \in DOMAIN plan : i # j /\ plan[i].user = plan[j].user /\ plan[i].user # None
                                  => ~Overlaps(plan[i], plan[j])
    /\ \A i \in DOMAIN plan : Free(plan[i].user, plan[i], Of(s))

Requested(upd, new) ==
    {upd[i].user : i \in {k \in DOMAIN upd : upd[k].user # shift[k].user}}
        \cup {new[i].user : i \in DOMAIN new}

Apply(c, s, del, upd, new) ==
    LET plan == Planned(s, del, upd, new) IN
    /\ Edit
    /\ Draft(s) /\ Open(s) /\ IfMatch(c, s)
    /\ del \cup DOMAIN upd \subseteq Of(s) /\ \A i \in DOMAIN new : Fresh(i)
    /\ \A u \in Requested(upd, new) : Schedulable(u)
    /\ PlanIsValid(s, plan)
    /\ plan # [i \in Of(s) |-> shift[i]]
    /\ shift' = [i \in Shifts |-> IF i \in DOMAIN plan THEN plan[i]
                                  ELSE IF i \in del THEN Gone(i) ELSE shift[i]]
    /\ schedule' = Bumped({s})
    /\ board' = [board EXCEPT ![c].revision = @ + 1, ![c].without = {},
                              ![c].shifts = {<<i, plan[i]>> : i \in DOMAIN plan}]
    /\ UNCHANGED <<world, credits>>

Replace(c, s, W) ==
    /\ Edit
    /\ Draft(s) /\ Open(s) /\ IfMatch(c, s) /\ DemandFits(s, W)
    /\ schedule' = [Bumped({s}) EXCEPT ![s].demand = W]
    /\ board' = [board EXCEPT ![c].revision = @ + 1]
    /\ UNCHANGED <<world, shift, credits>>

-----------------------------------------------------------------------------
(* Publication. *)

Price == ScheduleCost * (1 + hooks)

PublishPreflight(c, s) ==
    /\ Draft(s) /\ Open(s)
    /\ contract' = [contract EXCEPT ![c] = [sched |-> s, revision |-> schedule[s].revision,
                                            price |-> Price, content |-> Content(s)]]
    /\ contract' # contract
    /\ UNCHANGED <<schedule, shift, person, closed, hooks, credits, board, solve, announced,
                   edition, edits, switches>>

Assigned(s) == {i \in Of(s) : shift[i].user # None}
Length(r) == r.end - r.start
HasRequiredBreaks(r) == Length(r) >= LongShift => r.breaks # {}

PublishableShifts(s) ==
    /\ Of(s) # {}
    /\ \A i \in Of(s) : /\ Schedulable(shift[i].user)
                        /\ Within(shift[i], schedule[s])
                        /\ HasRequiredBreaks(shift[i])
    /\ \A i, j \in Assigned(s) : i # j /\ shift[i].user = shift[j].user
                                  => ~Overlaps(shift[i], shift[j])

\* The instants at which the staff at work can change during a demand window.
CoverageBoundaries(s, w) ==
    {w.start, w.end} \cup
    UNION {{Max({w.start, e.start}), Min({w.end, e.end})} :
              e \in {x \in UNION {{[start |-> shift[i].start, end |-> shift[i].end]} \cup
                                  {[start |-> b, end |-> b + 1] : b \in shift[i].breaks} :
                                     i \in {k \in Assigned(s) : Overlaps(shift[k], w)}} :
                       Overlaps(x, w)}}

Segments(B) == {g \in B \X B : g[1] < g[2] /\ \A c \in B : c =< g[1] \/ g[2] =< c}

Working(r, a, b) == r.start =< a /\ b =< r.end /\ \A k \in r.breaks : ~(k < b /\ a < k + 1)

DemandIsCovered(s) ==
    \A w \in schedule[s].demand : \A g \in Segments(CoverageBoundaries(s, w)) :
        \E i \in Assigned(s) : Working(shift[i], g[1], g[2])

LocalDays(r) == {t \div DayLength : t \in r.start .. (r.end - 1)}
WithinAvailability(s) ==
    \A i \in Assigned(s) : \A d \in LocalDays(shift[i]) : <<shift[i].user, d>> \in Available

\* The hours of the shifts that a user has in the schedules of S, shift by shift
Worked(u, S) ==
    UNION {{i} \X (shift[i].start .. shift[i].end - 1) :
             i \in {k \in Live : shift[k].user = u /\ shift[k].sched \in S}}
Hours(u, S) == Cardinality(Worked(u, S))
WithinMaxHours(s) ==
    \A i \in Assigned(s) : Hours(shift[i].user, Schedules) =< schedule[s].limit

ContractMatches(c, s) ==
    /\ contract[c].sched = s
    /\ contract[c].revision = schedule[s].revision
    /\ contract[c].price = Price

Publish(c, s) ==
    /\ Switch
    /\ Draft(s) /\ Open(s) /\ solve[s] = NoSolve
    /\ PublishableShifts(s) /\ DemandIsCovered(s) /\ WithinAvailability(s) /\ WithinMaxHours(s)
    /\ ContractMatches(c, s) /\ credits >= Price
    /\ credits' = credits - Price
    /\ schedule' = [schedule EXCEPT ![s].status = "PUBLISHED"]
    /\ announced' = announced \cup
          {<<s, schedule[s].revision, shift[i].user>> : i \in Assigned(s)}
    /\ edition' = [edition EXCEPT ![s] = contract[c].content]
    /\ UNCHANGED <<shift, person, closed, hooks, board, contract, solve, edits>>

Reopened(s) == [Bumped({s}) EXCEPT ![s].status = "DRAFT"]

Reopen(s) ==
    /\ Switch
    /\ schedule[s].status = "PUBLISHED"
    /\ schedule' = Reopened(s)
    /\ UNCHANGED <<shift, person, closed, hooks, credits, board, contract, solve, announced,
                   edition, edits>>

ReopenSeen(c, s) ==
    /\ Switch
    /\ schedule[s].status = "PUBLISHED" /\ Open(s) /\ IfMatch(c, s)
    /\ schedule' = Reopened(s)
    /\ board' = [board EXCEPT ![c].revision = @ + 1]
    /\ UNCHANGED <<shift, person, closed, hooks, credits, contract, solve, announced,
                   edition, edits>>

-----------------------------------------------------------------------------
(* What else changes drafts. *)

\* A user that is suspended, deleted or given another role leaves the drafts;
\* published shifts keep their assignment.
Deactivate(u, p) ==
    LET mine == {i \in Live : shift[i].user = u /\ Draft(shift[i].sched)} IN
    /\ Switch
    /\ person[u] = "eligible" \/ (person[u] = "suspended" /\ p = "hidden")
    /\ person' = [person EXCEPT ![u] = p]
    /\ shift' = [i \in Shifts |-> IF i \in mine THEN [shift[i] EXCEPT !.user = None] ELSE shift[i]]
    /\ schedule' = Bumped({shift[i].sched : i \in mine})
    /\ UNCHANGED <<closed, hooks, credits, board, contract, solve, announced, edition, edits>>

\* A suspension ends, or a role is given back; who is deleted stays hidden.
Reinstate(u) ==
    /\ Switch
    /\ person[u] # "eligible"
    /\ person' = [person EXCEPT ![u] = "eligible"]
    /\ UNCHANGED <<schedule, shift, closed, hooks, credits, board, contract, solve,
                   announced, edition, edits>>

RemoveLocation(l) ==
    /\ Switch
    /\ l \notin closed
    /\ closed' = closed \cup {l}
    /\ schedule' = Bumped({s \in Schedules : Draft(s) /\ schedule[s].loc = l})
    /\ UNCHANGED <<shift, person, hooks, credits, board, contract, solve, announced, edition,
                   edits>>

ToggleHook ==
    /\ Switch
    /\ hooks' = 1 - hooks
    /\ UNCHANGED <<schedule, shift, person, closed, credits, board, contract, solve,
                   announced, edition, edits>>

ReplaceBreaks(i, B) ==
    /\ Edit /\ Pay
    /\ i \in Live /\ Draft(shift[i].sched)
    /\ B # shift[i].breaks /\ Inside(B, shift[i])
    /\ shift' = [shift EXCEPT ![i].breaks = B]
    /\ schedule' = Bumped({shift[i].sched})
    /\ UNCHANGED <<world, board>>

StartSolve(s) ==
    /\ Switch
    /\ Draft(s) /\ solve[s] = NoSolve
    /\ solve' = [solve EXCEPT ![s] = schedule[s].revision]
    /\ UNCHANGED <<schedule, shift, person, closed, hooks, credits, board, contract,
                   announced, edition, edits>>

\* Mutant: there is no constraint on overlapping assignments.
NoExclusion(u, w, but) == TRUE

\* The worker replaces the shifts of the draft it was given.  It does not read
\* those of other schedules again: the exclusion constraint of the database
\* does.  The request of the job, kept with it, asked for h hours a week.
AssignedNoOverlap(u, w, but) == Free(u, w, but)

FinishSolve(s, i, u, w, b, h) ==
    /\ solve[s] # NoSolve
    /\ solve' = [solve EXCEPT ![s] = NoSolve]
    /\ Draft(s) /\ Open(s) /\ schedule[s].revision = solve[s]
    /\ Fresh(i) /\ u \in Eligible /\ Within(w, schedule[s]) /\ Inside({b}, w)
    /\ AssignedNoOverlap(u, w, Of(s))
    /\ shift' = [k \in Shifts |-> IF k = i THEN [Row(s, u, w) EXCEPT !.breaks = {b}]
                                  ELSE IF k \in Of(s) THEN Gone(k) ELSE shift[k]]
    /\ schedule' = [Bumped({s}) EXCEPT ![s].limit = h]
    /\ UNCHANGED <<person, closed, hooks, credits, board, contract, announced, edition,
                   edits, switches>>

FailSolve(s) ==
    /\ solve[s] # NoSolve
    /\ solve' = [solve EXCEPT ![s] = NoSolve]
    /\ UNCHANGED <<schedule, shift, person, closed, hooks, credits, board, contract,
                   announced, edition, edits, switches>>

-----------------------------------------------------------------------------
Init ==
    /\ schedule \in {[s \in Schedules |-> IF s - 1 \in Drafts THEN NewSchedule(l, Day((s - 1) * DayLength))
                                          ELSE NoSchedule] : l \in Locations}
    /\ shift = [i \in Shifts |-> NoShift]
    /\ person = [u \in Users |-> "eligible"] /\ closed = {} /\ hooks = 0
    /\ credits = Credits
    /\ board = [c \in Clients |-> NoBoard]
    /\ contract = [c \in Clients |-> NoContract]
    /\ solve = [s \in Schedules |-> NoSolve]
    /\ announced = {}
    /\ edition = [s \in Schedules |-> {}]
    /\ edits = 0 /\ switches = 0

Assignees == Users \cup {None}
Windows == {{}} \cup {{w} : w \in Demands}

\* Change sets of one or two operations: a shift goes, comes, is replaced or
\* updated, or two shifts swap what they have.
Asked(i, u, w) == [k \in {i} |-> [user |-> u, start |-> w.start, end |-> w.end]]
Kept(i) == [user |-> shift[i].user, start |-> shift[i].start, end |-> shift[i].end]
NoOps == [k \in {} |-> None]

ApplySome(c, s) ==
    \/ \E i \in Of(s) : Apply(c, s, {i}, NoOps, NoOps)
    \/ \E i \in Of(s), u \in Assignees, w \in Slots : Apply(c, s, {}, Asked(i, u, w), NoOps)
    \/ \E i \in Shifts, D \in {{}} \cup {{k} : k \in Of(s)}, u \in Assignees, w \in Slots :
           Fresh(i) /\ Apply(c, s, D, NoOps, Asked(i, u, w))
    \/ \E i, j \in Of(s) :
           i # j /\ Apply(c, s, {}, [k \in {i, j} |-> IF k = i THEN Kept(j) ELSE Kept(i)], NoOps)

EditShifts ==
    \/ \E i \in Shifts, u \in Assignees, w \in Slots :
          \/ \E s \in Schedules : CreateShift(i, s, u, w)
          \/ \E s \in Schedules, l \in Locations : CreateShiftAndDraft(i, s, l, u, w)
          \/ UpdateShift(i, u, w)
    \/ \E i \in Shifts : RemoveShift(i) \/ \E b \in shift[i].start .. shift[i].end - 1 : ReplaceBreaks(i, {b})
    \/ \E i, j \in Shifts : \E f \in [{i, j} -> Assignees] : BulkAssign(f)

EditSchedules ==
    \E s \in Schedules :
        \/ \E l \in Locations, d \in Days : CreateSchedule(s, l, d)
        \/ \E W \in Windows : ReplaceDemand(s, W)
        \/ RemoveSchedule(s) \/ Reopen(s)
        \/ StartSolve(s) \/ FailSolve(s)
        \/ \E i \in Shifts, u \in Users, w \in Slots, h \in Limits :
              FinishSolve(s, i, u, w, w.start, h)

UseBoards ==
    \E c \in Clients :
        \/ ReadShifts(c)
        \/ \E s \in Schedules :
              \/ ReadSchedule(c, s) \/ ApplySome(c, s) \/ ReopenSeen(c, s)
              \/ PublishPreflight(c, s) \/ Publish(c, s)
              \/ \E W \in Windows : Replace(c, s, W)

Next ==
    \/ EditShifts \/ EditSchedules \/ UseBoards
    \/ \E u \in Users : Deactivate(u, "suspended") \/ Deactivate(u, "hidden") \/ Reinstate(u)
    \/ \E l \in Locations : RemoveLocation(l)
    \/ ToggleHook

Spec == Init /\ [][Next]_editVars

-----------------------------------------------------------------------------
(* Properties. *)

TypeOK ==
    /\ \A s \in Schedules : schedule[s].status \in {"none", "DRAFT", "PUBLISHED", "DELETED"}
    /\ \A i \in Shifts : shift[i].sched \in {0} \cup Schedules /\ shift[i].user \in Assignees
    /\ person \in [Users -> Person] /\ closed \subseteq Locations /\ credits \in Nat
    /\ \A s \in Schedules : solve[s] \in Nat \cup {NoSolve}

\* Nobody is assigned to two shifts at a time, in whatever schedules, locations
\* and states of publication these are.
NobodyIsDoubleBooked ==
    \A i, j \in Live : i # j /\ shift[i].user = shift[j].user /\ shift[i].user # None
                         => ~Overlaps(shift[i], shift[j])

\* Schedules of a location do not overlap; a shift starts in its schedule, and
\* its breaks lie inside it.
RowsFit ==
    /\ \A s, t \in Schedules : s # t /\ Exists(s) /\ Exists(t) /\ schedule[s].loc = schedule[t].loc
                                 => ~Overlaps(schedule[s], schedule[t])
    /\ \A i \in Live : /\ Exists(shift[i].sched) /\ Within(shift[i], schedule[shift[i].sched])
                        /\ Inside(shift[i].breaks, shift[i])

\* A revision names a content: a board that still has the revision of its
\* schedule shows its shifts as they are, although it was read in two steps and
\* anybody may edit meanwhile.  It lacks the shifts of those who were hidden
\* when it was read, which no revision tells (README.md, section 6).
RevisionNamesContent ==
    \A c \in Clients : \A s \in Schedules :
        Exists(s) /\ IfMatch(c, s) => board[c].shifts = Shown(s, board[c].without)

\* A published schedule is what the client confirmed that published it, until
\* it is reopened.
PublishedAsConfirmed ==
    \A s \in Schedules : schedule[s].status = "PUBLISHED" => Content(s) = edition[s]

\* While a schedule is published, somebody is at work at every instant of its
\* demand, long shifts have their lunch, and nobody works more published hours
\* a week than the limit of one of the published schedules they work in (each
\* has its own, from its last solve).
Covered(s) ==
    \A w \in schedule[s].demand : \A t \in w.start .. w.end - 1 :
        \E i \in Of(s) : /\ shift[i].user # None /\ t \notin shift[i].breaks
                         /\ shift[i].start =< t /\ t < shift[i].end
Published == {s \in Schedules : schedule[s].status = "PUBLISHED"}
PublishedIsWorkable ==
    /\ \A s \in Published : Covered(s) /\ \A i \in Of(s) : HasRequiredBreaks(shift[i])
    /\ \A u \in Users :
          \/ Worked(u, Published) = {}
          \/ \E s \in Published : /\ \E i \in Of(s) : shift[i].user = u
                                  /\ Hours(u, Published) =< schedule[s].limit

\* A publication costs what was confirmed, and every assigned user is told of
\* it: its notifications are never taken for those of an earlier one.
Announces ==
    \A s \in Schedules :
        schedule[s].status = "DRAFT" /\ schedule'[s].status = "PUBLISHED" =>
            /\ \A i \in Assigned(s) :
                  <<s, schedule[s].revision, shift[i].user>> \in announced' \ announced
            /\ \E c \in Clients : credits - credits' = contract[c].price
PublicationIsAnnounced == [][Announces]_editVars

=============================================================================
