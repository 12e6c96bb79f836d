--------------------------- MODULE BreakGeneration ---------------------------
(***************************************************************************)
(* Lunch and break generation for one shift of a draft schedule, and the    *)
(* edits it competes with (apps/api-v2/src/operations/lunch-breaks.service  *)
(* and its v1 twin apps/api/src/lunch-breaks, which share the tables).       *)
(*                                                                          *)
(* A generation is four transactions: it claims the row of its idempotency  *)
(* key under a lease, reads the shift and computes the breaks, completes    *)
(* (debit, breaks and answer together), and settles a failure.  Between     *)
(* them the shift is edited, moved, published or removed, the lease runs    *)
(* out, and the client asks again.  Manual edits and moves are one          *)
(* transaction each.                                                        *)
(*                                                                          *)
(* Time is a row of instants; a break is the unit interval that starts at   *)
(* an instant, and a plan is one break (the placement of several is         *)
(* BreakPlacement).                                                         *)
(***************************************************************************)
EXTENDS Naturals, FiniteSets

CONSTANTS
    Keys,         \* idempotency keys of generation requests
    Edits,        \* idempotency keys of manual edits and shift moves
    Handlers,     \* requests being handled
    Horizon,      \* the last instant
    Credits,      \* the wallet at the start
    None,
    MaxSwitches,  \* publications, removals, lapses, policy changes (bound)
    MaxFaults     \* lost transactions and crashes (bound)

BreaksAssumption ==
    /\ Horizon \in Nat \ {0}
    /\ {Credits, MaxSwitches, MaxFaults} \subseteq Nat
    /\ Keys \cap Edits = {}

VARIABLES
    shift,      \* the Shift row; stamp is its updatedAt
    breaks,     \* its Break rows
    draft,      \* the schedule is a draft
    entitled,   \* the tenant may use lunch_breaks
    offset,     \* the lunch_break_policy
    row,        \* the LunchBreakGenerationRequest rows
    wallet, debits,
    receipts,   \* edits stored in the audit log
    handler,
    switches, faults,
    answers,    \* history: generation answers that clients got
    unseen      \* history: the edits made since a handler read the shift

brVars == <<shift, breaks, draft, entitled, offset, row, wallet, debits, receipts,
            handler, switches, faults, answers, unseen>>
world == <<shift, breaks, draft, entitled, offset, receipts>>
money == <<wallet, debits>>

Instants == 0 .. Horizon
Apis == {"v1", "v2"}
Bodies == [api: Apis, persist: BOOLEAN]
Failures == {"forbidden", "conflict", "rejected", "unavailable"}

NoRow == [status |-> "none", body |-> None, token |-> None, live |-> FALSE,
          failure |-> None, data |-> {}]
Idle == [pc |-> "idle", key |-> None, body |-> None, failure |-> None, data |-> {},
         snapshot |-> None]

Fault == faults < MaxFaults /\ faults' = faults + 1
Inside(b, s) == s.start =< b /\ b < s.end
Fits(B, s) == \A b \in B : Inside(b, s)

\* What placeBreaks computes of the shift and the policy.
Plan == {b \in {shift.start + offset} : Inside(b, shift)}

Goto(h, pc) == handler' = [handler EXCEPT ![h].pc = pc]
Failing(h, f) == handler' = [handler EXCEPT ![h].pc = "fail", ![h].failure = f]

-----------------------------------------------------------------------------
(* claimGeneration *)

Put(k, r) == row' = [row EXCEPT ![k] = r]
Pending(h, b) == [NoRow EXCEPT !.status = "PENDING", !.body = b, !.token = h, !.live = TRUE]

Retryable(k) ==
    /\ row[k].status = "FAILED"
    /\ \/ row[k].failure \in {"forbidden", "unavailable"}
       \/ row[k].failure = "conflict" /\ row[k].body.api = "v2"

Reclaimable(k) == Retryable(k) \/ (row[k].status = "PENDING" /\ ~row[k].live)

\* Another body, a live claim or a final failure is answered with an error.
Claim(h, k, b) ==
    /\ handler[h] = Idle
    /\ row[k].status = "none" \/ (row[k].body = b /\ Reclaimable(k))
    /\ Put(k, Pending(h, b))
    /\ handler' = [handler EXCEPT ![h] = [Idle EXCEPT !.pc = "prepare", !.key = k, !.body = b]]
    /\ UNCHANGED <<world, money, switches, faults, answers, unseen>>

Reply(k, data) == answers' = answers \cup {[key |-> k, body |-> row[k].body, data |-> data]}

\* The stored answer is given again.
Reuse(k) ==
    /\ row[k].status = "SUCCEEDED"
    /\ Reply(k, row[k].data)
    /\ UNCHANGED <<world, money, row, handler, switches, faults, unseen>>

ClaimExpires(k) ==
    /\ row[k].status = "PENDING" /\ row[k].live
    /\ row' = [row EXCEPT ![k].live = FALSE]
    /\ UNCHANGED <<world, money, handler, switches, faults, answers, unseen>>

-----------------------------------------------------------------------------
(* prepareGeneration, completeGeneration *)

\* v2 asks for the entitlement here already, v1 only when it completes.
Prepare(h) ==
    LET refused == ~entitled /\ handler[h].body.api = "v2"
    IN  /\ handler[h].pc = "prepare"
        /\ \/ /\ refused
              /\ Failing(h, "forbidden")
              /\ UNCHANGED unseen
           \/ /\ ~refused /\ ~shift.exists
              /\ Failing(h, "rejected")
              /\ UNCHANGED unseen
           \/ /\ ~refused /\ shift.exists
              /\ handler' = [handler EXCEPT ![h].pc = "complete", ![h].data = Plan, ![h].snapshot = shift]
              /\ unseen' = [unseen EXCEPT ![h] = {}]
        /\ UNCHANGED <<world, money, row, switches, faults, answers>>

Owns(h) == row[handler[h].key].status = "PENDING" /\ row[handler[h].key].token = h

\* Mutant: only the window is compared, not updatedAt.
PersistableWindow(h) ==
    ~handler[h].body.persist \/
        /\ draft /\ shift.exists
        /\ shift.start = handler[h].snapshot.start /\ shift.end = handler[h].snapshot.end

\* assertPersistableGeneration, assertGeneratedShiftIdsPersistable
Persistable(h) == ~handler[h].body.persist \/ (draft /\ shift = handler[h].snapshot)

\* v1 answers 400 for a published schedule or a removed shift, v2 409.
Refusal(h) ==
    IF handler[h].body.api = "v1" /\ ~(draft /\ shift.exists) THEN "rejected" ELSE "conflict"

CanPay == entitled /\ wallet > 0

\* Renewed claim, debit, breaks, updatedAt and answer in one transaction.
Commit(h) ==
    LET k == handler[h].key IN
    /\ Owns(h) /\ CanPay /\ Persistable(h)
    /\ wallet' = wallet - 1 /\ debits' = debits \cup {k}
    /\ IF handler[h].body.persist
       THEN breaks' = handler[h].data /\ shift' = [shift EXCEPT !.stamp = @ + 1]
       ELSE UNCHANGED <<breaks, shift>>
    /\ row' = [row EXCEPT ![k] = [row[k] EXCEPT !.status = "SUCCEEDED", !.token = None,
                                                !.live = FALSE, !.data = handler[h].data]]
    /\ UNCHANGED <<draft, entitled, offset, receipts>>

Complete(h) ==
    /\ handler[h].pc = "complete"
    /\ \/ Commit(h) /\ Reply(handler[h].key, handler[h].data) /\ Goto(h, "done")
       \/ /\ \/ ~Owns(h) /\ handler' = [handler EXCEPT ![h].pc = "recover", ![h].failure = "conflict"]
             \/ Owns(h) /\ ~CanPay /\ Failing(h, "forbidden")
             \/ Owns(h) /\ CanPay /\ ~Persistable(h) /\ Failing(h, Refusal(h))
          /\ UNCHANGED <<world, money, row, answers>>
    /\ UNCHANGED <<switches, faults, unseen>>

\* The connection breaks: the transaction was committed, or it was not.
CompleteLost(h) ==
    /\ handler[h].pc = "complete" /\ Fault
    /\ Commit(h) \/ UNCHANGED <<world, money, row>>
    /\ handler' = [handler EXCEPT ![h].pc = "recover", ![h].failure = "unavailable"]
    /\ UNCHANGED <<switches, answers, unseen>>

-----------------------------------------------------------------------------
(* The catch block of generate: findGeneration, failGeneration *)

Recover(h) ==
    LET k == handler[h].key IN
    /\ handler[h].pc = "recover"
    /\ IF row[k].status = "SUCCEEDED"
       THEN Reply(k, row[k].data) /\ Goto(h, "done")
       ELSE Goto(h, "fail") /\ UNCHANGED answers
    /\ UNCHANGED <<world, money, row, switches, faults, unseen>>

RecoverFails(h) ==
    /\ handler[h].pc = "recover" /\ Fault
    /\ Failing(h, "unavailable")
    /\ UNCHANGED <<world, money, row, switches, answers, unseen>>

\* Mutant: the failure is stored whoever holds the row now.
FailUnfenced(h) ==
    LET k == handler[h].key IN
    /\ handler[h].pc = "fail"
    /\ Put(k, [NoRow EXCEPT !.status = "FAILED", !.body = row[k].body, !.failure = handler[h].failure])
    /\ Goto(h, "done")
    /\ UNCHANGED <<world, money, switches, faults, answers, unseen>>

Fail(h) ==
    LET k == handler[h].key IN
    /\ handler[h].pc = "fail"
    /\ IF Owns(h)
       THEN Put(k, [NoRow EXCEPT !.status = "FAILED", !.body = row[k].body,
                                 !.failure = handler[h].failure])
       ELSE UNCHANGED row
    /\ Goto(h, "done")
    /\ UNCHANGED <<world, money, switches, faults, answers, unseen>>

Return(h) ==
    /\ handler[h].pc = "done"
    /\ handler' = [handler EXCEPT ![h] = Idle]
    /\ UNCHANGED <<world, money, row, switches, faults, answers, unseen>>

\* The process stops, or the failure cannot be stored.
HandlerStops(h) ==
    /\ handler[h].pc # "idle" /\ Fault
    /\ handler' = [handler EXCEPT ![h] = Idle]
    /\ UNCHANGED <<world, money, row, switches, answers, unseen>>

-----------------------------------------------------------------------------
(* replaceShiftBreaks, setupShifts *)

\* A stored receipt is answered, an unchanged edit is free and not stored.
Editable(e) == e \notin receipts /\ draft /\ shift.exists /\ CanPay
Pay(e) == wallet' = wallet - 1 /\ debits' = debits \cup {e} /\ receipts' = receipts \cup {e}
Seen(x) == unseen' = [h \in Handlers |-> unseen[h] \cup {x}]

\* v2 sets updatedAt of the shift, v1 leaves it.
Touched(api) == IF api = "v2" THEN [shift EXCEPT !.stamp = @ + 1] ELSE shift

ReplaceShiftBreaks(e, api, B) ==
    /\ Editable(e) /\ Fits(B, shift) /\ B # breaks
    /\ Pay(e) /\ breaks' = B /\ shift' = Touched(api) /\ Seen(api)
    /\ UNCHANGED <<draft, entitled, offset, row, handler, switches, faults, answers>>

\* translateBreaks; times are moved with the start of the shift
MovedBreaks(start) ==
    {b \in Instants : \E c \in breaks : b + shift.start = c + start}

SetupShift(e, start, end) ==
    /\ Editable(e) /\ start < end
    /\ start # shift.start \/ end # shift.end
    /\ \A c \in breaks : c + start - shift.start < end
    /\ Pay(e) /\ breaks' = MovedBreaks(start)
    /\ shift' = [shift EXCEPT !.start = start, !.end = end, !.stamp = @ + 1]
    /\ Seen("setup")
    /\ UNCHANGED <<draft, entitled, offset, row, handler, switches, faults, answers>>

-----------------------------------------------------------------------------
Switch == switches < MaxSwitches /\ switches' = switches + 1
others == <<row, money, receipts, handler, faults, answers, unseen>>

\* Publication and reopening of the schedule.
TogglePublication ==
    /\ Switch /\ draft' = ~draft
    /\ UNCHANGED <<others, shift, breaks, entitled, offset>>

ToggleEntitlement ==
    /\ Switch /\ entitled' = ~entitled
    /\ UNCHANGED <<others, shift, breaks, draft, offset>>

ReplacePolicy ==
    /\ entitled /\ Switch /\ offset' \in {0, 1} \ {offset}
    /\ UNCHANGED <<others, shift, breaks, draft, entitled>>

RemoveShift ==
    /\ draft /\ shift.exists /\ Switch
    /\ shift' = [shift EXCEPT !.exists = FALSE]
    /\ UNCHANGED <<others, breaks, draft, entitled, offset>>

Init ==
    /\ shift = [start |-> 0, end |-> Horizon, stamp |-> 0, exists |-> TRUE]
    /\ breaks = {} /\ draft = TRUE /\ entitled = TRUE /\ offset = 0
    /\ row = [k \in Keys |-> NoRow]
    /\ wallet = Credits /\ debits = {} /\ receipts = {}
    /\ handler = [h \in Handlers |-> Idle]
    /\ switches = 0 /\ faults = 0
    /\ answers = {} /\ unseen = [h \in Handlers |-> {}]

Generate(h) ==
    \/ \E k \in Keys, b \in Bodies : Claim(h, k, b)
    \/ Prepare(h) \/ Complete(h) \/ CompleteLost(h)
    \/ Recover(h) \/ RecoverFails(h) \/ Fail(h) \/ Return(h) \/ HandlerStops(h)

Next ==
    \/ \E h \in Handlers : Generate(h)
    \/ \E k \in Keys : Reuse(k) \/ ClaimExpires(k)
    \/ \E e \in Edits, api \in Apis, B \in SUBSET Instants : ReplaceShiftBreaks(e, api, B)
    \/ \E e \in Edits, start, end \in Instants : SetupShift(e, start, end)
    \/ TogglePublication \/ ToggleEntitlement \/ ReplacePolicy \/ RemoveShift

Spec == Init /\ [][Next]_brVars

-----------------------------------------------------------------------------
(* Properties *)

\* Every row has its type.
TypeOK ==
    /\ shift \in [start: Instants, end: Instants, stamp: Nat, exists: BOOLEAN]
    /\ breaks \subseteq Instants
    /\ \A k \in Keys :
          /\ row[k].status \in {"none", "PENDING", "SUCCEEDED", "FAILED"}
          /\ row[k].body \in Bodies \cup {None}
          /\ row[k].failure \in Failures \cup {None}
    /\ wallet \in Nat /\ debits \subseteq Keys \cup Edits
    /\ \A h \in Handlers :
          handler[h].pc \in {"idle", "prepare", "complete", "recover", "fail", "done"}

\* Saved breaks lie inside their shift, however edits, generations and moves
\* of the shift follow one another.
BreaksStayInside == Fits(breaks, shift)

\* A generation is paid when it succeeded and only then, and once, whatever
\* was lost, retried or taken over; all other debits are of stored edits.
GenerationIsPaidOnce ==
    /\ \A k \in Keys : k \in debits <=> row[k].status = "SUCCEEDED"
    /\ debits \cap Edits = receipts
    /\ wallet + Cardinality(debits) = Credits

\* All answers to one key are the stored one, to the first and to the repeated
\* request.
AnswersAgree ==
    \A a \in answers :
        /\ row[a.key].status = "SUCCEEDED"
        /\ a.data = row[a.key].data /\ a.body = row[a.key].body

Persists(h) ==
    /\ handler[h].pc = "complete" /\ handler[h].body.persist
    /\ row'[handler[h].key].status = "SUCCEEDED" /\ handler'[h] # handler[h]
    /\ row[handler[h].key].status = "PENDING"

\* A generation is saved only over the shift it was computed for: a v2 edit, a
\* move, a publication or a removal since it read the shift stops it; nothing
\* changes a published schedule; and a request that v1 rejected stays so.
SavedIsCurrent ==
    /\ \A h \in Handlers : Persists(h) =>
          unseen[h] \subseteq {"v1"} /\ Fits(breaks', shift') /\ draft
    /\ ~draft => breaks' = breaks /\ shift' = shift
    /\ \A k \in Keys :
          (row[k].status = "FAILED" /\ row[k].body.api = "v1"
             /\ row[k].failure \in {"conflict", "rejected"}) => row'[k] = row[k]
GenerationIsCurrent == [][SavedIsCurrent]_brVars

\* "rejects a stale shift snapshot before debiting credits or replacing
\* breaks": no edit is overwritten by a generation that did not see it.  This
\* does not hold, because v1's manual edit leaves updatedAt as it was.
EditsAreKept ==
    [][\A h \in Handlers : Persists(h) => unseen[h] = {}]_brVars
=============================================================================
