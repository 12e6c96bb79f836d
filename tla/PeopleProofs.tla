---------------------------- MODULE PeopleProofs ----------------------------
(***************************************************************************)
(* Proofs about the people of a workspace: logins, second factors, the     *)
(* administration of roles and accounts, and the imports of what times     *)
(* they are available.                                                     *)
(***************************************************************************)
EXTENDS Integers, FiniteSetTheorems, WellFoundedInduction, TLAPS

CONSTANTS
    None, MfaSessions, MfaRequests, MfaSteps, MfaBackups, MfaDemo, MfaMaxSecrets,
    MfaMaxChanges, LadderUsers, LadderCustomRoles, LadderRequests, LadderHired,
    LadderPermissionSets, LadderRoleSets, LadderMaxLogins, LoginRequests,
    LoginPasswords, LoginPins, LoginEmails, LoginMaxTries, LoginMaxSessions,
    LoginMaxChanges, ImportImports, ImportHandlers, ImportPublishers, ImportMaxRetries,
    ImportCost, ImportInitialCredits, ImportMaxFaults, ImportMaxSwitches

VARIABLES
    mfaUser, mfaPolicy, mfaSession, mfaClaims, mfaMarker, mfaReq, mfaDrawn, mfaPassed,
    mfaUses, mfaExempt, mfaChanges, ladderRole, ladderStatus, ladderLocked,
    ladderAssigned, ladderCustom, ladderSession, ladderLive, ladderRequest, loginTenant,
    loginUser, loginSessions, loginIssued, loginReq, loginWrong, loginLapsed,
    loginChanges, importPlan, importTarget, importCredits, importDebits, importRefunds,
    importRow, importFile, importQueue, importHandler, importCompleted, importPublisher,
    importFaults, importSwitches, importRuns

Mfa == INSTANCE MfaSession WITH
    Sessions <- MfaSessions, Requests <- MfaRequests, Steps <- MfaSteps, Backups <-
    MfaBackups, None <- None, Demo <- MfaDemo, MaxSecrets <- MfaMaxSecrets, MaxChanges
    <- MfaMaxChanges, user <- mfaUser, policy <- mfaPolicy, session <- mfaSession,
    claims <- mfaClaims, marker <- mfaMarker, req <- mfaReq, drawn <- mfaDrawn, passed
    <- mfaPassed, uses <- mfaUses, exempt <- mfaExempt, changes <- mfaChanges

Ladder == INSTANCE RoleAdministration WITH
    Users <- LadderUsers, CustomRoles <- LadderCustomRoles, Requests <- LadderRequests,
    Hired <- LadderHired, PermissionSets <- LadderPermissionSets, RoleSets <-
    LadderRoleSets, MaxLogins <- LadderMaxLogins, NoRequest <- None, role <- ladderRole,
    status <- ladderStatus, locked <- ladderLocked, assigned <- ladderAssigned, custom
    <- ladderCustom, session <- ladderSession, live <- ladderLive, request <-
    ladderRequest

Login == INSTANCE AuthLogin WITH
    Requests <- LoginRequests, Passwords <- LoginPasswords, Pins <- LoginPins, Emails <-
    LoginEmails, None <- None, MaxTries <- LoginMaxTries, MaxSessions <-
    LoginMaxSessions, MaxChanges <- LoginMaxChanges, tenant <- loginTenant, user <-
    loginUser, sessions <- loginSessions, issued <- loginIssued, req <- loginReq, wrong
    <- loginWrong, lapsed <- loginLapsed, changes <- loginChanges

Import == INSTANCE AvailabilityImport WITH
    Imports <- ImportImports, Handlers <- ImportHandlers, Publishers <-
    ImportPublishers, None <- None, MaxRetries <- ImportMaxRetries, Cost <- ImportCost,
    InitialCredits <- ImportInitialCredits, MaxFaults <- ImportMaxFaults, MaxSwitches <-
    ImportMaxSwitches, plan <- importPlan, target <- importTarget, credits <-
    importCredits, debits <- importDebits, refunds <- importRefunds, row <- importRow,
    file <- importFile, queue <- importQueue, handler <- importHandler, completed <-
    importCompleted, publisher <- importPublisher, faults <- importFaults, switches <-
    importSwitches, runs <- importRuns

-----------------------------------------------------------------------------
(* Second factors. *)

(* The inductive invariant. *)

\* TypeOK, and the types of what it leaves out.
Typed ==
    /\ Mfa!TypeOK
    /\ mfaPolicy \in BOOLEAN
    /\ mfaDrawn \in 0 .. MfaMaxSecrets
    /\ mfaPassed \in [MfaSessions -> Mfa!Secrets \cup {Mfa!NoSecret}]
    /\ mfaUses \in [Mfa!Factors -> Nat]
    /\ mfaExempt \subseteq MfaSessions
    /\ mfaChanges \in Nat

\* An account with MFA has a secret that was drawn, and only such an account.
SecretOK == (mfaUser.enabled <=> mfaUser.secret # Mfa!NoSecret) /\ mfaUser.secret <= mfaDrawn

\* A session was issued, and as long as it lives it is exempt or has passed
\* with the factor of the account.
Earned(s) ==
    /\ mfaSession[s].state # "none"
    /\ Mfa!Live(s) => s \in mfaExempt \/ (mfaUser.enabled /\ mfaPassed[s] = mfaUser.secret)

\* A request that is about to write the marker, or has read it.
Entitled(q) ==
    \/ q.pc = "mark"
    \/ q.pc = "final" /\ q.verified /\ (q.op = "refresh" \/ q.required)

RequestOK(q) ==
    /\ q.pc \in {"marker", "final", "mark"} => q.session \in MfaSessions
    /\ Entitled(q) => Earned(q.session)

MarkersOK == \A s \in mfaMarker : Earned(s)
RequestsOK == \A r \in MfaRequests : RequestOK(mfaReq[r])

\* Secrets are used after they are drawn, and pending ones not at all.
DrawnOK == \A f \in Mfa!Factors : mfaUses[f] # 0 => f.secret <= mfaDrawn
PendingOK ==
    \A s \in MfaSessions :
        /\ mfaSession[s].pending <= mfaDrawn
        /\ \A f \in Mfa!Factors : f.secret = mfaSession[s].pending => mfaUses[f] = 0

\* A factor of the account's secret that was accepted is not accepted again.
SpentOK ==
    \A f \in Mfa!Factors :
        f.secret = mfaUser.secret /\ mfaUses[f] # 0 =>
            /\ f.code \in MfaSteps => f.code \in mfaClaims
            /\ f.code \notin mfaUser.backups

MfaInv ==
    /\ Typed /\ SecretOK /\ Mfa!EnrolmentIsSingle
    /\ MarkersOK /\ RequestsOK
    /\ DrawnOK /\ PendingOK /\ SpentOK /\ Mfa!FactorUsedOnce

-----------------------------------------------------------------------------
(* Initially. *)

LEMMA MfaInit == ASSUME Mfa!MfaAssumption PROVE Mfa!Init => MfaInv
<1> SUFFICES ASSUME Mfa!Init PROVE MfaInv
  OBVIOUS
<1> USE DEF Mfa!Init
<1>1. Typed
  BY DEF Mfa!MfaAssumption, Typed, Mfa!TypeOK, Mfa!User, Mfa!NoMfa, Mfa!Row, Mfa!Request, Mfa!NewRequest, Mfa!NoSecret, Mfa!Secrets, Mfa!Factors
<1>2. SecretOK /\ Mfa!EnrolmentIsSingle
  BY DEF SecretOK, Mfa!NoMfa, Mfa!NoSecret, Mfa!EnrolmentIsSingle
<1>3. MarkersOK /\ RequestsOK
  BY DEF MarkersOK, RequestsOK, RequestOK, Entitled, Mfa!NewRequest
<1>4. DrawnOK /\ SpentOK /\ Mfa!FactorUsedOnce
  BY DEF DrawnOK, SpentOK, Mfa!FactorUsedOnce
<1>5. PendingOK
  BY DEF PendingOK, Mfa!NoSecret
<1> QED BY <1>1, <1>2, <1>3, <1>4, <1>5 DEF MfaInv

-----------------------------------------------------------------------------
(* Types. *)

\* A request record with some fields changed is a request record.
LEMMA RequestValues ==
    ASSUME Mfa!MfaAssumption, NEW s \in MfaSessions,
           NEW op \in {"validate", "enrol", "demo", "disable", "access", "refresh"},
           NEW pc \in {"marker", "final", "mark", "clear", "done"}, NEW a \in BOOLEAN, NEW b \in BOOLEAN
    PROVE  /\ [Mfa!NewRequest EXCEPT !.op = op, !.session = s, !.pc = pc] \in Mfa!Request
           /\ [Mfa!NewRequest EXCEPT !.op = op, !.session = s, !.required = a, !.pc = pc,
                                     !.verified = b] \in Mfa!Request
BY DEF Mfa!NewRequest, Mfa!Request

LEMMA RowValues ==
    ASSUME NEW x \in Mfa!Row
    PROVE  /\ Mfa!Revoked(x) \in Mfa!Row
           /\ [x EXCEPT !.pending = Mfa!NoSecret] \in Mfa!Row
           /\ [x EXCEPT !.state = "live"] \in Mfa!Row
           /\ \A n \in Mfa!Secrets : [x EXCEPT !.pending = n] \in Mfa!Row
BY DEF Mfa!Revoked, Mfa!Row, Mfa!NoSecret, Mfa!Secrets

LEMMA SessionsTyped ==
    ASSUME mfaSession \in [MfaSessions -> Mfa!Row]
    PROVE  /\ Mfa!RevokeAll => mfaSession' \in [MfaSessions -> Mfa!Row]
           /\ Mfa!NothingPending \in [MfaSessions -> Mfa!Row]
<1>1. \A s \in MfaSessions : mfaSession[s] \in Mfa!Row
  OBVIOUS
<1>2. Mfa!RevokeAll => mfaSession' \in [MfaSessions -> Mfa!Row]
  BY <1>1, RowValues DEF Mfa!RevokeAll
<1>3. Mfa!NothingPending \in [MfaSessions -> Mfa!Row]
  BY <1>1, RowValues DEF Mfa!NothingPending
<1> QED BY <1>2, <1>3

\* A user whose backup codes become fewer.
LEMMA UserValues ==
    ASSUME mfaUser \in Mfa!User
    PROVE  /\ \A c : /\ [mfaUser EXCEPT !.backups = @ \ {c}] \in Mfa!User
                     /\ [mfaUser EXCEPT !.backups = @ \ {c}] =
                           [enabled |-> mfaUser.enabled, secret |-> mfaUser.secret, backups |-> mfaUser.backups \ {c}]
           /\ Mfa!NoMfa \in Mfa!User
           /\ \A n \in Mfa!Secrets : [enabled |-> TRUE, secret |-> n, backups |-> MfaBackups] \in Mfa!User
BY DEF Mfa!User, Mfa!NoMfa, Mfa!NoSecret, Mfa!Secrets

LEMMA UsedTyped ==
    ASSUME mfaUses \in [Mfa!Factors -> Nat], NEW f \in Mfa!Factors, Mfa!Used(f)
    PROVE  /\ mfaUses' \in [Mfa!Factors -> Nat]
           /\ mfaUses'[f] = mfaUses[f] + 1
           /\ \A g \in Mfa!Factors : g # f => mfaUses'[g] = mfaUses[g]
BY DEF Mfa!Used

LEMMA BeginTyped ==
    ASSUME Mfa!MfaAssumption, mfaReq \in [MfaRequests -> Mfa!Request], NEW r \in MfaRequests, NEW s \in MfaSessions,
           NEW op \in {"validate", "enrol", "demo", "disable", "access", "refresh"},
           NEW pc \in {"marker", "final", "mark", "clear", "done"}, Mfa!Begin(r, op, s, pc)
    PROVE  /\ mfaReq' \in [MfaRequests -> Mfa!Request]
           /\ mfaReq'[r].pc = pc /\ mfaReq'[r].op = op /\ mfaReq'[r].session = s
           /\ \A q \in MfaRequests : q # r => mfaReq'[q] = mfaReq[q]
<1>1. [Mfa!NewRequest EXCEPT !.op = op, !.session = s, !.pc = pc] \in Mfa!Request
  BY RequestValues
<1>2. PICK x : x = [Mfa!NewRequest EXCEPT !.op = op, !.session = s, !.pc = pc]
  OBVIOUS
<1>3. x.pc = pc /\ x.op = op /\ x.session = s
  BY <1>2 DEF Mfa!NewRequest
<1>4. mfaReq' = [mfaReq EXCEPT ![r] = x]
  BY <1>2 DEF Mfa!Begin
<1> QED BY <1>1, <1>2, <1>3, <1>4

\* Factors of a secret.
LEMMA FactorValues ==
    ASSUME NEW n \in Mfa!Secrets, NEW c \in MfaSteps \cup MfaBackups
    PROVE  [secret |-> n, code |-> c] \in Mfa!Factors
BY DEF Mfa!Factors

\* What a step may do to one request: nothing, or one of the operations on it.
LEMMA DoneTyped ==
    ASSUME mfaReq \in [MfaRequests -> Mfa!Request], NEW r \in MfaRequests, NEW g \in BOOLEAN, Mfa!Done(r, g)
    PROVE  /\ mfaReq' \in [MfaRequests -> Mfa!Request]
           /\ mfaReq'[r].pc = "done"
           /\ \A q \in MfaRequests : q # r => mfaReq'[q] = mfaReq[q]
<1>1. PICK x : x = [mfaReq[r] EXCEPT !.pc = "done", !.granted = g]
  OBVIOUS
<1>2. mfaReq[r] \in Mfa!Request
  OBVIOUS
<1>3. x \in Mfa!Request /\ x.pc = "done"
  BY <1>1, <1>2 DEF Mfa!Request
<1>4. mfaReq' = [mfaReq EXCEPT ![r] = x]
  BY <1>1 DEF Mfa!Done
<1> QED BY <1>3, <1>4

LEMMA FailsTyped ==
    ASSUME Typed, NEW r \in MfaRequests, Mfa!MarkFails(r)
    PROVE  /\ mfaReq' \in [MfaRequests -> Mfa!Request]
           /\ mfaReq'[r].pc = "done"
           /\ \A q \in MfaRequests : q # r => mfaReq'[q] = mfaReq[q]
<1>1. PICK g \in BOOLEAN : g = (mfaReq[r].op = "enrol")
  OBVIOUS
<1> QED BY <1>1, DoneTyped DEF Mfa!MarkFails, Typed, Mfa!TypeOK

LEMMA ExemptTyped ==
    ASSUME Mfa!MfaAssumption, Typed, NEW r \in MfaRequests, NEW s \in MfaSessions, Mfa!SignInExempt(r, s)
    PROVE  /\ mfaReq' \in [MfaRequests -> Mfa!Request]
           /\ mfaReq'[r].pc \in {"mark", "done"} /\ mfaReq'[r].session = s
           /\ \A q \in MfaRequests : q # r => mfaReq'[q] = mfaReq[q]
<1>1. PICK pc \in {"mark", "done"} : pc = IF Mfa!Required THEN "mark" ELSE "done"
  OBVIOUS
<1>2. Mfa!Begin(r, "demo", s, pc)
  BY <1>1 DEF Mfa!SignInExempt
<1> QED BY <1>2, BeginTyped DEF Typed, Mfa!TypeOK

LEMMA ReadSessionTyped ==
    ASSUME Mfa!MfaAssumption, Typed, NEW r \in MfaRequests, NEW s \in MfaSessions, Mfa!ReadSession(r, s)
    PROVE  /\ mfaReq' \in [MfaRequests -> Mfa!Request]
           /\ mfaReq'[r].pc \in {"marker", "final"} /\ mfaReq'[r].op = "access" /\ mfaReq'[r].session = s
           /\ mfaReq'[r].pc = "final" => ~mfaReq'[r].required
           /\ \A q \in MfaRequests : q # r => mfaReq'[q] = mfaReq[q]
<1>0. Mfa!Required \in BOOLEAN
  BY DEF Mfa!Required, Typed, Mfa!TypeOK, Mfa!User
<1>1. PICK x : x = [Mfa!NewRequest EXCEPT
                 !.op = "access", !.session = s, !.required = Mfa!Required,
                 !.pc = IF Mfa!Required THEN "marker" ELSE "final", !.verified = ~Mfa!Required]
  OBVIOUS
<1>2. x = [pc |-> IF Mfa!Required THEN "marker" ELSE "final", op |-> "access", session |-> s,
           required |-> Mfa!Required, verified |-> ~Mfa!Required, granted |-> FALSE]
  BY <1>1 DEF Mfa!NewRequest
<1>3. x \in Mfa!Request
  BY <1>0, <1>2 DEF Mfa!Request
<1>4. /\ x.pc \in {"marker", "final"} /\ x.op = "access" /\ x.session = s
      /\ x.pc = "final" => ~x.required
  BY <1>2
<1>5. mfaReq' = [mfaReq EXCEPT ![r] = x] /\ mfaReq \in [MfaRequests -> Mfa!Request]
  BY <1>1 DEF Mfa!ReadSession, Typed, Mfa!TypeOK
<1> QED BY <1>3, <1>4, <1>5

LEMMA ReadMarkerTyped ==
    ASSUME Typed, NEW r \in MfaRequests, Mfa!ReadMarker(r)
    PROVE  /\ mfaReq' \in [MfaRequests -> Mfa!Request]
           /\ mfaReq'[r].pc = "final" /\ mfaReq'[r].session = mfaReq[r].session
           /\ mfaReq'[r].verified = (mfaReq[r].session \in mfaMarker)
           /\ \A q \in MfaRequests : q # r => mfaReq'[q] = mfaReq[q]
<1>1. PICK x \in Mfa!Request : x = mfaReq[r]
  BY DEF Typed, Mfa!TypeOK
<1>2. PICK v \in BOOLEAN : v = (mfaReq[r].session \in mfaMarker)
  <2>1. (mfaReq[r].session \in mfaMarker) \in BOOLEAN
    OBVIOUS
  <2> QED BY <2>1, Zenon
<1>3. PICK y : y = [x EXCEPT !.pc = "final", !.verified = v]
  OBVIOUS
<1>4. y \in Mfa!Request /\ y.pc = "final" /\ y.session = x.session /\ y.verified = v
  BY <1>2, <1>3 DEF Mfa!Request
<1>5. mfaReq' = [mfaReq EXCEPT ![r].pc = "final", ![r].verified = v]
  BY <1>2 DEF Mfa!ReadMarker
<1>6. mfaReq' = [mfaReq EXCEPT ![r] = y]
  BY <1>1, <1>3, <1>5 DEF Typed, Mfa!TypeOK
<1> QED BY <1>1, <1>2, <1>4, <1>6 DEF Typed, Mfa!TypeOK

LEMMA ReadAgainTyped ==
    ASSUME Typed, NEW r \in MfaRequests, Mfa!ReadAgain(r)
    PROVE  /\ mfaReq' \in [MfaRequests -> Mfa!Request]
           /\ mfaReq'[r].pc = "done" /\ mfaReq'[r].session = mfaReq[r].session
           /\ mfaReq'[r].granted = Mfa!Live(mfaReq[r].session)
           /\ mfaReq'[r].required = IF mfaReq[r].op = "refresh" THEN Mfa!Required ELSE mfaReq[r].required
           /\ mfaReq'[r].verified = (mfaReq[r].verified \/ ~mfaReq'[r].required)
           /\ \A q \in MfaRequests : q # r => mfaReq'[q] = mfaReq[q]
<1>1. /\ Mfa!Required \in BOOLEAN /\ Mfa!Live(mfaReq[r].session) \in BOOLEAN
  BY DEF Mfa!Required, Typed, Mfa!TypeOK, Mfa!User, Mfa!Live
<1>2. PICK x \in Mfa!Request : x = mfaReq[r]
  BY DEF Typed, Mfa!TypeOK
<1>3. PICK g \in BOOLEAN : g = Mfa!Live(mfaReq[r].session)
  BY <1>1
<1>4. PICK d \in BOOLEAN : d = IF mfaReq[r].op = "refresh" THEN Mfa!Required ELSE mfaReq[r].required
  BY <1>1, <1>2 DEF Mfa!Request
<1>5. PICK v \in BOOLEAN : v = (x.verified \/ ~d)
  BY <1>2 DEF Mfa!Request
<1>6. PICK y : y = [x EXCEPT !.pc = "done", !.granted = g, !.required = d, !.verified = v]
  OBVIOUS
<1>7. /\ y \in Mfa!Request /\ y.pc = "done" /\ y.session = x.session /\ y.granted = g
      /\ y.required = d /\ y.verified = v
  BY <1>6 DEF Mfa!Request
<1>8. mfaReq' = [mfaReq EXCEPT ![r].pc = "done", ![r].granted = g, ![r].required = d, ![r].verified = v]
  BY <1>2, <1>3, <1>4, <1>5 DEF Mfa!ReadAgain
<1>9. mfaReq' = [mfaReq EXCEPT ![r] = y]
  BY <1>2, <1>6, <1>8 DEF Typed, Mfa!TypeOK
<1>10. mfaReq'[r] = y /\ \A q \in MfaRequests : q # r => mfaReq'[q] = mfaReq[q]
  BY <1>9 DEF Typed, Mfa!TypeOK
<1>11. mfaReq' \in [MfaRequests -> Mfa!Request]
  BY <1>7, <1>9 DEF Typed, Mfa!TypeOK
<1> QED BY <1>2, <1>3, <1>4, <1>5, <1>7, <1>10, <1>11

\* The steps, by what they change besides requests, markers and the policy.
LEMMA StepKinds ==
    ASSUME Mfa!Next
    PROVE  \/ \E r \in MfaRequests, s \in MfaSessions :
                 \/ \E c \in MfaSteps : Mfa!ConfirmEnrolment(r, s, c)
                 \/ \E c \in MfaSteps \cup MfaBackups : Mfa!ValidateMfa(r, s, c)
                 \/ \E c \in MfaSteps \cup MfaBackups : Mfa!DisableMfa(r, s, c)
                 \/ Mfa!ReadSession(r, s) \/ Mfa!StartRefresh(r, s) \/ Mfa!SignInExempt(r, s)
           \/ \E r \in MfaRequests : \/ Mfa!MarkVerified(r) \/ Mfa!MarkFails(r) \/ Mfa!ClearMarkers(r)
                                     \/ Mfa!ReadMarker(r) \/ Mfa!ReadAgain(r)
           \/ \E s \in MfaSessions : \/ Mfa!SignIn(s) \/ Mfa!BeginEnrolment(s) \/ Mfa!EnrolmentExpires(s)
                                     \/ Mfa!RevokeSession(s) \/ Mfa!MarkerExpires(s)
           \/ Mfa!RecoverMfa \/ Mfa!ChangePolicy
BY DEF Mfa!Next, Mfa!Serve

LEMMA TypedStep == ASSUME Mfa!MfaAssumption, Typed, RequestsOK, Mfa!Next PROVE Typed'
<1> USE DEF Mfa!Change
<1>0. /\ \A s \in MfaSessions : mfaSession[s] \in Mfa!Row
      /\ mfaUser.secret \in Mfa!Secrets \cup {Mfa!NoSecret} /\ mfaUser \in Mfa!User
  BY DEF Typed, Mfa!TypeOK, Mfa!User
<1>1. ASSUME NEW r \in MfaRequests, NEW s \in MfaSessions, NEW c \in MfaSteps, Mfa!ConfirmEnrolment(r, s, c) PROVE Typed'
  <2>1. PICK n \in Mfa!Secrets : n = mfaSession[s].pending
    BY <1>0, <1>1 DEF Mfa!ConfirmEnrolment, Mfa!Row
  <2>2. mfaUses' \in [Mfa!Factors -> Nat]
    BY <1>1, <2>1, FactorValues, UsedTyped DEF Mfa!ConfirmEnrolment, Typed
  <2>3. mfaReq' \in [MfaRequests -> Mfa!Request]
    BY <1>1, BeginTyped DEF Mfa!ConfirmEnrolment, Typed, Mfa!TypeOK
  <2>4. mfaUser' \in Mfa!User /\ mfaSession' \in [MfaSessions -> Mfa!Row]
    BY <1>1, <2>1, UserValues, SessionsTyped DEF Mfa!ConfirmEnrolment, Mfa!Consumed, Typed, Mfa!TypeOK
  <2>5. mfaPassed' \in [MfaSessions -> Mfa!Secrets \cup {Mfa!NoSecret}]
    BY <1>1, <2>1 DEF Mfa!ConfirmEnrolment, Typed
  <2> QED BY <1>1, <2>2, <2>3, <2>4, <2>5 DEF Mfa!ConfirmEnrolment, Typed, Mfa!TypeOK
<1>2. ASSUME NEW r \in MfaRequests, NEW s \in MfaSessions, NEW c \in MfaSteps \cup MfaBackups, Mfa!ValidateMfa(r, s, c) PROVE Typed'
  <2>1. PICK n \in Mfa!Secrets : n = mfaUser.secret
    BY <1>0, <1>2 DEF Mfa!ValidateMfa, Mfa!Matches
  <2>2. mfaUses' \in [Mfa!Factors -> Nat]
    BY <1>2, <2>1, FactorValues, UsedTyped DEF Mfa!ValidateMfa, Typed
  <2>3. mfaReq' \in [MfaRequests -> Mfa!Request]
    BY <1>2, BeginTyped DEF Mfa!ValidateMfa, Typed, Mfa!TypeOK
  <2>4. mfaUser' \in Mfa!User
    BY <1>2, UserValues DEF Mfa!ValidateMfa, Mfa!Consume, Typed, Mfa!TypeOK
  <2>5. mfaPassed' \in [MfaSessions -> Mfa!Secrets \cup {Mfa!NoSecret}]
    BY <1>2, <2>1 DEF Mfa!ValidateMfa, Typed
  <2> QED BY <1>2, <2>2, <2>3, <2>4, <2>5 DEF Mfa!ValidateMfa, Mfa!Consume, Typed, Mfa!TypeOK
<1>3. ASSUME NEW r \in MfaRequests, NEW s \in MfaSessions, NEW c \in MfaSteps \cup MfaBackups, Mfa!DisableMfa(r, s, c) PROVE Typed'
  <2>1. PICK n \in Mfa!Secrets : n = mfaUser.secret
    BY <1>0, <1>3 DEF Mfa!DisableMfa, Mfa!Matches
  <2>2. mfaUses' \in [Mfa!Factors -> Nat]
    BY <1>3, <2>1, FactorValues, UsedTyped DEF Mfa!DisableMfa, Typed
  <2>3. mfaReq' \in [MfaRequests -> Mfa!Request]
    BY <1>3, BeginTyped DEF Mfa!DisableMfa, Typed, Mfa!TypeOK
  <2>4. mfaUser' \in Mfa!User /\ mfaSession' \in [MfaSessions -> Mfa!Row]
    BY <1>3, UserValues, SessionsTyped DEF Mfa!DisableMfa, Typed, Mfa!TypeOK
  <2> QED BY <1>3, <2>2, <2>3, <2>4 DEF Mfa!DisableMfa, Typed, Mfa!TypeOK
<1>4. ASSUME NEW r \in MfaRequests, NEW s \in MfaSessions, Mfa!ReadSession(r, s) PROVE Typed'
  BY <1>4, ReadSessionTyped DEF Mfa!ReadSession, Typed, Mfa!TypeOK, Mfa!history
<1>5. ASSUME NEW r \in MfaRequests, NEW s \in MfaSessions, Mfa!StartRefresh(r, s) PROVE Typed'
  BY <1>5, BeginTyped DEF Mfa!StartRefresh, Typed, Mfa!TypeOK, Mfa!history
<1>6. ASSUME NEW r \in MfaRequests, Mfa!MarkVerified(r) PROVE Typed'
  <2>1. mfaReq[r].session \in MfaSessions
    BY <1>6 DEF Mfa!MarkVerified, RequestsOK, RequestOK
  <2>2. mfaReq' \in [MfaRequests -> Mfa!Request]
    BY <1>6, DoneTyped DEF Mfa!MarkVerified, Typed, Mfa!TypeOK
  <2> QED BY <1>6, <2>1, <2>2 DEF Mfa!MarkVerified, Typed, Mfa!TypeOK, Mfa!history
<1>7. ASSUME NEW r \in MfaRequests, Mfa!ClearMarkers(r) PROVE Typed'
  <2>1. mfaReq' \in [MfaRequests -> Mfa!Request]
    BY <1>7, DoneTyped DEF Mfa!ClearMarkers, Typed, Mfa!TypeOK
  <2> QED BY <1>7, <2>1 DEF Mfa!ClearMarkers, Typed, Mfa!TypeOK, Mfa!history
<1>8. ASSUME NEW r \in MfaRequests, Mfa!ReadMarker(r) PROVE Typed'
  BY <1>8, ReadMarkerTyped DEF Mfa!ReadMarker, Typed, Mfa!TypeOK, Mfa!history
<1>9. ASSUME NEW r \in MfaRequests, Mfa!ReadAgain(r) PROVE Typed'
  BY <1>9, ReadAgainTyped DEF Mfa!ReadAgain, Typed, Mfa!TypeOK, Mfa!history
<1>10. ASSUME NEW s \in MfaSessions, Mfa!SignIn(s) PROVE Typed'
  BY <1>0, <1>10, RowValues DEF Mfa!SignIn, Typed, Mfa!TypeOK, Mfa!history
<1>11. ASSUME NEW s \in MfaSessions, Mfa!BeginEnrolment(s) PROVE Typed'
  <2>1. mfaDrawn + 1 \in Mfa!Secrets /\ mfaDrawn' \in 0 .. MfaMaxSecrets
    BY <1>11 DEF Mfa!BeginEnrolment, Typed, Mfa!Secrets, Mfa!MfaAssumption
  <2>2. mfaSession' \in [MfaSessions -> Mfa!Row]
    BY <1>0, <1>11, <2>1, RowValues DEF Mfa!BeginEnrolment, Typed, Mfa!TypeOK
  <2> QED BY <1>11, <2>1, <2>2 DEF Mfa!BeginEnrolment, Typed, Mfa!TypeOK, Mfa!history
<1>12. ASSUME NEW s \in MfaSessions, Mfa!EnrolmentExpires(s) PROVE Typed'
  <2>1. mfaSession' \in [MfaSessions -> Mfa!Row]
    BY <1>0, <1>12, RowValues DEF Mfa!EnrolmentExpires, Typed, Mfa!TypeOK
  <2> QED BY <1>12, <2>1 DEF Mfa!EnrolmentExpires, Typed, Mfa!TypeOK, Mfa!history
<1>13. ASSUME NEW s \in MfaSessions, Mfa!RevokeSession(s) PROVE Typed'
  <2>1. mfaSession' \in [MfaSessions -> Mfa!Row]
    BY <1>0, <1>13, RowValues DEF Mfa!RevokeSession, Typed, Mfa!TypeOK
  <2> QED BY <1>13, <2>1 DEF Mfa!RevokeSession, Typed, Mfa!TypeOK, Mfa!history
<1>14. ASSUME NEW s \in MfaSessions, Mfa!MarkerExpires(s) PROVE Typed'
  BY <1>14 DEF Mfa!MarkerExpires, Typed, Mfa!TypeOK, Mfa!history
<1>15. ASSUME Mfa!RecoverMfa PROVE Typed'
  <2>1. mfaUser' \in Mfa!User /\ mfaSession' \in [MfaSessions -> Mfa!Row]
    BY <1>15, UserValues, SessionsTyped DEF Mfa!RecoverMfa, Typed, Mfa!TypeOK
  <2> QED BY <1>15, <2>1 DEF Mfa!RecoverMfa, Typed, Mfa!TypeOK, Mfa!history
<1>16. ASSUME Mfa!ChangePolicy PROVE Typed'
  BY <1>16 DEF Mfa!ChangePolicy, Typed, Mfa!TypeOK, Mfa!history
<1>17. ASSUME NEW r \in MfaRequests, NEW s \in MfaSessions, Mfa!SignInExempt(r, s) PROVE Typed'
  <2>1. mfaSession' \in [MfaSessions -> Mfa!Row]
    BY <1>0, <1>17, RowValues DEF Mfa!SignInExempt, Typed, Mfa!TypeOK
  <2>2. mfaReq' \in [MfaRequests -> Mfa!Request]
    BY <1>17, ExemptTyped
  <2> QED BY <1>17, <2>1, <2>2 DEF Mfa!SignInExempt, Typed, Mfa!TypeOK
<1>18. ASSUME NEW r \in MfaRequests, Mfa!MarkFails(r) PROVE Typed'
  <2>1. mfaReq[r].session \in MfaSessions
    BY <1>18 DEF Mfa!MarkFails, RequestsOK, RequestOK
  <2>2. mfaReq' \in [MfaRequests -> Mfa!Request]
    BY <1>18, FailsTyped
  <2>3. mfaSession' \in [MfaSessions -> Mfa!Row]
    <3>1. mfaSession \in [MfaSessions -> Mfa!Row] /\ Mfa!Revoked(mfaSession[mfaReq[r].session]) \in Mfa!Row
      BY <1>0, <2>1, RowValues DEF Typed, Mfa!TypeOK
    <3>2. mfaSession' = mfaSession \/ mfaSession' = [mfaSession EXCEPT ![mfaReq[r].session] = Mfa!Revoked(mfaSession[mfaReq[r].session])]
      BY <1>18 DEF Mfa!MarkFails
    <3> QED BY <2>1, <3>1, <3>2
  <2> QED BY <1>18, <2>1, <2>2, <2>3 DEF Mfa!MarkFails, Typed, Mfa!TypeOK, Mfa!history
<1> QED BY StepKinds, <1>1, <1>2, <1>3, <1>4, <1>5, <1>6, <1>7, <1>8, <1>9, <1>10, <1>11, <1>12, <1>13, <1>14, <1>15, <1>16, <1>17, <1>18

-----------------------------------------------------------------------------
(* What a session has earned it keeps. *)

\* What becomes of a row.
LEMMA RowFates ==
    ASSUME NEW x \in Mfa!Row
    PROVE  /\ Mfa!Revoked(x).state # "live" /\ (x.state # "none" => Mfa!Revoked(x).state # "none")
           /\ Mfa!Revoked(x).pending \in {x.pending, Mfa!NoSecret}
           /\ [x EXCEPT !.pending = Mfa!NoSecret].state = x.state
           /\ [x EXCEPT !.pending = Mfa!NoSecret].pending = Mfa!NoSecret
           /\ [x EXCEPT !.state = "live"].pending = x.pending
           /\ \A n : [x EXCEPT !.pending = n].state = x.state /\ [x EXCEPT !.pending = n].pending = n
BY DEF Mfa!Revoked, Mfa!Row, Mfa!NoSecret

\* Nothing pending leaves the sessions as they are.
LEMMA PendingGone ==
    ASSUME Typed, NEW t \in MfaSessions
    PROVE  Mfa!NothingPending[t].state = mfaSession[t].state /\ Mfa!NothingPending[t].pending = Mfa!NoSecret
<1>1. mfaSession[t] \in Mfa!Row
  BY DEF Typed, Mfa!TypeOK
<1> QED BY <1>1, RowFates DEF Mfa!NothingPending

\* After RevokeAll no session lives.
LEMMA AllRevoked ==
    ASSUME Typed, Mfa!RevokeAll, NEW t \in MfaSessions
    PROVE  /\ mfaSession'[t].state # "live"
           /\ mfaSession[t].state # "none" => mfaSession'[t].state # "none"
           /\ mfaSession'[t].pending \in {mfaSession[t].pending, Mfa!NoSecret}
<1>1. mfaSession[t] \in Mfa!Row
  BY DEF Typed, Mfa!TypeOK
<1> QED BY <1>1, RowFates DEF Mfa!RevokeAll

LEMMA EarnedStep ==
    ASSUME Mfa!MfaAssumption, Typed, SecretOK, Mfa!Next, NEW t \in MfaSessions, Earned(t)
    PROVE  Earned(t)'
<1> USE DEF Earned, Mfa!Live
<1>0. mfaSession[t] \in Mfa!Row /\ mfaSession \in [MfaSessions -> Mfa!Row] /\ mfaPassed \in [MfaSessions -> Mfa!Secrets \cup {Mfa!NoSecret}]
  BY DEF Typed, Mfa!TypeOK
<1>1. ASSUME NEW r \in MfaRequests, NEW s \in MfaSessions, NEW c \in MfaSteps, Mfa!ConfirmEnrolment(r, s, c) PROVE Earned(t)'
  BY <1>0, <1>1, PendingGone DEF Mfa!ConfirmEnrolment, Mfa!Consumed
<1>2. ASSUME NEW r \in MfaRequests, NEW s \in MfaSessions, NEW c \in MfaSteps \cup MfaBackups, Mfa!ValidateMfa(r, s, c) PROVE Earned(t)'
  <2>1. mfaUser'.enabled = mfaUser.enabled /\ mfaUser'.secret = mfaUser.secret
    BY <1>2, UserValues DEF Mfa!ValidateMfa, Mfa!Consume, Typed, Mfa!TypeOK
  <2>2. mfaSession' = mfaSession /\ mfaExempt' = mfaExempt /\ mfaPassed'[t] \in {mfaPassed[t], mfaUser.secret}
    BY <1>0, <1>2 DEF Mfa!ValidateMfa
  <2> QED BY <2>1, <2>2
<1>3. ASSUME Mfa!RevokeAll PROVE Earned(t)'
  BY <1>3, AllRevoked
<1>4. ASSUME UNCHANGED <<mfaUser, mfaSession, mfaPassed, mfaExempt>> PROVE Earned(t)'
  BY <1>4
<1>5. ASSUME NEW s \in MfaSessions, Mfa!SignIn(s) PROVE Earned(t)'
  BY <1>0, <1>5, RowFates DEF Mfa!SignIn, Mfa!history
<1>6. ASSUME NEW s \in MfaSessions, Mfa!BeginEnrolment(s) PROVE Earned(t)'
  BY <1>0, <1>6, RowFates DEF Mfa!BeginEnrolment, Mfa!history
<1>7. ASSUME NEW s \in MfaSessions, Mfa!EnrolmentExpires(s) PROVE Earned(t)'
  BY <1>0, <1>7, RowFates DEF Mfa!EnrolmentExpires, Mfa!history
<1>8. ASSUME NEW s \in MfaSessions, Mfa!RevokeSession(s) PROVE Earned(t)'
  BY <1>0, <1>8, RowFates DEF Mfa!RevokeSession, Mfa!history
<1>9. ASSUME NEW r \in MfaRequests, NEW s \in MfaSessions, Mfa!SignInExempt(r, s) PROVE Earned(t)'
  BY <1>0, <1>9, RowFates DEF Mfa!SignInExempt
<1>10. ASSUME NEW r \in MfaRequests, Mfa!MarkFails(r) PROVE Earned(t)'
  <2>1. mfaSession'[t].state # "none" /\ (mfaSession'[t].state = "live" => mfaSession[t].state = "live")
    BY <1>0, <1>10, RowFates DEF Mfa!MarkFails
  <2> QED BY <1>10, <2>1 DEF Mfa!MarkFails, Mfa!history
<1> QED BY StepKinds, <1>1, <1>2, <1>3, <1>4, <1>5, <1>6, <1>7, <1>8, <1>9, <1>10 DEF Mfa!DisableMfa, Mfa!RecoverMfa,
     Mfa!ReadSession, Mfa!StartRefresh, Mfa!MarkVerified, Mfa!ClearMarkers, Mfa!ReadMarker, Mfa!ReadAgain, Mfa!MarkerExpires, Mfa!ChangePolicy, Mfa!history

\* The session that a factor was accepted for has earned its marker.
LEMMA AcceptedEarns ==
    ASSUME Mfa!MfaAssumption, Typed, SecretOK, NEW r \in MfaRequests, NEW s \in MfaSessions,
           (\E c \in MfaSteps : Mfa!ConfirmEnrolment(r, s, c)) \/ (\E c \in MfaSteps \cup MfaBackups : Mfa!ValidateMfa(r, s, c))
    PROVE  Earned(s)'
<1> USE DEF Earned, Mfa!Live
<1>0. mfaSession[s] \in Mfa!Row /\ mfaSession \in [MfaSessions -> Mfa!Row] /\ mfaPassed \in [MfaSessions -> Mfa!Secrets \cup {Mfa!NoSecret}]
  BY DEF Typed, Mfa!TypeOK
<1>1. ASSUME NEW c \in MfaSteps, Mfa!ConfirmEnrolment(r, s, c) PROVE Earned(s)'
  BY <1>0, <1>1, PendingGone DEF Mfa!ConfirmEnrolment, Mfa!Consumed
<1>2. ASSUME NEW c \in MfaSteps \cup MfaBackups, Mfa!ValidateMfa(r, s, c) PROVE Earned(s)'
  <2>1. mfaUser'.enabled = mfaUser.enabled /\ mfaUser'.secret = mfaUser.secret
    BY <1>2, UserValues DEF Mfa!ValidateMfa, Mfa!Consume, Typed, Mfa!TypeOK
  <2>2. mfaSession' = mfaSession /\ mfaPassed'[s] = mfaUser.secret /\ mfaUser.secret # Mfa!NoSecret
    BY <1>0, <1>2 DEF Mfa!ValidateMfa, Mfa!Matches
  <2> QED BY <1>2, <2>1, <2>2 DEF Mfa!ValidateMfa, SecretOK
<1> QED BY <1>1, <1>2

LEMMA MarkersStep ==
    ASSUME Mfa!MfaAssumption, Typed, SecretOK, MarkersOK, RequestsOK, Mfa!Next
    PROVE  MarkersOK'
<1>1. ASSUME NEW t \in mfaMarker' PROVE t \in MfaSessions /\ Earned(t)
  <2>1. CASE t \in mfaMarker
    BY <2>1 DEF MarkersOK, Typed, Mfa!TypeOK
  <2>2. CASE t \notin mfaMarker
    <3>1. PICK r \in MfaRequests : mfaReq[r].pc = "mark" /\ t = mfaReq[r].session
      BY <1>1, <2>2, StepKinds DEF Mfa!ConfirmEnrolment, Mfa!ValidateMfa, Mfa!DisableMfa, Mfa!RecoverMfa, Mfa!ReadSession,
         Mfa!StartRefresh, Mfa!MarkVerified, Mfa!MarkFails, Mfa!ClearMarkers, Mfa!ReadMarker, Mfa!ReadAgain, Mfa!MarkerExpires, Mfa!ChangePolicy,
         Mfa!SignIn, Mfa!SignInExempt, Mfa!BeginEnrolment, Mfa!EnrolmentExpires, Mfa!RevokeSession
    <3> QED BY <3>1 DEF RequestsOK, RequestOK, Entitled
  <2> QED BY <2>1, <2>2
<1>2. \A t \in mfaMarker' : Earned(t)'
  BY <1>1, EarnedStep
<1> QED BY <1>2 DEF MarkersOK

LEMMA RequestsStep ==
    ASSUME Mfa!MfaAssumption, Typed, SecretOK, MarkersOK, RequestsOK, Mfa!Next
    PROVE  RequestsOK'
<1> SUFFICES ASSUME NEW q \in MfaRequests PROVE RequestOK(mfaReq[q])'
  BY DEF RequestsOK
<1>0. RequestOK(mfaReq[q]) /\ mfaReq \in [MfaRequests -> Mfa!Request]
  BY DEF RequestsOK, Typed, Mfa!TypeOK
<1>a. ASSUME mfaReq'[q] = mfaReq[q] PROVE RequestOK(mfaReq[q])'
  BY <1>0, <1>a, EarnedStep DEF RequestOK, Entitled
<1>b. ASSUME mfaReq'[q].pc \in {"done", "clear"} PROVE RequestOK(mfaReq[q])'
  BY <1>b DEF RequestOK, Entitled
<1>c. ASSUME NEW t \in MfaSessions, mfaReq'[q].session = t, Earned(t)' PROVE RequestOK(mfaReq[q])'
  BY <1>c DEF RequestOK
<1>d. ASSUME mfaReq'[q].session \in MfaSessions, ~Entitled(mfaReq'[q]) PROVE RequestOK(mfaReq[q])'
  BY <1>d DEF RequestOK, Entitled
<1>1. ASSUME NEW r \in MfaRequests, NEW s \in MfaSessions, NEW c \in MfaSteps, Mfa!ConfirmEnrolment(r, s, c) PROVE RequestOK(mfaReq[q])'
  <2>1. q # r => mfaReq'[q] = mfaReq[q]
    BY <1>0, <1>1, BeginTyped DEF Mfa!ConfirmEnrolment
  <2>2. mfaReq'[r].session = s
    BY <1>0, <1>1, BeginTyped DEF Mfa!ConfirmEnrolment
  <2> QED BY <1>1, <1>a, <1>c, <2>1, <2>2, AcceptedEarns
<1>2. ASSUME NEW r \in MfaRequests, NEW s \in MfaSessions, NEW c \in MfaSteps \cup MfaBackups, Mfa!ValidateMfa(r, s, c) PROVE RequestOK(mfaReq[q])'
  <2>1. q # r => mfaReq'[q] = mfaReq[q]
    BY <1>0, <1>2, BeginTyped DEF Mfa!ValidateMfa
  <2>2. mfaReq'[r].session = s
    BY <1>0, <1>2, BeginTyped DEF Mfa!ValidateMfa
  <2> QED BY <1>2, <1>a, <1>c, <2>1, <2>2, AcceptedEarns
<1>3. ASSUME NEW r \in MfaRequests, NEW s \in MfaSessions, NEW c \in MfaSteps \cup MfaBackups, Mfa!DisableMfa(r, s, c) PROVE RequestOK(mfaReq[q])'
  BY <1>0, <1>3, <1>a, <1>b, BeginTyped DEF Mfa!DisableMfa
<1>4. ASSUME NEW r \in MfaRequests, NEW s \in MfaSessions, Mfa!ReadSession(r, s) PROVE RequestOK(mfaReq[q])'
  <2>1. /\ mfaReq'[r].session = s /\ ~Entitled(mfaReq'[r])
        /\ q # r => mfaReq'[q] = mfaReq[q]
    BY <1>4, ReadSessionTyped DEF Entitled
  <2> QED BY <1>a, <1>d, <2>1
<1>5. ASSUME NEW r \in MfaRequests, NEW s \in MfaSessions, Mfa!StartRefresh(r, s) PROVE RequestOK(mfaReq[q])'
  <2>1. /\ mfaReq'[r].session = s /\ ~Entitled(mfaReq'[r])
        /\ q # r => mfaReq'[q] = mfaReq[q]
    BY <1>0, <1>5, BeginTyped DEF Mfa!StartRefresh, Entitled
  <2> QED BY <1>a, <1>d, <2>1
<1>6. ASSUME NEW r \in MfaRequests, Mfa!MarkVerified(r) \/ Mfa!ClearMarkers(r) PROVE RequestOK(mfaReq[q])'
  BY <1>0, <1>6, <1>a, <1>b, DoneTyped DEF Mfa!MarkVerified, Mfa!ClearMarkers
<1>7. ASSUME NEW r \in MfaRequests, Mfa!ReadMarker(r) PROVE RequestOK(mfaReq[q])'
  <2>1. /\ mfaReq'[r].session = mfaReq[r].session /\ mfaReq'[r].pc = "final"
        /\ mfaReq'[r].verified = (mfaReq[r].session \in mfaMarker)
        /\ q # r => mfaReq'[q] = mfaReq[q]
    BY <1>7, ReadMarkerTyped
  <2>2. mfaReq[r].session \in MfaSessions
    BY <1>7 DEF Mfa!ReadMarker, RequestsOK, RequestOK
  <2>3. CASE mfaReq[r].session \in mfaMarker
    <3>1. PICK t \in MfaSessions : t = mfaReq[r].session /\ Earned(t)
      BY <2>2, <2>3 DEF MarkersOK
    <3>2. Earned(t)'
      BY <3>1, EarnedStep
    <3> QED BY <1>a, <1>c, <2>1, <3>1, <3>2
  <2>4. CASE mfaReq[r].session \notin mfaMarker
    <3>1. ~Entitled(mfaReq'[r])
      BY <2>1, <2>4 DEF Entitled
    <3> QED BY <1>a, <1>d, <2>1, <2>2, <3>1
  <2> QED BY <2>3, <2>4
<1>8. ASSUME NEW r \in MfaRequests, Mfa!ReadAgain(r) PROVE RequestOK(mfaReq[q])'
  BY <1>8, <1>a, <1>b, ReadAgainTyped
<1>9. ASSUME UNCHANGED mfaReq PROVE RequestOK(mfaReq[q])'
  BY <1>9, <1>a
<1>10. ASSUME NEW r \in MfaRequests, NEW s \in MfaSessions, Mfa!SignInExempt(r, s) PROVE RequestOK(mfaReq[q])'
  <2>1. mfaReq'[r].session = s /\ (q # r => mfaReq'[q] = mfaReq[q])
    BY <1>10, ExemptTyped
  <2>2. Earned(s)'
    BY <1>10 DEF Mfa!SignInExempt, Earned, Mfa!Live, Typed, Mfa!TypeOK, Mfa!Row
  <2> QED BY <1>a, <1>c, <2>1, <2>2
<1>11. ASSUME NEW r \in MfaRequests, Mfa!MarkFails(r) PROVE RequestOK(mfaReq[q])'
  BY <1>11, <1>a, <1>b, FailsTyped
<1> QED BY StepKinds, <1>1, <1>2, <1>3, <1>4, <1>5, <1>6, <1>7, <1>8, <1>9, <1>10, <1>11
     DEF Mfa!RecoverMfa, Mfa!ChangePolicy, Mfa!MarkerExpires, Mfa!SignIn, Mfa!BeginEnrolment, Mfa!EnrolmentExpires, Mfa!RevokeSession

-----------------------------------------------------------------------------
(* What is pending, drawn and spent. *)

\* The sessions of a step that neither confirms nor begins an enrolment have
\* nothing pending that was not pending before.
PendingKept == \A s \in MfaSessions : mfaSession'[s].pending \in {mfaSession[s].pending, Mfa!NoSecret}

LEMMA PendingShrinks ==
    ASSUME Typed, PendingOK, Mfa!EnrolmentIsSingle, PendingKept,
           \A f \in Mfa!Factors : mfaUses'[f] # mfaUses[f] => f.secret = mfaUser.secret,
           mfaUser.secret # Mfa!NoSecret => mfaUser.enabled, mfaDrawn' = mfaDrawn
    PROVE  PendingOK'
<1> SUFFICES ASSUME NEW s \in MfaSessions
             PROVE  /\ mfaSession'[s].pending <= mfaDrawn'
                    /\ \A f \in Mfa!Factors : f.secret = mfaSession'[s].pending => mfaUses'[f] = 0
  BY DEF PendingOK
<1>1. mfaSession'[s].pending = mfaSession[s].pending \/ mfaSession'[s].pending = Mfa!NoSecret
  BY DEF PendingKept
<1>2. mfaSession'[s].pending <= mfaDrawn'
  BY <1>1 DEF PendingOK, Typed, Mfa!NoSecret
<1>3. ASSUME NEW f \in Mfa!Factors, f.secret = mfaSession'[s].pending PROVE mfaUses'[f] = 0
  <2>1. f.secret # Mfa!NoSecret
    BY DEF Mfa!Factors, Mfa!Secrets, Mfa!NoSecret
  <2>2. mfaSession[s].pending = f.secret
    BY <1>1, <1>3, <2>1
  <2>3. mfaUses[f] = 0
    BY <2>2 DEF PendingOK
  <2>4. f.secret # mfaUser.secret
    BY <2>1, <2>2 DEF Mfa!EnrolmentIsSingle
  <2> QED BY <2>3, <2>4
<1> QED BY <1>2, <1>3

FactorsOK == SecretOK /\ Mfa!EnrolmentIsSingle /\ DrawnOK /\ PendingOK /\ SpentOK /\ Mfa!FactorUsedOnce

\* Nothing about factors changes, except that less is pending.
LEMMA QuietFactors ==
    ASSUME Typed, FactorsOK, PendingKept, UNCHANGED <<mfaUser, mfaUses, mfaClaims, mfaDrawn>>
    PROVE  FactorsOK'
<1>1. PendingOK'
  BY PendingShrinks DEF FactorsOK, SecretOK
<1>2. Mfa!EnrolmentIsSingle'
  BY DEF FactorsOK, Mfa!EnrolmentIsSingle, PendingKept
<1> QED BY <1>1, <1>2 DEF FactorsOK, SecretOK, DrawnOK, SpentOK, Mfa!FactorUsedOnce

\* Redeemed factors of the account's secret.
LEMMA Redeemed ==
    ASSUME Mfa!MfaAssumption, Typed, FactorsOK, NEW c \in MfaSteps \cup MfaBackups, Mfa!Matches(c),
           Mfa!Used([secret |-> mfaUser.secret, code |-> c])
    PROVE  /\ \E f \in Mfa!Factors : /\ f.secret = mfaUser.secret /\ f.code = c
                                     /\ mfaUses[f] = 0 /\ mfaUses'[f] = 1
                                     /\ \A g \in Mfa!Factors : g # f => mfaUses'[g] = mfaUses[g]
<1>1. mfaUser.secret \in Mfa!Secrets
  BY DEF Typed, Mfa!TypeOK, Mfa!User, Mfa!Matches
<1>2. PICK f \in Mfa!Factors : f = [secret |-> mfaUser.secret, code |-> c]
  BY <1>1, FactorValues
<1>3. f.secret = mfaUser.secret /\ f.code = c
  BY <1>2
<1>4. mfaUses[f] = 0
  BY <1>3 DEF FactorsOK, SpentOK, Mfa!Matches, Mfa!MfaAssumption, Typed, Mfa!TypeOK, Mfa!User
<1> QED BY <1>2, <1>3, <1>4, UsedTyped DEF Typed

LEMMA FactorsStep ==
    ASSUME Mfa!MfaAssumption, Typed, FactorsOK, Mfa!Next
    PROVE  FactorsOK'
<1>0. /\ mfaSession \in [MfaSessions -> Mfa!Row] /\ mfaUser \in Mfa!User /\ mfaUses \in [Mfa!Factors -> Nat]
      /\ \A s \in MfaSessions : mfaSession[s] \in Mfa!Row
      /\ mfaUser.backups \subseteq MfaBackups
  BY DEF Typed, Mfa!TypeOK, Mfa!User
<1>1. ASSUME NEW r \in MfaRequests, NEW s \in MfaSessions, NEW c \in MfaSteps, Mfa!ConfirmEnrolment(r, s, c) PROVE FactorsOK'
  <2>1. PICK n \in Mfa!Secrets : n = mfaSession[s].pending
    BY <1>0, <1>1 DEF Mfa!ConfirmEnrolment, Mfa!Row
  <2>2. PICK f \in Mfa!Factors : f = [secret |-> n, code |-> c]
    BY <2>1, FactorValues
  <2>3. f.secret = n /\ f.code = c /\ mfaUses[f] = 0 /\ n <= mfaDrawn /\ n # Mfa!NoSecret
    BY <2>1, <2>2 DEF FactorsOK, PendingOK, Mfa!Secrets, Mfa!NoSecret
  <2>4. mfaUses'[f] = 1 /\ \A g \in Mfa!Factors : g # f => mfaUses'[g] = mfaUses[g]
    BY <1>0, <1>1, <2>1, <2>2, <2>3, UsedTyped DEF Mfa!ConfirmEnrolment
  <2>5. mfaUser' = [enabled |-> TRUE, secret |-> n, backups |-> MfaBackups] /\ mfaClaims' = mfaClaims \cup {c} /\ mfaDrawn' = mfaDrawn
    BY <1>1, <2>1 DEF Mfa!ConfirmEnrolment
  <2>6. \A t \in MfaSessions : mfaSession'[t].pending = Mfa!NoSecret
    BY <1>1, PendingGone DEF Mfa!ConfirmEnrolment, Mfa!Consumed
  <2>7. SecretOK' /\ Mfa!EnrolmentIsSingle'
    BY <2>3, <2>5, <2>6 DEF SecretOK, Mfa!EnrolmentIsSingle
  <2>8. DrawnOK' /\ Mfa!FactorUsedOnce'
    BY <2>3, <2>4, <2>5 DEF FactorsOK, DrawnOK, Mfa!FactorUsedOnce
  <2>9. PendingOK'
    <3>1. \A g \in Mfa!Factors : g.secret # Mfa!NoSecret
      BY DEF Mfa!Factors, Mfa!Secrets, Mfa!NoSecret
    <3> QED BY <2>5, <2>6, <3>1 DEF PendingOK, Typed, Mfa!NoSecret
  <2>10. SpentOK'
    <3>1. \A g \in Mfa!Factors : g.secret = n /\ mfaUses'[g] # 0 => g = f
      BY <2>1, <2>4 DEF FactorsOK, PendingOK
    <3>2. f.code \in mfaClaims' /\ f.code \notin mfaUser'.backups
      BY <2>3, <2>5 DEF Mfa!MfaAssumption
    <3> QED BY <2>5, <3>1, <3>2 DEF SpentOK
  <2> QED BY <2>7, <2>8, <2>9, <2>10 DEF FactorsOK
<1>2. ASSUME NEW r \in MfaRequests, NEW s \in MfaSessions, NEW c \in MfaSteps \cup MfaBackups, Mfa!ValidateMfa(r, s, c) PROVE FactorsOK'
  <2>1. PICK f \in Mfa!Factors : /\ f.secret = mfaUser.secret /\ f.code = c
                                 /\ mfaUses[f] = 0 /\ mfaUses'[f] = 1
                                 /\ \A g \in Mfa!Factors : g # f => mfaUses'[g] = mfaUses[g]
    BY <1>2, Redeemed DEF Mfa!ValidateMfa
  <2>2. mfaUser'.enabled = mfaUser.enabled /\ mfaUser'.secret = mfaUser.secret /\ mfaUser'.backups = mfaUser.backups \ {c}
    BY <1>2, UserValues DEF Mfa!ValidateMfa, Mfa!Consume, Typed, Mfa!TypeOK
  <2>3. mfaSession' = mfaSession /\ mfaClaims' = mfaClaims \cup ({c} \cap MfaSteps) /\ mfaDrawn' = mfaDrawn
    BY <1>2 DEF Mfa!ValidateMfa, Mfa!Consume
  <2>4. SecretOK' /\ Mfa!EnrolmentIsSingle'
    BY <2>2, <2>3 DEF FactorsOK, SecretOK, Mfa!EnrolmentIsSingle
  <2>5. PendingOK'
    BY <2>1, <2>3, PendingShrinks DEF FactorsOK, SecretOK, PendingKept
  <2>6. DrawnOK' /\ Mfa!FactorUsedOnce'
    BY <2>1, <2>3 DEF FactorsOK, SecretOK, DrawnOK, Mfa!FactorUsedOnce
  <2>7. SpentOK'
    <3> SUFFICES ASSUME NEW g \in Mfa!Factors, g.secret = mfaUser'.secret, mfaUses'[g] # 0
                 PROVE  (g.code \in MfaSteps => g.code \in mfaClaims') /\ g.code \notin mfaUser'.backups
      BY DEF SpentOK
    <3>1. CASE g = f
      BY <2>1, <2>2, <2>3, <3>1
    <3>2. CASE g # f
      BY <2>1, <2>2, <2>3, <3>2 DEF FactorsOK, SpentOK
    <3> QED BY <3>1, <3>2
  <2> QED BY <2>4, <2>5, <2>6, <2>7 DEF FactorsOK
<1>3. ASSUME NEW r \in MfaRequests, NEW s \in MfaSessions, NEW c \in MfaSteps \cup MfaBackups, Mfa!DisableMfa(r, s, c) PROVE FactorsOK'
  <2>1. PICK f \in Mfa!Factors : /\ f.secret = mfaUser.secret /\ f.code = c
                                 /\ mfaUses[f] = 0 /\ mfaUses'[f] = 1
                                 /\ \A g \in Mfa!Factors : g # f => mfaUses'[g] = mfaUses[g]
    BY <1>3, Redeemed DEF Mfa!DisableMfa
  <2>2. ~mfaUser'.enabled /\ mfaUser'.secret = Mfa!NoSecret /\ mfaDrawn' = mfaDrawn /\ PendingKept
    BY <1>3, AllRevoked DEF Mfa!DisableMfa, Mfa!NoMfa, PendingKept
  <2>3. SecretOK' /\ Mfa!EnrolmentIsSingle'
    BY <2>2 DEF SecretOK, Mfa!EnrolmentIsSingle, Mfa!NoSecret, Typed
  <2>4. PendingOK'
    BY <2>1, <2>2, PendingShrinks DEF FactorsOK, SecretOK
  <2>5. DrawnOK' /\ Mfa!FactorUsedOnce'
    BY <2>1, <2>2 DEF FactorsOK, SecretOK, DrawnOK, Mfa!FactorUsedOnce
  <2>6. SpentOK'
    BY <2>2 DEF SpentOK, Mfa!Factors, Mfa!Secrets, Mfa!NoSecret
  <2> QED BY <2>3, <2>4, <2>5, <2>6 DEF FactorsOK
<1>4. ASSUME Mfa!RecoverMfa PROVE FactorsOK'
  <2>1. ~mfaUser'.enabled /\ mfaUser'.secret = Mfa!NoSecret /\ mfaDrawn' = mfaDrawn /\ PendingKept /\ mfaUses' = mfaUses
    BY <1>4, AllRevoked DEF Mfa!RecoverMfa, Mfa!NoMfa, PendingKept, Mfa!history
  <2>2. SecretOK' /\ Mfa!EnrolmentIsSingle'
    BY <2>1 DEF SecretOK, Mfa!EnrolmentIsSingle, Mfa!NoSecret, Typed
  <2>3. PendingOK'
    BY <2>1, PendingShrinks DEF FactorsOK, SecretOK
  <2>4. DrawnOK' /\ Mfa!FactorUsedOnce'
    BY <2>1 DEF FactorsOK, DrawnOK, Mfa!FactorUsedOnce
  <2>5. SpentOK'
    BY <2>1 DEF SpentOK, Mfa!Factors, Mfa!Secrets, Mfa!NoSecret
  <2> QED BY <2>2, <2>3, <2>4, <2>5 DEF FactorsOK
<1>5. ASSUME NEW s \in MfaSessions, Mfa!BeginEnrolment(s) PROVE FactorsOK'
  <2>1. /\ ~mfaUser.enabled /\ mfaUser' = mfaUser /\ mfaUses' = mfaUses /\ mfaClaims' = mfaClaims /\ mfaDrawn' = mfaDrawn + 1
        /\ mfaDrawn \in Nat
    BY <1>5 DEF Mfa!BeginEnrolment, Mfa!history, Typed
  <2>2. \A t \in MfaSessions : mfaSession'[t].pending = mfaSession[t].pending \/ mfaSession'[t].pending = mfaDrawn'
    BY <1>0, <1>5, RowFates DEF Mfa!BeginEnrolment
  <2>3. \A f \in Mfa!Factors : f.secret = mfaDrawn' => mfaUses[f] = 0
    BY <2>1 DEF FactorsOK, DrawnOK, Mfa!Factors, Mfa!Secrets
  <2>4. PendingOK'
    <3> SUFFICES ASSUME NEW t \in MfaSessions
                 PROVE  /\ mfaSession'[t].pending <= mfaDrawn'
                        /\ \A f \in Mfa!Factors : f.secret = mfaSession'[t].pending => mfaUses'[f] = 0
      BY DEF PendingOK
    <3>1. mfaSession[t].pending \in Nat /\ mfaSession[t].pending <= mfaDrawn
      BY <1>0 DEF FactorsOK, PendingOK, Mfa!Row, Mfa!Secrets, Mfa!NoSecret
    <3> QED BY <2>1, <2>2, <2>3, <3>1 DEF FactorsOK, PendingOK
  <2>5. DrawnOK'
    BY <2>1 DEF FactorsOK, DrawnOK, Mfa!Factors, Mfa!Secrets
  <2>6. mfaUser.secret \in Nat
    BY <1>0 DEF Mfa!User, Mfa!Secrets, Mfa!NoSecret
  <2> QED BY <2>1, <2>4, <2>5, <2>6 DEF FactorsOK, SecretOK, Mfa!EnrolmentIsSingle, SpentOK, Mfa!FactorUsedOnce
<1>6. ASSUME NEW s \in MfaSessions, Mfa!SignIn(s) \/ Mfa!EnrolmentExpires(s) \/ Mfa!RevokeSession(s) PROVE FactorsOK'
  <2>1. PendingKept
    <3> SUFFICES ASSUME NEW t \in MfaSessions PROVE mfaSession'[t].pending \in {mfaSession[t].pending, Mfa!NoSecret}
      BY DEF PendingKept
    <3>1. CASE Mfa!SignIn(s)
      BY <1>0, <3>1, RowFates DEF Mfa!SignIn
    <3>2. CASE Mfa!EnrolmentExpires(s)
      BY <1>0, <3>2, RowFates DEF Mfa!EnrolmentExpires
    <3>3. CASE Mfa!RevokeSession(s)
      BY <1>0, <3>3, RowFates DEF Mfa!RevokeSession
    <3> QED BY <1>6, <3>1, <3>2, <3>3
  <2> QED BY <1>6, <2>1, QuietFactors DEF Mfa!SignIn, Mfa!EnrolmentExpires, Mfa!RevokeSession, Mfa!history
<1>8. ASSUME NEW r \in MfaRequests, NEW s \in MfaSessions, Mfa!SignInExempt(r, s) PROVE FactorsOK'
  <2>1. PendingKept
    BY <1>0, <1>8, RowFates DEF Mfa!SignInExempt, PendingKept
  <2> QED BY <1>8, <2>1, QuietFactors DEF Mfa!SignInExempt
<1>9. ASSUME NEW r \in MfaRequests, Mfa!MarkFails(r) PROVE FactorsOK'
  <2>1. PendingKept
    BY <1>0, <1>9, RowFates DEF Mfa!MarkFails, PendingKept
  <2> QED BY <1>9, <2>1, QuietFactors DEF Mfa!MarkFails, Mfa!history
<1>7. ASSUME UNCHANGED <<mfaUser, mfaSession, mfaUses, mfaClaims, mfaDrawn>> PROVE FactorsOK'
  BY <1>7, QuietFactors DEF PendingKept
<1> QED BY StepKinds, <1>1, <1>2, <1>3, <1>4, <1>5, <1>6, <1>7, <1>8, <1>9 DEF Mfa!ReadSession, Mfa!StartRefresh,
     Mfa!MarkVerified, Mfa!ClearMarkers, Mfa!ReadMarker, Mfa!ReadAgain, Mfa!MarkerExpires, Mfa!ChangePolicy, Mfa!history

-----------------------------------------------------------------------------
(* The theorems. *)

LEMMA MfaStep == ASSUME Mfa!MfaAssumption PROVE MfaInv /\ [Mfa!Next]_(Mfa!mfaVars) => MfaInv'
<1> SUFFICES ASSUME MfaInv, [Mfa!Next]_(Mfa!mfaVars) PROVE MfaInv'
  OBVIOUS
<1>1. CASE Mfa!Next
  <2>1. Typed' /\ MarkersOK' /\ RequestsOK'
    BY <1>1, TypedStep, MarkersStep, RequestsStep DEF MfaInv
  <2>2. FactorsOK'
    BY <1>1, FactorsStep DEF MfaInv, FactorsOK
  <2> QED BY <2>1, <2>2 DEF MfaInv, FactorsOK
<1>2. CASE UNCHANGED Mfa!mfaVars
  BY <1>2 DEF Mfa!mfaVars, MfaInv, Typed, Mfa!TypeOK, SecretOK, Mfa!EnrolmentIsSingle, MarkersOK, RequestsOK, RequestOK,
     Entitled, Earned, Mfa!Live, DrawnOK, PendingOK, SpentOK, Mfa!FactorUsedOnce
<1> QED BY <1>1, <1>2

LEMMA MfaHolds == ASSUME Mfa!MfaAssumption PROVE Mfa!Spec => []MfaInv
BY MfaInit, MfaStep, PTL DEF Mfa!Spec

\* Every variable of the second factors has its type.
THEOREM MfaTypeCorrect == ASSUME Mfa!MfaAssumption PROVE Mfa!Spec => []Mfa!TypeOK
<1>1. MfaInv => Mfa!TypeOK
  BY DEF MfaInv, Typed
<1> QED BY <1>1, MfaHolds, PTL

\* A marker that markSessionMfaVerified wrote late, or that a revocation left
\* behind, belongs to no live session, unless that session passed with the
\* factor the account has now or was issued exempt from it.
THEOREM MarkersAreEarned == ASSUME Mfa!MfaAssumption PROVE Mfa!Spec => []Mfa!LiveMarkerIsEarned
<1>1. MfaInv => Mfa!LiveMarkerIsEarned
  BY DEF MfaInv, MarkersOK, Earned, Mfa!LiveMarkerIsEarned
<1> QED BY <1>1, MfaHolds, PTL

\* claimTotpTimeStep and the removal of backup codes let a factor of one
\* enrolment be accepted once, in whichever sessions it is presented.
THEOREM FactorsAreUsedOnce == ASSUME Mfa!MfaAssumption PROVE Mfa!Spec => []Mfa!FactorUsedOnce
<1>1. MfaInv => Mfa!FactorUsedOnce
  BY DEF MfaInv
<1> QED BY <1>1, MfaHolds, PTL

\* While the account has a factor no session has an enrolment pending that
\* confirmMfaEnrollment could still put in its place.
THEOREM EnrolmentsAreSingle == ASSUME Mfa!MfaAssumption PROVE Mfa!Spec => []Mfa!EnrolmentIsSingle
<1>1. MfaInv => Mfa!EnrolmentIsSingle
  BY DEF MfaInv
<1> QED BY <1>1, MfaHolds, PTL

\* An access check or refresh answers "required and verified" only for a live
\* session that passed with the current factor or is exempt, although
\* database, Redis and database are read one after the other.
THEOREM VerifiedIsEarned == ASSUME Mfa!MfaAssumption PROVE Mfa!Spec => Mfa!VerifiedAnswerIsEarned
<1>1. MfaInv /\ [Mfa!Next]_(Mfa!mfaVars) => [Mfa!AnswersEarned]_(Mfa!mfaVars)
  <2> SUFFICES ASSUME MfaInv, Mfa!Next, NEW r \in MfaRequests, mfaReq[r].pc = "final", mfaReq'[r].pc = "done",
                      mfaReq'[r].granted, mfaReq'[r].required, mfaReq'[r].verified
               PROVE  /\ Mfa!Live(mfaReq'[r].session)
                      /\ \/ mfaReq'[r].session \in mfaExempt
                         \/ mfaUser.secret # Mfa!NoSecret /\ mfaPassed[mfaReq'[r].session] = mfaUser.secret
    BY DEF Mfa!AnswersEarned
  <2>0. mfaReq \in [MfaRequests -> Mfa!Request] /\ Typed
    BY DEF MfaInv, Typed, Mfa!TypeOK
  <2>1. Mfa!ReadAgain(r)
    <3>1. ASSUME NEW q \in MfaRequests, NEW s \in MfaSessions, NEW op, NEW pc, Mfa!Begin(q, op, s, pc), mfaReq[q].pc = "new" PROVE FALSE
      BY <2>0, <3>1 DEF Mfa!Begin
    <3>2. ASSUME NEW q \in MfaRequests, NEW g, Mfa!Done(q, g), mfaReq[q].pc \in {"mark", "clear"} PROVE FALSE
      BY <2>0, <3>2 DEF Mfa!Done
    <3>3. ASSUME NEW q \in MfaRequests, NEW s \in MfaSessions, Mfa!ReadSession(q, s) PROVE FALSE
      BY <2>0, <3>3 DEF Mfa!ReadSession
    <3>4. ASSUME NEW q \in MfaRequests, Mfa!ReadMarker(q) PROVE FALSE
      BY <2>0, <3>4 DEF Mfa!ReadMarker
    <3>5. ASSUME NEW q \in MfaRequests, Mfa!ReadAgain(q), q # r PROVE FALSE
      BY <2>0, <3>5, ReadAgainTyped
    <3>6. ASSUME UNCHANGED mfaReq PROVE FALSE
      BY <3>6
    <3> QED BY StepKinds, <3>1, <3>2, <3>3, <3>4, <3>5, <3>6 DEF Mfa!ConfirmEnrolment, Mfa!ValidateMfa, Mfa!DisableMfa,
         Mfa!StartRefresh, Mfa!SignInExempt, Mfa!MarkVerified, Mfa!MarkFails, Mfa!ClearMarkers, Mfa!RecoverMfa, Mfa!ChangePolicy, Mfa!MarkerExpires, Mfa!SignIn,
         Mfa!BeginEnrolment, Mfa!EnrolmentExpires, Mfa!RevokeSession
  <2>2. /\ mfaReq'[r].session = mfaReq[r].session /\ Mfa!Live(mfaReq[r].session)
        /\ mfaReq[r].verified /\ (mfaReq[r].op = "refresh" \/ mfaReq[r].required)
    BY <2>0, <2>1, ReadAgainTyped DEF Mfa!Request
  <2>3. Earned(mfaReq[r].session)
    BY <2>2 DEF MfaInv, RequestsOK, RequestOK, Entitled
  <2> QED BY <2>2, <2>3 DEF Earned, MfaInv, SecretOK
<1> QED BY <1>1, MfaHolds, PTL DEF Mfa!Spec, Mfa!VerifiedAnswerIsEarned

-----------------------------------------------------------------------------
(* Roles and accounts. *)

(* The operators of the model. *)

LEMMA RankValues ==
    Ladder!Rank("STAFF") = 1 /\ Ladder!Rank("MANAGER") = 2 /\ Ladder!Rank("ADMIN") = 3 /\ Ladder!Rank("SUPER_ADMIN") = 4
BY DEF Ladder!Rank

\* The highest system role of a set exists: it is the set's own, or STAFF.
LEMMA ReconciledIsHighest ==
    ASSUME NEW rs
    PROVE  /\ Ladder!Reconciled(rs) \in Ladder!Ranks
           /\ Ladder!Reconciled(rs) \in rs \cup {"STAFF"}
           /\ \A s \in (rs \cap Ladder!Ranks) : Ladder!Rank(s) <= Ladder!Rank(Ladder!Reconciled(rs))
<1> DEFINE Highest(r) == /\ r \in rs \cup {"STAFF"}
                         /\ \A s \in (rs \cap Ladder!Ranks) : Ladder!Rank(s) <= Ladder!Rank(r)
<1>1. \E r \in Ladder!Ranks : Highest(r)
  <2>1. CASE "SUPER_ADMIN" \in rs
    <3>1. Highest("SUPER_ADMIN") BY <2>1, RankValues DEF Ladder!Ranks
    <3> QED BY <3>1 DEF Ladder!Ranks
  <2>2. CASE "SUPER_ADMIN" \notin rs /\ "ADMIN" \in rs
    <3>1. Highest("ADMIN") BY <2>2, RankValues DEF Ladder!Ranks
    <3> QED BY <3>1 DEF Ladder!Ranks
  <2>3. CASE "SUPER_ADMIN" \notin rs /\ "ADMIN" \notin rs /\ "MANAGER" \in rs
    <3>1. Highest("MANAGER") BY <2>3, RankValues DEF Ladder!Ranks
    <3> QED BY <3>1 DEF Ladder!Ranks
  <2>4. CASE "SUPER_ADMIN" \notin rs /\ "ADMIN" \notin rs /\ "MANAGER" \notin rs
    <3>1. Highest("STAFF") BY <2>4, RankValues DEF Ladder!Ranks
    <3> QED BY <3>1 DEF Ladder!Ranks
  <2> QED BY <2>1, <2>2, <2>3, <2>4
<1>2. Ladder!Reconciled(rs) = CHOOSE r \in Ladder!Ranks : Highest(r)
  BY DEF Ladder!Reconciled
<1>3. Ladder!Reconciled(rs) \in Ladder!Ranks /\ Highest(Ladder!Reconciled(rs))
  <2> HIDE DEF Highest
  <2> QED BY <1>1, <1>2
<1> QED BY <1>3

\* One system role is its own highest.
LEMMA ReconciledOne ==
    ASSUME NEW r \in Ladder!Ranks
    PROVE  Ladder!Reconciled({r}) = r
<1>1. Ladder!Rank(r) <= Ladder!Rank(Ladder!Reconciled({r})) /\ Ladder!Reconciled({r}) \in {r, "STAFF"}
  BY ReconciledIsHighest DEF Ladder!Ranks
<1> QED BY <1>1, RankValues DEF Ladder!Ranks

\* What a user holds, role by role.
LEMMA HeldByRole ==
    ASSUME NEW u, NEW p
    PROVE  p \in Ladder!Held(u) <=> \E r \in ladderAssigned[u] : Ladder!LiveRole(r) /\ p \in Ladder!RolePermissions(r)
BY DEF Ladder!Held, Ladder!PermissionsOf

\* The same after a step.
LEMMA HeldByRoleNext ==
    ASSUME NEW u, NEW p
    PROVE  p \in Ladder!Held(u)' <=>
           \E r \in ladderAssigned'[u] : Ladder!LiveRole(r)' /\ p \in Ladder!RolePermissions(r)'
BY DEF Ladder!Held, Ladder!PermissionsOf

\* A step that leaves the custom roles alone changes the meaning of no role.
LEMMA RolesUnchanged ==
    ASSUME ladderCustom' = ladderCustom
    PROVE  /\ \A r : Ladder!LiveRole(r)' <=> Ladder!LiveRole(r)
           /\ \A r : Ladder!RolePermissions(r)' = Ladder!RolePermissions(r)
BY DEF Ladder!LiveRole, Ladder!RolePermissions

-----------------------------------------------------------------------------
(* Types. *)

Mutation == [actor : LadderUsers, session : 1..LadderMaxLogins, permission : Ladder!Permissions]

Types ==
    /\ ladderRole \in [LadderUsers -> Ladder!Ranks]
    /\ ladderStatus \in [LadderUsers -> {"none", "active", "suspended", "deleted"}]
    /\ ladderLocked \subseteq LadderUsers
    /\ ladderLive \in [LadderUsers -> SUBSET (1..LadderMaxLogins)]
    /\ ladderAssigned \in [LadderUsers -> SUBSET (Ladder!Ranks \cup LadderCustomRoles)]
    /\ ladderCustom \in [LadderCustomRoles ->
            [state : {"none", "live", "deleted"}, permissions : SUBSET Ladder!Permissions]]
    /\ ladderSession \in [LadderUsers -> 0..LadderMaxLogins]
    /\ ladderRequest \in [LadderRequests -> Mutation \cup {None}]

LEMMA InitTypes == ASSUME Ladder!AccessAssumption, Ladder!Init PROVE Types
<1>1. \A u \in LadderUsers : u \in DOMAIN LadderHired => LadderHired[u] \in Ladder!Ranks
  BY DEF Ladder!AccessAssumption
<1>2. LadderMaxLogins \in Nat BY DEF Ladder!AccessAssumption
<1>3. ladderRole \in [LadderUsers -> Ladder!Ranks] /\ ladderAssigned \in [LadderUsers -> SUBSET (Ladder!Ranks \cup LadderCustomRoles)]
  BY <1>1 DEF Ladder!Init, Ladder!Ranks
<1>4. /\ ladderStatus \in [LadderUsers -> {"none", "active", "suspended", "deleted"}]
      /\ ladderLocked \subseteq LadderUsers
      /\ ladderLive \in [LadderUsers -> SUBSET (1..LadderMaxLogins)]
      /\ ladderSession \in [LadderUsers -> 0..LadderMaxLogins]
      /\ ladderRequest \in [LadderRequests -> Mutation \cup {None}]
  BY <1>2 DEF Ladder!Init
<1>5. ladderCustom \in [LadderCustomRoles ->
            [state : {"none", "live", "deleted"}, permissions : SUBSET Ladder!Permissions]]
  BY DEF Ladder!Init
<1> QED BY <1>3, <1>4, <1>5 DEF Types

LEMMA FinishTypes ==
    ASSUME Types, NEW q \in LadderRequests, Ladder!Finish(q)
    PROVE  ladderRequest' \in [LadderRequests -> Mutation \cup {None}]
BY DEF Types, Ladder!Finish

LEMMA SetRolesTypes ==
    ASSUME Types, NEW u \in LadderUsers, NEW rs \in SUBSET (Ladder!Ranks \cup LadderCustomRoles), Ladder!SetRoles(u, rs)
    PROVE  /\ ladderRole' \in [LadderUsers -> Ladder!Ranks]
           /\ ladderAssigned' \in [LadderUsers -> SUBSET (Ladder!Ranks \cup LadderCustomRoles)]
BY ReconciledIsHighest DEF Types, Ladder!SetRoles

LEMMA RevokeTypes ==
    ASSUME Types, NEW u \in LadderUsers, Ladder!RevokeSessions(u) \/ UNCHANGED ladderLive
    PROVE  ladderLive' \in [LadderUsers -> SUBSET (1..LadderMaxLogins)]
BY DEF Types, Ladder!RevokeSessions

\* The requests that finish, as kinds of steps.
Writes(q) ==
    \/ \E r \in LadderCustomRoles, ps \in LadderPermissionSets : Ladder!CreateRole(q, r, ps) \/ Ladder!UpdateRole(q, r, ps)
    \/ \E r \in LadderCustomRoles : Ladder!DeleteRole(q, r)
Assigns(q, u) ==
    \/ \E rs \in LadderRoleSets : Ladder!ReplaceUserRoles(q, u, rs, "roles:assign")
    \/ \E r \in Ladder!Ranks : Ladder!ReplaceUserRoles(q, u, {r}, "users:admin")
    \/ \E rs \in LadderRoleSets : Ladder!ReplaceAccess(q, u, rs)
    \/ \E r \in Ladder!Ranks \cup LadderCustomRoles : Ladder!Invite(q, u, r)
Restates(q, u) ==
    \/ Ladder!SetSuspended(q, u)
    \/ Ladder!AdminSuspend(q, u) \/ Ladder!AdminActivate(q, u)
    \/ Ladder!LockUser(q, u) \/ Ladder!UnlockUser(q, u)
Quiet ==
    \/ \E u \in LadderUsers : Ladder!Login(u) \/ Ladder!SessionEnds(u)
    \/ \E q \in LadderRequests : Ladder!Refused(q) \/ \E u \in LadderUsers, p \in Ladder!Permissions : Ladder!Begin(q, u, p)

\* A step is of one of five kinds.
LEMMA LadderStepKinds ==
    ASSUME Ladder!Next
    PROVE  \/ Quiet
           \/ \E q \in LadderRequests : Writes(q)
           \/ \E q \in LadderRequests, u \in LadderUsers : Assigns(q, u)
           \/ \E q \in LadderRequests, u \in LadderUsers : Restates(q, u)
           \/ \E q \in LadderRequests, u \in LadderUsers : Ladder!Deactivate(q, u)
           \/ \E q \in LadderRequests, u \in LadderUsers, r \in Ladder!Ranks : Ladder!ReplaceSystemRole(q, u, r)
BY Zenon DEF Ladder!Next, Quiet, Writes, Assigns, Restates

LEMMA QuietTypes == ASSUME Ladder!AccessAssumption, Types, Quiet PROVE Types'
<1>0. LadderMaxLogins \in Nat BY DEF Ladder!AccessAssumption
<1>1. ASSUME NEW u \in LadderUsers, Ladder!Login(u) PROVE Types'
  <2>1. ladderSession[u] \in 0..LadderMaxLogins /\ ladderSession[u] < LadderMaxLogins
    BY <1>1 DEF Ladder!Login, Types
  <2>2. ladderSession' \in [LadderUsers -> 0..LadderMaxLogins] /\ ladderSession'[u] \in 1..LadderMaxLogins
    BY <1>0, <1>1, <2>1 DEF Ladder!Login, Types
  <2>3. ladderLive' \in [LadderUsers -> SUBSET (1..LadderMaxLogins)]
    BY <1>1, <2>2 DEF Ladder!Login, Types
  <2> QED BY <1>1, <2>2, <2>3 DEF Ladder!Login, Types
<1>2. ASSUME NEW u \in LadderUsers, Ladder!SessionEnds(u) PROVE Types'
  BY <1>2 DEF Ladder!SessionEnds, Types
<1>3. ASSUME NEW q \in LadderRequests, Ladder!Refused(q) PROVE Types'
  BY <1>3, FinishTypes DEF Ladder!Refused, Types
<1>4. ASSUME NEW q \in LadderRequests, NEW u \in LadderUsers, NEW p \in Ladder!Permissions, Ladder!Begin(q, u, p)
      PROVE  Types'
  <2>1. PICK s \in ladderLive[u] : ladderRequest' = [ladderRequest EXCEPT ![q] =
                                      [actor |-> u, session |-> s, permission |-> p]]
    BY <1>4 DEF Ladder!Begin
  <2>2. s \in 1..LadderMaxLogins BY DEF Types
  <2>3. [actor |-> u, session |-> s, permission |-> p] \in Mutation
    BY <2>2 DEF Mutation
  <2>4. ladderRequest' \in [LadderRequests -> Mutation \cup {None}]
    BY <2>1, <2>3 DEF Types
  <2> QED BY <1>4, <2>4 DEF Ladder!Begin, Types
<1> QED BY <1>1, <1>2, <1>3, <1>4 DEF Quiet

LEMMA WritesTypes ==
    ASSUME Ladder!AccessAssumption, Types, NEW q \in LadderRequests, Writes(q) PROVE Types'
<1>1. PICK r \in LadderCustomRoles : \/ \E ps \in LadderPermissionSets : Ladder!CreateRole(q, r, ps) \/ Ladder!UpdateRole(q, r, ps)
                                     \/ Ladder!DeleteRole(q, r)
  BY DEF Writes
<1>2. Ladder!Finish(q) /\ UNCHANGED <<ladderRole, ladderStatus, ladderLocked, ladderAssigned, ladderSession, ladderLive>>
  BY <1>1 DEF Ladder!CreateRole, Ladder!UpdateRole, Ladder!DeleteRole
<1>3. \A ps \in LadderPermissionSets : ps \in SUBSET Ladder!Permissions
  BY DEF Ladder!AccessAssumption
<1>4. ladderCustom' \in [LadderCustomRoles ->
            [state : {"none", "live", "deleted"}, permissions : SUBSET Ladder!Permissions]]
  BY <1>1, <1>3 DEF Ladder!CreateRole, Ladder!UpdateRole, Ladder!DeleteRole, Types
<1> QED BY <1>2, <1>4, FinishTypes DEF Types

Assignment(q, u, rs) ==
    /\ Ladder!SetRoles(u, rs) /\ Ladder!Finish(q)
    /\ UNCHANGED <<ladderLocked, ladderCustom, ladderSession>>
    /\ Ladder!RevokeSessions(u) \/ UNCHANGED ladderLive
    /\ ladderStatus' = ladderStatus \/ ladderStatus' = [ladderStatus EXCEPT ![u] = "active"]

LEMMA AssignsTypes ==
    ASSUME Ladder!AccessAssumption, Types, NEW q \in LadderRequests, NEW u \in LadderUsers, Assigns(q, u)
    PROVE  Types'
<1>1. \A rs \in LadderRoleSets : rs \in SUBSET (Ladder!Ranks \cup LadderCustomRoles)
  BY DEF Ladder!AccessAssumption
<1>2. \E rs \in SUBSET (Ladder!Ranks \cup LadderCustomRoles) : Assignment(q, u, rs)
  <2>1. ASSUME NEW ss \in LadderRoleSets, NEW p, Ladder!ReplaceUserRoles(q, u, ss, p)
        PROVE  \E rs \in SUBSET (Ladder!Ranks \cup LadderCustomRoles) : Assignment(q, u, rs)
    BY <1>1, <2>1 DEF Ladder!ReplaceUserRoles, Ladder!RevokeIfChanged, Assignment
  <2>2. ASSUME NEW r \in Ladder!Ranks, NEW p, Ladder!ReplaceUserRoles(q, u, {r}, p)
        PROVE  \E rs \in SUBSET (Ladder!Ranks \cup LadderCustomRoles) : Assignment(q, u, rs)
    <3>1. {r} \in SUBSET (Ladder!Ranks \cup LadderCustomRoles) OBVIOUS
    <3> QED BY <3>1, <2>2 DEF Ladder!ReplaceUserRoles, Ladder!RevokeIfChanged, Assignment
  <2>3. ASSUME NEW ss \in LadderRoleSets, Ladder!ReplaceAccess(q, u, ss)
        PROVE  \E rs \in SUBSET (Ladder!Ranks \cup LadderCustomRoles) : Assignment(q, u, rs)
    BY <1>1, <2>3 DEF Ladder!ReplaceAccess, Assignment
  <2>4. ASSUME NEW r \in Ladder!Ranks \cup LadderCustomRoles, Ladder!Invite(q, u, r)
        PROVE  \E rs \in SUBSET (Ladder!Ranks \cup LadderCustomRoles) : Assignment(q, u, rs)
    <3>1. {r} \in SUBSET (Ladder!Ranks \cup LadderCustomRoles) OBVIOUS
    <3> QED BY <3>1, <2>4 DEF Ladder!Invite, Assignment
  <2> QED BY <2>1, <2>2, <2>3, <2>4 DEF Assigns
<1>3. PICK rs \in SUBSET (Ladder!Ranks \cup LadderCustomRoles) : Assignment(q, u, rs) BY <1>2
<1>4. ladderStatus' \in [LadderUsers -> {"none", "active", "suspended", "deleted"}]
  BY <1>3 DEF Types, Assignment
<1> QED BY <1>3, <1>4, SetRolesTypes, FinishTypes, RevokeTypes DEF Types, Assignment

LEMMA RestatesTypes ==
    ASSUME Types, NEW q \in LadderRequests, NEW u \in LadderUsers, Restates(q, u)
    PROVE  Types'
<1>1. /\ Ladder!Finish(q)
      /\ UNCHANGED <<ladderRole, ladderAssigned, ladderCustom, ladderSession>>
      /\ Ladder!RevokeSessions(u) \/ UNCHANGED ladderLive
      /\ ladderLocked' \in {ladderLocked, ladderLocked \cup {u}, ladderLocked \ {u}}
  BY DEF Restates, Ladder!SetSuspended, Ladder!AdminSuspend, Ladder!AdminActivate, Ladder!LockUser, Ladder!UnlockUser
<1>2. ladderStatus' \in [LadderUsers -> {"none", "active", "suspended", "deleted"}]
  BY DEF Types, Restates, Ladder!SetSuspended, Ladder!AdminSuspend, Ladder!AdminActivate, Ladder!LockUser, Ladder!UnlockUser
<1>3. ladderLocked' \subseteq LadderUsers BY <1>1 DEF Types
<1> QED BY <1>1, <1>2, <1>3, FinishTypes, RevokeTypes DEF Types

LEMMA NextTypes ==
    ASSUME Ladder!AccessAssumption, Types, [Ladder!Next]_(Ladder!vars) PROVE Types'
<1>1. CASE UNCHANGED Ladder!vars BY <1>1 DEF Ladder!vars, Types
<1>2. CASE Ladder!Next
  <2>1. ASSUME NEW q \in LadderRequests, NEW u \in LadderUsers, Ladder!Deactivate(q, u) PROVE Types'
    <3>1. /\ ladderStatus' \in [LadderUsers -> {"none", "active", "suspended", "deleted"}]
          /\ ladderAssigned' \in [LadderUsers -> SUBSET (Ladder!Ranks \cup LadderCustomRoles)]
          /\ ladderLocked' \subseteq LadderUsers
      BY <2>1 DEF Ladder!Deactivate, Types
    <3> QED BY <2>1, <3>1, FinishTypes, RevokeTypes DEF Ladder!Deactivate, Types
  <2>2. ASSUME NEW q \in LadderRequests, NEW u \in LadderUsers, NEW r \in Ladder!Ranks, Ladder!ReplaceSystemRole(q, u, r)
        PROVE Types'
    <3>1. {r} \in SUBSET (Ladder!Ranks \cup LadderCustomRoles) OBVIOUS
    <3> QED BY <2>2, <3>1, SetRolesTypes, FinishTypes, RevokeTypes
            DEF Ladder!ReplaceSystemRole, Ladder!RevokeIfChanged, Types
  <2> QED BY <1>2, <2>1, <2>2, LadderStepKinds, QuietTypes, WritesTypes, AssignsTypes, RestatesTypes
<1> QED BY <1>1, <1>2

LEMMA TypesHold == ASSUME Ladder!AccessAssumption PROVE Ladder!Spec => []Types
BY InitTypes, NextTypes, PTL DEF Ladder!Spec

\* Every variable of the access administration has its type.
THEOREM RolesTypeCorrect == ASSUME Ladder!AccessAssumption PROVE Ladder!Spec => []Ladder!TypeOK
<1>1. Types => Ladder!TypeOK BY DEF Types, Ladder!TypeOK, Mutation
<1> QED BY <1>1, TypesHold, PTL

-----------------------------------------------------------------------------
(* Two sources of authority, and the roles that are assigned. *)

Sound == Types /\ Ladder!DualSourceAgrees /\ Ladder!AssignedRolesLive

\* A step that touches neither roles nor accounts disturbs nothing.
LEMMA QuietSound ==
    ASSUME Sound, UNCHANGED <<ladderRole, ladderStatus, ladderAssigned, ladderCustom>>
    PROVE  (Ladder!DualSourceAgrees /\ Ladder!AssignedRolesLive)'
BY DEF Sound, Ladder!DualSourceAgrees, Ladder!AssignedRolesLive, Ladder!Exists, Ladder!LiveRole, Ladder!Reconciled

\* What an assignment gives are live roles.
LEMMA AssignmentSound ==
    ASSUME Sound, NEW u \in LadderUsers, NEW rs \in SUBSET (Ladder!Ranks \cup LadderCustomRoles),
           Ladder!SetRoles(u, rs), ladderCustom' = ladderCustom, \A r \in rs : Ladder!LiveRole(r),
           \A v \in LadderUsers \ {u} : ladderStatus'[v] = ladderStatus[v]
    PROVE  (Ladder!DualSourceAgrees /\ Ladder!AssignedRolesLive)'
<1>1. /\ ladderAssigned'[u] = rs /\ ladderRole'[u] = Ladder!Reconciled(rs)
      /\ \A v \in LadderUsers \ {u} : ladderAssigned'[v] = ladderAssigned[v] /\ ladderRole'[v] = ladderRole[v]
  BY DEF Ladder!SetRoles, Sound, Types
<1>2. ASSUME NEW v \in LadderUsers, Ladder!Exists(v)' PROVE ladderRole'[v] = Ladder!Reconciled(ladderAssigned'[v])
  <2>1. CASE v = u BY <1>1, <2>1
  <2>2. CASE v # u
    <3>1. Ladder!Exists(v) BY <1>2, <2>2 DEF Ladder!Exists
    <3> QED BY <1>1, <2>2, <3>1 DEF Sound, Ladder!DualSourceAgrees
  <2> QED BY <2>1, <2>2
<1>3. \A v \in LadderUsers : \A r \in ladderAssigned'[v] : Ladder!LiveRole(r)
  BY <1>1 DEF Sound, Ladder!AssignedRolesLive
<1>4. \A r : Ladder!LiveRole(r)' <=> Ladder!LiveRole(r) BY RolesUnchanged
<1>5. Ladder!AssignedRolesLive' BY <1>3, <1>4 DEF Ladder!AssignedRolesLive
<1>6. Ladder!DualSourceAgrees' BY <1>2 DEF Ladder!DualSourceAgrees, Ladder!Reconciled
<1> QED BY <1>5, <1>6

LEMMA AssignsLive ==
    ASSUME Ladder!AccessAssumption, NEW q \in LadderRequests, NEW u \in LadderUsers, Assigns(q, u)
    PROVE  \E rs \in SUBSET (Ladder!Ranks \cup LadderCustomRoles) :
               Assignment(q, u, rs) /\ Ladder!MayDelegate(ladderRequest[q].actor, rs)
<1>1. \A rs \in LadderRoleSets : rs \in SUBSET (Ladder!Ranks \cup LadderCustomRoles)
  BY DEF Ladder!AccessAssumption
<1>2. \A r \in Ladder!Ranks \cup LadderCustomRoles : {r} \in SUBSET (Ladder!Ranks \cup LadderCustomRoles)
  OBVIOUS
<1>3. ASSUME NEW rs, NEW p, Ladder!ReplaceUserRoles(q, u, rs, p)
      PROVE  Assignment(q, u, rs) /\ Ladder!MayDelegate(ladderRequest[q].actor, rs)
  BY <1>3 DEF Ladder!ReplaceUserRoles, Ladder!RevokeIfChanged, Assignment
<1>4. ASSUME NEW rs, Ladder!ReplaceAccess(q, u, rs)
      PROVE  Assignment(q, u, rs) /\ Ladder!MayDelegate(ladderRequest[q].actor, rs)
  BY <1>4 DEF Ladder!ReplaceAccess, Assignment
<1>5. ASSUME NEW r, Ladder!Invite(q, u, r)
      PROVE  Assignment(q, u, {r}) /\ Ladder!MayDelegate(ladderRequest[q].actor, {r})
  BY <1>5 DEF Ladder!Invite, Assignment
<1> QED BY <1>1, <1>2, <1>3, <1>4, <1>5 DEF Assigns

\* A write of a custom role leaves every assigned role live.
LEMMA WritesSound ==
    ASSUME Sound, NEW q \in LadderRequests, Writes(q)
    PROVE  (Ladder!DualSourceAgrees /\ Ladder!AssignedRolesLive)'
<1>1. PICK r \in LadderCustomRoles : \/ \E ps \in LadderPermissionSets : Ladder!CreateRole(q, r, ps) \/ Ladder!UpdateRole(q, r, ps)
                                     \/ Ladder!DeleteRole(q, r)
  BY DEF Writes
<1>2. UNCHANGED <<ladderRole, ladderStatus, ladderAssigned>>
  BY <1>1 DEF Ladder!CreateRole, Ladder!UpdateRole, Ladder!DeleteRole
<1>3. Ladder!DualSourceAgrees'
  BY <1>2 DEF Sound, Ladder!DualSourceAgrees, Ladder!Exists, Ladder!Reconciled
<1>4. \A c \in LadderCustomRoles \ {r} : ladderCustom'[c] = ladderCustom[c]
  BY <1>1 DEF Ladder!CreateRole, Ladder!UpdateRole, Ladder!DeleteRole, Sound, Types
<1>5. ASSUME NEW v \in LadderUsers, NEW c \in ladderAssigned[v] PROVE Ladder!LiveRole(c)'
  <2>1. Ladder!LiveRole(c) BY DEF Sound, Ladder!AssignedRolesLive
  <2>2. CASE c \in Ladder!Ranks BY <2>2 DEF Ladder!LiveRole
  <2>3. CASE c # r /\ c \notin Ladder!Ranks
    BY <1>4, <2>1, <2>3 DEF Ladder!LiveRole
  <2>4. CASE c = r /\ c \notin Ladder!Ranks
    <3>1. ladderCustom[r].state = "live" BY <2>1, <2>4 DEF Ladder!LiveRole
    <3>2. ~Ladder!DeleteRole(q, r) BY <2>4 DEF Ladder!DeleteRole
    <3>3. PICK ps \in LadderPermissionSets : Ladder!UpdateRole(q, r, ps)
      BY <1>1, <3>1, <3>2 DEF Ladder!CreateRole
    <3>4. ladderCustom'[r].state = "live"
      <4>1. PICK x : x = [ladderCustom[r] EXCEPT !.permissions = ps] OBVIOUS
      <4>2. ladderCustom' = [ladderCustom EXCEPT ![r] = x] BY <3>3, <4>1 DEF Ladder!UpdateRole
      <4>3. x.state = ladderCustom[r].state
        BY <4>1 DEF Sound, Types
      <4> QED BY <3>1, <4>2, <4>3 DEF Sound, Types
    <3> QED BY <2>4, <3>4 DEF Ladder!LiveRole
  <2> QED BY <2>2, <2>3, <2>4
<1>6. Ladder!AssignedRolesLive' BY <1>2, <1>5 DEF Ladder!AssignedRolesLive
<1> QED BY <1>3, <1>6

LEMMA NextSound ==
    ASSUME Ladder!AccessAssumption, Sound, [Ladder!Next]_(Ladder!vars) PROVE Sound'
<1>1. Types' BY NextTypes DEF Sound
<1>2. CASE UNCHANGED Ladder!vars BY <1>1, <1>2, QuietSound DEF Ladder!vars, Sound
<1>3. CASE Ladder!Next
  <2>1. CASE Quiet
    <3>1. UNCHANGED <<ladderRole, ladderStatus, ladderAssigned, ladderCustom>>
      BY <2>1 DEF Quiet, Ladder!Login, Ladder!SessionEnds, Ladder!Refused, Ladder!Begin
    <3> QED BY <1>1, <3>1, QuietSound DEF Sound
  <2>2. ASSUME NEW q \in LadderRequests, Writes(q) PROVE Sound'
    BY <1>1, <2>2, WritesSound DEF Sound
  <2>3. ASSUME NEW q \in LadderRequests, NEW u \in LadderUsers, Assigns(q, u) PROVE Sound'
    <3>1. PICK rs \in SUBSET (Ladder!Ranks \cup LadderCustomRoles) :
              Assignment(q, u, rs) /\ Ladder!MayDelegate(ladderRequest[q].actor, rs)
      BY <2>3, AssignsLive
    <3>2. /\ Ladder!SetRoles(u, rs) /\ ladderCustom' = ladderCustom /\ \A r \in rs : Ladder!LiveRole(r)
          /\ \A v \in LadderUsers \ {u} : ladderStatus'[v] = ladderStatus[v]
      BY <3>1 DEF Assignment, Ladder!MayDelegate, Sound, Types
    <3> QED BY <1>1, <3>2, AssignmentSound DEF Sound
  <2>4. ASSUME NEW q \in LadderRequests, NEW u \in LadderUsers, Restates(q, u) PROVE Sound'
    <3>1. Ladder!Exists(u) /\ UNCHANGED <<ladderRole, ladderAssigned, ladderCustom>>
      BY <2>4 DEF Restates, Ladder!SetSuspended, Ladder!AdminSuspend, Ladder!AdminActivate, Ladder!LockUser, Ladder!UnlockUser,
                  Ladder!MayAdminister, Ladder!MayAdministerPlatform
    <3>2. \A v \in LadderUsers \ {u} : ladderStatus'[v] = ladderStatus[v]
      BY <2>4 DEF Restates, Ladder!SetSuspended, Ladder!AdminSuspend, Ladder!AdminActivate, Ladder!LockUser, Ladder!UnlockUser,
                  Sound, Types
    <3>3. \A v \in LadderUsers : Ladder!Exists(v)' => Ladder!Exists(v)
      BY <3>1, <3>2 DEF Ladder!Exists
    <3>4. Ladder!DualSourceAgrees' BY <3>1, <3>3 DEF Sound, Ladder!DualSourceAgrees, Ladder!Reconciled
    <3>5. Ladder!AssignedRolesLive' BY <3>1 DEF Sound, Ladder!AssignedRolesLive, Ladder!LiveRole
    <3> QED BY <1>1, <3>4, <3>5 DEF Sound
  <2>5. ASSUME NEW q \in LadderRequests, NEW u \in LadderUsers, Ladder!Deactivate(q, u) PROVE Sound'
    <3>1. /\ UNCHANGED <<ladderRole, ladderCustom>> /\ ~Ladder!Exists(u)' /\ ladderAssigned'[u] = {}
          /\ \A v \in LadderUsers \ {u} : ladderStatus'[v] = ladderStatus[v] /\ ladderAssigned'[v] = ladderAssigned[v]
      BY <2>5 DEF Ladder!Deactivate, Sound, Types, Ladder!Exists
    <3>2. Ladder!DualSourceAgrees'
      <4>1. ASSUME NEW v \in LadderUsers, Ladder!Exists(v)' PROVE ladderRole'[v] = Ladder!Reconciled(ladderAssigned'[v])
        <5>1. v # u BY <3>1, <4>1
        <5>2. Ladder!Exists(v) BY <3>1, <4>1, <5>1 DEF Ladder!Exists
        <5> QED BY <3>1, <5>1, <5>2 DEF Sound, Ladder!DualSourceAgrees
      <4> QED BY <4>1 DEF Ladder!DualSourceAgrees, Ladder!Reconciled
    <3>3. Ladder!AssignedRolesLive'
      <4>1. \A v \in LadderUsers : ladderAssigned'[v] \subseteq ladderAssigned[v] BY <3>1
      <4>2. \A r : Ladder!LiveRole(r)' <=> Ladder!LiveRole(r) BY <3>1, RolesUnchanged
      <4> QED BY <4>1, <4>2 DEF Sound, Ladder!AssignedRolesLive
    <3> QED BY <1>1, <3>2, <3>3 DEF Sound
  <2>6. ASSUME NEW q \in LadderRequests, NEW u \in LadderUsers, NEW r \in Ladder!Ranks, Ladder!ReplaceSystemRole(q, u, r)
        PROVE Sound'
    <3>1. {r} \in SUBSET (Ladder!Ranks \cup LadderCustomRoles) /\ \A s \in {r} : Ladder!LiveRole(s)
      BY DEF Ladder!LiveRole
    <3>2. Ladder!SetRoles(u, {r}) /\ ladderCustom' = ladderCustom /\ ladderStatus' = ladderStatus
      BY <2>6 DEF Ladder!ReplaceSystemRole
    <3> QED BY <1>1, <3>1, <3>2, AssignmentSound DEF Sound
  <2> QED BY <1>3, <2>1, <2>2, <2>3, <2>4, <2>5, <2>6, LadderStepKinds
<1> QED BY <1>2, <1>3

LEMMA InitSound == ASSUME Ladder!AccessAssumption, Ladder!Init PROVE Sound
<1>1. Types BY InitTypes
<1>2. \A u \in DOMAIN LadderHired : LadderHired[u] \in Ladder!Ranks BY DEF Ladder!AccessAssumption
<1>3. ASSUME NEW u \in LadderUsers, Ladder!Exists(u) PROVE ladderRole[u] = Ladder!Reconciled(ladderAssigned[u])
  <2>1. u \in DOMAIN LadderHired BY <1>3 DEF Ladder!Exists, Ladder!Init
  <2>2. ladderRole[u] = LadderHired[u] /\ ladderAssigned[u] = {LadderHired[u]} BY <2>1 DEF Ladder!Init
  <2> QED BY <1>2, <2>1, <2>2, ReconciledOne
<1>4. ASSUME NEW u \in LadderUsers, NEW r \in ladderAssigned[u] PROVE r \in Ladder!Ranks
  BY <1>2, <1>4 DEF Ladder!Init
<1> QED BY <1>1, <1>3, <1>4 DEF Sound, Ladder!DualSourceAgrees, Ladder!AssignedRolesLive, Ladder!LiveRole

LEMMA SoundHolds == ASSUME Ladder!AccessAssumption PROVE Ladder!Spec => []Sound
BY InitSound, NextSound, PTL DEF Ladder!Spec

\* The role column and the assignments of an existing account agree, for any
\* number of users, roles and overlapping requests.
THEOREM SourcesAgree == ASSUME Ladder!AccessAssumption PROVE Ladder!Spec => []Ladder!DualSourceAgrees
<1>1. Sound => Ladder!DualSourceAgrees BY DEF Sound
<1> QED BY <1>1, SoundHolds, PTL

\* Nobody holds a deleted role.
THEOREM RolesStayLive == ASSUME Ladder!AccessAssumption PROVE Ladder!Spec => []Ladder!AssignedRolesLive
<1>1. Sound => Ladder!AssignedRolesLive BY DEF Sound
<1> QED BY <1>1, SoundHolds, PTL

-----------------------------------------------------------------------------
(* System administrators. *)

\* What a request may touch.
LEMMA TargetOnly ==
    ASSUME Ladder!AccessAssumption, Types, NEW q \in LadderRequests, NEW u \in LadderUsers,
           \/ Assigns(q, u) \/ Restates(q, u) \/ Ladder!Deactivate(q, u)
           \/ \E r \in Ladder!Ranks : Ladder!ReplaceSystemRole(q, u, r)
    PROVE  /\ \A v \in LadderUsers \ {u} :
                /\ ladderRole'[v] = ladderRole[v] /\ ladderAssigned'[v] = ladderAssigned[v]
                /\ ladderStatus'[v] = ladderStatus[v] /\ (v \in ladderLocked' <=> v \in ladderLocked)
           /\ Ladder!Exists(u) /\ Ladder!IsSystemAdmin(u) => Ladder!IsSystemAdmin(ladderRequest[q].actor)
           /\ Ladder!Exists(u) => ladderRequest[q].actor # u
           /\ Ladder!Finish(q)
           /\ \E p \in Ladder!Permissions : Ladder!Authorized(q, p)
<1>1. CASE Assigns(q, u)
  <2>1. PICK rs \in SUBSET (Ladder!Ranks \cup LadderCustomRoles) : Assignment(q, u, rs)
    BY <1>1, AssignsLive
  <2>2. \A v \in LadderUsers \ {u} :
                /\ ladderRole'[v] = ladderRole[v] /\ ladderAssigned'[v] = ladderAssigned[v]
                /\ ladderStatus'[v] = ladderStatus[v] /\ (v \in ladderLocked' <=> v \in ladderLocked)
    BY <2>1 DEF Assignment, Ladder!SetRoles, Types
  <2>3. /\ Ladder!Exists(u) => (Ladder!IsSystemAdmin(u) => Ladder!IsSystemAdmin(ladderRequest[q].actor))
        /\ Ladder!Exists(u) => ladderRequest[q].actor # u
        /\ Ladder!Finish(q)
        /\ \E p \in {"roles:assign", "users:admin", "users:write"} : Ladder!Authorized(q, p)
    <3>1. ASSUME NEW rt, NEW p \in {"roles:assign", "users:admin"}, Ladder!ReplaceUserRoles(q, u, rt, p)
          PROVE  /\ Ladder!IsSystemAdmin(u) => Ladder!IsSystemAdmin(ladderRequest[q].actor)
                 /\ ladderRequest[q].actor # u /\ Ladder!Finish(q) /\ Ladder!Authorized(q, p)
      BY <3>1 DEF Ladder!ReplaceUserRoles
    <3>2. ASSUME NEW rt, Ladder!ReplaceAccess(q, u, rt)
          PROVE  /\ Ladder!IsSystemAdmin(u) => Ladder!IsSystemAdmin(ladderRequest[q].actor)
                 /\ ladderRequest[q].actor # u /\ Ladder!Finish(q) /\ Ladder!Authorized(q, "roles:assign")
      BY <3>2 DEF Ladder!ReplaceAccess, Ladder!MayAdminister
    <3>3. ASSUME NEW r, Ladder!Invite(q, u, r)
          PROVE  ~Ladder!Exists(u) /\ Ladder!Finish(q) /\ Ladder!Authorized(q, "users:write")
      BY <3>3 DEF Ladder!Invite, Ladder!Exists
    <3> QED BY <1>1, <3>1, <3>2, <3>3 DEF Assigns
  <2> QED BY <2>2, <2>3 DEF Ladder!Permissions
<1>2. CASE Restates(q, u)
  <2>1. /\ Ladder!Exists(u)
        /\ Ladder!IsSystemAdmin(u) => Ladder!IsSystemAdmin(ladderRequest[q].actor)
        /\ ladderRequest[q].actor # u
        /\ Ladder!Finish(q)
        /\ Ladder!Authorized(q, "users:admin") \/ Ladder!Authorized(q, "admin_portal:access")
        /\ UNCHANGED <<ladderRole, ladderAssigned>>
    BY <1>2 DEF Restates, Ladder!SetSuspended, Ladder!AdminSuspend, Ladder!AdminActivate, Ladder!LockUser, Ladder!UnlockUser,
                  Ladder!MayAdminister, Ladder!MayAdministerPlatform
  <2>2. \A v \in LadderUsers \ {u} : ladderStatus'[v] = ladderStatus[v] /\ (v \in ladderLocked' <=> v \in ladderLocked)
    BY <1>2 DEF Restates, Ladder!SetSuspended, Ladder!AdminSuspend, Ladder!AdminActivate, Ladder!LockUser, Ladder!UnlockUser, Types
  <2> QED BY <2>1, <2>2 DEF Ladder!Permissions
<1>3. CASE Ladder!Deactivate(q, u)
  <2>1. \A v \in LadderUsers \ {u} :
                /\ ladderRole'[v] = ladderRole[v] /\ ladderAssigned'[v] = ladderAssigned[v]
                /\ ladderStatus'[v] = ladderStatus[v] /\ (v \in ladderLocked' <=> v \in ladderLocked)
    BY <1>3 DEF Ladder!Deactivate, Types
  <2> QED BY <1>3, <2>1 DEF Ladder!Deactivate, Ladder!MayAdminister, Ladder!Permissions
<1>4. ASSUME NEW r \in Ladder!Ranks, Ladder!ReplaceSystemRole(q, u, r)
      PROVE  /\ \A v \in LadderUsers \ {u} :
                /\ ladderRole'[v] = ladderRole[v] /\ ladderAssigned'[v] = ladderAssigned[v]
                /\ ladderStatus'[v] = ladderStatus[v] /\ (v \in ladderLocked' <=> v \in ladderLocked)
             /\ Ladder!IsSystemAdmin(u) => Ladder!IsSystemAdmin(ladderRequest[q].actor)
             /\ ladderRequest[q].actor # u
             /\ Ladder!Finish(q) /\ Ladder!Authorized(q, "admin_portal:access")
  BY <1>4 DEF Ladder!ReplaceSystemRole, Ladder!MayAdministerPlatform, Ladder!SetRoles, Types
<1> QED BY <1>1, <1>2, <1>3, <1>4 DEF Ladder!Permissions

\* Whoever finishes a request is one of the users, entitled at that moment.
LEMMA ActorFinishes ==
    ASSUME Types, NEW q \in LadderRequests, Ladder!Finish(q), NEW p \in Ladder!Permissions, Ladder!Authorized(q, p)
    PROVE  /\ ladderRequest[q].actor \in LadderUsers
           /\ Ladder!FinishedBy(ladderRequest[q].actor, p)
           /\ ladderStatus[ladderRequest[q].actor] = "active" /\ ladderRequest[q].actor \notin ladderLocked
<1>1. ladderRequest[q] \in Mutation BY DEF Types, Ladder!Authorized
<1>2. ladderRequest[q] # None /\ ladderRequest'[q] = None
  BY DEF Ladder!Authorized, Ladder!Finish, Types
<1> QED BY <1>1, <1>2 DEF Ladder!FinishedBy, Ladder!Authorized, Ladder!Entitled, Mutation

LEMMA NextShielded ==
    ASSUME Ladder!AccessAssumption, Types, [Ladder!Next]_(Ladder!vars) PROVE Ladder!Shielded
<1>1. CASE UNCHANGED <<ladderRole, ladderStatus, ladderAssigned, ladderLocked>>
  BY <1>1 DEF Ladder!Shielded, Ladder!IsSystemAdmin
<1>2. ASSUME NEW q \in LadderRequests, NEW u \in LadderUsers,
             \/ Assigns(q, u) \/ Restates(q, u) \/ Ladder!Deactivate(q, u)
             \/ \E r \in Ladder!Ranks : Ladder!ReplaceSystemRole(q, u, r)
      PROVE  Ladder!Shielded
  <2>1. PICK p \in Ladder!Permissions : Ladder!Authorized(q, p) BY <1>2, TargetOnly
  <2>2. \A v \in LadderUsers \ {u} :
                /\ ladderRole'[v] = ladderRole[v] /\ ladderAssigned'[v] = ladderAssigned[v]
                /\ ladderStatus'[v] = ladderStatus[v] /\ (v \in ladderLocked' <=> v \in ladderLocked)
    BY <1>2, TargetOnly
  <2>3. Ladder!Finish(q) BY <1>2, TargetOnly
  <2>4. Ladder!Exists(u) /\ Ladder!IsSystemAdmin(u) =>
            Ladder!IsSystemAdmin(ladderRequest[q].actor) /\ ladderRequest[q].actor # u
    BY <1>2, TargetOnly
  <2>5. ladderRequest[q].actor \in LadderUsers /\ Ladder!FinishedBy(ladderRequest[q].actor, p)
    BY <2>1, <2>3, ActorFinishes
  <2>6. SUFFICES ASSUME NEW v \in LadderUsers, Ladder!IsSystemAdmin(v), Ladder!Exists(v),
                        ~Ladder!IsSystemAdmin(v)' \/ ladderStatus'[v] # ladderStatus[v] \/ (v \in ladderLocked') # (v \in ladderLocked)
                 PROVE  \E actor \in LadderUsers \ {v}, permission \in Ladder!Permissions :
                            Ladder!FinishedBy(actor, permission) /\ Ladder!IsSystemAdmin(actor)
    BY DEF Ladder!Shielded
  <2>7. v = u BY <2>2, <2>6 DEF Ladder!IsSystemAdmin
  <2> QED BY <2>4, <2>5, <2>6, <2>7
<1>3. Quiet \/ UNCHANGED Ladder!vars => UNCHANGED <<ladderRole, ladderStatus, ladderAssigned, ladderLocked>>
  BY DEF Quiet, Ladder!Login, Ladder!SessionEnds, Ladder!Refused, Ladder!Begin, Ladder!vars
<1>4. \A q \in LadderRequests : Writes(q) => UNCHANGED <<ladderRole, ladderStatus, ladderAssigned, ladderLocked>>
  BY DEF Writes, Ladder!CreateRole, Ladder!UpdateRole, Ladder!DeleteRole
<1> QED BY <1>1, <1>2, <1>3, <1>4, LadderStepKinds

\* Nobody but a system administrator takes anything from a system
\* administrator, for any number of users and overlapping requests.
THEOREM AdminsAreProtected == ASSUME Ladder!AccessAssumption PROVE Ladder!Spec => Ladder!SystemAdminsAreProtected
<1>1. Types /\ [Ladder!Next]_(Ladder!vars) => [Ladder!Shielded]_(Ladder!vars) BY NextShielded
<1> QED BY <1>1, TypesHold, PTL DEF Ladder!Spec, Ladder!SystemAdminsAreProtected

\* Administrators who act on each other at the same time leave one who can
\* sign in, if there was one to begin with.
THEOREM AdminRemains ==
    ASSUME Ladder!AccessAssumption, Ladder!AdminIsHired PROVE Ladder!Spec => []Ladder!SystemAdminRemains
<1>1. Ladder!Init => Ladder!SystemAdminRemains
  BY DEF Ladder!Init, Ladder!AdminIsHired, Ladder!AccessAssumption, Ladder!SystemAdminRemains, Ladder!IsSystemAdmin
<1>2. Types /\ Ladder!SystemAdminRemains /\ [Ladder!Next]_(Ladder!vars) => Ladder!SystemAdminRemains'
  <2> SUFFICES ASSUME Types, Ladder!SystemAdminRemains, [Ladder!Next]_(Ladder!vars) PROVE Ladder!SystemAdminRemains'
    OBVIOUS
  <2>1. PICK a \in LadderUsers : Ladder!IsSystemAdmin(a) /\ ladderStatus[a] = "active" /\ a \notin ladderLocked
    BY DEF Ladder!SystemAdminRemains
  <2>2. CASE UNCHANGED <<ladderRole, ladderStatus, ladderAssigned, ladderLocked>>
    BY <2>1, <2>2 DEF Ladder!SystemAdminRemains, Ladder!IsSystemAdmin
  <2>3. ASSUME NEW q \in LadderRequests, NEW u \in LadderUsers,
               \/ Assigns(q, u) \/ Restates(q, u) \/ Ladder!Deactivate(q, u)
               \/ \E r \in Ladder!Ranks : Ladder!ReplaceSystemRole(q, u, r)
        PROVE  Ladder!SystemAdminRemains'
    <3>1. PICK p \in Ladder!Permissions : Ladder!Authorized(q, p) BY <2>3, TargetOnly
    <3>2. \A v \in LadderUsers \ {u} :
                /\ ladderRole'[v] = ladderRole[v] /\ ladderAssigned'[v] = ladderAssigned[v]
                /\ ladderStatus'[v] = ladderStatus[v] /\ (v \in ladderLocked' <=> v \in ladderLocked)
      BY <2>3, TargetOnly
    <3>3. Ladder!Finish(q) BY <2>3, TargetOnly
    <3>4. Ladder!Exists(u) /\ Ladder!IsSystemAdmin(u) =>
            Ladder!IsSystemAdmin(ladderRequest[q].actor) /\ ladderRequest[q].actor # u
      BY <2>3, TargetOnly
    <3>5. /\ ladderRequest[q].actor \in LadderUsers
          /\ ladderStatus[ladderRequest[q].actor] = "active" /\ ladderRequest[q].actor \notin ladderLocked
      BY <3>1, <3>3, ActorFinishes
    <3>6. \E v \in LadderUsers \ {u} : Ladder!IsSystemAdmin(v) /\ ladderStatus[v] = "active" /\ v \notin ladderLocked
      BY <2>1, <3>4, <3>5 DEF Ladder!Exists
    <3> QED BY <3>2, <3>6 DEF Ladder!SystemAdminRemains, Ladder!IsSystemAdmin
  <2>4. Quiet \/ UNCHANGED Ladder!vars => UNCHANGED <<ladderRole, ladderStatus, ladderAssigned, ladderLocked>>
    BY DEF Quiet, Ladder!Login, Ladder!SessionEnds, Ladder!Refused, Ladder!Begin, Ladder!vars
  <2>5. \A q \in LadderRequests : Writes(q) => UNCHANGED <<ladderRole, ladderStatus, ladderAssigned, ladderLocked>>
    BY DEF Writes, Ladder!CreateRole, Ladder!UpdateRole, Ladder!DeleteRole
  <2> QED BY <2>2, <2>3, <2>4, <2>5, LadderStepKinds
<1> QED BY <1>1, <1>2, TypesHold, PTL DEF Ladder!Spec

-----------------------------------------------------------------------------
(* Where permissions come from. *)

\* Nobody gains a permission in a step that gives no role and rewrites none.
LEMMA NothingGained ==
    ASSUME \A u \in LadderUsers : ladderAssigned'[u] \subseteq ladderAssigned[u], ladderCustom' = ladderCustom
    PROVE  Ladder!Granted
<1>1. \A u \in LadderUsers : \A p : p \in Ladder!Held(u)' => p \in Ladder!Held(u)
  BY HeldByRole, HeldByRoleNext, RolesUnchanged
<1> QED BY <1>1 DEF Ladder!Granted

\* An assignment gives what the actor may hand on.
LEMMA DelegationGrants ==
    ASSUME Ladder!AccessAssumption, Types, NEW q \in LadderRequests, NEW u \in LadderUsers, Assigns(q, u)
    PROVE  Ladder!Granted
<1>1. PICK rs \in SUBSET (Ladder!Ranks \cup LadderCustomRoles) :
          Assignment(q, u, rs) /\ Ladder!MayDelegate(ladderRequest[q].actor, rs)
  BY AssignsLive
<1>2. PICK permission \in Ladder!Permissions : Ladder!Authorized(q, permission) BY TargetOnly
<1>3. /\ ladderRequest[q].actor \in LadderUsers
      /\ Ladder!FinishedBy(ladderRequest[q].actor, permission)
  BY <1>1, <1>2, ActorFinishes DEF Assignment
<1>4. /\ ladderAssigned'[u] = rs /\ ladderCustom' = ladderCustom
      /\ \A v \in LadderUsers \ {u} : ladderAssigned'[v] = ladderAssigned[v]
  BY <1>1 DEF Assignment, Ladder!SetRoles, Types
<1>5. ASSUME NEW v \in LadderUsers, NEW p \in Ladder!Held(v)' \ Ladder!Held(v)
      PROVE  v = u /\ p \in Ladder!PermissionsOf(rs)
  <2>1. PICK r \in ladderAssigned'[v] : Ladder!LiveRole(r) /\ p \in Ladder!RolePermissions(r)
    BY <1>4, <1>5, HeldByRoleNext, RolesUnchanged
  <2>2. r \notin ladderAssigned[v] BY <1>5, <2>1, HeldByRole
  <2>3. v = u BY <1>4, <2>1, <2>2
  <2> QED BY <1>4, <2>1, <2>3 DEF Ladder!PermissionsOf
<1>6. \A p \in Ladder!PermissionsOf(rs) :
          Ladder!IsSystemAdmin(ladderRequest[q].actor) \/ p \in Ladder!Held(ladderRequest[q].actor) \ Ladder!Protected
  BY <1>1 DEF Ladder!MayDelegate
<1> QED BY <1>3, <1>5, <1>6 DEF Ladder!Granted

\* The platform administrator gives system roles, the portal only as a system
\* administrator.
LEMMA PlatformGrants ==
    ASSUME Ladder!AccessAssumption, Types, NEW q \in LadderRequests, NEW u \in LadderUsers, NEW r \in Ladder!Ranks,
           Ladder!ReplaceSystemRole(q, u, r)
    PROVE  Ladder!Granted
<1>1. Ladder!Authorized(q, "admin_portal:access") /\ Ladder!Finish(q) /\ "admin_portal:access" \in Ladder!Permissions
  BY DEF Ladder!ReplaceSystemRole, Ladder!Permissions
<1>2. /\ ladderRequest[q].actor \in LadderUsers
      /\ Ladder!FinishedBy(ladderRequest[q].actor, "admin_portal:access")
  BY <1>1, ActorFinishes
<1>3. /\ ladderAssigned'[u] = {r} /\ ladderCustom' = ladderCustom
      /\ \A v \in LadderUsers \ {u} : ladderAssigned'[v] = ladderAssigned[v]
  BY DEF Ladder!ReplaceSystemRole, Ladder!SetRoles, Types
<1>4. ASSUME NEW v \in LadderUsers, NEW p \in Ladder!Held(v)' \ Ladder!Held(v)
      PROVE  p \in Ladder!SystemPermissions(r)
  <2>1. PICK s \in ladderAssigned'[v] : Ladder!LiveRole(s) /\ p \in Ladder!RolePermissions(s)
    BY <1>3, <1>4, HeldByRoleNext, RolesUnchanged
  <2>2. s \notin ladderAssigned[v] BY <1>4, <2>1, HeldByRole
  <2>3. s = r BY <1>3, <2>1, <2>2
  <2> QED BY <2>1, <2>3 DEF Ladder!RolePermissions
<1>5. r # "SUPER_ADMIN" => "admin_portal:access" \notin Ladder!SystemPermissions(r)
  BY DEF Ladder!SystemPermissions, Ladder!Ranks, Ladder!Permissions
<1>6. r = "SUPER_ADMIN" => Ladder!IsSystemAdmin(ladderRequest[q].actor)
  BY DEF Ladder!ReplaceSystemRole
<1> QED BY <1>1, <1>2, <1>4, <1>5, <1>6 DEF Ladder!Granted

\* A custom role that comes to be is held by nobody, one that is deleted
\* neither, and one that is rewritten gives what its author may grant.
LEMMA WritesGrant ==
    ASSUME Sound, NEW q \in LadderRequests, Writes(q)
    PROVE  Ladder!Granted
<1> USE DEF Sound
<1>1. PICK r \in LadderCustomRoles : \/ \E ps \in LadderPermissionSets : Ladder!CreateRole(q, r, ps) \/ Ladder!UpdateRole(q, r, ps)
                                     \/ Ladder!DeleteRole(q, r)
  BY DEF Writes
<1>2. /\ ladderAssigned' = ladderAssigned /\ Ladder!Finish(q) /\ Ladder!Authorized(q, "roles:write")
      /\ "roles:write" \in Ladder!Permissions
  BY <1>1 DEF Ladder!CreateRole, Ladder!UpdateRole, Ladder!DeleteRole, Ladder!Permissions
<1>3. /\ ladderRequest[q].actor \in LadderUsers
      /\ Ladder!FinishedBy(ladderRequest[q].actor, "roles:write")
  BY <1>2, ActorFinishes
<1>4. \A c \in LadderCustomRoles \ {r} : ladderCustom'[c] = ladderCustom[c]
  BY <1>1 DEF Ladder!CreateRole, Ladder!UpdateRole, Ladder!DeleteRole, Types
<1>5. ASSUME NEW v \in LadderUsers, NEW p \in Ladder!Held(v)' \ Ladder!Held(v)
      PROVE  Ladder!IsSystemAdmin(ladderRequest[q].actor) \/ p \in Ladder!Held(ladderRequest[q].actor) \ Ladder!Protected
  <2>1. PICK s \in ladderAssigned[v] : Ladder!LiveRole(s)' /\ p \in Ladder!RolePermissions(s)'
    BY <1>2, <1>5, HeldByRoleNext
  <2>2. Ladder!LiveRole(s) BY DEF Ladder!AssignedRolesLive
  <2>3. p \notin Ladder!RolePermissions(s) BY <1>5, <2>2, HeldByRole
  <2>4. s \notin Ladder!Ranks BY <2>1, <2>3 DEF Ladder!RolePermissions
  <2>5. s = r BY <1>4, <2>1, <2>2, <2>3, <2>4 DEF Ladder!RolePermissions, Ladder!LiveRole
  <2>6. ladderCustom[r].state = "live" /\ p \in ladderCustom'[r].permissions
    BY <2>1, <2>2, <2>4, <2>5 DEF Ladder!LiveRole, Ladder!RolePermissions
  <2>7. ~Ladder!DeleteRole(q, r) BY <2>5 DEF Ladder!DeleteRole
  <2>8. PICK ps \in LadderPermissionSets : Ladder!UpdateRole(q, r, ps)
    BY <1>1, <2>6, <2>7 DEF Ladder!CreateRole
  <2>9. p \in ps
    <3>1. PICK x : x = [ladderCustom[r] EXCEPT !.permissions = ps] OBVIOUS
    <3>2. ladderCustom' = [ladderCustom EXCEPT ![r] = x] BY <2>8, <3>1 DEF Ladder!UpdateRole
    <3>3. x.permissions = ps BY <3>1 DEF Types
    <3> QED BY <2>6, <3>2, <3>3 DEF Types
  <2> QED BY <2>8, <2>9 DEF Ladder!UpdateRole, Ladder!MayGrant
<1> QED BY <1>2, <1>3, <1>5 DEF Ladder!Granted

LEMMA NextGranted ==
    ASSUME Ladder!AccessAssumption, Sound, [Ladder!Next]_(Ladder!vars) PROVE Ladder!Granted
<1> Types BY DEF Sound
<1>1. CASE Quiet \/ UNCHANGED Ladder!vars
  <2>1. ladderAssigned' = ladderAssigned /\ ladderCustom' = ladderCustom
    BY <1>1 DEF Quiet, Ladder!Login, Ladder!SessionEnds, Ladder!Refused, Ladder!Begin, Ladder!vars
  <2> QED BY <2>1, NothingGained
<1>2. ASSUME NEW q \in LadderRequests, NEW u \in LadderUsers, Restates(q, u) PROVE Ladder!Granted
  <2>1. ladderAssigned' = ladderAssigned /\ ladderCustom' = ladderCustom
    BY <1>2 DEF Restates, Ladder!SetSuspended, Ladder!AdminSuspend, Ladder!AdminActivate, Ladder!LockUser, Ladder!UnlockUser
  <2> QED BY <2>1, NothingGained
<1>3. ASSUME NEW q \in LadderRequests, NEW u \in LadderUsers, Ladder!Deactivate(q, u) PROVE Ladder!Granted
  <2>1. ladderCustom' = ladderCustom /\ \A v \in LadderUsers : ladderAssigned'[v] \subseteq ladderAssigned[v]
    BY <1>3 DEF Ladder!Deactivate, Types
  <2> QED BY <2>1, NothingGained
<1> QED BY <1>1, <1>2, <1>3, LadderStepKinds, DelegationGrants, PlatformGrants, WritesGrant

\* Whoever gains a permission gains it from an account that is entitled at
\* that moment and may hand it on, for any number of users and requests.
THEOREM GrantsAreHeld == ASSUME Ladder!AccessAssumption PROVE Ladder!Spec => Ladder!GrantsComeFromHolders
<1>1. Sound /\ [Ladder!Next]_(Ladder!vars) => [Ladder!Granted]_(Ladder!vars) BY NextGranted
<1> QED BY <1>1, SoundHolds, PTL DEF Ladder!Spec, Ladder!GrantsComeFromHolders

-----------------------------------------------------------------------------
(* Logins. *)

LEMMA LoginCardinality == \A S : Login!Cardinality(S) = Cardinality(S)
BY DEF Login!Cardinality, Cardinality

(* The account and the requests. *)

\* The parts of an account.
LEMMA UserFields ==
    ASSUME NEW u \in Login!User
    PROVE  /\ u.active \in BOOLEAN /\ u.password \in LoginPasswords \cup {None}
           /\ u.pin \in LoginPins /\ u.email \in LoginEmails
           /\ u.attempts \in [Login!Counters -> Nat] /\ u.locked \in [Login!Counters -> BOOLEAN]
           /\ u.grants \in SUBSET Login!Methods
BY DEF Login!User

\* What leaves the credentials of an account alone.
SameCredentials(u, v) ==
    /\ v.active = u.active /\ v.password = u.password /\ v.pin = u.pin
    /\ v.email = u.email /\ v.grants = u.grants

LEMMA ClearedUser ==
    ASSUME NEW u \in Login!User, NEW c \in Login!Counters
    PROVE  /\ Login!Cleared(u, c) \in Login!User
           /\ SameCredentials(u, Login!Cleared(u, c))
           /\ Login!Cleared(u, c).attempts = [u.attempts EXCEPT ![c] = 0]
           /\ Login!Cleared(u, c).locked = [u.locked EXCEPT ![c] = FALSE]
<1>1. PICK a \in [Login!Counters -> Nat] : a = [u.attempts EXCEPT ![c] = 0] BY DEF Login!User
<1>2. PICK l \in [Login!Counters -> BOOLEAN] : l = [u.locked EXCEPT ![c] = FALSE] BY DEF Login!User
<1>3. PICK x : x = [u EXCEPT !.attempts = a, !.locked = l] OBVIOUS
<1>4. Login!Cleared(u, c) = x BY <1>1, <1>2, <1>3 DEF Login!Cleared
<1>5. x \in Login!User BY <1>3 DEF Login!User
<1>6. x.attempts = a /\ x.locked = l /\ SameCredentials(u, x)
  BY <1>3 DEF Login!User, SameCredentials
<1> QED BY <1>1, <1>2, <1>4, <1>5, <1>6

LEMMA FailedUser ==
    ASSUME Login!LoginAssumption, NEW u \in Login!User, NEW c \in Login!Counters
    PROVE  /\ Login!Failed(u, c) \in Login!User
           /\ SameCredentials(u, Login!Failed(u, c))
           /\ Login!Failed(u, c).attempts = [u.attempts EXCEPT ![c] = u.attempts[c] + 1]
           /\ Login!Failed(u, c).locked[c] <=> u.attempts[c] + 1 >= LoginMaxTries
           /\ \A d \in Login!Counters \ {c} : Login!Failed(u, c).locked[d] = u.locked[d]
<1>1. PICK n \in Nat : n = u.attempts[c] + 1 BY DEF Login!User
<1>2. (n >= LoginMaxTries) \in BOOLEAN BY SMT DEF Login!LoginAssumption
<1>3. PICK b \in BOOLEAN : b = (n >= LoginMaxTries) BY <1>2, Zenon
<1>4. PICK a \in [Login!Counters -> Nat] : a = [u.attempts EXCEPT ![c] = n] BY DEF Login!User
<1>5. PICK l \in [Login!Counters -> BOOLEAN] : l = [u.locked EXCEPT ![c] = b] BY DEF Login!User
<1>6. PICK x : x = [u EXCEPT !.attempts = a, !.locked = l] OBVIOUS
<1>7. Login!Failed(u, c) = x
  <2>1. Login!Failed(u, c) = [u EXCEPT !.attempts[c] = n, !.locked[c] = b]
    BY <1>1, <1>3, Zenon DEF Login!Failed
  <2> QED BY <1>4, <1>5, <1>6, <2>1
<1>8. x \in Login!User BY <1>6 DEF Login!User
<1>9. x.attempts = a /\ x.locked = l /\ SameCredentials(u, x)
  BY <1>6 DEF Login!User, SameCredentials
<1>10. l[c] = b /\ \A d \in Login!Counters \ {c} : l[d] = u.locked[d]
  BY <1>5 DEF Login!User
<1>11. l[c] <=> u.attempts[c] + 1 >= LoginMaxTries
  BY <1>1, <1>3, <1>10, Zenon
<1> QED BY <1>1, <1>4, <1>7, <1>8, <1>9, <1>10, <1>11

\* Refusing a request.
LEMMA RefusedRequest ==
    ASSUME loginReq \in [LoginRequests -> Login!Request], NEW r \in LoginRequests, Login!Refuse(r)
    PROVE  /\ loginReq' \in [LoginRequests -> Login!Request]
           /\ loginReq'[r].pc = "refused"
           /\ \A x \in LoginRequests \ {r} : loginReq'[x] = loginReq[x]
<1>1. PICK q : q = [loginReq[r] EXCEPT !.pc = "refused"] OBVIOUS
<1>2. q \in Login!Request /\ q.pc = "refused" BY <1>1 DEF Login!Request
<1>3. loginReq' = [loginReq EXCEPT ![r] = q] BY <1>1 DEF Login!Refuse
<1> QED BY <1>2, <1>3

-----------------------------------------------------------------------------
(* Kinds of steps. *)

\* A login goes on without touching anything but itself.
Proceeds(r) ==
    \/ \E s \in LoginPasswords \cup LoginPins : Login!EnterPassword(r, s)
    \/ \E s \in LoginPins : Login!EnterPin(r, s)
    \/ \E a \in LoginEmails : Login!EnterEmail(r, a)
    \/ Login!ReadPin(r)
    \/ Login!Admit(r)

\* An administrator changes something and ends every session.
Cuts ==
    \/ \E p \in LoginPasswords : Login!ResetPassword(p)
    \/ \E p \in LoginPins : Login!RotateOwnPin(p) \/ Login!ResetPinAsAdmin(p)
    \/ Login!LockUser \/ Login!SuspendUser
    \/ \E a \in LoginEmails : Login!ChangeEmail(a)
    \/ \E g \in SUBSET Login!Methods : Login!ReplaceRoles(g)
    \/ Login!SuspendTenant

\* A change that ends no session.
Eases == Login!UnlockUser \/ Login!ActivateUser \/ Login!ChangeTenant \/ \E c \in Login!Counters : Login!LockEnds(c)

LEMMA LoginStepKinds ==
    ASSUME Login!Next
    PROVE  \/ \E r \in LoginRequests : Proceeds(r)
           \/ \E r \in LoginRequests : Login!PasswordAttempt(r)
           \/ \E r \in LoginRequests : Login!PinAttempt(r)
           \/ \E r \in LoginRequests : Login!Issue(r)
           \/ Cuts
           \/ Eases
           \/ \E r \in LoginRequests : Login!EndSession(r, "revoked") \/ Login!EndSession(r, "expired")
BY Zenon DEF Login!Next, Login!Login, Login!Administration, Proceeds, Cuts, Eases

LEMMA SecretsAre ==
    /\ \A s \in LoginPasswords \cup LoginPins : s \in Login!Secrets
    /\ \A a \in LoginEmails : a \in Login!Secrets
BY DEF Login!Secrets

LEMMA ProceedsRequest ==
    ASSUME Login!TypeOK, NEW r \in LoginRequests, Proceeds(r)
    PROVE  /\ loginReq' \in [LoginRequests -> Login!Request]
           /\ loginReq[r].pc # "signedIn" /\ loginReq'[r].pc # "signedIn"
           /\ \A x \in LoginRequests \ {r} : loginReq'[x] = loginReq[x]
           /\ UNCHANGED <<loginTenant, loginUser, loginSessions, loginIssued, Login!history, loginChanges>>
<1> DEFINE G == /\ loginReq' \in [LoginRequests -> Login!Request]
                /\ loginReq[r].pc # "signedIn" /\ loginReq'[r].pc # "signedIn"
                /\ \A x \in LoginRequests \ {r} : loginReq'[x] = loginReq[x]
<1>0. UNCHANGED <<loginTenant, loginUser, loginSessions, loginIssued, Login!history, loginChanges>>
  BY DEF Proceeds, Login!EnterPassword, Login!EnterPin, Login!EnterEmail, Login!ReadPin, Login!Admit
<1>1. ASSUME NEW q \in Login!Request, q.pc # "signedIn", loginReq[r].pc # "signedIn",
             loginReq' = [loginReq EXCEPT ![r] = q]
      PROVE  G
  BY <1>1 DEF Login!TypeOK
<1>2. ASSUME Login!Refuse(r), loginReq[r].pc # "signedIn" PROVE G
  BY <1>2, RefusedRequest DEF Login!TypeOK
<1>3. ASSUME NEW s \in LoginPasswords \cup LoginPins, Login!EnterPassword(r, s) PROVE G
  <2>1. /\ [pc |-> "attempt", method |-> "USERNAME_PASSWORD", secret |-> s, proof |-> None] \in Login!Request
        /\ [pc |-> "verifyPin", method |-> "USERNAME_PIN", secret |-> s, proof |-> None] \in Login!Request
    BY SecretsAre DEF Login!Request, Login!Methods
  <2> HIDE DEF G
  <2> QED BY <1>1, <1>2, <1>3, <2>1 DEF Login!EnterPassword
<1>4. ASSUME NEW s \in LoginPins, Login!EnterPin(r, s) PROVE G
  <2>1. [pc |-> "verifyPin", method |-> "USERNAME_PIN", secret |-> s, proof |-> None] \in Login!Request
    BY SecretsAre DEF Login!Request, Login!Methods
  <2> HIDE DEF G
  <2> QED BY <1>1, <1>4, <2>1 DEF Login!EnterPin
<1>5. ASSUME NEW a \in LoginEmails, Login!EnterEmail(r, a) PROVE G
  <2>1. [pc |-> "authenticated", method |-> "EMAIL_OTP", secret |-> a, proof |-> a] \in Login!Request
    BY SecretsAre DEF Login!Request, Login!Methods
  <2> HIDE DEF G
  <2> QED BY <1>1, <1>2, <1>5, <2>1 DEF Login!EnterEmail
<1>6. ASSUME Login!ReadPin(r) PROVE G
  <2>1. PICK q : q = [loginReq[r] EXCEPT !.pc = "pinAttempt", !.proof = loginUser.pin] OBVIOUS
  <2>2. loginUser.pin \in Login!Secrets BY SecretsAre, UserFields DEF Login!TypeOK
  <2>3. q \in Login!Request /\ q.pc # "signedIn" BY <2>1, <2>2 DEF Login!TypeOK, Login!Request
  <2>4. loginReq[r].pc # "signedIn" /\ (Login!Refuse(r) \/ loginReq' = [loginReq EXCEPT ![r] = q])
    BY <1>6, <2>1 DEF Login!ReadPin
  <2> HIDE DEF G
  <2> QED BY <1>1, <1>2, <2>3, <2>4
<1>7. ASSUME Login!Admit(r) PROVE G
  <2>1. PICK q : q = [loginReq[r] EXCEPT !.pc = "admitted"] OBVIOUS
  <2>2. q \in Login!Request /\ q.pc # "signedIn" BY <2>1 DEF Login!TypeOK, Login!Request
  <2>3. loginReq[r].pc # "signedIn" /\ (Login!Refuse(r) \/ loginReq' = [loginReq EXCEPT ![r] = q])
    BY <1>7, <2>1 DEF Login!Admit
  <2> HIDE DEF G
  <2> QED BY <1>1, <1>2, <2>2, <2>3
<1> QED
  <2>1. G
    <3> HIDE DEF G
    <3> QED BY <1>3, <1>4, <1>5, <1>6, <1>7 DEF Proceeds
  <2> QED BY <1>0, <2>1

\* One guess is refused unjudged, counted or accepted.
LEMMA Judged ==
    ASSUME Login!LoginAssumption, Login!TypeOK, NEW r \in LoginRequests, NEW c \in Login!Counters, NEW right,
           NEW proof \in Login!Secrets, Login!Judge(r, c, right, proof), loginReq[r].pc # "signedIn"
    PROVE  /\ loginReq' \in [LoginRequests -> Login!Request]
           /\ loginReq'[r].pc \in {"refused", "authenticated"}
           /\ \A x \in LoginRequests \ {r} : loginReq'[x] = loginReq[x]
           /\ loginUser' \in Login!User /\ SameCredentials(loginUser, loginUser')
           /\ loginWrong' \in [Login!Counters -> Nat] /\ loginLapsed' \in [Login!Counters -> Nat]
           /\ \/ loginUser' = loginUser /\ UNCHANGED Login!history
              \/ /\ ~loginUser.locked[c] /\ ~right /\ loginReq'[r].pc = "refused"
                 /\ loginUser' = Login!Failed(loginUser, c) /\ loginLapsed' = loginLapsed
                 /\ loginWrong' = [loginWrong EXCEPT ![c] = loginWrong[c] + 1]
              \/ loginUser' = Login!Cleared(loginUser, c) /\ Login!Forget({c})
<1>1. CASE loginUser.locked[c] /\ Login!Refuse(r) /\ UNCHANGED <<loginUser, Login!history>>
  BY <1>1, RefusedRequest DEF Login!TypeOK, SameCredentials, Login!history
<1>2. CASE /\ ~loginUser.locked[c] /\ ~right /\ loginUser' = Login!Failed(loginUser, c)
           /\ loginWrong' = [loginWrong EXCEPT ![c] = @ + 1] /\ UNCHANGED loginLapsed /\ Login!Refuse(r)
  <2>1. loginWrong' \in [Login!Counters -> Nat] /\ loginWrong' = [loginWrong EXCEPT ![c] = loginWrong[c] + 1]
    BY <1>2 DEF Login!TypeOK
  <2> QED BY <1>2, <2>1, RefusedRequest, FailedUser DEF Login!TypeOK
<1>3. CASE /\ ~loginUser.locked[c] /\ right /\ loginUser' = Login!Cleared(loginUser, c) /\ Login!Forget({c})
           /\ loginReq' = [loginReq EXCEPT ![r].pc = "authenticated", ![r].proof = proof]
  <2>1. PICK q : q = [loginReq[r] EXCEPT !.pc = "authenticated", !.proof = proof] OBVIOUS
  <2>2. q \in Login!Request /\ q.pc = "authenticated" BY <2>1 DEF Login!TypeOK, Login!Request
  <2>3. loginReq' = [loginReq EXCEPT ![r] = q] BY <1>3, <2>1 DEF Login!TypeOK
  <2>4. loginWrong' \in [Login!Counters -> Nat] /\ loginLapsed' \in [Login!Counters -> Nat]
    BY <1>3 DEF Login!Forget, Login!TypeOK
  <2>5. /\ loginReq' \in [LoginRequests -> Login!Request] /\ loginReq'[r] = q
        /\ \A x \in LoginRequests \ {r} : loginReq'[x] = loginReq[x]
    BY <2>2, <2>3 DEF Login!TypeOK
  <2> QED BY <1>3, <2>2, <2>4, <2>5, ClearedUser DEF Login!TypeOK
<1> QED BY <1>1, <1>2, <1>3 DEF Login!Judge

\* An attempt changes the request, the counter it is about and nothing else.
LEMMA Attempts ==
    ASSUME Login!LoginAssumption, Login!TypeOK, NEW r \in LoginRequests, Login!PasswordAttempt(r) \/ Login!PinAttempt(r)
    PROVE  /\ loginReq' \in [LoginRequests -> Login!Request]
           /\ loginReq[r].pc # "signedIn" /\ loginReq'[r].pc # "signedIn"
           /\ \A x \in LoginRequests \ {r} : loginReq'[x] = loginReq[x]
           /\ loginUser' \in Login!User /\ SameCredentials(loginUser, loginUser')
           /\ loginWrong' \in [Login!Counters -> Nat] /\ loginLapsed' \in [Login!Counters -> Nat]
           /\ UNCHANGED <<loginTenant, loginSessions, loginIssued, loginChanges>>
           /\ \/ loginUser' = loginUser /\ UNCHANGED Login!history
              \/ \E c \in Login!Counters :
                    \/ /\ ~loginUser.locked[c] /\ loginUser' = Login!Failed(loginUser, c) /\ loginLapsed' = loginLapsed
                       /\ loginWrong' = [loginWrong EXCEPT ![c] = loginWrong[c] + 1]
                       /\ c = "pin" => /\ loginReq[r].pc = "pinAttempt" /\ loginReq'[r].pc = "refused"
                                       /\ loginReq[r].proof = loginUser.pin /\ loginReq[r].secret # loginUser.pin
                    \/ loginUser' = Login!Cleared(loginUser, c) /\ Login!Forget({c})
<1>0. UNCHANGED <<loginTenant, loginSessions, loginIssued, loginChanges>> /\ loginReq[r].pc \in {"attempt", "pinAttempt"}
  BY DEF Login!PasswordAttempt, Login!PinAttempt
<1>1. CASE Login!Refuse(r) /\ UNCHANGED <<loginUser, Login!history>>
  BY <1>0, <1>1, RefusedRequest DEF Login!TypeOK, SameCredentials, Login!history
<1>2. CASE Login!PasswordAttempt(r) /\ ~(Login!Refuse(r) /\ UNCHANGED <<loginUser, Login!history>>)
  <2>1. /\ loginUser.password # None
        /\ Login!Judge(r, "password", loginReq[r].secret = loginUser.password, loginUser.password)
    BY <1>2 DEF Login!PasswordAttempt
  <2>2. loginUser.password \in Login!Secrets /\ "password" \in Login!Counters
    BY <2>1, UserFields, SecretsAre DEF Login!TypeOK, Login!Counters
  <2>3. /\ loginReq' \in [LoginRequests -> Login!Request]
        /\ loginReq'[r].pc \in {"refused", "authenticated"}
        /\ \A x \in LoginRequests \ {r} : loginReq'[x] = loginReq[x]
        /\ loginUser' \in Login!User /\ SameCredentials(loginUser, loginUser')
        /\ loginWrong' \in [Login!Counters -> Nat] /\ loginLapsed' \in [Login!Counters -> Nat]
    BY <1>0, <2>1, <2>2, Judged
  <2>4. \/ loginUser' = loginUser /\ UNCHANGED Login!history
        \/ /\ ~loginUser.locked["password"] /\ loginUser' = Login!Failed(loginUser, "password") /\ loginLapsed' = loginLapsed
           /\ loginWrong' = [loginWrong EXCEPT !["password"] = loginWrong["password"] + 1]
        \/ loginUser' = Login!Cleared(loginUser, "password") /\ Login!Forget({"password"})
    BY <1>0, <2>1, <2>2, Judged
  <2> QED BY <1>0, <2>2, <2>3, <2>4
<1>3. CASE Login!PinAttempt(r) /\ ~(Login!Refuse(r) /\ UNCHANGED <<loginUser, Login!history>>)
  <2>1. /\ loginUser.pin = loginReq[r].proof /\ loginReq[r].pc = "pinAttempt"
        /\ Login!Judge(r, "pin", loginReq[r].secret = loginReq[r].proof, loginReq[r].proof)
    BY <1>3 DEF Login!PinAttempt
  <2>2. loginReq[r].proof \in Login!Secrets /\ "pin" \in Login!Counters
    BY <2>1, UserFields, SecretsAre DEF Login!TypeOK, Login!Counters
  <2>3. /\ loginReq' \in [LoginRequests -> Login!Request]
        /\ loginReq'[r].pc \in {"refused", "authenticated"}
        /\ \A x \in LoginRequests \ {r} : loginReq'[x] = loginReq[x]
        /\ loginUser' \in Login!User /\ SameCredentials(loginUser, loginUser')
        /\ loginWrong' \in [Login!Counters -> Nat] /\ loginLapsed' \in [Login!Counters -> Nat]
    BY <1>0, <2>1, <2>2, Judged
  <2>4. \/ loginUser' = loginUser /\ UNCHANGED Login!history
        \/ /\ ~loginUser.locked["pin"] /\ loginUser' = Login!Failed(loginUser, "pin") /\ loginLapsed' = loginLapsed
           /\ loginWrong' = [loginWrong EXCEPT !["pin"] = loginWrong["pin"] + 1]
           /\ loginReq[r].secret # loginReq[r].proof /\ loginReq'[r].pc = "refused"
        \/ loginUser' = Login!Cleared(loginUser, "pin") /\ Login!Forget({"pin"})
    BY <1>0, <2>1, <2>2, Judged
  <2> QED BY <1>0, <2>1, <2>2, <2>3, <2>4
<1> QED BY <1>1, <1>2, <1>3

-----------------------------------------------------------------------------
(* Types. *)

LEMMA SessionEnds ==
    ASSUME Login!TypeOK, NEW r \in LoginRequests, NEW s \in {"revoked", "expired"},
           loginSessions' = [loginSessions EXCEPT ![r].state = s]
    PROVE  /\ loginSessions' \in [LoginRequests -> Login!Session]
           /\ loginSessions'[r].state = s /\ loginSessions'[r].createdAt = loginSessions[r].createdAt
           /\ \A x \in LoginRequests \ {r} : loginSessions'[x] = loginSessions[x]
<1>1. PICK t : t = [loginSessions[r] EXCEPT !.state = s] OBVIOUS
<1>2. t \in Login!Session /\ t.state = s /\ t.createdAt = loginSessions[r].createdAt
  BY <1>1 DEF Login!TypeOK, Login!Session
<1>3. loginSessions' = [loginSessions EXCEPT ![r] = t] BY <1>1
<1> QED BY <1>2, <1>3 DEF Login!TypeOK

LEMMA LoginAllRevoked ==
    ASSUME Login!TypeOK, Login!RevokeAll
    PROVE  /\ loginSessions' \in [LoginRequests -> Login!Session] /\ loginIssued' = loginIssued
           /\ \A x \in LoginRequests : /\ loginSessions'[x].state # "live"
                                       /\ loginSessions'[x].createdAt = loginSessions[x].createdAt
                                       /\ (loginSessions'[x].state = "none") <=> (loginSessions[x].state = "none")
<1>1. ASSUME NEW x \in LoginRequests
      PROVE  /\ Login!Revoked(loginSessions[x]) \in Login!Session
             /\ Login!Revoked(loginSessions[x]).state # "live"
             /\ Login!Revoked(loginSessions[x]).createdAt = loginSessions[x].createdAt
             /\ (Login!Revoked(loginSessions[x]).state = "none") <=> (loginSessions[x].state = "none")
  <2>1. loginSessions[x] \in Login!Session BY DEF Login!TypeOK
  <2>2. PICK t : t = [loginSessions[x] EXCEPT !.state = "revoked"] OBVIOUS
  <2>3. t \in Login!Session /\ t.state = "revoked" /\ t.createdAt = loginSessions[x].createdAt
    BY <2>1, <2>2 DEF Login!Session
  <2>4. CASE Login!Live(loginSessions[x])
    <3>1. Login!Revoked(loginSessions[x]) = t BY <2>2, <2>4 DEF Login!Revoked
    <3> QED BY <2>3, <2>4, <3>1 DEF Login!Live
  <2>5. CASE ~Login!Live(loginSessions[x])
    <3>1. Login!Revoked(loginSessions[x]) = loginSessions[x] BY <2>5 DEF Login!Revoked
    <3> QED BY <2>1, <2>5, <3>1 DEF Login!Live
  <2> QED BY <2>4, <2>5
<1>2. loginSessions' = [x \in LoginRequests |-> Login!Revoked(loginSessions[x])] /\ loginIssued' = loginIssued
  BY DEF Login!RevokeAll
<1> HIDE DEF Login!Revoked
<1> QED BY <1>1, <1>2

LEMMA ForgetTypes ==
    ASSUME Login!TypeOK, NEW cs \in SUBSET Login!Counters, Login!Forget(cs)
    PROVE  /\ loginWrong' \in [Login!Counters -> Nat] /\ loginLapsed' \in [Login!Counters -> Nat]
           /\ \A c \in Login!Counters : /\ loginWrong'[c] = (IF c \in cs THEN 0 ELSE loginWrong[c])
                                        /\ loginLapsed'[c] = (IF c \in cs THEN 0 ELSE loginLapsed[c])
BY DEF Login!TypeOK, Login!Forget

LEMMA ChangeTypes ==
    ASSUME Login!LoginAssumption, Login!TypeOK, Login!Change PROVE loginChanges' \in 0..LoginMaxChanges
BY DEF Login!LoginAssumption, Login!TypeOK, Login!Change

\* The session a login is issued.
Issued(r) ==
    /\ loginReq[r].pc = "admitted"
    /\ loginTenant.open /\ loginUser.active /\ Login!ProofHolds(r)
    /\ loginReq' = [loginReq EXCEPT ![r].pc = "signedIn"]
    /\ loginIssued' = loginIssued + 1
    /\ UNCHANGED <<loginTenant, loginChanges>>
    /\ \/ loginReq[r].method = "USERNAME_PASSWORD" /\ UNCHANGED <<loginUser, Login!history>>
       \/ loginUser' = Login!Cleared(loginUser, "password") /\ Login!Forget({"password"})

LEMMA IssueKinds ==
    ASSUME Login!TypeOK, NEW r \in LoginRequests, Login!Issue(r)
    PROVE  \/ /\ loginReq[r].pc = "admitted" /\ Login!Refuse(r)
              /\ UNCHANGED <<loginTenant, loginUser, loginSessions, loginIssued, Login!history, loginChanges>>
           \/ /\ Issued(r)
              /\ \E s \in Login!Session :
                    /\ s.state = "live" /\ s.method = loginReq[r].method /\ s.proof = loginReq[r].proof
                    /\ s.createdAt = loginIssued + 1
                    /\ loginSessions' = [x \in LoginRequests |-> IF x = r THEN s
                                             ELSE IF x \in Login!Kept THEN loginSessions[x] ELSE Login!NoSession]
<1>1. PICK s : s = [state |-> "live", method |-> loginReq[r].method, proof |-> loginReq[r].proof,
                    createdAt |-> loginIssued + 1]
  OBVIOUS
<1>2. /\ s \in Login!Session /\ s.state = "live" /\ s.method = loginReq[r].method
      /\ s.proof = loginReq[r].proof /\ s.createdAt = loginIssued + 1
  BY <1>1 DEF Login!TypeOK, Login!Session, Login!Request
<1>3. \/ /\ loginReq[r].pc = "admitted" /\ Login!Refuse(r)
         /\ UNCHANGED <<loginTenant, loginUser, loginSessions, loginIssued, Login!history, loginChanges>>
      \/ /\ Issued(r)
         /\ loginSessions' = [x \in LoginRequests |-> IF x = r THEN s
                                  ELSE IF x \in Login!Kept THEN loginSessions[x] ELSE Login!NoSession]
  BY <1>1 DEF Login!Issue, Issued
<1> QED BY <1>2, <1>3

LEMMA SignedIn ==
    ASSUME Login!TypeOK, NEW r \in LoginRequests, Issued(r)
    PROVE  /\ loginReq' \in [LoginRequests -> Login!Request]
           /\ loginReq'[r].pc = "signedIn"
           /\ \A x \in LoginRequests \ {r} : loginReq'[x] = loginReq[x]
           /\ loginUser' \in Login!User /\ SameCredentials(loginUser, loginUser')
           /\ loginWrong' \in [Login!Counters -> Nat] /\ loginLapsed' \in [Login!Counters -> Nat]
<1>1. PICK q : q = [loginReq[r] EXCEPT !.pc = "signedIn"] OBVIOUS
<1>2. q \in Login!Request /\ q.pc = "signedIn" BY <1>1 DEF Login!TypeOK, Login!Request
<1>3. loginReq' = [loginReq EXCEPT ![r] = q] BY <1>1 DEF Issued
<1>4. /\ loginReq' \in [LoginRequests -> Login!Request] /\ loginReq'[r] = q
      /\ \A x \in LoginRequests \ {r} : loginReq'[x] = loginReq[x]
  BY <1>2, <1>3 DEF Login!TypeOK
<1>5. "password" \in Login!Counters /\ {"password"} \in SUBSET Login!Counters BY DEF Login!Counters
<1>6. CASE UNCHANGED <<loginUser, Login!history>>
  BY <1>2, <1>4, <1>6 DEF Login!TypeOK, Login!history, SameCredentials
<1>7. CASE loginUser' = Login!Cleared(loginUser, "password") /\ Login!Forget({"password"})
  BY <1>2, <1>4, <1>5, <1>7, ClearedUser, ForgetTypes DEF Login!TypeOK
<1> QED BY <1>6, <1>7 DEF Issued

\* Administrators replace one thing of an account.
LEMMA CutsTypes ==
    ASSUME Login!LoginAssumption, Login!TypeOK, Cuts
    PROVE  /\ Login!TypeOK' /\ Login!RevokeAll /\ loginReq' = loginReq
<1>0. Login!RevokeAll /\ loginReq' = loginReq /\ Login!Change
  BY DEF Cuts, Login!ResetPassword, Login!RotateOwnPin, Login!ResetPinAsAdmin, Login!LockUser, Login!SuspendUser, Login!ChangeEmail,
         Login!ReplaceRoles, Login!SuspendTenant
<1>1. /\ loginSessions' \in [LoginRequests -> Login!Session] /\ loginIssued' \in Nat /\ loginChanges' \in 0..LoginMaxChanges
      /\ loginReq' \in [LoginRequests -> Login!Request]
  BY <1>0, LoginAllRevoked, ChangeTypes DEF Login!TypeOK
<1>2. ASSUME loginTenant' \in [open : BOOLEAN, sso : BOOLEAN], loginUser' \in Login!User,
             loginWrong' \in [Login!Counters -> Nat], loginLapsed' \in [Login!Counters -> Nat]
      PROVE  Login!TypeOK'
  BY <1>1, <1>2 DEF Login!TypeOK
<1>3. "password" \in Login!Counters /\ "pin" \in Login!Counters BY DEF Login!Counters
<1>4. ASSUME NEW p \in LoginPasswords, Login!ResetPassword(p) PROVE Login!TypeOK'
  <2>1. PICK u \in Login!User : u = Login!Cleared(loginUser, "password") BY <1>3, ClearedUser DEF Login!TypeOK
  <2>2. loginUser' = [u EXCEPT !.password = p] /\ Login!Forget({"password"}) /\ loginTenant' = loginTenant
    BY <1>4, <2>1 DEF Login!ResetPassword
  <2>3. loginUser' \in Login!User BY <2>2 DEF Login!User
  <2>4. loginWrong' \in [Login!Counters -> Nat] /\ loginLapsed' \in [Login!Counters -> Nat]
    BY <1>3, <2>2, ForgetTypes
  <2> QED BY <1>2, <2>2, <2>3, <2>4 DEF Login!TypeOK
<1>5. ASSUME NEW p \in LoginPins, Login!RotateOwnPin(p) \/ Login!ResetPinAsAdmin(p) PROVE Login!TypeOK'
  <2>1. PICK u \in Login!User : u = Login!Cleared(loginUser, "pin") BY <1>3, ClearedUser DEF Login!TypeOK
  <2>2. loginUser' = [u EXCEPT !.pin = p] /\ Login!Forget({"pin"}) /\ loginTenant' = loginTenant
    BY <1>5, <2>1 DEF Login!RotateOwnPin, Login!ResetPinAsAdmin
  <2>3. loginUser' \in Login!User BY <2>2 DEF Login!User
  <2>4. loginWrong' \in [Login!Counters -> Nat] /\ loginLapsed' \in [Login!Counters -> Nat]
    BY <1>3, <2>2, ForgetTypes
  <2> QED BY <1>2, <2>2, <2>3, <2>4 DEF Login!TypeOK
<1>6. CASE Login!LockUser
  <2>1. PICK l \in [Login!Counters -> BOOLEAN] : l = [c \in Login!Counters |-> TRUE] OBVIOUS
  <2>2. loginUser' = [loginUser EXCEPT !.locked = l] BY <1>6, <2>1 DEF Login!LockUser
  <2>3. loginUser' \in Login!User BY <2>2 DEF Login!TypeOK, Login!User
  <2> QED BY <1>2, <1>6, <2>3 DEF Login!LockUser, Login!TypeOK, Login!history
<1>7. CASE Login!SuspendUser
  <2>1. loginUser' \in Login!User BY <1>7 DEF Login!SuspendUser, Login!TypeOK, Login!User
  <2> QED BY <1>2, <1>7, <2>1 DEF Login!SuspendUser, Login!TypeOK, Login!history
<1>8. ASSUME NEW a \in LoginEmails, Login!ChangeEmail(a) PROVE Login!TypeOK'
  <2>1. loginUser' \in Login!User BY <1>8 DEF Login!ChangeEmail, Login!TypeOK, Login!User
  <2> QED BY <1>2, <1>8, <2>1 DEF Login!ChangeEmail, Login!TypeOK, Login!history
<1>9. ASSUME NEW g \in SUBSET Login!Methods, Login!ReplaceRoles(g) PROVE Login!TypeOK'
  <2>1. loginUser' \in Login!User BY <1>9 DEF Login!ReplaceRoles, Login!TypeOK, Login!User
  <2> QED BY <1>2, <1>9, <2>1 DEF Login!ReplaceRoles, Login!TypeOK, Login!history
<1>10. CASE Login!SuspendTenant
  BY <1>2, <1>10 DEF Login!SuspendTenant, Login!TypeOK, Login!history
<1> QED BY <1>0, <1>4, <1>5, <1>6, <1>7, <1>8, <1>9, <1>10 DEF Cuts

\* The changes that end no session leave every credential as it is.
LEMMA EasesTypes ==
    ASSUME Login!LoginAssumption, Login!TypeOK, Eases
    PROVE  /\ Login!TypeOK' /\ UNCHANGED <<loginSessions, loginIssued, loginReq>>
           /\ loginUser'.password = loginUser.password /\ loginUser'.pin = loginUser.pin /\ loginUser'.email = loginUser.email
           /\ loginUser.active => loginUser'.active
           /\ loginTenant.open => loginTenant'.open
<1>0. UNCHANGED <<loginSessions, loginIssued, loginReq>> /\ Login!Change
  BY DEF Eases, Login!UnlockUser, Login!ActivateUser, Login!ChangeTenant, Login!LockEnds
<1>1. loginChanges' \in 0..LoginMaxChanges BY <1>0, ChangeTypes
<1>2. "password" \in Login!Counters /\ "pin" \in Login!Counters BY DEF Login!Counters
<1>3. CASE Login!UnlockUser
  <2>1. PICK u \in Login!User : u = Login!Cleared(loginUser, "password") /\ SameCredentials(loginUser, u)
    BY <1>2, ClearedUser DEF Login!TypeOK
  <2>2. loginUser' = Login!Cleared(u, "pin") BY <1>3, <2>1 DEF Login!UnlockUser
  <2>3. loginUser' \in Login!User /\ SameCredentials(u, loginUser') BY <1>2, <2>2, ClearedUser
  <2>4. loginWrong' \in [Login!Counters -> Nat] /\ loginLapsed' \in [Login!Counters -> Nat]
    BY <1>3, ForgetTypes DEF Login!UnlockUser
  <2> QED BY <1>0, <1>1, <1>3, <2>1, <2>3, <2>4 DEF Login!UnlockUser, Login!TypeOK, SameCredentials
<1>4. CASE Login!ActivateUser
  <2>1. loginUser' \in Login!User BY <1>4 DEF Login!ActivateUser, Login!TypeOK, Login!User
  <2>2. /\ loginUser'.password = loginUser.password /\ loginUser'.pin = loginUser.pin /\ loginUser'.email = loginUser.email
        /\ loginUser'.active
    BY <1>4 DEF Login!ActivateUser, Login!TypeOK, Login!User
  <2> QED BY <1>0, <1>1, <1>4, <2>1, <2>2 DEF Login!ActivateUser, Login!TypeOK, Login!history
<1>5. CASE Login!ChangeTenant
  <2>1. loginTenant' \in [open : BOOLEAN, sso : BOOLEAN] /\ (loginTenant.open => loginTenant'.open)
    <3>1. (~loginTenant.sso) \in BOOLEAN BY Zenon
    <3>2. PICK b \in BOOLEAN : b = ~loginTenant.sso BY <3>1, Zenon
    <3>3. loginTenant' = [loginTenant EXCEPT !.open = TRUE] \/ loginTenant' = [loginTenant EXCEPT !.sso = b]
      BY <1>5, <3>2 DEF Login!ChangeTenant
    <3> QED BY <3>3 DEF Login!TypeOK
  <2> QED BY <1>0, <1>1, <1>5, <2>1 DEF Login!ChangeTenant, Login!TypeOK, Login!history
<1>6. ASSUME NEW c \in Login!Counters, Login!LockEnds(c)
      PROVE  /\ Login!TypeOK'
             /\ loginUser'.password = loginUser.password /\ loginUser'.pin = loginUser.pin /\ loginUser'.email = loginUser.email
             /\ loginUser.active => loginUser'.active
             /\ loginTenant.open => loginTenant'.open
  <2>1. PICK l \in [Login!Counters -> BOOLEAN] : l = [loginUser.locked EXCEPT ![c] = FALSE]
    BY UserFields DEF Login!TypeOK
  <2>2. PICK u : u = [loginUser EXCEPT !.locked = l] OBVIOUS
  <2>3. loginUser' = u BY <1>6, <2>1, <2>2 DEF Login!LockEnds
  <2>4. u \in Login!User /\ SameCredentials(loginUser, u) BY <2>2 DEF Login!TypeOK, Login!User, SameCredentials
  <2>5. loginLapsed' \in [Login!Counters -> Nat] /\ loginWrong' = loginWrong /\ loginTenant' = loginTenant
    BY <1>6 DEF Login!LockEnds, Login!TypeOK
  <2> QED BY <1>0, <1>1, <2>3, <2>4, <2>5 DEF Login!TypeOK, SameCredentials
<1> QED BY <1>0, <1>3, <1>4, <1>5, <1>6 DEF Eases

LEMMA KeptTypes ==
    ASSUME Login!LoginAssumption, Login!TypeOK, NEW r \in LoginRequests, NEW s \in Login!Session
    PROVE  [x \in LoginRequests |-> IF x = r THEN s ELSE IF x \in Login!Kept THEN loginSessions[x] ELSE Login!NoSession]
               \in [LoginRequests -> Login!Session]
<1>1. Login!NoSession \in Login!Session BY DEF Login!NoSession, Login!Session
<1> QED BY <1>1 DEF Login!TypeOK

LEMMA TypesKept == ASSUME Login!LoginAssumption, Login!TypeOK, [Login!Next]_(Login!loginVars) PROVE Login!TypeOK'
<1>1. ASSUME NEW r \in LoginRequests, Proceeds(r) PROVE Login!TypeOK'
  BY <1>1, ProceedsRequest DEF Login!TypeOK, Login!history
<1>2. ASSUME NEW r \in LoginRequests, Login!PasswordAttempt(r) \/ Login!PinAttempt(r) PROVE Login!TypeOK'
  BY <1>2, Attempts DEF Login!TypeOK
<1>3. ASSUME NEW r \in LoginRequests, Login!Issue(r) PROVE Login!TypeOK'
  <2>1. CASE /\ loginReq[r].pc = "admitted" /\ Login!Refuse(r)
             /\ UNCHANGED <<loginTenant, loginUser, loginSessions, loginIssued, Login!history, loginChanges>>
    BY <2>1, RefusedRequest DEF Login!TypeOK, Login!history
  <2>2. ASSUME Issued(r), NEW s \in Login!Session,
               loginSessions' = [x \in LoginRequests |-> IF x = r THEN s
                                     ELSE IF x \in Login!Kept THEN loginSessions[x] ELSE Login!NoSession]
        PROVE  Login!TypeOK'
    <3>1. loginSessions' \in [LoginRequests -> Login!Session] BY <2>2, KeptTypes
    <3>2. loginIssued' \in Nat /\ loginTenant' = loginTenant /\ loginChanges' = loginChanges BY <2>2 DEF Issued, Login!TypeOK
    <3> QED BY <2>2, <3>1, <3>2, SignedIn DEF Login!TypeOK
  <2> QED BY <1>3, <2>1, <2>2, IssueKinds
<1>4. ASSUME NEW r \in LoginRequests, Login!EndSession(r, "revoked") \/ Login!EndSession(r, "expired") PROVE Login!TypeOK'
  <2>1. /\ \E s \in {"revoked", "expired"} : loginSessions' = [loginSessions EXCEPT ![r].state = s]
        /\ Login!Change /\ UNCHANGED <<loginTenant, loginUser, loginIssued, loginReq, Login!history>>
    BY <1>4 DEF Login!EndSession
  <2>2. loginSessions' \in [LoginRequests -> Login!Session] /\ loginChanges' \in 0..LoginMaxChanges
    BY <2>1, SessionEnds, ChangeTypes
  <2> QED BY <2>1, <2>2 DEF Login!TypeOK, Login!history
<1>5. CASE UNCHANGED Login!loginVars BY <1>5 DEF Login!loginVars, Login!TypeOK
<1> QED BY <1>1, <1>2, <1>3, <1>4, <1>5, CutsTypes, EasesTypes, LoginStepKinds

LEMMA TypesBegin == ASSUME Login!LoginAssumption, Login!Init PROVE Login!TypeOK
<1>1. /\ (CHOOSE p \in LoginPasswords : TRUE) \in LoginPasswords
      /\ (CHOOSE p \in LoginPins : TRUE) \in LoginPins
      /\ (CHOOSE a \in LoginEmails : TRUE) \in LoginEmails
  BY DEF Login!LoginAssumption
<1>2. [c \in Login!Counters |-> 0] \in [Login!Counters -> Nat] /\ [c \in Login!Counters |-> FALSE] \in [Login!Counters -> BOOLEAN]
  OBVIOUS
<1>3. loginUser \in Login!User BY <1>1, <1>2 DEF Login!Init, Login!User
<1>4. Login!NoSession \in Login!Session /\ Login!NewRequest \in Login!Request
  BY DEF Login!NoSession, Login!Session, Login!NewRequest, Login!Request
<1>5. LoginMaxChanges \in Nat BY DEF Login!LoginAssumption
<1> QED BY <1>2, <1>3, <1>4, <1>5 DEF Login!Init, Login!TypeOK

\* Every variable of the logins has its type, for any number of requests,
\* secrets and administrative changes.
THEOREM LoginTypeCorrect == ASSUME Login!LoginAssumption PROVE Login!Spec => []Login!TypeOK
BY TypesBegin, TypesKept, PTL DEF Login!Spec

-----------------------------------------------------------------------------
(* Live sessions are earned. *)

LEMMA EarnedKept ==
    ASSUME Login!LoginAssumption, Login!TypeOK, Login!LiveSessionIsEarned, [Login!Next]_(Login!loginVars)
    PROVE  Login!LiveSessionIsEarned'
\* The sessions that stay live are as earned as they were.
<1>1. ASSUME /\ \A x \in LoginRequests : Login!Live(loginSessions[x])' => loginSessions'[x] = loginSessions[x]
             /\ loginUser'.password = loginUser.password /\ loginUser'.pin = loginUser.pin
             /\ loginUser'.email = loginUser.email
             /\ loginUser.active => loginUser'.active
             /\ loginTenant.open => loginTenant'.open
      PROVE  Login!LiveSessionIsEarned'
  <2>1. \A x \in Login!Open' : x \in Login!Open /\ loginSessions'[x] = loginSessions[x]
    BY <1>1 DEF Login!Open, Login!Live
  <2> QED BY <1>1, <2>1 DEF Login!LiveSessionIsEarned
<1>2. ASSUME NEW r \in LoginRequests, Proceeds(r) PROVE Login!LiveSessionIsEarned'
  BY <1>1, <1>2, ProceedsRequest
<1>3. ASSUME NEW r \in LoginRequests, Login!PasswordAttempt(r) \/ Login!PinAttempt(r) PROVE Login!LiveSessionIsEarned'
  BY <1>1, <1>3, Attempts DEF SameCredentials
<1>4. ASSUME NEW r \in LoginRequests, Login!Issue(r) PROVE Login!LiveSessionIsEarned'
  <2>1. CASE UNCHANGED <<loginTenant, loginUser, loginSessions>> BY <1>1, <2>1
  <2>2. ASSUME Issued(r), NEW s \in Login!Session,
               s.method = loginReq[r].method /\ s.proof = loginReq[r].proof,
               loginSessions' = [x \in LoginRequests |-> IF x = r THEN s
                                     ELSE IF x \in Login!Kept THEN loginSessions[x] ELSE Login!NoSession]
        PROVE  Login!LiveSessionIsEarned'
    <3>1. SameCredentials(loginUser, loginUser') /\ loginTenant' = loginTenant BY <2>2, SignedIn DEF Issued
    <3>2. ~Login!Live(Login!NoSession) BY DEF Login!NoSession, Login!Live
    <3>3. \A x \in Login!Open' : x = r \/ (x \in Login!Open /\ loginSessions'[x] = loginSessions[x])
      BY LoginCardinality, <2>2, <3>2 DEF Login!Open, Login!Live, Login!Kept
    <3>4. loginSessions'[r] = s BY <2>2
    <3>5. loginTenant'.open /\ loginUser'.active BY <2>2, <3>1 DEF Issued, SameCredentials
    <3>6. \/ s.method = "USERNAME_PASSWORD" /\ s.proof = loginUser'.password
          \/ s.method = "USERNAME_PIN" /\ s.proof = loginUser'.pin
          \/ s.method = "EMAIL_OTP" /\ s.proof = loginUser'.email
      BY <2>2, <3>1 DEF Issued, Login!ProofHolds, SameCredentials
    <3>7. ASSUME NEW x \in Login!Open'
          PROVE  /\ loginSessions'[x].method = "USERNAME_PASSWORD" => loginSessions'[x].proof = loginUser'.password
                 /\ loginSessions'[x].method = "USERNAME_PIN" => loginSessions'[x].proof = loginUser'.pin
                 /\ loginSessions'[x].method = "EMAIL_OTP" => loginSessions'[x].proof = loginUser'.email
      <4>1. CASE x = r BY <3>4, <3>6, <4>1
      <4>2. CASE x \in Login!Open /\ loginSessions'[x] = loginSessions[x]
        BY <3>1, <4>2 DEF Login!LiveSessionIsEarned, SameCredentials
      <4> QED BY <3>3, <4>1, <4>2
    <3> QED BY <3>5, <3>7 DEF Login!LiveSessionIsEarned
  <2> QED BY <1>4, <2>1, <2>2, IssueKinds
<1>5. CASE Cuts
  <2>1. \A x \in LoginRequests : ~Login!Live(loginSessions[x])' BY <1>5, CutsTypes, LoginAllRevoked DEF Login!Live
  <2> QED BY <2>1 DEF Login!LiveSessionIsEarned, Login!Open
<1>6. CASE Eases BY <1>1, <1>6, EasesTypes
<1>7. ASSUME NEW r \in LoginRequests, Login!EndSession(r, "revoked") \/ Login!EndSession(r, "expired")
      PROVE  Login!LiveSessionIsEarned'
  <2>1. /\ \E s \in {"revoked", "expired"} : loginSessions' = [loginSessions EXCEPT ![r].state = s]
        /\ UNCHANGED <<loginTenant, loginUser>>
    BY <1>7 DEF Login!EndSession
  <2>2. ~Login!Live(loginSessions[r])' /\ \A x \in LoginRequests \ {r} : loginSessions'[x] = loginSessions[x]
    BY <2>1, SessionEnds DEF Login!Live
  <2> QED BY <1>1, <2>1, <2>2
<1>8. CASE UNCHANGED Login!loginVars BY <1>1, <1>8 DEF Login!loginVars
<1> QED BY <1>2, <1>3, <1>4, <1>5, <1>6, <1>7, <1>8, LoginStepKinds

\* A live session belongs to an active account of an open workspace and was
\* issued on what the account has now, whatever changes meanwhile.
THEOREM SessionsAreEarned == ASSUME Login!LoginAssumption PROVE Login!Spec => []Login!LiveSessionIsEarned
<1>1. Login!Init => Login!LiveSessionIsEarned
  BY DEF Login!Init, Login!LiveSessionIsEarned, Login!Open, Login!Live, Login!NoSession
<1> QED BY <1>1, EarnedKept, LoginTypeCorrect, PTL DEF Login!Spec

-----------------------------------------------------------------------------
(* Wrong guesses are metered. *)

\* What one counter has to do with the guesses it counts.
MeteredBy(n, w, l, locked) ==
    /\ w = n /\ w <= LoginMaxTries + l
    /\ ~locked => w < LoginMaxTries + l

Metered == \A c \in Login!Counters : MeteredBy(loginUser.attempts[c], loginWrong[c], loginLapsed[c], loginUser.locked[c])

LEMMA MeteredKept ==
    ASSUME Login!LoginAssumption, Login!TypeOK, Metered, [Login!Next]_(Login!loginVars) PROVE Metered'
<1>0. LoginMaxTries \in Nat \ {0} BY DEF Login!LoginAssumption
<1>a. /\ loginUser.attempts \in [Login!Counters -> Nat] /\ loginUser.locked \in [Login!Counters -> BOOLEAN]
      /\ loginWrong \in [Login!Counters -> Nat] /\ loginLapsed \in [Login!Counters -> Nat]
  BY UserFields DEF Login!TypeOK
<1>1. ASSUME UNCHANGED Login!history, loginUser'.attempts = loginUser.attempts,
             \A c \in Login!Counters : loginUser'.locked[c] = loginUser.locked[c] \/ loginUser'.locked[c]
      PROVE  Metered'
  BY <1>1, <1>a DEF Metered, MeteredBy, Login!history
\* A counter is cleared together with what it counted.
<1>2. ASSUME NEW cs \in SUBSET Login!Counters, Login!Forget(cs),
             \A c \in Login!Counters :
                IF c \in cs THEN loginUser'.attempts[c] = 0
                            ELSE loginUser'.attempts[c] = loginUser.attempts[c] /\ loginUser'.locked[c] = loginUser.locked[c]
      PROVE  Metered'
  <2> SUFFICES ASSUME NEW c \in Login!Counters
               PROVE  MeteredBy(loginUser'.attempts[c], loginWrong'[c], loginLapsed'[c], loginUser'.locked[c])
    BY DEF Metered, MeteredBy
  <2>1. /\ loginWrong'[c] = (IF c \in cs THEN 0 ELSE loginWrong[c])
        /\ loginLapsed'[c] = (IF c \in cs THEN 0 ELSE loginLapsed[c])
    BY <1>2, ForgetTypes
  <2>2. CASE c \in cs BY <1>0, <1>2, <2>1, <2>2 DEF MeteredBy
  <2>3. CASE c \notin cs
    <3>1. MeteredBy(loginUser.attempts[c], loginWrong[c], loginLapsed[c], loginUser.locked[c]) BY DEF Metered
    <3> QED BY <1>2, <2>1, <2>3, <3>1
  <2> QED BY <2>2, <2>3
<1>3. ASSUME NEW c \in Login!Counters, Login!Forget({c}), NEW u \in Login!User, u = Login!Cleared(loginUser, c),
             loginUser'.attempts = u.attempts, loginUser'.locked = u.locked
      PROVE  Metered'
  <2>1. /\ u.attempts = [loginUser.attempts EXCEPT ![c] = 0]
        /\ u.locked = [loginUser.locked EXCEPT ![c] = FALSE]
    BY <1>3, ClearedUser DEF Login!TypeOK
  <2>2. \A d \in Login!Counters :
                IF d \in {c} THEN loginUser'.attempts[d] = 0
                             ELSE loginUser'.attempts[d] = loginUser.attempts[d] /\ loginUser'.locked[d] = loginUser.locked[d]
    BY <1>3, <1>a, <2>1
  <2> QED BY <1>2, <1>3, <2>2
<1>4. ASSUME NEW r \in LoginRequests, Login!PasswordAttempt(r) \/ Login!PinAttempt(r) PROVE Metered'
  <2>1. CASE loginUser' = loginUser /\ UNCHANGED Login!history BY <1>1, <2>1
  <2>2. ASSUME NEW c \in Login!Counters, ~loginUser.locked[c], loginUser' = Login!Failed(loginUser, c), loginLapsed' = loginLapsed,
               loginWrong' = [loginWrong EXCEPT ![c] = loginWrong[c] + 1]
        PROVE  Metered'
    <3>1. /\ loginUser'.attempts = [loginUser.attempts EXCEPT ![c] = loginUser.attempts[c] + 1]
          /\ loginUser'.locked[c] <=> loginUser.attempts[c] + 1 >= LoginMaxTries
          /\ \A d \in Login!Counters \ {c} : loginUser'.locked[d] = loginUser.locked[d]
      BY <2>2, FailedUser DEF Login!TypeOK
    <3> SUFFICES ASSUME NEW d \in Login!Counters
                 PROVE  MeteredBy(loginUser'.attempts[d], loginWrong'[d], loginLapsed'[d], loginUser'.locked[d])
      BY DEF Metered, MeteredBy
    <3>2. MeteredBy(loginUser.attempts[d], loginWrong[d], loginLapsed[d], loginUser.locked[d]) BY DEF Metered
    <3>3. CASE d # c
      <4>1. loginUser'.attempts[d] = loginUser.attempts[d] /\ loginWrong'[d] = loginWrong[d] BY <1>a, <2>2, <3>1, <3>3
      <4> QED BY <2>2, <3>1, <3>2, <3>3, <4>1
    <3>4. CASE d = c
      <4>1. loginUser'.attempts[c] = loginUser.attempts[c] + 1 /\ loginWrong'[c] = loginWrong[c] + 1
        BY <1>a, <2>2, <3>1
      <4>2. loginWrong[c] = loginUser.attempts[c] /\ loginWrong[c] < LoginMaxTries + loginLapsed[c]
        BY <2>2, <3>2, <3>4 DEF MeteredBy
      <4>3. loginUser.attempts[c] \in Nat /\ loginLapsed[c] \in Nat BY <1>a
      <4>4. ~loginUser'.locked[c] => loginUser.attempts[c] + 1 < LoginMaxTries BY <1>0, <3>1, <4>3
      <4> QED BY <1>0, <2>2, <3>4, <4>1, <4>2, <4>3, <4>4 DEF MeteredBy
    <3> QED BY <3>3, <3>4
  <2>3. ASSUME NEW c \in Login!Counters, loginUser' = Login!Cleared(loginUser, c), Login!Forget({c}) PROVE Metered'
    BY <1>3, <2>3, ClearedUser DEF Login!TypeOK
  <2> QED BY <1>4, <2>1, <2>2, <2>3, Attempts
<1>5. ASSUME NEW r \in LoginRequests, Proceeds(r) PROVE Metered'
  BY <1>1, <1>5, ProceedsRequest
<1>6. ASSUME NEW r \in LoginRequests, Login!Issue(r) PROVE Metered'
  <2>1. \/ UNCHANGED <<loginUser, Login!history>>
        \/ loginUser' = Login!Cleared(loginUser, "password") /\ Login!Forget({"password"})
    BY <1>6, IssueKinds DEF Issued
  <2>2. "password" \in Login!Counters BY DEF Login!Counters
  <2> QED BY <1>1, <1>3, <2>1, <2>2, ClearedUser DEF Login!TypeOK
<1>7. CASE Cuts
  <2>0. "password" \in Login!Counters /\ "pin" \in Login!Counters BY DEF Login!Counters
  <2>1. ASSUME NEW p \in LoginPasswords, Login!ResetPassword(p) PROVE Metered'
    <3>1. PICK u \in Login!User : u = Login!Cleared(loginUser, "password") BY <2>0, ClearedUser DEF Login!TypeOK
    <3>2. loginUser' = [u EXCEPT !.password = p] /\ Login!Forget({"password"}) BY <2>1, <3>1 DEF Login!ResetPassword
    <3>3. loginUser'.attempts = u.attempts /\ loginUser'.locked = u.locked BY <3>2 DEF Login!User
    <3> QED BY <1>3, <2>0, <3>1, <3>2, <3>3
  <2>2. ASSUME NEW p \in LoginPins, Login!RotateOwnPin(p) \/ Login!ResetPinAsAdmin(p) PROVE Metered'
    <3>1. PICK u \in Login!User : u = Login!Cleared(loginUser, "pin") BY <2>0, ClearedUser DEF Login!TypeOK
    <3>2. loginUser' = [u EXCEPT !.pin = p] /\ Login!Forget({"pin"})
      BY <2>2, <3>1 DEF Login!RotateOwnPin, Login!ResetPinAsAdmin
    <3>3. loginUser'.attempts = u.attempts /\ loginUser'.locked = u.locked BY <3>2 DEF Login!User
    <3> QED BY <1>3, <2>0, <3>1, <3>2, <3>3
  <2>3. CASE Login!LockUser
    <3>1. PICK l \in [Login!Counters -> BOOLEAN] : l = [c \in Login!Counters |-> TRUE] OBVIOUS
    <3>2. loginUser' = [loginUser EXCEPT !.locked = l] BY <2>3, <3>1 DEF Login!LockUser
    <3>3. loginUser'.attempts = loginUser.attempts /\ loginUser'.locked = l BY <3>2 DEF Login!TypeOK, Login!User
    <3>4. \A c \in Login!Counters : loginUser'.locked[c] BY <3>1, <3>3
    <3> QED BY <1>1, <2>3, <3>3, <3>4 DEF Login!LockUser
  <2>4. CASE \/ Login!SuspendUser \/ Login!SuspendTenant
             \/ \E a \in LoginEmails : Login!ChangeEmail(a)
             \/ \E g \in SUBSET Login!Methods : Login!ReplaceRoles(g)
    <3>1. loginUser'.attempts = loginUser.attempts /\ loginUser'.locked = loginUser.locked
      BY <2>4 DEF Login!SuspendUser, Login!SuspendTenant, Login!ChangeEmail, Login!ReplaceRoles, Login!TypeOK, Login!User
    <3>2. UNCHANGED Login!history
      BY <2>4 DEF Login!SuspendUser, Login!SuspendTenant, Login!ChangeEmail, Login!ReplaceRoles
    <3> QED BY <1>1, <3>1, <3>2
  <2> QED BY <1>7, <2>1, <2>2, <2>3, <2>4 DEF Cuts
<1>8. CASE Eases
  <2>0. "password" \in Login!Counters /\ "pin" \in Login!Counters /\ Login!Counters = {"password", "pin"} BY DEF Login!Counters
  <2>1. CASE Login!UnlockUser
    <3>1. PICK u \in Login!User : u = Login!Cleared(loginUser, "password") BY <2>0, ClearedUser DEF Login!TypeOK
    <3>2. loginUser' = Login!Cleared(u, "pin") /\ Login!Forget(Login!Counters) BY <2>1, <3>1 DEF Login!UnlockUser
    <3>3. loginUser'.attempts = [u.attempts EXCEPT !["pin"] = 0] BY <2>0, <3>2, ClearedUser
    <3>4. u.attempts = [loginUser.attempts EXCEPT !["password"] = 0]
      BY <2>0, <3>1, ClearedUser DEF Login!TypeOK
    <3>5. \A c \in Login!Counters : loginUser'.attempts[c] = 0 BY <1>a, <2>0, <3>3, <3>4
    <3> QED BY <1>2, <3>2, <3>5
  <2>2. CASE Login!ActivateUser \/ Login!ChangeTenant
    <3>1. loginUser'.attempts = loginUser.attempts /\ loginUser'.locked = loginUser.locked
      BY <2>2 DEF Login!ActivateUser, Login!ChangeTenant, Login!TypeOK, Login!User
    <3> QED BY <1>1, <2>2, <3>1 DEF Login!ActivateUser, Login!ChangeTenant
  <2>3. ASSUME NEW c \in Login!Counters, Login!LockEnds(c) PROVE Metered'
    <3>1. PICK l \in [Login!Counters -> BOOLEAN] : l = [loginUser.locked EXCEPT ![c] = FALSE]
      BY <1>a
    <3>2. loginUser' = [loginUser EXCEPT !.locked = l] BY <2>3, <3>1 DEF Login!LockEnds
    <3>3. loginUser'.attempts = loginUser.attempts /\ loginUser'.locked = l BY <3>2 DEF Login!TypeOK, Login!User
    <3>4. loginWrong' = loginWrong /\ loginLapsed' = [loginLapsed EXCEPT ![c] = loginLapsed[c] + 1]
      BY <2>3 DEF Login!LockEnds
    <3>5. \A d \in Login!Counters : MeteredBy(loginUser.attempts[d], loginWrong[d], loginLapsed[d], loginUser.locked[d])
      BY DEF Metered
    <3>6. ASSUME NEW d \in Login!Counters
          PROVE  MeteredBy(loginUser'.attempts[d], loginWrong'[d], loginLapsed'[d], loginUser'.locked[d])
      <4>1. CASE d = c
        <5>1. loginLapsed'[c] = loginLapsed[c] + 1 BY <1>a, <3>4
        <5>2. loginWrong[c] \in Nat /\ loginLapsed[c] \in Nat BY <1>a
        <5> QED BY <1>0, <3>3, <3>4, <3>5, <4>1, <5>1, <5>2 DEF MeteredBy
      <4>2. CASE d # c
        <5>1. loginLapsed'[d] = loginLapsed[d] /\ l[d] = loginUser.locked[d] BY <1>a, <3>1, <3>4, <4>2
        <5> QED BY <3>3, <3>4, <3>5, <5>1
      <4> QED BY <4>1, <4>2
    <3> QED BY <3>6 DEF Metered, MeteredBy
  <2> QED BY <1>8, <2>1, <2>2, <2>3 DEF Eases
<1>9. ASSUME NEW r \in LoginRequests, Login!EndSession(r, "revoked") \/ Login!EndSession(r, "expired") PROVE Metered'
  BY <1>1, <1>9 DEF Login!EndSession
<1>10. CASE UNCHANGED Login!loginVars BY <1>1, <1>10 DEF Login!loginVars, Login!history
<1> QED BY <1>4, <1>5, <1>6, <1>7, <1>8, <1>9, <1>10, LoginStepKinds

\* However many guesses are made at once, MaxTries wrong ones are judged
\* before the credential locks and one more after each lock that ran out.
THEOREM GuessesMetered == ASSUME Login!LoginAssumption PROVE Login!Spec => []Login!GuessesAreMetered
<1>1. Login!Init => Metered BY DEF Login!Init, Metered, MeteredBy, Login!LoginAssumption
<1>2. Metered => Login!GuessesAreMetered BY DEF Metered, MeteredBy, Login!GuessesAreMetered
<1> QED BY <1>1, <1>2, MeteredKept, LoginTypeCorrect, PTL DEF Login!Spec

-----------------------------------------------------------------------------
(* How many sessions there are, and which of them go. *)

\* A set of numbers that is not empty has a least one.
LEMMA LeastNumber ==
    ASSUME NEW T \in SUBSET Nat, T # {}
    PROVE  \E n \in T : \A m \in T : n <= m
<1>1. PICK n \in T : \A m \in T : ~ (<<m, n>> \in OpToRel(<, Nat))
  BY NatLessThanWellFounded, WFMin, Zenon
<1>2. ASSUME NEW m \in T PROVE n <= m
  <2>1. n \in Nat /\ m \in Nat OBVIOUS
  <2>2. ~(m < n)
    BY <1>1, <1>2 DEF OpToRel
  <2> QED BY <2>1, <2>2
<1> QED BY <1>2

\* The row of a request is made by its issue, and no two rows are as old.
Rows ==
    /\ \A r \in LoginRequests : /\ loginReq[r].pc # "signedIn" => loginSessions[r].state = "none"
                                /\ loginSessions[r].createdAt <= loginIssued
    /\ \A x, y \in Login!Open : x # y => loginSessions[x].createdAt # loginSessions[y].createdAt
    /\ IsFiniteSet(Login!Open)

LEMMA NewerFinite ==
    ASSUME Rows, NEW r
    PROVE  /\ IsFiniteSet(Login!Newer(r)) /\ Login!Newer(r) \subseteq Login!Open
           /\ Cardinality(Login!Newer(r)) \in Nat
<1>1. Login!Newer(r) \in SUBSET Login!Open BY DEF Login!Newer
<1>2. IsFiniteSet(Login!Newer(r)) BY <1>1, FS_Subset DEF Rows
<1> QED BY <1>1, <1>2, FS_CardinalityType

\* At most MaxSessions - 1 sessions are kept: the oldest of them has the others
\* among its newer ones.
LEMMA KeptIsSmall ==
    ASSUME Login!LoginAssumption, Login!TypeOK, Rows
    PROVE  IsFiniteSet(Login!Kept) /\ Cardinality(Login!Kept) \in 0..(LoginMaxSessions - 1)
<1>0. LoginMaxSessions \in Nat \ {0} BY DEF Login!LoginAssumption
<1>1. Login!Kept \in SUBSET Login!Open BY LoginCardinality DEF Login!Kept
<1>2. IsFiniteSet(Login!Kept) /\ Cardinality(Login!Kept) \in Nat
  BY <1>1, FS_Subset, FS_CardinalityType DEF Rows
<1>3. CASE Login!Kept = {} BY <1>0, <1>2, <1>3, FS_EmptySet
<1>4. CASE Login!Kept # {}
  <2> DEFINE Births == {loginSessions[x].createdAt : x \in Login!Kept}
  <2>1. \A x \in Login!Kept : x \in LoginRequests /\ loginSessions[x].createdAt \in Nat
    BY <1>1 DEF Login!Open, Login!TypeOK, Login!Session
  <2>2. Births \in SUBSET Nat /\ Births # {} BY <1>4, <2>1
  <2>3. PICK n \in Births : \A m \in Births : n <= m BY <2>2, LeastNumber
  <2>4. PICK o \in Login!Kept : loginSessions[o].createdAt = n BY <2>3
  <2>5. Cardinality(Login!Newer(o)) < LoginMaxSessions - 1 BY LoginCardinality, <2>4 DEF Login!Kept
  <2>6. ASSUME NEW x \in Login!Kept, x # o PROVE x \in Login!Newer(o)
    <3>1. loginSessions[x].createdAt >= loginSessions[o].createdAt BY <2>1, <2>3, <2>4
    <3>2. loginSessions[x].createdAt # loginSessions[o].createdAt BY <1>1, <2>4, <2>6 DEF Rows
    <3>3. loginSessions[x].createdAt > loginSessions[o].createdAt BY <2>1, <2>4, <3>1, <3>2
    <3> QED BY <1>1, <3>3 DEF Login!Newer
  <2>7. Login!Kept \in SUBSET (Login!Newer(o) \cup {o}) BY <2>6
  <2>8. /\ IsFiniteSet(Login!Newer(o)) /\ Cardinality(Login!Newer(o)) \in Nat BY NewerFinite
  <2>9. /\ IsFiniteSet(Login!Newer(o) \cup {o})
        /\ Cardinality(Login!Newer(o) \cup {o}) \in {Cardinality(Login!Newer(o)), Cardinality(Login!Newer(o)) + 1}
    BY <2>8, FS_AddElement
  <2>10. Cardinality(Login!Kept) <= Cardinality(Login!Newer(o) \cup {o}) BY <2>7, <2>9, FS_Subset
  <2> QED BY <1>0, <1>2, <2>5, <2>8, <2>9, <2>10
<1> QED BY <1>3, <1>4

Capped == Rows /\ Login!SessionCap

LEMMA CappedKept ==
    ASSUME Login!LoginAssumption, Login!TypeOK, Capped, [Login!Next]_(Login!loginVars) PROVE Capped'
<1>0. LoginMaxSessions \in Nat \ {0} BY DEF Login!LoginAssumption
<1>a. /\ \A x \in LoginRequests : loginSessions[x].createdAt \in Nat
      /\ loginIssued \in Nat
  BY DEF Login!TypeOK, Login!Session
<1> USE DEF Capped
\* Sessions only end.
<1>1. ASSUME loginIssued' = loginIssued,
             \A x \in LoginRequests : /\ loginSessions'[x].createdAt = loginSessions[x].createdAt
                                      /\ Login!Live(loginSessions[x])' => Login!Live(loginSessions[x])
                                      /\ loginSessions[x].state = "none" => loginSessions'[x].state = "none"
                                      /\ loginReq'[x].pc # "signedIn" => loginReq[x].pc # "signedIn"
      PROVE  Capped'
  <2>1. Login!Open' \in SUBSET Login!Open BY <1>1 DEF Login!Open, Login!Live
  <2>2. /\ IsFiniteSet(Login!Open') /\ Cardinality(Login!Open') <= Cardinality(Login!Open)
        /\ Cardinality(Login!Open') \in Nat /\ Cardinality(Login!Open) \in Nat
    BY <2>1, FS_Subset, FS_CardinalityType DEF Rows
  <2>3. Cardinality(Login!Open') <= LoginMaxSessions BY LoginCardinality, <1>0, <2>2 DEF Login!SessionCap
  <2>4. \A x, y \in Login!Open' : x # y => loginSessions'[x].createdAt # loginSessions'[y].createdAt
    BY <1>1, <2>1 DEF Rows, Login!Open
  <2>5. \A x \in LoginRequests : /\ loginReq'[x].pc # "signedIn" => loginSessions'[x].state = "none"
                                 /\ loginSessions'[x].createdAt <= loginIssued'
    BY <1>1 DEF Rows
  <2> QED BY LoginCardinality, <2>2, <2>3, <2>4, <2>5 DEF Rows, Login!SessionCap
<1>2. ASSUME NEW r \in LoginRequests, UNCHANGED <<loginSessions, loginIssued>>, loginReq[r].pc # "signedIn",
             \A x \in LoginRequests \ {r} : loginReq'[x] = loginReq[x]
      PROVE  Capped'
  BY <1>1, <1>2 DEF Login!Live
<1>3. ASSUME NEW r \in LoginRequests, Proceeds(r) PROVE Capped'
  BY <1>2, <1>3, ProceedsRequest
<1>4. ASSUME NEW r \in LoginRequests, Login!PasswordAttempt(r) \/ Login!PinAttempt(r) PROVE Capped'
  BY <1>2, <1>4, Attempts
<1>5. ASSUME NEW r \in LoginRequests, Login!Issue(r) PROVE Capped'
  <2>1. CASE loginReq[r].pc = "admitted" /\ Login!Refuse(r) /\ UNCHANGED <<loginSessions, loginIssued>>
    BY <1>2, <2>1, RefusedRequest DEF Login!TypeOK
  <2>2. ASSUME Issued(r), NEW s \in Login!Session, s.state = "live", s.createdAt = loginIssued + 1,
               loginSessions' = [x \in LoginRequests |-> IF x = r THEN s
                                     ELSE IF x \in Login!Kept THEN loginSessions[x] ELSE Login!NoSession]
        PROVE  Capped'
    <3>1. /\ loginReq'[r].pc = "signedIn" /\ \A x \in LoginRequests \ {r} : loginReq'[x] = loginReq[x]
      BY <2>2, SignedIn
    <3>2. r \notin Login!Open BY <2>2 DEF Rows, Issued, Login!Open, Login!Live
    <3>3. Login!NoSession.state = "none" /\ Login!NoSession.createdAt = 0 BY DEF Login!NoSession
    <3>4. /\ loginSessions'[r] = s
          /\ \A x \in LoginRequests \ {r} : loginSessions'[x] = IF x \in Login!Kept THEN loginSessions[x] ELSE Login!NoSession
      BY <2>2
    <3>5. Login!Kept \subseteq Login!Open /\ Login!Open \subseteq LoginRequests BY LoginCardinality DEF Login!Kept, Login!Open
    <3>6. Login!Open' = Login!Kept \cup {r}
      <4>1. \A x \in LoginRequests : x \in Login!Open' <=> Login!Live(loginSessions'[x]) BY DEF Login!Open, Login!Live
      <4>2. \A x \in Login!Kept : Login!Live(loginSessions[x]) BY LoginCardinality DEF Login!Kept, Login!Open
      <4>3. \A x \in LoginRequests : Login!Live(loginSessions'[x]) <=> x \in Login!Kept \cup {r}
        BY <2>2, <3>3, <3>4, <4>2 DEF Login!Live
      <4>4. Login!Open' \subseteq LoginRequests BY DEF Login!Open
      <4> QED BY <3>5, <4>1, <4>3, <4>4
    <3>7. IsFiniteSet(Login!Kept) /\ Cardinality(Login!Kept) \in 0..(LoginMaxSessions - 1) BY KeptIsSmall
    <3>8. /\ IsFiniteSet(Login!Kept \cup {r})
          /\ Cardinality(Login!Kept \cup {r}) \in {Cardinality(Login!Kept), Cardinality(Login!Kept) + 1}
      BY <3>7, FS_AddElement
    <3>9. Cardinality(Login!Open') <= LoginMaxSessions BY <1>0, <3>6, <3>7, <3>8
    <3>10. loginIssued' = loginIssued + 1 BY <2>2 DEF Issued
    <3>11. \A x \in LoginRequests : /\ loginReq'[x].pc # "signedIn" => loginSessions'[x].state = "none"
                                    /\ loginSessions'[x].createdAt <= loginIssued'
      <4>1. ASSUME NEW x \in LoginRequests, x # r
            PROVE  /\ loginReq'[x].pc # "signedIn" => loginSessions'[x].state = "none"
                   /\ loginSessions'[x].createdAt <= loginIssued'
        <5>1. loginSessions[x].createdAt <= loginIssued /\ (loginReq[x].pc # "signedIn" => loginSessions[x].state = "none")
          BY DEF Rows
        <5>2. loginSessions'[x] = loginSessions[x] \/ loginSessions'[x] = Login!NoSession BY <3>4, <4>1
        <5> QED BY <1>a, <3>1, <3>3, <3>10, <4>1, <5>1, <5>2
      <4> QED BY <1>a, <2>2, <3>1, <3>4, <3>10, <4>1
    <3>12. \A x, y \in Login!Open' : x # y => loginSessions'[x].createdAt # loginSessions'[y].createdAt
      <4>1. \A x \in Login!Kept : x # r /\ loginSessions'[x] = loginSessions[x] /\ loginSessions[x].createdAt < loginIssued + 1
        BY <1>a, <3>2, <3>4, <3>5 DEF Rows
      <4>2. \A x, y \in Login!Kept : x # y => loginSessions[x].createdAt # loginSessions[y].createdAt
        BY <3>5 DEF Rows
      <4>3. \A x \in Login!Kept : loginSessions[x].createdAt \in Nat BY <1>a, <3>5
      <4>4. loginSessions'[r].createdAt = loginIssued + 1 BY <2>2, <3>4
      <4>5. ASSUME NEW x \in Login!Kept \cup {r}, NEW y \in Login!Kept \cup {r}, x # y
            PROVE  loginSessions'[x].createdAt # loginSessions'[y].createdAt
        <5>1. CASE x = r /\ y \in Login!Kept BY <1>a, <4>1, <4>3, <4>4, <5>1
        <5>2. CASE y = r /\ x \in Login!Kept BY <1>a, <4>1, <4>3, <4>4, <5>2
        <5>3. CASE x \in Login!Kept /\ y \in Login!Kept BY <4>1, <4>2, <4>5, <5>3
        <5> QED BY <4>5, <5>1, <5>2, <5>3
      <4> QED BY <3>6, <4>5
    <3> QED BY LoginCardinality, <3>6, <3>8, <3>9, <3>11, <3>12 DEF Rows, Login!SessionCap
  <2> QED BY <1>5, <2>1, <2>2, IssueKinds
<1>6. CASE Cuts
  <2>1. /\ loginReq' = loginReq /\ loginIssued' = loginIssued
        /\ \A x \in LoginRequests : /\ loginSessions'[x].state # "live"
                                    /\ loginSessions'[x].createdAt = loginSessions[x].createdAt
                                    /\ (loginSessions'[x].state = "none") <=> (loginSessions[x].state = "none")
    BY <1>6, CutsTypes, LoginAllRevoked
  <2> QED BY <1>1, <2>1 DEF Login!Live
<1>7. CASE Eases
  BY <1>1, <1>7, EasesTypes DEF Login!Live
<1>8. ASSUME NEW r \in LoginRequests, Login!EndSession(r, "revoked") \/ Login!EndSession(r, "expired") PROVE Capped'
  <2>1. /\ \E s \in {"revoked", "expired"} : loginSessions' = [loginSessions EXCEPT ![r].state = s]
        /\ UNCHANGED <<loginIssued, loginReq>> /\ Login!Live(loginSessions[r])
    BY <1>8 DEF Login!EndSession, Login!Open
  <2>2. /\ loginSessions'[r].state \in {"revoked", "expired"}
        /\ loginSessions'[r].createdAt = loginSessions[r].createdAt
        /\ \A x \in LoginRequests \ {r} : loginSessions'[x] = loginSessions[x]
    BY <2>1, SessionEnds
  <2> QED BY <1>1, <2>1, <2>2 DEF Login!Live
<1>9. CASE UNCHANGED Login!loginVars BY <1>1, <1>9 DEF Login!loginVars, Login!Live
<1> QED BY <1>3, <1>4, <1>5, <1>6, <1>7, <1>8, <1>9, LoginStepKinds

LEMMA CappedHolds == ASSUME Login!LoginAssumption PROVE Login!Spec => []Capped
<1>1. Login!Init => Capped
  <2> SUFFICES ASSUME Login!Init PROVE Capped OBVIOUS
  <2>1. \A r \in LoginRequests : loginSessions[r] = Login!NoSession BY DEF Login!Init
  <2>2. Login!NoSession.state = "none" /\ Login!NoSession.createdAt = 0 BY DEF Login!NoSession
  <2>3. Login!Open = {} BY <2>1, <2>2 DEF Login!Open, Login!Live
  <2>4. IsFiniteSet(Login!Open) /\ Cardinality(Login!Open) = 0 BY <2>3, FS_EmptySet
  <2>5. loginIssued = 0 BY DEF Login!Init
  <2> QED BY LoginCardinality, <2>1, <2>2, <2>3, <2>4, <2>5 DEF Capped, Rows, Login!SessionCap, Login!LoginAssumption
<1> QED BY <1>1, CappedKept, LoginTypeCorrect, PTL DEF Login!Spec

\* A user has at most MaxSessions live sessions, however many logins overlap.
THEOREM SessionsAreCapped == ASSUME Login!LoginAssumption PROVE Login!Spec => []Login!SessionCap
<1>1. Capped => Login!SessionCap BY DEF Capped
<1> QED BY <1>1, CappedHolds, PTL

\* When a live session is deleted, so is every older one.
THEOREM EvictionIsByAge == ASSUME Login!LoginAssumption PROVE Login!Spec => Login!OldestIsEvicted
<1>1. Login!TypeOK /\ Capped /\ [Login!Next]_(Login!loginVars) => [Login!EvictsOldest]_(Login!loginVars)
  <2> SUFFICES ASSUME Login!TypeOK, Capped, [Login!Next]_(Login!loginVars) PROVE Login!EvictsOldest
    OBVIOUS
  <2> USE DEF Capped
  <2>1. ASSUME \A x \in Login!Open : loginSessions'[x].state # "none" PROVE Login!EvictsOldest
    BY <2>1 DEF Login!EvictsOldest
  <2>2. CASE loginSessions' = loginSessions BY <2>1, <2>2 DEF Login!Open, Login!Live
  <2>3. ASSUME NEW r \in LoginRequests, Login!Issue(r) PROVE Login!EvictsOldest
    <3>1. ASSUME Issued(r), NEW s \in Login!Session, s.state = "live",
                 loginSessions' = [x \in LoginRequests |-> IF x = r THEN s
                                       ELSE IF x \in Login!Kept THEN loginSessions[x] ELSE Login!NoSession]
          PROVE  Login!EvictsOldest
      <4> SUFFICES ASSUME NEW x \in Login!Open, NEW y \in Login!Open, loginSessions'[x].state = "none",
                          loginSessions[y].createdAt < loginSessions[x].createdAt
                   PROVE  loginSessions'[y].state = "none"
        BY DEF Login!EvictsOldest
      <4>1. r \notin Login!Open BY <3>1 DEF Rows, Issued, Login!Open, Login!Live
      <4>2. x \in LoginRequests /\ y \in LoginRequests /\ x # r /\ y # r /\ loginSessions[x].state = "live"
        BY <4>1 DEF Login!Open, Login!Live
      <4>3. x \notin Login!Kept BY <3>1, <4>2
      <4>4. /\ loginSessions[x].createdAt \in Nat /\ loginSessions[y].createdAt \in Nat
            /\ \A z \in Login!Open : loginSessions[z].createdAt \in Nat
        BY <4>2 DEF Login!Open, Login!TypeOK, Login!Session
      <4>5. Login!Newer(x) \in SUBSET Login!Newer(y) BY <4>4 DEF Login!Newer
      <4>6. /\ IsFiniteSet(Login!Newer(y)) /\ Cardinality(Login!Newer(y)) \in Nat
            /\ Cardinality(Login!Newer(x)) \in Nat
        BY NewerFinite
      <4>7. Cardinality(Login!Newer(x)) <= Cardinality(Login!Newer(y)) BY <4>5, <4>6, FS_Subset
      <4>8. ~(Cardinality(Login!Newer(x)) < LoginMaxSessions - 1) BY LoginCardinality, <4>3 DEF Login!Kept
      <4>9. LoginMaxSessions \in Nat BY DEF Login!LoginAssumption
      <4>10. ~(Cardinality(Login!Newer(y)) < LoginMaxSessions - 1) BY <4>6, <4>7, <4>8, <4>9
      <4>11. y \notin Login!Kept BY LoginCardinality, <4>10 DEF Login!Kept
      <4> QED BY <3>1, <4>2, <4>11 DEF Login!NoSession
    <3> QED BY <2>2, <2>3, <3>1, IssueKinds
  <2>4. CASE Cuts
    BY <2>1, <2>4, CutsTypes, LoginAllRevoked DEF Login!Open, Login!Live
  <2>5. ASSUME NEW r \in LoginRequests, Login!EndSession(r, "revoked") \/ Login!EndSession(r, "expired")
        PROVE  Login!EvictsOldest
    <3>1. \E s \in {"revoked", "expired"} : loginSessions' = [loginSessions EXCEPT ![r].state = s]
      BY <2>5 DEF Login!EndSession
    <3>2. /\ loginSessions'[r].state \in {"revoked", "expired"}
          /\ \A x \in LoginRequests \ {r} : loginSessions'[x] = loginSessions[x]
      BY <3>1, SessionEnds
    <3> QED BY <2>1, <3>2 DEF Login!Open, Login!Live
  <2>6. ASSUME NEW r \in LoginRequests, Proceeds(r) \/ Login!PasswordAttempt(r) \/ Login!PinAttempt(r)
        PROVE  Login!EvictsOldest
    BY <2>2, <2>6, ProceedsRequest, Attempts
  <2>7. CASE Eases BY <2>2, <2>7, EasesTypes
  <2>8. CASE UNCHANGED Login!loginVars BY <2>2, <2>8 DEF Login!loginVars
  <2> QED BY <2>3, <2>4, <2>5, <2>6, <2>7, <2>8, LoginStepKinds
<1> QED BY <1>1, CappedHolds, LoginTypeCorrect, PTL DEF Login!Spec, Login!OldestIsEvicted

-----------------------------------------------------------------------------
(* PINs. *)

\* The PIN's counter goes up only in an attempt against the PIN of now.
THEOREM GuessIsChargedToItsPin == ASSUME Login!LoginAssumption PROVE Login!Spec => Login!StaleGuessIsFree
<1>1. Login!TypeOK /\ [Login!Next]_(Login!loginVars) => [Login!ChargesOwnPin]_(Login!loginVars)
  <2> SUFFICES ASSUME Login!TypeOK, [Login!Next]_(Login!loginVars) PROVE Login!ChargesOwnPin
    OBVIOUS
  <2>0. "password" \in Login!Counters /\ "pin" \in Login!Counters /\ "password" # "pin" BY DEF Login!Counters
  <2>a. loginUser.attempts \in [Login!Counters -> Nat] BY UserFields DEF Login!TypeOK
  <2>1. ASSUME loginUser'.attempts["pin"] \in {0, loginUser.attempts["pin"]} PROVE Login!ChargesOwnPin
    BY <2>0, <2>1, <2>a DEF Login!ChargesOwnPin
  <2>2. ASSUME NEW u \in Login!User, NEW c \in Login!Counters, u = Login!Cleared(loginUser, c), loginUser'.attempts = u.attempts
        PROVE  Login!ChargesOwnPin
    <3>1. u.attempts = [loginUser.attempts EXCEPT ![c] = 0] BY <2>2, ClearedUser DEF Login!TypeOK
    <3> QED BY <2>0, <2>1, <2>2, <2>a, <3>1
  <2>3. ASSUME NEW r \in LoginRequests, Login!PasswordAttempt(r) \/ Login!PinAttempt(r) PROVE Login!ChargesOwnPin
    <3>1. CASE loginUser' = loginUser BY <2>1, <3>1
    <3>2. ASSUME NEW c \in Login!Counters, loginUser' = Login!Failed(loginUser, c),
                 c = "pin" => /\ loginReq[r].pc = "pinAttempt" /\ loginReq'[r].pc = "refused"
                              /\ loginReq[r].proof = loginUser.pin /\ loginReq[r].secret # loginUser.pin
          PROVE  Login!ChargesOwnPin
      <4>1. CASE c = "pin" BY <3>2, <4>1 DEF Login!ChargesOwnPin
      <4>2. CASE c # "pin"
        <5>1. loginUser'.attempts = [loginUser.attempts EXCEPT ![c] = loginUser.attempts[c] + 1]
          BY <3>2, FailedUser DEF Login!TypeOK
        <5> QED BY <2>0, <2>1, <2>a, <4>2, <5>1
      <4> QED BY <4>1, <4>2
    <3>3. ASSUME NEW c \in Login!Counters, loginUser' = Login!Cleared(loginUser, c) PROVE Login!ChargesOwnPin
      BY <2>2, <3>3, ClearedUser DEF Login!TypeOK
    <3> QED BY <2>3, <3>1, <3>2, <3>3, Attempts
  <2>4. ASSUME NEW r \in LoginRequests, Login!Issue(r) PROVE Login!ChargesOwnPin
    <3>1. loginUser' = loginUser \/ loginUser' = Login!Cleared(loginUser, "password")
      BY <2>4, IssueKinds DEF Issued
    <3> QED BY <2>0, <2>1, <2>2, <3>1, ClearedUser DEF Login!TypeOK
  <2>5. CASE Cuts
    <3>1. ASSUME NEW p \in LoginPasswords, Login!ResetPassword(p) PROVE Login!ChargesOwnPin
      <4>1. PICK u \in Login!User : u = Login!Cleared(loginUser, "password") BY <2>0, ClearedUser DEF Login!TypeOK
      <4>2. loginUser' = [u EXCEPT !.password = p] BY <3>1, <4>1 DEF Login!ResetPassword
      <4>3. loginUser'.attempts = u.attempts BY <4>2 DEF Login!User
      <4> QED BY <2>0, <2>2, <4>1, <4>3
    <3>2. ASSUME NEW p \in LoginPins, Login!RotateOwnPin(p) \/ Login!ResetPinAsAdmin(p) PROVE Login!ChargesOwnPin
      <4>1. PICK u \in Login!User : u = Login!Cleared(loginUser, "pin") BY <2>0, ClearedUser DEF Login!TypeOK
      <4>2. loginUser' = [u EXCEPT !.pin = p] BY <3>2, <4>1 DEF Login!RotateOwnPin, Login!ResetPinAsAdmin
      <4>3. loginUser'.attempts = u.attempts BY <4>2 DEF Login!User
      <4> QED BY <2>0, <2>2, <4>1, <4>3
    <3>3. CASE \/ Login!LockUser \/ Login!SuspendUser \/ Login!SuspendTenant
               \/ \E a \in LoginEmails : Login!ChangeEmail(a)
               \/ \E g \in SUBSET Login!Methods : Login!ReplaceRoles(g)
      <4>1. loginUser'.attempts = loginUser.attempts
        BY <3>3 DEF Login!LockUser, Login!SuspendUser, Login!SuspendTenant, Login!ChangeEmail, Login!ReplaceRoles, Login!TypeOK, Login!User
      <4> QED BY <2>1, <4>1
    <3> QED BY <2>5, <3>1, <3>2, <3>3 DEF Cuts
  <2>6. CASE Eases
    <3>1. CASE Login!UnlockUser
      <4>1. PICK u \in Login!User : u = Login!Cleared(loginUser, "password") BY <2>0, ClearedUser DEF Login!TypeOK
      <4>2. loginUser' = Login!Cleared(u, "pin") BY <3>1, <4>1 DEF Login!UnlockUser
      <4>3. loginUser'.attempts = [u.attempts EXCEPT !["pin"] = 0] BY <2>0, <4>2, ClearedUser
      <4>4. u.attempts \in [Login!Counters -> Nat] BY UserFields
      <4> QED BY <2>0, <2>1, <4>3, <4>4
    <3>2. CASE Login!ActivateUser \/ Login!ChangeTenant \/ \E c \in Login!Counters : Login!LockEnds(c)
      <4>1. loginUser'.attempts = loginUser.attempts
        BY <3>2 DEF Login!ActivateUser, Login!ChangeTenant, Login!LockEnds, Login!TypeOK, Login!User
      <4> QED BY <2>1, <4>1
    <3> QED BY <2>6, <3>1, <3>2 DEF Eases
  <2>7. CASE loginUser' = loginUser BY <2>1, <2>7
  <2>8. ASSUME NEW r \in LoginRequests, \/ Proceeds(r) \/ Login!EndSession(r, "revoked") \/ Login!EndSession(r, "expired")
        PROVE  Login!ChargesOwnPin
    BY <2>7, <2>8, ProceedsRequest DEF Login!EndSession
  <2>9. CASE UNCHANGED Login!loginVars BY <2>7, <2>9 DEF Login!loginVars
  <2> QED BY <2>3, <2>4, <2>5, <2>6, <2>8, <2>9, LoginStepKinds
<1> QED BY <1>1, LoginTypeCorrect, PTL DEF Login!Spec, Login!StaleGuessIsFree

\* Nobody is signed in by a PIN that is locked, and no PIN is unlocked by it.
THEOREM LockedPinsSignNobodyIn == ASSUME Login!LoginAssumption PROVE Login!Spec => Login!LockedPinSignsNobodyIn
<1>1. Login!TypeOK /\ [Login!Next]_(Login!loginVars) => [Login!PinIsUnlocked]_(Login!loginVars)
  <2> SUFFICES ASSUME Login!TypeOK, [Login!Next]_(Login!loginVars) PROVE Login!PinIsUnlocked
    OBVIOUS
  <2>0. "password" \in Login!Counters BY DEF Login!Counters
  <2>1. ASSUME \A x \in LoginRequests : loginReq'[x].pc = "signedIn" => loginReq[x].pc = "signedIn"
        PROVE  Login!PinIsUnlocked
    BY <2>1 DEF Login!PinIsUnlocked
  <2>2. ASSUME NEW r \in LoginRequests, Login!Issue(r) PROVE Login!PinIsUnlocked
    <3>1. CASE Login!Refuse(r)
      <4>1. loginReq'[r].pc = "refused" /\ \A x \in LoginRequests \ {r} : loginReq'[x] = loginReq[x]
        BY <3>1, RefusedRequest DEF Login!TypeOK
      <4> QED BY <2>1, <4>1
    <3>2. CASE Issued(r)
      <4>1. \A x \in LoginRequests \ {r} : loginReq'[x] = loginReq[x] BY <3>2, SignedIn
      <4>2. loginReq[r].method = "USERNAME_PIN" => ~loginUser.locked["pin"] /\ loginUser' = Login!Cleared(loginUser, "password")
        BY <3>2 DEF Issued, Login!ProofHolds
      <4>3. Login!Cleared(loginUser, "password").locked = [loginUser.locked EXCEPT !["password"] = FALSE]
        BY <2>0, ClearedUser DEF Login!TypeOK
      <4>4. loginReq[r].method = "USERNAME_PIN" =>
                     ~loginUser.locked["pin"] /\ loginUser'.locked = [loginUser.locked EXCEPT !["password"] = FALSE]
        BY <4>2, <4>3
      <4> QED BY <4>1, <4>4 DEF Login!PinIsUnlocked
    <3> QED BY <2>2, <3>1, <3>2, IssueKinds
  <2>3. ASSUME NEW r \in LoginRequests, Proceeds(r) \/ Login!PasswordAttempt(r) \/ Login!PinAttempt(r)
        PROVE  Login!PinIsUnlocked
    <3>1. loginReq'[r].pc # "signedIn" /\ \A x \in LoginRequests \ {r} : loginReq'[x] = loginReq[x]
      BY <2>3, ProceedsRequest, Attempts
    <3> QED BY <2>1, <3>1
  <2>4. CASE Cuts \/ Eases BY <2>1, <2>4, CutsTypes, EasesTypes
  <2>5. ASSUME NEW r \in LoginRequests, Login!EndSession(r, "revoked") \/ Login!EndSession(r, "expired")
        PROVE  Login!PinIsUnlocked
    BY <2>1, <2>5 DEF Login!EndSession
  <2>6. CASE UNCHANGED Login!loginVars BY <2>1, <2>6 DEF Login!loginVars
  <2> QED BY <2>2, <2>3, <2>4, <2>5, <2>6, LoginStepKinds
<1> QED BY <1>1, LoginTypeCorrect, PTL DEF Login!Spec, Login!LockedPinSignsNobodyIn

-----------------------------------------------------------------------------
(* Availability imports. *)

LEMMA ImportCardinality == \A S : Import!Cardinality(S) = Cardinality(S)
BY DEF Import!Cardinality, Cardinality

LEMMA ImportFinite == \A S : Import!IsFiniteSet(S) = IsFiniteSet(S)
BY DEF Import!IsFiniteSet, IsFiniteSet

(* The inductive invariant. *)

\* A row that nobody has claimed has no live lease, and it holds the document
\* exactly as long as it is live and not overdue.
RowOK(r) ==
    /\ r.status = "NONE" => r.attempts = 0 /\ r.lease # "live"
    /\ r.lease = "live" => r.token # Import!NoToken
    /\ r.status \in Import!Live /\ r.age # "overdue" => r.source
    /\ r.status \in Import!Terminal => ~r.source

RowsOK == \A i \in ImportImports : RowOK(importRow[i]) /\ importRuns[i] =< importRow[i].attempts

\* A worker that cleans up has seen its import end.
HandlerOK(r) ==
    /\ r.pc # "idle" => r.i \in ImportImports
    /\ r.pc \in {"cleaning", "cleaned"} => importRow[r.i].status \in Import!Terminal
HandlersOK == \A h \in ImportHandlers : HandlerOK(importHandler[h])

PublishersOK == \A p \in ImportPublishers : importPublisher[p].pc = "publish" => importPublisher[p].i \in ImportImports

ImportInv == Import!TypeOK /\ RowsOK /\ HandlersOK /\ PublishersOK /\ Import!RememberedHasEnded /\ Import!PaidImport

-----------------------------------------------------------------------------
(* Types. *)

Statuses == Import!Live \cup Import!Terminal \cup {"NONE"}
Counts == 0 .. Import!MaxClaims

LEMMA RowType ==
    Import!Row = [status : Statuses, attempts : Counts, token : Counts,
                  lease : {"none", "live", "ended"},
                  pub : {"PENDING", "PUBLISHING", "PUBLISHED", "FAILED"},
                  pubToken : ImportPublishers \cup {None}, wait : BOOLEAN,
                  aged : BOOLEAN, source : BOOLEAN, age : {"young", "expired", "overdue"}]
BY DEF Import!Row, Statuses, Counts

LEMMA StatusesAre ==
    /\ {"NONE", "PENDING", "RUNNING", "RETRYING", "FAILED", "DEAD_LETTERED", "CANCELLED",
        "SUCCEEDED"} \subseteq Statuses
    /\ {"FAILED", "DEAD_LETTERED", "CANCELLED", "SUCCEEDED"} = Import!Terminal
    /\ {"FAILED", "DEAD_LETTERED", "CANCELLED"} = Import!Refunded
    /\ {"PENDING", "RUNNING", "RETRYING"} = Import!Live
    /\ "NONE" \notin Import!Live /\ "NONE" \notin Import!Terminal /\ Import!Live \cap Import!Terminal = {}
    /\ Import!Refunded \subseteq Import!Terminal /\ "SUCCEEDED" \notin Import!Refunded
BY DEF Statuses, Import!Live, Import!Terminal, Import!Refunded

LEMMA Budget ==
    ASSUME Import!ImportAssumption
    PROVE  /\ ImportMaxRetries \in Nat /\ Import!MaxClaims \in Nat /\ Import!MaxClaims = ImportMaxRetries + 1
           /\ 0 \in Counts /\ Import!NoToken \in Counts /\ Import!NoToken = 0
           /\ \A n \in 0 .. ImportMaxRetries : n + 1 \in Counts /\ n \in Counts
           /\ \A n \in Counts : n \in Int /\ n >= 0 /\ n =< Import!MaxClaims
           /\ ImportCost \in Nat /\ ImportInitialCredits \in Nat /\ IsFiniteSet(ImportImports)
           /\ None \notin ImportImports
BY ImportFinite DEF Import!ImportAssumption, Import!MaxClaims, Counts, Import!NoToken

LEMMA StartValues ==
    ASSUME Import!ImportAssumption
    PROVE  /\ Import!NoRow \in Import!Row /\ RowOK(Import!NoRow) /\ Import!NoRow.status = "NONE"
           /\ Import!IdleHandler \in Import!Handler /\ HandlerOK(Import!IdleHandler) /\ Import!IdleHandler.pc = "idle"
           /\ Import!IdlePublisher \in Import!Publisher /\ Import!IdlePublisher.pc = "idle"
<1>1. Import!NoRow \in Import!Row
  BY Budget, StatusesAre, RowType DEF Import!NoRow
<1>2. RowOK(Import!NoRow) /\ Import!NoRow.status = "NONE"
  BY StatusesAre DEF Import!NoRow, RowOK
<1>3. Import!IdleHandler \in Import!Handler
  BY Budget DEF Import!IdleHandler, Import!Handler, Import!HandlerPC, Import!LostToken, Import!NoToken
<1>4. HandlerOK(Import!IdleHandler) /\ Import!IdleHandler.pc = "idle"
  BY DEF Import!IdleHandler, HandlerOK
<1>5. Import!IdlePublisher \in Import!Publisher /\ Import!IdlePublisher.pc = "idle"
  BY Budget DEF Import!IdlePublisher, Import!Publisher
<1> QED BY <1>1, <1>2, <1>3, <1>4, <1>5
-----------------------------------------------------------------------------
(* Changes of a row. *)

\* A change that neither ends a row nor moves its owner
Keeps(q, r) ==
    /\ r \in Import!Row /\ RowOK(r)
    /\ r.status = q.status /\ r.token = q.token /\ r.attempts = q.attempts

LEMMA Edits ==
    ASSUME Import!ImportAssumption, NEW q \in Import!Row, RowOK(q)
    PROVE  /\ q.status \in Import!Terminal \/ q.status = "NONE" \/ q.age = "overdue" =>
                  Keeps(q, [q EXCEPT !.source = FALSE])
           /\ Keeps(q, [q EXCEPT !.lease = "ended"])
           /\ Keeps(q, [q EXCEPT !.wait = FALSE])
           /\ Keeps(q, [q EXCEPT !.aged = TRUE])
           /\ \A a \in {"expired", "overdue"} : q.age # "overdue" => Keeps(q, [q EXCEPT !.age = a])
           /\ Keeps(q, [q EXCEPT !.pub = "PUBLISHED", !.pubToken = None, !.wait = FALSE])
           /\ Keeps(q, [q EXCEPT !.pub = "FAILED", !.pubToken = None])
           /\ \A p \in ImportPublishers : Keeps(q, [q EXCEPT !.pub = "PUBLISHING", !.pubToken = p, !.wait = TRUE])
           /\ q.status \notin Import!Live => Keeps(q, [q EXCEPT !.pubToken = None, !.source = FALSE])
           /\ Keeps(q, q)
<1>1. q.status \in Import!Terminal \/ q.status = "NONE" \/ q.age = "overdue" => Keeps(q, [q EXCEPT !.source = FALSE])
  BY RowType, StatusesAre DEF Keeps, RowOK
<1>2. Keeps(q, [q EXCEPT !.lease = "ended"])
  BY RowType DEF Keeps, RowOK
<1>3. Keeps(q, [q EXCEPT !.wait = FALSE]) /\ Keeps(q, [q EXCEPT !.aged = TRUE]) /\ Keeps(q, q)
  BY RowType DEF Keeps, RowOK
<1>4. \A a \in {"expired", "overdue"} : q.age # "overdue" => Keeps(q, [q EXCEPT !.age = a])
  BY RowType DEF Keeps, RowOK
<1>5. Keeps(q, [q EXCEPT !.pub = "PUBLISHED", !.pubToken = None, !.wait = FALSE])
  BY RowType DEF Keeps, RowOK
<1>6. Keeps(q, [q EXCEPT !.pub = "FAILED", !.pubToken = None])
  BY RowType DEF Keeps, RowOK
<1>7. \A p \in ImportPublishers : Keeps(q, [q EXCEPT !.pub = "PUBLISHING", !.pubToken = p, !.wait = TRUE])
  BY RowType DEF Keeps, RowOK
<1>8. q.status \notin Import!Live => Keeps(q, [q EXCEPT !.pubToken = None, !.source = FALSE])
  BY RowType, StatusesAre DEF Keeps, RowOK
<1> QED BY <1>1, <1>2, <1>3, <1>4, <1>5, <1>6, <1>7, <1>8

\* A row that ends
LEMMA EndedIs ==
    ASSUME Import!ImportAssumption, NEW q \in Import!Row, NEW s \in Import!Terminal
    PROVE  /\ Import!EndedRow(q, s) \in Import!Row /\ RowOK(Import!EndedRow(q, s)) /\ Import!EndedRow(q, s).status = s
           /\ Import!EndedRow(q, s).attempts = q.attempts
<1>1. PICK r : r = Import!EndedRow(q, s)
  OBVIOUS
<1>2. /\ r.status = s /\ r.attempts = q.attempts /\ r.source = FALSE /\ r.lease = "none"
      /\ s \in Statuses /\ r \in Import!Row
  BY <1>1, RowType, StatusesAre, Budget DEF Import!EndedRow
<1>3. RowOK(r)
  BY <1>2, StatusesAre DEF RowOK
<1> QED BY <1>1, <1>2, <1>3

\* What may become of a row
Passes(q, r) ==
    /\ q.status \in Import!Terminal => r.status \in Import!Terminal
    /\ q.status = "SUCCEEDED" => r.status = "SUCCEEDED"
    /\ q.status # "NONE" => r.status # "NONE"

OwnerMoves(i) ==
    \E h \in ImportHandlers : /\ importHandler[h].i = i
                              /\ importHandler[h].token = importRow[i].token
                              /\ importHandler'[h] # importHandler[h]

\* Under a live lease the owner acts, or people do.
Spared(i, r) ==
    \/ importRow[i].lease # "live"
    \/ r.status = importRow[i].status /\ r.token = importRow[i].token
    \/ r.status = "CANCELLED"
    \/ OwnerMoves(i)

Moves(i) ==
    /\ importRow'[i] \in Import!Row /\ RowOK(importRow'[i])
    /\ importRuns'[i] \in Nat /\ importRuns'[i] =< importRow'[i].attempts
    /\ Passes(importRow[i], importRow'[i]) /\ Spared(i, importRow'[i])
RowsMove == /\ importRow' \in [ImportImports -> Import!Row] /\ importRuns' \in [ImportImports -> Nat]
            /\ \A i \in ImportImports : Moves(i)

LEMMA InRow ==
    ASSUME Import!ImportAssumption, ImportInv, NEW i \in ImportImports
    PROVE  /\ importRow[i] \in Import!Row /\ RowOK(importRow[i]) /\ importRuns[i] \in Nat /\ importRuns[i] =< importRow[i].attempts
           /\ importRow[i].attempts \in Counts /\ importRow[i].token \in Counts
           /\ importRow[i].attempts \in Int /\ importRow[i].attempts =< Import!MaxClaims /\ importRow[i].status \in Statuses
<1>1. importRow[i] \in Import!Row /\ RowOK(importRow[i]) /\ importRuns[i] \in Nat /\ importRuns[i] =< importRow[i].attempts
  BY DEF ImportInv, Import!TypeOK, RowsOK
<1>2. importRow[i].attempts \in Counts /\ importRow[i].token \in Counts /\ importRow[i].status \in Statuses
  BY <1>1, RowType
<1> QED BY <1>1, <1>2, Budget

\* One row is put, and no claim made.
LEMMA PutMoves ==
    ASSUME Import!ImportAssumption, ImportInv, NEW i \in ImportImports, NEW r \in Import!Row, RowOK(r), Import!Put(i, r), importRuns' = importRuns,
           importRow[i].attempts =< r.attempts, Passes(importRow[i], r), Spared(i, r)
    PROVE  RowsMove
<1>1. importRow' = [importRow EXCEPT ![i] = r] /\ importRow \in [ImportImports -> Import!Row] /\ importRuns \in [ImportImports -> Nat]
  BY DEF Import!Put, ImportInv, Import!TypeOK
<1>2. importRow' \in [ImportImports -> Import!Row] /\ importRow'[i] = r
  BY <1>1
<1>3. importRuns[i] =< r.attempts
  <2>1. importRuns[i] \in Int /\ importRow[i].attempts \in Int /\ r.attempts \in Counts /\ importRuns[i] =< importRow[i].attempts
    BY InRow, RowType
  <2>2. r.attempts \in Int
    BY <2>1, Budget
  <2> QED BY <2>1, <2>2
<1>4. Moves(i)
  BY <1>2, <1>3, InRow DEF Moves
<1>5. ASSUME NEW k \in ImportImports, k # i PROVE Moves(k)
  <2>1. importRow'[k] = importRow[k]
    BY <1>1, <1>5
  <2>2. Passes(importRow[k], importRow[k]) /\ Spared(k, importRow[k])
    BY DEF Passes, Spared
  <2> QED BY <2>1, <2>2, InRow DEF Moves
<1> QED BY <1>1, <1>2, <1>4, <1>5 DEF RowsMove

LEMMA RowsRest ==
    ASSUME Import!ImportAssumption, ImportInv, importRow' = importRow, importRuns' = importRuns
    PROVE  RowsMove
<1>1. ASSUME NEW k \in ImportImports PROVE Moves(k)
  <2>1. Passes(importRow[k], importRow[k]) /\ Spared(k, importRow[k])
    BY DEF Passes, Spared
  <2> QED BY <2>1, InRow DEF Moves
<1> QED BY <1>1 DEF RowsMove, ImportInv, Import!TypeOK

\* A row is put that keeps its status and owner.
LEMMA PutKeeps ==
    ASSUME Import!ImportAssumption, ImportInv, NEW i \in ImportImports, NEW r, Keeps(importRow[i], r), Import!Put(i, r), importRuns' = importRuns
    PROVE  RowsMove /\ \A k \in ImportImports : importRow'[k].status = importRow[k].status
<1>1. r \in Import!Row /\ RowOK(r) /\ r.status = importRow[i].status /\ r.token = importRow[i].token /\ r.attempts = importRow[i].attempts
  BY DEF Keeps
<1>2. Passes(importRow[i], r) /\ Spared(i, r) /\ importRow[i].attempts =< r.attempts
  BY <1>1, InRow DEF Passes, Spared
<1>3. \A k \in ImportImports : importRow'[k].status = importRow[k].status
  BY <1>1 DEF Import!Put, ImportInv, Import!TypeOK
<1> QED BY <1>1, <1>2, <1>3, PutMoves
\* A row is put that ends, under a status that is not SUCCEEDED, or after which
\* nothing else changes.
LEMMA PutEnds ==
    ASSUME Import!ImportAssumption, ImportInv, NEW i \in ImportImports, NEW s \in Import!Terminal,
           Import!Put(i, Import!EndedRow(importRow[i], s)), importRuns' = importRuns, importRow[i].status \in Import!Live,
           importRow[i].lease # "live" \/ s = "CANCELLED" \/ OwnerMoves(i)
    PROVE  /\ RowsMove /\ importRow'[i].status = s
           /\ \A k \in ImportImports : k # i => importRow'[k].status = importRow[k].status
<1>1. PICK r : r = Import!EndedRow(importRow[i], s)
  OBVIOUS
<1>2. /\ r \in Import!Row /\ RowOK(r) /\ r.status = s /\ r.attempts = importRow[i].attempts
      /\ importRow[i].attempts \in Int
  BY <1>1, InRow, EndedIs
<1>3. Passes(importRow[i], r) /\ Spared(i, r)
  BY <1>2, StatusesAre DEF Passes, Spared
<1>4. importRow' = [importRow EXCEPT ![i] = r] /\ importRow \in [ImportImports -> Import!Row]
  BY <1>1 DEF Import!Put, ImportInv, Import!TypeOK
<1>5. importRow'[i].status = s /\ \A k \in ImportImports : k # i => importRow'[k].status = importRow[k].status
  BY <1>2, <1>4
<1> QED BY <1>1, <1>2, <1>3, <1>5, PutMoves

-----------------------------------------------------------------------------
(* The wallet. *)

MoneyStep == /\ importCredits' \in Nat
             /\ importDebits' \subseteq ImportImports
             /\ importRefunds' \subseteq ImportImports
             /\ Import!PaidImport'

\* Imports that are paid and not returned
Kept == importDebits \ importRefunds

LEMMA Price ==
    ASSUME Import!ImportAssumption, ImportInv
    PROVE  /\ importCredits \in Nat /\ importDebits \subseteq ImportImports /\ importRefunds \subseteq ImportImports
           /\ IsFiniteSet(Kept) /\ Cardinality(Kept) \in Nat
           /\ importCredits + ImportCost * Cardinality(Kept) = ImportInitialCredits
           /\ \A i \in ImportImports : /\ i \in importDebits <=> importRow[i].status # "NONE"
                                       /\ i \in importRefunds <=> importRow[i].status \in Import!Refunded
<1>1. /\ importCredits \in Nat /\ importDebits \subseteq ImportImports /\ importRefunds \subseteq ImportImports
      /\ importCredits + ImportCost * Cardinality(Kept) = ImportInitialCredits
      /\ \A i \in ImportImports : /\ i \in importDebits <=> importRow[i].status # "NONE"
                                  /\ i \in importRefunds <=> importRow[i].status \in Import!Refunded
  BY ImportCardinality DEF ImportInv, Import!TypeOK, Import!PaidImport, Kept
<1>2. Kept \subseteq ImportImports
  BY <1>1 DEF Kept
<1>3. IsFiniteSet(Kept) /\ Cardinality(Kept) \in Nat
  BY <1>2, Budget, FS_Subset, FS_CardinalityType
<1> QED BY <1>1, <1>3

LEMMA Times ==
    ASSUME NEW c \in Nat, NEW m \in Nat, NEW n \in Nat
    PROVE  c * m \in Nat /\ c * (m + n) = c * m + c * n
OBVIOUS

\* No import is requested or refunded.
LEMMA MoneyKept ==
    ASSUME ImportInv, UNCHANGED Import!moneyVars,
           \A i \in ImportImports : /\ importRow'[i].status = "NONE" <=> importRow[i].status = "NONE"
                                    /\ importRow'[i].status \in Import!Refunded <=> importRow[i].status \in Import!Refunded
    PROVE  MoneyStep
<1>1. importCredits \in Nat /\ importDebits \subseteq ImportImports /\ importRefunds \subseteq ImportImports /\ Import!PaidImport
  BY DEF ImportInv, Import!TypeOK
<1> QED BY ImportCardinality, <1>1 DEF MoneyStep, Import!PaidImport, Import!moneyVars

\* An import is requested and paid.
LEMMA MoneyTaken ==
    ASSUME Import!ImportAssumption, ImportInv, NEW i \in ImportImports,
           importRow[i].status = "NONE", importRow'[i].status = "PENDING",
           \A k \in ImportImports : k # i => importRow'[k].status = importRow[k].status,
           importCredits >= ImportCost, importCredits' = importCredits - ImportCost, importDebits' = importDebits \cup {i}, importRefunds' = importRefunds
    PROVE  MoneyStep
<1>1. i \notin importDebits /\ i \notin importRefunds
  BY Price, StatusesAre
<1>2. importDebits' \ importRefunds' = Kept \cup {i} /\ i \notin Kept
  BY <1>1 DEF Kept
<1>3. Cardinality(Kept \cup {i}) = Cardinality(Kept) + 1
  BY <1>2, Price, FS_AddElement, Zenon
<1>4. ImportCost * (Cardinality(Kept) + 1) = ImportCost * Cardinality(Kept) + ImportCost * 1 /\ ImportCost * 1 = ImportCost
  BY Price, Budget, Times
<1>5. importCredits' \in Nat /\ ImportCost * Cardinality(Kept) \in Nat
  <2>1. importCredits \in Nat /\ ImportCost \in Nat /\ Cardinality(Kept) \in Nat
    BY Price, Budget
  <2>2. ImportCost * Cardinality(Kept) \in Nat
    BY <2>1, Times
  <2> QED BY <2>1, <2>2
<1>6. importCredits' + ImportCost * Cardinality(Kept \cup {i}) = ImportInitialCredits
  <2>1. ImportCost * Cardinality(Kept \cup {i}) = ImportCost * Cardinality(Kept) + ImportCost
    BY <1>3, <1>4
  <2> HIDE <1>4
  <2> QED BY <2>1, <1>5, Price, Budget
<1>7. \A k \in ImportImports : /\ k \in importDebits' <=> importRow'[k].status # "NONE"
                               /\ k \in importRefunds' <=> importRow'[k].status \in Import!Refunded
  BY <1>1, Price, StatusesAre
<1> QED BY ImportCardinality, <1>2, <1>5, <1>6, <1>7, Price DEF MoneyStep, Import!PaidImport

\* The imports of I are given up, and those not refunded yet are refunded.
LEMMA MoneyReturned ==
    ASSUME Import!ImportAssumption, ImportInv, NEW I \in SUBSET ImportImports, Import!Refund(I),
           \A i \in I : importRow[i].status \in Import!Live \cup Import!Refunded /\ importRow'[i].status \in Import!Refunded,
           \A i \in ImportImports \ I : importRow'[i].status = importRow[i].status
    PROVE  MoneyStep
<1>0. PICK D : D = I \ importRefunds
  OBVIOUS
<1>1. D \subseteq Kept
  BY <1>0, Price, StatusesAre DEF Kept
<1>2. IsFiniteSet(D) /\ Cardinality(D) \in Nat
  BY <1>1, Price, FS_Subset, FS_CardinalityType
<1>3. importDebits' \ importRefunds' = Kept \ D /\ importCredits' = importCredits + ImportCost * Cardinality(D)
  BY ImportCardinality, <1>0 DEF Kept, Import!Refund
<1>4. IsFiniteSet(Kept \ D) /\ Cardinality(Kept \ D) = Cardinality(Kept) - Cardinality(D)
  <2>1. Kept \cap D = D
    BY <1>1
  <2>2. IsFiniteSet(Kept)
    BY Price
  <2>3. IsFiniteSet(Kept \ D) /\ Cardinality(Kept \ D) = Cardinality(Kept) - Cardinality(Kept \cap D)
    BY <2>2, FS_Difference, Zenon
  <2> QED BY <2>1, <2>3
<1>5. Cardinality(Kept \ D) \in Nat
  BY <1>4, FS_CardinalityType
<1>6. /\ ImportCost * Cardinality(D) \in Nat
      /\ ImportCost * (Cardinality(D) + Cardinality(Kept \ D)) = ImportCost * Cardinality(D) + ImportCost * Cardinality(Kept \ D)
      /\ ImportCost * Cardinality(Kept \ D) \in Nat
  BY <1>2, <1>5, Budget, Times
<1>7. Cardinality(D) + Cardinality(Kept \ D) = Cardinality(Kept)
  BY <1>2, <1>4, <1>5, Price
<1>8. importCredits + (ImportCost * Cardinality(D) + ImportCost * Cardinality(Kept \ D)) = ImportInitialCredits
  BY <1>6, <1>7, Price
<1>9. importCredits' \in Nat /\ importCredits' + ImportCost * Cardinality(Kept \ D) = ImportInitialCredits
  BY <1>3, <1>6, <1>8, Price, Budget
<1>10. \A i \in ImportImports : /\ i \in importDebits' <=> importRow'[i].status # "NONE"
                                /\ i \in importRefunds' <=> importRow'[i].status \in Import!Refunded
  BY ImportCardinality, Price, StatusesAre DEF Import!Refund
<1>11. importDebits' \subseteq ImportImports /\ importRefunds' \subseteq ImportImports
  BY ImportCardinality, Price DEF Import!Refund
<1> QED BY ImportCardinality, <1>3, <1>9, <1>10, <1>11 DEF MoneyStep, Import!PaidImport
-----------------------------------------------------------------------------
(* A step of the whole, from its parts. *)

HandlersMove == importHandler' \in [ImportHandlers -> Import!Handler] /\ HandlersOK'
PublishersMove == importPublisher' \in [ImportPublishers -> Import!Publisher] /\ PublishersOK'
MemoryMoves == importCompleted' \in [ImportHandlers -> SUBSET ImportImports] /\ Import!RememberedHasEnded'
QueueMoves == importQueue' \in [ImportImports -> [0 .. ImportMaxRetries -> Nat]]
RestMoves == /\ importPlan' \in {"PAID", "LAPSED", "CLOSED"}
             /\ importTarget' \in {"active", "renamed", "suspended", "deleted"}
             /\ importFile' \subseteq ImportImports
             /\ importFaults' \in Nat
             /\ importSwitches' \in Nat

ImportStep == ImportInv' /\ Import!EndsForGood /\ Import!SparesLiveOwner

LEMMA WholeStep ==
    ASSUME RowsMove, MoneyStep, HandlersMove, PublishersMove, MemoryMoves, QueueMoves, RestMoves
    PROVE  ImportStep
<1>1. Import!TypeOK'
  BY DEF Import!TypeOK, RowsMove, MoneyStep, HandlersMove, PublishersMove, MemoryMoves, QueueMoves, RestMoves
<1>2. RowsOK'
  BY DEF RowsOK, RowsMove, Moves
<1>3. HandlersOK' /\ PublishersOK' /\ Import!RememberedHasEnded' /\ Import!PaidImport'
  BY DEF HandlersMove, PublishersMove, MemoryMoves, MoneyStep
<1>4. Import!EndsForGood
  BY DEF Import!EndsForGood, RowsMove, Moves, Passes
<1>5. Import!SparesLiveOwner
  BY DEF Import!SparesLiveOwner, RowsMove, Moves, Spared, OwnerMoves
<1> QED BY <1>1, <1>2, <1>3, <1>4, <1>5 DEF ImportStep, ImportInv

\* What the worker h does next
HandlerNext(r) ==
    /\ r \in Import!Handler
    /\ r.pc # "idle" => r.i \in ImportImports
    /\ r.pc \in {"cleaning", "cleaned"} => importRow'[r.i].status \in Import!Terminal

LEMMA OneHandler ==
    ASSUME ImportInv, RowsMove, NEW h \in ImportHandlers, NEW r, HandlerNext(r), importHandler' = [importHandler EXCEPT ![h] = r]
    PROVE  HandlersMove
<1>1. importHandler \in [ImportHandlers -> Import!Handler] /\ HandlersOK
  BY DEF ImportInv, Import!TypeOK
<1>2. importHandler' \in [ImportHandlers -> Import!Handler] /\ importHandler'[h] = r
  BY <1>1 DEF HandlerNext
<1>3. ASSUME NEW k \in ImportHandlers PROVE HandlerOK(importHandler[k])'
  <2>1. CASE k = h
    BY <1>2, <2>1 DEF HandlerNext, HandlerOK
  <2>2. CASE k # h
    <3>1. importHandler'[k] = importHandler[k] /\ HandlerOK(importHandler[k])
      BY <1>1, <2>2 DEF HandlersOK
    <3>2. importHandler[k].pc \in {"cleaning", "cleaned"} => importRow'[importHandler[k].i].status \in Import!Terminal
      BY <3>1 DEF HandlerOK, RowsMove, Moves, Passes
    <3> QED BY <3>1, <3>2 DEF HandlerOK
  <2> QED BY <2>1, <2>2
<1> QED BY <1>2, <1>3 DEF HandlersMove, HandlersOK

LEMMA HandlersRest ==
    ASSUME ImportInv, RowsMove, importHandler' = importHandler
    PROVE  HandlersMove
<1>1. importHandler \in [ImportHandlers -> Import!Handler] /\ HandlersOK
  BY DEF ImportInv, Import!TypeOK
<1>3. ASSUME NEW k \in ImportHandlers PROVE HandlerOK(importHandler[k])'
  <2>1. importHandler'[k] = importHandler[k] /\ HandlerOK(importHandler[k])
    BY <1>1 DEF HandlersOK
  <2>2. importHandler[k].pc \in {"cleaning", "cleaned"} => importRow'[importHandler[k].i].status \in Import!Terminal
    BY <2>1 DEF HandlerOK, RowsMove, Moves, Passes
  <2> QED BY <2>1, <2>2 DEF HandlerOK
<1> QED BY <1>1, <1>3 DEF HandlersMove, HandlersOK

\* What is known of a worker that is at work
LEMMA InHandler ==
    ASSUME Import!ImportAssumption, ImportInv, NEW h \in ImportHandlers, importHandler[h].pc # "idle"
    PROVE  /\ importHandler[h] \in Import!Handler /\ importHandler[h].i \in ImportImports
           /\ importHandler[h].pc \in {"cleaning", "cleaned"} => importRow[importHandler[h].i].status \in Import!Terminal
           /\ importHandler[h].retry \in 0 .. ImportMaxRetries /\ importHandler[h].effective \in 0 .. ImportMaxRetries
           /\ importHandler[h].retry \in Int /\ importHandler[h].effective \in Int
<1>1. importHandler[h] \in Import!Handler /\ HandlerOK(importHandler[h])
  BY DEF ImportInv, Import!TypeOK, HandlersOK
<1>2. importHandler[h].retry \in 0 .. ImportMaxRetries /\ importHandler[h].effective \in 0 .. ImportMaxRetries
  BY <1>1 DEF Import!Handler
<1> QED BY <1>1, <1>2, Budget DEF HandlerOK

LEMMA Going ==
    ASSUME Import!ImportAssumption, ImportInv, RowsMove, NEW h \in ImportHandlers, NEW pc \in Import!HandlerPC, Import!Goto(h, pc),
           importHandler[h].pc # "idle",
           pc \in {"cleaning", "cleaned"} => importRow'[importHandler[h].i].status \in Import!Terminal
    PROVE  HandlersMove
<1>1. PICK r : r = [importHandler[h] EXCEPT !.pc = pc]
  OBVIOUS
<1>2. importHandler' = [importHandler EXCEPT ![h] = r]
  BY <1>1 DEF Import!Goto
<1>3. r \in Import!Handler /\ r.pc = pc /\ r.i = importHandler[h].i
  BY <1>1, InHandler DEF Import!Handler
<1>4. HandlerNext(r)
  BY <1>3, InHandler DEF HandlerNext
<1> QED BY <1>2, <1>4, OneHandler

LEMMA Acking ==
    ASSUME Import!ImportAssumption, ImportInv, RowsMove, NEW h \in ImportHandlers, Import!Ack(h)
    PROVE  HandlersMove
<1>1. HandlerNext(Import!IdleHandler)
  BY StartValues DEF HandlerNext
<1> QED BY <1>1, OneHandler DEF Import!Ack

\* The next message of a worker has failed with a token of its own, or none.
LEMMA Retrying ==
    ASSUME Import!ImportAssumption, ImportInv, RowsMove, NEW h \in ImportHandlers, importHandler[h].pc # "idle",
           NEW t \in 0 .. Import!LostToken, NEW e \in 0 .. ImportMaxRetries,
           importHandler' = [importHandler EXCEPT ![h].pc = "retry", ![h].token = t, ![h].effective = e]
    PROVE  HandlersMove
<1>1. PICK r : r = [importHandler[h] EXCEPT !.pc = "retry", !.token = t, !.effective = e]
  OBVIOUS
<1>2. importHandler' = [importHandler EXCEPT ![h] = r]
  BY <1>1
<1>3. r \in Import!Handler /\ r.pc = "retry" /\ r.i = importHandler[h].i
  BY <1>1, InHandler DEF Import!Handler, Import!HandlerPC
<1>4. HandlerNext(r)
  BY <1>3, InHandler DEF HandlerNext
<1> QED BY <1>2, <1>4, OneHandler

LEMMA Tokens ==
    ASSUME Import!ImportAssumption
    PROVE  Import!LostToken \in 0 .. Import!LostToken /\ Import!NoToken \in 0 .. Import!LostToken /\ \A n \in Counts : n \in 0 .. Import!LostToken
BY Budget DEF Import!LostToken, Counts, Import!NoToken

LEMMA PlainRetrying ==
    ASSUME Import!ImportAssumption, ImportInv, RowsMove, NEW h \in ImportHandlers, importHandler[h].pc # "idle", Import!PlainError(h)
    PROVE  HandlersMove
<1>1. importHandler[h].retry \in 0 .. ImportMaxRetries /\ Import!NoToken \in 0 .. Import!LostToken
  BY InHandler, Tokens
<1> QED BY <1>1, Retrying DEF Import!PlainError

LEMMA LosingToken ==
    ASSUME Import!ImportAssumption, ImportInv, RowsMove, NEW h \in ImportHandlers, importHandler[h].pc # "idle",
           NEW t \in 0 .. Import!LostToken, importHandler' = [importHandler EXCEPT ![h].pc = "retry", ![h].token = t]
    PROVE  HandlersMove
<1>1. PICK r : r = [importHandler[h] EXCEPT !.pc = "retry", !.token = t]
  OBVIOUS
<1>2. importHandler' = [importHandler EXCEPT ![h] = r]
  BY <1>1
<1>3. r \in Import!Handler /\ r.pc = "retry" /\ r.i = importHandler[h].i
  BY <1>1, InHandler DEF Import!Handler, Import!HandlerPC
<1>4. HandlerNext(r)
  BY <1>3, InHandler DEF HandlerNext
<1> QED BY <1>2, <1>4, OneHandler

\* A worker's memory stays, is lost, or gets an import that has ended.
LEMMA MemoryRests ==
    ASSUME ImportInv, RowsMove, importCompleted' = importCompleted
    PROVE  MemoryMoves
<1>1. importCompleted \in [ImportHandlers -> SUBSET ImportImports] /\ Import!RememberedHasEnded
  BY DEF ImportInv, Import!TypeOK
<1>2. Import!RememberedHasEnded'
  BY <1>1 DEF Import!RememberedHasEnded, RowsMove, Moves, Passes
<1> QED BY <1>1, <1>2 DEF MemoryMoves

LEMMA MemoryGrows ==
    ASSUME ImportInv, RowsMove, NEW h \in ImportHandlers, NEW i \in ImportImports, importRow[i].status \in Import!Terminal, Import!Remember(h, i)
    PROVE  MemoryMoves
<1>1. importCompleted \in [ImportHandlers -> SUBSET ImportImports] /\ Import!RememberedHasEnded
  BY DEF ImportInv, Import!TypeOK
<1>2. importCompleted' \in [ImportHandlers -> SUBSET ImportImports]
  BY <1>1 DEF Import!Remember
<1>3. ASSUME NEW k \in ImportHandlers, NEW j \in importCompleted'[k] PROVE importRow'[j].status \in Import!Terminal
  <2>1. j \in ImportImports /\ importRow[j].status \in Import!Terminal
    BY <1>1, <1>2, <1>3 DEF Import!Remember, Import!RememberedHasEnded
  <2> QED BY <2>1 DEF RowsMove, Moves, Passes
<1> QED BY <1>2, <1>3 DEF MemoryMoves, Import!RememberedHasEnded

LEMMA MemoryLost ==
    ASSUME ImportInv, RowsMove, NEW h \in ImportHandlers, importCompleted' = [importCompleted EXCEPT ![h] = {}]
    PROVE  MemoryMoves
<1>1. importCompleted \in [ImportHandlers -> SUBSET ImportImports] /\ Import!RememberedHasEnded
  BY DEF ImportInv, Import!TypeOK
<1>2. importCompleted' \in [ImportHandlers -> SUBSET ImportImports]
  BY <1>1
<1>3. ASSUME NEW k \in ImportHandlers, NEW j \in importCompleted'[k] PROVE importRow'[j].status \in Import!Terminal
  <2>1. j \in ImportImports /\ importRow[j].status \in Import!Terminal
    BY <1>1, <1>2, <1>3 DEF Import!RememberedHasEnded
  <2> QED BY <2>1 DEF RowsMove, Moves, Passes
<1> QED BY <1>2, <1>3 DEF MemoryMoves, Import!RememberedHasEnded

\* What most steps leave alone
LEMMA Rests ==
    ASSUME Import!ImportAssumption, ImportInv
    PROVE  /\ importQueue' = importQueue => QueueMoves
           /\ importPublisher' = importPublisher => PublishersMove
           /\ UNCHANGED <<Import!accountVars, importFile, Import!bounds>> => RestMoves
           /\ UNCHANGED <<Import!accountVars, importFile>> /\ Import!Fault => RestMoves
BY DEF ImportInv, Import!TypeOK, QueueMoves, PublishersMove, PublishersOK, RestMoves, Import!accountVars, Import!bounds, Import!Fault

LEMMA Queueing ==
    ASSUME Import!ImportAssumption, ImportInv, NEW i \in ImportImports, NEW n \in 0 .. ImportMaxRetries
    PROVE  /\ Import!Enqueue(i, n) => QueueMoves
           /\ importQueue[i][n] > 0 /\ importQueue' = [importQueue EXCEPT ![i][n] = @ - 1] => QueueMoves
<1>1. importQueue \in [ImportImports -> [0 .. ImportMaxRetries -> Nat]] /\ importQueue[i][n] \in Nat
  BY DEF ImportInv, Import!TypeOK
<1>2. Import!Enqueue(i, n) => QueueMoves
  BY <1>1 DEF Import!Enqueue, QueueMoves
<1>3. importQueue[i][n] > 0 /\ importQueue' = [importQueue EXCEPT ![i][n] = @ - 1] => QueueMoves
  BY <1>1 DEF QueueMoves
<1> QED BY <1>2, <1>3

LEMMA Requeueing ==
    ASSUME Import!ImportAssumption, ImportInv, RowsMove, NEW h \in ImportHandlers, importHandler[h].pc # "idle", Import!Nack(h)
    PROVE  HandlersMove /\ QueueMoves
BY InHandler, Acking, Queueing DEF Import!Nack
-----------------------------------------------------------------------------
(* Users. *)

LEMMA CreateImportStep ==
    ASSUME Import!ImportAssumption, ImportInv, NEW i \in ImportImports, NEW b \in BOOLEAN, Import!CreateImport(i, b)
    PROVE  ImportStep
<1>1. PICK r : r = [Import!NoRow EXCEPT !.status = "PENDING", !.source = TRUE]
  OBVIOUS
<1>2. /\ r.status = "PENDING" /\ r.source = TRUE /\ r.lease = "none" /\ r.attempts = 0
      /\ r \in Import!Row
  BY <1>1, StartValues, RowType, StatusesAre, Budget DEF Import!NoRow
<1>3. RowOK(r)
  BY <1>2, StatusesAre DEF RowOK
<1>4. importRow[i].status = "NONE" /\ Import!Put(i, r) /\ importRuns' = importRuns
  BY <1>1 DEF Import!CreateImport
<1>5. importRow[i].attempts = 0 /\ importRow[i].attempts =< r.attempts
  BY <1>2, <1>4, InRow DEF RowOK
<1>6. Passes(importRow[i], r) /\ Spared(i, r)
  <2>1. Passes(importRow[i], r)
    BY <1>2, <1>4, StatusesAre DEF Passes
  <2>2. importRow[i].lease # "live"
    BY <1>4, InRow DEF RowOK
  <2> QED BY <2>1, <2>2 DEF Spared
<1>7. RowsMove
  BY <1>2, <1>3, <1>4, <1>5, <1>6, PutMoves
<1>8. importRow'[i].status = "PENDING" /\ \A k \in ImportImports : k # i => importRow'[k].status = importRow[k].status
  BY <1>2, <1>4 DEF Import!Put, ImportInv, Import!TypeOK
<1>9. MoneyStep
  BY <1>4, <1>8, MoneyTaken DEF Import!CreateImport
<1>10. HandlersMove /\ MemoryMoves
  BY <1>7, HandlersRest, MemoryRests DEF Import!CreateImport
<1>11. PublishersMove /\ QueueMoves
  BY Rests DEF Import!CreateImport
<1>12. RestMoves
  BY DEF Import!CreateImport, Import!accountVars, Import!bounds, ImportInv, Import!TypeOK, RestMoves
<1> QED BY <1>7, <1>9, <1>10, <1>11, <1>12, WholeStep

LEMMA CancelImportStep ==
    ASSUME Import!ImportAssumption, ImportInv, NEW i \in ImportImports, NEW b \in BOOLEAN, Import!CancelImport(i, b)
    PROVE  ImportStep
<1>1. importRow[i].status \in Import!Live /\ Import!Refund({i}) /\ Import!Put(i, Import!EndedRow(importRow[i], "CANCELLED")) /\ importRuns' = importRuns
  BY DEF Import!CancelImport
<1>2. /\ RowsMove /\ importRow'[i].status = "CANCELLED"
      /\ \A k \in ImportImports : k # i => importRow'[k].status = importRow[k].status
  BY <1>1, PutEnds, StatusesAre
<1>3. MoneyStep
  <2>1. PICK I : I = {i}
    OBVIOUS
  <2>2. /\ I \in SUBSET ImportImports /\ Import!Refund(I)
        /\ \A k \in I : importRow[k].status \in Import!Live \cup Import!Refunded /\ importRow'[k].status \in Import!Refunded
        /\ \A k \in ImportImports \ I : importRow'[k].status = importRow[k].status
    BY <1>1, <1>2, <2>1, StatusesAre
  <2> QED BY <2>2, MoneyReturned
<1>4. HandlersMove /\ MemoryMoves
  BY <1>2, HandlersRest, MemoryRests DEF Import!CancelImport
<1>5. PublishersMove /\ QueueMoves
  BY Rests DEF Import!CancelImport
<1>6. RestMoves
  BY DEF Import!CancelImport, Import!accountVars, Import!bounds, ImportInv, Import!TypeOK, RestMoves
<1> QED BY <1>2, <1>3, <1>4, <1>5, <1>6, WholeStep

LEMMA CancelAllMoves ==
    ASSUME Import!ImportAssumption, ImportInv, NEW b \in BOOLEAN, Import!CancelAll(b)
    PROVE  RowsMove /\ MoneyStep /\ HandlersMove /\ MemoryMoves /\ PublishersMove /\ QueueMoves
<1>1. PICK I : I = {i \in ImportImports : importRow[i].status \in Import!Live \cup Import!Refunded}
  OBVIOUS
<1>2. /\ Import!Refund(I) /\ importRuns' = importRuns
      /\ importRow' = [i \in ImportImports |->
             IF i \in I
             THEN [Import!EndedRow(importRow[i], "CANCELLED") EXCEPT !.pub = "FAILED",
                                                                     !.pubToken = None, !.wait = FALSE]
             ELSE [importRow[i] EXCEPT !.pubToken = None, !.source = FALSE]]
  BY <1>1 DEF Import!CancelAll
<1>3. ASSUME NEW i \in ImportImports
      PROVE  /\ Moves(i)
             /\ i \in I => importRow'[i].status = "CANCELLED"
             /\ i \notin I => importRow'[i].status = importRow[i].status
  <2>0. importRow[i] \in Import!Row /\ RowOK(importRow[i]) /\ importRow[i].status \in Statuses
    BY InRow
  <2>1. CASE i \in I
    <3>1. PICK q : q = Import!EndedRow(importRow[i], "CANCELLED")
      OBVIOUS
    <3>2. q \in Import!Row /\ RowOK(q) /\ q.status = "CANCELLED" /\ q.attempts = importRow[i].attempts
      BY <2>0, <3>1, EndedIs, StatusesAre
    <3>3. PICK r : r = [q EXCEPT !.pub = "FAILED", !.pubToken = None, !.wait = FALSE]
      OBVIOUS
    <3>4. r \in Import!Row /\ RowOK(r) /\ r.status = "CANCELLED" /\ r.attempts = importRow[i].attempts
      BY <3>2, <3>3, RowType DEF RowOK
    <3>5. importRow'[i] = r
      BY <1>2, <2>1, <3>1, <3>3
    <3>6. Passes(importRow[i], r) /\ Spared(i, r)
      BY <1>1, <2>1, <3>4, StatusesAre DEF Passes, Spared
    <3> QED BY <1>2, <2>1, <3>4, <3>5, <3>6, InRow DEF Moves
  <2>2. CASE i \notin I
    <3>1. PICK r : r = [importRow[i] EXCEPT !.pubToken = None, !.source = FALSE]
      OBVIOUS
    <3>2. importRow[i].status \notin Import!Live
      BY <1>1, <2>2
    <3>3. Keeps(importRow[i], r)
      BY <2>0, <3>1, <3>2, Edits
    <3>4. importRow'[i] = r
      BY <1>2, <2>2, <3>1
    <3>5. r.status = importRow[i].status /\ r.token = importRow[i].token /\ r.attempts = importRow[i].attempts /\ r \in Import!Row /\ RowOK(r)
      BY <3>3 DEF Keeps
    <3>6. Passes(importRow[i], r) /\ Spared(i, r)
      BY <3>5 DEF Passes, Spared
    <3> QED BY <1>2, <2>2, <3>4, <3>5, <3>6, InRow DEF Moves
  <2> QED BY <2>1, <2>2
<1>4. RowsMove
  <2>1. importRow' \in [ImportImports -> Import!Row] /\ importRuns' \in [ImportImports -> Nat]
    BY <1>2, <1>3 DEF Moves, ImportInv, Import!TypeOK
  <2> QED BY <1>3, <2>1 DEF RowsMove
<1>5. MoneyStep
  <2>1. /\ I \in SUBSET ImportImports
        /\ \A k \in I : importRow[k].status \in Import!Live \cup Import!Refunded /\ importRow'[k].status \in Import!Refunded
        /\ \A k \in ImportImports \ I : importRow'[k].status = importRow[k].status
    BY <1>1, <1>3, StatusesAre
  <2> QED BY <1>2, <2>1, MoneyReturned
<1>6. HandlersMove /\ MemoryMoves
  BY <1>4, HandlersRest, MemoryRests DEF Import!CancelAll
<1>7. PublishersMove /\ QueueMoves
  BY Rests DEF Import!CancelAll
<1> QED BY <1>4, <1>5, <1>6, <1>7

LEMMA DeletionStep ==
    ASSUME Import!ImportAssumption, ImportInv, NEW b \in BOOLEAN, Import!DeleteEmployee(b) \/ Import!CloseAccount(b)
    PROVE  ImportStep
<1>1. Import!CancelAll(b)
  BY DEF Import!DeleteEmployee, Import!CloseAccount
<1>2. RestMoves
  BY DEF Import!DeleteEmployee, Import!CloseAccount, Import!CancelAll, Import!bounds, ImportInv, Import!TypeOK, RestMoves
<1> QED BY <1>1, <1>2, CancelAllMoves, WholeStep

\* Nothing happens to a row, to money, or to what a worker remembers.
LEMMA QuietStep ==
    ASSUME Import!ImportAssumption, ImportInv, RowsMove, \A k \in ImportImports : importRow'[k].status = importRow[k].status,
           UNCHANGED Import!moneyVars
    PROVE  /\ MoneyStep
           /\ importHandler' = importHandler => HandlersMove
           /\ importCompleted' = importCompleted => MemoryMoves
BY MoneyKept, HandlersRest, MemoryRests

LEMMA SwitchStep ==
    ASSUME Import!ImportAssumption, ImportInv,
           \/ \E p \in {"PAID", "LAPSED"} : Import!ChangePlan(p)
           \/ \E t \in {"active", "renamed", "suspended"} : Import!ChangeTarget(t)
    PROVE  ImportStep
<1>1. Import!Switch
  BY DEF Import!ChangePlan, Import!ChangeTarget
<1>2. RowsMove
  BY <1>1, RowsRest DEF Import!Switch
<1>3. MoneyStep /\ HandlersMove /\ MemoryMoves
  BY <1>1, <1>2, QuietStep DEF Import!Switch
<1>4. PublishersMove /\ QueueMoves
  BY <1>1, Rests DEF Import!Switch
<1>5. RestMoves
  BY DEF Import!ChangePlan, Import!ChangeTarget, Import!Switch, ImportInv, Import!TypeOK, RestMoves
<1> QED BY <1>2, <1>3, <1>4, <1>5, WholeStep

-----------------------------------------------------------------------------
(* The outbox publisher. *)

\* One sweep moves on.
LEMMA SweepMoves ==
    ASSUME Import!ImportAssumption, ImportInv, NEW p \in ImportPublishers
    PROVE  /\ \A pc \in {"idle", "recover", "claim"} : Import!SweepTo(p, pc) => PublishersMove
           /\ importPublisher' = [importPublisher EXCEPT ![p] = Import!IdlePublisher] => PublishersMove
           /\ \A i \in ImportImports, n \in 0 .. ImportMaxRetries :
                importPublisher' = [importPublisher EXCEPT ![p] = [pc |-> "publish", i |-> i, retry |-> n]] => PublishersMove
<1>1. importPublisher \in [ImportPublishers -> Import!Publisher] /\ PublishersOK
  BY DEF ImportInv, Import!TypeOK
<1>2. ASSUME NEW pc \in {"idle", "recover", "claim"}, Import!SweepTo(p, pc) PROVE PublishersMove
  <2>1. PICK q : q = [importPublisher[p] EXCEPT !.pc = pc]
    OBVIOUS
  <2>2. q \in Import!Publisher /\ q.pc = pc
    BY <1>1, <2>1 DEF Import!Publisher
  <2>3. importPublisher' = [importPublisher EXCEPT ![p] = q]
    BY <1>2, <2>1 DEF Import!SweepTo
  <2> QED BY <1>1, <2>2, <2>3 DEF PublishersMove, PublishersOK
<1>3. importPublisher' = [importPublisher EXCEPT ![p] = Import!IdlePublisher] => PublishersMove
  BY <1>1, StartValues DEF PublishersMove, PublishersOK
<1>4. ASSUME NEW i \in ImportImports, NEW n \in 0 .. ImportMaxRetries,
             importPublisher' = [importPublisher EXCEPT ![p] = [pc |-> "publish", i |-> i, retry |-> n]]
      PROVE  PublishersMove
  <2>1. PICK q : q = [pc |-> "publish", i |-> i, retry |-> n]
    OBVIOUS
  <2>2. q \in Import!Publisher /\ q.i = i
    BY <2>1 DEF Import!Publisher
  <2>3. importPublisher' = [importPublisher EXCEPT ![p] = q]
    BY <1>4, <2>1
  <2> QED BY <1>1, <2>2, <2>3 DEF PublishersMove, PublishersOK
<1> QED BY <1>2, <1>3, <1>4

\* Rows change together.
LEMMA AllMove ==
    ASSUME Import!ImportAssumption, ImportInv, NEW f, importRow' = [i \in ImportImports |-> f[i]], importRuns' = importRuns,
           \A i \in ImportImports : /\ f[i] \in Import!Row /\ RowOK(f[i]) /\ f[i].attempts = importRow[i].attempts
                                    /\ Passes(importRow[i], f[i]) /\ Spared(i, f[i])
    PROVE  RowsMove
<1>1. ASSUME NEW i \in ImportImports PROVE Moves(i)
  BY InRow DEF Moves
<1> QED BY <1>1 DEF RowsMove, ImportInv, Import!TypeOK

LEMMA ReconcileStep ==
    ASSUME Import!ImportAssumption, ImportInv, NEW p \in ImportPublishers, Import!Reconcile(p)
    PROVE  ImportStep
<1>1. PICK f : f = [i \in ImportImports |->
         IF importRow[i].pub # "PUBLISHED" /\ importRow[i].status \notin {"NONE", "PENDING"}
            /\ importRow[i].attempts > 0
         THEN [importRow[i] EXCEPT !.pub = "PUBLISHED", !.pubToken = None, !.wait = FALSE]
         ELSE importRow[i]]
  OBVIOUS
<1>2. importRow' = f /\ importRow' = [i \in ImportImports |-> f[i]] /\ importRuns' = importRuns
  BY <1>1 DEF Import!Reconcile
<1>3. ASSUME NEW i \in ImportImports PROVE Keeps(importRow[i], f[i])
  <2>1. f[i] = [importRow[i] EXCEPT !.pub = "PUBLISHED", !.pubToken = None, !.wait = FALSE] \/ f[i] = importRow[i]
    BY <1>1
  <2> QED BY <2>1, InRow, Edits
<1>4. \A i \in ImportImports : /\ f[i] \in Import!Row /\ RowOK(f[i]) /\ f[i].attempts = importRow[i].attempts
                               /\ Passes(importRow[i], f[i]) /\ Spared(i, f[i]) /\ f[i].status = importRow[i].status
  BY <1>3 DEF Keeps, Passes, Spared
<1>5. RowsMove
  BY <1>2, <1>4, AllMove
<1>6. MoneyStep /\ HandlersMove /\ MemoryMoves
  BY <1>2, <1>4, <1>5, QuietStep DEF Import!Reconcile
<1>7. PublishersMove /\ QueueMoves /\ RestMoves
  BY Rests, SweepMoves DEF Import!Reconcile
<1> QED BY <1>5, <1>6, <1>7, WholeStep

LEMMA RecoverStep ==
    ASSUME Import!ImportAssumption, ImportInv, NEW p \in ImportPublishers, Import!Recover(p)
    PROVE  ImportStep
<1>1. PICK f : f = [i \in ImportImports |->
         IF Import!Stranded(i)
         THEN [importRow[i] EXCEPT !.status = "PENDING", !.token = Import!NoToken, !.lease = "none",
                                   !.aged = FALSE, !.pub = "PENDING", !.pubToken = None,
                                   !.wait = FALSE]
         ELSE importRow[i]]
  OBVIOUS
<1>2. importRow' = f /\ importRow' = [i \in ImportImports |-> f[i]] /\ importRuns' = importRuns
  BY <1>1 DEF Import!Recover
<1>3. ASSUME NEW i \in ImportImports
      PROVE  /\ f[i] \in Import!Row /\ RowOK(f[i]) /\ f[i].attempts = importRow[i].attempts
             /\ Passes(importRow[i], f[i]) /\ Spared(i, f[i])
             /\ importRow[i].status \in Import!Live <=> f[i].status \in Import!Live
             /\ importRow[i].status \notin Import!Live => f[i].status = importRow[i].status
  <2>0. importRow[i] \in Import!Row /\ RowOK(importRow[i])
    BY InRow
  <2>1. CASE Import!Stranded(i)
    <3>1. PICK r : r = [importRow[i] EXCEPT !.status = "PENDING", !.token = Import!NoToken, !.lease = "none",
                                   !.aged = FALSE, !.pub = "PENDING", !.pubToken = None, !.wait = FALSE]
      OBVIOUS
    <3>2. f[i] = r
      BY <1>1, <2>1, <3>1
    <3>3. /\ r.status = "PENDING" /\ r.lease = "none" /\ r.attempts = importRow[i].attempts
          /\ r.source = importRow[i].source /\ r.age = importRow[i].age /\ r \in Import!Row
      BY <2>0, <3>1, RowType, StatusesAre, Budget
    <3>4. importRow[i].status \in Import!Live /\ importRow[i].lease # "live" /\ importRow[i].status # "NONE"
      <4>1. importRow[i].status \in {"RUNNING", "RETRYING"}
        BY <2>1 DEF Import!Stranded
      <4>2. importRow[i].lease # "live"
        BY <2>0, <2>1 DEF Import!Stranded, RowOK
      <4> QED BY <4>1, <4>2, StatusesAre
    <3>5. RowOK(r)
      BY <2>0, <3>3, <3>4, StatusesAre DEF RowOK
    <3>6. Passes(importRow[i], r) /\ Spared(i, r)
      BY <3>3, <3>4, StatusesAre DEF Passes, Spared
    <3> QED BY <3>2, <3>3, <3>4, <3>5, <3>6, StatusesAre
  <2>2. CASE ~Import!Stranded(i)
    <3>1. f[i] = importRow[i]
      BY <1>1, <2>2
    <3> QED BY <2>0, <3>1 DEF Passes, Spared
  <2> QED BY <2>1, <2>2
<1>5. RowsMove
  BY <1>2, <1>3, AllMove
<1>6. MoneyStep
  <2>1. \A i \in ImportImports : /\ importRow'[i].status = "NONE" <=> importRow[i].status = "NONE"
                                 /\ importRow'[i].status \in Import!Refunded <=> importRow[i].status \in Import!Refunded
    BY <1>2, <1>3, StatusesAre
  <2> QED BY <2>1, MoneyKept DEF Import!Recover
<1>7. HandlersMove /\ MemoryMoves
  BY <1>5, HandlersRest, MemoryRests DEF Import!Recover
<1>8. PublishersMove /\ QueueMoves /\ RestMoves
  BY Rests, SweepMoves DEF Import!Recover
<1> QED BY <1>5, <1>6, <1>7, <1>8, WholeStep

LEMMA ClaimPublicationStep ==
    ASSUME Import!ImportAssumption, ImportInv, NEW p \in ImportPublishers, Import!ClaimPublication(p)
    PROVE  ImportStep
<1>1. RowsMove /\ PublishersMove /\ \A k \in ImportImports : importRow'[k].status = importRow[k].status
  <2>1. ASSUME NEW i \in ImportImports,
               Import!Put(i, [importRow[i] EXCEPT !.pub = "PUBLISHING", !.pubToken = p, !.wait = TRUE]),
               importPublisher' = [importPublisher EXCEPT ![p] =
                   [pc |-> "publish", i |-> i, retry |-> Import!Smaller(importRow[i].attempts, ImportMaxRetries)]]
        PROVE  RowsMove /\ PublishersMove /\ \A k \in ImportImports : importRow'[k].status = importRow[k].status
    <3>1. PICK r : r = [importRow[i] EXCEPT !.pub = "PUBLISHING", !.pubToken = p, !.wait = TRUE]
      OBVIOUS
    <3>2. Keeps(importRow[i], r)
      BY <3>1, InRow, Edits
    <3>3. RowsMove /\ \A k \in ImportImports : importRow'[k].status = importRow[k].status
      BY <2>1, <3>1, <3>2, PutKeeps DEF Import!ClaimPublication
    <3>4. PICK n : n = Import!Smaller(importRow[i].attempts, ImportMaxRetries)
      OBVIOUS
    <3>5. n \in 0 .. ImportMaxRetries
      BY <3>4, InRow, Budget DEF Import!Smaller, Counts
    <3> QED BY <2>1, <3>3, <3>4, <3>5, SweepMoves
  <2>2. ASSUME Import!SweepTo(p, "idle"), UNCHANGED importRow
        PROVE  RowsMove /\ PublishersMove /\ \A k \in ImportImports : importRow'[k].status = importRow[k].status
    BY <2>2, RowsRest, SweepMoves DEF Import!ClaimPublication
  <2> QED BY <2>1, <2>2 DEF Import!ClaimPublication
<1>2. MoneyStep /\ HandlersMove /\ MemoryMoves
  BY <1>1, QuietStep DEF Import!ClaimPublication
<1>3. QueueMoves /\ RestMoves
  BY Rests DEF Import!ClaimPublication
<1> QED BY <1>1, <1>2, <1>3, WholeStep

\* What is known of a sweep that publishes
LEMMA Publishing ==
    ASSUME ImportInv, NEW p \in ImportPublishers, importPublisher[p].pc = "publish"
    PROVE  importPublisher[p].i \in ImportImports /\ importPublisher[p].retry \in 0 .. ImportMaxRetries
<1>1. importPublisher[p] \in Import!Publisher /\ importPublisher[p].i \in ImportImports
  BY DEF ImportInv, Import!TypeOK, PublishersOK
<1> QED BY <1>1 DEF Import!Publisher

LEMMA PublishStep ==
    ASSUME Import!ImportAssumption, ImportInv, NEW p \in ImportPublishers, Import!Publish(p)
    PROVE  ImportStep
<1>1. PICK i : i = importPublisher[p].i
  OBVIOUS
<1>2. i \in ImportImports /\ importPublisher[p].retry \in 0 .. ImportMaxRetries
  BY <1>1, Publishing DEF Import!Publish
<1>3. RowsMove /\ \A k \in ImportImports : importRow'[k].status = importRow[k].status
  <2>1. CASE Import!Put(i, [importRow[i] EXCEPT !.pub = "PUBLISHED", !.pubToken = None, !.wait = FALSE])
    <3>1. PICK r : r = [importRow[i] EXCEPT !.pub = "PUBLISHED", !.pubToken = None, !.wait = FALSE]
      OBVIOUS
    <3>2. Keeps(importRow[i], r)
      BY <1>2, <3>1, InRow, Edits
    <3> QED BY <1>2, <2>1, <3>1, <3>2, PutKeeps DEF Import!Publish
  <2>2. CASE UNCHANGED importRow
    BY <2>2, RowsRest DEF Import!Publish
  <2> QED BY <1>1, <2>1, <2>2 DEF Import!Publish
<1>4. MoneyStep /\ HandlersMove /\ MemoryMoves
  BY <1>3, QuietStep DEF Import!Publish
<1>5. QueueMoves
  BY <1>1, <1>2, Queueing DEF Import!Publish
<1>6. PublishersMove /\ RestMoves
  BY Rests, SweepMoves DEF Import!Publish
<1> QED BY <1>3, <1>4, <1>5, <1>6, WholeStep

LEMMA PublishFailsStep ==
    ASSUME Import!ImportAssumption, ImportInv, NEW p \in ImportPublishers, NEW a \in BOOLEAN, NEW b \in BOOLEAN,
           Import!PublishFails(p, a, b)
    PROVE  ImportStep
<1>1. PICK i : i = importPublisher[p].i
  OBVIOUS
<1>2. i \in ImportImports /\ importPublisher[p].retry \in 0 .. ImportMaxRetries
  BY <1>1, Publishing DEF Import!PublishFails
<1>3. RowsMove /\ \A k \in ImportImports : importRow'[k].status = importRow[k].status
  <2>1. CASE Import!Put(i, [importRow[i] EXCEPT !.pub = "FAILED", !.pubToken = None])
    <3>1. PICK r : r = [importRow[i] EXCEPT !.pub = "FAILED", !.pubToken = None]
      OBVIOUS
    <3>2. Keeps(importRow[i], r)
      BY <1>2, <3>1, InRow, Edits
    <3> QED BY <1>2, <2>1, <3>1, <3>2, PutKeeps DEF Import!PublishFails
  <2>2. CASE UNCHANGED importRow
    BY <2>2, RowsRest DEF Import!PublishFails
  <2> QED BY <1>1, <2>1, <2>2 DEF Import!PublishFails
<1>4. MoneyStep /\ HandlersMove /\ MemoryMoves
  BY <1>3, QuietStep DEF Import!PublishFails
<1>5. QueueMoves
  <2>1. Import!Enqueue(i, importPublisher[p].retry) \/ importQueue' = importQueue
    BY <1>1 DEF Import!PublishFails
  <2> QED BY <1>2, <2>1, Queueing, Rests
<1>6. PublishersMove /\ RestMoves
  BY Rests, SweepMoves DEF Import!PublishFails
<1> QED BY <1>3, <1>4, <1>5, <1>6, WholeStep
-----------------------------------------------------------------------------
(* A message in the worker. *)

LEMMA ReceiveStep ==
    ASSUME Import!ImportAssumption, ImportInv, NEW h \in ImportHandlers, NEW i \in ImportImports, NEW n \in 0 .. ImportMaxRetries,
           Import!Receive(h, i, n)
    PROVE  ImportStep
<1>1. RowsMove /\ \A k \in ImportImports : importRow'[k].status = importRow[k].status
  BY RowsRest DEF Import!Receive
<1>2. HandlersMove
  <2>1. CASE importHandler' = importHandler
    BY <1>1, <2>1, HandlersRest
  <2>2. CASE importHandler' # importHandler
    <3>1. PICK r : r = [Import!IdleHandler EXCEPT !.pc = "received", !.i = i, !.retry = n, !.effective = n]
      OBVIOUS
    <3>2. importHandler' = [importHandler EXCEPT ![h] = r]
      BY <2>2, <3>1 DEF Import!Receive
    <3>3. r \in Import!Handler /\ r.pc = "received" /\ r.i = i
      BY <3>1, StartValues DEF Import!Handler, Import!HandlerPC
    <3>4. HandlerNext(r)
      BY <3>3 DEF HandlerNext
    <3> QED BY <1>1, <3>2, <3>4, OneHandler
  <2> QED BY <2>1, <2>2
<1>3. MoneyStep /\ MemoryMoves
  BY <1>1, QuietStep DEF Import!Receive
<1>4. QueueMoves
  BY Queueing DEF Import!Receive
<1>5. PublishersMove /\ RestMoves
  BY Rests DEF Import!Receive
<1> QED BY <1>1, <1>2, <1>3, <1>4, <1>5, WholeStep

\* A claim raises the durable counter by at least one, within its budget.
LEMMA Claiming ==
    ASSUME Import!ImportAssumption, ImportInv, NEW i \in ImportImports, NEW n \in 0 .. ImportMaxRetries, Import!BudgetLeft(i),
           importRow[i].status \in Import!Live, importRow[i].lease # "live", Import!Put(i, Import!ClaimedRow(i, n)),
           importRuns' = [importRuns EXCEPT ![i] = @ + 1]
    PROVE  /\ RowsMove
           /\ Import!ClaimNumber(i, n) \in Counts /\ Import!ClaimNumber(i, n) - 1 \in 0 .. ImportMaxRetries
           /\ \A k \in ImportImports : /\ importRow'[k].status = "NONE" <=> importRow[k].status = "NONE"
                                       /\ importRow'[k].status \in Import!Refunded <=> importRow[k].status \in Import!Refunded
<1>1. PICK c : c = Import!ClaimNumber(i, n)
  OBVIOUS
<1>2. importRow[i] \in Import!Row /\ RowOK(importRow[i]) /\ importRow[i].attempts \in Counts /\ importRow[i].attempts \in Int
  BY InRow
<1>3. c \in Int /\ c >= importRow[i].attempts + 1 /\ c >= 1 /\ c =< Import!MaxClaims /\ c - 1 \in 0 .. ImportMaxRetries
  BY <1>1, <1>2, Budget DEF Import!ClaimNumber, Import!Larger, Import!BudgetLeft
<1>4. c \in Counts /\ c # Import!NoToken
  BY <1>3, Budget DEF Counts
<1>5. PICK r : r = [importRow[i] EXCEPT !.status = "RUNNING", !.attempts = c, !.token = c, !.lease = "live",
                                        !.aged = FALSE]
  OBVIOUS
<1>6. importRow' = [importRow EXCEPT ![i] = r] /\ importRow \in [ImportImports -> Import!Row] /\ importRuns \in [ImportImports -> Nat]
  BY <1>1, <1>5 DEF Import!Put, Import!ClaimedRow, ImportInv, Import!TypeOK
<1>7. /\ r \in Import!Row /\ r.status = "RUNNING" /\ r.attempts = c /\ r.token = c /\ r.source = importRow[i].source
      /\ r.age = importRow[i].age
  BY <1>2, <1>4, <1>5, RowType, StatusesAre
<1>8. RowOK(r)
  BY <1>2, <1>4, <1>7, StatusesAre DEF RowOK
<1>9. importRow' \in [ImportImports -> Import!Row] /\ importRow'[i] = r /\ importRuns' \in [ImportImports -> Nat] /\ importRuns'[i] = importRuns[i] + 1
  BY <1>6, <1>7
<1>10. Moves(i)
  <2>1. importRuns'[i] \in Nat /\ importRuns'[i] =< r.attempts
    BY <1>2, <1>3, <1>7, <1>9, InRow
  <2>2. Passes(importRow[i], r) /\ Spared(i, r)
    BY <1>7, StatusesAre DEF Passes, Spared
  <2> QED BY <1>7, <1>8, <1>9, <2>1, <2>2 DEF Moves
<1>11. ASSUME NEW k \in ImportImports, k # i PROVE Moves(k) /\ importRow'[k] = importRow[k]
  <2>1. importRow'[k] = importRow[k] /\ importRuns'[k] = importRuns[k]
    BY <1>6, <1>11
  <2>2. Passes(importRow[k], importRow[k]) /\ Spared(k, importRow[k])
    BY DEF Passes, Spared
  <2> QED BY <2>1, <2>2, InRow DEF Moves
<1>12. RowsMove
  BY <1>9, <1>10, <1>11 DEF RowsMove
<1>13. \A k \in ImportImports : /\ importRow'[k].status = "NONE" <=> importRow[k].status = "NONE"
                                /\ importRow'[k].status \in Import!Refunded <=> importRow[k].status \in Import!Refunded
  BY <1>7, <1>9, <1>11, StatusesAre
<1> QED BY <1>1, <1>3, <1>4, <1>12, <1>13

\* The worker that has just claimed
LEMMA Claimed ==
    ASSUME Import!ImportAssumption, ImportInv, RowsMove, NEW h \in ImportHandlers, NEW i \in ImportImports,
           NEW n \in 0 .. ImportMaxRetries, NEW e \in 0 .. ImportMaxRetries, NEW t \in 0 .. Import!LostToken, NEW s \in BOOLEAN,
           importHandler' = [importHandler EXCEPT ![h] = [pc |-> "claimed", i |-> i, retry |-> n, effective |-> e,
                                                          token |-> t, source |-> s]]
    PROVE  HandlersMove
<1>1. PICK r : r = [pc |-> "claimed", i |-> i, retry |-> n, effective |-> e, token |-> t, source |-> s]
  OBVIOUS
<1>2. r \in Import!Handler /\ r.pc = "claimed" /\ r.i = i
  BY <1>1 DEF Import!Handler, Import!HandlerPC
<1>3. HandlerNext(r)
  BY <1>2 DEF HandlerNext
<1> QED BY <1>1, <1>3, OneHandler

LEMMA ClaimStep ==
    ASSUME Import!ImportAssumption, ImportInv, NEW h \in ImportHandlers, Import!Claim(h)
    PROVE  ImportStep
<1>0. PICK i, n : i = importHandler[h].i /\ n = importHandler[h].retry
  OBVIOUS
<1>1. importHandler[h].pc = "received" /\ i \in ImportImports /\ n \in 0 .. ImportMaxRetries
  BY <1>0, InHandler DEF Import!Claim
<1>2. UNCHANGED <<Import!accountVars, Import!moneyVars, importFile, importQueue, importPublisher, Import!bounds>>
  BY DEF Import!Claim
<1>3. PublishersMove /\ QueueMoves /\ RestMoves
  BY <1>2, Rests
<1>4. ASSUME importRow[i].status \in Import!Terminal, Import!Remember(h, i), Import!Ack(h), UNCHANGED <<importRow, importRuns>>
      PROVE  ImportStep
  <2>1. RowsMove /\ \A k \in ImportImports : importRow'[k].status = importRow[k].status
    BY <1>4, RowsRest
  <2>2. HandlersMove /\ MoneyStep /\ MemoryMoves
    BY <1>1, <1>2, <1>4, <2>1, Acking, QuietStep, MemoryGrows
  <2> QED BY <1>3, <2>1, <2>2, WholeStep
<1>5. ASSUME NEW pc \in {"rejected", "busy"}, Import!Goto(h, pc), UNCHANGED <<importRow, importCompleted, importRuns>>
      PROVE  ImportStep
  <2>1. RowsMove /\ \A k \in ImportImports : importRow'[k].status = importRow[k].status
    BY <1>5, RowsRest
  <2>2. pc \in Import!HandlerPC /\ pc \notin {"cleaning", "cleaned"}
    BY DEF Import!HandlerPC
  <2>3. HandlersMove /\ MoneyStep /\ MemoryMoves
    BY <1>1, <1>2, <1>5, <2>1, <2>2, Going, QuietStep
  <2> QED BY <1>3, <2>1, <2>3, WholeStep
<1>6. ASSUME importHandler' = [importHandler EXCEPT ![h].pc = "retry", ![h].token = Import!LostToken],
             UNCHANGED <<importRow, importRuns, importCompleted>>
      PROVE  ImportStep
  <2>1. RowsMove /\ \A k \in ImportImports : importRow'[k].status = importRow[k].status
    BY <1>6, RowsRest
  <2>2. HandlersMove /\ MoneyStep /\ MemoryMoves
    BY <1>1, <1>2, <1>6, <2>1, LosingToken, Tokens, QuietStep
  <2> QED BY <1>3, <2>1, <2>2, WholeStep
<1>7. ASSUME importRow[i].status \in Import!Live, importRow[i].lease # "live", Import!BudgetLeft(i), Import!Put(i, Import!ClaimedRow(i, n)),
             importRuns' = [importRuns EXCEPT ![i] = @ + 1], UNCHANGED importCompleted,
             importHandler' = [importHandler EXCEPT
                                 ![h] = [pc |-> "claimed", i |-> i, retry |-> n,
                                         effective |-> Import!ClaimNumber(i, n) - 1,
                                         token |-> Import!ClaimNumber(i, n), source |-> importRow[i].source \/ i \in importFile]]
      PROVE  ImportStep
  <2>1. /\ RowsMove
        /\ Import!ClaimNumber(i, n) \in Counts /\ Import!ClaimNumber(i, n) - 1 \in 0 .. ImportMaxRetries
        /\ \A k \in ImportImports : /\ importRow'[k].status = "NONE" <=> importRow[k].status = "NONE"
                                    /\ importRow'[k].status \in Import!Refunded <=> importRow[k].status \in Import!Refunded
    BY <1>1, <1>7, Claiming
  <2>2. PICK e, t, s : /\ e = Import!ClaimNumber(i, n) - 1 /\ t = Import!ClaimNumber(i, n)
                       /\ s = (importRow[i].source \/ i \in importFile)
    OBVIOUS
  <2>3. e \in 0 .. ImportMaxRetries /\ t \in 0 .. Import!LostToken /\ s \in BOOLEAN
    BY <2>1, <2>2, Tokens
  <2>4. HandlersMove
    BY <1>1, <1>7, <2>1, <2>2, <2>3, Claimed
  <2>5. MoneyStep /\ MemoryMoves
    BY <1>2, <1>7, <2>1, MoneyKept, MemoryRests
  <2> QED BY <1>3, <2>1, <2>4, <2>5, WholeStep
<1> QED BY <1>0, <1>4, <1>5, <1>6, <1>7 DEF Import!Claim

LEMMA ClaimFailsStep ==
    ASSUME Import!ImportAssumption, ImportInv, NEW h \in ImportHandlers, NEW b \in BOOLEAN, Import!ClaimFails(h, b)
    PROVE  ImportStep
<1>0. PICK i, n : i = importHandler[h].i /\ n = importHandler[h].retry
  OBVIOUS
<1>1. importHandler[h].pc = "received" /\ i \in ImportImports /\ n \in 0 .. ImportMaxRetries
  BY <1>0, InHandler DEF Import!ClaimFails
<1>2. UNCHANGED <<Import!accountVars, Import!moneyVars, importFile, importQueue, importCompleted, importPublisher>> /\ Import!Fault
  BY DEF Import!ClaimFails
<1>3. PublishersMove /\ QueueMoves /\ RestMoves
  BY <1>2, Rests
<1>4. ASSUME importHandler' = [importHandler EXCEPT ![h].pc = "retry", ![h].token = Import!LostToken], UNCHANGED <<importRow, importRuns>>
      PROVE  ImportStep
  <2>1. RowsMove /\ \A k \in ImportImports : importRow'[k].status = importRow[k].status
    BY <1>4, RowsRest
  <2>2. HandlersMove /\ MoneyStep /\ MemoryMoves
    BY <1>1, <1>2, <1>4, <2>1, LosingToken, Tokens, QuietStep
  <2> QED BY <1>3, <2>1, <2>2, WholeStep
<1>5. ASSUME importRow[i].status \in Import!Live, importRow[i].lease # "live", Import!BudgetLeft(i), Import!Put(i, Import!ClaimedRow(i, n)),
             importRuns' = [importRuns EXCEPT ![i] = @ + 1],
             importHandler' = [importHandler EXCEPT ![h].pc = "retry", ![h].token = Import!ClaimNumber(i, n)]
      PROVE  ImportStep
  <2>1. /\ RowsMove
        /\ Import!ClaimNumber(i, n) \in Counts
        /\ \A k \in ImportImports : /\ importRow'[k].status = "NONE" <=> importRow[k].status = "NONE"
                                    /\ importRow'[k].status \in Import!Refunded <=> importRow[k].status \in Import!Refunded
    BY <1>1, <1>5, Claiming
  <2>2. Import!ClaimNumber(i, n) \in 0 .. Import!LostToken
    BY <2>1, Tokens
  <2>3. HandlersMove
    BY <1>1, <1>5, <2>1, <2>2, LosingToken
  <2>4. MoneyStep /\ MemoryMoves
    BY <1>2, <2>1, MoneyKept, MemoryRests
  <2> QED BY <1>3, <2>1, <2>3, <2>4, WholeStep
<1> QED BY <1>0, <1>4, <1>5 DEF Import!ClaimFails

LEMMA DelayStep ==
    ASSUME Import!ImportAssumption, ImportInv, NEW h \in ImportHandlers, Import!Delay(h)
    PROVE  ImportStep
<1>1. RowsMove /\ \A k \in ImportImports : importRow'[k].status = importRow[k].status
  BY RowsRest DEF Import!Delay
<1>2. HandlersMove /\ QueueMoves
  BY <1>1, Requeueing DEF Import!Delay
<1>3. MoneyStep /\ MemoryMoves
  BY <1>1, QuietStep DEF Import!Delay
<1>4. PublishersMove /\ RestMoves
  BY Rests DEF Import!Delay
<1> QED BY <1>1, <1>2, <1>3, <1>4, WholeStep

\* A settled import ends and its price is returned.
LEMMA Settling ==
    ASSUME Import!ImportAssumption, ImportInv, NEW i \in ImportImports, NEW s \in {"FAILED", "DEAD_LETTERED"}, Import!Settle(i, s),
           importRuns' = importRuns, importRow[i].status \in Import!Live, importRow[i].lease # "live" \/ OwnerMoves(i)
    PROVE  RowsMove /\ MoneyStep /\ importRow'[i].status \in Import!Terminal
<1>1. s \in Import!Terminal /\ s \in Import!Refunded
  BY StatusesAre
<1>2. /\ RowsMove /\ importRow'[i].status = s
      /\ \A k \in ImportImports : k # i => importRow'[k].status = importRow[k].status
  BY <1>1, PutEnds DEF Import!Settle
<1>3. PICK I : I = {i}
  OBVIOUS
<1>4. /\ I \in SUBSET ImportImports /\ Import!Refund(I)
      /\ \A k \in I : importRow[k].status \in Import!Live \cup Import!Refunded /\ importRow'[k].status \in Import!Refunded
      /\ \A k \in ImportImports \ I : importRow'[k].status = importRow[k].status
  BY <1>1, <1>2, <1>3 DEF Import!Settle
<1>5. MoneyStep
  BY <1>4, MoneyReturned
<1> QED BY <1>1, <1>2, <1>5

\* The owner of a live lease acts itself; nobody acts without a token.
LEMMA Owning ==
    ASSUME Import!ImportAssumption, ImportInv, NEW i \in ImportImports, NEW t, Import!OwnsExecution(i, t), importRow[i].lease = "live"
    PROVE  t = importRow[i].token /\ t # Import!NoToken
<1>1. importRow[i].token # Import!NoToken
  BY InRow DEF RowOK
<1> QED BY <1>1 DEF Import!OwnsExecution

LEMMA GoingOn ==
    ASSUME Import!ImportAssumption, ImportInv, NEW h \in ImportHandlers, NEW pc, Import!Goto(h, pc), pc # importHandler[h].pc,
           importHandler[h].pc # "idle"
    PROVE  importHandler'[h] # importHandler[h]
<1>1. importHandler \in [ImportHandlers -> Import!Handler] /\ importHandler[h] \in Import!Handler
  BY DEF ImportInv, Import!TypeOK
<1>2. importHandler'[h].pc = pc
  BY <1>1 DEF Import!Goto, Import!Handler
<1> QED BY <1>2

LEMMA SettleRejectedStep ==
    ASSUME Import!ImportAssumption, ImportInv, NEW h \in ImportHandlers, Import!SettleRejected(h)
    PROVE  ImportStep
<1>0. PICK i : i = importHandler[h].i
  OBVIOUS
<1>1. importHandler[h].pc = "rejected" /\ i \in ImportImports
  BY <1>0, InHandler DEF Import!SettleRejected
<1>2. UNCHANGED <<Import!accountVars, importFile, importQueue, importCompleted, importPublisher, Import!bounds, importRuns>>
  BY DEF Import!SettleRejected
<1>3. PublishersMove /\ QueueMoves /\ RestMoves
  BY <1>2, Rests
<1>4. ASSUME Import!Ack(h) \/ Import!PlainError(h), UNCHANGED <<Import!moneyVars, importRow>>
      PROVE  ImportStep
  <2>1. RowsMove /\ \A k \in ImportImports : importRow'[k].status = importRow[k].status
    BY <1>2, <1>4, RowsRest
  <2>2. HandlersMove /\ MoneyStep /\ MemoryMoves
    BY <1>1, <1>2, <1>4, <2>1, Acking, PlainRetrying, QuietStep
  <2> QED BY <1>3, <2>1, <2>2, WholeStep
<1>5. ASSUME importRow[i].status \in Import!Live, Import!OwnsExecution(i, Import!NoToken), Import!Settle(i, "FAILED"), Import!Goto(h, "cleaning")
      PROVE  ImportStep
  <2>1. importRow[i].lease # "live"
    BY <1>1, <1>5, Owning
  <2>2. RowsMove /\ MoneyStep /\ importRow'[i].status \in Import!Terminal
    BY <1>1, <1>2, <1>5, <2>1, Settling
  <2>3. "cleaning" \in Import!HandlerPC
    BY DEF Import!HandlerPC
  <2>4. HandlersMove /\ MemoryMoves
    BY <1>0, <1>1, <1>2, <1>5, <2>2, <2>3, Going, MemoryRests
  <2> QED BY <1>3, <2>2, <2>4, WholeStep
<1> QED BY <1>0, <1>4, <1>5 DEF Import!SettleRejected

LEMMA ParseStep ==
    ASSUME Import!ImportAssumption, ImportInv, NEW h \in ImportHandlers, NEW o \in {"good", "bad", "broken"}, Import!Parse(h, o)
    PROVE  ImportStep
<1>1. RowsMove /\ \A k \in ImportImports : importRow'[k].status = importRow[k].status
  BY RowsRest DEF Import!Parse
<1>2. \E pc \in {"parsed", "invalid", "retry"} : Import!Goto(h, pc)
  <2>1. CASE o = "good"
    BY <2>1 DEF Import!Parse
  <2>2. CASE o = "bad"
    BY <2>2 DEF Import!Parse
  <2>3. CASE o = "broken"
    BY <2>3 DEF Import!Parse
  <2> QED BY <2>1, <2>2, <2>3
<1>3. HandlersMove
  <2>1. PICK pc \in {"parsed", "invalid", "retry"} : Import!Goto(h, pc)
    BY <1>2
  <2>2. pc \in Import!HandlerPC /\ pc \notin {"cleaning", "cleaned"} /\ importHandler[h].pc # "idle"
    BY DEF Import!HandlerPC, Import!Parse
  <2> QED BY <1>1, <2>1, <2>2, Going
<1>4. MoneyStep /\ MemoryMoves
  BY <1>1, QuietStep DEF Import!Parse
<1>5. PublishersMove /\ QueueMoves /\ RestMoves
  BY Rests DEF Import!Parse
<1> QED BY <1>1, <1>3, <1>4, <1>5, WholeStep
\* The owner completes the import, with or without knowing it.
LEMMA Completing ==
    ASSUME Import!ImportAssumption, ImportInv, NEW h \in ImportHandlers, importHandler[h].pc # "idle", Import!Completable(h),
           Import!Put(importHandler[h].i, Import!EndedRow(importRow[importHandler[h].i], "SUCCEEDED")), importRuns' = importRuns,
           UNCHANGED Import!moneyVars, NEW pc, Import!Goto(h, pc), pc # importHandler[h].pc
    PROVE  RowsMove /\ MoneyStep /\ importRow'[importHandler[h].i].status \in Import!Terminal
<1>0. PICK i : i = importHandler[h].i
  OBVIOUS
<1>1. i \in ImportImports /\ importRow[i].status = "RUNNING" /\ importRow[i].token = importHandler[h].token
  BY <1>0, InHandler DEF Import!Completable
<1>2. OwnerMoves(i)
  BY <1>0, <1>1, GoingOn DEF OwnerMoves
<1>3. importRow[i].status \in Import!Live /\ "SUCCEEDED" \in Import!Terminal
  BY <1>1, StatusesAre
<1>4. /\ RowsMove /\ importRow'[i].status = "SUCCEEDED"
      /\ \A k \in ImportImports : k # i => importRow'[k].status = importRow[k].status
  BY <1>0, <1>1, <1>2, <1>3, PutEnds
<1>5. \A k \in ImportImports : /\ importRow'[k].status = "NONE" <=> importRow[k].status = "NONE"
                               /\ importRow'[k].status \in Import!Refunded <=> importRow[k].status \in Import!Refunded
  BY <1>1, <1>4, StatusesAre
<1> QED BY <1>0, <1>3, <1>4, <1>5, MoneyKept

LEMMA CompleteStep ==
    ASSUME Import!ImportAssumption, ImportInv, NEW h \in ImportHandlers, Import!Complete(h)
    PROVE  ImportStep
<1>1. importHandler[h].pc = "parsed"
      /\ UNCHANGED <<Import!accountVars, Import!moneyVars, importFile, importQueue, importCompleted, importPublisher, Import!bounds, importRuns>>
  BY DEF Import!Complete
<1>2. PublishersMove /\ QueueMoves /\ RestMoves
  BY <1>1, Rests
<1>3. "cleaned" \in Import!HandlerPC /\ "retry" \in Import!HandlerPC /\ "invalid" \in Import!HandlerPC
  BY DEF Import!HandlerPC
<1>4. ASSUME Import!Completable(h), Import!Put(importHandler[h].i, Import!EndedRow(importRow[importHandler[h].i], "SUCCEEDED")), Import!Goto(h, "cleaned")
      PROVE  ImportStep
  <2>1. RowsMove /\ MoneyStep /\ importRow'[importHandler[h].i].status \in Import!Terminal
    BY <1>1, <1>4, Completing
  <2>2. HandlersMove /\ MemoryMoves
    BY <1>1, <1>3, <1>4, <2>1, Going, MemoryRests
  <2> QED BY <1>2, <2>1, <2>2, WholeStep
<1>5. ASSUME Import!Goto(h, "retry") \/ Import!Goto(h, "invalid"), UNCHANGED importRow
      PROVE  ImportStep
  <2>1. RowsMove /\ \A k \in ImportImports : importRow'[k].status = importRow[k].status
    BY <1>1, <1>5, RowsRest
  <2>2. HandlersMove /\ MoneyStep /\ MemoryMoves
    BY <1>1, <1>3, <1>5, <2>1, Going, QuietStep
  <2> QED BY <1>2, <2>1, <2>2, WholeStep
<1> QED BY <1>4, <1>5 DEF Import!Complete

LEMMA CompleteFailsStep ==
    ASSUME Import!ImportAssumption, ImportInv, NEW h \in ImportHandlers, NEW b \in BOOLEAN, Import!CompleteFails(h, b)
    PROVE  ImportStep
<1>1. importHandler[h].pc = "parsed" /\ Import!Goto(h, "retry") /\ Import!Fault
      /\ UNCHANGED <<Import!accountVars, Import!moneyVars, importFile, importQueue, importCompleted, importPublisher, importRuns>>
  BY DEF Import!CompleteFails
<1>2. PublishersMove /\ QueueMoves /\ RestMoves
  BY <1>1, Rests
<1>3. RowsMove /\ MoneyStep
  <2>1. CASE Import!Completable(h) /\ Import!Put(importHandler[h].i, Import!EndedRow(importRow[importHandler[h].i], "SUCCEEDED"))
    BY <1>1, <2>1, Completing
  <2>2. CASE UNCHANGED importRow
    BY <1>1, <2>2, RowsRest, QuietStep
  <2> QED BY <2>1, <2>2 DEF Import!CompleteFails
<1>4. "retry" \in Import!HandlerPC
  BY DEF Import!HandlerPC
<1>5. HandlersMove /\ MemoryMoves
  BY <1>1, <1>3, <1>4, Going, MemoryRests
<1> QED BY <1>2, <1>3, <1>5, WholeStep

\* The worker's own import is settled and its document cleaned up.
LEMMA OwnSettling ==
    ASSUME Import!ImportAssumption, ImportInv, NEW h \in ImportHandlers, importHandler[h].pc \in {"invalid", "exhausted"},
           NEW s \in {"FAILED", "DEAD_LETTERED"}, importRow[importHandler[h].i].status \in Import!Live,
           Import!OwnsExecution(importHandler[h].i, importHandler[h].token), Import!Settle(importHandler[h].i, s), Import!Goto(h, "cleaning"),
           UNCHANGED <<importCompleted, importRuns>>
    PROVE  RowsMove /\ MoneyStep /\ HandlersMove /\ MemoryMoves
<1>0. PICK i : i = importHandler[h].i
  OBVIOUS
<1>1. i \in ImportImports
  BY <1>0, InHandler
<1>2. importRow[i].lease # "live" \/ OwnerMoves(i)
  BY <1>0, <1>1, Owning, GoingOn DEF OwnerMoves
<1>3. RowsMove /\ MoneyStep /\ importRow'[i].status \in Import!Terminal
  BY <1>0, <1>1, <1>2, Settling
<1>4. "cleaning" \in Import!HandlerPC
  BY DEF Import!HandlerPC
<1>5. HandlersMove /\ MemoryMoves
  BY <1>0, <1>3, <1>4, Going, MemoryRests
<1> QED BY <1>3, <1>5

LEMMA SettleInvalidStep ==
    ASSUME Import!ImportAssumption, ImportInv, NEW h \in ImportHandlers, Import!SettleInvalid(h)
    PROVE  ImportStep
<1>1. importHandler[h].pc = "invalid"
      /\ UNCHANGED <<Import!accountVars, importFile, importQueue, importCompleted, importPublisher, Import!bounds, importRuns>>
  BY DEF Import!SettleInvalid
<1>2. PublishersMove /\ QueueMoves /\ RestMoves
  BY <1>1, Rests
<1>3. "cleaning" \in Import!HandlerPC /\ importHandler[h].i \in ImportImports
  BY <1>1, InHandler DEF Import!HandlerPC
<1>4. ASSUME Import!Ack(h) \/ (importRow[importHandler[h].i].status \in Import!Terminal /\ Import!Goto(h, "cleaning")),
             UNCHANGED <<Import!moneyVars, importRow>>
      PROVE  ImportStep
  <2>1. RowsMove /\ \A k \in ImportImports : importRow'[k].status = importRow[k].status
    BY <1>1, <1>4, RowsRest
  <2>2. HandlersMove
    BY <1>1, <1>3, <1>4, <2>1, Acking, Going
  <2>3. MoneyStep /\ MemoryMoves
    BY <1>1, <1>4, <2>1, QuietStep
  <2> QED BY <1>2, <2>1, <2>2, <2>3, WholeStep
<1>5. ASSUME importRow[importHandler[h].i].status \in Import!Live, Import!OwnsExecution(importHandler[h].i, importHandler[h].token),
             Import!Settle(importHandler[h].i, "FAILED"), Import!Goto(h, "cleaning")
      PROVE  ImportStep
  <2>1. RowsMove /\ MoneyStep /\ HandlersMove /\ MemoryMoves
    BY <1>1, <1>5, OwnSettling
  <2> QED BY <1>2, <2>1, WholeStep
<1> QED BY <1>4, <1>5 DEF Import!SettleInvalid

LEMMA SettleFailsStep ==
    ASSUME Import!ImportAssumption, ImportInv, NEW h \in ImportHandlers, Import!SettleFails(h)
    PROVE  ImportStep
<1>1. RowsMove /\ \A k \in ImportImports : importRow'[k].status = importRow[k].status
  BY RowsRest DEF Import!SettleFails
<1>2. HandlersMove
  BY <1>1, PlainRetrying DEF Import!SettleFails
<1>3. MoneyStep /\ MemoryMoves
  BY <1>1, QuietStep DEF Import!SettleFails
<1>4. PublishersMove /\ QueueMoves /\ RestMoves
  BY Rests DEF Import!SettleFails
<1> QED BY <1>1, <1>2, <1>3, <1>4, WholeStep

\* The document leaves the row of an import that has ended.
LEMMA Erasing ==
    ASSUME Import!ImportAssumption, ImportInv, NEW h \in ImportHandlers, importHandler[h].pc \in {"cleaning", "cleaned"},
           Import!Put(importHandler[h].i, [importRow[importHandler[h].i] EXCEPT !.source = FALSE]), importRuns' = importRuns
    PROVE  RowsMove /\ \A k \in ImportImports : importRow'[k].status = importRow[k].status
<1>0. PICK i : i = importHandler[h].i
  OBVIOUS
<1>1. i \in ImportImports /\ importRow[i].status \in Import!Terminal
  BY <1>0, InHandler
<1>2. PICK r : r = [importRow[i] EXCEPT !.source = FALSE]
  OBVIOUS
<1>3. Keeps(importRow[i], r)
  BY <1>1, <1>2, InRow, Edits
<1> QED BY <1>0, <1>1, <1>2, <1>3, PutKeeps

LEMMA CleanupStep ==
    ASSUME Import!ImportAssumption, ImportInv, NEW h \in ImportHandlers, Import!Cleanup(h)
    PROVE  ImportStep
<1>1. RowsMove /\ \A k \in ImportImports : importRow'[k].status = importRow[k].status
  BY Erasing DEF Import!Cleanup
<1>2. importHandler[h].i \in ImportImports /\ importRow[importHandler[h].i].status \in Import!Terminal
  BY InHandler DEF Import!Cleanup
<1>3. HandlersMove /\ MoneyStep
  BY <1>1, Acking, QuietStep DEF Import!Cleanup
<1>4. MemoryMoves
  <2>1. Import!Remember(h, importHandler[h].i) \/ importCompleted' = importCompleted
    BY DEF Import!Cleanup
  <2> QED BY <1>1, <1>2, <2>1, MemoryGrows, MemoryRests
<1>5. PublishersMove /\ QueueMoves
  BY Rests DEF Import!Cleanup
<1>6. RestMoves
  BY DEF Import!Cleanup, Import!accountVars, Import!bounds, ImportInv, Import!TypeOK, RestMoves
<1> QED BY <1>1, <1>3, <1>4, <1>5, <1>6, WholeStep

LEMMA CleanupFailsStep ==
    ASSUME Import!ImportAssumption, ImportInv, NEW h \in ImportHandlers, Import!CleanupFails(h)
    PROVE  ImportStep
<1>1. RowsMove /\ \A k \in ImportImports : importRow'[k].status = importRow[k].status
  BY Erasing DEF Import!CleanupFails
<1>2. HandlersMove
  BY <1>1, PlainRetrying DEF Import!CleanupFails
<1>3. MoneyStep /\ MemoryMoves
  BY <1>1, QuietStep DEF Import!CleanupFails
<1>4. PublishersMove /\ QueueMoves /\ RestMoves
  BY Rests DEF Import!CleanupFails
<1> QED BY <1>1, <1>2, <1>3, <1>4, WholeStep

LEMMA ReplaceStep ==
    ASSUME Import!ImportAssumption, ImportInv, NEW h \in ImportHandlers, Import!Replace(h)
    PROVE  ImportStep
<1>1. RowsMove /\ \A k \in ImportImports : importRow'[k].status = importRow[k].status
  BY RowsRest DEF Import!Replace
<1>2. /\ importHandler[h].pc # "idle" /\ importHandler[h].i \in ImportImports
      /\ importHandler[h].effective \in 0 .. ImportMaxRetries /\ importHandler[h].effective \in Int
      /\ "exhausted" \in Import!HandlerPC /\ "replaced" \in Import!HandlerPC
  BY InHandler DEF Import!Replace, Import!HandlerPC
<1>3. HandlersMove
  <2>1. Import!Goto(h, "exhausted") \/ Import!Goto(h, "replaced")
    BY DEF Import!Replace
  <2> QED BY <1>1, <1>2, <2>1, Going
<1>4. QueueMoves
  <2>1. CASE importHandler[h].effective >= ImportMaxRetries
    BY <2>1, Rests DEF Import!Replace
  <2>2. CASE ~(importHandler[h].effective >= ImportMaxRetries)
    <3>1. importHandler[h].effective + 1 \in 0 .. ImportMaxRetries
      BY <1>2, <2>2, Budget
    <3> QED BY <1>2, <2>2, <3>1, Queueing DEF Import!Replace
  <2> QED BY <2>1, <2>2
<1>5. MoneyStep /\ MemoryMoves
  BY <1>1, QuietStep DEF Import!Replace
<1>6. PublishersMove /\ RestMoves
  BY Rests DEF Import!Replace
<1> QED BY <1>1, <1>3, <1>4, <1>5, <1>6, WholeStep

LEMMA OneSet ==
    ASSUME NEW Q \in [ImportImports -> [0 .. ImportMaxRetries -> Nat]], NEW i \in ImportImports, NEW n \in 0 .. ImportMaxRetries,
           NEW x \in Nat
    PROVE  [Q EXCEPT ![i][n] = x] \in [ImportImports -> [0 .. ImportMaxRetries -> Nat]]
<1>1. Q[i] \in [0 .. ImportMaxRetries -> Nat]
  OBVIOUS
<1>2. PICK w : w = [Q[i] EXCEPT ![n] = x]
  OBVIOUS
<1>3. w \in [0 .. ImportMaxRetries -> Nat]
  BY <1>1, <1>2
<1>4. [Q EXCEPT ![i][n] = x] = [Q EXCEPT ![i] = w]
  BY <1>2
<1> QED BY <1>3, <1>4

LEMMA ReplaceFailsStep ==
    ASSUME Import!ImportAssumption, ImportInv, NEW h \in ImportHandlers, NEW b \in BOOLEAN, Import!ReplaceFails(h, b)
    PROVE  ImportStep
<1>1. RowsMove /\ \A k \in ImportImports : importRow'[k].status = importRow[k].status
  BY RowsRest DEF Import!ReplaceFails
<1>2. PICK i, n, e : i = importHandler[h].i /\ n = importHandler[h].retry /\ e = importHandler[h].effective
  OBVIOUS
<1>3. i \in ImportImports /\ n \in 0 .. ImportMaxRetries /\ e \in 0 .. ImportMaxRetries /\ e \in Int /\ e < ImportMaxRetries
  BY <1>2, InHandler DEF Import!ReplaceFails
<1>4. e + 1 \in 0 .. ImportMaxRetries
  BY <1>3, Budget
<1>5. QueueMoves
  <2>1. importQueue \in [ImportImports -> [0 .. ImportMaxRetries -> Nat]]
    BY DEF ImportInv, Import!TypeOK
  <2>2. importQueue[i] \in [0 .. ImportMaxRetries -> Nat]
    BY <1>3, <2>1
  <2>3. importQueue[i][n] \in Nat /\ importQueue[i][e + 1] \in Nat
    BY <1>3, <1>4, <2>2
  <2>4. PICK x, y : x = importQueue[i][n] + 1 /\ y = importQueue[i][e + 1] + 1
    OBVIOUS
  <2>5. x \in Nat /\ y \in Nat
    BY <2>3, <2>4
  <2>6. PICK c : c = [importQueue EXCEPT ![i][n] = x]
    OBVIOUS
  <2>7. c \in [ImportImports -> [0 .. ImportMaxRetries -> Nat]]
    BY <1>3, <2>1, <2>5, <2>6, OneSet
  <2>8. CASE b = TRUE
    <3>1. importQueue' = [importQueue EXCEPT ![i][n] = x, ![i][e + 1] = y]
      BY <1>2, <2>4, <2>8 DEF Import!ReplaceFails
    <3>2. importQueue' = [c EXCEPT ![i][e + 1] = y]
      BY <2>6, <3>1
    <3> QED BY <1>3, <1>4, <2>5, <2>7, <3>2, OneSet DEF QueueMoves
  <2>9. CASE b = FALSE
    <3>1. importQueue' = c
      BY <1>2, <2>4, <2>6, <2>9 DEF Import!ReplaceFails
    <3> QED BY <2>7, <3>1 DEF QueueMoves
  <2> QED BY <2>8, <2>9
<1>6. HandlersMove /\ MoneyStep /\ MemoryMoves
  BY <1>1, Acking, QuietStep DEF Import!ReplaceFails
<1>7. PublishersMove /\ RestMoves
  BY Rests DEF Import!ReplaceFails
<1> QED BY <1>1, <1>5, <1>6, <1>7, WholeStep

LEMMA MarkRetryingStep ==
    ASSUME Import!ImportAssumption, ImportInv, NEW h \in ImportHandlers, NEW b \in BOOLEAN, Import!MarkRetrying(h, b)
    PROVE  ImportStep
<1>0. PICK i, e : i = importHandler[h].i /\ e = importHandler[h].effective
  OBVIOUS
<1>1. /\ importHandler[h].pc = "replaced" /\ i \in ImportImports /\ e \in 0 .. ImportMaxRetries /\ e \in Int
      /\ Import!Ack(h) /\ UNCHANGED <<Import!accountVars, Import!moneyVars, importFile, importQueue, importCompleted, importPublisher, importRuns>>
  BY <1>0, InHandler DEF Import!MarkRetrying
<1>2. RowsMove /\ MoneyStep
  <2>1. CASE UNCHANGED importRow
    BY <1>1, <2>1, RowsRest, QuietStep
  <2>2. CASE importRow' # importRow
    <3>1. PICK r : r = [importRow[i] EXCEPT !.status = "RETRYING", !.token = Import!NoToken,
                                            !.attempts = Import!Larger(@, e + 1), !.lease = "none", !.aged = FALSE]
      OBVIOUS
    <3>2. importRow[i].status \in Import!Live /\ Import!OwnsExecution(i, importHandler[h].token) /\ Import!Put(i, r)
      BY <1>0, <2>2, <3>1 DEF Import!MarkRetrying
    <3>3. PICK a : a = Import!Larger(importRow[i].attempts, e + 1)
      OBVIOUS
    <3>4. a \in Counts /\ importRow[i].attempts =< a
      <4>1. importRow[i].attempts \in Counts /\ e + 1 \in Counts /\ importRow[i].attempts \in Int
        BY <1>1, InRow, Budget
      <4> QED BY <1>1, <3>3, <4>1 DEF Import!Larger
    <3>5. /\ r \in Import!Row /\ r.status = "RETRYING" /\ r.attempts = a /\ r.lease = "none"
          /\ r.source = importRow[i].source /\ r.age = importRow[i].age
      BY <1>1, <3>1, <3>3, <3>4, InRow, RowType, StatusesAre, Budget
    <3>6. RowOK(r)
      BY <1>1, <3>2, <3>5, InRow, StatusesAre DEF RowOK
    <3>7. importRow[i].lease # "live" \/ OwnerMoves(i)
      <4>1. importHandler'[h] # importHandler[h]
        BY <1>1, StartValues DEF Import!Ack, ImportInv, Import!TypeOK
      <4> QED BY <1>0, <1>1, <3>2, <4>1, Owning DEF OwnerMoves
    <3>8. Passes(importRow[i], r) /\ Spared(i, r)
      BY <3>2, <3>5, <3>7, StatusesAre DEF Passes, Spared
    <3>9. RowsMove
      BY <1>1, <3>2, <3>4, <3>5, <3>6, <3>8, PutMoves
    <3>10. \A k \in ImportImports : /\ importRow'[k].status = "NONE" <=> importRow[k].status = "NONE"
                                    /\ importRow'[k].status \in Import!Refunded <=> importRow[k].status \in Import!Refunded
      <4>1. importRow'[i] = r /\ \A k \in ImportImports : k # i => importRow'[k] = importRow[k]
        BY <1>1, <3>2 DEF Import!Put, ImportInv, Import!TypeOK
      <4> QED BY <3>2, <3>5, <4>1, StatusesAre
    <3> QED BY <1>1, <3>9, <3>10, MoneyKept
  <2> QED BY <2>1, <2>2
<1>3. HandlersMove /\ MemoryMoves
  BY <1>1, <1>2, Acking, MemoryRests
<1>4. RestMoves
  <2>1. Import!Fault \/ UNCHANGED Import!bounds
    BY DEF Import!MarkRetrying
  <2> QED BY <1>1, <2>1, Rests
<1>5. PublishersMove /\ QueueMoves
  BY <1>1, Rests
<1> QED BY <1>2, <1>3, <1>4, <1>5, WholeStep

LEMMA SettleExhaustedStep ==
    ASSUME Import!ImportAssumption, ImportInv, NEW h \in ImportHandlers, Import!SettleExhausted(h)
    PROVE  ImportStep
<1>1. importHandler[h].pc = "exhausted"
      /\ UNCHANGED <<Import!accountVars, importFile, importQueue, importCompleted, importPublisher, Import!bounds, importRuns>>
  BY DEF Import!SettleExhausted
<1>2. PublishersMove /\ QueueMoves /\ RestMoves
  BY <1>1, Rests
<1>3. "poison" \in Import!HandlerPC
  BY DEF Import!HandlerPC
<1>4. ASSUME Import!Ack(h) \/ Import!Goto(h, "poison"), UNCHANGED <<Import!moneyVars, importRow>>
      PROVE  ImportStep
  <2>1. RowsMove /\ \A k \in ImportImports : importRow'[k].status = importRow[k].status
    BY <1>1, <1>4, RowsRest
  <2>2. HandlersMove
    BY <1>1, <1>3, <1>4, <2>1, Acking, Going
  <2>3. MoneyStep /\ MemoryMoves
    BY <1>1, <1>4, <2>1, QuietStep
  <2> QED BY <1>2, <2>1, <2>2, <2>3, WholeStep
<1>5. ASSUME importRow[importHandler[h].i].status \in Import!Live, Import!OwnsExecution(importHandler[h].i, importHandler[h].token),
             Import!Settle(importHandler[h].i, "DEAD_LETTERED"), Import!Goto(h, "cleaning")
      PROVE  ImportStep
  <2>1. RowsMove /\ MoneyStep /\ HandlersMove /\ MemoryMoves
    BY <1>1, <1>5, OwnSettling
  <2> QED BY <1>2, <2>1, WholeStep
<1> QED BY <1>4, <1>5 DEF Import!SettleExhausted

LEMMA SettleExhaustedFailsStep ==
    ASSUME Import!ImportAssumption, ImportInv, NEW h \in ImportHandlers, Import!SettleExhaustedFails(h)
    PROVE  ImportStep
<1>1. RowsMove /\ \A k \in ImportImports : importRow'[k].status = importRow[k].status
  BY RowsRest DEF Import!SettleExhaustedFails
<1>2. HandlersMove /\ QueueMoves
  BY <1>1, Requeueing DEF Import!SettleExhaustedFails
<1>3. MoneyStep /\ MemoryMoves
  BY <1>1, QuietStep DEF Import!SettleExhaustedFails
<1>4. PublishersMove /\ RestMoves
  BY Rests DEF Import!SettleExhaustedFails
<1> QED BY <1>1, <1>2, <1>3, <1>4, WholeStep

LEMMA ErasePoisonStep ==
    ASSUME Import!ImportAssumption, ImportInv, NEW h \in ImportHandlers, Import!ErasePoison(h)
    PROVE  ImportStep
<1>1. RowsMove /\ \A k \in ImportImports : importRow'[k].status = importRow[k].status
  BY RowsRest DEF Import!ErasePoison
<1>2. HandlersMove /\ QueueMoves
  <2>1. Import!Nack(h) \/ (Import!Ack(h) /\ importQueue' = importQueue)
    BY DEF Import!ErasePoison
  <2>2. importHandler[h].pc # "idle"
    BY DEF Import!ErasePoison
  <2> QED BY <1>1, <2>1, <2>2, Requeueing, Acking, Rests
<1>3. MoneyStep /\ MemoryMoves
  BY <1>1, QuietStep DEF Import!ErasePoison
<1>4. PublishersMove /\ RestMoves
  BY Rests DEF Import!ErasePoison
<1> QED BY <1>1, <1>2, <1>3, <1>4, WholeStep

LEMMA HandlerStopsStep ==
    ASSUME Import!ImportAssumption, ImportInv, NEW h \in ImportHandlers, Import!HandlerStops(h)
    PROVE  ImportStep
<1>1. RowsMove /\ \A k \in ImportImports : importRow'[k].status = importRow[k].status
  BY RowsRest DEF Import!HandlerStops
<1>2. HandlersMove /\ QueueMoves
  BY <1>1, Requeueing DEF Import!HandlerStops
<1>3. MoneyStep /\ MemoryMoves
  BY <1>1, QuietStep, MemoryLost DEF Import!HandlerStops
<1>4. PublishersMove /\ RestMoves
  BY Rests DEF Import!HandlerStops
<1> QED BY <1>1, <1>2, <1>3, <1>4, WholeStep

-----------------------------------------------------------------------------
(* Retention and time. *)

LEMMA SweepExpiredStep ==
    ASSUME Import!ImportAssumption, ImportInv, NEW i \in ImportImports, Import!SweepExpired(i)
    PROVE  ImportStep
<1>1. importRow[i].lease # "live"
  BY Owning DEF Import!SweepExpired
<1>2. RowsMove /\ MoneyStep
  BY <1>1, Settling DEF Import!SweepExpired
<1>3. HandlersMove /\ MemoryMoves
  BY <1>2, HandlersRest, MemoryRests DEF Import!SweepExpired
<1>4. PublishersMove /\ QueueMoves /\ RestMoves
  BY Rests DEF Import!SweepExpired
<1> QED BY <1>2, <1>3, <1>4, WholeStep

LEMMA SweepOverdueStep ==
    ASSUME Import!ImportAssumption, ImportInv, NEW i \in ImportImports, Import!SweepOverdue(i)
    PROVE  ImportStep
<1>1. PICK r : r = [importRow[i] EXCEPT !.source = FALSE]
  OBVIOUS
<1>2. Keeps(importRow[i], r)
  BY <1>1, InRow, Edits DEF Import!SweepOverdue
<1>3. RowsMove /\ \A k \in ImportImports : importRow'[k].status = importRow[k].status
  BY <1>1, <1>2, PutKeeps DEF Import!SweepOverdue
<1>4. MoneyStep /\ HandlersMove /\ MemoryMoves
  BY <1>3, QuietStep DEF Import!SweepOverdue
<1>5. PublishersMove /\ QueueMoves
  BY Rests DEF Import!SweepOverdue
<1>6. RestMoves
  BY DEF Import!SweepOverdue, Import!accountVars, Import!bounds, ImportInv, Import!TypeOK, RestMoves
<1> QED BY <1>3, <1>4, <1>5, <1>6, WholeStep

LEMMA CleanupOrphanStep ==
    ASSUME Import!ImportAssumption, ImportInv, NEW i \in ImportImports, Import!CleanupOrphan(i)
    PROVE  ImportStep
<1>1. RowsMove /\ \A k \in ImportImports : importRow'[k].status = importRow[k].status
  BY RowsRest DEF Import!CleanupOrphan
<1>2. MoneyStep /\ HandlersMove /\ MemoryMoves
  BY <1>1, QuietStep DEF Import!CleanupOrphan
<1>3. PublishersMove /\ QueueMoves
  BY Rests DEF Import!CleanupOrphan
<1>4. RestMoves
  BY DEF Import!CleanupOrphan, Import!accountVars, Import!bounds, ImportInv, Import!TypeOK, RestMoves
<1> QED BY <1>1, <1>2, <1>3, <1>4, WholeStep

LEMMA AgesStep ==
    ASSUME Import!ImportAssumption, ImportInv, NEW i \in ImportImports, NEW r, Keeps(importRow[i], r), Import!Ages(i, r),
           Import!Fault \/ UNCHANGED Import!bounds
    PROVE  ImportStep
<1>1. RowsMove /\ \A k \in ImportImports : importRow'[k].status = importRow[k].status
  BY PutKeeps DEF Import!Ages
<1>2. MoneyStep /\ HandlersMove /\ MemoryMoves
  BY <1>1, QuietStep DEF Import!Ages
<1>3. PublishersMove /\ QueueMoves /\ RestMoves
  BY Rests DEF Import!Ages
<1> QED BY <1>1, <1>2, <1>3, WholeStep

LEMMA TimeSteps ==
    ASSUME Import!ImportAssumption, ImportInv, NEW i \in ImportImports, Import!TimeStep(i) \/ Import!LeaseEndsEarly(i)
    PROVE  ImportStep
<1>0. importRow[i] \in Import!Row /\ RowOK(importRow[i])
  BY InRow
<1>1. CASE Import!Expire(i)
  <2>1. PICK a : a = IF importRow[i].age = "young" THEN "expired" ELSE "overdue"
    OBVIOUS
  <2>2. PICK r : r = [importRow[i] EXCEPT !.age = a]
    OBVIOUS
  <2>3. Keeps(importRow[i], r)
    BY <1>0, <1>1, <2>1, <2>2, Edits DEF Import!Expire
  <2>4. Import!Ages(i, r) /\ UNCHANGED Import!bounds
    BY <1>1, <2>1, <2>2 DEF Import!Expire
  <2> QED BY <2>3, <2>4, AgesStep
<1>2. CASE Import!LeaseEnds(i) \/ Import!LeaseEndsEarly(i)
  <2>1. PICK r : r = [importRow[i] EXCEPT !.lease = "ended"]
    OBVIOUS
  <2>2. Keeps(importRow[i], r)
    BY <1>0, <2>1, Edits
  <2>3. Import!Ages(i, r) /\ (Import!Fault \/ UNCHANGED Import!bounds)
    BY <1>2, <2>1 DEF Import!LeaseEnds, Import!LeaseEndsEarly
  <2> QED BY <2>2, <2>3, AgesStep
<1>3. CASE Import!PublicationDue(i)
  <2>1. PICK r : r = [importRow[i] EXCEPT !.wait = FALSE]
    OBVIOUS
  <2>2. Keeps(importRow[i], r)
    BY <1>0, <2>1, Edits
  <2>3. Import!Ages(i, r) /\ UNCHANGED Import!bounds
    BY <1>3, <2>1 DEF Import!PublicationDue
  <2> QED BY <2>2, <2>3, AgesStep
<1>4. CASE Import!RetryAges(i)
  <2>1. PICK r : r = [importRow[i] EXCEPT !.aged = TRUE]
    OBVIOUS
  <2>2. Keeps(importRow[i], r)
    BY <1>0, <2>1, Edits
  <2>3. Import!Ages(i, r) /\ UNCHANGED Import!bounds
    BY <1>4, <2>1 DEF Import!RetryAges
  <2> QED BY <2>2, <2>3, AgesStep
<1> QED BY <1>1, <1>2, <1>3, <1>4 DEF Import!TimeStep

LEMMA BrokerLosesStep ==
    ASSUME Import!ImportAssumption, ImportInv, NEW i \in ImportImports, NEW n \in 0 .. ImportMaxRetries, Import!BrokerLoses(i, n)
    PROVE  ImportStep
<1>1. RowsMove /\ \A k \in ImportImports : importRow'[k].status = importRow[k].status
  BY RowsRest DEF Import!BrokerLoses
<1>2. MoneyStep /\ HandlersMove /\ MemoryMoves
  BY <1>1, QuietStep DEF Import!BrokerLoses
<1>3. QueueMoves
  BY Queueing DEF Import!BrokerLoses
<1>4. PublishersMove /\ RestMoves
  BY Rests DEF Import!BrokerLoses
<1> QED BY <1>1, <1>2, <1>3, <1>4, WholeStep

-----------------------------------------------------------------------------
(* The specification. *)

LEMMA ImportStarts ==
    ASSUME Import!ImportAssumption, Import!Init
    PROVE  ImportInv
<1>1. Import!TypeOK
  BY Budget, StartValues DEF Import!Init, Import!TypeOK
<1>2. RowsOK
  BY StartValues DEF Import!Init, RowsOK, Import!NoRow
<1>3. HandlersOK /\ PublishersOK /\ Import!RememberedHasEnded
  BY StartValues DEF Import!Init, HandlersOK, PublishersOK, Import!RememberedHasEnded, HandlerOK
<1>4. Import!PaidImport
  <2>1. importDebits \ importRefunds = {} /\ Cardinality({}) = 0
    BY FS_EmptySet DEF Import!Init
  <2>2. importCredits + ImportCost * 0 = ImportInitialCredits
    BY Budget DEF Import!Init
  <2>3. \A i \in ImportImports : importRow[i].status = "NONE"
    BY StartValues DEF Import!Init
  <2> QED BY ImportCardinality, <2>1, <2>2, <2>3, StatusesAre DEF Import!Init, Import!PaidImport
<1> QED BY <1>1, <1>2, <1>3, <1>4 DEF ImportInv

LEMMA ImportMoves ==
    ASSUME Import!ImportAssumption, ImportInv, Import!Next
    PROVE  ImportStep
<1>1. CASE Import!ApiStep
  BY <1>1, CreateImportStep, CancelImportStep, DeletionStep, SwitchStep DEF Import!ApiStep
<1>2. ASSUME NEW p \in ImportPublishers, Import!PublisherStep(p) PROVE ImportStep
  BY <1>2, ReconcileStep, RecoverStep, ClaimPublicationStep, PublishStep DEF Import!PublisherStep
<1>3. ASSUME NEW p \in ImportPublishers, NEW a \in BOOLEAN, NEW b \in BOOLEAN, Import!PublishFails(p, a, b)
      PROVE  ImportStep
  BY <1>3, PublishFailsStep
<1>4. ASSUME NEW h \in ImportHandlers, Import!HandlerStep(h) PROVE ImportStep
  BY <1>4, ReceiveStep, ClaimStep, DelayStep, SettleRejectedStep, ParseStep, CompleteStep, SettleInvalidStep,
     CleanupStep, ReplaceStep, MarkRetryingStep, SettleExhaustedStep, ErasePoisonStep DEF Import!HandlerStep
<1>5. ASSUME NEW h \in ImportHandlers, Import!HandlerFault(h) PROVE ImportStep
  BY <1>5, ClaimFailsStep, CompleteFailsStep, ReplaceFailsStep, SettleFailsStep, CleanupFailsStep,
     MarkRetryingStep, SettleExhaustedFailsStep, HandlerStopsStep DEF Import!HandlerFault
<1>6. ASSUME NEW i \in ImportImports, Import!RetentionStep(i) \/ Import!TimeStep(i) \/ Import!LeaseEndsEarly(i) PROVE ImportStep
  BY <1>6, SweepExpiredStep, SweepOverdueStep, CleanupOrphanStep, TimeSteps DEF Import!RetentionStep
<1>7. ASSUME NEW i \in ImportImports, NEW n \in 0 .. ImportMaxRetries, Import!BrokerLoses(i, n) PROVE ImportStep
  BY <1>7, BrokerLosesStep
<1> QED BY <1>1, <1>2, <1>3, <1>4, <1>5, <1>6, <1>7 DEF Import!Next

LEMMA ImportStutters ==
    ASSUME ImportInv, UNCHANGED Import!imVars
    PROVE  ImportInv'
BY ImportCardinality DEF Import!imVars, ImportInv, Import!TypeOK, RowsOK, HandlersOK, HandlerOK, PublishersOK, Import!RememberedHasEnded, Import!PaidImport

\* The inductive invariant of the imports: every action of the API, the
\* publisher, the workers and the retention sweep keeps it.
LEMMA ImportInductive == ASSUME Import!ImportAssumption PROVE Import!Spec => []ImportInv
<1>1. Import!Init => ImportInv
  BY ImportStarts
<1>2. ImportInv /\ [Import!Next]_(Import!imVars) => ImportInv'
  BY ImportMoves, ImportStutters DEF ImportStep
<1> QED BY <1>1, <1>2, PTL DEF Import!Spec

\* Every variable of the import model keeps its type.
THEOREM ImportTypeCorrect == ASSUME Import!ImportAssumption PROVE Import!Spec => []Import!TypeOK
<1>1. ImportInv => Import!TypeOK
  BY DEF ImportInv
<1> QED BY <1>1, ImportInductive, PTL

\* An import is debited once, and refunded exactly when it ends without a
\* result.
THEOREM ImportsArePaid == ASSUME Import!ImportAssumption PROVE Import!Spec => []Import!PaidImport
<1>1. ImportInv => Import!PaidImport
  BY DEF ImportInv
<1> QED BY <1>1, ImportInductive, PTL

\* The document is in the row as long as a worker may need it, and no longer.
THEOREM SourcesLive == ASSUME Import!ImportAssumption PROVE Import!Spec => []Import!SourceLivesWithImport
<1>1. ImportInv => Import!SourceLivesWithImport
  BY DEF ImportInv, RowsOK, RowOK, Import!SourceLivesWithImport
<1> QED BY <1>1, ImportInductive, PTL

\* No import is parsed more often than its budget allows.
THEOREM RunsAreBudgeted == ASSUME Import!ImportAssumption PROVE Import!Spec => []Import!RunsWithinBudget
<1>1. ImportInv => Import!RunsWithinBudget
  <2> SUFFICES ASSUME ImportInv, NEW i \in ImportImports PROVE importRuns[i] =< Import!MaxClaims
    BY DEF Import!RunsWithinBudget
  <2> QED BY InRow, Budget
<1> QED BY <1>1, ImportInductive, PTL

\* A key that a worker remembers belongs to an import that has ended.
THEOREM RememberedEnded == ASSUME Import!ImportAssumption PROVE Import!Spec => []Import!RememberedHasEnded
<1>1. ImportInv => Import!RememberedHasEnded
  BY DEF ImportInv
<1> QED BY <1>1, ImportInductive, PTL

\* An import that ended stays so, and one that succeeded keeps its result.
THEOREM ImportsEndForGood == ASSUME Import!ImportAssumption PROVE Import!Spec => Import!EndedStaysEnded
<1>1. ImportInv /\ [Import!Next]_(Import!imVars) => [Import!EndsForGood]_(Import!imVars)
  BY ImportMoves DEF ImportStep
<1> QED BY <1>1, ImportInductive, PTL DEF Import!Spec, Import!EndedStaysEnded

\* Under a live lease only its owner, or people, change an import.
THEOREM LeasesProtect == ASSUME Import!ImportAssumption PROVE Import!Spec => Import!LeaseProtectsOwner
<1>1. ImportInv /\ [Import!Next]_(Import!imVars) => [Import!SparesLiveOwner]_(Import!imVars)
  BY ImportMoves DEF ImportStep
<1> QED BY <1>1, ImportInductive, PTL DEF Import!Spec, Import!LeaseProtectsOwner
=============================================================================
