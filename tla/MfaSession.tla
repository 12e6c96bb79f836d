------------------------------ MODULE MfaSession ------------------------------
(***************************************************************************)
(* Second factors.  Enrolment is pending on one session, confirmed with a  *)
(* code, and then the account has a secret and backup codes.  Factors are  *)
(* judged and consumed in the database, under the locks of tenant, user    *)
(* and session; that a session has passed is a marker in Redis, written    *)
(* after the commit and removed, as well as can be, after a revocation.    *)
(* Access checks and refreshes read both stores, one after the other.      *)
(*                                                                         *)
(* Secrets are numbered in the order in which enrolments draw them.  All   *)
(* time steps of the instance lie in the accepted window.                  *)
(***************************************************************************)
EXTENDS Integers, FiniteSets

CONSTANTS
    Sessions,    \* sessions of one user, each issued once
    Requests,    \* requests, each made once
    Steps,       \* TOTP time steps
    Backups,     \* positions of backup codes
    None,
    Demo,        \* the account of the beta demonstration, while its bypass is on
    MaxSecrets,  \* bound: enrolments begun
    MaxChanges   \* bound: administrative changes, expiries, failures of Redis

MfaAssumption ==
    /\ Steps \cap Backups = {}
    /\ None \notin Sessions \cup Requests \cup Steps \cup Backups
    /\ Demo \in BOOLEAN
    /\ MaxSecrets \in Nat
    /\ MaxChanges \in Nat

VARIABLES
    user,     \* mfaEnabled, mfaSecret, mfaBackupCodes
    policy,   \* requireMfaForAll, or access that demands MFA
    session,  \* rows of Session
    claims,   \* MfaTotpClaim
    marker,   \* sessions that Redis says have passed
    req,      \* what each request is doing
    drawn,    \* secrets drawn so far
    passed,   \* history: the secret with which each session last passed
    uses,     \* history: how often each factor was accepted
    exempt,   \* sessions whose SESSION_CREATED entry names the exemption BETA_DEMO
    changes

mfaVars == <<user, policy, session, claims, marker, req, drawn, passed, uses, exempt,
             changes>>
history == <<passed, uses, exempt>>

-----------------------------------------------------------------------------
NoSecret == 0
Secrets == 1 .. MaxSecrets
Factors == [secret : Secrets, code : Steps \cup Backups]

User == [enabled : BOOLEAN, secret : Secrets \cup {NoSecret}, backups : SUBSET Backups]
NoMfa == [enabled |-> FALSE, secret |-> NoSecret, backups |-> {}]
Row == [state : {"none", "live", "ended"}, pending : Secrets \cup {NoSecret}]
Live(s) == session[s].state = "live"

\* required and verified: what the request has concluded so far.
Request == [pc : {"new", "marker", "final", "mark", "clear", "done"},
            op : {"none", "validate", "enrol", "demo", "disable", "access", "refresh"},
            session : Sessions \cup {None}, required : BOOLEAN, verified : BOOLEAN,
            granted : BOOLEAN]
NewRequest == [pc |-> "new", op |-> "none", session |-> None, required |-> FALSE,
               verified |-> FALSE, granted |-> FALSE]

Begin(r, op, s, pc) ==
    req' = [req EXCEPT ![r] = [NewRequest EXCEPT !.op = op, !.session = s, !.pc = pc]]
Done(r, granted) == req' = [req EXCEPT ![r].pc = "done", ![r].granted = granted]

Change == changes < MaxChanges /\ changes' = changes + 1

\* isMfaRequired
Required == user.enabled \/ policy

\* Both triggers of the enrolment columns: a revoked session and a change of
\* the account's factor leave nothing pending.
Revoked(row) == IF row.state = "live" THEN [state |-> "ended", pending |-> NoSecret] ELSE row
RevokeAll == session' = [s \in Sessions |-> Revoked(session[s])]
NothingPending == [s \in Sessions |-> [session[s] EXCEPT !.pending = NoSecret]]

Used(f) == uses' = [uses EXCEPT ![f] = @ + 1]

-----------------------------------------------------------------------------
(* Enrolment. *)

\* beginMfaEnrollment: a later one replaces the pending secret of its session.
BeginEnrolment(s) ==
    /\ Live(s)
    /\ ~user.enabled
    /\ drawn < MaxSecrets
    /\ drawn' = drawn + 1
    /\ session' = [session EXCEPT ![s].pending = drawn + 1]
    /\ UNCHANGED <<user, policy, claims, marker, req, history, changes>>

\* The session's pending secret is consumed and, by the trigger on the user,
\* those of all other sessions.
Consumed(s) == NothingPending

\* confirmMfaEnrollment with a code of the pending secret.  The marker is
\* written afterwards and may be lost.
ConfirmEnrolment(r, s, step) ==
    LET secret == session[s].pending
    IN /\ req[r].pc = "new"
       /\ Live(s)
       /\ ~user.enabled
       /\ secret # NoSecret
       /\ step \notin claims
       /\ claims' = claims \cup {step}
       /\ user' = [enabled |-> TRUE, secret |-> secret, backups |-> Backups]
       /\ session' = Consumed(s)
       /\ Used([secret |-> secret, code |-> step])
       /\ passed' = [passed EXCEPT ![s] = secret]
       /\ Begin(r, "enrol", s, "mark")
       /\ UNCHANGED <<policy, marker, drawn, exempt, changes>>

\* The deadline of a pending enrolment passes.
EnrolmentExpires(s) ==
    /\ session[s].pending # NoSecret
    /\ session' = [session EXCEPT ![s].pending = NoSecret]
    /\ Change
    /\ UNCHANGED <<user, policy, claims, marker, req, drawn, history>>

-----------------------------------------------------------------------------
(* Proofs of a factor. *)

\* A code of the account's secret whose step nobody claimed, or a backup code
\* that is left.
Matches(code) ==
    /\ user.secret # NoSecret
    /\ \/ code \in Steps /\ code \notin claims
       \/ code \in user.backups

\* Mutant: the time step is not claimed.
ConsumeBackup(code) ==
    /\ user' = [user EXCEPT !.backups = @ \ {code}]
    /\ UNCHANGED claims

\* claimTotpTimeStep, or the removal of the backup code.
Consume(code) ==
    /\ claims' = claims \cup ({code} \cap Steps)
    /\ user' = [user EXCEPT !.backups = @ \ {code}]

\* The transaction of validateMfa.
ValidateMfa(r, s, code) ==
    /\ req[r].pc = "new"
    /\ Live(s)
    /\ Required
    /\ Matches(code)
    /\ Consume(code)
    /\ Used([secret |-> user.secret, code |-> code])
    /\ passed' = [passed EXCEPT ![s] = user.secret]
    /\ Begin(r, "validate", s, "mark")
    /\ UNCHANGED <<policy, session, marker, drawn, exempt, changes>>

\* markSessionMfaVerified, after the commit: the session may be gone by now.
MarkVerified(r) ==
    /\ req[r].pc = "mark"
    /\ marker' = marker \cup {req[r].session}
    /\ Done(r, TRUE)
    /\ UNCHANGED <<user, policy, session, claims, drawn, history, changes>>

\* Redis fails, having stored the marker or not.  An enrolment is answered all
\* the same, validateMfa raises, and the exempt sign-in raises and revokes its
\* session, unless that fails too.
MarkFails(r) ==
    LET s == req[r].session
    IN /\ req[r].pc = "mark"
       /\ marker' \in {marker, marker \cup {s}}
       /\ session' \in IF req[r].op = "demo" THEN {session, [session EXCEPT ![s] = Revoked(@)]}
                                               ELSE {session}
       /\ Done(r, req[r].op = "enrol")
       /\ Change
       /\ UNCHANGED <<user, policy, claims, drawn, history>>

\* disableMfa: the factor goes, and every session with it.
DisableMfa(r, s, code) ==
    /\ req[r].pc = "new"
    /\ Live(s)
    /\ ~policy
    /\ user.enabled
    /\ Matches(code)
    /\ claims' = claims \cup ({code} \cap Steps)
    /\ user' = NoMfa
    /\ RevokeAll
    /\ Used([secret |-> user.secret, code |-> code])
    /\ Begin(r, "disable", s, "clear")
    /\ UNCHANGED <<policy, marker, drawn, passed, exempt, changes>>

\* clearSessionMfaMarkersBestEffort
ClearMarkers(r) ==
    /\ req[r].pc = "clear"
    /\ \/ marker' = {} /\ UNCHANGED changes
       \/ UNCHANGED marker /\ Change
    /\ Done(r, TRUE)
    /\ UNCHANGED <<user, policy, session, claims, drawn, history>>

\* AdminUserMfaRecoveryService.reset forgets the claims and leaves the markers.
RecoverMfa ==
    /\ user.enabled
    /\ user' = NoMfa
    /\ claims' = {}
    /\ RevokeAll
    /\ Change
    /\ UNCHANGED <<policy, marker, req, drawn, history>>

-----------------------------------------------------------------------------
(* Readers of both stores. *)

\* validateAccessSession, up to the MFA decision of its first read.
ReadSession(r, s) ==
    /\ req[r].pc = "new"
    /\ Live(s)
    /\ req' = [req EXCEPT ![r] = [NewRequest EXCEPT
                 !.op = "access", !.session = s, !.required = Required,
                 !.pc = IF Required THEN "marker" ELSE "final", !.verified = ~Required]]
    /\ UNCHANGED <<user, policy, session, claims, marker, drawn, history, changes>>

\* The first transaction of a refresh, when it needs the marker.
StartRefresh(r, s) ==
    /\ req[r].pc = "new"
    /\ Live(s)
    /\ Required
    /\ Begin(r, "refresh", s, "marker")
    /\ UNCHANGED <<user, policy, session, claims, marker, drawn, history, changes>>

\* isSessionMfaVerified
ReadMarker(r) ==
    /\ req[r].pc = "marker"
    /\ req' = [req EXCEPT ![r].pc = "final", ![r].verified = req[r].session \in marker]
    /\ UNCHANGED <<user, policy, session, claims, marker, drawn, history, changes>>

\* The last read of validateAccessSession, or the second transaction of a
\* refresh, which asks again whether MFA is required.
ReadAgain(r) ==
    LET q == req[r]
        required == IF q.op = "refresh" THEN Required ELSE q.required
    IN /\ q.pc = "final"
       /\ req' = [req EXCEPT ![r].pc = "done", ![r].granted = Live(q.session),
                             ![r].required = required,
                             ![r].verified = q.verified \/ ~required]
       /\ UNCHANGED <<user, policy, session, claims, marker, drawn, history, changes>>

-----------------------------------------------------------------------------
(* Other changes. *)

\* createSessionTokens
SignIn(s) ==
    /\ session[s].state = "none"
    /\ session' = [session EXCEPT ![s].state = "live"]
    /\ UNCHANGED <<user, policy, claims, marker, req, drawn, history, changes>>

\* createSessionTokens with the exemption of the demonstration account: the
\* marker follows the commit without a factor, where one is required.
SignInExempt(r, s) ==
    /\ req[r].pc = "new"
    /\ Demo
    /\ session[s].state = "none"
    /\ session' = [session EXCEPT ![s].state = "live"]
    /\ exempt' = exempt \cup {s}
    /\ Begin(r, "demo", s, IF Required THEN "mark" ELSE "done")
    /\ UNCHANGED <<user, policy, claims, marker, drawn, passed, uses, changes>>

\* Logout, replay, suspension: a session ends; the marker may be cleared.
RevokeSession(s) ==
    /\ Live(s)
    /\ session' = [session EXCEPT ![s] = Revoked(@)]
    /\ marker' \in {marker, marker \ {s}}
    /\ Change
    /\ UNCHANGED <<user, policy, claims, req, drawn, history>>

\* The marker lives as long as the session was to live when it was set.
MarkerExpires(s) ==
    /\ s \in marker
    /\ marker' = marker \ {s}
    /\ Change
    /\ UNCHANGED <<user, policy, session, claims, req, drawn, history>>

ChangePolicy ==
    /\ policy' = ~policy
    /\ Change
    /\ UNCHANGED <<user, session, claims, marker, req, drawn, history>>

-----------------------------------------------------------------------------
Init ==
    /\ user = NoMfa
    /\ policy \in BOOLEAN
    /\ session = [s \in Sessions |-> [state |-> "none", pending |-> NoSecret]]
    /\ claims = {}
    /\ marker = {}
    /\ req = [r \in Requests |-> NewRequest]
    /\ drawn = 0
    /\ passed = [s \in Sessions |-> NoSecret]
    /\ uses = [f \in Factors |-> 0]
    /\ exempt = {}
    /\ changes = 0

Serve(r, s) ==
    \/ \E step \in Steps : ConfirmEnrolment(r, s, step)
    \/ \E code \in Steps \cup Backups : ValidateMfa(r, s, code) \/ DisableMfa(r, s, code)
    \/ ReadSession(r, s)
    \/ StartRefresh(r, s)
    \/ SignInExempt(r, s)

Next ==
    \/ \E r \in Requests :
          \/ \E s \in Sessions : Serve(r, s)
          \/ MarkVerified(r)
          \/ MarkFails(r)
          \/ ClearMarkers(r)
          \/ ReadMarker(r)
          \/ ReadAgain(r)
    \/ \E s \in Sessions :
          \/ SignIn(s)
          \/ BeginEnrolment(s)
          \/ EnrolmentExpires(s)
          \/ RevokeSession(s)
          \/ MarkerExpires(s)
    \/ RecoverMfa
    \/ ChangePolicy

Spec == Init /\ [][Next]_mfaVars

-----------------------------------------------------------------------------
(* Properties. *)

\* Every variable has its type.
TypeOK ==
    /\ user \in User
    /\ session \in [Sessions -> Row]
    /\ claims \subseteq Steps
    /\ marker \subseteq Sessions
    /\ req \in [Requests -> Request]

\* A marker counts only for a session that passed with the factor the account
\* has now, or was issued under the exemption of the demonstration account: a
\* marker written late, or left behind, belongs to no other live session.
LiveMarkerIsEarned ==
    \A s \in marker : Live(s) => s \in exempt \/ (user.enabled /\ passed[s] = user.secret)

\* A code and a backup code of one enrolment are accepted at most once, in
\* whichever sessions and for whatever they are presented.
FactorUsedOnce ==
    \A f \in Factors : uses[f] <= 1

\* While the account has a factor, no enrolment is pending anywhere, so none
\* can replace it.
EnrolmentIsSingle ==
    user.enabled => \A s \in Sessions : session[s].pending = NoSecret

\* An access check or refresh that answers "required and verified" does so
\* for a live session that passed with the current factor or is exempt,
\* although database, Redis and database were read one after the other.
AnswersEarned ==
    \A r \in Requests :
        LET q == req'[r]
            s == q.session
        IN req[r].pc = "final" /\ q.pc = "done" /\ q.granted /\ q.required /\ q.verified
           => /\ Live(s)
              /\ s \in exempt \/ (user.secret # NoSecret /\ passed[s] = user.secret)
VerifiedAnswerIsEarned == [][AnswersEarned]_mfaVars
=============================================================================
