--------------------------- MODULE RefreshRotation ----------------------------
(***************************************************************************)
(* Rotation of refresh credentials.  A session has one current validator.  *)
(* A refresh locates the session without locks, then repeats every         *)
(* decision under the locks of tenant, user and session: the current       *)
(* validator is replaced and remembered, a remembered one revokes the      *)
(* session.  When the account needs MFA, the transaction is left to read   *)
(* the marker in Redis and run again.                                      *)
(*                                                                         *)
(* Every credential ever issued may be presented at any time, by a client  *)
(* that lost the answer, a second tab or a stranger; so may a forged one   *)
(* that names a real session.  Validators are numbered in order of issue.  *)
(***************************************************************************)
EXTENDS Integers, FiniteSets

CONSTANTS
    Sessions,     \* sessions, issued before
    Legacy,       \* those that still have a single-part credential
    Requests,     \* refresh and logout requests, each made once
    None,
    MaxChanges    \* bound: revocations, expiries and changes of the account

ASSUME RotationAssumption ==
    /\ IsFiniteSet(Sessions) /\ IsFiniteSet(Requests)
    /\ Legacy \subseteq Sessions
    /\ None \notin Sessions \cup Requests
    /\ MaxChanges \in Nat

VARIABLES
    session,  \* rows of Session
    ledger,   \* RefreshTokenReplay: validator -> session, as a set of pairs
    issued,   \* history: credentials that were handed out
    eligible, \* account and workspace may authenticate
    mfa,      \* the account needs MFA
    req,      \* what each request is doing
    changes

rotationVars == <<session, ledger, issued, eligible, mfa, req, changes>>

-----------------------------------------------------------------------------
\* Unknown stands for any validator that was never issued.
Unknown == 0
Validators == 1 .. (Cardinality(Sessions) + Cardinality(Requests))
NextValidator == Cardinality(issued) + 1

\* parent: the validator this one replaced.
Credential == [session : Sessions, selected : BOOLEAN, validator : Validators \cup {Unknown},
               parent : Validators \cup {Unknown}]
Forged(s) == [session |-> s, selected |-> TRUE, validator |-> Unknown, parent |-> Unknown]

Row == [selector : BOOLEAN, validator : Validators, state : {"live", "revoked", "expired"}]
Request == [pc : {"new", "rotate", "observe", "again", "logout", "done"},
            op : {"refresh", "logout", None}, cred : Credential \cup {None},
            session : Sessions \cup {None},
            outcome : {"none", "rotated", "replayed", "invalid", "revoked"}]
NewRequest == [pc |-> "new", op |-> None, cred |-> None, session |-> None, outcome |-> "none"]

Done(r, outcome) == req' = [req EXCEPT ![r].pc = "done", ![r].outcome = outcome]
Live(s) == session[s].state = "live"
Change == changes < MaxChanges /\ changes' = changes + 1

\* What a client can present: a credential that was issued, or a guess at the
\* validator of a session whose selector is known.
Presentable == issued \cup {Forged(s) : s \in {t \in Sessions : session[t].selector}}

-----------------------------------------------------------------------------
(* Refresh. *)

\* locateRefreshSession: by selector, or for a single-part credential by the
\* current validator and then by the ledger.
Located(c) ==
    IF c.selected
    THEN {s \in Sessions : s = c.session /\ session[s].selector}
    ELSE {s \in Sessions : session[s].validator = c.validator \/ <<c.validator, s>> \in ledger}

Locate(r, c) ==
    /\ req[r].pc = "new"
    /\ \/ /\ Located(c) = {}
          /\ req' = [req EXCEPT ![r] = [NewRequest EXCEPT !.pc = "done", !.op = "refresh",
                                                         !.cred = c, !.outcome = "invalid"]]
       \/ \E s \in Located(c) :
             req' = [req EXCEPT ![r] = [NewRequest EXCEPT !.pc = "rotate", !.op = "refresh",
                                                         !.cred = c, !.session = s]]
    /\ UNCHANGED <<session, ledger, issued, eligible, mfa, changes>>

\* The presented validator is the current one.
IsCurrent(r) == req[r].cred.validator = session[req[r].session].validator

\* The presented validator was consumed by this very session.
IsReplay(r) == <<req[r].cred.validator, req[r].session>> \in ledger

\* Mutant: a single-part credential is not remembered when it is upgraded.
ConsumedSelected(s) == IF session[s].selector THEN {<<session[s].validator, s>>} ELSE {}

\* The entry that remembers the validator about to be replaced.
Consumed(s) == {<<session[s].validator, s>>}

\* The transaction of rotateRefreshCredential.  A consumed validator ends the
\* session before anything is asked about the account.
Rotate(r) ==
    LET s == req[r].session
        v == NextValidator
    IN /\ req[r].pc \in {"rotate", "again"}
       /\ \/ /\ session[s].state = "revoked" \/ (~IsCurrent(r) /\ ~IsReplay(r))
             /\ Done(r, "invalid")
             /\ UNCHANGED <<session, ledger, issued>>
          \/ /\ session[s].state # "revoked" /\ ~IsCurrent(r) /\ IsReplay(r)
             /\ session' = [session EXCEPT ![s].state = "revoked"]
             /\ Done(r, "replayed")
             /\ UNCHANGED <<ledger, issued>>
          \/ /\ session[s].state # "revoked" /\ IsCurrent(r)
             /\ ~Live(s) \/ ~eligible
             /\ Done(r, "invalid")
             /\ UNCHANGED <<session, ledger, issued>>
          \/ /\ Live(s) /\ IsCurrent(r) /\ eligible
             /\ IF mfa /\ req[r].pc = "rotate"
                THEN /\ req' = [req EXCEPT ![r].pc = "observe"]
                     /\ UNCHANGED <<session, ledger, issued>>
                ELSE /\ ledger' = ledger \cup Consumed(s)
                     /\ session' = [session EXCEPT ![s].selector = TRUE, ![s].validator = v]
                     /\ issued' = issued \cup {[session |-> s, selected |-> TRUE, validator |-> v,
                                                parent |-> req[r].cred.validator]}
                     /\ Done(r, "rotated")
       /\ UNCHANGED <<eligible, mfa, changes>>

\* The marker is read outside the transaction; Redis may fail the request.
ObserveMarker(r) ==
    /\ req[r].pc = "observe"
    /\ \/ req' = [req EXCEPT ![r].pc = "again"]
       \/ Done(r, "invalid")
    /\ UNCHANGED <<session, ledger, issued, eligible, mfa, changes>>

-----------------------------------------------------------------------------
(* Logout and other ends of a session. *)

\* revokeSessionByRefreshToken looks a session up by selector, or a
\* single-part credential by the current validator only.
LogoutFinds(c) ==
    {s \in Sessions : IF c.selected THEN s = c.session /\ session[s].selector
                      ELSE session[s].validator = c.validator}

Logout(r, c) ==
    /\ req[r].pc = "new"
    /\ \/ /\ \A s \in LogoutFinds(c) : ~Live(s)
          /\ req' = [req EXCEPT ![r] = [NewRequest EXCEPT !.pc = "done", !.op = "logout",
                                                         !.cred = c, !.outcome = "invalid"]]
       \/ \E s \in LogoutFinds(c) :
             /\ Live(s)
             /\ req' = [req EXCEPT ![r] = [NewRequest EXCEPT !.pc = "logout", !.op = "logout",
                                                            !.cred = c, !.session = s]]
    /\ UNCHANGED <<session, ledger, issued, eligible, mfa, changes>>

\* Mutant: the session is revoked only if it still has the credential.
RevokeCurrent(r) ==
    LET s == req[r].session
    IN /\ req[r].pc = "logout"
       /\ IF Live(s) /\ session[s].validator = req[r].cred.validator
          THEN session' = [session EXCEPT ![s].state = "revoked"] /\ Done(r, "revoked")
          ELSE UNCHANGED session /\ Done(r, "invalid")
       /\ UNCHANGED <<ledger, issued, eligible, mfa, changes>>

\* The update of revokeSessionByRefreshToken.
RevokeLocated(r) ==
    LET s == req[r].session
    IN /\ req[r].pc = "logout"
       /\ IF Live(s)
          THEN session' = [session EXCEPT ![s].state = "revoked"] /\ Done(r, "revoked")
          ELSE UNCHANGED session /\ Done(r, "invalid")
       /\ UNCHANGED <<ledger, issued, eligible, mfa, changes>>

\* revokeSession, a change of credentials, or the end of its lifetime.
EndSession(s, state) ==
    /\ Live(s)
    /\ session' = [session EXCEPT ![s].state = state]
    /\ Change
    /\ UNCHANGED <<ledger, issued, eligible, mfa, req>>

\* The account or workspace is suspended without touching this session's row
\* yet (a tenant's purge, for one), admitted again, or its MFA policy changes.
ChangeAccount ==
    /\ \/ eligible' = ~eligible /\ UNCHANGED mfa
       \/ mfa' = ~mfa /\ UNCHANGED eligible
    /\ Change
    /\ UNCHANGED <<session, ledger, issued, req>>

-----------------------------------------------------------------------------
\* One credential per session has been handed out.
Init ==
    /\ \E number \in {f \in [Sessions -> 1 .. Cardinality(Sessions)] :
                        \A s, t \in Sessions : f[s] = f[t] => s = t} :
          /\ session = [s \in Sessions |-> [selector |-> s \notin Legacy,
                                            validator |-> number[s], state |-> "live"]]
          /\ issued = {[session |-> s, selected |-> s \notin Legacy, validator |-> number[s],
                        parent |-> Unknown] : s \in Sessions}
    /\ ledger = {}
    /\ eligible = TRUE
    /\ mfa \in BOOLEAN
    /\ req = [r \in Requests |-> NewRequest]
    /\ changes = 0

Next ==
    \/ \E r \in Requests :
          \/ \E c \in Presentable : Locate(r, c) \/ Logout(r, c)
          \/ Rotate(r)
          \/ ObserveMarker(r)
          \/ RevokeLocated(r)
    \/ \E s \in Sessions : EndSession(s, "revoked") \/ EndSession(s, "expired")
    \/ ChangeAccount

Spec == Init /\ [][Next]_rotationVars

-----------------------------------------------------------------------------
(* Properties. *)

\* Every variable has its type.
TypeOK ==
    /\ session \in [Sessions -> Row]
    /\ ledger \subseteq Validators \X Sessions
    /\ issued \subseteq Credential
    /\ req \in [Requests -> Request]

\* A credential is exchanged at most once, however many refreshes present it
\* at the same time, and every credential of a session that is not revoked is
\* its current one or is known to have been consumed, so its return is noticed.
FamilyIsLinear ==
    /\ \A c, d \in issued : c.parent # Unknown /\ c.parent = d.parent => c = d
    /\ \A c \in issued :
          session[c.session].state # "revoked" =>
              \/ session[c.session].validator = c.validator
              \/ <<c.validator, c.session>> \in ledger

\* A refresh that presents a consumed credential leaves the session revoked,
\* even when account or workspace may not sign in at the time.
ReplayEndsFamily ==
    [][\A r \in Requests :
          /\ req[r].pc \in {"rotate", "again"} /\ req'[r].pc = "done"
          /\ req[r].cred \in issued
          /\ req[r].cred.validator # session[req[r].session].validator
          => session'[req[r].session].state = "revoked"]_rotationVars

\* A refresh ends a session only with a credential that the session really
\* had: a guessed validator logs nobody out.
GuessEndsNothing ==
    [][\A s \in Sessions, r \in Requests :
          /\ session[s].state # "revoked" /\ session'[s].state = "revoked"
          /\ req[r].op = "refresh" /\ req'[r].pc = "done" /\ req[r].pc # "done"
          => req[r].cred \in issued /\ req[r].cred.session = s]_rotationVars

\* A logout by a selector credential, current or not, ends the session it
\* names: a refresh that runs at the same time does not preserve it.
LogoutSticks ==
    \A r \in Requests :
        req[r].op = "logout" /\ req[r].pc = "done" /\ req[r].cred.selected =>
            ~Live(req[r].cred.session)

=============================================================================
