------------------------------ MODULE AuthLogin -------------------------------
(***************************************************************************)
(* Signing in.  A login verifies a credential in one transaction (for a    *)
(* PIN, the hash is verified outside every transaction) and issues its     *)
(* session in another.  Between them the credential, the account and the   *)
(* workspace may change: passwords are reset, PINs rotated, accounts       *)
(* locked, suspended and given other roles or addresses.                   *)
(*                                                                         *)
(* One user.  A hash is modelled by the secret it was made from.  Every    *)
(* login request is made once and ends with a session or a refusal.        *)
(***************************************************************************)
EXTENDS Integers, FiniteSets

CONSTANTS
    Requests,    \* login requests
    Passwords, Pins, Emails,
    None,
    MaxTries,    \* wrong guesses before a lock (5 in the code)
    MaxSessions, \* MAX_ACTIVE_SESSIONS_PER_USER
    MaxChanges   \* bound: administrative changes, expiries and ended locks

LoginAssumption ==
    /\ None \notin Requests \cup Passwords \cup Pins \cup Emails
    /\ Passwords \cap Pins = {}
    /\ Passwords # {} /\ Pins # {} /\ Emails # {}
    /\ MaxTries \in Nat \ {0}
    /\ MaxSessions \in Nat \ {0}
    /\ MaxChanges \in Nat

VARIABLES
    tenant,   \* open: can authenticate; sso: ssoOidcOnly
    user,     \* the account
    sessions, \* the row of Session that each request has created
    issued,   \* sessions created so far, the clock of createdAt
    req,      \* what each login request is doing
    wrong,    \* history: wrong guesses judged since the counter was cleared
    lapsed,   \* history: locks that ran out since then
    changes

loginVars == <<tenant, user, sessions, issued, req, wrong, lapsed, changes>>
history == <<wrong, lapsed>>

-----------------------------------------------------------------------------
Methods == {"USERNAME_PASSWORD", "USERNAME_PIN", "EMAIL_OTP"}
Counters == {"password", "pin"}
Secrets == Passwords \cup Pins \cup Emails

User == [active : BOOLEAN, password : Passwords \cup {None}, pin : Pins, email : Emails,
         attempts : [Counters -> Nat], locked : [Counters -> BOOLEAN],
         grants : SUBSET Methods]

Session == [state : {"none", "live", "revoked", "expired"}, method : Methods \cup {None},
            proof : Secrets \cup {None}, createdAt : Nat]
NoSession == [state |-> "none", method |-> None, proof |-> None, createdAt |-> 0]

\* secret: what was typed; proof: the stored hash it was compared with.
Request == [pc : {"new", "attempt", "verifyPin", "pinAttempt", "authenticated", "admitted",
                  "signedIn", "refused"},
            method : Methods \cup {None}, secret : Secrets \cup {None},
            proof : Secrets \cup {None}]
NewRequest == [pc |-> "new", method |-> None, secret |-> None, proof |-> None]

Change == /\ changes < MaxChanges
          /\ changes' = changes + 1

Refuse(r) == req' = [req EXCEPT ![r].pc = "refused"]

Live(s) == s.state = "live"
Open == {r \in Requests : Live(sessions[r])}
Revoked(s) == IF Live(s) THEN [s EXCEPT !.state = "revoked"] ELSE s
RevokeAll ==
    /\ sessions' = [r \in Requests |-> Revoked(sessions[r])]
    /\ UNCHANGED issued

\* The counter and the lock of one credential are cleared.
Cleared(u, c) == [u EXCEPT !.attempts[c] = 0, !.locked[c] = FALSE]
Forget(cs) ==
    /\ wrong' = [c \in Counters |-> IF c \in cs THEN 0 ELSE wrong[c]]
    /\ lapsed' = [c \in Counters |-> IF c \in cs THEN 0 ELSE lapsed[c]]

-----------------------------------------------------------------------------
(* Verification. *)

\* The workspace and the account admit this login method when it begins.
MayBegin == tenant.open /\ ~tenant.sso /\ user.active

\* loginWithUsernamePassword up to its transaction.  An account with no
\* password and a numeric entry goes on to loginWithUsernamePin.
EnterPassword(r, s) ==
    /\ req[r].pc = "new"
    /\ \/ /\ MayBegin /\ user.password # None
          /\ req' = [req EXCEPT ![r] = [pc |-> "attempt", method |-> "USERNAME_PASSWORD",
                                        secret |-> s, proof |-> None]]
       \/ /\ MayBegin /\ user.password = None /\ s \in Pins
          /\ req' = [req EXCEPT ![r] = [pc |-> "verifyPin", method |-> "USERNAME_PIN",
                                        secret |-> s, proof |-> None]]
       \/ /\ ~MayBegin \/ (user.password = None /\ s \notin Pins)
          /\ Refuse(r)
    /\ UNCHANGED <<tenant, user, sessions, issued, history, changes>>

EnterPin(r, s) ==
    /\ req[r].pc = "new"
    /\ req' = [req EXCEPT ![r] = [pc |-> "verifyPin", method |-> "USERNAME_PIN",
                                  secret |-> s, proof |-> None]]
    /\ UNCHANGED <<tenant, user, sessions, issued, history, changes>>

\* loginWithEmail, after OtpService has verified a code sent to the address.
EnterEmail(r, a) ==
    /\ req[r].pc = "new"
    /\ IF MayBegin /\ user.email = a
       THEN req' = [req EXCEPT ![r] = [pc |-> "authenticated", method |-> "EMAIL_OTP",
                                       secret |-> a, proof |-> a]]
       ELSE Refuse(r)
    /\ UNCHANGED <<tenant, user, sessions, issued, history, changes>>

\* The code counts one failure and locks at the limit, else clears the lock.
Failed(u, c) ==
    [u EXCEPT !.attempts[c] = u.attempts[c] + 1, !.locked[c] = u.attempts[c] + 1 >= MaxTries]

\* One guess is judged under the lock of the user row: refused without
\* judgement when the credential is locked, counted when it is wrong, and
\* the counter cleared when it is right.
Judge(r, c, right, proof) ==
    \/ /\ user.locked[c]
       /\ Refuse(r)
       /\ UNCHANGED <<user, history>>
    \/ /\ ~user.locked[c]
       /\ ~right
       /\ user' = Failed(user, c)
       /\ wrong' = [wrong EXCEPT ![c] = @ + 1]
       /\ UNCHANGED lapsed
       /\ Refuse(r)
    \/ /\ ~user.locked[c]
       /\ right
       /\ user' = Cleared(user, c)
       /\ Forget({c})
       /\ req' = [req EXCEPT ![r].pc = "authenticated", ![r].proof = proof]

\* The transaction of loginWithUsernamePassword.
PasswordAttempt(r) ==
    /\ req[r].pc = "attempt"
    /\ \/ /\ ~user.active \/ user.password = None
          /\ Refuse(r)
          /\ UNCHANGED <<user, history>>
       \/ /\ user.active /\ user.password # None
          /\ Judge(r, "password", req[r].secret = user.password, user.password)
    /\ UNCHANGED <<tenant, sessions, issued, changes>>

\* loginWithUsernamePin: the hash is read here and verified outside locks.
ReadPin(r) ==
    /\ req[r].pc = "verifyPin"
    /\ IF MayBegin
       THEN req' = [req EXCEPT ![r].pc = "pinAttempt", ![r].proof = user.pin]
       ELSE Refuse(r)
    /\ UNCHANGED <<tenant, user, sessions, issued, history, changes>>

\* Mutant: a verification against a replaced PIN still counts.
PinAttemptAnyProof(r) ==
    /\ req[r].pc = "pinAttempt"
    /\ \/ /\ ~user.active
          /\ Refuse(r)
          /\ UNCHANGED <<user, history>>
       \/ /\ user.active
          /\ Judge(r, "pin", req[r].secret = req[r].proof, req[r].proof)
    /\ UNCHANGED <<tenant, sessions, issued, changes>>

\* The transaction of loginWithUsernamePin.
PinAttempt(r) ==
    /\ req[r].pc = "pinAttempt"
    /\ \/ /\ ~user.active \/ user.pin # req[r].proof
          /\ Refuse(r)
          /\ UNCHANGED <<user, history>>
       \/ /\ user.active /\ user.pin = req[r].proof
          /\ Judge(r, "pin", req[r].secret = req[r].proof, req[r].proof)
    /\ UNCHANGED <<tenant, sessions, issued, changes>>

-----------------------------------------------------------------------------
(* Issuance. *)

\* The reads before the transaction of createSessionTokens: the permission of
\* the login method and the state of the workspace.
Admit(r) ==
    /\ req[r].pc = "authenticated"
    /\ IF req[r].method \in user.grants /\ tenant.open
       THEN req' = [req EXCEPT ![r].pc = "admitted"]
       ELSE Refuse(r)
    /\ UNCHANGED <<tenant, user, sessions, issued, history, changes>>

\* Mutant: the PIN is compared, the password is not.
PinProofHolds(r) ==
    LET q == req[r] IN
    q.method = "USERNAME_PIN" => q.proof = user.pin /\ ~user.locked["pin"]

\* The proof of the login still describes the account.
ProofHolds(r) ==
    LET q == req[r] IN
    \/ q.method = "USERNAME_PASSWORD" /\ q.proof = user.password
    \/ q.method = "USERNAME_PIN" /\ q.proof = user.pin /\ ~user.locked["pin"]
    \/ q.method = "EMAIL_OTP" /\ q.proof = user.email

\* Revoked and expired rows are deleted, and live ones beyond the newest
\* MaxSessions - 1.
Newer(r) == {x \in Open : sessions[x].createdAt > sessions[r].createdAt}
Kept == {r \in Open : Cardinality(Newer(r)) < MaxSessions - 1}

\* The transaction of createSessionTokens, under the locks of tenant and user.
\* A password login leaves the counter alone, the other methods clear it.
Issue(r) ==
    LET q == req[r]
        session == [state |-> "live", method |-> q.method, proof |-> q.proof,
                    createdAt |-> issued + 1]
    IN /\ q.pc = "admitted"
       /\ IF tenant.open /\ ~tenant.sso /\ user.active /\ ProofHolds(r)
             /\ q.method \in user.grants
          THEN /\ sessions' = [x \in Requests |-> IF x = r THEN session
                                    ELSE IF x \in Kept THEN sessions[x] ELSE NoSession]
               /\ issued' = issued + 1
               /\ req' = [req EXCEPT ![r].pc = "signedIn"]
               /\ IF q.method = "USERNAME_PASSWORD"
                  THEN UNCHANGED <<user, history>>
                  ELSE user' = Cleared(user, "password") /\ Forget({"password"})
          ELSE /\ Refuse(r)
               /\ UNCHANGED <<user, sessions, issued, history>>
       /\ UNCHANGED <<tenant, changes>>

-----------------------------------------------------------------------------
(* Changes of credentials, account and workspace.  Every one of them is a  *)
(* transaction that holds the lock of the user (and of the tenant).        *)

\* resetPasswordWithToken with a live token.
ResetPassword(p) ==
    /\ tenant.open /\ user.active /\ user.password # None
    /\ user' = [Cleared(user, "password") EXCEPT !.password = p]
    /\ Forget({"password"})
    /\ RevokeAll
    /\ Change
    /\ UNCHANGED <<tenant, req>>

\* rotateOwnPin, from a live session, by someone who knows the PIN.
RotateOwnPin(p) ==
    /\ tenant.open /\ user.active
    /\ \A c \in Counters : ~user.locked[c]
    /\ "USERNAME_PIN" \in user.grants
    /\ Open # {}
    /\ p # user.pin
    /\ user' = [Cleared(user, "pin") EXCEPT !.pin = p]
    /\ Forget({"pin"})
    /\ RevokeAll
    /\ Change
    /\ UNCHANGED <<tenant, req>>

\* resetUserPinAsAdmin, which also recovers a suspended account.
ResetPinAsAdmin(p) ==
    /\ user' = [Cleared(user, "pin") EXCEPT !.pin = p]
    /\ Forget({"pin"})
    /\ RevokeAll
    /\ Change
    /\ UNCHANGED <<tenant, req>>

\* lockUser and unlockUser of the administrator.
LockUser ==
    /\ user' = [user EXCEPT !.locked = [c \in Counters |-> TRUE]]
    /\ RevokeAll
    /\ Change
    /\ UNCHANGED <<tenant, req, history>>

UnlockUser ==
    /\ \E c \in Counters : user.locked[c]
    /\ user' = Cleared(Cleared(user, "password"), "pin")
    /\ Forget(Counters)
    /\ Change
    /\ UNCHANGED <<tenant, sessions, issued, req>>

SuspendUser ==
    /\ user.active
    /\ user' = [user EXCEPT !.active = FALSE]
    /\ RevokeAll
    /\ Change
    /\ UNCHANGED <<tenant, req, history>>

ActivateUser ==
    /\ ~user.active
    /\ user' = [user EXCEPT !.active = TRUE]
    /\ Change
    /\ UNCHANGED <<tenant, sessions, issued, req, history>>

\* An administrator gives the account another address.
ChangeEmail(a) ==
    /\ a # user.email
    /\ user' = [user EXCEPT !.email = a]
    /\ RevokeAll
    /\ Change
    /\ UNCHANGED <<tenant, req, history>>

\* Role replacement changes what the account may use.
ReplaceRoles(g) ==
    /\ g # user.grants
    /\ user' = [user EXCEPT !.grants = g]
    /\ RevokeAll
    /\ Change
    /\ UNCHANGED <<tenant, req, history>>

SuspendTenant ==
    /\ tenant.open
    /\ tenant' = [tenant EXCEPT !.open = FALSE]
    /\ RevokeAll
    /\ Change
    /\ UNCHANGED <<user, req, history>>

\* The tenant is activated again, or the sign-in policy is changed.
ChangeTenant ==
    /\ \/ ~tenant.open /\ tenant' = [tenant EXCEPT !.open = TRUE]
       \/ tenant' = [tenant EXCEPT !.sso = ~@]
    /\ Change
    /\ UNCHANGED <<user, sessions, issued, req, history>>

\* Fifteen minutes, or the administrator's interval, have passed.
LockEnds(c) ==
    /\ user.locked[c]
    /\ user' = [user EXCEPT !.locked[c] = FALSE]
    /\ lapsed' = [lapsed EXCEPT ![c] = @ + 1]
    /\ Change
    /\ UNCHANGED <<tenant, sessions, issued, req, wrong>>

\* A session expires, or is revoked by its owner.
EndSession(r, state) ==
    /\ r \in Open
    /\ sessions' = [sessions EXCEPT ![r].state = state]
    /\ Change
    /\ UNCHANGED <<tenant, user, issued, req, history>>

-----------------------------------------------------------------------------
Init ==
    /\ tenant = [open |-> TRUE, sso |-> FALSE]
    /\ user \in [active : {TRUE}, password : {None, CHOOSE p \in Passwords : TRUE},
                 pin : {CHOOSE p \in Pins : TRUE}, email : {CHOOSE a \in Emails : TRUE},
                 attempts : {[c \in Counters |-> 0]}, locked : {[c \in Counters |-> FALSE]},
                 grants : {Methods}]
    /\ sessions = [r \in Requests |-> NoSession]
    /\ issued = 0
    /\ req = [r \in Requests |-> NewRequest]
    /\ wrong = [c \in Counters |-> 0]
    /\ lapsed = [c \in Counters |-> 0]
    /\ changes = 0

Login(r) ==
    \/ \E s \in Passwords \cup Pins : EnterPassword(r, s)
    \/ \E s \in Pins : EnterPin(r, s)
    \/ \E a \in Emails : EnterEmail(r, a)
    \/ PasswordAttempt(r)
    \/ ReadPin(r)
    \/ PinAttempt(r)
    \/ Admit(r)
    \/ Issue(r)

Administration ==
    \/ \E p \in Passwords : ResetPassword(p)
    \/ \E p \in Pins : RotateOwnPin(p) \/ ResetPinAsAdmin(p)
    \/ LockUser
    \/ UnlockUser
    \/ SuspendUser
    \/ ActivateUser
    \/ \E a \in Emails : ChangeEmail(a)
    \/ \E g \in SUBSET Methods : ReplaceRoles(g)
    \/ SuspendTenant
    \/ ChangeTenant
    \/ \E c \in Counters : LockEnds(c)
    \/ \E r \in Requests : EndSession(r, "revoked") \/ EndSession(r, "expired")

Next == (\E r \in Requests : Login(r)) \/ Administration

Spec == Init /\ [][Next]_loginVars

-----------------------------------------------------------------------------
(* Properties. *)

\* Every variable has its type.
TypeOK ==
    /\ tenant \in [open : BOOLEAN, sso : BOOLEAN]
    /\ user \in User
    /\ sessions \in [Requests -> Session]
    /\ issued \in Nat
    /\ req \in [Requests -> Request]
    /\ wrong \in [Counters -> Nat] /\ lapsed \in [Counters -> Nat]
    /\ changes \in 0..MaxChanges

\* A live session belongs to an active account of an open workspace, and was
\* issued on the password, PIN or address the account has now: no login that
\* was under way survives the change that should have ended it.
LiveSessionIsEarned ==
    \A r \in Open : LET s == sessions[r] IN
        /\ tenant.open /\ user.active
        /\ s.method = "USERNAME_PASSWORD" => s.proof = user.password
        /\ s.method = "USERNAME_PIN" => s.proof = user.pin
        /\ s.method = "EMAIL_OTP" => s.proof = user.email

\* However many guesses are made at once, at most MaxTries wrong ones are
\* judged before the credential locks, and one more after each lock that ran
\* out.
GuessesAreMetered ==
    \A c \in Counters : wrong[c] <= MaxTries + lapsed[c]

\* A user has at most MaxSessions live sessions.
SessionCap == Cardinality(Open) <= MaxSessions

\* Room is made at the expense of the oldest: when a live session is deleted,
\* so is every older one.
EvictsOldest ==
    \A x, y \in Open :
        sessions'[x].state = "none" /\ sessions[y].createdAt < sessions[x].createdAt
        => sessions'[y].state = "none"
OldestIsEvicted == [][EvictsOldest]_loginVars

\* A wrong PIN is charged to the PIN it was compared with, never to the one
\* that replaced it meanwhile.
ChargesOwnPin ==
    user'.attempts["pin"] > user.attempts["pin"] =>
        \E r \in Requests : /\ req[r].pc = "pinAttempt" /\ req'[r].pc = "refused"
                            /\ req[r].proof = user.pin /\ req[r].secret # user.pin
StaleGuessIsFree == [][ChargesOwnPin]_loginVars

\* A PIN that was locked while its login was under way signs nobody in.
PinIsUnlocked ==
    \A r \in Requests :
        req[r].pc # "signedIn" /\ req'[r].pc = "signedIn" /\ req[r].method = "USERNAME_PIN"
        => ~user.locked["pin"] /\ user'.locked = [user.locked EXCEPT !["password"] = FALSE]
LockedPinSignsNobodyIn == [][PinIsUnlocked]_loginVars
=============================================================================
