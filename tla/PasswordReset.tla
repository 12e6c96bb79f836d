---------------------------- MODULE PasswordReset -----------------------------
(***************************************************************************)
(* Password recovery.  A request supersedes the account's earlier links,   *)
(* stores the hash of a new one and an outbox row with the encrypted       *)
(* e-mail, all in one transaction; the worker's sweep claims due rows and  *)
(* hands each e-mail to the provider under the locks tenant, user, row; a  *)
(* link is redeemed in two parts, a look-up that locks nothing and, after  *)
(* the new password is hashed, the transaction that checks it all again.   *)
(*                                                                         *)
(* One account.  Links are numbered in the order they are issued; link n,  *)
(* its token and its outbox row share the number.                          *)
(***************************************************************************)
EXTENDS Integers, FiniteSets

CONSTANTS
    Workers,      \* worker processes, each a sequential sweep
    Redeemers,    \* requests that redeem a link
    Addresses,    \* e-mail addresses the account may have
    None,
    MaxLinks,     \* bound: recovery requests that issue a link
    MaxAttempts,  \* PASSWORD_RESET_EMAIL_MAX_ATTEMPTS
    MaxFaults,    \* bound: failed or lost calls, crashes, early time-outs
    MaxSwitches   \* bound: changes of the account, its policy and its tenant

ResetAssumption ==
    /\ None \notin Workers \cup Redeemers \cup Addresses
    /\ Addresses # {}
    /\ MaxLinks \in Nat \ {0}
    /\ MaxAttempts \in Nat \ {0}
    /\ MaxFaults \in Nat
    /\ MaxSwitches \in Nat

VARIABLES
    open,     \* the tenant is neither deleted, suspended nor purged
    allowed,  \* password login is permitted by policy and role
    user,     \* the account
    token,    \* PasswordResetToken, by link
    row,      \* PasswordResetEmailOutbox, by link
    sessions, \* live sessions, by the password they were opened with
    inbox,    \* e-mails the provider accepted: link and address
    worker,   \* what each worker is doing
    redeem,   \* what each redeeming request is doing
    faults,
    switches

prVars == <<open, allowed, user, token, row, sessions, inbox, worker, redeem, faults, switches>>
bounds == <<faults, switches>>

-----------------------------------------------------------------------------
Links == 1 .. MaxLinks

\* The number of the link that set the password; 0 is the first password.
Passwords == 0 .. MaxLinks

Token == [state : {"none", "live", "consumed"}, expired : BOOLEAN]

Waiting == {"PENDING", "SENDING", "FAILED"}
\* to: the address in the encrypted payload, erased with the terminal states.
Row == [status : {"NONE", "DELIVERED", "DEAD_LETTERED"} \cup Waiting,
        attempts : 0 .. MaxAttempts, due : BOOLEAN,
        lease : {"none", "live", "ended"}, to : Addresses \cup {None}]
NoRow == [status |-> "NONE", attempts |-> 0, due |-> FALSE, lease |-> "none", to |-> None]

User == [state : {"active", "suspended", "deleted"}, email : Addresses \cup {None},
         suppressed : BOOLEAN, password : Passwords \cup {None}]

\* The transaction of deliver_if_eligible is open in the pcs of Open.
Open == {"sending", "accepted"}
Worker == [pc : {"idle", "claimed", "failing"} \cup Open, link : Links \cup {None},
           attempts : 0 .. MaxAttempts, to : Addresses \cup {None}, permanent : BOOLEAN]
Idle == [pc |-> "idle", link |-> None, attempts |-> 0, to |-> None, permanent |-> FALSE]

Fault == /\ faults < MaxFaults
         /\ faults' = faults + 1
         /\ UNCHANGED switches
Switch == /\ switches < MaxSwitches
          /\ switches' = switches + 1
          /\ UNCHANGED faults

Return(w) == worker' = [worker EXCEPT ![w] = Idle]
Goto(w, pc) == worker' = [worker EXCEPT ![w].pc = pc]

\* FOR UPDATE locks on tenant, user and row while the provider is called.
Locked == \E w \in Workers : worker[w].pc \in Open

\* passwordResetUserInTransaction: lockout, PIN and MFA do not matter here.
CanRecover == open /\ user.state = "active" /\ user.password # None

\* A terminal transition, with scrub_terminal_password_reset_email_payload.
Ended(r, s) == [NoRow EXCEPT !.status = s, !.attempts = r.attempts]
Buried(r) == IF r.status \in Waiting THEN Ended(r, "DEAD_LETTERED") ELSE r
Consumed(t) == IF t.state = "live" THEN [t EXCEPT !.state = "consumed"] ELSE t

ConsumeAll == [n \in Links |-> Consumed(token[n])]

BuryAll == [n \in Links |-> Buried(row[n])]

-----------------------------------------------------------------------------
(* The API. *)

\* createPasswordReset.  What it reads before the transaction decides nothing.
CreatePasswordReset(n) ==
    /\ ~Locked
    /\ CanRecover /\ user.email # None /\ allowed
    /\ token[n].state = "none" /\ \A k \in 1 .. n - 1 : token[k].state # "none"
    /\ token' = [ConsumeAll EXCEPT ![n].state = "live"]
    /\ row' = [BuryAll EXCEPT ![n] = [NoRow EXCEPT !.status = "PENDING", !.due = TRUE, !.to = user.email]]
    /\ UNCHANGED <<open, allowed, user, sessions, inbox, worker, redeem, bounds>>

Usable(n) == token[n].state = "live" /\ ~token[n].expired

\* resetPasswordWithToken before the transaction, by whoever has the e-mail.
Locate(r, n) ==
    /\ redeem[r] = None
    /\ \E m \in inbox : m.link = n
    /\ Usable(n) /\ user.state = "active" /\ user.password # None
    /\ redeem' = [redeem EXCEPT ![r] = n]
    /\ UNCHANGED <<open, allowed, user, token, row, sessions, inbox, worker, bounds>>

\* Mutant: the sessions of the old password stay open.
ResetKeepsSessions(r) ==
    /\ redeem[r] # None
    /\ ~Locked
    /\ redeem' = [redeem EXCEPT ![r] = None]
    /\ IF CanRecover /\ Usable(redeem[r])
       THEN /\ user' = [user EXCEPT !.password = redeem[r]]
            /\ token' = ConsumeAll
       ELSE UNCHANGED <<user, token>>
    /\ UNCHANGED <<open, allowed, sessions, row, inbox, worker, bounds>>

\* resetPasswordWithToken, its transaction; the outbox is left alone.
ResetPasswordWithToken(r) ==
    /\ redeem[r] # None
    /\ ~Locked
    /\ redeem' = [redeem EXCEPT ![r] = None]
    /\ IF CanRecover /\ Usable(redeem[r])
       THEN /\ user' = [user EXCEPT !.password = redeem[r]]
            /\ sessions' = {}
            /\ token' = ConsumeAll
       ELSE UNCHANGED <<user, sessions, token>>
    /\ UNCHANGED <<open, allowed, row, inbox, worker, bounds>>

\* createSessionTokens after a password login: the password that was proved
\* is compared under the same locks.
SignIn ==
    /\ ~Locked
    /\ CanRecover /\ allowed
    /\ sessions' = sessions \cup {user.password}
    /\ UNCHANGED <<open, allowed, user, token, row, inbox, worker, redeem, bounds>>

-----------------------------------------------------------------------------
(* The worker. *)

Due(r) == \/ r.status \in {"PENDING", "FAILED"} /\ r.due
          \/ r.status = "SENDING" /\ r.lease = "ended"

Blocked == user.state # "active" \/ user.suppressed \/ ~open

\* claim, first statement: rows nobody may receive.
ClaimedFrom == [n \in Links |-> IF Due(row[n]) /\ Blocked THEN Buried(row[n]) ELSE row[n]]

Claimable(n) ==
    /\ Due(ClaimedFrom[n]) /\ ~Blocked
    /\ row[n].attempts < MaxAttempts
    /\ ~token[n].expired

\* claim, and decrypt_envelope of the row it takes.
Claim(w) ==
    /\ worker[w].pc = "idle"
    /\ ~Locked
    /\ \/ /\ ClaimedFrom # row
          /\ row' = ClaimedFrom
          /\ UNCHANGED worker
       \/ \E n \in Links :
             /\ Claimable(n)
             /\ row' = [row EXCEPT ![n].status = "SENDING", ![n].attempts = @ + 1,
                                   ![n].due = FALSE, ![n].lease = "live"]
             /\ worker' = [worker EXCEPT ![w] =
                   [Idle EXCEPT !.pc = "claimed", !.link = n,
                                !.attempts = row[n].attempts + 1, !.to = row[n].to]]
    /\ UNCHANGED <<open, allowed, user, token, sessions, inbox, redeem, bounds>>

\* id, attempts and SENDING: the claim is still this worker's.
Owns(w) == /\ row[worker[w].link].status = "SENDING"
           /\ row[worker[w].link].attempts = worker[w].attempts

Current(w) == user.state = "active" /\ ~user.suppressed /\ user.email = worker[w].to

\* deliver_if_eligible up to the provider: _terminalize_lifecycle_block, a
\* claim that was lost, or the handoff.  A lease that ends is noticed by the
\* clock read on entry, or not at all.
Begin(w) ==
    /\ worker[w].pc = "claimed"
    /\ ~Locked
    /\ IF ~open \/ ~Current(w)
       THEN /\ row' = IF Owns(w) THEN [row EXCEPT ![worker[w].link] = Ended(@, "DEAD_LETTERED")]
                      ELSE row
            /\ Return(w)
       ELSE /\ \/ Owns(w) /\ Goto(w, "sending")
               \/ (~Owns(w) \/ row[worker[w].link].lease = "ended") /\ Return(w)
            /\ UNCHANGED row
    /\ UNCHANGED <<open, allowed, user, token, sessions, inbox, redeem, bounds>>

\* The provider keeps one e-mail per Idempotency-Key, password-reset/<row id>.
Mail(w) == [link |-> worker[w].link, to |-> worker[w].to]

\* send_with_resend
Send(w) ==
    /\ worker[w].pc = "sending"
    /\ inbox' = inbox \cup {Mail(w)}
    /\ Goto(w, "accepted")
    /\ UNCHANGED <<open, allowed, user, token, row, sessions, redeem, bounds>>

\* A rejection, a failure to be retried, or a lost answer.
SendFails(w) ==
    /\ worker[w].pc = "sending"
    /\ \E permanent \in BOOLEAN :
          /\ worker' = [worker EXCEPT ![w].pc = "failing", ![w].permanent = permanent]
          /\ \/ UNCHANGED inbox
             \/ ~permanent /\ inbox' = inbox \cup {Mail(w)}
    /\ Fault
    /\ UNCHANGED <<open, allowed, user, token, row, sessions, redeem>>

Deliver(w) ==
    /\ worker[w].pc = "accepted"
    /\ row' = [row EXCEPT ![worker[w].link] = Ended(@, "DELIVERED")]
    /\ Return(w)
    /\ UNCHANGED <<open, allowed, user, token, sessions, inbox, redeem, bounds>>

\* The envelope does not decrypt, or the database fails.
DeliveryFails(w) ==
    /\ worker[w].pc \in Open \cup {"claimed"}
    /\ \E permanent \in BOOLEAN :
          /\ permanent => worker[w].pc = "claimed"
          /\ worker' = [worker EXCEPT ![w].pc = "failing", ![w].permanent = permanent]
    /\ Fault
    /\ UNCHANGED <<open, allowed, user, token, row, sessions, inbox, redeem>>

GivesUp(w) == worker[w].permanent \/ worker[w].attempts >= MaxAttempts

\* mark_failed
MarkFailed(w) ==
    /\ worker[w].pc = "failing"
    /\ ~Locked
    /\ row' = IF ~Owns(w) THEN row
              ELSE [row EXCEPT ![worker[w].link] =
                      IF GivesUp(w) THEN Ended(@, "DEAD_LETTERED")
                      ELSE [@ EXCEPT !.status = "FAILED", !.lease = "none"]]
    /\ Return(w)
    /\ UNCHANGED <<open, allowed, user, token, sessions, inbox, redeem, bounds>>

\* Rows that no claim will take any more.
Stranded(n) ==
    /\ row[n].status \in Waiting
    /\ \/ token[n].expired
       \/ row[n].status = "SENDING" /\ row[n].attempts >= MaxAttempts /\ row[n].lease = "ended"

\* terminalize_stranded, at the start of every sweep.
TerminalizeStranded(w) ==
    /\ worker[w].pc = "idle"
    /\ ~Locked
    /\ \E n \in Links : Stranded(n)
    /\ row' = [n \in Links |-> IF Stranded(n) THEN Buried(row[n]) ELSE row[n]]
    /\ UNCHANGED <<open, allowed, user, token, sessions, inbox, worker, redeem, bounds>>

\* The process stops, or mark_failed fails and ends the sweep.
WorkerStops(w) ==
    /\ worker[w].pc # "idle"
    /\ Return(w)
    /\ Fault
    /\ UNCHANGED <<open, allowed, user, token, row, sessions, inbox, redeem>>

-----------------------------------------------------------------------------
(* Time, and the other writers. *)

LeaseEnds(n) ==
    /\ row[n].lease = "live"
    /\ row' = [row EXCEPT ![n].lease = "ended"]
    /\ IF \E w \in Workers : worker[w].link = n /\ Owns(w) THEN Fault ELSE UNCHANGED bounds
    /\ UNCHANGED <<open, allowed, user, token, sessions, inbox, worker, redeem>>

RetryDue(n) ==
    /\ row[n].status = "FAILED" /\ ~row[n].due
    /\ row' = [row EXCEPT ![n].due = TRUE]
    /\ UNCHANGED <<open, allowed, user, token, sessions, inbox, worker, redeem, bounds>>

\* The link and its row share expiresAt.
LinkExpires(n) ==
    /\ token[n].state # "none" /\ ~token[n].expired
    /\ token' = [token EXCEPT ![n].expired = TRUE]
    /\ UNCHANGED <<open, allowed, user, row, sessions, inbox, worker, redeem, bounds>>

\* updateUser of the administration, with scrub_user_email_delivery_state.
ChangeEmail(a) ==
    /\ ~Locked
    /\ user.state # "deleted" /\ a # user.email
    /\ user' = [user EXCEPT !.email = a, !.suppressed = FALSE]
    /\ token' = ConsumeAll
    /\ row' = BuryAll
    /\ sessions' = {}
    /\ Switch
    /\ UNCHANGED <<open, allowed, inbox, worker, redeem>>

\* suspend, and activate, which open no session and touch no link.
Suspend ==
    /\ ~Locked
    /\ user.state \in {"active", "suspended"}
    /\ user' = [user EXCEPT !.state = IF @ = "active" THEN "suspended" ELSE "active"]
    /\ sessions' = {}
    /\ Switch
    /\ UNCHANGED <<open, allowed, token, row, inbox, worker, redeem>>

\* handleProviderEvent: a hard bounce or a complaint for the current address.
Suppress ==
    /\ ~Locked
    /\ user.state # "deleted" /\ user.email # None /\ ~user.suppressed
    /\ user' = [user EXCEPT !.suppressed = TRUE]
    /\ Switch
    /\ UNCHANGED <<open, allowed, token, row, sessions, inbox, worker, redeem>>

\* Deleting the account; the rows go with it.
DeleteUser ==
    /\ ~Locked
    /\ user.state # "deleted"
    /\ user' = [state |-> "deleted", email |-> None, suppressed |-> FALSE, password |-> None]
    /\ token' = ConsumeAll
    /\ row' = [n \in Links |-> NoRow]
    /\ sessions' = {}
    /\ Switch
    /\ UNCHANGED <<open, allowed, inbox, worker, redeem>>

\* ssoOidcOnly, or the role's auth:login_password.
ChangePolicy ==
    /\ ~Locked
    /\ allowed' = ~allowed
    /\ Switch
    /\ UNCHANGED <<open, user, token, row, sessions, inbox, worker, redeem>>

ChangeTenant ==
    /\ ~Locked
    /\ open' = ~open
    /\ Switch
    /\ UNCHANGED <<allowed, user, token, row, sessions, inbox, worker, redeem>>

-----------------------------------------------------------------------------
Init ==
    /\ open = TRUE
    /\ allowed = TRUE
    /\ \E a \in Addresses :
          user = [state |-> "active", email |-> a, suppressed |-> FALSE, password |-> 0]
    /\ token = [n \in Links |-> [state |-> "none", expired |-> FALSE]]
    /\ row = [n \in Links |-> NoRow]
    /\ sessions = {}
    /\ inbox = {}
    /\ worker = [w \in Workers |-> Idle]
    /\ redeem = [r \in Redeemers |-> None]
    /\ faults = 0
    /\ switches = 0

Step(w) ==
    \/ Claim(w)
    \/ Begin(w)
    \/ Send(w)
    \/ SendFails(w)
    \/ Deliver(w)
    \/ DeliveryFails(w)
    \/ MarkFailed(w)
    \/ TerminalizeStranded(w)
    \/ WorkerStops(w)

Next ==
    \/ \E n \in Links : CreatePasswordReset(n)
    \/ \E r \in Redeemers, n \in Links : Locate(r, n)
    \/ \E r \in Redeemers : ResetPasswordWithToken(r)
    \/ SignIn
    \/ \E w \in Workers : Step(w)
    \/ \E n \in Links : LeaseEnds(n)
    \/ \E n \in Links : RetryDue(n)
    \/ \E n \in Links : LinkExpires(n)
    \/ \E a \in Addresses : ChangeEmail(a)
    \/ Suspend
    \/ Suppress
    \/ DeleteUser
    \/ ChangePolicy
    \/ ChangeTenant

Spec == Init /\ [][Next]_prVars

\* run_password_reset_email_loop sweeps for ever, and time passes.
Fairness ==
    /\ \A w \in Workers : WF_prVars(Step(w))
    /\ \A n \in Links : WF_prVars(LeaseEnds(n)) /\ WF_prVars(RetryDue(n))

FairSpec == Spec /\ Fairness

-----------------------------------------------------------------------------
(* Properties. *)

\* Every variable has its type; the attempts of a row stay within their budget.
TypeOK ==
    /\ open \in BOOLEAN /\ allowed \in BOOLEAN
    /\ user \in User
    /\ token \in [Links -> Token]
    /\ row \in [Links -> Row]
    /\ sessions \subseteq Passwords
    /\ worker \in [Workers -> Worker]
    /\ redeem \in [Redeemers -> Links \cup {None}]

\* At most one link of the account can be redeemed, and it is the newest.
OnlyNewestLinkLives ==
    \A n \in Links : token[n].state = "live" =>
        \A k \in Links : k > n => token[k].state = "none"

\* Whoever changes the password holds the newest, unspent, unexpired link,
\* and it was sent to the address the account has at that moment, however
\* the request was overtaken between its look-up and its transaction.
Authorised(n) ==
    /\ Usable(n) /\ token'[n].state = "consumed"
    /\ \A k \in Links : k > n => token[k].state = "none"
    /\ open /\ user.state = "active"
    /\ \A m \in inbox : m.link = n => m.to = user.email
PasswordStep ==
    user'.password # user.password /\ user'.password # None => Authorised(user'.password)
ResetIsAuthorised == [][PasswordStep]_prVars

\* No session opened with an earlier password outlives a reset.
SessionsFollowPassword == sessions \subseteq {user.password}

\* The first e-mail of a link reaches an account that may use it, while the
\* link has been neither spent nor superseded.
MailStep ==
    \A m \in inbox' \ inbox :
        /\ open /\ user.state = "active" /\ ~user.suppressed /\ m.to = user.email
        /\ token[m.link].state = "live"
MailIsUseful == [][MailStep]_prVars

\* A delivered row had its e-mail accepted; rows never leave a terminal state
\* but by the deletion of the account.
RowStep ==
    \A n \in Links : row'[n] # row[n] =>
        /\ row'[n].status = "DELIVERED" => \E m \in inbox : m.link = n
        /\ row[n].status \in {"DELIVERED", "DEAD_LETTERED"} => row'[n] = NoRow
DeliveredIsSent == [][RowStep]_prVars

\* Every recovery e-mail is delivered or given up, and nobody has to wait for
\* its link to expire: a worker that stops in the last attempt strands nothing.
EveryMailEnds ==
    \A n \in Links : row[n].status \in Waiting ~> row[n].status \notin Waiting
=============================================================================
