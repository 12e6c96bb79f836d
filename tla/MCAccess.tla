------------------------------ MODULE MCAccess ------------------------------
(***************************************************************************)
(* Who is let in, for TLC: logins, refresh rotation, second factors and the *)
(* administration of roles.  The components share no state here, so one run *)
(* checks them side by side: a behaviour is a behaviour of the component    *)
(* that scope names, and the reachable states are the union of theirs.      *)
(* Logins are there twice: two that overlap changes of the account, and a   *)
(* crowd of three; so are second factors, once with more requests for one   *)
(* code.  Roles are checked on two instances: a ladder of ranks with a      *)
(* custom role and one request at a time, and two system administrators     *)
(* whose requests about each other overlap.                                 *)
(***************************************************************************)
EXTENDS RefreshRotation, TLC

\* The members of the sets, and what each instance of a component is given
CONSTANTS
    p1, p2, q1, r1, r2, r3, pw1, pw2, pin1, pin2, a1, a2, s1, s2, t1, t2, b1, root,
    peer, admin, staff, c1, LoginRequests, LoginPasswords, LoginPins, LoginEmails,
    LoginMaxTries, LoginMaxSessions, LoginMaxChanges, CrowdRequests, CrowdPasswords,
    CrowdPins, CrowdEmails, CrowdMaxTries, CrowdMaxSessions, CrowdMaxChanges,
    MfaSessions, MfaRequests, MfaSteps, MfaBackups, MfaDemo, MfaMaxSecrets, MfaMaxChanges,
    ReuseSessions, ReuseRequests, ReuseSteps, ReuseBackups, ReuseDemo, ReuseMaxSecrets,
    ReuseMaxChanges, LadderUsers, LadderCustomRoles, LadderRequests, LadderHired,
    LadderPermissionSets, LadderRoleSets, LadderMaxLogins, RaceUsers, RaceCustomRoles,
    RaceRequests, RaceHired, RacePermissionSets, RaceRoleSets, RaceMaxLogins

VARIABLES
    scope, loginTenant, loginUser, loginSessions, loginIssued, loginReq, loginWrong, loginLapsed,
    loginChanges, crowdTenant, crowdUser, crowdSessions, crowdIssued, crowdReq, crowdWrong,
    crowdLapsed, crowdChanges, mfaUser, mfaPolicy, mfaSession, mfaClaims, mfaMarker,
    mfaReq, mfaDrawn, mfaPassed, mfaUses, mfaExempt, mfaChanges, reuseUser, reusePolicy,
    reuseSession, reuseClaims, reuseMarker, reuseReq, reuseDrawn, reusePassed,
    reuseUses, reuseExempt, reuseChanges, ladderRole, ladderStatus, ladderLocked, ladderAssigned,
    ladderCustom, ladderSession, ladderLive, ladderRequest, raceRole, raceStatus,
    raceLocked, raceAssigned, raceCustom, raceSession, raceLive, raceRequest

Login == INSTANCE AuthLogin WITH
    Requests <- LoginRequests, Passwords <- LoginPasswords, Pins <- LoginPins, Emails <-
    LoginEmails, None <- None, MaxTries <- LoginMaxTries, MaxSessions <-
    LoginMaxSessions, MaxChanges <- LoginMaxChanges, tenant <- loginTenant, user <-
    loginUser, sessions <- loginSessions, issued <- loginIssued, req <- loginReq,
    wrong <- loginWrong, lapsed <- loginLapsed, changes <- loginChanges

loginVars == <<loginTenant, loginUser, loginSessions, loginIssued, loginReq,
    loginWrong, loginLapsed, loginChanges>>

Crowd == INSTANCE AuthLogin WITH
    Requests <- CrowdRequests, Passwords <- CrowdPasswords, Pins <- CrowdPins, Emails <-
    CrowdEmails, None <- None, MaxTries <- CrowdMaxTries, MaxSessions <-
    CrowdMaxSessions, MaxChanges <- CrowdMaxChanges, tenant <- crowdTenant, user <-
    crowdUser, sessions <- crowdSessions, issued <- crowdIssued, req <- crowdReq,
    wrong <- crowdWrong, lapsed <- crowdLapsed, changes <- crowdChanges

crowdVars == <<crowdTenant, crowdUser, crowdSessions, crowdIssued, crowdReq,
    crowdWrong, crowdLapsed, crowdChanges>>

Mfa == INSTANCE MfaSession WITH
    Sessions <- MfaSessions, Requests <- MfaRequests, Steps <- MfaSteps, Backups <-
    MfaBackups, None <- None, Demo <- MfaDemo, MaxSecrets <- MfaMaxSecrets, MaxChanges <- MfaMaxChanges,
    user <- mfaUser, policy <- mfaPolicy, session <- mfaSession, claims <- mfaClaims,
    marker <- mfaMarker, req <- mfaReq, drawn <- mfaDrawn, passed <- mfaPassed, uses <-
    mfaUses, exempt <- mfaExempt, changes <- mfaChanges

mfaVars == <<mfaUser, mfaPolicy, mfaSession, mfaClaims, mfaMarker, mfaReq, mfaDrawn,
    mfaPassed, mfaUses, mfaExempt, mfaChanges>>

Reuse == INSTANCE MfaSession WITH
    Sessions <- ReuseSessions, Requests <- ReuseRequests, Steps <- ReuseSteps, Backups
    <- ReuseBackups, None <- None, Demo <- ReuseDemo, MaxSecrets <- ReuseMaxSecrets, MaxChanges <-
    ReuseMaxChanges, user <- reuseUser, policy <- reusePolicy, session <- reuseSession,
    claims <- reuseClaims, marker <- reuseMarker, req <- reuseReq, drawn <- reuseDrawn,
    passed <- reusePassed, uses <- reuseUses, exempt <- reuseExempt,
    changes <- reuseChanges

reuseVars == <<reuseUser, reusePolicy, reuseSession, reuseClaims, reuseMarker, reuseReq,
    reuseDrawn, reusePassed, reuseUses, reuseExempt, reuseChanges>>

Ladder == INSTANCE RoleAdministration WITH
    Users <- LadderUsers, CustomRoles <- LadderCustomRoles, Requests <- LadderRequests,
    Hired <- LadderHired, PermissionSets <- LadderPermissionSets, RoleSets <-
    LadderRoleSets, MaxLogins <- LadderMaxLogins, NoRequest <- None, role <- ladderRole,
    status <- ladderStatus, locked <- ladderLocked, assigned <- ladderAssigned, custom
    <- ladderCustom, session <- ladderSession, live <- ladderLive, request <-
    ladderRequest

ladderVars == <<ladderRole, ladderStatus, ladderLocked, ladderAssigned, ladderCustom,
    ladderSession, ladderLive, ladderRequest>>

Race == INSTANCE RoleAdministration WITH
    Users <- RaceUsers, CustomRoles <- RaceCustomRoles, Requests <- RaceRequests, Hired
    <- RaceHired, PermissionSets <- RacePermissionSets, RoleSets <- RaceRoleSets,
    MaxLogins <- RaceMaxLogins, NoRequest <- None, role <- raceRole, status <-
    raceStatus, locked <- raceLocked, assigned <- raceAssigned, custom <- raceCustom,
    session <- raceSession, live <- raceLive, request <- raceRequest

raceVars == <<raceRole, raceStatus, raceLocked, raceAssigned, raceCustom, raceSession,
    raceLive, raceRequest>>

\* Every component is given constants it is meant for.
ASSUME AccessAssumption ==
    /\ Login!LoginAssumption
    /\ Crowd!LoginAssumption
    /\ Mfa!MfaAssumption
    /\ Reuse!MfaAssumption
    /\ Ladder!AccessAssumption
    /\ Race!AccessAssumption /\ Race!AdminIsHired

\* A behaviour moves one component; the others keep one initial state.
MCInit ==
    /\ scope \in {"rotation", "logins", "crowd", "factors", "reuse", "ladder", "race"}
    /\ Init /\ (scope = "rotation" \/ (mfa /\ session[s1].validator = 1))
    /\ Login!Init /\ (scope = "logins" \/ loginUser.password = None)
    /\ Crowd!Init /\ (scope = "crowd" \/ crowdUser.password = None)
    /\ Mfa!Init /\ (scope = "factors" \/ mfaPolicy)
    /\ Reuse!Init /\ (scope = "reuse" \/ reusePolicy)
    /\ Ladder!Init
    /\ Race!Init

MCNext ==
    \/ /\ scope = "rotation"
       /\ Next
       /\ UNCHANGED <<scope, loginVars, crowdVars, mfaVars, reuseVars, ladderVars,
                       raceVars>>
    \/ /\ scope = "logins"
       /\ Login!Next
       /\ UNCHANGED <<scope, rotationVars, crowdVars, mfaVars, reuseVars, ladderVars,
                       raceVars>>
    \/ /\ scope = "crowd"
       /\ Crowd!Next
       /\ UNCHANGED <<scope, rotationVars, loginVars, mfaVars, reuseVars, ladderVars,
                       raceVars>>
    \/ /\ scope = "factors"
       /\ Mfa!Next
       /\ UNCHANGED <<scope, rotationVars, loginVars, crowdVars, reuseVars, ladderVars,
                       raceVars>>
    \/ /\ scope = "reuse"
       /\ Reuse!Next
       /\ UNCHANGED <<scope, rotationVars, loginVars, crowdVars, mfaVars, ladderVars,
                       raceVars>>
    \/ /\ scope = "ladder"
       /\ Ladder!Next
       /\ UNCHANGED <<scope, rotationVars, loginVars, crowdVars, mfaVars, reuseVars,
                       raceVars>>
    \/ /\ scope = "race"
       /\ Race!Next
       /\ UNCHANGED <<scope, rotationVars, loginVars, crowdVars, mfaVars, reuseVars,
                       ladderVars>>

mcVars ==
    <<scope, rotationVars, loginVars, crowdVars, mfaVars, reuseVars, ladderVars,
      raceVars>>

MCSpec == MCInit /\ [][MCNext]_mcVars

\* The users the two instances begin with
ThreeRanks == root :> "SUPER_ADMIN" @@ admin :> "ADMIN" @@ staff :> "STAFF"
TwoPeers == root :> "SUPER_ADMIN" @@ peer :> "SUPER_ADMIN"

-----------------------------------------------------------------------------
(* Properties. *)

\* Logins: every live session was earned by a proof the account accepted, the
\* lockout counts every wrong guess since it last lapsed, and an account has
\* at most its number of sessions.
LoginSafe ==
    /\ scope = "logins" => Login!TypeOK /\ Login!LiveSessionIsEarned
                           /\ Login!GuessesAreMetered /\ Login!SessionCap
    /\ scope = "crowd" => Crowd!GuessesAreMetered /\ Crowd!SessionCap

\* Second factors: a live session is marked as verified only by a factor of
\* the secret that protects the account now, or because it was issued under
\* the exemption BETA_DEMO; a factor is used once, and only one of several
\* concurrent enrolments takes effect.
MfaSafe ==
    /\ scope = "factors" => Mfa!TypeOK /\ Mfa!LiveMarkerIsEarned /\ Mfa!EnrolmentIsSingle
    /\ scope = "reuse" => Reuse!FactorUsedOnce

\* Signing in and staying so: a new session evicts only the oldest, a proof
\* that no longer holds costs no guess, a locked PIN signs nobody in, the
\* answer "verified" is given only to a session that passed its factor or
\* was issued exempt from it, presenting a credential that was already rotated ends its family, and a
\* guessed one ends nothing.
SignInSteps ==
    /\ Crowd!OldestIsEvicted /\ Login!StaleGuessIsFree /\ Login!LockedPinSignsNobodyIn
    /\ Mfa!VerifiedAnswerIsEarned
    /\ ReplayEndsFamily /\ GuessEndsNothing

\* Roles: the role column and the assignments agree, nobody holds a deleted
\* role, and some system administrator who can sign in remains, also when
\* administrators act on each other at the same time.
RolesSafe ==
    /\ scope = "ladder" => Ladder!TypeOK /\ Ladder!DualSourceAgrees /\ Ladder!AssignedRolesLive
    /\ scope = "race" => Race!TypeOK /\ Race!DualSourceAgrees /\ Race!SystemAdminRemains

\* Roles: permissions are only handed on by somebody who holds them, and only
\* a system administrator changes a system administrator.
RolesSteps == Ladder!GrantsComeFromHolders /\ Ladder!SystemAdminsAreProtected
=============================================================================
