------------------------- MODULE RoleAdministration -------------------------
(***************************************************************************)
(* Access administration: who may change whose roles, sessions and account *)
(* state (apps/api/src/auth/rbac.service.ts, the admin and users           *)
(* controllers, and their native successors in apps/api-v2/src/people).    *)
(* Both APIs serve the same tables.  Every mutation is two transactions:   *)
(* a preflight that finds the actor entitled (Begin), the observation of   *)
(* the actor's MFA outside any transaction, and a final transaction that   *)
(* locks the actor, its session and both users' roles, decides again from  *)
(* what it reads then, and writes (the actions that finish a request).     *)
(* Requests of several administrators overlap, about each other too.       *)
(***************************************************************************)
EXTENDS Naturals, FiniteSets

CONSTANTS
    Users,          \* accounts of one workspace
    CustomRoles,    \* ids of tenant-defined roles (bounds role creations)
    Requests,       \* mutations in flight at a time
    Hired,          \* initial role of the accounts that exist; others are created by Invite
    PermissionSets, \* the permission lists a custom role may be written with
    RoleSets,       \* the role lists an access replacement may ask for
    MaxLogins,      \* bound on the sessions of one user
    NoRequest

Ranks == {"STAFF", "MANAGER", "ADMIN", "SUPER_ADMIN"}
Permissions == {"admin_portal:access", "tenant_account:lifecycle", "roles:write",
                "roles:assign", "users:admin", "users:write", "schedules:read"}

AccessAssumption ==
    /\ DOMAIN Hired \subseteq Users
    /\ \A u \in DOMAIN Hired : Hired[u] \in Ranks
    /\ PermissionSets \subseteq SUBSET Permissions
    /\ RoleSets \subseteq SUBSET (Ranks \cup CustomRoles)
    /\ Ranks \cap CustomRoles = {}
    /\ MaxLogins \in Nat

\* Somebody is a system administrator to begin with.
AdminIsHired == \E u \in DOMAIN Hired : Hired[u] = "SUPER_ADMIN"

VARIABLES
    role,       \* User.role
    status,     \* does the account exist, is it active, suspended or deleted
    locked,     \* accounts with lockedUntil in the future
    assigned,   \* RoleAssignment rows
    custom,     \* permissions of the tenant-defined roles, and whether they live
    session,    \* number of sessions a user has opened
    live,       \* each user's sessions that are neither revoked nor expired
    request     \* requests between their preflight and their final transaction

vars == <<role, status, locked, assigned, custom, session, live, request>>

Protected == {"admin_portal:access", "tenant_account:lifecycle"}

SystemPermissions(r) ==
    [SUPER_ADMIN |-> Permissions,
     ADMIN       |-> Permissions \ {"admin_portal:access"},
     MANAGER     |-> {"users:write", "schedules:read"},
     STAFF       |-> {"schedules:read"}][r]

Rank(r) == [STAFF |-> 1, MANAGER |-> 2, ADMIN |-> 3, SUPER_ADMIN |-> 4][r]

LiveRole(r) == r \in Ranks \/ (r \in CustomRoles /\ custom[r].state = "live")
RolePermissions(r) == IF r \in Ranks THEN SystemPermissions(r) ELSE custom[r].permissions
PermissionsOf(rs) == UNION {RolePermissions(r) : r \in {s \in rs : LiveRole(s)}}

\* The highest system role among some roles, STAFF when there is none.
Reconciled(rs) ==
    CHOOSE r \in Ranks :
        /\ r \in rs \cup {"STAFF"}
        /\ \A s \in (rs \cap Ranks) : Rank(s) <= Rank(r)

Held(u) == PermissionsOf(assigned[u])
IsSystemAdmin(u) == role[u] = "SUPER_ADMIN" /\ "SUPER_ADMIN" \in assigned[u]

-----------------------------------------------------------------------------
(* Authority *)

Exists(u) == status[u] \in {"active", "suspended"}

\* What both transactions ask of the actor: an account in good standing, the
\* very session of the request, and the permission through live roles.
Entitled(actor, s, permission) ==
    /\ status[actor] = "active"
    /\ actor \notin locked
    /\ s \in live[actor]
    /\ permission \in Held(actor)

\* Mutant: the final transaction relies on what the preflight found.
PreflightStands(q, permission) ==
    /\ request[q] # NoRequest
    /\ request[q].permission = permission
Authorized(q, permission) ==
    /\ request[q] # NoRequest
    /\ request[q].permission = permission
    /\ Entitled(request[q].actor, request[q].session, permission)

MayGrant(actor, ps) ==
    IsSystemAdmin(actor) \/ (ps \cap Protected = {} /\ ps \subseteq Held(actor))

\* A role may be handed out: protected ones by system administrators only,
\* and nothing the actor does not hold.
MayDelegate(actor, rs) ==
    /\ \A r \in rs : LiveRole(r)
    /\ IsSystemAdmin(actor) \/ ("SUPER_ADMIN" \notin rs /\ PermissionsOf(rs) \cap Protected = {})
    /\ PermissionsOf(rs) \subseteq Held(actor)

Outranks(rank, actor, target) ==
    /\ rank > Rank(Reconciled(assigned[target]))
    /\ Held(target) \subseteq Held(actor)
    /\ Held(target) # Held(actor)

\* User administration: not oneself, system administrators by system
\* administrators, others by someone with more access.
MayAdminister(actor, target) ==
    /\ actor # target
    /\ Exists(target)
    /\ IsSystemAdmin(target) => IsSystemAdmin(actor)
    /\ \/ IsSystemAdmin(actor)
       \/ LET own == IF role[actor] = "SUPER_ADMIN" THEN 0 ELSE Rank(role[actor])
              derived == Rank(Reconciled(assigned[actor]))
              rank == IF own > derived THEN own ELSE derived
          IN  rank > Rank(role[target]) /\ Outranks(rank, actor, target)

\* Platform administration needs the portal permission only; system
\* administrators are still administered by system administrators.
MayAdministerPlatform(actor, target) ==
    /\ actor # target
    /\ Exists(target)
    /\ IsSystemAdmin(target) => IsSystemAdmin(actor)

-----------------------------------------------------------------------------
Init ==
    /\ role = [u \in Users |-> IF u \in DOMAIN Hired THEN Hired[u] ELSE "STAFF"]
    /\ status = [u \in Users |-> IF u \in DOMAIN Hired THEN "active" ELSE "none"]
    /\ locked = {}
    /\ assigned = [u \in Users |-> IF u \in DOMAIN Hired THEN {Hired[u]} ELSE {}]
    /\ custom = [r \in CustomRoles |-> [state |-> "none", permissions |-> {}]]
    /\ session = [u \in Users |-> 0]
    /\ live = [u \in Users |-> {}]
    /\ request = [q \in Requests |-> NoRequest]

Login(u) ==
    /\ status[u] = "active"
    /\ u \notin locked
    /\ assigned[u] # {}
    /\ session[u] < MaxLogins
    /\ session' = [session EXCEPT ![u] = @ + 1]
    /\ live' = [live EXCEPT ![u] = @ \cup {session'[u]}]
    /\ UNCHANGED <<role, status, locked, assigned, custom, request>>

SessionEnds(u) ==
    /\ \E s \in live[u] : live' = [live EXCEPT ![u] = @ \ {s}]
    /\ UNCHANGED <<role, status, locked, assigned, custom, session, request>>

\* The preflight transaction of a mutation that needs one permission.
Begin(q, actor, permission) ==
    /\ request[q] = NoRequest
    /\ \E s \in live[actor] :
        /\ Entitled(actor, s, permission)
        /\ request' = [request EXCEPT ![q] =
                [actor |-> actor, session |-> s, permission |-> permission]]
    /\ UNCHANGED <<role, status, locked, assigned, custom, session, live>>

Finish(q) == request' = [request EXCEPT ![q] = NoRequest]

\* The final transaction refuses, or its caller is gone.
Refused(q) ==
    /\ request[q] # NoRequest
    /\ Finish(q)
    /\ UNCHANGED <<role, status, locked, assigned, custom, session, live>>

-----------------------------------------------------------------------------
(* Tenant-defined roles *)

CreateRole(q, r, ps) ==
    /\ Authorized(q, "roles:write")
    /\ MayGrant(request[q].actor, ps)
    /\ custom[r].state = "none"
    /\ custom' = [custom EXCEPT ![r] = [state |-> "live", permissions |-> ps]]
    /\ Finish(q)
    /\ UNCHANGED <<role, status, locked, assigned, session, live>>

\* Mutant: the update of a role checks the permission to write roles only.
UpdateRoleUnchecked(q, r, ps) ==
    /\ Authorized(q, "roles:write")
    /\ custom[r].state = "live"
    /\ custom' = [custom EXCEPT ![r].permissions = ps]
    /\ Finish(q)
    /\ UNCHANGED <<role, status, locked, assigned, session, live>>
UpdateRole(q, r, ps) ==
    /\ Authorized(q, "roles:write")
    /\ MayGrant(request[q].actor, ps)
    /\ custom[r].state = "live"
    /\ custom' = [custom EXCEPT ![r].permissions = ps]
    /\ Finish(q)
    /\ UNCHANGED <<role, status, locked, assigned, session, live>>

DeleteRole(q, r) ==
    /\ Authorized(q, "roles:write")
    /\ custom[r].state = "live"
    /\ \A u \in Users : r \notin assigned[u]
    /\ custom' = [custom EXCEPT ![r].state = "deleted"]
    /\ Finish(q)
    /\ UNCHANGED <<role, status, locked, assigned, session, live>>

-----------------------------------------------------------------------------
(* Roles of a user *)

SetRoles(u, rs) ==
    /\ assigned' = [assigned EXCEPT ![u] = rs]
    /\ role' = [role EXCEPT ![u] = Reconciled(rs)]

RevokeSessions(u) == live' = [live EXCEPT ![u] = {}]

RevokeIfChanged(u, rs) ==
    IF assigned[u] # rs \/ role[u] # Reconciled(rs) THEN RevokeSessions(u) ELSE UNCHANGED live

\* PUT /users/:id/role and /users/:id/access of the first API.  Here a system
\* administrator, too, must outrank the target.
ReplaceUserRoles(q, u, rs, permission) ==
    LET actor == request[q].actor IN
    /\ Authorized(q, permission)
    /\ actor # u
    /\ Exists(u)
    /\ IsSystemAdmin(u) => IsSystemAdmin(actor)
    /\ Outranks(Rank(Reconciled(assigned[actor])), actor, u)
    /\ MayDelegate(actor, rs)
    /\ SetRoles(u, rs)
    /\ RevokeIfChanged(u, rs)
    /\ Finish(q)
    /\ UNCHANGED <<status, locked, custom, session>>

\* The native successor leaves the sessions alone.
ReplaceAccess(q, u, rs) ==
    /\ Authorized(q, "roles:assign")
    /\ MayAdminister(request[q].actor, u)
    /\ MayDelegate(request[q].actor, rs)
    /\ SetRoles(u, rs)
    /\ Finish(q)
    /\ UNCHANGED <<status, locked, custom, session, live>>

\* The platform administrator gives a user one system role.
ReplaceSystemRole(q, u, r) ==
    LET actor == request[q].actor IN
    /\ Authorized(q, "admin_portal:access")
    /\ MayAdministerPlatform(actor, u)
    /\ r = "SUPER_ADMIN" => IsSystemAdmin(actor)
    /\ SetRoles(u, {r})
    /\ RevokeIfChanged(u, {r})
    /\ Finish(q)
    /\ UNCHANGED <<status, locked, custom, session>>

-----------------------------------------------------------------------------
(* Accounts *)

Invite(q, u, r) ==
    /\ Authorized(q, "users:write")
    /\ status[u] = "none"
    /\ MayDelegate(request[q].actor, {r})
    /\ status' = [status EXCEPT ![u] = "active"]
    /\ SetRoles(u, {r})
    /\ Finish(q)
    /\ UNCHANGED <<locked, custom, session, live>>

SetSuspended(q, u) ==
    /\ Authorized(q, "users:admin")
    /\ MayAdminister(request[q].actor, u)
    /\ status' = [status EXCEPT ![u] = IF @ = "suspended" THEN "active" ELSE "suspended"]
    /\ RevokeSessions(u)
    /\ Finish(q)
    /\ UNCHANGED <<role, locked, assigned, custom, session>>

Deactivate(q, u) ==
    /\ Authorized(q, "users:admin")
    /\ MayAdminister(request[q].actor, u)
    /\ status' = [status EXCEPT ![u] = "deleted"]
    /\ assigned' = [assigned EXCEPT ![u] = {}]
    /\ locked' = locked \ {u}
    /\ RevokeSessions(u)
    /\ Finish(q)
    /\ UNCHANGED <<role, custom, session>>

\* Suspension by a platform administrator; repeating it revokes again.
AdminSuspend(q, u) ==
    /\ Authorized(q, "admin_portal:access")
    /\ MayAdministerPlatform(request[q].actor, u)
    /\ status' = [status EXCEPT ![u] = "suspended"]
    /\ RevokeSessions(u)
    /\ Finish(q)
    /\ UNCHANGED <<role, locked, assigned, custom, session>>

AdminActivate(q, u) ==
    /\ Authorized(q, "admin_portal:access")
    /\ MayAdministerPlatform(request[q].actor, u)
    /\ status' = [status EXCEPT ![u] = "active"]
    /\ Finish(q)
    /\ UNCHANGED <<role, locked, assigned, custom, session, live>>

LockUser(q, u) ==
    /\ Authorized(q, "admin_portal:access")
    /\ MayAdministerPlatform(request[q].actor, u)
    /\ locked' = locked \cup {u}
    /\ RevokeSessions(u)
    /\ Finish(q)
    /\ UNCHANGED <<role, status, assigned, custom, session>>

UnlockUser(q, u) ==
    /\ Authorized(q, "admin_portal:access")
    /\ MayAdministerPlatform(request[q].actor, u)
    /\ locked' = locked \ {u}
    /\ Finish(q)
    /\ UNCHANGED <<role, status, assigned, custom, session, live>>

Next ==
    \/ \E u \in Users : Login(u) \/ SessionEnds(u)
    \/ \E q \in Requests :
        \/ \E u \in Users, p \in Permissions : Begin(q, u, p)
        \/ Refused(q)
        \/ \E r \in CustomRoles, ps \in PermissionSets : CreateRole(q, r, ps) \/ UpdateRole(q, r, ps)
        \/ \E r \in CustomRoles : DeleteRole(q, r)
        \/ \E u \in Users :
            \/ \E rs \in RoleSets : ReplaceUserRoles(q, u, rs, "roles:assign")
            \/ \E r \in Ranks : ReplaceUserRoles(q, u, {r}, "users:admin")
            \/ \E rs \in RoleSets : ReplaceAccess(q, u, rs)
            \/ \E r \in Ranks : ReplaceSystemRole(q, u, r)
            \/ \E r \in Ranks \cup CustomRoles : Invite(q, u, r)
            \/ SetSuspended(q, u)
            \/ Deactivate(q, u)
            \/ AdminSuspend(q, u) \/ AdminActivate(q, u)
            \/ LockUser(q, u) \/ UnlockUser(q, u)

Spec == Init /\ [][Next]_vars

-----------------------------------------------------------------------------
(* Properties *)

\* The variables keep their types: accounts, sessions and requests in flight.
TypeOK ==
    /\ role \in [Users -> Ranks]
    /\ status \in [Users -> {"none", "active", "suspended", "deleted"}]
    /\ locked \subseteq Users
    /\ live \in [Users -> SUBSET (1..MaxLogins)]
    /\ assigned \in [Users -> SUBSET (Ranks \cup CustomRoles)]
    /\ custom \in [CustomRoles ->
            [state : {"none", "live", "deleted"}, permissions : SUBSET Permissions]]
    /\ session \in [Users -> 0..MaxLogins]
    /\ \A q \in Requests : request[q] # NoRequest =>
        /\ request[q].actor \in Users
        /\ request[q].session \in 1..MaxLogins
        /\ request[q].permission \in Permissions

\* However administrators suspend, delete, lock and demote each other at the
\* same time, an unlocked active system administrator is left: the final
\* transaction of the slower one finds its own authority gone
\* (authorizePlatformAdminUserMutationInTransaction, assertCanAdministerTarget).
SystemAdminRemains ==
    \E u \in Users : IsSystemAdmin(u) /\ status[u] = "active" /\ u \notin locked

\* User.role and the role assignments of an existing account agree, so the
\* two sources of system-administrator authority never disagree either
\* (replaceRolesForLockedUserInTransaction).
DualSourceAgrees ==
    \A u \in Users : Exists(u) => role[u] = Reconciled(assigned[u])

\* A role with assignments is never deleted, so nobody loses permissions to a
\* deletion (deleteRole against a concurrent assignment).
AssignedRolesLive ==
    \A u \in Users : \A r \in assigned[u] : LiveRole(r)

\* The request that this step finished, by an entitled actor.
FinishedBy(actor, permission) ==
    \E q \in Requests :
        /\ request[q] # NoRequest /\ request'[q] = NoRequest
        /\ request[q].actor = actor /\ request[q].permission = permission
        /\ Entitled(actor, request[q].session, permission)

\* Whoever gains a permission, directly or because a role they hold was
\* rewritten, gains it from an account that is entitled at that moment and
\* holds the permission itself or is a system administrator; only a platform
\* administrator may give system roles beyond that, never the portal itself
\* (resolvePermissionIdsForMutation, canDelegateRole).
Granted ==
    \A u \in Users : \A p \in Held(u)' \ Held(u) :
        \E actor \in Users, permission \in Permissions :
            /\ FinishedBy(actor, permission)
            /\ \/ IsSystemAdmin(actor)
               \/ p \in Held(actor) \ Protected
               \/ permission = "admin_portal:access" /\ p # "admin_portal:access"
GrantsComeFromHolders == [][Granted]_vars

\* Nobody but a system administrator takes anything from a system
\* administrator: roles, account state or sessions.
Shielded ==
    \A u \in Users :
        ( IsSystemAdmin(u) /\ Exists(u)
          /\ (~IsSystemAdmin(u)' \/ status'[u] # status[u] \/ (u \in locked') # (u \in locked)) ) =>
        \E actor \in Users \ {u}, permission \in Permissions :
            FinishedBy(actor, permission) /\ IsSystemAdmin(actor)
SystemAdminsAreProtected == [][Shielded]_vars

\* A change of a user's effective permissions ends the user's session
\* (auth/README.md: "revoke active sessions whenever effective access changes").
SessionsEndWithAccess == [][
    \A u \in Users : Held(u)' # Held(u) => live'[u] = {} ]_vars
=============================================================================
