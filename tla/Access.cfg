CONSTANTS
    Sessions = {s1, s2}
    Legacy = {s2}
    Requests = {r1, r2, r3}
    None = None
    MaxChanges = 1
    p1 = p1
    p2 = p2
    q1 = q1
    r1 = r1
    r2 = r2
    r3 = r3
    pw1 = pw1
    pw2 = pw2
    pin1 = pin1
    pin2 = pin2
    a1 = a1
    a2 = a2
    s1 = s1
    s2 = s2
    t1 = t1
    t2 = t2
    b1 = b1
    root = root
    peer = peer
    admin = admin
    staff = staff
    c1 = c1
    LoginRequests = {p1, p2}
    LoginPasswords = {pw1, pw2}
    LoginPins = {pin1, pin2}
    LoginEmails = {a1, a2}
    LoginMaxTries = 2
    LoginMaxSessions = 1
    LoginMaxChanges = 2
    CrowdRequests = {r1, r2, r3}
    CrowdPasswords = {pw1, pw2}
    CrowdPins = {pin1}
    CrowdEmails = {a1}
    CrowdMaxTries = 2
    CrowdMaxSessions = 2
    CrowdMaxChanges = 0
    MfaSessions = {s1, s2}
    MfaRequests = {p1, p2}
    MfaSteps = {t1, t2}
    MfaBackups = {b1}
    MfaDemo = TRUE
    MfaMaxSecrets = 2
    MfaMaxChanges = 2
    ReuseSessions = {s1, s2}
    ReuseRequests = {r1, r2, r3}
    ReuseSteps = {t1, t2}
    ReuseBackups = {b1}
    ReuseDemo = FALSE
    ReuseMaxSecrets = 1
    ReuseMaxChanges = 0
    LadderUsers = {root, admin, staff}
    LadderCustomRoles = {c1}
    LadderRequests = {q1}
    LadderHired <- ThreeRanks
    LadderPermissionSets = {{"schedules:read", "roles:assign"}, {"schedules:read", "admin_portal:access"}}
    LadderRoleSets = {{"STAFF", c1}, {"ADMIN", c1}}
    LadderMaxLogins = 1
    RaceUsers = {root, peer}
    RaceCustomRoles = {}
    RaceRequests = {p1, p2}
    RaceHired <- TwoPeers
    RacePermissionSets = {}
    RaceRoleSets = {}
    RaceMaxLogins = 1
SPECIFICATION MCSpec
CHECK_DEADLOCK FALSE
INVARIANT FamilyIsLinear
INVARIANT LogoutSticks
INVARIANT LoginSafe
INVARIANT MfaSafe
INVARIANT RolesSafe
PROPERTY SignInSteps
PROPERTY RolesSteps
