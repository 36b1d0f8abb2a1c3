\* Two requests: two admins delete each other.
CONSTANTS
    Requests = {r1, r2}
    Tokens = {t1, t2}
    NoToken = NoToken
    MaxUsers = 2
    InitialRoles <- TwoAdmins
    Roles = {"admin", "user", "guest"}
    MaxSessions = 2
    IdleTimeout = 1
    MaxRestarts = 0

SPECIFICATION FairSpec
PROPERTY LastAdminNotDeleted
