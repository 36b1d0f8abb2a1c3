\* One request at a time, room for two sessions: one user holds both and the
\* other one logs in.
CONSTANTS
    Requests = {r1}
    Tokens = {t1, t2, t3}
    NoToken = NoToken
    MaxUsers = 2
    InitialRoles <- TwoAdmins
    Roles = {"admin", "user", "guest"}
    MaxSessions = 2
    IdleTimeout = 1
    MaxRestarts = 0

SPECIFICATION FairSpec
PROPERTY RefusedForOwnSessions
