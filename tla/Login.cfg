\* Two requests, one session slot, two tokens, two users, one restart.  Two
\* addresses; the window is two ticks, an entry is forgotten after four.
CONSTANTS
    Requests = {r1, r2}
    Tokens = {t1, t2}
    NoToken = NoToken
    MaxUsers = 2
    InitialRoles <- OneAdmin
    Roles = {"admin", "user", "guest"}
    MaxSessions = 1
    IdleTimeout = 1
    MaxRestarts = 1
    Addresses = {a1, a2}
    Window = 2
    MaxIdle = 4
    Limit = 2
    CountCap = 3

SPECIFICATION LoginSpec
INVARIANT SessionCap
INVARIANT RateBound
PROPERTY ServedWhileActive
PROPERTY ExpiredTakeNoRoom
PROPERTY ImplementsSessionLifetimes
PROPERTY LockoutEnds
PROPERTY WaitingHelps
PROPERTY IdleAddressesForgotten
