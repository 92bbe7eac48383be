\* One user with room for one login, two concurrent calls; every
\* command is sent once and Redis never restarts.
CONSTANTS
    Requests = {r1, r2}
    Users = {u1}
    Tokens = {t1, t2}
    Pads = {p1}
    MaxLogins = 1
    Faults = {}
    NoUser = NoUser
    NoKey = NoKey
SPECIFICATION Spec
INVARIANTS
    RefusalJustified
