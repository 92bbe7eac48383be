\* One user with room for one login, two concurrent calls.
CONSTANTS
    Requests = {r1, r2}
    Users = {u1}
    Tokens = {t1, t2}
    Pads = {p1}
    MaxLogins = 1
    Faults = {"resend", "restart"}
    NoUser = NoUser
    NoKey = NoKey
SPECIFICATION Spec
INVARIANTS
    LoginsWithinMax
