\* A login and a change of password at the same time, no resets.
CONSTANTS
    Requests = {r1, r2}
    Passwords = {blank, good}
    Weak = {blank}
    Blank = blank
    Seeds = {}
    NoPassword = NoPassword
    Nobody = Nobody
    MaxFailure = 1
    MaxClock = 1
SPECIFICATION Spec
INVARIANTS
    PasswordIsCurrent
