\* Two concurrent calls on a new account, two wrong passwords lock it.
CONSTANTS
    Requests = {r1, r2}
    Passwords = {blank, good}
    Weak = {blank}
    Blank = blank
    Seeds = {s1}
    NoPassword = NoPassword
    Nobody = Nobody
    MaxFailure = 1
    MaxClock = 2
SPECIFICATION Spec
SYMMETRY Symmetry
INVARIANTS
    TypeOK
    CountBounded
    ResetAloneSucceeds
    LockoutBounded
