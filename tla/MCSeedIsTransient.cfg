\* A single call at a time.
CONSTANTS
    Requests = {r1}
    Passwords = {blank, good}
    Weak = {blank}
    Blank = blank
    Seeds = {s1}
    NoPassword = NoPassword
    Nobody = Nobody
    MaxFailure = 1
    MaxClock = 2
SPECIFICATION Spec
INVARIANTS
    SeedIsTransient
