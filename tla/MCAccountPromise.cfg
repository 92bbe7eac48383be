\* Two concurrent calls on an account that one wrong password locks: the service
\* implements PasswordCheck.
CONSTANTS
    Requests = {r1, r2}
    Passwords = {blank, good}
    Weak = {blank}
    Blank = blank
    Seeds = {s1}
    NoPassword = NoPassword
    Nobody = Nobody
    MaxFailure = 0
    MaxClock = 1
SPECIFICATION Spec
SYMMETRY Symmetry
PROPERTIES
    KeepsPromise
