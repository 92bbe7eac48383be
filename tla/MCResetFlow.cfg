\* Two requests for two users, with uuids for two tokens and a pad.
CONSTANTS
    Requests = {r1, r2}
    Users = {u1, u2}
    Passwords = {p1, p2}
    Seeds = {s1}
    Tokens = {t1, t2}
    Pads = {k1}
    None = None
SPECIFICATION Spec
SYMMETRY Symmetry
INVARIANTS
    TypeOK
    PasswordIsOwners
    OldLoginsBounded
    MailedIsIndexed
