\* Two concurrent calls on behalf of one user, with room for two logins and
\* uuids for two tokens and a pad; the validator implements Credentials.
CONSTANTS
    Requests = {r1, r2}
    Users = {u1}
    Tokens = {t1, t2}
    Pads = {p1}
    MaxLogins = 2
    Faults = {"resend", "restart"}
    NoUser = NoUser
    NoKey = NoKey
SPECIFICATION Spec
SYMMETRY Symmetry
INVARIANTS
    TypeOK
    IssuedIndexed
    HeldKeysExpire
    ResetRevokes
    LogoutRevokes
    IndexBound
PROPERTIES
    NoResurrection
    KeepsPromise
