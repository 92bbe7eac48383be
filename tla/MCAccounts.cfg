\* Two requests, two uuids, one name that users compete for, one address.
CONSTANTS
    Requests = {r1, r2}
    Ids = {i1, i2}
    AddressIds = {a1}
    Unknown = Unknown
    Names = {n1}
    KeyLike = {}
    Channels = {"email"}
    None = None
    MaxClock = 3
SPECIFICATION Spec
INVARIANTS
    TypeOK
    Deliverable
    FoundIsWhole
    RefusedDeleteIsDone
    TimesAgree
PROPERTIES
    CallsReturn
