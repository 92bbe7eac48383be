\* One request, and a name whose text contains "users.PRIMARY".
CONSTANTS
    Requests = {r1}
    Ids = {i1, i2}
    AddressIds = {a1}
    Unknown = Unknown
    Names = {n1}
    KeyLike = {n1}
    Channels = {"email"}
    None = None
    MaxClock = 3
SPECIFICATION Spec
PROPERTIES
    CallsReturn
