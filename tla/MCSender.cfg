\* Two requests and three calls over channels with room for one message.
CONSTANTS
    Requests = {r1, r2}
    Capacity = 1
    MaxCalls = 3
    None = None
    Addresses <- SomeAddresses
SPECIFICATION Spec
INVARIANTS
    TypeOK
    OkMeansTaken
    RefusedAfterTimeout
PROPERTIES
    SendReturns
    TakenIsTried
    KeepsPromise
CHECK_DEADLOCK FALSE
