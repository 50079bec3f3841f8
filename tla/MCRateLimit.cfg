CONSTANTS
    Host = {h1, h2}
    RateMax = 2
    RateWindow = 3
SPECIFICATION FairSpec
INVARIANTS
    RateLimited
    HitsExact
PROPERTY
    RoomReturns
