CONSTANTS
    WordBits = 2
    Words = 3
    MaxNonce = 7
    Plain = {a}
SPECIFICATION ChannelSpec
INVARIANTS
    TypeOK
    WindowExact
    Lockstep
    DeliveredAtMostOnce
    RefusedForAReason
PROPERTY
    ImplementsAntiReplay
