CONSTANTS
    Streams = {s1, s2, s3}
    Played = {s1}
    Channels = {c1}
    NoPatch = NoPatch
    MaxPlayers = 2
    ControlSize = 2
    EventSize = 2
SPECIFICATION FairSpec
INVARIANTS
    TypeOK
    OnePlace
    LengthExact
    AliveInDevice
    NoMessageAfterReturn
PROPERTIES
    DeadReturned
