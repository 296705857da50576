CONSTANTS
    Streams = {s1}
    Played = {s1}
    Channels = {c1}
    NoPatch = NoPatch
    MaxPlayers = 1
    ControlSize = 1
    EventSize = 2
SPECIFICATION ResumeSpec
INVARIANT ResumedIsActive
