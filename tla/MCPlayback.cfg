SPECIFICATION FairSpec
CONSTANTS
    Loads <- MCLoads
    Chans <- MCChans
    Scenarios <- MCScenarios
    BufferSize = 3
    QueueSize = 2
INVARIANTS
    TypeOK
    StreamMatchesState
    PolledWhileActive
    NoOrphanFade
    StarvesOnlyWhenDisturbed
PROPERTIES
    EndsOnlyOwn
    RunsEnd
    StreamsEnd
CHECK_DEADLOCK FALSE
