SPECIFICATION MCSpec
CONSTANTS
    MaxConns = 2
    MaxDatagrams = 2
    With <- MCWith
    MixerUuids = {"u1", "u2", "v1", "v2", "w"}
    Names = {"a", "b", "c"}
    Sinks = {"s1", "s2"}
    NoSink = "gone"
    NoPatch = "none"
    NoPort = NoPort
    NoConf = NoConf
    MaxChans = 4
    Defaults <- MCDefaults
    Requests <- MCRequests
    MaxApplied = 2
    Files = {"f", "g"}
    NoFile = "none"
    MaxUuids = 3
    MaxCrossed = 1
    MaxChanges = 2
    MaxActs = 3
    Listed = 2
    Long = {1}
    MaxOps = 3
INVARIANTS
    AllTypeOK
    ConnectionSound
    MixerSound
    WaveformSound
    ViewSound
PROPERTIES
    ConnectionProgress
    WaveformProgress
CHECK_DEADLOCK FALSE
