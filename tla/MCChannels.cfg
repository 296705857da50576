CONSTANTS
    Ports = {p1, p2, p3, p4}
    NoPort = NoPort
    MaxChans = 4
    ControlSize = 2
SPECIFICATION FairSpec
INVARIANTS
    TypeOK
    TablesSound
    Mirrored
    NeverPanics
    PortsDistinct
PROPERTIES
    IndicesStable
    PushReturns
CHECK_DEADLOCK FALSE
