CONSTANTS
    QueueSize = 3
    Times <- MCTimes
    Calls <- MCRecv
SPECIFICATION FairSpec
PROPERTIES
    RecvReturns
