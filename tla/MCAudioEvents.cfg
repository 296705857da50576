CONSTANTS
    QueueSize = 3
    Times <- MCTimes
    Calls <- MCCalls
SPECIFICATION FairSpec
INVARIANTS
    TypeOK
    WakesWhileWaiting
PROPERTIES
    ReturnsIfSendsGoOn
    TimedReturns
