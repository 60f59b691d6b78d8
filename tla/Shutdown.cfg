SPECIFICATION FairShutdown
CONSTANTS
    Handler = {h1, h2, h3}
INVARIANTS
    ShutdownInv
    NoneRoutesOn
PROPERTIES
    SignalEndsProcess
CHECK_DEADLOCK FALSE
