SPECIFICATION FairSpec
CONSTANTS
    None = None
    Listeners = {udp, tcp}
    MaxStarts = 1
PROPERTY ListenReturns
\* A service ends: it failed, or it was stopped.
CHECK_DEADLOCK FALSE
