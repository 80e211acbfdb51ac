SPECIFICATION FairSpec
CONSTANTS
    None = None
    Listeners = {udp, tcp}
    MaxStarts = 2
INVARIANTS OneAttempt FullyStopped ErrorKept
PROPERTIES AllOrNone StopEnds
\* A service ends: it failed, or it was stopped.
CHECK_DEADLOCK FALSE
