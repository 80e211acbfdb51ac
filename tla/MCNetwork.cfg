SPECIFICATION NetworkSpec
CONSTANTS
    Lookups = {"l1", "l2"}
    Addresses = {"addr"}
    Hosts = {"localhost."}
    Localhost = "localhost."
    MaxRetries = 2
    HoldTime = 1
    LookupClock = 1
    HostNames = {11, 12, 13}
    HostAddrs = {1, 2}
    MDNSMax = 1
    MDNSClock = 2
    Readers = {"r1", "r2"}
    Refresh = 1
    FileClock = 2
    MaxWrites = 2
    Channels = {"n1", "n2", "n3"}
    MaxLinks = 2
    Clients = {"ca", "cb"}
    Callers = {"s1", "s2"}
    ClientOf <- MCClientOf
    Commands = {"trace", "what"}
    Known = {"trace"}
    PipeSize = 1
    RepliesSize = 1
    MaxSends = 1
    MaxEvents = 1
INVARIANTS
    NetworkTypeOK
    LatestHeard
    FileFollowed
    ReceiversKnow
PROPERTIES
    LookupReturns
    CallsServed
\* Every part is bounded: it may stop.
CHECK_DEADLOCK FALSE
