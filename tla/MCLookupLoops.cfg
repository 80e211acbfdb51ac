\* One query for an entity at a time, as discovery/dns.go:122 has it: a third lookup of a
\* name runs beside the first, once the second has been refused.
SPECIFICATION LookupSpec
CONSTANTS
    Lookups = {"l1", "l2", "l3"}
    Addresses = {"addr"}
    Hosts = {"localhost."}
    Localhost = "localhost."
    MaxRetries = 2
    HoldTime = 1
    LookupClock = 1
INVARIANT OneInFlight
\* The lookups may stop coming.
CHECK_DEADLOCK FALSE
