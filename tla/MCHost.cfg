SPECIFICATION HostSpec
CONSTANTS
    Callers = {"daemon", "cli"}
    Services = {"s1", "s2"}
    Machines <- MCMachines
    MaxCommands = 2
    MaxFaults = 2
INVARIANTS
    HostTypeOK
    UserKept
    SettledAsAsked
    
    PortFree
    InstallWorks
    CleanUninstall
\* The commands are bounded: when they have been given, all may stop.
CHECK_DEADLOCK FALSE
