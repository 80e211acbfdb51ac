------------------------------- MODULE MCHost -------------------------------
\* The systems of the run: each init system with the router that goes with it.
EXTENDS Host

Linux(inits, routers, activate) ==
    [os |-> "linux", inits |-> inits, routers |-> routers, dhcp |-> TRUE,
     router |-> routers # {}, auto |-> activate]

Other(o) == [os |-> o, inits |-> {}, routers |-> {}, dhcp |-> TRUE, router |-> FALSE, auto |-> TRUE]

MCMachines ==
    {Linux({"systemd", "sysv"}, {}, TRUE), Linux({"sysv"}, {}, TRUE), Linux({"openrc"}, {}, FALSE),
     Linux({"runit"}, {}, TRUE), Linux({"upstart", "sysv"}, {"generic"}, FALSE),
     Linux({"firewalla", "systemd"}, {"generic"}, FALSE), Linux({"vyos", "systemd"}, {}, FALSE),
     Linux({"ubios", "systemd"}, {"ubios"}, FALSE), Linux({"procd"}, {"openwrt"}, FALSE),
     Linux({"ddwrt"}, {"ddwrt"}, FALSE), Linux({"edgeos", "sysv"}, {"edgeos"}, FALSE),
     Linux({"merlin"}, {"merlin"}, FALSE), Linux({"synology", "upstart"}, {"synology"}, FALSE),
     [Linux({"synology", "upstart"}, {"synology"}, FALSE) EXCEPT !.dhcp = FALSE],
     Other("bsd"), Other("darwin"), Other("windows")}
==============================================================================
