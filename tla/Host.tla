-------------------------------- MODULE Host --------------------------------
(***************************************************************************)
(* A system that runs nextdns: the daemon's life from `run` to its exit    *)
(* (run.go), and the administrator's commands (service.go, activate.go),   *)
(* which reach the daemon only through the init system.  Each is a process *)
(* of its own, and both change the system's DNS settings.                  *)
(*                                                                         *)
(* Faults are what the code does not decide: a system call or a command    *)
(* that fails, a process that is killed, a machine that restarts.          *)
(***************************************************************************)
EXTENDS SystemDNS, RouterSetup, InitSystem

CONSTANTS
    Machines,       \* the systems looked at: records [os, inits, routers, dhcp, router, auto]
                    \* of what recognises the system, whether its DHCP server is on, and
                    \* the configuration: setup-router, auto-activate
    MaxCommands,    \* bound: commands given
    MaxFaults       \* bound: faults

ASSUME HostAssumption ==
    /\ Callers = {"daemon", "cli"} /\ MaxCommands \in Nat /\ MaxFaults \in Nat
    /\ \A m \in Machines : m.auto \in BOOLEAN

VARIABLES
    machine,        \* the member of Machines
    auto,           \* auto-activate in the stored configuration
    life,           \* where the daemon is
    activates,      \* AutoActivate in the configuration the daemon has read
    term,           \* SIGTERM is on its way to the daemon
    wanted,         \* the init system is to run it: "no", "yes", or "boot"
    cmd,            \* the command under way, or the last
    acts,           \* what is left of it to do; <<>> when it is over
    cres,           \* its result: "none" until something has decided it
    begun,          \* it has started a daemon
    commands,
    faults,
    cfault          \* a fault has struck since the command was given

lifevars == <<life, activates, term, wanted>>
cmdvars == <<cmd, acts, cres, begun, commands>>
faultvars == <<faults, cfault>>
hvars == <<dnsvars, rvars, ivars, machine, auto, lifevars, cmdvars, faultvars>>

HostInit ==
    /\ DNSInit /\ RouterInit /\ InitInit
    /\ machine \in Machines
    /\ os = machine.os
    /\ init = CASE os = "bsd" -> "bsd" [] os = "darwin" -> "launchd" [] os = "windows" -> "windows"
                [] os = "linux" -> NewService(machine.inits)
    /\ rtr = LET r == DetectRouter(machine.routers) IN IF r = "synology" /\ ~machine.dhcp THEN "nodhcp" ELSE r
    /\ auto = machine.auto
    /\ life = "dead" /\ activates = FALSE /\ term = FALSE /\ wanted = "no"
    /\ cmd = "none" /\ acts = <<>> /\ cres = "none" /\ begun = FALSE
    /\ commands = 0 /\ faults = 0 /\ cfault = FALSE

Alive == life # "dead"

Fault == faults < MaxFaults /\ faults' = faults + 1 /\ cfault' = TRUE

------------------------------------------------------------------------------
(* The daemon (run.go).  Errors of the router and of the activation are     *)
(* logged, and go no further.                                               *)

Live(from, to) == life = from /\ life' = to /\ UNCHANGED <<activates, term, wanted>>

\* The process under runit is not told that it is a service (RunModeEnv): it
\* ignores the stored configuration.
ReadsConfig == init # "runit"

OnRouter(A) == IF machine.router /\ ReadsConfig THEN A ELSE UNCHANGED rvars

\* The process starts and reads the configuration.  With setup-router it makes
\* the router ready before it listens.
Spawn ==
    /\ ~Alive
    /\ life' = "configure" /\ activates' = (auto /\ ReadsConfig) /\ term' = FALSE /\ wanted' = "yes"
    /\ OnRouter(Configure)

Respawn ==
    /\ wanted = "boot" \/ (wanted = "yes" /\ System.respawn)
    /\ Spawn
    /\ UNCHANGED <<dnsvars, ivars, machine, auto, cmdvars, faultvars>>

\* ListenAndServe has the ports and, after 5 seconds without an error, OnStarted
\* begins: the router's Setup, then the activation.
Listen ==
    /\ call = "none" /\ Live("configure", "setup")
    /\ OnRouter(Setup)
    /\ UNCHANGED <<dnsvars, ivars, machine, auto, cmdvars, faultvars>>

\* The process is gone; so are what it held of the router's settings, and the service
\* that was to go with it.
Gone ==
    /\ life' = "dead" /\ term' = FALSE /\ art' = WithoutProcess
    /\ UNCHANGED <<activates, wanted, init, isteps>>

\* The port is taken: Start returns and the process exits without OnStopped.
ListenFails ==
    /\ call = "none" /\ life = "configure"
    /\ Gone /\ RouterCrash(FALSE) /\ Fault
    /\ UNCHANGED <<dnsvars, machine, auto, cmdvars>>

DaemonDNS(o, from, to) ==
    /\ call = "none" /\ Live(from, to)
    /\ IF activates THEN DNSCall("daemon", o) ELSE UNCHANGED dnsvars
    /\ UNCHANGED <<rvars, ivars, machine, auto, cmdvars, faultvars>>

Activate == DaemonDNS("set", "setup", "activate")

Started ==
    /\ ~Busy("daemon") /\ Live("activate", "up")
    /\ UNCHANGED <<dnsvars, rvars, ivars, machine, auto, cmdvars, faultvars>>

Stopping_NoRestore ==                                            \* mutant
    /\ term /\ Live("up", "restore")
    /\ UNCHANGED <<rvars, dnsvars, ivars, machine, auto, cmdvars, faultvars>>

\* SIGTERM is looked at only when Start has returned.  The listeners are closed
\* and OnStopped runs, in the order of OnStarted.
Stopping ==
    /\ term /\ Live("up", "restore")
    /\ OnRouter(Restore)
    /\ UNCHANGED <<dnsvars, ivars, machine, auto, cmdvars, faultvars>>

Deactivate == DaemonDNS("reset", "restore", "deactivate")

Exit_Early ==                                                    \* mutant
    /\ life = "deactivate"
    /\ Gone /\ RouterCrash(FALSE)
    /\ UNCHANGED <<dnsvars, machine, auto, cmdvars, faultvars>>

Exit ==
    /\ life = "deactivate" /\ ~Busy("daemon")
    /\ Gone /\ RouterCrash(FALSE)
    /\ UNCHANGED <<dnsvars, machine, auto, cmdvars, faultvars>>

Killed ==
    /\ Alive
    /\ Gone /\ RouterCrash(FALSE) /\ DNSCrash("daemon") /\ Fault
    /\ UNCHANGED <<machine, auto, cmdvars>>

RouterCall ==
    /\ Alive
    /\ \/ (RouterStep \/ NothingToRemove) /\ UNCHANGED faultvars
       \/ (RouterFails \/ PartlySet \/ PartlyWritten) /\ Fault
    /\ UNCHANGED <<dnsvars, ivars, machine, auto, lifevars, cmdvars>>

DaemonNext ==
    \/ Respawn \/ Listen \/ ListenFails \/ Activate \/ Started \/ Stopping \/ Deactivate
    \/ Exit \/ Killed \/ RouterCall

------------------------------------------------------------------------------
(* The commands.  The errors of an act whose name ends in "?" are ignored.  *)

ActsOf(c) ==
    CASE c = "install" -> <<"stop?", "uninstall?", "save", "install", "start">>
      [] c = "uninstall" -> <<"deactivate?", "stop?", "uninstall">>
      [] c = "restart" -> <<"stop", "start">>
      [] c = "activate" -> <<"activate", "save">>
      [] c = "deactivate" -> <<"deactivate", "save">>
      [] OTHER -> <<c>>

CommandNames == {"install", "uninstall", "start", "stop", "restart", "activate", "deactivate", "status"}

Command ==
    /\ acts = <<>> /\ commands < MaxCommands
    /\ cmd' \in CommandNames
    /\ acts' = ActsOf(cmd') /\ cres' = "none" /\ begun' = FALSE
    /\ commands' = commands + 1
    /\ cfault' = FALSE
    /\ UNCHANGED <<dnsvars, rvars, ivars, machine, auto, lifevars, faults>>

Facing(A) == acts # <<>> /\ Head(acts) \in A

\* An act has ended.  An error ends the command, but `activate` and `deactivate`
\* save the configuration all the same.
ActEnds(r) ==
    LET ignored == Facing({"stop?", "uninstall?", "deactivate?"})
        goeson == r = "ok" \/ ignored \/ Facing({"activate", "deactivate"})
        rest == IF goeson THEN Tail(acts) ELSE <<>>
    IN  /\ acts' = rest
        /\ cres' = IF r = "error" /\ ~ignored THEN "error"
                   ELSE IF rest = <<>> /\ cres = "none" THEN "ok" ELSE cres
        /\ UNCHANGED <<cmd, commands>>

\* The init system tells the daemon to end; without the unit it knows of none.
StopSent ==
    /\ Facing({"stop", "stop?"}) /\ Present("unit") /\ Alive /\ ~term
    /\ term' = TRUE /\ wanted' = "no"
    /\ UNCHANGED <<dnsvars, rvars, ivars, machine, auto, life, activates, cmdvars, faultvars>>

\* The daemon is gone, or the wait is over (10 seconds in the scripts and on
\* Windows): an error, except where the init system does not wait.
Stopped ==
    /\ Facing({"stop", "stop?"}) /\ Present("unit")
    /\ \/ ~Alive /\ ActEnds("ok")
       \/ Alive /\ term /\ ActEnds(IF init \in {"procd", "runit"} THEN "ok" ELSE "error")
    /\ wanted' = "no"
    /\ UNCHANGED <<dnsvars, rvars, ivars, machine, auto, life, activates, term, begun, faultvars>>

NoUnit ==
    /\ Facing({"stop", "stop?", "start"}) /\ ~Present("unit")
    /\ ActEnds("error")
    /\ UNCHANGED <<dnsvars, rvars, ivars, machine, auto, lifevars, begun, faultvars>>

\* A script that finds the process has nothing to do, even if it is stopping; an init
\* system proper waits until it has stopped, and Windows says that it runs already.
StartService ==
    /\ Facing({"start"}) /\ Present("unit")
    /\ \/ Spawn /\ begun' = TRUE
       \/ /\ Alive /\ init # "windows" /\ (System.script \/ ~term)
          /\ wanted' = "yes"
          /\ UNCHANGED <<rvars, life, activates, term, begun>>
       \/ Alive /\ init = "windows" /\ UNCHANGED <<rvars, lifevars, begun>>
    /\ ActEnds(IF Alive /\ init = "windows" THEN "error" ELSE "ok")
    /\ UNCHANGED <<dnsvars, ivars, machine, auto, faultvars>>

\* `nextdns status` prints what the init system says, or its error.
StatusAsked ==
    /\ Facing({"status"})
    /\ ActEnds(IF Status(Alive) = "error" THEN "error" ELSE "ok")
    /\ UNCHANGED <<dnsvars, rvars, ivars, machine, auto, lifevars, begun, faultvars>>

\* Install and Uninstall.
InitBegins ==
    /\ isteps = <<>>
    /\ \/ Facing({"install"}) /\ isteps' = System.install
       \/ Facing({"uninstall", "uninstall?"}) /\ isteps' = System.uninstall
    /\ UNCHANGED <<dnsvars, rvars, init, art, machine, auto, lifevars, cmdvars, faultvars>>

InitActs ==
    /\ \/ /\ (InitStep(Alive) /\ UNCHANGED faultvars) \/ (InitIgnored /\ Fault)
          /\ IF isteps' = <<>> THEN ActEnds("ok") /\ UNCHANGED begun ELSE UNCHANGED cmdvars
       \/ InitRefused /\ ActEnds("error") /\ UNCHANGED <<begun, faultvars>>
       \/ InitFails /\ ActEnds("error") /\ UNCHANGED begun /\ Fault
    /\ UNCHANGED <<dnsvars, rvars, machine, auto, lifevars>>

\* SaveConfig.  `install` stores what its arguments say.
SaveConfig ==
    /\ Facing({"save"})
    /\ auto' = IF cmd = "install" THEN machine.auto ELSE cmd = "activate"
    /\ ActEnds("ok")
    /\ UNCHANGED <<dnsvars, rvars, ivars, machine, lifevars, begun, faultvars>>

DNSActs == {"activate", "deactivate", "deactivate?"}

DNSBegins ==
    /\ Facing(DNSActs) /\ ~Busy("cli")
    /\ DNSCall("cli", IF Facing({"activate"}) THEN "set" ELSE "reset")
    /\ UNCHANGED <<rvars, ivars, machine, auto, lifevars, cmdvars, faultvars>>

\* A step of SetDNS or ResetDNS, of the daemon or of a command.
DNSCalls ==
    /\ \E c \in Callers :
          /\ \/ DNSStep(c) /\ UNCHANGED faultvars
             \/ DNSFault(c) /\ Fault
          /\ IF c = "cli" /\ step'[c] = "idle" THEN ActEnds(result'[c]) /\ UNCHANGED begun
             ELSE UNCHANGED cmdvars
    /\ UNCHANGED <<rvars, ivars, machine, auto, lifevars>>

\* A command is killed: a file it was writing may be cut short, and of a
\* configuration cut short auto-activate is read as not set.
CommandDies(remains) ==
    /\ acts' = <<>> /\ cres' = "killed"
    /\ isteps' = <<>>
    /\ \/ art' = remains /\ UNCHANGED auto
       \/ isteps # <<>> /\ Head(isteps)[1] \in {"create", "write"}
          /\ art' = [remains EXCEPT ![Head(isteps)[2]] = "torn"] /\ UNCHANGED auto
       \/ Facing({"save"}) /\ auto' = FALSE /\ art' = remains
    /\ UNCHANGED <<cmd, begun, commands, init>>

CommandKilled ==
    /\ acts # <<>>
    /\ CommandDies(art) /\ DNSCrash("cli") /\ Fault
    /\ UNCHANGED <<rvars, machine, lifevars>>

\* The machine restarts, and the init system runs what it finds.
Reboot ==
    /\ life' = "dead" /\ term' = FALSE /\ UNCHANGED activates
    /\ wanted' = IF art["unit"] = "whole" /\ \A i \in DOMAIN System.install :
                      System.install[i][1] \in {"enable", "link"} => Present(System.install[i][2])
                 THEN "boot" ELSE "no"
    /\ step' = [c \in Callers |-> "idle"]
    /\ interrupted' = (interrupted \/ \E c \in Callers : Busy(c))
    /\ RouterCrash(TRUE)
    /\ IF acts # <<>> THEN CommandDies(WithoutProcess)
       ELSE art' = WithoutProcess /\ UNCHANGED <<cmdvars, init, isteps, auto>>
    /\ Fault
    /\ UNCHANGED <<os, filevars, backup, left, op, result, settled, overlapped, machine>>

HostNext ==
    \/ DaemonNext
    \/ Command \/ StopSent \/ Stopped \/ NoUnit \/ StartService \/ StatusAsked \/ InitBegins \/ InitActs
    \/ SaveConfig \/ DNSBegins \/ DNSCalls \/ CommandKilled \/ Reboot

HostSpec == HostInit /\ [][HostNext]_hvars

------------------------------------------------------------------------------
Over(c) == cmd = c /\ acts = <<>>

HostTypeOK ==
    /\ DNSTypeOK /\ RouterTypeOK /\ InitTypeOK
    /\ auto \in BOOLEAN /\ activates \in BOOLEAN /\ term \in BOOLEAN
    /\ wanted \in {"no", "yes", "boot"}
    /\ life \in {"dead", "configure", "setup", "activate", "up", "restore", "deactivate"}
    /\ cres \in {"none", "ok", "error", "killed"}
    /\ \A c \in {"cli"} : Busy(c) => Facing(DNSActs)
    /\ Busy("daemon") => life \in {"activate", "deactivate"}
    /\ call # "none" => Alive
    /\ isteps # <<>> => Facing({"install", "uninstall", "uninstall?"})

\* `nextdns install` that says it succeeded has put every artefact in place,
\* whole, and started a daemon: unless the one before was slow to stop and the
\* init system is a script.  And whatever an earlier command left half done, an
\* install that meets no fault succeeds: except for a lone rc.conf on the BSDs
\* (the next install succeeds), a lone unit under OpenRC, where deleting the link
\* that is not there fails, and on Windows, when the service it has just deleted was
\* still stopping, which is then gone, or goes with its process (windows/service.go:56).
InstallWorks ==
    /\ (Over("install") /\ cres = "ok") =>
          /\ \A i \in DOMAIN System.install :
                System.install[i][1] \in {"create", "enable", "link", "write"} =>
                   art[System.install[i][2]] = "whole"
          /\ begun \/ System.script
          /\ Status(Alive) # "not installed"
    /\ (Over("install") /\ cres = "error" /\ ~cfault) =>
          \/ init \in {"bsd", "openrc"}
          \/ init = "windows" /\ art["unit"] \in {"marked", "none"}

\* When `nextdns uninstall` has succeeded and the daemon is gone the system is
\* as it was, if nothing failed: its own DNS servers and nothing of nextdns
\* in front of them, and no unit to run it again.  Excepted is a DD-WRT whose
\* dnsmasq_options had never been set: nothing unsets it.
CleanUninstall ==
    (Over("uninstall") /\ cres = "ok" /\ ~Alive /\ faults = 0 /\ ~overlapped) =>
      /\ Status(Alive) \in {"not installed", "error"} /\ wanted = "no"
      /\ os \in FileSystems => file["resolv"] = "user"
      /\ \A s \in Services : dns[s] # "ours"
      /\ masq.forwards => rtr = "ddwrt" /\ found["options"] = "unset"
==============================================================================
