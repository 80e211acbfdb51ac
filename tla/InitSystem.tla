------------------------------ MODULE InitSystem ------------------------------
(***************************************************************************)
(* host/service/: putting the service in the hands of an init system, and  *)
(* taking it away.                                                         *)
(*                                                                         *)
(* An init system is the sequence of steps of its Install and that of its  *)
(* Uninstall; `script`: its start and stop are a script with a pid file,   *)
(* which waits 10 seconds for the process to end and does not start one    *)
(* while another is there; `respawn`: a process that dies is started       *)
(* again; `missing` and `down`: what Status says without the unit, and     *)
(* without the process.  The steps leave                                   *)
(* artefacts: "unit", the unit file or script; "link", what makes the init *)
(* system run it at boot; "helper", a program copied or written beside.    *)
(***************************************************************************)
EXTENDS Naturals, Sequences

VARIABLES
    init,       \* the init system, one of Inits
    art,        \* the artefacts: "none", "whole", "torn" when cut short, or "marked", a
                \* service of Windows that is deleted once its process has ended
    isteps      \* the steps left of the Install or Uninstall under way

ivars == <<init, art, isteps>>

Artefacts == {"unit", "link", "helper"}

------------------------------------------------------------------------------
(* Steps <<verb, artefact>>.  CreateWithTemplate is "create": it refuses to *)
(* overwrite.  A command has no artefact.                                   *)

SystemD ==
    [install |-> << <<"create", "unit">>, <<"enable", "link">>, <<"command", "reload">> >>,
     uninstall |-> << <<"disable", "link">>, <<"remove", "unit">> >>,
     script |-> FALSE, respawn |-> FALSE,
     missing |-> "not installed", down |-> "stopped"]

UbiOSInit ==
    [SystemD EXCEPT !.install = << <<"write", "helper">> >> \o @,
                    !.uninstall = << <<"quiet", "helper">> >> \o @]

SysV ==
    [install |-> << <<"create", "unit">>, <<"try", "link">> >>,
     uninstall |-> << <<"remove", "unit">> >>,
     script |-> TRUE, respawn |-> FALSE,
     missing |-> "error", down |-> "error"]

Procd ==
    [install |-> << <<"command", "defaults">>, <<"create", "unit">>, <<"try", "link">> >>,
     uninstall |-> << <<"remove", "unit">> >>,
     script |-> FALSE, respawn |-> TRUE,
     missing |-> "not installed", down |-> "stopped"]

Upstart ==
    [install |-> << <<"create", "unit">> >>, uninstall |-> << <<"remove", "unit">> >>,
     script |-> FALSE, respawn |-> TRUE,
     missing |-> "not installed", down |-> "stopped"]

DDWRTInit ==
    [install |-> << <<"create", "unit">> >>, uninstall |-> << <<"remove", "unit">> >>,
     script |-> TRUE, respawn |-> FALSE,
     missing |-> "not installed", down |-> "stopped"]

EdgeOSInit ==
    [install |-> << <<"create", "unit">> >>, uninstall |-> << <<"remove", "unit">> >>,
     script |-> TRUE, respawn |-> FALSE,
     missing |-> "not installed", down |-> "stopped"]

SynologyInit ==
    [install |-> << <<"create", "unit">> >>, uninstall |-> << <<"remove", "unit">> >>,
     script |-> TRUE, respawn |-> FALSE,
     missing |-> "error", down |-> "error"]

Firewalla ==
    [install |-> << <<"create", "unit">> >>, uninstall |-> << <<"remove", "unit">> >>,
     script |-> TRUE, respawn |-> FALSE,
     missing |-> "error", down |-> "stopped"]

OpenRC ==
    [install |-> << <<"create", "unit">>, <<"enable", "link">> >>,
     uninstall |-> << <<"del", "link">>, <<"remove", "unit">> >>,
     script |-> FALSE, respawn |-> FALSE,
     missing |-> "not installed", down |-> "stopped"]

Runit ==
    [install |-> << <<"create", "unit">>, <<"link", "link">> >>,
     uninstall |-> << <<"removeAll", "link">>, <<"removeAll", "unit">> >>,
     script |-> FALSE, respawn |-> TRUE,
     missing |-> "error", down |-> "stopped"]

BSD ==
    [install |-> << <<"create", "unit">>, <<"create", "link">> >>,
     uninstall |-> << <<"remove", "unit">>, <<"remove", "link">> >>,
     script |-> FALSE, respawn |-> TRUE,
     missing |-> "not installed", down |-> "stopped"]

MerlinInit_KeepsLine ==                                          \* mutant
    [install |-> << <<"create", "unit">>, <<"command", "nvram">>, <<"link", "link">> >>,
     uninstall |-> << <<"remove", "unit">> >>, script |-> TRUE, respawn |-> FALSE,
     missing |-> "not installed", down |-> "stopped"]

\* addLine refuses a line that is there; removeLine's errors are ignored.
MerlinInit ==
    [install |-> << <<"create", "unit">>, <<"command", "nvram">>, <<"link", "link">> >>,
     uninstall |-> << <<"quiet", "link">>, <<"remove", "unit">> >>,
     script |-> TRUE, respawn |-> FALSE,
     missing |-> "not installed", down |-> "stopped"]

\* Uninstall stops the service first, and reports only that there was none.
Launchd ==
    [install |-> << <<"create", "unit">> >>,
     uninstall |-> << <<"command", "unload">>, <<"remove", "unit">> >>,
     script |-> FALSE, respawn |-> TRUE,
     missing |-> "not installed", down |-> "stopped"]

WindowsInit ==
    [install |-> << <<"write", "helper">>, <<"link", "unit">>, <<"command", "recovery">> >>,
     uninstall |-> << <<"delete", "unit">> >>,
     script |-> FALSE, respawn |-> TRUE,
     missing |-> "not installed", down |-> "stopped"]

Inits == {"systemd", "vyos", "ubios", "sysv", "procd", "upstart", "ddwrt", "edgeos", "synology",
          "firewalla", "openrc", "runit", "bsd", "merlin", "launchd", "windows"}

\* The first that recognises the system is taken (NewService on Linux).
InitOrder == <<"ubios", "firewalla", "edgeos", "vyos", "systemd", "procd", "merlin", "ddwrt",
               "synology", "openrc", "upstart", "sysv", "runit">>

NewService(recognised) == InitOrder[CHOOSE i \in 1..Len(InitOrder) :
    InitOrder[i] \in recognised /\ \A j \in 1..(i - 1) : InitOrder[j] \notin recognised]

System ==
    CASE init \in {"systemd", "vyos"} -> SystemD
      [] init = "ubios" -> UbiOSInit
      [] init = "sysv" -> SysV
      [] init = "procd" -> Procd
      [] init = "upstart" -> Upstart
      [] init = "ddwrt" -> DDWRTInit
      [] init = "edgeos" -> EdgeOSInit
      [] init = "synology" -> SynologyInit
      [] init = "firewalla" -> Firewalla
      [] init = "openrc" -> OpenRC
      [] init = "runit" -> Runit
      [] init = "bsd" -> BSD
      [] init = "merlin" -> MerlinInit
      [] init = "launchd" -> Launchd
      [] init = "windows" -> WindowsInit

InitInit == init \in Inits /\ art = [a \in Artefacts |-> "none"] /\ isteps = <<>>

Present(a) == art[a] # "none"

Status(alive) ==
    IF ~Present("unit") THEN System.missing ELSE IF alive THEN "running" ELSE System.down

------------------------------------------------------------------------------
(* One step.  The steps that refuse end the call with their error.          *)

Refuses(verb, a) ==
    CASE verb \in {"create", "link"} -> Present(a)
      [] verb \in {"enable", "disable"} -> ~Present("unit")
      [] verb \in {"remove", "del"} -> ~Present(a)
      [] verb = "delete" -> art[a] \in {"none", "marked"}
      [] OTHER -> FALSE

\* What a step that does not refuse makes of its artefact.  A service that runs is
\* marked for deletion only, and until it is gone there is no other of its name.
Leaves(verb, alive) ==
    IF verb \in {"create", "link", "enable", "write", "try"} THEN "whole"
    ELSE IF verb = "delete" /\ alive THEN "marked" ELSE "none"

\* The artefacts once the process has ended.
WithoutProcess == IF art["unit"] = "marked" THEN [art EXCEPT !["unit"] = "none"] ELSE art

\* What one that fails, or is killed, may leave: a template half written.
Tears(verb, a) == IF verb \in {"create", "write"} THEN {art[a], "torn"} ELSE {art[a]}

InitStep(alive) ==
    /\ isteps # <<>>
    /\ LET verb == Head(isteps)[1]
           a == Head(isteps)[2]
       IN  /\ ~Refuses(verb, a)
           /\ IF verb = "command" THEN UNCHANGED art
              ELSE art' = [art EXCEPT ![a] = Leaves(verb, alive)]
    /\ isteps' = Tail(isteps)
    /\ UNCHANGED init

InitRefused ==
    /\ isteps # <<>>
    /\ Refuses(Head(isteps)[1], Head(isteps)[2])
    /\ isteps' = <<>>
    /\ UNCHANGED <<init, art>>

\* The errors of these two are ignored.
InitIgnored ==
    /\ isteps # <<>> /\ Head(isteps)[1] \in {"try", "quiet"}
    /\ isteps' = Tail(isteps)
    /\ UNCHANGED <<init, art>>

InitFails ==
    /\ isteps # <<>> /\ Head(isteps)[1] \notin {"try", "quiet"}
    /\ IF Head(isteps)[1] = "command" THEN UNCHANGED art
       ELSE \E v \in Tears(Head(isteps)[1], Head(isteps)[2]) : art' = [art EXCEPT ![Head(isteps)[2]] = v]
    /\ isteps' = <<>>
    /\ UNCHANGED init

InitTypeOK ==
    /\ init \in Inits
    /\ art \in [Artefacts -> {"none", "whole", "torn", "marked"}]
    /\ Len(isteps) <= 5
==============================================================================
