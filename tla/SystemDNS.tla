------------------------------ MODULE SystemDNS ------------------------------
(***************************************************************************)
(* SetDNS and ResetDNS of host/: pointing the system at nextdns and back.  *)
(*                                                                         *)
(* On Linux and the BSDs the administrator's resolv.conf is put aside with *)
(* a rename and a new one put in its place with another; NetworkManager or *)
(* resolvconf is told to leave the file alone.  macOS and Windows set the  *)
(* servers of each network service instead and save nothing.               *)
(*                                                                         *)
(* Callers are the processes that may do it: the daemon, and each command  *)
(* line.  Nothing keeps two of them apart.                                 *)
(***************************************************************************)
EXTENDS Naturals, FiniteSets

CONSTANTS
    Callers,
    Services        \* network services, or interfaces on Windows

ASSUME DNSAssumption == IsFiniteSet(Callers) /\ IsFiniteSet(Services)

VARIABLES
    os,             \* the system: "linux", "bsd", "darwin" or "windows"
    file,           \* what each file holds
    dns,            \* whose servers each network service has
    step,           \* where each caller is; "idle" between calls
    backup,         \* the variable of that name in setupResolvConf(Conf)
    left,           \* the services still to be set
    op,             \* the call each caller is in, or made last
    result,         \* its outcome: "ok", "error", or "none" until it returns
    settled,        \* the call that succeeded last with none begun since
    overlapped,     \* two calls have been under way at a time
    interrupted     \* a call has ended before its end: error, exit or crash

filevars == <<file, dns>>
dnsvars == <<os, file, dns, step, backup, left, op, result, settled, overlapped, interrupted>>
ghosts == <<overlapped, interrupted>>

\* resolvFile, resolvBackupFile, resolvTmpFile; networkManagerFile; the same
\* three for resolvconf.conf.
Files == {"resolv", "bak", "tmp", "nm", "rconf", "rbak", "rtmp"}
FileSystems == {"linux", "bsd"}     \* the systems that work on files

DNSInit ==
    /\ os \in {"linux", "bsd", "darwin", "windows"}
    /\ \E r \in IF os = "bsd" THEN {"user", "none"} ELSE {"none"} :
          file = [f \in Files |-> CASE f = "resolv" -> "user" [] f = "rconf" -> r [] OTHER -> "none"]
    /\ dns = [s \in Services |-> "user"]
    /\ step = [c \in Callers |-> "idle"]
    /\ backup = [c \in Callers |-> FALSE]
    /\ left = [c \in Callers |-> {}]
    /\ op = [c \in Callers |-> "none"]
    /\ result = [c \in Callers |-> "none"]
    /\ settled = "none" /\ overlapped = FALSE /\ interrupted = FALSE

Busy(c) == step[c] # "idle"
At(c, s) == step[c] = s

DNSGoto(c, s) ==
    /\ step' = [step EXCEPT ![c] = s]
    /\ UNCHANGED <<os, op, result, settled, overlapped, interrupted>>

DNSReturn(c, r) ==
    /\ step' = [step EXCEPT ![c] = "idle"]
    /\ result' = [result EXCEPT ![c] = r]
    /\ settled' = IF r = "ok" /\ \A d \in Callers \ {c} : ~Busy(d) THEN op[c] ELSE "none"
    /\ interrupted' = (interrupted \/ r = "error")
    /\ UNCHANGED <<os, op, overlapped>>

DNSBegin(c, o, s) ==
    /\ ~Busy(c)
    /\ step' = [step EXCEPT ![c] = s]
    /\ op' = [op EXCEPT ![c] = o]
    /\ result' = [result EXCEPT ![c] = "none"]
    /\ settled' = "none"
    /\ overlapped' = (overlapped \/ \E d \in Callers \ {c} : Busy(d))
    /\ UNCHANGED <<os, interrupted>>

\* os.Rename: an error, and nothing done, when the source does not exist.
Rename(from, to) == file' = [file EXCEPT ![to] = file[from], ![from] = "none"]
Exists(f) == file[f] # "none"

\* Any system call or command may fail and end the call with its error.
DNSFails(c) ==
    /\ Busy(c)
    /\ DNSReturn(c, "error")
    /\ UNCHANGED <<filevars, backup, left>>

------------------------------------------------------------------------------
(* setupResolvConf: a backup is made unless there is one already.           *)

SetDNS(c) ==
    /\ os \in FileSystems
    /\ DNSBegin(c, "set", "temp")
    /\ backup' = [backup EXCEPT ![c] = ~Exists("bak")]
    /\ UNCHANGED <<filevars, left>>

\* writeTempResolvConf copies what is not a nameserver from resolv.conf.
WriteTemp(c) ==
    /\ At(c, "temp") /\ Exists("resolv")
    /\ file' = [file EXCEPT !["tmp"] = "ours"]
    /\ DNSGoto(c, "backup")
    /\ UNCHANGED <<dns, backup, left>>

Backup_Always(c) ==                                              \* mutant
    /\ At(c, "backup")
    /\ Exists("resolv") /\ Rename("resolv", "bak")
    /\ DNSGoto(c, "use")
    /\ UNCHANGED <<dns, backup, left>>

Backup(c) ==
    /\ At(c, "backup")
    /\ IF backup[c] THEN Exists("resolv") /\ Rename("resolv", "bak") ELSE UNCHANGED file
    /\ DNSGoto(c, "use")
    /\ UNCHANGED <<dns, backup, left>>

Use(c) ==
    /\ At(c, "use") /\ Exists("tmp")
    /\ Rename("tmp", "resolv")
    /\ DNSGoto(c, IF os = "linux" THEN "nm" ELSE "rstat")
    /\ UNCHANGED <<dns, backup, left>>

\* What is missing makes the call fail for certain.
Missing(c) ==
    /\ \/ At(c, "temp") /\ ~Exists("resolv")
       \/ At(c, "backup") /\ backup[c] /\ ~Exists("resolv")
       \/ At(c, "use") /\ ~Exists("tmp")
    /\ DNSReturn(c, "error")
    /\ UNCHANGED <<filevars, backup, left>>

\* disableNetworkManagerResolver; some systems have no NetworkManager.
DisableNM(c) ==
    /\ At(c, "nm")
    /\ \/ file' = [file EXCEPT !["nm"] = "ours"] /\ DNSGoto(c, "reload")
       \/ UNCHANGED file /\ DNSReturn(c, "ok")
    /\ UNCHANGED <<dns, backup, left>>

\* systemctl reload NetworkManager.  Left to itself it writes resolv.conf.
Reload(c) ==
    /\ At(c, "reload")
    /\ file' \in IF Exists("nm") THEN {file} ELSE {file, [file EXCEPT !["resolv"] = "user"]}
    /\ DNSReturn(c, "ok")
    /\ UNCHANGED <<dns, backup, left>>

\* setupResolvconfConf (BSD): the same three steps on resolvconf.conf, which
\* need not exist; its backup is then an empty file.
SetResolvconf(c) ==
    \/ /\ At(c, "rstat")
       /\ backup' = [backup EXCEPT ![c] = ~Exists("rbak")]
       /\ file' = [file EXCEPT !["rtmp"] = "ours"]
       /\ DNSGoto(c, "rbackup")
       /\ UNCHANGED <<dns, left>>
    \/ /\ At(c, "rbackup")
       /\ IF ~backup[c] THEN UNCHANGED file
          ELSE IF Exists("rconf") THEN Rename("rconf", "rbak")
          ELSE file' = [file EXCEPT !["rbak"] = "empty"]
       /\ DNSGoto(c, "ruse")
       /\ UNCHANGED <<dns, backup, left>>
    \/ /\ At(c, "ruse") /\ Exists("rtmp")
       /\ Rename("rtmp", "rconf")
       /\ DNSGoto(c, "update")
       /\ UNCHANGED <<dns, backup, left>>

\* The error of the WriteFile that makes it is not looked at.
NoEmptyBackup(c) ==
    /\ At(c, "rbackup") /\ backup[c] /\ ~Exists("rconf")
    /\ step' = [step EXCEPT ![c] = "ruse"]
    /\ interrupted' = TRUE
    /\ UNCHANGED <<os, filevars, backup, left, op, result, settled, overlapped>>

\* resolvconf -u writes resolv.conf unless resolvconf.conf tells it not to.
UpdateResolvconf(c) ==
    /\ At(c, "update")
    /\ file' = IF file["rconf"] = "ours" THEN file ELSE [file EXCEPT !["resolv"] = "user"]
    /\ DNSReturn(c, "ok")
    /\ UNCHANGED <<dns, backup, left>>

------------------------------------------------------------------------------
(* ResetDNS                                                                 *)

ResetDNS(c) ==
    /\ os \in FileSystems
    /\ DNSBegin(c, "reset", "restore")
    /\ UNCHANGED <<filevars, backup, left>>

\* Without a backup, Linux takes it that there is nothing to do.
RestoreBackup(c) ==
    /\ At(c, "restore")
    /\ IF Exists("bak")
       THEN Rename("bak", "resolv") /\ DNSGoto(c, IF os = "linux" THEN "nmrestore" ELSE "rrestore")
       ELSE UNCHANGED file /\ DNSReturn(c, IF os = "linux" THEN "ok" ELSE "error")
    /\ UNCHANGED <<dns, backup, left>>

RestoreNM_Keep(c) ==                                             \* mutant
    /\ At(c, "nmrestore")
    /\ UNCHANGED file /\ DNSReturn(c, "ok")
    /\ UNCHANGED <<dns, backup, left>>

RestoreNM(c) ==
    /\ At(c, "nmrestore")
    /\ IF Exists("nm")
       THEN file' = [file EXCEPT !["nm"] = "none"] /\ DNSGoto(c, "reload")
       ELSE UNCHANGED file /\ DNSReturn(c, "ok")
    /\ UNCHANGED <<dns, backup, left>>

RestoreResolvconf(c) ==
    /\ \/ /\ At(c, "rrestore") /\ file["rbak"] = "empty"
          /\ file' = [file EXCEPT !["rbak"] = "none"] /\ DNSGoto(c, "rremove")
       \/ /\ At(c, "rrestore") /\ file["rbak"] # "empty"
          /\ IF Exists("rbak") THEN Rename("rbak", "rconf") /\ DNSGoto(c, "update")
             ELSE UNCHANGED file /\ DNSReturn(c, "error")
       \/ /\ At(c, "rremove")
          /\ IF Exists("rconf") THEN file' = [file EXCEPT !["rconf"] = "none"] /\ DNSGoto(c, "update")
             ELSE UNCHANGED file /\ DNSReturn(c, "error")
    /\ UNCHANGED <<dns, backup, left>>

------------------------------------------------------------------------------
(* macOS and Windows: one command for each network service.                 *)

Each(c, o) ==
    /\ os \notin FileSystems
    /\ DNSBegin(c, o, "each")
    /\ left' = [left EXCEPT ![c] = Services]
    /\ UNCHANGED <<filevars, backup>>

ServersOf(c) == IF op[c] = "set" THEN "ours" ELSE "auto"

EachService(c) ==
    /\ At(c, "each")
    /\ \E s \in left[c] :
          /\ dns' = [dns EXCEPT ![s] = ServersOf(c)]
          /\ left' = [left EXCEPT ![c] = @ \ {s}]
    /\ UNCHANGED <<os, file, step, backup, op, result, settled, ghosts>>

\* A command that fails ends the call on macOS.  Windows goes on to the other
\* interfaces, and its ResetDNS then returns nil all the same.
EachFails(c) ==
    /\ At(c, "each") /\ os = "windows"
    /\ \E s \in left[c] : left' = [left EXCEPT ![c] = @ \ {s}]
    /\ result' = [result EXCEPT ![c] = IF op[c] = "set" THEN "error" ELSE @]
    /\ interrupted' = TRUE
    /\ UNCHANGED <<os, filevars, step, backup, op, settled, overlapped>>

EachDone(c) ==
    /\ At(c, "each") /\ left[c] = {}
    /\ DNSReturn(c, IF result[c] = "error" THEN "error" ELSE "ok")
    /\ UNCHANGED <<filevars, backup, left>>

DNSCall(c, o) ==
    \/ o = "set" /\ SetDNS(c)
    \/ o = "reset" /\ ResetDNS(c)
    \/ Each(c, o)

DNSStep(c) ==
    \/ WriteTemp(c) \/ Backup(c) \/ Use(c) \/ Missing(c) \/ DisableNM(c) \/ Reload(c)
    \/ SetResolvconf(c) \/ UpdateResolvconf(c) \/ RestoreBackup(c) \/ RestoreNM(c)
    \/ RestoreResolvconf(c) \/ EachService(c) \/ EachDone(c)

DNSFault(c) == DNSFails(c) \/ NoEmptyBackup(c) \/ EachFails(c)

\* The process of a call ends, killed or with the machine.
DNSCrash(c) ==
    /\ step' = [step EXCEPT ![c] = "idle"]
    /\ interrupted' = (interrupted \/ Busy(c))
    /\ UNCHANGED <<os, filevars, backup, left, op, result, settled, overlapped>>

DNSNext ==
    \E c \in Callers :
       \/ \E o \in {"set", "reset"} : DNSCall(c, o)
       \/ DNSStep(c) \/ DNSFault(c) \/ (Busy(c) /\ DNSCrash(c))

DNSSpec == DNSInit /\ [][DNSNext]_dnsvars

------------------------------------------------------------------------------
Steps == {"idle", "temp", "backup", "use", "nm", "reload", "rstat", "rbackup", "ruse",
          "update", "restore", "nmrestore", "rrestore", "rremove", "each"}

DNSTypeOK ==
    /\ os \in {"linux", "bsd", "darwin", "windows"}
    /\ file \in [Files -> {"user", "ours", "empty", "none"}]
    /\ dns \in [Services -> {"user", "ours", "auto"}]
    /\ step \in [Callers -> Steps]
    /\ backup \in [Callers -> BOOLEAN]
    /\ left \in [Callers -> SUBSET Services]
    /\ op \in [Callers -> {"none", "set", "reset"}]
    /\ result \in [Callers -> {"none", "ok", "error"}]
    /\ settled \in {"none", "set", "reset"}
    /\ overlapped \in BOOLEAN /\ interrupted \in BOOLEAN

\* Whatever fails, and wherever a call is killed, the administrator's own
\* resolv.conf is in its place or in the backup (host/dns_resolvconf.go), as
\* long as two calls have not overlapped.
UserKept ==
    (os \in FileSystems /\ ~overlapped) => (file["resolv"] = "user" \/ file["bak"] = "user")

\* When SetDNS has returned nil the system asks nextdns, and when ResetDNS has
\* nothing of nextdns is left: neither its resolv.conf nor what it told
\* NetworkManager, resolvconf and the network services.  What an earlier call
\* did not undo because it was interrupted is excepted.
SettledAsAsked ==
    ~overlapped =>
      /\ (settled = "set" /\ os \in FileSystems) => file["resolv"] = "ours"
      /\ (settled = "reset" /\ os = "linux") => file["resolv"] = "user"
      /\ (settled = "reset" /\ ~interrupted) =>
            /\ "ours" \notin {file[f] : f \in Files}
            /\ \A s \in Services : dns[s] # "ours"
==============================================================================
