------------------------------ MODULE HostProofs ------------------------------
(***************************************************************************)
(* What the daemon and the commands do to a system, for any machines,      *)
(* network services, commands and faults.  The administrator's resolv.conf *)
(* is never lost, and the system asks whom the last successful call said,  *)
(* as long as two calls do not overlap (IInv).  The router is put back as  *)
(* it was, and leaves port 53 to a daemon that answers on it (RInv; SInv   *)
(* is of the script of a Merlin's user).  `nextdns install` does what it   *)
(* says, after whatever an earlier command left half done (CInv; WInv is   *)
(* of Windows), and `nextdns uninstall` leaves a clean system if nothing   *)
(* has failed (UInv).                                                      *)
(***************************************************************************)
EXTENDS Host, SequenceTheorems, TLAPS

Alone == ~overlapped => \A c, d \in Callers : Busy(c) /\ Busy(d) => c = d

(* The administrator's file is in its place or aside.                       *)
Kept ==
    /\ file["bak"] \in {"user", "none"}
    /\ file["bak"] = "none" => file["resolv"] = "user"

(* What a call has done when it is at each of its steps.                    *)
Done(c) ==
    /\ step[c] \in {"temp", "backup"} => op[c] = "set" /\ (backup[c] <=> file["bak"] = "none")
    /\ step[c] = "use" => op[c] = "set" /\ file["bak"] = "user"
    /\ step[c] \in {"backup", "use"} => file["tmp"] = "ours"
    /\ step[c] = "nm" => os = "linux" /\ op[c] = "set" /\ file["resolv"] = "ours"
    /\ step[c] = "reload" =>
         /\ os = "linux" /\ op[c] \in {"set", "reset"}
         /\ op[c] = "set" => file["nm"] = "ours" /\ file["resolv"] = "ours"
         /\ op[c] = "reset" => file["nm"] = "none" /\ file["resolv"] = "user"
    /\ step[c] \in {"rstat", "rbackup", "ruse"} => os = "bsd" /\ op[c] = "set" /\ file["resolv"] = "ours"
    /\ step[c] = "rbackup" => (backup[c] <=> file["rbak"] = "none")
    /\ step[c] \in {"rbackup", "ruse"} => file["rtmp"] = "ours"
    /\ step[c] = "update" =>
         /\ os = "bsd" /\ op[c] \in {"set", "reset"}
         /\ op[c] = "set" => file["rconf"] = "ours" /\ file["resolv"] = "ours"
         /\ op[c] = "reset" => file["resolv"] = "user"
    /\ step[c] = "restore" => op[c] = "reset"
    /\ step[c] = "nmrestore" => os = "linux" /\ op[c] = "reset" /\ file["resolv"] = "user"
    /\ step[c] \in {"rrestore", "rremove"} => os = "bsd" /\ op[c] = "reset" /\ file["resolv"] = "user"
    /\ step[c] # "each"

(* Each system has its own files, and the others have none.                 *)
OwnFiles ==
    /\ os \in FileSystems => \A s \in Services : dns[s] # "ours"
    /\ os \notin FileSystems => \A f \in Files : file[f] # "ours"
    /\ os = "linux" => "ours" \notin {file["rconf"], file["rbak"], file["rtmp"]}
    /\ os = "bsd" => file["nm"] # "ours"

(* What was put in place can be undone, and temporary files are gone, when  *)
(* every call has come to its end.                                          *)
Undoable ==
    /\ file["tmp"] = "ours" => \E c \in Callers : step[c] \in {"backup", "use"}
    /\ file["rtmp"] = "ours" => \E c \in Callers : step[c] \in {"rbackup", "ruse"}
    /\ file["nm"] = "ours" => file["bak"] = "user" \/ \E c \in Callers : step[c] = "nmrestore"
    /\ file["rconf"] = "ours" =>
         file["rbak"] \in {"user", "empty"} \/ \E c \in Callers : step[c] = "rremove"
    /\ file["rbak"] # "ours"
    /\ \A c \in Callers : step[c] = "ruse" => file["rbak"] # "none"
    /\ \A c \in Callers : step[c] = "update" /\ op[c] = "reset" => file["rconf"] # "ours"

ServicesReset ==
    \A c \in Callers : step[c] = "each" =>
      /\ op[c] \in {"set", "reset"}
      /\ op[c] = "reset" => \A s \in Services \ left[c] : dns[s] # "ours"

Settled ==
    settled # "none" =>
      /\ \A c \in Callers : ~Busy(c)
      /\ settled = "set" /\ os \in FileSystems => file["resolv"] = "ours"
      /\ settled = "reset" /\ os = "linux" => file["resolv"] = "user"
      /\ settled = "reset" /\ ~interrupted =>
           (\A f \in Files : file[f] # "ours") /\ (\A s \in Services : dns[s] # "ours")

InOrder ==
    ~overlapped =>
      /\ OwnFiles
      /\ os \in FileSystems => Kept /\ \A c \in Callers : Done(c)
      /\ os \in FileSystems /\ ~interrupted => Undoable
      /\ os \notin FileSystems /\ ~interrupted => ServicesReset
      /\ os \notin FileSystems => \A c \in Callers : step[c] \in {"idle", "each"}
      /\ Settled

IInv == DNSTypeOK /\ Alone /\ InOrder
-------------------------------------------------------------------------------
LEMMA InitIInv == HostInit => IInv
<1> SUFFICES ASSUME HostInit PROVE IInv
  OBVIOUS
<1>1. DNSInit
  BY DEF HostInit
<1>2. PICK r \in IF os = "bsd" THEN {"user", "none"} ELSE {"none"} :
        file = [f \in Files |-> CASE f = "resolv" -> "user" [] f = "rconf" -> r [] OTHER -> "none"]
  BY <1>1 DEF DNSInit
<1>3. /\ file \in [Files -> {"user", "ours", "empty", "none"}]
      /\ file["resolv"] = "user" /\ file["bak"] = "none" /\ file["tmp"] = "none" /\ file["nm"] = "none"
      /\ file["rconf"] = r /\ file["rbak"] = "none" /\ file["rtmp"] = "none"
  BY <1>2 DEF Files
<1>4. DNSTypeOK
  BY <1>1, <1>3 DEF DNSInit, DNSTypeOK, Steps
<1>5. Alone
  BY <1>1 DEF DNSInit, Alone, Busy
<1>6. InOrder
  BY <1>1, <1>2, <1>3 DEF DNSInit, InOrder, OwnFiles, Files, Kept, Done, Undoable, ServicesReset, Settled, FileSystems
<1> QED
  BY <1>4, <1>5, <1>6 DEF IInv

(* What every step of a call leaves alone, and that nobody else is at work  *)
(* unless two calls have overlapped.                                        *)
Frame(c) ==
    /\ UNCHANGED <<os, op, overlapped>> /\ step[c] # "idle"
    /\ \A d \in Callers \ {c} : step'[d] = step[d] /\ backup'[d] = backup[d] /\ left'[d] = left[d]

LEMMA Goes ==
    ASSUME DNSTypeOK, NEW c \in Callers, Busy(c), UNCHANGED <<backup, left>>,
           (\E s : DNSGoto(c, s)) \/ (\E r : DNSReturn(c, r))
    PROVE  Frame(c)
BY DEF DNSTypeOK, DNSGoto, DNSReturn, Busy, Frame

LEMMA ByItself ==
    ASSUME IInv, NEW c \in Callers, DNSStep(c) \/ DNSFault(c)
    PROVE  Frame(c) /\ (~overlapped => \A d \in Callers \ {c} : step[d] = "idle")
<1>0. DNSTypeOK
  BY DEF IInv
<1>1. Frame(c)
  <2>1. CASE WriteTemp(c) \/ Backup(c) \/ Use(c) \/ Missing(c)
    BY <1>0, <2>1, Goes DEF WriteTemp, Backup, Use, Missing, At, Busy
  <2>2. CASE DisableNM(c) \/ Reload(c) \/ UpdateResolvconf(c) \/ DNSFails(c)
    BY <1>0, <2>2, Goes DEF DisableNM, Reload, UpdateResolvconf, DNSFails, At, Busy
  <2>3. CASE RestoreBackup(c) \/ RestoreNM(c)
    BY <1>0, <2>3, Goes DEF RestoreBackup, RestoreNM, At, Busy
  <2>4. CASE RestoreResolvconf(c)
    BY <1>0, <2>4, Goes DEF RestoreResolvconf, At, Busy
  <2>5. CASE SetResolvconf(c)
    <3>1. PICK s \in Steps : DNSGoto(c, s)
      BY <2>5 DEF SetResolvconf, Steps
    <3>2. step[c] # "idle" /\ UNCHANGED left /\ \A d \in Callers \ {c} : backup'[d] = backup[d]
      BY <1>0, <2>5 DEF SetResolvconf, At, DNSTypeOK
    <3>3. \A d \in Callers \ {c} : step'[d] = step[d]
      BY <1>0, <3>1 DEF DNSGoto, DNSTypeOK
    <3>4. UNCHANGED <<os, op, overlapped>>
      BY <3>1 DEF DNSGoto
    <3> QED
      BY <3>2, <3>3, <3>4 DEF Frame
  <2>6. CASE EachService(c)
    BY <1>0, <2>6 DEF EachService, DNSTypeOK, At, Frame, ghosts
  <2>7. CASE EachDone(c)
    BY <1>0, <2>7, Goes DEF EachDone, At, Busy
  <2>8. CASE NoEmptyBackup(c)
    BY <1>0, <2>8 DEF NoEmptyBackup, DNSTypeOK, At, Frame
  <2>9. CASE EachFails(c)
    BY <1>0, <2>9 DEF EachFails, DNSTypeOK, At, Frame
  <2> QED
    BY <2>1, <2>2, <2>3, <2>4, <2>5, <2>6, <2>7, <2>8, <2>9 DEF DNSStep, DNSFault
<1>2. ~overlapped => \A d \in Callers \ {c} : step[d] = "idle"
  BY <1>1 DEF IInv, Alone, Busy, Frame
<1> QED
  BY <1>1, <1>2

(* Whoever is idle has no step to be at.                                    *)
LEMMA IdleDone == ASSUME NEW d \in Callers, step'[d] = "idle" PROVE Done(d)'
BY DEF Done

LEMMA TypeOf ==
    ASSUME DNSTypeOK, NEW c \in Callers,
           (\E s \in Steps : DNSGoto(c, s)) \/ (\E r \in {"ok", "error"} : DNSReturn(c, r)),
           \E f \in Files, v \in {"user", "ours", "empty", "none"} :
              \/ file' = file \/ file' = [file EXCEPT ![f] = v] \/ \E g \in Files : Rename(f, g),
           backup' \in [Callers -> BOOLEAN], UNCHANGED <<dns, left>>
    PROVE  DNSTypeOK'
<1>1. file' \in [Files -> {"user", "ours", "empty", "none"}]
  BY DEF DNSTypeOK, Rename
<1>2. /\ UNCHANGED <<os, op, overlapped>>
      /\ step' \in [Callers -> Steps] /\ result' \in [Callers -> {"none", "ok", "error"}]
      /\ settled' \in {"none", "set", "reset"} /\ interrupted' \in BOOLEAN
  <2>1. CASE \E s \in Steps : DNSGoto(c, s)
    BY <2>1 DEF DNSTypeOK, DNSGoto
  <2>2. CASE \E r \in {"ok", "error"} : DNSReturn(c, r)
    BY <2>2 DEF DNSTypeOK, DNSReturn, Steps
  <2> QED
    BY <2>1, <2>2
<1> QED
  BY <1>1, <1>2 DEF DNSTypeOK

LEMMA StepTypeOK ==
    ASSUME DNSTypeOK, NEW c \in Callers, DNSStep(c) \/ DNSFault(c)
    PROVE  DNSTypeOK'
<1> USE DEF filevars
<1>0. {"temp", "backup", "use", "nm", "reload", "rstat", "rbackup", "ruse", "update", "nmrestore",
       "rrestore", "rremove"} \subseteq Steps
      /\ {"resolv", "bak", "tmp", "nm", "rconf", "rbak", "rtmp"} \subseteq Files
      /\ backup \in [Callers -> BOOLEAN]
  BY DEF Steps, Files, DNSTypeOK
<1>1. ASSUME WriteTemp(c) \/ Backup(c) \/ Use(c) \/ Missing(c) PROVE DNSTypeOK'
  BY <1>0, <1>1, TypeOf DEF WriteTemp, Backup, Use, Missing
<1>2. ASSUME DisableNM(c) \/ Reload(c) \/ UpdateResolvconf(c) \/ DNSFails(c) PROVE DNSTypeOK'
  BY <1>0, <1>2, TypeOf DEF DisableNM, Reload, UpdateResolvconf, DNSFails
<1>3. ASSUME RestoreBackup(c) \/ RestoreNM(c) \/ RestoreResolvconf(c) PROVE DNSTypeOK'
  BY <1>0, <1>3, TypeOf DEF RestoreBackup, RestoreNM, RestoreResolvconf
<1>4. ASSUME SetResolvconf(c) PROVE DNSTypeOK'
  BY <1>0, <1>4, TypeOf DEF SetResolvconf
<1>5. ASSUME EachService(c) \/ EachFails(c) \/ NoEmptyBackup(c) PROVE DNSTypeOK'
  <2>1. CASE EachService(c)
    <3>1. PICK s \in left[c] : dns' = [dns EXCEPT ![s] = ServersOf(c)] /\ left' = [left EXCEPT ![c] = @ \ {s}]
      BY <2>1 DEF EachService
    <3>2. ServersOf(c) \in {"ours", "auto"}
      BY DEF ServersOf
    <3>3. dns' \in [Services -> {"user", "ours", "auto"}] /\ left' \in [Callers -> SUBSET Services]
      BY <3>1, <3>2 DEF DNSTypeOK
    <3> QED
      BY <2>1, <3>3 DEF EachService, DNSTypeOK, ghosts
  <2>2. CASE EachFails(c)
    <3>1. left' \in [Callers -> SUBSET Services] /\ result' \in [Callers -> {"none", "ok", "error"}]
      BY <2>2 DEF EachFails, DNSTypeOK
    <3> QED
      BY <2>2, <3>1 DEF EachFails, DNSTypeOK
  <2>3. CASE NoEmptyBackup(c)
    <3>1. step' \in [Callers -> Steps]
      BY <2>3 DEF NoEmptyBackup, DNSTypeOK, Steps
    <3> QED
      BY <2>3, <3>1 DEF NoEmptyBackup, DNSTypeOK
  <2> QED
    BY <1>5, <2>1, <2>2, <2>3
<1>6. ASSUME EachDone(c) PROVE DNSTypeOK'
  BY <1>0, <1>6, TypeOf DEF EachDone
<1> QED
  BY <1>1, <1>2, <1>3, <1>4, <1>5, <1>6 DEF DNSStep, DNSFault

(* Nothing is settled while a call is under way.                            *)
LEMMA Unsettled ==
    ASSUME IInv, NEW c \in Callers, step[c] # "idle", ~overlapped PROVE settled = "none"
BY DEF IInv, DNSTypeOK, InOrder, Settled, Busy

(* SetDNS, on files.                                                        *)
LEMMA OnSetDNS ==
    ASSUME IInv, NEW c \in Callers, WriteTemp(c) \/ Backup(c) \/ Use(c) PROVE InOrder'
<1> SUFFICES ASSUME ~overlapped' PROVE InOrder'
  BY DEF InOrder
<1> USE DEF InOrder, OwnFiles, Kept, Done, Undoable, ServicesReset, Settled, FileSystems, Files, Exists, Rename
<1>1. /\ Frame(c) /\ ~overlapped /\ \A d \in Callers \ {c} : step[d] = "idle"
      /\ DNSTypeOK /\ DNSTypeOK' /\ settled = "none"
  BY ByItself, StepTypeOK, Unsettled DEF DNSStep, IInv, Frame
<1>2. CASE WriteTemp(c)
  BY <1>1, <1>2 DEF IInv, WriteTemp, DNSTypeOK, DNSGoto, At, Frame
<1>3. CASE Backup(c)
  BY <1>1, <1>3 DEF IInv, Backup, DNSTypeOK, DNSGoto, At, Frame
<1>4. CASE Use(c)
  BY <1>1, <1>4 DEF IInv, Use, DNSTypeOK, DNSGoto, At, Frame
<1> QED
  BY <1>2, <1>3, <1>4

(* What NetworkManager and resolvconf are told.                             *)
LEMMA OnManager ==
    ASSUME IInv, NEW c \in Callers, DisableNM(c) \/ Reload(c) \/ SetResolvconf(c) \/ UpdateResolvconf(c) PROVE InOrder'
<1> SUFFICES ASSUME ~overlapped' PROVE InOrder'
  BY DEF InOrder
<1> USE DEF InOrder, OwnFiles, Kept, Done, Undoable, ServicesReset, Settled, FileSystems, Files, Exists, Rename
<1>1. /\ Frame(c) /\ ~overlapped /\ \A d \in Callers \ {c} : step[d] = "idle"
      /\ DNSTypeOK /\ DNSTypeOK' /\ settled = "none"
  BY ByItself, StepTypeOK, Unsettled DEF DNSStep, DNSFault, IInv, Frame
<1>2. CASE DisableNM(c)
  BY <1>1, <1>2 DEF IInv, DisableNM, DNSTypeOK, DNSGoto, DNSReturn, At, Busy, Frame, filevars, ghosts
<1>3. CASE Reload(c)
  BY <1>1, <1>3 DEF IInv, Reload, DNSTypeOK, DNSGoto, DNSReturn, At, Busy, Frame, filevars, ghosts
<1>4. CASE SetResolvconf(c)
  <2>1. CASE At(c, "rstat")
    BY <1>1, <1>4, <2>1 DEF IInv, SetResolvconf, DNSTypeOK, DNSGoto, At, Frame
  <2>2. CASE At(c, "rbackup")
    BY <1>1, <1>4, <2>2 DEF IInv, SetResolvconf, DNSTypeOK, DNSGoto, At, Frame
  <2>3. CASE At(c, "ruse")
    BY <1>1, <1>4, <2>3 DEF IInv, SetResolvconf, DNSTypeOK, DNSGoto, At, Frame
  <2> QED
    BY <1>4, <2>1, <2>2, <2>3 DEF SetResolvconf
<1>5. CASE UpdateResolvconf(c)
  BY <1>1, <1>5 DEF IInv, UpdateResolvconf, DNSTypeOK, DNSGoto, DNSReturn, At, Busy, Frame, filevars, ghosts
<1> QED
  BY <1>2, <1>3, <1>4, <1>5

(* ResetDNS, on files.                                                      *)
LEMMA OnResetDNS ==
    ASSUME IInv, NEW c \in Callers, RestoreBackup(c) \/ RestoreNM(c) \/ RestoreResolvconf(c) PROVE InOrder'
<1> SUFFICES ASSUME ~overlapped' PROVE InOrder'
  BY DEF InOrder
<1> USE DEF InOrder, OwnFiles, Kept, Done, Undoable, ServicesReset, Settled, FileSystems, Files, Exists, Rename
<1>1. /\ Frame(c) /\ ~overlapped /\ \A d \in Callers \ {c} : step[d] = "idle"
      /\ DNSTypeOK /\ DNSTypeOK' /\ settled = "none"
  BY ByItself, StepTypeOK, Unsettled DEF DNSStep, DNSFault, IInv, Frame
<1>2. CASE RestoreBackup(c)
  BY <1>1, <1>2 DEF IInv, RestoreBackup, DNSTypeOK, DNSGoto, DNSReturn, At, Busy, Frame, filevars, ghosts
<1>3. CASE RestoreNM(c)
  BY <1>1, <1>3 DEF IInv, RestoreNM, DNSTypeOK, DNSGoto, DNSReturn, At, Busy, Frame, filevars, ghosts
<1>4. CASE RestoreResolvconf(c)
  BY <1>1, <1>4 DEF IInv, RestoreResolvconf, DNSTypeOK, DNSGoto, DNSReturn, At, Busy, Frame, filevars, ghosts
<1> QED
  BY <1>2, <1>3, <1>4

(* The network services, one after the other.                               *)
LEMMA OnServices ==
    ASSUME IInv, NEW c \in Callers, EachService(c) \/ EachDone(c) PROVE InOrder'
<1> SUFFICES ASSUME ~overlapped' PROVE InOrder'
  BY DEF InOrder
<1> USE DEF InOrder, OwnFiles, Kept, Done, Undoable, ServicesReset, Settled, FileSystems, Files, Exists, Rename
<1>1. /\ Frame(c) /\ ~overlapped /\ \A d \in Callers \ {c} : step[d] = "idle"
      /\ DNSTypeOK /\ DNSTypeOK' /\ settled = "none"
  BY ByItself, StepTypeOK, Unsettled DEF DNSStep, DNSFault, IInv, Frame
<1>2. CASE EachService(c)
  <2>1. os \notin FileSystems /\ UNCHANGED <<os, file, step, op, settled, interrupted, overlapped>>
    BY <1>1, <1>2 DEF IInv, EachService, At, ghosts
  <2>2. PICK s \in left[c] : dns' = [dns EXCEPT ![s] = ServersOf(c)] /\ left' = [left EXCEPT ![c] = @ \ {s}]
    BY <1>2 DEF EachService
  <2>3. ServicesReset => ServicesReset'
    BY <1>1, <2>1, <2>2 DEF DNSTypeOK, ServersOf
  <2> QED
    BY <1>1, <2>1, <2>3 DEF IInv
<1>3. CASE EachDone(c)
  BY <1>1, <1>3 DEF IInv, EachDone, DNSTypeOK, DNSGoto, DNSReturn, At, Busy, Frame, filevars, ghosts
<1> QED
  BY <1>2, <1>3

(* Calls that fail.                                                         *)
LEMMA OnFault ==
    ASSUME IInv, NEW c \in Callers, Missing(c) \/ DNSFails(c) \/ NoEmptyBackup(c) \/ EachFails(c) PROVE InOrder'
<1> SUFFICES ASSUME ~overlapped' PROVE InOrder'
  BY DEF InOrder
<1> USE DEF InOrder, OwnFiles, Kept, Done, Undoable, ServicesReset, Settled, FileSystems, Files, Exists, Rename
<1>1. /\ Frame(c) /\ ~overlapped /\ \A d \in Callers \ {c} : step[d] = "idle"
      /\ DNSTypeOK /\ DNSTypeOK' /\ settled = "none"
  BY ByItself, StepTypeOK, Unsettled DEF DNSStep, DNSFault, IInv, Frame
<1>2. CASE Missing(c)
  BY <1>1, <1>2 DEF IInv, Missing, DNSTypeOK, DNSGoto, DNSReturn, At, Busy, Frame, filevars, ghosts
<1>3. CASE DNSFails(c)
  <2>1. /\ UNCHANGED <<os, file, dns>> /\ settled' = "none" /\ interrupted' = TRUE
        /\ \A d \in Callers : step'[d] = "idle"
    <3>1. UNCHANGED <<os, file, dns>> /\ settled' = "none" /\ interrupted' = TRUE
      BY <1>3 DEF DNSFails, DNSReturn, filevars
    <3>2. step' = [step EXCEPT ![c] = "idle"]
      BY <1>3 DEF DNSFails, DNSReturn
    <3>3. \A d \in Callers : step'[d] = "idle"
      BY <1>1, <3>2 DEF DNSTypeOK
    <3> QED
      BY <3>1, <3>3
  <2> QED
    BY <1>1, <2>1 DEF IInv
<1>4. CASE NoEmptyBackup(c)
  BY <1>1, <1>4 DEF IInv, NoEmptyBackup, DNSTypeOK, DNSGoto, DNSReturn, At, Busy, Frame, filevars, ghosts
<1>5. CASE EachFails(c)
  BY <1>1, <1>5 DEF IInv, EachFails, DNSTypeOK, DNSGoto, DNSReturn, At, Busy, Frame, filevars, ghosts
<1> QED
  BY <1>2, <1>3, <1>4, <1>5

(* A call begins.  When another is under way the two overlap.               *)
LEMMA Begins ==
    ASSUME IInv, NEW c \in Callers, NEW o \in {"set", "reset"}, DNSCall(c, o) PROVE IInv'
<1>1. /\ UNCHANGED <<os, file, dns, interrupted>> /\ settled' = "none"
      /\ \A d \in Callers \ {c} : step'[d] = step[d] /\ op'[d] = op[d] /\ backup'[d] = backup[d]
      /\ ~Busy(c) /\ step'[c] # "idle"
      /\ overlapped' = (overlapped \/ \E d \in Callers \ {c} : Busy(d))
      /\ op'[c] = o
  BY DEF DNSCall, SetDNS, ResetDNS, Each, DNSBegin, IInv, DNSTypeOK, filevars
<1>2. \/ step'[c] = "temp" /\ os \in FileSystems /\ o = "set" /\ (backup'[c] <=> ~Exists("bak"))
      \/ step'[c] = "restore" /\ os \in FileSystems /\ o = "reset"
      \/ step'[c] = "each" /\ os \notin FileSystems /\ left'[c] = Services
  BY DEF DNSCall, SetDNS, ResetDNS, Each, DNSBegin, IInv, DNSTypeOK, filevars
<1>3. DNSTypeOK'
  <2>0. /\ step' \in [Callers -> Steps] /\ op' \in [Callers -> {"none", "set", "reset"}]
        /\ result' \in [Callers -> {"none", "ok", "error"}] /\ overlapped' \in BOOLEAN
    <3>1. PICK s \in {"temp", "restore", "each"} : DNSBegin(c, o, s)
      BY DEF DNSCall, SetDNS, ResetDNS, Each
    <3> QED
      BY <3>1 DEF DNSBegin, IInv, DNSTypeOK, Steps
  <2>1. backup' \in [Callers -> BOOLEAN] /\ left' \in [Callers -> SUBSET Services]
    BY DEF DNSCall, SetDNS, ResetDNS, Each, IInv, DNSTypeOK
  <2> QED
    BY <1>1, <2>0, <2>1 DEF IInv, DNSTypeOK
<1>4. Alone'
  <2>1. ~overlapped' => \A d \in Callers \ {c} : step'[d] = "idle"
    BY <1>1 DEF Busy
  <2> QED
    BY <2>1 DEF Alone, Busy
<1>5. ASSUME ~overlapped' PROVE InOrder'
  <2>1. ~overlapped /\ \A d \in Callers : step[d] = "idle"
    BY <1>1, <1>5 DEF IInv, DNSTypeOK, Busy
  <2>2. \A d \in Callers \ {c} : step'[d] = "idle"
    BY <1>1, <2>1
  <2>3. OwnFiles' /\ Settled'
    BY <1>1, <2>1 DEF IInv, InOrder, OwnFiles, Settled
  <2>4. os \in FileSystems => Kept' /\ \A d \in Callers : Done(d)'
    BY <1>1, <1>2, <2>1, <2>2 DEF IInv, InOrder, Kept, Done, Exists
  <2>5. os \in FileSystems /\ ~interrupted => Undoable'
    BY <1>1, <1>2, <2>1, <2>2 DEF IInv, InOrder, Undoable
  <2>6. os \notin FileSystems => ServicesReset' /\ \A d \in Callers : step'[d] \in {"idle", "each"}
    BY <1>1, <1>2, <2>1, <2>2 DEF ServicesReset
  <2> QED
    BY <1>1, <2>3, <2>4, <2>5, <2>6 DEF InOrder
<1> QED
  BY <1>3, <1>4, <1>5 DEF IInv, InOrder

LEMMA Continues ==
    ASSUME IInv, NEW c \in Callers, DNSStep(c) \/ DNSFault(c) PROVE IInv'
<1>1. DNSTypeOK'
  BY StepTypeOK DEF IInv
<1>2. Alone'
  BY ByItself DEF Frame, Alone, Busy, IInv
<1>3. InOrder'
  BY OnSetDNS, OnManager, OnResetDNS, OnServices, OnFault DEF DNSStep, DNSFault
<1> QED
  BY <1>1, <1>2, <1>3 DEF IInv

(* Some calls end where they are, with their processes.                     *)
LEMMA Crashes ==
    ASSUME IInv, UNCHANGED <<os, file, dns, backup, left, op, result, settled, overlapped>>,
           NEW C \in SUBSET Callers,
           step' = [c \in Callers |-> IF c \in C THEN "idle" ELSE step[c]],
           interrupted' = (interrupted \/ \E c \in C : Busy(c))
    PROVE  IInv'
<1>1. DNSTypeOK' /\ Alone'
  BY DEF IInv, DNSTypeOK, Alone, Busy, Steps
<1>2. ASSUME ~overlapped, ~interrupted' PROVE UNCHANGED step
  <2>1. \A c \in Callers : step'[c] = step[c]
    BY <1>2 DEF Busy
  <2>2. step = [c \in Callers |-> step[c]]
    BY DEF IInv, DNSTypeOK
  <2> QED
    BY <2>1, <2>2
<1>3. ASSUME ~overlapped PROVE InOrder'
  <2>1. \A c \in Callers : step'[c] = step[c] \/ step'[c] = "idle"
    OBVIOUS
  <2>2. OwnFiles'
    BY <1>3 DEF IInv, InOrder, OwnFiles
  <2>3. os \in FileSystems => Kept' /\ \A c \in Callers : Done(c)'
    BY <1>3, <2>1 DEF IInv, InOrder, Kept, Done
  <2>4. ~interrupted' => (Undoable => Undoable') /\ (ServicesReset => ServicesReset')
    BY <1>2, <1>3 DEF Undoable, ServicesReset
  <2>5. Settled'
    BY <1>3, <2>1 DEF IInv, InOrder, Settled, Busy
  <2>6. os \notin FileSystems => \A c \in Callers : step'[c] \in {"idle", "each"}
    BY <1>3, <2>1 DEF IInv, InOrder
  <2>7. interrupted => interrupted'
    OBVIOUS
  <2> QED
    BY <1>3, <2>2, <2>3, <2>4, <2>5, <2>6, <2>7 DEF IInv, InOrder
<1> QED
  BY <1>1, <1>3 DEF IInv, InOrder

LEMMA NotAboutDNS == ASSUME IInv, UNCHANGED dnsvars PROVE IInv'
<1>1. UNCHANGED <<os, file, dns, step, backup, left, op, result, settled, overlapped, interrupted>>
  BY DEF dnsvars
<1>2. DNSTypeOK' /\ Alone'
  BY <1>1 DEF IInv, DNSTypeOK, Alone, Busy
<1>3. InOrder'
  BY <1>1 DEF IInv, InOrder, OwnFiles, Kept, Done, Undoable, ServicesReset, Settled, Busy
<1> QED
  BY <1>2, <1>3 DEF IInv

LEMMA OneCrash == ASSUME IInv, NEW c \in Callers, DNSCrash(c) PROVE IInv'
<1>1. /\ {c} \in SUBSET Callers
      /\ step' = [d \in Callers |-> IF d \in {c} THEN "idle" ELSE step[d]]
      /\ interrupted' = (interrupted \/ \E d \in {c} : Busy(d))
      /\ UNCHANGED <<os, file, dns, backup, left, op, result, settled, overlapped>>
  BY DEF DNSCrash, IInv, DNSTypeOK, filevars
<1> QED
  BY <1>1, Crashes

LEMMA StepIInv == IInv /\ [HostNext]_hvars => IInv'
<1> SUFFICES ASSUME IInv, [HostNext]_hvars PROVE IInv'
  OBVIOUS
<1>1. {"daemon", "cli"} = Callers
  BY HostAssumption DEF HostAssumption
<1>2. CASE Respawn \/ Listen \/ ListenFails \/ Started \/ Stopping \/ Exit \/ RouterCall
  <2>1. UNCHANGED dnsvars
    BY <1>2 DEF Respawn, Listen, ListenFails, Started, Stopping, Exit, RouterCall
  <2> QED
    BY <2>1, NotAboutDNS
<1>3. CASE Activate \/ Deactivate
  <2>1. PICK o \in {"set", "reset"} : DNSCall("daemon", o) \/ UNCHANGED dnsvars
    BY <1>3 DEF Activate, Deactivate, DaemonDNS
  <2> QED
    BY <1>1, <2>1, Begins, NotAboutDNS
<1>4. CASE Killed
  BY <1>1, <1>4, OneCrash DEF Killed
<1>5. CASE Command \/ StopSent \/ Stopped \/ NoUnit \/ StartService \/ StatusAsked
  <2>1. UNCHANGED dnsvars
    BY <1>5 DEF Command, StopSent, Stopped, NoUnit, StartService, StatusAsked
  <2> QED
    BY <2>1, NotAboutDNS
<1>6. CASE InitBegins \/ InitActs \/ SaveConfig
  <2>1. UNCHANGED dnsvars
    BY <1>6 DEF InitBegins, InitActs, SaveConfig
  <2> QED
    BY <2>1, NotAboutDNS
<1>7. CASE DNSBegins
  <2>1. PICK o \in {"set", "reset"} : DNSCall("cli", o)
    BY <1>7 DEF DNSBegins
  <2> QED
    BY <1>1, <2>1, Begins
<1>8. CASE DNSCalls
  BY <1>8, Continues DEF DNSCalls
<1>9. CASE CommandKilled
  BY <1>1, <1>9, OneCrash DEF CommandKilled
<1>10. CASE Reboot
  <2>1. /\ step' = [c \in Callers |-> IF c \in Callers THEN "idle" ELSE step[c]]
        /\ interrupted' = (interrupted \/ \E c \in Callers : Busy(c))
        /\ UNCHANGED <<os, file, dns, backup, left, op, result, settled, overlapped>>
        /\ Callers \in SUBSET Callers
    BY <1>10 DEF Reboot, filevars
  <2> QED
    BY <2>1, Crashes
<1>11. CASE UNCHANGED hvars
  <2>1. UNCHANGED dnsvars
    BY <1>11 DEF hvars
  <2> QED
    BY <2>1, NotAboutDNS
<1> QED
  BY <1>2, <1>3, <1>4, <1>5, <1>6, <1>7, <1>8, <1>9, <1>10, <1>11 DEF HostNext, DaemonNext

LEMMA IInvHolds == HostSpec => []IInv
BY InitIInv, StepIInv, PTL DEF HostSpec
-------------------------------------------------------------------------------
(* Whatever fails, and wherever the daemon or a command is killed or the    *)
(* machine restarts, the administrator's resolv.conf is in its place or in  *)
(* the backup, unless two calls have overlapped (host/dns_resolvconf.go).   *)
THEOREM AdministratorsFileKept == HostSpec => []UserKept
<1>1. IInv => UserKept
  BY DEF IInv, DNSTypeOK, InOrder, Kept, UserKept, FileSystems
<1> QED
  BY <1>1, IInvHolds, PTL

(* A system whose last call has succeeded asks nextdns if that was SetDNS,  *)
(* and nothing of nextdns is left in it if it was ResetDNS (host/dns.go),   *)
(* for any network services and any sequence of calls and faults.           *)
THEOREM SettledAsLastAsked == HostSpec => []SettledAsAsked
<1>1. IInv => SettledAsAsked
  <2> SUFFICES ASSUME IInv, ~overlapped PROVE SettledAsAsked
    BY DEF SettledAsAsked
  <2>1. Settled
    BY DEF IInv, InOrder
  <2> QED
    BY <2>1 DEF Settled, SettledAsAsked
<1> QED
  BY <1>1, IInvHolds, PTL
-------------------------------------------------------------------------------
Used == machine.router /\ ReadsConfig
Early == cached /\ Platform.early

(* The calls of the daemon's life come in their order, each at most once.   *)
InItsLife ==
    /\ life \in {"dead", "configure", "setup", "activate", "up", "restore", "deactivate"}
    /\ life = "dead" => call = "none" /\ \A c \in RouterCalls : outcome[c] = "none"
    /\ life = "configure" =>
         /\ call \in {"none", "configure"} /\ outcome["setup"] = "none" /\ outcome["restore"] = "none"
         /\ call = "configure" => outcome["configure"] = "none"
    /\ life = "setup" => call \in {"none", "setup"} /\ outcome["restore"] = "none"
    /\ life \in {"activate", "up"} => call = "none" /\ outcome["restore"] = "none"
    /\ life = "restore" => call \in {"none", "restore"} /\ (call = "restore" => outcome["restore"] = "none")
    /\ life = "deactivate" => call = "none"
    /\ Used /\ Alive /\ call # "configure" => outcome["configure"] # "none"
    /\ ~Used => call = "none" /\ \A c \in RouterCalls : outcome[c] = "none"

(* What is left of a call is the end of its platform's plan.                *)
SetupLeft(p, t) ==
    /\ p = "ddwrt" => t \in {<<"save", "set", "restart">>, <<"set", "restart">>, <<"restart">>, <<>>}
    /\ p \in {"edgeos", "merlin", "ubios"} =>
         t \in {<<"truncate", "fill", "restart">>, <<"fill", "restart">>, <<"restart">>, <<>>}
    /\ p = "openwrt" =>
         t \in {<<"uci", "truncate", "fill", "dhcp", "restart">>, <<"truncate", "fill", "dhcp", "restart">>,
                <<"fill", "dhcp", "restart">>, <<"dhcp", "restart">>, <<"restart">>, <<>>}
    /\ p = "synology" =>
         t \in {<<"truncate", "fill", "info", "restart">>, <<"fill", "info", "restart">>, <<"info", "restart">>,
                <<"restart">>, <<>>}
    /\ p \in {"generic", "nodhcp"} => t = <<>>

RestoreLeft(p, t) ==
    /\ p = "ddwrt" => t \in {<<"reset", "restart">>, <<"restart">>, <<>>}
    /\ p \in {"edgeos", "ubios"} => t \in {<<"remove", "restart">>, <<"restart">>, <<>>}
    /\ p = "merlin" => t \in {<<"putback", "restart">>, <<"restart">>, <<>>}
    /\ p = "openwrt" =>
         t \in {<<"servers", "quiet", "undhcp", "restart">>, <<"quiet", "undhcp", "restart">>,
                <<"undhcp", "restart">>, <<"restart">>, <<>>}
    /\ p = "synology" => t \in {<<"quiet", "restart">>, <<"restart">>, <<>>}
    /\ p \in {"generic", "nodhcp"} => t = <<>>

(* What a call does next.                                                   *)
Ahead(t) == IF t = <<>> THEN "end" ELSE Head(t)

OnPlan ==
    /\ call = "none" => todo = <<>>
    /\ call = "configure" => IF Early THEN SetupLeft(rtr, todo) ELSE todo = <<>>
    /\ call = "setup" => IF Early THEN todo = <<>> ELSE SetupLeft(rtr, todo)
    /\ call = "restore" => RestoreLeft(rtr, todo)

Values == {"unset", "user", "53", "other", "ours", "off", "forward", "plain"}

(* The settings of the user's that the code undertakes to put back, and     *)
(* where they are while the daemon lives: in their place or in its memory.  *)
Own(o) == o \in Options \ {"dhcp"} /\ found[o] \notin {"unset", "53"}

Saved ==
    /\ \A o \in Options : mem.saved[o] \in Values
    /\ found["options"] \in {"unset", "user"}
    /\ rtr # "openwrt" => \A o \in Options \ NVRAM : found[o] = "unset"
    /\ rtr = "openwrt" => \A o \in Options \ {"server"} : mem.saved[o] = "unset"
    /\ rtr \notin {"ddwrt", "openwrt"} => mem.saved = Nothing
    /\ outcome["configure"] = "none" /\ call = "none" => mem.saved = Nothing
    /\ ~Early /\ outcome["setup"] = "none" /\ call # "setup" => mem.saved = Nothing
    /\ call \in {"configure", "setup"} /\ Ahead(todo) \in {"save", "uci"} => mem.saved = Nothing
    /\ ~forgot => \A o \in Options : Own(o) =>
         /\ mem.saved[o] \in {"unset", found[o]}
         /\ mem.saved[o] = "unset" => opts[o] = found[o]
         /\ Ahead(todo) = "set" => mem.saved[o] = found[o]

(* How far Restore has come.                                                *)
PutBackSo ==
    /\ rtr \in {"ddwrt", "generic", "nodhcp"} => conf.ours = "none"
    /\ rtr \in {"generic", "nodhcp"} => ~masq.forwards /\ (masq.takes53 <=> opts["port"] # "other")
    /\ call = "restore" /\ Ahead(todo) \in {"undhcp", "restart", "end"} => conf.ours = "none"
    /\ ~Forgets /\ call = "restore" /\ Ahead(todo) = "end" =>
         ~masq.forwards /\ (masq.takes53 <=> opts["port"] # "other")
    /\ ~forgot /\ call = "restore" /\ Ahead(todo) \notin {"reset", "servers"} =>
         \A o \in Options : Own(o) => opts[o] = found[o]

(* How far Configure has come, for a daemon that answers on port 53.        *)
Leaves53 ==
    /\ found["port"] # "user"
    /\ found["port"] # "53" => opts["port"] = found["port"]
    /\ Early /\ ~(rtr = "openwrt" /\ found["port"] = "53") =>
         /\ call = "configure" =>
              /\ rtr = "ddwrt" /\ Ahead(todo) = "restart" => opts["options"] = "off"
              /\ rtr \in {"edgeos", "synology"} /\ Ahead(todo) \in {"info", "restart"} => conf.ours = "off"
              /\ rtr = "openwrt" /\ Ahead(todo) \notin {"uci", "end"} => mem.port0 \/ opts["port"] = "other"
              /\ rtr = "openwrt" /\ Ahead(todo) \in {"dhcp", "restart"} =>
                   conf.ours = "off" \/ opts["port"] = "other"
         /\ call = "configure" /\ Ahead(todo) = "end" => ~masq.takes53
         /\ call \in {"none", "setup"} /\ outcome["configure"] = "ok" /\ outcome["restore"] = "none" => ~masq.takes53

(* What Restore promises, once it has returned nil.                         *)
Back ==
    Restored =>
      /\ conf.ours = "none"
      /\ ~Forgets => ~masq.forwards /\ (masq.takes53 <=> opts["port"] # "other")
      /\ ~forgot => \A o \in Options : Own(o) => opts[o] = found[o]

RInv == RouterTypeOK /\ InItsLife /\ OnPlan /\ Saved /\ PutBackSo /\ Leaves53 /\ Back

-------------------------------------------------------------------------------
LEMMA InitRInv == HostInit => RInv
<1> SUFFICES ASSUME HostInit PROVE RInv
  OBVIOUS
<1>1. /\ RouterInit /\ life = "dead" /\ call = "none" /\ todo = <<>> /\ mem = Fresh /\ opts = found
      /\ \A c \in RouterCalls : outcome[c] = "none"
  BY DEF HostInit, RouterInit, RouterCalls
<1>2. RouterTypeOK
  <2>1. mem.saved = Nothing /\ mem.port0 = FALSE /\ mem.post = "none"
    BY <1>1 DEF Fresh
  <2>2. conf \in [ours : {"none", "blank", "plain", "off", "forward"}, user : Scripts] /\ script \in Scripts
    <3>1. script \in Scripts /\ conf = [ours |-> "none", user |-> script]
      BY <1>1 DEF RouterInit, Scripts
    <3> QED
      BY <3>1
  <2>3. masq \in [takes53 : BOOLEAN, forwards : BOOLEAN]
    BY <1>1 DEF RouterInit, Load
  <2>4. found \in [Options -> {"unset", "user", "53", "other"}]
    BY <1>1 DEF RouterInit
  <2>5. opts \in [Options -> {"unset", "user", "53", "other", "ours", "off", "forward", "plain"}]
    BY <1>1, <2>4
  <2>6. DOMAIN mem.saved = Options
    BY <2>1 DEF Nothing
  <2>7. /\ outcome \in [RouterCalls -> {"none", "ok", "error"}] /\ rtr \in Platforms
        /\ cached \in BOOLEAN /\ forgot \in BOOLEAN /\ lost \in BOOLEAN
    BY <1>1 DEF RouterInit
  <2> QED
    BY <1>1, <2>1, <2>2, <2>3, <2>4, <2>5, <2>6, <2>7 DEF RouterTypeOK, Scripts
<1>3. InItsLife
  BY <1>1 DEF InItsLife, Alive
<1>4. OnPlan /\ Saved
  <2>1. mem.saved = Nothing
    BY <1>1 DEF Fresh
  <2>2. \A o \in Options : mem.saved[o] = "unset"
    BY <2>1 DEF Nothing
  <2>3. Ahead(todo) = "end"
    BY <1>1 DEF Ahead
  <2>5. /\ rtr # "openwrt" => \A o \in Options \ NVRAM : found[o] = "unset"
        /\ found["options"] \in {"unset", "user"}
    BY <1>1 DEF RouterInit, Options
  <2>4. Saved
    BY <1>1, <2>1, <2>2, <2>3, <2>5 DEF Saved, Values
  <2> QED
    BY <1>1, <2>4 DEF OnPlan
<1>5. PutBackSo
  <2>1. conf.ours = "none"
    BY <1>1 DEF RouterInit
  <2>2. rtr # "ddwrt" => ~masq.forwards /\ (masq.takes53 <=> opts["port"] # "other")
    BY <1>1, <2>1 DEF RouterInit, Load
  <2> QED
    BY <1>1, <2>1, <2>2 DEF PutBackSo
<1>6. Leaves53 /\ Back
  BY <1>1 DEF Leaves53, RouterInit, Back, Restored, RouterCalls
<1> QED
  BY <1>2, <1>3, <1>4, <1>5, <1>6 DEF RInv

(* The daemon and its router are not concerned.                             *)
LEMMA RouterAside == ASSUME RInv, UNCHANGED <<rvars, life, machine, init>> PROVE RInv'
<1>1. RouterTypeOK' /\ InItsLife'
  BY DEF RInv, rvars, RouterTypeOK, InItsLife, Alive, Used, ReadsConfig
<1>2. OnPlan' /\ Saved'
  BY DEF RInv, rvars, OnPlan, Saved, Early, Platform, SetupLeft, RestoreLeft, Own
<1>3. PutBackSo' /\ Leaves53' /\ Back'
  BY DEF RInv, rvars, PutBackSo, Leaves53, Back, Restored, Early, Platform, Own, Forgets
<1> QED
  BY <1>1, <1>2, <1>3 DEF RInv

(* Where in its plan a call is, by what it does next.                       *)
Setting == {"save", "set", "uci", "truncate", "fill", "dhcp", "info"}
Resetting == {"reset", "servers", "quiet", "undhcp", "remove", "putback"}

(* What the next step s of a plan tells, n being the one after it.          *)
SetupNext(p, s, n) ==
    /\ s \in Setting \cup {"restart"} /\ p \notin {"generic", "nodhcp"}
    /\ s = "save" => p = "ddwrt" /\ n = "set"
    /\ s = "set" => p = "ddwrt" /\ n = "restart"
    /\ s = "uci" => p = "openwrt" /\ n = "truncate"
    /\ s = "truncate" => p # "ddwrt" /\ n = "fill"
    /\ s = "fill" => \/ p \in {"edgeos", "merlin", "ubios"} /\ n = "restart"
                     \/ p = "openwrt" /\ n = "dhcp"
                     \/ p = "synology" /\ n = "info"
    /\ s = "dhcp" => p = "openwrt" /\ n = "restart"
    /\ s = "info" => p = "synology" /\ n = "restart"
    /\ s = "restart" => n = "end"

RestoreNext(p, s, n) ==
    /\ s \in Resetting \cup {"restart"} /\ p \notin {"generic", "nodhcp"}
    /\ s = "reset" => p = "ddwrt" /\ n = "restart"
    /\ s = "servers" => p = "openwrt" /\ n = "quiet"
    /\ s = "quiet" => (p = "openwrt" /\ n = "undhcp") \/ (p = "synology" /\ n = "restart")
    /\ s = "undhcp" => p = "openwrt" /\ n = "restart"
    /\ s = "remove" => p \in {"edgeos", "ubios"} /\ n = "restart"
    /\ s = "putback" => p = "merlin" /\ n = "restart"
    /\ s = "restart" => n = "end"

LEMMA SetupOnward ==
    ASSUME NEW p \in Platforms, NEW t, SetupLeft(p, t), t # <<>>
    PROVE  SetupLeft(p, Tail(t)) /\ SetupNext(p, Head(t), Ahead(Tail(t)))
<1>1. CASE p = "ddwrt"
  <2>1. CASE t = <<"save", "set", "restart">>
    <3>1. Head(t) = "save" /\ Tail(t) = <<"set", "restart">>
      BY <2>1
    <3>3. Ahead(<<"set", "restart">>) = "set"
      BY DEF Ahead
    <3>4. Ahead(Tail(t)) = "set"
      BY <3>1, <3>3
    <3>5. Head(t) = "save"
      BY <3>1
    <3>2. SetupLeft(p, Tail(t))
      BY <1>1, <3>1 DEF SetupLeft
    <3>6. SetupNext(p, Head(t), Ahead(Tail(t)))
      BY <1>1, <3>4, <3>5 DEF SetupNext, Setting
    <3> QED
      BY <3>2, <3>6
  <2>2. CASE t = <<"set", "restart">>
    <3>1. Head(t) = "set" /\ Tail(t) = <<"restart">>
      BY <2>2
    <3>3. Ahead(<<"restart">>) = "restart"
      BY DEF Ahead
    <3>4. Ahead(Tail(t)) = "restart"
      BY <3>1, <3>3
    <3>5. Head(t) = "set"
      BY <3>1
    <3>2. SetupLeft(p, Tail(t))
      BY <1>1, <3>1 DEF SetupLeft
    <3>6. SetupNext(p, Head(t), Ahead(Tail(t)))
      BY <1>1, <3>4, <3>5 DEF SetupNext, Setting
    <3> QED
      BY <3>2, <3>6
  <2>3. CASE t = <<"restart">>
    <3>1. Head(t) = "restart" /\ Tail(t) = <<>>
      BY <2>3
    <3>4. Ahead(Tail(t)) = "end"
      BY <3>1 DEF Ahead
    <3>5. Head(t) = "restart"
      BY <3>1
    <3>2. SetupLeft(p, Tail(t))
      BY <1>1, <3>1 DEF SetupLeft
    <3>6. SetupNext(p, Head(t), Ahead(Tail(t)))
      BY <1>1, <3>4, <3>5 DEF SetupNext, Setting
    <3> QED
      BY <3>2, <3>6
  <2> QED
    BY <1>1, <2>1, <2>2, <2>3 DEF SetupLeft
<1>2. CASE p \in {"edgeos", "merlin", "ubios"}
  <2>1. CASE t = <<"truncate", "fill", "restart">>
    <3>1. Head(t) = "truncate" /\ Tail(t) = <<"fill", "restart">>
      BY <2>1
    <3>3. Ahead(<<"fill", "restart">>) = "fill"
      BY DEF Ahead
    <3>4. Ahead(Tail(t)) = "fill"
      BY <3>1, <3>3
    <3>5. Head(t) = "truncate"
      BY <3>1
    <3>2. SetupLeft(p, Tail(t))
      BY <1>2, <3>1 DEF SetupLeft
    <3>6. SetupNext(p, Head(t), Ahead(Tail(t)))
      BY <1>2, <3>4, <3>5 DEF SetupNext, Setting
    <3> QED
      BY <3>2, <3>6
  <2>2. CASE t = <<"fill", "restart">>
    <3>1. Head(t) = "fill" /\ Tail(t) = <<"restart">>
      BY <2>2
    <3>3. Ahead(<<"restart">>) = "restart"
      BY DEF Ahead
    <3>4. Ahead(Tail(t)) = "restart"
      BY <3>1, <3>3
    <3>5. Head(t) = "fill"
      BY <3>1
    <3>2. SetupLeft(p, Tail(t))
      BY <1>2, <3>1 DEF SetupLeft
    <3>6. SetupNext(p, Head(t), Ahead(Tail(t)))
      BY <1>2, <3>4, <3>5 DEF SetupNext, Setting
    <3> QED
      BY <3>2, <3>6
  <2>3. CASE t = <<"restart">>
    <3>1. Head(t) = "restart" /\ Tail(t) = <<>>
      BY <2>3
    <3>4. Ahead(Tail(t)) = "end"
      BY <3>1 DEF Ahead
    <3>5. Head(t) = "restart"
      BY <3>1
    <3>2. SetupLeft(p, Tail(t))
      BY <1>2, <3>1 DEF SetupLeft
    <3>6. SetupNext(p, Head(t), Ahead(Tail(t)))
      BY <1>2, <3>4, <3>5 DEF SetupNext, Setting
    <3> QED
      BY <3>2, <3>6
  <2> QED
    BY <1>2, <2>1, <2>2, <2>3 DEF SetupLeft
<1>3. CASE p = "openwrt"
  <2>1. CASE t = <<"uci", "truncate", "fill", "dhcp", "restart">>
    <3>1. Head(t) = "uci" /\ Tail(t) = <<"truncate", "fill", "dhcp", "restart">>
      BY <2>1
    <3>3. Ahead(<<"truncate", "fill", "dhcp", "restart">>) = "truncate"
      BY DEF Ahead
    <3>4. Ahead(Tail(t)) = "truncate"
      BY <3>1, <3>3
    <3>5. Head(t) = "uci"
      BY <3>1
    <3>2. SetupLeft(p, Tail(t))
      BY <1>3, <3>1 DEF SetupLeft
    <3>6. SetupNext(p, Head(t), Ahead(Tail(t)))
      BY <1>3, <3>4, <3>5 DEF SetupNext, Setting
    <3> QED
      BY <3>2, <3>6
  <2>2. CASE t = <<"truncate", "fill", "dhcp", "restart">>
    <3>1. Head(t) = "truncate" /\ Tail(t) = <<"fill", "dhcp", "restart">>
      BY <2>2
    <3>3. Ahead(<<"fill", "dhcp", "restart">>) = "fill"
      BY DEF Ahead
    <3>4. Ahead(Tail(t)) = "fill"
      BY <3>1, <3>3
    <3>5. Head(t) = "truncate"
      BY <3>1
    <3>2. SetupLeft(p, Tail(t))
      BY <1>3, <3>1 DEF SetupLeft
    <3>6. SetupNext(p, Head(t), Ahead(Tail(t)))
      BY <1>3, <3>4, <3>5 DEF SetupNext, Setting
    <3> QED
      BY <3>2, <3>6
  <2>3. CASE t = <<"fill", "dhcp", "restart">>
    <3>1. Head(t) = "fill" /\ Tail(t) = <<"dhcp", "restart">>
      BY <2>3
    <3>3. Ahead(<<"dhcp", "restart">>) = "dhcp"
      BY DEF Ahead
    <3>4. Ahead(Tail(t)) = "dhcp"
      BY <3>1, <3>3
    <3>5. Head(t) = "fill"
      BY <3>1
    <3>2. SetupLeft(p, Tail(t))
      BY <1>3, <3>1 DEF SetupLeft
    <3>6. SetupNext(p, Head(t), Ahead(Tail(t)))
      BY <1>3, <3>4, <3>5 DEF SetupNext, Setting
    <3> QED
      BY <3>2, <3>6
  <2>4. CASE t = <<"dhcp", "restart">>
    <3>1. Head(t) = "dhcp" /\ Tail(t) = <<"restart">>
      BY <2>4
    <3>3. Ahead(<<"restart">>) = "restart"
      BY DEF Ahead
    <3>4. Ahead(Tail(t)) = "restart"
      BY <3>1, <3>3
    <3>5. Head(t) = "dhcp"
      BY <3>1
    <3>2. SetupLeft(p, Tail(t))
      BY <1>3, <3>1 DEF SetupLeft
    <3>6. SetupNext(p, Head(t), Ahead(Tail(t)))
      BY <1>3, <3>4, <3>5 DEF SetupNext, Setting
    <3> QED
      BY <3>2, <3>6
  <2>5. CASE t = <<"restart">>
    <3>1. Head(t) = "restart" /\ Tail(t) = <<>>
      BY <2>5
    <3>4. Ahead(Tail(t)) = "end"
      BY <3>1 DEF Ahead
    <3>5. Head(t) = "restart"
      BY <3>1
    <3>2. SetupLeft(p, Tail(t))
      BY <1>3, <3>1 DEF SetupLeft
    <3>6. SetupNext(p, Head(t), Ahead(Tail(t)))
      BY <1>3, <3>4, <3>5 DEF SetupNext, Setting
    <3> QED
      BY <3>2, <3>6
  <2> QED
    BY <1>3, <2>1, <2>2, <2>3, <2>4, <2>5 DEF SetupLeft
<1>4. CASE p = "synology"
  <2>1. CASE t = <<"truncate", "fill", "info", "restart">>
    <3>1. Head(t) = "truncate" /\ Tail(t) = <<"fill", "info", "restart">>
      BY <2>1
    <3>3. Ahead(<<"fill", "info", "restart">>) = "fill"
      BY DEF Ahead
    <3>4. Ahead(Tail(t)) = "fill"
      BY <3>1, <3>3
    <3>5. Head(t) = "truncate"
      BY <3>1
    <3>2. SetupLeft(p, Tail(t))
      BY <1>4, <3>1 DEF SetupLeft
    <3>6. SetupNext(p, Head(t), Ahead(Tail(t)))
      BY <1>4, <3>4, <3>5 DEF SetupNext, Setting
    <3> QED
      BY <3>2, <3>6
  <2>2. CASE t = <<"fill", "info", "restart">>
    <3>1. Head(t) = "fill" /\ Tail(t) = <<"info", "restart">>
      BY <2>2
    <3>3. Ahead(<<"info", "restart">>) = "info"
      BY DEF Ahead
    <3>4. Ahead(Tail(t)) = "info"
      BY <3>1, <3>3
    <3>5. Head(t) = "fill"
      BY <3>1
    <3>2. SetupLeft(p, Tail(t))
      BY <1>4, <3>1 DEF SetupLeft
    <3>6. SetupNext(p, Head(t), Ahead(Tail(t)))
      BY <1>4, <3>4, <3>5 DEF SetupNext, Setting
    <3> QED
      BY <3>2, <3>6
  <2>3. CASE t = <<"info", "restart">>
    <3>1. Head(t) = "info" /\ Tail(t) = <<"restart">>
      BY <2>3
    <3>3. Ahead(<<"restart">>) = "restart"
      BY DEF Ahead
    <3>4. Ahead(Tail(t)) = "restart"
      BY <3>1, <3>3
    <3>5. Head(t) = "info"
      BY <3>1
    <3>2. SetupLeft(p, Tail(t))
      BY <1>4, <3>1 DEF SetupLeft
    <3>6. SetupNext(p, Head(t), Ahead(Tail(t)))
      BY <1>4, <3>4, <3>5 DEF SetupNext, Setting
    <3> QED
      BY <3>2, <3>6
  <2>4. CASE t = <<"restart">>
    <3>1. Head(t) = "restart" /\ Tail(t) = <<>>
      BY <2>4
    <3>4. Ahead(Tail(t)) = "end"
      BY <3>1 DEF Ahead
    <3>5. Head(t) = "restart"
      BY <3>1
    <3>2. SetupLeft(p, Tail(t))
      BY <1>4, <3>1 DEF SetupLeft
    <3>6. SetupNext(p, Head(t), Ahead(Tail(t)))
      BY <1>4, <3>4, <3>5 DEF SetupNext, Setting
    <3> QED
      BY <3>2, <3>6
  <2> QED
    BY <1>4, <2>1, <2>2, <2>3, <2>4 DEF SetupLeft
<1>5. p \notin {"generic", "nodhcp"}
  BY DEF SetupLeft
<1> QED
  BY <1>1, <1>2, <1>3, <1>4, <1>5 DEF Platforms

LEMMA RestoreOnward ==
    ASSUME NEW p \in Platforms, NEW t, RestoreLeft(p, t), t # <<>>
    PROVE  RestoreLeft(p, Tail(t)) /\ RestoreNext(p, Head(t), Ahead(Tail(t)))
<1>1. CASE p = "ddwrt"
  <2>1. CASE t = <<"reset", "restart">>
    <3>1. Head(t) = "reset" /\ Tail(t) = <<"restart">>
      BY <2>1
    <3>3. Ahead(<<"restart">>) = "restart"
      BY DEF Ahead
    <3>4. Ahead(Tail(t)) = "restart"
      BY <3>1, <3>3
    <3>5. Head(t) = "reset"
      BY <3>1
    <3>2. RestoreLeft(p, Tail(t))
      BY <1>1, <3>1 DEF RestoreLeft
    <3>6. RestoreNext(p, Head(t), Ahead(Tail(t)))
      BY <1>1, <3>4, <3>5 DEF RestoreNext, Resetting
    <3> QED
      BY <3>2, <3>6
  <2>2. CASE t = <<"restart">>
    <3>1. Head(t) = "restart" /\ Tail(t) = <<>>
      BY <2>2
    <3>4. Ahead(Tail(t)) = "end"
      BY <3>1 DEF Ahead
    <3>5. Head(t) = "restart"
      BY <3>1
    <3>2. RestoreLeft(p, Tail(t))
      BY <1>1, <3>1 DEF RestoreLeft
    <3>6. RestoreNext(p, Head(t), Ahead(Tail(t)))
      BY <1>1, <3>4, <3>5 DEF RestoreNext, Resetting
    <3> QED
      BY <3>2, <3>6
  <2> QED
    BY <1>1, <2>1, <2>2 DEF RestoreLeft
<1>2. CASE p \in {"edgeos", "ubios"}
  <2>1. CASE t = <<"remove", "restart">>
    <3>1. Head(t) = "remove" /\ Tail(t) = <<"restart">>
      BY <2>1
    <3>3. Ahead(<<"restart">>) = "restart"
      BY DEF Ahead
    <3>4. Ahead(Tail(t)) = "restart"
      BY <3>1, <3>3
    <3>5. Head(t) = "remove"
      BY <3>1
    <3>2. RestoreLeft(p, Tail(t))
      BY <1>2, <3>1 DEF RestoreLeft
    <3>6. RestoreNext(p, Head(t), Ahead(Tail(t)))
      BY <1>2, <3>4, <3>5 DEF RestoreNext, Resetting
    <3> QED
      BY <3>2, <3>6
  <2>2. CASE t = <<"restart">>
    <3>1. Head(t) = "restart" /\ Tail(t) = <<>>
      BY <2>2
    <3>4. Ahead(Tail(t)) = "end"
      BY <3>1 DEF Ahead
    <3>5. Head(t) = "restart"
      BY <3>1
    <3>2. RestoreLeft(p, Tail(t))
      BY <1>2, <3>1 DEF RestoreLeft
    <3>6. RestoreNext(p, Head(t), Ahead(Tail(t)))
      BY <1>2, <3>4, <3>5 DEF RestoreNext, Resetting
    <3> QED
      BY <3>2, <3>6
  <2> QED
    BY <1>2, <2>1, <2>2 DEF RestoreLeft
<1>3. CASE p = "merlin"
  <2>1. CASE t = <<"putback", "restart">>
    <3>1. Head(t) = "putback" /\ Tail(t) = <<"restart">>
      BY <2>1
    <3>3. Ahead(<<"restart">>) = "restart"
      BY DEF Ahead
    <3>4. Ahead(Tail(t)) = "restart"
      BY <3>1, <3>3
    <3>5. Head(t) = "putback"
      BY <3>1
    <3>2. RestoreLeft(p, Tail(t))
      BY <1>3, <3>1 DEF RestoreLeft
    <3>6. RestoreNext(p, Head(t), Ahead(Tail(t)))
      BY <1>3, <3>4, <3>5 DEF RestoreNext, Resetting
    <3> QED
      BY <3>2, <3>6
  <2>2. CASE t = <<"restart">>
    <3>1. Head(t) = "restart" /\ Tail(t) = <<>>
      BY <2>2
    <3>4. Ahead(Tail(t)) = "end"
      BY <3>1 DEF Ahead
    <3>5. Head(t) = "restart"
      BY <3>1
    <3>2. RestoreLeft(p, Tail(t))
      BY <1>3, <3>1 DEF RestoreLeft
    <3>6. RestoreNext(p, Head(t), Ahead(Tail(t)))
      BY <1>3, <3>4, <3>5 DEF RestoreNext, Resetting
    <3> QED
      BY <3>2, <3>6
  <2> QED
    BY <1>3, <2>1, <2>2 DEF RestoreLeft
<1>4. CASE p = "openwrt"
  <2>1. CASE t = <<"servers", "quiet", "undhcp", "restart">>
    <3>1. Head(t) = "servers" /\ Tail(t) = <<"quiet", "undhcp", "restart">>
      BY <2>1
    <3>3. Ahead(<<"quiet", "undhcp", "restart">>) = "quiet"
      BY DEF Ahead
    <3>4. Ahead(Tail(t)) = "quiet"
      BY <3>1, <3>3
    <3>5. Head(t) = "servers"
      BY <3>1
    <3>2. RestoreLeft(p, Tail(t))
      BY <1>4, <3>1 DEF RestoreLeft
    <3>6. RestoreNext(p, Head(t), Ahead(Tail(t)))
      BY <1>4, <3>4, <3>5 DEF RestoreNext, Resetting
    <3> QED
      BY <3>2, <3>6
  <2>2. CASE t = <<"quiet", "undhcp", "restart">>
    <3>1. Head(t) = "quiet" /\ Tail(t) = <<"undhcp", "restart">>
      BY <2>2
    <3>3. Ahead(<<"undhcp", "restart">>) = "undhcp"
      BY DEF Ahead
    <3>4. Ahead(Tail(t)) = "undhcp"
      BY <3>1, <3>3
    <3>5. Head(t) = "quiet"
      BY <3>1
    <3>2. RestoreLeft(p, Tail(t))
      BY <1>4, <3>1 DEF RestoreLeft
    <3>6. RestoreNext(p, Head(t), Ahead(Tail(t)))
      BY <1>4, <3>4, <3>5 DEF RestoreNext, Resetting
    <3> QED
      BY <3>2, <3>6
  <2>3. CASE t = <<"undhcp", "restart">>
    <3>1. Head(t) = "undhcp" /\ Tail(t) = <<"restart">>
      BY <2>3
    <3>3. Ahead(<<"restart">>) = "restart"
      BY DEF Ahead
    <3>4. Ahead(Tail(t)) = "restart"
      BY <3>1, <3>3
    <3>5. Head(t) = "undhcp"
      BY <3>1
    <3>2. RestoreLeft(p, Tail(t))
      BY <1>4, <3>1 DEF RestoreLeft
    <3>6. RestoreNext(p, Head(t), Ahead(Tail(t)))
      BY <1>4, <3>4, <3>5 DEF RestoreNext, Resetting
    <3> QED
      BY <3>2, <3>6
  <2>4. CASE t = <<"restart">>
    <3>1. Head(t) = "restart" /\ Tail(t) = <<>>
      BY <2>4
    <3>4. Ahead(Tail(t)) = "end"
      BY <3>1 DEF Ahead
    <3>5. Head(t) = "restart"
      BY <3>1
    <3>2. RestoreLeft(p, Tail(t))
      BY <1>4, <3>1 DEF RestoreLeft
    <3>6. RestoreNext(p, Head(t), Ahead(Tail(t)))
      BY <1>4, <3>4, <3>5 DEF RestoreNext, Resetting
    <3> QED
      BY <3>2, <3>6
  <2> QED
    BY <1>4, <2>1, <2>2, <2>3, <2>4 DEF RestoreLeft
<1>5. CASE p = "synology"
  <2>1. CASE t = <<"quiet", "restart">>
    <3>1. Head(t) = "quiet" /\ Tail(t) = <<"restart">>
      BY <2>1
    <3>3. Ahead(<<"restart">>) = "restart"
      BY DEF Ahead
    <3>4. Ahead(Tail(t)) = "restart"
      BY <3>1, <3>3
    <3>5. Head(t) = "quiet"
      BY <3>1
    <3>2. RestoreLeft(p, Tail(t))
      BY <1>5, <3>1 DEF RestoreLeft
    <3>6. RestoreNext(p, Head(t), Ahead(Tail(t)))
      BY <1>5, <3>4, <3>5 DEF RestoreNext, Resetting
    <3> QED
      BY <3>2, <3>6
  <2>2. CASE t = <<"restart">>
    <3>1. Head(t) = "restart" /\ Tail(t) = <<>>
      BY <2>2
    <3>4. Ahead(Tail(t)) = "end"
      BY <3>1 DEF Ahead
    <3>5. Head(t) = "restart"
      BY <3>1
    <3>2. RestoreLeft(p, Tail(t))
      BY <1>5, <3>1 DEF RestoreLeft
    <3>6. RestoreNext(p, Head(t), Ahead(Tail(t)))
      BY <1>5, <3>4, <3>5 DEF RestoreNext, Resetting
    <3> QED
      BY <3>2, <3>6
  <2> QED
    BY <1>5, <2>1, <2>2 DEF RestoreLeft
<1>6. p \notin {"generic", "nodhcp"}
  BY DEF RestoreLeft
<1> QED
  BY <1>1, <1>2, <1>3, <1>4, <1>5, <1>6 DEF Platforms

(* A step of a call: where it is, and what it cannot disturb.               *)
Stepped(s) ==
    /\ UNCHANGED <<rtr, cached, found, call, outcome, forgot, script, lost, life, machine, init>>
    /\ call \in RouterCalls /\ Ahead(todo) = s
    /\ call # "restore" => SetupNext(rtr, s, Ahead(todo'))
    /\ call = "restore" => RestoreNext(rtr, s, Ahead(todo'))
    /\ call # "restore" => (call = "configure" <=> Early)
    /\ Early' = Early

LEMMA Stepping ==
    ASSUME RInv, NEW s, Doing(s), UNCHANGED <<life, machine, init>>
    PROVE  Stepped(s) /\ InItsLife' /\ OnPlan' /\ Back'
<1>1. /\ UNCHANGED <<rtr, cached, found, call, outcome, forgot, script, lost>>
      /\ todo # <<>> /\ Head(todo) = s /\ todo' = Tail(todo)
  BY DEF Doing
<1>2. Early' = Early
  BY <1>1 DEF Early, Platform
<1>3. call \in RouterCalls /\ rtr \in Platforms /\ Ahead(todo) = s
  BY <1>1 DEF RInv, OnPlan, RouterTypeOK, Ahead
<1>4. call # "restore" => SetupLeft(rtr, todo) /\ (call = "configure" <=> Early)
  BY <1>1, <1>3 DEF RInv, OnPlan, RouterCalls
<1>5. call = "restore" => RestoreLeft(rtr, todo)
  BY DEF RInv, OnPlan
<1>6. call # "restore" => SetupLeft(rtr, todo') /\ SetupNext(rtr, s, Ahead(todo'))
  BY <1>1, <1>3, <1>4, SetupOnward
<1>7. call = "restore" => RestoreLeft(rtr, todo') /\ RestoreNext(rtr, s, Ahead(todo'))
  BY <1>1, <1>3, <1>5, RestoreOnward
<1>8. OnPlan'
  BY <1>1, <1>2, <1>3, <1>4, <1>6, <1>7 DEF OnPlan, RouterCalls
<1>9. InItsLife'
  BY <1>1 DEF RInv, InItsLife, Alive, Used, ReadsConfig
<1>10. Back'
  BY <1>1, <1>3 DEF Back, Restored, RouterCalls
<1> QED
  BY <1>1, <1>2, <1>3, <1>4, <1>6, <1>7, <1>8, <1>9, <1>10 DEF Stepped

(* The types of what a step assigns.                                        *)
Confs == [ours : {"none", "blank", "plain", "off", "forward"}, user : Scripts]

LEMMA SteppedType ==
    ASSUME RouterTypeOK, NEW s, Stepped(s), conf' \in Confs, opts' \in [Options -> Values],
           DOMAIN mem'.saved = Options, mem'.port0 \in BOOLEAN, mem'.post \in Scripts,
           masq' \in [takes53 : BOOLEAN, forwards : BOOLEAN]
    PROVE  RouterTypeOK'
BY DEF RouterTypeOK, Stepped, Confs, Values

LEMMA TypedSettings ==
    ASSUME RInv
    PROVE  /\ conf \in Confs /\ opts \in [Options -> Values]
           /\ DOMAIN mem.saved = Options /\ mem.port0 \in BOOLEAN /\ mem.post \in Scripts
           /\ masq \in [takes53 : BOOLEAN, forwards : BOOLEAN]
           /\ Template \in {"plain", "off", "forward"}
BY DEF RInv, RouterTypeOK, Confs, Values, Template

LEMMA Together == ASSUME RouterTypeOK, InItsLife, OnPlan, Saved, PutBackSo, Leaves53, Back PROVE RInv
BY DEF RInv

LEMMA OnTruncate == ASSUME RInv, Truncate, UNCHANGED <<life, machine, init>> PROVE RInv'
<1>1. Stepped("truncate") /\ InItsLife' /\ OnPlan' /\ Back'
  BY Stepping DEF Truncate
<1>2. conf' = [ours |-> "blank", user |-> "none"] /\ UNCHANGED <<opts, mem, masq>>
  BY DEF Truncate
<1>3. RouterTypeOK'
  <2>1. conf' \in Confs
    BY <1>2 DEF Confs, Scripts
  <2> QED
    BY <1>1, <1>2, <2>1, SteppedType, TypedSettings DEF RInv
<1>4. call # "restore" /\ rtr \notin {"ddwrt", "generic", "nodhcp"} /\ Ahead(todo') = "fill"
  BY <1>1 DEF Stepped, RestoreNext, SetupNext, Setting, Resetting
<1>5. Saved'
  BY <1>1, <1>2, <1>4 DEF RInv, Saved, Stepped, Own
<1>6. PutBackSo'
  BY <1>1, <1>2, <1>4 DEF RInv, PutBackSo, Stepped, Own, Forgets
<1>7. Leaves53'
  BY <1>1, <1>2, <1>4 DEF RInv, Leaves53, Stepped
<1> QED
  BY <1>1, <1>3, <1>5, <1>6, <1>7 DEF RInv

LEMMA OnFill == ASSUME RInv, Fill, UNCHANGED <<life, machine, init>> PROVE RInv'
<1>1. Stepped("fill") /\ InItsLife' /\ OnPlan' /\ Back'
  BY Stepping DEF Fill
<1>2. conf' = [ours |-> Template, user |-> mem.post] /\ UNCHANGED <<opts, mem, masq>>
  BY DEF Fill
<1>3. RouterTypeOK'
  <2>1. conf' \in Confs
    BY <1>2, TypedSettings DEF Confs
  <2> QED
    BY <1>1, <1>2, <2>1, SteppedType, TypedSettings DEF RInv
<1>4. call # "restore" /\ rtr \notin {"ddwrt", "generic", "nodhcp"} /\ Ahead(todo') \in {"dhcp", "info", "restart"}
  BY <1>1 DEF Stepped, RestoreNext, SetupNext, Setting, Resetting
<1>8. Early /\ (rtr # "openwrt" \/ mem.port0) => conf'.ours = "off"
  BY <1>2 DEF Early, Template
<1>5. Saved'
  BY <1>1, <1>2, <1>4 DEF RInv, Saved, Stepped, Own
<1>6. PutBackSo'
  BY <1>1, <1>2, <1>4 DEF RInv, PutBackSo, Stepped, Own, Forgets
<1>7. Leaves53'
  BY <1>1, <1>2, <1>4, <1>8 DEF RInv, Leaves53, Stepped
<1> QED
  BY <1>1, <1>3, <1>5, <1>6, <1>7 DEF RInv

LEMMA OnPutBack == ASSUME RInv, PutBack, UNCHANGED <<life, machine, init>> PROVE RInv'
<1>1. Stepped("putback") /\ InItsLife' /\ OnPlan' /\ Back'
  BY Stepping DEF PutBack
<1>2. conf' = [ours |-> "none", user |-> mem.post] /\ UNCHANGED <<opts, mem, masq>>
  BY DEF PutBack
<1>3. RouterTypeOK'
  <2>1. conf' \in Confs
    BY <1>2, TypedSettings DEF Confs
  <2> QED
    BY <1>1, <1>2, <2>1, SteppedType, TypedSettings DEF RInv
<1>4. call = "restore" /\ rtr = "merlin" /\ Ahead(todo') = "restart"
  BY <1>1 DEF Stepped, RestoreNext, SetupNext, Setting, Resetting
<1>5. Saved'
  BY <1>1, <1>2, <1>4 DEF RInv, Saved, Stepped, Own
<1>6. PutBackSo'
  BY <1>1, <1>2, <1>4 DEF RInv, PutBackSo, Stepped, Own, Forgets
<1>7. Leaves53'
  BY <1>1, <1>2, <1>4 DEF RInv, Leaves53, Stepped
<1> QED
  BY <1>1, <1>3, <1>5, <1>6, <1>7 DEF RInv

LEMMA OnInfo == ASSUME RInv, Info, UNCHANGED <<life, machine, init>> PROVE RInv'
<1>1. Stepped("info") /\ InItsLife' /\ OnPlan' /\ Back'
  BY Stepping DEF Info
<1>2. UNCHANGED <<conf, opts, mem, masq>>
  BY DEF Info
<1>3. RouterTypeOK'
  BY <1>1, <1>2, SteppedType, TypedSettings DEF RInv
<1>4. call # "restore" /\ rtr = "synology" /\ Ahead(todo') = "restart"
  BY <1>1 DEF Stepped, RestoreNext, SetupNext, Setting, Resetting
<1>5. Saved'
  BY <1>1, <1>2, <1>4 DEF RInv, Saved, Stepped, Own
<1>6. PutBackSo'
  BY <1>1, <1>2, <1>4 DEF RInv, PutBackSo, Stepped, Own, Forgets
<1>7. Leaves53'
  BY <1>1, <1>2, <1>4 DEF RInv, Leaves53, Stepped
<1> QED
  BY <1>1, <1>3, <1>5, <1>6, <1>7 DEF RInv

LEMMA OnEnsureDHCPOption == ASSUME RInv, EnsureDHCPOption, UNCHANGED <<life, machine, init>> PROVE RInv'
<1>1. Stepped("dhcp") /\ InItsLife' /\ OnPlan' /\ Back'
  BY Stepping DEF EnsureDHCPOption
<1>2. opts' = [opts EXCEPT !["dhcp"] = IF @ = "unset" THEN "ours" ELSE @] /\ UNCHANGED <<conf, mem, masq>>
  BY DEF EnsureDHCPOption
<1>3. RouterTypeOK'
  <2>1. opts' \in [Options -> Values]
    BY <1>2, TypedSettings DEF Values
  <2> QED
    BY <1>1, <1>2, <2>1, SteppedType, TypedSettings DEF RInv
<1>4. call # "restore" /\ rtr = "openwrt" /\ Ahead(todo') = "restart"
  BY <1>1 DEF Stepped, RestoreNext, SetupNext, Setting, Resetting
<1>8. \A o \in Options \ {"dhcp"} : opts'[o] = opts[o]
  BY <1>2, TypedSettings
<1>9. opts'["port"] = opts["port"]
  BY <1>8 DEF Options
<1>5. Saved'
  BY <1>1, <1>2, <1>4, <1>8 DEF RInv, Saved, Stepped, Own
<1>6. PutBackSo'
  BY <1>1, <1>2, <1>4, <1>8, <1>9 DEF RInv, PutBackSo, Stepped, Own, Forgets
<1>7. Leaves53'
  BY <1>1, <1>2, <1>4, <1>9 DEF RInv, Leaves53, Stepped
<1> QED
  BY <1>1, <1>3, <1>5, <1>6, <1>7 DEF RInv

LEMMA OnRemoveDHCPOption == ASSUME RInv, RemoveDHCPOption, UNCHANGED <<life, machine, init>> PROVE RInv'
<1>1. Stepped("undhcp") /\ InItsLife' /\ OnPlan' /\ Back'
  BY Stepping DEF RemoveDHCPOption
<1>2. opts' = [opts EXCEPT !["dhcp"] = "unset"] /\ UNCHANGED <<conf, mem, masq>>
  BY DEF RemoveDHCPOption
<1>3. RouterTypeOK'
  <2>1. opts' \in [Options -> Values]
    BY <1>2, TypedSettings DEF Values
  <2> QED
    BY <1>1, <1>2, <2>1, SteppedType, TypedSettings DEF RInv
<1>4. call = "restore" /\ rtr = "openwrt" /\ Ahead(todo) = "undhcp" /\ Ahead(todo') = "restart"
  BY <1>1 DEF Stepped, RestoreNext, SetupNext, Setting, Resetting
<1>8. \A o \in Options \ {"dhcp"} : opts'[o] = opts[o]
  BY <1>2, TypedSettings
<1>9. opts'["port"] = opts["port"]
  BY <1>8 DEF Options
<1>5. Saved'
  BY <1>1, <1>2, <1>4, <1>8 DEF RInv, Saved, Stepped, Own
<1>6. PutBackSo'
  BY <1>1, <1>2, <1>4, <1>8, <1>9 DEF RInv, PutBackSo, Stepped, Own, Forgets
<1>7. Leaves53'
  BY <1>1, <1>2, <1>4, <1>9 DEF RInv, Leaves53, Stepped
<1> QED
  BY <1>1, <1>3, <1>5, <1>6, <1>7 DEF RInv

LEMMA OnRemoveConf == ASSUME RInv, RemoveConf, UNCHANGED <<life, machine, init>> PROVE RInv'
<1>0. PICK s \in {"quiet", "remove"} : Doing(s)
  <2>1. Head(todo) \in {"quiet", "remove"} /\ Doing(Head(todo))
    BY DEF RemoveConf
  <2> QED
    BY <2>1
<1>1. Stepped(s) /\ InItsLife' /\ OnPlan' /\ Back'
  BY <1>0, Stepping
<1>2. conf' = [ours |-> "none", user |-> "none"] /\ UNCHANGED <<opts, mem, masq>>
  BY DEF RemoveConf, NoFile
<1>3. RouterTypeOK'
  <2>1. conf' \in Confs
    BY <1>2 DEF Confs, Scripts
  <2> QED
    BY <1>1, <1>2, <2>1, SteppedType, TypedSettings DEF RInv
<1>4. call = "restore" /\ rtr \notin {"ddwrt", "generic", "nodhcp"} /\ Ahead(todo') \in {"undhcp", "restart"}
      /\ Ahead(todo) \in {"quiet", "remove"}
  BY <1>1 DEF Stepped, RestoreNext, SetupNext, Setting, Resetting
<1>5. Saved'
  BY <1>1, <1>2, <1>4 DEF RInv, Saved, Stepped, Own
<1>6. PutBackSo'
  BY <1>1, <1>2, <1>4 DEF RInv, PutBackSo, Stepped, Own, Forgets
<1>7. Leaves53'
  BY <1>1, <1>2, <1>4 DEF RInv, Leaves53, Stepped
<1> QED
  BY <1>1, <1>3, <1>5, <1>6, <1>7 DEF RInv

LEMMA OnSave == ASSUME RInv, Save, UNCHANGED <<life, machine, init>> PROVE RInv'
<1>1. Stepped("save") /\ InItsLife' /\ OnPlan' /\ Back'
  BY Stepping DEF Save
<1>2. /\ mem' = [mem EXCEPT !.saved = [o \in Options |-> IF o \in NVRAM THEN opts[o] ELSE @[o]]]
      /\ UNCHANGED <<conf, opts, masq>>
  BY DEF Save
<1>3. RouterTypeOK'
  <2>1. DOMAIN mem'.saved = Options /\ mem'.port0 \in BOOLEAN /\ mem'.post \in Scripts
    BY <1>2, TypedSettings DEF RInv, RouterTypeOK
  <2> QED
    BY <1>1, <1>2, <2>1, SteppedType, TypedSettings DEF RInv
<1>4. call # "restore" /\ rtr = "ddwrt" /\ Ahead(todo) = "save" /\ Ahead(todo') = "set"
  BY <1>1 DEF Stepped, RestoreNext, SetupNext, Setting, Resetting
<1>12. \A o \in Options : mem.saved[o] \in Values /\ opts[o] \in Values
  BY TypedSettings DEF RInv, Saved
<1>8. PICK f : f = mem'.saved
  OBVIOUS
<1>13. f = [o \in Options |-> IF o \in NVRAM THEN opts[o] ELSE mem.saved[o]]
  BY <1>2, <1>8, TypedSettings DEF RInv, RouterTypeOK
<1>15. UNCHANGED opts
  BY <1>2
<1>14. \A o \in Options : f[o] \in Values /\ (o \in NVRAM => f[o] = opts[o])
  BY <1>12, <1>13
<1>9. \A o \in Options : Own(o) => o \in NVRAM
  BY <1>4 DEF RInv, Saved, Own
<1>10. \A o \in Options : mem.saved[o] = "unset"
  BY <1>1, <1>4 DEF RInv, Saved, Stepped, RouterCalls, Nothing
<1>11. \A o \in Options : Own(o) /\ ~forgot => opts[o] = found[o] /\ f[o] = found[o]
  BY <1>14, <1>9, <1>10 DEF RInv, Saved
<1>5. Saved'
  BY <1>1, <1>4, <1>8, <1>11, <1>14, <1>15 DEF RInv, Saved, Stepped, Own, RouterCalls
<1>6. PutBackSo'
  BY <1>1, <1>2, <1>4 DEF RInv, PutBackSo, Stepped, Own, Forgets
<1>7. Leaves53'
  BY <1>1, <1>2, <1>4 DEF RInv, Leaves53, Stepped
<1> QED
  BY <1>1, <1>3, <1>5, <1>6, <1>7 DEF RInv

LEMMA OurValues == ASSUME RInv, NEW o PROVE OurValue(o) \in Values
BY TypedSettings DEF OurValue, Values

LEMMA OnSetNVRAM == ASSUME RInv, SetNVRAM, UNCHANGED <<life, machine, init>> PROVE RInv'
<1>1. Stepped("set") /\ InItsLife' /\ OnPlan' /\ Back'
  BY Stepping DEF SetNVRAM
<1>2. /\ opts' = [o \in Options |-> IF o \in NVRAM THEN OurValue(o) ELSE opts[o]]
      /\ UNCHANGED <<conf, mem, masq>>
  BY DEF SetNVRAM
<1>3. RouterTypeOK'
  <2>1. opts' \in [Options -> Values]
    BY <1>2, TypedSettings, OurValues
  <2> QED
    BY <1>1, <1>2, <2>1, SteppedType, TypedSettings DEF RInv
<1>4. call # "restore" /\ rtr = "ddwrt" /\ Ahead(todo) = "set" /\ Ahead(todo') = "restart"
  BY <1>1 DEF Stepped, RestoreNext, SetupNext, Setting, Resetting
<1>8. opts'["port"] = opts["port"] /\ (Early => opts'["options"] = "off")
  BY <1>2, <1>4 DEF Options, NVRAM, OurValue, Template, Early
<1>9. \A o \in Options : Own(o) /\ ~forgot => mem.saved[o] = found[o] /\ found[o] # "unset"
  BY <1>4 DEF RInv, Saved, Own
<1>5. Saved'
  BY <1>1, <1>2, <1>4, <1>9 DEF RInv, Saved, Stepped, Own
<1>6. PutBackSo'
  BY <1>1, <1>2, <1>4 DEF RInv, PutBackSo, Stepped, Own, Forgets
<1>7. Leaves53'
  BY <1>1, <1>2, <1>4, <1>8 DEF RInv, Leaves53, Stepped
<1> QED
  BY <1>1, <1>3, <1>5, <1>6, <1>7 DEF RInv

LEMMA OnResetNVRAM == ASSUME RInv, ResetNVRAM, UNCHANGED <<life, machine, init>> PROVE RInv'
<1>1. Stepped("reset") /\ InItsLife' /\ OnPlan' /\ Back'
  BY Stepping DEF ResetNVRAM
<1>2. /\ opts' = [o \in Options |-> IF o \in NVRAM /\ mem.saved[o] # "unset" THEN mem.saved[o] ELSE opts[o]]
      /\ UNCHANGED <<conf, mem, masq>>
  BY DEF ResetNVRAM
<1>4. call = "restore" /\ rtr = "ddwrt" /\ Ahead(todo') = "restart"
  BY <1>1 DEF Stepped, RestoreNext, SetupNext, Setting, Resetting
<1>8. opts'["port"] = opts["port"]
  BY <1>2 DEF Options, NVRAM
<1>9. \A o \in Options : Own(o) /\ ~forgot => opts'[o] = found[o]
  BY <1>2, <1>4 DEF RInv, Saved, Own
<1>3. RouterTypeOK'
  <2>1. opts' \in [Options -> Values]
    BY <1>2, TypedSettings DEF RInv, Saved
  <2> QED
    BY <1>1, <1>2, <2>1, SteppedType, TypedSettings DEF RInv
<1>5. Saved'
  BY <1>1, <1>2, <1>4 DEF RInv, Saved, Stepped, Own
<1>6. PutBackSo'
  BY <1>1, <1>2, <1>4, <1>8, <1>9 DEF RInv, PutBackSo, Stepped, Own, Forgets
<1>7. Leaves53'
  BY <1>1, <1>2, <1>4, <1>8 DEF RInv, Leaves53, Stepped
<1> QED
  BY <1>1, <1>3, <1>5, <1>6, <1>7 DEF RInv

LEMMA OnUCI == ASSUME RInv, UCI, UNCHANGED <<life, machine, init>> PROVE RInv'
<1>1. Stepped("uci") /\ InItsLife' /\ OnPlan' /\ Back'
  BY Stepping DEF UCI
<1>4. call # "restore" /\ rtr = "openwrt" /\ Ahead(todo) = "uci" /\ Ahead(todo') = "truncate"
  BY <1>1 DEF Stepped, RestoreNext, SetupNext, Setting, Resetting
<1>10. mem.saved = Nothing
  BY <1>1, <1>4 DEF RInv, Saved, Stepped, RouterCalls
<1>2. CASE cached
  <2>1. /\ mem' = [mem EXCEPT !.port0 = @ \/ opts["port"] = "unset"]
        /\ opts' = [opts EXCEPT !["port"] = IF @ = "53" THEN "unset" ELSE @]
        /\ UNCHANGED <<conf, masq>>
    BY <1>2 DEF UCI
  <2>2. mem'.saved = mem.saved /\ mem'.port0 \in BOOLEAN /\ mem'.post \in Scripts
    BY <2>1, TypedSettings DEF RInv, RouterTypeOK
  <2>3. opts' \in [Options -> Values]
    BY <2>1, TypedSettings DEF Values
  <2>4. \A o \in Options : opts[o] # "53" => opts'[o] = opts[o]
    BY <2>1, TypedSettings
  <2>10. (mem.port0 => mem'.port0) /\ (opts["port"] = "unset" => mem'.port0)
    <3>1. PICK n \in BOOLEAN : n = (mem.port0 \/ opts["port"] = "unset")
      OBVIOUS
    <3>2. mem' = [mem EXCEPT !.port0 = n]
      BY <2>1, <3>1, Zenon
    <3>3. mem'.port0 = n
      BY <3>2, TypedSettings DEF RInv, RouterTypeOK
    <3> QED
      BY <3>1, <3>3
  <2>11. "port" \in Options /\ (found["port"] # "53" => opts["port"] = found["port"])
    BY DEF RInv, Leaves53, Options
  <2>5. found["port"] # "53" => opts'["port"] = opts["port"] /\ (opts["port"] = "unset" => mem'.port0)
    BY <2>4, <2>10, <2>11
  <2>6. RouterTypeOK'
    BY <1>1, <2>1, <2>2, <2>3, SteppedType, TypedSettings DEF RInv
  <2>7. Saved'
    BY <1>1, <1>4, <2>2, <2>4 DEF RInv, Saved, Stepped, Own
  <2>8. PutBackSo'
    BY <1>1, <1>4 DEF PutBackSo, Stepped, Forgets
  <2>9. Leaves53'
    BY <1>1, <1>4, <2>1, <2>5 DEF RInv, RouterTypeOK, Leaves53, Stepped, Options
  <2> QED
    BY <1>1, <2>6, <2>7, <2>8, <2>9 DEF RInv
<1>3. CASE ~cached
  <2>1. /\ mem' = [mem EXCEPT !.saved["server"] = opts["server"]]
        /\ opts' = [opts EXCEPT !["server"] = "unset"]
        /\ UNCHANGED <<conf, masq>>
    BY <1>3 DEF UCI
  <2>2. mem'.saved = [mem.saved EXCEPT !["server"] = opts["server"]] /\ mem'.port0 \in BOOLEAN /\ mem'.post \in Scripts
    BY <2>1, TypedSettings DEF RInv, RouterTypeOK
  <2>3. opts' \in [Options -> Values]
    BY <2>1, TypedSettings DEF Values
  <2>4. \A o \in Options \ {"server"} : opts'[o] = opts[o] /\ mem'.saved[o] = mem.saved[o]
    BY <2>1, <2>2, TypedSettings
  <2>5. opts'["port"] = opts["port"] /\ mem'.saved["server"] = opts["server"]
    BY <2>2, <2>4, TypedSettings DEF Options
  <2>6. RouterTypeOK'
    <3>1. DOMAIN mem'.saved = Options
      BY <2>2, TypedSettings
    <3> QED
      BY <1>1, <2>1, <2>2, <3>1, <2>3, SteppedType, TypedSettings DEF RInv
  <2>10. ~Early /\ call = "setup"
    BY <1>1, <1>3, <1>4 DEF Early, Stepped, RouterCalls
  <2>11. \A o \in Options : mem.saved[o] = "unset"
    BY <1>10 DEF Nothing
  <2>7. Saved'
    <3>1. opts["server"] \in Values
      BY TypedSettings DEF Options
    <3> QED
      BY <1>1, <1>4, <2>4, <2>5, <2>10, <2>11, <3>1 DEF RInv, Saved, Stepped, Own
  <2>8. PutBackSo'
    BY <1>1, <1>4 DEF PutBackSo, Stepped, Forgets
  <2>9. Leaves53'
    BY <1>1, <1>4, <2>5, <2>10 DEF RInv, Leaves53, Stepped
  <2> QED
    BY <1>1, <2>6, <2>7, <2>8, <2>9 DEF RInv
<1> QED
  BY <1>2, <1>3

LEMMA OnRestoreServers == ASSUME RInv, RestoreServers, UNCHANGED <<life, machine, init>> PROVE RInv'
<1>1. Stepped("servers") /\ InItsLife' /\ OnPlan' /\ Back'
  BY Stepping DEF RestoreServers
<1>2. /\ opts' = [opts EXCEPT !["server"] = IF mem.saved["server"] # "unset" THEN mem.saved["server"] ELSE @]
      /\ UNCHANGED <<conf, mem, masq>>
  BY DEF RestoreServers
<1>4. call = "restore" /\ rtr = "openwrt" /\ Ahead(todo') = "quiet"
  BY <1>1 DEF Stepped, RestoreNext, SetupNext, Setting, Resetting
<1>8. /\ \A o \in Options \ {"server"} : opts'[o] = opts[o]
      /\ opts'["server"] = IF mem.saved["server"] # "unset" THEN mem.saved["server"] ELSE opts["server"]
      /\ opts'["port"] = opts["port"]
  BY <1>2, TypedSettings DEF Options
<1>9. \A o \in Options : Own(o) /\ ~forgot => opts'[o] = found[o]
  BY <1>4, <1>8 DEF RInv, Saved, Own
<1>3. RouterTypeOK'
  <2>1. opts' \in [Options -> Values]
    BY <1>2, TypedSettings DEF RInv, Saved, Options
  <2> QED
    BY <1>1, <1>2, <2>1, SteppedType, TypedSettings DEF RInv
<1>5. Saved'
  BY <1>1, <1>2, <1>4, <1>9 DEF RInv, Saved, Stepped, Own
<1>6. PutBackSo'
  BY <1>1, <1>2, <1>4, <1>8, <1>9 DEF RInv, PutBackSo, Stepped, Own, Forgets
<1>7. Leaves53'
  BY <1>1, <1>2, <1>4, <1>8 DEF RInv, Leaves53, Stepped
<1> QED
  BY <1>1, <1>3, <1>5, <1>6, <1>7 DEF RInv

LEMMA OnRestartDNSMasq == ASSUME RInv, RestartDNSMasq, UNCHANGED <<life, machine, init>> PROVE RInv'
<1>1. Stepped("restart") /\ InItsLife' /\ OnPlan' /\ Back'
  BY Stepping DEF RestartDNSMasq
<1>2. masq' = Load(conf, TRUE) /\ UNCHANGED <<conf, opts, mem>>
  BY DEF RestartDNSMasq
<1>4. Ahead(todo) = "restart" /\ Ahead(todo') = "end" /\ rtr \notin {"generic", "nodhcp"} /\ call \in RouterCalls
  BY <1>1 DEF Stepped, RestoreNext, SetupNext
<1>8. /\ masq'.takes53 <=> ~((IF rtr = "ddwrt" THEN opts["options"] ELSE conf.ours) = "off" \/ opts["port"] = "other")
      /\ (IF rtr = "ddwrt" THEN opts["options"] ELSE conf.ours) # "forward" => ~masq'.forwards
  BY <1>2 DEF Load
<1>10. call = "restore" /\ rtr = "ddwrt" /\ ~Forgets => opts["options"] = "user"
  <2>1. rtr = "ddwrt" /\ ~Forgets => Own("options") /\ "options" \in Options /\ found["options"] = "user" /\ ~forgot
    BY DEF RInv, Saved, Own, Forgets, Options
  <2> QED
    BY <1>4, <2>1 DEF RInv, PutBackSo
<1>9. Early => rtr \in {"ddwrt", "edgeos", "openwrt", "synology"}
  BY DEF RInv, RouterTypeOK, Platforms, Early, Platform, Merlin, UbiOS, Generic
<1>3. RouterTypeOK'
  <2>1. masq' \in [takes53 : BOOLEAN, forwards : BOOLEAN]
    BY <1>2 DEF Load
  <2> QED
    BY <1>1, <1>2, <2>1, SteppedType, TypedSettings DEF RInv
<1>5. Saved'
  BY <1>1, <1>2, <1>4 DEF RInv, Saved, Stepped, Own
<1>6. PutBackSo'
  BY <1>1, <1>2, <1>4, <1>8, <1>10 DEF RInv, PutBackSo, Stepped, Own, Forgets
<1>7. Leaves53'
  BY <1>1, <1>2, <1>4, <1>8, <1>9 DEF RInv, Leaves53, Stepped, RouterCalls
<1> QED
  BY <1>1, <1>3, <1>5, <1>6, <1>7 DEF RInv

(* A call returns.  How it ended is what the daemon remembers of it.        *)
LEMMA Returned ==
    ASSUME RInv, NEW r \in {"ok", "error"}, r = "ok" => todo = <<>>,
           call # "none", call' = "none", todo' = <<>>, outcome' = [outcome EXCEPT ![call] = r],
           UNCHANGED <<rtr, cached, found, mem, masq, forgot, script, lost, life, machine, init>>,
           conf' \in Confs, conf' = conf \/ (r = "error" /\ rtr = "merlin"),
           opts' \in [Options -> Values], opts'["port"] = opts["port"],
           \A o \in Options : Own(o) /\ ~forgot => opts'[o] = opts[o] \/ (r = "error" /\ mem.saved[o] = found[o])
    PROVE  RInv'
<1>1. /\ call \in RouterCalls /\ outcome \in [RouterCalls -> {"none", "ok", "error"}]
      /\ outcome' \in [RouterCalls -> {"none", "ok", "error"}]
      /\ outcome'[call] = r /\ \A c \in RouterCalls \ {call} : outcome'[c] = outcome[c]
  BY DEF RInv, RouterTypeOK
<1>2. RouterTypeOK'
  BY <1>1 DEF RInv, RouterTypeOK, Values, Confs
<1>3. /\ life \notin {"dead", "activate", "up", "deactivate"} /\ Used
      /\ call # "configure" => outcome["configure"] # "none"
      /\ call = "configure" => life = "configure"
      /\ call = "setup" => life = "setup"
      /\ call = "restore" => life = "restore"
  BY <1>1 DEF RInv, InItsLife, Alive, RouterCalls
<1>4. InItsLife'
  BY <1>1, <1>3 DEF RInv, InItsLife, Alive, Used, ReadsConfig, RouterCalls
<1>5. OnPlan'
  BY DEF OnPlan
<1>6. Ahead(todo') = "end" /\ (r = "ok" => Ahead(todo) = "end") /\ Early' = Early
  BY DEF Ahead, Early, Platform
<1>7. Saved'
  BY <1>1, <1>3, <1>6 DEF RInv, Saved, Own, RouterCalls
<1>8. PutBackSo'
  BY DEF RInv, PutBackSo
<1>9. Leaves53'
  BY <1>1, <1>3, <1>6 DEF RInv, Leaves53, InItsLife, RouterCalls
<1>10. Back'
  <2>1. SUFFICES ASSUME Restored' PROVE Back'
    BY DEF Back
  <2>2. call = "restore" /\ r = "ok"
    BY <1>1, <1>3, <2>1 DEF RInv, InItsLife, Restored, RouterCalls
  <2> QED
    BY <1>6, <2>2 DEF RInv, PutBackSo, Back, Own, Forgets
<1> QED
  BY <1>2, <1>4, <1>5, <1>7, <1>8, <1>9, <1>10 DEF RInv

LEMMA ReturnedWith ==
    ASSUME RInv, NEW r \in {"ok", "error"}, r = "ok" => todo = <<>>, RouterReturn(r),
           UNCHANGED <<life, machine, init>>
    PROVE  RInv'
<1>1. opts' \in [Options -> Values] /\ conf' \in Confs
  BY TypedSettings DEF RouterReturn
<1> QED
  BY <1>1, Returned DEF RouterReturn

LEMMA OnPartlySet == ASSUME RInv, PartlySet, UNCHANGED <<life, machine, init>> PROVE RInv'
<1>1. PICK S \in SUBSET NVRAM : opts' = [o \in Options |-> IF o \in S THEN OurValue(o) ELSE opts[o]]
  BY DEF PartlySet
<1>2. /\ todo # <<>> /\ Ahead(todo) = "set" /\ call' = "none" /\ todo' = <<>>
      /\ outcome' = [outcome EXCEPT ![call] = "error"]
      /\ UNCHANGED <<rtr, cached, conf, found, mem, masq, forgot, script, lost>>
  BY DEF PartlySet, Ahead
<1>3. opts' \in [Options -> Values] /\ conf' \in Confs
  BY <1>1, <1>2, TypedSettings, OurValues
<1>4. opts'["port"] = opts["port"]
  BY <1>1 DEF Options, NVRAM
<1>5. \A o \in Options : Own(o) /\ ~forgot => mem.saved[o] = found[o]
  BY <1>2 DEF RInv, Saved
<1>6. call # "none"
  BY <1>2 DEF RInv, OnPlan
<1> QED
  BY <1>2, <1>3, <1>4, <1>5, <1>6, Returned

LEMMA CutTypes == ASSUME RInv, NEW f \in Cut PROVE f \in Confs /\ rtr = "merlin" /\ todo # <<>>
<1>1. rtr = "merlin" /\ todo # <<>>
  BY DEF Cut
<1>2. \/ f = [ours |-> "blank", user |-> "torn"] \/ f = [ours |-> Template, user |-> "none"] \/ f = NoFile
  BY DEF Cut
<1> QED
  BY <1>1, <1>2, TypedSettings DEF Confs, NoFile, Scripts

LEMMA OnPartlyWritten == ASSUME RInv, PartlyWritten, UNCHANGED <<life, machine, init>> PROVE RInv'
<1>1. /\ conf' \in Cut /\ call' = "none" /\ todo' = <<>>
      /\ outcome' = [outcome EXCEPT ![call] = "error"]
      /\ UNCHANGED <<rtr, cached, opts, found, mem, masq, forgot, script, lost>>
  BY DEF PartlyWritten
<1>2. conf' \in Confs /\ rtr = "merlin" /\ todo # <<>>
  BY <1>1, CutTypes
<1>3. opts' \in [Options -> Values] /\ call # "none"
  BY <1>1, <1>2, TypedSettings DEF RInv, OnPlan
<1> QED
  BY <1>1, <1>2, <1>3, Returned

LEMMA RouterKeeps ==
    ASSUME RInv, RouterStep \/ NothingToRemove \/ RouterFails \/ PartlySet \/ PartlyWritten, UNCHANGED <<life, machine, init>>
    PROVE  RInv'
<1>1. RouterDone => RInv'
  BY ReturnedWith DEF RouterDone
<1>2. NothingToRemove \/ RouterFails => RInv'
  BY ReturnedWith DEF NothingToRemove, RouterFails
<1> QED
  BY <1>1, <1>2, OnTruncate, OnFill, OnRemoveConf, OnPutBack, OnInfo, OnSave, OnSetNVRAM, OnResetNVRAM, OnUCI,
     OnEnsureDHCPOption, OnRestoreServers, OnRemoveDHCPOption, OnRestartDNSMasq, OnPartlySet, OnPartlyWritten DEF RouterStep

(* The plans, as their calls begin.                                         *)
LEMMA SetupBegins ==
    ASSUME RInv, NEW t, t = Platform.setup
    PROVE  /\ SetupLeft(rtr, t)
           /\ rtr = "ddwrt" => Ahead(t) = "save"
           /\ rtr \in {"edgeos", "merlin", "ubios", "synology"} => Ahead(t) = "truncate"
           /\ rtr = "openwrt" => Ahead(t) = "uci"
           /\ rtr \in {"generic", "nodhcp"} => Ahead(t) = "end"
<1>1. CASE rtr = "ddwrt"
  <2>1. t = <<"save", "set", "restart">>
    BY <1>1 DEF Platform, DDWRT
  <2> QED
    BY <1>1, <2>1 DEF SetupLeft, Ahead
<1>2. CASE rtr \in {"edgeos", "merlin", "ubios"}
  <2>1. t = <<"truncate", "fill", "restart">>
    BY <1>2 DEF Platform, EdgeOS, Merlin, UbiOS
  <2> QED
    BY <1>2, <2>1 DEF SetupLeft, Ahead
<1>3. CASE rtr = "openwrt"
  <2>1. t = <<"uci", "truncate", "fill", "dhcp", "restart">>
    BY <1>3 DEF Platform, OpenWrt
  <2> QED
    BY <1>3, <2>1 DEF SetupLeft, Ahead
<1>4. CASE rtr = "synology"
  <2>1. t = <<"truncate", "fill", "info", "restart">>
    BY <1>4 DEF Platform, Synology
  <2> QED
    BY <1>4, <2>1 DEF SetupLeft, Ahead
<1>5. CASE rtr \in {"generic", "nodhcp"}
  <2>1. t = <<>>
    BY <1>5 DEF Platform, Generic
  <2> QED
    BY <1>5, <2>1 DEF SetupLeft, Ahead
<1> QED
  BY <1>1, <1>2, <1>3, <1>4, <1>5 DEF RInv, RouterTypeOK, Platforms

LEMMA RestoreBegins ==
    ASSUME RInv, NEW t, t = Platform.restore
    PROVE  /\ RestoreLeft(rtr, t)
           /\ rtr = "ddwrt" => Ahead(t) = "reset"
           /\ rtr \in {"edgeos", "ubios"} => Ahead(t) = "remove"
           /\ rtr = "merlin" => Ahead(t) = "putback"
           /\ rtr = "openwrt" => Ahead(t) = "servers"
           /\ rtr = "synology" => Ahead(t) = "quiet"
           /\ rtr \in {"generic", "nodhcp"} => Ahead(t) = "end"
<1>1. CASE rtr = "ddwrt"
  <2>1. t = <<"reset", "restart">>
    BY <1>1 DEF Platform, DDWRT
  <2> QED
    BY <1>1, <2>1 DEF RestoreLeft, Ahead
<1>2. CASE rtr \in {"edgeos", "ubios"}
  <2>1. t = <<"remove", "restart">>
    BY <1>2 DEF Platform, EdgeOS, UbiOS
  <2> QED
    BY <1>2, <2>1 DEF RestoreLeft, Ahead
<1>3. CASE rtr = "merlin"
  <2>1. t = <<"putback", "restart">>
    BY <1>3 DEF Platform, Merlin
  <2> QED
    BY <1>3, <2>1 DEF RestoreLeft, Ahead
<1>4. CASE rtr = "openwrt"
  <2>1. t = <<"servers", "quiet", "undhcp", "restart">>
    BY <1>4 DEF Platform, OpenWrt
  <2> QED
    BY <1>4, <2>1 DEF RestoreLeft, Ahead
<1>5. CASE rtr = "synology"
  <2>1. t = <<"quiet", "restart">>
    BY <1>5 DEF Platform, Synology
  <2> QED
    BY <1>5, <2>1 DEF RestoreLeft, Ahead
<1>6. CASE rtr \in {"generic", "nodhcp"}
  <2>1. t = <<>>
    BY <1>6 DEF Platform, Generic
  <2> QED
    BY <1>6, <2>1 DEF RestoreLeft, Ahead
<1> QED
  BY <1>1, <1>2, <1>3, <1>4, <1>5, <1>6 DEF RInv, RouterTypeOK, Platforms

(* The daemon goes from one state of its life to another, and its router is *)
(* left alone.                                                              *)
LEMMA RouterAlone ==
    ASSUME RInv, UNCHANGED <<rvars, machine, init>>, InItsLife' PROVE RInv'
<1>1. RouterTypeOK' /\ Early' = Early
  BY DEF RInv, rvars, RouterTypeOK, Early, Platform
<1>2. OnPlan' /\ Saved'
  BY <1>1 DEF RInv, rvars, OnPlan, Saved, Own
<1>3. PutBackSo' /\ Leaves53' /\ Back'
  BY <1>1 DEF RInv, rvars, PutBackSo, Leaves53, Back, Restored, Own, Forgets
<1> QED
  BY <1>1, <1>2, <1>3 DEF RInv

LEMMA OnConfigure ==
    ASSUME RInv, life = "dead", life' = "configure", Configure, Used, UNCHANGED <<machine, init>>
    PROVE  RInv'
<1>1. /\ call = "none" /\ call' = "configure" /\ todo' = (IF Early THEN Platform.setup ELSE <<>>)
      /\ UNCHANGED <<rtr, cached, conf, opts, found, masq, outcome, forgot, script, lost>>
  BY DEF Configure, RouterBegin, Early
<1>2. \A c \in RouterCalls : outcome[c] = "none"
  BY DEF RInv, InItsLife
<1>3. mem'.saved = Nothing /\ mem'.port0 \in BOOLEAN /\ mem'.post \in Scripts
  BY DEF Configure, AtStart, Fresh, RInv, RouterTypeOK
<1>4. \A o \in Options : Nothing[o] = "unset" /\ Nothing[o] \in Values
  BY DEF Nothing, Values
<1>5. Early' = Early /\ Used' = Used
  BY <1>1 DEF Early, Platform, Used, ReadsConfig
<1>6. RouterTypeOK'
  <2>1. DOMAIN mem'.saved = Options
    BY <1>3 DEF Nothing
  <2> QED
    BY <1>1, <1>3, <2>1 DEF RInv, RouterTypeOK, RouterCalls
<1>7. InItsLife'
  BY <1>1, <1>2, <1>5 DEF InItsLife, Alive, RouterCalls
<1>8. /\ Early => SetupLeft(rtr, todo') /\ Ahead(todo') \notin {"set", "restart", "info", "dhcp", "end"}
      /\ Early /\ rtr = "openwrt" => Ahead(todo') = "uci"
      /\ ~Early => Ahead(todo') = "end"
  <2>1. Early => rtr \notin {"generic", "nodhcp"}
    BY DEF Early, Platform, Generic
  <2>2. ~Early => Ahead(todo') = "end"
    BY <1>1 DEF Ahead
  <2> QED
    BY <1>1, <2>1, <2>2, SetupBegins DEF RInv, RouterTypeOK, Platforms
<1>9. OnPlan'
  BY <1>1, <1>5, <1>8 DEF OnPlan
<1>10. Saved'
  <2>1. mem.saved = Nothing
    BY <1>1, <1>2 DEF RInv, Saved, RouterCalls
  <2>2. \A o \in Options : Own(o) /\ ~forgot => opts[o] = found[o]
    BY <1>4, <2>1 DEF RInv, Saved
  <2>3. Ahead(todo') # "set"
    BY <1>8
  <2> QED
    BY <1>1, <1>3, <1>4, <2>2, <2>3 DEF RInv, Saved, Own
<1>11. PutBackSo'
  BY <1>1 DEF RInv, PutBackSo
<1>12. Leaves53'
  BY <1>1, <1>5, <1>8 DEF RInv, Leaves53
<1>13. Back'
  BY <1>1 DEF Back, Restored
<1> QED
  BY <1>6, <1>7, <1>9, <1>10, <1>11, <1>12, <1>13 DEF RInv

LEMMA OnSetup ==
    ASSUME RInv, call = "none", life = "configure", life' = "setup", Setup, Used, UNCHANGED <<machine, init>>
    PROVE  RInv'
<1>1. /\ call' = "setup" /\ todo' = (IF Early THEN <<>> ELSE Platform.setup)
      /\ UNCHANGED <<rtr, cached, conf, opts, found, mem, masq, outcome, forgot, script, lost>>
  BY DEF Setup, RouterBegin, Early
<1>2. outcome["setup"] = "none" /\ outcome["restore"] = "none" /\ outcome["configure"] # "none"
  BY DEF RInv, InItsLife, Alive
<1>3. Early' = Early /\ Used' = Used
  BY <1>1 DEF Early, Platform, Used, ReadsConfig
<1>4. RouterTypeOK'
  BY <1>1 DEF RInv, RouterTypeOK, RouterCalls
<1>5. InItsLife'
  BY <1>1, <1>2, <1>3 DEF InItsLife, Alive, RouterCalls
<1>6. /\ ~Early => SetupLeft(rtr, todo') /\ Ahead(todo') # "set"
      /\ Early => Ahead(todo') = "end"
  <2>1. Early => Ahead(todo') = "end"
    BY <1>1 DEF Ahead
  <2> QED
    BY <1>1, <2>1, SetupBegins DEF RInv, RouterTypeOK, Platforms
<1>7. OnPlan'
  BY <1>1, <1>3, <1>6 DEF OnPlan
<1>8. Saved'
  BY <1>1, <1>2, <1>3, <1>6 DEF RInv, Saved, Own
<1>9. PutBackSo'
  BY <1>1 DEF RInv, PutBackSo
<1>10. Leaves53'
  BY <1>1, <1>3 DEF RInv, Leaves53
<1>11. Back'
  BY <1>1 DEF Back, Restored
<1> QED
  BY <1>4, <1>5, <1>7, <1>8, <1>9, <1>10, <1>11 DEF RInv

LEMMA OnRestore ==
    ASSUME RInv, life = "up", life' = "restore", Restore, Used, UNCHANGED <<machine, init>>
    PROVE  RInv'
<1>1. /\ call = "none" /\ call' = "restore" /\ todo' = Platform.restore
      /\ UNCHANGED <<rtr, cached, conf, opts, found, mem, masq, outcome, forgot, script, lost>>
  BY DEF Restore, RouterBegin
<1>2. outcome["restore"] = "none" /\ outcome["configure"] # "none"
  BY <1>1 DEF RInv, InItsLife, Alive
<1>3. Early' = Early /\ Used' = Used
  BY <1>1 DEF Early, Platform, Used, ReadsConfig
<1>4. RouterTypeOK'
  BY <1>1 DEF RInv, RouterTypeOK, RouterCalls
<1>5. InItsLife'
  BY <1>1, <1>2, <1>3 DEF InItsLife, Alive, RouterCalls
<1>6. /\ RestoreLeft(rtr, todo') /\ Ahead(todo') \notin {"set", "undhcp", "restart"}
      /\ rtr = "ddwrt" => Ahead(todo') = "reset"
      /\ rtr = "openwrt" => Ahead(todo') = "servers"
      /\ Ahead(todo') = "end" => rtr \in {"generic", "nodhcp"}
  BY <1>1, RestoreBegins DEF RInv, RouterTypeOK, Platforms
<1>7. OnPlan'
  BY <1>1, <1>6 DEF OnPlan
<1>8. Saved'
  BY <1>1, <1>2, <1>3, <1>6 DEF RInv, Saved, Own
<1>9. PutBackSo'
  <2>1. \A o \in Options : Nothing[o] = "unset"
    BY DEF Nothing
  <2>2. rtr \notin {"ddwrt", "openwrt"} /\ ~forgot => \A o \in Options : Own(o) => opts[o] = found[o]
    BY <2>1 DEF RInv, Saved
  <2> QED
    BY <1>1, <1>6, <2>2 DEF RInv, PutBackSo, Own
<1>10. Leaves53'
  BY <1>1, <1>3 DEF RInv, Leaves53
<1>11. Back'
  BY <1>1 DEF Back, Restored
<1> QED
  BY <1>4, <1>5, <1>7, <1>8, <1>9, <1>10, <1>11 DEF RInv

(* What the daemon remembered is gone with it.                              *)
LEMMA OnRouterCrash ==
    ASSUME RInv, NEW reboot \in BOOLEAN, RouterCrash(reboot), life' = "dead", UNCHANGED <<machine, init>>
    PROVE  RInv'
<1>1. /\ call' = "none" /\ todo' = <<>> /\ mem' = Fresh
      /\ outcome' = [c \in RouterCalls |-> "none"]
      /\ UNCHANGED <<rtr, cached, opts, found, script>> /\ lost' = (lost \/ conf'.user # script)
      /\ forgot' = (forgot \/ call # "none" \/ (outcome["configure"] # "none" /\ outcome["restore"] # "ok"))
  BY DEF RouterCrash
<1>2. /\ conf' \in {IF reboot /\ rtr \in {"openwrt", "ubios"} THEN NoFile ELSE conf} \cup Cut
      /\ masq' = IF reboot THEN Load(conf', FALSE) ELSE masq
  BY DEF RouterCrash
<1>3. conf' \in Confs /\ (conf'.ours = "none" \/ conf' = conf \/ rtr = "merlin")
  <2>1. CASE conf' \in Cut
    BY <2>1, CutTypes
  <2>2. CASE conf' = NoFile \/ conf' = conf
    BY <2>2, TypedSettings DEF NoFile, Confs, Scripts
  <2> QED
    BY <1>2, <2>1, <2>2
<1>4. masq' = masq \/ (masq' = Load(conf', FALSE))
  BY <1>2
<1>5. /\ masq' \in [takes53 : BOOLEAN, forwards : BOOLEAN]
      /\ rtr # "ddwrt" /\ conf'.ours = "none" /\ masq' # masq =>
           ~masq'.forwards /\ (masq'.takes53 <=> opts["port"] # "other")
  <2>1. PICK c : c = IF rtr = "ddwrt" THEN opts["options"] ELSE conf'.ours
    OBVIOUS
  <2>2. CASE masq' = Load(conf', FALSE)
    <3>1. opts' = opts /\ rtr' = rtr
      BY <1>1
    <3>2. masq' = [takes53 |-> ~(c = "off" \/ opts["port"] = "other"), forwards |-> c = "forward" /\ rtr # "merlin"]
      BY <2>1, <2>2, <3>1 DEF Load
    <3> QED
      BY <2>1, <3>2
  <2> QED
    BY <1>4, <2>2, TypedSettings
<1>6. mem'.saved = Nothing /\ mem'.port0 = FALSE /\ mem'.post = "none"
  BY <1>1 DEF Fresh
<1>7. \A o \in Options : Nothing[o] = "unset" /\ Nothing[o] \in Values
  BY DEF Nothing, Values
<1>8. RouterTypeOK'
  <2>1. DOMAIN mem'.saved = Options
    BY <1>6 DEF Nothing
  <2>2. forgot' \in BOOLEAN /\ outcome' \in [RouterCalls -> {"none", "ok", "error"}]
    BY <1>1 DEF RInv, RouterTypeOK
  <2> QED
    BY <1>1, <1>3, <1>5, <1>6, <2>1, <2>2 DEF RInv, RouterTypeOK, RouterCalls, Confs, Scripts
<1>9. \A c \in RouterCalls : outcome'[c] = "none"
  BY <1>1
<1>10. InItsLife'
  BY <1>1, <1>9 DEF InItsLife, Alive
<1>11. Saved'
  <2>1. SUFFICES ASSUME ~forgot', NEW o \in Options, Own(o) PROVE opts[o] = found[o]
    <3>1. Ahead(todo') = "end"
      BY <1>1 DEF Ahead
    <3> QED
      BY <1>1, <1>6, <1>7, <3>1 DEF RInv, Saved, Own
  <2>2. ~forgot /\ call = "none" /\ (outcome["configure"] = "none" \/ outcome["restore"] = "ok")
    BY <1>1, <2>1
  <2>3. CASE outcome["configure"] = "none"
    BY <1>7, <2>1, <2>2, <2>3 DEF RInv, Saved
  <2>4. CASE outcome["restore"] = "ok"
    BY <2>1, <2>2, <2>4 DEF RInv, Back, Restored
  <2> QED
    BY <2>2, <2>3, <2>4
<1>12. PutBackSo'
  BY <1>1, <1>3, <1>5 DEF RInv, PutBackSo
<1>13. Leaves53' /\ Back' /\ OnPlan'
  BY <1>1, <1>9 DEF RInv, Leaves53, Back, Restored, RouterCalls, OnPlan
<1> QED
  BY <1>8, <1>10, <1>11, <1>12, <1>13 DEF RInv

LEMMA OnSpawn == ASSUME RInv, Spawn, UNCHANGED <<machine, init>> PROVE RInv'
<1>1. life = "dead" /\ life' = "configure" /\ OnRouter(Configure)
  BY DEF Spawn, Alive
<1>2. CASE Used
  BY <1>1, <1>2, OnConfigure DEF OnRouter, Used
<1>3. CASE ~Used
  <2>1. UNCHANGED rvars
    BY <1>1, <1>3 DEF OnRouter, Used
  <2>2. InItsLife'
    BY <1>1, <1>3, <2>1 DEF RInv, InItsLife, Used, ReadsConfig, rvars, Alive, RouterCalls
  <2> QED
    BY <1>1, <2>1, <2>2, RouterAlone
<1> QED
  BY <1>2, <1>3

LEMMA OnDaemon == ASSUME RInv, DaemonNext PROVE RInv'
<1>1. CASE Respawn
  <2>1. Spawn /\ UNCHANGED <<machine, init>>
    BY <1>1 DEF Respawn, ivars
  <2> QED
    BY <2>1, OnSpawn
<1>2. CASE Listen
  <2>1. call = "none" /\ life = "configure" /\ life' = "setup" /\ OnRouter(Setup) /\ UNCHANGED <<machine, init>>
    BY <1>2 DEF Listen, Live, ivars
  <2>2. CASE Used
    BY <2>1, <2>2, OnSetup DEF OnRouter, Used
  <2>3. CASE ~Used
    <3>1. UNCHANGED rvars
      BY <2>1, <2>3 DEF OnRouter, Used
    <3>2. InItsLife'
      BY <2>1, <2>3, <3>1 DEF RInv, InItsLife, Used, ReadsConfig, rvars, Alive, RouterCalls
    <3> QED
      BY <2>1, <3>1, <3>2, RouterAlone
  <2> QED
    BY <2>2, <2>3
<1>3. CASE ListenFails \/ Exit \/ Killed
  <2>1. RouterCrash(FALSE) /\ life' = "dead" /\ UNCHANGED <<machine, init>>
    BY <1>3 DEF ListenFails, Exit, Killed, Gone, ivars
  <2> QED
    BY <2>1, OnRouterCrash, Zenon
<1>4. CASE Activate \/ Started \/ Deactivate
  <2>1. /\ UNCHANGED <<rvars, machine, init>>
        /\ \/ life = "setup" /\ life' = "activate" /\ call = "none"
           \/ life = "activate" /\ life' = "up"
           \/ life = "restore" /\ life' = "deactivate" /\ call = "none"
    BY <1>4 DEF Activate, Started, Deactivate, DaemonDNS, Live, ivars
  <2>2. InItsLife'
    BY <2>1 DEF RInv, InItsLife, Used, ReadsConfig, rvars, Alive, RouterCalls
  <2> QED
    BY <2>1, <2>2, RouterAlone
<1>5. CASE Stopping
  <2>1. life = "up" /\ life' = "restore" /\ OnRouter(Restore) /\ UNCHANGED <<machine, init>>
    BY <1>5 DEF Stopping, Live, ivars
  <2>2. CASE Used
    BY <2>1, <2>2, OnRestore DEF OnRouter, Used
  <2>3. CASE ~Used
    <3>1. UNCHANGED rvars
      BY <2>1, <2>3 DEF OnRouter, Used
    <3>2. InItsLife'
      BY <2>1, <2>3, <3>1 DEF RInv, InItsLife, Used, ReadsConfig, rvars, Alive, RouterCalls
    <3> QED
      BY <2>1, <3>1, <3>2, RouterAlone
  <2> QED
    BY <2>2, <2>3
<1>6. CASE RouterCall
  BY <1>6, RouterKeeps DEF RouterCall, lifevars, ivars
<1> QED
  BY <1>1, <1>2, <1>3, <1>4, <1>5, <1>6 DEF DaemonNext

LEMMA RInvStep == RInv /\ [HostNext]_hvars => RInv'
<1> SUFFICES ASSUME RInv, [HostNext]_hvars PROVE RInv'
  OBVIOUS
<1>1. CASE DaemonNext
  BY <1>1, OnDaemon
<1>2. CASE Command \/ StopSent \/ Stopped \/ NoUnit \/ StatusAsked
  BY <1>2, RouterAside DEF Command, StopSent, Stopped, NoUnit, StatusAsked, lifevars, ivars
<1>3. CASE InitBegins \/ SaveConfig \/ DNSBegins \/ DNSCalls
  BY <1>3, RouterAside DEF InitBegins, SaveConfig, DNSBegins, DNSCalls, lifevars, ivars
<1>4. CASE StartService
  <2>1. UNCHANGED <<machine, init>>
    BY <1>4 DEF StartService, ivars
  <2>2. Spawn \/ UNCHANGED <<rvars, life>>
    BY <1>4 DEF StartService, lifevars
  <2> QED
    BY <2>1, <2>2, OnSpawn, RouterAside
<1>5. CASE InitActs
  <2>1. UNCHANGED init
    BY <1>5 DEF InitActs, InitStep, InitIgnored, InitRefused, InitFails
  <2> QED
    BY <1>5, <2>1, RouterAside DEF InitActs, lifevars
<1>6. CASE CommandKilled
  BY <1>6, RouterAside DEF CommandKilled, CommandDies, lifevars
<1>7. CASE Reboot
  <2>1. RouterCrash(TRUE) /\ life' = "dead" /\ UNCHANGED <<machine, init>>
    BY <1>7 DEF Reboot, CommandDies, ivars
  <2> QED
    BY <2>1, OnRouterCrash, Zenon
<1>8. CASE UNCHANGED hvars
  BY <1>8, RouterAside DEF hvars, lifevars, ivars
<1> QED
  BY <1>1, <1>2, <1>3, <1>4, <1>5, <1>6, <1>7, <1>8 DEF HostNext

LEMMA RInvImplies == RInv => PortFree /\ RouterTypeOK
BY DEF RInv, Leaves53, PortFree, Early

LEMMA RInvAlways == HostSpec => []RInv
BY InitRInv, RInvStep, PTL DEF HostSpec

(* Merlin's script: in the file until nextdns's part is written to it, and  *)
(* in the daemon's memory from its start to its end.                        *)
Begun == call # "none" \/ outcome["configure"] # "none"

SInv ==
    /\ rtr # "merlin" => script = "none" /\ conf.user = "none" /\ mem.post = "none"
    /\ ~lost =>
         /\ ~Begun => conf.user = script
         /\ Begun => mem.post = script
         /\ call = "restore" /\ Ahead(todo) \in {"restart", "end"} => conf.user = script
         /\ Restored => conf.user = script

LEMMA InitSInv == HostInit => SInv
<1> SUFFICES ASSUME HostInit PROVE SInv
  OBVIOUS
<1>1. RouterInit
  BY DEF HostInit
<1>2. conf.user = script /\ call = "none" /\ outcome["configure"] = "none" /\ mem.post = "none"
  BY <1>1 DEF RouterInit, RouterCalls, Fresh
<1>3. rtr # "merlin" => script = "none"
  BY <1>1 DEF RouterInit
<1> QED
  BY <1>2, <1>3 DEF SInv, Begun

LEMMA ScriptAside == ASSUME SInv, UNCHANGED rvars PROVE SInv'
BY DEF SInv, Begun, Restored, rvars

(* A step of a call.                                                        *)
LEMMA ScriptStepped ==
    ASSUME RInv, SInv, NEW s, Stepped(s), mem'.post = mem.post,
           \/ call # "restore" /\ conf'.user \in {"none", mem.post}
           \/ call = "restore" /\ s = "putback" /\ conf'.user = mem.post
           \/ call = "restore" /\ s \in {"quiet", "remove"} /\ conf'.user = "none"
           \/ call = "restore" /\ s \notin {"putback", "quiet", "remove"} /\ conf' = conf
           \/ call # "restore" /\ conf' = conf
    PROVE  SInv'
<1>1. /\ UNCHANGED <<rtr, call, outcome, script, lost>> /\ call \in RouterCalls
      /\ call # "restore" => SetupNext(rtr, s, Ahead(todo'))
      /\ call = "restore" => RestoreNext(rtr, s, Ahead(todo')) /\ s = Ahead(todo)
  BY DEF Stepped
<1>2. Begun /\ Begun' /\ ~Restored'
  BY <1>1 DEF Begun, Restored, RouterCalls
<1>3. ASSUME call = "restore", Ahead(todo') \in {"restart", "end"}, ~lost PROVE conf'.user = script
  <2>1. CASE s = "restart"
    BY <1>1, <1>3, <2>1 DEF SInv
  <2>2. CASE s = "putback"
    BY <1>2, <1>3, <2>2 DEF SInv
  <2>3. CASE s \notin {"restart", "putback"}
    <3>1. rtr # "merlin"
      BY <1>1, <1>3, <2>3 DEF RestoreNext, Resetting
    <3> QED
      BY <1>3, <3>1 DEF SInv
  <2> QED
    BY <2>1, <2>2, <2>3
<1>4. rtr # "merlin" => conf'.user = "none"
  BY DEF SInv
<1> QED
  BY <1>1, <1>2, <1>3, <1>4 DEF SInv

LEMMA ScriptStep ==
    ASSUME RInv, SInv, RouterStep, ~RouterDone, UNCHANGED <<life, machine, init>> PROVE SInv'
<1>0. mem.post \in Scripts /\ DOMAIN mem.saved = Options
  BY TypedSettings
<1>1. CASE Truncate
  <2>1. Stepped("truncate") /\ conf'.user = "none" /\ mem' = mem
    BY <1>1, Stepping DEF Truncate
  <2>2. call # "restore"
    BY <2>1 DEF Stepped, RestoreNext, Resetting
  <2> QED
    BY <2>1, <2>2, ScriptStepped
<1>2. CASE Fill
  <2>1. Stepped("fill") /\ conf'.user = mem.post /\ mem' = mem
    BY <1>2, Stepping DEF Fill
  <2>2. call # "restore"
    BY <2>1 DEF Stepped, RestoreNext, Resetting
  <2> QED
    BY <2>1, <2>2, ScriptStepped
<1>3. CASE RemoveConf
  <2>1. PICK s \in {"quiet", "remove"} : Doing(s)
    <3>1. Head(todo) \in {"quiet", "remove"} /\ Doing(Head(todo))
      BY <1>3 DEF RemoveConf
    <3> QED
      BY <3>1
  <2>2. Stepped(s) /\ conf'.user = "none" /\ mem' = mem
    BY <1>3, <2>1, Stepping DEF RemoveConf, NoFile
  <2>3. call = "restore"
    BY <2>2 DEF Stepped, SetupNext, Setting
  <2> QED
    BY <2>2, <2>3, ScriptStepped
<1>4. CASE PutBack
  <2>1. Stepped("putback") /\ conf'.user = mem.post /\ mem' = mem
    BY <1>4, Stepping DEF PutBack
  <2>2. call = "restore"
    BY <2>1 DEF Stepped, SetupNext, Setting
  <2> QED
    BY <2>1, <2>2, ScriptStepped
<1>5. ASSUME NEW s \in {"info", "save", "set", "reset", "uci", "dhcp", "servers", "undhcp", "restart"},
             Doing(s), conf' = conf, mem'.post = mem.post
      PROVE  SInv'
  <2>1. Stepped(s)
    BY <1>5, Stepping
  <2>2. s \notin {"putback", "quiet", "remove"}
    OBVIOUS
  <2> QED
    BY <1>5, <2>1, <2>2, ScriptStepped
<1>6. CASE Info \/ SetNVRAM \/ ResetNVRAM
  BY <1>5, <1>6 DEF Info, SetNVRAM, ResetNVRAM
<1>7. CASE EnsureDHCPOption \/ RestoreServers \/ RemoveDHCPOption \/ RestartDNSMasq
  BY <1>5, <1>7 DEF EnsureDHCPOption, RestoreServers, RemoveDHCPOption, RestartDNSMasq
<1>8. CASE Save
  <2>1. mem'.post = mem.post
    BY <1>8 DEF Save, RInv, RouterTypeOK
  <2> QED
    BY <1>5, <1>8, <2>1 DEF Save
<1>9. CASE UCI
  <2>1. mem'.post = mem.post
    <3>1. CASE cached
      <4>1. PICK n : n = (mem.port0 \/ opts["port"] = "unset")
        OBVIOUS
      <4>2. mem' = [mem EXCEPT !.port0 = n]
        BY <1>9, <3>1, <4>1, Zenon DEF UCI
      <4> QED
        BY <4>2
    <3>2. CASE ~cached
      <4>1. mem' = [mem EXCEPT !.saved["server"] = opts["server"]]
        BY <1>9, <3>2 DEF UCI
      <4> QED
        BY <4>1
    <3> QED
      BY <3>1, <3>2
  <2> QED
    BY <1>5, <1>9, <2>1 DEF UCI
<1> QED
  BY <1>1, <1>2, <1>3, <1>4, <1>6, <1>7, <1>8, <1>9 DEF RouterStep

(* A call returns, or its write is cut short.                               *)
LEMMA ScriptReturned ==
    ASSUME RInv, SInv, NEW r \in {"ok", "error"}, r = "ok" => todo = <<>> /\ conf' = conf,
           call # "none", call' = "none", outcome' = [outcome EXCEPT ![call] = r],
           UNCHANGED <<rtr, mem, script, lost>>, rtr # "merlin" => conf' = conf
    PROVE  SInv'
<1>1. call \in RouterCalls /\ outcome \in [RouterCalls -> {"none", "ok", "error"}]
  BY DEF RInv, RouterTypeOK
<1>2. Begun /\ Begun'
  <2>1. call # "configure" => outcome["configure"] # "none"
    BY <1>1 DEF RInv, InItsLife, Alive, RouterCalls
  <2> QED
    BY <1>1, <2>1 DEF Begun, RouterCalls
<1>3. ASSUME Restored', ~lost PROVE conf'.user = script
  <2>1. call # "restore" => outcome["restore"] = "none"
    BY <1>1 DEF RInv, InItsLife, RouterCalls
  <2>2. call = "restore" /\ r = "ok"
    BY <1>1, <1>3, <2>1 DEF Restored, RouterCalls
  <2>3. Ahead(todo) = "end" /\ conf' = conf
    BY <2>2 DEF Ahead
  <2> QED
    BY <1>3, <2>2, <2>3 DEF SInv
<1> QED
  BY <1>2, <1>3 DEF SInv

LEMMA ScriptCall ==
    ASSUME RInv, SInv, RouterStep \/ NothingToRemove \/ RouterFails \/ PartlySet \/ PartlyWritten,
           UNCHANGED <<life, machine, init>>
    PROVE  SInv'
<1>1. CASE RouterDone
  BY <1>1, ScriptReturned DEF RouterDone, RouterReturn
<1>2. CASE RouterStep /\ ~RouterDone
  BY <1>2, ScriptStep
<1>3. CASE NothingToRemove \/ RouterFails
  BY <1>3, ScriptReturned DEF NothingToRemove, RouterFails, RouterReturn
<1>4. CASE PartlySet
  <2>1. call # "none"
    BY <1>4 DEF PartlySet, RInv, OnPlan
  <2> QED
    BY <1>4, <2>1, ScriptReturned DEF PartlySet
<1>5. CASE PartlyWritten
  <2>1. rtr = "merlin" /\ todo # <<>>
    BY <1>5, CutTypes DEF PartlyWritten
  <2>2. call # "none"
    BY <2>1 DEF RInv, OnPlan
  <2> QED
    BY <1>5, <2>1, <2>2, ScriptReturned DEF PartlyWritten
<1> QED
  BY <1>1, <1>2, <1>3, <1>4, <1>5

LEMMA ScriptCrash == ASSUME RInv, SInv, NEW reboot \in BOOLEAN, RouterCrash(reboot) PROVE SInv'
<1>1. /\ call' = "none" /\ mem' = Fresh /\ outcome' = [c \in RouterCalls |-> "none"]
      /\ UNCHANGED <<rtr, script>> /\ lost' = (lost \/ conf'.user # script)
      /\ conf' \in {IF reboot /\ rtr \in {"openwrt", "ubios"} THEN NoFile ELSE conf} \cup Cut
  BY DEF RouterCrash
<1>2. outcome'["configure"] = "none" /\ outcome'["restore"] = "none" /\ mem'.post = "none"
  BY <1>1 DEF RouterCalls, Fresh
<1>3. rtr # "merlin" => conf' = NoFile \/ conf' = conf
  BY <1>1, CutTypes
<1>4. rtr # "merlin" => conf'.user = "none" /\ script = "none"
  BY <1>3 DEF SInv, NoFile
<1>5. ~Begun' /\ ~Restored'
  BY <1>1, <1>2 DEF Begun, Restored
<1>6. ~lost' => conf'.user = script
  BY <1>1
<1> QED
  BY <1>1, <1>2, <1>4, <1>5, <1>6 DEF SInv

LEMMA ScriptSpawn == ASSUME RInv, SInv, Spawn PROVE SInv'
<1>1. life = "dead" /\ OnRouter(Configure)
  BY DEF Spawn, Alive
<1>2. CASE Used
  <2>1. /\ call = "none" /\ call' = "configure" /\ mem' = AtStart
        /\ UNCHANGED <<rtr, conf, outcome, script, lost>>
    BY <1>1, <1>2 DEF OnRouter, Used, Configure, RouterBegin
  <2>2. ~Begun /\ Begun' /\ mem'.post = conf.user
    BY <1>1, <2>1 DEF RInv, InItsLife, Begun, RouterCalls, AtStart, Fresh
  <2> QED
    BY <2>1, <2>2 DEF SInv, Restored
<1>3. CASE ~Used
  BY <1>1, <1>3, ScriptAside DEF OnRouter, Used
<1> QED
  BY <1>2, <1>3

(* Setup and Restore are called by a daemon that has configured.            *)
LEMMA ScriptBegins ==
    ASSUME RInv, SInv, Alive,
           OnRouter(Setup) \/ (life = "up" /\ OnRouter(Restore))
    PROVE  SInv'
<1>1. CASE Used
  <2>1. /\ UNCHANGED <<rtr, conf, mem, outcome, script, lost>> /\ call = "none"
        /\ \/ call' = "setup"
           \/ call' = "restore" /\ todo' = Platform.restore
    BY <1>1 DEF OnRouter, Used, Setup, Restore, RouterBegin
  <2>2. Begun /\ Begun'
    BY <1>1, <2>1 DEF RInv, InItsLife, Begun, RouterCalls
  <2>3. call' = "restore" => Ahead(todo') \notin {"restart", "end"} \/ rtr # "merlin"
    BY <2>1, RestoreBegins
  <2> QED
    BY <2>1, <2>2, <2>3 DEF SInv, Restored
<1>2. CASE ~Used
  BY <1>2, ScriptAside DEF OnRouter, Used
<1> QED
  BY <1>1, <1>2

LEMMA SInvStep == RInv /\ SInv /\ [HostNext]_hvars => SInv'
<1> SUFFICES ASSUME RInv, SInv, [HostNext]_hvars PROVE SInv'
  OBVIOUS
<1>1. CASE Respawn
  BY <1>1, ScriptSpawn DEF Respawn
<1>2. CASE Listen \/ Stopping
  BY <1>2, ScriptBegins DEF Listen, Stopping, Live, Alive
<1>3. CASE ListenFails \/ Exit \/ Killed
  BY <1>3, ScriptCrash DEF ListenFails, Exit, Killed
<1>4. CASE Activate \/ Started \/ Deactivate
  BY <1>4, ScriptAside DEF Activate, Started, Deactivate, DaemonDNS
<1>5. CASE RouterCall
  BY <1>5, ScriptCall DEF RouterCall, lifevars, ivars
<1>6. CASE Command \/ StopSent \/ Stopped \/ NoUnit \/ StatusAsked
  BY <1>6, ScriptAside DEF Command, StopSent, Stopped, NoUnit, StatusAsked
<1>7. CASE InitBegins \/ SaveConfig \/ DNSBegins \/ DNSCalls \/ InitActs \/ CommandKilled
  BY <1>7, ScriptAside DEF InitBegins, SaveConfig, DNSBegins, DNSCalls, InitActs, CommandKilled
<1>8. CASE StartService
  BY <1>8, ScriptSpawn, ScriptAside DEF StartService
<1>9. CASE Reboot
  BY <1>9, ScriptCrash DEF Reboot
<1>10. CASE UNCHANGED hvars
  BY <1>10, ScriptAside DEF hvars
<1> QED
  BY <1>1, <1>2, <1>3, <1>4, <1>5, <1>6, <1>7, <1>8, <1>9, <1>10 DEF HostNext, DaemonNext

LEMMA SInvAlways == HostSpec => []SInv
BY InitSInv, SInvStep, RInvAlways, PTL DEF HostSpec

LEMMA RestoredAll == RInv /\ SInv => RouterRestored
<1> SUFFICES ASSUME RInv, SInv, Restored PROVE RouterRestored
  BY DEF RouterRestored
<1>1. ~lost => conf.user = script
  BY DEF SInv
<1> QED
  BY <1>1 DEF RInv, Back, RouterRestored, OptionsRestored, Own, RouterTypeOK

(* Once the router's Restore has returned nil, whatever was killed, failed  *)
(* or restarted before (Restore of router/*/setup.go, called in OnStopped   *)
(* of run.go): nextdns's file is away; dnsmasq forwards nothing to the      *)
(* daemon and answers where it did, but on a DD-WRT whose dnsmasq_options   *)
(* had never been set, or whose daemon was once killed before it put them   *)
(* back; the settings the user had are back, but for a port 53 written out, *)
(* the DHCP option and what a killed daemon remembered; and so is the       *)
(* script a Merlin user had, unless a daemon had ended while it was not in  *)
(* the file.                                                                *)
THEOREM HostRouterRestored == HostSpec => []RouterRestored
BY RInvAlways, SInvAlways, RestoredAll, PTL

(* A daemon that answers on port 53 finds it free: Configure has returned   *)
(* nil only once dnsmasq has left it (Configure of router/*/setup.go).      *)
THEOREM HostPortFree == HostSpec => []PortFree
BY RInvAlways, RInvImplies, PTL

-------------------------------------------------------------------------------
(* The commands and the artefacts of the service (service.go,               *)
(* host/service/).                                                          *)

(* The steps of Install and of Uninstall.                                   *)
Verbs == {"create", "enable", "link", "write", "try", "command", "disable", "remove", "del", "quiet", "removeAll",
          "delete"}
Names == {"unit", "link", "helper", "reload", "defaults", "nvram", "unload", "recovery"}
PlanSteps == Verbs \X Names

InitActsOf == {"install", "uninstall", "uninstall?"}
OtherActs == {"start", "stop", "activate", "deactivate", "save", "status"}

(* There is no artefact, or it goes with the process.                       *)
Away(a) == art[a] \in {"none", "marked"}

(* Only a service of Windows is marked for deletion, while it runs.         *)
ArtOK ==
    /\ art \in [Artefacts -> {"none", "whole", "torn", "marked"}]
    /\ \A a \in Artefacts : art[a] = "marked" => a = "unit" /\ init = "windows" /\ Alive

(* Who must be at what: the commands, the service and its artefacts.        *)
CTypeOK ==
    /\ init \in Inits /\ ArtOK
    /\ machine \in Machines
    /\ isteps \in Seq(PlanSteps) /\ Len(isteps) <= 5
    /\ auto \in BOOLEAN /\ activates \in BOOLEAN /\ term \in BOOLEAN
    /\ wanted \in {"no", "yes", "boot"}
    /\ cres \in {"none", "ok", "error", "killed"}
    /\ Busy("cli") => Ahead(acts) \in DNSActs
    /\ Busy("daemon") => life \in {"activate", "deactivate"}
    /\ isteps # <<>> => Ahead(acts) \in InitActsOf

(* What is left of a command is the end of its acts.                        *)
ActsLeft ==
    /\ cmd = "install" =>
         \/ acts = <<"stop?", "uninstall?", "save", "install", "start">>
         \/ acts = <<"uninstall?", "save", "install", "start">>
         \/ acts = <<"save", "install", "start">> \/ acts = <<"install", "start">>
         \/ acts = <<"start">> \/ acts = <<>>
    /\ cmd = "uninstall" =>
         \/ acts = <<"deactivate?", "stop?", "uninstall">> \/ acts = <<"stop?", "uninstall">>
         \/ acts = <<"uninstall">> \/ acts = <<>>
    /\ cmd \notin {"install", "uninstall"} => acts \in Seq(OtherActs)

(* Nobody wants the daemon, and it is gone or told to go: so it is without  *)
(* a unit, and while a unit is written or removed.                          *)
Unwanted == wanted = "no" /\ (Alive => term)

Stays ==
    /\ Away("unit") => Unwanted
    /\ Ahead(acts) \in InitActsOf => Unwanted
    /\ cmd = "install" /\ Ahead(acts) \in {"save", "start"} => Unwanted

(* k of the steps of the plan p have been done.                             *)
DoneOf(p, k) == Len(isteps) = Len(p) - k /\ \A j \in 1..Len(isteps) : isteps[j] = p[k + j]

Creates == {"create", "link"}
Sure == {"create", "enable", "link", "write"}

(* No step of Install is refused on these.                                  *)
Forgiving == init \notin {"bsd", "openrc", "windows"}

UninstallSoFar ==
    isteps # <<>> /\ Ahead(acts) \in {"uninstall", "uninstall?"} =>
      \E k \in 0..Len(System.uninstall) :
         /\ DoneOf(System.uninstall, k)
         /\ \A i \in 1..k : ~cfault /\ System.uninstall[i][1] # "command" => Away(System.uninstall[i][2])

ClearToInstall ==
    /\ cmd = "install" /\ ~cfault /\ Forgiving
    /\ Ahead(acts) = "save" \/ (Ahead(acts) = "install" /\ isteps = <<>>)
    => \A i \in DOMAIN System.install : System.install[i][1] \in Creates => ~Present(System.install[i][2])

InstallSoFar ==
    isteps # <<>> /\ Ahead(acts) = "install" =>
      \E k \in 0..Len(System.install) :
         /\ DoneOf(System.install, k)
         /\ \A i \in 1..k : System.install[i][1] \in Sure => art[System.install[i][2]] = "whole"
         /\ ~cfault /\ Forgiving =>
              \A i \in (k + 1)..Len(System.install) :
                 System.install[i][1] \in Creates => ~Present(System.install[i][2])

Installed ==
    cmd = "install" /\ (Ahead(acts) = "start" \/ (acts = <<>> /\ cres = "ok")) =>
      \A i \in DOMAIN System.install :
          System.install[i][1] \in Sure => art[System.install[i][2]] = "whole"

Succeeds ==
    cmd = "install" =>
      /\ acts # <<>> => cres = "none"
      /\ acts = <<>> /\ cres = "ok" => begun \/ System.script
      /\ acts = <<>> /\ cres = "error" /\ ~cfault => ~Forgiving

CInv == CTypeOK /\ ActsLeft /\ Stays /\ UninstallSoFar /\ ClearToInstall /\ InstallSoFar /\ Installed /\ Succeeds

-------------------------------------------------------------------------------
(* The plans of the init systems, of which the proofs need no more than     *)
(* this.  `forgiving`: Uninstall leaves nothing that Install would refuse,  *)
(* even where it stops at a step that is refused.                           *)
Removes == {"disable", "remove", "del", "quiet", "removeAll", "delete"}
Refused(s) == IF s[1] = "disable" THEN "unit" ELSE s[2]

InstallPlan(ins) ==
    /\ ins \in Seq(PlanSteps) /\ Len(ins) \in 1..5
    /\ \A i, j \in DOMAIN ins : i # j => ins[i][2] # ins[j][2]
    /\ \A i \in DOMAIN ins : ins[i][1] \in Sure \cup {"try", "command"}
    /\ \A i \in DOMAIN ins : ins[i][1] # "command" => ins[i][2] \in Artefacts
    /\ \A j \in DOMAIN ins : ins[j][1] = "enable" => \E i \in 1..(j - 1) : ins[i] = <<"create", "unit">>
    /\ \E i \in DOMAIN ins : ins[i][2] = "unit" /\ ins[i][1] \in Sure

UninstallPlan(un) ==
    /\ un \in Seq(PlanSteps) /\ Len(un) \in 1..5
    /\ \A i \in DOMAIN un : un[i][1] \in Removes \cup {"command"}
    /\ \A i \in DOMAIN un : un[i][1] # "command" => un[i][2] \in Artefacts
    /\ \E i \in DOMAIN un : un[i][2] = "unit" /\ un[i][1] # "command"
    /\ \A i \in DOMAIN un : un[i][1] = "delete" => un[i][2] = "unit" /\ init = "windows"

GoodPlans(ins, un) == InstallPlan(ins) /\ UninstallPlan(un)

ForgivingPlans(ins, un) ==
    \A i \in DOMAIN ins : ins[i][1] \in Creates =>
      /\ \E k \in DOMAIN un : un[k][1] # "command" /\ un[k][2] = ins[i][2]
      /\ \A k \in DOMAIN un : un[k][1] \in {"disable", "remove", "del"} =>
           \/ Refused(un[k]) = ins[i][2]
           \/ \E j \in 1..(k - 1) : un[j][1] # "command" /\ un[j][2] = ins[i][2]

LEMMA Prepended ==
    ASSUME NEW a, NEW b, NEW c, NEW d
    PROVE  <<a>> \o <<b, c, d>> = <<a, b, c, d>> /\ <<a>> \o <<b, c>> = <<a, b, c>>
<1> DEFINE S == {a, b, c, d}
<1>1. /\ <<a>> \in Seq(S) /\ <<b, c, d>> \in Seq(S) /\ <<a, b, c, d>> \in Seq(S)
      /\ <<b, c>> \in Seq(S) /\ <<a, b, c>> \in Seq(S)
  OBVIOUS
<1>2. <<a>> \o <<b, c, d>> = <<a, b, c, d>>
  <2>1. Len(<<a>> \o <<b, c, d>>) = 4 /\ <<a>> \o <<b, c, d>> \in Seq(S)
    BY <1>1, ConcatProperties
  <2>2. \A i \in 1..4 : (<<a>> \o <<b, c, d>>)[i] = <<a, b, c, d>>[i]
    BY <1>1, ConcatProperties
  <2> QED
    BY <1>1, <2>1, <2>2, SeqEqual
<1>3. <<a>> \o <<b, c>> = <<a, b, c>>
  <2>1. Len(<<a>> \o <<b, c>>) = 3 /\ <<a>> \o <<b, c>> \in Seq(S)
    BY <1>1, ConcatProperties
  <2>2. \A i \in 1..3 : (<<a>> \o <<b, c>>)[i] = <<a, b, c>>[i]
    BY <1>1, ConcatProperties
  <2> QED
    BY <1>1, <2>1, <2>2, SeqEqual
<1> QED
  BY <1>2, <1>3

LEMMA PlansAreGood ==
    ASSUME init \in Inits, NEW ins, NEW un, ins = System.install, un = System.uninstall
    PROVE  GoodPlans(ins, un) /\ (Forgiving => ForgivingPlans(ins, un))
<1>1. CASE init \in {"systemd", "vyos"}
  <2>1. ins = << <<"create", "unit">>, <<"enable", "link">>, <<"command", "reload">> >>
    BY <1>1 DEF System, SystemD
  <2>2. un = << <<"disable", "link">>, <<"remove", "unit">> >>
    BY <1>1 DEF System, SystemD
  <2>3. InstallPlan(ins)
    BY <2>1 DEF InstallPlan, PlanSteps, Verbs, Names, Sure, Artefacts
  <2>4. UninstallPlan(un)
    BY <2>2 DEF UninstallPlan, PlanSteps, Verbs, Names, Removes, Artefacts
  <2>5. GoodPlans(ins, un)
    BY <2>3, <2>4 DEF GoodPlans
  <2>6. ForgivingPlans(ins, un)
    BY <2>1, <2>2 DEF ForgivingPlans, Creates, Refused
  <2> QED
    BY <2>5, <2>6
<1>2. CASE init \in {"ubios"}
  <2>1. ins = << <<"write", "helper">>, <<"create", "unit">>, <<"enable", "link">>, <<"command", "reload">> >>
    <3>1. ins = << <<"write", "helper">> >> \o << <<"create", "unit">>, <<"enable", "link">>, <<"command", "reload">> >>
      BY <1>2 DEF System, UbiOSInit, SystemD
    <3> QED
      BY <3>1, Prepended
  <2>2. un = << <<"quiet", "helper">>, <<"disable", "link">>, <<"remove", "unit">> >>
    <3>1. un = << <<"quiet", "helper">> >> \o << <<"disable", "link">>, <<"remove", "unit">> >>
      BY <1>2 DEF System, UbiOSInit, SystemD
    <3> QED
      BY <3>1, Prepended
  <2>3. InstallPlan(ins)
    BY <2>1 DEF InstallPlan, PlanSteps, Verbs, Names, Sure, Artefacts
  <2>4. UninstallPlan(un)
    BY <2>2 DEF UninstallPlan, PlanSteps, Verbs, Names, Removes, Artefacts
  <2>5. GoodPlans(ins, un)
    BY <2>3, <2>4 DEF GoodPlans
  <2>6. ForgivingPlans(ins, un)
    BY <2>1, <2>2 DEF ForgivingPlans, Creates, Refused
  <2> QED
    BY <2>5, <2>6
<1>3. CASE init \in {"sysv"}
  <2>1. ins = << <<"create", "unit">>, <<"try", "link">> >>
    BY <1>3 DEF System, SysV
  <2>2. un = << <<"remove", "unit">> >>
    BY <1>3 DEF System, SysV
  <2>3. InstallPlan(ins)
    BY <2>1 DEF InstallPlan, PlanSteps, Verbs, Names, Sure, Artefacts
  <2>4. UninstallPlan(un)
    BY <2>2 DEF UninstallPlan, PlanSteps, Verbs, Names, Removes, Artefacts
  <2>5. GoodPlans(ins, un)
    BY <2>3, <2>4 DEF GoodPlans
  <2>6. ForgivingPlans(ins, un)
    BY <2>1, <2>2 DEF ForgivingPlans, Creates, Refused
  <2> QED
    BY <2>5, <2>6
<1>4. CASE init \in {"procd"}
  <2>1. ins = << <<"command", "defaults">>, <<"create", "unit">>, <<"try", "link">> >>
    BY <1>4 DEF System, Procd
  <2>2. un = << <<"remove", "unit">> >>
    BY <1>4 DEF System, Procd
  <2>3. InstallPlan(ins)
    BY <2>1 DEF InstallPlan, PlanSteps, Verbs, Names, Sure, Artefacts
  <2>4. UninstallPlan(un)
    BY <2>2 DEF UninstallPlan, PlanSteps, Verbs, Names, Removes, Artefacts
  <2>5. GoodPlans(ins, un)
    BY <2>3, <2>4 DEF GoodPlans
  <2>6. ForgivingPlans(ins, un)
    BY <2>1, <2>2 DEF ForgivingPlans, Creates, Refused
  <2> QED
    BY <2>5, <2>6
<1>5. CASE init \in {"upstart", "ddwrt", "edgeos", "synology", "firewalla"}
  <2>1. ins = << <<"create", "unit">> >>
    BY <1>5 DEF System, Upstart, DDWRTInit, EdgeOSInit, SynologyInit, Firewalla
  <2>2. un = << <<"remove", "unit">> >>
    BY <1>5 DEF System, Upstart, DDWRTInit, EdgeOSInit, SynologyInit, Firewalla
  <2>3. InstallPlan(ins)
    BY <2>1 DEF InstallPlan, PlanSteps, Verbs, Names, Sure, Artefacts
  <2>4. UninstallPlan(un)
    BY <2>2 DEF UninstallPlan, PlanSteps, Verbs, Names, Removes, Artefacts
  <2>5. GoodPlans(ins, un)
    BY <2>3, <2>4 DEF GoodPlans
  <2>6. ForgivingPlans(ins, un)
    BY <2>1, <2>2 DEF ForgivingPlans, Creates, Refused
  <2> QED
    BY <2>5, <2>6
<1>6. CASE init \in {"openrc"}
  <2>1. ins = << <<"create", "unit">>, <<"enable", "link">> >>
    BY <1>6 DEF System, OpenRC
  <2>2. un = << <<"del", "link">>, <<"remove", "unit">> >>
    BY <1>6 DEF System, OpenRC
  <2>3. InstallPlan(ins)
    BY <2>1 DEF InstallPlan, PlanSteps, Verbs, Names, Sure, Artefacts
  <2>4. UninstallPlan(un)
    BY <2>2 DEF UninstallPlan, PlanSteps, Verbs, Names, Removes, Artefacts
  <2>5. GoodPlans(ins, un)
    BY <2>3, <2>4 DEF GoodPlans
  <2> QED
    BY <1>6, <2>5 DEF Forgiving
<1>7. CASE init \in {"runit"}
  <2>1. ins = << <<"create", "unit">>, <<"link", "link">> >>
    BY <1>7 DEF System, Runit
  <2>2. un = << <<"removeAll", "link">>, <<"removeAll", "unit">> >>
    BY <1>7 DEF System, Runit
  <2>3. InstallPlan(ins)
    BY <2>1 DEF InstallPlan, PlanSteps, Verbs, Names, Sure, Artefacts
  <2>4. UninstallPlan(un)
    BY <2>2 DEF UninstallPlan, PlanSteps, Verbs, Names, Removes, Artefacts
  <2>5. GoodPlans(ins, un)
    BY <2>3, <2>4 DEF GoodPlans
  <2>6. ForgivingPlans(ins, un)
    BY <2>1, <2>2 DEF ForgivingPlans, Creates, Refused
  <2> QED
    BY <2>5, <2>6
<1>8. CASE init \in {"bsd"}
  <2>1. ins = << <<"create", "unit">>, <<"create", "link">> >>
    BY <1>8 DEF System, BSD
  <2>2. un = << <<"remove", "unit">>, <<"remove", "link">> >>
    BY <1>8 DEF System, BSD
  <2>3. InstallPlan(ins)
    BY <2>1 DEF InstallPlan, PlanSteps, Verbs, Names, Sure, Artefacts
  <2>4. UninstallPlan(un)
    BY <2>2 DEF UninstallPlan, PlanSteps, Verbs, Names, Removes, Artefacts
  <2>5. GoodPlans(ins, un)
    BY <2>3, <2>4 DEF GoodPlans
  <2> QED
    BY <1>8, <2>5 DEF Forgiving
<1>9. CASE init \in {"merlin"}
  <2>1. ins = << <<"create", "unit">>, <<"command", "nvram">>, <<"link", "link">> >>
    BY <1>9 DEF System, MerlinInit
  <2>2. un = << <<"quiet", "link">>, <<"remove", "unit">> >>
    BY <1>9 DEF System, MerlinInit
  <2>3. InstallPlan(ins)
    BY <2>1 DEF InstallPlan, PlanSteps, Verbs, Names, Sure, Artefacts
  <2>4. UninstallPlan(un)
    BY <2>2 DEF UninstallPlan, PlanSteps, Verbs, Names, Removes, Artefacts
  <2>5. GoodPlans(ins, un)
    BY <2>3, <2>4 DEF GoodPlans
  <2>6. ForgivingPlans(ins, un)
    BY <2>1, <2>2 DEF ForgivingPlans, Creates, Refused
  <2> QED
    BY <2>5, <2>6
<1>10. CASE init \in {"launchd"}
  <2>1. ins = << <<"create", "unit">> >>
    BY <1>10 DEF System, Launchd
  <2>2. un = << <<"command", "unload">>, <<"remove", "unit">> >>
    BY <1>10 DEF System, Launchd
  <2>3. InstallPlan(ins)
    BY <2>1 DEF InstallPlan, PlanSteps, Verbs, Names, Sure, Artefacts
  <2>4. UninstallPlan(un)
    BY <2>2 DEF UninstallPlan, PlanSteps, Verbs, Names, Removes, Artefacts
  <2>5. GoodPlans(ins, un)
    BY <2>3, <2>4 DEF GoodPlans
  <2>6. ForgivingPlans(ins, un)
    BY <2>1, <2>2 DEF ForgivingPlans, Creates, Refused
  <2> QED
    BY <2>5, <2>6
<1>11. CASE init \in {"windows"}
  <2>1. ins = << <<"write", "helper">>, <<"link", "unit">>, <<"command", "recovery">> >>
    BY <1>11 DEF System, WindowsInit
  <2>2. un = << <<"delete", "unit">> >>
    BY <1>11 DEF System, WindowsInit
  <2>3. InstallPlan(ins)
    BY <2>1 DEF InstallPlan, PlanSteps, Verbs, Names, Sure, Artefacts
  <2>4. UninstallPlan(un)
    BY <1>11, <2>2 DEF UninstallPlan, PlanSteps, Verbs, Names, Removes, Artefacts
  <2>5. GoodPlans(ins, un)
    BY <2>3, <2>4 DEF GoodPlans
  <2> QED
    BY <1>11, <2>5 DEF Forgiving
<1> QED
  BY <1>1, <1>2, <1>3, <1>4, <1>5, <1>6, <1>7, <1>8, <1>9, <1>10, <1>11 DEF Inits

LEMMA FacingIs == ASSUME NEW A, "end" \notin A PROVE Facing(A) <=> Ahead(acts) \in A
BY DEF Facing, Ahead

LEMMA SameSystem == ASSUME UNCHANGED init PROVE System' = System /\ Forgiving' = Forgiving
BY DEF System, Forgiving

LEMMA Plans ==
    ASSUME CInv
    PROVE  /\ GoodPlans(System.install, System.uninstall)
           /\ Forgiving => ForgivingPlans(System.install, System.uninstall)
BY PlansAreGood DEF CInv, CTypeOK

LEMMA PlanNames ==
    ASSUME CInv
    PROVE  /\ System.install \in Seq(PlanSteps) /\ System.uninstall \in Seq(PlanSteps)
           /\ \A i \in 1..Len(System.install) : System.install[i][1] # "command" => System.install[i][2] \in Artefacts
           /\ \A i \in 1..Len(System.uninstall) :
                 System.uninstall[i][1] # "command" => System.uninstall[i][2] \in Artefacts
<1>1. PICK ins, un : ins = System.install /\ un = System.uninstall
  OBVIOUS
<1>2. InstallPlan(ins) /\ UninstallPlan(un)
  BY <1>1, Plans DEF GoodPlans
<1>3. ins \in Seq(PlanSteps) /\ un \in Seq(PlanSteps) /\ DOMAIN ins = 1..Len(ins) /\ DOMAIN un = 1..Len(un)
  BY <1>2 DEF InstallPlan, UninstallPlan
<1> QED
  BY <1>1, <1>2, <1>3 DEF InstallPlan, UninstallPlan

(* The artefacts stay, or the process ends and a marked service with it.    *)
Follows ==
    \/ art' = art /\ (Alive => Alive')
    \/ ~Alive' /\ art' = WithoutProcess

LEMMA FollowsArt ==
    ASSUME ArtOK, Follows, UNCHANGED init
    PROVE  /\ ArtOK'
           /\ \A a \in Artefacts : /\ art'[a] = "whole" <=> art[a] = "whole"
                                   /\ ~Present(a) => ~Present(a)'
                                   /\ Away(a)' <=> Away(a)
<1>1. art \in [Artefacts -> {"none", "whole", "torn", "marked"}] /\ "unit" \in Artefacts
  BY DEF ArtOK, Artefacts
<1>2. CASE art' = art /\ (Alive => Alive')
  BY <1>2 DEF ArtOK, Present, Away
<1>3. CASE ~Alive' /\ art' = WithoutProcess
  <2>1. CASE art["unit"] = "marked"
    <3>1. art' = [art EXCEPT !["unit"] = "none"]
      BY <1>3, <2>1 DEF WithoutProcess
    <3>2. /\ art' \in [Artefacts -> {"none", "whole", "torn", "marked"}] /\ art'["unit"] = "none"
          /\ \A a \in Artefacts \ {"unit"} : art'[a] = art[a] /\ art[a] # "marked"
      BY <1>1, <3>1 DEF ArtOK
    <3> QED
      BY <2>1, <3>2 DEF ArtOK, Present, Away
  <2>2. CASE art["unit"] # "marked"
    <3>1. art' = art
      BY <1>3, <2>2 DEF WithoutProcess
    <3> QED
      BY <2>2, <3>1 DEF ArtOK, Present, Away
  <2> QED
    BY <2>1, <2>2
<1> QED
  BY <1>2, <1>3 DEF Follows

LEMMA InitCInv == HostInit => CInv
<1> SUFFICES ASSUME HostInit PROVE CInv
  OBVIOUS
<1>1. /\ init \in Inits /\ art = [a \in Artefacts |-> "none"] /\ isteps = <<>> /\ acts = <<>> /\ cmd = "none"
      /\ life = "dead" /\ activates = FALSE /\ term = FALSE /\ wanted = "no" /\ cres = "none"
      /\ machine \in Machines /\ auto = machine.auto
  BY DEF HostInit, InitInit
<1>2. auto \in BOOLEAN
  BY <1>1, HostAssumption DEF HostAssumption
<1>3. \A c \in Callers : ~Busy(c)
  BY DEF HostInit, DNSInit, Busy
<1>4. Ahead(acts) = "end"
  BY <1>1 DEF Ahead
<1>5. CTypeOK
  <2>1. isteps \in Seq(PlanSteps) /\ Len(isteps) <= 5 /\ ArtOK
    BY <1>1 DEF ArtOK
  <2>2. ~Busy("cli") /\ ~Busy("daemon")
    BY <1>3, HostAssumption DEF HostAssumption
  <2> QED
    BY <1>1, <1>2, <2>1, <2>2 DEF CTypeOK
<1>6. ActsLeft /\ Stays
  BY <1>1, <1>4 DEF ActsLeft, Stays, Away, Unwanted, Alive, InitActsOf
<1> QED
  BY <1>1, <1>4, <1>5, <1>6 DEF CInv, UninstallSoFar, ClearToInstall, InstallSoFar, Installed, Succeeds

(* How an act ends, by the command it is of.                                *)
LEMMA InstallActEnds ==
    ASSUME CInv, cmd = "install", NEW r \in {"ok", "error"}, ActEnds(r), acts # <<>>
    PROVE  /\ cmd' = "install" /\ ActsLeft'
           /\ Ahead(acts) \in {"stop?", "uninstall?", "save", "install", "start"}
           /\ Ahead(acts) = "stop?" => Ahead(acts') = "uninstall?" /\ cres' = "none"
           /\ Ahead(acts) = "uninstall?" => Ahead(acts') = "save" /\ cres' = "none"
           /\ Ahead(acts) = "save" /\ r = "ok" => Ahead(acts') = "install" /\ cres' = "none"
           /\ Ahead(acts) = "install" /\ r = "ok" => Ahead(acts') = "start" /\ cres' = "none"
           /\ Ahead(acts) = "start" /\ r = "ok" => acts' = <<>> /\ Ahead(acts') = "end" /\ cres' = "ok"
           /\ Ahead(acts) \in {"save", "install", "start"} /\ r = "error" =>
                acts' = <<>> /\ Ahead(acts') = "end" /\ cres' = "error"
<1>1. cmd' = "install" /\ cres = "none"
  BY DEF ActEnds, CInv, Succeeds
<1>2. CASE acts = <<"stop?", "uninstall?", "save", "install", "start">>
  <2>1. Head(acts) = "stop?" /\ Tail(acts) = <<"uninstall?", "save", "install", "start">>
    BY <1>2
  <2>2. acts' = <<"uninstall?", "save", "install", "start">> /\ cres' = "none"
    BY <1>1, <2>1 DEF ActEnds, Facing
  <2>3. Ahead(acts) = "stop?"
    BY <2>1 DEF Ahead
  <2>4. Ahead(<<"uninstall?", "save", "install", "start">>) = "uninstall?"
    BY DEF Ahead
  <2> QED
    BY <1>1, <2>2, <2>3, <2>4 DEF ActsLeft
<1>3. CASE acts = <<"uninstall?", "save", "install", "start">>
  <2>1. Head(acts) = "uninstall?" /\ Tail(acts) = <<"save", "install", "start">>
    BY <1>3
  <2>2. acts' = <<"save", "install", "start">> /\ cres' = "none"
    BY <1>1, <2>1 DEF ActEnds, Facing
  <2>3. Ahead(acts) = "uninstall?"
    BY <2>1 DEF Ahead
  <2>4. Ahead(<<"save", "install", "start">>) = "save"
    BY DEF Ahead
  <2> QED
    BY <1>1, <2>2, <2>3, <2>4 DEF ActsLeft
<1>4. CASE acts = <<"save", "install", "start">>
  <2>1. Head(acts) = "save" /\ Tail(acts) = <<"install", "start">>
    BY <1>4
  <2>2. IF r = "ok" THEN acts' = <<"install", "start">> /\ cres' = "none" ELSE acts' = <<>> /\ cres' = "error"
    BY <1>1, <2>1 DEF ActEnds, Facing
  <2>3. Ahead(acts) = "save"
    BY <2>1 DEF Ahead
  <2>4. Ahead(<<"install", "start">>) = "install" /\ Ahead(<<>>) = "end"
    BY DEF Ahead
  <2> QED
    BY <1>1, <2>2, <2>3, <2>4 DEF ActsLeft
<1>5. CASE acts = <<"install", "start">>
  <2>1. Head(acts) = "install" /\ Tail(acts) = <<"start">>
    BY <1>5
  <2>2. IF r = "ok" THEN acts' = <<"start">> /\ cres' = "none" ELSE acts' = <<>> /\ cres' = "error"
    BY <1>1, <2>1 DEF ActEnds, Facing
  <2>3. Ahead(acts) = "install"
    BY <2>1 DEF Ahead
  <2>4. Ahead(<<"start">>) = "start" /\ Ahead(<<>>) = "end"
    BY DEF Ahead
  <2> QED
    BY <1>1, <2>2, <2>3, <2>4 DEF ActsLeft
<1>6. CASE acts = <<"start">>
  <2>1. Head(acts) = "start" /\ Tail(acts) = <<>>
    BY <1>6
  <2>2. acts' = <<>> /\ cres' = r
    BY <1>1, <2>1 DEF ActEnds, Facing
  <2>3. Ahead(acts) = "start"
    BY <2>1 DEF Ahead
  <2>4. Ahead(<<>>) = "end"
    BY DEF Ahead
  <2> QED
    BY <1>1, <2>2, <2>3, <2>4 DEF ActsLeft
<1> QED
  BY <1>2, <1>3, <1>4, <1>5, <1>6 DEF CInv, ActsLeft

LEMMA UninstallActEnds ==
    ASSUME CInv, cmd = "uninstall", NEW r, ActEnds(r), acts # <<>>
    PROVE  /\ cmd' = "uninstall" /\ ActsLeft'
           /\ Ahead(acts) \in {"deactivate?", "stop?", "uninstall"}
           /\ Ahead(acts) = "deactivate?" => Ahead(acts') = "stop?"
           /\ Ahead(acts) = "stop?" => Ahead(acts') = "uninstall"
           /\ Ahead(acts) = "uninstall" => acts' = <<>> /\ Ahead(acts') = "end"
<1>1. cmd' = "uninstall"
  BY DEF ActEnds
<1>2. CASE acts = <<"deactivate?", "stop?", "uninstall">>
  <2>1. Head(acts) = "deactivate?" /\ Tail(acts) = <<"stop?", "uninstall">>
    BY <1>2
  <2>2. acts' = <<"stop?", "uninstall">>
    BY <1>1, <2>1 DEF ActEnds, Facing
  <2>3. Ahead(acts) = "deactivate?"
    BY <2>1 DEF Ahead
  <2>4. Ahead(<<"stop?", "uninstall">>) = "stop?"
    BY DEF Ahead
  <2> QED
    BY <1>1, <2>2, <2>3, <2>4 DEF ActsLeft
<1>3. CASE acts = <<"stop?", "uninstall">>
  <2>1. Head(acts) = "stop?" /\ Tail(acts) = <<"uninstall">>
    BY <1>3
  <2>2. acts' = <<"uninstall">>
    BY <1>1, <2>1 DEF ActEnds, Facing
  <2>3. Ahead(acts) = "stop?"
    BY <2>1 DEF Ahead
  <2>4. Ahead(<<"uninstall">>) = "uninstall"
    BY DEF Ahead
  <2> QED
    BY <1>1, <2>2, <2>3, <2>4 DEF ActsLeft
<1>4. CASE acts = <<"uninstall">>
  <2>1. Head(acts) = "uninstall" /\ Tail(acts) = <<>>
    BY <1>4
  <2>2. acts' = <<>>
    BY <1>1, <2>1 DEF ActEnds, Facing
  <2>3. Ahead(acts) = "uninstall"
    BY <2>1 DEF Ahead
  <2>4. Ahead(<<>>) = "end"
    BY DEF Ahead
  <2> QED
    BY <1>1, <2>2, <2>3, <2>4 DEF ActsLeft
<1> QED
  BY <1>2, <1>3, <1>4 DEF CInv, ActsLeft

LEMMA OtherActEnds ==
    ASSUME CInv, cmd \notin {"install", "uninstall"}, NEW r, ActEnds(r), acts # <<>>
    PROVE  /\ cmd' \notin {"install", "uninstall"} /\ ActsLeft'
           /\ Ahead(acts) \in OtherActs /\ Ahead(acts') \in OtherActs \cup {"end"}
<1>1. cmd' = cmd /\ (acts' = Tail(acts) \/ acts' = <<>>)
  BY DEF ActEnds
<1>2. acts \in Seq(OtherActs)
  BY DEF CInv, ActsLeft
<1>3. Head(acts) \in OtherActs /\ acts' \in Seq(OtherActs)
  <2>1. Head(acts) \in OtherActs /\ Tail(acts) \in Seq(OtherActs)
    BY <1>2, HeadTailProperties
  <2>2. <<>> \in Seq(OtherActs)
    OBVIOUS
  <2> QED
    BY <1>1, <2>1, <2>2
<1>4. acts' # <<>> => Head(acts') \in OtherActs
  BY <1>3
<1> QED
  BY <1>1, <1>3, <1>4 DEF ActsLeft, Ahead

LEMMA EndTypes == ASSUME CInv, NEW r, ActEnds(r) PROVE cres' \in {"none", "ok", "error", "killed"}
BY DEF ActEnds, CInv, CTypeOK

LEMMA TypedOver ==
    ASSUME CInv, isteps' = <<>>, UNCHANGED <<init, machine>>, ArtOK',
           auto' \in BOOLEAN, activates' \in BOOLEAN, term' \in BOOLEAN, wanted' \in {"no", "yes", "boot"},
           cres' \in {"none", "ok", "error", "killed"}, ~Busy("cli")',
           Busy("daemon")' => life' \in {"activate", "deactivate"}
    PROVE  CTypeOK'
<1>1. isteps' \in Seq(PlanSteps) /\ Len(isteps') <= 5
  OBVIOUS
<1> QED
  BY <1>1 DEF CInv, CTypeOK

(* The daemon or its callers move, and the command does not.                *)
LEMMA NotCommands ==
    ASSUME CInv, UNCHANGED <<cmd, acts, cres, begun, machine, init, isteps>>, Follows, cfault => cfault',
           auto' \in BOOLEAN, activates' \in BOOLEAN, term' \in BOOLEAN, wanted' \in {"no", "yes", "boot"},
           Unwanted => Unwanted', Busy("cli")' => Ahead(acts) \in DNSActs,
           Busy("daemon")' => life' \in {"activate", "deactivate"}
    PROVE  CInv'
<1>1. System' = System /\ Forgiving' = Forgiving
  BY SameSystem
<1>2. /\ ArtOK'
      /\ \A a \in Artefacts : /\ art'[a] = "whole" <=> art[a] = "whole"
                              /\ ~Present(a) => ~Present(a)'
                              /\ Away(a)' <=> Away(a)
  BY FollowsArt DEF CInv, CTypeOK
<1>3. PICK ins, un : ins = System.install /\ un = System.uninstall
  OBVIOUS
<1>4. /\ Len(ins) \in Nat /\ Len(un) \in Nat /\ DOMAIN ins = 1..Len(ins)
      /\ \A i \in 1..Len(ins) : ins[i][1] # "command" => ins[i][2] \in Artefacts
      /\ \A i \in 1..Len(un) : un[i][1] # "command" => un[i][2] \in Artefacts
  <2>1. ins \in Seq(PlanSteps) /\ un \in Seq(PlanSteps)
    BY <1>3, PlanNames
  <2> QED
    BY <1>3, <2>1, PlanNames
<1>5. CTypeOK' /\ ActsLeft'
  BY <1>2 DEF CInv, CTypeOK, ActsLeft
<1>6. Stays'
  BY <1>2 DEF CInv, Stays, Artefacts
<1>7. UninstallSoFar'
  <2>1. SUFFICES ASSUME isteps # <<>>, Ahead(acts) \in {"uninstall", "uninstall?"} PROVE UninstallSoFar'
    BY DEF UninstallSoFar
  <2>2. PICK k \in 0..Len(un) :
          /\ DoneOf(un, k)
          /\ \A i \in 1..k : ~cfault /\ un[i][1] # "command" => Away(un[i][2])
    BY <1>3, <2>1 DEF CInv, UninstallSoFar
  <2>3. \A i \in 1..k : ~cfault' /\ un[i][1] # "command" => Away(un[i][2])'
    <3>1. \A i \in 1..k : i \in 1..Len(un)
      BY <1>4, <2>2
    <3> QED
      BY <1>2, <1>4, <2>2, <3>1
  <2>4. DoneOf(un, k)'
    BY <2>2 DEF DoneOf
  <2> QED
    BY <1>1, <1>3, <2>2, <2>3, <2>4 DEF UninstallSoFar
<1>8. ClearToInstall'
  <2>1. \A i \in DOMAIN ins : ins[i][1] \in Creates /\ ~Present(ins[i][2]) => ~Present(ins[i][2])'
    BY <1>2, <1>4 DEF Creates
  <2> QED
    BY <1>1, <1>3, <2>1 DEF CInv, ClearToInstall
<1>9. InstallSoFar'
  <2>1. SUFFICES ASSUME isteps # <<>>, Ahead(acts) = "install" PROVE InstallSoFar'
    BY DEF InstallSoFar
  <2>2. PICK k \in 0..Len(ins) :
          /\ DoneOf(ins, k)
          /\ \A i \in 1..k : ins[i][1] \in Sure => art[ins[i][2]] = "whole"
          /\ ~cfault /\ Forgiving => \A i \in (k + 1)..Len(ins) : ins[i][1] \in Creates => ~Present(ins[i][2])
    BY <1>3, <2>1 DEF CInv, InstallSoFar
  <2>3. \A i \in 1..k : ins[i][1] \in Sure => art'[ins[i][2]] = "whole"
    <3>1. \A i \in 1..k : i \in 1..Len(ins)
      BY <1>4, <2>2
    <3> QED
      BY <1>2, <1>4, <2>2, <3>1 DEF Sure
  <2>4. ~cfault' /\ Forgiving => \A i \in (k + 1)..Len(ins) : ins[i][1] \in Creates => ~Present(ins[i][2])'
    <3>1. \A i \in (k + 1)..Len(ins) : i \in 1..Len(ins)
      BY <1>4, <2>2
    <3> QED
      BY <1>2, <1>4, <2>2, <3>1 DEF Creates
  <2>5. DoneOf(ins, k)'
    BY <2>2 DEF DoneOf
  <2> QED
    BY <1>1, <1>3, <2>2, <2>3, <2>4, <2>5 DEF InstallSoFar
<1>10. Installed'
  <2>1. \A i \in DOMAIN ins : ins[i][1] \in Sure /\ art[ins[i][2]] = "whole" => art'[ins[i][2]] = "whole"
    BY <1>2, <1>4 DEF Sure
  <2> QED
    BY <1>1, <1>3, <2>1 DEF CInv, Installed
<1>11. Succeeds'
  BY <1>1 DEF CInv, Succeeds
<1> QED
  BY <1>5, <1>6, <1>7, <1>8, <1>9, <1>10, <1>11 DEF CInv

(* An act ends, of a command that is not `install` or is.                   *)
LEMMA OtherOver ==
    ASSUME CInv, cmd # "install", NEW r, ActEnds(r), acts # <<>>, isteps' = <<>>, CTypeOK', Stays'
    PROVE  CInv'
<1>1. cmd' # "install" /\ ActsLeft'
  BY UninstallActEnds, OtherActEnds
<1> QED
  BY <1>1 DEF CInv, UninstallSoFar, ClearToInstall, InstallSoFar, Installed, Succeeds

LEMMA InstallOver ==
    ASSUME CInv, cmd = "install", NEW r \in {"ok", "error"}, ActEnds(r), acts # <<>>, isteps' = <<>>, CTypeOK', Stays',
           ClearToInstall', Installed', Succeeds'
    PROVE  CInv'
BY InstallActEnds DEF CInv, UninstallSoFar, InstallSoFar

(* Where no unit is written the service is as it was.                       *)
LEMMA IdleInit == ASSUME CInv, Ahead(acts) \notin InitActsOf PROVE isteps = <<>>
BY DEF CInv, CTypeOK

LEMMA OnStopped == ASSUME CInv, Stopped PROVE CInv'
<1>1. PICK r \in {"ok", "error"} : ActEnds(r)
  BY DEF Stopped
<1>2. /\ wanted' = "no" /\ acts # <<>> /\ Ahead(acts) \in {"stop", "stop?"}
      /\ UNCHANGED <<step, machine, init, art, isteps, auto, life, activates, term, begun, cfault>> /\ (Alive => term)
  BY FacingIs DEF Stopped, Facing, dnsvars, ivars, faultvars
<1>3. isteps = <<>> /\ ~Busy("cli")
  BY <1>2, IdleInit DEF CInv, CTypeOK, InitActsOf, DNSActs
<1>4. CTypeOK'
  BY <1>1, <1>2, <1>3, EndTypes, TypedOver DEF CInv, CTypeOK, ArtOK, Alive, Busy
<1>5. Stays'
  BY <1>2 DEF Stays, Unwanted, Alive
<1>6. CASE cmd # "install"
  BY <1>1, <1>2, <1>3, <1>4, <1>5, <1>6, OtherOver
<1>7. CASE cmd = "install"
  <2>1. Ahead(acts') = "uninstall?" /\ cres' = "none" /\ acts' # <<>>
    BY <1>1, <1>2, <1>7, InstallActEnds DEF Ahead
  <2>2. ClearToInstall' /\ Installed' /\ Succeeds'
    BY <2>1 DEF ClearToInstall, Installed, Succeeds
  <2> QED
    BY <1>1, <1>2, <1>3, <1>4, <1>5, <1>7, <2>2, InstallOver
<1> QED
  BY <1>6, <1>7

LEMMA OnNoUnit == ASSUME CInv, NoUnit PROVE CInv'
<1>1. PICK r \in {"ok", "error"} : r = "error" /\ ActEnds(r)
  BY DEF NoUnit
<1>2. /\ acts # <<>> /\ Ahead(acts) \in {"stop", "stop?", "start"} /\ ~Present("unit")
      /\ UNCHANGED <<step, machine, init, art, isteps, auto, life, activates, term, wanted, begun, cfault>>
  BY FacingIs DEF NoUnit, Facing, dnsvars, ivars, faultvars, lifevars
<1>3. isteps = <<>> /\ ~Busy("cli")
  BY <1>2, IdleInit DEF CInv, CTypeOK, InitActsOf, DNSActs
<1>4. CTypeOK'
  BY <1>1, <1>2, <1>3, EndTypes, TypedOver DEF CInv, CTypeOK, ArtOK, Alive, Busy
<1>5. Stays'
  BY <1>2 DEF CInv, Stays, Unwanted, Alive, Present, Away
<1>6. CASE cmd # "install"
  BY <1>1, <1>2, <1>3, <1>4, <1>5, <1>6, OtherOver
<1>7. CASE cmd = "install"
  <2>1. Ahead(acts) # "start"
    <3>1. PICK i \in DOMAIN System.install : System.install[i][2] = "unit" /\ System.install[i][1] \in Sure
      BY Plans DEF GoodPlans, InstallPlan, UninstallPlan
    <3> QED
      BY <1>2, <1>7, <3>1 DEF CInv, Installed, Present
  <2>2. Ahead(acts') = "uninstall?" /\ cres' = "none" /\ acts' # <<>>
    BY <1>1, <1>2, <1>7, <2>1, InstallActEnds DEF Ahead
  <2>3. ClearToInstall' /\ Installed' /\ Succeeds'
    BY <2>2 DEF ClearToInstall, Installed, Succeeds
  <2> QED
    BY <1>1, <1>2, <1>3, <1>4, <1>5, <1>7, <2>3, InstallOver
<1> QED
  BY <1>6, <1>7

LEMMA OnStartService == ASSUME CInv, StartService PROVE CInv'
<1>1. PICK r \in {"ok", "error"} : ActEnds(r) /\ r = IF Alive /\ init = "windows" THEN "error" ELSE "ok"
  BY DEF StartService
<1>2. /\ acts # <<>> /\ Ahead(acts) = "start" /\ Present("unit")
      /\ UNCHANGED <<step, machine, init, art, isteps, auto, cfault>>
  <2>1. Facing({"start"}) /\ Present("unit") /\ UNCHANGED <<dnsvars, ivars, machine, auto, faultvars>>
    BY DEF StartService
  <2>2. acts # <<>> /\ Ahead(acts) = "start"
    BY <2>1 DEF Facing, Ahead
  <2> QED
    BY <2>1, <2>2 DEF dnsvars, ivars, faultvars
<1>3. isteps = <<>> /\ ~Busy("cli")
  BY <1>2, IdleInit DEF CInv, CTypeOK, InitActsOf, DNSActs
<1>4. /\ activates' \in BOOLEAN /\ term' \in BOOLEAN /\ wanted' \in {"no", "yes", "boot"}
      /\ \/ life = "dead" /\ Alive' /\ begun' = TRUE
         \/ Alive /\ life' = life /\ init # "windows" /\ (System.script \/ ~term) /\ begun' = begun
         \/ Alive /\ init = "windows" /\ UNCHANGED <<life, term, wanted, begun>>
  BY DEF StartService, Spawn, CInv, CTypeOK, Alive, lifevars
<1>5. CTypeOK'
  <2>1. life = "dead" => ~Busy("daemon")
    BY DEF CInv, CTypeOK
  <2>2. Busy("daemon")' => life' \in {"activate", "deactivate"}
    BY <1>2, <1>4, <2>1 DEF CInv, CTypeOK, Busy
  <2>3. ArtOK'
    BY <1>2, <1>4, FollowsArt DEF CInv, CTypeOK, Follows, Alive
  <2>4. ~Busy("cli")' /\ auto' \in BOOLEAN
    BY <1>2, <1>3 DEF CInv, CTypeOK, Busy
  <2> QED
    BY <1>1, <1>2, <1>3, <1>4, <2>2, <2>3, <2>4, EndTypes, TypedOver
<1>6. ASSUME Ahead(acts') \notin InitActsOf, ~(cmd' = "install" /\ Ahead(acts') \in {"save", "start"}) PROVE Stays'
  <2>1. Away("unit") => Unwanted /\ UNCHANGED <<life, term, wanted>>
    BY <1>2, <1>4 DEF CInv, CTypeOK, ArtOK, Stays, Away, Present, Artefacts, Alive
  <2>2. Away("unit")' => Unwanted'
    BY <1>2, <2>1 DEF Away, Unwanted, Alive
  <2> QED
    BY <1>6, <2>2 DEF Stays
<1>7. CASE cmd # "install"
  <2>1. Ahead(acts') \notin InitActsOf /\ cmd' # "install"
    BY <1>1, <1>2, <1>7, UninstallActEnds, OtherActEnds DEF InitActsOf, OtherActs
  <2> QED
    BY <1>1, <1>2, <1>3, <1>5, <1>6, <1>7, <2>1, OtherOver
<1>8. CASE cmd = "install"
  <2>1. acts' = <<>> /\ Ahead(acts') = "end" /\ cres' = r
    BY <1>1, <1>2, <1>8, InstallActEnds
  <2>2. Stays'
    BY <1>6, <2>1 DEF InitActsOf
  <2>3. ClearToInstall'
    BY <2>1 DEF ClearToInstall
  <2>4. System' = System /\ Forgiving' = Forgiving
    BY <1>2, SameSystem
  <2>5. Installed'
    BY <1>2, <1>8, <2>4 DEF CInv, Installed
  <2>6. r = "ok" => begun' \/ System.script
    BY <1>1, <1>2, <1>4, <1>8 DEF CInv, Stays, Unwanted
  <2>7. r = "error" => ~Forgiving
    BY <1>1 DEF Forgiving
  <2>8. Succeeds'
    BY <2>1, <2>4, <2>6, <2>7 DEF Succeeds
  <2> QED
    BY <1>1, <1>2, <1>3, <1>5, <1>8, <2>2, <2>3, <2>5, <2>8, InstallOver
<1> QED
  BY <1>7, <1>8

LEMMA InstallHeads ==
    ASSUME CInv, cmd = "install"
    PROVE  Ahead(acts) \in {"stop?", "uninstall?", "save", "install", "start", "end"}
<1>1. /\ Ahead(<<"stop?", "uninstall?", "save", "install", "start">>) = "stop?"
      /\ Ahead(<<"uninstall?", "save", "install", "start">>) = "uninstall?"
  BY DEF Ahead
<1>2. /\ Ahead(<<"save", "install", "start">>) = "save" /\ Ahead(<<"install", "start">>) = "install"
      /\ Ahead(<<"start">>) = "start" /\ Ahead(<<>>) = "end"
  BY DEF Ahead
<1> QED
  BY <1>1, <1>2 DEF CInv, ActsLeft

LEMMA OnStatusAsked == ASSUME CInv, StatusAsked PROVE CInv'
<1>1. PICK r \in {"ok", "error"} : ActEnds(r)
  BY DEF StatusAsked
<1>2. /\ acts # <<>> /\ Ahead(acts) = "status"
      /\ UNCHANGED <<step, machine, init, art, isteps, auto, life, activates, term, wanted, cfault>>
  <2>1. acts # <<>> /\ Ahead(acts) = "status"
    BY DEF StatusAsked, Facing, Ahead
  <2> QED
    BY <2>1 DEF StatusAsked, dnsvars, ivars, faultvars, lifevars
<1>3. isteps = <<>> /\ ~Busy("cli")
  BY <1>2, IdleInit DEF CInv, CTypeOK, InitActsOf, DNSActs
<1>4. CTypeOK'
  BY <1>1, <1>2, <1>3, EndTypes, TypedOver DEF CInv, CTypeOK, ArtOK, Alive, Busy
<1>5. cmd # "install" /\ cmd' # "install" /\ Ahead(acts') \notin InitActsOf
  <2>1. cmd \notin {"install", "uninstall"}
    BY <1>1, <1>2, InstallActEnds, UninstallActEnds
  <2> QED
    BY <1>1, <1>2, <2>1, OtherActEnds DEF InitActsOf, OtherActs
<1>6. Stays'
  BY <1>2, <1>5 DEF CInv, Stays, Away, Unwanted, Alive
<1> QED
  BY <1>1, <1>2, <1>3, <1>4, <1>5, <1>6, OtherOver

LEMMA OnSaveConfig == ASSUME CInv, SaveConfig PROVE CInv'
<1>1. PICK r \in {"ok", "error"} : r = "ok" /\ ActEnds(r)
  BY DEF SaveConfig
<1>2. /\ acts # <<>> /\ Ahead(acts) = "save"
      /\ UNCHANGED <<step, machine, init, art, isteps, life, activates, term, wanted, cfault>>
  <2>1. acts # <<>> /\ Ahead(acts) = "save"
    BY DEF SaveConfig, Facing, Ahead
  <2> QED
    BY <2>1 DEF SaveConfig, dnsvars, ivars, faultvars, lifevars
<1>3. isteps = <<>> /\ ~Busy("cli")
  BY <1>2, IdleInit DEF CInv, CTypeOK, InitActsOf, DNSActs
<1>4. CTypeOK'
  <2>1. auto' \in BOOLEAN
    BY HostAssumption DEF SaveConfig, HostAssumption, CInv, CTypeOK
  <2> QED
    BY <1>1, <1>2, <1>3, <2>1, EndTypes, TypedOver DEF CInv, CTypeOK, ArtOK, Alive, Busy
<1>5. CASE cmd # "install"
  <2>1. cmd' # "install" /\ Ahead(acts') \notin InitActsOf
    BY <1>1, <1>2, <1>5, UninstallActEnds, OtherActEnds DEF InitActsOf, OtherActs
  <2>2. Stays'
    BY <1>2, <2>1 DEF CInv, Stays, Away, Unwanted, Alive
  <2> QED
    BY <1>1, <1>2, <1>3, <1>4, <1>5, <2>2, OtherOver
<1>6. CASE cmd = "install"
  <2>1. Ahead(acts') = "install" /\ cres' = "none" /\ acts' # <<>>
    BY <1>1, <1>2, <1>6, InstallActEnds DEF Ahead
  <2>2. Stays'
    BY <1>2, <1>6, <2>1 DEF CInv, Stays, Away, Unwanted, Alive
  <2>3. ClearToInstall'
    <3>1. System' = System /\ Forgiving' = Forgiving
      BY <1>2, SameSystem
    <3> QED
      BY <1>2, <1>6, <3>1 DEF CInv, ClearToInstall, Present
  <2>4. Installed' /\ Succeeds'
    BY <2>1 DEF Installed, Succeeds
  <2> QED
    BY <1>1, <1>2, <1>3, <1>4, <1>6, <2>2, <2>3, <2>4, InstallOver
<1> QED
  BY <1>5, <1>6

LEMMA OnCommand == ASSUME CInv, Command PROVE CInv'
<1>1. /\ acts = <<>> /\ cmd' \in CommandNames /\ acts' = ActsOf(cmd') /\ cres' = "none"
      /\ UNCHANGED <<step, machine, init, art, isteps, auto, life, activates, term, wanted>>
  BY DEF Command, dnsvars, ivars, lifevars
<1>2. Ahead(acts) = "end"
  BY <1>1 DEF Ahead
<1>3. isteps = <<>> /\ ~Busy("cli")
  BY <1>2 DEF CInv, CTypeOK, InitActsOf, DNSActs
<1>4. CTypeOK'
  BY <1>1, <1>3, TypedOver DEF CInv, CTypeOK, ArtOK, Alive, Busy
<1>5. cmd' = "install" => acts' = <<"stop?", "uninstall?", "save", "install", "start">> /\ Ahead(acts') = "stop?"
  <2>1. Ahead(<<"stop?", "uninstall?", "save", "install", "start">>) = "stop?"
    BY DEF Ahead
  <2> QED
    BY <1>1, <2>1 DEF ActsOf
<1>6. cmd' = "uninstall" => acts' = <<"deactivate?", "stop?", "uninstall">> /\ Ahead(acts') = "deactivate?"
  <2>1. Ahead(<<"deactivate?", "stop?", "uninstall">>) = "deactivate?"
    BY DEF Ahead
  <2> QED
    BY <1>1, <2>1 DEF ActsOf
<1>7. cmd' \notin {"install", "uninstall"} => acts' \in Seq(OtherActs)
  <2>1. CASE cmd' = "restart"
    BY <1>1, <2>1 DEF ActsOf, OtherActs
  <2>2. CASE cmd' = "activate"
    BY <1>1, <2>2 DEF ActsOf, OtherActs
  <2>3. CASE cmd' = "deactivate"
    BY <1>1, <2>3 DEF ActsOf, OtherActs
  <2>4. CASE cmd' \in {"start", "stop", "status"}
    <3>1. PICK a : a = cmd'
      OBVIOUS
    <3>2. a \in OtherActs
      BY <2>4, <3>1 DEF OtherActs
    <3>3. acts' = <<a>>
      BY <1>1, <2>4, <3>1 DEF ActsOf
    <3> QED
      BY <3>2, <3>3
  <2> QED
    BY <1>1, <2>1, <2>2, <2>3, <2>4 DEF CommandNames
<1>8. ActsLeft'
  BY <1>5, <1>6, <1>7 DEF ActsLeft
<1>9. Ahead(acts') \notin InitActsOf
  <2>1. acts' \in Seq(OtherActs) => Ahead(acts') \in OtherActs \cup {"end"}
    <3>1. ASSUME NEW a \in Seq(OtherActs) PROVE Ahead(a) \in OtherActs \cup {"end"}
      BY HeadTailProperties DEF Ahead
    <3> QED
      BY <3>1
  <2> QED
    BY <1>5, <1>6, <1>7, <2>1 DEF InitActsOf, OtherActs
<1>10. Stays'
  BY <1>1, <1>5, <1>9 DEF CInv, Stays, Away, Unwanted, Alive
<1>11. acts' # <<>> /\ (cmd' = "install" => Ahead(acts') = "stop?") /\ isteps' = <<>> /\ cres' = "none"
  <2>1. acts' # <<>>
    <3>1. CASE cmd' \in {"start", "stop", "status"}
      BY <1>1, <3>1 DEF ActsOf
    <3>2. CASE cmd' \notin {"start", "stop", "status"}
      BY <1>1, <3>2 DEF ActsOf, CommandNames
    <3> QED
      BY <3>1, <3>2
  <2> QED
    BY <1>1, <1>3, <1>5, <2>1
<1>12. UninstallSoFar' /\ ClearToInstall' /\ InstallSoFar' /\ Installed' /\ Succeeds'
  BY <1>11 DEF UninstallSoFar, ClearToInstall, InstallSoFar, Installed, Succeeds
<1> QED
  BY <1>4, <1>8, <1>10, <1>12 DEF CInv

LEMMA OnDNSBegins == ASSUME CInv, IInv, DNSBegins PROVE CInv'
<1>1. /\ Ahead(acts) \in DNSActs
      /\ UNCHANGED <<cmd, acts, cres, begun, machine, init, art, isteps, auto, life, activates, term, wanted, cfault>>
  <2>1. Ahead(acts) \in DNSActs
    BY DEF DNSBegins, Facing, Ahead
  <2> QED
    BY <2>1 DEF DNSBegins, ivars, cmdvars, lifevars, faultvars
<1>2. \A d \in Callers \ {"cli"} : step'[d] = step[d]
  <2>1. PICK o : DNSCall("cli", o)
    BY DEF DNSBegins
  <2> QED
    BY <2>1, HostAssumption DEF DNSCall, SetDNS, ResetDNS, Each, DNSBegin, IInv, DNSTypeOK, HostAssumption
<1>3. Busy("daemon")' => Busy("daemon")
  BY <1>2, HostAssumption DEF Busy, HostAssumption
<1> QED
  BY <1>1, <1>3, NotCommands DEF CInv, CTypeOK, Unwanted, Alive, Follows

LEMMA OnDNSCalls == ASSUME CInv, IInv, DNSCalls PROVE CInv'
<1>1. PICK c \in Callers :
        /\ (DNSStep(c) /\ UNCHANGED faultvars) \/ (DNSFault(c) /\ Fault)
        /\ IF c = "cli" /\ step'[c] = "idle" THEN ActEnds(result'[c]) /\ UNCHANGED begun ELSE UNCHANGED cmdvars
        /\ UNCHANGED <<rvars, ivars, machine, auto, lifevars>>
  BY DEF DNSCalls
<1>2. /\ cfault => cfault'
      /\ UNCHANGED <<machine, init, art, isteps, auto, life, activates, term, wanted>>
  BY <1>1 DEF Fault, faultvars, ivars, lifevars
<1>3. Busy(c) /\ \A d \in Callers \ {c} : step'[d] = step[d]
  BY <1>1, ByItself DEF Frame, Busy
<1>4. /\ "cli" \in Callers /\ "daemon" \in Callers
      /\ Busy("daemon")' => Busy("daemon")
      /\ Busy("cli")' => Busy("cli")
  BY <1>3, HostAssumption DEF Busy, HostAssumption
<1>5. /\ auto' \in BOOLEAN /\ activates' \in BOOLEAN /\ term' \in BOOLEAN /\ wanted' \in {"no", "yes", "boot"}
      /\ ArtOK' /\ Follows
      /\ Unwanted => Unwanted'
      /\ Busy("cli")' => Ahead(acts) \in DNSActs
      /\ Busy("daemon")' => life' \in {"activate", "deactivate"}
  BY <1>2, <1>4 DEF CInv, CTypeOK, ArtOK, Follows, Unwanted, Alive
<1>6. CASE c = "cli" /\ step'[c] = "idle"
  <2>1. PICK r : ActEnds(r)
    BY <1>1, <1>6
  <2>2. Ahead(acts) \in DNSActs /\ ~Busy("cli")'
    BY <1>3, <1>6 DEF CInv, CTypeOK, Busy
  <2>3. isteps' = <<>> /\ acts # <<>>
    BY <1>2, <2>2, IdleInit DEF Ahead, DNSActs, InitActsOf
  <2>4. CTypeOK'
    <3>1. cres' \in {"none", "ok", "error", "killed"}
      BY <2>1, EndTypes
    <3> QED
      BY <1>5, <1>2, <2>2, <2>3, <3>1, TypedOver
  <2>5. cmd # "install"
    BY <2>2, InstallHeads DEF DNSActs
  <2>6. cmd' # "install" /\ Ahead(acts') \notin InitActsOf
    BY <2>1, <2>2, <2>3, <2>5, UninstallActEnds, OtherActEnds DEF InitActsOf, OtherActs, DNSActs
  <2>7. Stays'
    BY <1>2, <2>6 DEF CInv, Stays, Away, Unwanted, Alive
  <2> QED
    BY <2>1, <2>3, <2>4, <2>5, <2>7, OtherOver
<1>7. CASE ~(c = "cli" /\ step'[c] = "idle")
  <2>1. UNCHANGED <<cmd, acts, cres, begun>>
    BY <1>1, <1>7 DEF cmdvars
  <2> QED
    BY <1>2, <1>5, <2>1, NotCommands
<1> QED
  BY <1>6, <1>7

(* The daemon moves.                                                        *)
LEMMA DaemonMoves ==
    ASSUME CInv, UNCHANGED <<cmd, acts, cres, begun, machine, init, isteps, auto>>, Follows, cfault => cfault',
           activates' \in BOOLEAN, term' \in BOOLEAN, wanted' \in {"no", "yes", "boot"},
           Unwanted => Unwanted', Busy("cli")' => Busy("cli"),
           Busy("daemon")' => life' \in {"activate", "deactivate"}
    PROVE  CInv'
<1>1. auto' \in BOOLEAN /\ (Busy("cli")' => Ahead(acts) \in DNSActs)
  BY DEF CInv, CTypeOK
<1> QED
  BY <1>1, NotCommands

LEMMA OnLife ==
    ASSUME CInv, Listen \/ ListenFails \/ Started \/ Stopping \/ Exit \/ RouterCall
    PROVE  CInv'
<1>1. /\ UNCHANGED <<step, cmd, acts, cres, begun, machine, init, isteps, auto>>
      /\ cfault => cfault'
      /\ UNCHANGED <<activates, wanted>>
      /\ term' \in {term, FALSE}
      /\ Follows
  <2>1. UNCHANGED <<dnsvars, init, isteps, machine, auto, cmdvars>>
    BY DEF Listen, ListenFails, Started, Stopping, Exit, Gone, RouterCall, ivars
  <2>2. cfault => cfault'
    BY DEF Listen, ListenFails, Started, Stopping, Exit, RouterCall, Fault, faultvars
  <2>3. UNCHANGED <<activates, wanted>> /\ term' \in {term, FALSE}
    BY DEF Listen, ListenFails, Started, Stopping, Exit, RouterCall, Live, Gone, lifevars
  <2>4. Follows
    <3>1. CASE Listen \/ Started \/ Stopping \/ RouterCall
      BY <3>1 DEF Listen, Started, Stopping, RouterCall, Live, lifevars, ivars, Follows, Alive
    <3>2. CASE ListenFails \/ Exit
      BY <3>2 DEF ListenFails, Exit, Gone, Follows, Alive
    <3> QED
      BY <3>1, <3>2
  <2> QED
    BY <2>1, <2>2, <2>3, <2>4 DEF dnsvars, cmdvars
<1>2. /\ Busy("daemon")' => Busy("daemon")
      /\ Busy("cli")' => Busy("cli")
  BY <1>1 DEF Busy
<1>3. activates' \in BOOLEAN /\ term' \in BOOLEAN /\ wanted' \in {"no", "yes", "boot"}
  BY <1>1 DEF CInv, CTypeOK
<1>4. Unwanted => Unwanted'
  <2>1. CASE Listen \/ Started \/ Stopping \/ RouterCall
    <3>1. UNCHANGED <<term, wanted>> /\ (life = "dead" => life' = "dead")
      BY <2>1 DEF Listen, Started, Stopping, RouterCall, Live, lifevars
    <3> QED
      BY <3>1 DEF Unwanted, Alive
  <2>2. CASE ListenFails \/ Exit
    <3>1. wanted' = wanted /\ life' = "dead"
      BY <2>2 DEF ListenFails, Exit, Gone
    <3> QED
      BY <3>1 DEF Unwanted, Alive
  <2> QED
    BY <2>1, <2>2
<1>5. Busy("daemon")' => life' \in {"activate", "deactivate"}
  <2>1. Busy("daemon") => life \in {"activate", "deactivate"}
    BY DEF CInv, CTypeOK
  <2>2. CASE Listen \/ ListenFails \/ Started \/ Stopping \/ Exit
    BY <1>2, <2>1, <2>2 DEF Listen, ListenFails, Started, Stopping, Exit, Live
  <2>3. CASE RouterCall
    BY <1>2, <2>1, <2>3 DEF RouterCall, lifevars
  <2> QED
    BY <2>2, <2>3
<1> QED
  BY <1>1, <1>2, <1>3, <1>4, <1>5, DaemonMoves

LEMMA OnRespawn == ASSUME CInv, Respawn PROVE CInv'
<1>1. /\ UNCHANGED <<step, cmd, acts, cres, begun, machine, init, art, isteps, auto, cfault>>
      /\ life = "dead" /\ wanted # "no" /\ wanted' = "yes" /\ term' = FALSE
  BY DEF Respawn, Spawn, Alive, dnsvars, ivars, cmdvars, faultvars
<1>2. ~Busy("daemon")'
  BY <1>1 DEF CInv, CTypeOK, Busy
<1>3. activates' \in BOOLEAN
  BY DEF Respawn, Spawn, CInv, CTypeOK
<1>4. Follows
  BY <1>1 DEF Follows, Alive
<1> QED
  BY <1>1, <1>2, <1>3, <1>4, DaemonMoves DEF Unwanted, Busy

LEMMA OnDaemonDNS == ASSUME CInv, IInv, Activate \/ Deactivate PROVE CInv'
<1>1. /\ UNCHANGED <<cmd, acts, cres, begun, machine, init, art, isteps, auto, activates, term, wanted, cfault>>
      /\ Alive /\ life' \in {"activate", "deactivate"}
  BY DEF Activate, Deactivate, DaemonDNS, Live, ivars, cmdvars, faultvars, Alive
<1>2. \A d \in Callers \ {"daemon"} : step'[d] = step[d]
  <2>1. CASE UNCHANGED dnsvars
    BY <2>1 DEF dnsvars
  <2>2. ASSUME NEW o, DNSCall("daemon", o) PROVE \A d \in Callers \ {"daemon"} : step'[d] = step[d]
    BY <2>2, HostAssumption DEF DNSCall, SetDNS, ResetDNS, Each, DNSBegin, IInv, DNSTypeOK, HostAssumption
  <2> QED
    BY <2>1, <2>2 DEF Activate, Deactivate, DaemonDNS
<1>3. Busy("cli")' => Busy("cli")
  BY <1>2, HostAssumption DEF Busy, HostAssumption
<1>4. activates' \in BOOLEAN /\ term' \in BOOLEAN /\ wanted' \in {"no", "yes", "boot"}
  BY <1>1 DEF CInv, CTypeOK
<1>5. (Unwanted => Unwanted') /\ Follows
  BY <1>1 DEF Unwanted, Follows, Alive
<1> QED
  BY <1>1, <1>3, <1>4, <1>5, DaemonMoves

LEMMA OnKilled == ASSUME CInv, IInv, Killed PROVE CInv'
<1>1. /\ UNCHANGED <<cmd, acts, cres, begun, machine, init, isteps, auto, activates, wanted>>
      /\ cfault' = TRUE /\ life' = "dead" /\ term' = FALSE /\ art' = WithoutProcess
      /\ step' = [step EXCEPT !["daemon"] = "idle"]
  BY DEF Killed, Gone, Fault, DNSCrash, cmdvars
<1>2. ~Busy("daemon")'
  BY <1>1, HostAssumption DEF Busy, IInv, DNSTypeOK, HostAssumption
<1>3. Busy("cli")' => Busy("cli")
  BY <1>1, HostAssumption DEF Busy, IInv, DNSTypeOK, HostAssumption
<1>4. activates' \in BOOLEAN /\ term' \in BOOLEAN /\ wanted' \in {"no", "yes", "boot"}
  BY <1>1 DEF CInv, CTypeOK
<1>5. (Unwanted => Unwanted') /\ Follows
  BY <1>1 DEF Unwanted, Follows, Alive
<1> QED
  BY <1>1, <1>2, <1>3, <1>4, <1>5, DaemonMoves

LEMMA OnStopSent == ASSUME CInv, StopSent PROVE CInv'
<1>1. /\ UNCHANGED <<step, cmd, acts, cres, begun, machine, init, art, isteps, auto, life, activates, cfault>>
      /\ term' = TRUE /\ wanted' = "no"
  BY DEF StopSent, dnsvars, ivars, cmdvars, faultvars
<1>2. /\ Busy("cli")' => Busy("cli")
      /\ Busy("daemon")' => life' \in {"activate", "deactivate"}
  BY <1>1 DEF Busy, CInv, CTypeOK
<1>3. activates' \in BOOLEAN /\ term' \in BOOLEAN /\ wanted' \in {"no", "yes", "boot"}
  BY <1>1 DEF CInv, CTypeOK
<1>4. Unwanted' /\ Follows
  BY <1>1 DEF Unwanted, Follows, Alive
<1> QED
  BY <1>1, <1>2, <1>3, <1>4, DaemonMoves

LEMMA OnAside == ASSUME CInv, UNCHANGED hvars PROVE CInv'
<1>1. UNCHANGED <<step, cmd, acts, cres, begun, machine, init, art, isteps, auto, life, activates, term, wanted,
                  cfault>>
  BY DEF hvars, dnsvars, ivars, cmdvars, lifevars, faultvars
<1>2. /\ Busy("cli")' => Busy("cli")
      /\ Busy("daemon")' => life' \in {"activate", "deactivate"}
  BY <1>1 DEF Busy, CInv, CTypeOK
<1>3. activates' \in BOOLEAN /\ term' \in BOOLEAN /\ wanted' \in {"no", "yes", "boot"}
  BY <1>1 DEF CInv, CTypeOK
<1>4. (Unwanted => Unwanted') /\ Follows
  BY <1>1 DEF Unwanted, Follows, Alive
<1> QED
  BY <1>1, <1>2, <1>3, <1>4, DaemonMoves

(* No command is under way any more.                                        *)
LEMMA NothingUnderWay ==
    ASSUME CInv, acts' = <<>>, isteps' = <<>>, UNCHANGED <<cmd, init>>, CTypeOK', Stays',
           cres' = "killed" \/ (UNCHANGED <<acts, cres, begun>> /\ Follows), cfault => cfault'
    PROVE  CInv'
<1>1. Ahead(acts') = "end"
  BY DEF Ahead
<1>2. System' = System /\ Forgiving' = Forgiving
  BY SameSystem
<1>3. ActsLeft'
  BY DEF ActsLeft
<1>4. UninstallSoFar' /\ InstallSoFar' /\ ClearToInstall'
  BY <1>1 DEF UninstallSoFar, InstallSoFar, ClearToInstall
<1>5. Installed' /\ Succeeds'
  <2>1. CASE cres' = "killed"
    BY <1>1, <2>1 DEF Installed, Succeeds
  <2>2. CASE UNCHANGED <<acts, cres, begun>> /\ Follows
    <3>1. \A a \in Artefacts : art[a] = "whole" => art'[a] = "whole"
      BY <2>2, FollowsArt DEF CInv, CTypeOK
    <3>2. \A i \in DOMAIN System.install : System.install[i][1] \in Sure => System.install[i][2] \in Artefacts
      BY PlanNames DEF Sure
    <3> QED
      BY <1>1, <1>2, <2>2, <3>1, <3>2 DEF CInv, Installed, Succeeds
  <2> QED
    BY <2>1, <2>2
<1> QED
  BY <1>3, <1>4, <1>5 DEF CInv

LEMMA Dying ==
    ASSUME CInv, NEW remains, CommandDies(remains),
           (remains = art /\ life' = life) \/ (remains = WithoutProcess /\ ~Alive')
    PROVE  /\ acts' = <<>> /\ isteps' = <<>> /\ cres' = "killed" /\ auto' \in BOOLEAN /\ UNCHANGED <<cmd, init>>
           /\ ArtOK'
           /\ Away("unit")' => Away("unit")
<1>1. acts' = <<>> /\ isteps' = <<>> /\ cres' = "killed" /\ UNCHANGED <<cmd, init>>
  BY DEF CommandDies
<1>2. auto' \in BOOLEAN
  BY DEF CommandDies, CInv, CTypeOK
<1>3. \/ art' = remains
      \/ \E a : art' = [remains EXCEPT ![a] = "torn"]
  BY DEF CommandDies
<1>4. /\ remains \in [Artefacts -> {"none", "whole", "torn", "marked"}]
      /\ \A a \in Artefacts : remains[a] = "marked" => a = "unit" /\ init = "windows" /\ Alive'
      /\ remains["unit"] \in {"none", "marked"} => Away("unit")
  <2>1. ArtOK /\ "unit" \in Artefacts
    BY DEF CInv, CTypeOK, Artefacts
  <2>2. CASE remains = art /\ life' = life
    BY <2>1, <2>2 DEF ArtOK, Away, Alive
  <2>3. CASE remains = WithoutProcess /\ ~Alive'
    <3>1. CASE art["unit"] = "marked"
      <4>1. remains = [art EXCEPT !["unit"] = "none"]
        BY <2>3, <3>1 DEF WithoutProcess
      <4>2. /\ remains \in [Artefacts -> {"none", "whole", "torn", "marked"}] /\ remains["unit"] = "none"
            /\ \A a \in Artefacts \ {"unit"} : remains[a] = art[a] /\ art[a] # "marked"
        BY <2>1, <4>1 DEF ArtOK
      <4> QED
        BY <3>1, <4>2 DEF Away
    <3>2. CASE art["unit"] # "marked"
      <4>1. remains = art
        BY <2>3, <3>2 DEF WithoutProcess
      <4> QED
        BY <2>1, <3>2, <4>1 DEF ArtOK, Away
    <3> QED
      BY <3>1, <3>2
  <2> QED
    BY <2>2, <2>3
<1>5. CASE art' = remains
  BY <1>1, <1>2, <1>4, <1>5 DEF ArtOK, Away
<1>6. ASSUME NEW a, art' = [remains EXCEPT ![a] = "torn"]
      PROVE  ArtOK' /\ (Away("unit")' => Away("unit"))
  <2>1. /\ art' \in [Artefacts -> {"none", "whole", "torn", "marked"}]
        /\ \A b \in Artefacts : art'[b] = "torn" \/ art'[b] = remains[b]
    BY <1>4, <1>6
  <2> QED
    BY <1>1, <1>4, <2>1 DEF ArtOK, Away, Artefacts
<1> QED
  BY <1>1, <1>2, <1>3, <1>5, <1>6

LEMMA OnCommandKilled == ASSUME CInv, IInv, CommandKilled PROVE CInv'
<1>1. /\ UNCHANGED <<machine, life, activates, term, wanted>> /\ cfault' = TRUE
      /\ CommandDies(art)
      /\ step' = [step EXCEPT !["cli"] = "idle"]
  BY DEF CommandKilled, Fault, DNSCrash, lifevars
<1>2. ~Busy("cli")' /\ (Busy("daemon")' => Busy("daemon"))
  BY <1>1, HostAssumption DEF Busy, IInv, DNSTypeOK, HostAssumption
<1>3. CTypeOK'
  <2>1. /\ activates' \in BOOLEAN /\ term' \in BOOLEAN /\ wanted' \in {"no", "yes", "boot"}
        /\ Busy("daemon")' => life' \in {"activate", "deactivate"}
    BY <1>1, <1>2 DEF CInv, CTypeOK
  <2>2. /\ cres' \in {"none", "ok", "error", "killed"} /\ isteps' = <<>> /\ auto' \in BOOLEAN
        /\ ArtOK' /\ UNCHANGED <<init, machine>>
    BY <1>1, Dying
  <2> QED
    BY <1>2, <2>1, <2>2, TypedOver
<1>4. Stays'
  <2>1. Ahead(acts') = "end"
    BY <1>1, Dying DEF Ahead
  <2>2. Unwanted' = Unwanted
    BY <1>1 DEF Unwanted, Alive
  <2>3. Away("unit")' => Unwanted
    BY <1>1, Dying DEF CInv, Stays
  <2> QED
    BY <2>1, <2>2, <2>3 DEF Stays, InitActsOf
<1> QED
  BY <1>1, <1>3, <1>4, Dying, NothingUnderWay

LEMMA OnReboot == ASSUME CInv, Reboot PROVE CInv'
<1>1. /\ life' = "dead" /\ term' = FALSE /\ UNCHANGED <<activates, machine>> /\ cfault' = TRUE
      /\ wanted' \in {"boot", "no"}
      /\ art["unit"] # "whole" => wanted' = "no"
      /\ step' = [c \in Callers |-> "idle"]
  BY DEF Reboot, Fault
<1>2. /\ acts' = <<>> /\ isteps' = <<>> /\ auto' \in BOOLEAN /\ UNCHANGED <<cmd, init>>
      /\ cres' = "killed" \/ (UNCHANGED <<acts, cres, begun>> /\ Follows)
      /\ cres' \in {"none", "ok", "error", "killed"}
      /\ ArtOK'
      /\ Away("unit")' => Away("unit")
  <2>1. CASE acts # <<>>
    <3>1. CommandDies(WithoutProcess)
      BY <2>1 DEF Reboot
    <3>2. ~Alive'
      BY <1>1 DEF Alive
    <3> QED
      BY <3>1, <3>2, Dying
  <2>2. CASE acts = <<>>
    <3>1. UNCHANGED <<cmd, acts, cres, begun, init, isteps, auto>> /\ Follows
      BY <1>1, <2>2 DEF Reboot, cmdvars, Follows, Alive
    <3>2. isteps = <<>>
      BY <2>2, IdleInit DEF Ahead, InitActsOf
    <3>3. ArtOK' /\ (Away("unit")' => Away("unit"))
      BY <3>1, FollowsArt DEF CInv, CTypeOK, Artefacts
    <3> QED
      BY <2>2, <3>1, <3>2, <3>3 DEF CInv, CTypeOK
  <2> QED
    BY <2>1, <2>2
<1>3. ~Busy("cli")' /\ ~Busy("daemon")'
  BY <1>1, HostAssumption DEF Busy, HostAssumption
<1>4. CTypeOK'
  <2>1. activates' \in BOOLEAN /\ term' \in BOOLEAN /\ wanted' \in {"no", "yes", "boot"}
    BY <1>1 DEF CInv, CTypeOK
  <2> QED
    BY <1>1, <1>2, <1>3, <2>1, TypedOver
<1>5. Stays'
  <2>1. Ahead(acts') = "end"
    BY <1>2 DEF Ahead
  <2>2. Away("unit")' => Unwanted'
    BY <1>1, <1>2 DEF Unwanted, Alive, Away
  <2> QED
    BY <2>1, <2>2 DEF Stays, InitActsOf
<1> QED
  BY <1>1, <1>2, <1>4, <1>5, NothingUnderWay

(* The next step of a plan p of which k steps are done.                     *)
LEMMA NextStep ==
    ASSUME NEW p \in Seq(PlanSteps), NEW k \in 0..Len(p), DoneOf(p, k), isteps \in Seq(PlanSteps), isteps # <<>>
    PROVE  /\ k + 1 \in 1..Len(p) /\ Head(isteps) = p[k + 1] /\ p[k + 1] \in PlanSteps
           /\ isteps' = Tail(isteps) => DoneOf(p, k + 1)'
<1>1. Len(isteps) \in Nat /\ Len(isteps) # 0 /\ Len(p) \in Nat
  BY EmptySeq, LenProperties
<1>2. Len(isteps) = Len(p) - k /\ \A j \in 1..Len(isteps) : isteps[j] = p[k + j]
  BY DEF DoneOf
<1>3. k + 1 \in 1..Len(p) /\ Head(isteps) = p[k + 1] /\ p[k + 1] \in PlanSteps
  <2>1. k + 1 \in 1..Len(p) /\ 1 \in 1..Len(isteps)
    BY <1>1, <1>2
  <2>2. Head(isteps) = isteps[1]
    BY HeadTailProperties
  <2> QED
    BY <1>2, <2>1, <2>2, ElementOfSeq
<1>4. ASSUME isteps' = Tail(isteps) PROVE DoneOf(p, k + 1)'
  <2>1. Len(isteps') = Len(isteps) - 1 /\ \A j \in 1..(Len(isteps) - 1) : isteps'[j] = isteps[j + 1]
    BY <1>1, <1>4
  <2>2. Len(isteps') = Len(p) - (k + 1)
    BY <1>1, <1>2, <2>1
  <2>3. ASSUME NEW j \in 1..Len(isteps') PROVE isteps'[j] = p[(k + 1) + j]
    <3>1. j \in 1..(Len(isteps) - 1) /\ j + 1 \in 1..Len(isteps) /\ k + (j + 1) = (k + 1) + j
      BY <1>1, <2>1
    <3>2. isteps'[j] = isteps[j + 1] /\ isteps[j + 1] = p[k + (j + 1)]
      BY <1>2, <2>1, <3>1
    <3> QED
      BY <3>1, <3>2
  <2> QED
    BY <2>2, <2>3 DEF DoneOf
<1> QED
  BY <1>3, <1>4

(* A service is deleted by Uninstall alone, on Windows.                     *)
LEMMA HeadOfPlan ==
    ASSUME CInv, isteps # <<>>
    PROVE  /\ Head(isteps)[1] # "command" => Head(isteps)[2] \in Artefacts
           /\ Head(isteps)[1] = "delete" =>
                Head(isteps)[2] = "unit" /\ init = "windows" /\ Ahead(acts) \in {"uninstall", "uninstall?"}
<1>1. PICK ins, un : ins = System.install /\ un = System.uninstall
  OBVIOUS
<1>2. InstallPlan(ins) /\ UninstallPlan(un) /\ isteps \in Seq(PlanSteps) /\ Ahead(acts) \in InitActsOf
  BY <1>1, Plans DEF GoodPlans, CInv, CTypeOK
<1>3. CASE Ahead(acts) = "install"
  <2>1. PICK k \in 0..Len(ins) : DoneOf(ins, k)
    BY <1>1, <1>3 DEF CInv, InstallSoFar
  <2>2. k + 1 \in 1..Len(ins) /\ Head(isteps) = ins[k + 1] /\ ins \in Seq(PlanSteps)
    BY <1>2, <2>1, NextStep DEF InstallPlan
  <2>3. k + 1 \in DOMAIN ins
    BY <2>2
  <2> QED
    BY <1>2, <2>2, <2>3 DEF InstallPlan, Sure
<1>4. CASE Ahead(acts) \in {"uninstall", "uninstall?"}
  <2>1. PICK k \in 0..Len(un) : DoneOf(un, k)
    BY <1>1, <1>4 DEF CInv, UninstallSoFar
  <2>2. k + 1 \in 1..Len(un) /\ Head(isteps) = un[k + 1] /\ un \in Seq(PlanSteps)
    BY <1>2, <2>1, NextStep DEF UninstallPlan
  <2>3. k + 1 \in DOMAIN un
    BY <2>2
  <2> QED
    BY <1>2, <1>4, <2>2, <2>3 DEF UninstallPlan
<1> QED
  BY <1>2, <1>3, <1>4 DEF InitActsOf

(* What a step makes of its artefact.                                       *)
LEMMA StepDone ==
    ASSUME CInv, InitStep(Alive), UNCHANGED life, NEW v, NEW a, Head(isteps)[1] = v, Head(isteps)[2] = a
    PROVE  /\ ~Refuses(v, a)
           /\ v = "command" => art' = art
           /\ v # "command" => a \in Artefacts /\ art'[a] = Leaves(v, Alive)
           /\ v # "command" => \A b \in Artefacts \ {a} : art'[b] = art[b]
           /\ ArtOK'
<1>1. /\ ~Refuses(v, a) /\ isteps # <<>> /\ UNCHANGED init
      /\ IF v = "command" THEN UNCHANGED art ELSE art' = [art EXCEPT ![a] = Leaves(v, Alive)]
  BY DEF InitStep
<1>2. /\ Leaves(v, Alive) \in {"none", "whole", "marked"} /\ ArtOK
      /\ Leaves(v, Alive) = "marked" => v = "delete" /\ Alive
  BY DEF Leaves, CInv, CTypeOK
<1>3. /\ v # "command" => a \in Artefacts
      /\ v = "delete" => a = "unit" /\ init = "windows"
  BY <1>1, HeadOfPlan
<1>4. CASE v = "command"
  BY <1>1, <1>2, <1>4 DEF ArtOK, Alive
<1>5. CASE v # "command"
  <2>1. /\ art' \in [Artefacts -> {"none", "whole", "torn", "marked"}] /\ art'[a] = Leaves(v, Alive)
        /\ \A b \in Artefacts \ {a} : art'[b] = art[b]
    BY <1>1, <1>2, <1>3, <1>5 DEF ArtOK
  <2>2. ArtOK'
    BY <1>1, <1>2, <1>3, <2>1 DEF ArtOK, Alive
  <2> QED
    BY <1>1, <1>3, <1>5, <2>1, <2>2
<1> QED
  BY <1>4, <1>5

(* The steps of Uninstall take their artefacts away.                        *)
LEMMA UninstallGoes ==
    ASSUME CInv, isteps # <<>>, Ahead(acts) \in {"uninstall", "uninstall?"},
           (InitStep(Alive) /\ UNCHANGED faultvars) \/ (InitIgnored /\ Fault), UNCHANGED life, NEW p, p = System.uninstall
    PROVE  \E k \in 0..Len(p) :
             /\ DoneOf(p, k)'
             /\ \A i \in 1..k : ~cfault' /\ p[i][1] # "command" => Away(p[i][2])'
<1>1. PICK k \in 0..Len(p) :
        /\ DoneOf(p, k)
        /\ \A i \in 1..k : ~cfault /\ p[i][1] # "command" => Away(p[i][2])
  BY DEF CInv, UninstallSoFar
<1>2. /\ p \in Seq(PlanSteps) /\ isteps \in Seq(PlanSteps)
      /\ \A i \in DOMAIN p : p[i][1] \in Removes \cup {"command"}
      /\ \A i \in DOMAIN p : p[i][1] # "command" => p[i][2] \in Artefacts
  BY Plans DEF GoodPlans, InstallPlan, UninstallPlan, CInv, CTypeOK
<1>3. /\ k + 1 \in 1..Len(p) /\ Head(isteps) = p[k + 1]
      /\ DoneOf(p, k + 1)'
  BY <1>1, <1>2, NextStep DEF InitStep, InitIgnored
<1>4. ASSUME ~cfault', NEW i \in 1..(k + 1), p[i][1] # "command" PROVE Away(p[i][2])'
  <2>1. InitStep(Alive) /\ ~cfault
    BY <1>4 DEF Fault, faultvars
  <2>2. PICK v, a : v = p[k + 1][1] /\ a = p[k + 1][2]
    OBVIOUS
  <2>3. /\ v = "command" => art' = art
        /\ v # "command" => Away(a)' /\ \A b \in Artefacts \ {a} : art'[b] = art[b]
    <3>1. v \in Removes \cup {"command"} /\ (v # "command" => a \in Artefacts)
      BY <1>2, <1>3, <2>2
    <3>2. Leaves(v, Alive) \in {"none", "marked"}
      BY <3>1 DEF Leaves, Removes
    <3> QED
      BY <1>3, <2>1, <2>2, <3>1, <3>2, StepDone DEF Away
  <2>4. CASE i = k + 1
    BY <1>4, <2>2, <2>3, <2>4
  <2>5. CASE i # k + 1
    <3>1. i \in 1..k /\ i \in DOMAIN p
      BY <1>2, <1>3, <2>5
    <3>2. p[i][2] \in Artefacts /\ Away(p[i][2])
      BY <1>1, <1>2, <1>4, <2>1, <3>1
    <3> QED
      BY <2>2, <2>3, <3>2 DEF Away
  <2> QED
    BY <2>4, <2>5
<1>5. k + 1 \in 0..Len(p)
  BY <1>3
<1> QED
  BY <1>3, <1>4, <1>5

(* The steps of Install put theirs in place.                                *)
LEMMA InstallGoes ==
    ASSUME CInv, isteps # <<>>, Ahead(acts) = "install",
           (InitStep(Alive) /\ UNCHANGED faultvars) \/ (InitIgnored /\ Fault), UNCHANGED life, NEW p, p = System.install
    PROVE  \E k \in 0..Len(p) :
             /\ DoneOf(p, k)'
             /\ \A i \in 1..k : p[i][1] \in Sure => art'[p[i][2]] = "whole"
             /\ ~cfault' /\ Forgiving => \A i \in (k + 1)..Len(p) : p[i][1] \in Creates => art'[p[i][2]] = "none"
<1>1. PICK k \in 0..Len(p) :
        /\ DoneOf(p, k)
        /\ \A i \in 1..k : p[i][1] \in Sure => art[p[i][2]] = "whole"
        /\ ~cfault /\ Forgiving => \A i \in (k + 1)..Len(p) : p[i][1] \in Creates => art[p[i][2]] = "none"
  BY DEF CInv, InstallSoFar, Present
<1>2. /\ p \in Seq(PlanSteps) /\ isteps \in Seq(PlanSteps)
      /\ \A i, j \in DOMAIN p : i # j => p[i][2] # p[j][2]
      /\ \A i \in DOMAIN p : p[i][1] \in Sure \cup {"try", "command"}
      /\ \A i \in DOMAIN p : p[i][1] # "command" => p[i][2] \in Artefacts
  BY Plans DEF GoodPlans, InstallPlan, UninstallPlan, CInv, CTypeOK
<1>3. /\ k + 1 \in 1..Len(p) /\ Head(isteps) = p[k + 1]
      /\ DoneOf(p, k + 1)'
  BY <1>1, <1>2, NextStep DEF InitStep, InitIgnored
<1>4. PICK v, a : v = p[k + 1][1] /\ a = p[k + 1][2]
  OBVIOUS
<1>5. v \in Sure \cup {"try", "command"} /\ (v # "command" => a \in Artefacts)
  BY <1>2, <1>3, <1>4
<1>6. InitStep(Alive) => \/ v = "command" /\ art' = art
                         \/ v # "command" /\ art'[a] = "whole" /\ \A b \in Artefacts \ {a} : art'[b] = art[b]
  <2>1. v # "command" => Leaves(v, Alive) = "whole"
    BY <1>5 DEF Leaves, Sure
  <2> QED
    BY <1>3, <1>4, <1>5, <2>1, StepDone
<1>7. InitIgnored => art' = art /\ v \notin Sure
  BY <1>3, <1>4 DEF InitIgnored, Sure
<1>8. ASSUME NEW i \in 1..(k + 1), p[i][1] \in Sure PROVE art'[p[i][2]] = "whole"
  <2>1. CASE i = k + 1
    BY <1>4, <1>6, <1>7, <1>8, <2>1 DEF Sure
  <2>2. CASE i # k + 1
    <3>1. i \in 1..k /\ i \in DOMAIN p
      BY <1>2, <1>3, <2>2
    <3>2. p[i][2] \in Artefacts /\ art[p[i][2]] = "whole"
      BY <1>1, <1>2, <1>8, <3>1 DEF Sure
    <3> QED
      BY <1>6, <1>7, <3>2
  <2> QED
    BY <2>1, <2>2
<1>9. ASSUME ~cfault', Forgiving, NEW i \in ((k + 1) + 1)..Len(p), p[i][1] \in Creates PROVE art'[p[i][2]] = "none"
  <2>1. InitStep(Alive) /\ ~cfault
    BY <1>9 DEF Fault, faultvars
  <2>2. i \in (k + 1)..Len(p) /\ i \in DOMAIN p /\ k + 1 \in DOMAIN p /\ i # k + 1
    BY <1>2, <1>3
  <2>3. p[i][2] \in Artefacts /\ p[i][2] # a /\ art[p[i][2]] = "none"
    BY <1>1, <1>2, <1>4, <1>9, <2>1, <2>2 DEF Creates
  <2> QED
    BY <1>6, <2>1, <2>3
<1>10. k + 1 \in 0..Len(p)
  BY <1>3
<1> QED
  BY <1>3, <1>8, <1>9, <1>10

(* Which command an Install or Uninstall is of.                             *)
LEMMA WhoseSteps ==
    ASSUME CInv
    PROVE  /\ Ahead(acts) \in {"install", "uninstall?"} => cmd = "install"
           /\ Ahead(acts) = "uninstall" => cmd = "uninstall"
<1>1. CASE cmd = "install"
  BY <1>1, InstallHeads
<1>2. CASE cmd = "uninstall"
  <2>1. /\ Ahead(<<"deactivate?", "stop?", "uninstall">>) = "deactivate?" /\ Ahead(<<"stop?", "uninstall">>) = "stop?"
        /\ Ahead(<<"uninstall">>) = "uninstall" /\ Ahead(<<>>) = "end"
    BY DEF Ahead
  <2> QED
    BY <1>2, <2>1 DEF CInv, ActsLeft
<1>3. CASE cmd \notin {"install", "uninstall"}
  <2>1. acts \in Seq(OtherActs)
    BY <1>3 DEF CInv, ActsLeft
  <2>2. acts # <<>> => Head(acts) \in OtherActs
    BY <2>1, HeadTailProperties
  <2> QED
    BY <2>2 DEF Ahead, OtherActs
<1> QED
  BY <1>1, <1>2, <1>3

LEMMA OnInitBegins == ASSUME CInv, InitBegins PROVE CInv'
<1>1. PICK ins, un : ins = System.install /\ un = System.uninstall
  OBVIOUS
<1>2. /\ UNCHANGED <<step, machine, init, art, auto, life, activates, term, wanted, cmd, acts, cres, begun, cfault>>
      /\ isteps = <<>> /\ acts # <<>>
      /\ \/ Ahead(acts) = "install" /\ isteps' = ins
         \/ Ahead(acts) \in {"uninstall", "uninstall?"} /\ isteps' = un
  <2>1. UNCHANGED <<dnsvars, rvars, init, art, machine, auto, lifevars, cmdvars, faultvars>> /\ isteps = <<>>
    BY DEF InitBegins
  <2>2. /\ acts # <<>>
        /\ \/ Ahead(acts) = "install" /\ isteps' = ins
           \/ Ahead(acts) \in {"uninstall", "uninstall?"} /\ isteps' = un
    BY <1>1 DEF InitBegins, Facing, Ahead
  <2> QED
    BY <2>1, <2>2 DEF dnsvars, lifevars, cmdvars, faultvars
<1>3. /\ ins \in Seq(PlanSteps) /\ Len(ins) \in 1..5 /\ un \in Seq(PlanSteps) /\ Len(un) \in 1..5
  BY <1>1, Plans DEF GoodPlans, InstallPlan, UninstallPlan
<1>4. System'.install = ins /\ System'.uninstall = un /\ Forgiving' = Forgiving
  BY <1>1, <1>2, SameSystem
<1>5. ASSUME NEW s \in {ins, un} PROVE s \in Seq(PlanSteps) /\ Len(s) <= 5 /\ s # <<>>
  <2>1. s \in Seq(PlanSteps) /\ Len(s) \in 1..5
    BY <1>3
  <2>2. s = <<>> => Len(s) = 0
    OBVIOUS
  <2>3. \A n \in 1..5 : n # 0 /\ n <= 5
    OBVIOUS
  <2> QED
    BY <2>1, <2>2, <2>3, Zenon
<1>6. isteps' \in {ins, un}
  BY <1>2
<1>7. CTypeOK'
  <2>1. isteps' \in Seq(PlanSteps) /\ Len(isteps') <= 5 /\ Ahead(acts) \in InitActsOf
    BY <1>2, <1>5, <1>6 DEF InitActsOf
  <2> QED
    BY <1>2, <2>1 DEF CInv, CTypeOK, ArtOK, Alive, Busy
<1>8. ActsLeft' /\ Stays' /\ Installed' /\ Succeeds'
  <2>1. ActsLeft' /\ Stays'
    BY <1>2 DEF CInv, ActsLeft, Stays, Away, Unwanted, Alive
  <2>2. Installed' /\ Succeeds'
    BY <1>2 DEF CInv, Installed, Succeeds
  <2> QED
    BY <2>1, <2>2
<1>9. UninstallSoFar'
  <2>1. ASSUME Ahead(acts) \in {"uninstall", "uninstall?"} PROVE DoneOf(un, 0)'
    BY <1>2, <1>3, <2>1 DEF DoneOf
  <2>2. 0 \in 0..Len(un) /\ 1..0 = {}
    BY <1>3
  <2> QED
    BY <1>2, <1>4, <2>1, <2>2 DEF UninstallSoFar
<1>10. isteps' # <<>>
  BY <1>5, <1>6
<1>11. ClearToInstall'
  BY <1>2, <1>10 DEF ClearToInstall
<1>12. InstallSoFar'
  <2>1. ASSUME Ahead(acts) = "install" PROVE DoneOf(ins, 0)'
    BY <1>2, <1>3, <2>1 DEF DoneOf
  <2>2. 0 \in 0..Len(ins) /\ 1..0 = {} /\ (0 + 1)..Len(ins) = DOMAIN ins
    BY <1>3
  <2>3. ASSUME Ahead(acts) = "install", ~cfault, Forgiving, NEW i \in DOMAIN ins, ins[i][1] \in Creates
        PROVE  ~Present(ins[i][2])
    <3>1. cmd = "install"
      BY <2>3, WhoseSteps
    <3> QED
      BY <1>1, <1>2, <2>3, <3>1 DEF CInv, ClearToInstall
  <2>4. \A a : Present(a)' <=> Present(a)
    BY <1>2 DEF Present
  <2>5. Ahead(acts)' = Ahead(acts) /\ cfault' = cfault
    BY <1>2
  <2> QED
    BY <1>4, <2>1, <2>2, <2>3, <2>4, <2>5 DEF InstallSoFar
<1> QED
  BY <1>7, <1>8, <1>9, <1>11, <1>12 DEF CInv

(* What a step of Install or Uninstall leaves alone.                        *)
LEMMA InitFrame ==
    ASSUME CInv, InitActs
    PROVE  /\ isteps # <<>> /\ acts # <<>> /\ Ahead(acts) \in InitActsOf
           /\ UNCHANGED <<step, machine, init, auto, life, activates, term, wanted>>
           /\ ArtOK'
           /\ ~Busy("cli")' /\ (Busy("daemon")' => life' \in {"activate", "deactivate"})
           /\ Stays'
<1>1. /\ isteps # <<>>
      /\ UNCHANGED <<dnsvars, machine, auto, lifevars, init>>
  BY DEF InitActs, InitStep, InitIgnored, InitRefused, InitFails
<1>2. Ahead(acts) \in InitActsOf
  BY <1>1 DEF CInv, CTypeOK
<1>3. acts # <<>>
  BY <1>2 DEF Ahead, InitActsOf
<1>4. ArtOK'
  <2>1. ArtOK /\ UNCHANGED <<life, init>>
    BY <1>1 DEF CInv, CTypeOK, lifevars
  <2>2. CASE InitStep(Alive)
    <3>1. PICK v, a : Head(isteps)[1] = v /\ Head(isteps)[2] = a
      OBVIOUS
    <3> QED
      BY <2>1, <2>2, <3>1, StepDone
  <2>3. CASE InitIgnored \/ InitRefused
    BY <2>1, <2>3 DEF InitIgnored, InitRefused, ArtOK, Alive
  <2>4. CASE InitFails
    <3>1. \/ art' = art
          \/ \E v \in Tears(Head(isteps)[1], Head(isteps)[2]) : art' = [art EXCEPT ![Head(isteps)[2]] = v]
      BY <2>4 DEF InitFails
    <3>2. ASSUME NEW a, NEW v \in {art[a], "torn"}, art' = [art EXCEPT ![a] = v]
          PROVE  ArtOK'
      <4>1. /\ art' \in [Artefacts -> {"none", "whole", "torn", "marked"}]
            /\ \A b \in Artefacts : art'[b] = "torn" \/ art'[b] = art[b]
        BY <2>1, <3>2 DEF ArtOK
      <4> QED
        BY <2>1, <4>1 DEF ArtOK, Alive
    <3>3. CASE art' = art
      BY <2>1, <3>3 DEF ArtOK, Alive
    <3> QED
      BY <3>1, <3>2, <3>3 DEF Tears
  <2> QED
    BY <2>2, <2>3, <2>4 DEF InitActs
<1>5. UNCHANGED <<step, life, activates, term, wanted>>
  BY <1>1 DEF dnsvars, lifevars
<1>6. ~Busy("cli")' /\ (Busy("daemon")' => life' \in {"activate", "deactivate"})
  BY <1>2, <1>5 DEF CInv, CTypeOK, Busy, InitActsOf, DNSActs
<1>7. Stays'
  <2>1. Unwanted /\ (Unwanted' <=> Unwanted)
    BY <1>2, <1>5 DEF CInv, Stays, Unwanted, Alive
  <2> QED
    BY <2>1 DEF Stays
<1> QED
  BY <1>1, <1>2, <1>3, <1>4, <1>5, <1>6, <1>7

(* One that is not the last.                                                *)
LEMMA OnStep ==
    ASSUME CInv, InitActs, (InitStep(Alive) /\ UNCHANGED faultvars) \/ (InitIgnored /\ Fault), isteps' # <<>>
    PROVE  CInv'
<1>1. UNCHANGED <<cmd, acts, cres, begun>> /\ isteps' = Tail(isteps) /\ (cfault => cfault')
  <2>1. isteps' = Tail(isteps)
    BY DEF InitStep, InitIgnored
  <2>2. UNCHANGED cmdvars
    BY DEF InitActs, InitRefused, InitFails
  <2>3. cfault => cfault'
    BY DEF Fault, faultvars
  <2> QED
    BY <2>1, <2>2, <2>3 DEF cmdvars
<1>2. isteps' \in Seq(PlanSteps) /\ Len(isteps') <= 5
  <2>1. isteps \in Seq(PlanSteps) /\ isteps # <<>> /\ Len(isteps) <= 5
    BY InitFrame DEF CInv, CTypeOK
  <2>2. Tail(isteps) \in Seq(PlanSteps) /\ Len(Tail(isteps)) = Len(isteps) - 1
    BY <2>1, HeadTailProperties
  <2>3. Len(isteps) \in Nat
    BY <2>1
  <2> QED
    BY <1>1, <2>1, <2>2, <2>3
<1>3. CTypeOK'
  BY <1>1, <1>2, InitFrame DEF CInv, CTypeOK
<1>4. ActsLeft'
  BY <1>1 DEF CInv, ActsLeft
<1>5. System' = System /\ Forgiving' = Forgiving
  BY InitFrame, SameSystem
<1>6. UninstallSoFar'
  <2>1. PICK p : p = System.uninstall
    OBVIOUS
  <2>2. SUFFICES ASSUME Ahead(acts) \in {"uninstall", "uninstall?"} PROVE UninstallSoFar'
    BY <1>1 DEF UninstallSoFar
  <2>3. PICK k \in 0..Len(p) :
          /\ DoneOf(p, k)'
          /\ \A i \in 1..k : ~cfault' /\ p[i][1] # "command" => Away(p[i][2])'
    BY <2>1, <2>2, UninstallGoes, InitFrame
  <2> QED
    BY <1>5, <2>1, <2>3 DEF UninstallSoFar
<1>7. InstallSoFar'
  <2>1. PICK p : p = System.install
    OBVIOUS
  <2>2. SUFFICES ASSUME Ahead(acts) = "install" PROVE InstallSoFar'
    BY <1>1 DEF InstallSoFar
  <2>3. PICK k \in 0..Len(p) :
          /\ DoneOf(p, k)'
          /\ \A i \in 1..k : p[i][1] \in Sure => art'[p[i][2]] = "whole"
          /\ ~cfault' /\ Forgiving => \A i \in (k + 1)..Len(p) : p[i][1] \in Creates => art'[p[i][2]] = "none"
    BY <2>1, <2>2, InstallGoes, InitFrame
  <2> QED
    BY <1>5, <2>1, <2>3 DEF InstallSoFar, Present
<1>8. ClearToInstall' /\ Installed' /\ Succeeds'
  BY <1>1, InitFrame DEF CInv, ClearToInstall, Installed, Succeeds, InitActsOf
<1> QED
  BY <1>3, <1>4, <1>6, <1>7, <1>8, InitFrame DEF CInv

(* The last, or one that ends the call with an error.                       *)
LEMMA CallOver ==
    ASSUME CInv, InitActs, NEW r \in {"ok", "error"}, ActEnds(r), isteps' = <<>>
    PROVE  CTypeOK'
<1>1. cres' \in {"none", "ok", "error", "killed"}
  BY EndTypes
<1>2. /\ UNCHANGED <<init, machine>> /\ ArtOK'
      /\ auto' \in BOOLEAN /\ activates' \in BOOLEAN /\ term' \in BOOLEAN /\ wanted' \in {"no", "yes", "boot"}
      /\ ~Busy("cli")'
      /\ Busy("daemon")' => life' \in {"activate", "deactivate"}
  BY InitFrame DEF CInv, CTypeOK
<1> QED
  BY <1>1, <1>2, TypedOver

(* Install finds nothing in its way after the Uninstall before it.          *)
LEMMA Cleared ==
    ASSUME CInv, InitActs, isteps' = <<>>, Ahead(acts) = "uninstall?", ~cfault', Forgiving,
           \/ InitStep(Alive) /\ UNCHANGED faultvars
           \/ InitIgnored /\ Fault
           \/ InitRefused /\ UNCHANGED faultvars
           \/ InitFails /\ Fault,
           NEW ins, NEW un, ins = System.install, un = System.uninstall,
           NEW i \in DOMAIN ins, ins[i][1] \in Creates
    PROVE  art'[ins[i][2]] = "none"
<1>1. ~cfault /\ UNCHANGED faultvars /\ (InitStep(Alive) \/ (InitRefused /\ art' = art))
  BY DEF Fault, faultvars, InitRefused
<1>2. GoodPlans(ins, un) /\ ForgivingPlans(ins, un)
  BY Plans
<1>3. un \in Seq(PlanSteps) /\ isteps \in Seq(PlanSteps) /\ Len(un) \in Nat
  BY <1>2 DEF GoodPlans, InstallPlan, UninstallPlan, CInv, CTypeOK
<1>4. /\ UNCHANGED <<init, life>> /\ ins[i][2] \in Artefacts /\ ArtOK /\ ArtOK' /\ init # "windows"
      /\ isteps # <<>>
  <2>1. i \in 1..Len(ins) /\ ins[i][1] # "command"
    BY PlanNames DEF Creates
  <2> QED
    BY <2>1, PlanNames, InitFrame DEF CInv, CTypeOK, Forgiving
<1>5. Away(ins[i][2])' => art'[ins[i][2]] = "none"
  BY <1>4 DEF Away, ArtOK
<1>6. CASE InitStep(Alive)
  <2>1. PICK k \in 0..Len(un) :
          /\ DoneOf(un, k)'
          /\ \A j \in 1..k : ~cfault' /\ un[j][1] # "command" => Away(un[j][2])'
    BY <1>1, <1>6, <1>4, InitFrame, UninstallGoes
  <2>2. k = Len(un)
    <3>1. Len(isteps') = 0
      OBVIOUS
    <3> QED
      BY <1>3, <2>1, <3>1 DEF DoneOf
  <2>3. PICK j \in DOMAIN un : un[j][1] # "command" /\ un[j][2] = ins[i][2]
    BY <1>2 DEF ForgivingPlans
  <2>4. j \in 1..k
    BY <1>3, <2>2, <2>3
  <2> QED
    BY <1>5, <2>1, <2>3, <2>4
<1>7. CASE InitRefused /\ art' = art
  <2>1. PICK k \in 0..Len(un) :
          /\ DoneOf(un, k)
          /\ \A j \in 1..k : ~cfault /\ un[j][1] # "command" => Away(un[j][2])
    BY InitFrame DEF CInv, UninstallSoFar
  <2>2. k + 1 \in DOMAIN un /\ Head(isteps) = un[k + 1]
    BY <1>3, <2>1, InitFrame, NextStep
  <2>3. PICK v, a : v = un[k + 1][1] /\ a = un[k + 1][2]
    OBVIOUS
  <2>4. v \in {"disable", "remove", "del"} /\ art[Refused(un[k + 1])] = "none"
    <3>1. v \in Removes \cup {"command"}
      BY <1>2, <2>2, <2>3 DEF GoodPlans, InstallPlan, UninstallPlan
    <3>2. Refuses(v, a)
      BY <1>7, <2>2, <2>3 DEF InitRefused
    <3> QED
      BY <1>4, <2>2, <2>3, <3>1, <3>2, HeadOfPlan DEF Refuses, Removes, Present, Refused
  <2>5. \/ Refused(un[k + 1]) = ins[i][2]
        \/ \E j \in 1..((k + 1) - 1) : un[j][1] # "command" /\ un[j][2] = ins[i][2]
    BY <1>2, <2>2, <2>3, <2>4 DEF ForgivingPlans
  <2>6. (k + 1) - 1 = k
    OBVIOUS
  <2> QED
    BY <1>1, <1>7, <1>4, <1>5, <2>1, <2>4, <2>5, <2>6 DEF Away
<1> QED
  BY <1>1, <1>6, <1>7

(* No step of Install is refused where nothing was in its way.              *)
LEMMA NotRefused == ASSUME CInv, isteps # <<>>, Ahead(acts) = "install", InitRefused, ~cfault PROVE ~Forgiving
<1> SUFFICES ASSUME Forgiving PROVE FALSE
  OBVIOUS
<1>1. PICK p : p = System.install
  OBVIOUS
<1>2. PICK k \in 0..Len(p) :
        /\ DoneOf(p, k)
        /\ \A i \in 1..k : p[i][1] \in Sure => art[p[i][2]] = "whole"
        /\ \A i \in (k + 1)..Len(p) : p[i][1] \in Creates => art[p[i][2]] = "none"
  BY <1>1 DEF CInv, InstallSoFar, Present
<1>3. /\ p \in Seq(PlanSteps) /\ isteps \in Seq(PlanSteps)
      /\ \A i \in DOMAIN p : p[i][1] \in Sure \cup {"try", "command"}
      /\ \A j \in DOMAIN p : p[j][1] = "enable" => \E i \in 1..(j - 1) : p[i] = <<"create", "unit">>
  BY <1>1, Plans DEF GoodPlans, InstallPlan, UninstallPlan, CInv, CTypeOK
<1>4. k + 1 \in 1..Len(p) /\ Head(isteps) = p[k + 1] /\ Len(p) \in Nat
  BY <1>2, <1>3, NextStep, LenProperties
<1>5. PICK v, a : v = p[k + 1][1] /\ a = p[k + 1][2]
  OBVIOUS
<1>6. v \in Sure \cup {"try", "command"} /\ Refuses(v, a)
  BY <1>3, <1>4, <1>5 DEF InitRefused
<1>7. CASE v \in Creates
  <2>1. k + 1 \in (k + 1)..Len(p)
    BY <1>4
  <2>2. art[a] = "none"
    BY <1>2, <1>5, <1>7, <2>1
  <2> QED
    BY <1>6, <1>7, <2>2 DEF Refuses, Creates, Present
<1>8. CASE v = "enable"
  <2>1. k + 1 \in DOMAIN p /\ p[k + 1][1] = "enable"
    BY <1>3, <1>4, <1>5, <1>8
  <2>2. PICK i \in 1..((k + 1) - 1) : p[i] = <<"create", "unit">>
    BY <1>3, <2>1
  <2>3. i \in 1..k /\ p[i][1] = "create" /\ p[i][2] = "unit"
    BY <2>2
  <2>4. art["unit"] = "whole"
    BY <1>2, <2>3 DEF Sure
  <2> QED
    BY <1>6, <1>8, <2>4 DEF Refuses, Present
<1> QED
  BY <1>6, <1>7, <1>8 DEF Refuses, Sure, Creates

LEMMA OnInitActs == ASSUME CInv, InitActs PROVE CInv'
<1>1. CASE ((InitStep(Alive) /\ UNCHANGED faultvars) \/ (InitIgnored /\ Fault)) /\ isteps' # <<>>
  BY <1>1, OnStep
<1>2. CASE ~(((InitStep(Alive) /\ UNCHANGED faultvars) \/ (InitIgnored /\ Fault)) /\ isteps' # <<>>)
  <2>1. PICK r \in {"ok", "error"} :
          /\ ActEnds(r) /\ isteps' = <<>>
          /\ r = "ok" => (InitStep(Alive) /\ UNCHANGED faultvars) \/ (InitIgnored /\ Fault)
          /\ r = "error" => (InitRefused /\ UNCHANGED faultvars) \/ (InitFails /\ Fault)
    BY <1>2 DEF InitActs, InitRefused, InitFails
  <2>2. CTypeOK' /\ Stays' /\ acts # <<>> /\ isteps # <<>> /\ Ahead(acts) \in InitActsOf
    BY <2>1, CallOver, InitFrame
  <2>3. System' = System /\ Forgiving' = Forgiving
    BY InitFrame, SameSystem
  <2>4. PICK ins, un : ins = System.install /\ un = System.uninstall
    OBVIOUS
  <2>5. CASE cmd # "install"
    BY <2>1, <2>2, <2>5, OtherOver
  <2>6. CASE cmd = "install" /\ Ahead(acts) = "uninstall?"
    <3>1. Ahead(acts') = "save" /\ cres' = "none" /\ acts' # <<>>
      BY <2>1, <2>2, <2>6, InstallActEnds DEF Ahead
    <3>2. ClearToInstall'
      <4>1. ASSUME ~cfault', Forgiving, NEW i \in DOMAIN ins, ins[i][1] \in Creates PROVE art'[ins[i][2]] = "none"
        BY <2>1, <2>4, <2>6, <4>1, Cleared
      <4> QED
        BY <2>3, <2>4, <4>1 DEF ClearToInstall, Present
    <3>3. Installed' /\ Succeeds'
      BY <3>1 DEF Installed, Succeeds
    <3> QED
      BY <2>1, <2>2, <2>6, <3>2, <3>3, InstallOver
  <2>7. CASE cmd = "install" /\ Ahead(acts) = "install" /\ r = "ok"
    <3>1. Ahead(acts') = "start" /\ cres' = "none" /\ acts' # <<>>
      BY <2>1, <2>2, <2>7, InstallActEnds DEF Ahead
    <3>2. Installed'
      <4>1. PICK k \in 0..Len(ins) :
              /\ DoneOf(ins, k)'
              /\ \A i \in 1..k : ins[i][1] \in Sure => art'[ins[i][2]] = "whole"
        BY <2>1, <2>2, <2>4, <2>7, InitFrame, InstallGoes
      <4>2. ins \in Seq(PlanSteps)
        BY <2>4, Plans DEF GoodPlans, InstallPlan, UninstallPlan
      <4>3. k = Len(ins) /\ DOMAIN ins = 1..k
        <5>1. Len(isteps') = 0
          BY <2>1
        <5> QED
          BY <4>1, <4>2, <5>1 DEF DoneOf
      <4> QED
        BY <2>3, <2>4, <4>1, <4>3 DEF Installed
    <3>3. ClearToInstall' /\ Succeeds'
      BY <3>1 DEF ClearToInstall, Succeeds
    <3> QED
      BY <2>1, <2>2, <2>7, <3>2, <3>3, InstallOver
  <2>8. CASE cmd = "install" /\ Ahead(acts) = "install" /\ r = "error"
    <3>1. acts' = <<>> /\ Ahead(acts') = "end" /\ cres' = "error"
      BY <2>1, <2>2, <2>8, InstallActEnds
    <3>2. ~cfault' => ~Forgiving
      <4>1. ~cfault' => InitRefused /\ ~cfault
        BY <2>1, <2>8 DEF Fault, faultvars
      <4> QED
        BY <2>2, <2>8, <4>1, NotRefused
    <3>3. ClearToInstall' /\ Installed' /\ Succeeds'
      BY <2>3, <3>1, <3>2 DEF ClearToInstall, Installed, Succeeds
    <3> QED
      BY <2>1, <2>2, <2>8, <3>3, InstallOver
  <2>9. cmd = "install" => Ahead(acts) \in {"uninstall?", "install"}
    BY <2>2, InstallHeads DEF InitActsOf
  <2> QED
    BY <2>1, <2>5, <2>6, <2>7, <2>8, <2>9
<1> QED
  BY <1>1, <1>2

LEMMA CInvStep == IInv /\ CInv /\ [HostNext]_hvars => CInv'
<1> SUFFICES ASSUME IInv, CInv, [HostNext]_hvars PROVE CInv'
  OBVIOUS
<1>1. CASE DaemonNext
  BY <1>1, OnRespawn, OnLife, OnDaemonDNS, OnKilled DEF DaemonNext
<1>2. CASE HostNext /\ ~DaemonNext
  BY <1>2, OnCommand, OnStopSent, OnStopped, OnNoUnit, OnStartService, OnStatusAsked, OnInitBegins, OnInitActs,
     OnSaveConfig, OnDNSBegins, OnDNSCalls, OnCommandKilled, OnReboot DEF HostNext
<1> QED
  BY <1>1, <1>2, OnAside

LEMMA CInvAlways == HostSpec => []CInv
BY InitCInv, CInvStep, IInvHolds, PTL DEF HostSpec

-------------------------------------------------------------------------------
(* Install on Windows (windows/service.go): what runs has a service, so     *)
(* once there is none, or only a marked one, Install meets no other fault   *)
(* than that one, and starts a daemon where none is.                        *)
WindowsAlive == init = "windows" /\ Alive => Present("unit")

WindowsWay ==
    init = "windows" /\ cmd = "install" /\ ~cfault =>
      /\ Ahead(acts) = "save" => Away("unit")
      /\ Ahead(acts) = "install" /\ isteps = <<>> => Away("unit")
      /\ Ahead(acts) = "install" /\ isteps # <<>> =>
           IF Head(isteps)[1] = "command" THEN ~Alive ELSE Away("unit")
      /\ Ahead(acts) = "start" => ~Alive
      /\ acts = <<>> /\ cres = "error" => Away("unit")

WInv == WindowsAlive /\ WindowsWay

LEMMA InitWInv == HostInit => WInv
<1> SUFFICES ASSUME HostInit PROVE WInv
  OBVIOUS
<1>1. life = "dead" /\ cmd = "none"
  BY DEF HostInit
<1> QED
  BY <1>1 DEF WInv, WindowsAlive, WindowsWay, Alive

(* Where Install and Uninstall are.                                         *)
LEMMA WindowsSteps ==
    ASSUME CInv, init = "windows", isteps # <<>>
    PROVE  /\ Ahead(acts) = "install" =>
                \/ /\ Head(isteps) = <<"write", "helper">>
                   /\ isteps' = Tail(isteps) => isteps' # <<>> /\ Head(isteps')[1] = "link"
                \/ /\ Head(isteps) = <<"link", "unit">>
                   /\ isteps' = Tail(isteps) => isteps' # <<>> /\ Head(isteps')[1] = "command"
                \/ Head(isteps) = <<"command", "recovery">> /\ (isteps' = Tail(isteps) => isteps' = <<>>)
           /\ Ahead(acts) \in {"uninstall", "uninstall?"} => Head(isteps) = <<"delete", "unit">>
<1>1. isteps \in Seq(PlanSteps)
  BY DEF CInv, CTypeOK
<1>2. ASSUME Ahead(acts) = "install"
      PROVE  \/ /\ Head(isteps) = <<"write", "helper">>
                /\ isteps' = Tail(isteps) => isteps' # <<>> /\ Head(isteps')[1] = "link"
             \/ /\ Head(isteps) = <<"link", "unit">>
                /\ isteps' = Tail(isteps) => isteps' # <<>> /\ Head(isteps')[1] = "command"
             \/ Head(isteps) = <<"command", "recovery">> /\ (isteps' = Tail(isteps) => isteps' = <<>>)
  <2>1. PICK p : p = System.install
    OBVIOUS
  <2>2. p = << <<"write", "helper">>, <<"link", "unit">>, <<"command", "recovery">> >>
    BY <2>1 DEF System, WindowsInit
  <2>3. PICK k \in 0..Len(p) : DoneOf(p, k)
    BY <1>2, <2>1 DEF CInv, InstallSoFar
  <2>4. p \in Seq(PlanSteps)
    BY <2>1, PlanNames
  <2>5. /\ k + 1 \in 1..Len(p) /\ Head(isteps) = p[k + 1]
        /\ isteps' = Tail(isteps) => DoneOf(p, k + 1)'
    BY <1>1, <2>3, <2>4, NextStep
  <2>6. ASSUME isteps' = Tail(isteps)
        PROVE  /\ isteps' \in Seq(PlanSteps)
               /\ Len(isteps') = Len(p) - (k + 1) /\ \A j \in 1..Len(isteps') : isteps'[j] = p[(k + 1) + j]
    <3>1. isteps' \in Seq(PlanSteps)
      BY <1>1, <2>6, HeadTailProperties
    <3>2. DoneOf(p, k + 1)'
      BY <2>5, <2>6
    <3> QED
      BY <3>1, <3>2 DEF DoneOf
  <2>7. Len(p) = 3 /\ k \in {0, 1, 2}
    BY <2>2, <2>5
  <2>8. CASE k = 0
    <3>1. ASSUME isteps' = Tail(isteps) PROVE isteps' # <<>> /\ Head(isteps') = p[2]
      <4>1. Len(isteps') = 2 /\ isteps' \in Seq(PlanSteps)
        BY <2>6, <2>7, <2>8, <3>1
      <4>2. isteps'[1] = p[(k + 1) + 1] /\ (k + 1) + 1 = 2
        <5>1. 1 \in 1..Len(isteps') /\ (k + 1) + 1 = 2
          BY <2>8, <4>1
        <5> QED
          BY <2>6, <3>1, <5>1
      <4>3. isteps' # <<>>
        <5>1. Len(<<>>) = 0 /\ Len(isteps') # 0
          BY <4>1
        <5> QED
          BY <5>1
      <4>4. Head(isteps') = isteps'[1]
        BY <4>1, <4>3, HeadTailProperties
      <4> QED
        BY <4>2, <4>3, <4>4
    <3> QED
      BY <2>2, <2>5, <2>8, <3>1
  <2>9. CASE k = 1
    <3>1. ASSUME isteps' = Tail(isteps) PROVE isteps' # <<>> /\ Head(isteps') = p[3]
      <4>1. Len(isteps') = 1 /\ isteps' \in Seq(PlanSteps)
        BY <2>6, <2>7, <2>9, <3>1
      <4>2. isteps'[1] = p[(k + 1) + 1] /\ (k + 1) + 1 = 3
        <5>1. 1 \in 1..Len(isteps') /\ (k + 1) + 1 = 3
          BY <2>9, <4>1
        <5> QED
          BY <2>6, <3>1, <5>1
      <4>3. isteps' # <<>>
        <5>1. Len(<<>>) = 0 /\ Len(isteps') # 0
          BY <4>1
        <5> QED
          BY <5>1
      <4>4. Head(isteps') = isteps'[1]
        BY <4>1, <4>3, HeadTailProperties
      <4> QED
        BY <4>2, <4>3, <4>4
    <3> QED
      BY <2>2, <2>5, <2>9, <3>1
  <2>10. CASE k = 2
    <3>1. isteps' = Tail(isteps) => Len(isteps') = 0
      BY <2>6, <2>7, <2>10
    <3>2. isteps' = Tail(isteps) => isteps' = <<>>
      BY <2>6, <3>1, EmptySeq
    <3> QED
      BY <2>2, <2>5, <2>10, <3>2
  <2> QED
    BY <2>7, <2>8, <2>9, <2>10
<1>3. ASSUME Ahead(acts) \in {"uninstall", "uninstall?"} PROVE Head(isteps) = <<"delete", "unit">>
  <2>1. PICK p : p = System.uninstall
    OBVIOUS
  <2>2. p = << <<"delete", "unit">> >>
    BY <2>1 DEF System, WindowsInit
  <2>3. PICK k \in 0..Len(p) : DoneOf(p, k)
    BY <1>3, <2>1 DEF CInv, UninstallSoFar
  <2>4. p \in Seq(PlanSteps)
    BY <2>1, PlanNames
  <2>5. k + 1 \in 1..Len(p) /\ Head(isteps) = p[k + 1]
    BY <1>1, <2>3, <2>4, NextStep
  <2>6. k + 1 = 1
    BY <2>2, <2>5
  <2> QED
    BY <2>2, <2>5, <2>6
<1> QED
  BY <1>2, <1>3

(* The command stays where it is.                                           *)
LEMMA WindowsAside ==
    ASSUME CInv, WInv, UNCHANGED <<cmd, acts, cres, isteps, init>>, Follows, cfault => cfault',
           Alive' => Alive \/ wanted # "no"
    PROVE  WInv'
<1>1. /\ Away("unit")' <=> Away("unit")
      /\ Away("unit") => Unwanted
      /\ Ahead(acts) \in InitActsOf \/ (cmd = "install" /\ Ahead(acts) = "start") => Unwanted
  BY FollowsArt DEF CInv, CTypeOK, Stays, Artefacts
<1>2. Alive' /\ (Alive \/ wanted # "no") => art' = art
  BY DEF Follows
<1>3. WindowsAlive'
  BY <1>1, <1>2 DEF WInv, WindowsAlive, Away, Present, Unwanted
<1>4. WindowsWay'
  BY <1>1 DEF WInv, WindowsWay, Unwanted, InitActsOf
<1> QED
  BY <1>3, <1>4 DEF WInv

LEMMA WindowsDaemon == ASSUME IInv, CInv, WInv, DaemonNext PROVE WInv'
<1>1. UNCHANGED <<cmd, acts, cres, isteps, init>> /\ (cfault => cfault')
  <2>1. UNCHANGED cmdvars
    BY DEF DaemonNext, Respawn, Listen, ListenFails, Activate, Started, Stopping, Deactivate, DaemonDNS, Exit,
       Killed, RouterCall
  <2>2. UNCHANGED <<isteps, init>>
    <3>1. CASE ListenFails \/ Exit \/ Killed
      BY <3>1 DEF ListenFails, Exit, Killed, Gone
    <3>2. CASE ~(ListenFails \/ Exit \/ Killed)
      BY <3>2 DEF DaemonNext, Respawn, Listen, Activate, Started, Stopping, Deactivate, DaemonDNS, RouterCall, ivars
    <3> QED
      BY <3>1, <3>2
  <2>3. UNCHANGED faultvars \/ Fault
    BY DEF DaemonNext, Respawn, Listen, ListenFails, Activate, Started, Stopping, Deactivate, DaemonDNS, Exit,
       Killed, RouterCall
  <2> QED
    BY <2>1, <2>2, <2>3 DEF Fault, cmdvars, faultvars
<1>2. CASE Respawn
  BY <1>1, <1>2, WindowsAside DEF Respawn, Spawn, Alive, Follows, ivars
<1>3. CASE Listen \/ Activate \/ Started \/ Stopping \/ Deactivate \/ RouterCall
  <2>1. art' = art /\ (Alive' <=> Alive)
    BY <1>3 DEF Listen, Activate, Started, Stopping, Deactivate, DaemonDNS, RouterCall, Live, Alive, ivars, lifevars
  <2> QED
    BY <1>1, <2>1, WindowsAside DEF Follows
<1>4. CASE ListenFails \/ Exit \/ Killed
  <2>1. ~Alive' /\ art' = WithoutProcess
    BY <1>4 DEF ListenFails, Exit, Killed, Gone, Alive
  <2> QED
    BY <1>1, <2>1, WindowsAside DEF Follows
<1> QED
  BY <1>2, <1>3, <1>4 DEF DaemonNext

(* An act ends that is not Install's or Uninstall's.                        *)
LEMMA WindowsAct ==
    ASSUME CInv, WInv, NEW r \in {"ok", "error"}, ActEnds(r), acts # <<>>, Ahead(acts) \notin InitActsOf,
           UNCHANGED <<init, art, isteps, cfault>>, Alive' => Alive \/ Present("unit"),
           cmd = "install" /\ Ahead(acts) = "save" => r = "ok",
           cmd = "install" /\ init = "windows" /\ ~cfault /\ Ahead(acts) = "start" /\ r = "error" => Away("unit")
    PROVE  WInv'
<1>1. WindowsAlive'
  BY DEF WInv, WindowsAlive, Present
<1>2. isteps = <<>>
  BY IdleInit
<1>3. CASE cmd # "install"
  <2>1. cmd' # "install"
    BY <1>3 DEF ActEnds
  <2> QED
    BY <1>1, <2>1 DEF WInv, WindowsWay
<1>4. CASE cmd = "install"
  <2>1. /\ Ahead(acts) \in {"stop?", "save", "start"}
        /\ Ahead(acts) = "stop?" => Ahead(acts') = "uninstall?"
        /\ Ahead(acts) = "save" => Ahead(acts') = "install"
        /\ Ahead(acts) = "start" => Ahead(acts') = "end" /\ cres' = r
    BY <1>4, InstallActEnds DEF InitActsOf
  <2>2. Ahead(acts') # "end" => acts' # <<>>
    BY DEF Ahead
  <2>3. WindowsWay'
    BY <1>2, <1>4, <2>1, <2>2 DEF WInv, WindowsWay, Away
  <2> QED
    BY <1>1, <2>3 DEF WInv
<1> QED
  BY <1>3, <1>4

LEMMA WindowsInstalls == ASSUME CInv, WInv, InitActs, init = "windows" PROVE WInv'
<1>1. /\ isteps # <<>> /\ acts # <<>> /\ Ahead(acts) \in InitActsOf /\ UNCHANGED <<init, life>> /\ ArtOK
      /\ "unit" \in Artefacts /\ "helper" \in Artefacts
  BY InitFrame DEF CInv, CTypeOK, Artefacts
<1>2. UNCHANGED Alive
  BY <1>1 DEF Alive
<1>3. PICK v, a : v = Head(isteps)[1] /\ a = Head(isteps)[2]
  OBVIOUS
<1>4. /\ Ahead(acts) = "install" => <<v, a>> \in {<<"write", "helper">>, <<"link", "unit">>, <<"command", "recovery">>}
      /\ Ahead(acts) \in {"uninstall", "uninstall?"} => v = "delete" /\ a = "unit"
  BY <1>1, <1>3, WindowsSteps
<1>5. <<v, a>> \in {<<"write", "helper">>, <<"link", "unit">>, <<"command", "recovery">>, <<"delete", "unit">>}
  BY <1>1, <1>4 DEF InitActsOf
<1>6. WindowsAlive'
  <2>1. SUFFICES ASSUME Alive, Present("unit") PROVE art'["unit"] # "none"
    BY <1>2 DEF WInv, WindowsAlive, Present
  <2>2. CASE InitStep(Alive)
    <3>1. /\ v = "command" => art' = art
          /\ v # "command" => a \in Artefacts /\ art'[a] = Leaves(v, Alive)
          /\ v # "command" => \A b \in Artefacts \ {a} : art'[b] = art[b]
      BY <1>1, <1>3, <2>2, StepDone
    <3>2. v # "command" => Leaves(v, Alive) # "none"
      BY <1>5, <2>1 DEF Leaves
    <3> QED
      BY <1>1, <2>1, <3>1, <3>2 DEF Present
  <2>3. CASE InitIgnored \/ InitRefused
    BY <2>1, <2>3 DEF InitIgnored, InitRefused, Present
  <2>4. CASE InitFails
    <3>1. \/ art' = art
          \/ \E w \in {art[a], "torn"} : art' = [art EXCEPT ![a] = w]
      BY <1>3, <2>4 DEF InitFails, Tears
    <3>2. ASSUME NEW w \in {art[a], "torn"}, art' = [art EXCEPT ![a] = w] PROVE art'["unit"] # "none"
      <4>1. art'["unit"] \in {art["unit"], "torn"}
        BY <1>1, <3>2 DEF ArtOK
      <4> QED
        BY <2>1, <4>1 DEF Present
    <3> QED
      BY <2>1, <3>1, <3>2 DEF Present
  <2> QED
    BY <2>2, <2>3, <2>4 DEF InitActs
<1>7. WindowsWay'
  <2>1. SUFFICES ASSUME cmd' = "install", ~cfault' PROVE WindowsWay'
    BY DEF WindowsWay
  <2>2. cmd = "install" /\ ~cfault /\ (InitStep(Alive) \/ InitRefused)
    BY <2>1 DEF InitActs, ActEnds, Fault, cmdvars, faultvars
  <2>3. CASE InitRefused
    <3>1. isteps' = <<>> /\ art' = art /\ Refuses(v, a)
      BY <1>3, <2>3 DEF InitRefused
    <3>2. PICK r \in {"ok", "error"} : ActEnds(r) /\ (Ahead(acts) = "install" => r = "error")
      <4>1. v \notin {"write", "command"}
        BY <3>1 DEF Refuses
      <4>2. ~InitStep(Alive) /\ (InitIgnored => FALSE)
        BY <1>3, <1>5, <2>3 DEF InitStep, InitIgnored, InitRefused
      <4> QED
        BY <4>2 DEF InitActs
    <3>3. CASE Ahead(acts) = "install"
      <4>1. v = "link"
        BY <1>4, <3>1, <3>3 DEF Refuses
      <4>2. Away("unit")
        BY <1>1, <1>3, <2>2, <3>3, <4>1 DEF WInv, WindowsWay
      <4>3. Ahead(acts') = "end" /\ acts' = <<>>
        BY <1>1, <2>2, <3>2, <3>3, InstallActEnds
      <4> QED
        BY <3>1, <4>2, <4>3 DEF WindowsWay, Away
    <3>4. CASE Ahead(acts) # "install"
      <4>1. Ahead(acts) = "uninstall?"
        BY <1>1, <2>2, <3>4, InstallHeads DEF InitActsOf
      <4>2. Away("unit")
        BY <1>4, <3>1, <4>1 DEF Refuses, Away
      <4>3. Ahead(acts') = "save" /\ acts' # <<>>
        BY <1>1, <2>2, <3>2, <4>1, InstallActEnds DEF Ahead
      <4> QED
        BY <3>1, <4>2, <4>3 DEF WindowsWay, Away
    <3> QED
      BY <3>3, <3>4
  <2>4. CASE InitStep(Alive)
    <3>1. /\ ~Refuses(v, a) /\ isteps' = Tail(isteps)
          /\ v = "command" => art' = art
          /\ v # "command" => a \in Artefacts /\ art'[a] = Leaves(v, Alive)
          /\ v # "command" => \A b \in Artefacts \ {a} : art'[b] = art[b]
      BY <1>1, <1>3, <2>4, StepDone DEF InitStep
    <3>2. /\ isteps' # <<>> => UNCHANGED <<acts, cres>>
          /\ isteps' = <<>> => ActEnds("ok")
      <4>1. ~InitRefused
        BY <1>3, <3>1 DEF InitRefused
      <4>2. ~Fault
        BY <2>1 DEF Fault
      <4> QED
        BY <4>1, <4>2 DEF InitActs, cmdvars
    <3>3. CASE Ahead(acts) # "install"
      <4>1. Ahead(acts) = "uninstall?"
        BY <1>1, <2>2, <3>3, InstallHeads DEF InitActsOf
      <4>2. Away("unit")'
        BY <1>4, <3>1, <4>1 DEF Leaves, Away
      <4>3. acts' # <<>> /\ Ahead(acts') \in {"uninstall?", "save"}
        <5>1. isteps' = <<>> => Ahead(acts') = "save"
          BY <1>1, <2>2, <3>2, <4>1, InstallActEnds
        <5>2. acts' = <<>> => Ahead(acts') = "end"
          BY DEF Ahead
        <5> QED
          BY <3>2, <4>1, <5>1, <5>2
      <4> QED
        BY <4>2, <4>3 DEF WindowsWay
    <3>4. CASE Ahead(acts) = "install" /\ v = "write"
      <4>1. a = "helper" /\ isteps' # <<>> /\ Head(isteps')[1] = "link"
        BY <1>1, <1>3, <1>4, <3>1, <3>4, WindowsSteps
      <4>2. Away("unit")'
        BY <1>1, <1>3, <2>2, <3>1, <3>4, <4>1 DEF WInv, WindowsWay, Away
      <4> QED
        BY <1>1, <3>2, <3>4, <4>1, <4>2 DEF WindowsWay
    <3>5. CASE Ahead(acts) = "install" /\ v = "link"
      <4>1. a = "unit" /\ isteps' # <<>> /\ Head(isteps')[1] = "command"
        BY <1>1, <1>3, <1>4, <3>1, <3>5, WindowsSteps
      <4>2. ~Alive'
        BY <1>2, <3>1, <3>5, <4>1 DEF WInv, WindowsAlive, Refuses
      <4> QED
        BY <1>1, <3>2, <3>5, <4>1, <4>2 DEF WindowsWay
    <3>6. CASE Ahead(acts) = "install" /\ v = "command"
      <4>1. isteps' = <<>>
        BY <1>1, <1>3, <1>4, <3>1, <3>6, WindowsSteps
      <4>2. ~Alive'
        BY <1>1, <1>2, <1>3, <2>2, <3>6 DEF WInv, WindowsWay
      <4>3. Ahead(acts') = "start" /\ acts' # <<>>
        BY <1>1, <2>2, <3>2, <3>6, <4>1, InstallActEnds DEF Ahead
      <4> QED
        BY <4>2, <4>3 DEF WindowsWay
    <3> QED
      BY <1>4, <3>3, <3>4, <3>5, <3>6
  <2> QED
    BY <2>2, <2>3, <2>4
<1> QED
  BY <1>6, <1>7 DEF WInv

LEMMA WInvStep == IInv /\ CInv /\ WInv /\ [HostNext]_hvars => WInv'
<1> SUFFICES ASSUME IInv, CInv, WInv, [HostNext]_hvars PROVE WInv'
  OBVIOUS
<1>1. CASE DaemonNext
  BY <1>1, WindowsDaemon
<1>2. CASE Command
  <2>1. /\ acts = <<>> /\ acts' = ActsOf(cmd') /\ UNCHANGED <<init, art, life>>
    BY <1>2 DEF Command, ivars, lifevars
  <2>2. cmd' = "install" => acts' # <<>> /\ Ahead(acts') = "stop?"
    BY <2>1 DEF ActsOf, Ahead
  <2> QED
    BY <2>1, <2>2 DEF WInv, WindowsAlive, WindowsWay, Alive, Present
<1>3. CASE StopSent \/ DNSBegins \/ UNCHANGED hvars
  <2>1. UNCHANGED <<cmd, acts, cres, isteps, init, art, life, cfault>>
    BY <1>3 DEF StopSent, DNSBegins, hvars, ivars, lifevars, cmdvars, faultvars
  <2> QED
    BY <2>1, WindowsAside DEF Follows, Alive
<1>4. CASE Stopped \/ NoUnit \/ StatusAsked \/ SaveConfig
  <2>1. PICK r \in {"ok", "error"} : ActEnds(r) /\ (SaveConfig => r = "ok")
    BY <1>4 DEF Stopped, NoUnit, StatusAsked, SaveConfig
  <2>2. /\ acts # <<>> /\ Ahead(acts) \notin InitActsOf /\ (Ahead(acts) = "save" => SaveConfig)
        /\ Ahead(acts) = "start" => ~Present("unit")
    BY <1>4 DEF Stopped, NoUnit, StatusAsked, SaveConfig, Facing, Ahead, InitActsOf
  <2>3. UNCHANGED <<init, art, isteps, cfault, life>>
    BY <1>4 DEF Stopped, NoUnit, StatusAsked, SaveConfig, ivars, lifevars, faultvars
  <2> QED
    BY <2>1, <2>2, <2>3, WindowsAct DEF Alive, Away, Present
<1>5. CASE StartService
  <2>1. PICK r \in {"ok", "error"} : ActEnds(r) /\ r = IF Alive /\ init = "windows" THEN "error" ELSE "ok"
    BY <1>5 DEF StartService
  <2>2. acts # <<>> /\ Ahead(acts) = "start" /\ Present("unit") /\ UNCHANGED <<init, art, isteps, cfault>>
    BY <1>5 DEF StartService, Facing, Ahead, ivars, faultvars
  <2>3. cmd = "install" /\ init = "windows" /\ ~cfault => r = "ok"
    BY <2>1, <2>2 DEF WInv, WindowsWay
  <2> QED
    BY <2>1, <2>2, <2>3, WindowsAct DEF InitActsOf
<1>6. CASE InitBegins
  <2>1. UNCHANGED <<cmd, acts, cres, init, art, life, cfault>> /\ isteps = <<>>
    BY <1>6 DEF InitBegins, lifevars, cmdvars, faultvars
  <2>2. CASE init # "windows"
    BY <2>1, <2>2 DEF WInv, WindowsAlive, WindowsWay
  <2>3. CASE init = "windows"
    <3>1. Ahead(acts) = "install" => isteps' = << <<"write", "helper">>, <<"link", "unit">>, <<"command", "recovery">> >>
      BY <1>6, <2>3 DEF InitBegins, Facing, Ahead, System, WindowsInit
    <3>2. Ahead(acts) = "install" => isteps' # <<>> /\ Head(isteps')[1] = "write"
      BY <3>1
    <3> QED
      BY <2>1, <3>2 DEF WInv, WindowsAlive, WindowsWay, Away, Alive, Present
  <2> QED
    BY <2>2, <2>3
<1>7. CASE InitActs
  <2>1. CASE init = "windows"
    BY <1>7, <2>1, WindowsInstalls
  <2>2. CASE init # "windows"
    BY <1>7, <2>2, InitFrame DEF WInv, WindowsAlive, WindowsWay
  <2> QED
    BY <2>1, <2>2
<1>8. CASE DNSCalls
  <2>1. PICK c \in Callers :
          /\ (DNSStep(c) /\ UNCHANGED faultvars) \/ (DNSFault(c) /\ Fault)
          /\ IF c = "cli" /\ step'[c] = "idle" THEN ActEnds(result'[c]) ELSE UNCHANGED cmdvars
          /\ UNCHANGED <<ivars, lifevars>>
    BY <1>8 DEF DNSCalls
  <2>2. UNCHANGED <<isteps, init, art, life>> /\ (cfault => cfault')
    BY <2>1 DEF ivars, lifevars, Fault, faultvars
  <2>3. CASE UNCHANGED cmdvars
    BY <2>2, <2>3, WindowsAside DEF Follows, Alive, cmdvars
  <2>4. CASE c = "cli" /\ ActEnds(result'[c])
    <3>1. Busy("cli")
      BY <2>1, <2>4, ByItself DEF Frame, Busy
    <3>2. Ahead(acts) \in DNSActs
      BY <3>1 DEF CInv, CTypeOK
    <3>3. cmd # "install" /\ cmd' = cmd
      BY <2>4, <3>2, InstallHeads DEF DNSActs, ActEnds
    <3> QED
      BY <2>2, <3>3 DEF WInv, WindowsAlive, WindowsWay, Alive, Present
  <2> QED
    BY <2>1, <2>3, <2>4
<1>9. CASE CommandKilled \/ Reboot
  <2>1. cfault' = TRUE
    BY <1>9 DEF CommandKilled, Reboot, Fault
  <2>2. WindowsAlive'
    <3>1. CASE Reboot
      BY <3>1 DEF Reboot, WindowsAlive, Alive
    <3>2. CASE CommandKilled
      <4>1. UNCHANGED <<init, life>> /\ (art' = art \/ \E a : art' = [art EXCEPT ![a] = "torn"])
        BY <3>2 DEF CommandKilled, CommandDies, lifevars
      <4>2. ArtOK /\ "unit" \in Artefacts
        BY DEF CInv, CTypeOK, Artefacts
      <4>3. art'["unit"] \in {art["unit"], "torn"}
        BY <4>1, <4>2 DEF ArtOK
      <4> QED
        BY <4>1, <4>3 DEF WInv, WindowsAlive, Alive, Present
    <3> QED
      BY <1>9, <3>1, <3>2
  <2> QED
    BY <2>1, <2>2 DEF WInv, WindowsWay
<1> QED
  BY <1>1, <1>2, <1>3, <1>4, <1>5, <1>6, <1>7, <1>8, <1>9 DEF HostNext

LEMMA WInvAlways == HostSpec => []WInv
BY InitWInv, WInvStep, IInvHolds, CInvAlways, PTL DEF HostSpec

LEMMA DownIs == ASSUME init \in Inits PROVE System.down \in {"stopped", "error"}
<1>1. CASE init \in {"systemd", "vyos", "ubios", "procd", "upstart", "ddwrt", "edgeos"}
  BY <1>1 DEF System, SystemD, UbiOSInit, Procd, Upstart, DDWRTInit, EdgeOSInit
<1>2. CASE init \in {"sysv", "synology", "firewalla", "openrc", "runit", "bsd", "merlin", "launchd", "windows"}
  BY <1>2 DEF System, SysV, SynologyInit, Firewalla, OpenRC, Runit, BSD, MerlinInit, Launchd, WindowsInit
<1> QED
  BY <1>1, <1>2 DEF Inits

LEMMA CInvImplies == CInv /\ WInv => InstallWorks
<1> SUFFICES ASSUME CInv, WInv PROVE InstallWorks
  OBVIOUS
<1>1. Ahead(<<>>) = "end"
  BY DEF Ahead
<1>2. ASSUME Over("install"), cres = "ok"
      PROVE  /\ \A i \in DOMAIN System.install :
                  System.install[i][1] \in {"create", "enable", "link", "write"} => art[System.install[i][2]] = "whole"
             /\ begun \/ System.script
             /\ Status(Alive) # "not installed"
  <2>1. \A i \in DOMAIN System.install : System.install[i][1] \in Sure => art[System.install[i][2]] = "whole"
    BY <1>2 DEF CInv, Installed, Over
  <2>2. begun \/ System.script
    BY <1>2 DEF CInv, Succeeds, Over
  <2>3. PICK i \in DOMAIN System.install : System.install[i][2] = "unit" /\ System.install[i][1] \in Sure
    BY Plans DEF GoodPlans, InstallPlan, UninstallPlan
  <2>4. Present("unit")
    BY <2>1, <2>3 DEF Present
  <2>5. System.down # "not installed"
    BY DownIs DEF CInv, CTypeOK
  <2>6. Status(Alive) # "not installed"
    BY <2>4, <2>5 DEF Status
  <2> QED
    BY <2>1, <2>2, <2>6 DEF Sure
<1>3. Over("install") /\ cres = "error" /\ ~cfault =>
        init \in {"bsd", "openrc"} \/ (init = "windows" /\ art["unit"] \in {"marked", "none"})
  BY DEF CInv, Succeeds, WInv, WindowsWay, Over, Forgiving, Away
<1> QED
  BY <1>2, <1>3 DEF InstallWorks

LEMMA HostTyped == IInv /\ RInv /\ CInv => HostTypeOK
<1> SUFFICES ASSUME IInv, RInv, CInv PROVE HostTypeOK
  OBVIOUS
<1>1. DNSTypeOK /\ RouterTypeOK /\ InitTypeOK
  BY DEF IInv, RInv, CInv, CTypeOK, ArtOK, InitTypeOK
<1>2. /\ auto \in BOOLEAN /\ activates \in BOOLEAN /\ term \in BOOLEAN
      /\ wanted \in {"no", "yes", "boot"} /\ cres \in {"none", "ok", "error", "killed"}
      /\ Busy("daemon") => life \in {"activate", "deactivate"}
  BY DEF CInv, CTypeOK
<1>3. /\ life \in {"dead", "configure", "setup", "activate", "up", "restore", "deactivate"}
      /\ call # "none" => Alive
  BY DEF RInv, InItsLife, Alive
<1>4. Busy("cli") => Facing(DNSActs)
  BY FacingIs DEF CInv, CTypeOK, DNSActs
<1>5. isteps # <<>> => Facing({"install", "uninstall", "uninstall?"})
  BY FacingIs DEF CInv, CTypeOK, InitActsOf
<1> QED
  BY <1>1, <1>2, <1>3, <1>4, <1>5 DEF HostTypeOK

(* Every variable of the host keeps to its values, and only who has a call  *)
(* under way is at one: the daemon's in its places of run.go, a command's   *)
(* in those of activate.go and service.go.                                  *)
THEOREM HostTypes == HostSpec => []HostTypeOK
BY IInvHolds, RInvAlways, CInvAlways, HostTyped, PTL

(* `nextdns install` that says it succeeded has every artefact whole and    *)
(* has started a daemon, after any commands, faults and restarts; and one   *)
(* that meets no fault fails, whatever an earlier command had left half     *)
(* done, only on the BSDs, under OpenRC, and on Windows where the service   *)
(* it has deleted was still stopping: that one is then gone, or goes with   *)
(* its process (install in service.go, Install of windows/service.go).      *)
THEOREM HostInstallWorks == HostSpec => []InstallWorks
BY CInvAlways, WInvAlways, CInvImplies, PTL

-------------------------------------------------------------------------------
(* What `uninstall` leaves of a system on which nothing has failed.         *)

Counted == faults \in Nat /\ (faults = 0 => ~cfault)

(* The DNS is the administrator's, or nobody's.                             *)
Clean == (os \in FileSystems => file["resolv"] = "user") /\ \A s \in Services : dns[s] # "ours"

(* The daemon has not taken the DNS, or has given it back.                  *)
Quiet == life \in {"dead", "configure", "setup"} \/ ~activates \/ (life = "deactivate" /\ ~Busy("daemon"))

(* Who resets and who sets, and what is clean once the reset of             *)
(* `uninstall` is over.                                                     *)
GivenBack ==
    /\ Busy("daemon") => activates /\ (life = "deactivate" => op["daemon"] = "reset")
    /\ Busy("cli") /\ Ahead(acts) = "deactivate?" => op["cli"] = "reset"
    /\ faults = 0 /\ ~overlapped /\ os \notin FileSystems =>
         ~interrupted /\ \A c \in Callers : step[c] = "each" => result[c] # "error"
    /\ cmd = "uninstall" /\ Ahead(acts) # "deactivate?" /\ Quiet /\ faults = 0 /\ ~overlapped => Clean

(* dnsmasq forwards nothing to the daemon.                                  *)
Free == masq.forwards => rtr = "ddwrt" /\ found["options"] = "unset"

(* The call that writes dnsmasq's configuration.                            *)
SetCall == IF Early THEN "configure" ELSE "setup"

(* The file that Restore removes has been written.                          *)
Written ==
    \/ call = SetCall /\ Ahead(todo) \in {"restart", "end"}
    \/ call # "restore" /\ outcome[SetCall] = "ok" /\ outcome["restore"] = "none"
    \/ call = "restore" /\ Ahead(todo) = "remove"

LetGo ==
    /\ found["options"] \in {"unset", "user"}
    /\ faults = 0 =>
         /\ ~forgot /\ \A c \in RouterCalls : outcome[c] # "error"
         /\ Used /\ (life \in {"activate", "up", "restore", "deactivate"} \/ (life = "setup" /\ call = "none")) =>
              outcome["setup"] # "none"
         /\ Used /\ (life = "deactivate" \/ (life = "restore" /\ call = "none")) => outcome["restore"] # "none"
         /\ rtr \in {"edgeos", "ubios"} /\ Written => conf.ours # "none"
         /\ (~Alive \/ ~Used) => Free
         /\ (call = "restore" /\ Ahead(todo) = "end") \/ outcome["restore"] = "ok" => Free

(* Uninstall that has ended well has removed the unit, or marked it.        *)
Uninstalled ==
    cmd = "uninstall" =>
      /\ acts # <<>> => cres = "none"
      /\ acts = <<>> /\ cres = "ok" /\ ~cfault => Away("unit")

UInv == Counted /\ GivenBack /\ LetGo /\ Uninstalled

LEMMA InitLetGo == HostInit => LetGo
<1> SUFFICES ASSUME HostInit PROVE LetGo
  OBVIOUS
<1>1. /\ found["options"] \in {"unset", "user"} /\ opts = found /\ conf.ours = "none"
      /\ masq = Load(conf, FALSE) /\ call = "none" /\ forgot = FALSE
      /\ \A c \in RouterCalls : outcome[c] = "none"
  BY DEF HostInit, RouterInit, Options
<1>2. ~masq.forwards
  BY <1>1 DEF Load
<1>3. life = "dead"
  BY DEF HostInit
<1> QED
  BY <1>1, <1>2, <1>3 DEF LetGo, Free, Written, SetCall, RouterCalls

(* A call under way is the first of its kind in the daemon's life.          *)
LEMMA UnderWay ==
    ASSUME RInv, call # "none"
    PROVE  /\ Alive /\ Used /\ outcome["restore"] = "none" /\ call \in RouterCalls
           /\ (call = "configure" /\ life = "configure") \/ (call = "setup" /\ life = "setup")
              \/ (call = "restore" /\ life = "restore")
BY DEF RInv, RouterTypeOK, InItsLife, Alive, RouterCalls

(* A step of a call.                                                        *)
LEMMA StepLetsGo ==
    ASSUME RInv, LetGo, NEW s, Stepped(s), UNCHANGED faults,
           (conf' = conf /\ s # "fill") \/ conf'.ours # "none" \/ s \in Resetting,
           IF s = "restart" THEN call = "restore" /\ faults = 0 => Free' ELSE UNCHANGED masq
    PROVE  LetGo'
<1>1. /\ UNCHANGED <<rtr, cached, found, call, outcome, forgot, script, lost, life, machine, init>>
      /\ call \in RouterCalls /\ Ahead(todo) = s
      /\ call # "restore" => SetupNext(rtr, s, Ahead(todo'))
      /\ call = "restore" => RestoreNext(rtr, s, Ahead(todo'))
  BY DEF Stepped
<1>2. UNCHANGED <<Early, Used, SetCall, Alive>>
  BY <1>1 DEF Early, Platform, Used, ReadsConfig, SetCall, Alive
<1>3. Alive /\ Used /\ outcome["restore"] = "none" /\ call # "none"
  BY <1>1, UnderWay DEF RouterCalls
<1>4. Ahead(todo') = "end" <=> s = "restart"
  BY <1>1 DEF SetupNext, RestoreNext, Setting, Resetting
<1>5. rtr \in {"edgeos", "ubios"} /\ Written' /\ faults = 0 => conf'.ours # "none"
  <2>1. Ahead(todo') # "remove" /\ (s \in Resetting => call = "restore")
    BY <1>1 DEF SetupNext, RestoreNext, Setting, Resetting
  <2>2. SUFFICES ASSUME rtr \in {"edgeos", "ubios"}, Written', faults = 0, conf' = conf, s # "fill" PROVE conf'.ours # "none"
    BY <1>1, <2>1, <1>3 DEF Written, SetCall
  <2>3. Ahead(todo') = "restart" => call = "restore" \/ s = "fill"
    BY <1>1, <2>2 DEF SetupNext, Setting
  <2>4. Written
    BY <1>1, <1>2, <1>4, <2>1, <2>2, <2>3 DEF Written, SetCall
  <2> QED
    BY <2>2, <2>4 DEF LetGo
<1>6. faults = 0 /\ call = "restore" /\ Ahead(todo') = "end" => Free'
  BY <1>4
<1> QED
  BY <1>1, <1>2, <1>3, <1>5, <1>6 DEF LetGo

LEMMA RestartLetsGo ==
    ASSUME RInv, LetGo, RestartDNSMasq, UNCHANGED <<life, machine, init>>, call = "restore", faults = 0 PROVE Free'
<1>1. Stepped("restart")
  BY Stepping DEF RestartDNSMasq
<1>2. masq' = Load(conf, TRUE) /\ Ahead(todo) = "restart" /\ UNCHANGED <<rtr, found>>
  BY <1>1 DEF RestartDNSMasq, Stepped
<1>3. conf.ours = "none" /\ ~forgot
  BY <1>2 DEF RInv, PutBackSo, LetGo
<1>4. CASE rtr = "ddwrt"
  <2>1. masq'.forwards => opts["options"] = "forward"
    BY <1>2, <1>4 DEF Load
  <2>2. found["options"] = "user" => opts["options"] = "user"
    BY <1>2, <1>3 DEF RInv, PutBackSo, Own, Options
  <2> QED
    BY <1>2, <1>4, <2>1, <2>2 DEF Free, LetGo
<1>5. CASE rtr # "ddwrt"
  BY <1>2, <1>3, <1>5 DEF Load, Free
<1> QED
  BY <1>4, <1>5

(* A call ends well.                                                        *)
LEMMA DoneLetsGo ==
    ASSUME RInv, LetGo, RouterDone, UNCHANGED <<life, machine, init, faults>> PROVE LetGo'
<1>1. /\ call # "none" /\ call' = "none" /\ todo = <<>> /\ Ahead(todo) = "end"
      /\ outcome' = [outcome EXCEPT ![call] = "ok"]
      /\ UNCHANGED <<rtr, cached, conf, found, mem, masq, forgot, life, machine, init, faults>>
  BY DEF RouterDone, RouterReturn, Ahead
<1>2. UNCHANGED <<Early, Used, SetCall, Alive, Free>>
  BY <1>1 DEF Early, Platform, Used, ReadsConfig, SetCall, Alive, Free
<1>3. /\ outcome \in [RouterCalls -> {"none", "ok", "error"}]
      /\ outcome'[call] = "ok" /\ \A c \in RouterCalls \ {call} : outcome'[c] = outcome[c]
  BY <1>1, UnderWay DEF RInv, RouterTypeOK
<1>4. (call = "configure" /\ life = "configure") \/ (call = "setup" /\ life = "setup")
      \/ (call = "restore" /\ life = "restore")
  BY <1>1, UnderWay
<1>5. Written' => Written
  BY <1>1, <1>2, <1>3, <1>4, UnderWay DEF Written, SetCall, RouterCalls
<1>6. /\ Used /\ (life \in {"activate", "up", "restore", "deactivate"} \/ life = "setup") /\ faults = 0 =>
            outcome'["setup"] # "none"
      /\ Used /\ (life = "deactivate" \/ life = "restore") => outcome'["restore"] # "none"
  BY <1>3, <1>4 DEF LetGo, RouterCalls
<1>7. faults = 0 /\ outcome'["restore"] = "ok" => Free
  BY <1>1, <1>3, <1>4 DEF LetGo, RouterCalls
<1>8. Alive /\ Used
  BY <1>1, UnderWay
<1>9. faults = 0 => \A c \in RouterCalls : outcome'[c] # "error"
  BY <1>3 DEF LetGo
<1> QED
  BY <1>1, <1>2, <1>5, <1>6, <1>7, <1>8, <1>9 DEF LetGo

(* Once something has failed nothing more is said.                          *)
LEMMA Failed == ASSUME LetGo, UNCHANGED found, faults' # 0 PROVE LetGo'
BY DEF LetGo

LEMMA FaultCounts == ASSUME Counted, Fault PROVE faults' # 0 /\ Counted'
BY DEF Counted, Fault

LEMMA SettingLetsGo ==
    ASSUME RInv, LetGo, UNCHANGED <<life, machine, init, faults>>,
           Truncate \/ Fill \/ Info \/ Save \/ SetNVRAM \/ UCI \/ EnsureDHCPOption
    PROVE  LetGo'
<1>1. CASE Truncate
  <2>1. Stepped("truncate") /\ conf'.ours # "none" /\ masq' = masq
    BY <1>1, Stepping DEF Truncate
  <2> QED
    BY <2>1, StepLetsGo
<1>2. CASE Fill
  <2>1. Stepped("fill") /\ conf'.ours # "none" /\ masq' = masq
    BY <1>2, Stepping DEF Fill, Template
  <2> QED
    BY <2>1, StepLetsGo
<1>3. ASSUME NEW s \in {"info", "save", "set", "uci", "dhcp"}, Stepped(s), UNCHANGED <<conf, masq>> PROVE LetGo'
  BY <1>3, StepLetsGo
<1>4. CASE Info
  BY <1>3, <1>4, Stepping DEF Info
<1>5. CASE Save
  BY <1>3, <1>5, Stepping DEF Save
<1>6. CASE SetNVRAM
  BY <1>3, <1>6, Stepping DEF SetNVRAM
<1>7. CASE UCI
  BY <1>3, <1>7, Stepping DEF UCI
<1>8. CASE EnsureDHCPOption
  BY <1>3, <1>8, Stepping DEF EnsureDHCPOption
<1> QED
  BY <1>1, <1>2, <1>4, <1>5, <1>6, <1>7, <1>8

LEMMA ResettingLetsGo ==
    ASSUME RInv, LetGo, UNCHANGED <<life, machine, init, faults>>,
           RemoveConf \/ PutBack \/ ResetNVRAM \/ RestoreServers \/ RemoveDHCPOption
    PROVE  LetGo'
<1>1. ASSUME NEW s \in Resetting, Stepped(s), UNCHANGED masq PROVE LetGo'
  BY <1>1, StepLetsGo DEF Resetting
<1>2. CASE RemoveConf
  <2>1. PICK s \in {"quiet", "remove"} : Doing(s)
    BY <1>2 DEF RemoveConf
  <2> QED
    BY <1>1, <1>2, <2>1, Stepping DEF RemoveConf, Resetting
<1>3. CASE PutBack
  BY <1>1, <1>3, Stepping DEF PutBack, Resetting
<1>4. CASE ResetNVRAM
  BY <1>1, <1>4, Stepping DEF ResetNVRAM, Resetting
<1>5. CASE RestoreServers
  BY <1>1, <1>5, Stepping DEF RestoreServers, Resetting
<1>6. CASE RemoveDHCPOption
  BY <1>1, <1>6, Stepping DEF RemoveDHCPOption, Resetting
<1> QED
  BY <1>2, <1>3, <1>4, <1>5, <1>6

(* The file to remove is there, unless something has failed.                *)
LEMMA SomethingToRemove == ASSUME RInv, LetGo, NothingToRemove PROVE faults # 0
<1>1. todo # <<>> /\ Ahead(todo) = "remove" /\ conf.ours = "none" /\ call # "none"
  BY DEF NothingToRemove, Ahead, RouterReturn
<1>2. call = "restore"
  <2>1. SUFFICES ASSUME call \in {"configure", "setup"} PROVE FALSE
    BY <1>1, UnderWay DEF RouterCalls
  <2>2. SetupLeft(rtr, todo) /\ rtr \in Platforms
    BY <1>1, <2>1 DEF RInv, OnPlan, RouterTypeOK
  <2>3. SetupNext(rtr, "remove", Ahead(Tail(todo)))
    BY <1>1, <2>2, SetupOnward DEF Ahead
  <2> QED
    BY <2>3 DEF SetupNext, Setting
<1>3. rtr \in {"edgeos", "ubios"}
  <2>1. RestoreLeft(rtr, todo) /\ rtr \in Platforms
    BY <1>2 DEF RInv, OnPlan, RouterTypeOK
  <2>2. RestoreNext(rtr, "remove", Ahead(Tail(todo)))
    BY <1>1, <2>1, RestoreOnward DEF Ahead
  <2> QED
    BY <2>2 DEF RestoreNext
<1> QED
  BY <1>1, <1>2, <1>3 DEF LetGo, Written

LEMMA CallLetsGo == ASSUME RInv, Counted, LetGo, RouterCall PROVE LetGo'
<1>1. UNCHANGED <<life, machine, init>>
  BY DEF RouterCall, lifevars, ivars
<1>2. CASE RouterStep /\ UNCHANGED faults
  <2>1. CASE RestartDNSMasq
    <3>1. Stepped("restart") /\ UNCHANGED conf
      BY <1>1, <2>1, Stepping DEF RestartDNSMasq
    <3>2. call = "restore" /\ faults = 0 => Free'
      BY <1>1, <2>1, RestartLetsGo
    <3> QED
      BY <1>2, <3>1, <3>2, StepLetsGo
  <2> QED
    BY <1>1, <1>2, <2>1, DoneLetsGo, SettingLetsGo, ResettingLetsGo DEF RouterStep
<1>3. CASE NothingToRemove /\ UNCHANGED faults
  BY <1>3, SomethingToRemove, Failed DEF NothingToRemove, RouterReturn
<1>4. CASE (RouterFails \/ PartlySet \/ PartlyWritten) /\ Fault
  <2>1. UNCHANGED found
    BY <1>4 DEF RouterFails, PartlySet, PartlyWritten, RouterReturn
  <2> QED
    BY <1>4, <2>1, Failed, FaultCounts
<1> QED
  BY <1>2, <1>3, <1>4 DEF RouterCall, faultvars

(* The daemon's life goes on and its router is left alone.                  *)
LEMMA AsideLetsGo ==
    ASSUME LetGo, UNCHANGED <<rvars, machine, init, faults>>,
           faults = 0 /\ Used /\ (life' \in {"activate", "up", "restore", "deactivate"} \/ (life' = "setup" /\ call = "none")) =>
             outcome["setup"] # "none",
           faults = 0 /\ Used /\ (life' = "deactivate" \/ (life' = "restore" /\ call = "none")) => outcome["restore"] # "none",
           faults = 0 /\ ~Alive' => Free
    PROVE  LetGo'
<1>1. UNCHANGED <<Early, Used, SetCall, Free>>
  BY DEF rvars, Early, Platform, Used, ReadsConfig, SetCall, Free
<1>2. Written' = Written
  BY <1>1 DEF rvars, Written
<1> QED
  BY <1>1, <1>2 DEF LetGo, rvars

LEMMA SpawnLetsGo == ASSUME RInv, LetGo, Spawn, UNCHANGED <<machine, init, faults>> PROVE LetGo'
<1>1. /\ life = "dead" /\ life' = "configure" /\ OnRouter(Configure) /\ call = "none"
      /\ \A c \in RouterCalls : outcome[c] = "none"
  BY DEF Spawn, Alive, RInv, InItsLife
<1>2. CASE Used
  <2>1. /\ call' = "configure" /\ todo' = (IF Early THEN Platform.setup ELSE <<>>)
        /\ UNCHANGED <<rtr, cached, conf, opts, found, masq, outcome, forgot, script, lost>>
    BY <1>1, <1>2 DEF OnRouter, Used, Configure, RouterBegin, Early
  <2>2. UNCHANGED <<Early, Used, SetCall>> /\ Alive'
    BY <1>1, <2>1 DEF Early, Platform, Used, ReadsConfig, SetCall, Alive
  <2>3. rtr \in {"edgeos", "ubios"} => ~Written'
    <3>1. rtr \in {"edgeos", "ubios"} /\ Early => Ahead(todo') = "truncate"
      BY <2>1, SetupBegins
    <3> QED
      BY <1>1, <2>1, <2>2, <3>1 DEF Written, SetCall, RouterCalls
  <2> QED
    BY <1>1, <1>2, <2>1, <2>2, <2>3 DEF LetGo, RouterCalls
<1>3. CASE ~Used
  <2>1. UNCHANGED rvars
    BY <1>1, <1>3 DEF OnRouter, Used
  <2> QED
    BY <1>1, <1>3, <2>1, AsideLetsGo DEF Alive
<1> QED
  BY <1>2, <1>3

LEMMA ListenLetsGo == ASSUME RInv, LetGo, Listen PROVE LetGo'
<1>1. /\ call = "none" /\ life = "configure" /\ life' = "setup" /\ OnRouter(Setup)
      /\ UNCHANGED <<machine, init, faults>>
  BY DEF Listen, Live, ivars, faultvars
<1>2. CASE Used
  <2>1. /\ call' = "setup" /\ todo' = (IF Early THEN <<>> ELSE Platform.setup)
        /\ UNCHANGED <<rtr, cached, conf, opts, found, mem, masq, outcome, forgot, script, lost>>
    BY <1>1, <1>2 DEF OnRouter, Used, Setup, RouterBegin, Early
  <2>2. UNCHANGED <<Early, Used, SetCall>> /\ Alive'
    BY <1>1, <2>1 DEF Early, Platform, Used, ReadsConfig, SetCall, Alive
  <2>3. outcome["setup"] = "none" /\ outcome["restore"] = "none"
    BY <1>1 DEF RInv, InItsLife
  <2>4. rtr \in {"edgeos", "ubios"} /\ Written' => Written
    <3>1. rtr \in {"edgeos", "ubios"} /\ ~Early => Ahead(todo') = "truncate"
      BY <2>1, SetupBegins
    <3> QED
      BY <1>1, <2>1, <2>2, <2>3, <3>1 DEF Written, SetCall
  <2> QED
    BY <1>1, <1>2, <2>1, <2>2, <2>3, <2>4 DEF LetGo
<1>3. CASE ~Used
  <2>1. UNCHANGED rvars
    BY <1>1, <1>3 DEF OnRouter, Used
  <2> QED
    BY <1>1, <1>3, <2>1, AsideLetsGo DEF Alive
<1> QED
  BY <1>2, <1>3

LEMMA StoppingLetsGo == ASSUME RInv, LetGo, Stopping PROVE LetGo'
<1>1. /\ life = "up" /\ life' = "restore" /\ OnRouter(Restore) /\ call = "none"
      /\ UNCHANGED <<machine, init, faults>>
  BY DEF Stopping, Live, ivars, faultvars, RInv, InItsLife
<1>2. CASE Used
  <2>1. /\ call' = "restore" /\ todo' = Platform.restore
        /\ UNCHANGED <<rtr, cached, conf, opts, found, mem, masq, outcome, forgot, script, lost>>
    BY <1>1, <1>2 DEF OnRouter, Used, Restore, RouterBegin
  <2>2. UNCHANGED <<Early, Used, SetCall, Free>> /\ Alive'
    BY <1>1, <2>1 DEF Early, Platform, Used, ReadsConfig, SetCall, Free, Alive
  <2>3. /\ outcome["restore"] = "none" /\ outcome["configure"] # "none"
        /\ faults = 0 => outcome["setup"] # "none"
    BY <1>1, <1>2 DEF RInv, InItsLife, Alive, LetGo
  <2>4. faults = 0 => Written
    <3>1. faults = 0 => outcome["configure"] = "ok" /\ outcome["setup"] = "ok"
      <4>1. outcome["configure"] \in {"none", "ok", "error"} /\ outcome["setup"] \in {"none", "ok", "error"}
        BY DEF RInv, RouterTypeOK, RouterCalls
      <4> QED
        BY <2>3, <4>1 DEF LetGo, RouterCalls
    <3> QED
      BY <1>1, <2>3, <3>1 DEF Written, SetCall
  <2>5. Ahead(todo') = "end" => Free
    <3>1. Ahead(todo') = "end" => rtr \in {"generic", "nodhcp"}
      BY <2>1, RestoreBegins DEF RInv, RouterTypeOK, Platforms
    <3> QED
      BY <3>1 DEF RInv, PutBackSo, Free
  <2> QED
    BY <1>1, <1>2, <2>1, <2>2, <2>3, <2>4, <2>5 DEF LetGo
<1>3. CASE ~Used
  <2>1. UNCHANGED rvars
    BY <1>1, <1>3 DEF OnRouter, Used
  <2> QED
    BY <1>1, <1>3, <2>1, AsideLetsGo DEF Alive
<1> QED
  BY <1>2, <1>3

LEMMA ExitLetsGo == ASSUME RInv, LetGo, Exit PROVE LetGo'
<1>0. todo = <<>> /\ call = "none"
  BY DEF Exit, RInv, InItsLife, OnPlan
<1>1. /\ life = "deactivate" /\ life' = "dead" /\ call = "none" /\ call' = "none"
      /\ outcome' = [c \in RouterCalls |-> "none"]
      /\ UNCHANGED <<rtr, cached, opts, found, conf, masq, machine, init, faults>>
      /\ forgot' = (forgot \/ call # "none" \/ (outcome["configure"] # "none" /\ outcome["restore"] # "ok"))
  BY <1>0 DEF Exit, Gone, RouterCrash, Cut, faultvars
<1>2. UNCHANGED <<Early, Used, SetCall, Free>> /\ Alive
  BY <1>1 DEF Early, Platform, Used, ReadsConfig, SetCall, Free, Alive
<1>3. \A c \in RouterCalls : outcome'[c] = "none"
  BY <1>1
<1>4. faults = 0 /\ Used => outcome["restore"] = "ok"
  <2>1. outcome["restore"] \in {"none", "ok", "error"}
    BY DEF RInv, RouterTypeOK, RouterCalls
  <2> QED
    BY <1>1, <2>1 DEF LetGo, RouterCalls
<1>5. ~Used => \A c \in RouterCalls : outcome[c] = "none"
  BY DEF RInv, InItsLife
<1>6. faults = 0 => Free /\ ~forgot'
  BY <1>1, <1>2, <1>4, <1>5 DEF LetGo, RouterCalls
<1>7. ~Written'
  BY <1>1, <1>3 DEF Written, SetCall, RouterCalls
<1> QED
  BY <1>1, <1>2, <1>3, <1>6, <1>7 DEF LetGo, RouterCalls

LEMMA DaemonLetsGo == ASSUME RInv, Counted, LetGo, DaemonNext PROVE LetGo'
<1>1. CASE Respawn
  BY <1>1, SpawnLetsGo DEF Respawn, ivars, faultvars
<1>2. CASE ListenFails \/ Killed
  <2>1. Fault /\ UNCHANGED found
    BY <1>2 DEF ListenFails, Killed, RouterCrash
  <2> QED
    BY <2>1, Failed, FaultCounts
<1>3. CASE Activate \/ Started \/ Deactivate
  <2>1. UNCHANGED <<rvars, machine, init, faults>>
    BY <1>3 DEF Activate, Started, Deactivate, DaemonDNS, ivars, faultvars
  <2>2. \/ life = "setup" /\ life' = "activate" /\ call = "none"
        \/ life = "activate" /\ life' = "up"
        \/ life = "restore" /\ life' = "deactivate" /\ call = "none"
    BY <1>3 DEF Activate, Started, Deactivate, DaemonDNS, Live
  <2> QED
    BY <2>1, <2>2, AsideLetsGo DEF LetGo, Alive
<1> QED
  BY <1>1, <1>2, <1>3, ListenLetsGo, StoppingLetsGo, ExitLetsGo, CallLetsGo DEF DaemonNext

LEMMA LetGoStep == ASSUME RInv, Counted, LetGo, [HostNext]_hvars PROVE LetGo'
<1>1. ASSUME UNCHANGED <<rvars, life, machine, init, faults>> PROVE LetGo'
  BY <1>1, AsideLetsGo DEF LetGo, Alive
<1>2. CASE DaemonNext
  BY <1>2, DaemonLetsGo
<1>3. CASE Command \/ StopSent \/ Stopped \/ NoUnit \/ StatusAsked
  BY <1>1, <1>3 DEF Command, StopSent, Stopped, NoUnit, StatusAsked, lifevars, ivars, faultvars
<1>4. CASE InitBegins \/ SaveConfig \/ DNSBegins
  BY <1>1, <1>4 DEF InitBegins, SaveConfig, DNSBegins, lifevars, ivars, faultvars
<1>5. CASE StartService
  <2>1. UNCHANGED <<machine, init, faults>>
    BY <1>5 DEF StartService, ivars, faultvars
  <2>2. Spawn \/ UNCHANGED <<rvars, life>>
    BY <1>5 DEF StartService, lifevars
  <2> QED
    BY <1>1, <2>1, <2>2, SpawnLetsGo
<1>6. CASE InitActs \/ DNSCalls
  <2>1. UNCHANGED <<rvars, life, machine, init>>
    BY <1>6 DEF InitActs, DNSCalls, InitStep, InitIgnored, InitRefused, InitFails, lifevars, ivars
  <2>2. UNCHANGED faults \/ Fault
    BY <1>6 DEF InitActs, DNSCalls, faultvars
  <2>3. UNCHANGED found
    BY <2>1 DEF rvars
  <2> QED
    BY <1>1, <2>1, <2>2, <2>3, Failed, FaultCounts
<1>7. CASE CommandKilled \/ Reboot
  <2>1. Fault /\ UNCHANGED found
    BY <1>7 DEF CommandKilled, Reboot, RouterCrash, rvars
  <2> QED
    BY <2>1, Failed, FaultCounts
<1>8. CASE UNCHANGED hvars
  BY <1>1, <1>8 DEF hvars, lifevars, ivars, faultvars
<1> QED
  BY <1>2, <1>3, <1>4, <1>5, <1>6, <1>7, <1>8 DEF HostNext

LEMMA CountedStep == ASSUME Counted, [HostNext]_hvars PROVE Counted'
<1>1. ASSUME faults' = faults, cfault' = cfault \/ cfault' = FALSE PROVE Counted'
  BY <1>1 DEF Counted
<1>2. CASE DaemonNext
  BY <1>1, <1>2, FaultCounts DEF DaemonNext, Respawn, Listen, ListenFails, Activate, Started, Stopping, Deactivate,
     DaemonDNS, Exit, Killed, RouterCall, faultvars
<1>3. CASE Command
  BY <1>1, <1>3 DEF Command
<1>4. CASE StopSent \/ Stopped \/ NoUnit \/ StartService \/ StatusAsked \/ InitBegins \/ SaveConfig \/ DNSBegins
  <2>1. UNCHANGED faultvars
    BY <1>4 DEF StopSent, Stopped, NoUnit, StartService, StatusAsked, InitBegins, SaveConfig, DNSBegins
  <2> QED
    BY <1>1, <2>1 DEF faultvars
<1>5. CASE InitActs \/ DNSCalls \/ CommandKilled \/ Reboot
  <2>1. UNCHANGED faultvars \/ Fault
    BY <1>5 DEF InitActs, DNSCalls, CommandKilled, Reboot, faultvars
  <2> QED
    BY <1>1, <2>1, FaultCounts DEF faultvars
<1>6. CASE UNCHANGED hvars
  BY <1>1, <1>6 DEF hvars, faultvars
<1> QED
  BY <1>2, <1>3, <1>4, <1>5, <1>6 DEF HostNext

(* Where `uninstall` is, and how its acts end.                              *)
LEMMA UninstallHeads ==
    ASSUME CInv, cmd = "uninstall"
    PROVE  Ahead(acts) \in {"deactivate?", "stop?", "uninstall", "end"}
<1>1. /\ Ahead(<<"deactivate?", "stop?", "uninstall">>) = "deactivate?" /\ Ahead(<<"stop?", "uninstall">>) = "stop?"
      /\ Ahead(<<"uninstall">>) = "uninstall" /\ Ahead(<<>>) = "end"
  BY DEF Ahead
<1> QED
  BY <1>1 DEF CInv, ActsLeft

LEMMA UninstallResult ==
    ASSUME CInv, Uninstalled, cmd = "uninstall", NEW r, ActEnds(r), acts # <<>>
    PROVE  /\ Ahead(acts) \in {"deactivate?", "stop?"} => acts' # <<>> /\ cres' = "none"
           /\ Ahead(acts) = "uninstall" => acts' = <<>> /\ (r = "error" => cres' = "error")
<1>1. cres = "none"
  BY DEF Uninstalled
<1>2. /\ Ahead(acts) \in {"deactivate?", "stop?"} => acts' # <<>> /\ Ahead(acts') # "end"
      /\ Ahead(acts) = "uninstall" => acts' = <<>>
  BY UninstallActEnds DEF Ahead
<1>3. PICK ignored : ignored = Facing({"stop?", "uninstall?", "deactivate?"})
  OBVIOUS
<1>4. /\ Ahead(acts) \in {"deactivate?", "stop?"} => ignored
      /\ Ahead(acts) = "uninstall" => ~ignored
  BY <1>3, FacingIs
<1>5. cres' = IF r = "error" /\ ~ignored THEN "error"
              ELSE IF acts' = <<>> /\ cres = "none" THEN "ok" ELSE cres
  BY <1>3 DEF ActEnds
<1> QED
  BY <1>1, <1>2, <1>4, <1>5

LEMMA ActUninstalled ==
    ASSUME CInv, Uninstalled, NEW r, ActEnds(r), acts # <<>>, Ahead(acts) # "uninstall" PROVE Uninstalled'
<1>1. cmd' = cmd
  BY DEF ActEnds
<1>2. cmd = "uninstall" => Ahead(acts) \in {"deactivate?", "stop?"}
  BY UninstallHeads DEF Ahead, CInv, ActsLeft
<1> QED
  BY <1>1, <1>2, UninstallResult DEF Uninstalled

LEMMA UnitGone ==
    ASSUME CInv, InitActs, isteps' = <<>>, Ahead(acts) = "uninstall", ~cfault',
           (InitStep(Alive) /\ UNCHANGED faultvars) \/ (InitIgnored /\ Fault)
    PROVE  Away("unit")'
<1>1. PICK un : un = System.uninstall
  OBVIOUS
<1>2. un \in Seq(PlanSteps) /\ Len(un) \in Nat
  BY <1>1, Plans DEF GoodPlans, UninstallPlan
<1>3. PICK k \in 0..Len(un) :
        /\ DoneOf(un, k)'
        /\ \A j \in 1..k : ~cfault' /\ un[j][1] # "command" => Away(un[j][2])'
  BY <1>1, InitFrame, UninstallGoes
<1>4. k = Len(un)
  <2>1. Len(isteps') = 0
    OBVIOUS
  <2> QED
    BY <1>2, <1>3, <2>1 DEF DoneOf
<1>5. PICK j \in DOMAIN un : un[j][2] = "unit" /\ un[j][1] # "command"
  BY <1>1, Plans DEF GoodPlans, UninstallPlan
<1>6. j \in 1..k
  BY <1>2, <1>4, <1>5
<1> QED
  BY <1>3, <1>5, <1>6

LEMMA InitUninstalled == ASSUME CInv, Uninstalled, InitActs PROVE Uninstalled'
<1>1. CASE UNCHANGED cmdvars /\ isteps' # <<>>
  <2>1. acts' # <<>> /\ UNCHANGED <<cmd, acts, cres>>
    BY <1>1, InitFrame DEF cmdvars
  <2> QED
    BY <2>1 DEF Uninstalled
<1>2. CASE ~(UNCHANGED cmdvars /\ isteps' # <<>>)
  <2>1. PICK r \in {"ok", "error"} :
          /\ ActEnds(r) /\ isteps' = <<>>
          /\ r = "ok" => (InitStep(Alive) /\ UNCHANGED faultvars) \/ (InitIgnored /\ Fault)
    BY <1>2 DEF InitActs, InitRefused, InitFails
  <2>2. acts # <<>> /\ Ahead(acts) \in InitActsOf
    BY InitFrame
  <2>3. CASE Ahead(acts) # "uninstall"
    BY <2>1, <2>2, <2>3, ActUninstalled
  <2>4. CASE Ahead(acts) = "uninstall"
    <3>1. cmd = "uninstall" /\ cmd' = cmd
      BY <2>1, <2>4, WhoseSteps DEF ActEnds
    <3>2. acts' = <<>> /\ (r = "error" => cres' = "error")
      BY <2>1, <2>2, <2>4, <3>1, UninstallResult
    <3>3. r = "ok" /\ ~cfault' => Away("unit")'
      BY <2>1, <2>4, UnitGone
    <3> QED
      BY <2>1, <3>1, <3>2, <3>3 DEF Uninstalled
  <2> QED
    BY <2>3, <2>4
<1> QED
  BY <1>1, <1>2

LEMMA UninstalledStep == ASSUME IInv, CInv, Uninstalled, [HostNext]_hvars PROVE Uninstalled'
<1>1. ASSUME UNCHANGED <<cmd, acts, cres>>, art' = art \/ art' = WithoutProcess, cfault => cfault' PROVE Uninstalled'
  <2>1. ArtOK /\ "unit" \in Artefacts
    BY DEF CInv, CTypeOK, Artefacts
  <2>2. Away("unit") => Away("unit")'
    BY <1>1, <2>1 DEF Away, ArtOK, WithoutProcess
  <2> QED
    BY <1>1, <2>2 DEF Uninstalled
<1>2. CASE DaemonNext
  <2>1. UNCHANGED cmdvars /\ (art' = art \/ art' = WithoutProcess)
    BY <1>2 DEF DaemonNext, Respawn, Listen, ListenFails, Activate, Started, Stopping, Deactivate,
       DaemonDNS, Exit, Killed, Gone, RouterCall, ivars
  <2>2. UNCHANGED faultvars \/ Fault
    BY <1>2 DEF DaemonNext, Respawn, Listen, ListenFails, Activate, Started, Stopping, Deactivate,
       DaemonDNS, Exit, Killed, RouterCall
  <2> QED
    BY <1>1, <2>1, <2>2 DEF cmdvars, faultvars, Fault
<1>3. CASE Command
  <2>1. cres' = "none" /\ acts' = ActsOf(cmd')
    BY <1>3 DEF Command
  <2>2. cmd' = "uninstall" => acts' = <<"deactivate?", "stop?", "uninstall">>
    BY <2>1 DEF ActsOf
  <2> QED
    BY <2>1, <2>2 DEF Uninstalled
<1>4. CASE StopSent \/ InitBegins \/ DNSBegins
  BY <1>1, <1>4 DEF StopSent, InitBegins, DNSBegins, ivars, cmdvars, faultvars
<1>5. CASE Stopped \/ NoUnit \/ StartService \/ StatusAsked \/ SaveConfig
  <2>1. PICK r : ActEnds(r)
    BY <1>5 DEF Stopped, NoUnit, StartService, StatusAsked, SaveConfig
  <2>2. acts # <<>> /\ Ahead(acts) \in {"stop", "stop?", "start", "status", "save"}
    BY <1>5 DEF Stopped, NoUnit, StartService, StatusAsked, SaveConfig, Facing, Ahead
  <2> QED
    BY <2>1, <2>2, ActUninstalled
<1>6. CASE InitActs
  BY <1>6, InitUninstalled
<1>7. CASE DNSCalls
  <2>1. PICK c \in Callers :
          /\ DNSStep(c) \/ DNSFault(c)
          /\ IF c = "cli" /\ step'[c] = "idle" THEN ActEnds(result'[c]) ELSE UNCHANGED cmdvars
          /\ UNCHANGED ivars /\ (UNCHANGED faultvars \/ Fault)
    BY <1>7 DEF DNSCalls
  <2>2. CASE UNCHANGED cmdvars
    BY <1>1, <2>1, <2>2 DEF cmdvars, ivars, faultvars, Fault
  <2>3. CASE c = "cli" /\ ActEnds(result'[c])
    <3>1. Busy("cli")
      BY <2>1, <2>3, ByItself DEF Frame, Busy
    <3>2. acts # <<>> /\ Ahead(acts) \in DNSActs
      BY <3>1 DEF CInv, CTypeOK, Ahead, DNSActs
    <3> QED
      BY <2>3, <3>2, ActUninstalled DEF DNSActs
  <2> QED
    BY <2>1, <2>2, <2>3
<1>8. CASE CommandKilled
  BY <1>8 DEF CommandKilled, CommandDies, Uninstalled
<1>9. CASE Reboot
  <2>1. CASE acts # <<>>
    BY <1>9, <2>1 DEF Reboot, CommandDies, Uninstalled
  <2>2. CASE acts = <<>>
    BY <1>1, <1>9, <2>2 DEF Reboot, cmdvars, Fault
  <2> QED
    BY <2>1, <2>2
<1>10. CASE UNCHANGED hvars
  BY <1>1, <1>10 DEF hvars, ivars, cmdvars, faultvars
<1> QED
  BY <1>2, <1>3, <1>4, <1>5, <1>6, <1>7, <1>8, <1>9, <1>10 DEF HostNext

(* A reset that ends, with nothing else failing, leaves the system clean.   *)
LEMMA ResetEnds ==
    ASSUME IInv, NEW c \in Callers, ~overlapped, DNSStep(c), op[c] = "reset", step'[c] = "idle",
           os \notin FileSystems => ~interrupted /\ (step[c] = "each" => result[c] # "error")
    PROVE  Clean'
<1>1. DNSTypeOK /\ Frame(c) /\ UNCHANGED os /\ step[c] # "idle"
  BY ByItself DEF IInv, Frame
<1>2. CASE os \in FileSystems
  <2>1. Kept /\ Done(c) /\ \A s \in Services : dns[s] # "ours"
    BY <1>2 DEF IInv, InOrder, OwnFiles
  <2>2. step[c] # "each"
    BY <1>2, <2>1 DEF Done
  <2>3. dns' = dns
    BY <2>2 DEF DNSStep, WriteTemp, Backup, Use, Missing, DisableNM, Reload, SetResolvconf, UpdateResolvconf,
       RestoreBackup, RestoreNM, RestoreResolvconf, EachService, EachDone, At, filevars
  <2>4. file'["resolv"] = "user"
    <3>1. CASE RestoreBackup(c)
      <4>1. ~Exists("bak") /\ file' = file
        BY <1>1, <3>1 DEF RestoreBackup, DNSGoto, DNSTypeOK
      <4> QED
        BY <2>1, <4>1 DEF Kept, Exists
    <3>2. CASE RestoreNM(c)
      <4>1. file' = file \/ file' = [file EXCEPT !["nm"] = "none"]
        BY <3>2 DEF RestoreNM
      <4> QED
        BY <1>1, <2>1, <3>2, <4>1 DEF RestoreNM, At, Done, DNSTypeOK, Files
    <3>3. CASE Reload(c) \/ UpdateResolvconf(c)
      <4>1. file["resolv"] = "user"
        BY <2>1, <3>3 DEF Reload, UpdateResolvconf, At, Done
      <4>2. file' = file \/ file' = [file EXCEPT !["resolv"] = "user"]
        BY <3>3 DEF Reload, UpdateResolvconf
      <4> QED
        BY <1>1, <4>1, <4>2 DEF DNSTypeOK, Files
    <3>4. CASE RestoreResolvconf(c)
      <4>1. ~(\E t \in {"rremove", "update"} : DNSGoto(c, t))
        BY <1>1 DEF DNSGoto, DNSTypeOK
      <4>2. file' = file /\ step[c] \in {"rrestore", "rremove"}
        BY <3>4, <4>1 DEF RestoreResolvconf, At
      <4> QED
        BY <2>1, <4>2 DEF Done
    <3>5. CASE WriteTemp(c) \/ Backup(c) \/ Use(c) \/ Missing(c) \/ DisableNM(c)
      BY <2>1, <3>5 DEF WriteTemp, Backup, Use, Missing, DisableNM, At, Done
    <3>6. CASE SetResolvconf(c)
      BY <2>1, <3>6 DEF SetResolvconf, At, Done
    <3>7. CASE EachService(c) \/ EachDone(c)
      BY <2>2, <3>7 DEF EachService, EachDone, At
    <3> QED
      BY <3>1, <3>2, <3>3, <3>4, <3>5, <3>6, <3>7 DEF DNSStep
  <2> QED
    BY <1>1, <1>2, <2>1, <2>3, <2>4 DEF Clean
<1>3. CASE os \notin FileSystems
  <2>1. step[c] = "each" /\ ServicesReset
    BY <1>1, <1>3 DEF IInv, InOrder
  <2>2. EachDone(c)
    <3>1. EachService(c) \/ EachDone(c)
      BY <2>1 DEF DNSStep, WriteTemp, Backup, Use, Missing, DisableNM, Reload, SetResolvconf, UpdateResolvconf,
         RestoreBackup, RestoreNM, RestoreResolvconf, At
    <3>2. ~EachService(c)
      BY <1>1 DEF EachService
    <3> QED
      BY <3>1, <3>2
  <2>3. dns' = dns /\ left[c] = {}
    BY <2>2 DEF EachDone, filevars
  <2>4. \A s \in Services : dns[s] # "ours"
    BY <2>1, <2>3 DEF ServicesReset
  <2> QED
    BY <1>1, <1>3, <2>3, <2>4 DEF Clean
<1> QED
  BY <1>2, <1>3

(* A step that does not fail is no interruption, on systems without files.  *)
LEMMA NotInterrupted ==
    ASSUME IInv, NEW c \in Callers, ~overlapped, DNSStep(c), os \notin FileSystems, ~interrupted,
           \A d \in Callers : step[d] = "each" => result[d] # "error"
    PROVE  ~interrupted' /\ \A d \in Callers : step'[d] = "each" => result'[d] # "error"
<1>1. DNSTypeOK /\ step[c] = "each" /\ \A d \in Callers \ {c} : step'[d] = step[d] /\ step[d] = "idle"
  BY ByItself DEF IInv, InOrder, Frame
<1>2. EachService(c) \/ EachDone(c)
  BY <1>1 DEF DNSStep, WriteTemp, Backup, Use, Missing, DisableNM, Reload, SetResolvconf, UpdateResolvconf,
     RestoreBackup, RestoreNM, RestoreResolvconf, At
<1>3. CASE EachService(c)
  BY <1>3 DEF EachService, ghosts
<1>4. CASE EachDone(c)
  <2>1. DNSReturn(c, "ok")
    BY <1>1, <1>4 DEF EachDone
  <2> QED
    BY <1>1, <2>1 DEF DNSReturn, DNSTypeOK
<1> QED
  BY <1>2, <1>3, <1>4

LEMMA InitGivenBack == HostInit => Counted /\ GivenBack /\ Uninstalled
<1> SUFFICES ASSUME HostInit PROVE Counted /\ GivenBack /\ Uninstalled
  OBVIOUS
<1>1. /\ faults = 0 /\ cfault = FALSE /\ cmd = "none" /\ interrupted = FALSE
      /\ step = [c \in Callers |-> "idle"]
  BY DEF HostInit, DNSInit
<1>2. ~Busy("daemon") /\ ~Busy("cli") /\ \A c \in Callers : step[c] # "each"
  BY <1>1, HostAssumption DEF Busy, HostAssumption
<1> QED
  BY <1>1, <1>2 DEF Counted, GivenBack, Uninstalled

(* The DNS and the daemon are left alone.                                   *)
LEMMA AsideGivesBack ==
    ASSUME CInv, GivenBack, UNCHANGED <<dnsvars, life, activates>>, faults' = 0 => faults = 0,
           ~Busy("cli") \/ UNCHANGED acts,
           cmd' = "uninstall" /\ Ahead(acts') # "deactivate?" => cmd = "uninstall" /\ Ahead(acts) # "deactivate?"
    PROVE  GivenBack'
<1>1. UNCHANGED <<Quiet, Clean>> /\ Busy("daemon")' = Busy("daemon") /\ Busy("cli")' = Busy("cli")
  BY DEF dnsvars, Quiet, Clean, Busy
<1> QED
  BY <1>1 DEF GivenBack, dnsvars

(* The daemon's life goes on, and its DNS is left alone.                    *)
LEMMA LifeGivesBack ==
    ASSUME GivenBack, UNCHANGED dnsvars, ~Busy("daemon"), faults' = 0 => faults = 0,
           ~Busy("cli") \/ UNCHANGED acts,
           cmd' = "uninstall" /\ Ahead(acts') # "deactivate?" => cmd = "uninstall" /\ Ahead(acts) # "deactivate?",
           Quiet' => Quiet
    PROVE  GivenBack'
<1>1. UNCHANGED Clean /\ Busy("daemon")' = Busy("daemon") /\ Busy("cli")' = Busy("cli")
  BY DEF dnsvars, Clean, Busy
<1> QED
  BY <1>1 DEF GivenBack, dnsvars

LEMMA SpawnGivesBack ==
    ASSUME CInv, GivenBack, Spawn, UNCHANGED <<dnsvars, faults>>, UNCHANGED <<cmd, acts>> \/ (cmd # "uninstall" /\ cmd' = cmd),
           ~Busy("cli") \/ UNCHANGED acts
    PROVE  GivenBack'
<1>1. life = "dead" /\ ~Busy("daemon")
  BY DEF Spawn, Alive, CInv, CTypeOK
<1>2. Quiet
  BY <1>1 DEF Quiet
<1> QED
  BY <1>1, <1>2, LifeGivesBack

LEMMA DaemonDNSGivesBack ==
    ASSUME IInv, CInv, GivenBack, Activate \/ Deactivate PROVE GivenBack'
<1>1. PICK o, to : /\ (o = "set" /\ to = "activate") \/ (o = "reset" /\ to = "deactivate")
                   /\ life' = to /\ life \in {"setup", "restore"}
                   /\ IF activates THEN DNSCall("daemon", o) ELSE UNCHANGED dnsvars
                   /\ o = "set" => life = "setup"
  BY DEF Activate, Deactivate, DaemonDNS, Live
<1>2. UNCHANGED <<activates, cmd, acts, faults>>
  BY DEF Activate, Deactivate, DaemonDNS, Live, cmdvars, faultvars
<1>3. ~Busy("daemon")
  BY <1>1 DEF CInv, CTypeOK
<1>4. CASE ~activates
  <2>1. Quiet
    BY <1>4 DEF Quiet
  <2> QED
    BY <1>1, <1>2, <1>3, <1>4, <2>1, LifeGivesBack
<1>5. CASE activates
  <2>1. /\ UNCHANGED <<os, interrupted>>
        /\ \A d \in Callers \ {"daemon"} : step'[d] = step[d] /\ op'[d] = op[d] /\ result'[d] = result[d]
        /\ step'["daemon"] # "idle" /\ op'["daemon"] = o /\ result'["daemon"] = "none"
        /\ overlapped => overlapped'
    BY <1>1, <1>5, HostAssumption DEF DNSCall, SetDNS, ResetDNS, Each, DNSBegin, IInv, DNSTypeOK, HostAssumption
  <2>2. /\ Busy("daemon")' /\ ~Quiet'
        /\ step'["cli"] = step["cli"] /\ op'["cli"] = op["cli"]
    BY <1>1, <1>2, <1>5, <2>1, HostAssumption DEF Busy, Quiet, HostAssumption
  <2>3. \A c \in Callers : step'[c] = "each" /\ result'[c] = "error" => step[c] = "each" /\ result[c] = "error"
    BY <2>1
  <2> QED
    BY <1>1, <1>2, <1>5, <2>1, <2>2, <2>3 DEF GivenBack, Busy
<1> QED
  BY <1>4, <1>5

LEMMA DNSBeginsGivesBack == ASSUME IInv, CInv, GivenBack, DNSBegins PROVE GivenBack'
<1>1. PICK o : /\ DNSCall("cli", o) /\ o = IF Facing({"activate"}) THEN "set" ELSE "reset"
  BY DEF DNSBegins
<1>2. /\ UNCHANGED <<life, activates, cmd, acts, faults>> /\ Ahead(acts) \in DNSActs
      /\ Ahead(acts) = "deactivate?" => o = "reset"
  BY <1>1 DEF DNSBegins, lifevars, cmdvars, faultvars, Facing, Ahead
<1>3. /\ UNCHANGED <<os, interrupted>>
      /\ \A d \in Callers \ {"cli"} : step'[d] = step[d] /\ op'[d] = op[d] /\ result'[d] = result[d]
      /\ op'["cli"] = o /\ result'["cli"] = "none"
      /\ overlapped => overlapped'
  BY <1>1, HostAssumption DEF DNSCall, SetDNS, ResetDNS, Each, DNSBegin, IInv, DNSTypeOK, HostAssumption
<1>4. step'["daemon"] = step["daemon"] /\ op'["daemon"] = op["daemon"]
  BY <1>3, HostAssumption DEF HostAssumption
<1>5. cmd = "uninstall" => Ahead(acts) = "deactivate?"
  BY <1>2, UninstallHeads DEF DNSActs
<1>6. \A c \in Callers : step'[c] = "each" /\ result'[c] = "error" => step[c] = "each" /\ result[c] = "error"
  BY <1>3
<1> QED
  BY <1>2, <1>3, <1>4, <1>5, <1>6 DEF GivenBack, Busy

LEMMA DNSCallsGivesBack == ASSUME IInv, CInv, Counted, GivenBack, DNSCalls PROVE GivenBack'
<1>1. PICK c \in Callers :
        /\ (DNSStep(c) /\ UNCHANGED faultvars) \/ (DNSFault(c) /\ Fault)
        /\ IF c = "cli" /\ step'[c] = "idle" THEN ActEnds(result'[c]) ELSE UNCHANGED cmdvars
        /\ UNCHANGED lifevars
  BY DEF DNSCalls
<1>2. /\ Busy(c) /\ UNCHANGED <<os, op, overlapped, life, activates, cmd>>
      /\ \A d \in Callers \ {c} : step'[d] = step[d]
  BY <1>1, ByItself DEF Frame, Busy, lifevars, cmdvars, ActEnds
<1>3. faults' = 0 => faults = 0 /\ DNSStep(c)
  BY <1>1, FaultCounts DEF faultvars
<1>4. /\ "cli" \in Callers /\ "daemon" \in Callers /\ c \in {"cli", "daemon"}
      /\ Busy("daemon")' => Busy("daemon")
      /\ Busy("cli")' => Busy("cli")
  BY <1>2, HostAssumption DEF Busy, HostAssumption
<1>5. Busy("cli")' => UNCHANGED acts
  BY <1>1 DEF Busy, cmdvars
<1>6. Busy("daemon")' => activates' /\ (life' = "deactivate" => op'["daemon"] = "reset")
  BY <1>2, <1>4 DEF GivenBack
<1>7. Busy("cli")' /\ Ahead(acts') = "deactivate?" => op'["cli"] = "reset"
  BY <1>2, <1>4, <1>5 DEF GivenBack
<1>8. ASSUME faults' = 0, ~overlapped, os \notin FileSystems
      PROVE  ~interrupted' /\ \A d \in Callers : step'[d] = "each" => result'[d] # "error"
  BY <1>3, <1>8, NotInterrupted DEF GivenBack
<1>9. ASSUME cmd = "uninstall", Ahead(acts') # "deactivate?", Quiet', faults' = 0, ~overlapped PROVE Clean'
  <2>1. op[c] = "reset" /\ step'[c] = "idle"
    <3>1. CASE c = "cli"
      <4>1. Ahead(acts) = "deactivate?"
        BY <1>2, <1>9, <3>1, UninstallHeads DEF CInv, CTypeOK, DNSActs
      <4>2. step'[c] = "idle"
        BY <1>1, <1>9, <3>1, <4>1 DEF cmdvars
      <4> QED
        BY <1>2, <3>1, <4>1, <4>2 DEF GivenBack
    <3>2. CASE c = "daemon"
      <4>1. activates /\ life \in {"activate", "deactivate"}
        BY <1>2, <3>2 DEF GivenBack, CInv, CTypeOK
      <4>2. life = "deactivate" /\ ~Busy("daemon")'
        BY <1>2, <1>9, <4>1 DEF Quiet
      <4> QED
        BY <1>2, <3>2, <4>2 DEF GivenBack, Busy
    <3> QED
      BY <1>4, <3>1, <3>2
  <2>2. os \notin FileSystems => ~interrupted /\ (step[c] = "each" => result[c] # "error")
    BY <1>3, <1>9 DEF GivenBack
  <2> QED
    BY <1>3, <1>9, <2>1, <2>2, ResetEnds
<1> QED
  BY <1>2, <1>6, <1>7, <1>8, <1>9 DEF GivenBack

(* Crashes are faults: of what goes on, only who is at work is told.        *)
LEMMA CrashGivesBack ==
    ASSUME GivenBack, faults' # 0,
           Busy("daemon")' => Busy("daemon") /\ UNCHANGED <<activates, life, op>>,
           Busy("cli")' => Busy("cli") /\ UNCHANGED <<acts, op>>
    PROVE  GivenBack'
BY DEF GivenBack

LEMMA LifeOnGivesBack ==
    ASSUME CInv, GivenBack, Listen \/ Started \/ Stopping \/ Exit PROVE GivenBack'
<1>1. UNCHANGED <<dnsvars, activates, cmd, acts, faults>>
  BY DEF Listen, Started, Stopping, Exit, Live, Gone, cmdvars, faultvars
<1>2. /\ \/ life = "configure" /\ life' = "setup"
         \/ life = "activate" /\ life' = "up" /\ ~Busy("daemon")
         \/ life = "up" /\ life' = "restore"
         \/ life = "deactivate" /\ life' = "dead" /\ ~Busy("daemon")
  BY DEF Listen, Started, Stopping, Exit, Live, Gone
<1>3. ~Busy("daemon") /\ (Quiet' => Quiet)
  BY <1>1, <1>2 DEF CInv, CTypeOK, Quiet
<1> QED
  BY <1>1, <1>3, LifeGivesBack

LEMMA GivenBackStep == ASSUME IInv, CInv, Counted, GivenBack, [HostNext]_hvars PROVE GivenBack'
<1>1. "cli" \in Callers /\ "daemon" \in Callers /\ step \in [Callers -> Steps]
  BY HostAssumption DEF HostAssumption, IInv, DNSTypeOK
<1>2. ASSUME UNCHANGED <<dnsvars, life, activates, cmd, acts>>, UNCHANGED faults \/ Fault PROVE GivenBack'
  BY <1>2, AsideGivesBack, FaultCounts
<1>3. CASE Respawn
  BY <1>3, SpawnGivesBack DEF Respawn, cmdvars, faultvars
<1>4. CASE ListenFails
  <2>1. Fault /\ UNCHANGED <<step, op, acts, activates>> /\ life = "configure"
    BY <1>4 DEF ListenFails, Gone, dnsvars, cmdvars
  <2>2. ~Busy("daemon") /\ Busy("daemon")' = Busy("daemon") /\ Busy("cli")' = Busy("cli")
    BY <2>1 DEF CInv, CTypeOK, Busy
  <2> QED
    BY <2>1, <2>2, FaultCounts, CrashGivesBack
<1>5. CASE Killed
  <2>1. Fault /\ UNCHANGED <<op, acts>> /\ step' = [step EXCEPT !["daemon"] = "idle"]
    BY <1>5 DEF Killed, DNSCrash, cmdvars
  <2>2. ~Busy("daemon")' /\ Busy("cli")' = Busy("cli")
    BY <1>1, <2>1 DEF Busy
  <2> QED
    BY <2>1, <2>2, FaultCounts, CrashGivesBack
<1>6. CASE RouterCall
  BY <1>2, <1>6 DEF RouterCall, lifevars, cmdvars, faultvars
<1>7. CASE Command
  <2>1. /\ acts = <<>> /\ UNCHANGED <<dnsvars, life, activates, faults>> /\ acts' = ActsOf(cmd')
    BY <1>7 DEF Command, lifevars
  <2>2. ~Busy("cli")
    BY <2>1 DEF CInv, CTypeOK, Ahead, DNSActs
  <2>3. cmd' = "uninstall" => Ahead(acts') = "deactivate?"
    <3>1. Ahead(<<"deactivate?", "stop?", "uninstall">>) = "deactivate?"
      BY DEF Ahead
    <3> QED
      BY <2>1, <3>1 DEF ActsOf
  <2> QED
    BY <2>1, <2>2, <2>3, AsideGivesBack
<1>8. CASE StopSent \/ InitBegins
  BY <1>2, <1>8 DEF StopSent, InitBegins, lifevars, cmdvars, faultvars
<1>9. ASSUME NEW r, ActEnds(r), acts # <<>>, Ahead(acts) \notin DNSActs, UNCHANGED <<dnsvars, life, activates>>,
             faults' = 0 => faults = 0
      PROVE  GivenBack'
  BY <1>9, AsideGivesBack DEF ActEnds, CInv, CTypeOK, DNSActs
<1>10. CASE Stopped \/ NoUnit \/ StatusAsked \/ SaveConfig
  <2>1. PICK r : ActEnds(r)
    BY <1>10 DEF Stopped, NoUnit, StatusAsked, SaveConfig
  <2>2. acts # <<>> /\ Ahead(acts) \notin DNSActs
    BY <1>10 DEF Stopped, NoUnit, StatusAsked, SaveConfig, Facing, Ahead, DNSActs
  <2>3. UNCHANGED <<dnsvars, life, activates, faults>>
    BY <1>10 DEF Stopped, NoUnit, StatusAsked, SaveConfig, lifevars, faultvars
  <2> QED
    BY <1>9, <2>1, <2>2, <2>3
<1>11. CASE StartService
  <2>1. PICK r : ActEnds(r)
    BY <1>11 DEF StartService
  <2>2. acts # <<>> /\ Ahead(acts) = "start" /\ UNCHANGED <<dnsvars, faults>>
    BY <1>11 DEF StartService, Facing, Ahead, faultvars
  <2>3. CASE Spawn
    <3>1. ~Busy("cli") /\ cmd # "uninstall" /\ cmd' = cmd
      BY <2>1, <2>2, UninstallHeads DEF CInv, CTypeOK, DNSActs, ActEnds
    <3> QED
      BY <2>2, <2>3, <3>1, SpawnGivesBack
  <2>4. CASE UNCHANGED <<life, activates>>
    BY <1>9, <2>1, <2>2, <2>4 DEF DNSActs
  <2> QED
    BY <1>11, <2>3, <2>4 DEF StartService, lifevars
<1>12. CASE InitActs
  <2>1. UNCHANGED <<dnsvars, life, activates>> /\ (UNCHANGED faults \/ Fault)
    BY <1>12 DEF InitActs, lifevars, faultvars
  <2>2. (\E r : ActEnds(r)) \/ UNCHANGED <<cmd, acts>>
    BY <1>12 DEF InitActs, cmdvars
  <2>3. acts # <<>> /\ Ahead(acts) \notin DNSActs
    BY <1>12, InitFrame DEF InitActsOf, DNSActs
  <2> QED
    BY <1>2, <1>9, <2>1, <2>2, <2>3, FaultCounts
<1>13. CASE CommandKilled
  <2>1. Fault /\ UNCHANGED <<op, life, activates>> /\ step' = [step EXCEPT !["cli"] = "idle"]
    BY <1>13 DEF CommandKilled, DNSCrash, lifevars
  <2>2. ~Busy("cli")' /\ Busy("daemon")' = Busy("daemon")
    BY <1>1, <2>1 DEF Busy
  <2> QED
    BY <2>1, <2>2, FaultCounts, CrashGivesBack
<1>14. CASE Reboot
  <2>1. Fault /\ step' = [c \in Callers |-> "idle"]
    BY <1>14 DEF Reboot
  <2>2. ~Busy("cli")' /\ ~Busy("daemon")'
    BY <1>1, <2>1 DEF Busy
  <2> QED
    BY <2>1, <2>2, FaultCounts, CrashGivesBack
<1>15. CASE UNCHANGED hvars
  BY <1>2, <1>15 DEF hvars, lifevars, cmdvars, faultvars
<1> QED
  BY <1>3, <1>4, <1>5, <1>6, <1>7, <1>8, <1>10, <1>11, <1>12, <1>13, <1>14, <1>15, DaemonDNSGivesBack,
     DNSBeginsGivesBack, DNSCallsGivesBack, LifeOnGivesBack DEF HostNext, DaemonNext

LEMMA UInvAlways == HostSpec => []UInv
<1>1. HostInit => UInv
  BY InitLetGo, InitGivenBack DEF UInv
<1>2. IInv /\ RInv /\ CInv /\ UInv /\ [HostNext]_hvars => UInv'
  BY CountedStep, GivenBackStep, LetGoStep, UninstalledStep DEF UInv
<1> QED
  BY <1>1, <1>2, IInvHolds, RInvAlways, CInvAlways, PTL DEF HostSpec

LEMMA MissingIs == ASSUME init \in Inits PROVE System.missing \in {"not installed", "error"}
<1>1. CASE init \in {"systemd", "vyos", "ubios", "procd", "upstart", "ddwrt", "edgeos"}
  BY <1>1 DEF System, SystemD, UbiOSInit, Procd, Upstart, DDWRTInit, EdgeOSInit
<1>2. CASE init \in {"sysv", "synology", "firewalla", "openrc", "runit", "bsd", "merlin", "launchd", "windows"}
  BY <1>2 DEF System, SysV, SynologyInit, Firewalla, OpenRC, Runit, BSD, MerlinInit, Launchd, WindowsInit
<1> QED
  BY <1>1, <1>2 DEF Inits

LEMMA UInvImplies == CInv /\ UInv => CleanUninstall
<1> SUFFICES ASSUME CInv, UInv, Over("uninstall"), cres = "ok", ~Alive, faults = 0, ~overlapped
             PROVE  /\ Status(Alive) \in {"not installed", "error"} /\ wanted = "no"
                    /\ os \in FileSystems => file["resolv"] = "user"
                    /\ \A s \in Services : dns[s] # "ours"
                    /\ masq.forwards => rtr = "ddwrt" /\ found["options"] = "unset"
  BY DEF CleanUninstall
<1>1. cmd = "uninstall" /\ acts = <<>> /\ ~cfault
  BY DEF Over, UInv, Counted
<1>2. ~Present("unit")
  <2>1. Away("unit") /\ ArtOK /\ "unit" \in Artefacts
    BY <1>1 DEF UInv, Uninstalled, CInv, CTypeOK, Artefacts
  <2> QED
    BY <2>1 DEF Away, ArtOK, Present
<1>3. Status(Alive) \in {"not installed", "error"} /\ wanted = "no"
  BY <1>2, MissingIs DEF Status, CInv, CTypeOK, Stays, Unwanted, Away, Present
<1>4. Clean
  <2>1. Quiet
    BY DEF Quiet, Alive
  <2> QED
    BY <1>1, <2>1 DEF UInv, GivenBack, Ahead
<1>5. Free
  BY DEF UInv, LetGo
<1> QED
  BY <1>3, <1>4, <1>5 DEF Clean, Free

(* Once `nextdns uninstall` has succeeded and the daemon is gone, on any    *)
(* machine and after any commands, if nothing failed and no two calls       *)
(* overlapped: there is no unit to run it again, the system asks its own    *)
(* DNS servers, and dnsmasq forwards nothing to it, except on a DD-WRT      *)
(* whose dnsmasq_options had never been set (uninstall in service.go).      *)
THEOREM HostCleanUninstall == HostSpec => []CleanUninstall
BY CInvAlways, UInvAlways, UInvImplies, PTL

===============================================================================
