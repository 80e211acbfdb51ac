----------------------------- MODULE RouterSetup -----------------------------
(***************************************************************************)
(* router/: making a router's dnsmasq give way to the daemon, or forward   *)
(* to it, and putting back what was there.                                 *)
(*                                                                         *)
(* A platform is the sequence of steps of its setupDNSMasq and that of its *)
(* Restore.  Every step is a command or a file operation that can fail and *)
(* end the call; the daemon can be killed between two, and with it goes    *)
(* what it remembers of the settings it found.                             *)
(***************************************************************************)
EXTENDS Naturals, Sequences

VARIABLES
    rtr,        \* the platform, one of Platforms
    cached,     \* CacheEnabled: the daemon caches, and answers on port 53
    conf,       \* the file of dnsmasq's configuration that is nextdns's
    opts,       \* the firmware's own settings (uci, NVRAM)
    found,      \* the settings before nextdns was first set up
    mem,        \* what the Router object holds: lost with the process
    masq,       \* what dnsmasq has loaded
    todo,       \* the steps left of the call under way
    call,       \* "configure", "setup", "restore", or "none"
    outcome,    \* what the calls returned: "none" when not called
    forgot,     \* the daemon died with settings still to be put back
    script,     \* the script of the user's before nextdns was first set up (Merlin)
    lost        \* a daemon ended while the file did not hold that script

rvars == <<rtr, cached, conf, opts, found, mem, masq, todo, call, outcome, forgot, script, lost>>

------------------------------------------------------------------------------
(* The platforms.  `early`: with a cache, dnsmasq is made to leave port 53  *)
(* in Configure, before the daemon listens, and Setup does nothing.         *)

DDWRT == [setup |-> <<"save", "set", "restart">>, restore |-> <<"reset", "restart">>, early |-> TRUE]

EdgeOS == [setup |-> <<"truncate", "fill", "restart">>, restore |-> <<"remove", "restart">>, early |-> TRUE]

Merlin == [setup |-> <<"truncate", "fill", "restart">>, restore |-> <<"putback", "restart">>, early |-> FALSE]

OpenWrt == [setup |-> <<"uci", "truncate", "fill", "dhcp", "restart">>,
            restore |-> <<"servers", "quiet", "undhcp", "restart">>, early |-> TRUE]

\* Nothing is done when the router's DHCP server is off.
Synology == [setup |-> <<"truncate", "fill", "info", "restart">>,
             restore |-> <<"quiet", "restart">>, early |-> TRUE]

UbiOS_NoKill ==                                                  \* mutant
    [setup |-> <<"truncate", "fill", "restart">>, restore |-> <<"remove">>, early |-> FALSE]

UbiOS == [setup |-> <<"truncate", "fill", "restart">>, restore |-> <<"remove", "restart">>, early |-> FALSE]

Generic == [setup |-> <<>>, restore |-> <<>>, early |-> FALSE]

Platforms == {"ddwrt", "edgeos", "merlin", "openwrt", "synology", "nodhcp", "ubios", "generic"}

\* The first that recognises the system is taken (detectRouter).
RouterOrder == <<"ubios", "openwrt", "merlin", "ddwrt", "edgeos", "synology">>

DetectRouter(recognised) ==
    IF \A i \in 1..Len(RouterOrder) : RouterOrder[i] \notin recognised THEN "generic"
    ELSE RouterOrder[CHOOSE i \in 1..Len(RouterOrder) :
            RouterOrder[i] \in recognised /\ \A j \in 1..(i - 1) : RouterOrder[j] \notin recognised]

Platform ==
    CASE rtr = "ddwrt" -> DDWRT
      [] rtr = "edgeos" -> EdgeOS
      [] rtr = "merlin" -> Merlin
      [] rtr = "openwrt" -> OpenWrt
      [] rtr = "synology" -> Synology
      [] rtr = "ubios" -> UbiOS
      [] OTHER -> Generic

\* The port the daemon is configured to listen on.
Listens53 == rtr \in {"generic", "nodhcp"} \/ (cached /\ Platform.early)

\* The settings a platform keeps outside of files: on DD-WRT dnsmasq_options
\* and another the program sets (dns_crypt), on OpenWrt the port and servers of
\* dnsmasq and the DHCP option that names the router as the DNS server.
Options == {"options", "crypt", "port", "server", "dhcp"}
NVRAM == {"options", "crypt"}

Nothing == [o \in Options |-> "unset"]
RouterCalls == {"configure", "setup", "restore"}
NoFile == [ours |-> "none", user |-> "none"]
Fresh == [saved |-> Nothing, port0 |-> FALSE, post |-> "none"]

\* What Merlin's file holds besides nextdns's part: nothing, the user's script, or a
\* piece of nextdns's part without its last line, which is taken for the user's.
Scripts == {"none", "theirs", "torn"}

\* It is read when the process starts.
AtStart == [Fresh EXCEPT !.post = conf.user]

Template_NoPort0 ==                                              \* mutant
    IF ~(cached /\ Platform.early) THEN "forward" ELSE "plain"

\* The template of dnsmasq's configuration.
Template ==
    IF ~(cached /\ Platform.early) THEN "forward"
    ELSE IF rtr = "openwrt" /\ ~mem.port0 THEN "plain" ELSE "off"

\* dnsmasq reads its configuration: does it take port 53, and does it forward
\* to the daemon?  Merlin's script does nothing unless the daemon is there.
Load(file, alive) ==
    LET c == IF rtr = "ddwrt" THEN opts["options"] ELSE file.ours
    IN  [takes53 |-> ~(c = "off" \/ opts["port"] = "other"),
         forwards |-> c = "forward" /\ (rtr = "merlin" => alive)]

RouterInit ==
    /\ rtr \in Platforms /\ cached \in BOOLEAN
    /\ found \in {o \in [Options -> {"unset", "user", "53", "other"}] :
                    /\ \A k \in Options \ {"port"} : o[k] \in {"unset", "user"}
                    /\ o["port"] # "user"
                    /\ rtr # "ddwrt" => \A k \in NVRAM : o[k] = "unset"
                    /\ rtr # "openwrt" => \A k \in Options \ NVRAM : o[k] = "unset"}
    /\ opts = found
    /\ script \in IF rtr = "merlin" THEN {"none", "theirs"} ELSE {"none"}
    /\ conf = [ours |-> "none", user |-> script]
    /\ mem = Fresh
    /\ masq = Load(conf, FALSE)
    /\ todo = <<>> /\ call = "none"
    /\ outcome = [c \in RouterCalls |-> "none"]
    /\ forgot = FALSE /\ lost = FALSE

------------------------------------------------------------------------------
(* The calls                                                                *)

RouterBegin(c, steps) ==
    /\ call = "none"
    /\ call' = c /\ todo' = steps
    /\ UNCHANGED <<rtr, cached, conf, opts, found, masq, outcome, forgot, script, lost>>

\* New and then Configure.  Configure refuses when UniFi filters content.
Configure ==
    /\ RouterBegin("configure", IF cached /\ Platform.early THEN Platform.setup ELSE <<>>)
    /\ mem' = AtStart

Setup ==
    /\ RouterBegin("setup", IF cached /\ Platform.early THEN <<>> ELSE Platform.setup)
    /\ UNCHANGED mem

Restore ==
    /\ RouterBegin("restore", Platform.restore)
    /\ UNCHANGED mem

RouterReturn(r) ==
    /\ call # "none"
    /\ call' = "none" /\ todo' = <<>>
    /\ outcome' = [outcome EXCEPT ![call] = r]
    /\ UNCHANGED <<rtr, cached, conf, opts, found, mem, masq, forgot, script, lost>>

RouterDone == todo = <<>> /\ RouterReturn("ok")

\* A step fails before it has done anything; `set`, `fill` and `putback` may
\* leave what they had done, see PartlySet and PartlyWritten.
RouterFails == todo # <<>> /\ RouterReturn("error")

Doing(s) ==
    /\ todo # <<>> /\ Head(todo) = s
    /\ todo' = Tail(todo)
    /\ UNCHANGED <<rtr, cached, found, call, outcome, forgot, script, lost>>

\* WriteTemplate opens the file with O_TRUNC and then writes it; Merlin's
\* template ends with the script of the user's found at the start.
Truncate ==
    /\ Doing("truncate")
    /\ conf' = [ours |-> "blank", user |-> "none"]
    /\ UNCHANGED <<opts, mem, masq>>

Fill ==
    /\ Doing("fill")
    /\ conf' = [ours |-> Template, user |-> mem.post]
    /\ UNCHANGED <<opts, mem, masq>>

RemoveConf ==
    /\ todo # <<>>
    /\ \/ Head(todo) = "quiet"
       \/ Head(todo) = "remove" /\ conf.ours # "none"
    /\ Doing(Head(todo))
    /\ conf' = NoFile
    /\ UNCHANGED <<opts, mem, masq>>

PutBack_Removes == Doing("putback") /\ conf' = NoFile /\ UNCHANGED <<opts, mem, masq>>   \* mutant

\* The script of the user's is written back, or the file removed.
PutBack ==
    /\ Doing("putback")
    /\ conf' = [ours |-> "none", user |-> mem.post]
    /\ UNCHANGED <<opts, mem, masq>>

\* enable="yes" in a file of its own, which Restore leaves.
Info == Doing("info") /\ UNCHANGED <<conf, opts, mem, masq>>

\* NVRAM lists the variables that are set.
Save ==
    /\ Doing("save")
    /\ mem' = [mem EXCEPT !.saved = [o \in Options |-> IF o \in NVRAM THEN opts[o] ELSE @[o]]]
    /\ UNCHANGED <<conf, opts, masq>>

OurValue(o) == IF o = "options" THEN Template ELSE "ours"

SetNVRAM ==
    /\ Doing("set")
    /\ opts' = [o \in Options |-> IF o \in NVRAM THEN OurValue(o) ELSE opts[o]]
    /\ UNCHANGED <<conf, mem, masq>>

ResetNVRAM ==
    /\ Doing("reset")
    /\ opts' = [o \in Options |-> IF o \in NVRAM /\ mem.saved[o] # "unset" THEN mem.saved[o] ELSE opts[o]]
    /\ UNCHANGED <<conf, mem, masq>>

\* With a cache, port=0 is for the template to say unless the port is set in
\* uci; 53 is removed.  Without, the servers of dnsmasq are put aside.
UCI ==
    /\ Doing("uci")
    /\ IF cached
       THEN /\ mem' = [mem EXCEPT !.port0 = @ \/ opts["port"] = "unset"]
            /\ opts' = [opts EXCEPT !["port"] = IF @ = "53" THEN "unset" ELSE @]
       ELSE /\ mem' = [mem EXCEPT !.saved["server"] = opts["server"]]
            /\ opts' = [opts EXCEPT !["server"] = "unset"]
    /\ UNCHANGED <<conf, masq>>

EnsureDHCPOption ==
    /\ Doing("dhcp")
    /\ opts' = [opts EXCEPT !["dhcp"] = IF @ = "unset" THEN "ours" ELSE @]
    /\ UNCHANGED <<conf, mem, masq>>

RestoreServers ==
    /\ Doing("servers")
    /\ opts' = [opts EXCEPT !["server"] = IF mem.saved["server"] # "unset" THEN mem.saved["server"] ELSE @]
    /\ UNCHANGED <<conf, mem, masq>>

\* The option is deleted whoever had set it.
RemoveDHCPOption ==
    /\ Doing("undhcp")
    /\ opts' = [opts EXCEPT !["dhcp"] = "unset"]
    /\ UNCHANGED <<conf, mem, masq>>

RestartDNSMasq ==
    /\ Doing("restart")
    /\ masq' = Load(conf, TRUE)
    /\ UNCHANGED <<conf, opts, mem>>

\* SetNVRAM stops at the first variable it cannot set or before the commit.
PartlySet ==
    /\ todo # <<>> /\ Head(todo) = "set"
    /\ \E S \in SUBSET NVRAM :
          opts' = [o \in Options |-> IF o \in S THEN OurValue(o) ELSE opts[o]]
    /\ call' = "none" /\ todo' = <<>>
    /\ outcome' = [outcome EXCEPT ![call] = "error"]
    /\ UNCHANGED <<rtr, cached, conf, found, mem, masq, forgot, script, lost>>

\* What a write of Merlin's script that does not come to its end leaves: the template
\* is written in pieces, nextdns's part in several and then the user's, and the script
\* of the user's in one, once the file has been emptied.  A write is done or it is not.
Cut ==
    IF rtr # "merlin" \/ todo = <<>> THEN {}
    ELSE IF Head(todo) = "fill"
         THEN {[ours |-> "blank", user |-> "torn"], [ours |-> Template, user |-> "none"]}
         ELSE IF Head(todo) = "putback" /\ mem.post # "none" THEN {NoFile} ELSE {}

\* The error of such a write ends the call.
PartlyWritten ==
    /\ conf' \in Cut
    /\ call' = "none" /\ todo' = <<>>
    /\ outcome' = [outcome EXCEPT ![call] = "error"]
    /\ UNCHANGED <<rtr, cached, opts, found, mem, masq, forgot, script, lost>>

RouterStep ==
    \/ RouterDone \/ Truncate \/ Fill \/ RemoveConf \/ PutBack \/ Info \/ Save \/ SetNVRAM
    \/ ResetNVRAM \/ UCI \/ EnsureDHCPOption \/ RestoreServers \/ RemoveDHCPOption
    \/ RestartDNSMasq

\* os.Remove finds no file: ours has never been written.
NothingToRemove ==
    /\ todo # <<>> /\ Head(todo) = "remove" /\ conf.ours = "none"
    /\ RouterReturn("error")

\* The process has ended, killed perhaps in the middle of a write, perhaps with the
\* machine: /run and /tmp are then empty and dnsmasq starts again.
RouterCrash(reboot) ==
    /\ call' = "none" /\ todo' = <<>>
    /\ mem' = Fresh
    /\ forgot' = (forgot \/ call # "none" \/ (outcome["configure"] # "none" /\ outcome["restore"] # "ok"))
    /\ conf' \in {IF reboot /\ rtr \in {"openwrt", "ubios"} THEN NoFile ELSE conf} \cup Cut
    /\ masq' = IF reboot THEN Load(conf', FALSE) ELSE masq
    /\ lost' = (lost \/ conf'.user # script)
    /\ outcome' = [c \in RouterCalls |-> "none"]
    /\ UNCHANGED <<rtr, cached, opts, found, script>>

------------------------------------------------------------------------------
RouterTypeOK ==
    /\ rtr \in Platforms /\ cached \in BOOLEAN /\ forgot \in BOOLEAN /\ lost \in BOOLEAN
    /\ conf \in [ours : {"none", "blank", "plain", "off", "forward"}, user : Scripts]
    /\ script \in Scripts
    /\ opts \in [Options -> {"unset", "user", "53", "other", "ours", "off", "forward", "plain"}]
    /\ found \in [Options -> {"unset", "user", "53", "other"}]
    /\ DOMAIN mem.saved = Options /\ mem.port0 \in BOOLEAN /\ mem.post \in Scripts
    /\ masq \in [takes53 : BOOLEAN, forwards : BOOLEAN]
    /\ call \in RouterCalls \cup {"none"}
    /\ outcome \in [RouterCalls -> {"none", "ok", "error"}]

Restored == call = "none" /\ outcome["restore"] = "ok"

\* The settings the user had are the user's again.  Excepted are what the code
\* does not put back: a port 53 written out, a DHCP option like its own, and
\* everything a killed daemon remembered.
OptionsRestored ==
    ~forgot =>
      \A o \in Options \ {"dhcp"} :
         found[o] \notin {"unset", "53"} => opts[o] = found[o]

\* What stays in DD-WRT's NVRAM: dnsmasq_options, when it had never been set, since only
\* what is set is remembered and nothing unsets it, or when the daemon that remembered it
\* was killed (ddwrt/setup.go:65, 98).
Forgets == rtr = "ddwrt" /\ (forgot \/ found["options"] = "unset")

\* Once Restore has returned nil, nextdns's configuration is away, dnsmasq forwards
\* nothing to the daemon that is gone and answers where it did, the settings are the
\* user's, and so is Merlin's script, byte for byte (router/*/setup.go).  Excepted are a
\* DD-WRT that Forgets, whose dnsmasq goes on as nextdns told it; the settings of
\* OptionsRestored; and a script that an earlier daemon left out of the file when it
\* ended: killed, or told to end with an error, between emptying the file and writing it.
RouterRestored ==
    Restored =>
      /\ conf.ours = "none"
      /\ ~Forgets => ~masq.forwards /\ (masq.takes53 = (opts["port"] # "other"))
      /\ OptionsRestored
      /\ ~lost => conf.user = script

\* Configure has returned nil for a daemon that listens on port 53 only if
\* dnsmasq has left that port (setup.go, "Make dnsmasq stop listening on 53
\* before we do"): except on OpenWrt with the port written out as 53.
PortFree ==
    (/\ call = "none" /\ outcome["configure"] = "ok" /\ outcome["restore"] = "none"
     /\ cached /\ Platform.early /\ ~(rtr = "openwrt" /\ found["port"] = "53"))
    => ~masq.takes53
==============================================================================
