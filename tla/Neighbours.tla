----------------------------- MODULE Neighbours -----------------------------
(***************************************************************************)
(* What the daemon knows of the hosts around it, two sources of discovery: *)
(* the two tables of mdns.go, filled from the packets the hosts send, and  *)
(* the tables of a hosts or DHCP lease file (hosts.go, dhcp.go, file.go),  *)
(* read again by the lookups themselves when five seconds have passed.     *)
(*                                                                         *)
(* Names and addresses are numbers in the order of their texts; that mDNS  *)
(* keeps a name as it is written and looks it up in lower case is left out.*)
(***************************************************************************)
EXTENDS Integers, Sequences, FiniteSets, Functions

CONSTANTS
    HostNames,      \* the names that hosts announce
    HostAddrs,      \* their addresses
    MDNSMax,        \* mdnsMaxEntries
    MDNSClock,      \* bound: the last instant of the mDNS tables
    Readers,        \* the lookups that may be in a file's source at once
    Refresh,        \* the 5 s between two looks at a file
    FileClock,      \* bound: the last instant of a file
    MaxWrites       \* bound: how often the file changes

ASSUME NeighbourAssumption ==
    /\ HostNames \subseteq Nat /\ HostAddrs \subseteq Nat
    /\ MDNSMax \in Nat \ {0} /\ MDNSClock \in Nat
    /\ Refresh \in Nat \ {0} /\ FileClock \in Nat /\ MaxWrites \in Nat

VARIABLES
    names, addrs,   \* r.names and r.addrs of MDNS
    packet,         \* entries of the packet being added under r.mu, address by address
    mclock,
    heardName, heardAddr    \* history: what each key was last announced with, and when

mdvars == <<names, addrs, packet, mclock, heardName, heardAddr>>

VARIABLES
    file,           \* the file: whether it is there, what it holds, its mtime and size
    byName, byAddr, \* the two tables read from it: what the file held then
    info,           \* r.fileInfo
    expires,
    reader,         \* where each lookup is, and what it has read
    fclock,
    looked,         \* history: a lookup has compared or dated the file as it is now
    overtaken       \* history: the file changed unseen

fvars == <<file, byName, byAddr, info, expires, reader, fclock, looked, overtaken>>

-----------------------------------------------------------------------------
(* util.go: appendUniq, for the one value its callers add.                   *)

\* sort.SearchStrings on a sorted sequence: how many come before x.
Position(s, x) == Cardinality({i \in DOMAIN s : s[i] < x})

\* copy(set[1:], set[0:]) moves everything, and the place of x is written over: of two
\* or more values that come before x, the first is there twice and the last is lost.
AppendUniq(s, x) ==
    IF x \in Range(s) THEN s
    ELSE [j \in 1 .. Len(s) + 1 |->
            IF j = Position(s, x) + 1 THEN x ELSE IF j = 1 THEN s[1] ELSE s[j - 1]]

-----------------------------------------------------------------------------
(* mdns.go                                                                   *)

\* addEntry
Entry(t, k) == IF k \in DOMAIN t THEN t[k] ELSE [values |-> <<>>, at |-> 0]
AddEntry(t, k, v) ==
    [x \in DOMAIN t \cup {k} |->
        IF x = k THEN [values |-> AppendUniq(Entry(t, k).values, v), at |-> mclock] ELSE t[x]]

Oldest_Newest(n) ==         \* mutant: After for Before
    names[n].at < mclock /\ \A m \in DOMAIN names : names[m].at <= names[n].at

\* removeOldestEntry: an entry of this very instant is not older than now.  The
\* addresses are looked up in r.addrs under the name, where there is none: r.addrs
\* keeps what the evicted name had.
Oldest(n) == names[n].at < mclock /\ \A m \in DOMAIN names : names[n].at <= names[m].at

RemoveOldest(n) == names' = [m \in DOMAIN names \ {n} |-> names[m]] /\ UNCHANGED addrs

MDNSInit ==
    /\ names = [n \in {} |-> 0] /\ addrs = [a \in {} |-> 0]
    /\ packet = [a \in {} |-> 0] /\ mclock = 0
    /\ heardName = [n \in {} |-> 0] /\ heardAddr = [a \in {} |-> 0]

\* read: parseEntries makes a map of the packet, from an address to one name.
Packet ==
    /\ DOMAIN packet = {} /\ Cardinality(DOMAIN names) <= MDNSMax
    /\ \E as \in SUBSET HostAddrs \ {{}} : packet' \in [as -> HostNames]
    /\ UNCHANGED <<names, addrs, mclock, heardName, heardAddr>>

\* One entry of the map, whose order Go leaves open.
AddNext ==
    /\ Cardinality(DOMAIN names) <= MDNSMax
    /\ \E a \in DOMAIN packet : LET n == packet[a] IN
         /\ addrs' = AddEntry(addrs, a, n)
         /\ names' = AddEntry(names, n, a)
         /\ packet' = Restrict(packet, DOMAIN packet \ {a})
         /\ heardAddr' = [x \in DOMAIN heardAddr \cup {a} |-> IF x = a THEN n ELSE heardAddr[x]]
         /\ heardName' = [x \in DOMAIN heardName \cup {n} |->
                            IF x = n THEN [addr |-> a, at |-> mclock] ELSE heardName[x]]
    /\ UNCHANGED mclock

\* The loop after each entry: while there are too many names.
Evict ==
    /\ Cardinality(DOMAIN names) > MDNSMax
    /\ \E n \in DOMAIN names : Oldest(n) /\ RemoveOldest(n)
    /\ UNCHANGED <<packet, mclock, heardName, heardAddr>>

MDNSTick ==
    /\ mclock < MDNSClock /\ mclock' = mclock + 1
    /\ UNCHANGED <<names, addrs, packet, heardName, heardAddr>>

MDNSNext == Packet \/ AddNext \/ Evict \/ MDNSTick

MDNSSpec == MDNSInit /\ [][MDNSNext]_mdvars

-----------------------------------------------------------------------------
(* hosts.go and dhcp.go: a lookup refreshes under the read lock, so that two *)
(* lookups may do it at once.                                                *)

NoFile == [mtime |-> 0, size |-> 0]
Stamp(f) == [mtime |-> f.mtime, size |-> f.size]

Unchanged_BySize == info.size = Stamp(file).size    \* mutant: mtime is not compared

\* fileInfo.Equal
Unchanged == info = Stamp(file)

FileInit ==
    /\ file \in [there : BOOLEAN, holds : {1}, mtime : {1}, size : {1, 2}]
    /\ byName = 0 /\ byAddr = 0 /\ info = NoFile /\ expires = 0
    /\ reader = [r \in Readers |-> [at |-> "idle", read |-> 0]]
    /\ fclock = 0 /\ looked = FALSE /\ overtaken = FALSE

Goto(r, at) == reader' = [reader EXCEPT ![r].at = at]

\* Before expires a lookup answers at once.
Due(r) ==
    /\ reader[r].at = "idle" /\ fclock >= expires /\ Goto(r, "due")
    /\ UNCHANGED <<file, byName, byAddr, info, expires, fclock, looked, overtaken>>

\* r.expires is set first: what goes wrong after it is tried again in five seconds.
Expire(r) ==
    /\ reader[r].at = "due" /\ expires' = fclock + Refresh /\ Goto(r, "stat")
    /\ UNCHANGED <<file, byName, byAddr, info, fclock, looked, overtaken>>

\* findHostsFile, findLeaseFile and Equal
Compare(r) ==
    /\ reader[r].at = "stat"
    /\ Goto(r, IF ~file.there \/ Unchanged THEN "idle" ELSE "read")
    /\ looked' = (looked \/ (file.there /\ Unchanged))
    /\ UNCHANGED <<file, byName, byAddr, info, expires, fclock, overtaken>>

ReadFile(r) ==
    /\ reader[r].at = "read"
    /\ \/ file.there /\ reader' = [reader EXCEPT ![r] = [at |-> "names", read |-> file.holds]]
       \/ Goto(r, "idle")    \* open or read fails
    /\ UNCHANGED <<file, byName, byAddr, info, expires, fclock, looked, overtaken>>

StoreNames(r) ==
    /\ reader[r].at = "names" /\ byName' = reader[r].read /\ Goto(r, "addrs")
    /\ UNCHANGED <<file, byAddr, info, expires, fclock, looked, overtaken>>

StoreAddrs(r) ==
    /\ reader[r].at = "addrs" /\ byAddr' = reader[r].read /\ Goto(r, "date")
    /\ UNCHANGED <<file, byName, info, expires, fclock, looked, overtaken>>

\* getFileInfo, once the tables are stored
Date(r) ==
    /\ reader[r].at = "date"
    /\ info' = IF file.there THEN Stamp(file) ELSE NoFile
    /\ reader' = [reader EXCEPT ![r] = [at |-> "idle", read |-> 0]]
    /\ looked' = file.there
    /\ UNCHANGED <<file, byName, byAddr, expires, fclock, overtaken>>

\* Another program changes the file, or removes it: a change goes unseen when it comes
\* between a lookup's reading and dating of the file, or leaves the mtime and size that
\* the tables are dated with.
Between(r) == reader[r].at \in {"names", "addrs", "date"}

Write ==
    /\ file.holds <= MaxWrites
    /\ \E later \in {0, 1}, size \in {1, 2} :
         file' = [there |-> TRUE, holds |-> file.holds + 1, mtime |-> file.mtime + later, size |-> size]
    /\ overtaken' = ((\E r \in Readers : Between(r)) \/ Stamp(file') = info)
    /\ looked' = FALSE
    /\ UNCHANGED <<byName, byAddr, info, expires, reader, fclock>>

Vanish ==
    /\ file.there /\ file' = [file EXCEPT !.there = FALSE] /\ looked' = FALSE
    /\ UNCHANGED <<byName, byAddr, info, expires, reader, fclock, overtaken>>

FileTick ==
    /\ fclock < FileClock /\ fclock' = fclock + 1
    /\ UNCHANGED <<file, byName, byAddr, info, expires, reader, looked, overtaken>>

FileNext ==
    \/ \E r \in Readers :
         Due(r) \/ Expire(r) \/ Compare(r) \/ ReadFile(r) \/ StoreNames(r) \/ StoreAddrs(r) \/ Date(r)
    \/ Write \/ Vanish \/ FileTick

FileSpec == FileInit /\ [][FileNext]_fvars

-----------------------------------------------------------------------------
NeighboursTypeOK ==
    /\ DOMAIN names \subseteq HostNames /\ DOMAIN addrs \subseteq HostAddrs
    /\ \A n \in DOMAIN names : Range(names[n].values) \subseteq HostAddrs /\ names[n].at \in 0 .. mclock
    /\ \A a \in DOMAIN addrs : Range(addrs[a].values) \subseteq HostNames /\ addrs[a].at \in 0 .. mclock
    /\ DOMAIN packet \subseteq HostAddrs /\ Range(packet) \subseteq HostNames
    /\ byName \in 0 .. MaxWrites + 1 /\ byAddr \in 0 .. MaxWrites + 1
    /\ \A r \in Readers : reader[r].at \in {"idle", "due", "stat", "read", "names", "addrs", "date"}

\* What a host announced last is found, under its name unless newer names have pushed it
\* out and under its address always; the table of names stays within mdnsMaxEntries.
LatestHeard ==
    /\ \A n \in DOMAIN names : heardName[n].addr \in Range(names[n].values)
    /\ \A a \in DOMAIN heardAddr : heardAddr[a] \in Range(addrs[a].values)
    /\ \A gone \in DOMAIN heardName \ DOMAIN names, n \in DOMAIN names :
         heardName[gone].at <= names[n].at
    /\ Cardinality(DOMAIN names) <= MDNSMax + 1

\* Once a lookup has looked at the file as it is and none is refreshing, both tables hold
\* what the file holds, whatever two lookups did at once under the read lock
\* (hosts.go:53, dhcp.go:68), unless a change went unseen.
FileFollowed ==
    (\A r \in Readers : reader[r].at = "idle") /\ looked /\ ~overtaken
        => byName = file.holds /\ byAddr = file.holds
=============================================================================
