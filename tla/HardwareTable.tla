---------------------------- MODULE HardwareTable ----------------------------
(***************************************************************************)
(* arp/cache.go, and ndp/cache.go which is the same text: the addresses    *)
(* and hardware addresses of the hosts of the network, read again by a     *)
(* goroutine of its own when a lookup finds the table more than 30 seconds *)
(* old.  Nothing but two atomic values keeps the lookups apart.            *)
(*                                                                         *)
(* Of a table only the instant at which it was read is kept, and a read    *)
(* that fails is a read: it leaves an empty table.  The code allows any    *)
(* time between two steps; here a lookup takes at most Delay and a read at *)
(* most ReadTime.  Stop, which the program never calls, is left out.       *)
(***************************************************************************)
EXTENDS Integers, FiniteSets

CONSTANTS
    Seekers,        \* the goroutines that may be in get at once
    Refreshes,      \* the goroutines that get has started
    Throttle,       \* the 30 seconds
    Delay,          \* bound: from time.Now to SwapInt64
    ReadTime,       \* bound: from the go statement to Store
    TableClock      \* bound: the last instant

ASSUME TableAssumption ==
    /\ {Throttle, Delay, ReadTime, TableClock} \subseteq Nat
    /\ 2 * Delay <= Throttle /\ ReadTime + Delay <= Throttle

VARIABLES
    lastUpdate,     \* c.lastUpdate
    table,          \* c.table: when what it holds was read, 0 for none
    seeker,         \* the lookups
    refresh,        \* the reads
    tclock,
    begun,          \* history: when the last read was started
    sought           \* history: when lookups were made

tvars == <<lastUpdate, table, seeker, refresh, tclock, begun, sought>>

TableInit ==
    /\ lastUpdate = 0 /\ table = 0 /\ begun = 0 /\ sought = {}
    /\ seeker = [s \in Seekers |-> [at |-> "idle", now |-> 0, last |-> 0]]
    /\ refresh = [r \in Refreshes |-> [at |-> "off", since |-> 0, read |-> 0]]
    /\ tclock = Throttle + 1        \* the clock is far from zero

-----------------------------------------------------------------------------
(* get: the clock, then the date of the table, then the swap.                *)

Get(s) ==
    /\ seeker[s].at = "idle" /\ sought' = sought \cup {tclock}
    /\ seeker' = [seeker EXCEPT ![s] = [at |-> "load", now |-> tclock, last |-> 0]]
    /\ UNCHANGED <<lastUpdate, table, refresh, tclock, begun>>

LoadDate(s) ==
    /\ seeker[s].at = "load"
    /\ seeker' = [seeker EXCEPT ![s].last = lastUpdate,
                    ![s].at = IF seeker[s].now - lastUpdate > Throttle THEN "swap" ELSE "idle"]
    /\ UNCHANGED <<lastUpdate, table, refresh, tclock, begun, sought>>

Claims_Unchecked(s) == TRUE             \* mutant: the value swapped out is not compared

Claims(s) == lastUpdate = seeker[s].last

\* The date is written by the lookup that loses the swap as well.
SwapDate(s) ==
    /\ seeker[s].at = "swap" /\ lastUpdate' = seeker[s].now
    /\ seeker' = [seeker EXCEPT ![s].at = "idle"]
    /\ IF Claims(s)
       THEN /\ begun' = tclock
            /\ \E r \in Refreshes :
                 /\ refresh[r].at = "off"
                 /\ refresh' = [refresh EXCEPT ![r] = [at |-> "read", since |-> tclock, read |-> 0]]
       ELSE UNCHANGED <<refresh, begun>>
    /\ UNCHANGED <<table, tclock, sought>>

\* arp.Get, ndp.Get: the error is dropped.
ReadTable(r) ==
    /\ refresh[r].at = "read"
    /\ refresh' = [refresh EXCEPT ![r].at = "store", ![r].read = tclock]
    /\ UNCHANGED <<lastUpdate, table, seeker, tclock, begun, sought>>

StoreTable(r) ==
    /\ refresh[r].at = "store" /\ table' = refresh[r].read
    /\ refresh' = [refresh EXCEPT ![r] = [at |-> "off", since |-> 0, read |-> 0]]
    /\ UNCHANGED <<lastUpdate, seeker, tclock, begun, sought>>

TableTick ==
    /\ tclock < TableClock /\ tclock' = tclock + 1
    /\ \A s \in Seekers : seeker[s].at # "idle" => tclock < seeker[s].now + Delay
    /\ \A r \in Refreshes : refresh[r].at # "off" => tclock < refresh[r].since + ReadTime
    /\ UNCHANGED <<lastUpdate, table, seeker, refresh, begun, sought>>

TableNext ==
    \/ \E s \in Seekers : Get(s) \/ LoadDate(s) \/ SwapDate(s)
    \/ \E r \in Refreshes : ReadTable(r) \/ StoreTable(r)
    \/ TableTick

TableSpec == TableInit /\ [][TableNext]_tvars

-----------------------------------------------------------------------------
TableTypeOK ==
    /\ lastUpdate \in 0 .. tclock /\ table \in 0 .. tclock /\ begun \in 0 .. tclock
    /\ \A s \in Seekers : seeker[s].at \in {"idle", "load", "swap"}
    /\ \A r \in Refreshes : refresh[r].at \in {"off", "read", "store"}
    /\ sought \subseteq 0 .. tclock

\* Two reads never overlap, so that an old table cannot replace a newer one.
OneRead == Cardinality({r \in Refreshes : refresh[r].at # "off"}) <= 1

\* The date is one at which a table was being read, or an earlier one: no read is lost
\* because a lookup that started none has moved the date.
DateEarned == lastUpdate <= begun

\* A lookup that was made long enough ago has had the table read, unless it was read in
\* the 30 seconds before it.
TableFresh == \A t \in sought : t + Delay + ReadTime < tclock => table >= t - Throttle

\* Whatever lookups lose the swap and write their own date (arp/cache.go:20), the table
\* is read once at a time and is as fresh as the lookups before have asked for.
TableKept == OneRead /\ DateEarned /\ TableFresh
=============================================================================
