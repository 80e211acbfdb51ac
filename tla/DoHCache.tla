------------------------------ MODULE DoHCache ------------------------------
(***************************************************************************)
(* resolver/doh.go and resolver/cache.go: the response cache of one DoH    *)
(* URL under concurrent queries, with the two things that bound the age of *)
(* what it serves: the TTLs, and the time the configuration behind the URL *)
(* was last changed, which the server sends with each response.            *)
(*                                                                         *)
(* Time is counted in ticks, TicksPerSecond of them a second: TTLs, ages   *)
(* and the server's header are in seconds.  Time 0 is Go's zero time.      *)
(* There are two clocks: clock is the server's, and the client's wall      *)
(* clock is ahead of it by `ahead` ticks, which a step of the client's     *)
(* clock (NTP) changes.  A time.Time of the client has both readings: its  *)
(* monotonic one, which ages are computed from, passes like clock and is   *)
(* taken to start with it; its wall one is what a date is compared with.   *)
(*                                                                         *)
(* Of a message the model keeps its smallest TTL and, to state properties  *)
(* with, the configuration it was computed from and when (ver, at).  The   *)
(* cache may forget any entry (ARC).  Upstream is a NextDNS server: others *)
(* send no header, and updateLastMod then does nothing.                    *)
(***************************************************************************)
EXTENDS Integers

CONSTANTS
    Queries,            \* goroutines in DOH.resolve
    Questions,          \* cache keys
    Inverse,            \* those of type PTR
    TTLs,               \* for each, the smallest TTLs of the server's answers, in seconds
    CacheMaxAge,        \* in seconds, 0 for none
    TicksPerSecond,
    MaxTime, MaxVer,    \* bounds on the clock and on the configuration changes
    Offsets,            \* what the client's clock may be ahead of the server's by
    None

ASSUME CacheAssumption ==
    /\ Inverse \subseteq Questions
    /\ TTLs \in [Questions -> SUBSET Nat] /\ CacheMaxAge \in Nat
    /\ TicksPerSecond \in Nat \ {0}
    /\ MaxTime \in Nat \ {0} /\ MaxVer \in Nat /\ None \notin Questions
    /\ Offsets \subseteq Int

VARIABLES
    clock, ahead,
    conf,           \* the server's configuration: its version, when it was changed
    cache,          \* DOH.Cache
    lastModified,   \* DOH.lastModified of the URL
    qs,             \* the queries
    learned         \* history: the newest version lastModified was updated for, and its date

vars == <<clock, ahead, conf, cache, lastModified, qs, learned>>

Value(t, w, ttl, c, at, mod) ==     \* cacheValue, and the response it comes from
    [time |-> t, wall |-> w, ttl |-> ttl, ver |-> c, at |-> at, mod |-> mod]
NoValue == Value(0, 0, 0, 0, 0, 0)
Nothing == [ver |-> 0, mod |-> 0]
IdleQuery == [pc |-> "idle", key |-> None, now |-> 0, wall |-> 0,
              val |-> NoValue, floor |-> Nothing]

Init ==
    /\ clock = 1 /\ ahead \in Offsets
    /\ conf = [ver |-> 0, at |-> 0]
    /\ cache = [k \in Questions |-> None]
    /\ lastModified = 0
    /\ qs = [q \in Queries |-> IdleQuery]
    /\ learned = Nothing

Return(q) == qs' = [qs EXCEPT ![q] = IdleQuery]
-----------------------------------------------------------------------------
(* cacheValue.AdjustedResponse. *)

Wrap == 65536       \* stands for 2^32, which like it exceeds every TTL

\* uint32(now.Sub(v.time) / time.Second): truncated towards zero, then wrapped.
Age(now, t) ==
    IF now >= t THEN (now - t) \div TicksPerSecond
    ELSE (-((t - now) \div TicksPerSecond)) % Wrap

MinTTL_NoMaxAge(v, now) ==      \* mutant: the maximum age is not looked at
    LET age == Age(now, v.time) IN IF age > v.ttl THEN 0 ELSE v.ttl - age

MinTTL(v, now) ==
    LET age == Age(now, v.time) IN
    IF age > v.ttl \/ (CacheMaxAge > 0 /\ age > CacheMaxAge) THEN 0 ELSE v.ttl - age
-----------------------------------------------------------------------------
(* DOH.resolve. *)

(* What a query that goes to the server still needs. *)
Sending(k, now, wall) ==
    [pc |-> "send", key |-> k, now |-> now, wall |-> wall,
     val |-> NoValue, floor |-> Nothing]

Lookup(q, k) ==
    /\ qs[q].pc = "idle"
    /\ LET now == IF k \in Inverse THEN 0 ELSE clock
           wall == IF k \in Inverse THEN 0 ELSE clock + ahead
           hit == k \notin Inverse /\ cache[k] # None
       IN qs' = [qs EXCEPT ![q] =
             IF hit /\ MinTTL(cache[k], now) > 0
             THEN [pc |-> "check", key |-> k, now |-> now, wall |-> wall,
                   val |-> cache[k], floor |-> learned]
             ELSE Sending(k, now, wall)]
    /\ UNCHANGED <<clock, ahead, conf, cache, lastModified, learned>>

UseCached_OrEqual(q) ==         \* mutant: "isn't before" for "after"
    /\ qs[q].pc = "check"
    /\ lastModified <= qs[q].val.wall
    /\ Return(q)
    /\ UNCHANGED <<clock, ahead, conf, cache, lastModified, learned>>

UseCached(q) ==
    /\ qs[q].pc = "check"
    /\ lastModified < qs[q].val.wall
    /\ Return(q)
    /\ UNCHANGED <<clock, ahead, conf, cache, lastModified, learned>>

TooOld(q) ==
    /\ qs[q].pc = "check"
    /\ lastModified >= qs[q].val.wall
    /\ qs' = [qs EXCEPT ![q] = Sending(qs[q].key, qs[q].now, qs[q].wall)]
    /\ UNCHANGED <<clock, ahead, conf, cache, lastModified, learned>>

(* The server answers, now, from the configuration it has now, whose date    *)
(* is of the server's clock.                                                 *)
Answer(q) ==
    /\ qs[q].pc = "send"
    /\ \E ttl \in TTLs[qs[q].key] :
          LET mod == (conf.at \div TicksPerSecond) * TicksPerSecond IN
          qs' = [qs EXCEPT ![q].pc = "recv",
                           ![q].val = Value(qs[q].now, qs[q].wall, ttl, conf.ver, clock, mod)]
    /\ UNCHANGED <<clock, ahead, conf, cache, lastModified, learned>>

(* An error of the transport, a status that is not 200; later an error       *)
(* while the body is read, or a response that had to be truncated.           *)
NotCached(q) ==
    /\ qs[q].pc \in {"send", "recv"}
    /\ Return(q)
    /\ UNCHANGED <<clock, ahead, conf, cache, lastModified, learned>>

Add(q) ==
    /\ qs[q].pc = "recv"
    /\ cache' = [cache EXCEPT ![qs[q].key] = qs[q].val]
    /\ qs' = [qs EXCEPT ![q].pc = "update"]
    /\ UNCHANGED <<clock, ahead, conf, lastModified, learned>>

Newest(v) ==
    IF v.ver > learned.ver THEN [ver |-> v.ver, mod |-> v.mod] ELSE learned

UpdateLastMod_Always(q) ==      \* mutant: not only if more recent
    /\ qs[q].pc = "update"
    /\ lastModified' = qs[q].val.mod
    /\ learned' = Newest(qs[q].val)
    /\ Return(q)
    /\ UNCHANGED <<clock, ahead, conf, cache>>

UpdateLastMod(q) ==
    /\ qs[q].pc = "update"
    /\ lastModified' = IF qs[q].val.mod > lastModified THEN qs[q].val.mod ELSE lastModified
    /\ learned' = Newest(qs[q].val)
    /\ Return(q)
    /\ UNCHANGED <<clock, ahead, conf, cache>>
-----------------------------------------------------------------------------
(* The environment. *)

Evict(k) ==
    /\ cache[k] # None
    /\ cache' = [cache EXCEPT ![k] = None]
    /\ UNCHANGED <<clock, ahead, conf, lastModified, qs, learned>>

ChangeConf ==
    /\ conf.ver < MaxVer
    /\ conf' = [ver |-> conf.ver + 1, at |-> clock]
    /\ UNCHANGED <<clock, ahead, cache, lastModified, qs, learned>>

Tick ==
    /\ clock < MaxTime
    /\ clock' = clock + 1
    /\ UNCHANGED <<ahead, conf, cache, lastModified, qs, learned>>

StepClock ==
    /\ \E o \in Offsets \ {ahead} : ahead' = o
    /\ UNCHANGED <<clock, conf, cache, lastModified, qs, learned>>

Next ==
    \/ \E q \in Queries :
          \/ \E k \in Questions : Lookup(q, k)
          \/ UseCached(q) \/ TooOld(q) \/ Answer(q) \/ NotCached(q)
          \/ Add(q) \/ UpdateLastMod(q)
    \/ \E k \in Questions : Evict(k)
    \/ ChangeConf \/ Tick \/ StepClock

Spec == Init /\ [][Next]_vars
-----------------------------------------------------------------------------
Versions == [ver : 0..MaxVer, mod : 0..MaxTime]
Values == [time : 0..MaxTime, wall : Int, ttl : Nat, ver : 0..MaxVer,
           at : 0..MaxTime, mod : 0..MaxTime]
TypeOK ==
    /\ clock \in 1..MaxTime /\ ahead \in Offsets
    /\ conf \in [ver : 0..MaxVer, at : 0..MaxTime]
    /\ cache \in [Questions -> Values \cup {None}]
    /\ lastModified \in 0..MaxTime /\ learned \in Versions
    /\ qs \in [Queries -> [pc : {"idle", "check", "send", "recv", "update"},
                           key : Questions \cup {None}, now : 0..MaxTime, wall : Int,
                           val : Values, floor : Versions]]
    /\ \A k \in Questions : cache[k] # None => cache[k].time <= cache[k].at

(* A query that is answered from the cache gets a message whose TTL had not  *)
(* passed, nor the maximum age, since the server computed it, however long   *)
(* the response took and whichever of two responses was stored last          *)
(* (cache.go:27-30).                                                         *)
FreshHits ==
    [][\A q \in Queries : UseCached(q) =>
          LET v == qs[q].val
              since == (qs[q].now - v.at) \div TicksPerSecond
          IN since < v.ttl /\ (CacheMaxAge > 0 => since <= CacheMaxAge)]_vars

(* Once a response has told of a configuration, a query that starts later is *)
(* answered from the cache by an older one, whatever question told, only as  *)
(* far as the two clocks and the header allow (doh.go:80-81, "isn't older    *)
(* than the configuration last change"): by an answer that the old one gave  *)
(* in the second of the change, which is as fine as the header is            *)
(* (doh.go:151), or before it, by less than the client's clock was ahead     *)
(* when that answer was asked for (doh.go:73).                               *)
NewConfiguration ==
    [][\A q \in Queries : UseCached(q) =>
          LET v == qs[q].val
              wasAhead == v.wall - v.time
          IN \/ v.ver >= qs[q].floor.ver
             \/ v.at - qs[q].floor.mod \in 1 - wasAhead..TicksPerSecond - 1]_vars
=============================================================================
