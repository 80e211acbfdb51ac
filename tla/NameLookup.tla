----------------------------- MODULE NameLookup -----------------------------
(***************************************************************************)
(* discovery/dns.go and semaphore.go: names and addresses looked up in the *)
(* private DNS of the network, whose answers are kept five minutes.  That  *)
(* server may itself forward to this daemon what it does not know: a       *)
(* forwarded query is a lookup of its own, whose answer is what the server *)
(* gives to the lookup that caused it.                                     *)
(*                                                                         *)
(* A lookup is a goroutine of the proxy.  Only whether an answer holds     *)
(* records is kept of it.                                                  *)
(***************************************************************************)
EXTENDS Integers, FiniteSets

CONSTANTS
    Lookups,        \* the goroutines that may be in a lookup at once
    Addresses,      \* the addresses looked up (PTR)
    Hosts,          \* the names looked up (A and AAAA)
    Localhost,      \* "localhost.", the name probeBuggyDNSMasq asks for
    MaxRetries,     \* maxRetries of sendQuery
    HoldTime,       \* how long cacheSet keeps values
    LookupClock     \* bound: the last instant

Keys == Addresses \cup Hosts

ASSUME LookupAssumption ==
    /\ Addresses \cap Hosts = {} /\ Localhost \in Hosts
    /\ MaxRetries \in Nat \ {0} /\ HoldTime \in Nat /\ LookupClock \in Nat
    /\ "nobody" \notin Lookups /\ "done" \notin Lookups

VARIABLES
    upstream,   \* r.Upstream is set once init has run
    acquired,   \* antiLoop.acquired
    once,       \* r.once: "nobody", the lookup that runs init, or "done"
    rd,         \* r.rd
    kept,       \* r.cache: what is kept of a key and until when
    lk,         \* the lookups
    now

lvars == <<upstream, acquired, once, rd, kept, lk, now>>

-----------------------------------------------------------------------------
(* What a lookup asks: one query for an address, two at once for a name, and *)
(* the two probes of init.  A query is out, forwarded to us or has an outcome; *)
(* bad counts the answers it could not use.                                  *)

Queries(key) == IF key \in Addresses THEN {"PTR"} ELSE {"A", "AAAA"}
Probes == {"noRD", "RD"}

\* Of a lookup's query only whether it brought records matters; of a probe, whether it
\* was answered ("records"), and with which error otherwise.
Outcomes == {"records", "empty", "servfail"}
Sent == [is |-> "out", bad |-> 0]
Done(o) == [is |-> o, bad |-> 0]

NoQuery == [q \in {} |-> Sent]
Asking(qs) == [q \in qs |-> Sent]
AllIn(asks) == \A q \in DOMAIN asks : asks[q].is \in Outcomes

\* probeBuggyDNSMasq: SERVFAIL without RD and an answer with it.
BuggyDNSMasq(asks) == asks["noRD"].is = "servfail" /\ asks["RD"].is = "records"

\* append(a, aaaa...), and the names of a PTR answer.
Gathered(asks) == IF \E q \in DOMAIN asks : asks[q].is = "records" THEN "records" ELSE "empty"

Found(key) == key \in DOMAIN kept /\ now <= kept[key].until

Idle == [at |-> "idle", key |-> Localhost, asks |-> NoQuery, got |-> "empty",
         origin |-> <<>>]

LookupInit ==
    /\ upstream \in BOOLEAN
    /\ acquired = {} /\ once = "nobody" /\ rd = FALSE
    /\ kept = [k \in {} |-> 0]
    /\ lk = [l \in Lookups |-> Idle]
    /\ now = 0

-----------------------------------------------------------------------------
\* runSingle begins with Acquire; refused, it goes straight to its Release.
Entered(key, origin) ==
    [Idle EXCEPT !.at = IF key \in acquired THEN "leaving" ELSE "once",
                 !.key = key, !.origin = origin]

\* LookupAddr or LookupHost.
Called(l) ==
    /\ lk[l].at = "idle"
    /\ \E key \in Keys : lk' = [lk EXCEPT ![l] = Entered(key, <<>>)] /\ acquired' = acquired \cup {key}
    /\ UNCHANGED <<upstream, once, rd, kept, now>>

\* The server forwards a query of lookup p, which it does only to a recursive one.
Forwarded(p, q, l) ==
    /\ q \in DOMAIN lk[p].asks /\ lk[p].asks[q] = Sent
    /\ IF lk[p].at = "probing" THEN q = "RD" ELSE rd
    /\ lk[l].at = "idle" /\ l # p
    /\ LET key == IF lk[p].at = "probing" THEN Localhost ELSE lk[p].key
       IN  /\ acquired' = acquired \cup {key}
           /\ lk' = [lk EXCEPT ![p].asks[q].is = "forwarded", ![l] = Entered(key, <<p, q>>)]
    /\ UNCHANGED <<upstream, once, rd, kept, now>>

\* r.once.Do(r.init): the first lookup runs it, the others wait for its end.
EnterOnce(l) ==
    /\ lk[l].at = "once"
    /\ \/ /\ once = "nobody"
          /\ once' = l
          /\ lk' = [lk EXCEPT ![l].at = "probing", ![l].asks = Asking(Probes)]
       \/ /\ once = "done"
          /\ lk' = [lk EXCEPT ![l].at = "run"]
          /\ UNCHANGED once
    /\ UNCHANGED <<upstream, acquired, rd, kept, now>>

EndInit(l) ==
    /\ lk[l].at = "probing" /\ AllIn(lk[l].asks)
    /\ rd' = BuggyDNSMasq(lk[l].asks)
    /\ once' = "done"
    /\ lk' = [lk EXCEPT ![l].at = "run", ![l].asks = NoQuery]
    /\ UNCHANGED <<upstream, acquired, kept, now>>

\* lookupAddr, lookupHost: no server, a value that is kept, or queries.
Look(l) ==
    /\ lk[l].at = "run"
    /\ LET key == lk[l].key IN
       lk' = [lk EXCEPT ![l] =
                IF ~upstream THEN [@ EXCEPT !.at = "leaving"]
                ELSE IF Found(key) THEN [@ EXCEPT !.at = "leaving", !.got = kept[key].values]
                ELSE [@ EXCEPT !.at = "asking", !.asks = Asking(Queries(key))]]
    /\ UNCHANGED <<upstream, acquired, once, rd, kept, now>>

\* sendQuery: the server answers, a read fails to match, or the deadline passes.
Reply(l, q) ==
    /\ q \in DOMAIN lk[l].asks /\ lk[l].asks[q].is = "out"
    /\ \E o \in IF lk[l].at = "probing" THEN Outcomes ELSE {"records", "empty"} :
         lk' = [lk EXCEPT ![l].asks[q] = Done(o)]
    /\ UNCHANGED <<upstream, acquired, once, rd, kept, now>>

BadRead_OneMore(l, q) ==        \* mutant: > for >=
    /\ q \in DOMAIN lk[l].asks /\ lk[l].asks[q].is = "out"
    /\ LET bad == lk[l].asks[q].bad + 1 IN
       lk' = [lk EXCEPT ![l].asks[q] = IF bad > MaxRetries THEN Done("empty")
                                       ELSE [is |-> "out", bad |-> bad]]
    /\ UNCHANGED <<upstream, acquired, once, rd, kept, now>>

BadRead(l, q) ==
    /\ q \in DOMAIN lk[l].asks /\ lk[l].asks[q].is = "out"
    /\ LET bad == lk[l].asks[q].bad + 1 IN
       lk' = [lk EXCEPT ![l].asks[q] = IF bad >= MaxRetries THEN Done("empty")
                                       ELSE [is |-> "out", bad |-> bad]]
    /\ UNCHANGED <<upstream, acquired, once, rd, kept, now>>

Deadline_NotOfProbes(l, q) ==   \* mutant: probeBuggyDNSMasq waits without a deadline
    /\ q \in DOMAIN lk[l].asks /\ lk[l].asks[q].is \in {"out", "forwarded"}
    /\ lk[l].at = "asking"
    /\ lk' = [lk EXCEPT ![l].asks[q] = Done("empty")]
    /\ UNCHANGED <<upstream, acquired, once, rd, kept, now>>

Deadline(l, q) ==
    /\ q \in DOMAIN lk[l].asks /\ lk[l].asks[q].is \in {"out", "forwarded"}
    /\ lk' = [lk EXCEPT ![l].asks[q] = Done("empty")]
    /\ UNCHANGED <<upstream, acquired, once, rd, kept, now>>

\* <-done and cacheSet, which keeps an empty answer and a failure as well.
Gather(l) ==
    /\ lk[l].at = "asking" /\ AllIn(lk[l].asks)
    /\ LET v == Gathered(lk[l].asks) IN
       /\ kept' = [k \in DOMAIN kept \cup {lk[l].key} |->
                     IF k = lk[l].key THEN [values |-> v, until |-> now + HoldTime] ELSE kept[k]]
       /\ lk' = [lk EXCEPT ![l].at = "leaving", ![l].got = v, ![l].asks = NoQuery]
    /\ UNCHANGED <<upstream, acquired, once, rd, now>>

\* The deferred Release, which does not ask whether Acquire succeeded.
Release(l) ==
    /\ lk[l].at = "leaving"
    /\ acquired' = acquired \ {lk[l].key}
    /\ lk' = [lk EXCEPT ![l].at = "back"]
    /\ UNCHANGED <<upstream, once, rd, kept, now>>

\* The proxy answers, with an error when it fails to.
Answered(l) ==
    /\ lk[l].at = "back"
    /\ LET o == lk[l].origin IN
       IF o # <<>> /\ lk[o[1]].at \in {"asking", "probing"} /\ o[2] \in DOMAIN lk[o[1]].asks
          /\ lk[o[1]].asks[o[2]].is = "forwarded"
       THEN \E a \in {lk[l].got} \cup IF lk[o[1]].at = "probing" THEN {"servfail"} ELSE {} :
              lk' = [lk EXCEPT ![l] = Idle, ![o[1]].asks[o[2]] = Done(a)]
       ELSE lk' = [lk EXCEPT ![l] = Idle]
    /\ UNCHANGED <<upstream, acquired, once, rd, kept, now>>

LookupTick == now < LookupClock /\ now' = now + 1 /\ UNCHANGED <<upstream, acquired, once, rd, kept, lk>>

\* The goroutine of a lookup.
Advance(l) ==
    \/ EnterOnce(l) \/ EndInit(l) \/ Look(l) \/ Gather(l) \/ Release(l) \/ Answered(l)

LookupNext ==
    \/ \E l \in Lookups :
         \/ Called(l) \/ Advance(l)
         \/ \E q \in DOMAIN lk[l].asks :
              \/ Reply(l, q) \/ BadRead(l, q) \/ Deadline(l, q)
              \/ \E n \in Lookups : Forwarded(l, q, n)
    \/ LookupTick

LookupSpec == LookupInit /\ [][LookupNext]_lvars

\* A goroutine that can run does, and a deadline passes; nothing more is assumed.
LookupFairness ==
    /\ \A l \in Lookups : WF_lvars(Advance(l))
    /\ \A l \in Lookups : \A q \in {"PTR", "A", "AAAA"} \cup Probes : WF_lvars(Deadline(l, q))

-----------------------------------------------------------------------------
LookupTypeOK ==
    /\ upstream \in BOOLEAN /\ rd \in BOOLEAN
    /\ acquired \subseteq Keys
    /\ once \in Lookups \cup {"nobody", "done"}
    /\ \A k \in DOMAIN kept :
         k \in Keys /\ kept[k] \in [values : {"records", "empty"}, until : 0 .. LookupClock + HoldTime]
    /\ \A l \in Lookups :
         /\ lk[l].at \in {"idle", "once", "probing", "run", "asking", "leaving", "back"}
         /\ lk[l].key \in Keys
         /\ \A q \in DOMAIN lk[l].asks :
              lk[l].asks[q] \in [is : Outcomes \cup {"out", "forwarded"}, bad : 0 .. MaxRetries - 1]
         /\ lk[l].got \in {"records", "empty"}
    /\ now \in 0 .. LookupClock

\* A lookup returns, also when the server forwards its queries to the daemon and the
\* lookups they start wait for the first one to end init: the deadline of the queries
\* (dns.go:250) is what ends the wait.
LookupReturns == \A l \in Lookups : lk[l].at # "idle" ~> lk[l].at = "idle"

\* "making sure only one query for a given entity is in flight at a time" (dns.go:122).
OneInFlight ==
    \A l, m \in Lookups :
      l # m /\ lk[l].at = "asking" /\ lk[m].at = "asking" => lk[l].key # lk[m].key
=============================================================================
