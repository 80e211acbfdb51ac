------------------------------ MODULE Transport ------------------------------
(***************************************************************************)
(* From the HTTPS records of NextDNS to a connection: SourceHTTPSSVC-      *)
(* Provider.GetEndpoints of resolver/endpoint/endpoint.go, endpointAddrs   *)
(* of transport_h2.go and DialParallel of dialer.go, which dials the       *)
(* addresses of an endpoint at once and keeps the first connection.        *)
(***************************************************************************)
EXTENDS Integers, Sequences, FiniteSets

CONSTANTS
    HintSets,       \* what the hints of a record may be
    HostAddr,       \* the name of the host, dialed when there is no hint
    Priorities,
    MaxAnswers      \* bound: records in an answer

ASSUME TransportAssumption ==
    /\ Priorities \subseteq Nat \ {0} /\ MaxAnswers \in Nat
    /\ IsFiniteSet(UNION HintSets)         \* there are finitely many addresses

VARIABLES
    records,        \* the answer: [prio, hints]
    endpoint,       \* the addresses of the endpoint that is dialed
    racer,          \* the goroutines of DialParallel
    sock,           \* their connections: "none", "open" or "closed"
    dial,           \* the call: "none", "racing", "connected", "failed"
    won,            \* the connection it returned: a set of one or none
    failures        \* the errors it has received

trvars == <<records, endpoint, racer, sock, dial, won, failures>>

-----------------------------------------------------------------------------
(* GetEndpoints: the records of one priority, as long as they follow one     *)
(* another, are one endpoint.                                                *)

\* A record opens an endpoint when its priority is above that of the record before.
Opens(i) == i = 1 \/ records[i - 1].prio < records[i].prio

Hints(first) ==
    UNION {records[i].hints : i \in {j \in DOMAIN records :
                                       j >= first /\ \A k \in first + 1 .. j : ~Opens(k)}}

Endpoints == {Hints(i) : i \in {j \in DOMAIN records : Opens(j)}}

\* endpointAddrs
Addrs(hints) == IF hints = {} THEN {HostAddr} ELSE hints

AllAddrs == (UNION HintSets) \cup {HostAddr}

TransportInit ==
    /\ \E n \in 0 .. MaxAnswers : records \in [1 .. n -> [prio : Priorities, hints : HintSets]]
    /\ endpoint = {} /\ dial = "none" /\ won = {} /\ failures = 0
    /\ racer = [a \in AllAddrs |-> "off"] /\ sock = [a \in AllAddrs |-> "none"]

-----------------------------------------------------------------------------
(* DialParallel.                                                             *)

\* With one address there is no race, and the same outcome.
Race ==
    /\ dial = "none" /\ dial' = "racing"
    /\ \E hints \in Endpoints :
         /\ endpoint' = Addrs(hints)
         /\ racer' = [a \in AllAddrs |-> IF a \in Addrs(hints) THEN "dialing" ELSE "off"]
    /\ UNCHANGED <<records, sock, won, failures>>

\* DialContext, whoever has won meanwhile.
Dialed(a) ==
    /\ racer[a] = "dialing" /\ racer' = [racer EXCEPT ![a] = "result"]
    /\ sock' \in {sock, [sock EXCEPT ![a] = "open"]}
    /\ UNCHANGED <<records, endpoint, dial, won, failures>>

\* The caller takes a result: it returns with the first connection or the last error.
TakeResult(a) ==
    /\ dial = "racing" /\ racer[a] = "result" /\ racer' = [racer EXCEPT ![a] = "off"]
    /\ IF sock[a] = "open"
       THEN dial' = "connected" /\ won' = {a} /\ UNCHANGED failures
       ELSE /\ failures' = failures + 1 /\ UNCHANGED won
            /\ dial' = IF failures' = Cardinality(endpoint) THEN "failed" ELSE "racing"
    /\ UNCHANGED <<records, endpoint, sock>>

Leave_Open(a) == UNCHANGED sock                     \* mutant: nobody closes what lost

\* c.Close of what lost
Leave(a) == sock' = [sock EXCEPT ![a] = IF @ = "open" THEN "closed" ELSE @]

\* The caller has closed `returned`.
Lose(a) ==
    /\ dial \in {"connected", "failed"} /\ racer[a] = "result"
    /\ racer' = [racer EXCEPT ![a] = "off"] /\ Leave(a)
    /\ UNCHANGED <<records, endpoint, dial, won, failures>>

TransportNext == Race \/ \E a \in AllAddrs : Dialed(a) \/ TakeResult(a) \/ Lose(a)

TransportSpec == TransportInit /\ [][TransportNext]_trvars

-----------------------------------------------------------------------------
TransportTypeOK ==
    /\ endpoint \subseteq AllAddrs /\ won \subseteq AllAddrs /\ failures \in 0 .. Cardinality(AllAddrs)
    /\ racer \in [AllAddrs -> {"off", "dialing", "result"}]
    /\ sock \in [AllAddrs -> {"none", "open", "closed"}]
    /\ dial \in {"none", "racing", "connected", "failed"}

Sorted == \A i, j \in DOMAIN records : i < j => records[i].prio <= records[j].prio

\* When the goroutines of a dial are done, one connection is open if any was made, and it
\* is the one returned (dialer.go:22-32).
OneKept ==
    dial # "racing" /\ (\A a \in AllAddrs : racer[a] = "off") =>
        /\ {a \in AllAddrs : sock[a] = "open"} = won
        /\ won = {} => \A a \in AllAddrs : sock[a] = "none"

\* The addresses dialed are all the hints of one priority (endpoint.go:258).  Records that
\* do not come in the order of their priorities are excepted: what follows a higher one is
\* merged with it.
AllHints ==
    dial # "none" /\ Sorted =>
        \E p \in Priorities :
           endpoint = Addrs(UNION {records[i].hints : i \in {j \in DOMAIN records : records[j].prio = p}})

\* A dial tries every address of its priority and leaves open the connection it returns,
\* whatever the order in which the others are made, refused or lost.
OneConnection == OneKept /\ AllHints
=============================================================================
