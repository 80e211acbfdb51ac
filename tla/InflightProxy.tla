---------------------------- MODULE InflightProxy ----------------------------
(***************************************************************************)
(* proxy/udp.go and proxy/tcp.go: how queries are read, handed to their    *)
(* own goroutine, answered, and bounded by the inflightRequests channel    *)
(* that every socket of a Proxy shares.                                    *)
(*                                                                         *)
(* Processes                                                               *)
(*   Listeners  UDP sockets, one serveUDP loop each                        *)
(*   Conns      TCP connections, one serveTCPConn loop each; the name of   *)
(*              a closed connection may be reused by a later one           *)
(*   Queries    goroutines that serve one query each                       *)
(*                                                                         *)
(* What a query asks and what Resolve answers is abstracted: an error or   *)
(* an answer that does not fit becomes SERVFAIL, so that both are written. *)
(***************************************************************************)
EXTENDS Naturals, FiniteSets

CONSTANTS Listeners, Conns, Queries, MaxInflightRequests, None

Readers == Listeners \cup Conns

ASSUME ProxyAssumption ==
    /\ IsFiniteSet(Listeners) /\ IsFiniteSet(Conns) /\ IsFiniteSet(Queries)
    /\ Listeners \cap Conns = {} /\ Readers \cap Queries = {}
    /\ None \notin Readers
    /\ MaxInflightRequests \in Nat

VARIABLES
    inflightRequests,   \* how many tokens the channel holds
    open,               \* are the listening sockets open?
    rd,                 \* where each reading loop is
    wg,                 \* the WaitGroup of each connection
    st,                 \* where each query is
    src                 \* the socket a query came from, or None

vars == <<inflightRequests, open, rd, wg, st, src>>

Init ==
    /\ inflightRequests = 0
    /\ open = TRUE
    /\ rd = [r \in Readers |-> IF r \in Listeners THEN "acquire" ELSE "closed"]
    /\ wg = [c \in Conns |-> 0]
    /\ st = [q \in Queries |-> "none"]
    /\ src = [q \in Queries |-> None]

Read(r, l) == rd' = [rd EXCEPT ![r] = l]
Step(q, l) == st' = [st EXCEPT ![q] = l]
-----------------------------------------------------------------------------
(* The reading loops.  The slot is taken before the read, and the query that *)
(* was read inherits it.                                                     *)

Acquire_Unbounded(r) ==     \* mutant: the channel is larger than the bound
    /\ rd[r] = "acquire"
    /\ inflightRequests <= MaxInflightRequests
    /\ inflightRequests' = inflightRequests + 1
    /\ Read(r, "read")
    /\ UNCHANGED <<open, wg, st, src>>

Acquire(r) ==
    /\ rd[r] = "acquire"
    /\ inflightRequests < MaxInflightRequests
    /\ inflightRequests' = inflightRequests + 1
    /\ Read(r, "read")
    /\ UNCHANGED <<open, wg, st, src>>

ReadQuery_LateAdd(r, q) ==  \* mutant: wg.Add(1) as the goroutine's own business
    /\ rd[r] = "read" /\ st[q] = "none"
    /\ Read(r, "acquire")
    /\ Step(q, "resolve")
    /\ src' = [src EXCEPT ![q] = r]
    /\ UNCHANGED <<inflightRequests, open, wg>>

ReadQuery(r, q) ==
    /\ rd[r] = "read" /\ st[q] = "none"
    /\ Read(r, "acquire")
    /\ Step(q, "resolve")
    /\ src' = [src EXCEPT ![q] = r]
    /\ wg' = IF r \in Conns THEN [wg EXCEPT ![r] = @ + 1] ELSE wg
    /\ UNCHANGED <<inflightRequests, open>>

(* A datagram that is too small, or a timeout. *)
SkipDatagram(l) ==
    /\ rd[l] = "read"
    /\ inflightRequests' = inflightRequests - 1
    /\ Read(l, "acquire")
    /\ UNCHANGED <<open, wg, st, src>>

(* Any other error ends serveUDP, and with it ListenAndServe. *)
ListenerFails(l) ==
    /\ rd[l] = "read"
    /\ inflightRequests' = inflightRequests - 1
    /\ Read(l, "closed")
    /\ open' = FALSE
    /\ UNCHANGED <<wg, st, src>>

Accept(c) ==
    /\ open
    /\ rd[c] = "closed"
    /\ Read(c, "acquire")
    /\ wg' = [wg EXCEPT ![c] = 0]
    /\ UNCHANGED <<inflightRequests, open, st, src>>

(* EOF, an error or a query that is too small. *)
EndConn(c) ==
    /\ rd[c] = "read"
    /\ inflightRequests' = inflightRequests - 1
    /\ Read(c, "wait")
    /\ UNCHANGED <<open, wg, st, src>>

CloseConn(c) ==             \* the deferred wg.Wait and Close
    /\ rd[c] = "wait"
    /\ wg[c] = 0
    /\ Read(c, "closed")
    /\ UNCHANGED <<inflightRequests, open, wg, st, src>>

(* ListenAndServe closes the listening sockets, and no connection. *)
CloseListeners ==
    /\ open
    /\ open' = FALSE
    /\ UNCHANGED <<inflightRequests, rd, wg, st, src>>
-----------------------------------------------------------------------------
(* A query.  A TCP answer is two writes, its length ("head") and its message *)
(* ("body"); a UDP answer is one.                                            *)

Resolve(q) ==
    /\ st[q] = "resolve"
    /\ Step(q, IF src[q] \in Conns THEN "head" ELSE "body")
    /\ UNCHANGED <<inflightRequests, open, rd, wg, src>>

Panic_KeepSlot(q) ==        \* mutant: the slot is not released by a defer
    /\ st[q] = "resolve"
    /\ Step(q, "done")
    /\ UNCHANGED <<inflightRequests, open, rd, wg, src>>

Panic(q) ==
    /\ st[q] = "resolve"
    /\ Step(q, "release")
    /\ UNCHANGED <<inflightRequests, open, rd, wg, src>>

WriteHead(q) ==
    /\ st[q] = "head"
    /\ \E l \in {"body", "release"} : Step(q, l)       \* written, or an error
    /\ UNCHANGED <<inflightRequests, open, rd, wg, src>>

WriteBody(q) ==
    /\ st[q] = "body"
    /\ Step(q, "release")
    /\ UNCHANGED <<inflightRequests, open, rd, wg, src>>

ReleaseSlot(q) ==
    /\ st[q] = "release"
    /\ inflightRequests' = inflightRequests - 1
    /\ Step(q, "done")
    /\ UNCHANGED <<open, rd, wg, src>>

Done_NotWaited(q) ==        \* mutant: no wg.Done
    /\ st[q] = "done"
    /\ Step(q, "none")
    /\ src' = [src EXCEPT ![q] = None]
    /\ UNCHANGED <<inflightRequests, open, rd, wg>>

Done(q) ==                  \* the log, and the deferred wg.Done
    /\ st[q] = "done"
    /\ Step(q, "none")
    /\ src' = [src EXCEPT ![q] = None]
    /\ wg' = IF src[q] \in Conns THEN [wg EXCEPT ![src[q]] = @ - 1] ELSE wg
    /\ UNCHANGED <<inflightRequests, open, rd>>

Serve(q) == Resolve(q) \/ Panic(q) \/ ReleaseSlot(q) \/ Done(q)
Write(q) == WriteHead(q) \/ WriteBody(q)

Next ==
    \/ \E r \in Readers : Acquire(r) \/ \E q \in Queries : ReadQuery(r, q)
    \/ \E l \in Listeners : SkipDatagram(l) \/ ListenerFails(l)
    \/ \E c \in Conns : Accept(c) \/ EndConn(c) \/ CloseConn(c)
    \/ \E q \in Queries : Serve(q) \/ Write(q)
    \/ CloseListeners

Spec == Init /\ [][Next]_vars

(* Goroutines keep running and Resolve returns within its timeout, channel   *)
(* sends are served in order, a closed socket makes its read fail.  A write  *)
(* has no deadline: it ends because the peers read, or go away.              *)
Fairness ==
    /\ \A r \in Readers : SF_vars(Acquire(r))
    /\ \A l \in Listeners : WF_vars(~open /\ ListenerFails(l))
    /\ \A c \in Conns : WF_vars(CloseConn(c))
    /\ \A q \in Queries : WF_vars(Serve(q))
PeersRead == \A q \in Queries : WF_vars(Write(q))
FairSpec == Spec /\ Fairness /\ PeersRead
-----------------------------------------------------------------------------
Inflight == {"resolve", "head", "body", "release"}
TypeOK ==
    /\ inflightRequests \in 0..MaxInflightRequests
    /\ open \in BOOLEAN
    /\ rd \in [Readers -> {"acquire", "read", "wait", "closed"}]
    /\ wg \in [Conns -> Nat]
    /\ st \in [Queries -> Inflight \cup {"none", "done"}]
    /\ src \in [Queries -> Readers \cup {None}]

(* The channel holds one token for each loop that reads and each query that  *)
(* is served: whatever way a read or a query ends, its slot is given back    *)
(* exactly once (udp.go:56-90, tcp.go:51-89).                                *)
Holders ==
    {r \in Readers : rd[r] = "read"} \cup {q \in Queries : st[q] \in Inflight}
SlotAccounting == inflightRequests = Cardinality(Holders)

(* A connection is closed after the last of its queries is over, so that no  *)
(* query writes to a closed connection (tcp.go:45, "Wait for all query       *)
(* processing goroutines to complete before closing").                       *)
NoWriteAfterClose ==
    \A q \in Queries : src[q] \in Conns => rd[src[q]] # "closed"

(* The listening sockets keep reading: as long as there is a slot for each   *)
(* socket, slow queries and idle connections never stop them for good.       *)
Served == \A l \in Listeners : []<>(rd[l] \in {"read", "closed"})

(* A connection whose client has finished is closed in the end. *)
Drains == \A c \in Conns : rd[c] = "wait" ~> rd[c] = "closed"

(* The responses on a connection do not run into each other: while a query   *)
(* is between the length and the message of its response, no other query has *)
(* written a length (tcp.go:133-139, and the test of several queries in      *)
(* flight on a connection, tcp_test.go:134).                                 *)
WholeFrames ==
    \A p, q \in Queries :
        st[p] = "body" /\ st[q] = "body" /\ src[p] = src[q] /\ src[p] \in Conns => p = q
=============================================================================
