----------------------------- MODULE AnswerPath -----------------------------
(***************************************************************************)
(* What becomes of a query between the socket that read it and the answer  *)
(* written there: the goroutine of serveUDP and serveTCP (proxy/udp.go,    *)
(* proxy/tcp.go), Proxy.Resolve and the answers it makes itself            *)
(* (proxy/proxy.go, proxy/util.go), DNS.Resolve (resolver/resolver.go) and *)
(* the plain DNS resolver with its cache (resolver/dns53.go).              *)
(*                                                                         *)
(* A message is [id, about, rcode, src, size]: the query it answers, its   *)
(* key, and where it comes from.  `buf` is the goroutine's buffer, n tells *)
(* whether it holds an answer: each call may leave one and not the other.  *)
(***************************************************************************)
EXTENDS Integers, FiniteSets

CONSTANTS
    Jobs,           \* goroutines
    Asked,          \* queries: [id, key, ptr, rd, private, parsed, msgSize, local, disc]
    Sizes,          \* sizes of the answers of upstream
    BogusPriv,      \* Proxy.BogusPriv
    MaxBadReads,    \* bound: packets read before an answer (maxRetries, 5)
    MaxQueries      \* bound: queries in all

\* What a host resolver knows of a query's name: nothing; the name, but nothing of
\* the type; records; records of which the last cannot be packed.
Knowledge == {"unknown", "name", "records", "bad"}

ASSUME AnswerAssumption ==
    /\ BogusPriv \in BOOLEAN /\ MaxBadReads \in Nat \ {0} /\ MaxQueries \in Nat /\ Sizes \subseteq Nat
    /\ \A q \in Asked : {q.local, q.disc} \subseteq Knowledge /\ {q.id, q.msgSize} \subseteq Nat

VARIABLES
    job,        \* what each goroutine is at
    cache53,    \* DNS53.Cache: for each key, an answer or none
    asked       \* queries so far

pvars == <<job, cache53, asked>>

Keys == {q.key : q \in Asked} \cup {"none"}      \* "none": the name of a query that cannot be parsed
Codes == {"ok", "nx"}

Msg(id, about, rcode, src, size) == [id |-> id, about |-> about, rcode |-> rcode, src |-> src, size |-> size]
NoMsg == Msg(0, "none", "none", "none", 0)
NoEntry == [msg |-> NoMsg, fresh |-> FALSE]

\* What is known of a payload that cannot be parsed, in which the client wrote id.
Unparsed(id) == [id |-> id, key |-> "none", ptr |-> FALSE, rd |-> FALSE, private |-> FALSE, parsed |-> "no",
                 msgSize |-> 512, local |-> "unknown", disc |-> "unknown"]

\* Query.ID: of the parser, zero when the header or the question could not be read.
QueryID(q) == IF q.parsed = "no" THEN 0 ELSE q.id

IdleJob == [pc |-> "idle", q |-> Unparsed(0), tcp |-> FALSE, n |-> FALSE, buf |-> NoMsg, err |-> FALSE, bad |-> 0,
            left |-> FALSE, spoiled |-> FALSE, stale |-> FALSE, out |-> NoMsg, tc |-> FALSE, replies |-> 0]

Go(c, r) == job' = [job EXCEPT ![c] = r]

------------------------------------------------------------------------------

\* A query is read and parsed (query.New). When parsing fails it is answered all the
\* same: its payload goes upstream as the client wrote it.
Receive(c) ==
    /\ job[c].pc \in {"idle", "done"}
    /\ asked < MaxQueries
    /\ asked' = asked + 1
    /\ \E q \in Asked, tcp \in BOOLEAN :
          Go(c, [IdleJob EXCEPT !.pc = IF q.parsed = "loops" THEN "loops" ELSE "local",
                                !.q = IF q.parsed = "no" THEN Unparsed(q.id) ELSE q,
                                !.tcp = tcp])
    /\ UNCHANGED cache53

\* A message this host builds is the answer.
Made(j, m) == [j EXCEPT !.buf = m, !.n = TRUE, !.err = FALSE, !.pc = "reply"]

\* hostsResolve: a name that is known is answered, with nothing when there is nothing
\* of the type; when a record cannot be packed the buffer has been written over.
HostsResolve(j, knows, src) ==
    CASE knows = "unknown" -> j
      [] knows = "bad" -> [j EXCEPT !.buf = Msg(0, "none", "ok", "zeroed", j.buf.size), !.spoiled = TRUE]
      [] knows \in {"name", "records"} ->
             Made(j, Msg(j.q.id, j.q.key, "ok", src, 100))

IsPrivate(j) == BogusPriv /\ j.q.ptr /\ j.q.private

Local(c) ==
    LET j == HostsResolve(job[c], job[c].q.local, "local") IN
    /\ job[c].pc = "local"
    /\ Go(c, IF j.pc = "reply" THEN j ELSE [j EXCEPT !.pc = IF IsPrivate(j) THEN "discover" ELSE "upstream"])
    /\ UNCHANGED <<cache53, asked>>

\* The end of the upstream's part with what n, buf and err are.
Upstream(j, n, buf, err) == [j EXCEPT !.pc = "discover", !.n = n, !.buf = buf, !.err = err]

Answer(j, code, size) == Msg(j.q.id, j.q.key, code, "upstream", size)

\* A stored message as it is given to j.
Own_KeepsID(msg, j) == msg      \* mutant: with the identifier of the query it answered

Own(msg, j) == [msg EXCEPT !.id = QueryID(j.q)]

\* No endpoint is active, or the active one is a DoH endpoint: it answers the payload, its
\* cache answers, or it fails with what the cache had put in the buffer, if anything.
ByDoH(c) ==
    LET j == job[c] IN
    /\ j.pc = "upstream"
    /\ \/ Go(c, Upstream(j, FALSE, j.buf, TRUE))
       \/ \E code \in Codes : Go(c, [Upstream(j, TRUE, [Answer(j, code, 100) EXCEPT !.src = "stale"], TRUE)
                                         EXCEPT !.stale = TRUE, !.left = TRUE])
       \/ \E code \in Codes, size \in Sizes : Go(c, [Upstream(j, TRUE, Answer(j, code, size), FALSE) EXCEPT !.left = TRUE])
       \/ /\ ~j.q.ptr
          /\ \E code \in Codes, size \in Sizes :
                Go(c, Upstream(j, TRUE, [Own(Answer(j, code, size), j) EXCEPT !.src = "cache"], FALSE))
    /\ UNCHANGED <<cache53, asked>>

\* The active endpoint is a DNS one. PTR queries do not look into the cache.
By53(c) ==
    LET j == job[c]
        e == cache53[j.q.key]
        hit == ~j.q.ptr /\ e # NoEntry
        own == Own(e.msg, j)
    IN /\ j.pc = "upstream"
       /\ Go(c, IF hit /\ e.fresh THEN Upstream(j, TRUE, [own EXCEPT !.src = "cache"], FALSE)
                ELSE IF hit THEN [j EXCEPT !.pc = "dial", !.n = TRUE, !.buf = [own EXCEPT !.src = "stale"], !.stale = TRUE]
                ELSE [j EXCEPT !.pc = "dial"])
       /\ UNCHANGED <<cache53, asked>>

\* The query is sent, or dialling or writing fails: what the cache left stays.
Dial(c) ==
    LET j == job[c] IN
    /\ j.pc = "dial"
    /\ \/ Go(c, [j EXCEPT !.pc = "read", !.left = TRUE])
       \/ Go(c, Upstream(j, j.n, j.buf, TRUE))
    /\ UNCHANGED <<cache53, asked>>

\* The read fails or times out (the deadline of the query).
ReadFails(c) ==
    /\ job[c].pc = "read"
    /\ Go(c, Upstream(job[c], FALSE, job[c].buf, TRUE))
    /\ UNCHANGED <<cache53, asked>>

\* Packets that are not taken: one of less than two bytes, none (n is 0) or one; one with
\* another identifier than QueryID, late or stray, or the answer to what was not parsed.
Short(j) == [j.buf EXCEPT !.id = 0, !.rcode = "none", !.src = "short"]
Others(j) == {Msg(j.q.id + 1, "other", code, "upstream", 100) : code \in Codes}
             \cup {Answer(j, code, 100) : code \in IF j.q.id = QueryID(j.q) THEN {} ELSE Codes}

ReadOther(c) ==
    LET j == job[c]
        over == j.bad + 1 >= MaxBadReads
    IN /\ j.pc = "read"
       /\ \E n \in BOOLEAN, buf \in {Short(j)} \cup Others(j) :
             /\ buf # Short(j) => n
             /\ Go(c, IF over THEN [Upstream(j, n, buf, TRUE) EXCEPT !.bad = @ + 1, !.stale = FALSE]
                      ELSE [j EXCEPT !.bad = @ + 1, !.buf = buf])
       /\ UNCHANGED <<cache53, asked>>

\* The answer, which is stored: an answer to a PTR query with a date long past.
ReadAnswer(c) ==
    LET j == job[c] IN
    /\ j.pc = "read" /\ j.q.id = QueryID(j.q)
    /\ \E code \in Codes, size \in Sizes :
          /\ Go(c, [Upstream(j, TRUE, Answer(j, code, size), FALSE) EXCEPT !.stale = FALSE])
          /\ cache53' = [cache53 EXCEPT ![j.q.key] = [msg |-> Answer(j, code, size), fresh |-> ~j.q.ptr]]
    /\ UNCHANGED asked

\* Time passes: an answer in the cache has outlived its TTL. The cache may forget it.
Expires(k) ==
    /\ cache53[k].fresh
    /\ cache53' = [cache53 EXCEPT ![k].fresh = FALSE]
    /\ UNCHANGED <<job, asked>>

Looks_NoDenial(j) == j.q.rd /\ ~j.n     \* mutant: a denial is taken as an answer

Looks(j) == j.q.rd /\ (~j.n \/ j.buf.rcode = "nx")

\* After upstream, when it gave nothing or a denial: what discovery knows; then the
\* denial of private addresses.
Discover(c) ==
    LET j == job[c]
        d == IF Looks(j) THEN HostsResolve(j, j.q.disc, "discovery") ELSE j
    IN /\ j.pc = "discover"
       /\ Go(c, IF d.pc = "reply" THEN d
                ELSE IF IsPrivate(d) THEN Made(d, Msg(QueryID(d.q), d.q.key, "nx", "made", 100))
                ELSE [d EXCEPT !.pc = "reply"])
       /\ UNCHANGED <<cache53, asked>>

MaxUDPSize == 512
MaxDNS0Size == 4094

Cut_Unmarked(size, msgSize) ==      \* mutant: marked only above the largest size
    IF size > MaxUDPSize /\ (size > msgSize \/ size > MaxDNS0Size)
    THEN [size |-> IF msgSize <= MaxUDPSize THEN MaxUDPSize ELSE IF size > msgSize THEN msgSize ELSE size,
          tc |-> size > MaxDNS0Size]
    ELSE [size |-> size, tc |-> FALSE]

\* Cut(rsize, msgSize): what a UDP client is sent, and whether it is marked.
Cut(size, msgSize) ==
    IF size > MaxUDPSize /\ (size > msgSize \/ size > MaxDNS0Size)
    THEN [size |-> IF msgSize <= MaxUDPSize THEN MaxUDPSize ELSE IF size > msgSize THEN msgSize ELSE size, tc |-> TRUE]
    ELSE [size |-> size, tc |-> FALSE]

\* The reply is written; an error or no answer is a SERVFAIL.
Reply(c) ==
    LET j == job[c]
        m == IF j.err \/ ~j.n THEN Msg(QueryID(j.q), j.q.key, "servfail", "made", 100) ELSE j.buf
        cut == IF j.tcp THEN [size |-> m.size, tc |-> FALSE] ELSE Cut(m.size, j.q.msgSize)
    IN /\ j.pc = "reply"
       /\ Go(c, [j EXCEPT !.pc = "done", !.buf = m, !.out = [m EXCEPT !.size = cut.size], !.tc = cut.tc, !.replies = @ + 1])
       /\ UNCHANGED <<cache53, asked>>

------------------------------------------------------------------------------

PathInit ==
    /\ job = [c \in Jobs |-> IdleJob]
    /\ cache53 = [k \in Keys |-> NoEntry]
    /\ asked = 0

PathNext ==
    \/ \E c \in Jobs :
          \/ Receive(c) \/ Local(c) \/ ByDoH(c) \/ By53(c) \/ Dial(c) \/ ReadFails(c) \/ ReadOther(c)
          \/ ReadAnswer(c) \/ Discover(c) \/ Reply(c)
    \/ \E k \in Keys : Expires(k)

PathSpec == PathInit /\ [][PathNext]_pvars

------------------------------------------------------------------------------
(* Properties.                                                              *)

Done(c) == job[c].pc = "done"

\* The identifier a client is answered with: the one it wrote; a query that could not be
\* parsed has none for what this host makes (a SERVFAIL) or keeps in a cache.
OwnID(q, src) == IF src \in {"made", "cache"} THEN QueryID(q) ELSE q.id

\* A client is answered once, with its own identifier and about what it asked, never
\* with an answer that has outlived its TTL (dns53.go, udp.go, tcp.go). Two exceptions.
\* A query that could not be parsed is given a SERVFAIL, or an answer of a cache, with
\* the identifier 0 (replyRCode, AdjustedResponse); an answer of upstream has its own.
\* A denial of upstream whose buffer was written over by records of discovery that
\* cannot be packed (hostsResolve) has neither.
AnswerOwn ==
    \A c \in Jobs : Done(c) =>
        /\ job[c].replies = 1
        /\ ~job[c].spoiled => /\ job[c].out.id = OwnID(job[c].q, job[c].out.src)
                              /\ job[c].out.about = job[c].q.key
        /\ job[c].out.src \notin {"stale", "short"}
        /\ job[c].out.src = "zeroed" => job[c].q.disc = "bad"
        /\ job[c].q.ptr => job[c].out.src # "cache"

\* A name this host knows is answered by it: upstream is not asked for what the local
\* names tell, nor for a private address when those are denied; a name discovery knows is
\* never denied, and fails only when what the buffer holds hides that upstream has failed
\* (Proxy.Resolve).
KnownServed ==
    \A c \in Jobs : LET j == job[c] IN
        /\ (j.q.local \in {"name", "records"} \/ IsPrivate(j)) => ~j.left
        /\ (Done(c) /\ j.q.local \in {"name", "records"}) => j.out.src = "local"
        /\ (Done(c) /\ j.q.rd /\ j.q.disc \in {"name", "records"}) =>
               /\ j.out.rcode # "nx"
               /\ j.out.rcode = "servfail" => j.stale \/ j.bad >= MaxBadReads

\* No datagram is larger than its client takes, one that was cut is marked so that the
\* client asks again over TCP, and one that fits is sent whole; over TCP nothing is cut
\* (udp.go). A whole answer of more than 4094 bytes is marked as well.
CutMarked ==
    \A c \in Jobs : LET j == job[c] IN Done(c) =>
        /\ j.tcp => ~j.tc /\ j.out.size = j.buf.size
        /\ ~j.tcp => /\ j.out.size <= MaxUDPSize \/ j.out.size <= j.q.msgSize
                     /\ j.out.size < j.buf.size => j.tc
                     /\ (j.buf.size <= MaxUDPSize \/ j.buf.size <= j.q.msgSize) => j.out.size = j.buf.size
                     /\ j.tc => j.out.size < j.buf.size \/ j.buf.size > MaxDNS0Size

PathTypeOK ==
    /\ asked \in 0..MaxQueries
    /\ \A c \in Jobs : job[c].pc \in {"idle", "loops", "local", "upstream", "dial", "read", "discover", "reply", "done"}
                       /\ job[c].bad \in 0..MaxBadReads /\ job[c].replies \in 0..1
    /\ \A k \in Keys : cache53[k].fresh => cache53[k].msg.about = k /\ cache53[k].msg.src = "upstream"
==============================================================================
