---------------------------- MODULE AnswersProofs ----------------------------
(***************************************************************************)
(* What a client is answered, for any number of goroutines, queries and    *)
(* sizes: an invariant of each goroutine on its own, and of the cache they *)
(* share.  What becomes of the connections of one endpoint, for any        *)
(* records, hints and addresses: an invariant of each racing goroutine.    *)
(* Which forwarder or profile a query is given, for any flags and any      *)
(* stored settings: an invariant of the lists the flags build.  How fresh  *)
(* a table of hardware addresses is, for any lookups and reads.  Last, the *)
(* types of all that goes into an answer, messages included.               *)
(***************************************************************************)
EXTENDS MCAnswers, MessageProofs, FiniteSetTheorems

Queries == Asked \cup {Unparsed(id) : id \in Nat}
Msgs == [id : Nat, about : Keys \cup {"other"}, rcode : Codes \cup {"none", "servfail"},
         src : {"none", "zeroed", "local", "upstream", "stale", "cache", "short", "discovery", "made"},
         size : Nat]
JobRecs ==
    [pc : {"idle", "loops", "local", "upstream", "dial", "read", "discover", "reply", "done"},
     q : Queries, tcp : BOOLEAN, n : BOOLEAN, buf : Msgs, err : BOOLEAN, bad : 0 .. MaxBadReads,
     left : BOOLEAN, spoiled : BOOLEAN, stale : BOOLEAN, out : Msgs, tc : BOOLEAN, replies : 0 .. 1]

Knows(knowledge) == knowledge \in {"name", "records"}

(* A query that may be sent upstream.                                       *)
Sendable(j) == ~Knows(j.q.local) /\ ~IsPrivate(j)

(* A message that may be sent to the client of j.                           *)
Good(j, m) ==
    /\ ~j.spoiled => m.id = OwnID(j.q, m.src) /\ m.about = j.q.key
    /\ m.src \notin {"stale", "short"}
    /\ m.src = "zeroed" => j.q.disc = "bad"
    /\ j.q.ptr => m.src # "cache"
    /\ m.rcode \in Codes

Excused(j) == j.stale \/ j.bad >= MaxBadReads

OnTheWay(j) ==
    /\ j.pc \in {"local", "upstream", "dial", "read", "discover", "reply"} => j.replies = 0
    /\ j.pc \in {"local", "upstream", "dial"} => j.bad = 0 /\ ~j.err
    /\ j.pc \in {"local", "upstream"} => ~j.n
    /\ j.pc = "local" => ~j.left
    /\ j.pc = "dial" => (j.n => j.stale)
    /\ j.pc = "read" => j.bad < MaxBadReads
    /\ j.pc \in {"upstream", "dial", "read"} \/ j.left => Sendable(j)
    /\ j.pc = "discover" =>
         /\ ~Knows(j.q.local)
         /\ IsPrivate(j) => ~j.n
         /\ j.n /\ ~j.err => Good(j, j.buf)
         /\ j.n /\ j.err => Excused(j)
    /\ j.pc = "reply" =>
         /\ Knows(j.q.local) => j.n /\ ~j.err /\ j.buf.src = "local" /\ j.buf.rcode = "ok"
         /\ j.n /\ ~j.err => Good(j, j.buf)
         /\ j.q.rd /\ Knows(j.q.disc) =>
              /\ j.n /\ ~j.err => j.buf.rcode # "nx"
              /\ ~j.n \/ j.err => Excused(j)

(* What the properties say of a goroutine that has answered.                *)
Answered(j) ==
    j.pc = "done" =>
      /\ j.replies = 1
      /\ ~j.spoiled => j.out.id = OwnID(j.q, j.out.src) /\ j.out.about = j.q.key
      /\ j.out.src \notin {"stale", "short"}
      /\ j.out.src = "zeroed" => j.q.disc = "bad"
      /\ j.q.ptr => j.out.src # "cache"
      /\ Knows(j.q.local) => j.out.src = "local"
      /\ j.q.rd /\ Knows(j.q.disc) =>
           /\ j.out.rcode # "nx"
           /\ j.out.rcode = "servfail" => Excused(j)

Sized(j) ==
    j.pc = "done" =>
      /\ j.tcp => ~j.tc /\ j.out.size = j.buf.size
      /\ ~j.tcp =>
           /\ j.out.size <= MaxUDPSize \/ j.out.size <= j.q.msgSize
           /\ j.out.size < j.buf.size => j.tc
           /\ (j.buf.size <= MaxUDPSize \/ j.buf.size <= j.q.msgSize) => j.out.size = j.buf.size
           /\ j.tc => j.out.size < j.buf.size \/ j.buf.size > MaxDNS0Size

JobOK(j) == j \in JobRecs /\ OnTheWay(j) /\ Answered(j) /\ Sized(j)

Stored(k, e) ==
    /\ e \in [msg : Msgs, fresh : BOOLEAN]
    /\ e # NoEntry => e.msg.about = k /\ e.msg.src = "upstream" /\ e.msg.rcode \in Codes

PathInv ==
    /\ job = [c \in Jobs |-> job[c]] /\ \A c \in Jobs : JobOK(job[c])
    /\ cache53 = [k \in Keys |-> cache53[k]] /\ \A k \in Keys : Stored(k, cache53[k])
    /\ asked \in 0 .. MaxQueries
-----------------------------------------------------------------------------
LEMMA Constants ==
    /\ BogusPriv \in BOOLEAN /\ MaxBadReads \in Nat \ {0} /\ MaxQueries \in Nat /\ Sizes \subseteq Nat
    /\ \A q \in Queries :
         q.key \in Keys /\ q.id \in Nat /\ q.msgSize \in Nat /\ q.local \in Knowledge /\ q.disc \in Knowledge
<1>1. ASSUME NEW q \in Asked
      PROVE  q.key \in Keys /\ q.id \in Nat /\ q.msgSize \in Nat /\ q.local \in Knowledge /\ q.disc \in Knowledge
  BY AnswerAssumption DEF AnswerAssumption, Keys
<1>2. ASSUME NEW id \in Nat, NEW q, q = Unparsed(id)
      PROVE  q.key \in Keys /\ q.id \in Nat /\ q.msgSize \in Nat /\ q.local \in Knowledge /\ q.disc \in Knowledge
  BY <1>2 DEF Unparsed, Keys, Knowledge
<1> QED
  BY <1>1, <1>2, AnswerAssumption DEF AnswerAssumption, Queries

LEMMA Idle == JobOK(IdleJob) /\ IdleJob \in JobRecs
<1>1. NoMsg \in Msgs /\ Unparsed(0) \in Queries
  BY DEF NoMsg, Msg, Msgs, Keys, Queries
<1>2. IdleJob \in JobRecs
  BY <1>1, Constants DEF IdleJob, JobRecs
<1> QED
  BY <1>2 DEF IdleJob, JobOK, OnTheWay, Answered, Sized

(* A step of one goroutine.                                                 *)
LEMMA Steps ==
    ASSUME PathInv, NEW c \in Jobs, NEW j, Go(c, j), JobOK(j), UNCHANGED <<cache53, asked>>
    PROVE  PathInv'
<1>1. ASSUME NEW d \in Jobs PROVE job'[d] = IF d = c THEN j ELSE job[d]
  BY DEF Go, PathInv
<1>2. job' = [d \in Jobs |-> job'[d]]
  BY DEF Go, PathInv
<1>3. \A d \in Jobs : JobOK(job'[d])
  BY <1>1 DEF PathInv
<1> QED
  BY <1>2, <1>3 DEF PathInv, JobOK, JobRecs, OnTheWay, Answered, Sized, Stored, Sendable, Good, IsPrivate, Excused

LEMMA OnReceive == ASSUME PathInv, NEW c \in Jobs, Receive(c) PROVE PathInv'
<1>1. PICK q \in Asked, tcp \in BOOLEAN :
        Go(c, [IdleJob EXCEPT !.pc = IF q.parsed = "loops" THEN "loops" ELSE "local",
                              !.q = IF q.parsed = "no" THEN Unparsed(q.id) ELSE q,
                              !.tcp = tcp])
  BY DEF Receive
<1>2. PICK j : j = [IdleJob EXCEPT !.pc = IF q.parsed = "loops" THEN "loops" ELSE "local",
                                   !.q = IF q.parsed = "no" THEN Unparsed(q.id) ELSE q,
                                   !.tcp = tcp]
  OBVIOUS
<1>0. (IF q.parsed = "no" THEN Unparsed(q.id) ELSE q) \in Queries
  BY AnswerAssumption DEF AnswerAssumption, Queries
<1>3. /\ j.pc \in {"loops", "local"} /\ j.q \in Queries /\ ~j.n /\ ~j.err /\ ~j.left /\ j.bad = 0 /\ j.replies = 0
      /\ j \in JobRecs
  BY <1>0, <1>2, Idle DEF IdleJob, JobRecs
<1>4. JobOK(j)
  BY <1>3 DEF JobOK, OnTheWay, Answered, Sized
<1>5. job' = [d \in Jobs |-> job'[d]] /\ \A d \in Jobs : JobOK(job'[d])
  BY <1>1, <1>2, <1>4 DEF Go, PathInv
<1>6. asked' \in 0 .. MaxQueries /\ UNCHANGED cache53
  BY Constants DEF Receive, PathInv
<1> QED
  BY <1>5, <1>6 DEF PathInv, JobOK, JobRecs, OnTheWay, Answered, Sized, Stored, Sendable, Good, IsPrivate, Excused

LEMMA Resolved ==
    ASSUME NEW j \in JobRecs, NEW knows \in Knowledge, NEW src \in {"local", "discovery"}
    PROVE  /\ knows = "unknown" => HostsResolve(j, knows, src) = j
           /\ knows = "bad" => HostsResolve(j, knows, src) =
                [j EXCEPT !.buf = Msg(0, "none", "ok", "zeroed", j.buf.size), !.spoiled = TRUE]
           /\ Knows(knows) => HostsResolve(j, knows, src) =
                Made(j, Msg(j.q.id, j.q.key, "ok", src, 100))
BY DEF HostsResolve, Knowledge, Knows

LEMMA Built ==
    ASSUME NEW j \in JobRecs
    PROVE  /\ j.q \in Queries /\ j.q.id \in Nat /\ j.q.key \in Keys /\ j.buf \in Msgs /\ j.buf.size \in Nat
           /\ j.bad \in Nat
           /\ Msg(0, "none", "ok", "zeroed", j.buf.size) \in Msgs
           /\ \A src \in {"local", "discovery", "made"}, rcode \in {"ok", "nx", "servfail"} :
                /\ Msg(j.q.id, j.q.key, rcode, src, 100) \in Msgs
                /\ Msg(QueryID(j.q), j.q.key, rcode, src, 100) \in Msgs
           /\ \A code \in Codes, size \in Nat : Answer(j, code, size) \in Msgs
<1>1. j.q \in Queries /\ j.buf \in Msgs /\ j.bad \in Nat
  BY Constants DEF JobRecs
<1>2. j.q.id \in Nat /\ j.q.key \in Keys /\ j.buf.size \in Nat
  BY <1>1, Constants DEF Msgs
<1>3. "none" \in Keys
  BY DEF Keys
<1> QED
  BY <1>1, <1>2, <1>3 DEF Msg, Msgs, Answer, Codes, QueryID

(* A reply this host makes.                                                 *)
LEMMA MadeOK ==
    ASSUME NEW j \in JobRecs, j.replies = 0, j.left => Sendable(j),
           NEW m, m \in Msgs, m.id = OwnID(j.q, m.src), m.about = j.q.key,
           m.src \in {"local", "discovery", "made"}, m.rcode \in Codes,
           Knows(j.q.local) => m.src = "local" /\ m.rcode = "ok",
           (j.q.rd /\ Knows(j.q.disc)) => m.rcode # "nx", NEW r, r = Made(j, m)
    PROVE  JobOK(r) /\ r.pc = "reply"
<1>1. /\ r \in JobRecs /\ r.pc = "reply" /\ r.n = TRUE /\ r.err = FALSE /\ r.buf = m
      /\ r.q = j.q /\ r.replies = j.replies /\ r.left = j.left
  BY DEF JobRecs, Made
<1>2. Good(r, m)
  BY <1>1 DEF Good
<1> QED
  BY <1>1, <1>2 DEF JobOK, OnTheWay, Answered, Sized, Sendable, IsPrivate

LEMMA OnLocal == ASSUME PathInv, NEW c \in Jobs, Local(c) PROVE PathInv'
<1> DEFINE j == job[c]
           h == HostsResolve(j, j.q.local, "local")
           r == IF h.pc = "reply" THEN h ELSE [h EXCEPT !.pc = IF IsPrivate(h) THEN "discover" ELSE "upstream"]
<1>1. j \in JobRecs /\ OnTheWay(j) /\ j.pc = "local" /\ j.q.local \in Knowledge
  BY Built, Constants DEF PathInv, JobOK, Local
<1>2. JobOK(r)
  <2>1. CASE j.q.local = "unknown"
    <3>1. r = [j EXCEPT !.pc = IF IsPrivate(j) THEN "discover" ELSE "upstream"]
      BY <1>1, <2>1, Resolved
    <3> QED
      BY <1>1, <2>1, <3>1 DEF JobOK, JobRecs, OnTheWay, Answered, Sized, Sendable, IsPrivate, Knows
  <2>2. CASE j.q.local = "bad"
    <3> PICK m \in Msgs : m = Msg(0, "none", "ok", "zeroed", j.buf.size)
      BY <1>1, Built
    <3>1. h = [j EXCEPT !.buf = m, !.spoiled = TRUE]
      BY <1>1, <2>2, Resolved
    <3>2. /\ h \in JobRecs /\ h.pc = "local" /\ ~h.n /\ ~h.err /\ ~h.left /\ h.bad = 0 /\ h.replies = 0
          /\ h.q.local = "bad"
      BY <1>1, <2>2, <3>1 DEF JobRecs, OnTheWay
    <3> HIDE DEF h
    <3>3. r = [h EXCEPT !.pc = IF IsPrivate(h) THEN "discover" ELSE "upstream"]
      BY <3>2
    <3> QED
      BY <3>2, <3>3 DEF JobOK, JobRecs, OnTheWay, Answered, Sized, Sendable, IsPrivate, Knows
  <2>3. CASE Knows(j.q.local)
    <3> PICK m \in Msgs : m = Msg(j.q.id, j.q.key, "ok", "local", 100)
      BY <1>1, Built
    <3>1. m.id = OwnID(j.q, m.src) /\ m.about = j.q.key /\ m.rcode = "ok" /\ m.src = "local"
      BY DEF Msg, OwnID
    <3>2. h = Made(j, m)
      BY <1>1, <2>3, Resolved
    <3>3. j.replies = 0 /\ (j.left => Sendable(j))
      BY <1>1 DEF OnTheWay
    <3> HIDE DEF h, j
    <3>4. JobOK(h) /\ h.pc = "reply"
      BY <1>1, <3>1, <3>2, <3>3, MadeOK DEF Codes
    <3> QED
      BY <3>4
  <2> QED
    BY <1>1, <2>1, <2>2, <2>3 DEF Knowledge, Knows
<1>3. Go(c, r) /\ UNCHANGED <<cache53, asked>>
  BY DEF Local, IsPrivate
<1> QED
  BY <1>2, <1>3, Steps

(* The end of the upstream's part.                                          *)
LEMMA AtDiscover ==
    ASSUME NEW r \in JobRecs, r.pc = "discover", r.replies = 0, Sendable(r),
           r.n /\ ~r.err => Good(r, r.buf), r.n /\ r.err => Excused(r)
    PROVE  JobOK(r)
BY DEF JobOK, OnTheWay, Answered, Sized, Sendable

LEMMA JobFields ==
    ASSUME NEW j \in JobRecs
    PROVE  /\ j.pc \in {"idle", "loops", "local", "upstream", "dial", "read", "discover", "reply", "done"}
           /\ j.q \in Queries /\ j.tcp \in BOOLEAN /\ j.n \in BOOLEAN /\ j.buf \in Msgs /\ j.err \in BOOLEAN
           /\ j.bad \in 0 .. MaxBadReads /\ j.left \in BOOLEAN /\ j.spoiled \in BOOLEAN /\ j.stale \in BOOLEAN
           /\ j.out \in Msgs /\ j.tc \in BOOLEAN /\ j.replies \in 0 .. 1
BY DEF JobRecs

(* The record of a goroutine the upstream's part has ended for, and what is *)
(* noted in it of where the answer came from.                               *)
LEMMA UpstreamRecord ==
    ASSUME NEW j \in JobRecs, NEW n \in BOOLEAN, NEW m \in Msgs, NEW err \in BOOLEAN
    PROVE  Upstream(j, n, m, err) \in JobRecs
BY Zenon DEF Upstream, JobRecs

LEMMA Noted ==
    ASSUME NEW u \in JobRecs, NEW stale \in BOOLEAN
    PROVE  /\ [u EXCEPT !.stale = stale, !.left = TRUE] \in JobRecs
           /\ [u EXCEPT !.left = TRUE] \in JobRecs /\ [u EXCEPT !.stale = stale] \in JobRecs
<1>1. [u EXCEPT !.stale = stale, !.left = TRUE] \in JobRecs
  BY Zenon DEF JobRecs
<1>2. [u EXCEPT !.left = TRUE] \in JobRecs
  BY Zenon DEF JobRecs
<1>3. [u EXCEPT !.stale = stale] \in JobRecs
  BY Zenon DEF JobRecs
<1> QED
  BY <1>1, <1>2, <1>3

LEMMA BadRecord == ASSUME NEW u \in JobRecs, NEW b \in 0 .. MaxBadReads PROVE [u EXCEPT !.bad = b] \in JobRecs
BY Zenon DEF JobRecs

LEMMA AnswerIsGood ==
    ASSUME NEW j \in JobRecs, NEW r \in JobRecs, r.q = j.q, NEW code \in Codes, NEW size \in Nat
    PROVE  Good(r, Answer(j, code, size)) /\ Answer(j, code, size) \in Msgs
<1>1. Answer(j, code, size) \in Msgs
  BY Built
<1> QED
  BY <1>1 DEF Good, Answer, Msg, OwnID

LEMMA OnDoH == ASSUME PathInv, NEW c \in Jobs, ByDoH(c) PROVE PathInv'
<1> PICK j : j = job[c]
  OBVIOUS
<1>1. j \in JobRecs /\ j.pc = "upstream" /\ j.replies = 0 /\ Sendable(j) /\ j.buf \in Msgs
  BY Built DEF PathInv, JobOK, OnTheWay, ByDoH
<1>2. ASSUME NEW r, r = Upstream(j, FALSE, j.buf, TRUE) PROVE JobOK(r)
  <2>0. r \in JobRecs
    BY <1>1, <1>2, UpstreamRecord, Zenon
  <2>1. r.pc = "discover" /\ r.n = FALSE /\ r.q = j.q /\ r.replies = 0
    BY <1>1, <1>2, Zenon DEF Upstream, JobRecs
  <2> QED
    BY <1>1, <2>0, <2>1, AtDiscover DEF Sendable, IsPrivate
<1>3. ASSUME NEW code \in Codes, NEW m, m = [Answer(j, code, 100) EXCEPT !.src = "stale"],
             NEW r, r = [Upstream(j, TRUE, m, TRUE) EXCEPT !.stale = TRUE, !.left = TRUE]
      PROVE  JobOK(r)
  <2>1. m \in Msgs
    BY <1>1, <1>3, AnswerIsGood DEF Msgs
  <2> PICK u : u = Upstream(j, TRUE, m, TRUE)
    OBVIOUS
  <2>0. u \in JobRecs
    BY <1>1, <2>1, UpstreamRecord, Zenon
  <2>2. u.pc = "discover" /\ u.q = j.q /\ u.replies = 0 /\ u.err = TRUE
    BY <1>1, <2>1, Zenon DEF Upstream, JobRecs
  <2>3. r = [u EXCEPT !.stale = TRUE, !.left = TRUE] /\ r \in JobRecs
    BY <1>3, <2>0, Noted, Zenon
  <2>4. r.pc = u.pc /\ r.q = u.q /\ r.replies = u.replies /\ r.err = u.err /\ r.stale = TRUE
    BY <2>0, <2>3 DEF JobRecs
  <2> QED
    BY <1>1, <2>2, <2>3, <2>4, AtDiscover DEF Sendable, IsPrivate, Excused
<1>4. ASSUME NEW code \in Codes, NEW size \in Sizes, NEW r,
             r = [Upstream(j, TRUE, Answer(j, code, size), FALSE) EXCEPT !.left = TRUE]
      PROVE  JobOK(r)
  <2> PICK m : m = Answer(j, code, size)
    OBVIOUS
  <2>1. m \in Msgs /\ size \in Nat
    BY <1>1, AnswerIsGood, Constants
  <2> PICK u : u = Upstream(j, TRUE, m, FALSE)
    OBVIOUS
  <2>0. u \in JobRecs
    BY <1>1, <2>1, UpstreamRecord, Zenon
  <2>2. u.pc = "discover" /\ u.q = j.q /\ u.replies = 0 /\ u.n = TRUE /\ u.err = FALSE /\ u.buf = m
    BY <1>1, <2>1, Zenon DEF Upstream, JobRecs
  <2>3. /\ r \in JobRecs /\ r.pc = "discover" /\ r.q = j.q /\ r.replies = 0 /\ r.n = TRUE /\ r.err = FALSE
        /\ r.buf = m
    <3>1. r = [u EXCEPT !.left = TRUE] /\ r \in JobRecs
      BY <1>4, <2>0, Noted, Zenon
    <3>2. r.pc = u.pc /\ r.q = u.q /\ r.replies = u.replies /\ r.n = u.n /\ r.err = u.err /\ r.buf = u.buf
      BY <2>0, <3>1 DEF JobRecs
    <3> QED
      BY <2>2, <3>1, <3>2
  <2>4. Good(r, m)
    BY <1>1, <2>1, <2>3, AnswerIsGood
  <2> QED
    BY <1>1, <2>3, <2>4, AtDiscover DEF Sendable, IsPrivate
<1>6. ASSUME ~j.q.ptr, NEW code \in Codes, NEW size \in Sizes,
             NEW m, m = [Own(Answer(j, code, size), j) EXCEPT !.src = "cache"],
             NEW r, r = Upstream(j, TRUE, m, FALSE)
      PROVE  JobOK(r)
  <2>1. size \in Nat /\ j.q.id \in Nat /\ j.q.key \in Keys
    BY <1>1, Built, Constants
  <2>2. m \in Msgs /\ m.id = QueryID(j.q) /\ m.about = j.q.key /\ m.rcode \in Codes /\ m.src = "cache"
    BY <1>6, <2>1 DEF Own, Answer, Msg, Msgs, QueryID
  <2>3. /\ r \in JobRecs /\ r.pc = "discover" /\ r.n = TRUE /\ r.err = FALSE /\ r.buf = m
        /\ r.q = j.q /\ r.replies = 0
    BY <1>1, <1>6, <2>2, Zenon DEF Upstream, JobRecs
  <2>4. Good(r, m)
    BY <1>6, <2>2, <2>3 DEF Good, OwnID
  <2> QED
    BY <1>1, <2>3, <2>4, AtDiscover DEF Sendable, IsPrivate
<1>5. \E r : Go(c, r) /\ JobOK(r)
  BY <1>2, <1>3, <1>4, <1>6 DEF ByDoH
<1> QED
  BY <1>5, Steps DEF ByDoH

LEMMA OnReadFails == ASSUME PathInv, NEW c \in Jobs, ReadFails(c) PROVE PathInv'
<1> PICK j : j = job[c]
  OBVIOUS
<1>1. j \in JobRecs /\ j.pc = "read" /\ j.replies = 0 /\ Sendable(j) /\ j.buf \in Msgs
  BY Built DEF PathInv, JobOK, OnTheWay, ReadFails
<1> PICK r : r = Upstream(j, FALSE, j.buf, TRUE)
  OBVIOUS
<1>2. r \in JobRecs
  BY <1>1, UpstreamRecord, Zenon
<1>3. r.pc = "discover" /\ r.n = FALSE /\ r.q = j.q /\ r.replies = 0
  BY <1>1, Zenon DEF Upstream, JobRecs
<1>4. JobOK(r)
  BY <1>1, <1>2, <1>3, AtDiscover DEF Sendable, IsPrivate
<1> QED
  BY <1>4, Steps DEF ReadFails

LEMMA OnDial == ASSUME PathInv, NEW c \in Jobs, Dial(c) PROVE PathInv'
<1> PICK j : j = job[c]
  OBVIOUS
<1>1. /\ j \in JobRecs /\ j.pc = "dial" /\ j.replies = 0 /\ Sendable(j) /\ j.buf \in Msgs /\ j.n \in BOOLEAN
      /\ j.bad = 0 /\ (j.n => j.stale)
  BY Built DEF PathInv, JobOK, OnTheWay, Dial, JobRecs
<1>2. ASSUME NEW r, r = [j EXCEPT !.pc = "read", !.left = TRUE] PROVE JobOK(r)
  <2>1. r \in JobRecs /\ r.pc = "read" /\ r.replies = 0 /\ r.q = j.q /\ r.bad = 0
    BY <1>1, <1>2 DEF JobRecs
  <2> QED
    BY <1>1, <2>1, Constants DEF JobOK, OnTheWay, Answered, Sized, Sendable, IsPrivate
<1>3. ASSUME NEW r, r = Upstream(j, j.n, j.buf, TRUE) PROVE JobOK(r)
  <2>0. r \in JobRecs
    BY <1>1, <1>3, UpstreamRecord, Zenon
  <2>1. r.pc = "discover" /\ r.n = j.n /\ r.err = TRUE /\ r.stale = j.stale /\ r.q = j.q /\ r.replies = 0
    BY <1>1, <1>3, Zenon DEF Upstream, JobRecs
  <2> QED
    BY <1>1, <2>0, <2>1, AtDiscover DEF Sendable, IsPrivate, Excused
<1>4. \E r : Go(c, r) /\ JobOK(r)
  BY <1>2, <1>3 DEF Dial
<1> QED
  BY <1>4, Steps DEF Dial

LEMMA OnPlainDNS == ASSUME PathInv, NEW c \in Jobs, By53(c) PROVE PathInv'
<1> PICK j : j = job[c]
  OBVIOUS
<1> PICK e : e = cache53[j.q.key]
  OBVIOUS
<1>1. /\ j \in JobRecs /\ j.pc = "upstream" /\ j.replies = 0 /\ Sendable(j) /\ j.buf \in Msgs
      /\ j.bad = 0 /\ j.err = FALSE /\ j.n = FALSE
  BY Built DEF PathInv, JobOK, OnTheWay, By53, JobRecs
<1>2. Stored(j.q.key, e) /\ QueryID(j.q) \in Nat
  BY <1>1, Built DEF PathInv, QueryID
<1>3. ASSUME NEW r, r = [j EXCEPT !.pc = "dial"] PROVE JobOK(r)
  <2>1. /\ r \in JobRecs /\ r.pc = "dial" /\ r.replies = 0 /\ r.q = j.q /\ r.bad = 0 /\ r.err = FALSE
        /\ r.n = FALSE
    BY <1>1, <1>3 DEF JobRecs
  <2> QED
    BY <1>1, <2>1 DEF JobOK, OnTheWay, Answered, Sized, Sendable, IsPrivate
<1>4. ASSUME NEW m, m = [Own(e.msg, j) EXCEPT !.src = "stale"],
             NEW r, r = [j EXCEPT !.pc = "dial", !.n = TRUE, !.buf = m, !.stale = TRUE]
      PROVE  JobOK(r)
  <2>1. m \in Msgs
    BY <1>2, <1>4 DEF Stored, Msgs, Own
  <2>2. /\ r \in JobRecs /\ r.pc = "dial" /\ r.replies = 0 /\ r.q = j.q /\ r.bad = 0 /\ r.err = FALSE
        /\ r.stale = TRUE
    BY <1>1, <1>4, <2>1 DEF JobRecs
  <2> QED
    BY <1>1, <2>2 DEF JobOK, OnTheWay, Answered, Sized, Sendable, IsPrivate
<1>5. ASSUME e # NoEntry, ~j.q.ptr, NEW m, m = [Own(e.msg, j) EXCEPT !.src = "cache"],
             NEW r, r = Upstream(j, TRUE, m, FALSE)
      PROVE  JobOK(r)
  <2>1. /\ m \in Msgs /\ m.id = QueryID(j.q) /\ m.about = j.q.key /\ m.rcode \in Codes /\ m.src = "cache"
    BY <1>2, <1>5 DEF Stored, Msgs, Own
  <2>2. /\ r \in JobRecs /\ r.pc = "discover" /\ r.n = TRUE /\ r.err = FALSE /\ r.buf = m
        /\ r.q = j.q /\ r.replies = 0
    BY <1>1, <1>5, <2>1, Zenon DEF Upstream, JobRecs
  <2>3. Good(r, m)
    <3>1. OwnID(r.q, m.src) = m.id
      BY <2>1, <2>2 DEF OwnID
    <3>2. r.q.ptr = FALSE \/ ~r.q.ptr
      BY <1>5, <2>2
    <3> QED
      BY <2>1, <2>2, <3>1, <3>2 DEF Good
  <2> QED
    BY <1>1, <2>2, <2>3, AtDiscover DEF Sendable, IsPrivate
<1>6. \E r : Go(c, r) /\ JobOK(r)
  <2> DEFINE own == Own(e.msg, j)
             fresh == Upstream(j, TRUE, [own EXCEPT !.src = "cache"], FALSE)
             stale == [j EXCEPT !.pc = "dial", !.n = TRUE, !.buf = [own EXCEPT !.src = "stale"], !.stale = TRUE]
             none == [j EXCEPT !.pc = "dial"]
             hit == ~j.q.ptr /\ e # NoEntry
  <2>1. Go(c, IF hit /\ e.fresh THEN fresh ELSE IF hit THEN stale ELSE none)
    BY DEF By53
  <2>2. JobOK(none) /\ JobOK(stale) /\ (hit => JobOK(fresh))
    BY <1>3, <1>4, <1>5
  <2> HIDE DEF fresh, stale, none
  <2> QED
    BY <2>1, <2>2
<1> QED
  BY <1>6, Steps DEF By53

LEMMA OnReadOther == ASSUME PathInv, NEW c \in Jobs, ReadOther(c) PROVE PathInv'
<1> PICK j : j = job[c]
  OBVIOUS
<1>1. /\ j \in JobRecs /\ j.pc = "read" /\ j.replies = 0 /\ Sendable(j) /\ j.buf \in Msgs
      /\ j.bad \in Nat /\ j.bad < MaxBadReads /\ j.q.id \in Nat
  BY Built DEF PathInv, JobOK, OnTheWay, ReadOther
<1>2. PICK n \in BOOLEAN, m \in {Short(j)} \cup Others(j) :
        Go(c, IF j.bad + 1 >= MaxBadReads
              THEN [Upstream(j, n, m, TRUE) EXCEPT !.bad = @ + 1, !.stale = FALSE]
              ELSE [j EXCEPT !.bad = @ + 1, !.buf = m])
  BY DEF ReadOther
<1>3. m \in Msgs
  <2>1. Short(j) \in Msgs
    BY <1>1 DEF Msgs, Short
  <2>2. ASSUME NEW code \in Codes PROVE Msg(j.q.id + 1, "other", code, "upstream", 100) \in Msgs
    BY <1>1 DEF Msg, Msgs
  <2>3. ASSUME NEW code \in Codes PROVE Answer(j, code, 100) \in Msgs
    BY <1>1, Built
  <2>4. \A o \in Others(j) : o \in Msgs
    BY <2>2, <2>3 DEF Others
  <2> QED
    BY <1>2, <2>1, <2>4
<1>4. j.bad + 1 \in 0 .. MaxBadReads
  BY <1>1, Constants
<1>5. CASE j.bad + 1 >= MaxBadReads
  <2> PICK u : u = Upstream(j, n, m, TRUE)
    OBVIOUS
  <2> PICK r : r = [u EXCEPT !.bad = @ + 1, !.stale = FALSE]
    OBVIOUS
  <2>4. u \in JobRecs
    BY <1>1, <1>3, UpstreamRecord, Zenon
  <2>5. u.pc = "discover" /\ u.err = TRUE /\ u.q = j.q /\ u.replies = j.replies /\ u.bad = j.bad
    BY <1>1, Zenon DEF Upstream, JobRecs
  <2>6. r.pc = u.pc /\ r.err = u.err /\ r.q = u.q /\ r.replies = u.replies /\ r.bad = j.bad + 1
    BY <2>4, <2>5 DEF JobRecs
  <2>7. r \in JobRecs
    <3> PICK b \in 0 .. MaxBadReads : b = u.bad + 1
      BY <1>4, <2>5
    <3>1. r = [u EXCEPT !.bad = b, !.stale = FALSE]
      OBVIOUS
    <3>2. [u EXCEPT !.bad = b, !.stale = FALSE] \in JobRecs
      <4>1. [u EXCEPT !.bad = b] \in JobRecs
        BY <2>4, BadRecord, Zenon
      <4>2. [[u EXCEPT !.bad = b] EXCEPT !.stale = FALSE] \in JobRecs
        BY <4>1, Noted, Zenon
      <4> QED
        BY <4>2
    <3> QED
      BY <3>1, <3>2, Zenon
  <2>1. /\ r \in JobRecs /\ r.pc = "discover" /\ r.err = TRUE /\ r.q = j.q /\ r.replies = 0
        /\ r.bad = j.bad + 1
    BY <1>1, <2>5, <2>6, <2>7
  <2>2. JobOK(r)
    <3>1. Sendable(r)
      BY <1>1, <2>1 DEF Sendable, IsPrivate
    <3>2. Excused(r)
      BY <1>5, <2>1 DEF Excused
    <3> QED
      BY <2>1, <3>1, <3>2, AtDiscover
  <2>3. Go(c, r)
    BY <1>2, <1>5
  <2> QED
    BY <2>2, <2>3, Steps DEF ReadOther
<1>6. CASE ~(j.bad + 1 >= MaxBadReads)
  <2> PICK r : r = [j EXCEPT !.bad = @ + 1, !.buf = m]
    OBVIOUS
  <2>1. r \in JobRecs /\ r.pc = "read" /\ r.q = j.q /\ r.replies = 0 /\ r.bad = j.bad + 1
    BY <1>1, <1>3, <1>4 DEF JobRecs
  <2>2. r.bad < MaxBadReads
    BY <1>1, <1>6, <2>1, Constants
  <2>3. JobOK(r)
    BY <1>1, <2>1, <2>2 DEF JobOK, OnTheWay, Answered, Sized, Sendable, IsPrivate
  <2>4. Go(c, r)
    BY <1>2, <1>6
  <2> QED
    BY <2>3, <2>4, Steps DEF ReadOther
<1> QED
  BY <1>5, <1>6
LEMMA OnReadAnswer == ASSUME PathInv, NEW c \in Jobs, ReadAnswer(c) PROVE PathInv'
<1> PICK j : j = job[c]
  OBVIOUS
<1>1. /\ j \in JobRecs /\ j.pc = "read" /\ j.replies = 0 /\ Sendable(j) /\ j.q.key \in Keys
  BY Built DEF PathInv, JobOK, OnTheWay, ReadAnswer
<1>2. PICK code \in Codes, size \in Sizes :
        /\ Go(c, [Upstream(j, TRUE, Answer(j, code, size), FALSE) EXCEPT !.stale = FALSE])
        /\ cache53' = [cache53 EXCEPT ![j.q.key] = [msg |-> Answer(j, code, size), fresh |-> ~j.q.ptr]]
  BY DEF ReadAnswer
<1> PICK m : m = Answer(j, code, size)
  OBVIOUS
<1> PICK u : u = Upstream(j, TRUE, m, FALSE)
  OBVIOUS
<1> PICK r : r = [u EXCEPT !.stale = FALSE]
  OBVIOUS
<1> PICK fresh \in BOOLEAN : fresh = ~j.q.ptr
  OBVIOUS
<1>3. m \in Msgs /\ size \in Nat /\ m.about = j.q.key /\ m.src = "upstream" /\ m.rcode = code
  BY <1>1, AnswerIsGood, Constants DEF Answer, Msg
<1>4. /\ r \in JobRecs /\ r.pc = "discover" /\ r.q = j.q /\ r.replies = 0 /\ r.n = TRUE /\ r.err = FALSE
      /\ r.buf = m
  <2>0. u \in JobRecs
    BY <1>1, <1>3, UpstreamRecord, Zenon
  <2>1. u.pc = "discover" /\ u.q = j.q /\ u.replies = 0 /\ u.n = TRUE /\ u.err = FALSE /\ u.buf = m
    BY <1>1, <1>3, Zenon DEF Upstream, JobRecs
  <2> QED
    <3>1. r \in JobRecs
      BY <2>0, Noted, Zenon
    <3>2. r.pc = u.pc /\ r.q = u.q /\ r.replies = u.replies /\ r.n = u.n /\ r.err = u.err /\ r.buf = u.buf
      BY <2>0, Zenon DEF JobRecs
    <3> QED
      BY <2>1, <3>1, <3>2
<1>5. Good(r, m)
  BY <1>1, <1>3, <1>4, AnswerIsGood
<1>6. JobOK(r)
  BY <1>1, <1>4, <1>5, AtDiscover DEF Sendable, IsPrivate
<1>7. Stored(j.q.key, [msg |-> m, fresh |-> fresh])
  BY <1>3 DEF Stored
<1>8. job' = [job EXCEPT ![c] = r] /\ cache53' = [cache53 EXCEPT ![j.q.key] = [msg |-> m, fresh |-> fresh]]
  BY <1>2 DEF Go
<1>9. job' = [d \in Jobs |-> job'[d]] /\ \A d \in Jobs : JobOK(job'[d])
  BY <1>6, <1>8 DEF PathInv
<1>10. cache53' = [k \in Keys |-> cache53'[k]] /\ \A k \in Keys : Stored(k, cache53'[k])
  BY <1>1, <1>7, <1>8 DEF PathInv
<1>11. asked' = asked
  BY DEF ReadAnswer
<1> QED
  BY <1>9, <1>10, <1>11 DEF PathInv, JobOK, JobRecs, OnTheWay, Answered, Sized, Stored, Sendable, Good, IsPrivate, Excused

LEMMA OnExpires == ASSUME PathInv, NEW k \in Keys, Expires(k) PROVE PathInv'
<1> PICK e : e = cache53[k]
  OBVIOUS
<1>1. Stored(k, e) /\ e.fresh
  BY DEF PathInv, Expires
<1>2. e # NoEntry
  BY <1>1 DEF NoEntry
<1> PICK old : old = [e EXCEPT !.fresh = FALSE]
  OBVIOUS
<1>3. Stored(k, old)
  BY <1>1, <1>2 DEF Stored
<1>4. cache53' = [cache53 EXCEPT ![k] = old] /\ UNCHANGED <<job, asked>>
  BY DEF Expires, PathInv
<1>5. cache53' = [i \in Keys |-> cache53'[i]] /\ \A i \in Keys : Stored(i, cache53'[i])
  BY <1>3, <1>4 DEF PathInv
<1>6. job' = [d \in Jobs |-> job'[d]] /\ \A d \in Jobs : JobOK(job'[d])
  BY <1>4 DEF PathInv
<1>7. asked' \in 0 .. MaxQueries
  BY <1>4 DEF PathInv
<1> QED
  BY <1>5, <1>6, <1>7 DEF PathInv, JobOK, JobRecs, OnTheWay, Answered, Sized, Stored, Sendable, Good, IsPrivate, Excused

(* The reply when discovery has not answered: the denial of a private       *)
(* address, or what upstream left.                                          *)
LEMMA Concludes ==
    ASSUME NEW d \in JobRecs, d.pc = "discover", d.replies = 0, ~Knows(d.q.local), IsPrivate(d) => ~d.n,
           d.left => Sendable(d), d.n /\ ~d.err => Good(d, d.buf), d.n /\ d.err => Excused(d),
           d.q.rd /\ Knows(d.q.disc) => d.n /\ d.buf.rcode # "nx",
           NEW r, r = IF IsPrivate(d)
                      THEN Made(d, Msg(QueryID(d.q), d.q.key, "nx", "made", 100))
                      ELSE [d EXCEPT !.pc = "reply"]
    PROVE  JobOK(r)
<1>1. CASE IsPrivate(d)
  <2> PICK m \in Msgs : m = Msg(QueryID(d.q), d.q.key, "nx", "made", 100)
    BY Built
  <2>1. m.id = OwnID(d.q, m.src) /\ m.about = d.q.key /\ m.src = "made" /\ m.rcode = "nx"
    BY DEF Msg, OwnID
  <2>2. r = Made(d, m)
    BY <1>1
  <2>3. ~(d.q.rd /\ Knows(d.q.disc))
    BY <1>1
  <2> QED
    BY <2>1, <2>2, <2>3, MadeOK DEF Codes
<1>2. CASE ~IsPrivate(d)
  <2>1. /\ r \in JobRecs /\ r.pc = "reply" /\ r.n = d.n /\ r.err = d.err /\ r.buf = d.buf /\ r.q = d.q
        /\ r.replies = 0 /\ r.left = d.left /\ r.spoiled = d.spoiled /\ r.stale = d.stale /\ r.bad = d.bad
    BY <1>2 DEF JobRecs
  <2>2. (r.left => Sendable(r)) /\ (r.n /\ ~r.err => Good(r, r.buf)) /\ (r.n /\ r.err => Excused(r))
    BY <2>1 DEF Sendable, IsPrivate, Good, Excused
  <2> QED
    BY <2>1, <2>2 DEF JobOK, OnTheWay, Answered, Sized
<1> QED
  BY <1>1, <1>2

LEMMA OnDiscover == ASSUME PathInv, NEW c \in Jobs, Discover(c) PROVE PathInv'
<1> PICK j : j = job[c]
  OBVIOUS
<1> PICK d : d = IF Looks(j) THEN HostsResolve(j, j.q.disc, "discovery") ELSE j
  OBVIOUS
<1> PICK r : r = IF d.pc = "reply" THEN d
                 ELSE IF IsPrivate(d)
                 THEN Made(d, Msg(QueryID(d.q), d.q.key, "nx", "made", 100))
                 ELSE [d EXCEPT !.pc = "reply"]
  OBVIOUS
<1>1. /\ j \in JobRecs /\ j.pc = "discover" /\ j.replies = 0 /\ ~Knows(j.q.local) /\ (IsPrivate(j) => ~j.n)
      /\ (j.left => Sendable(j)) /\ (j.n /\ ~j.err => Good(j, j.buf)) /\ (j.n /\ j.err => Excused(j))
      /\ j.q.disc \in Knowledge
  BY Built, Constants DEF PathInv, JobOK, OnTheWay, Discover
<1>2. Go(c, r)
  BY DEF Discover
<1>3. CASE ~Looks(j)
  <2>1. d = j
    BY <1>3
  <2>2. j.q.rd /\ Knows(j.q.disc) => j.n /\ j.buf.rcode # "nx"
    BY <1>3 DEF Looks
  <2>3. JobOK(r)
    BY <1>1, <2>1, <2>2, Concludes
  <2> QED
    BY <1>2, <2>3, Steps DEF Discover
<1>4. CASE Looks(j) /\ j.q.disc = "unknown"
  <2>1. d = j
    BY <1>1, <1>4, Resolved
  <2>2. ~Knows(j.q.disc)
    BY <1>4 DEF Knows
  <2>3. JobOK(r)
    BY <1>1, <2>1, <2>2, Concludes
  <2> QED
    BY <1>2, <2>3, Steps DEF Discover
<1>5. CASE Looks(j) /\ j.q.disc = "bad"
  <2> PICK m \in Msgs : m = Msg(0, "none", "ok", "zeroed", j.buf.size)
    BY <1>1, Built
  <2>1. m.src = "zeroed" /\ m.rcode = "ok"
    BY DEF Msg
  <2>2. d = [j EXCEPT !.buf = m, !.spoiled = TRUE]
    BY <1>1, <1>5, Resolved
  <2>3. /\ d \in JobRecs /\ d.pc = "discover" /\ d.replies = 0 /\ d.q = j.q /\ d.n = j.n /\ d.err = j.err
        /\ d.left = j.left /\ d.stale = j.stale /\ d.bad = j.bad /\ d.buf = m /\ d.spoiled = TRUE
    BY <1>1, <2>2 DEF JobRecs
  <2>4. Good(d, m) /\ ~Knows(d.q.disc)
    BY <1>5, <2>1, <2>3 DEF Good, Knows, Codes
  <2>5. ~Knows(d.q.local) /\ (IsPrivate(d) => ~d.n) /\ (d.left => Sendable(d)) /\ (d.n /\ d.err => Excused(d))
    BY <1>1, <2>3 DEF IsPrivate, Sendable, Excused
  <2>6. r = IF IsPrivate(d)
            THEN Made(d, Msg(QueryID(d.q), d.q.key, "nx", "made", 100))
            ELSE [d EXCEPT !.pc = "reply"]
    BY <2>3
  <2>7. JobOK(r)
    BY <2>3, <2>4, <2>5, <2>6, Concludes
  <2> QED
    BY <1>2, <2>7, Steps DEF Discover
<1>6. CASE Looks(j) /\ Knows(j.q.disc)
  <2> PICK m \in Msgs : m = Msg(j.q.id, j.q.key, "ok", "discovery", 100)
    BY <1>1, Built
  <2>1. m.id = OwnID(j.q, m.src) /\ m.about = j.q.key /\ m.src = "discovery" /\ m.rcode = "ok"
    BY DEF Msg, OwnID
  <2>2. d = Made(j, m)
    <3>1. d = HostsResolve(j, j.q.disc, "discovery")
      BY <1>6
    <3>2. Knows(j.q.disc) /\ j.q.disc \in Knowledge /\ j \in JobRecs
      BY <1>1, <1>6
    <3>3. HostsResolve(j, j.q.disc, "discovery") = Made(j, Msg(j.q.id, j.q.key, "ok", "discovery", 100))
      BY <3>2 DEF HostsResolve, Knowledge, Knows
    <3> QED
      BY <3>1, <3>3
  <2>4. JobOK(d) /\ d.pc = "reply"
    BY <1>1, <2>1, <2>2, MadeOK DEF Codes
  <2>5. r = d
    BY <2>4
  <2> QED
    BY <1>2, <2>4, <2>5, Steps DEF Discover
<1> QED
  BY <1>1, <1>3, <1>4, <1>5, <1>6 DEF Knowledge, Knows

(* What a datagram is cut to.                                               *)
LEMMA CutSizes ==
    ASSUME NEW size \in Nat, NEW msgSize \in Nat
    PROVE  /\ Cut(size, msgSize).size \in Nat /\ Cut(size, msgSize).tc \in BOOLEAN
           /\ Cut(size, msgSize).size <= MaxUDPSize \/ Cut(size, msgSize).size <= msgSize
           /\ Cut(size, msgSize).size < size => Cut(size, msgSize).tc
           /\ (size <= MaxUDPSize \/ size <= msgSize) => Cut(size, msgSize).size = size
           /\ Cut(size, msgSize).tc => Cut(size, msgSize).size < size \/ size > MaxDNS0Size
BY DEF Cut, MaxUDPSize, MaxDNS0Size

(* What is sent: a SERVFAIL, or the message in the buffer.                  *)
Buffered(j) == IF j.err \/ ~j.n THEN Msg(QueryID(j.q), j.q.key, "servfail", "made", 100) ELSE j.buf

Sound(j, m) ==
    /\ ~j.spoiled => m.id = OwnID(j.q, m.src) /\ m.about = j.q.key
    /\ m.src \notin {"stale", "short"}
    /\ m.src = "zeroed" => j.q.disc = "bad"
    /\ j.q.ptr => m.src # "cache"
    /\ Knows(j.q.local) => m.src = "local"
    /\ j.q.rd /\ Knows(j.q.disc) => m.rcode # "nx" /\ (m.rcode = "servfail" => Excused(j))

LEMMA Sent ==
    ASSUME NEW j \in JobRecs, OnTheWay(j), j.pc = "reply" PROVE Buffered(j) \in Msgs /\ Sound(j, Buffered(j))
<1>1. CASE j.err \/ ~j.n
  <2> PICK made \in Msgs : made = Msg(QueryID(j.q), j.q.key, "servfail", "made", 100)
    BY Built
  <2>1. made.id = OwnID(j.q, made.src) /\ made.about = j.q.key /\ made.src = "made" /\ made.rcode = "servfail"
    BY DEF Msg, OwnID
  <2>2. Buffered(j) = made
    BY <1>1 DEF Buffered
  <2>3. Sound(j, made)
    BY <1>1, <2>1 DEF OnTheWay, Sound
  <2> QED
    BY <2>2, <2>3
<1>2. CASE ~j.err /\ j.n
  <2>1. Buffered(j) = j.buf /\ j.buf \in Msgs
    BY <1>2, Built DEF Buffered
  <2>2. Sound(j, j.buf)
    BY <1>2 DEF OnTheWay, Good, Codes, Sound
  <2> QED
    BY <2>1, <2>2
<1> QED
  BY <1>1, <1>2

(* What fits the transport of j.                                            *)
FitCut(j, m) == IF j.tcp THEN [size |-> m.size, tc |-> FALSE] ELSE Cut(m.size, j.q.msgSize)

Fitting(j, m, size, tc) ==
    /\ size \in Nat /\ tc \in BOOLEAN
    /\ j.tcp => ~tc /\ size = m.size
    /\ ~j.tcp => /\ size <= MaxUDPSize \/ size <= j.q.msgSize
                 /\ size < m.size => tc
                 /\ (m.size <= MaxUDPSize \/ m.size <= j.q.msgSize) => size = m.size
                 /\ tc => size < m.size \/ m.size > MaxDNS0Size

LEMMA CutFits ==
    ASSUME NEW j \in JobRecs, NEW m \in Msgs PROVE Fitting(j, m, FitCut(j, m).size, FitCut(j, m).tc)
<1>1. m.size \in Nat /\ j.q.msgSize \in Nat
  BY Constants, JobFields DEF Msgs
<1>2. CASE j.tcp
  <2>1. FitCut(j, m).size = m.size /\ FitCut(j, m).tc = FALSE
    BY <1>2 DEF FitCut
  <2> QED
    BY <1>1, <1>2, <2>1 DEF Fitting
<1>3. CASE ~j.tcp
  <2>1. FitCut(j, m) = Cut(m.size, j.q.msgSize)
    BY <1>3 DEF FitCut
  <2> QED
    BY <1>1, <1>3, <2>1, CutSizes DEF Fitting
<1> QED
  BY <1>2, <1>3

(* The record of a goroutine that has sent it, cut to size.                 *)
Sends(j, m, out, tc, n) == [j EXCEPT !.pc = "done", !.buf = m, !.out = out, !.tc = tc, !.replies = n]

LEMMA Written ==
    ASSUME NEW j \in JobRecs, NEW m \in Msgs, NEW out \in Msgs, NEW tc \in BOOLEAN,
           NEW n \in 0 .. 1, NEW r, r = Sends(j, m, out, tc, n)
    PROVE  /\ r \in JobRecs /\ r.pc = "done" /\ r.replies = n /\ r.buf = m /\ r.out = out /\ r.tc = tc
           /\ r.q = j.q /\ r.tcp = j.tcp /\ r.spoiled = j.spoiled /\ r.left = j.left
           /\ r.stale = j.stale /\ r.bad = j.bad
<1>1. r \in JobRecs
  BY Zenon DEF Sends, JobRecs
<1>2. r.pc = "done" /\ r.replies = n /\ r.buf = m /\ r.out = out /\ r.tc = tc
  BY Zenon DEF Sends, JobRecs
<1>3. r.q = j.q /\ r.tcp = j.tcp /\ r.spoiled = j.spoiled
  BY Zenon DEF Sends, JobRecs
<1>4. r.left = j.left /\ r.stale = j.stale /\ r.bad = j.bad
  BY Zenon DEF Sends, JobRecs
<1> QED
  BY <1>1, <1>2, <1>3, <1>4

LEMMA Resized ==
    ASSUME NEW m \in Msgs, NEW size \in Nat, NEW out, out = [m EXCEPT !.size = size]
    PROVE  /\ out \in Msgs /\ out.id = m.id /\ out.about = m.about /\ out.rcode = m.rcode /\ out.src = m.src
           /\ out.size = size
BY DEF Msgs

(* Whoever sends what is sound, cut to what fits, has answered well.        *)
LEMMA SendsWell ==
    ASSUME NEW j \in JobRecs, j.left => Sendable(j),
           NEW m \in Msgs, Sound(j, m), NEW size, NEW tc, Fitting(j, m, size, tc),
           NEW out, out = [m EXCEPT !.size = size], NEW n, n = 1, NEW r, r = Sends(j, m, out, tc, n)
    PROVE  JobOK(r)
<1>1. size \in Nat /\ tc \in BOOLEAN
  BY DEF Fitting
<1>2. /\ out \in Msgs /\ out.id = m.id /\ out.about = m.about /\ out.rcode = m.rcode /\ out.src = m.src
      /\ out.size = size
  BY <1>1, Resized
<1>3. /\ r \in JobRecs /\ r.pc = "done" /\ r.replies = 1 /\ r.buf = m /\ r.out = out /\ r.tc = tc
      /\ r.q = j.q /\ r.tcp = j.tcp /\ r.spoiled = j.spoiled /\ r.left = j.left
      /\ r.stale = j.stale /\ r.bad = j.bad
  BY <1>1, <1>2, Written
<1>4. OnTheWay(r)
  BY <1>3 DEF OnTheWay, Sendable, IsPrivate
<1>5. Answered(r)
  <2> PICK o : o = r.out
    OBVIOUS
  <2> PICK q : q = j.q
    OBVIOUS
  <2>0. r.q = q /\ r.spoiled = j.spoiled /\ r.stale = j.stale /\ r.bad = j.bad
        /\ o.id = m.id /\ o.about = m.about /\ o.rcode = m.rcode /\ o.src = m.src
    BY <1>2, <1>3
  <2>1. ~r.spoiled => o.id = OwnID(q, o.src) /\ o.about = q.key
    BY <2>0 DEF Sound
  <2>2. /\ o.src \notin {"stale", "short"} /\ (o.src = "zeroed" => q.disc = "bad")
        /\ (q.ptr => o.src # "cache") /\ (Knows(q.local) => o.src = "local")
    BY <2>0, Zenon DEF Sound
  <2>3. q.rd /\ Knows(q.disc) => o.rcode # "nx" /\ (o.rcode = "servfail" => Excused(r))
    BY <2>0, Zenon DEF Sound, Excused
  <2> QED
    BY <1>3, <2>0, <2>1, <2>2, <2>3 DEF Answered
<1>6. Sized(r)
  <2>1. r.out.size = size /\ r.buf.size = m.size /\ r.q.msgSize = j.q.msgSize /\ r.tc = tc /\ r.tcp = j.tcp
    BY <1>2, <1>3
  <2> HIDE <1>3
  <2> QED
    BY <2>1 DEF Fitting, Sized
<1> QED
  BY <1>3, <1>4, <1>5, <1>6 DEF JobOK

LEMMA OnReply == ASSUME PathInv, NEW c \in Jobs, Reply(c) PROVE PathInv'
<1> PICK j : j = job[c]
  OBVIOUS
<1>1. j \in JobRecs /\ j.pc = "reply" /\ OnTheWay(j) /\ j.replies = 0 /\ (j.left => Sendable(j))
  BY DEF PathInv, JobOK, OnTheWay, Reply
<1> PICK m : m = Buffered(j)
  OBVIOUS
<1> PICK size, tc : size = FitCut(j, m).size /\ tc = FitCut(j, m).tc
  OBVIOUS
<1> PICK out : out = [m EXCEPT !.size = size]
  OBVIOUS
<1> PICK n : n = 1
  OBVIOUS
<1> PICK r : r = Sends(j, m, out, tc, n)
  OBVIOUS
<1>2. n = j.replies + 1
  BY <1>1
<1>3. Go(c, r)
  <2> DEFINE i == job[c]
             b == Buffered(i)
             f == FitCut(i, b)
  <2>1. Go(c, Sends(i, b, [b EXCEPT !.size = f.size], f.tc, i.replies + 1))
    BY Zenon DEF Reply, Buffered, FitCut, Sends
  <2> HIDE DEF b, f
  <2>3. b = m /\ f = FitCut(j, m)
    BY Zenon DEF b, f
  <2>2. Go(c, Sends(j, m, out, tc, j.replies + 1))
    BY <2>1, <2>3, Zenon
  <2> QED
    BY <1>2, <2>2, Zenon
<1>4. m \in Msgs /\ Sound(j, m) /\ Fitting(j, m, size, tc)
  BY <1>1, Sent, CutFits
<1>5. JobOK(r)
  BY <1>1, <1>4, SendsWell
<1>6. UNCHANGED <<cache53, asked>>
  BY DEF Reply
<1> QED
  BY <1>3, <1>5, <1>6, Steps
-----------------------------------------------------------------------------
LEMMA InitPathInv == PathInit => PathInv
<1> SUFFICES ASSUME PathInit PROVE PathInv
  OBVIOUS
<1>1. job = [c \in Jobs |-> job[c]] /\ \A c \in Jobs : JobOK(job[c])
  BY Idle DEF PathInit
<1>2. NoEntry \in [msg : Msgs, fresh : BOOLEAN]
  BY DEF NoEntry, NoMsg, Msg, Msgs, Keys
<1>3. cache53 = [k \in Keys |-> cache53[k]] /\ \A k \in Keys : Stored(k, cache53[k])
  BY <1>2 DEF PathInit, Stored
<1> QED
  BY <1>1, <1>3, Constants DEF PathInv, PathInit

LEMMA StepPathInv == PathInv /\ [PathNext]_pvars => PathInv'
<1> SUFFICES ASSUME PathInv, [PathNext]_pvars PROVE PathInv'
  OBVIOUS
<1>1. CASE UNCHANGED pvars
  BY <1>1 DEF pvars, PathInv, JobOK, JobRecs, OnTheWay, Answered, Sized, Stored, Sendable, Good, IsPrivate, Excused
<1>2. ASSUME NEW k \in Keys, Expires(k) PROVE PathInv'
  BY <1>2, OnExpires
<1>3. ASSUME NEW c \in Jobs,
             \/ Receive(c) \/ Local(c) \/ ByDoH(c) \/ By53(c) \/ Dial(c) \/ ReadFails(c) \/ ReadOther(c)
             \/ ReadAnswer(c) \/ Discover(c) \/ Reply(c)
      PROVE  PathInv'
  BY <1>3, OnReceive, OnLocal, OnDoH, OnPlainDNS, OnDial, OnReadFails, OnReadOther, OnReadAnswer, OnDiscover, OnReply
<1> QED
  BY <1>1, <1>2, <1>3 DEF PathNext

LEMMA PathInvHolds == PathSpec => []PathInv
<1> QED
  BY InitPathInv, StepPathInv, PTL DEF PathSpec

(* A client is answered once, with its own identifier and about what it asked,  *)
(* never with a stale answer, whatever the sockets, the endpoint and the caches *)
(* did in between (dns53.go, udp.go, tcp.go).  A query that could not be parsed *)
(* has its own identifier in an answer of upstream, and 0 in what this host     *)
(* makes or keeps; a denial spoiled by discovery's records is not covered.      *)
THEOREM ClientGetsItsOwn == PathSpec => []AnswerOwn
<1>1. PathInv => AnswerOwn
  BY DEF PathInv, JobOK, Answered, AnswerOwn, Done
<1> QED
  BY <1>1, PathInvHolds, PTL

(* Upstream is not asked for what the local names tell, and what this host      *)
(* knows of a name is what is answered (Proxy.Resolve).                       *)
THEOREM KnownIsServed == PathSpec => []KnownServed
<1>1. PathInv => KnownServed
  <2> SUFFICES ASSUME PathInv, NEW c \in Jobs, NEW j, j = job[c]
               PROVE  /\ (j.q.local \in {"name", "records"} \/ IsPrivate(j)) => ~j.left
                      /\ (j.pc = "done" /\ j.q.local \in {"name", "records"}) => j.out.src = "local"
                      /\ (j.pc = "done" /\ j.q.rd /\ j.q.disc \in {"name", "records"}) =>
                             /\ j.out.rcode # "nx"
                             /\ j.out.rcode = "servfail" => j.stale \/ j.bad >= MaxBadReads
    BY DEF KnownServed, Done
  <2>1. OnTheWay(j) /\ Answered(j)
    BY DEF PathInv, JobOK
  <2> QED
    BY <2>1 DEF OnTheWay, Answered, Sendable, Knows, Excused
<1> QED
  BY <1>1, PathInvHolds, PTL

(* A datagram is no larger than its client takes and what was cut is marked,   *)
(* for every size of the answers and of the clients' buffers (udp.go).        *)
THEOREM WhatIsCutIsMarked == PathSpec => []CutMarked
<1>1. PathInv => CutMarked
  BY DEF PathInv, JobOK, Sized, CutMarked, Done
<1> QED
  BY <1>1, PathInvHolds, PTL

-----------------------------------------------------------------------------
(* The race of an endpoint's addresses.                                      *)

RaceTypes ==
    /\ endpoint \subseteq AllAddrs /\ failures \in 0 .. Cardinality(AllAddrs)
    /\ racer \in [AllAddrs -> {"off", "dialing", "result"}]
    /\ sock \in [AllAddrs -> {"none", "open", "closed"}]
    /\ dial \in {"none", "racing", "connected", "failed"}
    /\ \E n \in Nat : records \in [1 .. n -> [prio : Priorities, hints : HintSets]]

(* The goroutine of an address goes from its dial to what it leaves behind. *)
Racer(a) ==
    /\ racer[a] # "off" => a \in endpoint
    /\ racer[a] = "dialing" => sock[a] = "none"
    /\ sock[a] = "open" => racer[a] = "result" \/ a \in won
    /\ dial \in {"none", "racing"} /\ racer[a] = "off" => sock[a] = "none"
    /\ dial = "none" => racer[a] = "off"
    /\ dial \in {"none", "racing"} => sock[a] # "closed"
    /\ dial = "failed" => racer[a] = "off" /\ sock[a] = "none"

Taken == {a \in endpoint : racer[a] = "off"}

(* The caller gives up only when it has taken the results of all.           *)
Caller ==
    /\ dial = "none" => failures = 0
    /\ dial = "racing" => failures = Cardinality(Taken)
    /\ dial # "connected" => won = {}
    /\ dial = "connected" => \E a \in AllAddrs : won = {a} /\ sock[a] = "open" /\ racer[a] = "off"

(* What is dialed is one of the endpoints of the answer.                    *)
Target == dial # "none" => \E i \in DOMAIN records : Opens(i) /\ endpoint = Addrs(Hints(i))

RaceInv == RaceTypes /\ Caller /\ Target /\ \A a \in AllAddrs : Racer(a)

LEMMA AddrsFinite == IsFiniteSet(AllAddrs) /\ \A S \in SUBSET AllAddrs : IsFiniteSet(S)
<1>1. IsFiniteSet(AllAddrs)
  BY TransportAssumption, FS_Singleton, FS_Union DEF AllAddrs
<1> QED
  BY <1>1, FS_Subset

LEMMA SameEndpoints ==
  ASSUME records' = records
  PROVE  \A i \in DOMAIN records : Opens(i)' = Opens(i) /\ Hints(i)' = Hints(i)
<1>1. \A i : Opens(i)' = Opens(i)
  BY DEF Opens
<1> QED
  BY <1>1 DEF Hints

LEMMA InitRaceInv == TransportInit => RaceInv
<1> SUFFICES ASSUME TransportInit PROVE RaceInv
  OBVIOUS
<1>1. PICK n \in 0 .. MaxAnswers : records \in [1 .. n -> [prio : Priorities, hints : HintSets]]
  BY DEF TransportInit
<1>2. n \in Nat
  BY TransportAssumption
<1>3. RaceTypes
  <2>1. 0 \in 0 .. Cardinality(AllAddrs)
    BY AddrsFinite, FS_CardinalityType
  <2> QED
    BY <1>1, <1>2, <2>1 DEF TransportInit, RaceTypes
<1> QED
  BY <1>3 DEF TransportInit, RaceInv, Racer, Caller, Target

LEMMA OnRace == ASSUME RaceInv, Race PROVE RaceInv'
<1>1. PICK hints \in Endpoints :
        /\ endpoint' = Addrs(hints)
        /\ racer' = [a \in AllAddrs |-> IF a \in Addrs(hints) THEN "dialing" ELSE "off"]
  BY DEF Race
<1>2. hints \subseteq AllAddrs
  <2>1. \A i \in DOMAIN records : records[i].hints \in HintSets
    BY DEF RaceInv, RaceTypes
  <2>2. PICK i \in DOMAIN records : hints = Hints(i) /\ Opens(i)
    BY <1>1 DEF Endpoints
  <2> QED
    BY <2>1, <2>2 DEF Hints, AllAddrs
<1>3. endpoint' \subseteq AllAddrs
  BY <1>1, <1>2 DEF Addrs, AllAddrs
<1>4. dial = "none" /\ dial' = "racing" /\ records' = records /\ sock' = sock /\ won' = won /\ failures' = failures
  BY DEF Race
<1>5. RaceTypes'
  BY <1>1, <1>3, <1>4 DEF RaceInv, RaceTypes
<1>6. \A a \in AllAddrs : Racer(a)'
  BY <1>1, <1>4 DEF RaceInv, Racer, Caller
<1>7. Caller'
  <2>1. Taken' = {}
    BY <1>1, <1>3 DEF Taken
  <2>2. failures' = 0
    BY <1>4 DEF RaceInv, Caller
  <2> QED
    BY <1>4, <2>1, <2>2, FS_EmptySet DEF RaceInv, Caller
<1>8. Target'
  <2>1. PICK i \in DOMAIN records : hints = Hints(i) /\ Opens(i)
    BY <1>1 DEF Endpoints
  <2> QED
    BY <1>1, <1>4, <2>1, SameEndpoints DEF Target, Addrs
<1> QED
  BY <1>5, <1>6, <1>7, <1>8 DEF RaceInv

LEMMA OnDialed == ASSUME RaceInv, NEW a \in AllAddrs, Dialed(a) PROVE RaceInv'
<1>1. /\ racer' = [racer EXCEPT ![a] = "result"] /\ racer[a] = "dialing"
      /\ UNCHANGED <<records, endpoint, dial, won, failures>>
      /\ sock' = sock \/ sock' = [sock EXCEPT ![a] = "open"]
  BY DEF Dialed
<1>2. RaceTypes'
  BY <1>1 DEF RaceInv, RaceTypes
<1>3. \A b \in AllAddrs : Racer(b)'
  BY <1>1 DEF RaceInv, RaceTypes, Racer
<1>4. Taken' = Taken
  BY <1>1 DEF RaceInv, RaceTypes, Taken
<1>5. Caller'
  BY <1>1, <1>4 DEF RaceInv, RaceTypes, Caller
<1>6. Target'
  BY <1>1, SameEndpoints DEF RaceInv, Target, Addrs
<1> QED
  BY <1>2, <1>3, <1>5, <1>6 DEF RaceInv

LEMMA OnTake == ASSUME RaceInv, NEW a \in AllAddrs, TakeResult(a) PROVE RaceInv'
<1>1. /\ racer' = [racer EXCEPT ![a] = "off"] /\ racer[a] = "result" /\ dial = "racing"
      /\ UNCHANGED <<records, endpoint, sock>>
  BY DEF TakeResult
<1>t. Target'
  BY <1>1, SameEndpoints DEF RaceInv, Target, Addrs
<1>2. CASE sock[a] = "open"
  <2>1. dial' = "connected" /\ won' = {a} /\ failures' = failures
    BY <1>2 DEF TakeResult
  <2>2. RaceTypes'
    BY <1>1, <2>1 DEF RaceInv, RaceTypes
  <2>3. \A b \in AllAddrs : Racer(b)'
    BY <1>1, <2>1 DEF RaceInv, RaceTypes, Racer, Caller
  <2>4. Caller'
    BY <1>1, <1>2, <2>1 DEF RaceInv, RaceTypes, Caller
  <2> QED
    BY <1>t, <2>2, <2>3, <2>4 DEF RaceInv
<1>3. CASE sock[a] # "open"
  <2>1. /\ failures' = failures + 1 /\ won' = won
        /\ dial' = IF failures' = Cardinality(endpoint) THEN "failed" ELSE "racing"
    BY <1>3 DEF TakeResult
  <2>2. sock[a] = "none" /\ a \in endpoint /\ a \notin Taken /\ Taken \subseteq AllAddrs /\ endpoint \subseteq AllAddrs
    BY <1>1, <1>3 DEF RaceInv, RaceTypes, Racer, Taken
  <2>3. Taken' = Taken \cup {a}
    BY <1>1, <2>2 DEF RaceInv, RaceTypes, Taken
  <2>4. Cardinality(Taken') = failures' /\ IsFiniteSet(endpoint)
    <3>1. IsFiniteSet(Taken) /\ IsFiniteSet(endpoint)
      BY <2>2, AddrsFinite
    <3>2. Cardinality(Taken \cup {a}) = Cardinality(Taken) + 1
      BY <2>2, <3>1, FS_AddElement
    <3> QED
      BY <1>1, <2>1, <2>3, <3>1, <3>2 DEF RaceInv, Caller
  <2>5. RaceTypes'
    <3>1. Cardinality(Taken') <= Cardinality(AllAddrs) /\ Cardinality(AllAddrs) \in Nat
      BY <2>2, <2>3, AddrsFinite, FS_Subset, FS_CardinalityType
    <3>2. failures' \in 0 .. Cardinality(AllAddrs)
      BY <2>1, <2>4, <3>1 DEF RaceInv, RaceTypes
    <3> QED
      BY <1>1, <2>1, <3>2 DEF RaceInv, RaceTypes
  <2>6. Caller'
    BY <1>1, <2>1, <2>4 DEF RaceInv, Caller
  <2>7. \A b \in AllAddrs : Racer(b)'
    <3>1. CASE failures' # Cardinality(endpoint)
      BY <1>1, <2>1, <2>2, <3>1 DEF RaceInv, RaceTypes, Racer
    <3>2. CASE failures' = Cardinality(endpoint)
      <4>1. Taken' = endpoint
        <5>1. Taken' \in SUBSET endpoint
          BY <2>2, <2>3 DEF Taken
        <5> QED
          BY <2>4, <3>2, <5>1, FS_Subset
      <4>2. \A b \in AllAddrs : racer'[b] = "off"
        BY <1>1, <4>1 DEF RaceInv, RaceTypes, Racer, Taken
      <4>3. \A b \in AllAddrs : sock[b] = "none"
        BY <1>1, <2>2, <4>2 DEF RaceInv, RaceTypes, Racer
      <4> QED
        BY <1>1, <2>1, <3>2, <4>2, <4>3 DEF Racer
    <3> QED
      BY <3>1, <3>2
  <2> QED
    BY <1>t, <2>5, <2>6, <2>7 DEF RaceInv
<1> QED
  BY <1>2, <1>3

LEMMA OnRaceLost == ASSUME RaceInv, NEW a \in AllAddrs, Lose(a) PROVE RaceInv'
<1>1. /\ racer' = [racer EXCEPT ![a] = "off"] /\ racer[a] = "result" /\ dial = "connected"
      /\ sock' = [sock EXCEPT ![a] = IF @ = "open" THEN "closed" ELSE @]
      /\ UNCHANGED <<records, endpoint, dial, won, failures>>
  BY DEF RaceInv, Racer, Lose, Leave
<1>2. RaceTypes'
  BY <1>1 DEF RaceInv, RaceTypes
<1>3. a \notin won
  BY <1>1 DEF RaceInv, Caller
<1>4. \A b \in AllAddrs : Racer(b)'
  BY <1>1, <1>3 DEF RaceInv, RaceTypes, Racer
<1>5. Caller'
  BY <1>1, <1>3 DEF RaceInv, RaceTypes, Caller
<1>6. Target'
  BY <1>1, SameEndpoints DEF RaceInv, Target, Addrs
<1> QED
  BY <1>2, <1>4, <1>5, <1>6 DEF RaceInv

LEMMA RaceInvHolds == TransportSpec => []RaceInv
<1>1. RaceInv /\ [TransportNext]_trvars => RaceInv'
  <2>1. ASSUME RaceInv, UNCHANGED trvars PROVE RaceInv'
    BY <2>1, SameEndpoints DEF trvars, RaceInv, RaceTypes, Racer, Caller, Taken, Target, Addrs
  <2> QED
    BY <2>1, OnRace, OnDialed, OnTake, OnRaceLost DEF TransportNext
<1> QED
  BY <1>1, InitRaceInv, PTL DEF TransportSpec

(* In records sorted by priority the run that a record opens is all of its  *)
(* priority (endpoint.go:272-277).                                          *)
LEMMA RunIsPriority ==
  ASSUME RaceTypes, Sorted, NEW i \in DOMAIN records, Opens(i)
  PROVE  {j \in DOMAIN records : j >= i /\ \A k \in i + 1 .. j : ~Opens(k)}
           = {j \in DOMAIN records : records[j].prio = records[i].prio}
<1>1. PICK n \in Nat : records \in [1 .. n -> [prio : Priorities, hints : HintSets]]
  BY DEF RaceTypes
<1>2. DOMAIN records = 1 .. n /\ \A j \in 1 .. n : records[j].prio \in Nat
  BY <1>1, TransportAssumption
<1>3. \A j, k \in 1 .. n : j < k => records[j].prio <= records[k].prio
  BY <1>2 DEF Sorted
<1>4. ASSUME NEW j \in 1 .. n, j >= i, \A k \in i + 1 .. j : ~Opens(k)
      PROVE  records[j].prio = records[i].prio
  <2> SUFFICES ASSUME records[j].prio # records[i].prio PROVE FALSE
    OBVIOUS
  <2> DEFINE Higher == {k \in i .. j : records[k].prio > records[i].prio}
  <2>1. j \in Higher /\ Higher \in SUBSET Nat
    BY <1>2, <1>3, <1>4
  <2>2. PICK m \in Higher : \A k \in Higher : m <= k
    BY <2>1, LeastNatural
  <2>3. m \in i + 1 .. j /\ m \in 1 .. n /\ m - 1 \in i .. j /\ m - 1 \in 1 .. n
    BY <1>2, <2>2
  <2>4. records[m - 1].prio <= records[i].prio
    BY <1>2, <2>2, <2>3
  <2>5. Opens(m)
    BY <1>2, <2>2, <2>3, <2>4 DEF Opens
  <2> QED
    BY <1>4, <2>3, <2>5
<1>5. ASSUME NEW j \in 1 .. n, records[j].prio = records[i].prio
      PROVE  j >= i /\ \A k \in i + 1 .. j : ~Opens(k)
  <2>1. ASSUME j < i PROVE FALSE
    <3>1. i - 1 \in 1 .. n /\ records[i - 1].prio < records[i].prio
      BY <1>2, <2>1 DEF Opens
    <3>2. records[j].prio <= records[i - 1].prio
      BY <1>2, <1>3, <2>1, <3>1
    <3> QED
      BY <1>2, <1>5, <3>1, <3>2
  <2>2. ASSUME NEW k \in i + 1 .. j PROVE ~Opens(k)
    <3>1. k \in 1 .. n /\ k - 1 \in 1 .. n /\ k # 1
      BY <1>2
    <3>2. records[k].prio <= records[j].prio /\ records[i].prio <= records[k - 1].prio
      BY <1>2, <1>3, <3>1
    <3> QED
      BY <1>2, <1>5, <3>1, <3>2 DEF Opens
  <2> QED
    BY <1>2, <2>1, <2>2
<1> QED
  BY <1>2, <1>4, <1>5

(* A dial goes to all the hints of one priority, and when its goroutines are *)
(* done it leaves open the connection it returned and no other, for any     *)
(* records and addresses (endpoint.go:222-304, dialer.go:12-49).            *)
THEOREM OneConnectionIsKept == TransportSpec => []OneConnection
<1>1. RaceInv => OneKept
  BY DEF RaceInv, RaceTypes, Racer, Caller, OneKept
<1>2. RaceInv => AllHints
  <2> SUFFICES ASSUME RaceInv, dial # "none", Sorted
               PROVE  \E p \in Priorities :
                        endpoint = Addrs(UNION {records[i].hints : i \in {j \in DOMAIN records : records[j].prio = p}})
    BY DEF AllHints
  <2>1. PICK i \in DOMAIN records : Opens(i) /\ endpoint = Addrs(Hints(i))
    BY DEF RaceInv, Target
  <2>2. records[i].prio \in Priorities
    BY DEF RaceInv, RaceTypes
  <2>3. Hints(i) = UNION {records[k].hints : k \in {j \in DOMAIN records : records[j].prio = records[i].prio}}
    BY <2>1, RunIsPriority DEF RaceInv, Hints
  <2> QED
    BY <2>1, <2>2, <2>3
<1> QED
  BY <1>1, <1>2, RaceInvHolds, PTL DEF OneConnection

(***************************************************************************)
(* The forwarder or profile chosen for a query: the lists the flags leave, *)
(* through both lives of the program, against what the flags mean.         *)
(***************************************************************************)
Ids == 1 .. MaxArgs + MaxStored
RuleRecs(conds) == [cond : conds, id : Ids]
Single(list) == \A i, k \in DOMAIN list : list[i].cond = list[k].cond => i = k

(* The first index of a condition.                                          *)
LEMMA MinIsIn == ASSUME NEW S \in SUBSET Nat, S # {} PROVE Min(S) \in S /\ \A k \in S : Min(S) <= k
  BY LeastNatural DEF Min

(* Set replaces the entry of the same condition, or adds one at the end     *)
(* (profile.go:129, forwarder.go:91).                                       *)
Put(list, rule, new, i) ==
    /\ i \in DOMAIN new /\ new[i] = rule /\ \A k \in DOMAIN list : k # i => new[k] = list[k]
    /\ \/ i \in DOMAIN list /\ list[i].cond = rule.cond /\ DOMAIN new = DOMAIN list
       \/ /\ i = Len(list) + 1 /\ DOMAIN new = 1 .. i
          /\ \A k \in DOMAIN list : list[k].cond # rule.cond

LEMMA SetRuleDoes ==
  ASSUME NEW C, NEW list \in Seq(RuleRecs(C)), NEW f, Rule(f) \in RuleRecs(C)
  PROVE  /\ SetRule(list, f) \in Seq(RuleRecs(C))
         /\ \E i : Put(list, Rule(f), SetRule(list, f), i)
<1> DEFINE Same == {i \in DOMAIN list : list[i].cond = Rule(f).cond}
<1>0. PICK r : r = Rule(f)
  OBVIOUS
<1>1. CASE Same = {}
  <2>1. SetRule(list, f) = Append(list, r)
    BY <1>1, <1>0 DEF SetRule
  <2>2. r \in RuleRecs(C)
    BY <1>0
  <2> HIDE DEF Same
  <2>3. /\ Append(list, r) \in Seq(RuleRecs(C)) /\ DOMAIN Append(list, r) = 1 .. Len(list) + 1
        /\ Append(list, r)[Len(list) + 1] = r /\ \A k \in DOMAIN list : Append(list, r)[k] = list[k]
    BY <2>2
  <2>4. Len(list) + 1 \in 1 .. Len(list) + 1
    OBVIOUS
  <2>5. \A k \in DOMAIN list : list[k].cond # r.cond
    BY <1>1, <1>0 DEF Same
  <2> QED
    BY <2>1, <2>3, <2>4, <2>5, <1>0 DEF Put
<1>2. CASE Same # {}
  <2>1. Same \in SUBSET Nat
    OBVIOUS
  <2>2. PICK m : m = Min(Same)
    OBVIOUS
  <2>3. m \in DOMAIN list /\ list[m].cond = r.cond
    BY <2>1, <2>2, <1>2, MinIsIn, <1>0
  <2>4. SetRule(list, f) = [list EXCEPT ![m] = r]
    BY <2>2, <1>2, <1>0 DEF SetRule
  <2>5. r \in RuleRecs(C)
    BY <1>0
  <2> HIDE DEF Same
  <2>6. /\ [list EXCEPT ![m] = r] \in Seq(RuleRecs(C)) /\ DOMAIN [list EXCEPT ![m] = r] = DOMAIN list
        /\ [list EXCEPT ![m] = r][m] = r /\ \A k \in DOMAIN list : k # m => [list EXCEPT ![m] = r][k] = list[k]
    BY <2>3, <2>5
  <2> QED
    BY <2>3, <2>4, <2>6, <1>0 DEF Put
<1> QED
  BY <1>1, <1>2

(* The flags of SetAll one by one.                                          *)
OneByOne(list, flags, names, done) ==
    /\ done[0] = list
    /\ \A n \in 1 .. Len(flags) :
         done[n] = IF flags[n].flag \in names THEN SetRule(done[n - 1], flags[n]) ELSE done[n - 1]

LEMMA SetAllUnfolds ==
  ASSUME NEW list, NEW flags, Len(flags) \in Nat, NEW names
  PROVE  \E done :
           OneByOne(list, flags, names, done) /\ SetAll(list, flags, names) = done[Len(flags)]
<1> DEFINE Step(x, n) == IF flags[n].flag \in names THEN SetRule(x, flags[n]) ELSE x
           IsDone(d, m) == d = [n \in 0 .. m |-> IF n = 0 THEN list ELSE Step(d[n - 1], n)]
           Bad == {m \in Nat : ~ \E d : IsDone(d, m)}
<1> HIDE DEF Step
<1>1. \A m \in Nat : \E d : IsDone(d, m)
  <2> SUFFICES ASSUME Bad # {} PROVE FALSE
    OBVIOUS
  <2>1. PICK m \in Bad : \A k \in Bad : m <= k
    <3> HIDE DEF Bad
    <3>1. Bad \in SUBSET Nat
      BY DEF Bad
    <3> QED
      BY <3>1, LeastNatural
  <2>2. CASE m = 0
    <3>1. IsDone([n \in 0 .. 0 |-> list], 0)
      OBVIOUS
    <3> QED
      BY <3>1, <2>2, <2>1
  <2>3. CASE m # 0
    <3>1. m - 1 \in Nat /\ m - 1 \notin Bad
      BY <2>1, <2>3
    <3>2. PICK d : IsDone(d, m - 1)
      BY <3>1
    <3> DEFINE e == [n \in 0 .. m |-> IF n = m THEN Step(d[m - 1], m) ELSE d[n]]
    <3>3. \A n \in 0 .. m : e[n] = IF n = 0 THEN list ELSE Step(e[n - 1], n)
      <4> TAKE n \in 0 .. m
      <4>1. CASE n = 0
        BY <4>1, <3>1, <3>2
      <4>2. CASE n # 0 /\ n # m
        BY <4>2, <3>1, <3>2
      <4>3. CASE n # 0 /\ n = m
        BY <4>3, <3>1, <3>2
      <4> QED
        BY <4>1, <4>2, <4>3
    <3>4. IsDone(e, m)
      BY <3>3
    <3> QED
      BY <3>4, <2>1
  <2> QED
    BY <2>2, <2>3
<1>2. PICK d : IsDone(d, Len(flags))
  BY <1>1
<1> DEFINE done == CHOOSE x : IsDone(x, Len(flags))
<1>3. IsDone(done, Len(flags))
  BY <1>2
<1>4. SetAll(list, flags, names) = done[Len(flags)]
  BY DEF SetAll, Step
<1> HIDE DEF done
<1>5. done[0] = list /\ \A n \in 1 .. Len(flags) : done[n] = Step(done[n - 1], n)
  BY <1>3
<1> QED
  BY <1>4, <1>5 DEF Step, OneByOne

Hits(flags, names, n) == {j \in 1 .. n : flags[j].flag \in names}
CondOf(flags, j) == Rule(flags[j]).cond

(* What the flags up to n have made of a list.                              *)
LastHit(flags, names, n, rule) ==
    \E j \in Hits(flags, names, n) :
        /\ rule = Rule(flags[j])
        /\ \A k \in Hits(flags, names, n) : k > j => CondOf(flags, k) # rule.cond
Untouched(flags, names, n, cond) == \A j \in Hits(flags, names, n) : CondOf(flags, j) # cond
HitBefore(flags, names, n, cond1, cond2) ==
    \E j \in Hits(flags, names, n) :
        CondOf(flags, j) = cond1 /\ \A k \in Hits(flags, names, n) : CondOf(flags, k) = cond2 => j < k

Took(list, flags, names, n, new) ==
    /\ Single(new)
    /\ DOMAIN list \subseteq DOMAIN new /\ \A i \in DOMAIN list : new[i].cond = list[i].cond
    /\ \A j \in Hits(flags, names, n) : \E i \in DOMAIN new : new[i].cond = CondOf(flags, j)
    /\ \A i \in DOMAIN new : \/ LastHit(flags, names, n, new[i])
                             \/ i \in DOMAIN list /\ new[i] = list[i] /\ Untouched(flags, names, n, new[i].cond)
    /\ \A i, k \in DOMAIN new \ DOMAIN list : i < k => HitBefore(flags, names, n, new[i].cond, new[k].cond)

LEMMA NotTaken ==
  ASSUME NEW list, NEW flags, NEW names, NEW n \in Nat, NEW new, Took(list, flags, names, n, new),
         flags[n + 1].flag \notin names
  PROVE  Took(list, flags, names, n + 1, new)
<1>1. Hits(flags, names, n + 1) = Hits(flags, names, n)
  BY DEF Hits
<1> QED
  BY <1>1 DEF Took, LastHit, Untouched, HitBefore

LEMMA OneTaken ==
  ASSUME NEW C, NEW list \in Seq(RuleRecs(C)), NEW flags, NEW names, NEW n \in Nat,
         NEW old \in Seq(RuleRecs(C)), Took(list, flags, names, n, old),
         flags[n + 1].flag \in names, Rule(flags[n + 1]) \in RuleRecs(C)
  PROVE  Took(list, flags, names, n + 1, SetRule(old, flags[n + 1]))
<1>0. PICK r : r = Rule(flags[n + 1])
  OBVIOUS
<1>1. PICK new : new = SetRule(old, flags[n + 1])
  OBVIOUS
<1>2. new \in Seq(RuleRecs(C))
  BY <1>1, SetRuleDoes
<1>3. PICK i : Put(old, r, new, i)
  BY <1>0, <1>1, SetRuleDoes
<1>4. PICK H : H = Hits(flags, names, n)
  OBVIOUS
<1>5. Hits(flags, names, n + 1) = H \cup {n + 1} /\ H \in SUBSET (1 .. n)
  BY <1>4 DEF Hits
<1>6. CondOf(flags, n + 1) = r.cond
  BY <1>0 DEF CondOf
<1>7. DOMAIN old = 1 .. Len(old) /\ Len(old) \in Nat /\ DOMAIN list = 1 .. Len(list) /\ Len(list) \in Nat
  OBVIOUS
<1>8. DOMAIN old \subseteq DOMAIN new /\ DOMAIN new = DOMAIN old \cup {i}
  <2>1. CASE i \in DOMAIN old /\ DOMAIN new = DOMAIN old
    BY <2>1
  <2>2. CASE i = Len(old) + 1 /\ DOMAIN new = 1 .. i
    BY <2>2, <1>7
  <2> QED
    BY <2>1, <2>2, <1>3 DEF Put
<1>9. \A k \in DOMAIN old : new[k].cond = old[k].cond
  BY <1>3 DEF Put
<1>10. \A k \in DOMAIN new : k # i => k \in DOMAIN old /\ new[k] = old[k] /\ old[k].cond # r.cond
  <2> TAKE k \in DOMAIN new
  <2> HAVE k # i
  <2>1. k \in DOMAIN old /\ new[k] = old[k]
    BY <1>3, <1>8 DEF Put
  <2>2. CASE i \in DOMAIN old /\ old[i].cond = r.cond
    BY <2>1, <2>2 DEF Took, Single
  <2>3. CASE \A m \in DOMAIN old : old[m].cond # r.cond
    BY <2>1, <2>3
  <2> QED
    BY <2>1, <2>2, <2>3, <1>3 DEF Put
<1>11. Single(new)
  <2> SUFFICES ASSUME NEW a \in DOMAIN new, NEW b \in DOMAIN new, new[a].cond = new[b].cond PROVE a = b
    BY DEF Single
  <2>1. CASE a # i /\ b # i
    BY <2>1, <1>10 DEF Took, Single
  <2>2. CASE a = i \/ b = i
    BY <2>2, <1>10, <1>3 DEF Put
  <2> QED
    BY <2>1, <2>2
<1>12. DOMAIN list \subseteq DOMAIN new /\ \A k \in DOMAIN list : new[k].cond = list[k].cond
  BY <1>8, <1>9 DEF Took
<1>13. \A j \in H \cup {n + 1} : \E k \in DOMAIN new : new[k].cond = CondOf(flags, j)
  <2> TAKE j \in H \cup {n + 1}
  <2>1. CASE j = n + 1
    BY <2>1, <1>3, <1>6 DEF Put
  <2>2. CASE j \in H
    <3>1. PICK k \in DOMAIN old : old[k].cond = CondOf(flags, j)
      BY <2>2, <1>4 DEF Took
    <3> QED
      BY <3>1, <1>8, <1>9
  <2> QED
    BY <2>1, <2>2
<1>14. ASSUME NEW k \in DOMAIN new
       PROVE  \/ LastHit(flags, names, n + 1, new[k])
              \/ k \in DOMAIN list /\ new[k] = list[k] /\ Untouched(flags, names, n + 1, new[k].cond)
  <2>1. CASE k = i
    <3>1. \A m \in H \cup {n + 1} : ~ (m > n + 1)
      BY <1>5
    <3> QED
      BY <2>1, <3>1, <1>5, <1>3, <1>0 DEF LastHit, Put
  <2>2. CASE k # i
    <3>1. k \in DOMAIN old /\ new[k] = old[k] /\ old[k].cond # r.cond
      BY <2>2, <1>10
    <3>2. CASE LastHit(flags, names, n, old[k])
      BY <3>1, <3>2, <1>4, <1>5, <1>6 DEF LastHit
    <3>3. CASE k \in DOMAIN list /\ old[k] = list[k] /\ Untouched(flags, names, n, old[k].cond)
      BY <3>1, <3>3, <1>4, <1>5, <1>6 DEF Untouched
    <3> QED
      BY <3>1, <3>2, <3>3 DEF Took
  <2> QED
    BY <2>1, <2>2
<1>15. ASSUME NEW a \in DOMAIN new \ DOMAIN list, NEW b \in DOMAIN new \ DOMAIN list, a < b
       PROVE  HitBefore(flags, names, n + 1, new[a].cond, new[b].cond)
  <2>1. CASE a \in DOMAIN old /\ b \in DOMAIN old
    <3>1. HitBefore(flags, names, n, old[a].cond, old[b].cond)
      BY <2>1, <1>15 DEF Took
    <3>2. PICK j \in H : CondOf(flags, j) = old[a].cond /\ \A k \in H : CondOf(flags, k) = old[b].cond => j < k
      BY <3>1, <1>4 DEF HitBefore
    <3>3. j < n + 1
      BY <1>5
    <3>4. new[a].cond = old[a].cond /\ new[b].cond = old[b].cond
      BY <2>1, <1>9
    <3> QED
      BY <3>2, <3>3, <3>4, <1>5 DEF HitBefore
  <2>2. CASE ~ (a \in DOMAIN old /\ b \in DOMAIN old)
    <3>1. b = i /\ i = Len(old) + 1 /\ a \in DOMAIN old /\ \A k \in DOMAIN old : old[k].cond # r.cond
      <4>1. i \notin DOMAIN old
        BY <2>2, <1>8
      <4>2. i = Len(old) + 1 /\ DOMAIN new = 1 .. i /\ \A k \in DOMAIN old : old[k].cond # r.cond
        BY <4>1, <1>3 DEF Put
      <4> QED
        BY <4>2, <2>2, <1>15, <1>7
    <3>2. new[a] = old[a] /\ new[b] = r
      BY <3>1, <1>3, <1>7 DEF Put
    <3>3. LastHit(flags, names, n, old[a])
      BY <3>1, <1>15 DEF Took
    <3>4. PICK j \in H : old[a].cond = CondOf(flags, j)
      BY <3>3, <1>4 DEF LastHit, CondOf
    <3>5. \A k \in H : CondOf(flags, k) # r.cond
      BY <3>1, <1>4 DEF Took
    <3>6. j < n + 1
      BY <1>5
    <3> QED
      BY <3>2, <3>4, <3>5, <3>6, <1>5 DEF HitBefore
  <2> QED
    BY <2>1, <2>2
<1>16. Took(list, flags, names, n + 1, new)
  BY <1>5, <1>11, <1>12, <1>13, <1>14, <1>15 DEF Took
<1> QED
  BY <1>1, <1>16

(* What Set makes of a list, flag by flag.                                  *)
LEMMA SetAllDoes ==
  ASSUME NEW C, NEW list \in Seq(RuleRecs(C)), NEW flags, Len(flags) \in Nat, NEW names,
         \A j \in 1 .. Len(flags) : Rule(flags[j]) \in RuleRecs(C)
  PROVE  /\ SetAll(list, flags, names) \in Seq(RuleRecs(C))
         /\ Single(list) => Took(list, flags, names, Len(flags), SetAll(list, flags, names))
<1>1. PICK done : OneByOne(list, flags, names, done) /\ SetAll(list, flags, names) = done[Len(flags)]
  BY SetAllUnfolds
<1> DEFINE WellPlaced(n) == /\ done[n] \in Seq(RuleRecs(C))
                            /\ Single(list) => Took(list, flags, names, n, done[n])
           Bad == {n \in 0 .. Len(flags) : ~ WellPlaced(n)}
<1>2. ASSUME Bad # {} PROVE FALSE
  <2> HIDE DEF WellPlaced
  <2>1. PICK m \in Bad : \A k \in Bad : m <= k
    <3> HIDE DEF Bad
    <3>1. Bad \in SUBSET Nat
      BY DEF Bad
    <3> QED
      BY <3>1, <1>2, LeastNatural
  <2>2. CASE m = 0
    <3>1. Hits(flags, names, 0) = {}
      BY DEF Hits
    <3>2. Single(list) => Took(list, flags, names, 0, list)
      BY <3>1 DEF Took, Untouched
    <3> QED
      BY <2>2, <2>1, <1>1, <3>2 DEF WellPlaced, OneByOne
  <2>3. CASE m # 0
    <3>1. m \in 1 .. Len(flags) /\ m - 1 \in Nat /\ m - 1 \in 0 .. Len(flags)
      BY <2>3
    <3>2. WellPlaced(m - 1)
      BY <3>1, <2>1
    <3>3. m = (m - 1) + 1
      BY <3>1
    <3>4. Rule(flags[m]) \in RuleRecs(C)
      BY <3>1
    <3>5. CASE flags[m].flag \in names
      <4>1. done[m] = SetRule(done[m - 1], flags[m])
        BY <3>1, <3>5, <1>1 DEF OneByOne
      <4>2. done[m] \in Seq(RuleRecs(C))
        BY <4>1, <3>2, <3>4, SetRuleDoes DEF WellPlaced
      <4>3. ASSUME Single(list) PROVE Took(list, flags, names, m, done[m])
        <5>1. done[m - 1] \in Seq(RuleRecs(C)) /\ Took(list, flags, names, m - 1, done[m - 1])
          BY <3>2, <4>3 DEF WellPlaced
        <5> QED
          BY <4>1, <5>1, <3>1, <3>3, <3>4, <3>5, OneTaken
      <4> QED
        BY <4>2, <4>3, <2>1 DEF WellPlaced
    <3>6. CASE flags[m].flag \notin names
      <4>1. done[m] = done[m - 1]
        BY <3>1, <3>6, <1>1 DEF OneByOne
      <4>2. ASSUME Single(list) PROVE Took(list, flags, names, m, done[m])
        <5>1. Took(list, flags, names, m - 1, done[m - 1])
          BY <3>2, <4>2 DEF WellPlaced
        <5> QED
          BY <4>1, <5>1, <3>1, <3>3, <3>6, NotTaken
      <4> QED
        BY <4>1, <4>2, <3>2, <2>1 DEF WellPlaced
    <3> QED
      BY <3>5, <3>6
  <2> QED
    BY <2>2, <2>3
<1>3. WellPlaced(Len(flags))
  BY <1>2
<1> QED
  BY <1>1, <1>3

FlagRecs == [flag : New \cup Old, cond : Conditions(option), id : Ids]
Rules == RuleRecs(Conditions(option))

ProfileTypes ==
    /\ option \in {"profile", "forwarder"} /\ up \in BOOLEAN /\ saved \in BOOLEAN
    /\ args \in Seq(FlagRecs) /\ Len(args) <= MaxArgs /\ \A i \in DOMAIN args : args[i].id = i
    /\ stored \in Seq(FlagRecs) /\ Len(stored) <= MaxStored
    /\ \A i \in DOMAIN stored : stored[i].id = MaxArgs + i /\ stored[i].flag \notin Late
    /\ line \in Seq(FlagRecs) /\ file \in Seq(FlagRecs)
    /\ rules \in Seq(Rules) /\ deprecated \in Seq(Rules)
    /\ taken \in {"nothing", "args", "stored", "migrated", "all"}
    /\ query = Nobody \/ (taken = "all" /\ query \in AskedOf(option))
    /\ chosen \in 0 .. MaxArgs + MaxStored

(* A list has one entry for each condition of some flags, in the order in   *)
(* which the conditions came.                                               *)
Covers(list, flags) ==
    /\ \A i \in DOMAIN list : \E f \in flags : f.cond = list[i].cond
    /\ \A f \in flags : \E i \in DOMAIN list : f.cond = list[i].cond
Before(list, flags, i, k) ==
    \E f \in flags : f.cond = list[i].cond /\ \A g \in flags : g.cond = list[k].cond => Rank(f) < Rank(g)
Ordered(list, flags) ==
    /\ Single(list) /\ Covers(list, flags)
    /\ \A i, k \in DOMAIN list : i < k => Before(list, flags, i, k)

(* What was stored is in the list, what the command line gave perhaps not,  *)
(* except what is not taken again.                                          *)
Again == (New \cup Old) \ Late
OnLine(cond) == \E f \in Range(args) : f.cond = cond /\ f.flag \notin Late
StoredValues(list) == \A i \in DOMAIN list : OnLine(list[i].cond) \/ list[i].id = Value(list[i].cond)
Final(list) == Ordered(list, AllFlags) /\ \A i \in DOMAIN list : list[i].id = Value(list[i].cond)

(* Values that are right, of conditions that were given: what is added to a *)
(* list behind what it says already.                                        *)
Known(list) == \A i \in DOMAIN list : (\E f \in AllFlags : f.cond = list[i].cond) /\ list[i].id = Value(list[i].cond)

(* A list of which some head is final and the rest is known.                *)
Begun(list, n) ==
    /\ \A f \in AllFlags : \E i \in DOMAIN list : i <= n /\ f.cond = list[i].cond
    /\ \A i, k \in DOMAIN list : i < k /\ k <= n => Before(list, AllFlags, i, k)
Settled(list) == Known(list) /\ \E n \in Nat : Begun(list, n)

(* What is stored: the final list, and what is known, under the old name.   *)
Readable(flags) ==
    /\ Known(flags) /\ \A j \in DOMAIN flags : flags[j].flag \in {option, "config"}
    /\ \A f \in AllFlags : \E j \in DOMAIN flags : flags[j].flag = option /\ f.cond = flags[j].cond
    /\ \A j, m \in DOMAIN flags :
         j < m /\ flags[j].flag = option /\ flags[m].flag = option => Before(flags, AllFlags, j, m)

Named(flags, names) == {f \in flags : f.flag \in names}

FirstLife ==
    /\ line = args /\ file = stored
    /\ taken = "nothing" => rules = <<>> /\ deprecated = <<>>
    /\ taken = "args" =>
         /\ Ordered(rules, Named(Range(args), New)) /\ Ordered(deprecated, Named(Range(args), Old))
         /\ StoredValues(rules) /\ StoredValues(deprecated)
    /\ taken = "stored" =>
         /\ Ordered(rules, Named(AllFlags, New)) /\ Ordered(deprecated, Named(AllFlags, Old))
         /\ StoredValues(rules) /\ StoredValues(deprecated)
    /\ taken = "migrated" => deprecated = <<>> /\ Ordered(rules, AllFlags) /\ StoredValues(rules)
    /\ taken = "all" => Final(rules) /\ Known(deprecated)

SecondLife ==
    /\ line = <<>> /\ (taken # "stored" => deprecated = <<>>)
    /\ taken \in {"nothing", "args"} => rules = <<>> /\ Readable(file)
    /\ taken = "stored" => Final(rules) /\ Known(deprecated)
    /\ taken \in {"migrated", "all"} => Settled(rules)

Chosen(q) ==
    IF option = "forwarder" THEN GetForwarder(q) ELSE GetProfile(IF Static THEN Nobody ELSE q)

ProfileInv ==
    /\ ProfileTypes
    /\ query # Nobody => chosen = Chosen(query)
    /\ ~Unclear => IF saved THEN SecondLife ELSE FirstLife

LEMMA Bounds == MaxArgs \in Nat /\ MaxStored \in Nat
  BY ProfileAssumption

(* An identifier tells where a flag was given.                              *)
LEMMA GivenFlags ==
  ASSUME ProfileTypes
  PROVE  /\ \A f \in AllFlags : f \in FlagRecs /\ f.id \in Nat
         /\ \A f \in Range(args) : f.id \in DOMAIN args /\ args[f.id] = f /\ f.id <= MaxArgs
         /\ \A f \in Range(stored) : f.id - MaxArgs \in DOMAIN stored /\ stored[f.id - MaxArgs] = f /\ f.id > MaxArgs
         /\ \A f, g \in AllFlags : f.id = g.id => f = g
<1>1. \A f \in Range(args) : f \in FlagRecs /\ f.id \in DOMAIN args /\ args[f.id] = f /\ f.id <= MaxArgs
  BY Bounds DEF ProfileTypes, Range
<1>2. \A f \in Range(stored) : /\ f \in FlagRecs /\ f.id - MaxArgs \in DOMAIN stored
                               /\ stored[f.id - MaxArgs] = f /\ f.id > MaxArgs
  <2> TAKE f \in Range(stored)
  <2>1. PICK i \in DOMAIN stored : f = stored[i]
    BY DEF Range
  <2>2. f.id = MaxArgs + i /\ i \in Nat /\ i >= 1 /\ f \in FlagRecs
    BY <2>1 DEF ProfileTypes
  <2>3. f.id - MaxArgs = i /\ f.id > MaxArgs
    BY <2>2, Bounds
  <2> QED
    BY <2>1, <2>2, <2>3
<1>3. \A f \in AllFlags : f \in FlagRecs
  BY <1>1, <1>2 DEF AllFlags
<1>4. \A f \in FlagRecs : f.id \in Nat
  BY Bounds DEF FlagRecs, Ids
<1>5. ASSUME NEW f \in AllFlags, NEW g \in AllFlags, f.id = g.id PROVE f = g
  <2>1. CASE f.id <= MaxArgs
    <3>1. f \in Range(args) /\ g \in Range(args)
      BY <2>1, <1>2, <1>3, <1>4, <1>5, Bounds DEF AllFlags
    <3> QED
      BY <3>1, <1>1, <1>5
  <2>2. CASE ~ (f.id <= MaxArgs)
    <3>1. f \in Range(stored) /\ g \in Range(stored)
      BY <2>2, <1>1, <1>5 DEF AllFlags
    <3> QED
      BY <3>1, <1>2, <1>5
  <2> QED
    BY <2>1, <2>2
<1> QED
  BY <1>1, <1>2, <1>3, <1>4, <1>5

(* The value of a condition is that of the flag of the greatest weight.     *)
LEMMA ValueIs ==
  ASSUME ProfileTypes, NEW f \in AllFlags, \A g \in AllFlags : g.cond = f.cond => Weight(g) <= Weight(f)
  PROVE  Value(f.cond) = f.id
<1> DEFINE Of == {g \in AllFlags : g.cond = f.cond}
           e == CHOOSE h \in Of : \A g \in Of : Weight(g) <= Weight(h)
<1>1. \A g \in AllFlags : Weight(g) \in Int /\ (g.id <= MaxArgs => Weight(g) = g.id + MaxStored) /\ (g.id > MaxArgs => Weight(g) = g.id - MaxArgs)
  BY GivenFlags, Bounds DEF Weight
<1>2. \A g \in AllFlags : g.id \in Nat /\ g.id >= 1 /\ g.id <= MaxArgs + MaxStored
  BY GivenFlags, Bounds DEF FlagRecs, Ids
<1>3. \A g, h \in AllFlags : Weight(g) = Weight(h) => g.id = h.id
  BY <1>1, <1>2, Bounds
<1>4. e \in Of /\ \A g \in Of : Weight(g) <= Weight(e)
  <2>1. f \in Of /\ \A g \in Of : Weight(g) <= Weight(f)
    OBVIOUS
  <2> HIDE DEF Of
  <2> QED
    BY <2>1
<1>5. Value(f.cond) = e.id
  BY DEF Value
<1> HIDE DEF e
<1>6. Weight(e) = Weight(f)
  BY <1>1, <1>4
<1> QED
  BY <1>3, <1>4, <1>5, <1>6

LEMMA Ranks ==
  ASSUME ProfileTypes
  PROVE  /\ \A f \in AllFlags : Rank(f) \in Nat
         /\ \A f, g \in AllFlags : f.flag \notin Old /\ g.flag \in Old => Rank(f) < Rank(g)
         /\ \A f, g \in AllFlags : f.flag \notin Old /\ g.flag \notin Old => (Rank(f) < Rank(g) <=> f.id < g.id)
         /\ \A f, g \in AllFlags : f.flag \in Old /\ g.flag \in Old => (Rank(f) < Rank(g) <=> f.id < g.id)
         /\ \A f, g \in AllFlags : Rank(f) = Rank(g) => f = g
<1>1. \A g \in AllFlags : g.id \in Nat /\ g.id >= 1 /\ g.id <= MaxArgs + MaxStored
  BY GivenFlags, Bounds DEF FlagRecs, Ids
<1>2. \A g \in AllFlags : Rank(g) = IF g.flag \in Old THEN g.id + MaxArgs + MaxStored ELSE g.id
  BY DEF Rank
<1>3. \A f, g \in AllFlags : f.id = g.id => f = g
  BY GivenFlags
<1>4. \A f, g \in AllFlags : Rank(f) = Rank(g) => f.id = g.id
  BY <1>1, <1>2, Bounds
<1> QED
  BY <1>1, <1>2, <1>3, <1>4, Bounds

(* No condition is given under the old name and in another way.             *)
LEMMA NoClash ==
  ASSUME ProfileTypes, ~Unclear, NEW f \in AllFlags, NEW g \in AllFlags, f.flag \in Old, g.flag # f.flag
  PROVE  f.cond # g.cond
BY DEF Unclear

(* Nothing of a clear flag is lost.                                         *)
LEMMA ClearRule ==
  ASSUME ProfileTypes, ~Unclear, NEW f, NEW g \in AllFlags, f.cond = g.cond
  PROVE  Rule(f) = [cond |-> f.cond, id |-> f.id]
BY DEF Rule, Unclear

LEMMA RuleTyped ==
  ASSUME ProfileTypes, NEW f \in FlagRecs
  PROVE  Rule(f) \in Rules /\ Rule(f).cond = (IF f.cond = "iface" /\ ~up THEN "none" ELSE f.cond) /\ Rule(f).id = f.id
BY DEF Rule, Rules, RuleRecs, FlagRecs, Conditions

(* A pass over a sequence of flags that stand in the order of their         *)
(* identifiers: args, or stored.                                            *)
Passed(flags) ==
    /\ DOMAIN flags = 1 .. Len(flags) /\ Len(flags) \in Nat
    /\ \A j \in DOMAIN flags : flags[j] \in AllFlags /\ Rule(flags[j]) = [cond |-> flags[j].cond, id |-> flags[j].id]
    /\ \A j, k \in DOMAIN flags : j < k => flags[j].id < flags[k].id

LEMMA ArgsPassed == ASSUME ProfileTypes, ~Unclear PROVE Passed(args) /\ Passed(stored)
<1>1. \A f \in AllFlags : Rule(f) = [cond |-> f.cond, id |-> f.id]
  BY ClearRule
<1>2. DOMAIN args = 1 .. Len(args) /\ Len(args) \in Nat /\ DOMAIN stored = 1 .. Len(stored) /\ Len(stored) \in Nat
  BY DEF ProfileTypes
<1>3. \A j \in DOMAIN args : args[j] \in AllFlags
  BY DEF AllFlags, Range
<1>4. \A j \in DOMAIN stored : stored[j] \in AllFlags
  BY DEF AllFlags, Range
<1>5. \A j \in DOMAIN stored : stored[j].id = MaxArgs + j /\ j \in Nat
  BY <1>2 DEF ProfileTypes
<1>6. \A j \in DOMAIN args : args[j].id = j
  BY DEF ProfileTypes
<1> QED
  BY <1>1, <1>2, <1>3, <1>4, <1>5, <1>6, Bounds DEF Passed

LEMMA HitConds ==
  ASSUME NEW flags, Passed(flags), NEW names
  PROVE  \A j \in Hits(flags, names, Len(flags)) :
           /\ j \in DOMAIN flags /\ j \in Nat /\ flags[j].flag \in names
           /\ flags[j] \in Named(Range(flags), names) /\ CondOf(flags, j) = flags[j].cond
           /\ Rule(flags[j]).id = flags[j].id
  BY DEF Passed, Hits, Named, Range, CondOf

LEMMA NamedHit ==
  ASSUME NEW flags, Passed(flags), NEW names, NEW f \in Named(Range(flags), names)
  PROVE  \E j \in Hits(flags, names, Len(flags)) : f = flags[j]
  BY DEF Passed, Hits, Named, Range

(* The flags of a pass, added to a list of flags that came before them.     *)
LEMMA PassAdds ==
  ASSUME ProfileTypes, NEW F \in SUBSET AllFlags, NEW list, NEW flags, NEW names, NEW new,
         Passed(flags), names \in {New, Old},
         DOMAIN list = 1 .. Len(list), Len(list) \in Nat, DOMAIN new = 1 .. Len(new), Len(new) \in Nat,
         Ordered(list, F), \A f \in F : f.flag \in names,
         \A f \in F, j \in DOMAIN flags : f.id < flags[j].id,
         Took(list, flags, names, Len(flags), new)
  PROVE  Ordered(new, F \cup Named(Range(flags), names))
<1> DEFINE G == Named(Range(flags), names)
           H == Hits(flags, names, Len(flags))
<1> HIDE DEF G, H
<1>1. \A j \in H : /\ j \in DOMAIN flags /\ j \in Nat /\ flags[j].flag \in names
                   /\ flags[j] \in G /\ CondOf(flags, j) = flags[j].cond /\ Rule(flags[j]).id = flags[j].id
  BY HitConds DEF G, H
<1>2. \A f \in G : \E j \in H : f = flags[j]
  BY NamedHit DEF G, H
<1>3. G \subseteq AllFlags /\ \A f \in G : f.flag \in names
  BY DEF G, Named, Passed, Range
<1>4. \A f, g \in F \cup G : Rank(f) < Rank(g) <=> f.id < g.id
  <2>1. (\A f \in F \cup G : f.flag \notin Old) \/ (\A f \in F \cup G : f.flag \in Old)
    BY <1>3 DEF New, Old
  <2> QED
    BY <2>1, <1>3, Ranks
<1>5. \A i \in DOMAIN new : \/ \E j \in H : flags[j].cond = new[i].cond
                            \/ i \in DOMAIN list /\ new[i].cond = list[i].cond
  <2> TAKE i \in DOMAIN new
  <2>1. CASE LastHit(flags, names, Len(flags), new[i])
    BY <2>1, <1>1 DEF LastHit, H, CondOf
  <2>2. CASE i \in DOMAIN list /\ new[i] = list[i]
    BY <2>2
  <2> QED
    BY <2>1, <2>2 DEF Took
<1>6. Covers(new, F \cup G)
  <2>1. ASSUME NEW i \in DOMAIN new PROVE \E f \in F \cup G : f.cond = new[i].cond
    BY <1>5, <1>1 DEF Ordered, Covers
  <2>2. ASSUME NEW f \in F PROVE \E i \in DOMAIN new : f.cond = new[i].cond
    <3>1. PICK i \in DOMAIN list : f.cond = list[i].cond
      BY DEF Ordered, Covers
    <3> QED
      BY <3>1 DEF Took
  <2>3. ASSUME NEW f \in G PROVE \E i \in DOMAIN new : f.cond = new[i].cond
    <3>1. PICK j \in H : f = flags[j]
      BY <1>2
    <3>2. PICK i \in DOMAIN new : new[i].cond = CondOf(flags, j)
      BY DEF Took, H
    <3> QED
      BY <3>1, <3>2, <1>1
  <2> QED
    BY <2>1, <2>2, <2>3 DEF Covers
<1>7. ASSUME NEW i \in DOMAIN new, NEW k \in DOMAIN new, i < k PROVE Before(new, F \cup G, i, k)
  <2>1. CASE k \in DOMAIN list
    <3>1. i \in DOMAIN list
      BY <2>1, <1>7
    <3>2. PICK f \in F : f.cond = list[i].cond /\ \A g \in F : g.cond = list[k].cond => Rank(f) < Rank(g)
      BY <2>1, <3>1, <1>7 DEF Ordered, Before
    <3>3. new[i].cond = list[i].cond /\ new[k].cond = list[k].cond
      BY <2>1, <3>1 DEF Took
    <3>4. \A g \in G : f.id < g.id
      BY <1>1, <1>2
    <3> QED
      BY <3>2, <3>3, <3>4, <1>4 DEF Before
  <2>2. CASE k \notin DOMAIN list /\ i \in DOMAIN list
    <3>1. PICK f \in F : f.cond = list[i].cond
      BY <2>2 DEF Ordered, Covers
    <3>2. \A g \in F : g.cond # new[k].cond
      <4>1. ASSUME NEW g \in F, g.cond = new[k].cond PROVE FALSE
        <5>1. PICK m \in DOMAIN list : g.cond = list[m].cond
          BY DEF Ordered, Covers
        <5>2. m \in DOMAIN new /\ new[m].cond = new[k].cond
          BY <5>1, <4>1 DEF Took
        <5> QED
          BY <5>2, <5>1, <2>2 DEF Took, Single
      <4> QED
        BY <4>1
    <3>3. \A g \in G : f.id < g.id
      BY <1>1, <1>2
    <3>4. new[i].cond = list[i].cond
      BY <2>2 DEF Took
    <3> QED
      BY <3>1, <3>2, <3>3, <3>4, <1>4 DEF Before
  <2>3. CASE k \notin DOMAIN list /\ i \notin DOMAIN list
    <3>1. HitBefore(flags, names, Len(flags), new[i].cond, new[k].cond)
      BY <2>3, <1>7 DEF Took
    <3>2. PICK j \in H : CondOf(flags, j) = new[i].cond /\ \A m \in H : CondOf(flags, m) = new[k].cond => j < m
      BY <3>1 DEF HitBefore, H
    <3>3. \A g \in F : g.cond # new[k].cond
      <4>1. ASSUME NEW g \in F, g.cond = new[k].cond PROVE FALSE
        <5>1. PICK m \in DOMAIN list : g.cond = list[m].cond
          BY DEF Ordered, Covers
        <5>2. m \in DOMAIN new /\ new[m].cond = new[k].cond
          BY <5>1, <4>1 DEF Took
        <5> QED
          BY <5>2, <5>1, <2>3 DEF Took, Single
      <4> QED
        BY <4>1
    <3>4. \A g \in G : g.cond = new[k].cond => flags[j].id < g.id
      BY <3>2, <1>1, <1>2 DEF Passed
    <3>5. flags[j] \in G /\ flags[j].cond = new[i].cond
      BY <3>2, <1>1
    <3> QED
      BY <3>3, <3>4, <3>5, <1>4 DEF Before
  <2> QED
    BY <2>1, <2>2, <2>3
<1>8. Single(new)
  BY DEF Took
<1> QED
  BY <1>6, <1>7, <1>8 DEF Ordered, G

(* The first flags.                                                         *)
LEMMA EmptyOrdered == Ordered(<<>>, {}) /\ StoredValues(<<>>)
  BY DEF Ordered, Single, Covers, StoredValues

(* What is not taken again has its value, of the last of its kind.          *)
LEMMA LateValue ==
  ASSUME ProfileTypes, ~Unclear, NEW names, Late \subseteq names, NEW v, LastHit(args, names, Len(args), v),
         NEW e \in Range(args), e.cond = v.cond, e.flag \in Late
  PROVE  v.id = Value(v.cond)
<1> DEFINE H == Hits(args, names, Len(args))
<1> HIDE DEF H
<1>0. Passed(args)
  BY ArgsPassed
<1>1. \A j \in H : /\ j \in DOMAIN args /\ j \in Nat
                   /\ CondOf(args, j) = args[j].cond /\ Rule(args[j]).id = args[j].id
                   /\ Rule(args[j]).cond = args[j].cond
  BY <1>0, HitConds DEF H, CondOf
<1>2. PICK j \in H : v = Rule(args[j]) /\ \A k \in H : k > j => CondOf(args, k) # v.cond
  BY DEF LastHit, H
<1>3. args[j] \in AllFlags /\ args[j].cond = v.cond /\ args[j].id = v.id
  BY <1>1, <1>2 DEF AllFlags, Range
<1>4. e \in AllFlags /\ e.flag = "config=" /\ "config=" \in Old
  BY DEF AllFlags, Late, Old
<1>5. ASSUME NEW g \in AllFlags, g.cond = v.cond PROVE Weight(g) <= Weight(args[j])
  <2>1. g.flag = "config="
    BY <1>4, <1>5, NoClash
  <2>2. g \in Range(args)
    BY <2>1 DEF AllFlags, ProfileTypes, Range, Late
  <2>3. PICK k \in DOMAIN args : g = args[k]
    BY <2>2 DEF Range
  <2>4. k \in H
    BY <2>1, <2>3, <1>0 DEF H, Hits, Passed, Late
  <2>5. ~ (k > j) /\ k \in Nat /\ j \in Nat
    BY <2>3, <2>4, <1>1, <1>2, <1>5
  <2>6. args[k].id = k /\ args[j].id = j /\ k <= MaxArgs /\ j <= MaxArgs
    <3>1. k \in DOMAIN args /\ j \in DOMAIN args /\ DOMAIN args = 1 .. Len(args) /\ Len(args) <= MaxArgs /\ Len(args) \in Nat
      BY <2>3, <1>0, <1>1 DEF ProfileTypes, Passed
    <3> QED
      BY <3>1, Bounds DEF ProfileTypes
  <2> QED
    BY <2>3, <2>5, <2>6, Bounds DEF Weight
<1> QED
  BY <1>3, <1>5, ValueIs

(* What the command line gives a list that was empty.                       *)
LEMMA ArgsGive ==
  ASSUME ProfileTypes, ~Unclear, NEW names \in {New, Old, Late}, NEW new, Took(<<>>, args, names, Len(args), new)
  PROVE  StoredValues(new) /\ (names = Late => Known(new))
<1>0. Passed(args)
  BY ArgsPassed
<1>1. \A i \in DOMAIN new : LastHit(args, names, Len(args), new[i])
  BY DEF Took
<1>2. ASSUME NEW i \in DOMAIN new
      PROVE  \E e \in Range(args) : e.cond = new[i].cond /\ e.flag \in names
  <2>1. PICK j \in Hits(args, names, Len(args)) : new[i] = Rule(args[j])
    BY <1>1 DEF LastHit
  <2>2. args[j] \in Named(Range(args), names) /\ Rule(args[j]).cond = args[j].cond
    BY <1>0, HitConds DEF CondOf
  <2> QED
    BY <2>1, <2>2 DEF Named
<1>3. ASSUME NEW i \in DOMAIN new, ~ OnLine(new[i].cond) \/ names = Late PROVE new[i].id = Value(new[i].cond)
  <2>1. PICK e \in Range(args) : e.cond = new[i].cond /\ e.flag \in names
    BY <1>2
  <2>2. e.flag \in Late
    BY <1>3, <2>1 DEF OnLine
  <2>3. Late \subseteq names
    BY <2>1, <2>2 DEF New, Old, Late
  <2>4. PICK v : v = new[i]
    OBVIOUS
  <2>5. LastHit(args, names, Len(args), v) /\ e.cond = v.cond
    BY <1>1, <2>1, <2>4
  <2>6. v.id = Value(v.cond)
    BY <2>2, <2>3, <2>5, LateValue
  <2> QED
    BY <2>4, <2>6
<1>4. \A e \in Range(args) : e \in AllFlags
  BY DEF AllFlags
<1> QED
  BY <1>2, <1>3, <1>4 DEF StoredValues, Known

(* What the stored configuration gives a list, unless the command line did. *)
LEMMA StoredGives ==
  ASSUME ProfileTypes, ~Unclear, NEW list, NEW names \in {New, Old}, NEW new,
         StoredValues(list), Took(list, stored, names, Len(stored), new)
  PROVE  StoredValues(new)
<1> DEFINE H == Hits(stored, names, Len(stored))
<1> HIDE DEF H
<1>0. Passed(stored)
  BY ArgsPassed
<1>1. \A j \in H : /\ j \in DOMAIN stored /\ j \in Nat /\ stored[j].flag \in names
                   /\ CondOf(stored, j) = stored[j].cond /\ Rule(stored[j]).id = stored[j].id
                   /\ Rule(stored[j]).cond = stored[j].cond
  BY <1>0, HitConds DEF H, CondOf
<1>2. SUFFICES ASSUME NEW i \in DOMAIN new, ~ OnLine(new[i].cond) PROVE new[i].id = Value(new[i].cond)
  BY DEF StoredValues
<1>3. CASE LastHit(stored, names, Len(stored), new[i])
  <2>1. PICK j \in H : new[i] = Rule(stored[j]) /\ \A k \in H : k > j => CondOf(stored, k) # new[i].cond
    BY <1>3 DEF LastHit, H
  <2>2. stored[j] \in AllFlags /\ stored[j].cond = new[i].cond /\ stored[j].id = new[i].id /\ stored[j].flag \in names
    BY <2>1, <1>0, <1>1 DEF Passed
  <2>3. ASSUME NEW g \in AllFlags, g.cond = new[i].cond PROVE Weight(g) <= Weight(stored[j])
    <3>1. g \in Range(stored)
      <4>1. ASSUME g \in Range(args) PROVE FALSE
        <5>1. g.flag \in Late /\ g.flag \in Old
          BY <4>1, <1>2, <2>3 DEF OnLine, Late, Old
        <5>2. stored[j].flag \notin Late
          BY <1>1 DEF ProfileTypes
        <5> QED
          BY <5>1, <5>2, <2>2, <2>3, NoClash
      <4> QED
        BY <4>1 DEF AllFlags
    <3>2. PICK k \in DOMAIN stored : g = stored[k]
      BY <3>1 DEF Range
    <3>3. g.flag \in names
      <4>1. g \in FlagRecs
        BY GivenFlags
      <4>2. g.flag \in New \cup Old
        BY <4>1 DEF FlagRecs, Names, New, Old, ProfileTypes
      <4>3. g.flag = stored[j].flag \/ (g.flag \in New /\ stored[j].flag \in New)
        BY <4>2, <2>2, <2>3, NoClash DEF New, Old
      <4> QED
        BY <4>3, <2>2 DEF New, Old
    <3>4. k \in H
      BY <3>2, <3>3, <1>0 DEF H, Hits, Passed
    <3>5. ~ (k > j)
      BY <3>4, <2>1, <1>1, <3>2, <2>3
    <3>6. stored[k].id = MaxArgs + k /\ stored[j].id = MaxArgs + j /\ k \in Nat /\ j \in Nat /\ k >= 1 /\ j >= 1
      BY <1>1, <3>4, <1>0 DEF ProfileTypes, Passed
    <3> QED
      BY <3>2, <3>5, <3>6, Bounds DEF Weight
  <2> QED
    BY <2>2, <2>3, ValueIs
<1>4. CASE i \in DOMAIN list /\ new[i] = list[i]
  BY <1>2, <1>4 DEF StoredValues
<1> QED
  BY <1>3, <1>4 DEF Took

(* Migrate: the old name behind the new (config.go:226).                    *)
LEMMA Migrated ==
  ASSUME ProfileTypes, ~Unclear, Ordered(rules, Named(AllFlags, New)), Ordered(deprecated, Named(AllFlags, Old)),
         StoredValues(rules), StoredValues(deprecated)
  PROVE  Ordered(rules \o deprecated, AllFlags) /\ StoredValues(rules \o deprecated)
<1> DEFINE all == rules \o deprecated
           n == Len(rules)
<1>1. /\ n \in Nat /\ DOMAIN rules = 1 .. n /\ Len(deprecated) \in Nat /\ DOMAIN deprecated = 1 .. Len(deprecated)
      /\ DOMAIN all = 1 .. n + Len(deprecated)
      /\ \A i \in DOMAIN rules : all[i] = rules[i]
      /\ \A i \in DOMAIN all : i > n => i - n \in DOMAIN deprecated /\ all[i] = deprecated[i - n]
      /\ \A i \in DOMAIN deprecated : i + n \in DOMAIN all /\ all[i + n] = deprecated[i]
  BY DEF ProfileTypes
<1> HIDE DEF all
<1>2. \A f \in AllFlags : f \in Named(AllFlags, New) \/ f \in Named(AllFlags, Old)
  <2>1. \A f \in AllFlags : f \in FlagRecs
    BY GivenFlags
  <2> QED
    BY <2>1 DEF FlagRecs, Names, New, Old, ProfileTypes, Named
<1>3. \A f \in Named(AllFlags, New), g \in Named(AllFlags, Old) : f.cond # g.cond /\ Rank(f) < Rank(g)
  <2>1. \A f \in Named(AllFlags, New), g \in Named(AllFlags, Old) : f.flag \notin Old /\ f.flag # g.flag
    BY DEF Named, New, Old
  <2> QED
    BY <2>1, NoClash, Ranks DEF Named
<1>4. \A i \in DOMAIN rules : \E f \in Named(AllFlags, New) : f.cond = rules[i].cond
  BY DEF Ordered, Covers
<1>5. \A i \in DOMAIN deprecated : \E f \in Named(AllFlags, Old) : f.cond = deprecated[i].cond
  BY DEF Ordered, Covers
<1>6. \A i \in DOMAIN all : i \in DOMAIN rules \/ (i > n /\ i - n \in DOMAIN deprecated)
  BY <1>1
<1>7. Covers(all, AllFlags)
  <2>1. ASSUME NEW i \in DOMAIN all PROVE \E f \in AllFlags : f.cond = all[i].cond
    BY <1>1, <1>4, <1>5, <1>6 DEF Named
  <2>2. ASSUME NEW f \in AllFlags PROVE \E i \in DOMAIN all : f.cond = all[i].cond
    <3>1. CASE f \in Named(AllFlags, New)
      <4>1. PICK i \in DOMAIN rules : f.cond = rules[i].cond
        BY <3>1 DEF Ordered, Covers
      <4> QED
        BY <4>1, <1>1
    <3>2. CASE f \in Named(AllFlags, Old)
      <4>1. PICK i \in DOMAIN deprecated : f.cond = deprecated[i].cond
        BY <3>2 DEF Ordered, Covers
      <4> QED
        BY <4>1, <1>1
    <3> QED
      BY <3>1, <3>2, <1>2
  <2> QED
    BY <2>1, <2>2 DEF Covers
<1>8. ASSUME NEW i \in DOMAIN all, NEW k \in DOMAIN all, i < k PROVE Before(all, AllFlags, i, k) /\ all[i].cond # all[k].cond
  <2>1. CASE k \in DOMAIN rules
    <3>1. i \in DOMAIN rules /\ all[i] = rules[i] /\ all[k] = rules[k]
      BY <2>1, <1>1, <1>8
    <3>2. PICK f \in Named(AllFlags, New) :
            f.cond = rules[i].cond /\ \A g \in Named(AllFlags, New) : g.cond = rules[k].cond => Rank(f) < Rank(g)
      BY <2>1, <3>1, <1>8 DEF Ordered, Before
    <3>3. \A g \in AllFlags : g.cond = rules[k].cond => Rank(f) < Rank(g)
      BY <3>2, <1>2, <1>3
    <3>4. rules[i].cond # rules[k].cond
      BY <2>1, <3>1, <1>8, <1>1 DEF Ordered, Single
    <3> QED
      BY <3>1, <3>2, <3>3, <3>4 DEF Before, Named
  <2>2. CASE k > n /\ k - n \in DOMAIN deprecated /\ i \in DOMAIN rules
    <3>1. all[i] = rules[i] /\ all[k] = deprecated[k - n]
      BY <2>2, <1>1
    <3>2. PICK f \in Named(AllFlags, New) : f.cond = rules[i].cond
      BY <2>2, <1>4
    <3>3. PICK h \in Named(AllFlags, Old) : h.cond = deprecated[k - n].cond
      BY <2>2, <1>5
    <3>4. \A g \in AllFlags : g.cond = deprecated[k - n].cond => Rank(f) < Rank(g)
      BY <3>3, <1>2, <1>3
    <3> QED
      BY <3>1, <3>2, <3>3, <3>4, <1>3 DEF Before, Named
  <2>3. CASE k > n /\ k - n \in DOMAIN deprecated /\ i > n /\ i - n \in DOMAIN deprecated
    <3>1. all[i] = deprecated[i - n] /\ all[k] = deprecated[k - n] /\ i - n < k - n
      BY <2>3, <1>1, <1>8
    <3>2. PICK a, b : a = i - n /\ b = k - n
      OBVIOUS
    <3>3. a \in DOMAIN deprecated /\ b \in DOMAIN deprecated /\ a < b /\ a # b
      BY <2>3, <3>1, <3>2, <1>1
    <3>4. PICK f \in Named(AllFlags, Old) :
            f.cond = deprecated[a].cond /\ \A g \in Named(AllFlags, Old) : g.cond = deprecated[b].cond => Rank(f) < Rank(g)
      BY <3>3 DEF Ordered, Before
    <3>5. PICK h \in Named(AllFlags, Old) : h.cond = deprecated[b].cond
      BY <3>3, <1>5
    <3>6. \A g \in AllFlags : g.cond = deprecated[b].cond => Rank(f) < Rank(g)
      BY <3>4, <3>5, <1>2, <1>3
    <3>7. deprecated[a].cond # deprecated[b].cond
      BY <3>3 DEF Ordered, Single
    <3> QED
      BY <3>1, <3>2, <3>4, <3>6, <3>7 DEF Before, Named
  <2> QED
    BY <2>1, <2>2, <2>3, <1>6, <1>1, <1>8
<1>9. Single(all)
  BY <1>8, <1>1 DEF Single
<1>10. StoredValues(all)
  BY <1>1, <1>6 DEF StoredValues
<1> QED
  BY <1>7, <1>8, <1>9, <1>10 DEF Ordered, all

(* The command line again, over all that was taken (config.go:235).         *)
LEMMA TakenAgain ==
  ASSUME ProfileTypes, ~Unclear, NEW list, NEW new, Ordered(list, AllFlags), StoredValues(list),
         DOMAIN list = 1 .. Len(list), Len(list) \in Nat, DOMAIN new = 1 .. Len(new), Len(new) \in Nat,
         Took(list, args, Again, Len(args), new)
  PROVE  Final(new)
<1> DEFINE H == Hits(args, Again, Len(args))
<1> HIDE DEF H
<1>0. Passed(args)
  BY ArgsPassed
<1>1. \A j \in H : /\ j \in DOMAIN args /\ j \in Nat
                   /\ CondOf(args, j) = args[j].cond /\ Rule(args[j]).id = args[j].id
                   /\ Rule(args[j]).cond = args[j].cond
  BY <1>0, HitConds DEF H, CondOf
<1>2. \A j \in DOMAIN args : args[j].flag \notin Late => j \in H
  <2>0. \A j \in DOMAIN args : args[j] \in FlagRecs
    BY DEF ProfileTypes
  <2>1. \A j \in DOMAIN args : args[j].flag \notin Late => args[j].flag \in Again
    BY <2>0 DEF FlagRecs, Names, New, Old, Again
  <2> QED
    BY <2>1, <1>0 DEF H, Hits, Passed
<1>3. \A j \in DOMAIN args : args[j] \in AllFlags
  BY DEF AllFlags, Range
<1>4. DOMAIN new = DOMAIN list
  <2>1. ASSUME NEW i \in DOMAIN new PROVE i \in DOMAIN list
    <3>1. CASE LastHit(args, Again, Len(args), new[i])
      <4>1. PICK j \in H : new[i] = Rule(args[j])
        BY <3>1 DEF LastHit, H
      <4>2. args[j] \in AllFlags /\ args[j].cond = new[i].cond
        BY <4>1, <1>1, <1>3
      <4>3. PICK m \in DOMAIN list : list[m].cond = new[i].cond
        BY <4>2 DEF Ordered, Covers
      <4> QED
        BY <4>3 DEF Took, Single
    <3> QED
      BY <3>1 DEF Took
  <2> QED
    BY <2>1 DEF Took
<1>5. \A i \in DOMAIN list : new[i].cond = list[i].cond
  BY DEF Took
<1>6. Ordered(new, AllFlags)
  <2>1. Single(new) /\ Covers(new, AllFlags)
    BY <1>4, <1>5 DEF Took, Ordered, Covers
  <2>2. \A i, k \in DOMAIN new : i < k => Before(new, AllFlags, i, k)
    BY <1>4, <1>5 DEF Ordered, Before
  <2> QED
    BY <2>1, <2>2 DEF Ordered
<1>7. ASSUME NEW i \in DOMAIN new PROVE new[i].id = Value(new[i].cond)
  <2>1. CASE LastHit(args, Again, Len(args), new[i])
    <3>1. PICK j \in H : new[i] = Rule(args[j]) /\ \A k \in H : k > j => CondOf(args, k) # new[i].cond
      BY <2>1 DEF LastHit, H
    <3>2. args[j] \in AllFlags /\ args[j].cond = new[i].cond /\ args[j].id = new[i].id
      BY <3>1, <1>1, <1>3
    <3>3. ASSUME NEW g \in AllFlags, g.cond = new[i].cond PROVE Weight(g) <= Weight(args[j])
      <4>0. /\ g.id \in Nat /\ g.id <= MaxArgs + MaxStored /\ args[j].id = j /\ j \in Nat /\ j >= 1 /\ j <= MaxArgs
        <5>1. g \in FlagRecs
          BY GivenFlags
        <5>2. j \in DOMAIN args /\ DOMAIN args = 1 .. Len(args) /\ Len(args) <= MaxArgs /\ Len(args) \in Nat
          BY <1>1, <1>0 DEF ProfileTypes, Passed
        <5>3. g.id \in Ids /\ args[j].id = j
          BY <5>1, <5>2 DEF FlagRecs, ProfileTypes
        <5> QED
          BY <5>2, <5>3, Bounds DEF Ids
      <4>1. CASE g \in Range(args)
        <5>1. PICK k \in DOMAIN args : g = args[k]
          BY <4>1 DEF Range
        <5>4. args[j].flag \notin Late
          BY <1>0, HitConds DEF H, Again
        <5>5. g.flag \notin Late
          <6>1. CASE g.flag \in Late
            <7>1. g.flag \in Old /\ args[j].flag # g.flag
              BY <6>1, <5>4 DEF Late, Old
            <7> QED
              BY <7>1, <3>2, <3>3, NoClash
          <6> QED
            BY <6>1
        <5>2. ~ (k > j) /\ k \in Nat
          BY <5>1, <5>5, <3>1, <1>1, <1>2, <3>3
        <5>3. args[k].id = k
          BY DEF ProfileTypes
        <5> QED
          BY <4>0, <5>1, <5>2, <5>3, Bounds DEF Weight
      <4>2. CASE g \in Range(stored)
        <5>1. g.id > MaxArgs
          BY <4>2, GivenFlags
        <5> QED
          BY <4>0, <5>1, Bounds DEF Weight
      <4> QED
        BY <4>1, <4>2 DEF AllFlags
    <3> QED
      BY <3>2, <3>3, ValueIs
  <2>2. CASE i \in DOMAIN list /\ new[i] = list[i] /\ Untouched(args, Again, Len(args), new[i].cond)
    <3>1. ~ OnLine(new[i].cond)
      <4>1. ASSUME NEW k \in DOMAIN args, args[k].cond = new[i].cond, args[k].flag \notin Late PROVE FALSE
        <5>1. k \in H /\ CondOf(args, k) = args[k].cond
          BY <4>1, <1>1, <1>2
        <5> QED
          BY <5>1, <4>1, <2>2 DEF Untouched, H
      <4> QED
        BY <4>1 DEF OnLine, Range
    <3> QED
      BY <2>2, <3>1 DEF StoredValues
  <2> QED
    BY <2>1, <2>2 DEF Took
<1> QED
  BY <1>6, <1>7 DEF Final

(* A list that was stored is read back as it was (config.go:218).           *)
LEMMA ReadAgain ==
  ASSUME ProfileTypes, ~Unclear, saved, Readable(file), NEW new, Took(<<>>, file, New, Len(file), new)
  PROVE  Final(new)
<1> DEFINE H == Hits(file, New, Len(file))
<1> HIDE DEF H
<1>1. DOMAIN file = 1 .. Len(file) /\ Len(file) \in Nat
  BY DEF ProfileTypes
<1>2. \A j \in DOMAIN file : file[j].flag = option => j \in H /\ j \in Nat
  BY <1>1 DEF H, Hits, New, ProfileTypes
<1>3. \A j \in H : j \in DOMAIN file /\ file[j].flag = option
  BY <1>1 DEF H, Hits, New, Readable, ProfileTypes
<1>4. ASSUME NEW j \in DOMAIN file
      PROVE  Rule(file[j]) = [cond |-> file[j].cond, id |-> file[j].id] /\ CondOf(file, j) = file[j].cond
  <2>1. PICK g \in AllFlags : g.cond = file[j].cond
    BY DEF Readable, Known
  <2>2. Rule(file[j]) = [cond |-> file[j].cond, id |-> file[j].id]
    BY <2>1, ClearRule
  <2> QED
    BY <2>2 DEF CondOf
<1>5. ASSUME NEW i \in DOMAIN new
      PROVE  \E j \in DOMAIN file : file[j].flag = option /\ new[i].cond = file[j].cond /\ new[i].id = file[j].id
  <2>1. LastHit(file, New, Len(file), new[i])
    BY DEF Took
  <2> QED
    BY <2>1, <1>3, <1>4 DEF LastHit, H
<1>6. Covers(new, AllFlags)
  <2>1. ASSUME NEW i \in DOMAIN new PROVE \E f \in AllFlags : f.cond = new[i].cond
    BY <1>5 DEF Readable, Known
  <2>2. ASSUME NEW f \in AllFlags PROVE \E i \in DOMAIN new : f.cond = new[i].cond
    <3>1. PICK j \in DOMAIN file : file[j].flag = option /\ f.cond = file[j].cond
      BY DEF Readable
    <3> QED
      BY <3>1, <1>2, <1>4 DEF Took, H
  <2> QED
    BY <2>1, <2>2 DEF Covers
<1>7. ASSUME NEW i \in DOMAIN new, NEW k \in DOMAIN new, i < k PROVE Before(new, AllFlags, i, k)
  <2>1. HitBefore(file, New, Len(file), new[i].cond, new[k].cond)
    BY <1>7 DEF Took
  <2>2. PICK j \in H : CondOf(file, j) = new[i].cond /\ \A m \in H : CondOf(file, m) = new[k].cond => j < m
    BY <2>1 DEF HitBefore, H
  <2>3. PICK m \in DOMAIN file : file[m].flag = option /\ new[k].cond = file[m].cond
    BY <1>5
  <2>4. j \in DOMAIN file /\ file[j].flag = option /\ j < m /\ file[j].cond = new[i].cond
    BY <2>2, <2>3, <1>2, <1>3, <1>4
  <2>5. Before(file, AllFlags, j, m)
    BY <2>3, <2>4 DEF Readable
  <2> QED
    BY <2>3, <2>4, <2>5 DEF Before
<1>8. ASSUME NEW i \in DOMAIN new PROVE new[i].id = Value(new[i].cond)
  BY <1>5 DEF Readable, Known
<1>9. Single(new)
  BY DEF Took
<1> QED
  BY <1>6, <1>7, <1>8, <1>9 DEF Final, Ordered

(* And what was stored under the old name.                                  *)
LEMMA OldReadAgain ==
  ASSUME ProfileTypes, ~Unclear, saved, Readable(file), NEW new, Took(<<>>, file, Old, Len(file), new)
  PROVE  Known(new)
<1>1. DOMAIN file = 1 .. Len(file) /\ Len(file) \in Nat
  BY DEF ProfileTypes
<1>2. ASSUME NEW j \in DOMAIN file PROVE Rule(file[j]) = [cond |-> file[j].cond, id |-> file[j].id]
  <2>1. PICK g \in AllFlags : g.cond = file[j].cond
    BY DEF Readable, Known
  <2> QED
    BY <2>1, ClearRule
<1>3. ASSUME NEW i \in DOMAIN new
      PROVE  \E j \in DOMAIN file : new[i].cond = file[j].cond /\ new[i].id = file[j].id
  <2>1. LastHit(file, Old, Len(file), new[i])
    BY DEF Took
  <2>2. PICK j \in Hits(file, Old, Len(file)) : new[i] = Rule(file[j])
    BY <2>1 DEF LastHit
  <2>3. j \in DOMAIN file
    BY <1>1 DEF Hits
  <2> QED
    BY <2>2, <2>3, <1>2
<1> QED
  BY <1>3 DEF Readable, Known

(* A final list, with what is known behind it.                              *)
LEMMA AddsKnown ==
  ASSUME ProfileTypes, Final(rules), Known(deprecated)
  PROVE  Settled(rules \o deprecated)
<1> DEFINE all == rules \o deprecated
           n == Len(rules)
<1>1. /\ n \in Nat /\ DOMAIN rules = 1 .. n /\ DOMAIN all \subseteq Nat
      /\ \A i \in DOMAIN rules : i \in DOMAIN all /\ all[i] = rules[i] /\ i <= n
      /\ \A i \in DOMAIN all : i <= n => i \in DOMAIN rules
      /\ \A i \in DOMAIN all : i > n => i - n \in DOMAIN deprecated /\ all[i] = deprecated[i - n]
  BY DEF ProfileTypes
<1> HIDE DEF all, n
<1>2. ASSUME NEW i \in DOMAIN all PROVE (\E f \in AllFlags : f.cond = all[i].cond) /\ all[i].id = Value(all[i].cond)
  <2>1. CASE i <= n
    BY <2>1, <1>1 DEF Final, Ordered, Covers
  <2>2. CASE i > n
    BY <2>2, <1>1 DEF Known
  <2> QED
    BY <2>1, <2>2, <1>1
<1>3. ASSUME NEW f \in AllFlags PROVE \E i \in DOMAIN all : i <= n /\ f.cond = all[i].cond
  BY <1>1 DEF Final, Ordered, Covers
<1>4. ASSUME NEW i \in DOMAIN all, NEW k \in DOMAIN all, i < k, k <= n PROVE Before(all, AllFlags, i, k)
  <2>1. i \in DOMAIN rules /\ k \in DOMAIN rules
    BY <1>1, <1>4
  <2>2. Before(rules, AllFlags, i, k)
    BY <2>1, <1>4 DEF Final, Ordered
  <2> QED
    BY <2>1, <2>2, <1>1 DEF Before
<1> QED
  BY <1>1, <1>2, <1>3, <1>4 DEF Settled, Begun, Known, all

LEMMA FinalIsSettled == ASSUME ProfileTypes, Final(rules) PROVE Settled(rules)
<1>1. Len(rules) \in Nat /\ \A i \in DOMAIN rules : i <= Len(rules)
  BY DEF ProfileTypes
<1>2. Begun(rules, Len(rules)) /\ Known(rules)
  BY <1>1 DEF Final, Ordered, Covers, Begun, Known
<1> QED
  BY <1>1, <1>2 DEF Settled

LEMMA NoneTaken == ASSUME NEW list, NEW names PROVE SetAll(list, <<>>, names) = list
<1>1. Len(<<>>) \in Nat /\ Len(<<>>) = 0
  OBVIOUS
<1>2. \E done : OneByOne(list, <<>>, names, done) /\ SetAll(list, <<>>, names) = done[Len(<<>>)]
  BY ONLY <1>1, SetAllUnfolds
<1> QED
  BY <1>1, <1>2 DEF OneByOne

LEMMA InitProfileInv == ProfileInit => ProfileInv
<1> SUFFICES ASSUME ProfileInit PROVE ProfileInv
  OBVIOUS
<1>1. option \in {"profile", "forwarder"} /\ up \in BOOLEAN
  BY DEF ProfileInit
<1>2. ASSUME NEW n \in Nat, NEW base \in Nat, NEW s \in Flags(option, n, base), base + n <= MaxArgs + MaxStored
      PROVE  s \in Seq(FlagRecs) /\ Len(s) = n /\ \A i \in DOMAIN s : s[i].id = base + i
  <2>1. s \in [1 .. n -> [flag : Names(option), cond : Conditions(option), id : base + 1 .. base + n]]
    BY <1>2 DEF Flags
  <2>2. base + 1 .. base + n \subseteq Ids
    BY <1>2, Bounds DEF Ids
  <2>3. s \in [1 .. n -> FlagRecs]
    BY <2>1, <2>2, <1>1 DEF FlagRecs, Names, New, Old
  <2>4. \A i \in 1 .. n : s[i].id = base + i
    BY <1>2 DEF Flags
  <2> QED
    BY <2>3, <2>4
<1>3. PICK n \in 0 .. MaxArgs : args \in Flags(option, n, 0)
  BY DEF ProfileInit
<1>4. PICK m \in 0 .. MaxStored : stored \in Flags(option, m, MaxArgs) /\ \A i \in 1 .. m : stored[i].flag # "config="
  BY DEF ProfileInit
<1>5. args \in Seq(FlagRecs) /\ Len(args) <= MaxArgs /\ \A i \in DOMAIN args : args[i].id = i
  <2>1. n \in Nat /\ 0 + n <= MaxArgs + MaxStored /\ n <= MaxArgs
    BY Bounds
  <2>2. args \in Seq(FlagRecs) /\ Len(args) = n /\ \A i \in DOMAIN args : args[i].id = 0 + i
    BY <2>1, <1>3, <1>2
  <2>3. \A i \in DOMAIN args : 0 + i = i
    BY <2>2
  <2> QED
    BY <2>1, <2>2, <2>3
<1>6. /\ stored \in Seq(FlagRecs) /\ Len(stored) <= MaxStored
      /\ \A i \in DOMAIN stored : stored[i].id = MaxArgs + i /\ stored[i].flag \notin Late
  <2>1. m \in Nat /\ MaxArgs \in Nat /\ MaxArgs + m <= MaxArgs + MaxStored /\ m <= MaxStored
    BY Bounds
  <2>2. stored \in Seq(FlagRecs) /\ Len(stored) = m /\ \A i \in DOMAIN stored : stored[i].id = MaxArgs + i
    BY <2>1, <1>4, <1>2
  <2>3. DOMAIN stored = 1 .. m
    BY <2>1, <2>2
  <2> QED
    BY <2>1, <2>2, <2>3, <1>4 DEF Late
<1>7. ProfileTypes
  <2>1. /\ line = args /\ file = stored /\ saved = FALSE /\ rules = <<>> /\ deprecated = <<>>
        /\ taken = "nothing" /\ query = Nobody /\ chosen = 0
    BY DEF ProfileInit
  <2>2. <<>> \in Seq(Rules) /\ 0 \in 0 .. MaxArgs + MaxStored
    BY Bounds
  <2> QED
    BY <2>1, <2>2, <1>1, <1>5, <1>6 DEF ProfileTypes
<1>8. FirstLife /\ saved = FALSE
  BY DEF FirstLife, ProfileInit
<1> QED
  BY <1>7, <1>8 DEF ProfileInv, ProfileInit

(* What the actions leave alone.                                            *)
LEMMA Constant ==
  ASSUME UNCHANGED <<option, args, stored, up>>
  PROVE  /\ FlagRecs' = FlagRecs /\ Rules' = Rules /\ AllFlags' = AllFlags
         /\ \A c : Value(c)' = Value(c) /\ OnLine(c)' = OnLine(c)
         /\ \A f : Rule(f)' = Rule(f)
  BY DEF FlagRecs, Rules, RuleRecs, Names, Conditions, Ids, AllFlags, Value, Weight, OnLine, Rule, Range

LEMMA OnTakeFlags ==
  ASSUME ProfileTypes, NEW flags \in Seq(FlagRecs)
  PROVE  /\ SetAll(rules, flags, New) \in Seq(Rules) /\ SetAll(deprecated, flags, Old) \in Seq(Rules)
         /\ SetAll(rules, flags, Again) \in Seq(Rules) /\ SetAll(deprecated, flags, Late) \in Seq(Rules)
         /\ Single(rules) => Took(rules, flags, New, Len(flags), SetAll(rules, flags, New))
         /\ Single(rules) => Took(rules, flags, Again, Len(flags), SetAll(rules, flags, Again))
         /\ Single(deprecated) => Took(deprecated, flags, Old, Len(flags), SetAll(deprecated, flags, Old))
         /\ Single(deprecated) => Took(deprecated, flags, Late, Len(flags), SetAll(deprecated, flags, Late))
<1>1. PICK C : C = Conditions(option)
  OBVIOUS
<1>2. Rules = RuleRecs(C) /\ Len(flags) \in Nat /\ \A j \in 1 .. Len(flags) : Rule(flags[j]) \in RuleRecs(C)
  BY <1>1, RuleTyped DEF Rules
<1>3. rules \in Seq(RuleRecs(C)) /\ deprecated \in Seq(RuleRecs(C))
  BY <1>2 DEF ProfileTypes
<1>4. PICK r, d : r = rules /\ d = deprecated
  OBVIOUS
<1>5. r \in Seq(RuleRecs(C)) /\ d \in Seq(RuleRecs(C))
  BY <1>3, <1>4
<1>6. \A names : /\ SetAll(r, flags, names) \in Seq(RuleRecs(C)) /\ SetAll(d, flags, names) \in Seq(RuleRecs(C))
                 /\ Single(r) => Took(r, flags, names, Len(flags), SetAll(r, flags, names))
                 /\ Single(d) => Took(d, flags, names, Len(flags), SetAll(d, flags, names))
  BY <1>2, <1>5, SetAllDoes
<1> QED
  BY <1>2, <1>4, <1>6

LEMMA NotAsked == ASSUME ProfileTypes, taken # "all" PROVE query = Nobody
  BY DEF ProfileTypes

(* What is stored and what is ordered does not depend on the lists.         *)
LEMMA ListsKept ==
  ASSUME UNCHANGED <<option, args, stored, up>>
  PROVE  /\ \A list, flags : Ordered(list, flags)' = Ordered(list, flags)
         /\ \A list : StoredValues(list)' = StoredValues(list)
         /\ \A list : Final(list)' = Final(list) /\ Known(list)' = Known(list) /\ Settled(list)' = Settled(list)
         /\ \A flags : Readable(flags)' = Readable(flags)
         /\ UNCHANGED saved => Unclear' = Unclear
<1>1. AllFlags' = AllFlags /\ \A c : Value(c)' = Value(c) /\ OnLine(c)' = OnLine(c)
  BY Constant
<1>2. /\ \A list, flags : Ordered(list, flags)' = Ordered(list, flags)
      /\ \A list, flags, i, k : Before(list, flags, i, k)' = Before(list, flags, i, k)
  BY DEF Ordered, Covers, Before, Single, Rank
<1>3. /\ \A list : StoredValues(list)' = StoredValues(list) /\ Known(list)' = Known(list)
      /\ \A list, n : Begun(list, n)' = Begun(list, n)
  BY <1>1, <1>2 DEF StoredValues, Known, Begun
<1>4. \A list : Final(list)' = Final(list) /\ Settled(list)' = Settled(list)
  BY <1>1, <1>2, <1>3 DEF Final, Settled
<1>5. \A flags : Readable(flags)' = Readable(flags)
  BY <1>1, <1>2, <1>3 DEF Readable
<1>6. UNCHANGED saved => Unclear' = Unclear
  BY <1>1 DEF Unclear
<1> QED
  BY <1>2, <1>3, <1>4, <1>5, <1>6

LEMMA OnParseArgs == ASSUME ProfileInv, ParseArgs PROVE ProfileInv'
<1>1. /\ taken = "nothing" /\ taken' = "args"
      /\ rules' = SetAll(rules, line, New) /\ deprecated' = SetAll(deprecated, line, Old)
      /\ UNCHANGED <<option, args, stored, line, file, saved, up, query, chosen>>
  BY DEF ParseArgs, TakeFlags
<1>2. ProfileTypes /\ query = Nobody
  BY <1>1, NotAsked DEF ProfileInv
<1>3. FlagRecs' = FlagRecs /\ Rules' = Rules /\ AllFlags' = AllFlags
  BY <1>1, Constant
<1>4. line \in Seq(FlagRecs)
  BY <1>2 DEF ProfileTypes
<1>5. ProfileTypes'
  BY <1>1, <1>2, <1>3, <1>4, OnTakeFlags DEF ProfileTypes
<1>6. ASSUME ~Unclear', ~saved PROVE FirstLife'
  <2>1. ~Unclear /\ FirstLife
    BY <1>1, <1>6, ListsKept DEF ProfileInv
  <2>2. line = args /\ file = stored /\ rules = <<>> /\ deprecated = <<>>
    BY <2>1, <1>1 DEF FirstLife
  <2>3. Passed(args)
    BY <1>2, <2>1, ArgsPassed
  <2>4. PICK R, D : R = SetAll(<<>>, args, New) /\ D = SetAll(<<>>, args, Old)
    OBVIOUS
  <2>5. Single(<<>>)
    BY DEF Single
  <2>6. /\ R \in Seq(Rules) /\ D \in Seq(Rules)
        /\ Took(<<>>, args, New, Len(args), R) /\ Took(<<>>, args, Old, Len(args), D)
    BY <1>2, <1>4, <2>2, <2>4, <2>5, OnTakeFlags
  <2>7. /\ DOMAIN R = 1 .. Len(R) /\ Len(R) \in Nat /\ DOMAIN D = 1 .. Len(D) /\ Len(D) \in Nat
        /\ DOMAIN <<>> = 1 .. Len(<<>>) /\ Len(<<>>) \in Nat
    BY <2>6
  <2>8. PICK e : e = <<>>
    OBVIOUS
  <2>9. Ordered(R, {} \cup Named(Range(args), New))
    <3>1. Ordered(e, {}) /\ {} \in SUBSET AllFlags /\ Took(e, args, New, Len(args), R) /\ DOMAIN e = 1 .. Len(e) /\ Len(e) \in Nat
      BY <2>6, <2>7, <2>8, EmptyOrdered
    <3> QED
      BY <3>1, <1>2, <2>3, <2>7, PassAdds
  <2>10. Ordered(D, {} \cup Named(Range(args), Old))
    <3>1. Ordered(e, {}) /\ {} \in SUBSET AllFlags /\ Took(e, args, Old, Len(args), D) /\ DOMAIN e = 1 .. Len(e) /\ Len(e) \in Nat
      BY <2>6, <2>7, <2>8, EmptyOrdered
    <3> QED
      BY <3>1, <1>2, <2>3, <2>7, PassAdds
  <2>11. rules' = R /\ deprecated' = D /\ args' = args
    BY <1>1, <2>2, <2>4
  <2>13. StoredValues(R) /\ StoredValues(D)
    BY <1>2, <2>1, <2>6, ArgsGive
  <2>12. /\ Ordered(R, Named(Range(args), New))' /\ Ordered(D, Named(Range(args), Old))'
         /\ StoredValues(R)' /\ StoredValues(D)'
    BY <2>9, <2>10, <2>13, <1>1, ListsKept
  <2> QED
    BY <1>1, <2>2, <2>11, <2>12 DEF FirstLife
<1>7. ASSUME ~Unclear', saved PROVE SecondLife'
  <2>1. ~Unclear /\ SecondLife
    BY <1>1, <1>7, ListsKept DEF ProfileInv
  <2>2. line = <<>> /\ rules = <<>> /\ deprecated = <<>>
    BY <2>1, <1>1 DEF SecondLife
  <2>3. rules' = <<>> /\ deprecated' = <<>>
    BY <1>1, <2>2, NoneTaken
  <2>4. Readable(file)'
    BY <2>1, <1>1, ListsKept DEF SecondLife
  <2> QED
    BY <2>1, <2>2, <2>3, <2>4, <1>1 DEF SecondLife
<1>8. (query # Nobody)' = FALSE
  BY <1>1, <1>2 DEF Nobody
<1> QED
  BY <1>1, <1>5, <1>6, <1>7, <1>8 DEF ProfileInv

LEMMA OnLoadConfig == ASSUME ProfileInv, LoadConfig PROVE ProfileInv'
<1>1. /\ taken = "args" /\ taken' = "stored"
      /\ rules' = SetAll(rules, file, New) /\ deprecated' = SetAll(deprecated, file, Old)
      /\ UNCHANGED <<option, args, stored, line, file, saved, up, query, chosen>>
  BY DEF LoadConfig, TakeFlags
<1>2. ProfileTypes /\ query = Nobody
  BY <1>1, NotAsked DEF ProfileInv
<1>3. FlagRecs' = FlagRecs /\ Rules' = Rules /\ AllFlags' = AllFlags
  BY <1>1, Constant
<1>4. file \in Seq(FlagRecs)
  BY <1>2 DEF ProfileTypes
<1>5. ProfileTypes'
  BY <1>1, <1>2, <1>3, <1>4, OnTakeFlags DEF ProfileTypes
<1>6. ASSUME ~Unclear', ~saved PROVE FirstLife'
  <2>1. ~Unclear /\ FirstLife
    BY <1>1, <1>6, ListsKept DEF ProfileInv
  <2>2. /\ line = args /\ file = stored
        /\ Ordered(rules, Named(Range(args), New)) /\ Ordered(deprecated, Named(Range(args), Old))
        /\ StoredValues(rules) /\ StoredValues(deprecated)
    BY <2>1, <1>1 DEF FirstLife
  <2>3. Passed(stored)
    BY <1>2, <2>1, ArgsPassed
  <2>4. PICK R, D : R = SetAll(rules, stored, New) /\ D = SetAll(deprecated, stored, Old)
    OBVIOUS
  <2>5. Single(rules) /\ Single(deprecated)
    BY <2>2 DEF Ordered
  <2>6. /\ R \in Seq(Rules) /\ D \in Seq(Rules)
        /\ Took(rules, stored, New, Len(stored), R) /\ Took(deprecated, stored, Old, Len(stored), D)
    BY <1>2, <1>4, <2>2, <2>4, <2>5, OnTakeFlags
  <2>7. /\ DOMAIN R = 1 .. Len(R) /\ Len(R) \in Nat /\ DOMAIN D = 1 .. Len(D) /\ Len(D) \in Nat
        /\ DOMAIN rules = 1 .. Len(rules) /\ Len(rules) \in Nat
        /\ DOMAIN deprecated = 1 .. Len(deprecated) /\ Len(deprecated) \in Nat
    BY <2>6, <1>2 DEF ProfileTypes
  <2>8. PICK r, d : r = rules /\ d = deprecated
    OBVIOUS
  <2>9. \A f \in Range(args), j \in DOMAIN stored : f.id < stored[j].id
    <3>1. \A f \in Range(args) : f.id \in Nat /\ f.id <= MaxArgs
      BY <1>2, GivenFlags DEF AllFlags
    <3>2. \A j \in DOMAIN stored : stored[j].id = MaxArgs + j /\ j \in Nat /\ j >= 1
      BY <1>2 DEF ProfileTypes
    <3> QED
      BY <3>1, <3>2, Bounds
  <2>10. Named(Range(args), New) \in SUBSET AllFlags /\ Named(Range(args), Old) \in SUBSET AllFlags
    BY DEF Named, AllFlags
  <2>11. Named(AllFlags, New) = Named(Range(args), New) \cup Named(Range(stored), New)
    BY DEF Named, AllFlags
  <2>12. Named(AllFlags, Old) = Named(Range(args), Old) \cup Named(Range(stored), Old)
    BY DEF Named, AllFlags
  <2>13. Ordered(R, Named(AllFlags, New))
    <3>1. PICK F : F = Named(Range(args), New)
      OBVIOUS
    <3>2. F \in SUBSET AllFlags /\ (\A f \in F : f.flag \in New) /\ (\A f \in F, j \in DOMAIN stored : f.id < stored[j].id)
      BY <3>1, <2>9, <2>10 DEF Named
    <3>3. Ordered(r, F) /\ Took(r, stored, New, Len(stored), R) /\ DOMAIN r = 1 .. Len(r) /\ Len(r) \in Nat
      BY <3>1, <2>2, <2>6, <2>7, <2>8
    <3>4. Ordered(R, F \cup Named(Range(stored), New))
      BY <3>2, <3>3, <1>2, <2>3, <2>7, PassAdds
    <3> QED
      BY <3>1, <3>4, <2>11
  <2>14. Ordered(D, Named(AllFlags, Old))
    <3>1. PICK F : F = Named(Range(args), Old)
      OBVIOUS
    <3>2. F \in SUBSET AllFlags /\ (\A f \in F : f.flag \in Old) /\ (\A f \in F, j \in DOMAIN stored : f.id < stored[j].id)
      BY <3>1, <2>9, <2>10 DEF Named
    <3>3. Ordered(d, F) /\ Took(d, stored, Old, Len(stored), D) /\ DOMAIN d = 1 .. Len(d) /\ Len(d) \in Nat
      BY <3>1, <2>2, <2>6, <2>7, <2>8
    <3>4. Ordered(D, F \cup Named(Range(stored), Old))
      BY <3>2, <3>3, <1>2, <2>3, <2>7, PassAdds
    <3> QED
      BY <3>1, <3>4, <2>12
  <2>15. StoredValues(R) /\ StoredValues(D)
    <3>1. StoredValues(r) /\ Took(r, stored, New, Len(stored), R)
      BY <2>2, <2>6, <2>8
    <3>2. StoredValues(d) /\ Took(d, stored, Old, Len(stored), D)
      BY <2>2, <2>6, <2>8
    <3> QED
      BY <3>1, <3>2, <1>2, <2>1, StoredGives
  <2>16. rules' = R /\ deprecated' = D
    BY <1>1, <2>2, <2>4
  <2>17. /\ Ordered(R, Named(AllFlags, New))' /\ Ordered(D, Named(AllFlags, Old))'
         /\ StoredValues(R)' /\ StoredValues(D)'
    BY <2>13, <2>14, <2>15, <1>1, <1>3, ListsKept
  <2> QED
    BY <1>1, <2>2, <2>16, <2>17 DEF FirstLife
<1>7. ASSUME ~Unclear', saved PROVE SecondLife'
  <2>1. ~Unclear /\ SecondLife
    BY <1>1, <1>7, ListsKept DEF ProfileInv
  <2>2. rules = <<>> /\ deprecated = <<>> /\ Readable(file)
    BY <2>1, <1>1 DEF SecondLife
  <2>3. Single(<<>>)
    BY DEF Single
  <2>4. PICK R, D : R = rules' /\ D = deprecated'
    OBVIOUS
  <2>5. Took(<<>>, file, New, Len(file), R) /\ Took(<<>>, file, Old, Len(file), D)
    BY <1>1, <1>2, <1>4, <2>2, <2>3, <2>4, OnTakeFlags
  <2>6. Final(R) /\ Known(D)
    BY <2>5, <2>1, <2>2, <1>2, <1>7, ReadAgain, OldReadAgain
  <2>7. Final(R)' /\ Known(D)'
    BY <2>6, <1>1, ListsKept
  <2>8. Final(rules)' /\ Known(deprecated)'
    BY <2>4, <2>7
  <2> QED
    BY <2>1, <2>8, <1>1 DEF SecondLife
<1>8. (query # Nobody)' = FALSE
  BY <1>1, <1>2 DEF Nobody
<1> QED
  BY <1>1, <1>5, <1>6, <1>7, <1>8 DEF ProfileInv

LEMMA OnMigrate == ASSUME ProfileInv, Migrate PROVE ProfileInv'
<1>1. /\ taken = "stored" /\ taken' = "migrated"
      /\ rules' = rules \o deprecated /\ deprecated' = <<>>
      /\ UNCHANGED <<option, args, stored, line, file, saved, up, query, chosen>>
  BY DEF Migrate
<1>2. ProfileTypes /\ query = Nobody
  BY <1>1, NotAsked DEF ProfileInv
<1>3. FlagRecs' = FlagRecs /\ Rules' = Rules /\ AllFlags' = AllFlags
  BY <1>1, Constant
<1>4. rules' \in Seq(Rules) /\ deprecated' \in Seq(Rules)
  <2>1. rules \in Seq(Rules) /\ deprecated \in Seq(Rules)
    BY <1>2 DEF ProfileTypes
  <2> QED
    BY <2>1, <1>1
<1>5. ProfileTypes'
  BY <1>1, <1>2, <1>3, <1>4 DEF ProfileTypes
<1>6. ASSUME ~Unclear', ~saved PROVE FirstLife'
  <2>1. ~Unclear /\ FirstLife
    BY <1>1, <1>6, ListsKept DEF ProfileInv
  <2>2. /\ line = args /\ file = stored
        /\ Ordered(rules, Named(AllFlags, New)) /\ Ordered(deprecated, Named(AllFlags, Old))
        /\ StoredValues(rules) /\ StoredValues(deprecated)
    BY <2>1, <1>1 DEF FirstLife
  <2>3. PICK R : R = rules \o deprecated
    OBVIOUS
  <2>4. Ordered(R, AllFlags) /\ StoredValues(R)
    BY <2>1, <2>2, <2>3, <1>2, Migrated
  <2>5. Ordered(R, AllFlags)' /\ StoredValues(R)'
    BY <2>4, <1>1, <1>3, ListsKept
  <2> QED
    BY <1>1, <2>2, <2>3, <2>5 DEF FirstLife
<1>7. ASSUME ~Unclear', saved PROVE SecondLife'
  <2>1. ~Unclear /\ SecondLife
    BY <1>1, <1>7, ListsKept DEF ProfileInv
  <2>2. line = <<>> /\ Final(rules) /\ Known(deprecated)
    BY <2>1, <1>1 DEF SecondLife
  <2>3. PICK R : R = rules \o deprecated
    OBVIOUS
  <2>4. Settled(R)'
    BY <2>2, <2>3, <1>1, <1>2, AddsKnown, ListsKept
  <2>5. Settled(rules)'
    BY <2>3, <2>4, <1>1
  <2> QED
    BY <2>1, <2>2, <2>5, <1>1 DEF SecondLife
<1>8. (query # Nobody)' = FALSE
  BY <1>1, <1>2 DEF Nobody
<1> QED
  BY <1>1, <1>5, <1>6, <1>7, <1>8 DEF ProfileInv

LEMMA OnParseAgain == ASSUME ProfileInv, ParseAgain PROVE ProfileInv'
<1>1. /\ taken = "migrated" /\ taken' = "all"
      /\ rules' = SetAll(rules, line, Again) /\ deprecated' = SetAll(deprecated, line, Late)
      /\ UNCHANGED <<option, args, stored, line, file, saved, up, query, chosen>>
  BY DEF ParseAgain, Again
<1>2. ProfileTypes /\ query = Nobody
  BY <1>1, NotAsked DEF ProfileInv
<1>3. FlagRecs' = FlagRecs /\ Rules' = Rules /\ AllFlags' = AllFlags
  BY <1>1, Constant
<1>4. line \in Seq(FlagRecs)
  BY <1>2 DEF ProfileTypes
<1>5. ProfileTypes'
  BY <1>1, <1>2, <1>3, <1>4, OnTakeFlags DEF ProfileTypes
<1>6. ASSUME ~Unclear', ~saved PROVE FirstLife'
  <2>1. ~Unclear /\ FirstLife
    BY <1>1, <1>6, ListsKept DEF ProfileInv
  <2>2. line = args /\ file = stored /\ deprecated = <<>> /\ Ordered(rules, AllFlags) /\ StoredValues(rules)
    BY <2>1, <1>1 DEF FirstLife
  <2>3. PICK R, D, r : R = SetAll(rules, args, Again) /\ D = SetAll(<<>>, args, Late) /\ r = rules
    OBVIOUS
  <2>4. Single(rules) /\ Single(<<>>)
    BY <2>2 DEF Ordered, Single
  <2>5. R \in Seq(Rules) /\ Took(r, args, Again, Len(args), R) /\ Took(<<>>, args, Late, Len(args), D)
    BY <1>2, <1>4, <2>2, <2>3, <2>4, OnTakeFlags
  <2>6. DOMAIN R = 1 .. Len(R) /\ Len(R) \in Nat /\ DOMAIN r = 1 .. Len(r) /\ Len(r) \in Nat
    BY <2>3, <2>5, <1>2 DEF ProfileTypes
  <2>7. Final(R)
    <3>1. Ordered(r, AllFlags) /\ StoredValues(r)
      BY <2>2, <2>3
    <3> QED
      BY <3>1, <1>2, <2>1, <2>5, <2>6, TakenAgain
  <2>8. rules' = R /\ deprecated' = D
    BY <1>1, <2>2, <2>3
  <2>9. Final(R)' /\ Known(D)'
    BY <2>7, <2>5, <2>1, <1>1, <1>2, ArgsGive, ListsKept
  <2> QED
    BY <1>1, <2>2, <2>8, <2>9 DEF FirstLife
<1>7. ASSUME ~Unclear', saved PROVE SecondLife'
  <2>1. ~Unclear /\ SecondLife
    BY <1>1, <1>7, ListsKept DEF ProfileInv
  <2>2. line = <<>> /\ deprecated = <<>> /\ Settled(rules)
    BY <2>1, <1>1 DEF SecondLife
  <2>3. rules' = rules /\ deprecated' = <<>>
    BY <1>1, <2>2, NoneTaken
  <2>4. Settled(rules)'
    BY <2>2, <2>3, <1>1, ListsKept
  <2> QED
    BY <2>1, <2>2, <2>3, <2>4, <1>1 DEF SecondLife
<1>8. (query # Nobody)' = FALSE
  BY <1>1, <1>2 DEF Nobody
<1> QED
  BY <1>1, <1>5, <1>6, <1>7, <1>8 DEF ProfileInv

(* The lists as they are printed, one after the other.                      *)
LEMMA PrintedLists ==
  ASSUME ProfileTypes, NEW both, both = PrintedAll(rules, option) \o PrintedAll(deprecated, "config")
  PROVE  /\ both \in Seq(FlagRecs)
         /\ \A i \in DOMAIN rules : i \in DOMAIN both /\ both[i] = Printed(rules[i], option)
         /\ \A i \in DOMAIN both :
              \/ i \in DOMAIN rules /\ both[i] = Printed(rules[i], option)
              \/ i \notin DOMAIN rules /\ \E k \in DOMAIN deprecated : both[i] = Printed(deprecated[k], "config")
<1>1. \A r \in Rules, name \in {option, "config"} : Printed(r, name) \in FlagRecs
  BY DEF Printed, Rules, RuleRecs, FlagRecs, New, Old, Conditions, ProfileTypes
<1>2. \A list \in Seq(Rules), name \in {option, "config"} :
        /\ PrintedAll(list, name) \in Seq(FlagRecs) /\ DOMAIN PrintedAll(list, name) = DOMAIN list
        /\ \A i \in DOMAIN list : PrintedAll(list, name)[i] = Printed(list[i], name)
  <2> TAKE list \in Seq(Rules), name \in {option, "config"}
  <2>1. DOMAIN list = 1 .. Len(list) /\ Len(list) \in Nat /\ \A i \in DOMAIN list : list[i] \in Rules
    OBVIOUS
  <2>2. \A i \in DOMAIN list : Printed(list[i], name) \in FlagRecs
    BY <1>1, <2>1
  <2> QED
    BY <2>1, <2>2 DEF PrintedAll
<1>3. PICK a, b : a = PrintedAll(rules, option) /\ b = PrintedAll(deprecated, "config")
  OBVIOUS
<1>4. /\ a \in Seq(FlagRecs) /\ DOMAIN a = DOMAIN rules /\ \A i \in DOMAIN rules : a[i] = Printed(rules[i], option)
      /\ b \in Seq(FlagRecs) /\ DOMAIN b = DOMAIN deprecated
      /\ \A i \in DOMAIN deprecated : b[i] = Printed(deprecated[i], "config")
  BY <1>2, <1>3 DEF ProfileTypes
<1>5. /\ a \o b \in Seq(FlagRecs) /\ \A i \in DOMAIN a : i \in DOMAIN (a \o b) /\ (a \o b)[i] = a[i]
      /\ \A i \in DOMAIN (a \o b) : i \notin DOMAIN a => i - Len(a) \in DOMAIN b /\ (a \o b)[i] = b[i - Len(a)]
  BY <1>4
<1>6. both = a \o b
  BY <1>3
<1> QED
  BY <1>4, <1>5, <1>6

LEMMA OnSave == ASSUME ProfileInv, Save PROVE ProfileInv'
<1>1. /\ taken = "all" /\ ~saved /\ saved' = TRUE
      /\ line' = <<>> /\ file' = PrintedAll(rules, option) \o PrintedAll(deprecated, "config")
      /\ rules' = <<>> /\ deprecated' = <<>> /\ taken' = "nothing" /\ query' = Nobody /\ chosen' = 0
      /\ UNCHANGED <<option, args, stored, up>>
  BY DEF Save
<1>2. ProfileTypes
  BY DEF ProfileInv
<1>3. FlagRecs' = FlagRecs /\ Rules' = Rules /\ AllFlags' = AllFlags
  BY <1>1, Constant
<1>4. PICK F : F = file'
  OBVIOUS
<1>5. /\ F \in Seq(FlagRecs)
      /\ \A i \in DOMAIN rules : i \in DOMAIN F /\ F[i] = Printed(rules[i], option)
      /\ \A i \in DOMAIN F : \/ i \in DOMAIN rules /\ F[i] = Printed(rules[i], option)
                             \/ i \notin DOMAIN rules /\ \E k \in DOMAIN deprecated : F[i] = Printed(deprecated[k], "config")
  BY <1>1, <1>2, <1>4, PrintedLists
<1>7. ProfileTypes'
  <2>1. <<>> \in Seq(Rules) /\ <<>> \in Seq(FlagRecs) /\ 0 \in 0 .. MaxArgs + MaxStored
    BY Bounds
  <2>2. (query = Nobody)'
    BY <1>1 DEF Nobody
  <2> QED
    BY <2>1, <2>2, <1>1, <1>2, <1>3, <1>4, <1>5 DEF ProfileTypes
<1>8. ASSUME ~Unclear' PROVE SecondLife'
  <2>1. ~Unclear /\ \A f \in AllFlags : f.cond # "iface"
    BY <1>1, <1>3, <1>8 DEF Unclear
  <2>2. FirstLife
    BY <2>1, <1>1 DEF ProfileInv
  <2>3. Final(rules) /\ Known(deprecated)
    BY <2>2, <1>1 DEF FirstLife
  <2>4. \A i \in DOMAIN rules : (\E f \in AllFlags : f.cond = rules[i].cond) /\ rules[i].id = Value(rules[i].cond)
    BY <2>3 DEF Final, Ordered, Covers
  <2>5. \A i \in DOMAIN deprecated : (\E f \in AllFlags : f.cond = deprecated[i].cond) /\ deprecated[i].id = Value(deprecated[i].cond)
    BY <2>3 DEF Known
  <2>6. \A rule, name : rule.cond # "iface" => Printed(rule, name) = [flag |-> name, cond |-> rule.cond, id |-> rule.id]
    BY DEF Printed
  <2>7. \A i \in DOMAIN rules : F[i].flag = option /\ F[i].cond = rules[i].cond /\ F[i].id = rules[i].id
    BY <1>5, <2>1, <2>4, <2>6
  <2>8. ASSUME NEW i \in DOMAIN F, i \notin DOMAIN rules
        PROVE  F[i].flag = "config" /\ \E k \in DOMAIN deprecated : F[i].cond = deprecated[k].cond /\ F[i].id = deprecated[k].id
    BY <1>5, <2>1, <2>5, <2>6, <2>8
  <2>9. Known(F) /\ \A i \in DOMAIN F : F[i].flag \in {option, "config"}
    <3>1. ASSUME NEW i \in DOMAIN F
          PROVE  /\ (\E f \in AllFlags : f.cond = F[i].cond) /\ F[i].id = Value(F[i].cond)
                 /\ F[i].flag \in {option, "config"}
      <4>1. CASE i \in DOMAIN rules
        BY <4>1, <2>4, <2>7
      <4>2. CASE i \notin DOMAIN rules
        BY <4>2, <2>5, <2>8
      <4> QED
        BY <4>1, <4>2
    <3> QED
      BY <3>1 DEF Known
  <2>10. ASSUME NEW f \in AllFlags PROVE \E i \in DOMAIN F : F[i].flag = option /\ f.cond = F[i].cond
    <3>1. PICK i \in DOMAIN rules : f.cond = rules[i].cond
      BY <2>3 DEF Final, Ordered, Covers
    <3> QED
      BY <3>1, <1>5, <2>7
  <2>11. ASSUME NEW i \in DOMAIN F, NEW k \in DOMAIN F, i < k, F[i].flag = option, F[k].flag = option
         PROVE  Before(F, AllFlags, i, k)
    <3>1. option # "config"
      BY <1>2 DEF ProfileTypes
    <3>2. i \in DOMAIN rules /\ k \in DOMAIN rules
      BY <3>1, <2>8, <2>11
    <3>3. Before(rules, AllFlags, i, k)
      BY <3>2, <2>3, <2>11 DEF Final, Ordered
    <3> QED
      BY <3>2, <3>3, <2>7 DEF Before
  <2>12. Readable(F)
    BY <2>9, <2>10, <2>11 DEF Readable
  <2>13. Readable(F)'
    BY <2>12, <1>1, ListsKept
  <2> QED
    BY <1>1, <1>4, <2>13 DEF SecondLife
<1>9. (query # Nobody)' = FALSE
  BY <1>1 DEF Nobody
<1> QED
  BY <1>1, <1>7, <1>8, <1>9 DEF ProfileInv

(* The index of an entry is that of the list's, whichever is asked for.     *)
LEMMA MinIsIndex ==
  ASSUME ProfileTypes, NEW S \in SUBSET (DOMAIN rules), S # {}
  PROVE  Min(S) \in S /\ Min(S) \in DOMAIN rules /\ (\A k \in S : Min(S) <= k) /\ rules[Min(S)].id \in Ids
<1>1. DOMAIN rules \subseteq Nat /\ \A i \in DOMAIN rules : rules[i].id \in Ids
  <2>1. rules \in Seq(Rules) /\ \A r \in Rules : r.id \in Ids
    BY DEF ProfileTypes, Rules, RuleRecs
  <2> QED
    BY <2>1
<1>2. S \in SUBSET Nat
  BY <1>1
<1> QED
  BY <1>1, <1>2, MinIsIn

LEMMA MaxIsIndex ==
  ASSUME ProfileTypes, NEW S \in SUBSET (DOMAIN rules), S # {}
  PROVE  Max(S) \in S /\ rules[Max(S)].id \in Ids
<1>1. DOMAIN rules = 1 .. Len(rules) /\ Len(rules) \in Nat /\ \A i \in DOMAIN rules : rules[i].id \in Ids
  <2>1. rules \in Seq(Rules) /\ \A r \in Rules : r.id \in Ids
    BY DEF ProfileTypes, Rules, RuleRecs
  <2> QED
    BY <2>1
<1> DEFINE n == Len(rules)
           D == {d \in Nat : \E i \in S : d + i = n}
<1>2. PICK i \in S : TRUE
  OBVIOUS
<1>3. n - i \in D
  BY <1>1, <1>2
<1>4. PICK d \in D : \A k \in D : d <= k
  <2>1. D \in SUBSET Nat /\ D # {}
    BY <1>3
  <2> HIDE DEF D
  <2> QED
    BY <2>1, LeastNatural
<1>5. PICK m \in S : d + m = n
  BY <1>4
<1>6. ASSUME NEW k \in S PROVE k <= m
  <2>0. n - k \in Nat /\ (n - k) + k = n
    BY <1>1
  <2>1. n - k \in D
    BY <2>0
  <2>2. d <= n - k
    BY <2>1, <1>4
  <2> QED
    BY <2>2, <1>1, <1>4, <1>5
<1>7. Max(S) \in S
  BY <1>5, <1>6 DEF Max
<1> QED
  BY <1>1, <1>7

LEMMA Gets ==
  ASSUME ProfileTypes, NEW q
  PROVE  GetProfile(q) \in 0 .. MaxArgs + MaxStored /\ GetForwarder(q) \in 0 .. MaxArgs + MaxStored
<1>1. Ids \subseteq 0 .. MaxArgs + MaxStored /\ 0 \in 0 .. MaxArgs + MaxStored
  BY Bounds DEF Ids
<1> DEFINE D == {i \in DOMAIN rules : rules[i].cond = "none"}
           M == Matching(q)
<1>2. M \in SUBSET (DOMAIN rules)
  BY DEF Matching
<1> HIDE DEF M
<1>3. GetForwarder(q) \in 0 .. MaxArgs + MaxStored
  <2>1. GetForwarder(q) = IF M = {} THEN 0 ELSE rules[Min(M)].id
    BY DEF GetForwarder, M
  <2> QED
    BY <1>1, <1>2, <2>1, MinIsIndex
<1>4. GetProfile(q) \in 0 .. MaxArgs + MaxStored
  <2>1. GetProfile(q) = IF M \ D # {} THEN rules[Min(M \ D)].id ELSE IF D # {} THEN rules[Max(D)].id ELSE 0
    BY DEF GetProfile, M
  <2>2. M \ D \in SUBSET (DOMAIN rules) /\ D \in SUBSET (DOMAIN rules)
    BY <1>2
  <2> HIDE DEF D
  <2>3. CASE M \ D # {}
    <3>1. rules[Min(M \ D)].id \in Ids
      BY <2>2, <2>3, MinIsIndex
    <3> QED
      BY <1>1, <2>1, <2>3, <3>1
  <2>4. CASE M \ D = {} /\ D # {}
    <3>1. rules[Max(D)].id \in Ids
      BY <2>2, <2>4, MaxIsIndex
    <3> QED
      BY <1>1, <2>1, <2>4, <3>1
  <2>5. CASE M \ D = {} /\ D = {}
    BY <1>1, <2>1, <2>5
  <2> QED
    BY <2>3, <2>4, <2>5
<1> QED
  BY <1>3, <1>4

LEMMA ChosenKept == ASSUME UNCHANGED <<option, rules>>, NEW q PROVE Chosen(q)' = Chosen(q)
<1>1. \A p : Matching(p)' = Matching(p)
  BY DEF Matching, Meets
<1>2. \A p : GetProfile(p)' = GetProfile(p) /\ GetForwarder(p)' = GetForwarder(p)
  BY <1>1 DEF GetProfile, GetForwarder
<1>3. Nobody' = Nobody
  BY DEF Nobody
<1>4. Static' = Static
  BY <1>2, <1>3 DEF Static
<1> QED
  BY <1>2, <1>3, <1>4 DEF Chosen

LEMMA OnSelect == ASSUME ProfileInv, Select PROVE ProfileInv'
<1>1. /\ taken = "all" /\ query' \in AskedOf(option) /\ chosen' = Chosen(query')
      /\ UNCHANGED <<option, args, stored, line, file, saved, up, rules, deprecated, taken>>
  BY DEF Select, Chosen
<1>2. ProfileTypes
  BY DEF ProfileInv
<1>3. FlagRecs' = FlagRecs /\ Rules' = Rules /\ AllFlags' = AllFlags
  BY <1>1, Constant
<1>4. chosen' \in 0 .. MaxArgs + MaxStored
  <2>1. PICK q : q = query'
    OBVIOUS
  <2>2. chosen' = Chosen(q)
    BY <1>1, <2>1
  <2> QED
    BY <2>2, <1>2, Gets DEF Chosen
<1>5. ProfileTypes'
  <2>1. (AskedOf(option))' = AskedOf(option)
    BY <1>1 DEF AskedOf
  <2> QED
    BY <2>1, <1>1, <1>2, <1>3, <1>4 DEF ProfileTypes
<1>6. (chosen = Chosen(query))'
  <2>1. PICK q : q = query'
    OBVIOUS
  <2>2. Chosen(q)' = Chosen(q)
    BY <1>1, ChosenKept
  <2> QED
    BY <2>1, <2>2, <1>1
<1>7. ASSUME ~Unclear' PROVE IF saved' THEN SecondLife' ELSE FirstLife'
  <2>1. ~Unclear
    BY <1>1, <1>7, ListsKept
  <2>2. IF saved THEN SecondLife ELSE FirstLife
    BY <2>1 DEF ProfileInv
  <2>5. CASE saved
    <3>1. Settled(rules)'
      BY <2>2, <2>5, <1>1, ListsKept DEF SecondLife
    <3> QED
      BY <2>2, <3>1, <2>5, <1>1 DEF SecondLife
  <2>6. CASE ~saved
    <3>1. Final(rules)' /\ Known(deprecated)'
      BY <2>2, <2>6, <1>1, ListsKept DEF FirstLife
    <3> QED
      BY <2>2, <3>1, <2>6, <1>1 DEF FirstLife
  <2> QED
    BY <2>5, <2>6, <1>1
<1> QED
  BY <1>5, <1>6, <1>7 DEF ProfileInv

LEMMA ProfileInvHolds == ProfileSpec => []ProfileInv
<1>1. ProfileInv /\ [ProfileNext]_prvars => ProfileInv'
  <2> SUFFICES ASSUME ProfileInv, [ProfileNext]_prvars PROVE ProfileInv'
    OBVIOUS
  <2>1. CASE UNCHANGED prvars
    <3>1. /\ UNCHANGED <<option, args, stored, line, file, saved, up, query, chosen>>
          /\ UNCHANGED <<rules, deprecated, taken>>
      BY <2>1 DEF prvars
    <3>2. FlagRecs' = FlagRecs /\ Rules' = Rules /\ AllFlags' = AllFlags
      BY <3>1, Constant
    <3>3. ProfileTypes'
      <4>1. (AskedOf(option))' = AskedOf(option)
        BY <3>1 DEF AskedOf
      <4> QED
        BY <3>1, <3>2, <4>1 DEF ProfileTypes, ProfileInv, Nobody
    <3>4. Chosen(query)' = Chosen(query) /\ Nobody' = Nobody
      BY <3>1 DEF Chosen, GetForwarder, GetProfile, Matching, Static, Nobody, Meets
    <3>5. Unclear' = Unclear /\ FirstLife' = FirstLife /\ SecondLife' = SecondLife
      <4>1. /\ \A list, flags : Ordered(list, flags)' = Ordered(list, flags)
            /\ \A list : StoredValues(list)' = StoredValues(list)
            /\ \A list : Final(list)' = Final(list) /\ Known(list)' = Known(list) /\ Settled(list)' = Settled(list)
            /\ \A flags : Readable(flags)' = Readable(flags)
            /\ Unclear' = Unclear
        BY <3>1, ListsKept
      <4> QED
        BY <3>1, <3>2, <4>1 DEF FirstLife, SecondLife
    <3> QED
      BY <3>1, <3>3, <3>4, <3>5 DEF ProfileInv
  <2> QED
    BY <2>1, OnParseArgs, OnLoadConfig, OnMigrate, OnParseAgain, OnSave, OnSelect DEF ProfileNext
<1> QED
  BY <1>1, InitProfileInv, PTL DEF ProfileSpec

(* Looking once is as good as looking for each query (run.go:297).          *)
LEMMA OnceIsEnough ==
  ASSUME ProfileTypes, option = "profile", Static, NEW q
  PROVE  GetProfile(Nobody) = GetProfile(q)
<1> DEFINE D == {i \in DOMAIN rules : rules[i].cond = "none"}
<1>0. DOMAIN rules = 1 .. Len(rules) /\ Len(rules) \in Nat /\ \A i \in DOMAIN rules : rules[i].cond \in Conditions("profile")
  <2>1. rules \in Seq(Rules) /\ \A r \in Rules : r.cond \in Conditions("profile")
    BY DEF ProfileTypes, Rules, RuleRecs
  <2> QED
    BY <2>1
<1>1. \A p : GetProfile(p) = IF Matching(p) \ D # {} THEN rules[Min(Matching(p) \ D)].id
                             ELSE IF D # {} THEN rules[Max(D)].id ELSE 0
  BY DEF GetProfile
<1>2. \A p : Matching(p) \subseteq DOMAIN rules
  BY DEF Matching
<1>3. Matching(Nobody) \ D = {}
  BY <1>0 DEF Matching, Meets, Nobody, Conditions
<1>4. CASE Len(rules) = 0
  BY <1>0, <1>1, <1>2, <1>4
<1>5. CASE Len(rules) = 1 /\ GetProfile(Nobody) # 0
  <2>1. D # {}
    BY <1>1, <1>3, <1>5
  <2>2. D = DOMAIN rules
    BY <2>1, <1>0, <1>5
  <2> HIDE DEF D
  <2>3. Matching(q) \ D = {}
    BY <2>2, <1>2
  <2> QED
    BY <1>1, <1>3, <2>3
<1> QED
  BY <1>4, <1>5 DEF Static

LEMMA MeetsAsMeant ==
  ASSUME ProfileTypes, NEW q \in AskedOf(option), q.spelled, ~ (q.dest = "moved" /\ \E f \in AllFlags : f.cond = "iface"),
         NEW f \in AllFlags
  PROVE  Meets(AsMeant(q), f.cond) <=> Meets(q, f.cond)
<1>1. f.cond \in {"subnet", "mac", "iface", "none", "domain", "sub"}
  <2>1. f \in FlagRecs
    BY GivenFlags
  <2> QED
    BY <2>1 DEF FlagRecs, Conditions
<1>2. q \in [source : BOOLEAN, mac : BOOLEAN, dest : {"iface", "moved", "none"}, name : {"other", "domain", "sub"}, spelled : BOOLEAN]
  BY DEF AskedOf
<1>3. /\ AsMeant(q).source = q.source /\ AsMeant(q).mac = q.mac /\ AsMeant(q).name = q.name
      /\ AsMeant(q).spelled = q.spelled /\ AsMeant(q).dest = IF q.dest = "moved" THEN "iface" ELSE q.dest
  <2>1. AsMeant(q).source = q.source /\ AsMeant(q).mac = q.mac /\ AsMeant(q).name = q.name
    BY <1>2 DEF AsMeant
  <2>2. AsMeant(q).dest = IF q.dest = "moved" THEN "iface" ELSE q.dest
    BY <1>2 DEF AsMeant
  <2>3. AsMeant(q).spelled = TRUE /\ q.spelled = TRUE
    BY <1>2 DEF AsMeant
  <2> QED
    BY <2>1, <2>2, <2>3
<1>4. CASE f.cond = "subnet"
  BY <1>3, <1>4 DEF Meets
<1>5. CASE f.cond = "mac"
  BY <1>3, <1>5 DEF Meets
<1>6. CASE f.cond = "iface"
  BY <1>3, <1>6 DEF Meets
<1>7. CASE f.cond = "domain"
  BY <1>3, <1>7 DEF Meets
<1>8. CASE f.cond = "sub"
  BY <1>3, <1>8 DEF Meets
<1>9. CASE f.cond = "none"
  BY <1>9 DEF Meets
<1> QED
  BY <1>1, <1>4, <1>5, <1>6, <1>7, <1>8, <1>9

(* The first of the flags is that of the least index.                       *)
LEMMA FirstIsLeast ==
  ASSUME ProfileTypes, Settled(rules), NEW I \in SUBSET (DOMAIN rules), I # {}, NEW S \in SUBSET AllFlags,
         \A f \in AllFlags, k \in DOMAIN rules : f.cond = rules[k].cond => (f \in S <=> k \in I)
  PROVE  S # {} /\ rules[Min(I)].id = Value(First(S).cond)
<1>1. PICK i \in I : i = Min(I) /\ \A k \in I : i <= k
  BY MinIsIndex
<1>2. i \in DOMAIN rules /\ i \in Nat /\ DOMAIN rules \subseteq Nat
  BY <1>1 DEF ProfileTypes
<1>9. PICK n \in Nat : Begun(rules, n)
  BY DEF Settled
<1>10. Known(rules)
  BY DEF Settled
<1> DEFINE Of == {f \in AllFlags : f.cond = rules[i].cond}
           R == {Rank(f) : f \in Of}
<1>3. Of # {}
  BY <1>2, <1>10 DEF Known
<1>4. PICK e \in Of : \A f \in Of : Rank(e) <= Rank(f)
  <2>1. R \in SUBSET Nat /\ R # {}
    BY <1>3, Ranks
  <2>2. PICK r \in R : \A k \in R : r <= k
    <3> HIDE DEF R
    <3> QED
      BY <2>1, LeastNatural
  <2> QED
    BY <2>2
<1>5. e \in S /\ e \in AllFlags /\ e.cond = rules[i].cond
  BY <1>1, <1>2, <1>4
<1>6. ASSUME NEW g \in S PROVE Rank(e) <= Rank(g)
  <2>1. PICK k \in DOMAIN rules : k <= n /\ g.cond = rules[k].cond
    BY <1>9 DEF Begun
  <2>2. k \in I /\ g \in AllFlags
    BY <2>1
  <2>3. CASE k = i
    BY <2>1, <2>2, <2>3, <1>4
  <2>4. CASE k # i
    <3>1. i < k
      BY <2>2, <2>4, <1>1, <1>2
    <3>2. Before(rules, AllFlags, i, k)
      BY <3>1, <2>1, <1>2, <1>9 DEF Begun
    <3>3. PICK f \in AllFlags : f.cond = rules[i].cond /\ Rank(f) < Rank(g)
      BY <3>2, <2>1, <2>2 DEF Before
    <3>4. Rank(e) <= Rank(f)
      BY <3>3, <1>4
    <3>5. Rank(e) \in Nat /\ Rank(f) \in Nat /\ Rank(g) \in Nat
      BY <1>5, <2>2, Ranks
    <3> QED
      BY <3>3, <3>4, <3>5
  <2> QED
    BY <2>3, <2>4
<1>7. First(S) = e
  <2>1. ASSUME NEW h \in S, \A g \in S : Rank(h) <= Rank(g) PROVE h = e
    <3>1. Rank(h) <= Rank(e) /\ Rank(e) <= Rank(h) /\ Rank(h) \in Nat /\ Rank(e) \in Nat
      BY <2>1, <1>5, <1>6, Ranks
    <3>2. Rank(h) = Rank(e)
      BY <3>1
    <3> QED
      BY <3>2, <1>5, Ranks
  <2> QED
    BY <2>1, <1>5, <1>6 DEF First
<1> QED
  BY <1>1, <1>2, <1>5, <1>7, <1>10 DEF Known

LEMMA SettledChooses ==
  ASSUME ProfileTypes, Settled(rules), NEW q \in AskedOf(option), q.spelled,
         ~ (q.dest = "moved" /\ \E f \in AllFlags : f.cond = "iface")
  PROVE  Chosen(q) = Meant(q)
<1> DEFINE any == {f \in AllFlags : Meets(AsMeant(q), f.cond)}
           met == {f \in any : option = "profile" => f.cond # "none"}
           D == {i \in DOMAIN rules : rules[i].cond = "none"}
           I == IF option = "profile" THEN Matching(q) \ D ELSE Matching(q)
<1>1. Meant(q) = IF met # {} THEN Value(First(met).cond) ELSE IF any # {} THEN Value("none") ELSE 0
  BY DEF Meant
<1>2. \A f \in AllFlags : f \in any <=> Meets(q, f.cond)
  BY MeetsAsMeant
<1>3. \A k \in DOMAIN rules : k \in Matching(q) <=> Meets(q, rules[k].cond)
  BY DEF Matching
<1>4. \A f \in AllFlags, k \in DOMAIN rules : f.cond = rules[k].cond => (f \in met <=> k \in I)
  BY <1>2, <1>3
<1>5. I \in SUBSET (DOMAIN rules) /\ met \in SUBSET AllFlags
  BY DEF Matching
<1>6. \A f \in AllFlags : \E k \in DOMAIN rules : f.cond = rules[k].cond
  BY DEF Settled, Begun
<1>7. \A k \in DOMAIN rules : \E f \in AllFlags : f.cond = rules[k].cond
  BY DEF Settled, Known
<1>8. CASE I # {}
  <2>1. met # {} /\ rules[Min(I)].id = Value(First(met).cond)
    <3> HIDE DEF I, met
    <3> QED
      BY <1>4, <1>5, <1>8, FirstIsLeast
  <2>2. Chosen(q) = rules[Min(I)].id
    <3>1. CASE option = "profile"
      <4>1. GetProfile(q) = rules[Min(I)].id
        BY <3>1, <1>8 DEF GetProfile
      <4> QED
        BY <4>1, <3>1, OnceIsEnough DEF Chosen
    <3>2. CASE option = "forwarder"
      BY <3>2, <1>8 DEF Chosen, GetForwarder
    <3> QED
      BY <3>1, <3>2 DEF ProfileTypes
  <2> HIDE DEF met, any, I
  <2> QED
    BY <2>1, <2>2, <1>1
<1>9. CASE I = {}
  <2>1. met = {}
    BY <1>4, <1>5, <1>6, <1>9
  <2>2. CASE option = "forwarder"
    <3>1. any = {}
      BY <2>1, <2>2
    <3>2. Chosen(q) = 0
      BY <2>2, <1>9 DEF Chosen, GetForwarder
    <3> QED
      BY <1>1, <2>1, <3>1, <3>2
  <2>3. CASE option = "profile"
    <3>1. Chosen(q) = IF D # {} THEN rules[Max(D)].id ELSE 0
      <4>1. GetProfile(q) = IF D # {} THEN rules[Max(D)].id ELSE 0
        BY <2>3, <1>9 DEF GetProfile
      <4> QED
        BY <4>1, <2>3, OnceIsEnough DEF Chosen
    <3>2. \A f \in any : f.cond = "none"
      BY <2>1, <2>3
    <3>3. \A f \in AllFlags : f.cond = "none" => f \in any
      BY <1>2 DEF Meets
    <3>4. any # {} <=> D # {}
      BY <3>2, <3>3, <1>6, <1>7
    <3>5. D # {} => rules[Max(D)].id = Value("none")
      <4>1. D \in SUBSET (DOMAIN rules)
        OBVIOUS
      <4>2. D # {} => Max(D) \in D
        <5> HIDE DEF D
        <5> QED
          BY <4>1, MaxIsIndex
      <4>3. ASSUME D # {} PROVE rules[Max(D)].id = Value("none")
        <5>1. PICK m : m = Max(D)
          OBVIOUS
        <5>2. m \in DOMAIN rules /\ rules[m].cond = "none"
          BY <5>1, <4>2, <4>3
        <5> HIDE DEF D
        <5> QED
          BY <5>1, <5>2 DEF Settled, Known
      <4> QED
        BY <4>3
    <3> HIDE DEF met, any, I, D
    <3> QED
      BY <1>1, <2>1, <3>1, <3>4, <3>5
  <2> QED
    BY <2>2, <2>3 DEF ProfileTypes
<1> QED
  BY <1>8, <1>9

(* A query is resolved with the profile, and sent to the server, that the   *)
(* command line and the stored configuration ask for, however the flags     *)
(* have replaced one another and before and after they are stored           *)
(* (config.go:212-241, profile.go:129, forwarder.go:91), but for the cases  *)
(* of Mistaken: an interface that is stored, has no address or moves, a     *)
(* condition given under the old name and in another way, -config=id and    *)
(* -config id among them, a domain spelled otherwise.                       *)
THEOREM SelectionIsMeant == ProfileSpec => []SelectionMeant
<1>1. ProfileInv => SelectionMeant
  <2> SUFFICES ASSUME ProfileInv, taken = "all", query # Nobody, ~Mistaken PROVE chosen = Meant(query)
    BY DEF SelectionMeant
  <2>1. ProfileTypes /\ ~Unclear /\ chosen = Chosen(query)
    BY DEF ProfileInv, Mistaken
  <2>2. query \in AskedOf(option) /\ query.spelled /\ ~ (query.dest = "moved" /\ \E f \in AllFlags : f.cond = "iface")
    BY <2>1 DEF Mistaken, ProfileTypes
  <2>3. Settled(rules)
    <3>1. Final(rules) \/ Settled(rules)
      BY <2>1 DEF ProfileInv, FirstLife, SecondLife
    <3> QED
      BY <3>1, <2>1, FinalIsSettled
  <2>4. PICK q \in AskedOf(option) : q = query
    BY <2>2
  <2>5. Chosen(q) = Meant(q)
    BY <2>1, <2>2, <2>3, <2>4, SettledChooses
  <2> QED
    BY <2>1, <2>4, <2>5
<1> QED
  BY <1>1, ProfileInvHolds, PTL

LEMMA ProfileTyped == ProfileInv => ProfileTypeOK
<1> SUFFICES ASSUME ProfileInv PROVE ProfileTypeOK
  OBVIOUS
<1>1. rules \in Seq(Rules) /\ chosen \in 0 .. MaxArgs + MaxStored
  BY DEF ProfileInv, ProfileTypes
<1>2. \A i \in DOMAIN rules : rules[i].cond \in Conditions(option) /\ rules[i].id \in 1 .. MaxArgs + MaxStored
  <2>1. \A r \in Rules : r.cond \in Conditions(option) /\ r.id \in 1 .. MaxArgs + MaxStored
    BY DEF Rules, RuleRecs, Ids
  <2> QED
    BY <1>1, <2>1
<1> QED
  BY <1>1, <1>2 DEF ProfileTypeOK

-----------------------------------------------------------------------------
(* ARP and NDP tables.                                                       *)

TableTypes ==
    /\ lastUpdate \in Nat /\ table \in Nat /\ begun \in Nat /\ tclock \in Nat
    /\ seeker \in [Seekers -> [at : {"idle", "load", "swap"}, now : Nat, last : Nat]]
    /\ refresh \in [Refreshes -> [at : {"off", "read", "store"}, since : Nat, read : Nat]]
    /\ sought \subseteq Nat

(* The clock has not run away from those that are at work, and the date is  *)
(* that of the last read but for the time a lookup takes.                   *)
InTime ==
    /\ begun <= tclock /\ begun - Delay <= lastUpdate /\ lastUpdate <= begun
    /\ \A s \in Seekers : seeker[s].at # "idle" => seeker[s].now <= tclock /\ tclock <= seeker[s].now + Delay
    /\ \A r \in Refreshes : refresh[r].at # "off" => refresh[r].since = begun /\ tclock <= begun + ReadTime
    /\ \A t \in sought : t <= tclock

(* A lookup that will lose the swap has seen a read begin since its clock.  *)
Losing(s) ==
    seeker[s].at = "swap" =>
        /\ seeker[s].now > seeker[s].last + Throttle
        /\ seeker[s].last # lastUpdate => begun >= seeker[s].now

(* The table is that of the last read, or of the one before while it runs.  *)
UpToDate ==
    /\ table <= tclock
    /\ \A r \in Refreshes : refresh[r].at = "store" => refresh[r].read >= begun /\ refresh[r].read <= tclock
    /\ (\A r \in Refreshes : refresh[r].at = "off") => table >= begun
    /\ \A t \in sought : t + Delay < begun => table >= t - Throttle

Alone == \A r, q \in Refreshes : refresh[r].at # "off" /\ refresh[q].at # "off" => r = q

(* A lookup that is over has found a date recent enough, or made it so.     *)
Satisfied(t) ==
    begun >= t - Throttle \/ \E s \in Seekers : seeker[s].at # "idle" /\ seeker[s].now = t

TableInv ==
    /\ TableTypes /\ InTime /\ UpToDate /\ Alone
    /\ \A s \in Seekers : Losing(s)
    /\ \A t \in sought : Satisfied(t)

LEMMA InitTableInv == TableInit => TableInv
<1> QED
  BY TableAssumption
  DEF TableInit, TableInv, TableTypes, InTime, UpToDate, Alone, Losing, Satisfied

LEMMA OnGet == ASSUME TableInv, NEW s \in Seekers, Get(s) PROVE TableInv'
<1> USE TableAssumption
<1>1. TableTypes'
  BY DEF TableInv, TableTypes, Get
<1>2. /\ seeker'[s] = [at |-> "load", now |-> tclock, last |-> 0]
      /\ \A u \in Seekers : u # s => seeker'[u] = seeker[u]
      /\ seeker[s].at = "idle"
  BY DEF TableInv, TableTypes, Get
<1>3. InTime'
  BY <1>2 DEF TableInv, TableTypes, InTime, Get
<1>4. UpToDate' /\ Alone'
  BY DEF TableInv, TableTypes, InTime, UpToDate, Alone, Get
<1>5. \A u \in Seekers : Losing(u)'
  BY <1>2 DEF TableInv, Losing, Get
<1>6. \A t \in sought' : Satisfied(t)'
  BY <1>2 DEF TableInv, Satisfied, Get
<1> QED
  BY <1>1, <1>3, <1>4, <1>5, <1>6 DEF TableInv

LEMMA OnLoadDate == ASSUME TableInv, NEW s \in Seekers, LoadDate(s) PROVE TableInv'
<1> USE TableAssumption
<1>1. TableTypes'
  BY DEF TableInv, TableTypes, LoadDate
<1>2. /\ \A u \in Seekers : u # s => seeker'[u] = seeker[u]
      /\ seeker[s].at = "load" /\ seeker'[s].now = seeker[s].now /\ seeker'[s].last = lastUpdate
      /\ seeker'[s].at = IF seeker[s].now - lastUpdate > Throttle THEN "swap" ELSE "idle"
  BY DEF TableInv, TableTypes, LoadDate
<1>3. InTime'
  BY <1>2 DEF TableInv, TableTypes, InTime, LoadDate
<1>4. UpToDate' /\ Alone'
  BY DEF TableInv, UpToDate, Alone, LoadDate
<1>5. \A u \in Seekers : Losing(u)'
  BY <1>2 DEF TableInv, TableTypes, Losing, LoadDate
<1>6. \A t \in sought' : Satisfied(t)'
  BY <1>2 DEF TableInv, TableTypes, InTime, Satisfied, LoadDate
<1> QED
  BY <1>1, <1>3, <1>4, <1>5, <1>6 DEF TableInv

(* Nothing is being read when a lookup wins the swap: the date is old enough  *)
(* for the last read to be over.                                            *)
LEMMA OnWin == ASSUME TableInv, NEW s \in Seekers, SwapDate(s), Claims(s) PROVE TableInv'
<1> USE TableAssumption
<1>1. \A r \in Refreshes : refresh[r].at = "off"
  BY DEF TableInv, TableTypes, InTime, Losing, SwapDate, Claims
<1>2. PICK r \in Refreshes :
        refresh' = [refresh EXCEPT ![r] = [at |-> "read", since |-> tclock, read |-> 0]]
  BY DEF SwapDate
<1>3. /\ lastUpdate' = seeker[s].now /\ begun' = tclock /\ seeker[s].at = "swap"
      /\ table' = table /\ tclock' = tclock /\ sought' = sought
      /\ seeker' = [seeker EXCEPT ![s].at = "idle"]
  BY DEF SwapDate
<1>4. TableTypes'
  BY <1>2, <1>3 DEF TableInv, TableTypes
<1>5. /\ \A u \in Seekers : u # s => seeker'[u] = seeker[u]
      /\ seeker'[s].at = "idle"
      /\ refresh'[r] = [at |-> "read", since |-> tclock, read |-> 0]
      /\ \A q \in Refreshes : q # r => refresh'[q].at = "off"
  BY <1>1, <1>2, <1>3 DEF TableInv, TableTypes
<1>6. InTime'
  BY <1>3, <1>5 DEF TableInv, TableTypes, InTime
<1>7. UpToDate'
  <2>1. ASSUME NEW t \in sought, t + Delay < tclock PROVE table >= t - Throttle
    <3>1. ~ \E u \in Seekers : seeker[u].at # "idle" /\ seeker[u].now = t
      BY <2>1 DEF TableInv, TableTypes, InTime
    <3> QED
      BY <1>1, <2>1, <3>1 DEF TableInv, TableTypes, UpToDate, Satisfied
  <2>2. table <= tclock
    BY DEF TableInv, UpToDate
  <2> QED
    BY <1>3, <1>5, <2>1, <2>2 DEF UpToDate, TableInv, TableTypes
<1>8. Alone'
  BY <1>5 DEF Alone
<1>9. \A u \in Seekers : Losing(u)'
  BY <1>3, <1>5 DEF TableInv, TableTypes, InTime, Losing
<1>10. \A t \in sought' : Satisfied(t)'
  BY <1>3 DEF TableInv, TableTypes, InTime, Satisfied
<1> QED
  BY <1>4, <1>6, <1>7, <1>8, <1>9, <1>10 DEF TableInv

LEMMA OnLose == ASSUME TableInv, NEW s \in Seekers, SwapDate(s), ~Claims(s) PROVE TableInv'
<1> USE TableAssumption
<1>1. /\ lastUpdate' = seeker[s].now /\ begun' = begun /\ seeker[s].at = "swap" /\ refresh' = refresh
      /\ table' = table /\ tclock' = tclock /\ sought' = sought
      /\ seeker' = [seeker EXCEPT ![s].at = "idle"]
  BY DEF SwapDate
<1>2. TableTypes'
  BY <1>1 DEF TableInv, TableTypes
<1>3. /\ \A u \in Seekers : u # s => seeker'[u] = seeker[u]
      /\ seeker'[s].at = "idle"
  BY <1>1 DEF TableInv, TableTypes
<1>4. begun >= seeker[s].now /\ seeker[s].now >= tclock - Delay /\ begun <= tclock
  BY <1>1 DEF TableInv, TableTypes, InTime, Losing, Claims
<1>5. InTime'
  BY <1>1, <1>3, <1>4 DEF TableInv, TableTypes, InTime
<1>6. UpToDate' /\ Alone'
  BY <1>1 DEF TableInv, UpToDate, Alone
<1>7. \A u \in Seekers : Losing(u)'
  <2> SUFFICES ASSUME NEW u \in Seekers, u # s, seeker[u].at = "swap", ~(begun >= seeker[u].now)
               PROVE  FALSE
    BY <1>1, <1>3 DEF TableInv, Losing
  <2>1. seeker[u].now > lastUpdate + Throttle /\ seeker[u].now <= tclock
    BY DEF TableInv, TableTypes, InTime, Losing
  <2> QED
    BY <1>4, <2>1 DEF TableInv, TableTypes, InTime
<1>8. \A t \in sought' : Satisfied(t)'
  BY <1>1, <1>3, <1>4 DEF TableInv, TableTypes, Satisfied
<1> QED
  BY <1>2, <1>5, <1>6, <1>7, <1>8 DEF TableInv

LEMMA OnRead == ASSUME TableInv, NEW r \in Refreshes, ReadTable(r) \/ StoreTable(r) PROVE TableInv'
<1> USE TableAssumption
<1>1. /\ lastUpdate' = lastUpdate /\ begun' = begun /\ seeker' = seeker
      /\ tclock' = tclock /\ sought' = sought
  BY DEF ReadTable, StoreTable
<1>2. TableTypes'
  BY DEF TableInv, TableTypes, ReadTable, StoreTable
<1>3. refresh[r].at # "off" /\ \A q \in Refreshes : q # r => refresh'[q] = refresh[q] /\ refresh[q].at = "off"
  BY DEF TableInv, TableTypes, Alone, ReadTable, StoreTable
<1>4. refresh'[r].at # "off" => refresh'[r].since = refresh[r].since
  BY DEF TableInv, TableTypes, ReadTable, StoreTable
<1>5. InTime' /\ Alone'
  BY <1>1, <1>3, <1>4 DEF TableInv, InTime, Alone
<1>6. UpToDate'
  <2>1. CASE ReadTable(r)
    <3>1. refresh'[r].at = "store" /\ refresh'[r].read = tclock /\ table' = table
      BY <2>1 DEF TableInv, TableTypes, ReadTable
    <3> QED
      BY <1>1, <1>3, <3>1 DEF TableInv, TableTypes, InTime, UpToDate
  <2>2. CASE StoreTable(r)
    <3>1. refresh[r].at = "store" /\ refresh'[r].at = "off" /\ table' = refresh[r].read
      BY <2>2 DEF TableInv, TableTypes, StoreTable
    <3>2. table' >= begun /\ table' <= tclock
      BY <3>1 DEF TableInv, UpToDate
    <3>3. ASSUME NEW t \in sought, t + Delay < begun PROVE table' >= t - Throttle
      BY <1>2, <3>2, <3>3 DEF TableInv, TableTypes
    <3> QED
      BY <1>1, <1>3, <3>1, <3>2, <3>3 DEF UpToDate
  <2> QED
    BY <2>1, <2>2
<1>7. \A u \in Seekers : Losing(u)'
  BY <1>1 DEF TableInv, Losing
<1>8. \A t \in sought' : Satisfied(t)'
  BY <1>1 DEF TableInv, Satisfied
<1> QED
  BY <1>2, <1>5, <1>6, <1>7, <1>8 DEF TableInv

LEMMA OnTableTick == ASSUME TableInv, TableTick PROVE TableInv'
<1> USE TableAssumption
<1>1. InTime'
  BY DEF TableInv, TableTypes, InTime, TableTick
<1> QED
  BY <1>1 DEF TableInv, TableTypes, InTime, UpToDate, Alone, Losing, Satisfied, TableTick

LEMMA TableInvHolds == TableSpec => []TableInv
<1>1. TableInv /\ [TableNext]_tvars => TableInv'
  <2> SUFFICES ASSUME TableInv, [TableNext]_tvars PROVE TableInv'
    OBVIOUS
  <2>1. CASE UNCHANGED tvars
    BY <2>1 DEF tvars, TableInv, TableTypes, InTime, UpToDate, Alone, Losing, Satisfied
  <2>2. ASSUME NEW s \in Seekers, Get(s) \/ LoadDate(s) \/ SwapDate(s) PROVE TableInv'
    BY <2>2, OnGet, OnLoadDate, OnWin, OnLose
  <2>3. ASSUME NEW r \in Refreshes, ReadTable(r) \/ StoreTable(r) PROVE TableInv'
    BY <2>3, OnRead
  <2> QED
    BY <2>1, <2>2, <2>3, OnTableTick DEF TableNext
<1> QED
  BY <1>1, InitTableInv, PTL DEF TableSpec

(* Whatever lookups race for the refresh and lose it, the table is read once *)
(* at a time and is as fresh as they asked for (arp/cache.go:17-31).         *)
THEOREM TableIsKept == TableSpec => []TableKept
<1>1. TableInv => TableKept
  <2> SUFFICES ASSUME TableInv PROVE TableKept
    OBVIOUS
  <2>1. OneRead
    <3> DEFINE On == {r \in Refreshes : refresh[r].at # "off"}
    <3>1. CASE On = {}
      BY <3>1, FS_EmptySet, SMT DEF OneRead
    <3>2. CASE On # {}
      <4>1. PICK r \in Refreshes : On = {r}
        BY <3>2 DEF TableInv, Alone
      <4>2. Cardinality(On) = 1
        BY <4>1, FS_Singleton
      <4> QED
        BY <4>2, SMT DEF OneRead
    <3> QED
      BY <3>1, <3>2
  <2>2. DateEarned
    BY DEF TableInv, InTime, DateEarned
  <2>3. TableFresh
    <3> SUFFICES ASSUME NEW t \in sought, t + Delay + ReadTime < tclock PROVE table >= t - Throttle
      BY DEF TableFresh
    <3>1. begun >= t - Throttle
      BY TableAssumption DEF TableInv, TableTypes, InTime, Satisfied
    <3>2. CASE \A r \in Refreshes : refresh[r].at = "off"
      BY <3>1, <3>2, TableAssumption DEF TableInv, TableTypes, UpToDate
    <3>3. CASE \E r \in Refreshes : refresh[r].at # "off"
      BY <3>3, TableAssumption DEF TableInv, TableTypes, InTime, UpToDate
    <3> QED
      BY <3>2, <3>3
  <2> QED
    BY <2>1, <2>2, <2>3 DEF TableKept
<1> QED
  BY <1>1, TableInvHolds, PTL


-----------------------------------------------------------------------------
(* The types of the five parts.                                              *)

LEMMA PathTyped == PathInv => PathTypeOK
<1> SUFFICES ASSUME PathInv PROVE PathTypeOK
  OBVIOUS
<1>1. asked \in 0 .. MaxQueries
  BY DEF PathInv
<1>2. \A c \in Jobs : job[c] \in JobRecs
  BY DEF PathInv, JobOK
<1>3. ASSUME NEW k \in Keys, cache53[k].fresh
      PROVE  cache53[k].msg.about = k /\ cache53[k].msg.src = "upstream"
  <2>1. Stored(k, cache53[k])
    BY DEF PathInv
  <2>2. cache53[k] # NoEntry
    BY <1>3 DEF NoEntry
  <2> QED
    BY <2>1, <2>2 DEF Stored
<1> QED
  BY <1>1, <1>2, <1>3 DEF PathTypeOK, JobRecs

LEMMA TableTyped == TableInv => TableTypeOK
<1> SUFFICES ASSUME TableInv PROVE TableTypeOK
  OBVIOUS
<1>1. lastUpdate <= tclock /\ \A t \in sought : t <= tclock
  BY DEF TableInv, TableTypes, InTime
<1> QED
  BY <1>1 DEF TableInv, TableTypes, InTime, UpToDate, TableTypeOK

LEMMA TransportTyped == RaceInv => TransportTypeOK
<1> SUFFICES ASSUME RaceInv PROVE TransportTypeOK
  OBVIOUS
<1>1. won \subseteq AllAddrs
  BY DEF RaceInv, RaceTypes, Caller
<1> QED
  BY <1>1 DEF RaceInv, RaceTypes, TransportTypeOK

(* In every part of what goes into an answer the state has its types: the     *)
(* cells of a message and the offsets of its names, the goroutines of queries *)
(* and what their cache holds fresh, the dates of a hardware table, the       *)
(* settings of the profiles, the addresses that are dialed.                   *)
THEOREM AnswersTyped == AnswersSpec => []AnswersTypeOK
<1>1. AnswersInit => MessageInit /\ PathInit /\ TableInit /\ ProfileInit /\ TransportInit
  BY DEF AnswersInit
<1>2. [AnswersNext]_<<part, mvars, pvars, tvars, prvars, trvars>> =>
        [MessageNext]_mvars /\ [PathNext]_pvars /\ [TableNext]_tvars /\ [ProfileNext]_prvars
        /\ [TransportNext]_trvars
  BY DEF AnswersNext
<1>3. AnswersSpec => MessageSpec /\ PathSpec /\ TableSpec /\ ProfileSpec /\ TransportSpec
  BY <1>1, <1>2, PTL
  DEF AnswersSpec, MessageSpec, PathSpec, TableSpec, ProfileSpec, TransportSpec
<1>4. AnswersSpec => []PathTypeOK
  BY <1>3, PathInvHolds, PathTyped, PTL
<1>5. AnswersSpec => []TableTypeOK
  BY <1>3, TableInvHolds, TableTyped, PTL
<1>6. AnswersSpec => []ProfileTypeOK
  BY <1>3, ProfileInvHolds, ProfileTyped, PTL
<1>7. AnswersSpec => []TransportTypeOK
  BY <1>3, RaceInvHolds, TransportTyped, PTL
<1> QED
  BY <1>3, <1>4, <1>5, <1>6, <1>7, MessagesTyped, PTL DEF AnswersTypeOK
=============================================================================
