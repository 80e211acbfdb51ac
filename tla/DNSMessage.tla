----------------------------- MODULE DNSMessage -----------------------------
(***************************************************************************)
(* DNS messages as the repository packs, reads and rewrites them: the      *)
(* Builder and the Parser of internal/dnsmessage, updateTTL of             *)
(* resolver/cache.go, the parsing of a query in resolver/query/query.go.   *)
(*                                                                         *)
(* A message is a sequence of cells <<kind, value>>: its header, a label,  *)
(* the end of a name, a pointer, a field, an item of a list.  An offset    *)
(* counts the cells before a place; a length counts cells.  A class is     *)
(* left out.  A name is the sequence of its labels; the label "void" is    *)
(* empty and "long" has 64 bytes or more, and "bare" stands for all that   *)
(* rejects a name before it is packed (no final dot, 255 bytes).           *)
(***************************************************************************)
EXTENDS Integers, Sequences, FiniteSets, FiniteSetsExt

CONSTANTS
    MsgRecords,     \* the records that may be added: [name, type, ttl, body]
    MsgQuestions,   \* the names that may be asked
    MsgPrefix,      \* cells before the message in the builder's buffer
    MsgOps,         \* bound: calls that add something
    MaxCount,       \* the largest count of a section (65535)
    MaxLen,         \* the largest length of a record's data (65535)
    MaxPtr,         \* the largest offset a pointer can hold (2^14 - 1)
    MaxHops,        \* pointers followed in a name (10)
    Cuts,           \* cells a message may lose at its end
    Ageings         \* calls of updateTTL: [age, maxAge, maxTTL]

VARIABLES
    bld,        \* the builder: msg, section, counts, on (compression), table
    added,      \* for each section, what calls that succeeded have added
    tainted,    \* a call failed after it had changed the compression table
    stage,      \* "build", "finished", "read" or "queried"
    ops,
    wire,       \* the message read, perhaps cut
    aged,       \* the updateTTL applied to it and its result
    prs,        \* the parser
    seen,       \* the parser's last call and its result
    astray,     \* a header was asked of a section while another's was pending
    qry         \* what a query's parsing found

mvars == <<bld, added, tainted, stage, ops, wire, aged, prs, seen, astray, qry>>

MsgSections == 1..4     \* questions, answers, authorities, additionals
NoTable == [x \in {} |-> 0]
NoAge == [age |-> 0, maxAge |-> 0, maxTTL |-> 0, min |-> -1]
NothingSeen == [op |-> "none", err |-> "none", sec |-> 1, index |-> 0, val |-> <<>>]

------------------------------------------------------------------------------
(* What a record's data is made of, by type.                                *)

CNAMEData == <<"name">>
NSData == <<"name">>
PTRData == <<"name">>
MXData == <<"num", "name">>
SOAData == <<"name", "name", "num">>
SRVData == <<"num", "plain">>
AData == <<"num">>
AAAAData == <<"num">>
TXTData == <<"texts">>
OPTData == <<"options">>
SVCBData == <<"num", "plain", "params">>
HTTPSData == SVCBData
UnknownData == <<"raw">>

Data(type) ==
    CASE type = "A" -> AData [] type = "NS" -> NSData [] type = "CNAME" -> CNAMEData
      [] type = "SOA" -> SOAData [] type = "PTR" -> PTRData [] type = "MX" -> MXData
      [] type = "TXT" -> TXTData [] type = "AAAA" -> AAAAData [] type = "SRV" -> SRVData
      [] type = "SVCB" -> SVCBData [] type = "HTTPS" -> HTTPSData [] type = "OPT" -> OPTData
      [] OTHER -> UnknownData

\* A sequence, whatever its elements are.
IsSeq(s) == s \in Seq({s[i] : i \in DOMAIN s})

\* ^uint32(0), the largest TTL a record can have.
MaxTTLValue == 1000

ASSUME MessageAssumption ==
    /\ {MsgPrefix, MsgOps, MaxCount, MaxLen, MaxPtr, MaxHops} \subseteq Nat
    /\ Cuts \subseteq Nat
    /\ \A name \in MsgQuestions : IsSeq(name)
    /\ \A r \in MsgRecords :
           /\ IsSeq(r.name) /\ r.ttl \in 0..MaxTTLValue
           /\ Len(r.body) = Len(Data(r.type))
           /\ \A i \in 1..Len(r.body) : Data(r.type)[i] = "num" \/ IsSeq(r.body[i])
    /\ \A a \in Ageings : {a.age, a.maxAge, a.maxTTL} \subseteq 0..MaxTTLValue

IsList(kind) == kind \in {"texts", "options", "params", "raw"}

Cells(kind, items) == [i \in 1..Len(items) |-> <<kind, items[i]>>]

\* Param number n in the order of the keys.
NthParam(items, n) ==
    CHOOSE v \in {items[i] : i \in 1..Len(items)} :
        /\ Cardinality({i \in 1..Len(items) : items[i] < v}) < n
        /\ n <= Cardinality({i \in 1..Len(items) : items[i] <= v})

SortedParams(items) == [n \in 1..Len(items) |-> NthParam(items, n)]

------------------------------------------------------------------------------
(* Packing.  A pack is [ok, msg, on, table]: when a call fails, msg is      *)
(* dropped and the table, which is shared, stays as it was left.            *)

Append1(pk, kind, v) == [pk EXCEPT !.msg = Append(@, <<kind, v>>)]

Suffix(name, i) == SubSeq(name, i, Len(name))

\* The offset a pointer to what comes next in the buffer would have.
Offset_Absolute(pk) == Len(pk.msg)      \* mutant: counted from the buffer's beginning

Offset(pk) == Len(pk.msg) - MsgPrefix

PointerFits_OffByOne(off) == off <= MaxPtr + 1      \* mutant

PointerFits(off) == off <= MaxPtr

\* The place of a name where its labels stop being written: a suffix already
\* written, a label that is refused, the end.
NameStop(pk, name, shared) ==
    Min({i \in 1..Len(name) : \/ shared /\ name[i] # "void" /\ Suffix(name, i) \in DOMAIN pk.table
                              \/ name[i] \in {"void", "long"}} \cup {Len(name) + 1})

PackName(pk, name, compress) ==
    LET shared == compress /\ pk.on
        stop == NameStop(pk, name, shared)
        hit == stop <= Len(name) /\ shared /\ Suffix(name, stop) \in DOMAIN pk.table
        bad == stop <= Len(name) /\ ~hit
        new == IF ~shared THEN {}
               ELSE {i \in 1..stop : /\ (i < stop \/ (bad /\ name[i] = "long"))
                                     /\ PointerFits(Offset(pk) + i - 1)}
        place(s) == Offset(pk) + (Len(name) - Len(s))
        table == [s \in DOMAIN pk.table \cup {Suffix(name, i) : i \in new} |->
                      IF s \in DOMAIN pk.table THEN pk.table[s] ELSE place(s)]
        tail == IF hit THEN <<"ptr", pk.table[Suffix(name, stop)]>> ELSE <<"end", 0>>
    IN IF \E i \in 1..Len(name) : name[i] = "bare" THEN [pk EXCEPT !.ok = FALSE]
       ELSE [pk EXCEPT !.ok = ~bad, !.table = table,
                       !.msg = @ \o Cells("label", SubSeq(name, 1, stop - 1)) \o <<tail>>]

PackField(pk, kind, v) ==
    CASE kind = "name" -> PackName(pk, v, TRUE)
      [] kind = "plain" -> PackName(pk, v, FALSE)
      [] kind = "num" -> Append1(pk, "num", v)
      [] kind = "params" -> [pk EXCEPT !.msg = @ \o Cells(kind, SortedParams(v))]
      [] kind \in {"options", "raw"} -> [pk EXCEPT !.msg = @ \o Cells(kind, v)]
      [] kind = "texts" -> IF \E i \in 1..Len(v) : v[i] = "long" THEN [pk EXCEPT !.ok = FALSE]
                           ELSE [pk EXCEPT !.msg = @ \o Cells(kind, v)]

PackBody(pk, r) ==
    LET kinds == Data(r.type)
        f[i \in 0..Len(kinds)] ==
            IF i = 0 THEN pk
            ELSE LET before == f[i - 1] IN IF before.ok THEN PackField(before, kinds[i], r.body[i]) ELSE before
    IN f[Len(kinds)]

PackHeader(pk, r) ==
    LET named == PackName(pk, r.name, TRUE) IN
    IF ~named.ok THEN named
    ELSE Append1(Append1(Append1(named, "type", r.type), "ttl", r.ttl), "len", 0)

\* The record with its length filled in.
PackResource(pk, r) ==
    LET header == PackHeader(pk, r)
        whole == IF header.ok THEN PackBody(header, r) ELSE header
        length == Len(whole.msg) - Len(header.msg)
    IN IF ~whole.ok THEN whole
       ELSE IF length > MaxLen THEN [whole EXCEPT !.ok = FALSE]
       ELSE [whole EXCEPT !.msg[Len(header.msg)] = <<"len", length>>]

PackQuestion(pk, name) ==
    LET named == PackName(pk, name, TRUE) IN IF named.ok THEN Append1(named, "type", "A") ELSE named

------------------------------------------------------------------------------
(* The builder.                                                             *)

NewBuilder ==
    [msg |-> [i \in 1..(MsgPrefix + 1) |-> <<"head", 0>>], section |-> 0,
     counts |-> [s \in MsgSections |-> 0], on |-> FALSE, table |-> NoTable]

PackOf(b) == [ok |-> TRUE, msg |-> b.msg, on |-> b.on, table |-> b.table]

EnableCompression ==
    /\ stage = "build" /\ ops = 0 /\ ~bld.on
    /\ bld' = [bld EXCEPT !.on = TRUE, !.table = NoTable]
    /\ UNCHANGED <<added, tainted, stage, ops, wire, aged, prs, seen, astray, qry>>

StartSection(s) ==
    /\ stage = "build" /\ bld.section < s
    /\ bld' = [bld EXCEPT !.section = s]
    /\ UNCHANGED <<added, tainted, stage, ops, wire, aged, prs, seen, astray, qry>>

\* The end of a call that adds x, packed as pk: refused, or counted and kept.
Add(pk, x) ==
    /\ ops < MsgOps /\ ops' = ops + 1
    /\ IF pk.ok /\ bld.counts[bld.section] < MaxCount
       THEN /\ bld' = [bld EXCEPT !.msg = pk.msg, !.table = pk.table, !.counts[bld.section] = @ + 1]
            /\ added' = [added EXCEPT ![bld.section] = Append(@, x)]
            /\ UNCHANGED tainted
       ELSE /\ bld' = [bld EXCEPT !.table = pk.table]
            /\ tainted' = (tainted \/ pk.table # bld.table)
            /\ UNCHANGED added
    /\ UNCHANGED <<stage, wire, aged, prs, seen, astray, qry>>

AddQuestion(name) ==
    /\ stage = "build" /\ bld.section = 1
    /\ Add(PackQuestion(PackOf(bld), name), name)

AddResource(r) ==
    /\ stage = "build" /\ bld.section \in 2..4
    /\ Add(PackResource(PackOf(bld), r), r)

Finish ==
    /\ stage = "build"
    /\ stage' = "finished"
    /\ bld' = [bld EXCEPT !.section = 5]
    /\ UNCHANGED <<added, tainted, ops, wire, aged, prs, seen, astray, qry>>

\* AppendPack of the message m, with its questions and its records.
AppendPack(m) ==
    LET items == m[1] \o m[2] \o m[3] \o m[4]
        f[i \in 0..Len(items)] ==
            IF i = 0 THEN [PackOf(NewBuilder) EXCEPT !.on = TRUE]
            ELSE LET before == f[i - 1] IN
                 IF ~before.ok THEN before
                 ELSE IF i <= Len(m[1]) THEN PackQuestion(before, items[i]) ELSE PackResource(before, items[i])
    IN f[Len(items)]

------------------------------------------------------------------------------
(* Reading.                                                                 *)

At(msg, off) == msg[off + 1]

\* Where what follows a name begins, or -1: past its end or its first pointer.
SkipName(msg, off) ==
    LET ends == {o \in off..(Len(msg) - 1) : At(msg, o)[1] \in {"end", "ptr"}}
    IN IF ends = {} THEN -1 ELSE Min(ends) + 1

\* Where the labels that begin at off stop.
LabelsStop(msg, off) ==
    Min({o \in off..(Len(msg) - 1) : At(msg, o)[1] # "label"} \cup {Max({off, Len(msg)})})

UnpackName(msg, off) ==
    LET stop(o) == LabelsStop(msg, o)
        stopsAt(o, kind) == stop(o) < Len(msg) /\ At(msg, stop(o))[1] = kind
        gather(x) == x.name \o [i \in 1..(stop(x.off) - x.off) |-> msg[x.off + i][2]]
        hop(x) ==
            IF x.ok /\ stopsAt(x.off, "ptr")
            THEN [ok |-> TRUE, off |-> At(msg, stop(x.off))[2], name |-> gather(x)]
            ELSE [ok |-> FALSE, off |-> 0, name |-> <<>>]
        f[hops \in 0..MaxHops] ==      \* where that many pointers lead, and the labels before
            IF hops = 0 THEN [ok |-> TRUE, off |-> off, name |-> <<>>] ELSE hop(f[hops - 1])
        named(ends) == [ok |-> ends # {}, name |-> IF ends = {} THEN <<>> ELSE gather(f[Min(ends)]),
                        end |-> SkipName(msg, off)]
    IN named({hops \in 0..MaxHops : f[hops].ok /\ stopsAt(f[hops].off, "end")})

\* The end of the fixed fields of the record at off (type, TTL, length), or -1.
FieldsEnd(msg, off) ==
    LET l == SkipName(msg, off) IN IF l = -1 \/ l + 3 > Len(msg) THEN -1 ELSE l + 3

UnpackHeader(msg, off) ==
    LET header(named) ==
            IF ~named.ok \/ FieldsEnd(msg, off) = -1 THEN [ok |-> FALSE]
            ELSE [ok |-> TRUE, name |-> named.name, type |-> At(msg, named.end)[2],
                  ttl |-> At(msg, named.end + 1)[2], length |-> At(msg, named.end + 2)[2], end |-> named.end + 3]
    IN header(UnpackName(msg, off))

UnpackBody(msg, off, type, length) ==
    LET kinds == Data(type)
        end == off + length
        read(st, kind) ==
            CASE kind = "num" -> IF st.off >= Len(msg) THEN [st EXCEPT !.ok = FALSE]
                                 ELSE [ok |-> TRUE, off |-> st.off + 1, vals |-> Append(st.vals, At(msg, st.off)[2])]
              [] kind \in {"name", "plain"} ->
                     LET n == UnpackName(msg, st.off) IN
                     [ok |-> n.ok, off |-> n.end, vals |-> Append(st.vals, n.name)]
              [] IsList(kind) ->
                     IF end > Len(msg) THEN [st EXCEPT !.ok = FALSE]
                     ELSE [ok |-> TRUE, off |-> end,
                           vals |-> Append(st.vals, [i \in 1..(end - st.off) |-> msg[st.off + i][2]])]
        f[i \in 0..Len(kinds)] ==
            IF i = 0 THEN [ok |-> TRUE, off |-> off, vals |-> <<>>]
            ELSE LET before == f[i - 1] IN IF before.ok THEN read(before, kinds[i]) ELSE before
    IN f[Len(kinds)]

\* The end of the record at off, or -1.
SkipResource(msg, off) ==
    LET f == FieldsEnd(msg, off) IN
    IF f = -1 \/ f + At(msg, f - 1)[2] > Len(msg) THEN -1 ELSE f + At(msg, f - 1)[2]

\* The end of the question at off, or -1.
SkipQuestion(msg, off) ==
    LET l == SkipName(msg, off) IN IF l = -1 \/ l + 1 > Len(msg) THEN -1 ELSE l + 1

------------------------------------------------------------------------------
(* The parser, on the message in wire.                                      *)

Parser == [sec |-> 1, index |-> 0, off |-> 1, valid |-> FALSE, hoff |-> 0, htype |-> "none", hlen |-> 0]

\* The network hands over the finished message, or its beginning.
Deliver(cut) ==
    /\ stage = "finished"
    /\ stage' = "read"
    /\ wire' = SubSeq(bld.msg, MsgPrefix + 1, Max({Len(bld.msg) - cut, MsgPrefix + 1}))
    /\ UNCHANGED <<bld, added, tainted, ops, aged, prs, seen, astray, qry>>

\* checkAdvance: [err, p].
CheckAdvance(p, s) ==
    IF p.sec # s THEN [err |-> IF p.sec < s THEN "notstarted" ELSE "done", p |-> p]
    ELSE IF p.index = bld.counts[s]
         THEN [err |-> "done", p |-> [p EXCEPT !.valid = FALSE, !.index = 0, !.sec = @ + 1]]
    ELSE [err |-> "none", p |-> [p EXCEPT !.valid = FALSE]]

Next1(p, off) == [p EXCEPT !.off = off, !.index = @ + 1, !.valid = FALSE]

\* The results of the calls: [err, p, val].
QuestionCall(p) ==
    LET c == CheckAdvance(p, 1)
        n == UnpackName(wire, p.off)
    IN IF c.err # "none" THEN [err |-> c.err, p |-> c.p, val |-> <<>>]
       ELSE IF ~n.ok \/ SkipQuestion(wire, p.off) = -1 THEN [err |-> "bad", p |-> c.p, val |-> <<>>]
       ELSE [err |-> "none", p |-> Next1(c.p, SkipQuestion(wire, p.off)), val |-> n.name]

SkipQuestionCall(p) ==
    LET c == CheckAdvance(p, 1) IN
    IF c.err # "none" THEN [err |-> c.err, p |-> c.p, val |-> <<>>]
    ELSE IF SkipQuestion(wire, p.off) = -1 THEN [err |-> "bad", p |-> c.p, val |-> <<>>]
    ELSE [err |-> "none", p |-> Next1(c.p, SkipQuestion(wire, p.off)), val |-> <<>>]

HeaderCall(p, s) ==
    LET c == CheckAdvance(IF p.valid THEN [p EXCEPT !.off = p.hoff] ELSE p, s)
        h == UnpackHeader(wire, c.p.off)
    IN IF c.err # "none" THEN [err |-> c.err, p |-> c.p, val |-> <<>>]
       ELSE IF ~h.ok THEN [err |-> "bad", p |-> c.p, val |-> <<>>]
       ELSE [err |-> "none", val |-> h,
             p |-> [c.p EXCEPT !.valid = TRUE, !.hoff = c.p.off, !.off = h.end, !.htype = h.type, !.hlen = h.length]]

\* The call for the data of the type the last header told (AResource, MXResource...).
DataCall(p) ==
    LET b == UnpackBody(wire, p.off, p.htype, p.hlen) IN
    IF ~p.valid THEN [err |-> "notstarted", p |-> p, val |-> <<>>]
    ELSE IF ~b.ok THEN [err |-> "bad", p |-> p, val |-> <<>>]
    ELSE [err |-> "none", p |-> Next1(p, p.off + p.hlen), val |-> b.vals]

ResourceCall(p, s) ==
    LET data(h) ==
            LET b == UnpackBody(wire, h.p.off, h.p.htype, h.p.hlen) IN
            IF h.err # "none" THEN h
            ELSE IF ~b.ok THEN [err |-> "bad", p |-> [h.p EXCEPT !.valid = FALSE], val |-> <<>>]
            ELSE [err |-> "none", p |-> Next1(h.p, h.p.off + h.p.hlen), val |-> b.vals]
    IN data(HeaderCall(p, s))

SkipCall(p, s) ==
    LET c == CheckAdvance(p, s) IN
    IF p.valid /\ p.sec = s
    THEN IF p.off + p.hlen > Len(wire) THEN [err |-> "bad", p |-> p, val |-> <<>>]
         ELSE [err |-> "none", p |-> Next1(p, p.off + p.hlen), val |-> <<>>]
    ELSE IF c.err # "none" THEN [err |-> c.err, p |-> c.p, val |-> <<>>]
    ELSE IF SkipResource(wire, c.p.off) = -1 THEN [err |-> "bad", p |-> c.p, val |-> <<>>]
    ELSE [err |-> "none", p |-> Next1(c.p, SkipResource(wire, c.p.off)), val |-> <<>>]

\* A call op on section s that gives r. A reader stops at a record it cannot read,
\* and is not followed further once it is astray: what it reads is then any bytes.
Call(op, s, r) ==
    /\ stage = "read" /\ seen.err # "bad" /\ ~astray
    /\ prs' = r.p
    /\ seen' = [op |-> op, err |-> r.err, sec |-> s, index |-> prs.index, val |-> r.val]
    /\ astray' = (astray \/ (op = "header" /\ prs.valid /\ s # prs.sec))
    /\ UNCHANGED <<bld, added, tainted, stage, ops, wire, aged, qry>>

ParseQuestion == prs.sec = 1 /\ Call("question", 1, QuestionCall(prs))
ParseSkipQuestion == prs.sec = 1 /\ Call("skip", 1, SkipQuestionCall(prs))
ParseHeader(s) == prs.sec \in 2..4 /\ Call("header", s, HeaderCall(prs, s))
ParseData == prs.sec \in 2..4 /\ Call("data", prs.sec, DataCall(prs))
ParseResource == prs.sec \in 2..4 /\ Call("data", prs.sec, ResourceCall(prs, prs.sec))
ParseSkip == prs.sec \in 2..4 /\ Call("skip", prs.sec, SkipCall(prs, prs.sec))

------------------------------------------------------------------------------
(* updateTTL (resolver/cache.go).                                           *)

Rest(ttl, age) == IF age > ttl THEN 0 ELSE ttl - age

Questions(msg) ==
    LET f[i \in 0..MaxCount] ==
            IF i = 0 THEN 1
            ELSE LET before == f[i - 1] IN IF before = -1 THEN -1 ELSE SkipQuestion(msg, before)
    IN f[bld.counts[1]]

\* Whether the i-th record is one whose TTL counts: an answer or an authority.
CountsInMin_All(i) == TRUE      \* mutant: additionals count too

CountsInMin(i) == i <= bld.counts[2] + bld.counts[3]

\* [msg, min] of the message with its TTLs aged.
UpdateTTL(msg, age, maxAge, maxTTL) ==
    LET one(st, i) ==
            LET end == FieldsEnd(st.msg, st.off)
                opt == At(st.msg, end - 3)[2] = "OPT"
                rest == Rest(At(st.msg, end - 2)[2], age)
                least == IF maxAge > 0 /\ age > maxAge THEN 0 ELSE Min({st.min, rest})
                given == IF maxTTL > 0 THEN Min({rest, maxTTL}) ELSE rest
                after == end + At(st.msg, end - 1)[2]
            IN IF st.off >= Len(st.msg) THEN [st EXCEPT !.over = TRUE]
               ELSE IF end = -1 THEN [st EXCEPT !.over = TRUE, !.min = 0]
               ELSE [over |-> after > Len(st.msg), off |-> after,
                     msg |-> IF opt THEN st.msg ELSE [st.msg EXCEPT ![end - 1] = <<"ttl", given>>],
                     min |-> IF after > Len(st.msg) THEN 0 ELSE IF opt \/ ~CountsInMin(i) THEN st.min ELSE least]
        f[i \in 0..(3 * MaxCount)] ==
            IF i = 0 THEN [over |-> FALSE, off |-> Questions(msg), msg |-> msg, min |-> MaxTTLValue]
            ELSE LET before == f[i - 1] IN IF before.over THEN before ELSE one(before, i)
        last == f[bld.counts[2] + bld.counts[3] + bld.counts[4]]
    IN IF Questions(msg) = -1 THEN [msg |-> msg, min |-> 0]
       ELSE [msg |-> last.msg, min |-> IF last.min = MaxTTLValue THEN 0 ELSE last.min]

Age(a) ==
    /\ stage = "read" /\ aged = NoAge /\ seen = NothingSeen
    /\ LET u == UpdateTTL(wire, a.age, a.maxAge, a.maxTTL) IN
       /\ wire' = u.msg
       /\ aged' = [age |-> a.age, maxAge |-> a.maxAge, maxTTL |-> a.maxTTL, min |-> u.min]
    /\ UNCHANGED <<bld, added, tainted, stage, ops, prs, seen, astray, qry>>

------------------------------------------------------------------------------
(* Query.parse (resolver/query/query.go): the first additional record is    *)
(* read again for ever when it is not an OPT.                               *)

Nuttered_First(msg, first, n) ==     \* mutant: from the option after the first
    [i \in 1..Len(msg) |-> IF i \in (first + 2)..(first + n) /\ msg[i][2] = "ecs" THEN <<"options", "void">> ELSE msg[i]]

\* nutterECSOption: an option with a full address is blanked where it stands.
Nuttered(msg, first, n) ==
    [i \in 1..Len(msg) |-> IF i \in (first + 1)..(first + n) /\ msg[i][2] = "ecs" THEN <<"options", "void">> ELSE msg[i]]

SkipSections(msg, from) ==
    LET n == bld.counts[2] + bld.counts[3]
        f[i \in 0..(2 * MaxCount)] ==
            IF i = 0 THEN from
            ELSE LET before == f[i - 1] IN IF before = -1 THEN -1 ELSE SkipResource(msg, before)
    IN f[n]

ParseQuery ==
    /\ stage = "read" /\ aged = NoAge /\ seen = NothingSeen
    /\ stage' = "queried"
    /\ LET asked == QuestionCall(prs)
           questions == Questions(wire)
           off == IF questions = -1 THEN -1 ELSE SkipSections(wire, questions)
           h == UnpackHeader(wire, off)
           opt == UnpackBody(wire, h.end, h.type, h.length)
           found == asked.err = "none" /\ off # -1 /\ bld.counts[4] > 0 /\ h.ok /\ h.type = "OPT" /\ opt.ok
       IN /\ qry' = [ended |-> CASE asked.err # "none" -> "question"
                                [] asked.err = "none" /\ off = -1 -> "additional"
                                [] asked.err = "none" /\ off # -1 /\ bld.counts[4] = 0 -> "ok"
                                [] asked.err = "none" /\ off # -1 /\ bld.counts[4] > 0 ->
                                       IF ~h.ok THEN "additional" ELSE IF h.type # "OPT" THEN "loops"
                                       ELSE IF ~opt.ok THEN "OPT" ELSE "ok",
                     name |-> asked.val, sized |-> found,
                     mac |-> found /\ \E i \in 1..h.length : opt.vals[1][i] = "mac"]
          /\ wire' = IF found THEN Nuttered(wire, h.end, h.length) ELSE wire
    /\ UNCHANGED <<bld, added, tainted, ops, aged, prs, seen, astray>>

------------------------------------------------------------------------------

MessageInit ==
    /\ bld = NewBuilder /\ added = [s \in MsgSections |-> <<>>] /\ tainted = FALSE
    /\ stage = "build" /\ ops = 0 /\ wire = <<>> /\ aged = NoAge
    /\ prs = Parser /\ seen = NothingSeen /\ astray = FALSE
    /\ qry = [ended |-> "none", name |-> <<>>, sized |-> FALSE, mac |-> FALSE]

MessageNext ==
    \/ EnableCompression
    \/ \E s \in MsgSections : StartSection(s)
    \/ \E name \in MsgQuestions : AddQuestion(name)
    \/ \E r \in MsgRecords : AddResource(r)
    \/ Finish
    \/ \E cut \in Cuts : Deliver(cut)
    \/ ParseQuestion \/ ParseSkipQuestion
    \/ \E s \in 2..4 : ParseHeader(s)
    \/ ParseData \/ ParseResource \/ ParseSkip
    \/ \E a \in Ageings : Age(a)
    \/ ParseQuery

MessageSpec == MessageInit /\ [][MessageNext]_mvars

------------------------------------------------------------------------------
(* Properties.                                                              *)

\* The record a call is about, and the data a reader of it gets.
Expected == added[seen.sec][seen.index + 1]

Read(r) == [i \in 1..Len(r.body) |-> IF Data(r.type)[i] = "params" THEN SortedParams(r.body[i]) ELSE r.body[i]]

Given(r) ==
    IF r.type = "OPT" \/ aged = NoAge THEN r.ttl
    ELSE LET rest == Rest(r.ttl, aged.age) IN IF aged.maxTTL > 0 THEN Min({rest, aged.maxTTL}) ELSE rest

NamesOf(r) == {r.name} \cup {r.body[i] : i \in {j \in 1..Len(r.body) : Data(r.type)[j] \in {"name", "plain"}}}

IsCut == Len(wire) < Len(bld.msg) - MsgPrefix

\* A reader gets back what the calls of the builder that succeeded have added: each
\* record whole, at its place, with its TTL as aged, and the end of a section only
\* after its last record. A call fails only on a message that was cut or on a name
\* with as many labels as pointers may be followed, which may need one more pointer
\* (dnsmessage: Builder, Parser). Out of its reach: a builder of which a call failed
\* after it had changed the compression table, and a reader that asked for a header
\* of another section while one was pending (Name.pack, resourceHeader).
ReadBack ==
    (~tainted /\ ~astray /\ stage = "read" /\ seen.op # "none") =>
        CASE seen.err = "done" -> seen.index = Len(added[seen.sec]) \/ seen.sec < prs.sec
          [] seen.err = "notstarted" -> TRUE
          [] seen.err = "bad" ->
                 \/ IsCut
                 \/ seen.sec = 1 /\ Len(Expected) >= MaxHops
                 \/ seen.sec > 1 /\ \E n \in NamesOf(Expected) : Len(n) >= MaxHops
          [] seen.err = "none" ->
                 /\ seen.index < Len(added[seen.sec])
                 /\ seen.op = "question" => seen.val = Expected
                 /\ seen.op = "data" => seen.val = Read(Expected)
                 /\ seen.op = "header" => /\ seen.val.name = Expected.name /\ seen.val.type = Expected.type
                                          /\ seen.val.ttl = Given(Expected)

\* A message packed whole has the cells of the one built with calls in the same
\* order (Message.AppendPack and Builder with EnableCompression).
PackAgrees ==
    (stage = "finished" /\ bld.on /\ ~tainted) =>
        AppendPack(added).ok /\ AppendPack(added).msg = bld.msg

\* Both of the above: what is packed, by calls or whole, is what is read.
RoundTrip == ReadBack /\ PackAgrees

\* The TTL updateTTL returns decides how long a cached answer is fresh: the least
\* that is left to the answers and authorities, OPT records left aside, 0 when it
\* is too old or nothing counts; when a record is cut, 0 or what is left to one of
\* them.  A TTL of MaxTTLValue counts as none.
TTLRight ==
    (aged # NoAge /\ ~tainted) =>
        LET counted == {added[2][i] : i \in 1..Len(added[2])} \cup {added[3][i] : i \in 1..Len(added[3])}
            rests == {Rest(r.ttl, aged.age) : r \in {r \in counted : r.type # "OPT"}} \ {MaxTTLValue}
        IN IF (aged.maxAge > 0 /\ aged.age > aged.maxAge) \/ rests = {} THEN aged.min = 0
           ELSE IF IsCut THEN aged.min # 0 => \E r \in rests : aged.min = r
           ELSE aged.min = Min(rests)

\* What a query says of its sender is found and its address goes no further: a
\* query read to its end has no option left with a full address when its OPT record
\* is the first additional one, its size and hardware address are taken, and
\* it is named as it was asked (Query.parse). A query whose first additional record
\* is another never ends.
EDNSFound ==
    (stage = "queried" /\ ~tainted) =>
        LET first == added[4][1] IN
        /\ (qry.ended = "ok" /\ added[4] # <<>>) =>
               /\ qry.sized
               /\ qry.mac <=> (\E i \in 1..Len(first.body[1]) : first.body[1][i] = "mac")
               /\ LET options == FieldsEnd(wire, SkipSections(wire, Questions(wire)))
                  IN \A i \in 1..At(wire, options - 1)[2] : wire[options + i][2] # "ecs"
        /\ qry.ended # "question" => qry.name = added[1][1]
        /\ qry.ended = "loops" => first.type # "OPT"
        /\ qry.ended \in {"additional", "OPT"} => IsCut \/ Len(first.name) >= MaxHops

MessageTypeOK ==
    /\ stage \in {"build", "finished", "read", "queried"} /\ ops \in 0..MsgOps
    /\ bld.section \in 0..5 /\ \A s \in MsgSections : bld.counts[s] = Len(added[s]) /\ bld.counts[s] <= MaxCount
    /\ \A s \in DOMAIN bld.table : bld.table[s] \in 0..MaxPtr
    /\ prs.sec \in 1..5 /\ prs.index \in 0..MaxCount /\ prs.off \in 1..(Len(wire) + 1)
    /\ stage \in {"read", "queried"} => prs.off <= Len(wire)
    /\ (astray \/ tainted) \in BOOLEAN
==============================================================================
