----------------------------- MODULE MCAnswers -----------------------------
\* What goes into an answer, in parts that share no state: messages as they are built and
\* read, the path of a query, the table its client is known by, the profile it is resolved
\* with and the connection it is sent on.  The run chooses one of them.
EXTENDS DNSMessage, AnswerPath, HardwareTable, Profiles, Transport

VARIABLE part

AnswersInit ==
    /\ part \in {"message", "path", "table", "profile", "transport"}
    /\ part = "profile" \/ (args = <<>> /\ stored = <<>> /\ up = TRUE /\ option = "profile")
    /\ part = "transport" \/ records = <<>>
    /\ MessageInit /\ PathInit /\ TableInit /\ ProfileInit /\ TransportInit

AnswersNext ==
    /\ \/ part = "message" /\ MessageNext /\ UNCHANGED <<pvars, tvars, prvars, trvars>>
       \/ part = "path" /\ PathNext /\ UNCHANGED <<mvars, tvars, prvars, trvars>>
       \/ part = "table" /\ TableNext /\ UNCHANGED <<mvars, pvars, prvars, trvars>>
       \/ part = "profile" /\ ProfileNext /\ UNCHANGED <<mvars, pvars, tvars, trvars>>
       \/ part = "transport" /\ TransportNext /\ UNCHANGED <<mvars, pvars, tvars, prvars>>
    /\ UNCHANGED part

AnswersSpec == AnswersInit /\ [][AnswersNext]_<<part, mvars, pvars, tvars, prvars, trvars>>

AnswersTypeOK == MessageTypeOK /\ PathTypeOK /\ TableTypeOK /\ ProfileTypeOK /\ TransportTypeOK

------------------------------------------------------------------------------
\* The records and the names of the run.

Z == <<"z">>
YZ == <<"y", "z">>
XYZ == <<"x", "y", "z">>

Rec(n, t, ttl, b) == [name |-> n, type |-> t, ttl |-> ttl, body |-> b]

MCRecords ==
    {Rec(XYZ, "CNAME", 1, <<XYZ>>), Rec(Z, "SOA", 5, <<YZ, XYZ, 0>>),
     Rec(<<>>, "OPT", 9, <<<<"ecs", "mac">>>>),
     Rec(YZ, "SVCB", 3, <<1, YZ, <<2, 1>>>>), Rec(YZ, "MX", 2, <<1, <<"w", "long">>>>),
     Rec(XYZ, "raw", 3, <<<<1, 2, 3, 4, 5, 6>>>>),
     Rec(Z, "TXT", 4, <<<<"t", "u">>>>), Rec(<<"z", "void">>, "NS", 4, <<<<"bare">>>>)}
MCQuestions == {Z, XYZ}
MCAgeings == {[age |-> 2, maxAge |-> 0, maxTTL |-> 0], [age |-> 2, maxAge |-> 1, maxTTL |-> 1]}

------------------------------------------------------------------------------
\* The queries of the run.

Query(id, key, ptr, private, parsed, msgSize, local, disc) ==
    [id |-> id, key |-> key, ptr |-> ptr, rd |-> TRUE, private |-> private, parsed |-> parsed,
     msgSize |-> msgSize, local |-> local, disc |-> disc]

MCAsked ==
    {Query(1, "a", FALSE, FALSE, "ok", 1232, "unknown", "unknown"), Query(3, "a", FALSE, FALSE, "ok", 4096, "unknown", "unknown"),
     Query(1, "b", FALSE, FALSE, "ok", 512, "unknown", "records"), Query(3, "c", TRUE, FALSE, "ok", 512, "bad", "bad"),
     Query(1, "d", TRUE, TRUE, "ok", 512, "unknown", "name"), Query(1, "e", FALSE, FALSE, "ok", 512, "records", "unknown"),
     Query(3, "b", FALSE, FALSE, "no", 512, "unknown", "unknown"), Query(5, "d", TRUE, TRUE, "loops", 512, "unknown", "unknown"),
     [Query(7, "d", TRUE, TRUE, "ok", 512, "unknown", "records") EXCEPT !.rd = FALSE]}
MCHints == {{}, {"v4"}, {"v6"}, {"v4", "w4"}}
=============================================================================
