------------------------------ MODULE Profiles ------------------------------
(***************************************************************************)
(* Which profile a query is resolved with, and which server: the lists of  *)
(* config/profile.go and config/forwarder.go, as config.go fills them from *)
(* the command line and the stored configuration, and as run.go uses them. *)
(*                                                                         *)
(* A flag is a value with a condition.  Of a query only which conditions   *)
(* it meets is kept.  A behaviour is about one of the two lists.           *)
(***************************************************************************)
EXTENDS Integers, SequencesExt

CONSTANTS
    MaxArgs,        \* bound: flags on the command line
    MaxStored       \* bound: flags in the stored configuration

ASSUME ProfileAssumption == {MaxArgs, MaxStored} \subseteq Nat

VARIABLES
    option,         \* "profile" or "forwarder"
    args, stored,   \* the flags given to a command, and those stored before: [flag, cond,
                    \* id]; "config", the old name of "profile", as an argument of its
                    \* own or stored, and "config=", written otherwise (-config=id)
    line, file,     \* the flags of the process that parses: the command's or the daemon's
    saved,          \* the command has stored what it was given, and the daemon reads it
    up,             \* the interface of a condition has an address when the program starts
    rules,          \* c.Profile or c.Forwarders
    deprecated,     \* c.ConfigDeprecated
    taken,         \* how far Parse has come
    query,          \* what the query is
    chosen          \* what it was given: 0 for no profile, or for the endpoints of NextDNS

prvars == <<option, args, stored, line, file, saved, up, rules, deprecated, taken, query, chosen>>

Conditions(o) == IF o = "profile" THEN {"subnet", "mac", "iface", "none"} ELSE {"domain", "sub", "none"}
Names(o) == IF o = "profile" THEN {"profile", "config", "config="} ELSE {"forwarder"}

\* Every value is given once: id says where.
Flags(o, n, base) ==
    {f \in [1 .. n -> [flag : Names(o), cond : Conditions(o), id : base + 1 .. base + n]] :
        \A i \in 1 .. n : f[i].id = base + i}

Nobody == [source |-> FALSE, mac |-> FALSE, dest |-> "none", name |-> "none", spelled |-> TRUE]

ProfileInit ==
    /\ option \in {"profile", "forwarder"} /\ up \in BOOLEAN
    /\ \E n \in 0 .. MaxArgs : args \in Flags(option, n, 0)
    /\ \E n \in 0 .. MaxStored : stored \in {f \in Flags(option, n, MaxArgs) : \A i \in 1 .. n : f[i].flag # "config="}
    /\ line = args /\ file = stored /\ saved = FALSE
    /\ rules = <<>> /\ deprecated = <<>> /\ taken = "nothing"
    /\ query = Nobody /\ chosen = 0

-----------------------------------------------------------------------------
(* Filling the list.                                                         *)

\* newConfig, newResolver: an interface without an address leaves no condition at all.
Rule(f) == [cond |-> IF f.cond = "iface" /\ ~up THEN "none" ELSE f.cond, id |-> f.id]

SetRule_Append(list, f) == Append(list, Rule(f))        \* mutant: nothing is replaced

\* Profiles.Set, Forwarders.Set: in the place of the first of the same condition.
SetRule(list, f) ==
    LET Same == {i \in DOMAIN list : list[i].cond = Rule(f).cond}
    IN IF Same = {} THEN Append(list, Rule(f)) ELSE [list EXCEPT ![Min(Same)] = Rule(f)]

\* The flags of some names, one after the other.
SetAll(list, flags, names) ==
    LET done[n \in 0 .. Len(flags)] ==
            IF n = 0 THEN list
            ELSE IF flags[n].flag \in names THEN SetRule(done[n - 1], flags[n]) ELSE done[n - 1]
    IN done[Len(flags)]

Old == {"config", "config="}
New == {"profile", "forwarder"}
Late == {"config="}             \* what is not rewritten (config.go:230)

TakeFlags(flags, from, to) ==
    /\ taken = from /\ taken' = to
    /\ rules' = SetAll(rules, flags, New) /\ deprecated' = SetAll(deprecated, flags, Old)
    /\ UNCHANGED <<option, args, stored, line, file, saved, up, query, chosen>>

\* Parse reads the command line once for the name of the file, and it takes effect.
ParseArgs == TakeFlags(line, "nothing", "args")

LoadConfig == TakeFlags(file, "args", "stored")

Migrate ==
    /\ taken = "stored" /\ taken' = "migrated"
    /\ rules' = rules \o deprecated /\ deprecated' = <<>>
    /\ UNCHANGED <<option, args, stored, line, file, saved, up, query, chosen>>

\* And again, the argument -config written -profile; otherwise it is under the old name
\* once more, and stays there.
ParseAgain ==
    /\ taken = "migrated" /\ taken' = "all"
    /\ rules' = SetAll(rules, line, (New \cup Old) \ Late) /\ deprecated' = SetAll(deprecated, line, Late)
    /\ UNCHANGED <<option, args, stored, line, file, saved, up, query, chosen>>

\* profile.String, Resolver.String: an interface is not written.
Printed(rule, flag) ==
    [flag |-> flag, cond |-> IF rule.cond = "iface" THEN "none" ELSE rule.cond, id |-> rule.id]
PrintedAll(list, flag) == [i \in DOMAIN list |-> Printed(list[i], flag)]

\* `config set` and `install` store the lists, and the daemon starts with them.
Save ==
    /\ taken = "all" /\ ~saved /\ saved' = TRUE
    /\ line' = <<>> /\ file' = PrintedAll(rules, option) \o PrintedAll(deprecated, "config")
    /\ rules' = <<>> /\ deprecated' = <<>> /\ taken' = "nothing" /\ query' = Nobody /\ chosen' = 0
    /\ UNCHANGED <<option, args, stored, up>>

-----------------------------------------------------------------------------
(* Using it.                                                                 *)

\* profile.Match, Resolver.Match: the addresses of an interface are those it had when the
\* program started, and a domain is compared as it is written.
Meets(q, cond) ==
    CASE cond = "subnet" -> q.source
      [] cond = "mac" -> q.mac
      [] cond = "iface" -> q.dest = "iface"
      [] cond = "domain" -> q.spelled /\ q.name \in {"domain", "sub"}
      [] cond = "sub" -> q.spelled /\ q.name = "sub"
      [] cond = "none" -> TRUE

Matching(q) == {i \in DOMAIN rules : Meets(q, rules[i].cond)}

\* Profiles.Get: the last profile without a condition, if no condition is met.
GetProfile(q) ==
    LET Defaults == {i \in DOMAIN rules : rules[i].cond = "none"}
        Met == Matching(q) \ Defaults
    IN IF Met # {} THEN rules[Min(Met)].id ELSE IF Defaults # {} THEN rules[Max(Defaults)].id ELSE 0

\* Forwarders.Get; run.go adds the endpoints of NextDNS at the end.
GetForwarder(q) == IF Matching(q) = {} THEN 0 ELSE rules[Min(Matching(q))].id

\* run.go: with one profile for all, it is looked for once.
Static == Len(rules) = 0 \/ (Len(rules) = 1 /\ GetProfile(Nobody) # 0)

\* dest "moved" is an address that the interface was given later.
AskedOf(o) ==
    IF o = "profile"
    THEN [source : BOOLEAN, mac : BOOLEAN, dest : {"iface", "moved", "none"}, name : {"other"}, spelled : {TRUE}]
    ELSE [source : {FALSE}, mac : {FALSE}, dest : {"none"}, name : {"domain", "sub", "other"}, spelled : BOOLEAN]

Select ==
    /\ taken = "all" /\ query' \in AskedOf(option)
    /\ query = Nobody      \* bound: one query, since none leaves a trace
    /\ chosen' = IF option = "forwarder" THEN GetForwarder(query')
                 ELSE GetProfile(IF Static THEN Nobody ELSE query')
    /\ UNCHANGED <<option, args, stored, line, file, saved, up, rules, deprecated, taken>>

ProfileNext == ParseArgs \/ LoadConfig \/ Migrate \/ ParseAgain \/ Save \/ Select

ProfileSpec == ProfileInit /\ [][ProfileNext]_prvars

-----------------------------------------------------------------------------
(* What the flags mean.                                                      *)

ProfileTypeOK ==
    /\ \A i \in DOMAIN rules : rules[i].cond \in Conditions(option) /\ rules[i].id \in 1 .. MaxArgs + MaxStored
    /\ chosen \in 0 .. MaxArgs + MaxStored

AllFlags == Range(args) \cup Range(stored)

\* The value of a condition is the one given last, on the command line before the stored
\* configuration.
Weight(f) == IF f.id > MaxArgs THEN f.id - MaxArgs ELSE f.id + MaxStored

Value(cond) ==
    LET Of == {f \in AllFlags : f.cond = cond}
    IN (CHOOSE f \in Of : \A g \in Of : Weight(g) <= Weight(f)).id

\* The command line comes first, and what bears the old name last.
Rank(f) == IF f.flag \in Old THEN f.id + MaxArgs + MaxStored ELSE f.id

First(S) == CHOOSE f \in S : \A g \in S : Rank(f) <= Rank(g)

\* Names are the same in upper and in lower case, and an interface by any of its addresses.
AsMeant(q) == [q EXCEPT !.spelled = TRUE, !.dest = IF @ = "moved" THEN "iface" ELSE @]

\* Of the conditions that are met, the one given first; a profile without one is the last
\* resort, a forwarder without one is a condition that is always met.
Meant(q) ==
    LET any == {f \in AllFlags : Meets(AsMeant(q), f.cond)}
        met == {f \in any : option = "profile" => f.cond # "none"}
    IN IF met # {} THEN Value(First(met).cond) ELSE IF any # {} THEN Value("none") ELSE 0

\* What goes wrong: an interface that has no address when the program starts, or whose
\* profile is stored, which makes the profile everyone's (profile.go:33, 95), or that is
\* given another address later; a condition given under the old name and under the new
\* (config.go:226), where the old wins once stored, or at once without a condition; one
\* given as -config=id and as -config id or by the stored config (config.go:230), where
\* the other, even the stored one, takes the place of -config=id, and once stored the old
\* name adds what is lost behind it; a domain spelled otherwise (forwarder.go:37).
Unclear ==
    \/ (~up \/ saved) /\ \E f \in AllFlags : f.cond = "iface"
    \/ \E f, g \in AllFlags : f.cond = g.cond /\ f.flag \in Old /\ g.flag # f.flag

Mistaken ==
    \/ Unclear \/ ~query.spelled
    \/ query.dest = "moved" /\ \E f \in AllFlags : f.cond = "iface"

\* A query is resolved with the profile, and sent to the server, that the command line and
\* the stored configuration ask for, whichever way the flags have replaced one another in
\* the three passes of Parse (config.go:212-241), before and after they are stored. Not
\* in the cases of Mistaken.
SelectionMeant == taken = "all" /\ query # Nobody /\ ~Mistaken => chosen = Meant(query)
=============================================================================
