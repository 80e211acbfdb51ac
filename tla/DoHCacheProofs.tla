--------------------------- MODULE DoHCacheProofs ---------------------------
(***************************************************************************)
(* What DoHCache serves, for any number of queries, questions and changes  *)
(* of the configuration.                                                   *)
(***************************************************************************)
EXTENDS DoHCache, TLAPS

(* A value that is stored, or that some query works on. *)
InPlay(v) ==
    \/ \E k \in Questions : cache[k] # None /\ v = cache[k]
    \/ \E q \in Queries : v = qs[q].val

(* A value is dated no later than it was computed, from the configuration    *)
(* of that moment.                                                           *)
Dated ==
    \A v \in Values : InPlay(v) =>
        /\ v.time <= v.at /\ v.at <= clock
        /\ v.ver <= conf.ver
        /\ v.ver < conf.ver => v.at <= conf.at

(* A value computed from an older configuration than f (a response, or what  *)
(* was learned) tells of was computed no later than in the second of f's     *)
(* date.                                                                     *)
OldOf(f) == \A v \in Values : InPlay(v) /\ v.ver < f.ver => v.at < f.mod + TicksPerSecond

Ordered == \A w \in Values : InPlay(w) => OldOf(w)
Told == OldOf(learned) /\ \A q \in Queries : OldOf(qs[q].floor)

Known ==
    /\ conf.at <= clock /\ learned.ver <= conf.ver /\ learned.mod <= lastModified
    /\ \A q \in Queries :
          /\ qs[q].floor.ver <= conf.ver /\ qs[q].floor.mod <= lastModified
          /\ qs[q].now <= clock

(* An entry that is about to be used was fresh when it was looked up. *)
Checked ==
    \A q \in Queries : qs[q].pc = "check" => MinTTL(qs[q].val, qs[q].now) > 0

Keyed == \A q \in Queries : qs[q].pc # "idle" => qs[q].key \in Questions

Inv == TypeOK /\ Keyed /\ Known /\ Dated /\ Checked
-----------------------------------------------------------------------------
LEMMA ValueType ==
    /\ NoValue \in Values
    /\ IdleQuery \in [pc : {"idle", "check", "send", "recv", "update"},
                      key : Questions \cup {None}, now : 0..MaxTime, wall : Int,
                      val : Values, floor : Versions]
BY CacheAssumption DEF NoValue, Nothing, Value, Values, Versions, IdleQuery

(* The configuration's last change, in whole seconds. *)
LEMMA FloorSeconds ==
    ASSUME NEW t \in Nat
    PROVE  /\ (t \div TicksPerSecond) * TicksPerSecond \in 0..t
           /\ t < (t \div TicksPerSecond) * TicksPerSecond + TicksPerSecond
BY CacheAssumption, Z3

LEMMA MonotoneDiv ==
    ASSUME NEW a \in Int, NEW b \in Int, a <= b
    PROVE  a \div TicksPerSecond <= b \div TicksPerSecond
BY CacheAssumption, Z3

QueryType == [pc : {"idle", "check", "send", "recv", "update"},
              key : Questions \cup {None}, now : 0..MaxTime, wall : Int,
              val : Values, floor : Versions]

LEMMA SendingType ==
    ASSUME NEW k \in Questions, NEW now \in 0..MaxTime, NEW wall \in Int
    PROVE  Sending(k, now, wall) \in QueryType
BY ValueType, CacheAssumption DEF QueryType, Sending, Nothing, Versions

(* The value of an answer. *)
Fresh(q, v) ==
    /\ v \in Values
    /\ v.time = qs[q].now /\ v.at = clock /\ v.ver = conf.ver
    /\ v.mod = (conf.at \div TicksPerSecond) * TicksPerSecond

LEMMA AnswerFresh ==
    ASSUME Inv, NEW q \in Queries, Answer(q)
    PROVE  Fresh(q, qs'[q].val)
<1>1. conf.at \in Nat /\ conf.at \in 0..MaxTime
  BY DEF Inv, TypeOK
<1>2. PICK ttl \in TTLs[qs[q].key] :
          qs' = [qs EXCEPT ![q].pc = "recv",
                           ![q].val = Value(qs[q].now, qs[q].wall, ttl, conf.ver, clock,
                                (conf.at \div TicksPerSecond) * TicksPerSecond)]
  BY DEF Answer
<1> DEFINE mod == (conf.at \div TicksPerSecond) * TicksPerSecond
           val == Value(qs[q].now, qs[q].wall, ttl, conf.ver, clock, mod)
<1>3. mod \in 0..conf.at
  BY <1>1, FloorSeconds
<1>4. qs'[q].val = val
  BY <1>2 DEF Inv, TypeOK
<1>5. val \in Values
  <2>1. qs[q].key \in Questions
    BY DEF Answer, Inv, Keyed
  <2>2. ttl \in Nat
    BY <1>2, <2>1, CacheAssumption
  <2> QED
    BY <1>1, <1>3, <2>2, CacheAssumption DEF Inv, TypeOK, Value, Values
<1> HIDE DEF mod
<1> QED
  BY <1>4, <1>5 DEF Fresh, Value, mod

(* Where a value that is in play after a step comes from. *)
LEMMA Origin ==
    ASSUME Inv, [Next]_vars, NEW v \in Values, InPlay(v)'
    PROVE  \/ InPlay(v) \/ v = NoValue
           \/ \E q \in Queries : Answer(q) /\ v = qs'[q].val
<1> USE DEF Inv, TypeOK, InPlay
<1>1. CASE \E q \in Queries : \E k \in Questions : Lookup(q, k)
  BY <1>1 DEF Lookup, Sending
<1>2. CASE \E q \in Queries : UseCached(q) \/ NotCached(q)
  BY <1>2 DEF UseCached, NotCached, Return, IdleQuery
<1>3. CASE \E q \in Queries : TooOld(q)
  BY <1>3 DEF TooOld, Sending
<1>4. CASE \E q \in Queries : Answer(q)
  BY <1>4 DEF Answer
<1>5. CASE \E q \in Queries : Add(q)
  BY <1>5 DEF Add
<1>6. CASE \E q \in Queries : UpdateLastMod(q)
  BY <1>6 DEF UpdateLastMod, Return, IdleQuery
<1>7. CASE \E k \in Questions : Evict(k)
  BY <1>7 DEF Evict
<1>8. CASE ChangeConf \/ Tick \/ StepClock \/ UNCHANGED vars
  BY <1>8 DEF ChangeConf, Tick, StepClock, vars
<1> QED
  BY <1>1, <1>2, <1>3, <1>4, <1>5, <1>6, <1>7, <1>8 DEF Next

-----------------------------------------------------------------------------
LEMMA TypeStep == Inv /\ [Next]_vars => TypeOK'
<1> SUFFICES ASSUME Inv, [Next]_vars PROVE TypeOK'
  OBVIOUS
<1>0. TypeOK /\ qs \in [Queries -> QueryType]
  BY DEF Inv, TypeOK, QueryType
<1>1. ASSUME qs' \in [Queries -> QueryType], UNCHANGED <<clock, conf>>, ahead' \in Offsets,
             lastModified' \in 0..MaxTime, learned' \in Versions,
             cache' \in [Questions -> Values \cup {None}],
             \A k \in Questions : cache'[k] # None => cache'[k].time <= cache'[k].at
      PROVE  TypeOK'
  BY <1>0, <1>1 DEF TypeOK, QueryType
<1>2. CASE \E q \in Queries : \E k \in Questions : Lookup(q, k)
  <2>1. PICK q \in Queries, k \in Questions : Lookup(q, k)
    BY <1>2
  <2> DEFINE now == IF k \in Inverse THEN 0 ELSE clock
             wall == IF k \in Inverse THEN 0 ELSE clock + ahead
             r == IF (k \notin Inverse /\ cache[k] # None) /\ MinTTL(cache[k], now) > 0
                  THEN [pc |-> "check", key |-> k, now |-> now, wall |-> wall,
                        val |-> cache[k], floor |-> learned]
                  ELSE Sending(k, now, wall)
  <2>2. now \in 0..MaxTime /\ wall \in Int
    BY <1>0, CacheAssumption DEF TypeOK
  <2>3. qs' = [qs EXCEPT ![q] = r]
    BY <2>1 DEF Lookup
  <2>4. r \in QueryType
    <3>1. ASSUME cache[k] # None
          PROVE  [pc |-> "check", key |-> k, now |-> now, wall |-> wall,
                  val |-> cache[k], floor |-> learned] \in QueryType
      BY <1>0, <2>2, <3>1 DEF TypeOK, QueryType
    <3> QED
      BY <2>2, <3>1, SendingType
  <2> HIDE DEF r
  <2>5. qs' \in [Queries -> QueryType]
    BY <1>0, <2>3, <2>4
  <2> QED
    BY <1>0, <1>1, <2>1, <2>5 DEF Lookup, TypeOK
<1>3. ASSUME NEW q \in Queries, Return(q) PROVE qs' \in [Queries -> QueryType]
  BY <1>0, <1>3, ValueType DEF Return, QueryType
<1>5. CASE \E q \in Queries : UseCached(q) \/ NotCached(q)
  BY <1>5, <1>0, <1>1, <1>3 DEF UseCached, NotCached, TypeOK
<1>6. CASE \E q \in Queries : TooOld(q)
  <2>1. PICK q \in Queries : TooOld(q)
    BY <1>6
  <2>2. Sending(qs[q].key, qs[q].now, qs[q].wall) \in QueryType
    BY <2>1, <1>0, SendingType DEF TooOld, Inv, Keyed, QueryType
  <2> QED
    BY <2>1, <2>2, <1>0, <1>1 DEF TooOld, TypeOK
<1>7. CASE \E q \in Queries : Answer(q)
  <2>1. PICK q \in Queries : Answer(q)
    BY <1>7
  <2>2. qs'[q].val \in Values
    BY <2>1, AnswerFresh DEF Fresh
  <2>3. PICK val : qs' = [qs EXCEPT ![q].pc = "recv", ![q].val = val]
    BY <2>1 DEF Answer
  <2>4. qs'[q].val = val
    BY <2>3, <1>0 DEF QueryType
  <2>5. qs' \in [Queries -> QueryType]
    <3> PICK r : r = qs[q] /\ r \in QueryType
      BY <1>0
    <3>1. [r EXCEPT !.pc = "recv", !.val = val] \in QueryType
      BY <2>2, <2>4, Zenon DEF QueryType
    <3>2. qs' = [qs EXCEPT ![q] = [r EXCEPT !.pc = "recv", !.val = val]]
      BY <2>3
    <3> QED
      BY <1>0, <3>1, <3>2, Zenon
  <2> QED
    BY <2>1, <2>5, <1>0, <1>1 DEF Answer, TypeOK
<1>8. CASE \E q \in Queries : Add(q)
  <2>1. PICK q \in Queries : Add(q)
    BY <1>8
  <2>2. qs[q].val \in Values /\ qs[q].val.time <= qs[q].val.at
    BY <1>0 DEF QueryType, Inv, Dated, InPlay
  <2>3. qs' \in [Queries -> QueryType]
    BY <2>1, <1>0 DEF Add, QueryType
  <2>4. cache' \in [Questions -> Values \cup {None}]
    BY <2>1, <2>2, <1>0 DEF Add, TypeOK
  <2>5. \A k \in Questions : cache'[k] # None => cache'[k].time <= cache'[k].at
    BY <2>1, <2>2, <1>0 DEF Add, TypeOK
  <2> QED
    BY <2>1, <2>3, <2>4, <2>5, <1>0, <1>1 DEF Add, TypeOK
<1>9. CASE \E q \in Queries : UpdateLastMod(q)
  <2>1. PICK q \in Queries : UpdateLastMod(q)
    BY <1>9
  <2>2. qs[q].val.mod \in 0..MaxTime /\ qs[q].val.ver \in 0..MaxVer
    BY <1>0 DEF QueryType, Values
  <2>3. Newest(qs[q].val) \in Versions
    BY <2>2, <1>0 DEF Newest, TypeOK, Versions
  <2> QED
    BY <2>1, <2>2, <2>3, <1>0, <1>1, <1>3 DEF UpdateLastMod, TypeOK
<1>10. CASE \E k \in Questions : Evict(k)
  BY <1>10, <1>0, <1>1 DEF Evict, TypeOK
<1>11. CASE ChangeConf
  BY <1>11, <1>0, CacheAssumption DEF ChangeConf, TypeOK
<1>12. CASE Tick
  BY <1>12, <1>0, CacheAssumption DEF Tick, TypeOK
<1>14. CASE StepClock
  BY <1>14, <1>0, <1>1 DEF StepClock, TypeOK
<1>13. CASE UNCHANGED vars
  BY <1>13, <1>0 DEF vars, TypeOK
<1> QED
  BY <1>2, <1>5, <1>6, <1>7, <1>8, <1>9, <1>10, <1>11, <1>12, <1>13, <1>14 DEF Next

LEMMA KeyedStep == Inv /\ [Next]_vars => Keyed'
<1> SUFFICES ASSUME Inv, [Next]_vars PROVE Keyed'
  OBVIOUS
<1> USE DEF Inv, TypeOK, Keyed
<1>1. CASE \E q \in Queries : \E k \in Questions : Lookup(q, k)
  BY <1>1 DEF Lookup, Sending
<1>2. CASE \E q \in Queries : UseCached(q) \/ NotCached(q) \/ UpdateLastMod(q)
  BY <1>2 DEF UseCached, NotCached, UpdateLastMod, Return, IdleQuery
<1>3. CASE \E q \in Queries : TooOld(q)
  BY <1>3 DEF TooOld, Sending
<1>4. CASE \E q \in Queries : Answer(q) \/ Add(q)
  BY <1>4 DEF Answer, Add
<1>5. CASE (\E k \in Questions : Evict(k)) \/ ChangeConf \/ Tick \/ StepClock \/ UNCHANGED vars
  BY <1>5 DEF Evict, ChangeConf, Tick, StepClock, vars
<1> QED
  BY <1>1, <1>2, <1>3, <1>4, <1>5 DEF Next

LEMMA KnownStep == Inv /\ [Next]_vars => Known'
<1> SUFFICES ASSUME Inv, [Next]_vars PROVE Known'
  OBVIOUS
<1> USE CacheAssumption DEF Inv, TypeOK, Known, Versions, Nothing
<1>1. CASE \E q \in Queries : \E k \in Questions : Lookup(q, k)
  BY <1>1 DEF Lookup, Sending
<1>2. CASE \E q \in Queries : UseCached(q) \/ NotCached(q)
  <2>1. CASE \E q \in Queries : UseCached(q)
    BY <2>1, SMTT(30) DEF UseCached, Return, IdleQuery
  <2>2. CASE \E q \in Queries : NotCached(q)
    BY <2>2, SMTT(30) DEF NotCached, Return, IdleQuery
  <2> QED
    BY <1>2, <2>1, <2>2
<1>3. CASE \E q \in Queries : TooOld(q)
  BY <1>3 DEF TooOld, Sending
<1>4. CASE \E q \in Queries : Answer(q)
  BY <1>4 DEF Answer
<1>5. CASE \E q \in Queries : Add(q)
  BY <1>5 DEF Add
<1>6. ASSUME NEW q \in Queries, UpdateLastMod(q) PROVE Known'
  <2>1. qs[q].val.ver \in Nat /\ qs[q].val.mod \in Nat /\ qs[q].val.ver <= conf.ver
    BY DEF Dated, InPlay, Values
  <2>2. lastModified <= lastModified' /\ qs[q].val.mod <= lastModified'
    BY <1>6, <2>1 DEF UpdateLastMod
  <2> QED
    BY <1>6, <2>1, <2>2 DEF UpdateLastMod, Newest, Return, IdleQuery
<1>7. CASE \E k \in Questions : Evict(k)
  BY <1>7 DEF Evict
<1>8. CASE ChangeConf \/ Tick \/ StepClock \/ UNCHANGED vars
  BY <1>8 DEF ChangeConf, Tick, StepClock, vars
<1> QED
  BY <1>1, <1>2, <1>3, <1>4, <1>5, <1>6, <1>7, <1>8 DEF Next

(* Only the environment moves the clock and the configuration. *)
LEMMA Environment ==
    ASSUME [Next]_vars
    PROVE  \/ UNCHANGED <<clock, conf>>
           \/ clock' = clock + 1 /\ conf' = conf
           \/ clock' = clock /\ conf' = [ver |-> conf.ver + 1, at |-> clock]
BY DEF Next, vars, Lookup, UseCached, TooOld, Answer, NotCached, Add,
   UpdateLastMod, Evict, ChangeConf, Tick, StepClock

LEMMA DatedStep == Inv /\ [Next]_vars => Dated'
<1> SUFFICES ASSUME Inv, [Next]_vars, NEW v \in Values, InPlay(v)'
             PROVE  /\ v.time <= v.at /\ v.at <= clock'
                    /\ v.ver <= conf'.ver
                    /\ v.ver < conf'.ver => v.at <= conf'.at
  BY DEF Dated
<1>1. clock \in Nat /\ conf.ver \in Nat /\ conf.at \in Nat /\ conf.at <= clock
  BY CacheAssumption DEF Inv, TypeOK, Known
<1>2. clock' \in Nat /\ clock <= clock'
      /\ (conf' = conf \/ (conf'.ver = conf.ver + 1 /\ conf'.at = clock))
  BY <1>1, Environment
<1>3. CASE InPlay(v)
  <2>1. /\ v.time <= v.at /\ v.at <= clock /\ v.ver <= conf.ver
        /\ v.ver < conf.ver => v.at <= conf.at
    BY <1>3 DEF Inv, Dated
  <2> QED
    BY <1>1, <1>2, <2>1 DEF Values
<1>4. CASE v = NoValue
  BY <1>1, <1>2, <1>4 DEF NoValue, Value
<1>5. CASE \E q \in Queries : Answer(q) /\ v = qs'[q].val
  <2>1. PICK q \in Queries : Answer(q) /\ v = qs'[q].val
    BY <1>5
  <2>2. v.time = qs[q].now /\ v.at = clock /\ v.ver = conf.ver /\ conf' = conf
    BY <2>1, AnswerFresh DEF Fresh, Answer
  <2>3. qs[q].now <= clock
    BY <2>1 DEF Inv, Known
  <2> QED
    BY <1>1, <1>2, <2>2, <2>3
<1> QED
  BY <1>3, <1>4, <1>5, Origin

LEMMA CheckedStep == Inv /\ [Next]_vars => Checked'
<1> SUFFICES ASSUME Inv, [Next]_vars PROVE Checked'
  OBVIOUS
<1> USE DEF Checked, MinTTL, Age
<1>0. qs \in [Queries -> QueryType] /\ Checked
  BY DEF Inv, TypeOK, QueryType
<1>1. ASSUME NEW p \in Queries, NEW k \in Questions, Lookup(p, k) PROVE Checked'
  <2> SUFFICES ASSUME NEW q \in Queries, qs'[q].pc = "check"
               PROVE  MinTTL(qs'[q].val, qs'[q].now) > 0
    OBVIOUS
  <2>1. CASE q = p
    BY <1>0, <1>1, <2>1 DEF Lookup, Sending
  <2>2. CASE q # p
    BY <1>0, <1>1, <2>2 DEF Lookup
  <2> QED
    BY <2>1, <2>2
<1>2. CASE \E q \in Queries : UseCached(q) \/ NotCached(q)
  BY <1>0, <1>2 DEF UseCached, NotCached, Return, IdleQuery
<1>3. CASE \E q \in Queries : TooOld(q)
  BY <1>0, <1>3 DEF TooOld, Sending, QueryType
<1>4. CASE \E q \in Queries : Answer(q)
  <2>1. PICK q \in Queries : Answer(q)
    BY <1>4
  <2>2. qs'[q].pc = "recv" /\ \A p \in Queries : p # q => qs'[p] = qs[p]
    BY <1>0, <2>1 DEF Answer, QueryType
  <2> QED
    BY <1>0, <2>2
<1>5. CASE \E q \in Queries : Add(q)
  BY <1>0, <1>5 DEF Add, QueryType
<1>6. CASE \E q \in Queries : UpdateLastMod(q)
  BY <1>0, <1>6 DEF UpdateLastMod, Return, IdleQuery
<1>7. CASE UNCHANGED qs
  BY <1>0, <1>7
<1> QED
  BY <1>1, <1>2, <1>3, <1>4, <1>5, <1>6, <1>7
  DEF Next, vars, Evict, ChangeConf, Tick, StepClock

LEMMA InvCorrect == Spec => []Inv
<1>1. Init => Inv
  BY CacheAssumption, ValueType, \A v : InPlay(v) /\ Init => v = NoValue
  DEF Init, Inv, TypeOK, Keyed, Known, Dated, Checked, Versions, Nothing, QueryType,
      IdleQuery, NoValue, Value, InPlay
<1>2. Inv /\ [Next]_vars => Inv'
  BY TypeStep, KeyedStep, KnownStep, DatedStep, CheckedStep DEF Inv
<1> QED
  BY <1>1, <1>2, PTL DEF Spec

(* Every reachable state is well typed. *)
THEOREM CacheTypes == Spec => []TypeOK
BY InvCorrect, PTL DEF Inv

LEMMA AgeOfHit ==
    ASSUME Inv, NEW q \in Queries, qs[q].pc = "check"
    PROVE  LET v == qs[q].val
               since == (qs[q].now - v.at) \div TicksPerSecond
           IN since < v.ttl /\ (CacheMaxAge > 0 => since <= CacheMaxAge)
<1> DEFINE v == qs[q].val
           now == qs[q].now
           since == (now - v.at) \div TicksPerSecond
           age == Age(now, v.time)
<1>1. v \in Values /\ now \in 0..MaxTime
  BY DEF Inv, TypeOK
<1>2. v.time \in Nat /\ v.at \in Nat /\ v.ttl \in Nat /\ now \in Nat
  BY <1>1, CacheAssumption DEF Values
<1>3. v.time <= v.at
  BY <1>1 DEF Inv, Dated, InPlay
<1>4. ~(age > v.ttl) /\ v.ttl - age > 0 /\ ~(CacheMaxAge > 0 /\ age > CacheMaxAge)
  BY DEF Inv, Checked, MinTTL
<1>5. CASE now >= v.time
  <2>1. age = (now - v.time) \div TicksPerSecond
    BY <1>5 DEF Age
  <2>2. now - v.at <= now - v.time /\ now - v.at \in Int /\ now - v.time \in Int
    BY <1>2, <1>3
  <2>3. since <= age
    BY <2>1, <2>2, MonotoneDiv
  <2>4. since \in Int /\ age \in Int
    BY <2>1, <2>2, CacheAssumption
  <2> HIDE DEF since, age, v
  <2>5. since < v.ttl /\ (CacheMaxAge > 0 => since <= CacheMaxAge)
    BY <1>2, <1>4, <2>3, <2>4, CacheAssumption
  <2> QED
    BY <2>5 DEF since, v
<1>6. CASE now < v.time
  <2>1. age \in Nat
    <3>1. age = (-((v.time - now) \div TicksPerSecond)) % Wrap
      BY <1>2, <1>6 DEF Age
    <3>2. (v.time - now) \div TicksPerSecond \in Int
      BY <1>2, CacheAssumption
    <3> QED
      BY <3>1, <3>2 DEF Wrap
  <2>2. now - v.at <= -1 /\ now - v.at \in Int
    BY <1>2, <1>3, <1>6
  <2>3. since <= (-1) \div TicksPerSecond
    BY <2>2, MonotoneDiv
  <2>4. (-1) \div TicksPerSecond = -1
    BY CacheAssumption, Z3
  <2>5. since \in Int
    BY <2>2, CacheAssumption
  <2> HIDE DEF since, age, v
  <2>6. since < v.ttl /\ (CacheMaxAge > 0 => since <= CacheMaxAge)
    BY <1>2, <1>4, <2>1, <2>3, <2>4, <2>5, CacheAssumption
  <2> QED
    BY <2>6 DEF since, v
<1> QED
  BY <1>2, <1>5, <1>6

(* A hit is within its TTL and the maximum age, counted from the moment the  *)
(* server computed it.                                                       *)
THEOREM HitsAreFresh == Spec => FreshHits
<1>1. Inv /\ [Next]_vars =>
        [\A q \in Queries : UseCached(q) =>
            LET v == qs[q].val
                since == (qs[q].now - v.at) \div TicksPerSecond
            IN since < v.ttl /\ (CacheMaxAge > 0 => since <= CacheMaxAge)]_vars
  BY AgeOfHit DEF UseCached
<1> QED
  BY <1>1, InvCorrect, PTL DEF Spec, FreshHits

-----------------------------------------------------------------------------
(* The order of the configurations. *)
OrderInv == Inv /\ Ordered /\ Told

LEMMA FreshMod ==
    ASSUME Inv, NEW q \in Queries, Answer(q)
    PROVE  LET v == qs'[q].val
           IN /\ v.at = clock /\ v.ver = conf.ver /\ UNCHANGED <<clock, conf>>
              /\ conf.at < v.mod + TicksPerSecond
<1>1. conf.at \in Nat
  BY DEF Inv, TypeOK
<1> QED
  BY <1>1, AnswerFresh, FloorSeconds DEF Fresh, Answer

(* A value that was not in play before was computed from the newest          *)
(* configuration: f is no newer.                                             *)
AfterStep(f) ==
    \A v \in Values : InPlay(v)' /\ v.ver < f.ver => v.at < f.mod + TicksPerSecond
Earlier(f) == f.ver \in Nat /\ f.mod \in Nat /\ f.ver <= conf.ver /\ OldOf(f)

LEMMA OldStep ==
    ASSUME Inv, [Next]_vars
    PROVE  \A f : Earlier(f) => AfterStep(f)
<1> SUFFICES ASSUME NEW f, Earlier(f), NEW v \in Values, InPlay(v)', v.ver < f.ver
             PROVE  v.at < f.mod + TicksPerSecond
  BY DEF AfterStep
<1> USE DEF Earlier
<1>1. v.ver \in Nat /\ conf.ver \in Nat
  BY CacheAssumption DEF Values, Inv, TypeOK
<1>2. CASE InPlay(v)
  BY <1>2 DEF OldOf
<1>3. CASE v = NoValue
  BY <1>3, CacheAssumption DEF NoValue, Value
<1>4. CASE \E q \in Queries : Answer(q) /\ v = qs'[q].val
  BY <1>1, <1>4, FreshMod
<1> QED
  BY <1>2, <1>3, <1>4, Origin

LEMMA NothingOlder == OldOf(Nothing) /\ OldOf(NoValue)
BY CacheAssumption DEF OldOf, Nothing, NoValue, Value, Values

LEMMA OrderedStep == OrderInv /\ [Next]_vars => Ordered'
<1> SUFFICES ASSUME OrderInv, [Next]_vars, NEW w \in Values, InPlay(w)'
             PROVE  OldOf(w)'
  BY DEF Ordered
<1>1. w.ver \in Nat /\ w.mod \in Nat
  BY CacheAssumption DEF Values
<1>2. CASE InPlay(w)
  BY <1>1, <1>2, OldStep DEF OrderInv, Ordered, Inv, Dated, Earlier, AfterStep, OldOf
<1>3. CASE w = NoValue
  BY <1>3, CacheAssumption DEF OldOf, NoValue, Value, Values
<1>4. ASSUME NEW q \in Queries, Answer(q), w = qs'[q].val PROVE OldOf(w)'
  <2> SUFFICES ASSUME NEW v \in Values, InPlay(v)', v.ver < conf.ver
               PROVE  v.at < w.mod + TicksPerSecond
    BY <1>4, FreshMod DEF OldOf, OrderInv
  <2>1. v.at \in Nat /\ conf.at \in Nat
    BY CacheAssumption DEF Values, OrderInv, Inv, TypeOK
  <2>2. v.at <= conf.at
    BY <1>4, DatedStep, FreshMod DEF OrderInv, Dated, Answer
  <2> QED
    BY <1>1, <1>4, <2>1, <2>2, FreshMod, CacheAssumption DEF OrderInv
<1> QED
  BY <1>2, <1>3, <1>4, Origin DEF OrderInv

LEMMA FloorStep ==
    ASSUME Inv, [Next]_vars, NEW q \in Queries
    PROVE  qs'[q].floor \in {qs[q].floor, learned, Nothing}
<1> USE DEF Inv, TypeOK
<1>1. CASE \E p \in Queries : \E k \in Questions : Lookup(p, k)
  BY <1>1 DEF Lookup, Sending
<1>2. CASE \E p \in Queries : UseCached(p) \/ NotCached(p) \/ UpdateLastMod(p)
  BY <1>2 DEF UseCached, NotCached, UpdateLastMod, Return, IdleQuery
<1>3. CASE \E p \in Queries : TooOld(p)
  BY <1>3 DEF TooOld, Sending
<1>4. CASE \E p \in Queries : Answer(p) \/ Add(p)
  BY <1>4 DEF Answer, Add
<1>5. CASE (\E k \in Questions : Evict(k)) \/ ChangeConf \/ Tick \/ StepClock \/ UNCHANGED vars
  BY <1>5 DEF Evict, ChangeConf, Tick, StepClock, vars
<1> QED
  BY <1>1, <1>2, <1>3, <1>4, <1>5 DEF Next

LEMMA ToldStep == OrderInv /\ [Next]_vars => Told'
<1> SUFFICES ASSUME OrderInv, [Next]_vars PROVE Told'
  OBVIOUS
<1>1. /\ Earlier(learned) /\ Earlier(Nothing)
      /\ \A q \in Queries : Earlier(qs[q].floor) /\ Earlier(qs[q].val)
  <2>1. conf.ver \in Nat /\ TypeOK /\ Known /\ Dated /\ Ordered /\ Told
    BY CacheAssumption DEF OrderInv, Inv, TypeOK
  <2>2. Earlier(learned) /\ \A q \in Queries : Earlier(qs[q].floor)
    BY <2>1 DEF TypeOK, Known, Told, Versions, Earlier
  <2>3. Earlier(Nothing)
    BY <2>1, NothingOlder DEF Nothing, Earlier
  <2>4. ASSUME NEW q \in Queries PROVE Earlier(qs[q].val)
    <3>1. qs[q].val \in Values /\ InPlay(qs[q].val)
      BY <2>1 DEF TypeOK, InPlay
    <3> QED
      BY <2>1, <3>1 DEF Values, Dated, Ordered, Earlier
  <2> QED
    BY <2>2, <2>3, <2>4
<1>2. \A f : Earlier(f) => AfterStep(f)
  BY OldStep DEF OrderInv
<1>3. learned' = learned \/ \E q \in Queries : learned' = Newest(qs[q].val)
  BY DEF Next, vars, Lookup, UseCached, TooOld, Answer, NotCached,
     Add, UpdateLastMod, Evict, ChangeConf, Tick, StepClock
<1>4. AfterStep(learned')
  <2>1. CASE learned' = learned
    BY <1>1, <1>2, <2>1
  <2>2. ASSUME NEW q \in Queries, learned' = Newest(qs[q].val)
        PROVE  AfterStep(learned')
    <3>1. AfterStep(learned) /\ AfterStep(qs[q].val)
      BY <1>1, <1>2
    <3> QED
      BY <2>2, <3>1 DEF Newest, AfterStep
  <2> QED
    BY <1>3, <2>1, <2>2
<1>5. ASSUME NEW q \in Queries PROVE AfterStep(qs'[q].floor)
  <2>1. qs'[q].floor \in {qs[q].floor, learned, Nothing}
    BY FloorStep DEF OrderInv
  <2> QED
    BY <1>1, <1>2, <2>1
<1> QED
  BY <1>4, <1>5 DEF Told, OldOf, AfterStep

WithinChange(q) ==
    LET v == qs[q].val
        wasAhead == v.wall - v.time
    IN \/ v.ver >= qs[q].floor.ver
       \/ v.at - qs[q].floor.mod \in 1 - wasAhead..TicksPerSecond - 1

(* Once a response has told of a configuration, a query that starts later is *)
(* answered from the cache by an older one only within the second of the     *)
(* change, and before it by less than the client's clock was ahead of the    *)
(* server's when that answer was asked for: for any offsets of the two       *)
(* clocks, and any steps of the client's.                                    *)
THEOREM NewConfigurationHolds == Spec => NewConfiguration
<1>1. Init => OrderInv
  <2> SUFFICES ASSUME Init PROVE Ordered /\ Told /\ Inv
    BY DEF OrderInv
  <2>1. \A v : InPlay(v) => v = NoValue
    BY DEF Init, InPlay, IdleQuery
  <2>2. Inv
    BY CacheAssumption, ValueType, <2>1
    DEF Init, Inv, TypeOK, Keyed, Known, Dated, Checked, Versions, Nothing, QueryType,
        IdleQuery, NoValue, Value
  <2> QED
    BY <2>1, <2>2, NothingOlder DEF Init, IdleQuery, Ordered, Told
<1>2. OrderInv /\ [Next]_vars => OrderInv'
  BY TypeStep, KeyedStep, KnownStep, DatedStep, CheckedStep, OrderedStep, ToldStep
  DEF OrderInv, Inv
<1>3. ASSUME OrderInv, NEW q \in Queries, UseCached(q)
      PROVE  WithinChange(q)
  <2> DEFINE v == qs[q].val
             f == qs[q].floor
  <2>1. v \in Values /\ InPlay(v)
    BY <1>3 DEF OrderInv, Inv, TypeOK, InPlay
  <2>2. v.ver \in Nat /\ v.at \in Nat /\ v.time \in Nat /\ v.wall \in Int
    BY <2>1, CacheAssumption DEF Values
  <2>3. f.ver \in Nat /\ f.mod \in Nat /\ lastModified \in Nat /\ f.mod <= lastModified
    BY <1>3, CacheAssumption DEF OrderInv, Inv, TypeOK, Known, Versions
  <2>4. lastModified < v.wall /\ v.time <= v.at
    BY <1>3, <2>1 DEF UseCached, OrderInv, Inv, Dated
  <2>5. v.ver < f.ver => v.at < f.mod + TicksPerSecond
    BY <1>3, <2>1 DEF OrderInv, Told, OldOf
  <2> HIDE DEF v, f
  <2>6. v.ver >= f.ver \/ v.at - f.mod \in 1 - (v.wall - v.time)..TicksPerSecond - 1
    BY <2>2, <2>3, <2>4, <2>5, CacheAssumption
  <2> QED
    BY <2>6 DEF v, f, WithinChange
<1>4. OrderInv /\ [Next]_vars =>
        [\A q \in Queries : UseCached(q) =>
             LET v == qs[q].val
                 wasAhead == v.wall - v.time
             IN \/ v.ver >= qs[q].floor.ver
                \/ v.at - qs[q].floor.mod \in 1 - wasAhead..TicksPerSecond - 1]_vars
  BY <1>3 DEF WithinChange
<1> QED
  BY <1>1, <1>2, <1>4, PTL DEF Spec, NewConfiguration
=============================================================================
