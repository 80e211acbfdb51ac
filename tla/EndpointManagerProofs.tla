------------------------ MODULE EndpointManagerProofs ------------------------
(***************************************************************************)
(* The safety of EndpointManager for any number of queries, background     *)
(* tests, endpoints and providers.                                         *)
(***************************************************************************)
EXTENDS EndpointManager, TLAPS

(* Where each kind of process can be.  Only a manager without InitEndpoint   *)
(* has a caller elect.                                                       *)
PcOK ==
    /\ \A c \in Callers :
          pc[c] \in {"idle", "init", "scan", "notify", "relock", "unlock"} \cup Holding
    /\ \A t \in Testers :
          pc[t] \in {"idle", "lock", "scan", "notify", "relock", "unlock", "end"}
    /\ \A w \in Watchers :
          pc[w] \in {"idle", "lock", "scan", "notify", "relock", "unlock"}
    /\ \A c \in Callers : pc[c] \in {"scan", "notify", "relock", "unlock"}
                             => InitEndpoint = None

(* Once an election has ended the manager has an active endpoint, for good. *)
ActiveOK ==
    \A p \in Procs : pc[p] \in {"notify", "relock", "unlock"} \cup Holding
                        => active # None

(* The loops stay within the providers, and have seen an endpoint once they  *)
(* are past a provider that always offers one.                               *)
ScanOK ==
    /\ scan.pos > 0 => /\ scan.prov \in DOMAIN Providers
                       /\ scan.pos <= Len(Providers[scan.prov])
    /\ scan.pos > 1 => scan.first # None
    /\ scan.first = None => \A i \in DOMAIN Providers : i < scan.prov => i \in Fallible

TypeInv == TypeOK /\ PcOK /\ ActiveOK /\ ScanOK

LEMMA UnusedType == Unused \in ActiveEndpoint /\ Unused.testing = FALSE
<1>1. PICK i \in DOMAIN Providers : Len(Providers[i]) > 0
  BY EndpointAssumption
<1>2. Providers[i][1] \in Endpoints
  BY <1>1, EndpointAssumption
<1>3. (CHOOSE e \in Endpoints : TRUE) \in Endpoints
  BY <1>2
<1> QED
  BY <1>3, EndpointAssumption DEF Unused, New, ActiveEndpoint

LEMMA NewType ==
    ASSUME NEW e \in Endpoints, NEW due \in BOOLEAN
    PROVE  New(e, due) \in ActiveEndpoint
BY EndpointAssumption DEF New, ActiveEndpoint

LEMMA KeepType ==
    ASSUME NEW objs \in [Objs -> ActiveEndpoint], NEW a, NEW r
    PROVE  Keep(objs, a, r) \in [Objs -> ActiveEndpoint]
BY UnusedType DEF Keep, ActiveEndpoint

LEMMA CandidateType ==
    ASSUME TypeInv, scan.pos > 0
    PROVE  Candidate \in Endpoints
BY EndpointAssumption DEF TypeInv, TypeOK, ScanOK, Candidate

LEMMA InitType == Init => TypeInv
BY UnusedType, ProcessAssumption, EndpointAssumption
   DEF Init, TypeInv, TypeOK, PcOK, ActiveOK, ScanOK, ScanStart, Holding, Procs

LEMMA FieldType ==
    ASSUME ae \in [Objs -> ActiveEndpoint], NEW o \in Objs
    PROVE  /\ \A b \in BOOLEAN :
              /\ [ae EXCEPT ![o].due = b] \in [Objs -> ActiveEndpoint]
              /\ [ae EXCEPT ![o].testing = b] \in [Objs -> ActiveEndpoint]
              /\ [ae EXCEPT ![o].testing = FALSE, ![o].due = b] \in [Objs -> ActiveEndpoint]
           /\ \A n \in 0..ErrorThreshold + 1 :
              [ae EXCEPT ![o].errors = n] \in [Objs -> ActiveEndpoint]
BY DEF ActiveEndpoint

LEMMA RefType ==
    ASSUME TypeInv
    PROVE  /\ \A c \in Callers : pc[c] \in Holding => ref[c] \in Objs
           /\ \A t \in Testers : pc[t] # "idle" => ref[t] \in Objs
BY DEF TypeInv, TypeOK, Procs

(* The steps of a query. *)
LEMMA GetActiveType ==
    ASSUME TypeInv, NEW c \in Callers, GetActive(c) PROVE TypeInv'
BY ProcessAssumption
   DEF TypeInv, TypeOK, PcOK, ActiveOK, ScanOK, Goto, Holding, Procs, GetActive

LEMMA InitActiveType ==
    ASSUME TypeInv, NEW c \in Callers, InitActive(c) PROVE TypeInv'
<1> USE ProcessAssumption
    DEF TypeInv, TypeOK, PcOK, ActiveOK, ScanOK, Goto, Holding, Procs
<1>1. CASE active # None /\ ref' = [ref EXCEPT ![c] = active] /\ Goto(c, "do")
           /\ UNCHANGED <<mu, active, ae, scan, elected>>
  BY <1>1
<1>2. ASSUME NEW o \in Objs, InitEndpoint # None, active' = o,
             ref' = [ref EXCEPT ![c] = o],
             ae' = [ae EXCEPT ![o] = New(InitEndpoint, TRUE)],
             Goto(c, "do"), UNCHANGED <<mu, scan, elected>>
      PROVE  TypeInv'
  <2>1. New(InitEndpoint, TRUE) \in ActiveEndpoint
    BY <1>2, NewType, EndpointAssumption
  <2>2. ae' \in [Objs -> ActiveEndpoint]
    BY <1>2, <2>1
  <2>3. TypeOK'
    BY <1>2, <2>2
  <2>4. active' # None /\ Goto(c, "do") /\ UNCHANGED scan
    BY <1>2
  <2>5. PcOK' /\ ActiveOK' /\ ScanOK'
    BY <2>4
  <2> QED
    BY <2>3, <2>5
<1>3. CASE InitEndpoint = None /\ mu' = c /\ Goto(c, "scan")
           /\ UNCHANGED <<active, ae, ref, scan, elected>>
  BY <1>3
<1> QED
  BY <1>1, <1>2, <1>3 DEF InitActive

LEMMA ShouldTestType ==
    ASSUME TypeInv, NEW c \in Callers, ShouldTest(c) PROVE TypeInv'
BY ProcessAssumption
   DEF TypeInv, TypeOK, PcOK, ActiveOK, ScanOK, Goto, Holding, Procs, ShouldTest

LEMMA ClaimTestType ==
    ASSUME TypeInv, NEW c \in Callers, ClaimTest(c) PROVE TypeInv'
<1>1. ref[c] \in Objs
  BY RefType DEF ClaimTest, Holding
<1>2. [ae EXCEPT ![ref[c]].due = FALSE] \in [Objs -> ActiveEndpoint]
  BY <1>1, FieldType DEF TypeInv, TypeOK
<1>3. ae' \in [Objs -> ActiveEndpoint]
  BY <1>2 DEF ClaimTest, TypeInv, TypeOK
<1> QED
  BY <1>3, ProcessAssumption
  DEF TypeInv, TypeOK, PcOK, ActiveOK, ScanOK, Goto, Holding, Procs, ClaimTest

LEMMA StartTestType ==
    ASSUME TypeInv, NEW c \in Callers, StartTest(c) PROVE TypeInv'
<1>1. ref[c] \in Objs
  BY RefType DEF StartTest, Holding
<1>2. [ae EXCEPT ![ref[c]].testing = TRUE] \in [Objs -> ActiveEndpoint]
  BY <1>1, FieldType DEF TypeInv, TypeOK
<1>3. Keep(ae, active, Release(c)) \in [Objs -> ActiveEndpoint]
  BY KeepType DEF TypeInv, TypeOK
<1>4. ae' \in [Objs -> ActiveEndpoint]
  BY <1>2, <1>3 DEF StartTest
<1>5. /\ Release(c) \in [Procs -> Objs \cup {None}]
      /\ \A p \in Procs : p # c => Release(c)[p] = ref[p]
      /\ (pc[c] = "test" => Release(c)[c] = ref[c])
  BY DEF Release, Without, TypeInv, TypeOK, Procs
<1> USE <1>1, <1>4, <1>5, ProcessAssumption
    DEF TypeInv, TypeOK, PcOK, ActiveOK, ScanOK, Goto, Holding, Procs
<1>0. pc[c] \in {"test", "recover"} /\ UNCHANGED <<mu, active, elected, scan>>
  BY DEF StartTest
<1>6. CASE Goto(c, AfterTest(c)) /\ ref' = Release(c)
  <2>1. \A p \in Procs : p # c => pc'[p] = pc[p] /\ ref'[p] = ref[p]
    BY <1>6
  <2>2. CASE pc[c] = "test"
    <3>0. AfterTest(c) = "action"
      BY <2>2 DEF AfterTest
    <3>1. pc' = [pc EXCEPT ![c] = "action"] /\ ref'[c] = ref[c]
          /\ ref' \in [Procs -> Objs \cup {None}]
      BY <1>6, <2>2, <3>0
    <3>2. TypeOK'
      BY <1>0, <2>1, <2>2, <3>1
    <3>3. PcOK' /\ ActiveOK' /\ ScanOK'
      BY <1>0, <2>2, <3>1
    <3> QED
      BY <3>2, <3>3
  <2>3. CASE pc[c] = "recover"
    BY <1>0, <1>6, <2>1, <2>3 DEF AfterTest
  <2> QED
    BY <1>0, <2>2, <2>3
<1>7. ASSUME NEW t \in Testers, pc[t] = "idle",
             pc' = [pc EXCEPT ![c] = AfterTest(c), ![t] = "lock"],
             ref' = [Release(c) EXCEPT ![t] = ref[c]]
      PROVE  TypeInv'
  BY <1>0, <1>7 DEF AfterTest
<1> QED
  BY <1>6, <1>7 DEF StartTest

LEMMA ActionOKType ==
    ASSUME TypeInv, NEW c \in Callers, ActionOK(c) PROVE TypeInv'
<1>1. ref[c] \in Objs
  BY RefType DEF ActionOK, Holding
<1>2. [ae EXCEPT ![ref[c]].errors = 0] \in [Objs -> ActiveEndpoint]
  <2>1. 0 \in 0..ErrorThreshold + 1
    BY EndpointAssumption
  <2> QED
    BY <1>1, <2>1, FieldType DEF TypeInv, TypeOK
<1>3. ae' \in [Objs -> ActiveEndpoint]
  BY <1>2, KeepType DEF ActionOK
<1> QED
  BY <1>3, ProcessAssumption
  DEF TypeInv, TypeOK, PcOK, ActiveOK, ScanOK, Goto, Holding, Procs, ActionOK, Without

LEMMA ActionErrorType ==
    ASSUME TypeInv, NEW c \in Callers, ActionError(c) PROVE TypeInv'
<1> DEFINE o == ref[c]
           n == IF ae[o].errors > ErrorThreshold THEN ae[o].errors ELSE ae[o].errors + 1
           objs == [ae EXCEPT ![o].errors = n]
<1>1. o \in Objs
  BY RefType DEF ActionError, Holding
<1>2. n \in 0..ErrorThreshold + 1
  <2>1. ae[o] \in ActiveEndpoint
    BY <1>1 DEF TypeInv, TypeOK
  <2>2. ae[o].errors \in 0..ErrorThreshold + 1
    BY <2>1 DEF ActiveEndpoint
  <2> QED
    BY <2>2, EndpointAssumption
<1>3. objs \in [Objs -> ActiveEndpoint]
  BY <1>1, <1>2, FieldType DEF TypeInv, TypeOK
<1>4. Keep(objs, active, Without(c)) \in [Objs -> ActiveEndpoint]
  BY <1>3, KeepType
<1> HIDE DEF n, objs
<1>5. CASE Goto(c, "recover") /\ ae' = objs /\ UNCHANGED ref
  BY <1>1, <1>3, <1>5, ProcessAssumption
  DEF TypeInv, TypeOK, PcOK, ActiveOK, ScanOK, Goto, Holding, Procs, ActionError
<1>6. CASE Goto(c, "idle") /\ ref' = Without(c) /\ ae' = Keep(objs, active, Without(c))
  BY <1>4, <1>6, ProcessAssumption
  DEF TypeInv, TypeOK, PcOK, ActiveOK, ScanOK, Goto, Holding, Procs, Without, ActionError
<1> QED
  BY <1>5, <1>6 DEF ActionError, n, objs

(* The steps of an election. *)
LEMMA LockTestType ==
    ASSUME TypeInv, NEW p \in Procs, LockTest(p) PROVE TypeInv'
BY ProcessAssumption
   DEF TypeInv, TypeOK, PcOK, ActiveOK, ScanOK, Goto, Holding, Procs, LockTest

LEMMA ProviderOffersType ==
    ASSUME TypeInv, NEW p \in Procs, ProviderOffers(p) PROVE TypeInv'
<1>1. scan' = [prov |-> scan.prov, pos |-> 1, first |-> scan.first]
  BY DEF ProviderOffers, TypeInv, TypeOK
<1>2. scan.prov \in DOMAIN Providers /\ Len(Providers[scan.prov]) >= 1
  <2>1. Providers \in Seq(Seq(Endpoints)) /\ \A i \in DOMAIN Providers : Len(Providers[i]) > 0
    BY EndpointAssumption
  <2>2. scan.prov \in DOMAIN Providers
    BY <2>1 DEF ProviderOffers, Asking, TypeInv, TypeOK
  <2>3. Len(Providers[scan.prov]) \in Nat /\ Len(Providers[scan.prov]) > 0
    BY <2>1, <2>2
  <2> QED
    BY <2>2, <2>3
<1>3. TypeOK'
  BY <1>1, <1>2 DEF TypeInv, TypeOK, ProviderOffers
<1>4. PcOK' /\ ActiveOK'
  BY DEF TypeInv, PcOK, ActiveOK, ProviderOffers
<1>5. ScanOK'
  BY <1>1, <1>2 DEF TypeInv, ScanOK
<1> QED
  BY <1>3, <1>4, <1>5 DEF TypeInv

LEMMA ProviderSkippedType ==
    ASSUME TypeInv, NEW p \in Procs, ProviderSkipped(p) PROVE TypeInv'
<1>1. scan' = [prov |-> scan.prov + 1, pos |-> 0, first |-> scan.first]
  BY DEF ProviderSkipped, Asking, TypeInv, TypeOK
<1>2. scan.prov \in 1..Len(Providers) /\ Len(Providers) \in Nat /\ scan.prov \in Fallible
      /\ scan.first \in Endpoints \cup {None}
  BY EndpointAssumption DEF ProviderSkipped, Asking, TypeInv, TypeOK
<1>3. TypeOK'
  BY <1>1, <1>2 DEF TypeInv, TypeOK, ProviderSkipped
<1>4. PcOK' /\ ActiveOK'
  BY DEF TypeInv, PcOK, ActiveOK, ProviderSkipped
<1>5. ScanOK'
  BY <1>1, <1>2, EndpointAssumption DEF TypeInv, ScanOK
<1> QED
  BY <1>3, <1>4, <1>5 DEF TypeInv

LEMMA EndpointFailsType ==
    ASSUME TypeInv, NEW p \in Procs, EndpointFails(p) PROVE TypeInv'
<1> DEFINE first == IF scan.first = None THEN Candidate ELSE scan.first
<1>1. first \in Endpoints
  BY CandidateType DEF EndpointFails, Trying, TypeInv, TypeOK
<1>2. scan.prov \in DOMAIN Providers /\ Len(Providers) \in Nat
      /\ DOMAIN Providers = 1..Len(Providers)
      /\ scan.pos \in Nat \ {0} /\ Len(Providers[scan.prov]) \in Nat
  BY EndpointAssumption DEF EndpointFails, Trying, TypeInv, TypeOK, ScanOK
<1>3. scan' = IF scan.pos < Len(Providers[scan.prov])
              THEN [prov |-> scan.prov, pos |-> scan.pos + 1, first |-> first]
              ELSE [prov |-> scan.prov + 1, pos |-> 0, first |-> first]
  <2>1. scan = [prov |-> scan.prov, pos |-> scan.pos, first |-> scan.first]
    BY DEF TypeInv, TypeOK
  <2>2. NextCandidate = IF scan.pos < Len(Providers[scan.prov])
          THEN [prov |-> scan.prov, pos |-> scan.pos + 1, first |-> scan.first]
          ELSE [prov |-> scan.prov + 1, pos |-> 0, first |-> scan.first]
    BY <2>1 DEF NextCandidate
  <2> QED
    BY <2>2 DEF EndpointFails
<1> HIDE DEF first
<1>4. TypeOK'
  BY <1>1, <1>2, <1>3 DEF TypeInv, TypeOK, EndpointFails
<1>5. PcOK' /\ ActiveOK'
  BY DEF TypeInv, PcOK, ActiveOK, EndpointFails
<1>6. ScanOK'
  BY <1>1, <1>2, <1>3, ProcessAssumption DEF TypeInv, ScanOK
<1> QED
  BY <1>4, <1>5, <1>6 DEF TypeInv

LEMMA ElectType ==
    ASSUME TypeInv, NEW p \in Procs, pc[p] = "scan", NEW e \in Endpoints, Elect(p, e)
    PROVE  TypeInv'
<1>1. ScanOK' /\ scan' \in [prov : 1..Len(Providers) + 1, pos : Nat,
                            first : Endpoints \cup {None}]
  BY EndpointAssumption DEF Elect, ScanStart, ScanOK
<1>2. ASSUME active # None, UNCHANGED <<mu, active, ae, elected, ref>>, Goto(p, "unlock")
      PROVE  TypeInv'
  BY <1>1, <1>2, ProcessAssumption
  DEF TypeInv, TypeOK, PcOK, ActiveOK, Goto, Holding, Procs
<1>3. ASSUME NEW o \in Objs, active' = o,
             ae' = Keep([ae EXCEPT ![o] = New(e, FALSE)], o, ref),
             elected' = [elected EXCEPT ![p] = e], mu' = None, Goto(p, "notify"),
             UNCHANGED ref
      PROVE  TypeInv'
  <2>1. New(e, FALSE) \in ActiveEndpoint
    BY NewType
  <2>2. [ae EXCEPT ![o] = New(e, FALSE)] \in [Objs -> ActiveEndpoint]
    BY <2>1 DEF TypeInv, TypeOK
  <2>3. ae' \in [Objs -> ActiveEndpoint]
    BY <1>3, <2>2, KeepType
  <2> QED
    BY <1>1, <1>3, <2>3, ProcessAssumption
    DEF TypeInv, TypeOK, PcOK, ActiveOK, Goto, Holding, Procs
<1> QED
  BY <1>2, <1>3 DEF Elect

LEMMA EndpointOKType ==
    ASSUME TypeInv, NEW p \in Procs, EndpointOK(p) PROVE TypeInv'
BY ElectType, CandidateType DEF EndpointOK, Trying

LEMMA FallbackType ==
    ASSUME TypeInv, NEW p \in Procs, Fallback(p) PROVE TypeInv'
<1>1. scan.first \in Endpoints
  BY EndpointAssumption DEF Fallback, TypeInv, TypeOK, ScanOK
<1> QED
  BY <1>1, ElectType DEF Fallback

LEMMA OnChangeType ==
    ASSUME TypeInv, NEW p \in Procs, OnChange(p) PROVE TypeInv'
BY ProcessAssumption
   DEF TypeInv, TypeOK, PcOK, ActiveOK, ScanOK, Goto, Holding, Procs, OnChange

LEMMA RelockType ==
    ASSUME TypeInv, NEW p \in Procs, Relock(p) PROVE TypeInv'
BY ProcessAssumption
   DEF TypeInv, TypeOK, PcOK, ActiveOK, ScanOK, Goto, Holding, Procs, Relock

LEMMA UnlockType ==
    ASSUME TypeInv, NEW p \in Procs, Unlock(p) PROVE TypeInv'
BY ProcessAssumption
   DEF TypeInv, TypeOK, PcOK, ActiveOK, ScanOK, Goto, Holding, Procs, Unlock

LEMMA EndTestType ==
    ASSUME TypeInv, NEW t \in Testers, EndTest(t) PROVE TypeInv'
<1>1. ae' \in [Objs -> ActiveEndpoint]
  BY FieldType, RefType, KeepType, EndpointAssumption
  DEF EndTest, TypeInv, TypeOK, ActiveEndpoint
<1>2. TypeOK'
  BY <1>1, ProcessAssumption DEF TypeInv, TypeOK, PcOK, Goto, Holding, Procs, EndTest, Without
<1>3. PcOK' /\ ActiveOK' /\ ScanOK'
  BY ProcessAssumption DEF TypeInv, TypeOK, PcOK, ActiveOK, ScanOK, Goto, Holding, Procs, EndTest, Without
<1> QED
  BY <1>2, <1>3 DEF TypeInv

LEMMA NetworkChangeType ==
    ASSUME TypeInv, NEW w \in Watchers, NetworkChange(w) PROVE TypeInv'
BY ProcessAssumption
   DEF TypeInv, TypeOK, PcOK, ActiveOK, ScanOK, Goto, Holding, Procs, NetworkChange

LEMMA IntervalPassesType ==
    ASSUME TypeInv, NEW o \in Objs, IntervalPasses(o) PROVE TypeInv'
<1>1. ae' \in [Objs -> ActiveEndpoint]
  BY FieldType, EndpointAssumption DEF IntervalPasses, TypeInv, TypeOK
<1>2. TypeOK'
  BY <1>1, ProcessAssumption DEF TypeInv, TypeOK, PcOK, Goto, Holding, Procs, IntervalPasses
<1>3. PcOK' /\ ActiveOK' /\ ScanOK'
  BY ProcessAssumption DEF TypeInv, TypeOK, PcOK, ActiveOK, ScanOK, Goto, Holding, Procs, IntervalPasses
<1> QED
  BY <1>2, <1>3 DEF TypeInv

LEMMA TypeStep == TypeInv /\ [Next]_vars => TypeInv'
<1> SUFFICES ASSUME TypeInv, [Next]_vars PROVE TypeInv'
  OBVIOUS
<1>1. CASE UNCHANGED vars
  BY <1>1 DEF vars, TypeInv, TypeOK, PcOK, ActiveOK, ScanOK
<1>2. ASSUME NEW c \in Callers, GetActive(c) \/ InitActive(c) \/ Caller(c)
      PROVE  TypeInv'
  BY <1>2, GetActiveType, InitActiveType, ShouldTestType, ClaimTestType, StartTestType,
     ActionOKType, ActionErrorType DEF Caller
<1>3. ASSUME NEW p \in Procs, Locking(p) \/ Scan(p) \/ OnChange(p) \/ Unlock(p)
      PROVE  TypeInv'
  BY <1>3, LockTestType, RelockType, ProviderOffersType, ProviderSkippedType,
     EndpointOKType, EndpointFailsType, FallbackType,
     OnChangeType, UnlockType DEF Locking, Scan
<1> QED
  BY <1>1, <1>2, <1>3, EndTestType, NetworkChangeType, IntervalPassesType DEF Next

LEMMA TypeCorrect == Spec => []TypeInv
BY InitType, TypeStep, PTL DEF Spec

(* Every reachable state is well typed: a query always has an endpoint, and   *)
(* an election that finds every endpoint failed has one to fall back on.      *)
THEOREM TypeSafety == Spec => []TypeOK
BY TypeCorrect, PTL DEF TypeInv

LEMMA LockStep ==
    ASSUME TypeInv, LockDiscipline, [Next]_vars
    PROVE  LockDiscipline'
<1> USE ProcessAssumption DEF TypeInv, TypeOK, PcOK, LockDiscipline, Critical, Goto, Procs
<1>1. CASE UNCHANGED vars
  BY <1>1 DEF vars
<1>2. ASSUME NEW c \in Callers, GetActive(c) \/ InitActive(c)
      PROVE  LockDiscipline'
  <2>1. CASE GetActive(c)
    BY <2>1 DEF GetActive
  <2>2. CASE pc[c] = "init" /\ mu = None /\ UNCHANGED mu /\ Goto(c, "do")
    <3>1. \A p \in Procs : pc[p] \notin Critical /\ pc'[p] \notin Critical
      BY <2>2
    <3> QED
      BY <2>2, <3>1
  <2>3. CASE /\ pc[c] = "init" /\ mu = None /\ mu' = c /\ Goto(c, "scan")
             /\ active = None /\ UNCHANGED active
    <3>1. \A p \in Procs : pc[p] \notin Critical
      BY <2>3
    <3> QED
      BY <2>3, <3>1
  <2> QED
    BY <1>2, <2>1, <2>2, <2>3 DEF InitActive
<1>3. ASSUME NEW c \in Callers, Caller(c)
      PROVE  LockDiscipline'
  <2>1. CASE ShouldTest(c) \/ ClaimTest(c)
    BY <2>1 DEF ShouldTest, ClaimTest
  <2>2. CASE StartTest(c)
    BY <2>2 DEF StartTest, AfterTest
  <2>3. CASE ActionOK(c) \/ ActionError(c)
    BY <2>3 DEF ActionOK, ActionError
  <2> QED
    BY <1>3, <2>1, <2>2, <2>3 DEF Caller
<1>4. ASSUME NEW p \in Procs, Locking(p) \/ OnChange(p) \/ Unlock(p)
      PROVE  LockDiscipline'
  <2>1. CASE OnChange(p)
    BY <2>1 DEF OnChange
  <2>2. CASE Unlock(p)
    <3>1. pc[p] \in Critical /\ mu = p /\ mu' = None
      BY <2>2 DEF Unlock
    <3>2. \A q \in Procs : pc'[q] \notin Critical
      BY <2>2, <3>1 DEF Unlock
    <3> QED
      BY <2>2, <3>1, <3>2 DEF Unlock
  <2>3. CASE LockTest(p)
    <3>1. p \notin Callers          \* a caller never takes this way to the lock
      BY <2>3 DEF LockTest, Holding
    <3>2. mu' = p /\ Goto(p, "scan") /\ UNCHANGED active
      BY <2>3 DEF LockTest
    <3>3. \A q \in Procs : q # p => pc[q] \notin Critical /\ pc'[q] \notin Critical
      BY <2>3, <3>2 DEF LockTest
    <3> QED
      BY <3>1, <3>2, <3>3
  <2>4. CASE Relock(p)
    BY <2>4 DEF Relock
  <2> QED
    BY <1>4, <2>1, <2>2, <2>3, <2>4 DEF Locking
<1>5. ASSUME NEW p \in Procs, Scan(p)
      PROVE  LockDiscipline'
  <2>1. CASE ProviderOffers(p) \/ ProviderSkipped(p) \/ EndpointFails(p)
    BY <2>1 DEF ProviderOffers, ProviderSkipped, EndpointFails
  <2>3. CASE EndpointOK(p) \/ Fallback(p)
    <3>1. pc[p] = "scan" /\ mu = p /\ \E e : Elect(p, e)
      BY <2>3 DEF EndpointOK, Fallback, Trying
    <3>2. CASE UNCHANGED <<mu, active>> /\ Goto(p, "unlock")
      BY <3>1, <3>2
    <3>3. CASE mu' = None /\ Goto(p, "notify")
      <4>1. \A q \in Procs : pc'[q] \notin Critical
        BY <3>1, <3>3
      <4> QED
        BY <3>3, <4>1
    <3> QED
      BY <3>1, <3>2, <3>3 DEF Elect
  <2> QED
    BY <1>5, <2>1, <2>3 DEF Scan
<1>6. ASSUME NEW t \in Testers, EndTest(t)
      PROVE  LockDiscipline'
  BY <1>6 DEF EndTest
<1>7. ASSUME NEW w \in Watchers, NetworkChange(w)
      PROVE  LockDiscipline'
  BY <1>7 DEF NetworkChange
<1>8. ASSUME NEW o \in Objs, IntervalPasses(o)
      PROVE  LockDiscipline'
  BY <1>8 DEF IntervalPasses
<1> QED
  BY <1>1, <1>2, <1>3, <1>4, <1>5, <1>6, <1>7, <1>8 DEF Next

(* Manager.mu is held exactly by the process between Lock and Unlock, however *)
(* many queries and tests there are, although testLocked gives it away around *)
(* OnChange and the first query may elect under it.                           *)
THEOREM LockSafety == Spec => []LockDiscipline
<1>1. Init => LockDiscipline
  BY ProcessAssumption DEF Init, LockDiscipline, Critical, Procs
<1>2. TypeInv /\ LockDiscipline /\ [Next]_vars => LockDiscipline'
  BY LockStep
<1> QED
  BY <1>1, <1>2, TypeCorrect, PTL DEF Spec
-----------------------------------------------------------------------------
(* A tester that runs keeps its object reachable. *)
LEMMA KeepOther ==
    ASSUME NEW objs, NEW a, NEW r, NEW t \in Testers, NEW o \in Objs, r[t] = o,
           objs[o].testing
    PROVE  Keep(objs, a, r)[o].testing
BY UnusedType DEF Keep, Tested, ActiveEndpoint

LEMMA KeepTesting ==
    ASSUME NEW objs, NEW a, NEW r, NEW o \in Objs, Keep(objs, a, r)[o].testing
    PROVE  objs[o].testing
BY UnusedType DEF Keep, ActiveEndpoint

(* A step that moves no tester between running and not running, leaves the   *)
(* objects of the running ones alone and their testing flags too.            *)
LEMMA TesterFrame ==
    ASSUME TypeInv, SingleTester,
           \A t \in Testers : (pc'[t] # "idle" <=> pc[t] # "idle") /\ ref'[t] = ref[t],
           \A o \in Objs :
              /\ ae'[o].testing => ae[o].testing
              /\ \A t \in Testers : pc[t] # "idle" /\ ref[t] = o /\ ae[o].testing
                    => ae'[o].testing,
           \A o \in Objs : ae'[o].testing \in BOOLEAN
    PROVE  SingleTester'
BY DEF SingleTester

LEMMA TesterStep ==
    ASSUME TypeInv, TypeInv', SingleTester, [Next]_vars
    PROVE  SingleTester'
<1>0. \A o \in Objs : ae[o].testing \in BOOLEAN /\ ae'[o].testing \in BOOLEAN
  BY DEF TypeInv, TypeOK, ActiveEndpoint
<1> USE ProcessAssumption DEF TypeInv, TypeOK, PcOK, Goto, Procs
<1>1. CASE UNCHANGED vars
  BY <1>0, <1>1, TesterFrame DEF vars
<1>2. ASSUME NEW c \in Callers, GetActive(c) \/ ShouldTest(c)
      PROVE  SingleTester'
  BY <1>0, <1>2, TesterFrame DEF GetActive, ShouldTest
<1>3. ASSUME NEW c \in Callers, InitActive(c)
      PROVE  SingleTester'
  <2>1. \A t \in Testers : pc'[t] = pc[t] /\ ref'[t] = ref[t]
    BY <1>3 DEF InitActive
  <2>2. CASE UNCHANGED ae
    BY <1>0, <2>1, <2>2, TesterFrame
  <2>3. ASSUME NEW o \in Objs \ Live, ae' = [ae EXCEPT ![o] = New(InitEndpoint, TRUE)]
        PROVE  SingleTester'
    <3>1. \A t \in Testers : ref[t] # o
      BY <2>3 DEF Live, Queried, Tested
    <3>2. ae'[o].testing = FALSE /\ \A q \in Objs : q # o => ae'[q] = ae[q]
      BY <2>3 DEF New
    <3> QED
      BY <1>0, <2>1, <3>1, <3>2, TesterFrame
  <2> QED
    BY <1>3, <2>2, <2>3 DEF InitActive
<1>4. ASSUME NEW c \in Callers, ClaimTest(c)
      PROVE  SingleTester'
  <2>1. CASE ae' = [ae EXCEPT ![ref[c]].due = FALSE]
    BY <1>0, <1>4, <2>1, TesterFrame DEF ClaimTest, ActiveEndpoint
  <2>2. CASE UNCHANGED ae
    BY <1>0, <1>4, <2>2, TesterFrame DEF ClaimTest
  <2> QED
    BY <1>4, <2>1, <2>2 DEF ClaimTest
<1>5. ASSUME NEW c \in Callers, StartTest(c)
      PROVE  SingleTester'
  <2>1. ref[c] \in Objs
    BY <1>5, RefType DEF StartTest, Holding
  <2>2. \A p \in Procs : p # c => Release(c)[p] = ref[p]
    BY DEF Release, Without
  <2>3. CASE Goto(c, AfterTest(c)) /\ ref' = Release(c) /\ ae' = Keep(ae, active, Release(c))
    <3>1. \A t \in Testers : pc'[t] = pc[t] /\ ref'[t] = ref[t]
      BY <2>2, <2>3
    <3>2. \A o \in Objs : ae'[o].testing => ae[o].testing
      BY <2>3, KeepTesting
    <3>3. \A o \in Objs, t \in Testers : ref[t] = o /\ ae[o].testing => ae'[o].testing
      BY <2>3, <3>1, KeepOther
    <3> QED
      BY <1>0, <3>1, <3>2, <3>3, TesterFrame
  <2>4. ASSUME NEW t \in Testers, ~ae[ref[c]].testing, pc[t] = "idle",
               pc' = [pc EXCEPT ![c] = AfterTest(c), ![t] = "lock"],
               ref' = [Release(c) EXCEPT ![t] = ref[c]],
               ae' = [ae EXCEPT ![ref[c]].testing = TRUE]
        PROVE  SingleTester'
    <3>1. pc'[t] # "idle" /\ ref'[t] = ref[c]
          /\ \A u \in Testers \ {t} : pc'[u] = pc[u] /\ ref'[u] = ref[u]
      BY <2>2, <2>4 DEF Release, Without
    <3>2. /\ ae'[ref[c]].testing = TRUE
          /\ \A o \in Objs \ {ref[c]} : ae'[o] = ae[o]
      BY <2>1, <2>4 DEF ActiveEndpoint
    <3>3. \A u \in Testers \ {t} : pc[u] # "idle" => ref[u] # ref[c]
      BY <2>1, <2>4 DEF SingleTester
    <3> QED
      BY <1>0, <2>1, <2>4, <3>1, <3>2, <3>3 DEF SingleTester
  <2> QED
    BY <1>5, <2>3, <2>4 DEF StartTest
<1>6. ASSUME NEW c \in Callers, ActionOK(c) \/ ActionError(c)
      PROVE  SingleTester'
  <2>1. \A t \in Testers : pc'[t] = pc[t] /\ ref'[t] = ref[t]
    BY <1>6 DEF ActionOK, ActionError, Without
  <2>2. ASSUME NEW n, ae' = [ae EXCEPT ![ref[c]].errors = n]
        PROVE  SingleTester'
    <3>1. \A o \in Objs : ae'[o].testing = ae[o].testing
      BY <2>2 DEF ActiveEndpoint
    <3> QED
      BY <1>0, <2>1, <3>1, TesterFrame
  <2>3. ASSUME NEW n, ae' = Keep([ae EXCEPT ![ref[c]].errors = n], active, ref')
        PROVE  SingleTester'
    <3> DEFINE objs == [ae EXCEPT ![ref[c]].errors = n]
    <3>1. \A o \in Objs : objs[o].testing = ae[o].testing
      BY DEF ActiveEndpoint
    <3>0. ae' = Keep(objs, active, ref')
      BY <2>3
    <3> HIDE DEF objs
    <3>2. \A o \in Objs : ae'[o].testing => objs[o].testing
      BY <3>0, KeepTesting
    <3>3. \A o \in Objs, t \in Testers : ref'[t] = o /\ objs[o].testing => ae'[o].testing
      BY <3>0, KeepOther
    <3> QED
      BY <1>0, <2>1, <3>1, <3>2, <3>3, TesterFrame
  <2>4. CASE ActionOK(c)
    BY <2>3, <2>4 DEF ActionOK
  <2>5. CASE ActionError(c)
    BY <2>2, <2>3, <2>5 DEF ActionError
  <2> QED
    BY <1>6, <2>4, <2>5
<1>7. ASSUME NEW p \in Procs, Locking(p) \/ OnChange(p) \/ Unlock(p)
      PROVE  SingleTester'
  <2>1. UNCHANGED ae /\ \A t \in Testers : ref'[t] = ref[t]
    BY <1>7 DEF Locking, LockTest, Relock, OnChange, Unlock
  <2>2. \A t \in Testers : pc'[t] # "idle" <=> pc[t] # "idle"
    BY <1>7 DEF Locking, LockTest, Relock, OnChange, Unlock
  <2> QED
    BY <1>0, <2>1, <2>2, TesterFrame
<1>8. ASSUME NEW p \in Procs, ProviderOffers(p) \/ ProviderSkipped(p)
                               \/ EndpointFails(p)
      PROVE  SingleTester'
  BY <1>0, <1>8, TesterFrame
  DEF ProviderOffers, ProviderSkipped, EndpointFails, Asking, Trying
<1>9. ASSUME NEW p \in Procs, NEW e, pc[p] = "scan", Elect(p, e)
      PROVE  SingleTester'
  <2>1. \A t \in Testers : (pc'[t] # "idle" <=> pc[t] # "idle") /\ ref'[t] = ref[t]
    BY <1>9 DEF Elect
  <2>2. CASE UNCHANGED ae
    BY <1>0, <2>1, <2>2, TesterFrame
  <2>3. ASSUME NEW o \in Objs \ Live,
               ae' = Keep([ae EXCEPT ![o] = New(e, FALSE)], o, ref)
        PROVE  SingleTester'
    <3> DEFINE objs == [ae EXCEPT ![o] = New(e, FALSE)]
    <3>1. \A t \in Testers : ref[t] # o
      BY <2>3 DEF Live, Queried, Tested
    <3>2. objs[o].testing = FALSE /\ \A q \in Objs : q # o => objs[q] = ae[q]
      BY DEF New
    <3>0. ae' = Keep(objs, o, ref)
      BY <2>3
    <3> HIDE DEF objs
    <3>3. \A q \in Objs : ae'[q].testing => objs[q].testing
      BY <3>0, KeepTesting
    <3>4. \A q \in Objs, t \in Testers : ref[t] = q /\ objs[q].testing => ae'[q].testing
      BY <3>0, KeepOther
    <3> QED
      BY <1>0, <2>1, <3>1, <3>2, <3>3, <3>4, TesterFrame
  <2> QED
    BY <1>9, <2>2, <2>3 DEF Elect
<1>10. ASSUME NEW p \in Procs, Scan(p)
       PROVE  SingleTester'
  BY <1>8, <1>9, <1>10 DEF Scan, EndpointOK, Fallback, Trying
<1>11. ASSUME NEW t \in Testers, EndTest(t)
       PROVE  SingleTester'
  <2> DEFINE o == ref[t]
             objs == [ae EXCEPT ![o].testing = FALSE, ![o].due = FALSE]
  <2>1. o \in Objs /\ pc[t] # "idle"
    BY <1>11, RefType DEF EndTest
  <2>2. pc'[t] = "idle" /\ \A u \in Testers \ {t} : pc'[u] = pc[u] /\ ref'[u] = ref[u]
    BY <1>11 DEF EndTest, Without
  <2>3. objs[o].testing = FALSE /\ \A q \in Objs \ {o} : objs[q] = ae[q]
    BY <2>1 DEF ActiveEndpoint
  <2>4. ae' = Keep(objs, active, ref')
    BY <1>11 DEF EndTest
  <2> HIDE DEF objs
  <2>5. \A q \in Objs : ae'[q].testing => objs[q].testing
    BY <2>4, KeepTesting
  <2>6. \A q \in Objs, u \in Testers : ref'[u] = q /\ objs[q].testing => ae'[q].testing
    BY <2>4, KeepOther
  <2>7. \A u \in Testers : pc[u] # "idle" /\ ref[u] = o => u = t
    BY <1>0, <2>1 DEF SingleTester
  <2>8. \A u, v \in Testers : pc'[u] # "idle" /\ pc'[v] # "idle" /\ ref'[u] = ref'[v] => u = v
    BY <1>0, <2>2 DEF SingleTester
  <2>9. ASSUME NEW q \in Objs
        PROVE  ae'[q].testing <=> \E u \in Testers : pc'[u] # "idle" /\ ref'[u] = q
    <3>1. CASE q = o
      BY <2>2, <2>3, <2>5, <2>7, <3>1
    <3>2. CASE q # o
      <4>1. objs[q].testing <=> \E u \in Testers : pc[u] # "idle" /\ ref[u] = q
        BY <1>0, <2>3, <3>2 DEF SingleTester
      <4> QED
        BY <2>2, <2>5, <2>6, <3>2, <4>1
    <3> QED
      BY <3>1, <3>2
  <2> QED
    BY <2>8, <2>9 DEF SingleTester
<1>12. ASSUME NEW w \in Watchers, NetworkChange(w)
       PROVE  SingleTester'
  BY <1>0, <1>12, TesterFrame DEF NetworkChange
<1>13. ASSUME NEW o \in Objs, IntervalPasses(o)
       PROVE  SingleTester'
  <2>1. \A q \in Objs : ae'[q].testing = ae[q].testing
    BY <1>13 DEF IntervalPasses, ActiveEndpoint
  <2> QED
    BY <1>0, <1>13, <2>1, TesterFrame DEF IntervalPasses
<1> QED
  BY <1>1, <1>2, <1>3, <1>4, <1>5, <1>6, <1>7, <1>10, <1>11, <1>12, <1>13
  DEF Next, Caller

(* However many queries ask for a test, an activeEnpoint has at most one      *)
(* running, and its testing flag says exactly whether it has.                 *)
THEOREM TesterSafety == Spec => []SingleTester
<1>1. Init => SingleTester
  BY UnusedType DEF Init, SingleTester, Procs
<1>2. TypeInv /\ SingleTester /\ [Next]_vars => SingleTester'
  BY TypeStep, TesterStep
<1> QED
  BY <1>1, <1>2, TypeCorrect, PTL DEF Spec
=============================================================================
