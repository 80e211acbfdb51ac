--------------------------- MODULE EndpointManager ---------------------------
(***************************************************************************)
(* resolver/endpoint/manager.go: how the endpoint that serves the DNS      *)
(* queries is elected and re-elected while queries use it.                 *)
(*                                                                         *)
(* Processes                                                               *)
(*   Callers   goroutines inside Manager.Do, one per query                 *)
(*   Testers   goroutines started by activeEnpoint.test                    *)
(*   Watchers  callers of Manager.Test itself (run.go tests the endpoints  *)
(*             again when the network changes)                             *)
(*                                                                         *)
(* mu is the writer of Manager.mu: a section under RLock is one step that  *)
(* needs mu free.  A section under activeEnpoint.mu is one step.           *)
(*                                                                         *)
(* Of lastTest and testInterval the model keeps due, whether the interval  *)
(* has passed: that happens to any object at any time after a reset, so    *)
(* the lengths (2h, 5s for plain DNS, 10s after a failed election) are     *)
(* abstracted.                                                             *)
(*                                                                         *)
(* An election never ends with an error.  Its only one is ENETUNREACH, and *)
(* isErrNetUnreachable finds none in the errors of this program's testers  *)
(* and providers, which are made with %v (doh.go:82 and 114, dns.go:34, 45 *)
(* and 50, endpoint.go:245); a static provider has none.                   *)
(***************************************************************************)
EXTENDS Naturals, Sequences

CONSTANTS
    Callers, Testers, Watchers,   \* the processes
    Objs,           \* activeEnpoint objects, reused once nothing refers to them: enough are
                    \* one for each caller and tester, one that is active, one that is new
    Endpoints,
    PlainDNS,       \* endpoints whose tester never fails and whose interval is short
    Providers,      \* Manager.Providers: for each, the endpoints it offers
    Fallible,       \* providers that may offer nothing, or fail
    InitEndpoint,   \* Manager.InitEndpoint, or None
    None,
    ErrorThreshold,
    Offering,       \* in a network that has settled: the providers that answer
    Healthy         \* and the endpoints that pass their test

Procs == Callers \cup Testers \cup Watchers
MaxOffer == 4     \* bound on the endpoints of one provider, for Best

ASSUME ProcessAssumption ==
    /\ Callers \cap Testers = {} /\ Callers \cap Watchers = {}
    /\ Testers \cap Watchers = {}
    /\ None \notin Procs \cup Objs \cup Endpoints
ASSUME EndpointAssumption ==
    /\ PlainDNS \subseteq Healthy /\ Healthy \subseteq Endpoints
    /\ Providers \in Seq(Seq(Endpoints))
    /\ \A i \in DOMAIN Providers : Len(Providers[i]) > 0
    /\ Fallible \subseteq DOMAIN Providers
    /\ Offering \subseteq DOMAIN Providers
    /\ \E i \in Offering : i \notin Fallible
    /\ DOMAIN Providers \ Fallible \subseteq Offering
    /\ InitEndpoint \in Endpoints \cup {None}
    /\ ErrorThreshold \in Nat \ {0}

VARIABLES
    mu,         \* Manager.mu: the process that locked it for writing, or None
    active,     \* Manager.activeEndpoint: an object, or None
    ae,         \* the activeEnpoint objects
    pc,         \* what each process does next
    ref,        \* the object a process works on (e, the receiver, or None)
    elected,    \* the endpoint a process is about to announce
    scan        \* the loops of findBestEndpointLocked; only mu's holder uses it

vars == <<mu, active, ae, pc, ref, elected, scan>>

ActiveEndpoint ==
    [ep : Endpoints, due : BOOLEAN, testing : BOOLEAN, errors : 0..ErrorThreshold + 1]
New(e, due) == [ep |-> e, due |-> due, testing |-> FALSE, errors |-> 0]
Unused == New(CHOOSE e \in Endpoints : TRUE, FALSE)

ScanStart == [prov |-> 1, pos |-> 0, first |-> None]

(* Objects that someone can still reach; the collector takes the others.  Of *)
(* one that only a tester still holds nothing but its flag is ever read.     *)
Queried(a, r) == {a} \cup {r[c] : c \in Callers}
Tested(r) == {r[t] : t \in Testers}
Live == Queried(active, ref) \cup Tested(ref)
Keep(objs, a, r) ==
    [o \in Objs |-> IF o \in Queried(a, r) THEN objs[o]
                    ELSE [Unused EXCEPT !.testing = o \in Tested(r) /\ objs[o].testing]]
Without(p) == [ref EXCEPT ![p] = None]

Goto(p, l) == pc' = [pc EXCEPT ![p] = l]

Init ==
    /\ mu = None /\ active = None
    /\ ae = [o \in Objs |-> Unused]
    /\ pc = [p \in Procs |-> "idle"]
    /\ ref = [p \in Procs |-> None]
    /\ elected = [p \in Procs |-> None]
    /\ scan = ScanStart
-----------------------------------------------------------------------------
(* Manager.Do up to the active endpoint: getActiveEndpoint. *)

GetActive(c) ==
    /\ pc[c] = "idle" /\ mu = None
    /\ IF active # None
       THEN Goto(c, "do") /\ ref' = [ref EXCEPT ![c] = active]
       ELSE Goto(c, "init") /\ UNCHANGED ref
    /\ UNCHANGED <<mu, active, ae, elected, scan>>

(* The first callers: one installs InitEndpoint, its timer zeroed so that    *)
(* the first query tests, or runs the first test itself, under the lock.     *)
InitActive(c) ==
    /\ pc[c] = "init" /\ mu = None
    /\ \/ /\ active # None
          /\ ref' = [ref EXCEPT ![c] = active]
          /\ Goto(c, "do")
          /\ UNCHANGED <<mu, active, ae, scan>>
       \/ /\ active = None /\ InitEndpoint # None
          /\ \E o \in Objs \ Live :
                /\ active' = o
                /\ ref' = [ref EXCEPT ![c] = o]
                /\ ae' = [ae EXCEPT ![o] = New(InitEndpoint, TRUE)]
          /\ Goto(c, "do")
          /\ UNCHANGED <<mu, scan>>
       \/ /\ active = None /\ InitEndpoint = None
          /\ mu' = c
          /\ Goto(c, "scan")
          /\ UNCHANGED <<active, ae, ref, scan>>
    /\ UNCHANGED elected
-----------------------------------------------------------------------------
(* activeEnpoint.do: an opportunistic test, the action, a recovery test. *)

ShouldTest(c) ==            \* the part under RLock
    /\ pc[c] = "do"
    /\ LET o == ref[c] IN
       Goto(c, IF ~ae[o].testing /\ ae[o].due THEN "claim" ELSE "action")
    /\ UNCHANGED <<mu, active, ae, ref, elected, scan>>

ClaimTest(c) ==             \* the part under Lock
    /\ pc[c] = "claim"
    /\ IF ae[ref[c]].due
       THEN Goto(c, "test") /\ ae' = [ae EXCEPT ![ref[c]].due = FALSE]
       ELSE Goto(c, "action") /\ UNCHANGED ae
    /\ UNCHANGED <<mu, active, ref, elected, scan>>

(* activeEnpoint.test: setTesting(true, false), and a goroutine if it won.   *)
(* The opportunistic test comes before the action, the recovery test is the  *)
(* last thing do does.                                                       *)
AfterTest(c) == IF pc[c] = "test" THEN "action" ELSE "idle"
Release(c) == IF pc[c] = "test" THEN ref ELSE Without(c)

StartTest_Unchecked(c) ==   \* mutant: setTesting does not look at the flag
    /\ pc[c] \in {"test", "recover"}
    /\ \E t \in Testers :
          /\ pc[t] = "idle"
          /\ pc' = [pc EXCEPT ![c] = AfterTest(c), ![t] = "lock"]
          /\ ref' = [Release(c) EXCEPT ![t] = ref[c]]
          /\ ae' = [ae EXCEPT ![ref[c]].testing = TRUE]
    /\ UNCHANGED <<mu, active, elected, scan>>

StartTest(c) ==
    /\ pc[c] \in {"test", "recover"}
    /\ LET o == ref[c] IN
       \/ /\ ae[o].testing
          /\ Goto(c, AfterTest(c))
          /\ ref' = Release(c)
          /\ ae' = Keep(ae, active, Release(c))
       \/ /\ ~ae[o].testing
          /\ \E t \in Testers :
                /\ pc[t] = "idle"
                /\ pc' = [pc EXCEPT ![c] = AfterTest(c), ![t] = "lock"]
                /\ ref' = [Release(c) EXCEPT ![t] = o]
                /\ ae' = [ae EXCEPT ![o].testing = TRUE]
    /\ UNCHANGED <<mu, active, elected, scan>>

ActionOK(c) ==
    /\ pc[c] = "action"
    /\ Goto(c, "idle")
    /\ ref' = Without(c)
    /\ ae' = Keep([ae EXCEPT ![ref[c]].errors = 0], active, Without(c))
    /\ UNCHANGED <<mu, active, elected, scan>>

(* The counter is not counted beyond the threshold, where only a success     *)
(* (or 2^32 errors) would make it matter again.                              *)
ActionError(c) ==
    /\ pc[c] = "action"
    /\ LET o == ref[c]
           n == IF ae[o].errors > ErrorThreshold
                THEN ae[o].errors ELSE ae[o].errors + 1
           objs == [ae EXCEPT ![o].errors = n]
       IN IF n = ErrorThreshold /\ n # ae[o].errors
          THEN Goto(c, "recover") /\ ae' = objs /\ UNCHANGED ref
          ELSE /\ Goto(c, "idle")
               /\ ref' = Without(c)
               /\ ae' = Keep(objs, active, Without(c))
    /\ UNCHANGED <<mu, active, elected, scan>>
-----------------------------------------------------------------------------
(* Manager.Test: takes the lock and elects. *)

NetworkChange(w) ==
    /\ pc[w] = "idle"
    /\ Goto(w, "lock")
    /\ UNCHANGED <<mu, active, ae, ref, elected, scan>>

LockTest(p) ==
    /\ pc[p] = "lock" /\ mu = None
    /\ mu' = p
    /\ Goto(p, "scan")
    /\ UNCHANGED <<active, ae, ref, elected, scan>>

(* findBestEndpointLocked, one provider or one endpoint at a time. *)
Asking(p) == pc[p] = "scan" /\ scan.pos = 0 /\ scan.prov <= Len(Providers)
Trying(p) == pc[p] = "scan" /\ scan.pos > 0
Candidate == Providers[scan.prov][scan.pos]
NextCandidate ==
    IF scan.pos < Len(Providers[scan.prov])
    THEN [scan EXCEPT !.pos = @ + 1]
    ELSE [prov |-> scan.prov + 1, pos |-> 0, first |-> scan.first]

ProviderOffers(p) ==
    /\ Asking(p)
    /\ scan' = [scan EXCEPT !.pos = 1]
    /\ UNCHANGED <<mu, active, ae, pc, ref, elected>>

ProviderSkipped(p) ==       \* an error, or an empty list
    /\ Asking(p)
    /\ scan.prov \in Fallible
    /\ scan' = [scan EXCEPT !.prov = @ + 1]
    /\ UNCHANGED <<mu, active, ae, pc, ref, elected>>

EndpointFails(p) ==
    /\ Trying(p)
    /\ Candidate \notin PlainDNS
    /\ scan' = [NextCandidate EXCEPT !.first = IF @ = None THEN Candidate ELSE @]
    /\ UNCHANGED <<mu, active, ae, pc, ref, elected>>

(* testLocked with the chosen endpoint e.                                     *)
(* newActiveEndpointLocked hands the current object back when e is its       *)
(* endpoint; a new object is announced with the lock released.               *)
Elect_Locked(p, e) ==       \* mutant: no m.mu.Unlock() before OnChange
    /\ scan' = ScanStart
    /\ \/ /\ active # None
          /\ ae[active].ep = e
          /\ Goto(p, "unlock")
          /\ UNCHANGED <<active, ae, elected>>
       \/ /\ active # None => ae[active].ep # e
          /\ \E o \in Objs \ Live :
                /\ active' = o
                /\ ae' = Keep([ae EXCEPT ![o] = New(e, FALSE)], o, ref)
          /\ elected' = [elected EXCEPT ![p] = e]
          /\ Goto(p, "notify")
    /\ UNCHANGED <<mu, ref>>

Elect(p, e) ==
    /\ scan' = ScanStart
    /\ \/ /\ active # None
          /\ ae[active].ep = e
          /\ Goto(p, "unlock")
          /\ UNCHANGED <<mu, active, ae, elected>>
       \/ /\ active # None => ae[active].ep # e
          /\ \E o \in Objs \ Live :
                /\ active' = o
                /\ ae' = Keep([ae EXCEPT ![o] = New(e, FALSE)], o, ref)
          /\ elected' = [elected EXCEPT ![p] = e]
          /\ mu' = None
          /\ Goto(p, "notify")
    /\ UNCHANGED ref

EndpointOK(p) ==
    /\ Trying(p)
    /\ Elect(p, Candidate)

Fallback(p) ==
    /\ pc[p] = "scan" /\ scan.prov > Len(Providers)
    /\ Elect(p, scan.first)

OnChange(p) ==
    /\ pc[p] = "notify"
    /\ elected' = [elected EXCEPT ![p] = None]
    /\ Goto(p, "relock")
    /\ UNCHANGED <<mu, active, ae, ref, scan>>

Relock_Forgotten(p) ==      \* mutant: no m.mu.Lock() after OnChange
    /\ pc[p] = "relock"
    /\ Goto(p, "unlock")
    /\ UNCHANGED <<mu, active, ae, ref, elected, scan>>

Relock(p) ==
    /\ pc[p] = "relock" /\ mu = None
    /\ mu' = p
    /\ Goto(p, "unlock")
    /\ UNCHANGED <<active, ae, ref, elected, scan>>

(* The deferred Unlock of Test; a first caller reads activeEndpoint again    *)
(* (manager.go:234) and goes on with its query.                              *)
Unlock(p) ==
    /\ pc[p] = "unlock"
    /\ mu' = None
    /\ \/ p \in Callers /\ ref' = [ref EXCEPT ![p] = active] /\ Goto(p, "do")
       \/ p \in Testers /\ Goto(p, "end") /\ UNCHANGED ref
       \/ p \in Watchers /\ Goto(p, "idle") /\ UNCHANGED ref
    /\ UNCHANGED <<active, ae, elected, scan>>

EndTest_LeaveFlag(t) ==     \* mutant: only the timer is reset
    /\ pc[t] = "end"
    /\ ref' = Without(t)
    /\ Goto(t, "idle")
    /\ ae' = Keep([ae EXCEPT ![ref[t]].due = FALSE], active, Without(t))
    /\ UNCHANGED <<mu, active, elected, scan>>

EndTest(t) ==               \* setTesting(false, true)
    /\ pc[t] = "end"
    /\ ref' = Without(t)
    /\ Goto(t, "idle")
    /\ ae' = Keep([ae EXCEPT ![ref[t]].testing = FALSE, ![ref[t]].due = FALSE],
                  active, Without(t))
    /\ UNCHANGED <<mu, active, elected, scan>>
-----------------------------------------------------------------------------
(* Time passes. *)

IntervalPasses(o) ==
    /\ o \in Queried(active, ref)
    /\ ~ae[o].due
    /\ ae' = [ae EXCEPT ![o].due = TRUE]
    /\ UNCHANGED <<mu, active, pc, ref, elected, scan>>

Scan(p) ==
    \/ ProviderOffers(p) \/ ProviderSkipped(p)
    \/ EndpointOK(p) \/ EndpointFails(p) \/ Fallback(p)
Caller(c) ==
    \/ ShouldTest(c) \/ ClaimTest(c) \/ StartTest(c)
    \/ ActionOK(c) \/ ActionError(c)
Locking(p) == LockTest(p) \/ Relock(p)

Next ==
    \/ \E c \in Callers : GetActive(c) \/ InitActive(c) \/ Caller(c)
    \/ \E p \in Procs : Locking(p) \/ Scan(p) \/ OnChange(p) \/ Unlock(p)
    \/ \E t \in Testers : EndTest(t)
    \/ \E w \in Watchers : NetworkChange(w)
    \/ \E o \in Objs : IntervalPasses(o)

Spec == Init /\ [][Next]_vars

(* A goroutine keeps running, a test is bounded by its timeouts (5s for an   *)
(* endpoint, 30s in all), and sync.RWMutex starves nobody.  Do is not called *)
(* and the network does not change because of fairness.                      *)
Fairness ==
    /\ \A c \in Callers : WF_vars(Caller(c)) /\ SF_vars(InitActive(c))
    /\ \A p \in Procs : WF_vars(Scan(p) \/ OnChange(p) \/ Unlock(p))
                        /\ SF_vars(Locking(p))
    /\ \A t \in Testers : WF_vars(EndTest(t))
FairSpec == Spec /\ Fairness

(* Queries keep coming and time keeps passing. *)
TrafficSpec ==
    /\ FairSpec
    /\ \A o \in Objs : WF_vars(IntervalPasses(o))
    /\ \A c \in Callers : SF_vars(GetActive(c))
-----------------------------------------------------------------------------
(* Every variable stays in its type, and a process that is inside do or that *)
(* tests on behalf of an object has one.                                     *)
Holding == {"do", "claim", "test", "action", "recover"}
TypeOK ==
    /\ mu \in Procs \cup {None}
    /\ active \in Objs \cup {None}
    /\ ae \in [Objs -> ActiveEndpoint]
    /\ pc \in [Procs -> {"idle", "init", "lock", "scan", "notify", "relock",
                         "unlock", "end"} \cup Holding]
    /\ ref \in [Procs -> Objs \cup {None}]
    /\ elected \in [Procs -> Endpoints \cup {None}]
    /\ scan \in [prov : 1..Len(Providers) + 1, pos : Nat,
                 first : Endpoints \cup {None}]
    /\ \A c \in Callers : pc[c] \in Holding => ref[c] # None
    /\ \A t \in Testers : pc[t] # "idle" => ref[t] # None

(* The manager's mutex is held by the one process between Lock and Unlock,   *)
(* and by nobody else: testLocked, which releases it around OnChange, has it *)
(* back before the deferred Unlock, and getActiveEndpoint, which elects      *)
(* under it when there is no InitEndpoint, gives it back too.                *)
Critical == {"scan", "unlock"}
LockDiscipline == \A p \in Procs : mu = p <=> pc[p] \in Critical

(* At most one background test runs for an activeEnpoint, and the testing    *)
(* flag tells the truth: it is set exactly while that goroutine runs         *)
(* ("Unsure only on thread wins", manager.go:289, and setTesting).           *)
SingleTester ==
    /\ \A t, u \in Testers :
          pc[t] # "idle" /\ pc[u] # "idle" /\ ref[t] = ref[u] => t = u
    /\ \A o \in Objs :
          ae[o].testing <=> \E t \in Testers : pc[t] # "idle" /\ ref[t] = o

(* While queries keep coming, each caller of Do gets past the manager's lock  *)
(* and returns, again and again, whatever the endpoints do meanwhile and     *)
(* however many tests hold that lock.                                        *)
DoReturns == \A c \in Callers : []<>(pc[c] # "idle") /\ []<>(pc[c] = "idle")

(* A background test that was started ends and may be started again.         *)
TestEnds == \A t \in Testers : pc[t] # "idle" ~> pc[t] = "idle"

(* Once the network is stable and queries keep coming, the active endpoint   *)
(* becomes, and stays, the most preferred one that works, or the first one   *)
(* offered when none does: a fallback (plain DNS above all) is left again.   *)
Settled(p) ==
    /\ ProviderOffers(p) => scan.prov \in Offering
    /\ ProviderSkipped(p) => scan.prov \notin Offering
    /\ EndpointOK(p) => Candidate \in Healthy
    /\ EndpointFails(p) => Candidate \notin Healthy
Offered == {x \in Offering \X (1..MaxOffer) : x[2] <= Len(Providers[x[1]])}
Working == {x \in Offered : Providers[x[1]][x[2]] \in Healthy}
Before(x, y) == x[1] < y[1] \/ (x[1] = y[1] /\ x[2] <= y[2])
Best ==
    LET S == IF Working = {} THEN Offered ELSE Working
        b == CHOOSE x \in S : \A y \in S : Before(x, y)
    IN Providers[b[1]][b[2]]
Converges ==
    <>[][\A p \in Procs : Settled(p)]_vars
        => <>[](active # None /\ ae[active].ep = Best)
=============================================================================
