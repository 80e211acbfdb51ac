------------------------ MODULE ServiceLifecycleProofs ------------------------
(***************************************************************************)
(* Safety of ServiceLifecycle for any set of listeners and any number of   *)
(* starts: attempts do not overlap, no listener outlives Stop, and the     *)
(* error of a listener is not hidden by the cancellation it causes.        *)
(***************************************************************************)
EXTENDS ServiceLifecycle, FiniteSetTheorems, TLAPS

(* Where a start is tells where its listeners are, and only the last start   *)
(* is not over.                                                              *)
Phases ==
    /\ main = "start" \/ start # 0
    /\ main \in {"start", "backoff", "failed"} /\ start # 0 => run[start] \in {"return", "over"}
    /\ \A g \in Starts :
          /\ g > start <=> run[g] = "none"
          /\ g < start => run[g] \in {"return", "over"}
          /\ run[g] \in {"none", "new", "armed"} => \A l \in Listeners : lst[g][l] = "none"
          /\ run[g] \in {"return", "over"} => \A l \in Listeners : lst[g][l] = "end"
          /\ \A l \in Listeners : l \in sent[g] => lst[g][l] = "end"

(* Stop returns when the goroutine whose channel it waits for is over. *)
Awaits == main = "stopped" => awaited # 0 /\ run[awaited] = "over"

(* The error kept so far, against those that were sent. *)
Kept ==
    \A g \in Starts :
        /\ \A l \in Listeners :
              lst[g][l] \in {"cancel", "send", "end"} => lerr[g][l] \in ListenErrors
        /\ err[g] = None => sent[g] = {}
        /\ err[g] = "canceled" =>
              \A l \in Listeners : l \in sent[g] => lerr[g][l] = "canceled"
        /\ err[g] \notin {None, "canceled"} =>
              \E l \in Listeners : l \in sent[g] /\ err[g] = lerr[g][l]
        /\ run[g] \in {"return", "over"} => Listeners \subseteq sent[g]

LEMMA NoneIsNoError == None \notin ListenErrors
BY ServiceAssumption DEF ListenErrors
-----------------------------------------------------------------------------
LEMMA TypeInit == Init => TypeOK
<1> SUFFICES ASSUME Init PROVE TypeOK
  OBVIOUS
<1> USE ServiceAssumption DEF Init, EachListener, Starts
<1>1. lst \in [Starts -> [Listeners -> {"none", "listen", "register", "serve",
                                        "cancel", "send", "end"}]]
  OBVIOUS
<1>2. lerr \in [Starts -> [Listeners -> ListenErrors \cup {None}]]
  OBVIOUS
<1> QED
  BY <1>1, <1>2 DEF TypeOK

LEMMA CancelType ==
    ASSUME TypeOK, NEW g \in Starts, NEW why \in ListenErrors \cup {"stop", None},
           CancelCtx(g, why)
    PROVE  cause' \in [Starts -> ListenErrors \cup {"stop", None}]
BY DEF TypeOK, CancelCtx

LEMMA SendType ==
    ASSUME TypeOK, NEW g \in Starts, NEW who \in Listeners \cup {None},
           NEW e \in ListenErrors \cup {None}, SendErr(g, who, e)
    PROVE  /\ sent' \in [Starts -> SUBSET (Listeners \cup {None})]
           /\ err' \in [Starts -> ListenErrors \cup {None}]
<1> USE DEF TypeOK, SendErr
<1>1. sent' \in [Starts -> SUBSET (Listeners \cup {None})]
  OBVIOUS
<1>2. err' \in [Starts -> ListenErrors \cup {None}]
  OBVIOUS
<1> QED
  BY <1>1, <1>2

LEMMA ListenerType ==
    ASSUME TypeOK, NEW g \in Starts, NEW l \in Listeners,
           NEW p \in {"register", "serve", "cancel", "send", "end"}, Listener(g, l, p)
    PROVE  lst' \in [Starts -> [Listeners -> {"none", "listen", "register", "serve",
                                              "cancel", "send", "end"}]]
BY DEF TypeOK, Listener

LEMMA FailsType ==
    ASSUME TypeOK, NEW g \in Starts, NEW l \in Listeners, NEW e \in ListenErrors,
           Fails(g, l, e)
    PROVE  TypeOK'
<1>1. lerr' \in [Starts -> [Listeners -> ListenErrors \cup {None}]]
  BY DEF TypeOK, Fails
<1> QED
  BY <1>1, ListenerType DEF TypeOK, Fails, mainVars

LEMMA TypeStep == TypeOK /\ Phases /\ [Next]_vars => TypeOK'
<1> SUFFICES ASSUME TypeOK, Phases, [Next]_vars PROVE TypeOK'
  OBVIOUS
<1> USE ServiceAssumption DEF mainVars, Pc
<1>1. CASE Spawn
  BY <1>1 DEF TypeOK, Spawn, Starts
<1>2. CASE Select \/ Started \/ StartedRace \/ Retry \/ StopIgnored
  BY <1>2 DEF TypeOK, Select, Started, StartedRace, Outcome, Retry, StopIgnored
<1>3. CASE Stop
  <2>1. stopFunc \in Starts
    BY <1>3 DEF TypeOK, Stop, Starts
  <2> QED
    BY <1>3, <2>1, CancelType DEF TypeOK, Stop
<1>4. CASE AwaitStopped \/ StopReturns
  BY <1>4 DEF TypeOK, AwaitStopped, StopReturns
<1>5. ASSUME NEW g \in Starts, Arm(g) \/ ListenAndServe(g) PROVE TypeOK'
  <2>0. g \in 0..start
    BY <1>5 DEF TypeOK, Phases, Arm, ListenAndServe, Starts
  <2>1. lst' \in [Starts -> [Listeners -> {"none", "listen", "register", "serve",
                                            "cancel", "send", "end"}]]
    BY <1>5 DEF TypeOK, Arm, ListenAndServe
  <2> QED
    BY <1>5, <2>0, <2>1 DEF TypeOK, Arm, ListenAndServe
<1>6. ASSUME NEW g \in Starts, CtxDone(g) PROVE TypeOK'
  <2>1. "canceled" \in ListenErrors
    BY DEF ListenErrors
  <2> QED
    BY <1>6, <2>1, SendType DEF TypeOK, CtxDone
<1>7. ASSUME NEW g \in Starts, CloseAll(g) \/ Collect(g) PROVE TypeOK'
  <2>1. CASE CloseAll(g)
    <3>1. closed' \in [Starts -> SUBSET Listeners] /\ \A h \in Starts : closed'[h] \subseteq closeAll[h]
      BY <2>1 DEF TypeOK, CloseAll
    <3> QED
      BY <2>1, <3>1 DEF TypeOK, CloseAll
  <2>2. CASE Collect(g)
    BY <2>2 DEF TypeOK, Collect
  <2> QED
    BY <1>7, <2>1, <2>2
<1>8. ASSUME NEW g \in Starts, Return(g) PROVE TypeOK'
  BY <1>8 DEF TypeOK, Return, Outcome
<1>9. ASSUME NEW g \in Starts, NEW l \in Listeners, ListenOK(g, l) PROVE TypeOK'
  BY <1>9, ListenerType DEF TypeOK, ListenOK
<1>10. ASSUME NEW g \in Starts, NEW l \in Listeners,
              ListenFails(g, l) \/ ServeFails(g, l) \/ ServeClosed(g, l)
       PROVE  TypeOK'
  <2>1. PICK e \in ListenErrors : Fails(g, l, e)
    BY <1>10 DEF ListenFails, ServeFails, ServeClosed, ListenErrors
  <2> QED
    BY <2>1, FailsType
<1>11. ASSUME NEW g \in Starts, NEW l \in Listeners, Register(g, l) PROVE TypeOK'
  <2>1. /\ closeAll' \in [Starts -> SUBSET Listeners]
        /\ \A h \in Starts : closeAll[h] \subseteq closeAll'[h]
    BY <1>11 DEF TypeOK, Register
  <2> QED
    BY <1>11, <2>1, ListenerType DEF TypeOK, Register
<1>12. ASSUME NEW g \in Starts, NEW l \in Listeners, Cancel(g, l) PROVE TypeOK'
  <2>1. lerr[g][l] \in ListenErrors \cup {"stop", None}
    BY DEF TypeOK
  <2> QED
    BY <1>12, <2>1, CancelType, ListenerType DEF TypeOK, Cancel
<1>13. ASSUME NEW g \in Starts, NEW l \in Listeners, Send(g, l) PROVE TypeOK'
  <2>1. lerr[g][l] \in ListenErrors \cup {None}
    BY DEF TypeOK
  <2> QED
    BY <1>13, <2>1, SendType, ListenerType DEF TypeOK, Send
<1>14. CASE UNCHANGED vars
  BY <1>14 DEF TypeOK, vars
<1> QED
  BY <1>1, <1>2, <1>3, <1>4, <1>5, <1>6, <1>7, <1>8, <1>9, <1>10, <1>11, <1>12, <1>13, <1>14
  DEF Next, Main, Goroutine, Listening
-----------------------------------------------------------------------------
LEMMA PhasesInit == Init => Phases
BY DEF Init, Phases, Starts, EachListener

(* When as many errors have come as there are senders, all have ended. *)
LEMMA AllSent ==
    ASSUME TypeOK, NEW g \in Starts, Cardinality(sent[g]) >= Cardinality(Listeners) + 1
    PROVE  Listeners \subseteq sent[g]
<1> DEFINE All == Listeners \cup {None}
<1>1. IsFiniteSet(All) /\ Cardinality(All) = Cardinality(Listeners) + 1
  BY ServiceAssumption, FS_AddElement
<1>2. sent[g] \subseteq All
  BY DEF TypeOK
<1>3. Cardinality(sent[g]) <= Cardinality(All)
      /\ (Cardinality(sent[g]) = Cardinality(All) => sent[g] = All)
  BY <1>1, <1>2, FS_Subset
<1>4. Cardinality(All) \in Nat /\ Cardinality(sent[g]) \in Nat
  BY <1>1, <1>2, FS_Subset, FS_CardinalityType
<1>5. sent[g] = All
  <2> HIDE DEF All
  <2> QED
    BY <1>1, <1>3, <1>4
<1> QED
  BY <1>5

LEMMA PhasesStep == TypeOK /\ Phases /\ [Next]_vars => Phases'
<1> SUFFICES ASSUME TypeOK, Phases, [Next]_vars PROVE Phases'
  OBVIOUS
<1> USE ServiceAssumption DEF TypeOK, Phases, mainVars, Pc, Starts
<1>1. CASE Spawn
  BY <1>1 DEF Spawn
<1>2. CASE Select \/ Started \/ StartedRace \/ Retry \/ StopIgnored
  BY <1>2 DEF Select, Started, StartedRace, Outcome, Retry, StopIgnored
<1>3. CASE Stop \/ AwaitStopped \/ StopReturns
  BY <1>3 DEF Stop, AwaitStopped, StopReturns
<1>4. ASSUME NEW g \in Starts, Arm(g) PROVE Phases'
  BY <1>4 DEF Arm
<1>5. ASSUME NEW g \in Starts, ListenAndServe(g) PROVE Phases'
  <2>1. \A l \in Listeners : l \notin sent[g]
    BY <1>5 DEF ListenAndServe
  <2> QED
    BY <1>5, <2>1 DEF ListenAndServe
<1>6. ASSUME NEW g \in Starts, CtxDone(g) PROVE Phases'
  BY <1>6 DEF CtxDone, SendErr
<1>7. ASSUME NEW g \in Starts, CloseAll(g) PROVE Phases'
  <2>0. run[g] = "close"
    BY <1>7 DEF CloseAll
  <2>1. g = start
    BY <2>0
  <2>2. \A h \in Starts : run'[h] = IF h = g THEN "collect" ELSE run[h]
    BY <1>7 DEF CloseAll
  <2> QED
    BY <1>7, <2>1, <2>2 DEF CloseAll
<1>8. ASSUME NEW g \in Starts, Collect(g) PROVE Phases'
  <2>1. Listeners \subseteq sent[g]
    BY <1>8, AllSent DEF Collect
  <2> QED
    BY <1>8, <2>1 DEF Collect
<1>9. ASSUME NEW g \in Starts, Return(g) PROVE Phases'
  BY <1>9 DEF Return, Outcome
<1>10. ASSUME NEW g \in Starts, NEW l \in Listeners, NEW p, Listener(g, l, p),
              lst[g][l] \notin {"none", "end"},
              UNCHANGED <<main, start, run>>,
              UNCHANGED sent \/ (p = "end" /\ sent' = [sent EXCEPT ![g] = @ \cup {l}])
       PROVE  Phases'
  BY <1>10 DEF Listener
<1>11. ASSUME NEW g \in Starts, NEW l \in Listeners,
              Listening(g, l) \/ ListenFails(g, l) \/ ServeFails(g, l)
       PROVE  Phases'
  <2>1. CASE Send(g, l)
    <3>1. /\ Listener(g, l, "end") /\ lst[g][l] \notin {"none", "end"} /\ UNCHANGED <<main, start, run>>
          /\ sent' = [sent EXCEPT ![g] = @ \cup {l}]
      BY <2>1 DEF Send, SendErr
    <3> HIDE DEF TypeOK, Phases
    <3> QED
      BY <1>10, <3>1, Zenon
  <2>2. CASE ListenOK(g, l) \/ Register(g, l) \/ Cancel(g, l)
    <3>1. CASE ListenOK(g, l)
      <4>1. Listener(g, l, "register") /\ lst[g][l] \notin {"none", "end"} /\ UNCHANGED <<main, start, run, sent>>
        BY <3>1 DEF ListenOK
      <4> HIDE DEF TypeOK, Phases
      <4> QED
        BY <1>10, <4>1, Zenon
    <3>2. CASE Register(g, l)
      <4>1. Listener(g, l, "serve") /\ lst[g][l] \notin {"none", "end"} /\ UNCHANGED <<main, start, run, sent>>
        BY <3>2 DEF Register
      <4> HIDE DEF TypeOK, Phases
      <4> QED
        BY <1>10, <4>1, Zenon
    <3>3. CASE Cancel(g, l)
      BY <1>10, <3>3 DEF Cancel
    <3> QED
      BY <2>2, <3>1, <3>2, <3>3
  <2>3. CASE ListenFails(g, l) \/ ServeFails(g, l) \/ ServeClosed(g, l)
    BY <1>10, <2>3 DEF ListenFails, ServeFails, ServeClosed, Fails
  <2> QED
    BY <1>11, <2>1, <2>2, <2>3 DEF Listening
<1>12. CASE UNCHANGED vars
  BY <1>12 DEF vars
<1> QED
  BY <1>1, <1>2, <1>3, <1>4, <1>5, <1>6, <1>7, <1>8, <1>9, <1>11, <1>12
  DEF Next, Main, Goroutine
-----------------------------------------------------------------------------
LEMMA AwaitsStep == TypeOK /\ Awaits /\ [Next]_vars => Awaits'
<1> SUFFICES ASSUME TypeOK, Awaits, [Next]_vars PROVE Awaits'
  OBVIOUS
<1> USE DEF TypeOK, Awaits, mainVars, Pc, Starts
<1>1. CASE Spawn \/ Select \/ Started \/ StartedRace \/ Retry \/ StopIgnored
  BY <1>1 DEF Spawn, Select, Started, StartedRace, Outcome, Retry, StopIgnored
<1>2. CASE Stop \/ AwaitStopped \/ StopReturns
  BY <1>2 DEF Stop, AwaitStopped, StopReturns
<1>3. ASSUME NEW g \in Starts, Goroutine(g) PROVE Awaits'
  <2>1. CASE Return(g)
    BY <2>1 DEF Return, Outcome
  <2>2. ASSUME run[g] # "over", UNCHANGED <<main, awaited>>, NEW l, Pc(g, l) PROVE Awaits'
    BY <2>2
  <2>3. CASE Arm(g)
    BY <2>2, <2>3 DEF Arm
  <2>4. CASE ListenAndServe(g)
    BY <2>2, <2>4 DEF ListenAndServe
  <2>5. CASE CtxDone(g) \/ CloseAll(g) \/ Collect(g)
    BY <2>2, <2>5 DEF CtxDone, CloseAll, Collect
  <2> QED
    BY <1>3, <2>1, <2>3, <2>4, <2>5 DEF Goroutine
<1>4. ASSUME NEW g \in Starts, NEW l \in Listeners,
             Listening(g, l) \/ ListenFails(g, l) \/ ServeFails(g, l)
      PROVE  Awaits'
  BY <1>4 DEF Listening, ListenOK, Register, ServeClosed, Cancel, Send, ListenFails,
              ServeFails, Fails
<1>5. CASE UNCHANGED vars
  BY <1>5 DEF vars
<1> QED
  BY <1>1, <1>2, <1>3, <1>4, <1>5 DEF Next, Main

-----------------------------------------------------------------------------
LEMMA KeptInit == Init => Kept
BY NoneIsNoError DEF Init, Kept, EachListener, ListenErrors

LEMMA KeptStep == TypeOK /\ Phases /\ Kept /\ [Next]_vars => Kept'
<1> SUFFICES ASSUME TypeOK, Phases, Kept, [Next]_vars PROVE Kept'
  OBVIOUS
<1> USE NoneIsNoError, ServiceAssumption DEF TypeOK, Kept, mainVars, Pc
<1>1. CASE Main \/ Stop \/ StopIgnored
  BY <1>1 DEF Main, Spawn, Select, Started, StartedRace, Retry, Stop, StopIgnored, AwaitStopped,
              StopReturns
<1>2. ASSUME NEW g \in Starts, Arm(g) \/ CloseAll(g) \/ Return(g) PROVE Kept'
  <2>1. CASE Arm(g)
    BY <2>1 DEF Arm
  <2>2. CASE CloseAll(g)
    BY <2>2 DEF CloseAll
  <2>3. CASE Return(g)
    <3>1. UNCHANGED <<lst, lerr, sent, err>> /\ run[g] = "return"
      BY <2>3 DEF Return
    <3>2. \A h \in Starts : run'[h] \in {"return", "over"} => run[h] \in {"return", "over"}
      BY <2>3, <3>1 DEF Return
    <3> QED
      BY <3>1, <3>2
  <2> QED
    BY <1>2, <2>1, <2>2, <2>3
<1>3. ASSUME NEW g \in Starts, ListenAndServe(g) PROVE Kept'
  BY <1>3 DEF ListenAndServe
<1>4. ASSUME NEW g \in Starts, CtxDone(g) PROVE Kept'
  BY <1>4 DEF CtxDone, SendErr, ListenErrors
<1>5. ASSUME NEW g \in Starts, Collect(g) PROVE Kept'
  BY <1>5, AllSent DEF Collect
<1>6. ASSUME NEW g \in Starts, NEW l \in Listeners,
             ListenOK(g, l) \/ Register(g, l) \/ Cancel(g, l)
      PROVE  Kept'
  <2>1. CASE Cancel(g, l)
    BY <2>1 DEF Cancel, Listener
  <2>2. CASE ListenOK(g, l)
    BY <2>2 DEF ListenOK, Listener
  <2>3. CASE Register(g, l)
    BY <2>3 DEF Register, Listener
  <2> QED
    BY <1>6, <2>1, <2>2, <2>3
<1>7. ASSUME NEW g \in Starts, NEW l \in Listeners,
             ListenFails(g, l) \/ ServeFails(g, l) \/ ServeClosed(g, l)
      PROVE  Kept'
  <2>1. PICK e \in ListenErrors : Fails(g, l, e)
    BY <1>7 DEF ListenFails, ServeFails, ServeClosed, ListenErrors
  <2>2. l \notin sent[g]
    BY <1>7 DEF ListenFails, ServeFails, ServeClosed, Phases
  <2> QED
    BY <2>1, <2>2 DEF Fails, Listener
<1>8. ASSUME NEW g \in Starts, NEW l \in Listeners, Send(g, l) PROVE Kept'
  BY <1>8 DEF Send, SendErr, Listener
<1>9. CASE UNCHANGED vars
  BY <1>9 DEF vars
<1> QED
  BY <1>1, <1>2, <1>3, <1>4, <1>5, <1>6, <1>7, <1>8, <1>9 DEF Next, Goroutine, Listening
-----------------------------------------------------------------------------
(* Every reachable state is well typed; a start closes only sockets it has   *)
(* registered.                                                               *)
THEOREM ServiceTypes == Spec => []TypeOK
<1>1. Init => TypeOK /\ Phases
  BY TypeInit, PhasesInit
<1>2. TypeOK /\ Phases /\ [Next]_vars => (TypeOK /\ Phases)'
  BY TypeStep, PhasesStep
<1> QED
  BY <1>1, <1>2, PTL DEF Spec

LEMMA PhasesAlways == Spec => []Phases
<1>1. Init => TypeOK /\ Phases
  BY TypeInit, PhasesInit
<1>2. TypeOK /\ Phases /\ [Next]_vars => (TypeOK /\ Phases)'
  BY TypeStep, PhasesStep
<1> QED
  BY <1>1, <1>2, PTL DEF Spec

(* The listeners of two starts never run at the same time, however the 5     *)
(* seconds, the failures and the retries fall (run.go:89-115).               *)
THEOREM AttemptsDoNotOverlap == Spec => []OneAttempt
<1>1. TypeOK /\ Phases => OneAttempt
  <2> SUFFICES ASSUME TypeOK, Phases, NEW g \in Starts, NEW h \in Starts,
                      Active(g), Active(h)
               PROVE  g = h
    BY DEF OneAttempt
  <2>1. g = start
    BY DEF Active, Phases, TypeOK, Starts
  <2>2. h = start
    BY DEF Active, Phases, TypeOK, Starts
  <2> QED
    BY <2>1, <2>2
<1> QED
  BY <1>1, ServiceTypes, PhasesAlways, PTL

(* When Stop has waited for the last start and reports that the service is  *)
(* stopped, no listener is left of any start (run.go:134-146).               *)
THEOREM StopIsFull == Spec => []FullyStopped
<1>1. Init => Awaits
  BY DEF Init, Awaits
<1>2. TypeOK /\ Awaits /\ [Next]_vars => Awaits'
  BY AwaitsStep
<1>3. TypeOK /\ Phases /\ Awaits => FullyStopped
  <2> SUFFICES ASSUME TypeOK, Phases, Awaits, main = "stopped", awaited = start,
                      NEW g \in Starts
               PROVE  ~Active(g)
    BY DEF FullyStopped
  <2>1. run[g] \in {"none", "return", "over"}
    BY DEF Awaits, Phases, TypeOK, Starts
  <2> QED
    BY <2>1 DEF Active, Phases
<1> QED
  BY <1>1, <1>2, <1>3, ServiceTypes, PhasesAlways, PTL DEF Spec

(* The error of ListenAndServe is one of a listener, and is a cancellation   *)
(* only if all of theirs are (proxy.go:153-161).                             *)
THEOREM ErrorsAreKept == Spec => []ErrorKept
<1>1. TypeOK /\ Kept => ErrorKept
  <2> SUFFICES ASSUME TypeOK, Kept, NEW g \in Starts, run[g] \in {"return", "over"},
                      Listeners # {}
               PROVE  /\ \E l \in Listeners : err[g] = lerr[g][l]
                      /\ err[g] = "canceled" => \A l \in Listeners : lerr[g][l] = "canceled"
    BY DEF ErrorKept
  <2>1. Listeners \subseteq sent[g] /\ err[g] # None
    BY DEF Kept
  <2> QED
    BY <2>1 DEF Kept
<1> QED
  BY <1>1, KeptInit, KeptStep, ServiceTypes, PhasesAlways, PTL DEF Spec
=============================================================================
