--------------------------- MODULE ServiceLifecycle ---------------------------
(***************************************************************************)
(* proxySvc.Start and Stop (run.go) over Proxy.ListenAndServe              *)
(* (proxy/proxy.go): the listening goroutines of one start, the context    *)
(* that ends them all, the errors they leave, and the retries while the    *)
(* network is unreachable.                                                 *)
(*                                                                         *)
(* The service framework calls Start and then, once it has returned, Stop: *)
(* both are the process main.  Each call of start makes a goroutine that   *)
(* calls ListenAndServe, numbered from 1, and one goroutine for each       *)
(* listener (UDP and TCP of every address).                                *)
(***************************************************************************)
EXTENDS Naturals, FiniteSets

CONSTANTS
    Listeners,
    MaxStarts,      \* bound on the calls of start
    None            \* no error; nil; and ListenAndServe itself among the senders

Starts == 1..MaxStarts

ASSUME ServiceAssumption ==
    /\ IsFiniteSet(Listeners) /\ None \notin Listeners
    /\ MaxStarts \in Nat
    /\ None \notin {"stop", "unreachable", "other", "closed", "canceled"}

VARIABLES
    main,       \* where Start and Stop are
    start,      \* how many times start was called
    stopFunc,   \* proxySvc.stopFunc: the start whose context it cancels, or 0
    stopped,    \* proxySvc.stopped: the start that closes the channel, or 0
    awaited,    \* the channel Stop waits for
    run,        \* where the goroutine of each start is
    cause,      \* what cancelled its context first, None while it is live
    closeAll,   \* the sockets it has registered
    closed,     \* those it has closed
    lst,        \* where each of its listeners is
    lerr,       \* the error each listener ended with
    sent,       \* who has sent its error on errs
    err         \* the error that is kept of those

vars == <<main, start, stopFunc, stopped, awaited, run, cause, closeAll, closed,
          lst, lerr, sent, err>>
mainVars == <<main, start, stopFunc, stopped, awaited>>

EachListener(v) == [g \in Starts |-> [l \in Listeners |-> v]]

Init ==
    /\ main = "start" /\ start = 0
    /\ stopFunc = 0 /\ stopped = 0 /\ awaited = 0
    /\ run = [g \in Starts |-> "none"]
    /\ cause = [g \in Starts |-> None]
    /\ closeAll = [g \in Starts |-> {}]
    /\ closed = [g \in Starts |-> {}]
    /\ lst = EachListener("none")
    /\ lerr = EachListener(None)
    /\ sent = [g \in Starts |-> {}]
    /\ err = [g \in Starts |-> None]

CancelCtx(g, why) ==
    cause' = [cause EXCEPT ![g] = IF @ = None THEN why ELSE @]

(* errs is FIFO and never full, so what the collecting loop keeps of it is   *)
(* decided in the order of the sends.                                        *)
SendErr_KeepFirst(g, who, e) ==     \* mutant: context.Canceled is kept
    /\ sent' = [sent EXCEPT ![g] = @ \cup {who}]
    /\ err' = [err EXCEPT ![g] = IF @ = None THEN e ELSE @]

SendErr(g, who, e) ==
    /\ sent' = [sent EXCEPT ![g] = @ \cup {who}]
    /\ err' = [err EXCEPT ![g] = IF @ \in {None, "canceled"} THEN e ELSE @]

Pc(g, l) == run' = [run EXCEPT ![g] = l]
Listener(g, l, p) == lst' = [lst EXCEPT ![g][l] = p]
-----------------------------------------------------------------------------
(* main: Start, start and Stop. *)

Spawn ==
    /\ main = "start" /\ start < MaxStarts
    /\ main' = "spawned"
    /\ start' = start + 1
    /\ Pc(start + 1, "new")
    /\ UNCHANGED <<stopFunc, stopped, awaited, cause, closeAll, closed, lst, lerr, sent, err>>

Select ==
    /\ main = "spawned"
    /\ main' = "wait"
    /\ UNCHANGED <<start, stopFunc, stopped, awaited, run, cause, closeAll, closed, lst, lerr, sent, err>>

(* The 5 seconds pass: Start returns, and the service runs. *)
Started ==
    /\ main = "wait"
    /\ main' = "up"
    /\ UNCHANGED <<start, stopFunc, stopped, awaited, run, cause, closeAll, closed, lst, lerr, sent, err>>

Outcome(e) == IF e = "unreachable" THEN "backoff" ELSE "failed"

(* The goroutine assigns ListenAndServe's error to the result of start (it   *)
(* is the named result, err) while start is returning nil: a data race, and  *)
(* the error may be what start returns.                                      *)
StartedRace ==
    /\ main = "wait"
    /\ run[start] = "return"
    /\ main' = Outcome(err[start])
    /\ UNCHANGED <<start, stopFunc, stopped, awaited, run, cause, closeAll, closed, lst, lerr, sent, err>>

Retry ==
    /\ main = "backoff"
    /\ main' = "start"
    /\ UNCHANGED <<start, stopFunc, stopped, awaited, run, cause, closeAll, closed, lst, lerr, sent, err>>

StopIgnored ==
    /\ main = "up" /\ stopFunc = 0
    /\ main' = "ignored"
    /\ UNCHANGED <<start, stopFunc, stopped, awaited, run, cause, closeAll, closed, lst, lerr, sent, err>>

Stop ==
    /\ main = "up" /\ stopFunc # 0
    /\ main' = "stop"
    /\ stopFunc' = 0
    /\ CancelCtx(stopFunc, "stop")
    /\ UNCHANGED <<start, stopped, awaited, run, closeAll, closed, lst, lerr, sent, err>>

AwaitStopped ==
    /\ main = "stop"
    /\ main' = "stopping"
    /\ awaited' = stopped
    /\ UNCHANGED <<start, stopFunc, stopped, run, cause, closeAll, closed, lst, lerr, sent, err>>

StopReturns ==
    /\ main = "stopping"
    /\ awaited # 0 /\ run[awaited] = "over"     \* a nil channel blocks for ever
    /\ main' = "stopped"
    /\ UNCHANGED <<start, stopFunc, stopped, awaited, run, cause, closeAll, closed, lst, lerr, sent, err>>
-----------------------------------------------------------------------------
(* The goroutine of start g, and ListenAndServe in it. *)

Arm(g) ==
    /\ run[g] = "new"
    /\ Pc(g, "armed")
    /\ stopFunc' = g
    /\ UNCHANGED <<main, start, stopped, awaited, cause, closeAll, closed, lst, lerr, sent, err>>

ListenAndServe(g) ==
    /\ run[g] = "armed"
    /\ Pc(g, "serve")
    /\ stopped' = g
    /\ lst' = [lst EXCEPT ![g] = [l \in Listeners |-> "listen"]]
    /\ UNCHANGED <<main, start, stopFunc, awaited, cause, closeAll, closed, lerr, sent, err>>

CtxDone(g) ==
    /\ run[g] = "serve" /\ cause[g] # None
    /\ Pc(g, "close")
    /\ SendErr(g, None, "canceled")
    /\ UNCHANGED <<mainVars, cause, closeAll, closed, lst, lerr>>

(* closeAll is read once, and not under its mutex. *)
CloseAll(g) ==
    /\ run[g] = "close"
    /\ Pc(g, "collect")
    /\ closed' = [closed EXCEPT ![g] = closeAll[g]]
    /\ UNCHANGED <<mainVars, cause, closeAll, lst, lerr, sent, err>>

Collect_OneShort(g) ==      \* mutant: expReturns forgets the context's error
    /\ run[g] = "collect"
    /\ Cardinality(sent[g]) >= Cardinality(Listeners)
    /\ Pc(g, "return")
    /\ UNCHANGED <<mainVars, cause, closeAll, closed, lst, lerr, sent, err>>

Collect(g) ==
    /\ run[g] = "collect"
    /\ Cardinality(sent[g]) >= Cardinality(Listeners) + 1
    /\ Pc(g, "return")
    /\ UNCHANGED <<mainVars, cause, closeAll, closed, lst, lerr, sent, err>>

(* The error goes to start if it is waiting for it, and is dropped if not. *)
Return(g) ==
    /\ run[g] = "return"
    /\ Pc(g, "over")
    /\ main' = IF main # "wait" \/ start # g \/ err[g] = "canceled" THEN main
               ELSE Outcome(err[g])
    /\ UNCHANGED <<start, stopFunc, stopped, awaited, cause, closeAll, closed, lst, lerr, sent, err>>
-----------------------------------------------------------------------------
(* Listener l of start g. *)

ListenOK(g, l) ==
    /\ lst[g][l] = "listen"
    /\ Listener(g, l, "register")
    /\ UNCHANGED <<mainVars, run, cause, closeAll, closed, lerr, sent, err>>

Fails(g, l, e) ==
    /\ Listener(g, l, "cancel")
    /\ lerr' = [lerr EXCEPT ![g][l] = e]
    /\ UNCHANGED <<mainVars, run, cause, closeAll, closed, sent, err>>

ListenFails(g, l) ==
    /\ lst[g][l] = "listen"
    /\ \/ \E e \in {"unreachable", "other"} : Fails(g, l, e)
       \/ cause[g] # None /\ Fails(g, l, "canceled")     \* resolving the address

Register_LostUpdate(g, l) ==    \* mutant: the append overwrites the others'
    /\ lst[g][l] = "register"
    /\ Listener(g, l, "serve")
    /\ closeAll' = [closeAll EXCEPT ![g] = {l}]
    /\ UNCHANGED <<mainVars, run, cause, closed, lerr, sent, err>>

Register(g, l) ==
    /\ lst[g][l] = "register"
    /\ Listener(g, l, "serve")
    /\ closeAll' = [closeAll EXCEPT ![g] = @ \cup {l}]
    /\ UNCHANGED <<mainVars, run, cause, closed, lerr, sent, err>>

ServeFails(g, l) == lst[g][l] = "serve" /\ l \notin closed[g] /\ Fails(g, l, "other")
ServeClosed(g, l) == lst[g][l] = "serve" /\ l \in closed[g] /\ Fails(g, l, "closed")

Cancel_Forgotten(g, l) ==       \* mutant: a listener that fails ends alone
    /\ lst[g][l] = "cancel"
    /\ Listener(g, l, "send")
    /\ UNCHANGED <<mainVars, run, cause, closeAll, closed, lerr, sent, err>>

Cancel(g, l) ==
    /\ lst[g][l] = "cancel"
    /\ Listener(g, l, "send")
    /\ CancelCtx(g, lerr[g][l])
    /\ UNCHANGED <<mainVars, run, closeAll, closed, lerr, sent, err>>

Send(g, l) ==
    /\ lst[g][l] = "send"
    /\ Listener(g, l, "end")
    /\ SendErr(g, l, lerr[g][l])
    /\ UNCHANGED <<mainVars, run, cause, closeAll, closed, lerr>>

Main == Spawn \/ Select \/ Started \/ StartedRace \/ Retry \/ AwaitStopped \/ StopReturns
Goroutine(g) ==
    \/ Arm(g) \/ ListenAndServe(g) \/ CtxDone(g) \/ CloseAll(g) \/ Collect(g) \/ Return(g)
Listening(g, l) ==
    ListenOK(g, l) \/ Register(g, l) \/ ServeClosed(g, l) \/ Cancel(g, l) \/ Send(g, l)

Next ==
    \/ Main \/ Stop \/ StopIgnored
    \/ \E g \in Starts :
          \/ Goroutine(g)
          \/ \E l \in Listeners : Listening(g, l) \/ ListenFails(g, l) \/ ServeFails(g, l)

Spec == Init /\ [][Next]_vars

(* Goroutines are scheduled, timers fire, and listening on an address and    *)
(* reading from a closed socket return.                                      *)
Fairness ==
    /\ WF_vars(Main)
    /\ \A g \in Starts :
          /\ WF_vars(Goroutine(g))
          /\ \A l \in Listeners : WF_vars(Listening(g, l) \/ ListenFails(g, l))
FairSpec == Spec /\ Fairness
-----------------------------------------------------------------------------
ListenErrors == {"unreachable", "other", "closed", "canceled"}
TypeOK ==
    /\ main \in {"start", "spawned", "wait", "backoff", "failed", "up", "ignored",
                 "stop", "stopping", "stopped"}
    /\ start \in 0..MaxStarts
    /\ stopFunc \in 0..start /\ stopped \in 0..start /\ awaited \in 0..start
    /\ run \in [Starts -> {"none", "new", "armed", "serve", "close", "collect",
                           "return", "over"}]
    /\ cause \in [Starts -> ListenErrors \cup {"stop", None}]
    /\ closeAll \in [Starts -> SUBSET Listeners]
    /\ closed \in [Starts -> SUBSET Listeners]
    /\ \A g \in Starts : closed[g] \subseteq closeAll[g]
    /\ lst \in [Starts -> [Listeners -> {"none", "listen", "register", "serve",
                                         "cancel", "send", "end"}]]
    /\ lerr \in [Starts -> [Listeners -> ListenErrors \cup {None}]]
    /\ sent \in [Starts -> SUBSET (Listeners \cup {None})]
    /\ err \in [Starts -> ListenErrors \cup {None}]

Active(g) == \E l \in Listeners : lst[g][l] \notin {"none", "end"}

(* A start is retried only when every listener of the one before is over:    *)
(* the listeners of two starts never compete for the addresses               *)
(* (run.go:89-115, proxy.go:153-161).                                        *)
OneAttempt == \A g, h \in Starts : Active(g) /\ Active(h) => g = h

(* OnStopped is called when no listener is left, of any start (run.go:52,    *)
(* "once the daemon is full stopped"), if the channel Stop waits for is that *)
(* of the last start.  It is not if Stop comes before the goroutine of that  *)
(* start, 5 seconds old, has run.                                            *)
FullyStopped == main = "stopped" /\ awaited = start => \A g \in Starts : ~Active(g)

(* The error ListenAndServe returns is one a listener ended with, and the    *)
(* cancellation that the first error causes never hides it                   *)
(* (proxy.go:155-160): otherwise a start on an unreachable network would not *)
(* be retried.                                                               *)
ErrorKept ==
    \A g \in Starts : run[g] \in {"return", "over"} /\ Listeners # {} =>
        /\ \E l \in Listeners : err[g] = lerr[g][l]
        /\ err[g] = "canceled" => \A l \in Listeners : lerr[g][l] = "canceled"

(* When a listener ends after all have registered their sockets, the others  *)
(* are closed and ListenAndServe returns: the proxy never goes on with some  *)
(* of its listeners (proxy.go:113, 131, 150-152).                            *)
AllOrNone ==
    \A g \in Starts :
        /\ run[g] = "serve"
        /\ \A l \in Listeners : lst[g][l] \notin {"none", "listen", "register"}
        /\ \E l \in Listeners : lst[g][l] # "serve"
        ~> run[g] = "over"

(* Stop returns when it has cancelled a start whose listeners all serve.     *)
StopEnds ==
    /\ main = "stop" /\ cause[start] = "stop" /\ run[start] = "serve"
    /\ \A l \in Listeners : lst[start][l] = "serve"
    ~> main = "stopped"

(* When its context is canceled ListenAndServe returns (proxy.go:76-78).     *)
ListenReturns == \A g \in Starts : cause[g] # None /\ run[g] = "serve" ~> run[g] = "over"
=============================================================================
