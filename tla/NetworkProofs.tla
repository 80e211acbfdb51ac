---------------------------- MODULE NetworkProofs ----------------------------
(***************************************************************************)
(* What the daemon follows around it: ReceiversKnow of NetStatus for any   *)
(* number of receivers and of changes, FileFollowed and LatestHeard of     *)
(* Neighbours for any lookups, hosts and maximum.  The control socket      *)
(* implements RemoteCall, for any number of clients, callers and commands. *)
(* They keep to their types, and so do the lookups of NameLookup.          *)
(***************************************************************************)
EXTENDS MCNetwork, SequenceTheorems, FiniteSetTheorems, TLAPS

-----------------------------------------------------------------------------
(* The control socket: each step of Control is one of RemoteCall or changes  *)
(* nothing its callers see.  That a call ends is a matter of fairness and is *)
(* left to the model checker.                                                *)

Serving == {"lock", "run", "relock", "write"}
Requests == [name : Commands, of : Callers, n : Nat]
Replies == [reply : {TRUE}, name : Commands, of : Callers, n : Nat]
Messages == Replies \cup [reply : {FALSE}]
Handlers == [at : Serving \cup {"none", "add", "reading", "remove", "gone"}, req : Requests \cup {<<>>}]
Calls == [at : {"idle", "write", "wait"}, name : Commands \cup {""}, n : Nat, got : Int]

Shape ==
    /\ conn \in [Clients -> {"none", "open", "client", "server"}]
    /\ up \in [Clients -> Seq(Requests)]
    /\ down \in [Clients -> Seq(Messages)]
    /\ replies \in [Clients -> Seq(Replies)]
    /\ telling \subseteq Clients /\ listed \subseteq Clients
    /\ handler \in [Clients -> Handlers]
    /\ \A c \in Clients : handler[c].at \in Serving => handler[c].req \in Requests
    /\ cmu \in [Clients -> Callers \cup {"nobody"}]
    /\ loop \in [Clients -> {"run", "ended"}]
    /\ call \in [Callers -> Calls]
    /\ ran \in [Callers -> Nat]

(* One call of a client is under way: the one that holds the mutex.  Its    *)
(* command has not been run while its request is still to be written.       *)
OneCall ==
    /\ \A s \in Callers : call[s].at # "idle" =>
         cmu[ClientOf[s]] = s /\ conn[ClientOf[s]] # "none" /\ call[s].name \in Commands
    /\ \A s \in Callers : call[s].at = "write" => ran[s] = 0
    /\ \A s \in Callers : call[s].at = "wait" => ran[s] \in {0, 1}
    /\ \A c \in Clients : loop[c] = "ended" => conn[c] # "open"

(* A message of connection c is for the call that waits there, and the      *)
(* command of that call has run k times.  Only on a closed connection it    *)
(* may be left over from a call that has failed.                            *)
Fits(c, t, k) ==
    /\ ClientOf[t.of] = c /\ conn[c] # "none"
    /\ t.n <= call[t.of].n
    /\ t.n = call[t.of].n => call[t.of].at # "write"
    /\ conn[c] = "open" => call[t.of].at = "wait"
    /\ \A s \in Callers : ClientOf[s] = c /\ call[s].at = "wait" =>
         t.of = s /\ t.n = call[s].n /\ t.name = call[s].name /\ ran[s] = k

(* The places where the request of a call or its reply may be.              *)
Requested(c) == up[c] # <<>>
Served1(c) == handler[c].at \in Serving
Replied(c) == \E i \in 1 .. Len(down[c]) : down[c][i].reply
Delivered(c) == replies[c] # <<>>

Fitting(c) ==
    /\ Requested(c) => Fits(c, up[c][1], 0)
    /\ handler[c].at \in {"lock", "run"} => Fits(c, handler[c].req, 0)
    /\ handler[c].at \in {"relock", "write"} => Fits(c, handler[c].req, 1)
    /\ \A i \in 1 .. Len(down[c]) : down[c][i].reply => Fits(c, down[c][i], 1)
    /\ Delivered(c) => Fits(c, replies[c][1], 1)

OneMessage(c) ==
    /\ Len(up[c]) <= 1 /\ Len(replies[c]) <= 1
    /\ Requested(c) => ~Served1(c) /\ ~Replied(c) /\ ~Delivered(c)
    /\ Served1(c) => ~Replied(c) /\ ~Delivered(c)
    /\ Replied(c) => ~Delivered(c)
    /\ \A i, j \in 1 .. Len(down[c]) : down[c][i].reply /\ down[c][j].reply => i = j

OnConnection(c) == Fitting(c) /\ OneMessage(c)

Inv == Shape /\ OneCall /\ \A c \in Clients : OnConnection(c)
-----------------------------------------------------------------------------
LEMMA InitInv == ControlInit => Inv
<1> SUFFICES ASSUME ControlInit PROVE Inv
  OBVIOUS
<1>1. Shape
  <2>1. /\ conn \in [Clients -> {"none", "open", "client", "server"}]
        /\ telling \subseteq Clients /\ listed \subseteq Clients
        /\ cmu \in [Clients -> Callers \cup {"nobody"}]
        /\ loop \in [Clients -> {"run", "ended"}]
        /\ ran \in [Callers -> Nat]
    BY DEF ControlInit
  <2>2. /\ up \in [Clients -> Seq(Requests)]
        /\ down \in [Clients -> Seq(Messages)]
        /\ replies \in [Clients -> Seq(Replies)]
    <3>1. <<>> \in Seq(Requests) /\ <<>> \in Seq(Messages) /\ <<>> \in Seq(Replies)
      BY EmptySeq
    <3> QED
      BY <3>1, Zenon DEF ControlInit
  <2>3. handler \in [Clients -> Handlers]
    BY DEF ControlInit, Handlers
  <2>4. \A c \in Clients : handler[c].at \notin Serving
    BY DEF ControlInit, Serving
  <2>5. call \in [Callers -> Calls]
    <3> DEFINE none == [at |-> "idle", name |-> "", n |-> 0, got |-> 0]
    <3>1. none \in Calls
      BY DEF Calls
    <3> QED
      BY <3>1, Zenon DEF ControlInit
  <2> QED
    BY <2>1, <2>2, <2>3, <2>4, <2>5 DEF Shape
<1>2. OneCall
  BY DEF ControlInit, OneCall
<1>3. ASSUME NEW c \in Clients PROVE OnConnection(c)
  <2>1. up[c] = <<>> /\ down[c] = <<>> /\ replies[c] = <<>> /\ handler[c].at = "none"
    BY DEF ControlInit
  <2>2. Len(up[c]) = 0 /\ Len(down[c]) = 0 /\ Len(replies[c]) = 0
    BY <2>1
  <2> QED
    BY <2>1, <2>2 DEF OnConnection, Fitting, OneMessage, Requested, Served1, Replied, Delivered, Serving
<1> QED
  BY <1>1, <1>2, <1>3 DEF Inv

(* What is sent on a connection, and read from it.                          *)
LEMMA Appended ==
    ASSUME NEW S, NEW s \in Seq(S), NEW e \in S
    PROVE  /\ Append(s, e) \in Seq(S) /\ Append(s, e) # <<>>
           /\ Len(Append(s, e)) = Len(s) + 1
           /\ \A i \in 1 .. Len(s) : Append(s, e)[i] = s[i]
           /\ Append(s, e)[Len(s) + 1] = e
BY AppendProperties

LEMMA Taken ==
    ASSUME NEW S, NEW s \in Seq(S), s # <<>>
    PROVE  /\ Head(s) = s[1] /\ s[1] \in S /\ Len(s) >= 1
           /\ Tail(s) \in Seq(S) /\ Len(Tail(s)) = Len(s) - 1
           /\ \A i \in 1 .. Len(Tail(s)) : Tail(s)[i] = s[i + 1]
           /\ Len(s) <= 1 => Tail(s) = <<>>
<1>1. Len(s) # 0
  BY EmptySeq
<1>2. Len(s) \in Nat
  OBVIOUS
<1>3. Head(s) = s[1] /\ s[1] \in S /\ Len(s) >= 1
  BY <1>1, <1>2, HeadTailProperties
<1>4. Tail(s) \in Seq(S) /\ Len(Tail(s)) = Len(s) - 1
  BY <1>1, HeadTailProperties
<1>5. \A i \in 1 .. Len(Tail(s)) : Tail(s)[i] = s[i + 1]
  BY <1>1, HeadTailProperties
<1>6. Len(s) <= 1 => Tail(s) = <<>>
  <2> SUFFICES ASSUME Len(s) <= 1 PROVE Tail(s) = <<>>
    OBVIOUS
  <2>1. Len(Tail(s)) = 0
    BY <1>1, <1>2, <1>4
  <2> QED
    BY <2>1, <1>4, EmptySeq
<1> QED
  BY <1>3, <1>4, <1>5, <1>6

LEMMA Places ==
    ASSUME Shape, NEW c \in Clients
    PROVE  /\ Requested(c) => up[c][1] \in Requests
           /\ Served1(c) => handler[c].req \in Requests
           /\ \A i \in 1 .. Len(down[c]) : down[c][i].reply => down[c][i] \in Replies
           /\ Delivered(c) => replies[c][1] \in Replies
<1>1. up[c] \in Seq(Requests) /\ down[c] \in Seq(Messages) /\ replies[c] \in Seq(Replies)
  BY DEF Shape
<1>2. ASSUME NEW i \in 1 .. Len(down[c]), down[c][i].reply PROVE down[c][i] \in Replies
  <2>1. down[c][i] \in Messages
    BY <1>1, ElementOfSeq
  <2> QED
    BY <2>1, <1>2 DEF Messages
<1> QED
  BY <1>1, <1>2, Taken DEF Requested, Served1, Delivered, Shape

(* A step that moves no message of c and leaves every one fitting.          *)
LEMMA NothingMoves ==
    ASSUME Inv, NEW c \in Clients,
           up'[c] = up[c], down'[c] = down[c], replies'[c] = replies[c], handler'[c] = handler[c],
           \A t \in Requests \cup Replies, k \in {0, 1} : Fits(c, t, k) => Fits(c, t, k)'
    PROVE  OnConnection(c)'
<1>1. OnConnection(c) /\ Shape
  BY DEF Inv
<1>2. OneMessage(c)'
  BY <1>1 DEF OnConnection, OneMessage, Requested, Served1, Replied, Delivered
<1>3. Fitting(c)'
  <2>1. Requested(c) => Fits(c, up[c][1], 0)'
    BY <1>1, Places DEF OnConnection, Fitting
  <2>2. handler[c].at \in {"lock", "run"} => Fits(c, handler[c].req, 0)'
    BY <1>1, Places DEF OnConnection, Fitting, Served1, Serving
  <2>3. handler[c].at \in {"relock", "write"} => Fits(c, handler[c].req, 1)'
    BY <1>1, Places DEF OnConnection, Fitting, Served1, Serving
  <2>4. \A i \in 1 .. Len(down[c]) : down[c][i].reply => Fits(c, down[c][i], 1)'
    BY <1>1, Places DEF OnConnection, Fitting
  <2>5. Delivered(c) => Fits(c, replies[c][1], 1)'
    BY <1>1, Places DEF OnConnection, Fitting
  <2>6. (Requested(c) => Fits(c, up[c][1], 0))' /\ (Delivered(c) => Fits(c, replies[c][1], 1))'
    BY <2>1, <2>5 DEF Requested, Delivered, Fits
  <2>7. (handler[c].at \in {"lock", "run"} => Fits(c, handler[c].req, 0))'
    BY <2>2 DEF Fits
  <2>8. (handler[c].at \in {"relock", "write"} => Fits(c, handler[c].req, 1))'
    BY <2>3 DEF Fits
  <2>9. (\A i \in 1 .. Len(down[c]) : down[c][i].reply => Fits(c, down[c][i], 1))'
    BY <2>4 DEF Fits
  <2> QED
    BY <2>6, <2>7, <2>8, <2>9 DEF Fitting
<1> QED
  BY <1>2, <1>3 DEF OnConnection

(* So does a step that is about another client, or only closes c.            *)
LEMMA Elsewhere ==
    ASSUME Inv, NEW c \in Clients,
           up'[c] = up[c], down'[c] = down[c], replies'[c] = replies[c], handler'[c] = handler[c],
           conn'[c] = "open" => conn[c] = "open", conn'[c] = "none" => conn[c] = "none",
           \A s \in Callers : ClientOf[s] = c => call'[s] = call[s] /\ ran'[s] = ran[s]
    PROVE  OnConnection(c)'
<1>1. ASSUME NEW t \in Requests \cup Replies, NEW k \in {0, 1}, Fits(c, t, k) PROVE Fits(c, t, k)'
  <2>1. t.of \in Callers
    BY DEF Requests, Replies
  <2>2. ClientOf[t.of] = c
    BY <1>1 DEF Fits
  <2> QED
    BY <1>1, <2>1, <2>2 DEF Fits
<1> QED
  BY <1>1, NothingMoves
-----------------------------------------------------------------------------
(* Shape and OneCall step by step; OnConnection comes after them.           *)
LEMMA ServedShape ==
    ASSUME Shape, NEW req \in Requests, Served(req)
    PROVE  ran' \in [Callers -> Nat] /\ req.of \in Callers
           /\ (\A s \in Callers : s # req.of => ran'[s] = ran[s])
           /\ ran'[req.of] = IF call[req.of].n = req.n THEN ran[req.of] + 1 ELSE ran[req.of]
BY DEF Shape, Served, Requests

LEMMA CallFields ==
    ASSUME NEW x \in Calls
    PROVE  x.at \in {"idle", "write", "wait"} /\ x.n \in Nat /\ x.n + 1 \in Nat /\ x.got \in Int
<1>1. x.at \in {"idle", "write", "wait"} /\ x.got \in Int
  BY DEF Calls
<1>2. x.n \in Nat
  BY DEF Calls
<1>3. x.n + 1 \in Nat
  BY <1>2
<1> QED
  BY <1>1, <1>2, <1>3

LEMMA NowWaits ==
    ASSUME Shape, NEW s \in Callers, call' = [call EXCEPT ![s].at = "wait"]
    PROVE  /\ call'[s].at = "wait" /\ call'[s].name = call[s].name
           /\ call'[s].n = call[s].n /\ call'[s].got = call[s].got
           /\ \A t \in Callers : t # s => call'[t] = call[t]
<1>1. call[s] \in Calls
  BY DEF Shape
<1>2. ASSUME NEW r \in Calls
      PROVE  [r EXCEPT !.at = "wait"].at = "wait" /\ [r EXCEPT !.at = "wait"].name = r.name
             /\ [r EXCEPT !.at = "wait"].n = r.n /\ [r EXCEPT !.at = "wait"].got = r.got
  BY DEF Calls
<1>3. call'[s] = [call[s] EXCEPT !.at = "wait"]
  BY DEF Shape
<1>4. ASSUME NEW t \in Callers, t # s PROVE call'[t] = call[t]
  BY <1>4 DEF Shape
<1> QED
  BY <1>1, <1>2, <1>3, <1>4

LEMMA ReturnShape ==
    ASSUME Shape, NEW s \in Callers, NEW got \in Int, Return(s, got)
    PROVE  call' \in [Callers -> Calls] /\ cmu' \in [Clients -> Callers \cup {"nobody"}]
<1>1. ClientOf[s] \in Clients
  BY ControlAssumption DEF ControlAssumption
<1> QED
  BY <1>1 DEF Shape, Return, Calls

(* A handler goes on to another place in its loop.                          *)
LEMMA HandlerGoes ==
    ASSUME Shape, NEW c \in Clients, NEW at \in Serving \cup {"none", "add", "reading", "remove", "gone"},
           handler' = [handler EXCEPT ![c].at = at], at \in Serving => handler[c].req \in Requests
    PROVE  /\ handler' \in [Clients -> Handlers]
           /\ \A d \in Clients : handler'[d].at \in Serving => handler'[d].req \in Requests
<1> PICK h \in Handlers : h = handler[c]
  BY DEF Shape
<1> PICK g : g = [h EXCEPT !.at = at]
  OBVIOUS
<1>1. g \in Handlers /\ g.at = at /\ g.req = h.req
  BY DEF Handlers
<1>2. handler' = [handler EXCEPT ![c] = g]
  OBVIOUS
<1> QED
  BY <1>1, <1>2 DEF Shape

LEMMA StepShape == Shape /\ OneCall /\ [ControlNext]_cvars => Shape'
<1> SUFFICES ASSUME Shape, OneCall, [ControlNext]_cvars PROVE Shape'
  OBVIOUS
<1> USE DEF server, client
<1>1. ASSUME NEW c \in Clients, Connect(c) PROVE Shape'
  <2>1. /\ handler' \in [Clients -> Handlers]
        /\ \A d \in Clients : handler'[d].at \in Serving => handler'[d].req \in Requests
    BY <1>1, HandlerGoes DEF Connect, Serving
  <2> QED
    BY <1>1, <2>1 DEF Connect, Shape
<1>2. ASSUME NEW c \in Clients, AddClient(c) PROVE Shape'
  BY <1>2 DEF AddClient, Shape, Serving, Handlers
<1>3. ASSUME NEW c \in Clients, Decode(c) PROVE Shape'
  <2>1. CASE up[c] # <<>> /\ handler' = [handler EXCEPT ![c] = [at |-> "lock", req |-> Head(up[c])]]
                          /\ up' = [up EXCEPT ![c] = Tail(@)]
    <3>1. up[c] \in Seq(Requests)
      BY DEF Shape
    <3>2. Head(up[c]) \in Requests /\ Tail(up[c]) \in Seq(Requests)
      BY <2>1, <3>1, Taken
    <3>3. up' \in [Clients -> Seq(Requests)]
      BY <2>1, <3>2 DEF Shape
    <3> QED
      BY <1>3, <2>1, <3>2, <3>3 DEF Decode, Shape, Serving, Handlers
  <2>2. CASE handler' = [handler EXCEPT ![c].at = "remove"] /\ UNCHANGED up
    BY <1>3, <2>2 DEF Decode, Shape, Serving, Handlers
  <2> QED
    BY <1>3, <2>1, <2>2 DEF Decode
<1>4. ASSUME NEW c \in Clients, Handle(c) PROVE Shape'
  <2>1. handler[c].req \in Requests /\ handler[c].req.of \in Callers
    BY <1>4 DEF Handle, Shape, Serving, Requests
  <2>2. ran' \in [Callers -> Nat]
    BY <1>4, <2>1, ServedShape DEF Handle, Shape
  <2>3. PICK at \in {"run", "write"} : handler' = [handler EXCEPT ![c].at = at]
    BY <1>4 DEF Handle
  <2>4. /\ handler' \in [Clients -> Handlers]
        /\ \A d \in Clients : handler'[d].at \in Serving => handler'[d].req \in Requests
    BY <2>1, <2>3, HandlerGoes DEF Serving
  <2>5. UNCHANGED <<conn, up, down, replies, telling, listed, cmu, loop, call>>
    BY <1>4 DEF Handle
  <2> QED
    BY <2>2, <2>4, <2>5 DEF Shape
<1>5. ASSUME NEW c \in Clients, RunCommand(c) PROVE Shape'
  <2>1. handler[c].req \in Requests /\ handler[c].req.of \in Callers
    BY <1>5 DEF RunCommand, Shape, Serving, Requests
  <2>2. ran' \in [Callers -> Nat]
    BY <1>5, <2>1, ServedShape DEF RunCommand, Shape
  <2> QED
    BY <1>5, <2>1, <2>2 DEF RunCommand, Shape, Serving, Handlers
<1>6. ASSUME NEW c \in Clients, Relock(c) PROVE Shape'
  BY <1>6 DEF Relock, Shape, Serving, Handlers
<1>7. ASSUME NEW c \in Clients, WriteReply(c) PROVE Shape'
  <2>1. handler[c].req \in Requests /\ down[c] \in Seq(Messages)
    BY <1>7 DEF WriteReply, Shape, Serving, Handlers
  <2>2. ReplyTo(handler[c].req) \in Messages
    BY <2>1 DEF ReplyTo, Requests, Replies, Messages
  <2>3. Append(down[c], ReplyTo(handler[c].req)) \in Seq(Messages)
    BY <2>1, <2>2, Appended
  <2>4. down' \in [Clients -> Seq(Messages)]
    BY <1>7, <2>3 DEF WriteReply, Written, Shape
  <2> QED
    BY <1>7, <2>4 DEF WriteReply, Shape, Serving, Handlers
<1>8. ASSUME NEW c \in Clients, RemoveClient(c) PROVE Shape'
  BY <1>8 DEF RemoveClient, Shape, Serving, Handlers
<1>9. CASE Broadcast
  BY <1>9 DEF Broadcast, Shape, Serving, Handlers
<1>10. CASE Tell
  <2>1. ASSUME NEW c \in telling, Written(c, Event), telling' = telling \ {c} PROVE Shape'
    <3>1. c \in Clients /\ down[c] \in Seq(Messages) /\ Event \in Messages
      BY DEF Shape, Event, Messages
    <3>2. Append(down[c], Event) \in Seq(Messages)
      BY <3>1, Appended
    <3>3. down' \in [Clients -> Seq(Messages)]
      BY <2>1, <3>2 DEF Written, Shape
    <3> QED
      BY <1>10, <2>1, <3>3 DEF Tell, Shape, Serving, Handlers
  <2>2. CASE telling = {}
    BY <1>10, <2>2 DEF Tell, Shape, Serving, Handlers
  <2> QED
    BY <1>10, <2>1, <2>2 DEF Tell
<1>11. CASE Stop
  BY <1>11 DEF Stop, Shape, Serving, Handlers
<1>12. CASE Exit
  BY <1>12 DEF Exit, Shape, Serving, Handlers
<1>13. ASSUME NEW s \in Callers, LockClient(s) PROVE Shape'
  <2>1. ClientOf[s] \in Clients
    BY ControlAssumption DEF ControlAssumption
  <2>2. call' \in [Callers -> Calls]
    <3>1. call[s].n + 1 \in Nat /\ call[s].got \in Int
      BY CallFields DEF Shape
    <3>2. ASSUME NEW name \in Commands
          PROVE  [at |-> "write", name |-> name, n |-> call[s].n + 1, got |-> call[s].got] \in Calls
      BY <3>1 DEF Calls
    <3> QED
      BY <1>13, <3>2 DEF LockClient, Shape
  <2>3. ran' \in [Callers -> Nat] /\ cmu' \in [Clients -> Callers \cup {"nobody"}]
    BY <1>13, <2>1 DEF LockClient, Shape
  <2>4. UNCHANGED <<conn, up, down, replies, telling, listed, handler, loop>>
    BY <1>13 DEF LockClient
  <2> QED
    BY <2>2, <2>3, <2>4 DEF Shape
<1>14. ASSUME NEW s \in Callers, WriteRequest(s) PROVE Shape'
  <2>1. ClientOf[s] \in Clients /\ up[ClientOf[s]] \in Seq(Requests)
    BY ControlAssumption DEF ControlAssumption, Shape
  <2>2. Request(s) \in Requests
    <3>1. call[s] \in Calls /\ call[s].name \in Commands
      BY <1>14 DEF WriteRequest, Shape, OneCall
    <3> QED
      BY <3>1 DEF Request, Requests, Calls
  <2>3. Append(up[ClientOf[s]], Request(s)) \in Seq(Requests)
    BY <2>1, <2>2, Appended
  <2>4. CASE conn[ClientOf[s]] = "open"
    <3>1. up' \in [Clients -> Seq(Requests)]
      BY <1>14, <2>3, <2>4 DEF WriteRequest, Shape
    <3>2. call' \in [Callers -> Calls]
      <4>1. call' = [call EXCEPT ![s].at = "wait"]
        BY <1>14, <2>4 DEF WriteRequest
      <4> QED
        BY <4>1 DEF Shape, Calls
    <3>3. UNCHANGED <<conn, down, replies, telling, listed, handler, cmu, loop, ran>>
      BY <1>14, <2>4 DEF WriteRequest
    <3> QED
      BY <3>1, <3>2, <3>3 DEF Shape
  <2>5. CASE conn[ClientOf[s]] # "open"
    <3>1. UNCHANGED <<conn, up, down, replies, telling, listed, handler, loop, ran>>
      BY <1>14, <2>5 DEF WriteRequest
    <3>2. Return(s, 0)
      BY <1>14, <2>5 DEF WriteRequest
    <3> QED
      BY <3>1, <3>2, ReturnShape DEF Shape
  <2> QED
    BY <2>4, <2>5
<1>15. ASSUME NEW s \in Callers, Receive(s) PROVE Shape'
  <2>1. ClientOf[s] \in Clients /\ replies[ClientOf[s]] \in Seq(Replies)
    BY ControlAssumption DEF ControlAssumption, Shape
  <2>2. Head(replies[ClientOf[s]]) \in Replies /\ Tail(replies[ClientOf[s]]) \in Seq(Replies)
    BY <1>15, <2>1, Taken DEF Receive
  <2>3. replies' \in [Clients -> Seq(Replies)]
    BY <1>15, <2>2 DEF Receive, Shape
  <2>4. CASE Mine(s, Head(replies[ClientOf[s]]))
    <3> DEFINE got == Head(replies[ClientOf[s]])
    <3>1. ASSUME NEW e \in Replies PROVE e.n \in Int
      BY DEF Replies
    <3>2. \E n \in Int : Return(s, n)
      <4>1. got.n \in Int /\ 0 - 1 \in Int
        BY <2>2, <3>1
      <4>2. Return(s, IF got.of = s THEN got.n ELSE 0 - 1)
        BY <1>15, <2>4 DEF Receive
      <4> HIDE DEF got
      <4> QED
        BY <4>1, <4>2
    <3>3. UNCHANGED <<conn, up, down, telling, listed, handler, loop, ran>>
      BY <1>15 DEF Receive, server
    <3> QED
      BY <2>3, <3>2, <3>3, ReturnShape DEF Shape
  <2>5. CASE ~Mine(s, Head(replies[ClientOf[s]]))
    BY <1>15, <2>3, <2>5 DEF Receive, Shape, Serving, Handlers
  <2> QED
    BY <2>4, <2>5
<1>16. ASSUME NEW s \in Callers, Closed(s) PROVE Shape'
  BY <1>16, ReturnShape DEF Closed, Shape
<1>17. ASSUME NEW c \in Clients, ReadLoop(c) PROVE Shape'
  <2>1. CASE loop' = [loop EXCEPT ![c] = "ended"] /\ UNCHANGED <<conn, down, replies>>
    BY <1>17, <2>1 DEF ReadLoop, Shape, Serving, Handlers
  <2>2. ASSUME down[c] # <<>>, down' = [down EXCEPT ![c] = Tail(@)], UNCHANGED <<conn, loop>>,
               replies' = [replies EXCEPT ![c] =
                             IF Head(down[c]).reply /\ Len(@) < RepliesSize THEN Append(@, Head(down[c])) ELSE @]
        PROVE  Shape'
    <3>1. down[c] \in Seq(Messages) /\ replies[c] \in Seq(Replies)
      BY DEF Shape
    <3>2. Head(down[c]) \in Messages /\ Tail(down[c]) \in Seq(Messages)
      BY <2>2, <3>1, Taken
    <3>3. Head(down[c]).reply => Append(replies[c], Head(down[c])) \in Seq(Replies)
      <4>1. Head(down[c]).reply => Head(down[c]) \in Replies
        BY <3>2 DEF Messages
      <4> QED
        BY <3>1, <4>1, Appended
    <3>4. down' \in [Clients -> Seq(Messages)] /\ replies' \in [Clients -> Seq(Replies)]
      BY <2>2, <3>2, <3>3 DEF Shape
    <3> QED
      BY <1>17, <2>2, <3>4 DEF ReadLoop, Shape, Serving, Handlers
  <2> QED
    BY <1>17, <2>1, <2>2 DEF ReadLoop
<1>18. ASSUME NEW c \in Clients, CloseClient(c) PROVE Shape'
  BY <1>18 DEF CloseClient, Shape, Serving, Handlers
<1>19. CASE UNCHANGED cvars
  BY <1>19 DEF cvars, Shape, Serving, Handlers
<1> QED
  BY <1>1, <1>2, <1>3, <1>4, <1>5, <1>6, <1>7, <1>8, <1>9, <1>10, <1>11, <1>12, <1>13, <1>14,
     <1>15, <1>16, <1>17, <1>18, <1>19 DEF ControlNext, HandlerStep, CallStep

(* A command that is run counts for the call that waits for it, if any.     *)
LEMMA ServedCounts ==
    ASSUME Inv, NEW c \in Clients, NEW req \in Requests, Fits(c, req, 0), Served(req)
    PROVE  /\ \A s \in Callers : ClientOf[s] = c /\ call[s].at = "wait" =>
                s = req.of /\ ran[s] = 0 /\ ran'[s] = 1
           /\ \A s \in Callers : call[s].at = "write" => ran'[s] = ran[s]
           /\ \A s \in Callers : ClientOf[s] # c => ran'[s] = ran[s]
<1>1. /\ req.of \in Callers
      /\ \A s \in Callers : s # req.of => ran'[s] = ran[s]
      /\ ran'[req.of] = IF call[req.of].n = req.n THEN ran[req.of] + 1 ELSE ran[req.of]
  BY ServedShape DEF Inv
<1>2. ASSUME NEW s \in Callers, ClientOf[s] = c, call[s].at = "wait"
      PROVE  s = req.of /\ ran[s] = 0 /\ ran'[s] = 1
  BY <1>1, <1>2 DEF Fits
<1>3. ASSUME NEW s \in Callers, call[s].at = "write" PROVE ran'[s] = ran[s]
  BY <1>1, <1>3 DEF Fits
<1>4. ASSUME NEW s \in Callers, ClientOf[s] # c PROVE ran'[s] = ran[s]
  BY <1>1, <1>4 DEF Fits
<1> QED
  BY <1>2, <1>3, <1>4

LEMMA RequestFits ==
    ASSUME Inv, NEW c \in Clients, Handle(c) \/ RunCommand(c)
    PROVE  handler[c].req \in Requests /\ Fits(c, handler[c].req, 0)
BY DEF Inv, Shape, OnConnection, Fitting, Handle, RunCommand, Serving

LEMMA StepOneCall == Inv /\ [ControlNext]_cvars => OneCall'
<1> SUFFICES ASSUME Inv, [ControlNext]_cvars PROVE OneCall'
  OBVIOUS
<1>0. OneCall /\ Shape /\ Shape'
  BY StepShape DEF Inv
<1> USE ControlAssumption DEF ControlAssumption, server, client
<1>1. ASSUME NEW c \in Clients, Connect(c) PROVE OneCall'
  BY <1>0, <1>1 DEF Connect, OneCall, Shape
<1>2. ASSUME NEW c \in Clients, Handle(c) PROVE OneCall'
  <2>1. CASE UNCHANGED ran
    BY <1>0, <1>2, <2>1 DEF Handle, OneCall
  <2>2. CASE Served(handler[c].req)
    <3>1. /\ \A s \in Callers : ClientOf[s] = c /\ call[s].at = "wait" => ran'[s] = 1
          /\ \A s \in Callers : call[s].at = "write" => ran'[s] = ran[s]
          /\ \A s \in Callers : ClientOf[s] # c => ran'[s] = ran[s]
      BY <1>2, <2>2, RequestFits, ServedCounts
    <3> QED
      BY <1>0, <1>2, <3>1 DEF Handle, OneCall
  <2> QED
    BY <1>2, <2>1, <2>2 DEF Handle
<1>3. ASSUME NEW c \in Clients, RunCommand(c) PROVE OneCall'
  <2>1. Served(handler[c].req)
    BY <1>3 DEF RunCommand
  <2>2. /\ \A s \in Callers : ClientOf[s] = c /\ call[s].at = "wait" => ran'[s] = 1
        /\ \A s \in Callers : call[s].at = "write" => ran'[s] = ran[s]
        /\ \A s \in Callers : ClientOf[s] # c => ran'[s] = ran[s]
    BY <1>3, <2>1, RequestFits, ServedCounts
  <2> QED
    BY <1>0, <1>3, <2>2 DEF RunCommand, OneCall
<1>4. ASSUME NEW c \in Clients, AddClient(c) \/ Decode(c) \/ Relock(c) \/ WriteReply(c) \/ RemoveClient(c)
      PROVE  OneCall'
  BY <1>0, <1>4 DEF AddClient, Decode, Relock, WriteReply, RemoveClient, OneCall
<1>5. CASE Broadcast \/ Tell \/ Stop
  BY <1>0, <1>5 DEF Broadcast, Tell, Stop, OneCall
<1>6. CASE Exit
  BY <1>0, <1>6 DEF Exit, OneCall, Shape
<1>7. ASSUME NEW s \in Callers, LockClient(s) PROVE OneCall'
  <2>1. PICK name \in Commands :
          call' = [call EXCEPT ![s] = [at |-> "write", name |-> name, n |-> @.n + 1, got |-> @.got]]
    BY <1>7 DEF LockClient
  <2>2. call'[s].at = "write" /\ call'[s].name \in Commands /\ ran'[s] = 0 /\ cmu'[ClientOf[s]] = s
    BY <1>0, <1>7, <2>1 DEF LockClient, Shape
  <2>3. ASSUME NEW t \in Callers, t # s PROVE call'[t] = call[t] /\ ran'[t] = ran[t]
    BY <1>0, <1>7, <2>1, <2>3 DEF LockClient, Shape
  <2>4. ASSUME NEW t \in Callers, t # s, call[t].at # "idle" PROVE cmu'[ClientOf[t]] = t
    BY <1>0, <1>7, <2>4 DEF LockClient, Shape, OneCall
  <2>5. UNCHANGED <<conn, loop>> /\ conn[ClientOf[s]] # "none"
    BY <1>7 DEF LockClient
  <2> QED
    BY <1>0, <2>2, <2>3, <2>4, <2>5 DEF OneCall
<1>8. ASSUME NEW s \in Callers, NEW got \in Int, call[s].at # "idle", Return(s, got),
             UNCHANGED <<conn, loop, ran>>
      PROVE  OneCall'
  <2>1. call'[s].at = "idle"
    BY <1>0, <1>8 DEF Return, Shape
  <2>2. ASSUME NEW t \in Callers, t # s PROVE call'[t] = call[t]
    BY <1>0, <1>8, <2>2 DEF Return, Shape
  <2>3. ASSUME NEW t \in Callers, t # s, call[t].at # "idle"
        PROVE  cmu'[ClientOf[t]] = cmu[ClientOf[t]]
    <3>1. cmu[ClientOf[t]] = t /\ cmu[ClientOf[s]] = s
      BY <1>0, <1>8, <2>3 DEF OneCall
    <3>2. cmu' = [cmu EXCEPT ![ClientOf[s]] = "nobody"]
      BY <1>8 DEF Return
    <3> QED
      BY <1>0, <2>3, <3>1, <3>2 DEF Shape
  <2> QED
    BY <1>0, <1>8, <2>1, <2>2, <2>3 DEF OneCall
<1>9. ASSUME NEW s \in Callers, WriteRequest(s) PROVE OneCall'
  <2>1. CASE conn[ClientOf[s]] = "open"
    <3>1. call' = [call EXCEPT ![s].at = "wait"] /\ call[s].at = "write"
          /\ UNCHANGED <<conn, loop, ran, cmu>>
      BY <1>9, <2>1 DEF WriteRequest
    <3>2. /\ call'[s].at = "wait" /\ call'[s].name = call[s].name
          /\ \A t \in Callers : t # s => call'[t] = call[t]
      BY <1>0, <3>1, NowWaits
    <3> QED
      BY <1>0, <3>1, <3>2 DEF OneCall
  <2>2. CASE conn[ClientOf[s]] # "open"
    <3>1. Return(s, 0) /\ call[s].at # "idle" /\ UNCHANGED <<conn, loop, ran>> /\ 0 \in Int
      BY <1>9, <2>2 DEF WriteRequest
    <3> QED
      BY <3>1, <1>8
  <2> QED
    BY <2>1, <2>2
<1>10. ASSUME NEW s \in Callers, Receive(s) PROVE OneCall'
  <2> DEFINE e == Head(replies[ClientOf[s]])
  <2>1. CASE Mine(s, e)
    <3>1. e \in Replies
      BY <1>0, <1>10, Taken DEF Shape, Receive
    <3>2. ASSUME NEW x \in Replies PROVE x.n \in Int
      BY DEF Replies
    <3>3. (IF e.of = s THEN e.n ELSE 0 - 1) \in Int
      BY <3>1, <3>2
    <3>4. /\ Return(s, IF e.of = s THEN e.n ELSE 0 - 1) /\ call[s].at # "idle"
          /\ UNCHANGED <<conn, loop, ran>>
      BY <1>10, <2>1 DEF Receive
    <3> QED
      BY <3>3, <3>4, <1>8
  <2>2. CASE ~Mine(s, e)
    BY <1>0, <1>10, <2>2 DEF Receive, OneCall
  <2> QED
    BY <2>1, <2>2
<1>11. ASSUME NEW s \in Callers, Closed(s) PROVE OneCall'
  <2>1. Return(s, 0) /\ call[s].at # "idle" /\ UNCHANGED <<conn, loop, ran>> /\ 0 \in Int
    BY <1>11 DEF Closed
  <2> QED
    BY <2>1, <1>8
<1>12. ASSUME NEW c \in Clients, ReadLoop(c) PROVE OneCall'
  <2>1. UNCHANGED <<conn, call, cmu, ran>> /\ (\A d \in Clients : d # c => loop'[d] = loop[d])
    BY <1>0, <1>12 DEF ReadLoop, Shape
  <2>2. loop'[c] = "ended" => conn[c] # "open"
    BY <1>0, <1>12 DEF ReadLoop, Shape, OneCall
  <2> QED
    BY <1>0, <2>1, <2>2 DEF OneCall
<1>13. ASSUME NEW c \in Clients, CloseClient(c) PROVE OneCall'
  BY <1>0, <1>13 DEF CloseClient, OneCall, Shape
<1>14. CASE UNCHANGED cvars
  BY <1>0, <1>14 DEF cvars, OneCall
<1> QED
  BY <1>1, <1>2, <1>3, <1>4, <1>5, <1>6, <1>7, <1>9, <1>10, <1>11, <1>12, <1>13, <1>14
     DEF ControlNext, HandlerStep, CallStep
-----------------------------------------------------------------------------
(* The messages of each connection, step by step.                           *)

(* A step after which nothing of c is being served.                         *)
LEMMA NothingServed ==
    ASSUME Inv, NEW c \in Clients,
           up'[c] = up[c], down'[c] = down[c], replies'[c] = replies[c], handler'[c].at \notin Serving,
           \A t \in Requests \cup Replies, k \in {0, 1} : Fits(c, t, k) => Fits(c, t, k)'
    PROVE  OnConnection(c)'
<1>1. OnConnection(c) /\ Shape
  BY DEF Inv
<1>2. OneMessage(c)'
  BY <1>1 DEF OnConnection, OneMessage, Requested, Served1, Replied, Delivered
<1>3. Fitting(c)'
  <2>1. Requested(c) => Fits(c, up[c][1], 0)'
    BY <1>1, Places DEF OnConnection, Fitting
  <2>2. \A i \in 1 .. Len(down[c]) : down[c][i].reply => Fits(c, down[c][i], 1)'
    BY <1>1, Places DEF OnConnection, Fitting
  <2>3. Delivered(c) => Fits(c, replies[c][1], 1)'
    BY <1>1, Places DEF OnConnection, Fitting
  <2>4. (Requested(c) => Fits(c, up[c][1], 0))' /\ (Delivered(c) => Fits(c, replies[c][1], 1))'
    BY <2>1, <2>3 DEF Requested, Delivered, Fits
  <2>5. (\A i \in 1 .. Len(down[c]) : down[c][i].reply => Fits(c, down[c][i], 1))'
    BY <2>2 DEF Fits
  <2> QED
    BY <2>4, <2>5 DEF Fitting, Serving
<1> QED
  BY <1>2, <1>3 DEF OnConnection

(* What fits goes on fitting when no call changes and c is at most closed.  *)
LEMMA CallsUnchanged ==
    ASSUME NEW c \in Clients, UNCHANGED <<call, ran>>,
           conn'[c] = "open" => conn[c] = "open", conn'[c] = "none" => conn[c] = "none"
    PROVE  \A t \in Requests \cup Replies, k \in {0, 1} : Fits(c, t, k) => Fits(c, t, k)'
BY DEF Fits

(* A call that fails, on a connection that is closed.                       *)
LEMMA FailedCall ==
    ASSUME Inv, NEW s \in Callers, conn[ClientOf[s]] # "open", Return(s, 0),
           UNCHANGED <<up, down, replies, handler, conn, ran>>, NEW c \in Clients
    PROVE  OnConnection(c)'
<1>1. /\ call'[s].at = "idle" /\ call'[s].n = call[s].n
      /\ \A t \in Callers : t # s => call'[t] = call[t]
  BY DEF Return, Inv, Shape
<1>2. ASSUME NEW t \in Requests \cup Replies, NEW k \in {0, 1}, Fits(c, t, k) PROVE Fits(c, t, k)'
  <2>1. t.of \in Callers
    BY DEF Requests, Replies
  <2>2. conn[c] = "open" => t.of # s
    BY <1>2 DEF Fits
  <2> QED
    BY <1>1, <1>2, <2>1, <2>2 DEF Fits
<1> QED
  BY <1>2, NothingMoves

(* While a connection is open its messages belong to the call that waits;   *)
(* so there are none before that call is written.                           *)
LEMMA NobodyWaits ==
    ASSUME Inv, NEW c \in Clients, conn[c] \in {"none", "open"},
           \A s \in Callers : ClientOf[s] = c => call[s].at # "wait"
    PROVE  ~Requested(c) /\ ~Served1(c) /\ ~Replied(c) /\ ~Delivered(c)
<1>1. OnConnection(c) /\ Shape
  BY DEF Inv
<1>2. ASSUME NEW t \in Requests \cup Replies, NEW k \in {0, 1} PROVE ~Fits(c, t, k)
  <2>1. t.of \in Callers
    BY DEF Requests, Replies
  <2> QED
    BY <2>1 DEF Fits
<1>3. ~Requested(c) /\ ~Delivered(c)
  BY <1>1, <1>2, Places DEF OnConnection, Fitting
<1>4. ~Served1(c)
  BY <1>1, <1>2, Places DEF OnConnection, Fitting, Served1, Serving
<1>5. ~Replied(c)
  BY <1>1, <1>2, Places DEF OnConnection, Fitting, Replied
<1> QED
  BY <1>3, <1>4, <1>5

LEMMA OnConnect ==
    ASSUME Inv, NEW c \in Clients, Connect(c), NEW d \in Clients PROVE OnConnection(d)'
<1> USE DEF server, client
<1>1. CASE d = c
  <2>1. conn[c] = "none"
    BY <1>1 DEF Connect
  <2>2. ~Requested(c) /\ ~Replied(c) /\ ~Delivered(c)
    <3>1. \A s \in Callers : ClientOf[s] = c => call[s].at # "wait"
      BY <2>1 DEF Inv, OneCall
    <3> QED
      BY <2>1, <3>1, NobodyWaits
  <2>3. handler'[c].at \notin Serving
    BY <1>1 DEF Connect, Inv, Shape, Serving, Handlers
  <2>4. UNCHANGED <<up, down, replies>>
    BY DEF Connect
  <2> QED
    BY <1>1, <2>2, <2>3, <2>4
       DEF Inv, OnConnection, Fitting, OneMessage, Requested, Served1, Replied, Delivered, Serving
<1>2. CASE d # c
  BY <1>2, Elsewhere DEF Connect, Inv, Shape
<1> QED
  BY <1>1, <1>2

LEMMA OnIdleHandler ==
    ASSUME Inv, NEW c \in Clients, AddClient(c) \/ RemoveClient(c), NEW d \in Clients
    PROVE  OnConnection(d)'
<1> USE DEF server, client
<1>1. UNCHANGED <<up, down, replies, conn, call, ran>>
  BY DEF AddClient, RemoveClient
<1>2. CASE d = c
  <2>1. handler'[c].at \notin Serving
    BY DEF AddClient, RemoveClient, Inv, Shape, Serving, Handlers
  <2> QED
    BY <1>1, <1>2, <2>1, NothingServed, CallsUnchanged
<1>3. CASE d # c
  <2>1. handler'[d] = handler[d]
    BY <1>3 DEF AddClient, RemoveClient, Inv, Shape
  <2> QED
    BY <1>1, <2>1, Elsewhere
<1> QED
  BY <1>2, <1>3

LEMMA OnDecode ==
    ASSUME Inv, NEW c \in Clients, Decode(c), NEW d \in Clients PROVE OnConnection(d)'
<1> USE DEF server, client
<1>1. UNCHANGED <<down, replies, conn, call, ran>>
  BY DEF Decode
<1>2. CASE d # c
  <2>1. handler'[d] = handler[d] /\ up'[d] = up[d]
    BY <1>2 DEF Decode, Inv, Shape
  <2> QED
    BY <1>1, <2>1, Elsewhere
<1>3. CASE d = c /\ UNCHANGED up /\ handler' = [handler EXCEPT ![c].at = "remove"]
  <2>1. handler'[c].at \notin Serving
    BY <1>3 DEF Inv, Shape, Serving, Handlers
  <2> QED
    BY <1>1, <1>3, <2>1, NothingServed, CallsUnchanged
<1>4. CASE /\ d = c /\ up[c] # <<>> /\ up' = [up EXCEPT ![c] = Tail(@)]
           /\ handler' = [handler EXCEPT ![c] = [at |-> "lock", req |-> Head(up[c])]]
  <2>1. OnConnection(c) /\ up[c] \in Seq(Requests)
    BY DEF Inv, Shape
  <2>2. Fits(c, up[c][1], 0) /\ ~Replied(c) /\ ~Delivered(c) /\ Len(up[c]) <= 1
    BY <1>4, <2>1 DEF OnConnection, Fitting, OneMessage, Requested
  <2> PICK r : r = up[c][1]
    OBVIOUS
  <2>3. up'[c] = <<>> /\ Head(up[c]) = r
    <3>1. Tail(up[c]) = <<>> /\ Head(up[c]) = r
      BY <1>4, <2>1, <2>2, Taken
    <3> QED
      BY <1>4, <3>1 DEF Inv, Shape
  <2>4. handler'[c].at = "lock" /\ handler'[c].req = r
    BY <1>4, <2>3 DEF Inv, Shape
  <2>5. Fits(c, r, 0)'
    BY <1>1, <2>2 DEF Fits
  <2>6. Len(up'[c]) = 0 /\ Len(replies[c]) <= 1
    BY <2>1, <2>3 DEF OnConnection, OneMessage
  <2>7. Fitting(c)'
    <3>1. ~Requested(c)'
      BY <2>3 DEF Requested
    <3>2. Fits(c, handler[c].req, 0)' /\ handler'[c].at = "lock"
      BY <2>4, <2>5 DEF Fits
    <3>3. \A i \in 1 .. Len(down'[c]) : ~down'[c][i].reply
      BY <1>1, <2>2 DEF Replied
    <3>4. ~Delivered(c)'
      BY <1>1, <2>2 DEF Delivered
    <3> QED
      BY <3>1, <3>2, <3>3, <3>4 DEF Fitting
  <2>8. OneMessage(c)'
    BY <1>1, <2>2, <2>3, <2>6 DEF OneMessage, Requested, Served1, Replied, Delivered
  <2> QED
    BY <1>4, <2>7, <2>8 DEF OnConnection
<1> QED
  BY <1>2, <1>3, <1>4 DEF Decode

(* The request that is served stays where it is, and counts once it is run. *)
LEMMA OnServing ==
    ASSUME Inv, NEW c \in Clients, Handle(c) \/ RunCommand(c) \/ Relock(c), NEW d \in Clients
    PROVE  OnConnection(d)'
<1> USE DEF server, client
<1>0. /\ UNCHANGED <<up, down, replies, conn, call>>
      /\ handler[c].at \in Serving /\ handler[c].req \in Requests
      /\ Shape /\ OnConnection(c) /\ OnConnection(d)
  BY DEF Handle, RunCommand, Relock, Serving, Inv, Shape
<1> PICK r : r = handler[c].req
  OBVIOUS
<1>1. \/ UNCHANGED ran
      \/ /\ handler[c].at \in {"lock", "run"} /\ Fits(c, r, 0) /\ Served(r)
         /\ handler'[c].at \in {"relock", "write"}
  BY <1>0, RequestFits DEF Handle, RunCommand, Relock, Shape, Handlers
<1>2. CASE d # c
  <2>1. handler'[d] = handler[d]
    BY <1>0, <1>2 DEF Handle, RunCommand, Relock, Shape
  <2>2. \A s \in Callers : ClientOf[s] = d => ran'[s] = ran[s]
    BY <1>0, <1>1, <1>2, ServedCounts
  <2> QED
    BY <1>0, <2>1, <2>2, Elsewhere
<1>3. CASE d = c
  <2>1. handler'[c].req = r /\ handler'[c].at \in {"run", "relock", "write"}
    BY <1>0 DEF Handle, RunCommand, Relock, Shape, Handlers
  <2>2. ~Requested(c) /\ ~Replied(c) /\ ~Delivered(c)
    BY <1>0 DEF OnConnection, OneMessage, Served1
  <2>3. handler'[c].at = "run" => Fits(c, r, 0)'
    <3>1. handler'[c].at = "run" => handler[c].at = "lock" /\ UNCHANGED ran
      BY <1>0 DEF Handle, RunCommand, Relock, Shape, Handlers
    <3>2. handler[c].at = "lock" => Fits(c, r, 0)
      BY <1>0 DEF OnConnection, Fitting
    <3> QED
      BY <1>0, <3>1, <3>2 DEF Fits
  <2>4. handler'[c].at \in {"relock", "write"} => Fits(c, r, 1)'
    <3>1. CASE Fits(c, r, 0) /\ Served(r)
      <4>1. \A s \in Callers : ClientOf[s] = c /\ call[s].at = "wait" => ran'[s] = 1
        BY <1>0, <3>1, ServedCounts
      <4> QED
        BY <1>0, <3>1, <4>1 DEF Fits
    <3>2. CASE UNCHANGED ran /\ handler'[c].at \in {"relock", "write"}
      <4>1. CASE handler[c].at = "relock"
        BY <1>0, <3>2, <4>1 DEF OnConnection, Fitting, Fits
      <4>2. CASE handler[c].at # "relock"
        <5>1. Served(r) /\ Fits(c, r, 0)
          BY <1>0, <3>2, <4>2, RequestFits DEF Handle, RunCommand, Relock, Shape, Handlers
        <5> QED
          BY <3>1, <5>1
      <4> QED
        BY <4>1, <4>2
    <3> QED
      BY <1>1, <3>1, <3>2
  <2>5. Fitting(c)'
    <3>1. ~Requested(c)' /\ ~Delivered(c)' /\ \A i \in 1 .. Len(down'[c]) : ~down'[c][i].reply
      BY <1>0, <2>2 DEF Requested, Replied, Delivered
    <3>2. (handler[c].at \in {"lock", "run"} => Fits(c, handler[c].req, 0))'
      BY <2>1, <2>3 DEF Fits
    <3>3. (handler[c].at \in {"relock", "write"} => Fits(c, handler[c].req, 1))'
      BY <2>1, <2>4 DEF Fits
    <3> QED
      BY <3>1, <3>2, <3>3 DEF Fitting
  <2>6. OneMessage(c)'
    BY <1>0, <2>1, <2>2 DEF OnConnection, OneMessage, Requested, Served1, Replied, Delivered, Serving
  <2> QED
    BY <1>3, <2>5, <2>6 DEF OnConnection
<1> QED
  BY <1>2, <1>3

(* An event or a reply is written on a connection.                          *)
(* While nothing but what comes down a connection changes, what is on it    *)
(* elsewhere goes on fitting.                                               *)
LEMMA OthersFit ==
    ASSUME NEW d \in Clients, OnConnection(d), UNCHANGED <<up, replies, conn, call, ran, handler>>,
           (\A i \in 1 .. Len(down[d]) : down[d][i].reply => Fits(d, down[d][i], 1))'
    PROVE  Fitting(d)'
<1>1. (Requested(d) => Fits(d, up[d][1], 0))'
  BY DEF OnConnection, Fitting, Fits, Requested
<1>2. (handler[d].at \in {"lock", "run"} => Fits(d, handler[d].req, 0))'
  BY DEF OnConnection, Fitting, Fits
<1>3. (handler[d].at \in {"relock", "write"} => Fits(d, handler[d].req, 1))'
  BY DEF OnConnection, Fitting, Fits
<1>4. (Delivered(d) => Fits(d, replies[d][1], 1))'
  BY DEF OnConnection, Fitting, Fits, Delivered
<1> QED
  BY <1>1, <1>2, <1>3, <1>4 DEF Fitting

LEMMA OnTell ==
    ASSUME Inv, Tell, NEW d \in Clients PROVE OnConnection(d)'
<1> USE DEF server, client
<1>0. UNCHANGED <<up, replies, conn, call, ran, handler>> /\ Shape /\ OnConnection(d)
  BY DEF Tell, Inv
<1>1. CASE down'[d] = down[d]
  BY <1>0, <1>1, Elsewhere
<1>2. CASE down'[d] = Append(down[d], Event)
  <2>1. down[d] \in Seq(Messages) /\ Event \in Messages /\ ~Event.reply
    BY <1>0 DEF Shape, Event, Messages
  <2>2. /\ Len(down'[d]) = Len(down[d]) + 1 /\ Len(down[d]) \in Nat
        /\ \A i \in 1 .. Len(down[d]) : down'[d][i] = down[d][i]
        /\ ~down'[d][Len(down[d]) + 1].reply
    BY <1>2, <2>1, Appended, LenProperties
  <2>3. \A i \in 1 .. Len(down'[d]) : down'[d][i].reply =>
          i \in 1 .. Len(down[d]) /\ down'[d][i] = down[d][i] /\ down[d][i].reply
    BY <2>2
  <2>4. Fitting(d)'
    <3>1. \A i \in 1 .. Len(down[d]) : down[d][i].reply => Fits(d, down[d][i], 1)
      BY <1>0 DEF OnConnection, Fitting
    <3>2. \A i \in 1 .. Len(down'[d]) : down'[d][i].reply =>
            \E t : t = down'[d][i] /\ Fits(d, t, 1)'
      BY <1>0, <2>3, <3>1 DEF Fits
    <3> QED
      <4>1. (\A i \in 1 .. Len(down[d]) : down[d][i].reply => Fits(d, down[d][i], 1))'
        BY <3>2 DEF Fits
      <4> QED
        BY <1>0, <4>1, OthersFit
  <2>5. OneMessage(d)'
    BY <1>0, <2>3 DEF OnConnection, OneMessage, Requested, Served1, Replied, Delivered
  <2> QED
    BY <2>4, <2>5 DEF OnConnection
<1> QED
  BY <1>0, <1>1, <1>2 DEF Tell, Written, Shape

LEMMA OnWriteReply ==
    ASSUME Inv, NEW c \in Clients, WriteReply(c), NEW d \in Clients PROVE OnConnection(d)'
<1> USE DEF server, client
<1>0. /\ UNCHANGED <<up, replies, conn, call, ran>> /\ Shape /\ OnConnection(c)
      /\ handler[c].at = "write" /\ handler[c].req \in Requests
      /\ \A e \in Clients : e # c => handler'[e] = handler[e] /\ down'[e] = down[e]
      /\ handler'[c].at = "reading"
  BY DEF WriteReply, Written, Inv, Shape, Serving
<1>1. CASE d # c
  BY <1>0, <1>1, Elsewhere
<1>2. CASE d = c /\ UNCHANGED down
  BY <1>0, <1>2, NothingServed, CallsUnchanged DEF Serving
<1>3. CASE d = c /\ down' = [down EXCEPT ![c] = Append(@, ReplyTo(handler[c].req))]
  <2> PICK r : r = ReplyTo(handler[c].req)
    OBVIOUS
  <2>1. /\ r \in Messages /\ r.reply /\ down[c] \in Seq(Messages)
        /\ r.of = handler[c].req.of /\ r.n = handler[c].req.n /\ r.name = handler[c].req.name
    BY <1>0 DEF ReplyTo, Requests, Replies, Messages, Shape
  <2>2. Fits(c, r, 1)'
    <3>1. Fits(c, handler[c].req, 1)
      BY <1>0 DEF OnConnection, Fitting
    <3> QED
      BY <1>0, <2>1, <3>1 DEF Fits
  <2>3. ~Requested(c) /\ ~Replied(c) /\ ~Delivered(c) /\ Len(up[c]) <= 1 /\ Len(replies[c]) <= 1
    BY <1>0 DEF OnConnection, OneMessage, Served1, Serving
  <2>4. down'[c] = Append(down[c], r)
    BY <1>0, <1>3 DEF Shape
  <2>5. /\ Len(down'[c]) = Len(down[c]) + 1 /\ Len(down[c]) \in Nat
        /\ \A i \in 1 .. Len(down[c]) : down'[c][i] = down[c][i]
        /\ down'[c][Len(down[c]) + 1] = r
    BY <2>1, <2>4, Appended, LenProperties
  <2>6. \A i \in 1 .. Len(down'[c]) : down'[c][i].reply => i = Len(down[c]) + 1 /\ down'[c][i] = r
    BY <2>3, <2>5 DEF Replied
  <2>7. Fitting(c)'
    BY <1>0, <2>2, <2>3, <2>6 DEF Fitting, Fits, Requested, Delivered
  <2>8. OneMessage(c)'
    BY <1>0, <2>3, <2>6 DEF OneMessage, Requested, Served1, Replied, Delivered, Serving
  <2> QED
    BY <1>3, <2>7, <2>8 DEF OnConnection
<1> QED
  BY <1>1, <1>2, <1>3 DEF WriteReply, Written

LEMMA OnClosing ==
    ASSUME Inv, NEW d \in Clients,
           Broadcast \/ Stop \/ Exit \/ (\E c \in Clients : CloseClient(c))
    PROVE  OnConnection(d)'
<1> USE DEF server, client
<1>1. /\ UNCHANGED <<up, down, replies, call, ran>>
      /\ conn'[d] = "open" => conn[d] = "open"
      /\ conn'[d] = "none" => conn[d] = "none"
  BY DEF Broadcast, Stop, Exit, CloseClient, Inv, Shape
<1>2. handler'[d] = handler[d] \/ handler'[d].at \notin Serving
  BY DEF Broadcast, Stop, Exit, CloseClient, Inv, Shape, Serving
<1> QED
  BY <1>1, <1>2, Elsewhere, NothingServed, CallsUnchanged

LEMMA OnLockClient ==
    ASSUME Inv, NEW s \in Callers, LockClient(s), NEW d \in Clients PROVE OnConnection(d)'
<1> USE DEF server, client
<1>0. /\ UNCHANGED <<up, down, replies, handler, conn>> /\ Shape
      /\ cmu[ClientOf[s]] = "nobody" /\ call[s].n \in Nat
  BY CallFields DEF LockClient, Inv, Shape
<1>1. /\ call'[s].at = "write" /\ call'[s].n = call[s].n + 1
      /\ \A t \in Callers : t # s => call'[t] = call[t] /\ ran'[t] = ran[t]
  BY <1>0 DEF LockClient, Shape
<1>2. ASSUME NEW t \in Requests \cup Replies, NEW k \in {0, 1}, Fits(d, t, k) PROVE Fits(d, t, k)'
  <2>1. t.of \in Callers /\ t.n \in Nat
    BY DEF Requests, Replies
  <2>2. t.of = s => conn[d] # "open"
    <3>1. SUFFICES ASSUME t.of = s, conn[d] = "open" PROVE FALSE
      OBVIOUS
    <3>2. call[s].at = "wait" /\ ClientOf[s] = d
      BY <1>2, <3>1 DEF Fits
    <3> QED
      BY <1>0, <3>2, ControlAssumption DEF Inv, OneCall, ControlAssumption
  <2>3. CASE t.of = s
    BY <1>0, <1>1, <1>2, <2>1, <2>2, <2>3 DEF Fits
  <2>4. CASE t.of # s
    BY <1>0, <1>1, <1>2, <2>1, <2>4 DEF Fits
  <2> QED
    BY <2>3, <2>4
<1> QED
  BY <1>0, <1>2, NothingMoves

LEMMA OnWriteRequest ==
    ASSUME Inv, NEW s \in Callers, WriteRequest(s), NEW d \in Clients PROVE OnConnection(d)'
<1> USE DEF server, client
<1>0. /\ UNCHANGED <<down, replies, handler, conn, ran>> /\ Shape /\ OneCall
      /\ ClientOf[s] \in Clients /\ call[s].at = "write"
  BY ControlAssumption DEF WriteRequest, Inv, ControlAssumption
<1> PICK c : c = ClientOf[s]
  OBVIOUS
<1>1. CASE conn[c] # "open"
  <2>1. Return(s, 0) /\ UNCHANGED up
    BY <1>1 DEF WriteRequest
  <2> QED
    BY <1>0, <1>1, <2>1, FailedCall
<1>2. CASE conn[c] = "open"
  <2>1. up' = [up EXCEPT ![c] = Append(@, Request(s))] /\ call' = [call EXCEPT ![s].at = "wait"]
    BY <1>2 DEF WriteRequest
  <2>2. /\ call'[s].at = "wait" /\ call'[s].name = call[s].name /\ call'[s].n = call[s].n
        /\ \A t \in Callers : t # s => call'[t] = call[t]
    BY <1>0, <2>1, NowWaits
  <2>3. CASE d # c
    BY <1>0, <2>1, <2>2, <2>3, Elsewhere DEF Shape
  <2>4. CASE d = c
    <3>1. \A t \in Callers : ClientOf[t] = c => call[t].at # "wait"
      BY <1>0 DEF OneCall
    <3>2. ~Requested(c) /\ ~Served1(c) /\ ~Replied(c) /\ ~Delivered(c)
      BY <1>0, <1>2, <3>1, NobodyWaits
    <3> PICK r : r = Request(s)
      OBVIOUS
    <3>3. r.of = s /\ r.n = call[s].n /\ r.name = call[s].name
      BY DEF Request
    <3>4. Fits(c, r, 0)'
      <4>1. call[s].n \in Nat /\ ran[s] = 0
        BY <1>0, CallFields DEF Shape, OneCall
      <4> QED
        BY <1>0, <1>2, <2>2, <3>1, <3>3, <4>1 DEF Fits
    <3>5. up'[c] = Append(<<>>, r)
      BY <1>0, <2>1, <3>2 DEF Shape, Requested
    <3>6. up'[c][1] = r /\ Len(up'[c]) = 1
      BY <3>5
    <3>7. Fitting(c)'
      BY <1>0, <3>2, <3>4, <3>6 DEF Fitting, Fits, Requested, Served1, Serving, Replied, Delivered
    <3>8. Len(replies[c]) <= 1 /\ \A i, j \in 1 .. Len(down[c]) : down[c][i].reply /\ down[c][j].reply => i = j
      BY <1>0 DEF Inv, OnConnection, OneMessage
    <3>9. OneMessage(c)'
      BY <1>0, <3>2, <3>6, <3>8 DEF OneMessage, Requested, Served1, Replied, Delivered
    <3> QED
      BY <2>4, <3>7, <3>9 DEF OnConnection
  <2> QED
    BY <2>3, <2>4
<1> QED
  BY <1>1, <1>2

(* The reply that a caller finds is the one to its call.                    *)
LEMMA ReplyFound ==
    ASSUME Inv, NEW s \in Callers, Receive(s)
    PROVE  /\ Mine(s, Head(replies[ClientOf[s]]))
           /\ Head(replies[ClientOf[s]]).of = s /\ Head(replies[ClientOf[s]]).n = call[s].n
           /\ ran[s] = 1 /\ Tail(replies[ClientOf[s]]) = <<>>
<1>1. ClientOf[s] \in Clients /\ Shape
  BY ControlAssumption DEF ControlAssumption, Inv
<1> PICK c \in Clients : c = ClientOf[s]
  BY <1>1
<1>2. replies[c] \in Seq(Replies) /\ replies[c] # <<>> /\ call[s].at = "wait"
  BY <1>1 DEF Shape, Receive
<1>3. Fits(c, replies[c][1], 1) /\ Len(replies[c]) <= 1
  BY <1>2 DEF Inv, OnConnection, Fitting, OneMessage, Delivered
<1>4. Head(replies[c]) = replies[c][1] /\ Tail(replies[c]) = <<>>
  BY <1>2, <1>3, Taken
<1> QED
  BY <1>2, <1>3, <1>4 DEF Fits, Mine

LEMMA OnReceive ==
    ASSUME Inv, NEW s \in Callers, Receive(s), NEW d \in Clients PROVE OnConnection(d)'
<1> USE DEF server, client
<1>0. /\ UNCHANGED <<up, down, handler, conn, ran>> /\ Shape
      /\ ClientOf[s] \in Clients /\ replies[ClientOf[s]] # <<>>
  BY ControlAssumption DEF Receive, Inv, ControlAssumption
<1> PICK c \in Clients : c = ClientOf[s]
  BY <1>0
<1>1. /\ \A t \in Callers : t # s => call'[t] = call[t]
      /\ replies' = [replies EXCEPT ![c] = <<>>]
  BY <1>0, ReplyFound DEF Receive, Return, Shape
<1>2. CASE d # c
  BY <1>0, <1>1, <1>2, Elsewhere DEF Shape
<1>3. CASE d = c
  <2>1. OnConnection(c) /\ Delivered(c)
    BY <1>0 DEF Inv, Delivered
  <2>2. ~Requested(c) /\ ~Served1(c) /\ ~Replied(c) /\ Len(up[c]) <= 1
    BY <2>1 DEF OnConnection, OneMessage
  <2>3. replies'[c] = <<>> /\ Len(replies'[c]) = 0
    BY <1>0, <1>1 DEF Shape
  <2>4. Fitting(c)'
    BY <1>0, <2>2, <2>3 DEF Fitting, Requested, Served1, Serving, Replied, Delivered
  <2>5. OneMessage(c)'
    BY <1>0, <2>2, <2>3 DEF OneMessage, Requested, Served1, Replied, Delivered
  <2> QED
    BY <1>3, <2>4, <2>5 DEF OnConnection
<1> QED
  BY <1>2, <1>3

LEMMA OnClosed ==
    ASSUME Inv, NEW s \in Callers, Closed(s), NEW d \in Clients PROVE OnConnection(d)'
<1>1. conn[ClientOf[s]] # "open"
  BY ControlAssumption DEF ControlAssumption, Inv, OneCall, Closed
<1> QED
  BY <1>1, FailedCall DEF Closed, server

LEMMA OnReadLoop ==
    ASSUME Inv, NEW c \in Clients, ReadLoop(c), NEW d \in Clients PROVE OnConnection(d)'
<1> USE DEF server, client
<1>0. UNCHANGED <<up, handler, conn, call, ran>> /\ Shape /\ OnConnection(c)
  BY DEF ReadLoop, Inv
<1>1. CASE d # c
  BY <1>0, <1>1, Elsewhere DEF ReadLoop, Shape
<1>2. CASE UNCHANGED <<down, replies>>
  BY <1>0, <1>2, Elsewhere
<1>3. CASE d = c /\ down[c] # <<>> /\ down' = [down EXCEPT ![c] = Tail(@)]
  <2> PICK e : e = Head(down[c])
    OBVIOUS
  <2>1. down[c] \in Seq(Messages) /\ replies[c] \in Seq(Replies)
    BY <1>0 DEF Shape
  <2>2. /\ e = down[c][1] /\ e \in Messages /\ Len(down[c]) \in Nat /\ Len(down[c]) >= 1
        /\ Len(Tail(down[c])) = Len(down[c]) - 1
        /\ \A i \in 1 .. Len(Tail(down[c])) : Tail(down[c])[i] = down[c][i + 1]
    BY <1>3, <2>1, Taken, LenProperties
  <2>3. down'[c] = Tail(down[c])
    BY <1>0, <1>3 DEF Shape
  <2>4. /\ Len(down'[c]) = Len(down[c]) - 1
        /\ \A i \in 1 .. Len(down'[c]) : down'[c][i] = down[c][i + 1] /\ i + 1 \in 1 .. Len(down[c])
    BY <2>2, <2>3
  <2>5. /\ \A i \in 1 .. Len(down[c]) : down[c][i].reply => Fits(c, down[c][i], 1)
        /\ \A i, j \in 1 .. Len(down[c]) : down[c][i].reply /\ down[c][j].reply => i = j
    BY <1>0 DEF OnConnection, Fitting, OneMessage
  <2>6. CASE ~e.reply
    <3>1. UNCHANGED replies
      BY <1>0, <1>3, <2>6 DEF ReadLoop, Shape
    <3>2. Replied(c)' => Replied(c)
      BY <2>4 DEF Replied
    <3>3. \A i \in 1 .. Len(down'[c]) : down'[c][i].reply => \E t : t = down'[c][i] /\ Fits(c, t, 1)'
      BY <1>0, <2>4, <2>5 DEF Fits
    <3>4. Fitting(c)'
      <4>1. (\A i \in 1 .. Len(down[c]) : down[c][i].reply => Fits(c, down[c][i], 1))'
        BY <3>3 DEF Fits
      <4> QED
        BY <1>0, <3>1, <4>1, OthersFit
    <3>5. \A i, j \in 1 .. Len(down'[c]) : down'[c][i].reply /\ down'[c][j].reply => i = j
      <4> SUFFICES ASSUME NEW i \in 1 .. Len(down'[c]), NEW j \in 1 .. Len(down'[c]),
                          down'[c][i].reply, down'[c][j].reply
                   PROVE  i = j
        OBVIOUS
      <4>1. i + 1 = j + 1
        BY <2>4, <2>5
      <4>2. i \in Int /\ j \in Int
        BY <2>2, <2>4
      <4> QED
        BY <4>1, <4>2
    <3>6. OneMessage(c)'
      BY <1>0, <3>1, <3>2, <3>5 DEF OnConnection, OneMessage, Requested, Served1, Delivered
    <3> QED
      BY <1>3, <3>4, <3>6 DEF OnConnection
  <2>7. CASE e.reply
    <3>1. Fits(c, e, 1) /\ Replied(c)
      BY <2>2, <2>5, <2>7 DEF Replied
    <3>2. ~Requested(c) /\ ~Served1(c) /\ ~Delivered(c) /\ Len(up[c]) <= 1
      BY <1>0, <3>1 DEF OnConnection, OneMessage
    <3>3. replies' = [replies EXCEPT ![c] = Append(@, e)]
      <4>1. Len(replies[c]) < RepliesSize
        BY <3>2, ControlAssumption DEF Delivered, ControlAssumption
      <4> QED
        BY <1>0, <1>3, <2>7, <3>2, <4>1 DEF ReadLoop, Shape
    <3>4. replies'[c] = Append(<<>>, e)
      BY <1>0, <3>2, <3>3 DEF Shape, Delivered
    <3>5. replies'[c][1] = e /\ Len(replies'[c]) = 1
      BY <3>4
    <3>6. ~(Replied(c)')
      <4> SUFFICES ASSUME NEW i \in 1 .. Len(down'[c]), down'[c][i].reply PROVE FALSE
        BY DEF Replied
      <4>1. i + 1 = 1
        BY <2>2, <2>4, <2>5, <2>7
      <4>2. i \in Int /\ i >= 1
        BY <2>2, <2>4
      <4> QED
        BY <4>1, <4>2
    <3>7. Fits(c, e, 1)'
      BY <1>0, <3>1 DEF Fits
    <3>8. Fitting(c)'
      BY <1>0, <3>2, <3>5, <3>6, <3>7 DEF Fitting, Fits, Requested, Served1, Serving, Replied
    <3>9. OneMessage(c)'
      BY <1>0, <3>2, <3>5, <3>6 DEF OneMessage, Requested, Served1, Replied
    <3> QED
      BY <1>3, <3>8, <3>9 DEF OnConnection
  <2> QED
    BY <2>6, <2>7
<1> QED
  BY <1>1, <1>2, <1>3 DEF ReadLoop

LEMMA StepInv == Inv /\ [ControlNext]_cvars => Inv'
<1> SUFFICES ASSUME Inv, [ControlNext]_cvars PROVE Inv'
  OBVIOUS
<1>1. Shape' /\ OneCall'
  BY StepShape, StepOneCall DEF Inv
<1>2. ASSUME NEW d \in Clients PROVE OnConnection(d)'
  <2>1. ASSUME NEW c \in Clients, Connect(c) \/ HandlerStep(c) \/ ReadLoop(c) \/ CloseClient(c)
        PROVE  OnConnection(d)'
    BY <2>1, OnConnect, OnIdleHandler, OnDecode, OnServing, OnWriteReply, OnReadLoop, OnClosing
       DEF HandlerStep
  <2>2. ASSUME NEW s \in Callers, LockClient(s) \/ CallStep(s) PROVE OnConnection(d)'
    BY <2>2, OnLockClient, OnWriteRequest, OnReceive, OnClosed DEF CallStep
  <2>3. CASE Broadcast \/ Tell \/ Stop \/ Exit
    BY <2>3, OnTell, OnClosing
  <2>4. CASE UNCHANGED cvars
    BY <2>4, Elsewhere DEF cvars
  <2> QED
    BY <2>1, <2>2, <2>3, <2>4 DEF ControlNext
<1> QED
  BY <1>1, <1>2 DEF Inv

LEMMA InvHolds == ControlSpec => []Inv
BY InitInv, StepInv, PTL DEF ControlSpec
-----------------------------------------------------------------------------
(* Each step is one of RemoteCall.                                          *)
LEMMA Phases ==
    ASSUME Inv, NEW s \in Callers
    PROVE  phaseBar[s] = IF call[s].at = "idle" THEN "idle" ELSE IF ran[s] = 0 THEN "asked" ELSE "served"
<1>1. call[s].at \in {"idle", "write", "wait"}
  BY CallFields DEF Inv, Shape
<1>2. call[s].at # "idle" => ran[s] \in {0, 1}
  BY <1>1 DEF Inv, OneCall
<1> QED
  BY <1>1, <1>2 DEF phaseBar

LEMMA Bars ==
    /\ DOMAIN phaseBar = Callers /\ DOMAIN numberBar = Callers /\ DOMAIN resultBar = Callers
    /\ phaseBar = [s \in Callers |-> phaseBar[s]]
    /\ \A s \in Callers : numberBar[s] = call[s].n /\ resultBar[s] = call[s].got
BY DEF phaseBar, numberBar, resultBar

(* A step that changes neither a call nor whether its command has run is    *)
(* not seen by the callers.                                                 *)
LEMMA Unseen ==
    ASSUME UNCHANGED <<call, ran>> PROVE UNCHANGED Remote!rvars
BY DEF Remote!rvars, phaseBar, numberBar, resultBar

(* Only the call of s changes, or whether its command has run.              *)
LEMMA OnlyOf ==
    ASSUME NEW s \in Callers, \A t \in Callers : t # s => call'[t] = call[t] /\ ran'[t] = ran[t],
           NEW p, p = phaseBar'[s], NEW n, n = call'[s].n, NEW g, g = call'[s].got
    PROVE  /\ phaseBar' = [phaseBar EXCEPT ![s] = p]
           /\ numberBar' = [numberBar EXCEPT ![s] = n]
           /\ resultBar' = [resultBar EXCEPT ![s] = g]
<1>1. ASSUME NEW t \in Callers, t # s PROVE phaseBar'[t] = phaseBar[t]
  BY <1>1 DEF phaseBar
<1>2. phaseBar' = [phaseBar EXCEPT ![s] = p]
  <2>1. phaseBar' = [t \in Callers |-> phaseBar'[t]]
    BY DEF phaseBar
  <2>2. [phaseBar EXCEPT ![s] = p] = [t \in Callers |-> IF t = s THEN p ELSE phaseBar[t]]
    BY Bars
  <2> QED
    BY <1>1, <2>1, <2>2
<1>3. numberBar' = [numberBar EXCEPT ![s] = n]
  BY DEF numberBar
<1>4. resultBar' = [resultBar EXCEPT ![s] = g]
  BY DEF resultBar
<1> QED
  BY <1>2, <1>3, <1>4

LEMMA Returned ==
    ASSUME Inv, NEW s \in Callers, NEW got, Return(s, got), UNCHANGED ran
    PROVE  /\ phaseBar' = [phaseBar EXCEPT ![s] = "idle"]
           /\ resultBar' = [resultBar EXCEPT ![s] = got]
           /\ UNCHANGED numberBar
<1>1. /\ call'[s].at = "idle" /\ call'[s].n = call[s].n /\ call'[s].got = got
      /\ \A t \in Callers : t # s => call'[t] = call[t] /\ ran'[t] = ran[t]
  BY DEF Return, Inv, Shape
<1>2. phaseBar'[s] = "idle"
  BY <1>1 DEF phaseBar
<1>3. /\ phaseBar' = [phaseBar EXCEPT ![s] = "idle"]
      /\ resultBar' = [resultBar EXCEPT ![s] = got]
  BY <1>1, <1>2, OnlyOf
<1>4. UNCHANGED numberBar
  BY <1>1 DEF numberBar
<1> QED
  BY <1>3, <1>4

LEMMA LockAsks == ASSUME Inv, NEW s \in Callers, LockClient(s) PROVE Remote!Ask(s)
<1>1. PICK name \in Commands :
        call' = [call EXCEPT ![s] = [at |-> "write", name |-> name, n |-> @.n + 1, got |-> @.got]]
  BY DEF LockClient
<1>2. /\ call[s].at = "idle" /\ call'[s].at = "write" /\ ran'[s] = 0
      /\ call'[s].n = call[s].n + 1 /\ call'[s].got = call[s].got
      /\ \A t \in Callers : t # s => call'[t] = call[t] /\ ran'[t] = ran[t]
  BY <1>1 DEF LockClient, Inv, Shape
<1>3. phaseBar'[s] = "asked"
  BY <1>2 DEF phaseBar
<1>4. phaseBar[s] = "idle" /\ numberBar[s] = call[s].n /\ DOMAIN numberBar = Callers
  BY <1>2, Phases, Bars
<1>5. /\ phaseBar' = [phaseBar EXCEPT ![s] = "asked"]
      /\ numberBar' = [numberBar EXCEPT ![s] = call[s].n + 1]
  BY <1>2, <1>3, OnlyOf
<1>6. UNCHANGED resultBar
  BY <1>2 DEF resultBar
<1> QED
  BY <1>4, <1>5, <1>6 DEF Remote!Ask

LEMMA CallSteps ==
    ASSUME Inv, Inv', NEW s \in Callers, CallStep(s)
    PROVE  Remote!Answer(s) \/ Remote!Fail(s) \/ UNCHANGED Remote!rvars
<1>1. CASE WriteRequest(s) /\ conn[ClientOf[s]] = "open"
  <2>1. call[s].at = "write" /\ call' = [call EXCEPT ![s].at = "wait"] /\ UNCHANGED ran
    BY <1>1 DEF WriteRequest
  <2>2. /\ call'[s].at = "wait" /\ call'[s].n = call[s].n /\ call'[s].got = call[s].got
        /\ \A t \in Callers : t # s => call'[t] = call[t]
    BY <2>1, NowWaits DEF Inv
  <2>3. ran[s] = 0
    BY <2>1 DEF Inv, OneCall
  <2>4. UNCHANGED phaseBar
    BY <2>1, <2>2, <2>3 DEF phaseBar
  <2>5. UNCHANGED <<numberBar, resultBar>>
    BY <2>2 DEF numberBar, resultBar
  <2> QED
    BY <2>4, <2>5 DEF Remote!rvars
<1>2. ASSUME call[s].at # "idle", Return(s, 0), UNCHANGED ran PROVE Remote!Fail(s)
  <2>1. phaseBar[s] # "idle"
    BY <1>2, Phases
  <2> QED
    BY <1>2, <2>1, Returned DEF Remote!Fail
<1>3. CASE WriteRequest(s) /\ conn[ClientOf[s]] # "open"
  BY <1>2, <1>3 DEF WriteRequest
<1>4. CASE Closed(s)
  BY <1>2, <1>4 DEF Closed
<1>5. CASE Receive(s)
  <2>1. call[s].at = "wait" /\ ran[s] = 1 /\ Return(s, call[s].n) /\ UNCHANGED ran
    BY <1>5, ReplyFound DEF Receive
  <2>2. phaseBar[s] = "served" /\ numberBar[s] = call[s].n
    BY <2>1, Phases, Bars
  <2> QED
    BY <2>1, <2>2, Returned DEF Remote!Answer
<1> QED
  BY <1>1, <1>3, <1>4, <1>5 DEF CallStep

LEMMA CommandServes ==
    ASSUME Inv, NEW c \in Clients, Handle(c) \/ RunCommand(c)
    PROVE  (\E s \in Callers : Remote!Serve(s)) \/ UNCHANGED Remote!rvars
<1>1. UNCHANGED call /\ handler[c].req \in Requests /\ Fits(c, handler[c].req, 0)
  BY RequestFits DEF Handle, RunCommand, client
<1> PICK r \in Requests : r = handler[c].req
  BY <1>1
<1> PICK s \in Callers : s = r.of
  BY DEF Requests
<1>2. CASE UNCHANGED ran
  BY <1>1, <1>2, Unseen
<1>3. CASE Served(r) /\ call[s].n = r.n
  <2>1. /\ \A t \in Callers : t # s => call'[t] = call[t] /\ ran'[t] = ran[t]
        /\ ran'[s] = ran[s] + 1
    BY <1>1, <1>3, ServedShape DEF Inv
  <2>2. call[s].at \in {"idle", "wait"}
    BY <1>1, <1>3, CallFields DEF Fits, Inv, Shape
  <2>3. UNCHANGED <<numberBar, resultBar>>
    BY <1>1 DEF numberBar, resultBar
  <2>4. CASE call[s].at = "idle"
    <3>1. UNCHANGED phaseBar
      BY <1>1, <2>1, <2>4 DEF phaseBar
    <3> QED
      BY <2>3, <3>1 DEF Remote!rvars
  <2>5. CASE call[s].at = "wait"
    <3>1. ran[s] = 0 /\ ran'[s] = 1
      BY <1>1, <2>1, <2>5 DEF Fits
    <3>2. phaseBar[s] = "asked" /\ phaseBar'[s] = "served"
      BY <1>1, <2>5, <3>1 DEF phaseBar
    <3>3. phaseBar' = [phaseBar EXCEPT ![s] = "served"]
      BY <2>1, <3>2, OnlyOf
    <3> QED
      BY <2>3, <3>2, <3>3 DEF Remote!Serve
  <2> QED
    BY <2>2, <2>4, <2>5
<1> QED
  BY <1>2, <1>3 DEF Handle, RunCommand, Served

LEMMA RefinementStep ==
    Inv /\ Inv' /\ [ControlNext]_cvars => [Remote!RemoteNext]_(Remote!rvars)
<1> SUFFICES ASSUME Inv, Inv', [ControlNext]_cvars PROVE Remote!RemoteNext \/ UNCHANGED Remote!rvars
  OBVIOUS
<1>1. ASSUME NEW c \in Clients, Connect(c) \/ ReadLoop(c) \/ CloseClient(c) PROVE UNCHANGED <<call, ran>>
  BY <1>1 DEF Connect, ReadLoop, CloseClient, client
<1>2. ASSUME NEW c \in Clients,
             AddClient(c) \/ Decode(c) \/ Relock(c) \/ WriteReply(c) \/ RemoveClient(c)
      PROVE  UNCHANGED <<call, ran>>
  BY <1>2 DEF AddClient, Decode, Relock, WriteReply, RemoveClient, client
<1>3. CASE Broadcast \/ Tell \/ Stop \/ Exit
  <2>1. UNCHANGED <<call, ran>>
    BY <1>3 DEF Broadcast, Tell, Stop, Exit, client
  <2> QED
    BY <2>1, Unseen
<1>4. ASSUME NEW c \in Clients, Handle(c) \/ RunCommand(c)
      PROVE  Remote!RemoteNext \/ UNCHANGED Remote!rvars
  BY <1>4, CommandServes DEF Remote!RemoteNext
<1>5. ASSUME NEW s \in Callers, LockClient(s) \/ CallStep(s)
      PROVE  Remote!RemoteNext \/ UNCHANGED Remote!rvars
  BY <1>5, LockAsks, CallSteps DEF Remote!RemoteNext
<1>6. CASE UNCHANGED cvars
  BY <1>6, Unseen DEF cvars
<1> QED
  BY <1>1, <1>2, <1>3, <1>4, <1>5, <1>6, Unseen DEF ControlNext, HandlerStep

LEMMA RefinementInit == ControlInit => Remote!RemoteInit
<1> SUFFICES ASSUME ControlInit PROVE Remote!RemoteInit
  OBVIOUS
<1>1. \A s \in Callers : call[s].at = "idle" /\ call[s].n = 0 /\ call[s].got = 0
  BY DEF ControlInit
<1>2. \A s \in Callers : phaseBar[s] = "idle"
  BY <1>1 DEF phaseBar
<1>3. phaseBar = [s \in Callers |-> "idle"]
  BY <1>2, Bars
<1>4. numberBar = [s \in Callers |-> 0] /\ resultBar = [s \in Callers |-> 0]
  BY <1>1 DEF numberBar, resultBar
<1> QED
  BY <1>3, <1>4 DEF Remote!RemoteInit

(* Each call gets the answer of its own command, which is run at most once, *)
(* or is told that the connection is closed, although the client matches    *)
(* replies by the name of the command alone (client.go:45-64): the mutex    *)
(* lets one call of a client be under way, and a reply that is left over    *)
(* belongs to a connection that is closed.                                  *)
THEOREM ControlImplementsRemoteCall == ControlSpec => Remote!RemoteSafety
<1>1. ControlInit => Remote!RemoteInit
  BY RefinementInit
<1>2. Inv /\ Inv' /\ [ControlNext]_cvars => [Remote!RemoteNext]_(Remote!rvars)
  BY RefinementStep
<1>3. ControlSpec => []Inv
  BY InvHolds
<1> QED
  BY <1>1, <1>2, <1>3, PTL DEF ControlSpec, Remote!RemoteSafety

-----------------------------------------------------------------------------
(* The bounds of what is written and not yet read.                          *)

Bounded ==
    /\ smu \in Clients \cup {"nobody", "broadcast"}
    /\ \A c \in Clients : Len(down[c]) <= PipeSize
    /\ \A s \in Callers : call[s].n <= MaxSends

(* A write waits until there is room.                                       *)
LEMMA RoomMade ==
    ASSUME Shape, Bounded, NEW c \in Clients, NEW e \in Messages, Written(c, e)
    PROVE  \A d \in Clients : Len(down'[d]) <= PipeSize
<1>1. PipeSize \in Nat /\ down[c] \in Seq(Messages) /\ Len(down[c]) \in Nat
  BY ControlAssumption DEF ControlAssumption, Shape
<1>2. CASE conn[c] = "open"
  <2>1. Len(Append(down[c], e)) = Len(down[c]) + 1
    BY <1>1, Appended
  <2>2. Len(down[c]) < PipeSize /\ down' = [down EXCEPT ![c] = Append(down[c], e)]
    BY <1>2 DEF Written
  <2>3. Len(Append(down[c], e)) <= PipeSize
    BY <1>1, <2>1, <2>2
  <2> QED
    BY <2>2, <2>3 DEF Shape, Bounded
<1>3. CASE conn[c] # "open"
  BY <1>3 DEF Written, Bounded
<1> QED
  BY <1>2, <1>3

LEMMA StepBounded == Inv /\ Bounded /\ [ControlNext]_cvars => Bounded'
<1> SUFFICES ASSUME Inv, Bounded, [ControlNext]_cvars PROVE Bounded'
  OBVIOUS
<1>s. Shape /\ OneCall
  BY DEF Inv
<1> USE DEF server, client
<1>1. ASSUME UNCHANGED <<down, call>>, smu' \in Clients \cup {"nobody", "broadcast"} PROVE Bounded'
  BY <1>1 DEF Bounded
<1>2. ASSUME NEW c \in Clients,
             Connect(c) \/ CloseClient(c) \/ AddClient(c) \/ Decode(c) \/ Handle(c) \/ RunCommand(c) \/ Relock(c)
               \/ RemoveClient(c)
      PROVE  Bounded'
  <2>1. UNCHANGED <<down, call>> /\ (smu' = smu \/ smu' = c)
    BY <1>2 DEF Connect, CloseClient, AddClient, Decode, Handle, RunCommand, Relock, RemoveClient
  <2> QED
    BY <1>1, <2>1 DEF Bounded
<1>3. CASE Broadcast \/ Stop \/ Exit
  <2>1. UNCHANGED <<down, call>> /\ smu' \in {smu, "nobody", "broadcast"}
    BY <1>3 DEF Broadcast, Stop, Exit
  <2> QED
    BY <1>1, <2>1 DEF Bounded
<1>4. ASSUME NEW c \in Clients, WriteReply(c) PROVE Bounded'
  <2>1. handler[c].req \in Requests
    BY <1>4, <1>s DEF WriteReply, Shape, Serving
  <2>2. ReplyTo(handler[c].req) \in Messages
    BY <2>1 DEF ReplyTo, Requests, Replies, Messages
  <2>3. \A d \in Clients : Len(down'[d]) <= PipeSize
    BY <1>4, <1>s, <2>2, RoomMade DEF WriteReply
  <2> QED
    BY <1>4, <2>3 DEF WriteReply, Bounded
<1>5. CASE Tell
  <2>1. CASE telling = {}
    BY <1>5, <2>1 DEF Tell, Bounded
  <2>2. ASSUME NEW c \in telling, Written(c, Event), UNCHANGED smu PROVE Bounded'
    <3>1. c \in Clients /\ Event \in Messages
      BY <1>s DEF Shape, Event, Messages
    <3>2. \A d \in Clients : Len(down'[d]) <= PipeSize
      BY <1>s, <2>2, <3>1, RoomMade
    <3> QED
      BY <1>5, <2>2, <3>2 DEF Tell, Bounded
  <2> QED
    BY <1>5, <2>1, <2>2 DEF Tell
<1>6. ASSUME NEW c \in Clients, ReadLoop(c) PROVE Bounded'
  <2>1. CASE UNCHANGED down
    BY <1>1, <1>6, <2>1 DEF ReadLoop, Bounded
  <2>2. CASE down[c] # <<>> /\ down' = [down EXCEPT ![c] = Tail(@)]
    <3>1. down[c] \in Seq(Messages) /\ PipeSize \in Nat
      BY <1>s, ControlAssumption DEF ControlAssumption, Shape
    <3>2. Len(Tail(down[c])) = Len(down[c]) - 1 /\ Len(down[c]) \in Nat
      BY <2>2, <3>1, Taken
    <3>3. Len(Tail(down[c])) <= PipeSize
      BY <3>1, <3>2 DEF Bounded
    <3> QED
      BY <1>6, <1>s, <2>2, <3>3 DEF ReadLoop, Shape, Bounded
  <2> QED
    BY <1>6, <2>1, <2>2 DEF ReadLoop
<1>7. ASSUME UNCHANGED <<down, smu>>, \A s \in Callers : call'[s].n <= MaxSends PROVE Bounded'
  BY <1>7 DEF Bounded
<1>8. ASSUME NEW s \in Callers, LockClient(s) PROVE Bounded'
  <2>1. PICK name \in Commands :
          call' = [call EXCEPT ![s] = [at |-> "write", name |-> name, n |-> call[s].n + 1, got |-> call[s].got]]
    BY <1>8 DEF LockClient
  <2>2. call[s].n + 1 <= MaxSends
    BY <1>8, <1>s, CallFields, ControlAssumption DEF LockClient, Shape, ControlAssumption
  <2>3. \A t \in Callers : call'[t].n <= MaxSends
    BY <1>s, <2>1, <2>2 DEF Shape, Bounded
  <2> QED
    BY <1>7, <1>8, <2>3 DEF LockClient
<1>9. ASSUME NEW s \in Callers, NEW got, Return(s, got) PROVE \A t \in Callers : call'[t].n <= MaxSends
  BY <1>9, <1>s DEF Return, Shape, Bounded
<1>10. ASSUME NEW s \in Callers, WriteRequest(s) PROVE Bounded'
  <2>1. CASE call' = [call EXCEPT ![s].at = "wait"]
    <3>1. \A t \in Callers : call'[t].n = call[t].n
      BY <1>s, <2>1, NowWaits
    <3> QED
      BY <1>7, <1>10, <3>1 DEF WriteRequest, Bounded
  <2>2. CASE Return(s, 0)
    BY <1>7, <1>9, <1>10, <2>2 DEF WriteRequest
  <2> QED
    BY <1>10, <2>1, <2>2 DEF WriteRequest
<1>11. ASSUME NEW s \in Callers, Receive(s) PROVE Bounded'
  <2>1. CASE UNCHANGED call
    BY <1>7, <1>11, <2>1 DEF Receive, Bounded
  <2>2. CASE call' # call
    <3>1. \A t \in Callers : call'[t].n <= MaxSends
      BY <1>9, <1>11, <2>2 DEF Receive
    <3> QED
      BY <1>7, <1>11, <3>1 DEF Receive
  <2> QED
    BY <2>1, <2>2
<1>12. ASSUME NEW s \in Callers, Closed(s) PROVE Bounded'
  BY <1>7, <1>9, <1>12 DEF Closed
<1>13. CASE UNCHANGED cvars
  BY <1>13 DEF cvars, Bounded
<1> QED
  BY <1>2, <1>3, <1>4, <1>5, <1>6, <1>8, <1>10, <1>11, <1>12, <1>13 DEF ControlNext, HandlerStep, CallStep

LEMMA ControlTyped == ASSUME Inv, Bounded PROVE ControlTypeOK
<1>1. /\ Shape /\ PipeSize \in Nat \ {0} /\ RepliesSize \in Nat \ {0} /\ MaxSends \in Nat
      /\ \A c \in Clients : OneMessage(c)
  BY ControlAssumption DEF Inv, ControlAssumption, OnConnection
<1>2. ASSUME NEW c \in Clients
      PROVE  /\ Len(up[c]) <= PipeSize /\ Len(replies[c]) <= RepliesSize
             /\ handler[c].at \in {"none", "add", "reading", "lock", "run", "relock", "write", "remove", "gone"}
  <2>1. Len(up[c]) <= 1 /\ Len(replies[c]) <= 1 /\ Len(up[c]) \in Nat /\ Len(replies[c]) \in Nat
    BY <1>1 DEF OneMessage, Shape
  <2>2. handler[c] \in Handlers
    BY <1>1 DEF Shape
  <2> QED
    BY <1>1, <2>1, <2>2 DEF Handlers, Serving
<1>3. \A s \in Callers : call[s].at \in {"idle", "write", "wait"} /\ call[s].n \in 0 .. MaxSends
  BY <1>1, CallFields DEF Shape, Bounded
<1> QED
  BY <1>1, <1>2, <1>3 DEF Shape, Bounded, ControlTypeOK

(* On each connection no more is written than it holds, whoever writes      *)
(* (handle and Broadcast of server.go, Send of client.go), no more replies  *)
(* wait than Client.replies has room for, and the rest keeps to its values. *)
THEOREM ControlTypes == ControlSpec => []ControlTypeOK
<1>1. ControlInit => Bounded
  <2> SUFFICES ASSUME ControlInit PROVE Bounded
    OBVIOUS
  <2>1. smu = "nobody" /\ \A c \in Clients : Len(down[c]) = 0
    BY DEF ControlInit
  <2>2. \A s \in Callers : call[s].n = 0
    BY DEF ControlInit
  <2> QED
    BY <2>1, <2>2, ControlAssumption DEF Bounded, ControlAssumption
<1> QED
  BY <1>1, StepBounded, ControlTyped, InvHolds, PTL DEF ControlSpec

-----------------------------------------------------------------------------
(* Network changes.                                                          *)

StatusShape ==
    /\ NetTypeOK
    /\ made \in BOOLEAN /\ canceled \in BOOLEAN /\ held \in BOOLEAN /\ emptied \in BOOLEAN

(* The lock is held while a change is told, and nobody waits to be told of  *)
(* an older one.                                                            *)
Telling ==
    /\ held <=> checker = "tell"
    /\ sending # {} => held

(* Who is told knows what the checker compares with; so does who came since. *)
Informed ==
    /\ checker \in {"none", "init", "wait"} => \A ch \in chans : known[ch] = prev
    /\ checker = "tell" => \A ch \in chans \ sending : known[ch] = prev
    /\ checker \in {"none", "init"} => prev = None

(* The checker starts with the first receiver and ends only when it has been *)
(* canceled, which Stop does when the last receiver leaves.                  *)
Checking ==
    /\ made <=> checker # "none"
    /\ ~made => chans = {}
    /\ canceled \/ checker = "ended" => emptied

NetInv == StatusShape /\ Telling /\ Informed /\ Checking
-----------------------------------------------------------------------------
LEMMA NoneIsNat == None \in Nat /\ None \notin 0 .. MaxLinks /\ 0 .. MaxLinks \subseteq 0 .. None
BY NetAssumption DEF None, NetAssumption

LEMMA InitNet == NetInit => NetInv
<1> SUFFICES ASSUME NetInit PROVE NetInv
  OBVIOUS
<1>1. 0 \in 0 .. MaxLinks /\ None \in 0 .. None
  BY NoneIsNat, NetAssumption DEF NetAssumption
<1>2. NetTypeOK
  BY <1>1 DEF NetInit, NetTypeOK
<1> QED
  BY <1>2 DEF NetInit, NetInv, StatusShape, Telling, Informed, Checking

LEMMA StepNet == NetInv /\ [NetNext]_nvars => NetInv'
<1> SUFFICES ASSUME NetInv, [NetNext]_nvars PROVE NetInv'
  OBVIOUS
<1> USE NoneIsNat DEF NetInv, StatusShape, NetTypeOK, Telling, Informed, Checking
<1> HIDE DEF None
<1>1. ASSUME NEW ch \in Channels, Notify(ch) PROVE NetInv'
  <2>1. CASE ~made
    BY <1>1, <2>1 DEF Notify
  <2>2. CASE made
    BY <1>1, <2>2 DEF Notify
  <2> QED
    BY <2>1, <2>2
<1>2. ASSUME NEW ch \in Channels, GiveUp(ch) PROVE NetInv'
  BY <1>2 DEF GiveUp
<1>3. ASSUME NEW ch \in Channels, StopNotify(ch) PROVE NetInv'
  BY <1>3 DEF StopNotify
<1>4. ASSUME NEW ch \in Channels, Handled(ch) PROVE NetInv'
  BY <1>4 DEF Handled
<1>5. ASSUME NEW ch \in Channels, TellReceiver(ch) PROVE NetInv'
  BY <1>5 DEF TellReceiver
<1>6. CASE FirstLook
  BY <1>6 DEF FirstLook
<1>7. CASE Tick
  <2>1. CASE prev # None /\ links # prev
    BY <1>7, <2>1 DEF Tick
  <2>2. CASE ~(prev # None /\ links # prev)
    BY <1>7, <2>2 DEF Tick
  <2> QED
    BY <2>1, <2>2
<1>8. CASE CheckerEnds
  BY <1>8 DEF CheckerEnds
<1>9. CASE BroadcastChange
  BY <1>9 DEF BroadcastChange
<1>10. CASE AllTold
  BY <1>10 DEF AllTold
<1>11. CASE LinksChange
  BY <1>11 DEF LinksChange
<1>12. CASE UNCHANGED nvars
  BY <1>12 DEF nvars
<1> QED
  BY <1>1, <1>2, <1>3, <1>4, <1>5, <1>6, <1>7, <1>8, <1>9, <1>10, <1>11, <1>12 DEF NetNext

LEMMA NetInvHolds == NetSpec => []NetInv
BY InitNet, StepNet, PTL DEF NetSpec

(* Between two looks every receiver knows of the links the checker compares *)
(* with, and as long as a receiver has always been there, there is a checker *)
(* (netstatus.go:31-81).                                                     *)
THEOREM ReceiversAreTold == NetSpec => []ReceiversKnow
<1>1. NetInv => ReceiversKnow
  <2> SUFFICES ASSUME NetInv PROVE ReceiversKnow
    OBVIOUS
  <2>1. checker = "wait" => \A ch \in chans : known[ch] = prev
    BY DEF NetInv, Informed
  <2>2. chans # {} /\ ~emptied => checker \in {"init", "wait", "lock", "tell"}
    BY DEF NetInv, StatusShape, NetTypeOK, Checking
  <2> QED
    BY <2>1, <2>2 DEF ReceiversKnow
<1> QED
  BY <1>1, NetInvHolds, PTL

-----------------------------------------------------------------------------
(* Files.                                                                    *)

FileTypes ==
    /\ file \in [there : BOOLEAN, holds : Nat, mtime : Nat \ {0}, size : Nat]
    /\ info \in [mtime : Nat, size : Nat]
    /\ reader \in [Readers -> [at : {"idle", "due", "stat", "read", "names", "addrs", "date"}, read : Nat]]
    /\ looked \in BOOLEAN /\ overtaken \in BOOLEAN

(* As long as no change went unseen a lookup that refreshes has read what    *)
(* the file holds, and what it stored it has stored.                        *)
Refreshing(r) ==
    /\ Between(r) => reader[r].read = file.holds
    /\ reader[r].at \in {"addrs", "date"} => byName = file.holds
    /\ reader[r].at = "date" => byAddr = file.holds

FileInv ==
    /\ FileTypes
    /\ ~overtaken =>
         /\ \A r \in Readers : Refreshing(r)
         /\ looked \/ Unchanged => byName = file.holds /\ byAddr = file.holds

LEMMA InitFile == FileInit => FileInv
<1> SUFFICES ASSUME FileInit PROVE FileInv
  OBVIOUS
<1>1. file \in [there : BOOLEAN, holds : Nat, mtime : Nat \ {0}, size : Nat]
  <2>1. PICK there \in BOOLEAN, size \in {1, 2} : file = [there |-> there, holds |-> 1, mtime |-> 1, size |-> size]
    BY DEF FileInit
  <2> QED
    BY <2>1
<1>2. info = [mtime |-> 0, size |-> 0] /\ looked = FALSE /\ overtaken = FALSE
      /\ reader = [r \in Readers |-> [at |-> "idle", read |-> 0]]
  BY DEF FileInit, NoFile
<1>3. FileTypes
  BY <1>1, <1>2 DEF FileTypes
<1>4. ~Unchanged
  BY <1>1, <1>2 DEF Unchanged, Stamp
<1> QED
  BY <1>2, <1>3, <1>4 DEF FileInv, Refreshing, Between

(* A lookup moves on without touching a table or its date.                   *)
LEMMA OnMove ==
  ASSUME FileInv, NEW r \in Readers, Due(r) \/ Expire(r) \/ Compare(r) \/ ReadFile(r)
  PROVE  FileInv'
<1>1. UNCHANGED <<file, byName, byAddr, info, overtaken>> /\ looked' \in BOOLEAN
      /\ (looked' => looked \/ Unchanged)
  BY DEF FileInv, FileTypes, Due, Expire, Compare, ReadFile
<1>2. \A s \in Readers : s # r => reader'[s] = reader[s]
  BY DEF FileInv, FileTypes, Due, Expire, Compare, ReadFile, Goto
<1>3. FileTypes'
  BY <1>1 DEF FileInv, FileTypes, Due, Expire, Compare, ReadFile, Goto
<1>4. reader'[r].at \in {"names", "addrs", "date"} => reader'[r].at = "names" /\ reader'[r].read = file.holds
  BY DEF FileInv, FileTypes, Due, Expire, Compare, ReadFile, Goto
<1>5. ~overtaken => \A s \in Readers : Refreshing(s)'
  BY <1>1, <1>2, <1>4 DEF FileInv, Refreshing, Between
<1> QED
  BY <1>1, <1>3, <1>5 DEF FileInv, Unchanged, Stamp

LEMMA OnStore ==
  ASSUME FileInv, NEW r \in Readers, StoreNames(r) \/ StoreAddrs(r)
  PROVE  FileInv'
<1>1. UNCHANGED <<file, info, overtaken, looked>>
  BY DEF StoreNames, StoreAddrs
<1>2. /\ \A s \in Readers : s # r => reader'[s] = reader[s]
      /\ reader'[r].read = reader[r].read
      /\ \/ reader[r].at = "names" /\ reader'[r].at = "addrs" /\ byName' = reader[r].read /\ byAddr' = byAddr
         \/ reader[r].at = "addrs" /\ reader'[r].at = "date" /\ byAddr' = reader[r].read /\ byName' = byName
  BY DEF FileInv, FileTypes, StoreNames, StoreAddrs, Goto
<1>3. FileTypes'
  BY <1>1 DEF FileInv, FileTypes, StoreNames, StoreAddrs, Goto
<1>4. ~overtaken => reader[r].read = file.holds
  BY <1>2 DEF FileInv, Refreshing, Between
<1>5. ~overtaken => \A s \in Readers : Refreshing(s)'
  BY <1>1, <1>2, <1>4 DEF FileInv, Refreshing, Between
<1> QED
  BY <1>1, <1>2, <1>3, <1>4, <1>5 DEF FileInv, Unchanged, Stamp

LEMMA OnDate == ASSUME FileInv, NEW r \in Readers, Date(r) PROVE FileInv'
<1>1. /\ UNCHANGED <<file, byName, byAddr, overtaken>>
      /\ reader[r].at = "date" /\ reader' = [reader EXCEPT ![r] = [at |-> "idle", read |-> 0]]
  BY DEF Date
<1>2. FileTypes'
  BY <1>1 DEF FileInv, FileTypes, Date, Stamp, NoFile
<1>3. ~overtaken => byName = file.holds /\ byAddr = file.holds
  BY <1>1 DEF FileInv, Refreshing
<1>4. ~overtaken => \A s \in Readers : Refreshing(s)'
  BY <1>1 DEF FileInv, FileTypes, Refreshing, Between
<1> QED
  BY <1>1, <1>2, <1>3, <1>4 DEF FileInv

LEMMA OnWrite == ASSUME FileInv, Write PROVE FileInv'
<1>1. PICK later \in {0, 1}, size \in {1, 2} :
        file' = [there |-> TRUE, holds |-> file.holds + 1, mtime |-> file.mtime + later, size |-> size]
  BY DEF Write
<1>2. /\ overtaken' = ((\E r \in Readers : Between(r)) \/ Stamp(file') = info)
      /\ looked' = FALSE /\ UNCHANGED <<byName, byAddr, info, reader>>
  BY DEF Write
<1>3. FileTypes'
  <2>1. file.holds + 1 \in Nat /\ file.mtime + later \in Nat \ {0} /\ size \in Nat
    BY DEF FileInv, FileTypes
  <2>2. overtaken' \in BOOLEAN
    BY <1>2
  <2> QED
    BY <1>1, <1>2, <2>1, <2>2 DEF FileInv, FileTypes
<1>4. ~overtaken' => \A r \in Readers : Refreshing(r)'
  BY <1>2 DEF Refreshing, Between
<1>5. ~overtaken' => ~Unchanged'
  BY <1>2 DEF Unchanged, Stamp
<1> QED
  BY <1>2, <1>3, <1>4, <1>5 DEF FileInv

LEMMA OnOther == ASSUME FileInv, Vanish \/ FileTick PROVE FileInv'
<1>0. file' = file \/ file' = [there |-> FALSE, holds |-> file.holds, mtime |-> file.mtime, size |-> file.size]
  BY DEF FileInv, FileTypes, Vanish, FileTick
<1>1. file'.holds = file.holds /\ file'.mtime = file.mtime /\ file'.size = file.size
  BY <1>0
<1>2. file' \in [there : BOOLEAN, holds : Nat, mtime : Nat \ {0}, size : Nat]
  <2>1. file \in [there : BOOLEAN, holds : Nat, mtime : Nat \ {0}, size : Nat]
    BY DEF FileInv, FileTypes
  <2>2. file.holds \in Nat /\ file.mtime \in Nat \ {0} /\ file.size \in Nat
    BY <2>1
  <2>3. CASE file' = file
    BY <2>1, <2>3
  <2>4. CASE file' = [there |-> FALSE, holds |-> file.holds, mtime |-> file.mtime, size |-> file.size]
    BY <2>2, <2>4
  <2> QED
    BY <1>0, <2>3, <2>4
<1>3. (looked' => looked) /\ looked' \in BOOLEAN /\ UNCHANGED <<byName, byAddr, info, reader, overtaken>>
  <2>1. CASE Vanish
    BY <2>1 DEF Vanish
  <2>2. CASE FileTick
    BY <2>2, Zenon DEF FileTick, FileInv, FileTypes
  <2> QED
    BY <2>1, <2>2
<1> QED
  BY <1>1, <1>2, <1>3 DEF FileInv, FileTypes, Refreshing, Between, Unchanged, Stamp

LEMMA FileInvHolds == FileSpec => []FileInv
<1>1. FileInv /\ [FileNext]_fvars => FileInv'
  <2>1. ASSUME FileInv, UNCHANGED fvars PROVE FileInv'
    BY <2>1 DEF fvars, FileInv, FileTypes, Refreshing, Between, Unchanged, Stamp
  <2> QED
    BY <2>1, OnMove, OnStore, OnDate, OnWrite, OnOther DEF FileNext
<1> QED
  BY <1>1, InitFile, PTL DEF FileSpec

(* Both tables hold what the file held when it was last looked at, however  *)
(* many lookups refresh at once (hosts.go:40-60, dhcp.go).                  *)
THEOREM FilesAreFollowed == FileSpec => []FileFollowed
<1>1. FileInv => FileFollowed
  BY DEF FileInv, FileFollowed
<1> QED
  BY <1>1, FileInvHolds, PTL

-----------------------------------------------------------------------------
(* mDNS.                                                                     *)

LEMMA PositionBound == ASSUME NEW S, NEW s \in Seq(S), NEW x PROVE Position(s, x) \in 0 .. Len(s)
<1>1. IsFiniteSet(1 .. Len(s)) /\ Cardinality(1 .. Len(s)) = Len(s)
  <2>1. Len(s) \in Nat /\ 1 \in Int /\ Len(s) \in Int
    OBVIOUS
  <2>2. IsFiniteSet(1 .. Len(s)) /\ Cardinality(1 .. Len(s)) = IF 1 > Len(s) THEN 0 ELSE Len(s) - 1 + 1
    BY <2>1, FS_Interval
  <2> QED
    BY <2>1, <2>2
<1>2. {i \in DOMAIN s : s[i] < x} \in SUBSET (1 .. Len(s))
  OBVIOUS
<1> QED
  BY <1>1, <1>2, FS_Subset, FS_CardinalityType DEF Position

(* appendUniq keeps what it was given, whatever else it loses.               *)
LEMMA AppendUniqHas ==
  ASSUME NEW S, NEW s \in Seq(S), NEW x \in S
  PROVE  AppendUniq(s, x) \in Seq(S) /\ x \in Range(AppendUniq(s, x))
<1>1. CASE x \in Range(s)
  BY <1>1 DEF AppendUniq
<1>2. CASE x \notin Range(s)
  <2> DEFINE p == Position(s, x)
             t == [j \in 1 .. Len(s) + 1 |-> IF j = p + 1 THEN x ELSE IF j = 1 THEN s[1] ELSE s[j - 1]]
  <2>1. AppendUniq(s, x) = t
    BY <1>2 DEF AppendUniq
  <2>2. p \in 0 .. Len(s)
    BY PositionBound
  <2> HIDE DEF p
  <2>3. ASSUME NEW j \in 1 .. Len(s) + 1 PROVE t[j] \in S
    <3>1. CASE j = p + 1
      BY <3>1
    <3>2. CASE j # p + 1 /\ j = 1
      BY <2>2, <3>2
    <3>3. CASE j # p + 1 /\ j # 1
      <4>1. j - 1 \in 1 .. Len(s)
        BY <3>3
      <4> QED
        BY <3>3, <4>1
    <3> QED
      BY <3>1, <3>2, <3>3
  <2>4. p + 1 \in 1 .. Len(s) + 1 /\ t[p + 1] = x
    BY <2>2
  <2>5. t \in [1 .. Len(s) + 1 -> S] /\ Len(s) + 1 \in Nat
    BY <2>3
  <2>6. t \in Seq(S) /\ DOMAIN t = 1 .. Len(s) + 1
    BY <2>5
  <2> HIDE DEF t
  <2> QED
    BY <2>1, <2>4, <2>6 DEF Range
<1> QED
  BY <1>1, <1>2

TableOK(t, values) ==
    \A k \in DOMAIN t : t[k].values \in Seq(values) /\ t[k].at \in Nat /\ t[k].at <= mclock

(* An entry that was evicted is no younger than those that stayed.           *)
HeardInv ==
    /\ mclock \in Nat
    /\ TableOK(names, HostAddrs) /\ TableOK(addrs, HostNames)
    /\ DOMAIN packet \subseteq HostAddrs /\ \A a \in DOMAIN packet : packet[a] \in HostNames
    /\ DOMAIN names \subseteq DOMAIN heardName /\ DOMAIN heardAddr \subseteq DOMAIN addrs
    /\ \A n \in DOMAIN names :
         heardName[n].addr \in Range(names[n].values) /\ heardName[n].at = names[n].at
    /\ \A n \in DOMAIN heardName : heardName[n].at \in Nat /\ heardName[n].at <= mclock
    /\ \A a \in DOMAIN heardAddr : heardAddr[a] \in Range(addrs[a].values)
    /\ \A gone \in DOMAIN heardName \ DOMAIN names, n \in DOMAIN names :
         heardName[gone].at <= names[n].at
    /\ IsFiniteSet(DOMAIN names) /\ Cardinality(DOMAIN names) <= MDNSMax + 1

LEMMA InitHeard == MDNSInit => HeardInv
<1> SUFFICES ASSUME MDNSInit PROVE HeardInv
  OBVIOUS
<1>1. /\ DOMAIN names = {} /\ DOMAIN addrs = {} /\ DOMAIN packet = {} /\ DOMAIN heardName = {}
      /\ DOMAIN heardAddr = {} /\ mclock = 0
  BY DEF MDNSInit
<1>2. IsFiniteSet(DOMAIN names) /\ Cardinality(DOMAIN names) = 0
  BY <1>1, FS_EmptySet
<1> QED
  BY <1>1, <1>2, NeighbourAssumption DEF HeardInv, TableOK

(* The values of an entry after one more was added to it.                    *)
LEMMA EntryOK ==
  ASSUME NEW values, NEW t, TableOK(t, values), NEW k, NEW v \in values
  PROVE  \E u \in Seq(values) : u = AppendUniq(Entry(t, k).values, v) /\ v \in Range(u)
<1>1. Entry(t, k).values \in Seq(values)
  BY DEF Entry, TableOK
<1> QED
  BY <1>1, AppendUniqHas

LEMMA OnPacket == ASSUME HeardInv, Packet PROVE HeardInv'
<1>1. UNCHANGED <<names, addrs, mclock, heardName, heardAddr>>
  BY DEF Packet
<1>2. DOMAIN packet' \subseteq HostAddrs /\ \A a \in DOMAIN packet' : packet'[a] \in HostNames
  BY DEF Packet
<1> QED
  BY <1>1, <1>2 DEF HeardInv, TableOK

LEMMA OnAddNext == ASSUME HeardInv, AddNext PROVE HeardInv'
<1>1. PICK a \in DOMAIN packet :
        LET n == packet[a] IN
        /\ addrs' = AddEntry(addrs, a, n)
        /\ names' = AddEntry(names, n, a)
        /\ packet' = Restrict(packet, DOMAIN packet \ {a})
        /\ heardAddr' = [x \in DOMAIN heardAddr \cup {a} |-> IF x = a THEN n ELSE heardAddr[x]]
        /\ heardName' = [x \in DOMAIN heardName \cup {n} |->
                           IF x = n THEN [addr |-> a, at |-> mclock] ELSE heardName[x]]
  BY DEF AddNext
<1>2. PICK n \in HostNames : n = packet[a]
  BY DEF HeardInv
<1>3. mclock' = mclock /\ mclock \in Nat /\ a \in HostAddrs /\ Cardinality(DOMAIN names) <= MDNSMax
  BY DEF HeardInv, AddNext
<1>t. TableOK(names, HostAddrs) /\ TableOK(addrs, HostNames)
  BY DEF HeardInv
<1>4. /\ DOMAIN names' = DOMAIN names \cup {n} /\ TableOK(names', HostAddrs)
      /\ names'[n].at = mclock /\ a \in Range(names'[n].values)
      /\ \A x \in DOMAIN names : x # n => names'[x] = names[x]
  <2>1. PICK u \in Seq(HostAddrs) : u = AppendUniq(Entry(names, n).values, a) /\ a \in Range(u)
    BY <1>2, <1>3, <1>t, EntryOK
  <2>2. names' = [x \in DOMAIN names \cup {n} |-> IF x = n THEN [values |-> u, at |-> mclock] ELSE names[x]]
    BY <1>1, <1>2, <2>1 DEF AddEntry
  <2> QED
    BY <1>3, <1>t, <2>1, <2>2 DEF TableOK
<1>5. /\ DOMAIN addrs' = DOMAIN addrs \cup {a} /\ TableOK(addrs', HostNames)
      /\ n \in Range(addrs'[a].values)
      /\ \A x \in DOMAIN addrs : x # a => addrs'[x] = addrs[x]
  <2>1. PICK u \in Seq(HostNames) : u = AppendUniq(Entry(addrs, a).values, n) /\ n \in Range(u)
    BY <1>2, <1>3, <1>t, EntryOK
  <2>2. addrs' = [x \in DOMAIN addrs \cup {a} |-> IF x = a THEN [values |-> u, at |-> mclock] ELSE addrs[x]]
    BY <1>1, <1>2, <2>1 DEF AddEntry
  <2> QED
    BY <1>3, <1>t, <2>1, <2>2 DEF TableOK
<1>6. TableOK(names, HostAddrs)' /\ TableOK(addrs, HostNames)'
  BY <1>3, <1>4, <1>5 DEF TableOK
<1>7. DOMAIN packet' \subseteq HostAddrs /\ \A b \in DOMAIN packet' : packet'[b] \in HostNames
  BY <1>1 DEF HeardInv, Restrict
<1>8. /\ DOMAIN heardName' = DOMAIN heardName \cup {n} /\ heardName'[n] = [addr |-> a, at |-> mclock]
      /\ \A x \in DOMAIN heardName : x # n => heardName'[x] = heardName[x]
      /\ DOMAIN heardAddr' = DOMAIN heardAddr \cup {a} /\ heardAddr'[a] = n
      /\ \A x \in DOMAIN heardAddr : x # a => heardAddr'[x] = heardAddr[x]
  BY <1>1, <1>2
<1>9. IsFiniteSet(DOMAIN names') /\ Cardinality(DOMAIN names') <= MDNSMax + 1
  <2>1. IsFiniteSet(DOMAIN names) /\ Cardinality(DOMAIN names) \in Nat
    BY FS_CardinalityType DEF HeardInv
  <2>2. IsFiniteSet(DOMAIN names \cup {n})
        /\ Cardinality(DOMAIN names \cup {n}) \in {Cardinality(DOMAIN names), Cardinality(DOMAIN names) + 1}
    BY <2>1, FS_AddElement
  <2> QED
    BY <1>3, <1>4, <2>1, <2>2, NeighbourAssumption
<1>10. \A m \in DOMAIN names' :
         heardName'[m].addr \in Range(names'[m].values) /\ heardName'[m].at = names'[m].at
  BY <1>4, <1>8 DEF HeardInv
<1>11. \A m \in DOMAIN heardName' : heardName'[m].at \in Nat /\ heardName'[m].at <= mclock'
  BY <1>3, <1>8 DEF HeardInv
<1>12. \A b \in DOMAIN heardAddr' : heardAddr'[b] \in Range(addrs'[b].values)
  BY <1>5, <1>8 DEF HeardInv
<1>13. \A gone \in DOMAIN heardName' \ DOMAIN names', m \in DOMAIN names' :
         heardName'[gone].at <= names'[m].at
  BY <1>4, <1>8 DEF HeardInv
<1>14. DOMAIN names' \subseteq DOMAIN heardName' /\ DOMAIN heardAddr' \subseteq DOMAIN addrs' /\ mclock' \in Nat
  BY <1>3, <1>4, <1>5, <1>8 DEF HeardInv
<1> QED
  BY <1>6, <1>7, <1>9, <1>10, <1>11, <1>12, <1>13, <1>14 DEF HeardInv

LEMMA OnEvict == ASSUME HeardInv, Evict PROVE HeardInv'
<1>1. PICK n \in DOMAIN names : Oldest(n) /\ RemoveOldest(n)
  BY DEF Evict
<1>2. UNCHANGED <<addrs, packet, mclock, heardName, heardAddr>>
  BY <1>1 DEF Evict, RemoveOldest
<1>3. DOMAIN names' = DOMAIN names \ {n} /\ \A m \in DOMAIN names' : names'[m] = names[m]
  BY <1>1 DEF RemoveOldest
<1>4. \A m \in DOMAIN names : names[n].at <= names[m].at
  BY <1>1 DEF Oldest
<1>5. IsFiniteSet(DOMAIN names') /\ Cardinality(DOMAIN names') <= MDNSMax + 1
  <2>1. IsFiniteSet(DOMAIN names) /\ Cardinality(DOMAIN names) \in Nat /\ Cardinality(DOMAIN names) <= MDNSMax + 1
    BY FS_CardinalityType DEF HeardInv
  <2>2. IsFiniteSet(DOMAIN names \ {n}) /\ Cardinality(DOMAIN names \ {n}) = Cardinality(DOMAIN names) - 1
    BY <2>1, FS_RemoveElement
  <2> QED
    BY <1>3, <2>1, <2>2, NeighbourAssumption
<1>6. TableOK(names, HostAddrs)' /\ TableOK(addrs, HostNames)'
  BY <1>2, <1>3 DEF HeardInv, TableOK
<1>7. \A gone \in DOMAIN heardName' \ DOMAIN names', m \in DOMAIN names' :
        heardName'[gone].at <= names'[m].at
  BY <1>2, <1>3, <1>4 DEF HeardInv
<1> QED
  BY <1>2, <1>3, <1>5, <1>6, <1>7 DEF HeardInv

LEMMA OnMDNSTick == ASSUME HeardInv, MDNSTick PROVE HeardInv'
<1>1. UNCHANGED <<names, addrs, packet, heardName, heardAddr>> /\ mclock' = mclock + 1 /\ mclock \in Nat
  BY DEF HeardInv, MDNSTick
<1>2. TableOK(names, HostAddrs)' /\ TableOK(addrs, HostNames)'
  BY <1>1 DEF HeardInv, TableOK
<1>3. \A n \in DOMAIN heardName' : heardName'[n].at \in Nat /\ heardName'[n].at <= mclock'
  BY <1>1 DEF HeardInv
<1> QED
  BY <1>1, <1>2, <1>3 DEF HeardInv

LEMMA HeardInvHolds == MDNSSpec => []HeardInv
<1>1. HeardInv /\ [MDNSNext]_mdvars => HeardInv'
  <2>1. ASSUME HeardInv, UNCHANGED mdvars PROVE HeardInv'
    BY <2>1 DEF mdvars, HeardInv, TableOK
  <2> QED
    BY <2>1, OnPacket, OnAddNext, OnEvict, OnMDNSTick DEF MDNSNext
<1> QED
  BY <1>1, InitHeard, PTL DEF MDNSSpec

(* What a host announced last is found under its name, unless newer names    *)
(* pushed it out, and under its address, for any hosts and any maximum       *)
(* (mdns.go:236-275).                                                       *)
THEOREM LatestIsHeard == MDNSSpec => []LatestHeard
<1>1. HeardInv => LatestHeard
  BY DEF HeardInv, LatestHeard
<1> QED
  BY <1>1, HeardInvHolds, PTL

-----------------------------------------------------------------------------
(* Lookups in the private DNS.                                               *)

QueryNames == {"PTR", "A", "AAAA"} \cup Probes
QueryStates == [is : Outcomes \cup {"out", "forwarded"}, bad : 0 .. MaxRetries - 1]
Asks == UNION {[qs -> QueryStates] : qs \in SUBSET QueryNames}
LookupStates ==
    [at : {"idle", "once", "probing", "run", "asking", "leaving", "back"}, key : Keys, asks : Asks,
     got : {"records", "empty"}, origin : {<<>>} \cup (Lookups \X QueryNames)]

LookupShape ==
    /\ upstream \in BOOLEAN /\ rd \in BOOLEAN
    /\ acquired \subseteq Keys
    /\ once \in Lookups \cup {"nobody", "done"}
    /\ \A k \in DOMAIN kept :
         k \in Keys /\ kept[k] \in [values : {"records", "empty"}, until : 0 .. LookupClock + HoldTime]
    /\ lk \in [Lookups -> LookupStates]
    /\ now \in 0 .. LookupClock

LEMMA QueryChanges ==
    /\ Sent \in QueryStates /\ \A o \in Outcomes : Done(o) \in QueryStates
    /\ \A qs \in SUBSET QueryNames : Asking(qs) \in Asks
    /\ NoQuery \in Asks
    /\ \A asks \in Asks : \A q \in DOMAIN asks :
         /\ q \in QueryNames /\ asks[q] \in QueryStates
         /\ \A v \in QueryStates : [asks EXCEPT ![q] = v] \in Asks
<1>1. 0 \in 0 .. MaxRetries - 1
  BY LookupAssumption DEF LookupAssumption
<1>2. Sent \in QueryStates /\ \A o \in Outcomes : Done(o) \in QueryStates
  BY <1>1 DEF Sent, Done, QueryStates
<1>3. ASSUME NEW qs \in SUBSET QueryNames PROVE Asking(qs) \in Asks
  <2>1. Asking(qs) \in [qs -> QueryStates]
    BY <1>2 DEF Asking
  <2> QED
    BY <2>1 DEF Asks
<1>4. NoQuery \in Asks
  <2>1. NoQuery = Asking({}) /\ {} \in SUBSET QueryNames
    BY DEF NoQuery, Asking
  <2> QED
    BY <1>3, <2>1
<1>5. ASSUME NEW asks \in Asks, NEW q \in DOMAIN asks
      PROVE  /\ q \in QueryNames /\ asks[q] \in QueryStates
             /\ \A v \in QueryStates : [asks EXCEPT ![q] = v] \in Asks
  <2>1. PICK qs \in SUBSET QueryNames : asks \in [qs -> QueryStates]
    BY DEF Asks
  <2>2. ASSUME NEW v \in QueryStates PROVE [asks EXCEPT ![q] = v] \in [qs -> QueryStates]
    BY <2>1
  <2> QED
    BY <2>1, <2>2 DEF Asks
<1> QED
  BY <1>2, <1>3, <1>4, <1>5

LEMMA KeysOf == Localhost \in Keys /\ \A key \in Keys : Queries(key) \in SUBSET QueryNames
BY LookupAssumption DEF LookupAssumption, Keys, Queries, QueryNames

LEMMA LookupChanges ==
    ASSUME NEW x \in LookupStates
    PROVE  /\ x.key \in Keys /\ x.asks \in Asks /\ x.got \in {"records", "empty"}
           /\ x.origin # <<>> => x.origin[1] \in Lookups /\ x.origin[2] \in QueryNames
           /\ \A at \in {"idle", "once", "probing", "run", "asking", "leaving", "back"} :
                /\ [x EXCEPT !.at = at] \in LookupStates
                /\ \A asks \in Asks :
                     /\ [x EXCEPT !.at = at, !.asks = asks] \in LookupStates
                     /\ \A got \in {"records", "empty"} :
                          [x EXCEPT !.at = at, !.got = got, !.asks = asks] \in LookupStates
                /\ \A got \in {"records", "empty"} : [x EXCEPT !.at = at, !.got = got] \in LookupStates
           /\ \A q \in DOMAIN x.asks, v \in QueryStates : [x EXCEPT !.asks = [@ EXCEPT ![q] = v]] \in LookupStates
<1>1. x.key \in Keys /\ x.asks \in Asks /\ x.got \in {"records", "empty"}
      /\ x.origin \in {<<>>} \cup (Lookups \X QueryNames)
  BY DEF LookupStates
<1>2. ASSUME NEW at \in {"idle", "once", "probing", "run", "asking", "leaving", "back"}
      PROVE  /\ [x EXCEPT !.at = at] \in LookupStates
             /\ \A got \in {"records", "empty"} : [x EXCEPT !.at = at, !.got = got] \in LookupStates
  BY DEF LookupStates
<1>3. ASSUME NEW at \in {"idle", "once", "probing", "run", "asking", "leaving", "back"}, NEW asks \in Asks
      PROVE  /\ [x EXCEPT !.at = at, !.asks = asks] \in LookupStates
             /\ \A got \in {"records", "empty"} :
                  [x EXCEPT !.at = at, !.got = got, !.asks = asks] \in LookupStates
  BY DEF LookupStates
<1>4. ASSUME NEW q \in DOMAIN x.asks, NEW v \in QueryStates
      PROVE  [x EXCEPT !.asks = [@ EXCEPT ![q] = v]] \in LookupStates
  <2>1. PICK asks \in Asks : asks = [x.asks EXCEPT ![q] = v]
    BY <1>1, QueryChanges
  <2>2. [x EXCEPT !.asks = asks] \in LookupStates
    BY DEF LookupStates
  <2> QED
    BY <2>1, <2>2
<1>5. x.origin # <<>> => x.origin[1] \in Lookups /\ x.origin[2] \in QueryNames
  BY <1>1
<1> QED
  BY <1>1, <1>2, <1>3, <1>4, <1>5

LEMMA BeginningsOK ==
    /\ Idle \in LookupStates
    /\ \A key \in Keys, origin \in {<<>>} \cup (Lookups \X QueryNames) : Entered(key, origin) \in LookupStates
<1>1. Localhost \in Keys /\ NoQuery \in Asks
  BY KeysOf, QueryChanges
<1>2. Idle \in LookupStates
  BY <1>1 DEF Idle, LookupStates
<1>3. ASSUME NEW key \in Keys, NEW origin \in {<<>>} \cup (Lookups \X QueryNames)
      PROVE  Entered(key, origin) \in LookupStates
  BY <1>1 DEF Entered, Idle, LookupStates
<1> QED
  BY <1>2, <1>3

LEMMA InitLookups == LookupInit => LookupShape
<1> SUFFICES ASSUME LookupInit PROVE LookupShape
  OBVIOUS
<1>1. lk \in [Lookups -> LookupStates]
  BY BeginningsOK DEF LookupInit
<1>2. DOMAIN kept = {} /\ now \in 0 .. LookupClock
  BY LookupAssumption DEF LookupInit, LookupAssumption
<1> QED
  BY <1>1, <1>2 DEF LookupInit, LookupShape

(* A query of a lookup comes to an end, or is read for once more.            *)
LEMMA QueryEnds ==
    ASSUME LookupShape, NEW l \in Lookups, NEW q \in DOMAIN lk[l].asks, Reply(l, q) \/ BadRead(l, q) \/ Deadline(l, q)
    PROVE  LookupShape'
<1>1. lk[l] \in LookupStates /\ lk[l].asks \in Asks /\ lk[l].asks[q] \in QueryStates
  BY LookupChanges, QueryChanges DEF LookupShape
<1>2. \E v \in QueryStates : lk' = [lk EXCEPT ![l].asks[q] = v]
  <2>1. CASE Reply(l, q)
    BY <2>1, QueryChanges DEF Reply, Outcomes
  <2>2. CASE Deadline(l, q)
    BY <2>2, QueryChanges DEF Deadline, Outcomes
  <2>3. CASE BadRead(l, q)
    <3> PICK v \in QueryStates : v = lk[l].asks[q]
      BY <1>1
    <3>1. CASE v.bad + 1 >= MaxRetries
      BY <2>3, <3>1, QueryChanges DEF BadRead, Outcomes
    <3>2. CASE ~(v.bad + 1 >= MaxRetries)
      <4>1. v.bad \in 0 .. MaxRetries - 1 /\ v.bad + 1 \in 0 .. MaxRetries - 1
        BY <3>2, LookupAssumption DEF QueryStates, LookupAssumption
      <4>2. [is |-> "out", bad |-> v.bad + 1] \in QueryStates
        BY <4>1 DEF QueryStates
      <4>3. lk' = [lk EXCEPT ![l].asks[q] = [is |-> "out", bad |-> v.bad + 1]]
        BY <2>3, <3>2 DEF BadRead
      <4> QED
        BY <4>2, <4>3
    <3> QED
      BY <3>1, <3>2
  <2> QED
    BY <2>1, <2>2, <2>3
<1>3. PICK v \in QueryStates : lk' = [lk EXCEPT ![l].asks[q] = v]
  BY <1>2
<1>4. [lk[l] EXCEPT !.asks = [@ EXCEPT ![q] = v]] \in LookupStates
  BY <1>1, LookupChanges
<1>5. lk' \in [Lookups -> LookupStates]
  BY <1>3, <1>4 DEF LookupShape
<1> QED
  BY <1>5 DEF LookupShape, Reply, BadRead, Deadline

LEMMA LookupCalled ==
    ASSUME LookupShape, NEW l \in Lookups, Called(l) PROVE LookupShape'
<1>1. PICK key \in Keys : lk' = [lk EXCEPT ![l] = Entered(key, <<>>)] /\ acquired' = acquired \cup {key}
  BY DEF Called
<1>2. Entered(key, <<>>) \in LookupStates
  BY BeginningsOK
<1> QED
  BY <1>1, <1>2 DEF Called, LookupShape

LEMMA LookupForwarded ==
    ASSUME LookupShape, NEW p \in Lookups, NEW q \in DOMAIN lk[p].asks, NEW l \in Lookups, Forwarded(p, q, l)
    PROVE  LookupShape'
<1>1. lk[p] \in LookupStates /\ lk[p].key \in Keys /\ lk[p].asks \in Asks /\ q \in QueryNames
      /\ lk[p].asks[q] \in QueryStates
  BY LookupChanges, QueryChanges DEF LookupShape
<1>2. PICK key \in Keys : key = IF lk[p].at = "probing" THEN Localhost ELSE lk[p].key
  BY <1>1, KeysOf
<1>3. acquired' = acquired \cup {key}
      /\ lk' = [lk EXCEPT ![p].asks[q].is = "forwarded", ![l] = Entered(key, <<p, q>>)]
  BY <1>2 DEF Forwarded
<1>4. Entered(key, <<p, q>>) \in LookupStates
  BY <1>1, BeginningsOK
<1>5. PICK v \in QueryStates : v = [lk[p].asks[q] EXCEPT !.is = "forwarded"]
  BY <1>1 DEF QueryStates
<1>6. PICK x \in LookupStates : x = [lk[p] EXCEPT !.asks = [@ EXCEPT ![q] = v]]
  BY <1>1, LookupChanges
<1>7. lk' = [lk EXCEPT ![p] = x, ![l] = Entered(key, <<p, q>>)]
  BY <1>3, <1>5, <1>6
<1>8. lk' \in [Lookups -> LookupStates]
  BY <1>4, <1>7 DEF LookupShape
<1> QED
  BY <1>3, <1>8 DEF Forwarded, LookupShape

LEMMA LookupAdvances ==
    ASSUME LookupShape, NEW l \in Lookups, Advance(l) PROVE LookupShape'
<1>1. lk[l] \in LookupStates /\ lk[l].key \in Keys /\ lk[l].got \in {"records", "empty"}
  BY LookupChanges DEF LookupShape
<1>2. CASE EnterOnce(l)
  <2>1. Asking(Probes) \in Asks
    BY QueryChanges DEF QueryNames
  <2>2. [lk[l] EXCEPT !.at = "probing", !.asks = Asking(Probes)] \in LookupStates
        /\ [lk[l] EXCEPT !.at = "run"] \in LookupStates
    BY <1>1, <2>1, LookupChanges
  <2>3. lk' \in [Lookups -> LookupStates]
    BY <1>2, <2>2 DEF EnterOnce, LookupShape
  <2> QED
    BY <1>2, <2>3 DEF EnterOnce, LookupShape
<1>3. CASE EndInit(l)
  <2>1. [lk[l] EXCEPT !.at = "run", !.asks = NoQuery] \in LookupStates
    BY <1>1, LookupChanges, QueryChanges
  <2>2. lk' \in [Lookups -> LookupStates]
    BY <1>3, <2>1 DEF EndInit, LookupShape
  <2>3. rd' \in BOOLEAN
    BY <1>3 DEF EndInit, BuggyDNSMasq
  <2> QED
    BY <1>3, <2>2, <2>3 DEF EndInit, LookupShape
<1>4. CASE Look(l)
  <2>1. Found(lk[l].key) => kept[lk[l].key].values \in {"records", "empty"}
    BY DEF Found, LookupShape
  <2>2. Asking(Queries(lk[l].key)) \in Asks
    BY <1>1, KeysOf, QueryChanges
  <2>3. \E x \in LookupStates : lk' = [lk EXCEPT ![l] = x]
    <3>1. CASE ~upstream
      <4>1. lk' = [lk EXCEPT ![l] = [lk[l] EXCEPT !.at = "leaving"]]
        BY <1>4, <3>1 DEF Look
      <4> QED
        BY <1>1, <4>1, LookupChanges
    <3>2. CASE upstream /\ Found(lk[l].key)
      <4>1. lk' = [lk EXCEPT ![l] = [lk[l] EXCEPT !.at = "leaving", !.got = kept[lk[l].key].values]]
        BY <1>4, <3>2 DEF Look
      <4> QED
        BY <1>1, <2>1, <3>2, <4>1, LookupChanges
    <3>3. CASE upstream /\ ~Found(lk[l].key)
      <4>1. lk' = [lk EXCEPT ![l] = [lk[l] EXCEPT !.at = "asking", !.asks = Asking(Queries(lk[l].key))]]
        BY <1>4, <3>3 DEF Look
      <4> QED
        BY <1>1, <2>2, <4>1, LookupChanges
    <3> QED
      BY <3>1, <3>2, <3>3
  <2>4. lk' \in [Lookups -> LookupStates]
    BY <2>3 DEF LookupShape
  <2> QED
    BY <1>4, <2>4 DEF Look, LookupShape
<1>5. CASE Gather(l)
  <2>1. PICK v \in {"records", "empty"} : v = Gathered(lk[l].asks)
    BY DEF Gathered
  <2>2. [lk[l] EXCEPT !.at = "leaving", !.got = v, !.asks = NoQuery] \in LookupStates
    BY <1>1, LookupChanges, QueryChanges
  <2>3. lk' = [lk EXCEPT ![l].at = "leaving", ![l].got = v, ![l].asks = NoQuery]
    BY <1>5, <2>1 DEF Gather
  <2>4. lk' \in [Lookups -> LookupStates]
    BY <2>2, <2>3 DEF LookupShape
  <2>5. PICK e \in [values : {"records", "empty"}, until : 0 .. LookupClock + HoldTime] :
          e = [values |-> v, until |-> now + HoldTime]
    <3>1. now + HoldTime \in 0 .. LookupClock + HoldTime
      BY LookupAssumption DEF LookupAssumption, LookupShape
    <3> QED
      BY <3>1
  <2>6. kept' = [k \in DOMAIN kept \cup {lk[l].key} |-> IF k = lk[l].key THEN e ELSE kept[k]]
    BY <1>5, <2>1, <2>5 DEF Gather
  <2>7. \A k \in DOMAIN kept' :
          k \in Keys /\ kept'[k] \in [values : {"records", "empty"}, until : 0 .. LookupClock + HoldTime]
    BY <1>1, <2>6 DEF LookupShape
  <2> QED
    BY <1>5, <2>4, <2>7 DEF Gather, LookupShape
<1>6. CASE Release(l)
  <2>1. [lk[l] EXCEPT !.at = "back"] \in LookupStates
    BY <1>1, LookupChanges
  <2>2. lk' \in [Lookups -> LookupStates]
    BY <1>6, <2>1 DEF Release, LookupShape
  <2> QED
    BY <1>6, <2>2 DEF Release, LookupShape
<1>7. CASE Answered(l)
  <2>1. PICK origin \in {<<>>} \cup (Lookups \X QueryNames) : origin = lk[l].origin
    BY <1>1 DEF LookupStates
  <2>2. CASE lk' = [lk EXCEPT ![l] = Idle]
    <3>1. lk' \in [Lookups -> LookupStates]
      BY <2>2, BeginningsOK DEF LookupShape
    <3> QED
      BY <1>7, <3>1 DEF Answered, LookupShape
  <2>3. ASSUME NEW a \in Outcomes, origin # <<>>, origin[2] \in DOMAIN lk[origin[1]].asks,
               lk' = [lk EXCEPT ![l] = Idle, ![origin[1]].asks[origin[2]] = Done(a)]
        PROVE  LookupShape'
    <3>1. PICK p \in Lookups, q \in QueryNames : origin = <<p, q>>
      BY <2>1, <2>3
    <3>2. lk' = [[lk EXCEPT ![l] = Idle] EXCEPT ![p].asks[q] = Done(a)]
      BY <2>3, <3>1
    <3>3. Done(a) \in QueryStates /\ lk[p] \in LookupStates
      BY QueryChanges DEF LookupShape
    <3>4. [Idle EXCEPT !.asks = [@ EXCEPT ![q] = Done(a)]] \in LookupStates
      <4>1. [NoQuery EXCEPT ![q] = Done(a)] = NoQuery
        BY DEF NoQuery
      <4>2. [Idle EXCEPT !.asks = [@ EXCEPT ![q] = Done(a)]] = Idle
        BY <4>1 DEF Idle
      <4> QED
        BY <4>2, BeginningsOK
    <3>5. [lk[p] EXCEPT !.asks = [@ EXCEPT ![q] = Done(a)]] \in LookupStates
      BY <2>3, <3>1, <3>3, LookupChanges
    <3>6. lk' \in [Lookups -> LookupStates]
      BY <3>2, <3>4, <3>5, BeginningsOK DEF LookupShape
    <3> QED
      BY <1>7, <3>6 DEF Answered, LookupShape
  <2>4. CASE \E a \in {lk[l].got} \cup IF lk[origin[1]].at = "probing" THEN {"servfail"} ELSE {} :
               lk' = [lk EXCEPT ![l] = Idle, ![origin[1]].asks[origin[2]] = Done(a)]
    <3>1. PICK a \in {lk[l].got, "servfail"} :
            lk' = [lk EXCEPT ![l] = Idle, ![origin[1]].asks[origin[2]] = Done(a)]
      BY <2>4
    <3>2. a \in Outcomes
      BY <1>1 DEF Outcomes
    <3>3. CASE origin # <<>> /\ origin[2] \in DOMAIN lk[origin[1]].asks
      BY <2>3, <3>1, <3>2, <3>3
    <3>4. CASE ~(origin # <<>> /\ origin[2] \in DOMAIN lk[origin[1]].asks)
      BY <1>7, <2>1, <2>2, <3>4 DEF Answered
    <3> QED
      BY <3>3, <3>4
  <2> QED
    BY <1>7, <2>1, <2>2, <2>4 DEF Answered
<1> QED
  BY <1>2, <1>3, <1>4, <1>5, <1>6, <1>7 DEF Advance

LEMMA LookupShapeHolds == LookupInit /\ [][LookupNext]_lvars => []LookupShape
<1>1. LookupShape /\ [LookupNext]_lvars => LookupShape'
  <2>1. ASSUME LookupShape, LookupTick PROVE LookupShape'
    BY <2>1, LookupAssumption DEF LookupTick, LookupShape, LookupAssumption
  <2>2. ASSUME LookupShape, UNCHANGED lvars PROVE LookupShape'
    BY <2>2 DEF lvars, LookupShape
  <2> QED
    BY <2>1, <2>2, QueryEnds, LookupCalled, LookupForwarded, LookupAdvances DEF LookupNext
<1> QED
  BY <1>1, InitLookups, PTL

LEMMA LookupTyped == LookupShape => LookupTypeOK
<1> SUFFICES ASSUME LookupShape PROVE LookupTypeOK
  OBVIOUS
<1>1. ASSUME NEW l \in Lookups
      PROVE  /\ lk[l].at \in {"idle", "once", "probing", "run", "asking", "leaving", "back"}
             /\ lk[l].key \in Keys /\ lk[l].got \in {"records", "empty"}
             /\ \A q \in DOMAIN lk[l].asks : lk[l].asks[q] \in QueryStates
  <2>1. PICK x \in LookupStates : x = lk[l]
    BY DEF LookupShape
  <2>2. x.asks \in Asks /\ x.key \in Keys /\ x.got \in {"records", "empty"}
    BY LookupChanges
  <2>3. x.at \in {"idle", "once", "probing", "run", "asking", "leaving", "back"}
    BY DEF LookupStates
  <2> QED
    BY <2>1, <2>2, <2>3, QueryChanges
<1> QED
  BY <1>1 DEF LookupShape, LookupTypeOK, QueryStates

-----------------------------------------------------------------------------
(* Hosts and files keep to their bounds.                                     *)

HostsKnown == DOMAIN names \subseteq HostNames /\ DOMAIN addrs \subseteq HostAddrs

LEMMA StepHosts == HeardInv /\ HostsKnown /\ [MDNSNext]_mdvars => HostsKnown'
<1> SUFFICES ASSUME HeardInv, HostsKnown, [MDNSNext]_mdvars PROVE HostsKnown'
  OBVIOUS
<1>1. CASE AddNext
  <2>1. PICK a \in DOMAIN packet : addrs' = AddEntry(addrs, a, packet[a]) /\ names' = AddEntry(names, packet[a], a)
    BY <1>1 DEF AddNext
  <2>2. a \in HostAddrs /\ packet[a] \in HostNames
    BY DEF HeardInv
  <2>3. DOMAIN addrs' = DOMAIN addrs \cup {a} /\ DOMAIN names' = DOMAIN names \cup {packet[a]}
    BY <2>1 DEF AddEntry
  <2> QED
    BY <2>2, <2>3 DEF HostsKnown
<1>2. CASE Evict
  <2>1. PICK n \in DOMAIN names : RemoveOldest(n)
    BY <1>2 DEF Evict
  <2>2. DOMAIN names' = DOMAIN names \ {n} /\ addrs' = addrs
    BY <2>1 DEF RemoveOldest
  <2> QED
    BY <2>2 DEF HostsKnown
<1>3. CASE UNCHANGED <<names, addrs>>
  BY <1>3 DEF HostsKnown
<1> QED
  BY <1>1, <1>2, <1>3 DEF MDNSNext, Packet, MDNSTick, mdvars

(* What was read from a file is one of the things it has held.              *)
Contents == 0 .. MaxWrites + 1

FileBounds ==
    /\ file.holds \in Contents /\ byName \in Contents /\ byAddr \in Contents
    /\ \A r \in Readers : reader[r].read \in Contents

LEMMA StepFile == FileInv /\ FileBounds /\ [FileNext]_fvars => FileBounds'
<1> SUFFICES ASSUME FileInv, FileBounds, [FileNext]_fvars PROVE FileBounds'
  OBVIOUS
<1>0. /\ reader \in [Readers -> [at : {"idle", "due", "stat", "read", "names", "addrs", "date"}, read : Nat]]
      /\ file.holds \in Nat /\ 0 \in Contents
  BY NeighbourAssumption DEF FileInv, FileTypes, Contents, NeighbourAssumption
<1>1. ASSUME NEW r \in Readers, NEW at, Goto(r, at) PROVE \A q \in Readers : reader'[q].read = reader[q].read
  BY <1>0, <1>1 DEF Goto
<1>2. ASSUME NEW r \in Readers, Due(r) \/ Expire(r) \/ Compare(r) PROVE FileBounds'
  <2>1. \A q \in Readers : reader'[q].read = reader[q].read
    BY <1>1, <1>2 DEF Due, Expire, Compare
  <2> QED
    BY <1>2, <2>1 DEF Due, Expire, Compare, FileBounds
<1>3. ASSUME NEW r \in Readers, ReadFile(r) PROVE FileBounds'
  <2>1. CASE reader' = [reader EXCEPT ![r] = [at |-> "names", read |-> file.holds]]
    BY <1>0, <1>3, <2>1 DEF ReadFile, FileBounds
  <2>2. CASE Goto(r, "idle")
    BY <1>1, <1>3, <2>2 DEF ReadFile, FileBounds
  <2> QED
    BY <1>3, <2>1, <2>2 DEF ReadFile
<1>4. ASSUME NEW r \in Readers, StoreNames(r) \/ StoreAddrs(r) PROVE FileBounds'
  <2>1. \A q \in Readers : reader'[q].read = reader[q].read
    BY <1>1, <1>4 DEF StoreNames, StoreAddrs
  <2> QED
    BY <1>4, <2>1 DEF StoreNames, StoreAddrs, FileBounds
<1>5. ASSUME NEW r \in Readers, Date(r) PROVE FileBounds'
  BY <1>0, <1>5 DEF Date, FileBounds
<1>6. CASE Write
  <2>1. file'.holds = file.holds + 1 /\ file.holds <= MaxWrites
    BY <1>6 DEF Write
  <2>2. file'.holds \in Contents
    BY <1>0, <2>1, NeighbourAssumption DEF Contents, NeighbourAssumption
  <2> QED
    BY <1>6, <2>2 DEF Write, FileBounds
<1>7. CASE Vanish
  <2>1. file'.holds = file.holds
    BY <1>7 DEF Vanish, FileInv, FileTypes
  <2> QED
    BY <1>7, <2>1 DEF Vanish, FileBounds
<1>8. CASE FileTick \/ UNCHANGED fvars
  BY <1>8 DEF FileTick, fvars, FileBounds
<1> QED
  BY <1>2, <1>3, <1>4, <1>5, <1>6, <1>7, <1>8 DEF FileNext

LEMMA NeighboursTyped == ASSUME HeardInv, HostsKnown, FileInv, FileBounds PROVE NeighboursTypeOK
<1>1. /\ TableOK(names, HostAddrs) /\ TableOK(addrs, HostNames)
      /\ DOMAIN packet \subseteq HostAddrs /\ \A a \in DOMAIN packet : packet[a] \in HostNames
  BY DEF HeardInv
<1>2. ASSUME NEW S, NEW s \in Seq(S) PROVE Range(s) \subseteq S
  BY DEF Range
<1>3. ASSUME NEW n \in DOMAIN names PROVE Range(names[n].values) \subseteq HostAddrs /\ names[n].at \in 0 .. mclock
  <2>1. names[n].values \in Seq(HostAddrs) /\ names[n].at \in 0 .. mclock
    BY <1>1 DEF TableOK, HeardInv
  <2> QED
    BY <1>2, <2>1
<1>4. ASSUME NEW a \in DOMAIN addrs PROVE Range(addrs[a].values) \subseteq HostNames /\ addrs[a].at \in 0 .. mclock
  <2>1. addrs[a].values \in Seq(HostNames) /\ addrs[a].at \in 0 .. mclock
    BY <1>1 DEF TableOK, HeardInv
  <2> QED
    BY <1>2, <2>1
<1>5. Range(packet) \subseteq HostNames
  BY <1>1 DEF Range
<1>6. \A r \in Readers : reader[r].at \in {"idle", "due", "stat", "read", "names", "addrs", "date"}
  BY DEF FileInv, FileTypes
<1> QED
  BY <1>1, <1>3, <1>4, <1>5, <1>6 DEF NeighboursTypeOK, HostsKnown, FileBounds, Contents

LEMMA NeighboursTypes ==
    MDNSInit /\ FileInit /\ [][MDNSNext]_mdvars /\ [][FileNext]_fvars => []NeighboursTypeOK
<1>1. MDNSInit => HostsKnown
  BY DEF MDNSInit, HostsKnown
<1>2. FileInit => FileBounds
  <2> SUFFICES ASSUME FileInit PROVE FileBounds
    OBVIOUS
  <2>1. 0 \in Contents /\ 1 \in Contents
    BY NeighbourAssumption DEF Contents, NeighbourAssumption
  <2> QED
    BY <2>1 DEF FileInit, FileBounds
<1> QED
  BY <1>1, <1>2, StepHosts, StepFile, NeighboursTyped, HeardInvHolds, FileInvHolds, PTL DEF MDNSSpec, FileSpec

-----------------------------------------------------------------------------
(* Everything that the daemon knows of its network keeps to its values and  *)
(* bounds: a query is read for fewer than maxRetries times (dns.go), only   *)
(* what hosts announced is in the tables (mdns.go) or what the file has     *)
(* held (hosts.go, dhcp.go), only receivers are told (netstatus.go), and    *)
(* the control socket holds no more than it has room for (ctl).             *)
THEOREM NetworkTypes == NetworkSpec => []NetworkTypeOK
<1>1. NetworkInit => LookupInit /\ MDNSInit /\ FileInit /\ NetInit /\ ControlInit
  BY DEF NetworkInit
<1>2. [NetworkNext]_nwvars =>
        [LookupNext]_lvars /\ [MDNSNext]_mdvars /\ [FileNext]_fvars /\ [NetNext]_nvars /\ [ControlNext]_cvars
  BY DEF NetworkNext, nwvars
<1>3. NetInv => NetTypeOK
  BY DEF NetInv, StatusShape
<1> QED
  BY <1>1, <1>2, <1>3, LookupShapeHolds, LookupTyped, NeighboursTypes, NetInvHolds, ControlTypes, PTL
  DEF NetworkSpec, NetworkTypeOK, NetSpec, ControlSpec
=============================================================================
