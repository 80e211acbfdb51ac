------------------------------ MODULE Control ------------------------------
(***************************************************************************)
(* ctl/server.go and ctl/client.go: the control socket of the daemon.  A   *)
(* client multiplexes the calls of its goroutines on one connection and    *)
(* tells their replies apart by the name of the command alone; the server  *)
(* also writes events to the connections.  A request carries the call it   *)
(* is for, which the code does not have and which only serves to say whose *)
(* answer a reply is.                                                      *)
(***************************************************************************)
EXTENDS Integers, Sequences

CONSTANTS
    Clients,        \* the connections
    Callers,        \* the goroutines that call Send
    ClientOf,       \* the client of each
    Commands,       \* the names they send
    Known,          \* the commands the server has
    PipeSize,       \* how much the two directions of a connection hold
    RepliesSize,    \* the capacity of Client.replies
    MaxSends,       \* bound: calls of one caller
    MaxEvents       \* bound: broadcasts

ASSUME ControlAssumption ==
    /\ ClientOf \in [Callers -> Clients] /\ Known \subseteq Commands
    /\ PipeSize \in Nat \ {0} /\ RepliesSize \in Nat \ {0}
    /\ MaxSends \in Nat /\ MaxEvents \in Nat
    /\ Clients \cap {"nobody", "broadcast"} = {} /\ "nobody" \notin Callers

VARIABLES
    listening,
    conn,       \* "none", "open", or which end closed it
    up, down,   \* what is written on a connection and not yet read
    listed,     \* Server.clients
    smu,        \* Server.mu
    handler,    \* handleEvents of each connection
    telling,    \* the clients that the broadcast under way has still to write to
    events,     \* how many broadcasts there were
    cmu,        \* Client.mu
    replies,    \* Client.replies
    loop,       \* readLoop of each client: "run" or "ended"
    call,       \* the call of each caller
    ran         \* history: how often the command of the call was run

cvars == <<listening, conn, up, down, listed, smu, handler, telling, events, cmu, replies, loop, call, ran>>

server == <<listening, listed, smu, handler, telling, events>>
client == <<cmu, replies, loop, call>>

ControlInit ==
    /\ listening = TRUE
    /\ conn = [c \in Clients |-> "none"]
    /\ up = [c \in Clients |-> <<>>] /\ down = [c \in Clients |-> <<>>]
    /\ listed = {} /\ smu = "nobody" /\ telling = {} /\ events = 0
    /\ handler = [c \in Clients |-> [at |-> "none", req |-> <<>>]]
    /\ cmu = [c \in Clients |-> "nobody"]
    /\ replies = [c \in Clients |-> <<>>] /\ loop = [c \in Clients |-> "ended"]
    /\ call = [s \in Callers |-> [at |-> "idle", name |-> "", n |-> 0, got |-> 0]]
    /\ ran = [s \in Callers |-> 0]

Event == [reply |-> FALSE]
Request(s) == [name |-> call[s].name, of |-> s, n |-> call[s].n]
ReplyTo(req) == [reply |-> TRUE, name |-> req.name, of |-> req.of, n |-> req.n]

-----------------------------------------------------------------------------
(* The server.                                                               *)

\* Dial, Accept, and the two goroutines they start
Connect(c) ==
    /\ listening /\ conn[c] = "none"
    /\ conn' = [conn EXCEPT ![c] = "open"]
    /\ handler' = [handler EXCEPT ![c].at = "add"]
    /\ loop' = [loop EXCEPT ![c] = "run"]
    /\ UNCHANGED <<listening, up, down, listed, smu, telling, events, cmu, replies, call, ran>>

AddClient(c) ==
    /\ handler[c].at = "add" /\ smu = "nobody"
    /\ listed' = listed \cup {c}
    /\ handler' = [handler EXCEPT ![c].at = "reading"]
    /\ UNCHANGED <<listening, conn, up, down, smu, telling, events, client, ran>>

Decode(c) ==
    /\ handler[c].at = "reading"
    /\ \/ /\ up[c] # <<>>
          /\ handler' = [handler EXCEPT ![c] = [at |-> "lock", req |-> Head(up[c])]]
          /\ up' = [up EXCEPT ![c] = Tail(@)]
       \/ /\ up[c] = <<>> /\ conn[c] # "open"
          /\ handler' = [handler EXCEPT ![c].at = "remove"]
          /\ UNCHANGED up
    /\ UNCHANGED <<listening, conn, down, listed, smu, telling, events, client, ran>>

\* The call of a request has been served, if it is still its caller's.
Served(req) == ran' = IF call[req.of].n = req.n THEN [ran EXCEPT ![req.of] = @ + 1] ELSE ran

\* handle: an unknown command is answered under the lock; for a known one it is given up.
Handle(c) ==
    /\ handler[c].at = "lock" /\ smu = "nobody"
    /\ \/ /\ handler[c].req.name \in Known
          /\ handler' = [handler EXCEPT ![c].at = "run"]
          /\ UNCHANGED <<smu, ran>>
       \/ /\ handler[c].req.name \notin Known
          /\ handler' = [handler EXCEPT ![c].at = "write"]
          /\ smu' = c
          /\ Served(handler[c].req)
    /\ UNCHANGED <<listening, conn, up, down, listed, telling, events, client>>

RunCommand(c) ==
    /\ handler[c].at = "run"
    /\ handler' = [handler EXCEPT ![c].at = "relock"]
    /\ Served(handler[c].req)
    /\ UNCHANGED <<listening, conn, up, down, listed, smu, telling, events, client>>

Relock(c) ==
    /\ handler[c].at = "relock" /\ smu = "nobody"
    /\ smu' = c
    /\ handler' = [handler EXCEPT ![c].at = "write"]
    /\ UNCHANGED <<listening, conn, up, down, listed, telling, events, client, ran>>

\* Write blocks while the connection is full, and fails when it is closed.
Written(c, e) ==
    IF conn[c] = "open"
    THEN Len(down[c]) < PipeSize /\ down' = [down EXCEPT ![c] = Append(@, e)]
    ELSE UNCHANGED down

WriteReply(c) ==
    /\ handler[c].at = "write"
    /\ Written(c, ReplyTo(handler[c].req))
    /\ smu' = "nobody"
    /\ handler' = [handler EXCEPT ![c] = [at |-> "reading", req |-> <<>>]]
    /\ UNCHANGED <<listening, conn, up, listed, telling, events, client, ran>>

\* The deferred removeClient and Close
RemoveClient(c) ==
    /\ handler[c].at = "remove" /\ smu = "nobody"
    /\ listed' = listed \ {c}
    /\ handler' = [handler EXCEPT ![c].at = "gone"]
    /\ UNCHANGED <<listening, conn, up, down, smu, telling, events, client, ran>>

\* Broadcast writes to one client after the other under the lock.
Broadcast ==
    /\ smu = "nobody" /\ events < MaxEvents
    /\ smu' = "broadcast" /\ telling' = listed /\ events' = events + 1
    /\ UNCHANGED <<listening, conn, up, down, listed, handler, client, ran>>

Tell ==
    /\ smu = "broadcast"
    /\ IF telling = {} THEN smu' = "nobody" /\ UNCHANGED <<telling, down>>
       ELSE \E c \in telling :
              Written(c, Event) /\ telling' = telling \ {c} /\ UNCHANGED smu
    /\ UNCHANGED <<listening, conn, up, listed, handler, events, client, ran>>

\* Stop forgets the clients and leaves their connections open, so that their commands
\* are still answered until the process ends.
Stop ==
    /\ listening /\ smu = "nobody"
    /\ listening' = FALSE /\ listed' = {}
    /\ UNCHANGED <<conn, up, down, smu, handler, telling, events, client, ran>>

Exit ==
    /\ ~listening
    /\ conn' = [c \in Clients |-> IF conn[c] = "open" THEN "server" ELSE conn[c]]
    /\ handler' = [c \in Clients |-> [at |-> "gone", req |-> <<>>]]
    /\ smu' = "nobody" /\ telling' = {} /\ events' = MaxEvents
    /\ UNCHANGED <<listening, up, down, listed, client, ran>>

-----------------------------------------------------------------------------
(* The client.                                                               *)

LockClient_Shared(s) ==     \* mutant: Send without c.mu
    /\ call[s].at = "idle" /\ call[s].n < MaxSends
    /\ conn[ClientOf[s]] # "none"
    /\ \E name \in Commands :
         call' = [call EXCEPT ![s] = [at |-> "write", name |-> name, n |-> @.n + 1, got |-> @.got]]
    /\ cmu' = [cmu EXCEPT ![ClientOf[s]] = s]
    /\ ran' = [ran EXCEPT ![s] = 0]
    /\ UNCHANGED <<server, conn, up, down, replies, loop>>

\* Send takes the mutex for the whole of the call.
LockClient(s) ==
    /\ call[s].at = "idle" /\ call[s].n < MaxSends
    /\ conn[ClientOf[s]] # "none" /\ cmu[ClientOf[s]] = "nobody"
    /\ \E name \in Commands :
         call' = [call EXCEPT ![s] = [at |-> "write", name |-> name, n |-> @.n + 1, got |-> @.got]]
    /\ cmu' = [cmu EXCEPT ![ClientOf[s]] = s]
    /\ ran' = [ran EXCEPT ![s] = 0]
    /\ UNCHANGED <<server, conn, up, down, replies, loop>>

Return(s, got) ==
    /\ call' = [call EXCEPT ![s] = [at |-> "idle", name |-> "", n |-> @.n, got |-> got]]
    /\ cmu' = [cmu EXCEPT ![ClientOf[s]] = "nobody"]

WriteRequest(s) ==
    LET c == ClientOf[s] IN
    /\ call[s].at = "write"
    /\ IF conn[c] = "open"
       THEN /\ Len(up[c]) < PipeSize
            /\ up' = [up EXCEPT ![c] = Append(@, Request(s))]
            /\ call' = [call EXCEPT ![s].at = "wait"]
            /\ UNCHANGED cmu
       ELSE Return(s, 0) /\ UNCHANGED up
    /\ UNCHANGED <<server, conn, down, replies, loop, ran>>

\* readLoop: an event is dropped, and so is a reply when ten wait already.
ReadLoop(c) ==
    /\ loop[c] = "run"
    /\ \/ /\ conn[c] # "client" /\ down[c] # <<>>
          /\ down' = [down EXCEPT ![c] = Tail(@)]
          /\ replies' = [replies EXCEPT ![c] =
                           IF Head(down[c]).reply /\ Len(@) < RepliesSize THEN Append(@, Head(down[c])) ELSE @]
          /\ UNCHANGED <<conn, loop>>
       \/ /\ conn[c] = "client" \/ (conn[c] = "server" /\ down[c] = <<>>)
          /\ loop' = [loop EXCEPT ![c] = "ended"]
          /\ UNCHANGED <<conn, down, replies>>
    /\ UNCHANGED <<server, up, cmu, call, ran>>

\* Send takes replies until one has the name it sent; the number got is the call's
\* that the reply is for.
Mine(s, e) == e.name = call[s].name

Receive(s) ==
    LET c == ClientOf[s] IN
    /\ call[s].at = "wait" /\ replies[c] # <<>>
    /\ IF Mine(s, Head(replies[c]))
       THEN Return(s, IF Head(replies[c]).of = s THEN Head(replies[c]).n ELSE 0 - 1)
       ELSE UNCHANGED <<call, cmu>>
    /\ replies' = [replies EXCEPT ![c] = Tail(@)]
    /\ UNCHANGED <<server, conn, up, down, loop, ran>>

Closed(s) ==
    /\ call[s].at = "wait" /\ replies[ClientOf[s]] = <<>> /\ loop[ClientOf[s]] = "ended"
    /\ Return(s, 0)
    /\ UNCHANGED <<server, conn, up, down, replies, loop, ran>>

\* Close, while calls may be under way
CloseClient(c) ==
    /\ conn[c] = "open" /\ conn' = [conn EXCEPT ![c] = "client"]
    /\ UNCHANGED <<server, up, down, client, ran>>

HandlerStep(c) ==
    AddClient(c) \/ Decode(c) \/ Handle(c) \/ RunCommand(c) \/ Relock(c) \/ WriteReply(c) \/ RemoveClient(c)
CallStep(s) == WriteRequest(s) \/ Receive(s) \/ Closed(s)

ControlNext ==
    \/ \E c \in Clients : Connect(c) \/ HandlerStep(c) \/ ReadLoop(c) \/ CloseClient(c)
    \/ \E s \in Callers : LockClient(s) \/ CallStep(s)
    \/ Broadcast \/ Tell \/ Stop \/ Exit

ControlSpec == ControlInit /\ [][ControlNext]_cvars

\* Every goroutine that can go on does, on both ends; nobody has to call, close or stop.
ControlFairness ==
    /\ \A c \in Clients : WF_cvars(HandlerStep(c)) /\ WF_cvars(ReadLoop(c))
    /\ \A s \in Callers : WF_cvars(CallStep(s))
    /\ WF_cvars(Tell)

-----------------------------------------------------------------------------
ControlTypeOK ==
    /\ listed \subseteq Clients /\ telling \subseteq Clients
    /\ smu \in Clients \cup {"nobody", "broadcast"}
    /\ \A c \in Clients :
         /\ conn[c] \in {"none", "open", "client", "server"}
         /\ Len(up[c]) <= PipeSize /\ Len(down[c]) <= PipeSize /\ Len(replies[c]) <= RepliesSize
         /\ handler[c].at \in {"none", "add", "reading", "lock", "run", "relock", "write", "remove", "gone"}
         /\ cmu[c] \in Callers \cup {"nobody"}
         /\ loop[c] \in {"run", "ended"}
    /\ \A s \in Callers : call[s].at \in {"idle", "write", "wait"} /\ call[s].n \in 0 .. MaxSends

\* The callers see RemoteCall: replies matched by name alone reach the right call because
\* the mutex lets one call of a client be under way, the server writes one reply for each
\* request, and nothing else that it writes is a reply (client.go:45-64, server.go:127-148).
phaseBar ==
    [s \in Callers |-> CASE call[s].at = "idle" -> "idle"
                         [] call[s].at # "idle" /\ ran[s] = 0 -> "asked"
                         [] call[s].at # "idle" /\ ran[s] = 1 -> "served"
                         [] OTHER -> "twice"]
numberBar == [s \in Callers |-> call[s].n]
resultBar == [s \in Callers |-> call[s].got]

Remote == INSTANCE RemoteCall WITH phase <- phaseBar, number <- numberBar, result <- resultBar

CallsServed == Remote!RemoteSpec
=============================================================================
