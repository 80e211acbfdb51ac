----------------------------- MODULE NetStatus -----------------------------
(***************************************************************************)
(* netstatus/netstatus.go: a goroutine compares the network's interfaces   *)
(* every ten seconds and tells those who asked, each on a channel without  *)
(* a buffer.  Of the interfaces only the links count (names and flags):    *)
(* diff reads the addresses of the old list and of the new one from the    *)
(* system at the same moment, so that an address that changes on its own   *)
(* is never seen.                                                          *)
(***************************************************************************)
EXTENDS Naturals, FiniteSets

CONSTANTS
    Channels,       \* the receivers, run.go's loop in each start of the service
    MaxLinks      \* bound: the states the links may be in

ASSUME NetAssumption == "nobody" \notin Channels /\ "checker" \notin Channels /\ MaxLinks \in Nat

None == MaxLinks + 1

VARIABLES
    links,      \* the interfaces as they are now
    prev,       \* prevInterfaces, None before the first look
    made,       \* handlers.c is not nil
    chans,      \* handlers.c
    canceled,   \* cancel has been called
    checker,    \* startChecker
    sending,    \* the channels the broadcast under way has still to send to
    held,       \* handlers is locked: by the broadcast
    recv,       \* what each receiver does
    known,      \* history: the links each receiver knows of
    emptied     \* history: Stop has removed the last channel

nvars == <<links, prev, made, chans, canceled, checker, sending, held, recv, known, emptied>>

NetInit ==
    /\ links = 0 /\ prev = None /\ made = FALSE /\ chans = {} /\ canceled = FALSE
    /\ checker = "none" /\ sending = {} /\ held = FALSE
    /\ recv = [ch \in Channels |-> "none"] /\ known = [ch \in Channels |-> None]
    /\ emptied = FALSE

\* The first one starts the checker.  A list that Stop has emptied is not nil: nobody
\* starts a checker again.
Notify(ch) ==
    /\ recv[ch] = "none" /\ ~held
    /\ IF ~made THEN checker' = "init" /\ canceled' = FALSE ELSE UNCHANGED <<checker, canceled>>
    /\ made' = TRUE /\ chans' = chans \cup {ch}
    /\ recv' = [recv EXCEPT ![ch] = "ready"] /\ known' = [known EXCEPT ![ch] = prev]
    /\ UNCHANGED <<links, prev, sending, held, emptied>>

\* A receiver gives up reading and then calls Stop.
GiveUp(ch) ==
    /\ recv[ch] = "ready" /\ recv' = [recv EXCEPT ![ch] = "leaving"]
    /\ UNCHANGED <<links, prev, made, chans, canceled, checker, sending, held, known, emptied>>

StopNotify(ch) ==
    /\ recv[ch] = "leaving" /\ ~held
    /\ chans' = chans \ {ch}
    /\ canceled' = (canceled \/ chans' = {}) /\ emptied' = (emptied \/ chans' = {})
    /\ recv' = [recv EXCEPT ![ch] = "none"]
    /\ UNCHANGED <<links, prev, made, checker, sending, held, known>>

\* The loop of run.go tests the endpoints before it reads again.
Handled(ch) ==
    /\ recv[ch] = "busy" /\ recv' = [recv EXCEPT ![ch] = "ready"]
    /\ UNCHANGED <<links, prev, made, chans, canceled, checker, sending, held, known, emptied>>

\* The first look at the interfaces tells nobody; it may fail, and so may a later one.
FirstLook ==
    /\ checker = "init" /\ checker' = "wait"
    /\ \/ /\ prev' = links
          /\ known' = [ch \in Channels |-> IF ch \in chans THEN links ELSE known[ch]]
       \/ UNCHANGED <<prev, known>>
    /\ UNCHANGED <<links, made, chans, canceled, sending, held, recv, emptied>>

Tick ==
    /\ checker = "wait"
    /\ prev' = links
    /\ IF prev # None /\ links # prev
       THEN checker' = "lock" /\ UNCHANGED known
       ELSE /\ UNCHANGED checker
            /\ known' = [ch \in Channels |-> IF prev = None /\ ch \in chans THEN links ELSE known[ch]]
    /\ UNCHANGED <<links, made, chans, canceled, sending, held, recv, emptied>>

CheckerEnds ==
    /\ checker = "wait" /\ canceled /\ checker' = "ended"
    /\ UNCHANGED <<links, prev, made, chans, canceled, sending, held, recv, known, emptied>>

\* broadcast holds the lock while it sends, however long a receiver is busy.
BroadcastChange ==
    /\ checker = "lock" /\ ~held
    /\ held' = TRUE /\ sending' = chans /\ checker' = "tell"
    /\ UNCHANGED <<links, prev, made, chans, canceled, recv, known, emptied>>

TellReceiver_OrDrop(ch) ==      \* mutant: the send does not wait
    /\ checker = "tell" /\ ch \in sending
    /\ sending' = sending \ {ch}
    /\ IF recv[ch] = "ready" THEN recv' = [recv EXCEPT ![ch] = "busy"] /\ known' = [known EXCEPT ![ch] = prev]
       ELSE UNCHANGED <<recv, known>>
    /\ UNCHANGED <<links, prev, made, chans, canceled, checker, held, emptied>>

TellReceiver(ch) ==
    /\ checker = "tell" /\ ch \in sending /\ recv[ch] = "ready"
    /\ sending' = sending \ {ch}
    /\ recv' = [recv EXCEPT ![ch] = "busy"] /\ known' = [known EXCEPT ![ch] = prev]
    /\ UNCHANGED <<links, prev, made, chans, canceled, checker, held, emptied>>

AllTold ==
    /\ checker = "tell" /\ sending = {}
    /\ held' = FALSE /\ checker' = "wait"
    /\ UNCHANGED <<links, prev, made, chans, canceled, sending, recv, known, emptied>>

LinksChange ==
    /\ \E l \in 0 .. MaxLinks : l # links /\ links' = l
    /\ UNCHANGED <<prev, made, chans, canceled, checker, sending, held, recv, known, emptied>>

NetNext ==
    \/ \E ch \in Channels : Notify(ch) \/ GiveUp(ch) \/ StopNotify(ch) \/ Handled(ch) \/ TellReceiver(ch)
    \/ FirstLook \/ Tick \/ CheckerEnds \/ BroadcastChange \/ AllTold \/ LinksChange

NetSpec == NetInit /\ [][NetNext]_nvars

-----------------------------------------------------------------------------
NetTypeOK ==
    /\ links \in 0 .. MaxLinks /\ prev \in 0 .. None
    /\ chans \subseteq Channels /\ sending \subseteq chans
    /\ checker \in {"none", "init", "wait", "lock", "tell", "ended"}
    /\ recv \in [Channels -> {"none", "ready", "busy", "leaving"}]
    /\ known \in [Channels -> 0 .. None]

\* Between two looks every receiver knows of the links the checker compares with, also one
\* that came between a look and the sending of it; and until the last one has left there
\* is a checker (netstatus.go:27, "sends a Change to c any time the network interfaces
\* status change").
ReceiversKnow ==
    /\ checker = "wait" => \A ch \in chans : known[ch] = prev
    /\ chans # {} /\ ~emptied => checker \in {"init", "wait", "lock", "tell"}
=============================================================================
