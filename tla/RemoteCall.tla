----------------------------- MODULE RemoteCall -----------------------------
(***************************************************************************)
(* What the control socket promises to its callers: a call is served at    *)
(* most once, it returns what its own command gave or says that the        *)
(* connection is closed, and it always ends.                               *)
(***************************************************************************)
EXTENDS Naturals

CONSTANT Callers

VARIABLES
    phase,  \* "idle", "asked" or "served"
    number, \* how many calls each caller has made
    result  \* the number of the call whose answer it got last; 0 is an error

rvars == <<phase, number, result>>

RemoteInit ==
    /\ phase = [s \in Callers |-> "idle"]
    /\ number = [s \in Callers |-> 0]
    /\ result = [s \in Callers |-> 0]

Ask(s) ==
    /\ phase[s] = "idle" /\ phase' = [phase EXCEPT ![s] = "asked"]
    /\ number' = [number EXCEPT ![s] = @ + 1]
    /\ UNCHANGED result

Serve(s) ==
    /\ phase[s] = "asked" /\ phase' = [phase EXCEPT ![s] = "served"]
    /\ UNCHANGED <<number, result>>

Answer(s) ==
    /\ phase[s] = "served" /\ phase' = [phase EXCEPT ![s] = "idle"]
    /\ result' = [result EXCEPT ![s] = number[s]]
    /\ UNCHANGED number

Fail(s) ==
    /\ phase[s] # "idle" /\ phase' = [phase EXCEPT ![s] = "idle"]
    /\ result' = [result EXCEPT ![s] = 0]
    /\ UNCHANGED number

RemoteNext == \E s \in Callers : Ask(s) \/ Serve(s) \/ Answer(s) \/ Fail(s)

RemoteSafety == RemoteInit /\ [][RemoteNext]_rvars

\* Nobody has to call; a call that was made ends.
RemoteSpec == RemoteSafety /\ (\A s \in Callers : WF_rvars(Answer(s) \/ Fail(s)))
=============================================================================
