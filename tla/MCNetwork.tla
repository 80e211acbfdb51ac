----------------------------- MODULE MCNetwork -----------------------------
\* What the daemon learns of its network, and the control socket: parts that share no
\* state.  The run chooses one of them.
EXTENDS NameLookup, Neighbours, NetStatus, Control

VARIABLE part

nwvars == <<part, lvars, mdvars, fvars, nvars, cvars>>

NetworkInit ==
    /\ part \in {"lookups", "mdns", "file", "status", "control"}
    /\ LookupInit /\ MDNSInit /\ FileInit /\ NetInit /\ ControlInit
    /\ part # "lookups" => upstream
    /\ part # "file" => file.there /\ file.size = 1

NetworkNext ==
    /\ \/ part = "lookups" /\ LookupNext /\ UNCHANGED <<mdvars, fvars, nvars, cvars>>
       \/ part = "mdns" /\ MDNSNext /\ UNCHANGED <<lvars, fvars, nvars, cvars>>
       \/ part = "file" /\ FileNext /\ UNCHANGED <<lvars, mdvars, nvars, cvars>>
       \/ part = "status" /\ NetNext /\ UNCHANGED <<lvars, mdvars, fvars, cvars>>
       \/ part = "control" /\ ControlNext /\ UNCHANGED <<lvars, mdvars, fvars, nvars>>
    /\ UNCHANGED part

\* In the parts that are not chosen nothing is enabled but the fairness asks nothing.
NetworkSpec == NetworkInit /\ [][NetworkNext]_nwvars /\ LookupFairness /\ ControlFairness

NetworkTypeOK == LookupTypeOK /\ NeighboursTypeOK /\ NetTypeOK /\ ControlTypeOK

MCClientOf == [s \in Callers |-> "ca"]
=============================================================================
