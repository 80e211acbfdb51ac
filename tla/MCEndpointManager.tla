-------------------------- MODULE MCEndpointManager --------------------------
(* Small instances of EndpointManager: the constants a cfg cannot spell. *)
EXTENDS EndpointManager, TLC
CONSTANTS doh1, doh2, dns

\* run.go, nextdnsEndpointManager: steered DoH, anycast DoH, plain DNS.
SteeredProviders == <<<<doh1>>, <<doh2>>, <<dns>>>>

Symmetric == Permutations(Objs) \cup Permutations(Callers) \cup Permutations(Testers)
=============================================================================
