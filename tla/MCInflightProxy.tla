--------------------------- MODULE MCInflightProxy ---------------------------
(* Small instances of InflightProxy. *)
EXTENDS InflightProxy, TLC
=============================================================================
