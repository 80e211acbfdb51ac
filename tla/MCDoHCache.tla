----------------------------- MODULE MCDoHCache -----------------------------
(* Small instances of DoHCache. *)
EXTENDS DoHCache, TLC
CONSTANTS a, b

\* A name that expires before the maximum age, and one that outlives it.
ShortAndLong == a :> {1} @@ b :> {3}

OneOutlives == a :> {2} @@ b :> {2}

\* The client's clock, against the server's: right, or a second ahead.
InStep == {0}
OutOfStep == {0, 2}

Symmetric == Permutations(Queries)
SymmetricQuestions == Permutations(Queries) \cup Permutations(Questions)
=============================================================================
