--------------------------- MODULE MCBoundedEngine ---------------------------
(* BoundedEngine for TLC: identities are interchangeable model values, and  *)
(* the chains have each order of a local and a paid model that complete     *)
(* treats differently.                                                      *)
EXTENDS BoundedEngine, TLC

CONSTANTS c1, c2

TwoPaid == {<<"paid", "paid">>}
PaidThenLocal == {<<"paid", "local">>, <<"local", "paid">>}
AllChains == TwoPaid \cup PaidThenLocal

Symmetry == Permutations(Attempts) \cup Permutations(Requests) \cup Permutations(Rows)

==============================================================================
