-------------------------- MODULE MCPairedEvaluation --------------------------
(* PairedEvaluation for TLC: identities are interchangeable model values.   *)
EXTENDS PairedEvaluation, TLC

TwoPaid == {<<"paid", "paid">>}

Symmetry == Permutations(Attempts) \cup Permutations(Requests) \cup Permutations(Rows)

==============================================================================
