----------------------------- MODULE MCHardBudget -----------------------------
(* HardBudget for TLC: identities are interchangeable model values.         *)
EXTENDS LedgerAuthority, TLC

Symmetry == Permutations(Attempts) \cup Permutations(Requests)
                \cup Permutations(Scopes) \cup Permutations(Rows)

==============================================================================
