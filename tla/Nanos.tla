-------------------------------- MODULE Nanos --------------------------------
(****************************************************************************)
(* Integer nano-USD arithmetic of the budget ledger                         *)
(* (src/ylang/usage/hard_budget.py).  Every amount the ledger accepts has   *)
(* passed checked_nanos, so it lies in 0..MaxNanos; sums are exact integers *)
(* and the ledger compares them with a limit that is itself in range, so a  *)
(* sum that leaves the range is refused by the comparison as well as by     *)
(* checked_nanos.                                                           *)
(****************************************************************************)
EXTENDS Integers, FiniteSets

CONSTANTS
    MaxNanos,   \* the largest amount, 2^63 - 1 in the code
    Null        \* SQL's NULL: an amount that is not known

ASSUME MaxNanosAssumption == MaxNanos \in Nat

\* What checked_nanos admits.
Nanos == 0..MaxNanos

(****************************************************************************)
(* The sum of f over the finite set S, written as the number of points      *)
(* under f: a definition without recursion, for functions into Nanos.       *)
(****************************************************************************)
TotalOver(f, S) ==
    Cardinality({p \in S \X (1..MaxNanos) : p[2] <= f[p[1]]})

==============================================================================
