------------------------------- MODULE MCImprover -------------------------------
(* Improver for TLC: two processes that serve two calls, both one each or   *)
(* one of them both.                                                        *)
EXTENDS Improver

CONSTANTS p1, p2, k1

===============================================================================
