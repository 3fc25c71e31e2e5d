------------------------------- MODULE MCRouting -------------------------------
(* Small instances of Routing: two models of one provider, two at home. *)
EXTENDS Routing

CONSTANTS big, small, home, spare, acme, c1, c2, nick, auto

MCProvider == big :> acme @@ small :> acme @@ home :> Null @@ spare :> Null
MCUnitCost == big :> 2 @@ small :> 1 @@ home :> 0 @@ spare :> 0

\* An older name of small; auto is nobody's name.
MCAlias == nick :> small

MCSettings ==
    { [list |-> <<home, big, small>>, floor |-> spare, band |-> 1, cap |-> 1],
      [list |-> <<big, home>>, floor |-> small, band |-> 0, cap |-> Null] }

CallSymmetry == Permutations(Calls)

===============================================================================
