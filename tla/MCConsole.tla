-------------------------------- MODULE MCConsole --------------------------------
(* Two processes with an actor each; a seed and a learned template; two variants. *)
EXTENDS Console

\* A process has the name of its only actor: so the two may change places.
MCProcessOf == [a \in Actors |-> a]

Symmetry == Permutations(Actors)

Finding(slow, high, zero, repeated, winner) ==
    [slow |-> slow, high |-> high, zero |-> zero, used |-> high \cup zero,
     repeated |-> repeated, winner |-> winner]

MCVariants == {1, 2}

MCFindings ==
    {Finding(TRUE, Templates, {}, {}, 2),
     Finding(FALSE, Seeds, {}, Templates \ Seeds, Null),
     Finding(FALSE, {}, Templates, {}, Null)}

================================================================================
