----------------------------- MODULE MCHashTab -----------------------------
(***************************************************************************)
(* Three names that share a slot and one that does not; and, for           *)
(* FindsInserted, a name whose hash is 0.                                  *)
(***************************************************************************)
EXTENDS HashTab, TLC

CONSTANTS k1, k2, k3, k4, v1, v2

Collide == (k1 :> 1) @@ (k2 :> 1) @@ (k3 :> 1) @@ (k4 :> 2)
Zero    == (k1 :> 0) @@ (k2 :> 1)
MCPool  == {11, 12}

\* Names with the same hash are alike, and so is what is stored.
Alike == Permutations({k1, k2, k3}) \cup Permutations({v1, v2})

=============================================================================
