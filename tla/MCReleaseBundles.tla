-------------------------- MODULE MCReleaseBundles --------------------------
(* Small instances of ReleaseBundles for TLC. *)
EXTENDS ReleaseBundles, TLC

CONSTANTS b1, b2, c1, c2

TwoBundles == {b1, b2}
TwoCalls == {c1, c2}

\* Neither bundles nor calls are told apart.
Symmetry == {p @@ q : p \in Permutations(TwoBundles), q \in Permutations(TwoCalls)}
=============================================================================
