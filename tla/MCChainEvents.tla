--------------------------- MODULE MCChainEvents ---------------------------
(***************************************************************************)
(* A small instance of the repositories of chain events for TLC.            *)
(***************************************************************************)
EXTENDS ChainEvents

CONSTANTS i1, i2

TwoIds == {i1, i2}

\* The two resolutions are alike; the run has a liveness property, and no symmetry.
=============================================================================
