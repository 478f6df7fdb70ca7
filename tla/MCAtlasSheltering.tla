------------------------- MODULE MCAtlasSheltering -------------------------
EXTENDS AtlasSheltering, TLC

CONSTANTS c1, b1, b2

Single == c1 :> b1
=============================================================================
