------------------------ MODULE MCTransparencyChain -------------------------
EXTENDS TransparencyChain
=============================================================================
