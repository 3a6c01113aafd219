-------------------------- MODULE MCTransparencyLog --------------------------
EXTENDS TransparencyLog
=============================================================================
