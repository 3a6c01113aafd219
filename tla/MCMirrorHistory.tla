--------------------------- MODULE MCMirrorHistory ----------------------------
EXTENDS ExternalAnchors
=============================================================================
