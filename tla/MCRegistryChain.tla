--------------------------- MODULE MCRegistryChain ---------------------------
EXTENDS RegistryChain
=============================================================================
