--------------------------- MODULE MCCertification --------------------------
EXTENDS Certification
=============================================================================
