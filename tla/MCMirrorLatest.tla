---------------------------- MODULE MCMirrorLatest ----------------------------
EXTENDS MirrorLatest
=============================================================================
