-------------------------- MODULE MCNotReadyBackoff --------------------------
EXTENDS NotReadyBackoff, TLC
=============================================================================
