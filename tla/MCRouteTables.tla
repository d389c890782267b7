---------------------------- MODULE MCRouteTables ----------------------------
EXTENDS RouteTables, TLC
=============================================================================
