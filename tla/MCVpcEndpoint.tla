---------------------------- MODULE MCVpcEndpoint ----------------------------
EXTENDS VpcEndpoint, TLC
=============================================================================
