---------------------------- MODULE MCSubnetTags ----------------------------
(***************************************************************************)
(* Instances of SubnetTags for TLC: a single key of each kind.             *)
(***************************************************************************)
EXTENDS SubnetTags
=============================================================================
