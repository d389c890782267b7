----------------------- MODULE MCAWSClusterController -----------------------
(***************************************************************************)
(* Instances of AWSClusterController, with the specifications it           *)
(* implements, for TLC.                                                    *)
(***************************************************************************)
EXTENDS AWSClusterControllerRefinement, TLC

VpcSymmetry == Permutations(VpcIds)
=============================================================================
