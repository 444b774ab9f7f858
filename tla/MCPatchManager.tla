--------------------------- MODULE MCPatchManager ---------------------------
(***************************************************************************)
(* Two revisions: the one a patch was written against and another one.     *)
(* Nothing tells revisions apart but the patch, so they are symmetric.     *)
(***************************************************************************)
EXTENDS PatchManager, TLC

RevisionSymmetry == Permutations(Revision)

=============================================================================
