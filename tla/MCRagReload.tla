---------------------------- MODULE MCRagReload ----------------------------
(***************************************************************************)
(* Instances of RagReload for TLC.                                         *)
(***************************************************************************)
EXTENDS RagReload, TLC

CONSTANTS f1, f2, p1

\* The files are interchangeable.  Used only where no liveness is checked.
FileSymmetry == Permutations(File)

=============================================================================
