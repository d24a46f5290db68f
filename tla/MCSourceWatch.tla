--------------------------- MODULE MCSourceWatch ---------------------------
(***************************************************************************)
(* Instances of SourceWatch for TLC.                                       *)
(***************************************************************************)
EXTENDS SourceWatch, TLC

\* Watches and replicas are interchangeable (safety runs only).
Symmetry == Permutations(Watches) \cup Permutations(Replicas)
=============================================================================
