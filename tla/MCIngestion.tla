---------------------------- MODULE MCIngestion ----------------------------
(***************************************************************************)
(* Instances of Ingestion for TLC.                                         *)
(***************************************************************************)
EXTENDS Ingestion, TLC

\* Every settings version cuts a document into a different number of chunks.
MCPieces == [v \in Cfgs |-> v + 1]

\* Workers, documents and collections are interchangeable (safety runs only).
Symmetry == Permutations(Workers) \cup Permutations(Documents)
              \cup Permutations(Collections) \cup Permutations(Clients)
=============================================================================
