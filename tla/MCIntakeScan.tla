---------------------------- MODULE MCIntakeScan ----------------------------
(***************************************************************************)
(* Instances of IntakeScan for TLC.                                        *)
(***************************************************************************)
EXTENDS IntakeScan, TLC

CONSTANTS h1, h2, h3, c1, c2

\* The first two files start as copies of each other; other versions differ.
MCContent == [f \in Files |-> [v \in Versions |->
                 IF v = 1 /\ f < 3 THEN h1 ELSE IF f = 1 THEN h2 ELSE h3]]

\* The first policy consists of rules, which name a collection whether it is
\* open or not; it has none for the second file.  The second policy sends the
\* first file elsewhere and has the second one classified, which chooses among
\* the open collections (llm_classify).
MCRoute == [p \in Policies |-> [A \in SUBSET Collections |-> [f \in Files |->
               IF p = 1 THEN IF f = 2 THEN None ELSE c1
               ELSE IF f = 1 THEN c2
               ELSE IF c1 \in A THEN c1 ELSE IF c2 \in A THEN c2 ELSE None]]]

\* Scans are interchangeable (safety runs only).
Symmetry == Permutations(Scanners)
=============================================================================
