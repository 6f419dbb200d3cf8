--------------------------- MODULE MCKeyRegistry ---------------------------
(* Small instances of the key directory for TLC.                            *)
EXTENDS KeyRegistry, TLC

\* Requests and keys are interchangeable.
Symmetry == Permutations(Request) \cup Permutations(Key)
=============================================================================
