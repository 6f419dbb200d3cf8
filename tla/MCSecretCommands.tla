-------------------------- MODULE MCSecretCommands --------------------------
(* A small instance of the commands send and read for TLC.                  *)
EXTENDS SecretCommands, TLC

Symmetry == Permutations(Key) \cup Permutations(Device)
             \cup Permutations(Job) \cup Permutations(Reader)
=============================================================================
