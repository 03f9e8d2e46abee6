---------------------------- MODULE MCPersistence ----------------------------
(* Persistence for TLC. *)
EXTENDS Persistence, TLC

\* No batch is different from another.
Symmetry == Permutations(Digest)
=============================================================================
