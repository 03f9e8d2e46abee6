--------------------------- MODULE MCStateTransfer ---------------------------
(* StateTransfer for TLC. *)
EXTENDS StateTransfer, TLC

CONSTANT Suspect   \* the other validator that may be faulty

\* The other validators are interchangeable.
Symmetry == Permutations(Validator \ {Self, Suspect})

MCFaultySets == {{Self}, {Suspect}}
=============================================================================
