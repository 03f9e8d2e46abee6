------------------------- MODULE MCNormalCaseSafety -------------------------
(* NormalCaseSafety for TLC: several replicas of one view. *)
EXTENDS NormalCaseSafety, TLC

\* Backups that run the code are interchangeable, and so are batches.
Symmetry ==
  Permutations(Correct \ {Primary}) \cup Permutations(Digest \ {NullDigest})

\* Batches are interchangeable: fix which one the primary proposes first
\* (a run with liveness properties cannot use SYMMETRY).
CanonicalOrder ==
  \A id \in node[Primary].outPP : id.n = 1 => id.d = CHOOSE d \in Digest : TRUE
=============================================================================
