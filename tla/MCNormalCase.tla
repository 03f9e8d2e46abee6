---------------------------- MODULE MCNormalCase ----------------------------
(* NormalCase for TLC: replicas against an arbitrary environment. *)
EXTENDS NormalCase, TLC

DigestSymmetry == Permutations(Digest \ {NullDigest})
=============================================================================
