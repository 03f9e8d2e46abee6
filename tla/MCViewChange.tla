---------------------------- MODULE MCViewChange ----------------------------
(* ViewChange for TLC: four validators, the primary rotating with the view. *)
EXTENDS ViewChange, TLC

CONSTANTS v1, v2, v3, v4

\* The primaries of views 1, 2, 3.
Rotation == [v \in 1 .. MaxView |-> CASE v = 1 -> v1 [] v = 2 -> v2 [] v = 3 -> v3]

\* Who recovers: crashes and restarts, or resends a view change.
NoRecovery == [r \in Validator |-> 0]
OneRecovers == [NoRecovery EXCEPT ![v3] = 1]
TwoRecover == [OneRecovers EXCEPT ![v4] = 1]

\* Batches are interchangeable.
Symmetry == Permutations(Digest)

(***************************************************************************)
(* The behaviours of a view in which the pre-prepare of height 1 is lost,  *)
(* and the prepares of height 2 reach the primary only: the next new view  *)
(* has a null request at height 1.                                         *)
(***************************************************************************)
FirstIsLost ==
  \A r \in Validator : \A id \in node[r].prePrep :
    /\ id.v = 1 /\ id.n = 1 => r = v1
    /\ id.v = 1 /\ id \in node[r].prepared => r = v1

\* Where height 1 has a batch of its own, the others are interchangeable.
FirstBatch == CHOOSE d \in Digest : TRUE
LaterSymmetry == Permutations(Digest \ {FirstBatch})

(***************************************************************************)
(* The behaviours in which height 1 is stable at v1, v2 and v3 before      *)
(* anyone proposes height 2, suspects the primary or recovers.  v4 had no  *)
(* part in it: it learns of it from checkpoints or a new view, and         *)
(* transfers state before it goes on with the others, or is left behind.   *)
(***************************************************************************)
FirstIsStable ==
  /\ \A r \in Validator : \A id \in node[r].outPP : id.n = 1 <=> id.d = FirstBatch
  /\ (\E r \in Validator :
        node[r].seqNo > 1 \/ node[r].view > 1 \/ node[r].recoveries > 0)
       => \A r \in {v1, v2, v3} : node[r].H >= 1
  /\ \A id \in node[v4].prePrep : id.n > 1
=============================================================================
