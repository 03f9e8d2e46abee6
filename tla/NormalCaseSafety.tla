-------------------------- MODULE NormalCaseSafety --------------------------
(***************************************************************************)
(* What the normal case guarantees between replicas, when at most F        *)
(* validators do not run the code.                                         *)
(***************************************************************************)
EXTENDS NormalCase

ASSUME FaultAssumption == Cardinality(Validator \ Correct) <= F

(***************************************************************************)
(* Agreement: no two correct nodes execute different batches at one height *)
(* (recvPrePrepare, recvPrepare, recvCommit, commitPendingBlocks), however *)
(* messages are delayed and even if the primary proposes several batches.  *)
(***************************************************************************)
Agreement ==
  \A r1, r2 \in Correct :
    \A x \in node[r1].executed, y \in node[r2].executed : x.n = y.n => x = y

(***************************************************************************)
(* A batch executed anywhere is durable: every set of N-F validators, the  *)
(* replicas a view change hears from, has a correct one that prepared it   *)
(* and told so (sendCommit persists the P entry before it broadcasts).     *)
(***************************************************************************)
ExecutedIsDurable ==
  \A r \in Correct : \A id \in node[r].executed :
    \A Q \in SUBSET Validator :
      Cardinality(Q) >= AllCorrectReplicasQuorum =>
        \E p \in Q \cap Correct : id \in node[p].outC

(***************************************************************************)
(* A stable checkpoint is backed: when a node moves H to n, F+1 validators *)
(* that run the code have executed the same blocks up to n.                *)
(***************************************************************************)
StableCheckpointIsBacked ==
  \A r \in Correct :
    node[r].H > 0 =>
      Cardinality({p \in Validator \cap Correct :
        LedgerUpTo(node[p], node[r].H) = LedgerUpTo(node[r], node[r].H)})
      >= OneCorrectQuorum

\* The block of height n, and the blocks in order.
BlockAt(s, n) == (CHOOSE id \in s.executed : id.n = n).d

LedgerOf == [r \in Correct |-> [n \in 1 .. node[r].lastExec |-> BlockAt(node[r], n)]]

(***************************************************************************)
(* The correct nodes build one ledger: every event of the normal case,     *)
(* which may execute several blocks (commitPendingBlocks), appends batches *)
(* that agree with all nodes that are ahead, or leaves the ledgers alone.  *)
(***************************************************************************)
OneLedger ==
  INSTANCE Ledger WITH Replica <- Correct, Batch <- Digest, MaxRun <- MaxSeq,
                       ledger <- LedgerOf

BuildsOneLedger == OneLedger!Spec
-----------------------------------------------------------------------------
(***************************************************************************)
(* Fairness: the network delivers every message once (a commit is resent   *)
(* by nobody), the event loop takes what is queued, the executor reports   *)
(* every checkpoint block, and a running newViewTimer expires.             *)
(***************************************************************************)
FirstDelivery(r) ==
  /\ CanProcess(node[r])
  /\ \E id \in ID :
       \/ id \notin node[r].prePrep
          /\ \E pool \in PoolResult : HandlePrePrepare(r, id, TRUE, pool)
       \/ \E p \in Validator :
            \/ p \notin node[r].prepare[id] /\ HandlePrepare(r, p, id)
            \/ p \notin node[r].commit[id] /\ HandleCommit(r, p, id)

Progress(r) ==
  \/ \E stable \in BOOLEAN : BlockExecuted(r, stable)
  \/ \E n \in Seqs : RecvCheckpoint(r, n)
  \/ \E id \in ID : NotifyFindNextBatch(r, id, "found")
  \/ NewViewTimerFires(r)
  \/ HandleViewChangeTimerEvent(r)
  \/ FirstDelivery(r)

\* Each replica can take only finitely many progress steps, so fairness of
\* their union is fairness of each of them.
FairSpec == Spec /\ WF_vars(\E r \in Correct : Progress(r))

(***************************************************************************)
(* With a correct primary and a quorum of correct validators nobody waits  *)
(* on anybody forever: once MaxSeq batches are proposed, every correct     *)
(* node executes them all and stops waiting for a stable checkpoint, or    *)
(* has left the view (recvPrePrepare .. commitPendingBlocks, checkpoint).  *)
(***************************************************************************)
ProposedIsExecuted ==
  (Primary \in Correct /\ node[Primary].seqNo = MaxSeq) ~>
    \A r \in Correct :
      \/ node[r].left
      \/ node[r].lastExec = MaxSeq /\ ~node[r].waitExec /\ ~node[r].waitFin
=============================================================================
