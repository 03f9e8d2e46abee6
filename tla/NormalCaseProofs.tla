-------------------------- MODULE NormalCaseProofs --------------------------
(***************************************************************************)
(* Type correctness of the normal case, for every number of validators,    *)
(* batches and heights.  One lemma per handler of rbft_impl.go, in the     *)
(* order in which they call each other, then one step per event.           *)
(***************************************************************************)
EXTENDS NormalCase, TLAPS, WellFoundedInduction, NaturalsInduction

\* The largest of some heights is one of them, and none is above it:
\* commitPendingBlocks advances lastExec to the last height it executed.
LEMMA MaxInSet ==
  ASSUME NEW S \in SUBSET Seqs, S # {}
  PROVE  Max(S) \in S /\ \A y \in S : Max(S) >= y
<1>1. MaxSeq \in Nat
  BY ConstantAssumption
<1> DEFINE R == OpToRel(<, Nat)
           Gap(x) == MaxSeq - x
           G == {g \in Nat : \E x \in S : g = Gap(x)}
<1>2. IsWellFoundedOn(R, Nat)
  BY NatLessThanWellFounded
<1>3. \A x, y \in Nat : <<x, y>> \in R <=> x < y
  BY DEF OpToRel
<1>4. \A x \in S : x \in Nat /\ Gap(x) \in Nat
  BY <1>1 DEF Seqs
<1>5. G # {}
  BY <1>4
<1>6. G \subseteq Nat
  OBVIOUS
<1> HIDE DEF R
<1>7. PICK g \in G : \A h \in G : ~(<<h, g>> \in R)
  <2> HIDE DEF G
  <2> QED BY <1>2, <1>5, <1>6, WFMin
<1>8. PICK x \in S : g = Gap(x)
  OBVIOUS
<1>9. \A y \in S : x >= y
  <2> SUFFICES ASSUME NEW y \in S PROVE x >= y
    OBVIOUS
  <2>1. Gap(y) \in G
    BY <1>4
  <2>2. ~(Gap(y) < g)
    BY <2>1, <1>3, <1>4, <1>7
  <2> QED BY <2>2, <1>1, <1>4, <1>8
<1> QED BY <1>9 DEF Max

\* startTimerIfOutstandingRequests keeps the types.
LEMMA StartTimerType ==
  ASSUME NEW s \in State
  PROVE  StartTimerIfOutstandingRequests(s) \in State
BY DEF StartTimerIfOutstandingRequests, State, SoftStart, TimerState

\* Leaving the view (beforeSendVC, getVcBasis) keeps the types.
LEMMA EnterNextViewType ==
  ASSUME NEW s \in State
  PROVE  EnterNextView(s) \in State
BY DEF EnterNextView, State, NoSenders, TimerState

\* sendViewChange keeps the types.
LEMMA SendViewChangeType ==
  ASSUME NEW s \in State
  PROVE  SendViewChange(s) \in State
BY EnterNextViewType DEF SendViewChange

\* commitPendingBlocks keeps the types: lastExec stays a height.
LEMMA CommitPendingBlocksType ==
  ASSUME NEW s \in State
  PROVE  CommitPendingBlocks(s) \in State
<1> DEFINE run == PendingRun(s)
           done == {id \in ID : id.n \in run /\ Executable(s, id)}
           last == IF run = {} THEN s.lastExec ELSE Max(run)
           wait == s.waitExec \/ \E m \in run : m % K = 0
           timer == IF run = {} THEN s.timer ELSE "off"
           out == s.outstanding \ {id.d : id \in done}
           t == [s EXCEPT !.lastExec = last,
                          !.sentExecute = @ \cup done,
                          !.committedCert = @ \ done,
                          !.executed = @ \cup done,
                          !.outstanding = out,
                          !.waitExec = wait,
                          !.timer = timer]
<1>1. run \in SUBSET Seqs
  BY DEF PendingRun
<1>2. last \in 0 .. MaxSeq
  <2>1. run # {} => Max(run) \in Seqs
    BY <1>1, MaxInSet
  <2> QED BY <2>1, ConstantAssumption DEF State, Seqs
<1>3. done \in SUBSET ID
  OBVIOUS
<1>4. wait \in BOOLEAN
  BY DEF State
<1>5. timer \in TimerState
  BY DEF State, TimerState
<1>6. out \in SUBSET Digest
  BY DEF State
<1>7. CommitPendingBlocks(s) =
        IF t.waitExec THEN t ELSE StartTimerIfOutstandingRequests(t)
  BY DEF CommitPendingBlocks
<1>8. t \in State
  <2> HIDE DEF done, last, wait, timer, out
  <2> QED BY <1>2, <1>3, <1>4, <1>5, <1>6 DEF State
<1> QED BY <1>7, <1>8, StartTimerType

\* recvCommit keeps the types if the sender it counts is a validator.
LEMMA RecvCommitType ==
  ASSUME NEW s \in State, NEW r, NEW p, NEW id \in ID,
         Counts(r, p) => p \in Validator
  PROVE  RecvCommit(s, r, p, id) \in State
<1> DEFINE t == IF Counts(r, p)
                THEN [s EXCEPT !.commit[id] = @ \cup {p}] ELSE s
           v == [t EXCEPT !.committedCert = @ \cup {id}]
           u == CommitPendingBlocks(v)
<1>1. t \in State
  BY DEF State
<1>2. v \in State
  <2> HIDE DEF t
  <2> QED BY <1>1 DEF State
<1>3. u \in State /\ SendViewChange(u) \in State
  BY <1>2, CommitPendingBlocksType, SendViewChangeType
<1>4. RecvCommit(s, r, p, id) \in {s, t, u, SendViewChange(u)}
  <2> HIDE DEF t
  <2> QED BY DEF RecvCommit, t
<1> QED BY <1>1, <1>3, <1>4

\* sendCommit, which handles its own commit at once, keeps the types.
LEMMA SendCommitType ==
  ASSUME NEW s \in State, NEW r, NEW id \in ID
  PROVE  SendCommit(s, r, id) \in State
<1> DEFINE t == [s EXCEPT !.sentCommit = @ \cup {id},
                          !.outC = IF r \in Validator THEN @ \cup {id} ELSE @]
<1>1. t \in State
  BY DEF State
<1>2. Counts(r, r) => r \in Validator
  BY DEF Counts
<1> QED BY <1>1, <1>2, RecvCommitType DEF SendCommit

\* maybeSendCommit keeps the types.
LEMMA MaybeSendCommitType ==
  ASSUME NEW s \in State, NEW r, NEW id \in ID
  PROVE  MaybeSendCommit(s, r, id) \in State
BY SendCommitType DEF MaybeSendCommit

\* recvPrepare keeps the types if the sender it counts is a validator.
LEMMA RecvPrepareType ==
  ASSUME NEW s \in State, NEW r, NEW p, NEW id \in ID,
         Counts(r, p) => p \in Validator
  PROVE  RecvPrepare(s, r, p, id) \in State
<1> DEFINE t == IF Counts(r, p)
                THEN [s EXCEPT !.prepare[id] = @ \cup {p}] ELSE s
<1>1. t \in State
  BY DEF State
<1>2. MaybeSendCommit(t, r, id) \in State
  BY <1>1, MaybeSendCommitType
<1> QED BY <1>2 DEF RecvPrepare

\* sendPrepare, which handles its own prepare at once, keeps the types.
LEMMA SendPrepareType ==
  ASSUME NEW s \in State, NEW r, NEW id \in ID
  PROVE  SendPrepare(s, r, id) \in State
<1> DEFINE t == [s EXCEPT !.sentPrepare = @ \cup {id},
                          !.outP = IF r \in Validator THEN @ \cup {id} ELSE @]
<1>1. t \in State
  BY DEF State
<1>2. Counts(r, r) => r \in Validator
  BY DEF Counts
<1> QED BY <1>1, <1>2, RecvPrepareType DEF SendPrepare

\* findNextPrepareBatch keeps the types whatever the pool answers.
LEMMA FindNextPrepareBatchType ==
  ASSUME NEW s \in State, NEW r, NEW id \in ID, NEW pool \in PoolResult
  PROVE  FindNextPrepareBatch(s, r, id, pool) \in State
<1> DEFINE found == [s EXCEPT !.batchStore = @ \cup {id},
                              !.outstanding = @ \cup {id.d}]
           miss == [s EXCEPT !.missing = @ \cup {id}]
<1>1. found \in State
  BY DEF State, ID
<1>2. miss \in State
  BY DEF State
<1>3. pool \in {"found", "missing", "error"}
  BY ConstantAssumption
<1>4. FindNextPrepareBatch(s, r, id, pool) \in
        {s, SendPrepare(s, r, id), SendViewChange(s), miss,
         SendPrepare(found, r, id)}
  BY <1>3, Zenon DEF FindNextPrepareBatch
<1> QED
  BY <1>1, <1>2, <1>4, SendPrepareType, SendViewChangeType

\* recvPrePrepare keeps the types.
LEMMA RecvPrePrepareType ==
  ASSUME NEW s \in State, NEW r, NEW id \in ID, NEW valid,
         NEW pool \in PoolResult
  PROVE  RecvPrePrepare(s, r, id, valid, pool) \in State
<1> DEFINE timer == IF id.n > s.lastExec THEN SoftStart(s.timer) ELSE s.timer
           t == [s EXCEPT !.prePrep = @ \cup {id},
                          !.seqMap = @ \cup {id},
                          !.timer = timer]
<1>1. timer \in TimerState
  BY DEF State, SoftStart, TimerState
<1>2. t \in State
  <2> HIDE DEF timer
  <2> QED BY <1>1 DEF State
<1>3. RecvPrePrepare(s, r, id, valid, pool) \in
        {SendViewChange(s), t, FindNextPrepareBatch(t, r, id, pool)}
  BY Zenon DEF RecvPrePrepare
<1> QED BY <1>2, <1>3, SendViewChangeType, FindNextPrepareBatchType

\* maybeSendPrePrepare and sendPrePrepare keep the types.
LEMMA MaybeSendPrePrepareType ==
  ASSUME NEW s \in State, NEW id \in ID
  PROVE  MaybeSendPrePrepare(s, id) \in State
<1> DEFINE out == s.outstanding \cup {id.d}
           store == {b \in s.batchStore : b.d # id.d} \cup {id}
           timer == SoftStart(s.timer)
           n == id.n
<1>1. out \in SUBSET Digest
  BY DEF State, ID
<1>2. store \in SUBSET ID
  BY DEF State
<1>3. timer \in TimerState
  BY DEF State, SoftStart, TimerState
<1>4. n \in 0 .. MaxSeq
  BY DEF ID, Seqs
<1> DEFINE t == [s EXCEPT !.outstanding = out, !.batchStore = store,
                          !.timer = timer, !.prePrep = @ \cup {id},
                          !.seqMap = @ \cup {id}, !.outPP = @ \cup {id},
                          !.seqNo = n]
<1>5. MaybeSendPrePrepare(s, id) = t
  BY DEF MaybeSendPrePrepare
<1>6. t \in State
  <2> HIDE DEF out, store, timer, n
  <2> QED BY <1>1, <1>2, <1>3, <1>4 DEF State
<1> QED BY <1>5, <1>6

\* What moveWatermarks leaves in every field that the invariants are about:
\* certs and seqMap above h, all histories.
Cleaned(s, h, t) ==
  /\ t.prePrep = {id \in s.prePrep : id.n > h}
  /\ t.seqMap = {id \in s.seqMap : id.n > h}
  /\ t.missing = {id \in s.missing : id.n > h}
  /\ t.prepare = [id \in ID |-> IF id.n > h THEN s.prepare[id] ELSE {}]
  /\ t.commit = [id \in ID |-> IF id.n > h THEN s.commit[id] ELSE {}]
  /\ t.H = h /\ t.left = s.left /\ t.seqNo = s.seqNo
  /\ t.outP = s.outP /\ t.outPP = s.outPP /\ t.outC = s.outC
  /\ t.executed = s.executed
  /\ t.sentPrepare = {id \in s.sentPrepare : id.n > h}
  /\ t.sentCommit = {id \in s.sentCommit : id.n > h}
  /\ t.sentExecute = {id \in s.sentExecute : id.n > h}
  /\ t.committedCert = s.committedCert \ {id \in CertIDs(s) : id.n <= h}
  /\ t.batchStore = {b \in s.batchStore : b.n > CleanTarget(h)}
  /\ t.localCkpt = {n \in s.localCkpt : n >= h}
  /\ t.lastExec = s.lastExec /\ t.waitExec = s.waitExec /\ t.outK = s.outK

\* moveWatermarks keeps the types and cleans everything up to h.
LEMMA MoveWatermarksFields ==
  ASSUME NEW s \in State, NEW h \in Seqs
  PROVE  /\ MoveWatermarks(s, h) \in State
         /\ s.H <= h => Cleaned(s, h, MoveWatermarks(s, h))
<1> DEFINE Above(ids) == {id \in ids : id.n > h}
           Drop(senders) == [id \in ID |-> IF id.n > h THEN senders[id] ELSE {}]
           cleaned == {id \in CertIDs(s) : id.n <= h}
           f1 == Above(s.prePrep)
           f2 == Drop(s.prepare)
           f3 == Drop(s.commit)
           f4 == Above(s.sentPrepare)
           f5 == Above(s.sentCommit)
           f6 == Above(s.sentExecute)
           f7 == s.committedCert \ cleaned
           f8 == Above(s.seqMap)
           f9 == s.outstanding \ {id.d : id \in cleaned}
           f10 == {b \in s.batchStore : b.n > CleanTarget(h)}
           f11 == {n \in s.localCkpt : n >= h}
           f12 == Above(s.missing)
           t == [s EXCEPT !.prePrep = f1, !.prepare = f2, !.commit = f3,
                          !.sentPrepare = f4, !.sentCommit = f5,
                          !.sentExecute = f6, !.committedCert = f7,
                          !.seqMap = f8, !.outstanding = f9,
                          !.batchStore = f10, !.localCkpt = f11,
                          !.missing = f12, !.H = h]
<1>1. {f1, f4, f5, f6, f7, f8, f10, f12} \subseteq SUBSET ID
  BY DEF State
<1>2. f2 \in [ID -> SUBSET Validator] /\ f3 \in [ID -> SUBSET Validator]
  BY DEF State
<1>3. f9 \in SUBSET Digest
  BY DEF State
<1>4. f11 \in SUBSET Seqs
  BY DEF State
<1>5. h \in 0 .. MaxSeq
  BY DEF Seqs
<1>6. t \in State
  <2> HIDE DEF f1, f2, f3, f4, f5, f6, f7, f8, f9, f10, f11, f12
  <2> QED BY <1>1, <1>2, <1>3, <1>4, <1>5 DEF State
<1>7. MoveWatermarks(s, h) = IF s.H > h THEN s ELSE t
  BY DEF MoveWatermarks
<1>8. /\ t.prePrep = f1 /\ t.prepare = f2 /\ t.commit = f3 /\ t.seqMap = f8
      /\ t.missing = f12 /\ t.H = h /\ t.left = s.left /\ t.seqNo = s.seqNo
      /\ t.outP = s.outP /\ t.outPP = s.outPP /\ t.outC = s.outC
      /\ t.executed = s.executed
      /\ t.sentPrepare = f4 /\ t.sentCommit = f5 /\ t.sentExecute = f6
      /\ t.committedCert = f7 /\ t.batchStore = f10 /\ t.localCkpt = f11
      /\ t.lastExec = s.lastExec /\ t.waitExec = s.waitExec /\ t.outK = s.outK
  <2> HIDE DEF f1, f2, f3, f4, f5, f6, f7, f8, f9, f10, f11, f12
  <2> QED BY DEF State
<1>9. s.H <= h => ~(s.H > h)
  BY <1>5, ConstantAssumption DEF State
<1>10. Cleaned(s, h, t)
  <2> HIDE DEF t
  <2> QED BY <1>8 DEF Cleaned
<1> HIDE DEF t
<1> QED BY <1>6, <1>7, <1>9, <1>10

\* checkpoint keeps the types: it is generated for a height in seqMap.
LEMMA CheckpointType ==
  ASSUME NEW s \in State, NEW r
  PROVE  Checkpoint(s, r) \in State
<1>1. (\E e \in s.seqMap : e.n = s.lastExec) => s.lastExec \in Seqs
  BY DEF State, ID
<1> QED BY <1>1 DEF Checkpoint, State

\* The end of recvCheckpoint keeps the types.
LEMMA FinishNormalCheckpointType ==
  ASSUME NEW s \in State, NEW n \in Seqs
  PROVE  FinishNormalCheckpoint(s, n) \in State
<1>1. [s EXCEPT !.waitFin = FALSE] \in State
  BY DEF State
<1> QED BY <1>1, MoveWatermarksFields DEF FinishNormalCheckpoint

\* A step of one replica to a well-typed record keeps TypeOK.
LEMMA UpdateType ==
  ASSUME TypeOK, NEW r \in Correct, NEW s \in State, Update(r, s)
  PROVE  TypeOK'
BY DEF TypeOK, Update

\* Every event of a replica keeps TypeOK.
LEMMA StepType ==
  ASSUME TypeOK, NEW r \in Correct, Step(r)
  PROVE  TypeOK'
<1>0. node[r] \in State
  BY DEF TypeOK
<1>1. CASE \E d \in Digest : ProposeBatch(r, d)
  <2> PICK d \in Digest : ProposeBatch(r, d)
    BY <1>1
  <2> DEFINE id == [n |-> node[r].seqNo + 1, d |-> d]
  <2>1. id \in ID
    BY <1>0, ConstantAssumption DEF ProposeBatch, ID, Seqs, State
  <2>2. Update(r, MaybeSendPrePrepare(node[r], id))
    BY DEF ProposeBatch
  <2> QED BY <1>0, <2>1, <2>2, MaybeSendPrePrepareType, UpdateType
<1>2. ASSUME NEW id \in ID, NEW valid \in BOOLEAN, NEW pool \in PoolResult,
             HandlePrePrepare(r, id, valid, pool)
      PROVE  TypeOK'
  BY <1>0, <1>2, RecvPrePrepareType, UpdateType DEF HandlePrePrepare
<1>3. ASSUME NEW p \in Validator, NEW id \in ID, HandlePrepare(r, p, id)
      PROVE  TypeOK'
  BY <1>0, <1>3, RecvPrepareType, UpdateType DEF HandlePrepare
<1>4. ASSUME NEW p \in Validator, NEW id \in ID, HandleCommit(r, p, id)
      PROVE  TypeOK'
  BY <1>0, <1>4, RecvCommitType, UpdateType DEF HandleCommit
<1>5. CASE ReceivePrePrepare(r)
  BY <1>2, <1>5 DEF ReceivePrePrepare
<1>6. CASE ReceivePrepare(r)
  BY <1>3, <1>6 DEF ReceivePrepare
<1>7. CASE ReceiveCommit(r)
  BY <1>4, <1>7 DEF ReceiveCommit
<1>8. CASE RecvFetchPQCResponse(r)
  BY <1>2, <1>3, <1>4, <1>8 DEF RecvFetchPQCResponse
<1>9. ASSUME NEW id \in ID, NEW ok \in BOOLEAN, NEW pool \in PoolComplete,
             RecvFetchMissingResponse(r, id, ok, pool)
      PROVE  TypeOK'
  <2>1. FindNextPrepareBatch(node[r], r, id, pool) \in State
    BY <1>0, FindNextPrepareBatchType DEF PoolComplete
  <2>2. SendViewChange(node[r]) \in State
    BY <1>0, SendViewChangeType
  <2> QED BY <1>9, <2>1, <2>2, UpdateType DEF RecvFetchMissingResponse
<1>10. ASSUME NEW id \in ID, NEW pool \in PoolComplete,
              NotifyFindNextBatch(r, id, pool)
       PROVE  TypeOK'
  <2> DEFINE t == FindNextPrepareBatch(node[r], r, id, pool)
  <2>1. t \in State
    BY <1>0, FindNextPrepareBatchType DEF PoolComplete
  <2> HIDE DEF t
  <2>2. [t EXCEPT !.missing = @ \ {id}] \in State
    BY <2>1 DEF State
  <2> QED BY <1>10, <2>2, UpdateType DEF NotifyFindNextBatch, t
<1>11. ASSUME NEW stable \in BOOLEAN, BlockExecuted(r, stable)
       PROVE  TypeOK'
  <2> DEFINE b == [node[r] EXCEPT !.waitExec = FALSE, !.waitFin = TRUE]
             s == Checkpoint(b, r)
             n == s.lastExec
             t == IF stable THEN FinishNormalCheckpoint(s, n) ELSE s
             u == StartTimerIfOutstandingRequests(t)
             v == IF n = ViewChangeSeqNo THEN SendViewChange(u) ELSE u
  <2>1. Update(r, v) /\ (stable => n \in s.localCkpt)
    BY <1>11 DEF BlockExecuted
  <2>2. b \in State
    BY <1>0 DEF State
  <2>3. s \in State
    <3> HIDE DEF b
    <3> QED BY <2>2, CheckpointType
  <2>4. t \in State
    <3> HIDE DEF s
    <3>1. stable => n \in Seqs
      BY <2>1, <2>3 DEF State
    <3> QED BY <2>3, <3>1, FinishNormalCheckpointType
  <2>5. u \in State
    <3> HIDE DEF t
    <3> QED BY <2>4, StartTimerType
  <2>6. v \in State
    <3> HIDE DEF u
    <3> QED BY <2>5, SendViewChangeType
  <2> HIDE DEF v
  <2> QED BY <2>1, <2>6, UpdateType
<1>12. ASSUME NEW n \in Seqs, RecvCheckpoint(r, n)
       PROVE  TypeOK'
  BY <1>0, <1>12, FinishNormalCheckpointType, UpdateType DEF RecvCheckpoint
<1>13. CASE NewViewTimerFires(r)
  <2>1. [node[r] EXCEPT !.timer = "expired", !.vcEvent = TRUE] \in State
    BY <1>0 DEF State, TimerState
  <2> QED BY <1>13, <2>1, UpdateType DEF NewViewTimerFires
<1>14. CASE HandleViewChangeTimerEvent(r)
  <2> DEFINE s == [node[r] EXCEPT !.vcEvent = FALSE]
  <2>1. s \in State
    BY <1>0 DEF State
  <2> HIDE DEF s
  <2>2. SendViewChange(s) \in State
    BY <2>1, SendViewChangeType
  <2>3. Update(r, IF s.left THEN s ELSE SendViewChange(s))
    BY <1>14 DEF HandleViewChangeTimerEvent, s
  <2> QED BY <2>1, <2>2, <2>3, UpdateType
<1>15. CASE StartViewChange(r)
  BY <1>0, <1>15, SendViewChangeType, UpdateType DEF StartViewChange
<1>16. CASE InitRecovery(r)
  BY <1>0, <1>16, EnterNextViewType, UpdateType DEF InitRecovery
<1> QED
  BY <1>1, <1>5, <1>6, <1>7, <1>8, <1>9, <1>10, <1>11, <1>12, <1>13, <1>14,
     <1>15, <1>16
  DEF Step

\* A fresh replica is well-typed.
LEMMA InitType == Init => TypeOK
BY ConstantAssumption DEF Init, InitState, TypeOK, State, NoSenders, TimerState

\* Every field of every replica keeps its type under every handler: sequence
\* numbers, watermarks and checkpoints stay within the range of heights
\* proposed, and only validators are ever recorded as voters.
THEOREM TypeCorrect == Spec => []TypeOK
<1>1. TypeOK /\ [Next]_vars => TypeOK'
  <2>1. ASSUME TypeOK, UNCHANGED vars PROVE TypeOK'
    BY <2>1 DEF TypeOK, vars
  <2>2. ASSUME TypeOK, Next PROVE TypeOK'
    BY <2>2, StepType DEF Next
  <2> QED BY <2>1, <2>2
<1> QED BY <1>1, InitType, PTL DEF Spec
=============================================================================
