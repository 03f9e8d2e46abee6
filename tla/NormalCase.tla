----------------------------- MODULE NormalCase -----------------------------
(***************************************************************************)
(* The normal case of RBFT: pre-prepare, prepare, commit, in-order         *)
(* execution and the stable checkpoint that garbage-collects it, for one   *)
(* view of one epoch under primary rotation (the non-WRF election).        *)
(*                                                                         *)
(* The whole state of a replica is one record, and every handler of        *)
(* rbft_impl.go is an operator from records to records, so that the calls  *)
(* a handler makes are compositions and one event is one step.  Messages   *)
(* are read from the history fields out* of their senders: a message once  *)
(* sent may arrive at any later time, any number of times, in any order,   *)
(* or never.  A faulty validator may send anything at any time.            *)
(***************************************************************************)
EXTENDS RbftQuorum, FiniteSetsExt

CONSTANTS
  Correct,           \* nodes that run this code (validators or candidates)
  Byz,               \* validators that may send arbitrary messages
  Primary,           \* the primary of the view
  Digest,            \* batch digests
  NullDigest,        \* the empty digest of a no-op batch
  MaxSeq,            \* bound on sequence numbers
  K,                 \* CheckpointPeriod
  L,                 \* size of the watermark window
  CacheNumber,       \* config.CommittedBlockCacheNumber
  ViewChangeSeqNo,   \* vcMgr.viewChangeSeqNo, 0 when automatic vc is off
  PoolResult,        \* possible answers of the transaction pool
  PQCFetched,        \* TRUE: answers to a FetchPQCRequest may arrive
  TimerExpires,      \* TRUE: newViewTimer may expire
  Suspicion          \* TRUE: view changes and recoveries started elsewhere

ASSUME ConstantAssumption ==
  /\ Byz \subseteq Validator \ Correct
  /\ Primary \in Validator
  /\ MaxSeq \in Nat /\ K \in Nat \ {0} /\ L \in Nat /\ CacheNumber \in Nat
  /\ ViewChangeSeqNo \in Nat
  /\ PoolResult \subseteq {"found", "missing", "error"}
  /\ {PQCFetched, TimerExpires, Suspicion} \subseteq BOOLEAN

VARIABLE node        \* node[r]: the state of the correct node r

Seqs == 1 .. MaxSeq
ID == [n : Seqs, d : Digest]       \* msgID, its view left out

TimerState == {"off", "running", "expired"}

(***************************************************************************)
(* The first six fields are certStore, cert by cert: an id is in prePrep   *)
(* when its cert holds the pre-prepare, prepare[id] and commit[id] are the *)
(* senders its cert has recorded, sent* are the cert's flags.              *)
(***************************************************************************)
State ==
  [ prePrep : SUBSET ID,
    prepare : [ID -> SUBSET Validator],
    commit : [ID -> SUBSET Validator],
    sentPrepare : SUBSET ID,
    sentCommit : SUBSET ID,
    sentExecute : SUBSET ID,
    committedCert : SUBSET ID,
    seqMap : SUBSET ID,            \* seqMap[n] = d
    batchStore : SUBSET ID,        \* batchStore[d] with SeqNo n
    outstanding : SUBSET Digest,   \* outstandingReqBatches
    missing : SUBSET ID,           \* missingBatchesInFetching[d] = id
    seqNo : 0 .. MaxSeq,           \* batchMgr.seqNo
    H : 0 .. MaxSeq,               \* chainConfig.H
    lastExec : 0 .. MaxSeq,        \* exec.lastExec
    localCkpt : SUBSET Seqs,       \* heights of localCheckpoints
    waitExec : BOOLEAN,            \* waitCheckpointBatchExecute
    waitFin : BOOLEAN,             \* waitCheckpointFinished
    left : BOOLEAN,                \* InViewChange, in a higher view
    timer : TimerState,            \* newViewTimer
    vcEvent : BOOLEAN,             \* a ViewChangeTimerEvent is queued
    outPP : SUBSET ID,             \* history: pre-prepares broadcast
    outP : SUBSET ID,              \* history: prepares broadcast
    outC : SUBSET ID,              \* history: commits broadcast
    outK : SUBSET Seqs,            \* history: checkpoints broadcast
    executed : SUBSET ID ]         \* history: calls of external.Execute

NoSenders == [id \in ID |-> {}]

InitState ==
  [ prePrep |-> {}, prepare |-> NoSenders, commit |-> NoSenders,
    sentPrepare |-> {}, sentCommit |-> {}, sentExecute |-> {},
    committedCert |-> {}, seqMap |-> {}, batchStore |-> {},
    outstanding |-> {}, missing |-> {}, seqNo |-> 0, H |-> 0,
    lastExec |-> 0, localCkpt |-> {}, waitExec |-> FALSE,
    waitFin |-> FALSE, left |-> FALSE, timer |-> "off", vcEvent |-> FALSE,
    outPP |-> {}, outP |-> {}, outC |-> {}, outK |-> {}, executed |-> {} ]

-----------------------------------------------------------------------------
(* Predicates of helper.go and store_mgr.go *)

InWV(s, n) == ~s.left /\ n > s.H

BeyondRange(s, n) == n > s.H + L

Prepared(s, id) ==
  id \in s.prePrep /\ Cardinality(s.prepare[id]) >= CommonCaseQuorum - 1

\* Mutant: the weak quorum is enough.
CommittedWeakly(s, id) ==
  Prepared(s, id) /\ Cardinality(s.commit[id]) >= OneCorrectQuorum

Committed(s, id) ==
  Prepared(s, id) /\ Cardinality(s.commit[id]) >= CommonCaseQuorum

HasBatch(s, d) == d = NullDigest \/ \E b \in s.batchStore : b.d = d

ExistedDigest(s, id) ==
  \E other \in s.prePrep : other.d = id.d /\ other.n # id.n

IsPrePrepareLegal(s, r, id) ==
  /\ InWV(s, id.n)
  /\ r # Primary
  /\ ~(id.n <= s.lastExec /\ id \in s.prePrep)

\* Mutant: the primary's prepares count.
IsPrepareLegalOfAll(s, p, id) == InWV(s, id.n)

IsPrepareLegal(s, p, id) == InWV(s, id.n) /\ p # Primary

IsCommitLegal(s, id) == InWV(s, id.n)

-----------------------------------------------------------------------------
(* Timers and view change *)

SoftStart(timer) == IF timer = "off" THEN "running" ELSE timer

\* Mutant: nothing is started.
StartNoTimer(s) == s

StartTimerIfOutstandingRequests(s) ==
  IF s.outstanding = {} THEN s ELSE [s EXCEPT !.timer = SoftStart(@)]

(***************************************************************************)
(* beforeSendVC moves to the next view; getVcBasis then deletes every cert *)
(* of a lower view, with its entry of seqMap.  committedCert survives.     *)
(***************************************************************************)
EnterNextView(s) ==
  [s EXCEPT !.left = TRUE, !.timer = "off",
            !.prePrep = {}, !.prepare = NoSenders, !.commit = NoSenders,
            !.sentPrepare = {}, !.sentCommit = {}, !.sentExecute = {},
            !.seqMap = {}]

SendViewChange(s) == IF s.waitFin THEN s ELSE EnterNextView(s)

-----------------------------------------------------------------------------
(* Commit and execute *)

\* What findNextCommitBatch demands of an entry, but for its turn.
Executable(s, id) ==
  /\ id \in s.committedCert
  /\ id \in s.prePrep
  /\ id \notin s.sentExecute
  /\ Committed(s, id)
  /\ HasBatch(s, id.d)

\* Mutant: any executable block above lastExec is taken, gap or not.
PendingWithGaps(s) ==
  {m \in Seqs :
     /\ ~s.waitExec
     /\ m > s.lastExec
     /\ \E id \in ID : id.n = m /\ Executable(s, id)}

\* Mutant: a checkpoint height does not end the run.
PendingPastCheckpoint(s) ==
  {m \in Seqs :
     /\ ~s.waitExec
     /\ m > s.lastExec
     /\ \A k \in (s.lastExec + 1) .. m :
          \E id \in ID : id.n = k /\ Executable(s, id)}

(***************************************************************************)
(* The heights one call of commitPendingBlocks executes: the executable    *)
(* ones that follow lastExec without a gap, up to and including the first  *)
(* checkpoint height, after which findNextCommitBatch finds nothing.       *)
(***************************************************************************)
PendingRun(s) ==
  {m \in Seqs :
     /\ ~s.waitExec
     /\ m > s.lastExec
     /\ \A k \in (s.lastExec + 1) .. m :
          /\ \E id \in ID : id.n = k /\ Executable(s, id)
          /\ k < m => k % K # 0}

CommitPendingBlocks(s) ==
  LET run == PendingRun(s)
      done == {id \in ID : id.n \in run /\ Executable(s, id)}
      t == [s EXCEPT !.lastExec = IF run = {} THEN @ ELSE Max(run),
                     !.sentExecute = @ \cup done,
                     !.committedCert = @ \ done,
                     !.executed = @ \cup done,
                     !.outstanding = @ \ {id.d : id \in done},
                     !.waitExec = @ \/ \E m \in run : m % K = 0,
                     !.timer = IF run = {} THEN @ ELSE "off"]
  IN IF t.waitExec THEN t ELSE StartTimerIfOutstandingRequests(t)

\* A candidate does not count its own prepares and commits.
Counts(r, p) == p # r \/ r \in Validator

RecvCommit(s, r, p, id) ==
  IF ~IsCommitLegal(s, id) \/ (p \in s.commit[id] /\ id.n <= s.lastExec)
  THEN s
  ELSE LET t == IF Counts(r, p)
                THEN [s EXCEPT !.commit[id] = @ \cup {p}] ELSE s
           u == CommitPendingBlocks([t EXCEPT !.committedCert = @ \cup {id}])
       IN IF /\ Committed(t, id)
             /\ id \notin t.sentExecute
             /\ id \in t.sentCommit
          THEN IF ~u.waitExec /\ id.n = ViewChangeSeqNo
               THEN SendViewChange(u) ELSE u
          ELSE t

\* Mutant: our own commit is stored, but not handled.
SendCommitStoreOnly(s, r, id) ==
  [s EXCEPT !.sentCommit = @ \cup {id},
            !.outC = IF r \in Validator THEN @ \cup {id} ELSE @,
            !.commit[id] = IF r \in Validator THEN @ \cup {r} ELSE @]

SendCommit(s, r, id) ==
  LET t == [s EXCEPT !.sentCommit = @ \cup {id},
                     !.outC = IF r \in Validator THEN @ \cup {id} ELSE @]
  IN RecvCommit(t, r, r, id)

-----------------------------------------------------------------------------
(* Prepare *)

\* Mutant: the primary, too, must have sent a prepare.
MaybeSendCommitAsBackup(s, r, id) ==
  IF Prepared(s, id) /\ id \in s.sentPrepare /\ id \notin s.sentCommit
  THEN SendCommit(s, r, id)
  ELSE s

MaybeSendCommit(s, r, id) ==
  IF /\ Prepared(s, id)
     /\ r = Primary \/ id \in s.sentPrepare
     /\ id \notin s.sentCommit
  THEN SendCommit(s, r, id)
  ELSE s

\* Mutant: only the prepare of another replica is counted at once.
RecvPrepareOfOthers(s, r, p, id) ==
  IF ~IsPrepareLegal(s, p, id) \/ p \in s.prepare[id]
  THEN s
  ELSE LET t == [s EXCEPT !.prepare[id] = @ \cup {p}]
       IN IF p = r THEN t ELSE MaybeSendCommit(t, r, id)

RecvPrepare(s, r, p, id) ==
  IF ~IsPrepareLegal(s, p, id) \/ p \in s.prepare[id]
  THEN s
  ELSE LET t == IF Counts(r, p)
                THEN [s EXCEPT !.prepare[id] = @ \cup {p}] ELSE s
       IN MaybeSendCommit(t, r, id)

SendPrepare(s, r, id) ==
  LET t == [s EXCEPT !.sentPrepare = @ \cup {id},
                     !.outP = IF r \in Validator THEN @ \cup {id} ELSE @]
  IN RecvPrepare(t, r, r, id)

(***************************************************************************)
(* pool is the answer of requestPool.GetRequestsByHashList, asked only for *)
(* a batch that is neither a no-op nor in batchStore.                      *)
(***************************************************************************)
FindNextPrepareBatch(s, r, id, pool) ==
  IF s.left \/ id \notin s.prePrep THEN s
  ELSE IF HasBatch(s, id.d) THEN SendPrepare(s, r, id)
  ELSE CASE pool = "error" -> SendViewChange(s)
         [] pool = "missing" ->
              IF \E m \in s.missing : m.d = id.d
              THEN s ELSE [s EXCEPT !.missing = @ \cup {id}]
         [] pool = "found" ->
              SendPrepare([s EXCEPT !.batchStore = @ \cup {id},
                                    !.outstanding = @ \cup {id.d}], r, id)

-----------------------------------------------------------------------------
(* Pre-prepare *)

\* Mutant: the digests of one height are compared only once it is executed.
ConflictsOnceExecuted(s, id) ==
  id.n <= s.lastExec /\ \E e \in s.seqMap : e.n = id.n /\ e.d # id.d

\* seqMap holds another digest for the height.
Conflicts(s, id) == \E e \in s.seqMap : e.n = id.n /\ e.d # id.d

(***************************************************************************)
(* valid: the digest is the hash of the transaction list.  A pre-prepare   *)
(* beyond the high watermark is accepted like any other (it only starts    *)
(* the high-watermark timer).                                              *)
(***************************************************************************)
RecvPrePrepare(s, r, id, valid, pool) ==
  LET t == [s EXCEPT !.prePrep = @ \cup {id},
                     !.seqMap = @ \cup {id},
                     !.timer = IF id.n > s.lastExec THEN SoftStart(@) ELSE @]
  IN IF Conflicts(s, id) \/ ~valid THEN SendViewChange(s)
     ELSE IF id \in t.sentPrepare THEN t
     ELSE FindNextPrepareBatch(t, r, id, pool)

\* maybeSendPrePrepare and sendPrePrepare for the batch of digest d.
MaybeSendPrePrepare(s, id) ==
  [s EXCEPT !.outstanding = @ \cup {id.d},
            !.batchStore = {b \in @ : b.d # id.d} \cup {id},
            !.timer = SoftStart(@),
            !.prePrep = @ \cup {id},
            !.seqMap = @ \cup {id},
            !.outPP = @ \cup {id},
            !.seqNo = id.n]

-----------------------------------------------------------------------------
(* Checkpoint *)

\* Mutant: the batches of the next period go, too.
CleanTargetAhead(n) == n + K

\* The height at and below which moveWatermarks(n) drops batches.
CleanTarget(n) ==
  LET pos == (n \div K) * K
      target == IF pos <= K THEN 0 ELSE pos - K
  IN IF n - target >= CacheNumber THEN target
     ELSE IF n > CacheNumber THEN n - CacheNumber ELSE 0

\* The ids for which certStore has an entry.
CertIDs(s) ==
  {id \in ID : \/ id \in s.prePrep
               \/ s.prepare[id] # {}
               \/ s.commit[id] # {}}

MoveWatermarks(s, h) ==
  LET Above(ids) == {id \in ids : id.n > h}
      Drop(senders) == [id \in ID |-> IF id.n > h THEN senders[id] ELSE {}]
      cleaned == {id \in CertIDs(s) : id.n <= h}
  IN IF s.H > h THEN s
     ELSE [s EXCEPT !.prePrep = Above(@),
                    !.prepare = Drop(@),
                    !.commit = Drop(@),
                    !.sentPrepare = Above(@),
                    !.sentCommit = Above(@),
                    !.sentExecute = Above(@),
                    !.committedCert = @ \ cleaned,
                    !.seqMap = Above(@),
                    !.outstanding = @ \ {id.d : id \in cleaned},
                    !.batchStore = {b \in @ : b.n > CleanTarget(h)},
                    !.localCkpt = {n \in @ : n >= h},
                    !.missing = Above(@),
                    !.H = h]

\* checkpoint(): nothing is generated when seqMap has lost the batch.
Checkpoint(s, r) ==
  IF \E e \in s.seqMap : e.n = s.lastExec
  THEN [s EXCEPT !.localCkpt = @ \cup {s.lastExec},
                 !.outK = IF r \in Validator THEN @ \cup {s.lastExec} ELSE @]
  ELSE s

\* Mutant: the high watermark becomes the low one.
FinishAtHighWatermark(s, n) == MoveWatermarks([s EXCEPT !.waitFin = FALSE], n + L)

\* recvCheckpoint once a quorum matches our own checkpoint.
FinishNormalCheckpoint(s, n) == MoveWatermarks([s EXCEPT !.waitFin = FALSE], n)

-----------------------------------------------------------------------------
(* Messages in transit *)

SaidPrePrepare(id) ==
  Primary \in Byz \/ (Primary \in Correct /\ id \in node[Primary].outPP)

SaidPrepare(p, id) == p \in Byz \/ (p \in Correct /\ id \in node[p].outP)

SaidCommit(p, id) == p \in Byz \/ (p \in Correct /\ id \in node[p].outC)

\* The block hash a checkpoint carries stands for the blocks up to it.
LedgerUpTo(s, n) == {id \in s.executed : id.n <= n}

\* Mutant: checkpoints of any height count.
VotesOfAnyHeight(r, n) ==
  {p \in Validator : p \in Byz \/ (p \in Correct \ {r} /\ node[p].outK # {})}

CheckpointVotes(r, n) ==
  {p \in Validator :
     \/ p \in Byz
     \/ /\ p \in Correct \ {r}
        /\ n \in node[p].outK
        /\ LedgerUpTo(node[p], n) = LedgerUpTo(node[r], n)}

Update(r, s) == node' = [node EXCEPT ![r] = s]

-----------------------------------------------------------------------------
(* Actions: the events of one replica *)

\* Events and messages outside the whitelists of components.go are cached
\* while a checkpoint block executes, and processed afterwards.
CanProcess(s) == ~s.waitExec

(***************************************************************************)
(* Which batch the primary proposes next (requestPool, cacheBatch) is left *)
(* open: recvRequestBatch, and the resubmission after a stable checkpoint, *)
(* are this step taken at some moment at which a batch is at hand.         *)
(***************************************************************************)
ProposeBatch(r, d) ==
  LET s == node[r]
      id == [n |-> s.seqNo + 1, d |-> d]
  IN /\ r = Primary
     /\ d # NullDigest
     /\ ~s.left /\ CanProcess(s)
     /\ id.n <= MaxSeq /\ ~BeyondRange(s, id.n)
     /\ ~ExistedDigest(s, id)
     /\ Update(r, MaybeSendPrePrepare(s, id))

HandlePrePrepare(r, id, valid, pool) ==
  /\ SaidPrePrepare(id)
  /\ valid \/ Primary \in Byz
  /\ IsPrePrepareLegal(node[r], r, id)
  /\ Update(r, RecvPrePrepare(node[r], r, id, valid, pool))

HandlePrepare(r, p, id) ==
  /\ p # r /\ SaidPrepare(p, id)
  /\ IsPrepareLegal(node[r], p, id) /\ p \notin node[r].prepare[id]
  /\ Update(r, RecvPrepare(node[r], r, p, id))

HandleCommit(r, p, id) ==
  /\ p # r /\ SaidCommit(p, id)
  /\ IsCommitLegal(node[r], id)
  /\ p \in node[r].commit[id] => id.n > node[r].lastExec
  /\ Update(r, RecvCommit(node[r], r, p, id))

ReceivePrePrepare(r) ==
  /\ CanProcess(node[r])
  /\ \E id \in ID, valid \in BOOLEAN, pool \in PoolResult :
       HandlePrePrepare(r, id, valid, pool)

ReceivePrepare(r) ==
  CanProcess(node[r]) /\ \E p \in Validator, id \in ID : HandlePrepare(r, p, id)

ReceiveCommit(r) ==
  CanProcess(node[r]) /\ \E p \in Validator, id \in ID : HandleCommit(r, p, id)

(***************************************************************************)
(* recvFetchPQCResponse hands the messages of an answer to the same three  *)
(* handlers, and is on the whitelist: it also runs while a checkpoint      *)
(* block executes.  At any other time it adds nothing to the three above.  *)
(***************************************************************************)
RecvFetchPQCResponse(r) ==
  /\ PQCFetched /\ node[r].waitExec
  /\ \/ \E id \in ID, valid \in BOOLEAN, pool \in PoolResult :
          HandlePrePrepare(r, id, valid, pool)
     \/ \E p \in Validator, id \in ID :
          HandlePrepare(r, p, id) \/ HandleCommit(r, p, id)

\* The pool's answers once it has all transactions of a batch.
PoolComplete == PoolResult \ {"missing"}

\* The primary answered a FetchMissingRequest; ok: the hashes match.
RecvFetchMissingResponse(r, id, ok, pool) ==
  LET s == node[r]
  IN /\ CanProcess(s)
     /\ \E m \in s.missing : m.d = id.d
     /\ Primary \in Byz \/ Primary \in Correct
     /\ ok \/ Primary \in Byz
     /\ id.n >= s.lastExec /\ ~s.left
     /\ id \notin s.sentCommit /\ id \in s.prePrep
     /\ Update(r, IF ok THEN FindNextPrepareBatch(s, r, id, pool)
                  ELSE SendViewChange(s))

(***************************************************************************)
(* The pool completed the batch of a missing entry.  Outside the normal    *)
(* status, or while a checkpoint block executes, the entry is dropped      *)
(* (handleNotifyFindNextBatchEvent); while waiting it is queued again as   *)
(* CoreFindNextPrepareBatchesEvent, which is the same step taken later.    *)
(***************************************************************************)
NotifyFindNextBatch(r, id, pool) ==
  LET s == node[r]
      t == FindNextPrepareBatch(s, r, id, pool)
  IN /\ CanProcess(s)
     /\ id \in s.missing
     /\ Update(r, [t EXCEPT !.missing = @ \ {id}])

(***************************************************************************)
(* recvCheckpointBlockExecutedEvent.  stable: the other votes of a quorum  *)
(* are already in checkpointStore, so that our own completes it here.      *)
(***************************************************************************)
BlockExecuted(r, stable) ==
  LET s == Checkpoint([node[r] EXCEPT !.waitExec = FALSE, !.waitFin = TRUE], r)
      n == s.lastExec
      others == Cardinality(CheckpointVotes(r, n))
      self == IF r \in Validator THEN 1 ELSE 0
      t == IF stable THEN FinishNormalCheckpoint(s, n) ELSE s
      u == StartTimerIfOutstandingRequests(t)
  IN /\ node[r].waitExec
     /\ stable => n \in s.localCkpt /\ n > s.H
                  /\ others + self >= CommonCaseQuorum
     /\ Update(r, IF n = ViewChangeSeqNo THEN SendViewChange(u) ELSE u)

\* recvCheckpoint of the message that completes the quorum for n.
RecvCheckpoint(r, n) ==
  LET s == node[r]
      self == IF r \in Validator THEN 1 ELSE 0
  IN /\ CanProcess(s)
     /\ n \in s.localCkpt /\ n > s.H
     /\ Cardinality(CheckpointVotes(r, n)) + self >= CommonCaseQuorum
     /\ Update(r, FinishNormalCheckpoint(s, n))

\* The goroutine of newViewTimer posts its event; the key stays active.
NewViewTimerFires(r) ==
  /\ TimerExpires /\ node[r].timer = "running"
  /\ Update(r, [node[r] EXCEPT !.timer = "expired", !.vcEvent = TRUE])

HandleViewChangeTimerEvent(r) ==
  LET s == [node[r] EXCEPT !.vcEvent = FALSE]
  IN /\ node[r].vcEvent /\ CanProcess(s)
     /\ Update(r, IF s.left THEN s ELSE SendViewChange(s))

(***************************************************************************)
(* A view change the node starts for a reason outside this module: the     *)
(* null request or high-watermark timer, f+1 view changes of others.       *)
(***************************************************************************)
StartViewChange(r) ==
  LET s == node[r]
  IN /\ Suspicion /\ CanProcess(s)
     /\ ~s.left /\ ~s.waitFin
     /\ Update(r, SendViewChange(s))

(***************************************************************************)
(* initRecovery: sendViewChange(true) skips the waitCheckpointFinished     *)
(* test, and recvSyncStateResponse, which calls it, is on the whitelist.   *)
(***************************************************************************)
InitRecovery(r) ==
  /\ Suspicion
  /\ ~node[r].left
  /\ Update(r, EnterNextView(node[r]))

-----------------------------------------------------------------------------
Init == node = [r \in Correct |-> InitState]

Step(r) ==
  \/ \E d \in Digest : ProposeBatch(r, d)
  \/ ReceivePrePrepare(r)
  \/ ReceivePrepare(r)
  \/ ReceiveCommit(r)
  \/ RecvFetchPQCResponse(r)
  \/ \E id \in ID, ok \in BOOLEAN, pool \in PoolComplete :
       RecvFetchMissingResponse(r, id, ok, pool)
  \/ \E id \in ID, pool \in PoolComplete : NotifyFindNextBatch(r, id, pool)
  \/ \E stable \in BOOLEAN : BlockExecuted(r, stable)
  \/ \E n \in Seqs : RecvCheckpoint(r, n)
  \/ NewViewTimerFires(r)
  \/ HandleViewChangeTimerEvent(r)
  \/ StartViewChange(r)
  \/ InitRecovery(r)

Next == \E r \in Correct : Step(r)

vars == <<node>>

Spec == Init /\ [][Next]_vars

-----------------------------------------------------------------------------
(* Properties of one replica, whatever the other validators do *)

\* Every field keeps its type.
TypeOK == node \in [Correct -> State]

(***************************************************************************)
(* A node never broadcasts prepares for two batches of one height, though  *)
(* moveWatermarks forgets seqMap and certs (sendPrepare, moveWatermarks).  *)
(***************************************************************************)
OnePreparePerSeq ==
  \A r \in Correct : \A x, y \in node[r].outP : x.n = y.n => x = y

(***************************************************************************)
(* A commit is backed: its sender knows a pre-prepare of the primary and   *)
(* CommonCaseQuorum-1 prepares that other validators really sent; no vote  *)
(* is counted twice, nor the primary's (isPrepareLegal, recvPrepare).      *)
(***************************************************************************)
CommitHasPrepareQuorum ==
  \A r \in Correct : \A id \in node[r].outC :
    /\ SaidPrePrepare(id)
    /\ Cardinality({p \in Validator \ {Primary} : SaidPrepare(p, id)})
         >= CommonCaseQuorum - 1

(***************************************************************************)
(* An executed batch is backed by commits of CommonCaseQuorum validators,  *)
(* also on a candidate, whose own votes nobody counts (recvCommit).        *)
(***************************************************************************)
ExecutedHasCommitQuorum ==
  \A r \in Correct : \A id \in node[r].executed :
    Cardinality({p \in Validator : SaidCommit(p, id)}) >= CommonCaseQuorum

(***************************************************************************)
(* In whatever order pre-prepare, batch and prepares arrive, a prepared    *)
(* cert has sent its commit: maybeSendCommit misses no wake-up.            *)
(***************************************************************************)
PreparedSendsCommit ==
  \A r \in Correct : \A id \in node[r].prePrep :
    /\ Prepared(node[r], id)
    /\ r = Primary \/ id \in node[r].sentPrepare
    => id \in node[r].sentCommit

(***************************************************************************)
(* In whatever order prepares and commits arrive, a committed cert is in   *)
(* committedCert or executed: recvCommit misses no quorum.                 *)
(***************************************************************************)
CommittedIsTracked ==
  \A r \in Correct : \A id \in node[r].sentCommit :
    Committed(node[r], id) => id \in node[r].committedCert \cup node[r].sentExecute

(***************************************************************************)
(* Blocks are executed in order and exactly once (commitPendingBlocks,     *)
(* findNextCommitBatch): one batch per height up to lastExec, none above.  *)
(***************************************************************************)
ExecutedOnceInOrder ==
  \A r \in Correct :
    /\ \A id \in node[r].executed : id.n <= node[r].lastExec
    /\ \A n \in 1 .. node[r].lastExec :
         \E id \in node[r].executed :
           id.n = n /\ \A e \in node[r].executed : e.n = n => e = id

(***************************************************************************)
(* No block past a checkpoint height is executed before the checkpoint of  *)
(* that height was generated (afterCommitBlock, checkpoint), even when     *)
(* several blocks are ready at once or arrive through a PQC answer.        *)
(***************************************************************************)
CheckpointBeforeNextBlock ==
  \A r \in Correct : \A n \in Seqs :
    n < node[r].lastExec /\ n % K = 0 => n <= node[r].H \/ n \in node[r].localCkpt

(***************************************************************************)
(* An executable block left behind is always under a newViewTimer that was *)
(* started (startTimerIfOutstandingRequests after the checkpoint block).   *)
(***************************************************************************)
PendingBlockHasTimer ==
  \A r \in Correct : PendingRun(node[r]) # {} => node[r].timer # "off"

(***************************************************************************)
(* A prepared batch stays in batchStore until it is executed: the cleaning *)
(* of moveWatermarks never drops one that commitPendingBlocks still needs. *)
(* batchStore has one entry per digest, with the height at which it was    *)
(* first seen: only a digest that was executed at a lower height before    *)
(* may be gone, and no primary that runs the code proposes one twice while *)
(* it has the cert (existedDigest); a backup does not check it.            *)
(***************************************************************************)
BatchKeptUntilExecuted ==
  \A r \in Correct : \A id \in node[r].sentPrepare :
    id.n > node[r].lastExec =>
      HasBatch(node[r], id.d) \/ \E x \in node[r].executed : x.d = id.d
=============================================================================
