----------------------------- MODULE Persistence -----------------------------
(***************************************************************************)
(* What one replica stores (persist.go), when, and what a restart makes of *)
(* it (restoreState).  A handler changes the memory at once and writes to  *)
(* the database entry by entry; the replica may crash between two writes.  *)
(* The other replicas are the environment: they send what a primary that   *)
(* does not equivocate, a quorum and a new view may send.  Left out, as no *)
(* report depends on them: batches, which are stored before the pre-prepare*)
(* is accepted, and the commits of the C sets.                             *)
(***************************************************************************)
EXTENDS Integers, FiniteSetsExt

CONSTANTS
  Digest,          \* digests of batches
  K,               \* CheckpointPeriod
  MaxSeq,          \* bound on heights
  MaxView,         \* bound on views
  MaxCrashes,      \* bound on crashes
  CrashInRewrite   \* a crash may come while getVcBasis rewrites the lists

ASSUME ConstantAssumption ==
  /\ K \in Nat \ {0} /\ {MaxSeq, MaxView, MaxCrashes} \subseteq Nat
  /\ CrashInRewrite \in BOOLEAN

VARIABLES
  mem,       \* the replica's state
  db,        \* the consensus database
  todo,      \* writes and broadcasts the running handler has still to do
  applied,   \* height of the application's ledger: LastServiceState
  outP,      \* prepares and pre-prepares it has broadcast
  outC,      \* commits it has broadcast after a quorum of prepares
  proposed,  \* what the primaries of the views have proposed
  certified, \* highest checkpoint height a quorum stands for
  crashes

vars == <<mem, db, todo, applied, outP, outC, proposed, certified, crashes>>

ID == [v : 1 .. MaxView, n : 1 .. MaxSeq, d : Digest]

Above(ids, h) == {id \in ids : id.n > h}

\* certStore: its entries have a pre-prepare, a quorum of prepares or both.
CertStore(m) == m.prePrep \cup m.prepares

\* prepared(): a quorum of prepares for a pre-prepare.
Prepared(m) == m.prePrep \cap m.prepares

\* Keys "qset.", "pset.", "qlist.", "plist.", "chkpt.", rbft.h and new-view.
EmptyDB ==
  [qset |-> {}, pset |-> {}, qlist |-> {}, plist |-> {},
   chkpt |-> {}, h |-> 0, view |-> 1]

-----------------------------------------------------------------------------
(* Restart *)

\* restoreCert: certs have their prepares back, also those whose pre-prepare
\* was deleted, but not seqMap nor sent flags above lastExec; the lists come
\* as they were stored.
RestoreCert(m, store) ==
  [m EXCEPT !.prePrep = store.qset,
            !.prepares = store.pset,
            !.qlist = store.qlist, !.plist = store.plist]

\* The genesis checkpoint, or that of the last period, is not stored; it is
\* built when the database holds no other.
RestoreCheckpoints(store, height) ==
  IF store.chkpt # {} THEN store.chkpt ELSE {(height \div K) * K}

\* moveWatermarks in memory.
MoveWatermarks(m, h) ==
  IF m.H > h THEN m
  ELSE [m EXCEPT !.prePrep = Above(@, h), !.prepares = Above(@, h),
                 !.seqMap = {n \in @ : n > h},
                 !.localCkpt = {n \in @ : n >= h},
                 !.qlist = Above(@, h), !.plist = Above(@, h), !.H = h]

\* What restoreState has read before it moves the low watermark.
ReadStore(store, height) ==
  RestoreCert(
    [ view |-> store.view, inVC |-> FALSE, waitExec |-> FALSE, target |-> 0,
      H |-> 0, lastExec |-> height, seqMap |-> {},
      prePrep |-> {}, prepares |-> {}, qlist |-> {}, plist |-> {},
      localCkpt |-> RestoreCheckpoints(store, height) ], store)

RestoreState(store, height) ==
  LET m == ReadStore(store, height)
  IN IF store.h = 0 THEN m ELSE MoveWatermarks(m, store.h)

-----------------------------------------------------------------------------
(* Writes *)

\* A write or a broadcast is the at-th thing its handler does.
Put(at, key, ids) == {[at |-> at, op |-> "put", key |-> key, e |-> e] : e \in ids}
Del(at, key, ids) == {[at |-> at, op |-> "del", key |-> key, e |-> e] : e \in ids}
Set(at, key, e) == {[at |-> at, op |-> "set", key |-> key, e |-> e]}
Broadcast(at, type, ids) == {[at |-> at, op |-> "send", key |-> type, e |-> e] : e \in ids}

DelQPCSet(at, ids) == Del(at, "qset", ids) \cup Del(at, "pset", ids)

(***************************************************************************)
(* What the handler may do next.  A loop over a map takes its entries in   *)
(* any order; persistDelQPCSet deletes the pre-prepare and then the        *)
(* prepares of an id before the loop goes on to another.                   *)
(***************************************************************************)
Due(w) ==
  /\ \A x \in todo : w.at <= x.at
  /\ w.op = "del" /\ w.key = "pset" => [w EXCEPT !.key = "qset"] \notin todo
  /\ w.op = "del" /\ w.key = "qset" =>
       \A x \in todo : x.op = "del" /\ x.key = "pset" => [x EXCEPT !.key = "qset"] \in todo

\* The entries under a key after w.
Entries(S, key, w) ==
  IF w.key # key THEN S ELSE IF w.op = "put" THEN S \cup {w.e} ELSE S \ {w.e}

Apply(store, w) ==
  [qset  |-> Entries(store.qset, "qset", w),   pset  |-> Entries(store.pset, "pset", w),
   qlist |-> Entries(store.qlist, "qlist", w), plist |-> Entries(store.plist, "plist", w),
   chkpt |-> Entries(store.chkpt, "chkpt", w),
   h |-> IF w.key = "h" THEN w.e ELSE store.h,
   view |-> IF w.key = "view" THEN w.e ELSE store.view]

\* moveWatermarks in the database; H comes last, and the lists are left.
WatermarkWrites(m, h) ==
  IF m.H > h THEN {}
  ELSE DelQPCSet(2, CertStore(m) \ Above(CertStore(m), h))
         \cup Del(3, "chkpt", {n \in m.localCkpt : n < h}) \cup Set(4, "h", h)

\* A handler runs when the one before has finished.
Handle(m, writes) ==
  /\ mem' = m
  /\ todo' = writes

(***************************************************************************)
(* What comes while the block of a checkpoint is being executed is cached  *)
(* until it is reported (waitCheckpointBatchExecute), and during a state   *)
(* transfer nothing is accepted.                                           *)
(***************************************************************************)
Idle == todo = {} /\ mem.target = 0 /\ ~mem.waitExec

-----------------------------------------------------------------------------
(* Handlers *)

\* Primaries propose one batch per height of a view.
MayPropose(ids) ==
  \A x, y \in proposed \cup ids : x.v = y.v /\ x.n = y.n => x = y

\* recvPrePrepare, sendPrepare (or sendPrePrepare at the primary).
RecvPrePrepare(id) ==
  /\ Idle /\ ~mem.inVC
  /\ id.v = mem.view /\ id.n > mem.H /\ id \notin mem.prePrep
  /\ MayPropose({id})
  /\ proposed' = proposed \cup {id}
  /\ Handle([mem EXCEPT !.prePrep = @ \cup {id}, !.seqMap = @ \cup {id.n}],
            Put(1, "qset", {id}) \cup Broadcast(2, "prepare", {id}))
  /\ UNCHANGED <<db, applied, outP, outC, certified, crashes>>

\* Mutant: the commit goes out before the prepares are stored.
CommitWritesLate(id) == Broadcast(1, "commit", {id}) \cup Put(2, "pset", {id})

\* sendCommit: persistPSet, then the broadcast.
CommitWrites(id) == Put(1, "pset", {id}) \cup Broadcast(2, "commit", {id})

\* The prepare that completes the quorum.
RecvPrepares(id) ==
  /\ Idle
  /\ id \in mem.prePrep \ mem.prepares /\ id.v = mem.view
  /\ Handle([mem EXCEPT !.prepares = @ \cup {id}], CommitWrites(id))
  /\ UNCHANGED <<db, applied, outP, outC, proposed, certified, crashes>>

\* The commit that completes the quorum: the block goes to the application.
RecvCommits(id) ==
  /\ Idle
  /\ id \in Prepared(mem) /\ id.v = mem.view /\ id.n = mem.lastExec + 1
  /\ Handle([mem EXCEPT !.lastExec = id.n, !.waitExec = id.n % K = 0], {})
  /\ UNCHANGED <<db, applied, outP, outC, proposed, certified, crashes>>

(***************************************************************************)
(* The application executes a block, and reports that of a checkpoint:     *)
(* checkpoint() takes its batch digest from seqMap or gives up.            *)
(***************************************************************************)
BlockExecuted ==
  LET n == applied + 1
      report == n % K = 0 /\ mem.waitExec /\ n = mem.lastExec
      made == report /\ n \in mem.seqMap
  IN /\ applied < mem.lastExec /\ todo = {} /\ mem.target = 0
     /\ applied' = n
     /\ Handle([mem EXCEPT !.waitExec = @ /\ ~report,
                           !.localCkpt = IF made THEN @ \cup {n} ELSE @],
               IF made THEN Put(1, "chkpt", {n}) ELSE {})
     /\ UNCHANGED <<db, outP, outC, proposed, certified, crashes>>

\* recvCheckpoint of the checkpoint that completes the quorum.
StableCheckpoint(n) ==
  /\ Idle
  /\ n \in mem.localCkpt /\ n > mem.H
  /\ certified' = Max({certified, n})
  /\ Handle(MoveWatermarks(mem, n), WatermarkWrites(mem, n))
  /\ UNCHANGED <<db, applied, outP, outC, proposed, crashes>>

CalcPSet(m) ==
  LET all == m.plist \cup Prepared(m)
  IN {p \in all : \A o \in all : o.n = p.n => o.v <= p.v}

CalcQSet(m) ==
  LET all == m.qlist \cup m.prePrep
  IN {q \in all : \A o \in all : o.n = q.n /\ o.d = q.d => o.v <= q.v}

\* Mutant: the Q list is not stored.
BasisWritesPList(plist, qlist, old) ==
  Del(1, "qlist", db.qlist) \cup Del(2, "plist", db.plist)
    \cup Put(3, "plist", plist) \cup DelQPCSet(5, old)

(***************************************************************************)
(* getVcBasis: the stored lists are deleted, the new ones are stored, and  *)
(* then the entries of the certs that are dropped are deleted.             *)
(***************************************************************************)
BasisWrites(plist, qlist, old) ==
  Del(1, "qlist", db.qlist) \cup Del(2, "plist", db.plist)
    \cup Put(3, "plist", plist) \cup Put(4, "qlist", qlist) \cup DelQPCSet(5, old)

\* sendViewChange, and initRecovery after a restart.
SendViewChange ==
  LET v == mem.view + 1
      plist == CalcPSet(mem)
      qlist == CalcQSet(mem)
      old == {id \in CertStore(mem) : id.v < v}
  IN /\ Idle /\ v <= MaxView
     /\ Handle([mem EXCEPT !.view = v, !.inVC = TRUE, !.plist = plist, !.qlist = qlist,
                           !.prePrep = @ \ old, !.prepares = @ \ old,
                           !.seqMap = @ \ {id.n : id \in old}],
               BasisWrites(plist, qlist, old))
     /\ UNCHANGED <<db, applied, outP, outC, proposed, certified, crashes>>

(***************************************************************************)
(* processNewView and persistNewView, for the view asked for or, by        *)
(* recovery responses, for the one that was left.                          *)
(***************************************************************************)
EnterNewView(v, x) ==
  LET live == Above(x, mem.H)
  IN /\ Idle /\ mem.inVC
     /\ \A a, b \in x : a.n = b.n => a = b
     /\ MayPropose(x)
     /\ proposed' = proposed \cup x
     /\ Handle([mem EXCEPT !.view = v, !.inVC = FALSE, !.prePrep = @ \cup live,
                           !.seqMap = @ \cup {id.n : id \in live}],
               Put(1, "qset", live) \cup Broadcast(2, "prepare", live)
                 \cup Set(3, "view", v))
     /\ UNCHANGED <<db, applied, outP, outC, certified, crashes>>

\* tryStateTransfer to a checkpoint a quorum stands for.
TryStateTransfer(t) ==
  LET old == CertStore(mem) \ Above(CertStore(mem), t)
  IN /\ Idle
     /\ t % K = 0 /\ t > mem.lastExec
     /\ certified' = Max({certified, t})
     /\ Handle([mem EXCEPT !.target = t, !.prePrep = @ \ old, !.prepares = @ \ old,
                           !.seqMap = @ \ {id.n : id \in old}],
               DelQPCSet(1, old))
     /\ UNCHANGED <<db, applied, outP, outC, proposed, crashes>>

\* recvStateUpdatedEvent.
StateUpdated ==
  LET t == mem.target
      m == [mem EXCEPT !.lastExec = t, !.target = 0,
                       !.localCkpt = @ \cup {t}]
  IN /\ todo = {} /\ t # 0
     /\ applied' = t
     /\ Handle(MoveWatermarks(m, t), Put(1, "chkpt", {t}) \cup WatermarkWrites(m, t))
     /\ UNCHANGED <<db, outP, outC, proposed, certified, crashes>>

\* The running handler goes on to its next write or broadcast.
WriteNext ==
  \E w \in todo :
    /\ Due(w)
    /\ db' = Apply(db, w)
    /\ outP' = IF w.key = "prepare" THEN outP \cup {w.e} ELSE outP
    /\ outC' = IF w.key = "commit" THEN outC \cup {w.e} ELSE outC
    /\ todo' = todo \ {w}
    /\ UNCHANGED <<mem, applied, proposed, certified, crashes>>

\* Between the first deletion of a list entry and the last entry stored.
RewritingLists == \E w \in todo : w.key \in {"plist", "qlist"}

\* A crash, and the restart from what was stored.
CrashAndRestart ==
  /\ crashes < MaxCrashes
  /\ CrashInRewrite \/ ~RewritingLists
  /\ crashes' = crashes + 1
  /\ mem' = RestoreState(db, applied)
  /\ todo' = IF db.h = 0 THEN {} ELSE WatermarkWrites(ReadStore(db, applied), db.h)
  /\ UNCHANGED <<db, applied, outP, outC, proposed, certified>>

-----------------------------------------------------------------------------
Init ==
  /\ db = EmptyDB
  /\ mem = RestoreState(EmptyDB, 0)
  /\ todo = {}
  /\ applied = 0 /\ certified = 0 /\ crashes = 0
  /\ outP = {} /\ outC = {} /\ proposed = {}

Next ==
  \/ \E id \in ID : RecvPrePrepare(id)
  \/ \E id \in mem.prePrep : RecvPrepares(id)
  \/ \E id \in Prepared(mem) : RecvCommits(id)
  \/ BlockExecuted
  \/ \E n \in mem.localCkpt : StableCheckpoint(n)
  \/ SendViewChange
  \/ \E v \in {mem.view, db.view} : \E x \in SUBSET {id \in ID : id.v = v} : EnterNewView(v, x)
  \/ \E t \in 1 .. MaxSeq : TryStateTransfer(t)
  \/ StateUpdated
  \/ WriteNext
  \/ CrashAndRestart

Spec == Init /\ [][Next]_vars

-----------------------------------------------------------------------------
(* Properties *)

\* What a restart at this moment would report in its view change.
Restored == RestoreState(db, applied)

(***************************************************************************)
(* A commit is never forgotten: whatever the replica was doing when it     *)
(* crashed, its next view change has, for every height above the           *)
(* checkpoints of a quorum, an entry of P that is the one it committed or  *)
(* one of a higher view (persistPSet, getVcBasis, restoreCert).  Sound as  *)
(* long as a crash spares the rewriting of the lists.                      *)
(***************************************************************************)
CommitSurvivesRestart ==
  ~RewritingLists =>
    \A id \in outC : id.n > certified =>
      \E p \in CalcPSet(Restored) : p.n = id.n /\ (p.v > id.v \/ p = id)

(***************************************************************************)
(* "before vc, we need to persist QPList to ensure we can restore          *)
(* committed entries after above abnormal situations" (getVcBasis): the    *)
(* same at every moment, that of the rewriting included.                   *)
(***************************************************************************)
CommitSurvivesCrash ==
  \A id \in outC : id.n > certified =>
    \E p \in CalcPSet(Restored) : p.n = id.n /\ (p.v > id.v \/ p = id)

(***************************************************************************)
(* What it prepared it can still vouch for: the Q set of a restarted       *)
(* replica has every batch it sent a prepare for, so that condition A2 of  *)
(* a new view finds F+1 of them (persistQSet, getVcBasis).                 *)
(***************************************************************************)
PrepareSurvivesRestart ==
  ~RewritingLists =>
    \A id \in outP : id.n > certified =>
      \E q \in CalcQSet(Restored) : q.n = id.n /\ q.d = id.d /\ q.v >= id.v

=============================================================================
