----------------------------- MODULE ViewChange -----------------------------
(***************************************************************************)
(* The view change of RBFT (viewchange_mgr.go, exec.go, helper.go): view   *)
(* changes and recoveries, the quorum that makes the new primary build a   *)
(* new view, the x-set it carries over, recovery responses, restarts and   *)
(* the state transfer a new view may ask for, for several views of one     *)
(* epoch under primary rotation.  Replicas follow the code; they are slow, *)
(* they crash and restart, and messages are delayed, lost or reordered.    *)
(*                                                                         *)
(* As in NormalCase the state of a replica is one record, handlers are     *)
(* operators on records, and messages are read from the history fields     *)
(* out* of their senders.  The normal case is taken at the granularity of  *)
(* its quorums (NormalCase has it message by message): one step stands for *)
(* the arrival of the message that completes the quorum.                   *)
(***************************************************************************)
EXTENDS RbftQuorum, Sequences, FiniteSetsExt

CONSTANTS
  PrimaryOf,       \* PrimaryOf[v]: calPrimaryIDByView
  Digest,          \* digests of batches the pool generates
  NullDigest,      \* the empty digest of a no-op batch
  K,               \* CheckpointPeriod
  L,               \* size of the watermark window
  MaxSeq,          \* bound on the heights proposed
  MaxView,         \* bound on views
  Reached,         \* replicas that messages of the view change reach
  MaySuspect,      \* replicas whose timers may suspect the primary
  MaxRecoveries    \* MaxRecoveries[r]: bound on the recoveries r begins

ASSUME ConstantAssumption ==
  /\ DOMAIN PrimaryOf = 1 .. MaxView
  /\ \A v \in 1 .. MaxView : PrimaryOf[v] \in Validator
  /\ NullDigest \notin Digest
  /\ {K, L, MaxView} \subseteq Nat \ {0} /\ MaxSeq \in Nat
  /\ MaySuspect \cup Reached \subseteq Validator
  /\ MaxRecoveries \in [Validator -> Nat]

VARIABLE node        \* node[r]: the state of replica r

Views == 1 .. MaxView
Seqs == 1 .. MaxSeq
Batches == Digest \cup {NullDigest}
ID == [v : Views, n : Seqs, d : Batches]     \* msgID, and an entry of P or Q

\* A checkpoint: its digest stands for the ledger up to its height.
NoCheckpoint == [n |-> 0, ledger |-> <<>>]

(***************************************************************************)
(* start() ends in a recovery, so the first view is entered by a new view  *)
(* as well: the one every replica has accepted when the model starts.      *)
(***************************************************************************)
FirstNewView ==
  [ from |-> PrimaryOf[1], view |-> 1, xset |-> <<>>, base |-> 0,
    vcs |-> {[from |-> r, view |-> 1, h |-> 0, P |-> {}, Q |-> {},
              C |-> {NoCheckpoint}, recovery |-> TRUE] : r \in Validator} ]

InitState ==
  [ view |-> 1,
    inVC |-> FALSE,                \* InViewChange
    inRec |-> FALSE,               \* InRecovery
    vcHandled |-> FALSE,           \* vcMgr.vcHandled
    timer |-> FALSE,               \* newViewTimer waits for this new view
    waitFin |-> FALSE,             \* waitCheckpointFinished
    transferring |-> FALSE,        \* StateTransferring and SkipInProgress
    target |-> NoCheckpoint,       \* storeMgr.highStateTarget
    event |-> "none",              \* the local event a handler returns
    seqNo |-> 0, H |-> 0,
    ledger |-> <<>>,               \* blocks executed; lastExec is its length
    prePrep |-> {},                \* ids whose cert holds the pre-prepare
    sentPrepare |-> {},
    prepared |-> {},               \* ids with a quorum of prepares
    batchStore |-> {},
    missing |-> {},                \* missingReqBatches
    localCkpt |-> {NoCheckpoint},  \* localCheckpoints
    plist |-> {}, qlist |-> {},
    vcStore |-> {},                \* viewChangeStore
    nvStore |-> {},                \* newViewStore
    latestNV |-> FirstNewView,     \* latestNewView, persisted
    recoveries |-> 0,              \* counted to bound them
    outPP |-> {}, outP |-> {}, outC |-> {}, outK |-> {},
    outVC |-> {}, outNV |-> {}, outRR |-> {} ]

LastExec(s) == Len(s.ledger)

Normal(s) == ~s.inVC /\ ~s.transferring

\* saveCheckpoint: one checkpoint per height.
SaveCheckpoint(cs, c) == {o \in cs : o.n # c.n} \cup {c}

Above(ids, h) == {id \in ids : id.n > h}

MoveWatermarks(s, h) ==
  IF s.H > h THEN s
  ELSE [s EXCEPT !.prePrep = Above(@, h), !.sentPrepare = Above(@, h),
                 !.prepared = Above(@, h),
                 !.localCkpt = {c \in @ : c.n >= h},
                 !.plist = Above(@, h), !.qlist = Above(@, h),
                 !.H = h]

-----------------------------------------------------------------------------
(* The basis of a view change *)

\* Mutant: only what was prepared in the current view is reported.
CalcPSetOfCerts(s) == s.prepared

\* Per height, the entry of the highest view among plist and certs.
CalcPSet(s) ==
  LET all == s.plist \cup s.prepared
  IN {p \in all : \A o \in all : o.n = p.n => o.v <= p.v}

\* Per height and digest, the entry of the highest view.
CalcQSet(s) ==
  LET all == s.qlist \cup s.prePrep
  IN {q \in all : \A o \in all : o.n = q.n /\ o.d = q.d => o.v <= q.v}

\* Mutant: a cert that is dropped keeps its prepares.
GetVcBasisKeepsPrepared(s) ==
  [s EXCEPT !.plist = CalcPSet(s), !.qlist = CalcQSet(s),
            !.prePrep = {id \in @ : id.v >= s.view},
            !.sentPrepare = {id \in @ : id.v >= s.view}]

(***************************************************************************)
(* getVcBasis: the P and Q lists are recomputed and the certs of lower     *)
(* views dropped, with their entries of seqMap.                            *)
(***************************************************************************)
GetVcBasis(s) ==
  [s EXCEPT !.plist = CalcPSet(s), !.qlist = CalcQSet(s),
            !.prePrep = {id \in @ : id.v >= s.view},
            !.sentPrepare = {id \in @ : id.v >= s.view},
            !.prepared = {id \in @ : id.v >= s.view}]

\* gatherPQC skips entries below H only; CorrectViewChange wants none at H.
ViewChangeMsg(s, r, recovery) ==
  [ from |-> r, view |-> s.view, h |-> s.H,
    P |-> {p \in s.plist : p.n >= s.H},
    Q |-> {q \in s.qlist : q.n >= s.H},
    C |-> s.localCkpt,
    recovery |-> recovery ]

CorrectViewChange(vc) ==
  /\ \A e \in vc.P \cup vc.Q : e.v < vc.view /\ e.n > vc.h
  /\ \A c \in vc.C : c.n >= vc.h

Store(s, vc) ==
  [s EXCEPT !.vcStore =
     {o \in @ : o.view # vc.view \/ o.from # vc.from} \cup {vc}]

\* beforeSendVC, getVcBasis and the broadcast of sendViewChange, for each of
\* the views in turn: the P and Q lists are the same for all of them.
EnterViews(s, r, views, recovery) ==
  LET v == Max(views)
      t == GetVcBasis(
             [s EXCEPT !.inVC = TRUE, !.inRec = @ \/ recovery,
                       !.vcHandled = FALSE, !.timer = FALSE, !.view = v,
                       !.nvStore = {nv \in @ : nv.view \notin views},
                       !.vcStore = {vc \in @ : vc.view >= v}])
      vc == ViewChangeMsg(t, r, recovery)
      u == [t EXCEPT !.outVC = @ \cup {[vc EXCEPT !.view = w] : w \in views}]
  IN IF CorrectViewChange(vc) THEN Store(u, vc) ELSE u

-----------------------------------------------------------------------------
(* Receiving view changes *)

\* Views above our own that OneCorrectQuorum validators have asked for.
ViewsAhead(s) ==
  {w \in {vc.view : vc \in s.vcStore} :
     /\ w > s.view
     /\ Cardinality({vc.from : vc \in {o \in s.vcStore : o.view >= w}})
          >= OneCorrectQuorum}

(***************************************************************************)
(* "it sends a VIEW-CHANGE message for the smallest view in the set": each *)
(* view change sent is received by its sender, which may climb again.      *)
(* sendViewChange refuses when a checkpoint is awaited, but setView has    *)
(* already moved the view to the one before.                               *)
(***************************************************************************)
Climb(s, r) ==
  IF s.waitFin \/ s.transferring
  THEN [s EXCEPT !.view = Min(ViewsAhead(s)) - 1]
  ELSE EnterViews(s, r, ViewsAhead(s), FALSE)

QuorumFor(s, v) ==
  Cardinality({vc \in s.vcStore : vc.view = v}) >= CommonCaseQuorum

\* The end of recvViewChange for a view change to our own view.
SignalQuorum(s) ==
  IF s.inVC /\ QuorumFor(s, s.view)
  THEN [s EXCEPT !.timer = TRUE, !.event = "quorum"] ELSE s

\* Our own view change has been stored: climb, or see whether it completes
\* a quorum.
AfterOwn(s, r) ==
  IF ViewsAhead(s) = {} THEN SignalQuorum(s)
  ELSE LET t == Climb(s, r)
       IN IF s.waitFin \/ s.transferring THEN t ELSE SignalQuorum(t)

SendViewChange(s, r) ==
  IF s.waitFin \/ s.transferring THEN s
  ELSE AfterOwn(EnterViews(s, r, {s.view + 1}, FALSE), r)

\* initRecovery: sendViewChange(true) does not look at waitCheckpointFinished.
InitRecovery(s, r) ==
  IF s.transferring THEN s
  ELSE AfterOwn(EnterViews(s, r, {s.view + 1}, TRUE), r)

\* A response without the checkpoint at H is dropped by its receiver.
SendRecoveryResponse(s, r, to) ==
  [s EXCEPT !.outRR = @ \cup {[from |-> r, to |-> to, nv |-> s.latestNV, ckpt |-> c]
                               : c \in {o \in s.localCkpt : o.n = s.H}}]

SameBasis(a, b) == [a EXCEPT !.recovery = b.recovery] = b

RefusesViewChange(s, vc) ==
  \/ ~CorrectViewChange(vc)
  \/ ~vc.recovery /\ \E o \in s.vcStore : SameBasis(o, vc)

\* recvViewChange stops after storing vc.
OnlyStored(s, vc) ==
  LET Senders(vcs) == Cardinality({o.from : o \in vcs})
      vcs == s.vcStore \cup {vc}
  IN /\ vc.view >= s.view
     /\ ~(Normal(s) /\ (vc.from = PrimaryOf[s.view] \/ vc.recovery))
     /\ Senders({o \in vcs : o.view > s.view}) < OneCorrectQuorum
     /\ s.inVC /\ vc.view = s.view =>
          Senders({o \in vcs : o.view = s.view}) < CommonCaseQuorum

RecvViewChange(s, r, vc) ==
  LET t == Store(s, vc)
  IN CASE vc.view < s.view /\ vc.recovery /\ Normal(s) ->
            SendRecoveryResponse(s, r, vc.from)
       [] vc.view < s.view \/ RefusesViewChange(s, vc) -> s
       [] ViewsAhead(t) # {} -> AfterOwn(t, r)
       [] t.inVC /\ vc.view = t.view -> SignalQuorum(t)
       [] Normal(t) /\ vc.from = PrimaryOf[t.view] -> SendViewChange(t, r)
       [] Normal(t) /\ vc.recovery -> SendRecoveryResponse(t, r, vc.from)
       [] OTHER -> t

-----------------------------------------------------------------------------
(* The contents of a new view *)

(***************************************************************************)
(* selectInitialCheckpoint: the highest checkpoint that OneCorrectQuorum   *)
(* view changes list and that is not below the H of a quorum.              *)
(***************************************************************************)
InitialCheckpoints(vcs) ==
  LET eligible == {c \in UNION {vc.C : vc \in vcs} :
        /\ Cardinality({vc \in vcs : c \in vc.C}) >= OneCorrectQuorum
        /\ Cardinality({vc \in vcs : vc.h <= c.n}) >= CommonCaseQuorum}
  IN {c \in eligible : \A o \in eligible : o.n <= c.n}

\* "A1. 2f+1 messages" that have nothing prepared against em.
ConditionA1(vcs, em) ==
  Cardinality({m \in vcs :
    /\ m.h < em.n
    /\ \A p \in m.P : p.n = em.n => p.v < em.v \/ (p.v = em.v /\ p.d = em.d)})
  >= CommonCaseQuorum

\* "A2. f+1 messages" that have pre-prepared em.
ConditionA2(vcs, em) ==
  Cardinality({m \in vcs :
    \E q \in m.Q : q.n = em.n /\ q.v >= em.v /\ q.d = em.d})
  >= OneCorrectQuorum

\* Mutant: f+1 view changes without an entry are taken for a quorum.
NullConditionWeak(vcs, n) ==
  Cardinality({m \in vcs : m.h < n /\ \A p \in m.P : p.n # n})
  >= OneCorrectQuorum

NullCondition(vcs, n) ==
  Cardinality({m \in vcs : m.h < n /\ \A p \in m.P : p.n # n})
  >= CommonCaseQuorum

\* The entries of P that the loops over the set may select for height n.
Selected(vcs, n) ==
  {em \in UNION {m.P : m \in vcs} :
     em.n = n /\ ConditionA1(vcs, em) /\ ConditionA2(vcs, em)}

DigestsFor(vcs, n) ==
  IF Selected(vcs, n) # {} THEN {em.d : em \in Selected(vcs, n)}
  ELSE IF NullCondition(vcs, n) THEN {NullDigest} ELSE {}

(***************************************************************************)
(* assignSequenceNumbers: the x-sets it may return (it returns nil when    *)
(* there is none).  Null requests are pruned from the last height on for   *)
(* which an entry was selected, that entry too if it is a null request.    *)
(***************************************************************************)
AssignSequenceNumbers(vcs, h) ==
  LET range == (h + 1) .. (h + L)
      full == {f \in [range -> Batches] : \A n \in range : f[n] \in DigestsFor(vcs, n)}
      maxN == Max({n \in range : Selected(vcs, n) # {}} \cup {h + 1})
      Kept(f) == {n \in range : n < maxN \/ f[n] # NullDigest}
  IN {[n \in Kept(f) |-> f[n]] : f \in full}

-----------------------------------------------------------------------------
(* Installing a new view *)

TryStateTransfer(s, c) ==
  LET t == [s EXCEPT !.target = IF @.n >= c.n THEN @ ELSE c]
  IN IF s.transferring THEN t
     ELSE [t EXCEPT !.transferring = TRUE,
                    !.prePrep = Above(@, t.target.n),
                    !.sentPrepare = Above(@, t.target.n),
                    !.prepared = Above(@, t.target.n)]

CheckIfNeedStateUpdate(s, c) ==
  IF s.H < c.n /\ c \in s.localCkpt
  THEN MoveWatermarks(s, c.n)
  ELSE IF LastExec(s) < c.n \/ (s.H < c.n /\ \E o \in s.localCkpt : o.n = c.n)
  THEN TryStateTransfer(s, c)
  ELSE s

HasBatch(s, d) == d = NullDigest \/ d \in s.batchStore

\* Mutant: only the reset to lastExec, without the maximum over the x-set.
SeqNoOfLastExec(s, live) == LastExec(s)

SeqNoAfter(s, live) == Max({id.n : id \in live} \cup {LastExec(s)})

(***************************************************************************)
(* processNewView: certs of the x-set are rebuilt in the new view, backups *)
(* prepare them, and what is already executed is committed at once.        *)
(***************************************************************************)
ProcessNewView(s, r, xset) ==
  LET x == {[v |-> s.view, n |-> n, d |-> xset[n]] : n \in DOMAIN xset}
      live == {id \in Above(x, s.H) : HasBatch(s, id.d)}
      redone == {id \in Above(x, s.H) : id.n <= LastExec(s)}
      backup == r # PrimaryOf[s.view]
  IN [s EXCEPT !.seqNo = SeqNoAfter(s, live),
               !.prePrep = @ \cup live,
               !.sentPrepare = IF backup THEN @ \cup Above(x, s.H) ELSE @,
               !.outP = IF backup THEN @ \cup x ELSE @,
               !.outC = @ \cup redone]

\* The new view stored for the replica's view is entered and persisted.
ResetStateForNewView(s, r) ==
  LET nv == CHOOSE o \in s.nvStore : o.view = s.view
  IN IF ~s.inVC \/ \A o \in s.nvStore : o.view # s.view THEN s
     ELSE [ProcessNewView(s, r, nv.xset) EXCEPT !.latestNV = nv, !.event = "done"]

\* The batches of the x-set above H are fetched first if we miss some.
FetchOrReset(s, r, xset) ==
  LET missing == {xset[n] : n \in {m \in DOMAIN xset : m > s.H /\ ~HasBatch(s, xset[m])}}
      t == [s EXCEPT !.missing = missing]
  IN IF missing = {} THEN ResetStateForNewView(t, r) ELSE t

\* sendNewView, at the primary of the view: the states it may lead to.
SendNewView(s, r) ==
  LET vcs == {vc \in s.vcStore : vc.view = s.view}
      c == CHOOSE i \in InitialCheckpoints(vcs) : TRUE
      xsets == AssignSequenceNumbers(vcs, c.n)
      t == CheckIfNeedStateUpdate(s, c)
      NewView(x) == [from |-> r, view |-> s.view, vcs |-> vcs, xset |-> x,
                     base |-> c.n]
  IN IF \/ \E nv \in s.nvStore : nv.view = s.view
        \/ InitialCheckpoints(vcs) = {}
        \/ xsets = {}
     THEN {s}
     ELSE IF t.transferring THEN {t}
     ELSE {FetchOrReset([t EXCEPT !.outNV = @ \cup {NewView(x)},
                                  !.nvStore = @ \cup {NewView(x)}], r, x)
             : x \in xsets}

(***************************************************************************)
(* replicaCheckNewView recomputes the x-set from the view changes of the   *)
(* new view; vcHandled keeps a second quorum event from doing so again.    *)
(***************************************************************************)
ReplicaCheckNewView(s, r) ==
  LET nv == CHOOSE o \in s.nvStore : o.view = s.view
      c == CHOOSE i \in InitialCheckpoints(nv.vcs) : TRUE
      t == CheckIfNeedStateUpdate([s EXCEPT !.vcHandled = TRUE], c)
  IN IF ~s.inVC \/ s.vcHandled \/ \A o \in s.nvStore : o.view # s.view
     THEN s
     ELSE IF \/ InitialCheckpoints(nv.vcs) = {}
             \/ nv.xset \notin AssignSequenceNumbers(nv.vcs, c.n)
     THEN SendViewChange(s, r)
     ELSE IF t.transferring THEN t
     ELSE FetchOrReset(t, r, nv.xset)

ViewChangeDone(s) ==
  [s EXCEPT !.inVC = FALSE, !.inRec = FALSE, !.timer = FALSE,
            !.nvStore = {nv \in @ : nv.view > s.view},
            !.vcStore = {vc \in @ : vc.view > s.view}]

\* handleViewChangeEvent for the events handlers return.
HandleEvent(s, r) ==
  LET t == [s EXCEPT !.event = "none"]
  IN CASE s.event = "none" -> {s}
       [] s.event = "done" -> {ViewChangeDone(t)}
       [] s.event = "quorum" ->
            IF r # PrimaryOf[s.view] THEN {ReplicaCheckNewView(t, r)}
            ELSE IF s.transferring THEN {t} ELSE SendNewView(t, r)

\* processEvent runs until no event is left: quorum, then done.
Settle(s, r) ==
  LET Process(S) == UNION {HandleEvent(t, r) : t \in S}
  IN Process(Process(Process({s})))

\* checkNewView.
ChecksNewView(s, nv) ==
  /\ ~s.transferring
  /\ nv.from = PrimaryOf[nv.view]
  /\ IF Normal(s) THEN nv.view > s.view ELSE s.inRec \/ nv.view >= s.view

StoreNewView(s, nv) ==
  [s EXCEPT !.nvStore = {o \in @ : o.view # nv.view} \cup {nv}]

(***************************************************************************)
(* recvNewView: its view changes are received one after the other, in an   *)
(* order nothing fixes, then the new view itself.                          *)
(***************************************************************************)
RecvNewView(s, r, nv) ==
  LET others == {vc \in nv.vcs : vc.from # r}
      Receive(q, vc) ==
        {<<t, q[2] \ {vc}>> : t \in Settle(RecvViewChange(q[1], r, vc), r)}
      after[i \in 0 .. Cardinality(others)] ==
        IF i = 0 THEN {<<s, others>>}
        ELSE UNION {UNION {Receive(q, vc) : vc \in q[2]} : q \in after[i - 1]}
      Check(t) == IF t.latestNV.view >= nv.view THEN {t}
                  ELSE Settle(ReplicaCheckNewView(StoreNewView(t, nv), r), r)
  IN UNION {Check(q[1]) : q \in after[Cardinality(others)]}

(***************************************************************************)
(* recvRecoveryResponse and resetStateForRecovery: the last of             *)
(* OneCorrectQuorum equal responses sets the view to that of their new     *)
(* view, be it lower than our own.  forwardPeers is not searched for the   *)
(* sender, so the responses of one peer to each resent view change do.     *)
(***************************************************************************)
RecvRecoveryResponse(s, r, rr) ==
  LET t == CheckIfNeedStateUpdate(s, rr.ckpt)
  IN Settle(ReplicaCheckNewView(
       StoreNewView([t EXCEPT !.view = rr.nv.view], rr.nv), r), r)

-----------------------------------------------------------------------------
(* Actions: the normal case, quorum by quorum *)

\* The bound on views is part of every step that may raise one.
Update(r, s) ==
  /\ s.view <= MaxView
  /\ node' = [node EXCEPT ![r] = s]

Replicas == Validator

\* Digests are hashes over fresh timestamps: no batch is generated twice.
Fresh(d) == \A p \in Replicas : \A id \in node[p].outPP : id.d # d

ProposeBatch(r, d) ==
  LET s == node[r]
      id == [v |-> s.view, n |-> s.seqNo + 1, d |-> d]
  IN /\ r = PrimaryOf[s.view] /\ Normal(s) /\ Fresh(d)
     /\ id.n <= MaxSeq /\ id.n > s.H /\ id.n <= s.H + L
     /\ Update(r, [s EXCEPT !.seqNo = id.n, !.prePrep = @ \cup {id},
                            !.batchStore = @ \cup {d},
                            !.outPP = @ \cup {id}])

\* seqMap holds another digest for the height.
Conflicts(s, id) == \E o \in s.prePrep : o.n = id.n /\ o.d # id.d

\* findNextPrepareBatch and sendPrepare.
SendPrepare(s, id) ==
  [s EXCEPT !.prePrep = @ \cup {id}, !.batchStore = @ \cup {id.d},
            !.sentPrepare = @ \cup {id}, !.outP = @ \cup {id}]

\* With its transactions at hand (NormalCase has the wait for them).
RecvPrePrepare(r, id) ==
  LET s == node[r]
  IN /\ ~s.inVC /\ id.v = s.view /\ id.n > s.H
     /\ r # PrimaryOf[s.view] /\ id \in node[PrimaryOf[s.view]].outPP
     /\ id \notin s.prePrep
     /\ IF Conflicts(s, id)
        THEN \E u \in Settle(SendViewChange(s, r), r) : Update(r, u)
        ELSE Update(r, SendPrepare(s, id))

\* recvPrepare of the prepare that completes the quorum, and sendCommit.
RecvPrepareQuorum(r, id) ==
  LET s == node[r]
      said == {p \in Validator \ {PrimaryOf[id.v]} : id \in node[p].outP}
  IN /\ id \in s.prePrep \ s.prepared /\ id.v = s.view
     /\ r = PrimaryOf[s.view] \/ id \in s.sentPrepare
     /\ ~s.transferring
     /\ Cardinality(said) >= CommonCaseQuorum - 1
     /\ Update(r, [s EXCEPT !.prepared = @ \cup {id}, !.outC = @ \cup {id}])

(***************************************************************************)
(* recvCommit of the commit that completes the quorum: the block is        *)
(* executed in its turn, and at a checkpoint height reported and           *)
(* checkpointed.                                                           *)
(***************************************************************************)
RecvCommitQuorum(r, id) ==
  LET s == node[r]
      t == [s EXCEPT !.ledger = Append(@, id.d)]
      c == [n |-> id.n, ledger |-> t.ledger]
  IN /\ id \in s.prepared /\ id.v = s.view
     /\ id.n = LastExec(s) + 1 /\ HasBatch(s, id.d)
     /\ ~s.transferring
     /\ Cardinality({p \in Validator : id \in node[p].outC}) >= CommonCaseQuorum
     /\ Update(r, IF id.n % K # 0 THEN t
                  ELSE [t EXCEPT !.waitFin = TRUE,
                                 !.localCkpt = SaveCheckpoint(@, c),
                                 !.outK = @ \cup {c}])

\* recvCheckpoint of the checkpoint that completes the quorum.
RecvCheckpointQuorum(r, c) ==
  LET s == node[r]
  IN /\ c \in s.localCkpt /\ c.n > s.H
     /\ Cardinality({p \in Validator : c \in node[p].outK}) >= CommonCaseQuorum
     /\ Update(r, MoveWatermarks([s EXCEPT !.waitFin = FALSE], c.n))

-----------------------------------------------------------------------------
(* Actions: view changes *)

\* Suspicion in the normal status: requestTimer, null request timer, high
\* watermark timer.
SuspectPrimary(r) ==
  LET s == node[r]
  IN /\ r \in MaySuspect
     /\ ~s.inVC /\ ~s.waitFin /\ ~s.transferring
     /\ \E t \in Settle(SendViewChange(s, r), r) : Update(r, t)

\* newViewTimer expires: the new view of the quorum did not come in time.
NewViewTimeout(r) ==
  LET s == node[r]
  IN /\ r \in MaySuspect
     /\ s.inVC /\ s.timer /\ ~s.waitFin /\ ~s.transferring
     /\ \E t \in Settle(SendViewChange(s, r), r) : Update(r, t)

(***************************************************************************)
(* vcResendTimer: the same view is asked for again, as a recovery.  Its    *)
(* event may have been posted before a quorum stopped the timer.           *)
(***************************************************************************)
ViewChangeResendTimeout(r) ==
  LET s == node[r]
      asked == [s EXCEPT !.view = @ - 1, !.recoveries = @ + 1]
  IN /\ s.recoveries < MaxRecoveries[r]
     /\ s.inVC /\ ~s.transferring
     /\ \E t \in Settle(InitRecovery(asked, r), r) : Update(r, t)

(***************************************************************************)
(* A view change arrives that recvViewChange does more with than store it. *)
(* Those it needs for that (the others of a quorum) have arrived before;   *)
(* as storing one commutes with every other step, they arrive in this one. *)
(***************************************************************************)
ReceiveViewChange(r) ==
  LET s == node[r]
      sent == {vc \in UNION {node[p].outVC : p \in Replicas \ {r}} :
                 ~(vc.view >= s.view /\ RefusesViewChange(s, vc))}
      With(earlier) == [s EXCEPT !.vcStore = {o \in @ :
                          \A e \in earlier : o.view # e.view \/ o.from # e.from}
                          \cup earlier]
      Companions(vc) == {m \in sent \ {vc} :
                           /\ m.view = vc.view \/ (m.view > s.view /\ vc.view > s.view)
                           /\ m.from # vc.from /\ OnlyStored(s, m)}
      Suffices(earlier, vc) ==
        /\ Cardinality(earlier) < IF vc.view > s.view THEN OneCorrectQuorum
                                  ELSE CommonCaseQuorum
        /\ \A a, b \in earlier : a.from = b.from => a = b
        /\ ~OnlyStored(With(earlier), vc)
        /\ \A m \in earlier : /\ OnlyStored(With(earlier \ {m}), m)
                              /\ OnlyStored(With(earlier \ {m}), vc)
  IN /\ r \in Reached /\ ~s.waitFin
     /\ \E vc \in sent : \E earlier \in SUBSET Companions(vc) :
          /\ Suffices(earlier, vc)
          /\ \E t \in Settle(RecvViewChange(With(earlier), r, vc), r) :
               t # s /\ Update(r, t)

\* Sent by the primary, or by a replica that answers a FetchView.
ReceiveNewView(r, p) ==
  /\ r \in Reached /\ p # r
  /\ \E nv \in node[p].outNV :
       /\ ChecksNewView(node[r], nv)
       /\ \E t \in RecvNewView(node[r], r, nv) : t # node[r] /\ Update(r, t)

ReceiveRecoveryResponse(r, p) ==
  LET s == node[r]
  IN /\ s.inRec
     /\ \E rr \in node[p].outRR :
          /\ rr.to = r /\ ChecksNewView(s, rr.nv)
          /\ \E t \in RecvRecoveryResponse(s, r, rr) : t # s /\ Update(r, t)

\* recvFetchBatchResponse of the last batch that was missing.
RecvFetchBatchResponse(r) ==
  LET s == node[r]
      t == [s EXCEPT !.batchStore = @ \cup s.missing, !.missing = {}]
  IN /\ s.missing # {}
     /\ \A d \in s.missing : \E p \in Validator : d \in node[p].batchStore
     /\ \E u \in Settle(ResetStateForNewView(t, r), r) : Update(r, u)

(***************************************************************************)
(* recvStateUpdatedEvent: the blocks up to the target are installed.       *)
(* Within a view change the stored new view is entered as it stands.       *)
(***************************************************************************)
StateUpdated(r) ==
  LET s == node[r]
      c == s.target
      t == MoveWatermarks([s EXCEPT !.transferring = FALSE, !.ledger = c.ledger,
                                    !.seqNo = c.n,
                                    !.localCkpt = SaveCheckpoint(@, c)], c.n)
      stored == {nv \in t.nvStore : nv.view = t.view}
      after == IF ~t.inVC THEN t
               ELSE IF r = PrimaryOf[t.view] THEN SendViewChange(t, r)
               ELSE IF stored = {} THEN InitRecovery(t, r)
               ELSE [t EXCEPT !.latestNV = CHOOSE nv \in stored : TRUE,
                              !.event = "done"]
  IN /\ s.transferring
     /\ \E u \in Settle(after, r) : Update(r, u)

(***************************************************************************)
(* A crash and the restart after it: ledger, H, certs, P and Q lists,      *)
(* checkpoints, batches and the last new view were stored, the rest is     *)
(* lost, and so is a view no new view was accepted for.  The genesis       *)
(* checkpoint is built again when no other was stored.  start() then       *)
(* begins a recovery.                                                      *)
(***************************************************************************)
Restart(r) ==
  LET s == node[r]
      kept == {c \in s.localCkpt : c.n # 0}
      restored == [s EXCEPT !.view = s.latestNV.view, !.recoveries = @ + 1,
                            !.inVC = FALSE, !.inRec = FALSE,
                            !.vcHandled = FALSE, !.timer = FALSE,
                            !.waitFin = FALSE, !.transferring = FALSE,
                            !.target = NoCheckpoint, !.missing = {},
                            !.seqNo = LastExec(s),
                            !.localCkpt = IF kept = {} THEN {NoCheckpoint} ELSE kept,
                            !.vcStore = {}, !.nvStore = {}]
  IN /\ s.recoveries < MaxRecoveries[r]
     /\ \E t \in Settle(InitRecovery(restored, r), r) : Update(r, t)

-----------------------------------------------------------------------------
Init == node = [r \in Replicas |-> InitState]

Step(r) ==
  \/ \E d \in Digest : ProposeBatch(r, d)
  \/ \E id \in node[PrimaryOf[node[r].view]].outPP : RecvPrePrepare(r, id)
  \/ \E id \in node[r].prePrep : RecvPrepareQuorum(r, id)
  \/ \E id \in node[r].prepared : RecvCommitQuorum(r, id)
  \/ \E c \in node[r].localCkpt : RecvCheckpointQuorum(r, c)
  \/ SuspectPrimary(r)
  \/ NewViewTimeout(r)
  \/ ViewChangeResendTimeout(r)
  \/ ReceiveViewChange(r)
  \/ \E p \in Replicas : ReceiveNewView(r, p)
  \/ \E p \in Replicas : ReceiveRecoveryResponse(r, p)
  \/ RecvFetchBatchResponse(r)
  \/ StateUpdated(r)
  \/ Restart(r)

Next == \E r \in Replicas : Step(r)

vars == <<node>>

Spec == Init /\ [][Next]_vars

-----------------------------------------------------------------------------
(* Properties *)

\* Views, heights and ids stay in range and no event is left unhandled.
TypeOK ==
  \A r \in Replicas :
    LET s == node[r]
    IN /\ s.view \in Views /\ s.H \in 0 .. LastExec(s)
       /\ s.prepared \cup s.sentPrepare \cup s.outPP \subseteq ID
       /\ s.prepared \subseteq s.prePrep
       /\ s.event = "none"

\* A quorum has sent commits for id.
CommitQuorum(id) ==
  Cardinality({p \in Validator : id \in node[p].outC}) >= CommonCaseQuorum

\* In the view changes vcs batch d is settled at height n since view w: every
\* sender in C that is below n has prepared it then, or something later, and
\* nothing else was pre-prepared after w.
Settled(vcs, C, n, d, w) ==
  /\ \A m \in vcs : m.from \in C /\ m.h < n =>
       \E p \in m.P : p.n = n /\ p.v >= w /\ (p.v = w => p.d = d)
  /\ \A m \in vcs : \A q \in m.Q : q.n = n /\ q.v > w => q.d = d

(***************************************************************************)
(* What a quorum committed is settled in the view changes of every new     *)
(* view to come, although each sender forgets its certs and merges them    *)
(* into the P and Q lists (getVcBasis, gatherPQC): from this               *)
(* assignSequenceNumbers gets the batch it must keep.                      *)
(***************************************************************************)
CommitIsSettled ==
  \A r \in Replicas : \A nv \in node[r].outNV :
    \A id \in UNION {node[p].outC : p \in Replicas} :
      LET C == {p \in Validator : id \in node[p].outC}
      IN id.v < nv.view /\ Cardinality(C) >= CommonCaseQuorum /\ id.n > nv.base
           => \E w \in Views : Settled(nv.vcs, C, id.n, id.d, w)

(***************************************************************************)
(* A height at which a quorum committed in a lower view, above the base,   *)
(* is not declared empty: within the L heights a new view covers, its      *)
(* batch is selected from the entries the view changes report (getVcBasis, *)
(* gatherPQC, recvViewChange, assignSequenceNumbers).                      *)
(***************************************************************************)
CommittedIsReported ==
  \A r \in Replicas : \A nv \in node[r].outNV :
    \A id \in UNION {node[p].outC : p \in Replicas} :
      id.v < nv.view /\ CommitQuorum(id) /\ id.n > nv.base
        => /\ ~NullCondition(nv.vcs, id.n)
           /\ id.n <= nv.base + L => Selected(nv.vcs, id.n) # {}

\* Of id a quorum has sent commits, and nv of a later view keeps it.
Keeps(nv, id) ==
  (id.v < nv.view /\ CommitQuorum(id) /\ id.n > nv.base)
    => id.n \in DOMAIN nv.xset /\ nv.xset[id.n] = id.d

(***************************************************************************)
(* A new view keeps the batches a quorum committed in a lower view: they   *)
(* are in its x-set, or in the ledger below the checkpoint it starts from  *)
(* (assignSequenceNumbers, selectInitialCheckpoint).                       *)
(***************************************************************************)
NewViewKeepsCommitted ==
  \A r \in Replicas : \A nv \in node[r].outNV :
    \A id \in UNION {node[p].outC : p \in Replicas} :
      id.d # NullDigest => Keeps(nv, id)

(***************************************************************************)
(* "assignSequenceNumbers selects a request to pre-prepare in the new view *)
(* for each sequence number n between h and h + L": a null request that a  *)
(* quorum committed is kept as well.                                       *)
(***************************************************************************)
NewViewKeepsNullRequests ==
  \A r \in Replicas : \A nv \in node[r].outNV :
    \A id \in UNION {node[p].outC : p \in Replicas} :
      id.d = NullDigest => Keeps(nv, id)

\* What the x-set of a new view stands for.
Carried(nv) ==
  {[v |-> nv.view, n |-> n, d |-> nv.xset[n]] : n \in DOMAIN nv.xset}

\* What a replica in state s stands for as the primary of its views.
Proposed(s) == s.outPP \cup UNION {Carried(nv) : nv \in s.outNV}

(***************************************************************************)
(* At one height of one view there is one batch, whatever replica accepted *)
(* it, prepared, committed or proposed it, or carried it over in the x-set *)
(* of its new view, although seqNo, seqMap and certs are dropped and       *)
(* rebuilt at every view change (sendPrepare, sendPrePrepare,              *)
(* processNewView).                                                        *)
(***************************************************************************)
OneBatchPerView ==
  LET StandsFor(s) == s.prePrep \cup s.outP \cup s.outC \cup Proposed(s)
  IN \A p, q \in Replicas : \A x \in StandsFor(node[p]), y \in StandsFor(node[q]) :
       x.v = y.v /\ x.n = y.n => x = y

(***************************************************************************)
(* The replicas build one ledger, through view changes, state transfers    *)
(* and the restart or recovery of one replica (commitPendingBlocks,        *)
(* recvStateUpdatedEvent, resetStateForRecovery).  It is not claimed of    *)
(* replicas that recover one after the other, nor where a quorum committed *)
(* a null request: batches committed then can be lost.                     *)
(***************************************************************************)
OneLedger ==
  INSTANCE Ledger WITH Replica <- Replicas, Batch <- Batches, MaxRun <- 1,
                       ledger <- [r \in Replicas |-> node[r].ledger]

ImplementsLedger == OneLedger!Spec
=============================================================================
