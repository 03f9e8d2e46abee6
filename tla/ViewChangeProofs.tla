-------------------------- MODULE ViewChangeProofs --------------------------
(***************************************************************************)
(* What is proved of view changes, for every number of validators, choice  *)
(* of primaries, bound on views and heights, and number of recoveries.     *)
(*                                                                         *)
(* The inductive invariant, Cluster, has three layers: what always holds   *)
(* of a replica (States, WellFormed); what holds as long as the reported   *)
(* checkpoints agree (Checkpointed); and what holds as long as, besides,   *)
(* nobody recovers: of its votes (Voted), and of what its view changes     *)
(* tell of them (Tells).  Handlers are shown to keep it one call at a time *)
(* (Leads), so that an action is the composition of its calls.  At the     *)
(* end: what assignSequenceNumbers promises of any view changes, those of  *)
(* faulty validators included, and what it makes of those that were sent.  *)
(***************************************************************************)
EXTENDS ViewChange, FiniteSetTheorems, SequenceTheorems, WellFoundedInduction, TLAPS

-----------------------------------------------------------------------------
(* What holds of a replica *)

\* A view the bound allows, or one the replica has passed.
InReach(s, v) == v <= MaxView \/ v <= s.view

\* nv is what SendNewView computes from its view changes.
Computed(nv) ==
  /\ \A m1, m2 \in nv.vcs : m1.from = m2.from => m1 = m2
  /\ InitialCheckpoints(nv.vcs) # {}
  /\ nv.base = (CHOOSE i \in InitialCheckpoints(nv.vcs) : TRUE).n
  /\ nv.xset \in AssignSequenceNumbers(nv.vcs, nv.base)

WellFormed(s) ==
  /\ s.prepared \subseteq s.prePrep
  /\ \A id \in s.prePrep \cup s.sentPrepare \cup s.outPP : InReach(s, id.v)
  /\ \A vc \in s.vcStore \cup s.outVC : InReach(s, vc.view)
  /\ \A x, y \in s.vcStore : x.view = y.view /\ x.from = y.from => x = y
  /\ \A nv \in s.outNV : InReach(s, nv.view) /\ Computed(nv)
  /\ s.inRec => \E vc \in s.outVC : vc.recovery
  /\ s.event = "quorum" => s.inVC

-----------------------------------------------------------------------------
(* Checkpoints, as long as the replicas agree on them *)

Reports(s) ==
  s.outK \cup {rr.ckpt : rr \in s.outRR} \cup UNION {vc.C : vc \in s.outVC}

\* The checkpoints known when replica r of the cluster G is in state s.
Known(s, G) ==
  {NoCheckpoint} \cup Reports(s) \cup UNION {Reports(G[p]) : p \in Validator}

Agree(cs) == \A c, d \in cs : c.n = d.n => c = d

NewViewsOf(s) == s.nvStore \cup s.outNV \cup {s.latestNV} \cup {rr.nv : rr \in s.outRR}

Checkpointed(s, G) ==
  /\ s.H <= LastExec(s)
  /\ \A c \in s.localCkpt : c \in Known(s, G) /\ c.n <= LastExec(s)
  /\ s.target \in Known(s, G)
  /\ s.transferring => s.target.n > LastExec(s)
  /\ \A vc \in s.vcStore : vc.C \subseteq Known(s, G)
  /\ \A nv \in NewViewsOf(s) : \A vc \in nv.vcs : vc.C \subseteq Known(s, G)

-----------------------------------------------------------------------------
(* Votes, as long as nobody recovers *)

NoneRecovers(s, G) ==
  \A vc \in s.outVC \cup UNION {G[p].outVC : p \in Validator} : ~vc.recovery

\* The state of p when replica r of the cluster G is in state s.
StateOf(p, s, r, G) == IF p = r THEN s ELSE G[p]

\* At height n the replica will not propose again.
Passed(s, n) == n <= s.seqNo \/ n <= s.H

\* A replica proposes in views it is the primary of, after the view change.
ProposesInView(s, r) ==
  \A id \in s.outPP :
    /\ PrimaryOf[id.v] = r /\ id.v <= s.view
    /\ id.v = s.view => ~s.inVC /\ Passed(s, id.n)

OneProposal(s) == \A x, y \in Proposed(s) : x.v = y.v /\ x.n = y.n => x = y

\* Of each view it sends one new view, as its primary.
OneNewView(s, r) ==
  /\ \A nv \in s.outNV : PrimaryOf[nv.view] = r /\ nv.from = r /\ nv.view <= s.view
  /\ \A x, y \in s.outNV : x.view = y.view => x = y

\* The new view a primary sent for the view it is in: it is stored until it
\* is entered, its batches are at hand or on their way, the heights of its
\* x-set are passed when it is entered, and its checkpoint asks for no state
\* transfer.
NewViewStands(s, nv) ==
  /\ s.inVC => nv \in s.nvStore
  /\ ~s.inVC \/ s.event = "done" => \A n \in DOMAIN nv.xset : Passed(s, n)
  /\ \A n \in DOMAIN nv.xset :
       n > s.H => HasBatch(s, nv.xset[n]) \/ nv.xset[n] \in s.missing
  /\ nv.base <= LastExec(s)
  /\ nv.base <= s.H \/ \A c \in s.localCkpt : c.n # nv.base

NewViewsStand(s) == \A nv \in s.outNV : nv.view = s.view => NewViewStands(s, nv)

\* A replica that transfers state has not spoken as the primary of its view.
SilentInTransfer(s) ==
  s.transferring => /\ \A id \in s.outPP : id.v # s.view
                    /\ \A nv \in s.outNV : nv.view # s.view

\* New views and votes come from the primaries.
FollowsPrimaries(s, r, G) ==
  /\ \A nv \in s.nvStore :
       /\ nv.from = PrimaryOf[nv.view]
       /\ nv \in StateOf(nv.from, s, r, G).outNV
  /\ \A id \in s.prePrep \cup s.outP \cup s.outC :
       /\ PrimaryOf[id.v] \in Validator
       /\ id \in Proposed(StateOf(PrimaryOf[id.v], s, r, G))
  /\ \A id \in s.outP : PrimaryOf[id.v] # r

Voted(s, r, G) ==
  /\ ProposesInView(s, r)
  /\ OneProposal(s)
  /\ OneNewView(s, r)
  /\ NewViewsStand(s)
  /\ SilentInTransfer(s)
  /\ FollowsPrimaries(s, r, G)

-----------------------------------------------------------------------------
(* What view changes tell *)

Reported(entries, n) == \E e \in entries : e.n = n

\* What the P list of the next view change is computed from.
Basis(s) == s.plist \cup s.prepared

\* A commit sent for a height above the watermark, and a block executed there,
\* have an entry: a view change will report the height.
Remembers(s) ==
  /\ \A id \in s.outC :
       id.n > s.H /\ (s.transferring => id.n > s.target.n) => Reported(Basis(s), id.n)
  /\ ~s.transferring =>
       \A n \in 1 .. LastExec(s) : n > s.H => Reported(Basis(s), n)

\* The view changes sent did report the commits of lower views.
Told(s) ==
  \A vc \in s.outVC :
    /\ vc.view <= s.view
    /\ \A id \in s.outC : id.v < vc.view /\ id.n > vc.h => Reported(vc.P, id.n)

\* View changes are stored, and become part of a new view, as they were sent.
HeardOf(s, r, G) ==
  /\ \A vc \in s.outVC : vc.from = r
  /\ \A vc \in s.vcStore \cup UNION {nv.vcs : nv \in s.outNV} :
       vc \in StateOf(vc.from, s, r, G).outVC

Tells(s, r, G) ==
  /\ \A id \in s.prePrep \cup s.plist \cup s.outC : id.v <= s.view
  /\ Remembers(s)
  /\ Told(s)
  /\ HeardOf(s, r, G)

-----------------------------------------------------------------------------
(* The state of a replica *)

Pos == Nat \ {0}

Ckpts == {c \in [n : Nat, ledger : Seq(Batches)] : Len(c.ledger) = c.n}

IDs == [v : Pos, n : Seqs, d : Batches]

VCs == [from : Validator, view : Pos, h : Nat, P : SUBSET IDs, Q : SUBSET IDs,
        C : SUBSET Ckpts, recovery : BOOLEAN]

XSets == UNION {[S -> Batches] : S \in SUBSET Seqs}

NVs == {nv \in [from : Validator, view : Pos, xset : XSets, base : Nat, vcs : SUBSET VCs] :
          \A vc \in nv.vcs : vc.view = nv.view}

RRs == [from : Validator, to : Validator, nv : NVs, ckpt : Ckpts]

States ==
  [ view : Pos, inVC : BOOLEAN, inRec : BOOLEAN, vcHandled : BOOLEAN,
    timer : BOOLEAN, waitFin : BOOLEAN, transferring : BOOLEAN,
    target : Ckpts, event : {"none", "quorum", "done"}, seqNo : Nat, H : Nat,
    ledger : Seq(Batches), prePrep : SUBSET IDs, sentPrepare : SUBSET IDs,
    prepared : SUBSET IDs, batchStore : SUBSET Batches,
    missing : SUBSET Batches, localCkpt : SUBSET Ckpts, plist : SUBSET IDs,
    qlist : SUBSET IDs, vcStore : SUBSET VCs, nvStore : SUBSET NVs,
    latestNV : NVs, recoveries : Nat, outPP : SUBSET IDs, outP : SUBSET IDs,
    outC : SUBSET IDs, outK : SUBSET Ckpts, outVC : SUBSET VCs,
    outNV : SUBSET NVs, outRR : SUBSET RRs ]

\* Moving the watermarks keeps a state a state.
LEMMA MoveWatermarksTyped ==
  ASSUME NEW s \in States, NEW h \in Nat
  PROVE  MoveWatermarks(s, h) \in States
BY DEF MoveWatermarks, Above, States

\* So does merging the certs into the P and Q lists.
LEMMA GetVcBasisTyped ==
  ASSUME NEW s \in States
  PROVE  GetVcBasis(s) \in States
BY DEF GetVcBasis, CalcPSet, CalcQSet, States

\* A view change sent is a view change.
LEMMA ViewChangeMsgTyped ==
  ASSUME NEW s \in States, NEW r \in Validator, NEW rec \in BOOLEAN, NEW w \in Pos
  PROVE  [ViewChangeMsg(s, r, rec) EXCEPT !.view = w] \in VCs
BY DEF ViewChangeMsg, States, VCs

\* A replica that stores a view change stays in a state.
LEMMA StoreTyped ==
  ASSUME NEW s \in States, NEW vc \in VCs
  PROVE  Store(s, vc) \in States
BY DEF Store, States

\* The state in which EnterViews computes the basis of its view changes.
BeforeSend(s, W, v, rec) ==
  [s EXCEPT !.inVC = TRUE, !.inRec = @ \/ rec,
            !.vcHandled = FALSE, !.timer = FALSE, !.view = v,
            !.nvStore = {nv \in @ : nv.view \notin W},
            !.vcStore = {vc \in @ : vc.view >= v}]

\* A replica about to send view changes is in a state.
LEMMA BeforeSendTyped ==
  ASSUME NEW s \in States, NEW rec \in BOOLEAN, NEW v \in Pos, NEW W
  PROVE  BeforeSend(s, W, v, rec) \in States
<1> DEFINE b == s.inRec \/ rec
           nvs == {nv \in s.nvStore : nv.view \notin W}
           vcs == {vc \in s.vcStore : vc.view >= v}
<1>1. b \in BOOLEAN /\ nvs \subseteq NVs /\ vcs \subseteq VCs
  BY DEF States
<1> SUFFICES [s EXCEPT !.inVC = TRUE, !.inRec = b, !.vcHandled = FALSE, !.timer = FALSE,
                    !.view = v, !.nvStore = nvs, !.vcStore = vcs] \in States
  BY DEF BeforeSend
<1> HIDE DEF b, nvs, vcs
<1> QED BY <1>1 DEF States

\* A set of numbers that is not empty and bounded has a greatest element.
LEMMA MaxIsIn ==
  ASSUME NEW S, NEW a \in Int, NEW b \in Int, S \subseteq a .. b, S # {}
  PROVE  Max(S) \in S /\ \A x \in S : x <= Max(S)
<1> DEFINE R == OpToRel(<, Nat)
           T == {g \in Nat : \E x \in S : g = b - x}
<1>1. IsWellFoundedOn(R, Nat)
  BY NatLessThanWellFounded
<1>2. \A x, y \in Nat : <<x, y>> \in R <=> x < y
  BY DEF OpToRel
<1>3. \A x \in S : x \in Int /\ b - x \in Nat
  OBVIOUS
<1>4. T # {} /\ T \subseteq Nat
  BY <1>3
<1> HIDE DEF R
<1>5. PICK g \in T : \A h \in T : ~(<<h, g>> \in R)
  <2> HIDE DEF T
  <2> QED BY <1>1, <1>4, WFMin
<1>6. PICK p \in S : g = b - p
  OBVIOUS
<1>7. \A x \in S : p >= x
  <2> SUFFICES ASSUME NEW x \in S PROVE p >= x
    OBVIOUS
  <2>1. b - x \in T /\ ~(b - x < g)
    BY <1>2, <1>3, <1>5
  <2> QED BY <1>3, <1>6, <2>1
<1>8. Max(S) \in S /\ \A x \in S : Max(S) >= x
  BY <1>7 DEF Max
<1> QED BY <1>3, <1>8

\* A set of natural numbers that is not empty has a least element.
LEMMA MinIsIn ==
  ASSUME NEW S, S \subseteq Nat, S # {}
  PROVE  Min(S) \in S /\ \A x \in S : Min(S) <= x
<1> DEFINE R == OpToRel(<, Nat)
<1>1. IsWellFoundedOn(R, Nat)
  BY NatLessThanWellFounded
<1>2. \A x, y \in Nat : <<x, y>> \in R <=> x < y
  BY DEF OpToRel
<1> HIDE DEF R
<1>3. PICK g \in S : \A h \in S : ~(<<h, g>> \in R)
  BY <1>1, WFMin
<1>4. ASSUME NEW x \in S PROVE g <= x
  <2>1. x \in Nat /\ g \in Nat /\ ~(<<x, g>> \in R)
    BY <1>3
  <2> QED BY <1>2, <2>1
<1> QED BY <1>4 DEF Min

\* The views others ask for lie between the replica's view and the bound.
LEMMA ViewsAheadAbove ==
  ASSUME NEW s \in States, WellFormed(s), ViewsAhead(s) # {}
  PROVE  /\ ViewsAhead(s) \in SUBSET Pos
         /\ \A w \in ViewsAhead(s) : w > s.view /\ w <= MaxView
         /\ Max(ViewsAhead(s)) \in ViewsAhead(s)
         /\ Min(ViewsAhead(s)) \in ViewsAhead(s)
<1>1. MaxView \in Nat /\ s.view \in Pos /\ s.vcStore \subseteq VCs
  BY ConstantAssumption DEF States
<1>2. ASSUME NEW w \in ViewsAhead(s)
      PROVE  w \in Pos /\ w > s.view /\ w <= MaxView
  <2>1. PICK vc \in s.vcStore : w = vc.view /\ w > s.view
    BY DEF ViewsAhead
  <2>2. vc.view \in Pos /\ InReach(s, vc.view)
    BY <1>1 DEF VCs, WellFormed
  <2> QED BY <1>1, <2>1, <2>2 DEF InReach, Pos
<1>3. ViewsAhead(s) \subseteq 1 .. MaxView /\ ViewsAhead(s) \subseteq Nat
  BY <1>1, <1>2 DEF Pos
<1>4. Max(ViewsAhead(s)) \in ViewsAhead(s)
  BY <1>1, <1>3, MaxIsIn
<1>5. Min(ViewsAhead(s)) \in ViewsAhead(s)
  BY <1>3, MinIsIn
<1> QED BY <1>2, <1>4, <1>5

\* Signalling a quorum keeps a state a state.
LEMMA SignalQuorumTyped ==
  ASSUME NEW s \in States
  PROVE  SignalQuorum(s) \in States
BY DEF SignalQuorum, States

\* Answering a recovery keeps a state a state.
LEMMA SendRecoveryResponseTyped ==
  ASSUME NEW s \in States, NEW r \in Validator, NEW to \in Validator
  PROVE  SendRecoveryResponse(s, r, to) \in States
<1> DEFINE new == {[from |-> r, to |-> to, nv |-> s.latestNV, ckpt |-> c]
                     : c \in {o \in s.localCkpt : o.n = s.H}}
<1>1. new \subseteq RRs
  BY DEF States, RRs
<1>2. SendRecoveryResponse(s, r, to) = [s EXCEPT !.outRR = @ \cup new]
  BY DEF SendRecoveryResponse
<1> HIDE DEF new
<1>3. [s EXCEPT !.outRR = @ \cup new] \in States
  BY <1>1 DEF States
<1> QED BY <1>2, <1>3

\* Starting a state transfer keeps a state a state.
LEMMA TryStateTransferTyped ==
  ASSUME NEW s \in States, NEW c \in Ckpts
  PROVE  TryStateTransfer(s, c) \in States
<1> DEFINE g == IF s.target.n >= c.n THEN s.target ELSE c
           t == [s EXCEPT !.target = g]
           u == [t EXCEPT !.transferring = TRUE,
                          !.prePrep = Above(@, t.target.n),
                          !.sentPrepare = Above(@, t.target.n),
                          !.prepared = Above(@, t.target.n)]
<1>1. g \in Ckpts
  BY DEF States
<1>2. TryStateTransfer(s, c) = IF s.transferring THEN t ELSE u
  BY DEF TryStateTransfer
<1> HIDE DEF g
<1>3. t \in States
  BY <1>1 DEF States
<1> HIDE DEF t
<1>4. u \in States
  BY <1>3 DEF States, Above
<1> HIDE DEF u
<1> QED BY <1>2, <1>3, <1>4

\* So does looking whether one is needed.
LEMMA CheckIfNeedStateUpdateTyped ==
  ASSUME NEW s \in States, NEW c \in Ckpts
  PROVE  CheckIfNeedStateUpdate(s, c) \in States
<1>1. c.n \in Nat
  BY DEF Ckpts
<1> QED BY <1>1, MoveWatermarksTyped, TryStateTransferTyped DEF CheckIfNeedStateUpdate

Sound(s, G) ==
  s \in States /\ WellFormed(s) /\ (Agree(Known(s, G)) => Checkpointed(s, G))

OK(s, r, G) ==
  Sound(s, G) /\ (Agree(Known(s, G)) /\ NoneRecovers(s, G) => Voted(s, r, G) /\ Tells(s, r, G))

\* Nothing that was reported is withdrawn.
Grows(s, t) ==
  /\ s.outVC \subseteq t.outVC /\ s.outK \subseteq t.outK /\ s.outRR \subseteq t.outRR
  /\ s.outPP \subseteq t.outPP /\ s.outNV \subseteq t.outNV

Leads(s, t, r, G) == OK(t, r, G) /\ Grows(s, t)

\* What the premises say of a later state they say of an earlier one.
LEMMA GrowsBack ==
  ASSUME NEW s, NEW t, NEW G, Grows(s, t)
  PROVE  /\ Known(s, G) \subseteq Known(t, G)
         /\ Agree(Known(t, G)) => Agree(Known(s, G))
         /\ NoneRecovers(t, G) => NoneRecovers(s, G)
<1>1. Reports(s) \subseteq Reports(t)
  BY DEF Grows, Reports
<1>2. Known(s, G) \subseteq Known(t, G)
  BY <1>1 DEF Known
<1>3. Agree(Known(t, G)) => Agree(Known(s, G))
  BY <1>2 DEF Agree
<1> QED BY <1>2, <1>3 DEF Grows, NoneRecovers

\* Growing goes on from step to step.
LEMMA GrowsOn ==
  ASSUME NEW s, NEW t, NEW u, Grows(s, t), Grows(t, u)
  PROVE  Grows(s, u)
BY DEF Grows

\* Handlers compose: what each keeps, both keep.
LEMMA LeadsOn ==
  ASSUME NEW s, NEW t, NEW u, NEW r, NEW G, Leads(s, t, r, G), Leads(t, u, r, G)
  PROVE  Leads(s, u, r, G)
BY GrowsOn DEF Leads

\* Doing nothing keeps everything.
LEMMA LeadsNowhere ==
  ASSUME NEW s, NEW r, NEW G, OK(s, r, G)
  PROVE  Leads(s, s, r, G)
BY DEF Leads, Grows

\* The checkpoints are kept by a handler that executes nothing, moves H to a
\* stored checkpoint at most and takes over known checkpoints only.
LEMMA CheckpointedKept ==
  ASSUME NEW s \in States, NEW t \in States, NEW G, Grows(s, t), Checkpointed(s, G),
         t.ledger = s.ledger, t.H = s.H \/ t.H \in {c.n : c \in s.localCkpt},
         t.localCkpt \subseteq s.localCkpt, t.target = s.target,
         t.transferring = s.transferring,
         \A vc \in t.vcStore : vc \in s.vcStore \/ vc.C \subseteq Known(t, G),
         \A nv \in NewViewsOf(t) :
           nv \in NewViewsOf(s) \/ \A vc \in nv.vcs : vc.C \subseteq Known(t, G)
  PROVE  Checkpointed(t, G)
<1>1. Known(s, G) \subseteq Known(t, G)
  BY GrowsBack
<1>2. /\ t.H <= LastExec(t) /\ t.target \in Known(t, G)
      /\ \A c \in t.localCkpt : c \in Known(t, G) /\ c.n <= LastExec(t)
      /\ t.transferring => t.target.n > LastExec(t)
  BY <1>1 DEF Checkpointed, LastExec
<1>3. \A vc \in t.vcStore : vc.C \subseteq Known(t, G)
  BY <1>1 DEF Checkpointed
<1>4. \A nv \in NewViewsOf(t) : \A vc \in nv.vcs : vc.C \subseteq Known(t, G)
  BY <1>1 DEF Checkpointed
<1> QED BY <1>2, <1>3, <1>4 DEF Checkpointed

\* A step within the view that neither votes nor touches what was proposed.
LEMMA VotedKept ==
  ASSUME NEW s \in States, NEW t \in States, NEW r, NEW G, Voted(s, r, G),
         t.view = s.view, t.inVC = s.inVC, t.event = "done" => s.event = "done",
         t.transferring = s.transferring, t.seqNo = s.seqNo, t.H >= s.H,
         t.ledger = s.ledger, t.batchStore = s.batchStore, t.missing = s.missing,
         t.localCkpt \subseteq s.localCkpt, t.nvStore = s.nvStore,
         t.prePrep \subseteq s.prePrep, t.outPP = s.outPP, t.outP = s.outP,
         t.outC = s.outC, t.outNV = s.outNV
  PROVE  Voted(t, r, G)
<1>1. s.H \in Nat /\ t.H \in Nat
  BY DEF States
<1>2. ProposesInView(t, r)
  <2>1. \A id \in t.outPP : id.n \in Nat
    BY DEF States, IDs, Seqs
  <2> QED BY <1>1, <2>1 DEF Voted, ProposesInView, Passed
<1>3. OneProposal(t) /\ OneNewView(t, r) /\ SilentInTransfer(t)
  BY DEF Voted, OneProposal, OneNewView, SilentInTransfer, Proposed
<1>4. NewViewsStand(t)
  <2> SUFFICES ASSUME NEW nv \in t.outNV, nv.view = t.view PROVE NewViewStands(t, nv)
    BY DEF NewViewsStand
  <2>1. NewViewStands(s, nv)
    BY DEF Voted, NewViewsStand
  <2>2. nv.base \in Nat /\ DOMAIN nv.xset \subseteq Nat
    BY DEF States, NVs, XSets, Seqs
  <2> QED BY <1>1, <2>1, <2>2 DEF NewViewStands, Passed, HasBatch, LastExec
<1>5. FollowsPrimaries(t, r, G)
  BY DEF Voted, FollowsPrimaries, StateOf, Proposed
<1> QED BY <1>2, <1>3, <1>4, <1>5 DEF Voted

\* A step to a higher view.
LEMMA VotedAbove ==
  ASSUME NEW s \in States, NEW t \in States, NEW r, NEW G, Voted(s, r, G),
         t.view > s.view, t.nvStore \subseteq s.nvStore, t.prePrep \subseteq s.prePrep,
         t.outPP = s.outPP, t.outP = s.outP, t.outC = s.outC, t.outNV = s.outNV
  PROVE  Voted(t, r, G)
<1>1. /\ s.view \in Nat /\ t.view \in Nat
      /\ \A id \in t.outPP : id.v \in Nat /\ id.v < t.view
      /\ \A nv \in t.outNV : nv.view \in Nat /\ nv.view < t.view
  BY DEF States, IDs, NVs, Pos, Voted, ProposesInView, OneNewView
<1>2. /\ ProposesInView(t, r) /\ OneProposal(t) /\ OneNewView(t, r)
      /\ NewViewsStand(t) /\ SilentInTransfer(t)
  BY <1>1 DEF Voted, ProposesInView, OneProposal, OneNewView, NewViewsStand,
              SilentInTransfer, Proposed
<1>3. FollowsPrimaries(t, r, G)
  BY DEF Voted, FollowsPrimaries, StateOf, Proposed
<1> QED BY <1>2, <1>3 DEF Voted

\* What a replica tells stays true while it remembers its entries above H, sends
\* nothing, and stores only view changes that were sent.
LEMMA TellsKept ==
  ASSUME NEW s \in States, NEW t \in States, NEW r, NEW G, Tells(s, r, G),
         t.view >= s.view, t.transferring = s.transferring, t.target = s.target,
         t.H >= s.H, t.ledger = s.ledger,
         \A id \in t.prePrep : id \in s.prePrep \/ id.v <= t.view,
         t.plist \subseteq s.plist, \A e \in Basis(s) : e.n > t.H => e \in Basis(t),
         t.outC = s.outC, t.outVC = s.outVC, t.outNV = s.outNV,
         \A vc \in t.vcStore : vc \in s.vcStore \/ vc \in StateOf(vc.from, t, r, G).outVC
  PROVE  Tells(t, r, G)
<1>1. /\ s.view \in Nat /\ t.view \in Nat /\ s.H \in Nat /\ t.H \in Nat
      /\ LastExec(t) = LastExec(s) /\ LastExec(s) \in Nat /\ s.target.n \in Nat
      /\ \A id \in s.prePrep \cup s.plist \cup s.outC : id.v \in Nat /\ id.n \in Nat
      /\ \A vc \in s.outVC : vc.view \in Nat
  BY DEF States, Pos, IDs, Seqs, VCs, LastExec, Ckpts
<1>2. \A id \in t.prePrep \cup t.plist \cup t.outC : id.v <= t.view
  BY <1>1 DEF Tells
<1>3. \A n \in Nat : n > t.H /\ Reported(Basis(s), n) => Reported(Basis(t), n)
  BY DEF Reported
<1>4. \A n \in Nat : n > t.H => n > s.H
  BY <1>1
<1>5. Remembers(t)
  BY <1>1, <1>3, <1>4 DEF Tells, Remembers
<1>6. Told(t)
  BY <1>1 DEF Tells, Told
<1>7. HeardOf(t, r, G)
  BY DEF Tells, HeardOf, StateOf
<1> QED BY <1>2, <1>5, <1>6, <1>7 DEF Tells

\* A step that leaves alone what view changes are computed from.
LEMMA TellsStay ==
  ASSUME NEW s \in States, NEW t \in States, NEW r, NEW G, Tells(s, r, G),
         t.view = s.view, t.transferring = s.transferring, t.target = s.target,
         t.H = s.H, t.ledger = s.ledger, t.prePrep = s.prePrep,
         t.prepared = s.prepared, t.plist = s.plist, t.outC = s.outC,
         t.outVC = s.outVC, t.outNV = s.outNV, t.vcStore = s.vcStore
  PROVE  Tells(t, r, G)
<1>1. t.view >= s.view /\ t.H >= s.H
  BY DEF States, Pos
<1>2. Basis(t) = Basis(s)
  BY DEF Basis
<1> QED BY <1>1, <1>2, TellsKept

\* moveWatermarks to a stored checkpoint keeps everything.
LEMMA MoveWatermarksGood ==
  ASSUME NEW s, NEW r \in Validator, NEW G, OK(s, r, G), NEW c \in s.localCkpt
  PROVE  Leads(s, MoveWatermarks(s, c.n), r, G)
<1> DEFINE h == c.n
           t == MoveWatermarks(s, h)
<1>1. s \in States /\ h \in Nat /\ s.H \in Nat
  BY DEF OK, Sound, States, Ckpts
<1>2. t \in States
  BY <1>1, MoveWatermarksTyped
<1> HIDE DEF h
<1>3. /\ t.prePrep \subseteq s.prePrep /\ t.sentPrepare \subseteq s.sentPrepare
      /\ t.localCkpt \subseteq s.localCkpt
      /\ s.prepared \subseteq s.prePrep => t.prepared \subseteq t.prePrep
      /\ t.H >= s.H /\ (t.H = s.H \/ t.H = h)
      /\ t.plist \subseteq s.plist /\ \A e \in Basis(s) : e.n > t.H => e \in Basis(t)
  BY <1>1 DEF MoveWatermarks, States, Above, Basis
<1>4. /\ t.view = s.view /\ t.inVC = s.inVC /\ t.inRec = s.inRec /\ t.event = s.event
      /\ t.transferring = s.transferring /\ t.target = s.target /\ t.seqNo = s.seqNo
      /\ t.ledger = s.ledger /\ t.batchStore = s.batchStore /\ t.missing = s.missing
      /\ t.vcStore = s.vcStore /\ t.nvStore = s.nvStore /\ t.latestNV = s.latestNV
      /\ t.outPP = s.outPP /\ t.outP = s.outP /\ t.outC = s.outC /\ t.outK = s.outK
      /\ t.outVC = s.outVC /\ t.outNV = s.outNV /\ t.outRR = s.outRR
  BY <1>1 DEF MoveWatermarks, States
<1> HIDE DEF t
<1>5. Grows(s, t)
  BY <1>4 DEF Grows
<1>6. WellFormed(t)
  BY <1>3, <1>4 DEF OK, Sound, WellFormed, InReach
<1>7. Checkpointed(s, G) => Checkpointed(t, G)
  BY <1>1, <1>2, <1>3, <1>4, <1>5, CheckpointedKept DEF NewViewsOf, h
<1>8. Voted(s, r, G) => Voted(t, r, G)
  BY <1>1, <1>2, <1>3, <1>4, VotedKept
<1>9. Tells(s, r, G) => Tells(t, r, G)
  <2>1. t.view >= s.view
    BY <1>1, <1>4 DEF States, Pos
  <2> QED BY <1>1, <1>2, <1>3, <1>4, <2>1, TellsKept
<1>10. Leads(s, t, r, G)
  BY <1>2, <1>5, <1>6, <1>7, <1>8, <1>9, GrowsBack DEF Leads, OK, Sound
<1> QED BY <1>10 DEF t, h

\* The view changes E are stored in place of those of their views and senders.
StoreAll(s, E) ==
  [s EXCEPT !.vcStore = {o \in @ : \A e \in E : o.view # e.view \/ o.from # e.from}
                          \cup E]

\* Storing view changes of known checkpoints, one per sender, keeps everything.
LEMMA StoreAllGood ==
  ASSUME NEW s, NEW r \in Validator, NEW G, OK(s, r, G), NEW E \in SUBSET VCs,
         \A e \in E : InReach(s, e.view),
         \A a, b \in E : a.view = b.view /\ a.from = b.from => a = b,
         Agree(Known(s, G)) => \A e \in E : e.C \subseteq Known(s, G),
         Agree(Known(s, G)) /\ NoneRecovers(s, G) =>
           \A e \in E : e \in StateOf(e.from, s, r, G).outVC
  PROVE  Leads(s, StoreAll(s, E), r, G)
<1> DEFINE t == StoreAll(s, E)
<1>1. s \in States /\ t \in States
  BY DEF OK, Sound, StoreAll, States
<1>2. /\ t.view = s.view /\ t.inVC = s.inVC /\ t.inRec = s.inRec /\ t.event = s.event
      /\ t.transferring = s.transferring /\ t.target = s.target /\ t.seqNo = s.seqNo
      /\ t.ledger = s.ledger /\ t.batchStore = s.batchStore /\ t.missing = s.missing
      /\ t.nvStore = s.nvStore /\ t.latestNV = s.latestNV /\ t.H = s.H
      /\ t.localCkpt = s.localCkpt /\ t.prePrep = s.prePrep
      /\ t.sentPrepare = s.sentPrepare /\ t.prepared = s.prepared
      /\ t.outPP = s.outPP /\ t.outP = s.outP /\ t.outC = s.outC /\ t.outK = s.outK
      /\ t.outVC = s.outVC /\ t.outNV = s.outNV /\ t.outRR = s.outRR
      /\ t.plist = s.plist
  BY <1>1 DEF StoreAll, States
<1>3. t.vcStore = {o \in s.vcStore : \A e \in E : o.view # e.view \/ o.from # e.from}
                   \cup E
  BY <1>1 DEF StoreAll, States
<1> HIDE DEF t
<1>4. Grows(s, t) /\ Known(t, G) = Known(s, G)
  BY <1>2 DEF Grows, Known, Reports
<1>5. WellFormed(t)
  BY <1>2, <1>3 DEF OK, Sound, WellFormed, InReach
<1>6. Agree(Known(s, G)) /\ Checkpointed(s, G) => Checkpointed(t, G)
  <2>1. Agree(Known(s, G)) =>
          \A o \in t.vcStore : o \in s.vcStore \/ o.C \subseteq Known(t, G)
    BY <1>3, <1>4
  <2> QED BY <1>1, <1>2, <1>4, <2>1, CheckpointedKept DEF NewViewsOf
<1>7. Voted(s, r, G) => Voted(t, r, G)
  <2>1. s.H \in Nat
    BY <1>1 DEF States
  <2> QED BY <1>1, <1>2, <2>1, VotedKept
<1>8. (\A e \in E : e \in StateOf(e.from, s, r, G).outVC) /\ Tells(s, r, G)
        => Tells(t, r, G)
  <2>1. t.view >= s.view /\ t.H >= s.H
    BY <1>1, <1>2 DEF States, Pos
  <2>2. \A p : StateOf(p, t, r, G).outVC = StateOf(p, s, r, G).outVC
    BY <1>2 DEF StateOf
  <2>3. Basis(t) = Basis(s)
    BY <1>2 DEF Basis
  <2> QED BY <1>1, <1>2, <1>3, <2>1, <2>2, <2>3, TellsKept
<1>9. Leads(s, t, r, G)
  BY <1>1, <1>4, <1>5, <1>6, <1>7, <1>8, GrowsBack DEF Leads, OK, Sound
<1> QED BY <1>9 DEF t

\* Storing one view change keeps everything.
LEMMA StoreGood ==
  ASSUME NEW s, NEW r \in Validator, NEW G, OK(s, r, G), NEW vc \in VCs,
         InReach(s, vc.view), Agree(Known(s, G)) => vc.C \subseteq Known(s, G),
         Agree(Known(s, G)) /\ NoneRecovers(s, G) => vc \in StateOf(vc.from, s, r, G).outVC
  PROVE  Leads(s, Store(s, vc), r, G)
<1> DEFINE E == {vc}
<1>1. /\ E \in SUBSET VCs /\ \A e \in E : InReach(s, e.view)
      /\ \A a, b \in E : a.view = b.view /\ a.from = b.from => a = b
      /\ Agree(Known(s, G)) => \A e \in E : e.C \subseteq Known(s, G)
      /\ Agree(Known(s, G)) /\ NoneRecovers(s, G) =>
           \A e \in E : e \in StateOf(e.from, s, r, G).outVC
  OBVIOUS
<1>2. Store(s, vc) = StoreAll(s, E)
  BY DEF Store, StoreAll
<1> HIDE DEF E
<1> QED BY <1>1, <1>2, StoreAllGood

\* What t has of s when the views W were entered, but for view changes.
Entered(s, t, W, rec) ==
  /\ t.view = Max(W) /\ t.inVC = TRUE /\ t.inRec = (s.inRec \/ rec)
  /\ t.event = s.event /\ t.waitFin = s.waitFin
  /\ t.transferring = s.transferring /\ t.target = s.target
  /\ t.seqNo = s.seqNo /\ t.H = s.H /\ t.ledger = s.ledger
  /\ t.localCkpt = s.localCkpt /\ t.latestNV = s.latestNV
  /\ t.nvStore = {nv \in s.nvStore : nv.view \notin W}
  /\ t.prePrep \subseteq s.prePrep /\ t.sentPrepare \subseteq s.sentPrepare
  /\ t.prepared \subseteq t.prePrep
  /\ t.outPP = s.outPP /\ t.outP = s.outP /\ t.outC = s.outC
  /\ t.outK = s.outK /\ t.outNV = s.outNV /\ t.outRR = s.outRR

\* m is the view change sent for the last of the views W.
Asked(s, t, r, W, rec, m) ==
  /\ m.view = Max(W) /\ m.from = r /\ m.C = s.localCkpt /\ m.recovery = rec
  /\ t.outVC = s.outVC \cup {[m EXCEPT !.view = w] : w \in W}
  /\ t.vcStore \subseteq s.vcStore \cup {m}
  /\ \A x, y \in t.vcStore : x.view = y.view /\ x.from = y.from => x = y

\* What the fields are after view changes for the views W were sent.
LEMMA EnterViewsFields ==
  ASSUME NEW s \in States, WellFormed(s), NEW r \in Validator, NEW rec \in BOOLEAN,
         NEW W \in SUBSET Pos, Max(W) \in W, NEW t, t = EnterViews(s, r, W, rec)
  PROVE  /\ t \in States /\ Entered(s, t, W, rec)
         /\ \E m \in VCs : Asked(s, t, r, W, rec, m)
<1> DEFINE v == Max(W)
           a == BeforeSend(s, W, v, rec)
           b == GetVcBasis(a)
           m == ViewChangeMsg(b, r, rec)
           new == {[m EXCEPT !.view = w] : w \in W}
           u == [b EXCEPT !.outVC = @ \cup new]
           kept == {o \in u.vcStore : o.view # m.view \/ o.from # m.from} \cup {m}
           z == [u EXCEPT !.vcStore = kept]
<1>0. v = Max(W)
  OBVIOUS
<1>1. v \in Pos
  OBVIOUS
<1> HIDE DEF v
<1>2. /\ a \in States /\ Entered(s, a, W, rec)
      /\ a.vcStore \subseteq s.vcStore /\ a.outVC = s.outVC
  <2>1. a \in States
    BY <1>1, BeforeSendTyped
  <2>2. Entered(s, a, W, rec) /\ a.vcStore \subseteq s.vcStore /\ a.outVC = s.outVC
    BY <1>0 DEF States, Entered, WellFormed, BeforeSend
  <2> QED BY <2>1, <2>2
<1> HIDE DEF a
<1>3. /\ b \in States /\ Entered(s, b, W, rec)
      /\ b.vcStore \subseteq s.vcStore /\ b.outVC = s.outVC
  <2>1. b \in States
    BY <1>2, GetVcBasisTyped
  <2>2. Entered(s, b, W, rec) /\ b.vcStore \subseteq s.vcStore /\ b.outVC = s.outVC
    BY <1>2 DEF GetVcBasis, States, Entered
  <2> QED BY <2>1, <2>2
<1> HIDE DEF b
<1>4. /\ m \in VCs /\ m.view = v /\ m.from = r /\ m.C = s.localCkpt /\ m.recovery = rec
  BY <1>3 DEF ViewChangeMsg, VCs, States, Entered, v
<1>5. new \subseteq VCs
  BY <1>4 DEF VCs
<1> HIDE DEF m, new
<1>6. /\ u \in States /\ Entered(s, u, W, rec)
      /\ u.outVC = s.outVC \cup new /\ u.vcStore \subseteq s.vcStore
  BY <1>3, <1>5 DEF States, Entered
<1>7. t = IF CorrectViewChange(m) THEN z ELSE u
  BY DEF EnterViews, Store, BeforeSend, a, b, m, new, v
<1> HIDE DEF u
<1>8. /\ kept \subseteq VCs /\ kept \subseteq s.vcStore \cup {m}
      /\ \A x, y \in kept : x.view = y.view /\ x.from = y.from => x = y
  BY <1>4, <1>6 DEF WellFormed, States
<1> HIDE DEF kept
<1>9. /\ z \in States /\ Entered(s, z, W, rec)
      /\ z.outVC = s.outVC \cup new /\ z.vcStore = kept
  BY <1>6, <1>8 DEF States, Entered
<1> HIDE DEF z
<1>10. Asked(s, z, r, W, rec, m)
  BY <1>4, <1>8, <1>9 DEF Asked, v, new
<1>11. Asked(s, u, r, W, rec, m)
  BY <1>4, <1>6 DEF Asked, v, new, WellFormed
<1>12. t = z \/ t = u
  BY <1>7
<1> QED BY <1>4, <1>6, <1>9, <1>10, <1>11, <1>12


\* EnterViews from the state BeforeSend has prepared.
EnterThen(b, r, W, rec) ==
  LET t == GetVcBasis(b)
      vc == ViewChangeMsg(t, r, rec)
      u == [t EXCEPT !.outVC = @ \cup {[vc EXCEPT !.view = w] : w \in W}]
  IN IF CorrectViewChange(vc) THEN Store(u, vc) ELSE u

\* EnterViews in two stages: before and after the basis is computed.
LEMMA EnterViewsInTwo ==
  ASSUME NEW s, NEW r, NEW W, NEW rec
  PROVE  EnterViews(s, r, W, rec) = EnterThen(BeforeSend(s, W, Max(W), rec), r, W, rec)
BY DEF EnterViews, EnterThen, BeforeSend

\* calcPSet forgets no height: of the entries for a height one is highest.
LEMMA HighestEntry ==
  ASSUME NEW s \in States, \A e \in Basis(s) : e.v <= s.view, NEW e \in Basis(s)
  PROVE  \E p \in CalcPSet(s) : p.n = e.n
<1> DEFINE S == {o.v : o \in {x \in Basis(s) : x.n = e.n}}
<1>1. s.view \in Nat /\ \A o \in Basis(s) : o.v \in Nat
  BY DEF Basis, States, IDs, Pos
<1>2. S \subseteq 0 .. s.view /\ S # {} /\ 0 \in Int /\ s.view \in Int
  BY <1>1
<1>3. Max(S) \in S /\ \A k \in S : k <= Max(S)
  BY <1>2, MaxIsIn
<1>4. PICK p \in Basis(s) : p.n = e.n /\ p.v = Max(S)
  BY <1>3
<1>5. \A o \in Basis(s) : o.n = p.n => o.v <= p.v
  BY <1>3, <1>4
<1> HIDE DEF S
<1> QED BY <1>4, <1>5 DEF CalcPSet, Basis

\* What view changes for the views W report.
Reporting(s, t, r, W) ==
  /\ t.plist \subseteq Basis(s)
  /\ \A e \in Basis(s) : Reported(t.plist, e.n)
  /\ \A vc \in t.outVC :
       vc \in s.outVC \/ (/\ vc.view \in W /\ vc.h = s.H /\ vc.from = r
                          /\ vc.P = {p \in t.plist : p.n >= s.H})
  /\ \A vc \in t.vcStore : vc \in s.vcStore \/ (vc \in t.outVC /\ vc.from = r)

\* The view changes sent report every height of the basis above H.
LEMMA EnterViewsReporting ==
  ASSUME NEW s \in States, \A e \in Basis(s) : e.v <= s.view, NEW r \in Validator,
         NEW rec \in BOOLEAN, NEW W \in SUBSET Pos, Max(W) \in W, Max(W) >= s.view,
         NEW t, t = EnterViews(s, r, W, rec)
  PROVE  Reporting(s, t, r, W)
<1> DEFINE v == Max(W)
           a == BeforeSend(s, W, v, rec)
           b == GetVcBasis(a)
           m == ViewChangeMsg(b, r, rec)
           M(w) == [m EXCEPT !.view = w]
           new == {M(w) : w \in W}
           u == [b EXCEPT !.outVC = @ \cup new]
           kept == {o \in u.vcStore : o.view # m.view \/ o.from # m.from} \cup {m}
           z == [u EXCEPT !.vcStore = kept]
<1>0. v \in Pos /\ v \in W /\ v >= s.view
  OBVIOUS
<1>1. t = IF CorrectViewChange(m) THEN z ELSE u
  BY DEF EnterViews, Store, BeforeSend
<1> HIDE DEF v
<1>2. a \in States
  BY <1>0, BeforeSendTyped
<1>3. /\ Basis(a) = Basis(s) /\ a.H = s.H /\ a.view = v /\ a.outVC = s.outVC
      /\ a.vcStore \subseteq s.vcStore
  BY DEF BeforeSend, Basis, States
<1> HIDE DEF a
<1>4. \A e \in Basis(a) : e.v <= a.view
  <2>1. s.view \in Nat /\ v \in Nat /\ \A e \in Basis(s) : e.v \in Nat
    BY <1>0 DEF States, Basis, IDs, Pos
  <2> QED BY <1>0, <1>3, <2>1
<1>5. b \in States
  BY <1>2, GetVcBasisTyped
<1>6. /\ b.plist = CalcPSet(a) /\ b.H = s.H /\ b.view = v /\ b.outVC = s.outVC
      /\ b.vcStore \subseteq s.vcStore
  BY <1>2, <1>3 DEF GetVcBasis, States
<1>7. b.plist \subseteq Basis(s)
  BY <1>3, <1>6 DEF CalcPSet, Basis
<1>8. \A e \in Basis(s) : Reported(b.plist, e.n)
  BY <1>2, <1>3, <1>4, <1>6, HighestEntry DEF Reported
<1> HIDE DEF b
<1>9. \A w \in W : /\ M(w).view = w /\ M(w).h = s.H /\ M(w).from = r
                   /\ M(w).P = {p \in b.plist : p.n >= s.H}
  BY <1>6 DEF ViewChangeMsg
<1>10. m \in new /\ m.from = r
  <2>1. m = M(v)
    BY <1>6 DEF ViewChangeMsg
  <2>2. m.from = r
    BY DEF ViewChangeMsg
  <2> HIDE DEF m, M
  <2> QED BY <1>0, <2>1, <2>2
<1> HIDE DEF m, M
<1>11. \A vc \in new : /\ vc.view \in W /\ vc.h = s.H /\ vc.from = r
                       /\ vc.P = {p \in b.plist : p.n >= s.H}
  BY <1>9
<1> HIDE DEF new
<1>12. /\ u.plist = b.plist /\ u.outVC = s.outVC \cup new /\ u.vcStore \subseteq s.vcStore
  BY <1>5, <1>6 DEF States
<1>13. kept \subseteq s.vcStore \cup {m}
  BY <1>12
<1> HIDE DEF kept
<1>14. z.plist = b.plist /\ z.outVC = s.outVC \cup new /\ z.vcStore = kept
  <2>1. z.plist = u.plist /\ z.outVC = u.outVC
    BY <1>5 DEF States
  <2>2. z.vcStore = kept
    BY <1>5 DEF States
  <2> QED BY <1>12, <2>1, <2>2
<1> HIDE DEF u, z
<1>15. /\ t.plist = b.plist /\ t.outVC = s.outVC \cup new
       /\ t.vcStore \subseteq s.vcStore \cup {m}
  BY <1>1, <1>12, <1>13, <1>14
<1> QED BY <1>7, <1>8, <1>10, <1>11, <1>15 DEF Reporting

\* Sending view changes for later views keeps everything; after a recovery
\* view change somebody recovers.
LEMMA EnterViewsGood ==
  ASSUME NEW s, NEW r \in Validator, NEW G, Sound(s, G), NEW rec \in BOOLEAN,
         ~rec => OK(s, r, G) /\ ~s.transferring, NEW W \in SUBSET Pos, Max(W) \in W,
         \A w \in W : w <= Max(W) /\ w >= s.view /\ (~rec => w > s.view)
  PROVE  /\ Leads(s, EnterViews(s, r, W, rec), r, G)
         /\ rec => ~NoneRecovers(EnterViews(s, r, W, rec), G)
<1> DEFINE t == EnterViews(s, r, W, rec)
<1>1. s \in States /\ WellFormed(s)
  BY DEF Sound
<1>2. /\ t \in States /\ Entered(s, t, W, rec)
      /\ \E m \in VCs : Asked(s, t, r, W, rec, m)
  BY <1>1, EnterViewsFields
<1> HIDE DEF t
<1>3. PICK m \in VCs : Asked(s, t, r, W, rec, m)
  BY <1>2
<1> DEFINE M(w) == [m EXCEPT !.view = w]
<1>4. /\ \A w \in W : M(w) \in t.outVC /\ M(w).C = s.localCkpt
                        /\ M(w).recovery = rec /\ M(w).view = w
      /\ \A vc \in t.outVC : vc \in s.outVC \/ \E w \in W : vc = M(w)
  BY <1>3 DEF Asked, VCs
<1> HIDE DEF M
<1>5. Grows(s, t)
  BY <1>2, <1>3 DEF Grows, Entered, Asked
<1>6. s.localCkpt \subseteq Known(t, G)
  <2>1. s.localCkpt \subseteq UNION {vc.C : vc \in t.outVC}
    BY <1>4
  <2> QED BY <2>1 DEF Known, Reports
<1>7. WellFormed(t)
  <2>1. s.view \in Nat /\ t.view \in Nat /\ t.view >= s.view /\ t.view = Max(W)
        /\ MaxView \in Nat
    BY <1>1, <1>2, ConstantAssumption DEF States, Pos, Entered
  <2>2. \A v \in Nat : InReach(s, v) => InReach(t, v)
    BY <2>1 DEF InReach
  <2>3. \A w \in W : InReach(t, w)
    BY <2>1 DEF InReach
  <2>4. \A id \in t.prePrep \cup t.sentPrepare \cup t.outPP : InReach(t, id.v)
    <3>1. \A id \in s.prePrep \cup s.sentPrepare \cup s.outPP : id.v \in Nat
      BY <1>1 DEF States, IDs, Pos
    <3> QED BY <1>1, <1>2, <2>2, <3>1 DEF Entered, WellFormed
  <2>5. \A vc \in t.vcStore \cup t.outVC : InReach(t, vc.view)
    <3>1. \A vc \in s.vcStore \cup s.outVC : vc.view \in Nat
      BY <1>1 DEF States, VCs, Pos
    <3>2. InReach(t, m.view)
      BY <1>3, <2>3 DEF Asked
    <3> QED BY <1>1, <1>3, <1>4, <2>2, <2>3, <3>1, <3>2 DEF Asked, WellFormed
  <2>6. \A nv \in t.outNV : InReach(t, nv.view) /\ Computed(nv)
    <3>1. \A nv \in s.outNV : nv.view \in Nat
      BY <1>1 DEF States, NVs, Pos
    <3> QED BY <1>1, <1>2, <2>2, <3>1 DEF Entered, WellFormed
  <2>7. t.inRec => \E vc \in t.outVC : vc.recovery
    BY <1>1, <1>2, <1>4, <1>5 DEF Entered, WellFormed, Grows
  <2> QED BY <1>2, <1>3, <2>4, <2>5, <2>6, <2>7 DEF Entered, Asked, WellFormed
<1>8. Checkpointed(s, G) => Checkpointed(t, G)
  <2>1. \A vc \in t.vcStore : vc \in s.vcStore \/ vc.C \subseteq Known(t, G)
    BY <1>3, <1>6 DEF Asked
  <2>2. NewViewsOf(t) \subseteq NewViewsOf(s)
    BY <1>2 DEF NewViewsOf, Entered
  <2> QED BY <1>1, <1>2, <1>5, <2>1, <2>2, CheckpointedKept DEF Entered
<1>9. rec => ~NoneRecovers(t, G)
  BY <1>4 DEF NoneRecovers
<1>10. ~rec /\ Voted(s, r, G) => Voted(t, r, G)
  BY <1>1, <1>2, VotedAbove DEF Entered
<1>11. ASSUME ~rec, Tells(s, r, G) PROVE Tells(t, r, G)
  <2>1. /\ s.view \in Nat /\ t.view \in Nat /\ s.view < t.view /\ t.view = Max(W)
        /\ \A w \in W : w \in Nat /\ w <= t.view
        /\ ~s.transferring /\ ~t.transferring /\ t.H = s.H /\ LastExec(t) = LastExec(s)
        /\ t.outC = s.outC /\ t.outNV = s.outNV /\ s.H \in Nat
        /\ \A id \in s.prePrep \cup s.plist \cup s.outC : id.v \in Nat /\ id.n \in Nat
        /\ \A vc \in s.outVC : vc.view \in Nat
    BY <1>1, <1>2, <1>11 DEF States, Entered, Pos, LastExec, IDs, Seqs, VCs
  <2>2. \A e \in Basis(s) : e.v <= s.view /\ e \in s.prePrep \cup s.plist
    BY <1>1, <1>11 DEF Tells, Basis, WellFormed
  <2>3. Reporting(s, t, r, W)
    <3>1. Max(W) >= s.view /\ \A e \in Basis(s) : e.v <= s.view
      BY <2>1, <2>2
    <3> QED BY <1>1, <3>1, EnterViewsReporting DEF t
  <2>4. \A id \in t.prePrep \cup t.plist \cup t.outC : id.v <= t.view
    <3>1. \A id \in s.prePrep \cup s.plist \cup s.outC : id.v <= s.view
      BY <1>11 DEF Tells
    <3>2. t.prePrep \subseteq s.prePrep /\ t.plist \subseteq s.prePrep \cup s.plist
      BY <1>2, <2>2, <2>3 DEF Entered, Reporting
    <3> QED BY <2>1, <3>1, <3>2
  <2>5. \A n \in Nat : Reported(Basis(s), n) => Reported(t.plist, n) /\ Reported(Basis(t), n)
    BY <2>3 DEF Reporting, Reported, Basis
  <2>6. Remembers(t)
    BY <1>11, <2>1, <2>5 DEF Tells, Remembers, LastExec
  <2>7. Told(t)
    <3> SUFFICES ASSUME NEW vc \in t.outVC
                 PROVE  /\ vc.view <= t.view
                        /\ \A id \in t.outC : id.v < vc.view /\ id.n > vc.h =>
                             Reported(vc.P, id.n)
      BY DEF Told
    <3>1. CASE vc \in s.outVC
      BY <1>11, <2>1, <3>1 DEF Tells, Told
    <3>2. CASE vc.view \in W /\ vc.h = s.H /\ vc.P = {p \in t.plist : p.n >= s.H}
      <4>1. ASSUME NEW id \in t.outC, id.n > vc.h PROVE Reported(vc.P, id.n)
        <5>1. Reported(Basis(s), id.n)
          BY <1>11, <2>1, <3>2, <4>1 DEF Tells, Remembers
        <5>2. PICK p \in t.plist : p.n = id.n
          BY <2>1, <2>5, <4>1, <5>1 DEF Reported
        <5>3. p.n >= s.H
          BY <2>1, <3>2, <4>1, <5>2
        <5> QED BY <3>2, <5>2, <5>3 DEF Reported
      <4> QED BY <2>1, <3>2, <4>1
    <3> QED BY <2>3, <3>1, <3>2 DEF Reporting
  <2>8. HeardOf(t, r, G)
    <3>1. \A p : StateOf(p, s, r, G).outVC \subseteq StateOf(p, t, r, G).outVC
      BY <1>5 DEF StateOf, Grows
    <3>2. \A vc \in t.vcStore : vc \in s.vcStore \/ vc \in StateOf(vc.from, t, r, G).outVC
      BY <2>3 DEF Reporting, StateOf
    <3>3. \A vc \in t.outVC : vc.from = r
      BY <1>11, <2>3 DEF Reporting, Tells, HeardOf
    <3> QED BY <1>11, <2>1, <3>1, <3>2, <3>3 DEF Tells, HeardOf
  <2> QED BY <2>4, <2>6, <2>7, <2>8 DEF Tells
<1> QED BY <1>2, <1>5, <1>7, <1>8, <1>9, <1>10, <1>11, GrowsBack DEF Leads, OK, Sound, t

\* The view is moved to the one before the least view ahead.
LEMMA SetViewGood ==
  ASSUME NEW s, NEW r \in Validator, NEW G, OK(s, r, G), NEW v \in Pos, v >= s.view
  PROVE  Leads(s, [s EXCEPT !.view = v], r, G)
<1> DEFINE t == [s EXCEPT !.view = v]
<1>1. s \in States /\ t \in States
  BY DEF OK, Sound, States
<1>2. /\ t.view = v /\ t.inVC = s.inVC /\ t.inRec = s.inRec /\ t.event = s.event
      /\ t.transferring = s.transferring /\ t.target = s.target /\ t.seqNo = s.seqNo
      /\ t.ledger = s.ledger /\ t.batchStore = s.batchStore /\ t.missing = s.missing
      /\ t.vcStore = s.vcStore /\ t.nvStore = s.nvStore /\ t.latestNV = s.latestNV
      /\ t.localCkpt = s.localCkpt /\ t.prePrep = s.prePrep /\ t.H = s.H
      /\ t.sentPrepare = s.sentPrepare /\ t.prepared = s.prepared
      /\ t.outPP = s.outPP /\ t.outP = s.outP /\ t.outC = s.outC /\ t.outK = s.outK
      /\ t.outVC = s.outVC /\ t.outNV = s.outNV /\ t.outRR = s.outRR
      /\ t.plist = s.plist
  BY <1>1 DEF States
<1> HIDE DEF t
<1>3. Grows(s, t)
  BY <1>2 DEF Grows
<1>4. WellFormed(t)
  <2>1. s.view \in Nat /\ MaxView \in Nat /\ v \in Nat
    BY <1>1, ConstantAssumption DEF States, Pos
  <2>2. \A k \in Nat : InReach(s, k) => InReach(t, k)
    BY <1>2, <2>1 DEF InReach
  <2>3. /\ \A id \in s.prePrep \cup s.sentPrepare \cup s.outPP : id.v \in Nat
        /\ \A vc \in s.vcStore \cup s.outVC : vc.view \in Nat
        /\ \A nv \in s.outNV : nv.view \in Nat
    BY <1>1 DEF States, IDs, VCs, NVs, Pos
  <2> QED BY <1>2, <2>2, <2>3 DEF OK, Sound, WellFormed
<1>5. Checkpointed(s, G) => Checkpointed(t, G)
  BY <1>1, <1>2, <1>3, CheckpointedKept DEF NewViewsOf
<1>6. Voted(s, r, G) => Voted(t, r, G)
  <2>1. s.H \in Nat /\ v \in Nat /\ s.view \in Nat
    BY <1>1 DEF States, Pos
  <2>2. CASE v = s.view
    BY <1>1, <1>2, <2>1, <2>2, VotedKept
  <2>3. CASE v > s.view
    BY <1>1, <1>2, <2>3, VotedAbove
  <2> QED BY <2>1, <2>2, <2>3
<1>7. Tells(s, r, G) => Tells(t, r, G)
  <2>1. t.view >= s.view /\ t.H >= s.H
    BY <1>1, <1>2 DEF States, Pos
  <2>2. Basis(t) = Basis(s)
    BY <1>2 DEF Basis
  <2> QED BY <1>1, <1>2, <2>1, <2>2, TellsKept
<1> QED BY <1>1, <1>3, <1>4, <1>5, <1>6, <1>7, GrowsBack DEF Leads, OK, Sound, t

\* t differs from s in events, timers and what was handled at most.
SameCore(s, t) ==
  /\ t.view = s.view /\ t.inVC = s.inVC /\ t.inRec = s.inRec
  /\ t.transferring = s.transferring /\ t.target = s.target /\ t.seqNo = s.seqNo
  /\ t.ledger = s.ledger /\ t.batchStore = s.batchStore /\ t.missing = s.missing
  /\ t.vcStore = s.vcStore /\ t.nvStore = s.nvStore /\ t.latestNV = s.latestNV
  /\ t.localCkpt = s.localCkpt /\ t.prePrep = s.prePrep /\ t.H = s.H
  /\ t.sentPrepare = s.sentPrepare /\ t.prepared = s.prepared
  /\ t.outPP = s.outPP /\ t.outP = s.outP /\ t.outC = s.outC /\ t.outK = s.outK
  /\ t.outVC = s.outVC /\ t.outNV = s.outNV /\ t.outRR = s.outRR
  /\ t.plist = s.plist

\* A handler that leaves the protocol fields alone keeps everything.
LEMMA SameCoreGood ==
  ASSUME NEW s, NEW t \in States, NEW r, NEW G, OK(s, r, G), SameCore(s, t),
         t.event = "done" => s.event = "done", t.event = "quorum" => t.inVC
  PROVE  Leads(s, t, r, G)
<1>1. s \in States /\ s.H \in Nat
  BY DEF OK, Sound, States
<1>2. Grows(s, t)
  BY DEF Grows, SameCore
<1>3. WellFormed(t)
  BY DEF OK, Sound, WellFormed, InReach, SameCore
<1>4. Checkpointed(s, G) => Checkpointed(t, G)
  BY <1>1, <1>2, CheckpointedKept DEF NewViewsOf, SameCore
<1>5. Voted(s, r, G) => Voted(t, r, G)
  BY <1>1, VotedKept DEF SameCore
<1>6. Tells(s, r, G) => Tells(t, r, G)
  BY <1>1, TellsStay DEF SameCore
<1> QED BY <1>2, <1>3, <1>4, <1>5, <1>6, GrowsBack DEF Leads, OK, Sound

\* Signalling a quorum keeps everything.
LEMMA SignalQuorumGood ==
  ASSUME NEW s, NEW r \in Validator, NEW G, OK(s, r, G)
  PROVE  Leads(s, SignalQuorum(s), r, G)
<1> DEFINE t == SignalQuorum(s)
<1>1. s \in States /\ t \in States
  BY SignalQuorumTyped DEF OK, Sound
<1>2. /\ SameCore(s, t) /\ (t.event = "done" => s.event = "done")
      /\ t.event = "quorum" => t.inVC
  BY <1>1 DEF SignalQuorum, SameCore, States, OK, Sound, WellFormed
<1> HIDE DEF t
<1>3. Leads(s, t, r, G)
  BY <1>1, <1>2, SameCoreGood
<1> QED BY <1>3 DEF t

\* No new view is stored for the view the replica is in.
Lone(s) == \A nv \in s.nvStore : nv.view # s.view

\* Nothing more is to be done, or a quorum was found for a view without a
\* new view.
Called(s) == s.event = "none" \/ (s.event = "quorum" /\ Lone(s))

\* A quorum is signalled to a replica in a view change.
LEMMA SignalQuorumCalled ==
  ASSUME NEW s \in States, s.event = "none", Lone(s)
  PROVE  Called(SignalQuorum(s))
BY DEF SignalQuorum, Called, Lone, States

\* Following others to a higher view keeps everything.
LEMMA ClimbGood ==
  ASSUME NEW s, NEW r \in Validator, NEW G, OK(s, r, G), ViewsAhead(s) # {}
  PROVE  Leads(s, Climb(s, r), r, G)
<1> DEFINE W == ViewsAhead(s)
<1>1. s \in States /\ WellFormed(s) /\ s.view \in Pos /\ MaxView \in Nat
  BY ConstantAssumption DEF OK, Sound, States
<1>2. /\ W \in SUBSET Pos /\ \A w \in W : w > s.view /\ w <= MaxView
      /\ Max(W) \in W /\ Min(W) \in W
  BY <1>1, ViewsAheadAbove
<1>3. \A w \in W : w <= Max(W)
  <2>1. W \subseteq 1 .. MaxView /\ W # {} /\ 1 \in Int /\ MaxView \in Int
    BY <1>1, <1>2 DEF Pos
  <2> HIDE DEF W
  <2> QED BY <2>1, MaxIsIn
<1> HIDE DEF W
<1>4. CASE s.waitFin \/ s.transferring
  <2> DEFINE m == Min(W)
             v == m - 1
  <2>1. m \in Nat /\ m > s.view /\ s.view \in Nat /\ s.view # 0
    BY <1>1, <1>2 DEF Pos
  <2>2. Climb(s, r) = [s EXCEPT !.view = v]
    BY <1>4 DEF Climb, W
  <2> HIDE DEF m
  <2>3. v \in Nat /\ v # 0 /\ v >= s.view
    BY <2>1
  <2>4. v \in Pos
    BY <2>3 DEF Pos
  <2> HIDE DEF v
  <2> QED BY <2>2, <2>3, <2>4, SetViewGood
<1>5. CASE ~(s.waitFin \/ s.transferring)
  <2>1. Climb(s, r) = EnterViews(s, r, W, FALSE)
    BY <1>5 DEF Climb, W
  <2>2. \A w \in W : w <= Max(W) /\ w >= s.view /\ w > s.view
    BY <1>1, <1>2, <1>3 DEF Pos
  <2>3. Sound(s, G) /\ FALSE \in BOOLEAN /\ ~s.transferring
    BY <1>5 DEF OK
  <2> QED BY <1>2, <2>1, <2>2, <2>3, EnterViewsGood
<1> QED BY <1>4, <1>5

\* So does what a replica does after its own view change.
LEMMA AfterOwnGood ==
  ASSUME NEW s, NEW r \in Validator, NEW G, OK(s, r, G)
  PROVE  Leads(s, AfterOwn(s, r), r, G)
<1>1. CASE ViewsAhead(s) = {}
  BY <1>1, SignalQuorumGood DEF AfterOwn
<1>2. CASE ViewsAhead(s) # {}
  <2> DEFINE t == Climb(s, r)
  <2>1. Leads(s, t, r, G)
    BY <1>2, ClimbGood
  <2>2. AfterOwn(s, r) = IF s.waitFin \/ s.transferring THEN t ELSE SignalQuorum(t)
    BY <1>2 DEF AfterOwn
  <2> HIDE DEF t
  <2>3. Leads(t, SignalQuorum(t), r, G)
    BY <2>1, SignalQuorumGood DEF Leads
  <2>4. Leads(s, SignalQuorum(t), r, G)
    BY <2>1, <2>3, LeadsOn
  <2> QED BY <2>1, <2>2, <2>4
<1> QED BY <1>1, <1>2

\* After its own view change a replica that is alone signals a quorum at most.
LEMMA AfterOwnCalled ==
  ASSUME NEW s \in States, WellFormed(s), NEW r \in Validator, s.event = "none", Lone(s)
  PROVE  Called(AfterOwn(s, r))
<1>1. CASE ViewsAhead(s) = {}
  BY <1>1, SignalQuorumCalled DEF AfterOwn
<1>2. CASE ViewsAhead(s) # {}
  <2> DEFINE W == ViewsAhead(s)
             t == Climb(s, r)
  <2>1. AfterOwn(s, r) = IF s.waitFin \/ s.transferring THEN t ELSE SignalQuorum(t)
    BY <1>2 DEF AfterOwn
  <2>2. CASE s.waitFin \/ s.transferring
    <3>1. t.event = "none"
      BY <2>2 DEF Climb, States
    <3> QED BY <2>1, <2>2, <3>1 DEF Called
  <2>3. CASE ~(s.waitFin \/ s.transferring)
    <3>1. t = EnterViews(s, r, W, FALSE)
      BY <2>3 DEF Climb
    <3>2. W \in SUBSET Pos /\ Max(W) \in W /\ FALSE \in BOOLEAN
      BY <1>2, ViewsAheadAbove
    <3> HIDE DEF W, t
    <3>3. t \in States /\ Entered(s, t, W, FALSE)
      BY <3>1, <3>2, EnterViewsFields
    <3>4. t.event = "none" /\ Lone(t)
      BY <3>2, <3>3 DEF Entered, Lone
    <3> QED BY <2>1, <2>3, <3>3, <3>4, SignalQuorumCalled
  <2> QED BY <2>2, <2>3
<1> QED BY <1>1, <1>2

\* The greatest of one number is that number.
LEMMA MaxOfOne ==
  ASSUME NEW v \in Int
  PROVE  Max({v}) = v
BY DEF Max

\* sendViewChange keeps everything.
LEMMA SendViewChangeGood ==
  ASSUME NEW s, NEW r \in Validator, NEW G, OK(s, r, G)
  PROVE  /\ Leads(s, SendViewChange(s, r), r, G)
         /\ s.event = "none" => Called(SendViewChange(s, r))
<1>1. CASE s.waitFin \/ s.transferring
  BY <1>1, LeadsNowhere DEF SendViewChange, Called
<1>2. CASE ~(s.waitFin \/ s.transferring)
  <2> DEFINE v == s.view + 1
             t == EnterViews(s, r, {v}, FALSE)
  <2>1. s.view \in Nat /\ v \in Pos /\ v > s.view /\ v >= s.view
    BY DEF OK, Sound, States, Pos
  <2>2. SendViewChange(s, r) = AfterOwn(t, r)
    BY <1>2 DEF SendViewChange
  <2> HIDE DEF v
  <2>3. Max({v}) = v
    BY <2>1, MaxOfOne DEF Pos
  <2>4. Leads(s, t, r, G)
    <3>1. {v} \in SUBSET Pos /\ Max({v}) \in {v} /\ FALSE \in BOOLEAN /\ Sound(s, G)
          /\ ~s.transferring
      BY <1>2, <2>1, <2>3 DEF OK
    <3>2. \A w \in {v} : w <= Max({v}) /\ w >= s.view /\ w > s.view
      BY <2>1, <2>3 DEF Pos
    <3> QED BY <3>1, <3>2, EnterViewsGood
  <2>5. t \in States /\ Entered(s, t, {v}, FALSE)
    <3>1. {v} \in SUBSET Pos /\ Max({v}) \in {v} /\ FALSE \in BOOLEAN
          /\ s \in States /\ WellFormed(s)
      BY <2>1, <2>3 DEF OK, Sound
    <3> QED BY <3>1, EnterViewsFields
  <2> HIDE DEF t
  <2>6. Leads(t, AfterOwn(t, r), r, G) /\ WellFormed(t)
    BY <2>4, AfterOwnGood DEF Leads, OK, Sound
  <2>7. s.event = "none" => t.event = "none" /\ Lone(t)
    BY <2>3, <2>5 DEF Entered, Lone
  <2>8. s.event = "none" => Called(AfterOwn(t, r))
    BY <2>5, <2>6, <2>7, AfterOwnCalled
  <2>9. Leads(s, AfterOwn(t, r), r, G)
    BY <2>4, <2>6, LeadsOn
  <2> QED BY <2>2, <2>8, <2>9
<1> QED BY <1>1, <1>2


\* A recovery begins: sound is all its state has to be, since from then on the
\* replica is known to have recovered.
LEMMA RecoveryGood ==
  ASSUME NEW s, NEW r \in Validator, NEW G, Sound(s, G), NEW v \in Pos, v >= s.view
  PROVE  LET t == AfterOwn(EnterViews(s, r, {v}, TRUE), r)
         IN /\ Leads(s, t, r, G) /\ ~NoneRecovers(t, G)
            /\ s.event = "none" => Called(t)
<1> DEFINE e == EnterViews(s, r, {v}, TRUE)
           t == AfterOwn(e, r)
<1>1. s \in States /\ WellFormed(s) /\ s.view \in Nat /\ v \in Nat
  BY DEF Sound, States, Pos
<1>2. Max({v}) = v
  BY <1>1, MaxOfOne
<1>3. {v} \in SUBSET Pos /\ Max({v}) \in {v} /\ TRUE \in BOOLEAN
  BY <1>2
<1>4. \A w \in {v} : w <= Max({v}) /\ w >= s.view
  BY <1>1, <1>2
<1>5. Leads(s, e, r, G) /\ ~NoneRecovers(e, G)
  BY <1>3, <1>4, EnterViewsGood
<1>6. e \in States /\ Entered(s, e, {v}, TRUE)
  BY <1>1, <1>3, EnterViewsFields
<1> HIDE DEF e
<1>7. Leads(e, t, r, G) /\ WellFormed(e)
  BY <1>5, AfterOwnGood DEF Leads, OK, Sound
<1>8. s.event = "none" => e.event = "none" /\ Lone(e)
  BY <1>2, <1>6 DEF Entered, Lone
<1>9. s.event = "none" => Called(t)
  BY <1>6, <1>7, <1>8, AfterOwnCalled
<1> HIDE DEF t
<1>10. Leads(s, t, r, G) /\ ~NoneRecovers(t, G)
  BY <1>5, <1>7, LeadsOn, GrowsBack DEF Leads
<1> QED BY <1>9, <1>10 DEF t, e

\* Answering a recovery view change keeps everything.
LEMMA SendRecoveryResponseGood ==
  ASSUME NEW s, NEW r \in Validator, NEW G, OK(s, r, G), NEW to \in Validator
  PROVE  Leads(s, SendRecoveryResponse(s, r, to), r, G)
<1> DEFINE t == SendRecoveryResponse(s, r, to)
           new == {[from |-> r, to |-> to, nv |-> s.latestNV, ckpt |-> c]
                     : c \in {o \in s.localCkpt : o.n = s.H}}
<1>1. s \in States /\ t \in States /\ s.H \in Nat
  BY SendRecoveryResponseTyped DEF OK, Sound, States
<1>2. \A rr \in new : rr.nv = s.latestNV
  OBVIOUS
<1>3. t = [s EXCEPT !.outRR = @ \cup new]
  BY DEF SendRecoveryResponse
<1> HIDE DEF new
<1>4. /\ t.view = s.view /\ t.inVC = s.inVC /\ t.inRec = s.inRec /\ t.event = s.event
      /\ t.transferring = s.transferring /\ t.target = s.target /\ t.seqNo = s.seqNo
      /\ t.ledger = s.ledger /\ t.batchStore = s.batchStore /\ t.missing = s.missing
      /\ t.vcStore = s.vcStore /\ t.nvStore = s.nvStore /\ t.latestNV = s.latestNV
      /\ t.localCkpt = s.localCkpt /\ t.prePrep = s.prePrep /\ t.H = s.H
      /\ t.sentPrepare = s.sentPrepare /\ t.prepared = s.prepared
      /\ t.outPP = s.outPP /\ t.outP = s.outP /\ t.outC = s.outC /\ t.outK = s.outK
      /\ t.outVC = s.outVC /\ t.outNV = s.outNV /\ t.plist = s.plist
  BY <1>1 DEF States, SendRecoveryResponse
<1>5. t.outRR = s.outRR \cup new
  BY <1>1, <1>3 DEF States
<1> HIDE DEF t
<1>6. Grows(s, t)
  BY <1>4, <1>5 DEF Grows
<1>7. WellFormed(t)
  BY <1>4 DEF OK, Sound, WellFormed, InReach
<1>8. Checkpointed(s, G) => Checkpointed(t, G)
  <2>1. NewViewsOf(t) \subseteq NewViewsOf(s)
    BY <1>2, <1>4, <1>5 DEF NewViewsOf
  <2> QED BY <1>1, <1>4, <1>6, <2>1, CheckpointedKept
<1>9. Voted(s, r, G) => Voted(t, r, G)
  BY <1>1, <1>4, VotedKept
<1>10. Tells(s, r, G) => Tells(t, r, G)
  BY <1>1, <1>4, TellsStay
<1>11. Leads(s, t, r, G)
  BY <1>1, <1>6, <1>7, <1>8, <1>9, <1>10, GrowsBack DEF Leads, OK, Sound
<1> QED BY <1>11 DEF t


\* recvViewChange keeps everything.
LEMMA RecvViewChangeGood ==
  ASSUME NEW s, NEW r \in Validator, NEW G, OK(s, r, G),
         NEW vc \in VCs, vc.view <= MaxView,
         Agree(Known(s, G)) => vc.C \subseteq Known(s, G),
         Agree(Known(s, G)) /\ NoneRecovers(s, G) =>
           vc \in StateOf(vc.from, s, r, G).outVC
  PROVE  Leads(s, RecvViewChange(s, r, vc), r, G)
<1> DEFINE t == Store(s, vc)
<1>1. vc.from \in Validator /\ InReach(s, vc.view)
  BY DEF VCs, InReach
<1>2. Leads(s, t, r, G)
  BY <1>1, StoreGood
<1>3. RecvViewChange(s, r, vc) \in
        {SendRecoveryResponse(s, r, vc.from), s, AfterOwn(t, r), SignalQuorum(t),
         SendViewChange(t, r), SendRecoveryResponse(t, r, vc.from), t}
  BY Zenon DEF RecvViewChange
<1> HIDE DEF t
<1>4. OK(t, r, G)
  BY <1>2 DEF Leads
<1>5. /\ Leads(s, SendRecoveryResponse(s, r, vc.from), r, G) /\ Leads(s, s, r, G)
  BY <1>1, SendRecoveryResponseGood, LeadsNowhere
<1>6. Leads(s, AfterOwn(t, r), r, G)
  BY <1>2, <1>4, AfterOwnGood, LeadsOn
<1>7. Leads(s, SignalQuorum(t), r, G)
  BY <1>2, <1>4, SignalQuorumGood, LeadsOn
<1>8. Leads(s, SendViewChange(t, r), r, G)
  BY <1>2, <1>4, SendViewChangeGood, LeadsOn
<1>9. Leads(s, SendRecoveryResponse(t, r, vc.from), r, G)
  BY <1>1, <1>2, <1>4, SendRecoveryResponseGood, LeadsOn
<1> QED BY <1>2, <1>3, <1>5, <1>6, <1>7, <1>8, <1>9
-----------------------------------------------------------------------------
\* t is s on its way to checkpoint c, or to a higher one it was on its way to.
Transfers(s, t, c) ==
  /\ t.view = s.view /\ t.inVC = s.inVC /\ t.inRec = s.inRec /\ t.event = s.event
  /\ t.transferring = TRUE /\ t.seqNo = s.seqNo /\ t.H = s.H
  /\ t.ledger = s.ledger /\ t.batchStore = s.batchStore /\ t.missing = s.missing
  /\ t.vcStore = s.vcStore /\ t.nvStore = s.nvStore /\ t.latestNV = s.latestNV
  /\ t.localCkpt = s.localCkpt /\ t.prePrep \subseteq s.prePrep
  /\ t.sentPrepare \subseteq s.sentPrepare
  /\ t.outPP = s.outPP /\ t.outP = s.outP /\ t.outC = s.outC /\ t.outK = s.outK
  /\ t.outVC = s.outVC /\ t.outNV = s.outNV /\ t.outRR = s.outRR
  /\ t.plist = s.plist

\* What the fields are after tryStateTransfer.
LEMMA TryStateTransferFields ==
  ASSUME NEW s \in States, WellFormed(s), NEW c \in Ckpts
  PROVE  LET t == TryStateTransfer(s, c)
         IN /\ t \in States /\ Transfers(s, t, c) /\ t.prepared \subseteq t.prePrep
            /\ (t.target = s.target \/ t.target = c)
            /\ t.target.n >= c.n /\ t.target.n >= s.target.n
            /\ \A e \in Basis(s) : e.n > t.target.n \/ s.transferring => e \in Basis(t)
<1> DEFINE g == IF s.target.n >= c.n THEN s.target ELSE c
           u == [s EXCEPT !.target = g]
           h == u.target.n
           z == [u EXCEPT !.transferring = TRUE,
                          !.prePrep = Above(@, h),
                          !.sentPrepare = Above(@, h),
                          !.prepared = Above(@, h)]
           t == TryStateTransfer(s, c)
<1>1. g.n >= c.n /\ g.n >= s.target.n /\ (g = s.target \/ g = c)
  <2>1. s.target.n \in Nat /\ c.n \in Nat
    BY DEF States, Ckpts
  <2> QED BY <2>1
<1>2. t = IF s.transferring THEN u ELSE z
  BY DEF TryStateTransfer
<1>3. t \in States
  BY TryStateTransferTyped
<1> HIDE DEF g, t
<1>4. CASE s.transferring
  <2>1. /\ u.target = g /\ u.prepared = s.prepared /\ u.prePrep = s.prePrep
        /\ Basis(u) = Basis(s)
    BY DEF States, Basis
  <2>2. Transfers(s, u, c)
    BY <1>4 DEF States, Transfers
  <2>3. t = u
    BY <1>2, <1>4
  <2> HIDE DEF u
  <2> QED BY <1>1, <1>3, <2>1, <2>2, <2>3 DEF WellFormed, t
<1>5. CASE ~s.transferring
  <2>0. h = g.n
    BY DEF States
  <2> HIDE DEF h
  <2>1. z.target = g /\ z.prepared = Above(s.prepared, h) /\ z.prePrep = Above(s.prePrep, h)
    BY DEF States
  <2>2. Transfers(s, z, c)
    BY DEF States, Transfers, Above
  <2>3. t = z
    BY <1>2, <1>5 DEF h
  <2> HIDE DEF z
  <2>4. \A e \in Basis(s) : e.n > z.target.n => e \in Basis(z)
    BY <2>0, <2>1, <2>2 DEF Basis, Above, Transfers
  <2> QED BY <1>1, <1>3, <1>5, <2>1, <2>2, <2>3, <2>4 DEF WellFormed, Above, t
<1> QED BY <1>4, <1>5

\* checkIfNeedStateUpdate goes to a checkpoint that is known.  A primary asks
\* for no state transfer to the base of the new view it has sent.
LEMMA CheckIfNeedStateUpdateGood ==
  ASSUME NEW s, NEW r \in Validator, NEW G, OK(s, r, G), NEW c \in Ckpts,
         Agree(Known(s, G)) => c \in Known(s, G),
         Agree(Known(s, G)) /\ NoneRecovers(s, G) =>
           s.inVC /\ \A nv \in s.outNV : nv.view = s.view => nv.base = c.n
  PROVE  Leads(s, CheckIfNeedStateUpdate(s, c), r, G)
<1> DEFINE t == TryStateTransfer(s, c)
           behind == LastExec(s) < c.n \/ (s.H < c.n /\ \E o \in s.localCkpt : o.n = c.n)
<1>1. s \in States /\ WellFormed(s)
  BY DEF OK, Sound
<1>2. CASE s.H < c.n /\ c \in s.localCkpt
  BY <1>2, MoveWatermarksGood DEF CheckIfNeedStateUpdate
<1>3. CASE ~(s.H < c.n /\ c \in s.localCkpt) /\ ~behind
  BY <1>3, LeadsNowhere DEF CheckIfNeedStateUpdate
<1>4. CASE ~(s.H < c.n /\ c \in s.localCkpt) /\ behind
  <2>1. CheckIfNeedStateUpdate(s, c) = t
    BY <1>4 DEF CheckIfNeedStateUpdate
  <2>2. /\ t \in States /\ Transfers(s, t, c) /\ t.prepared \subseteq t.prePrep
        /\ (t.target = s.target \/ t.target = c)
        /\ t.target.n >= c.n /\ t.target.n >= s.target.n
        /\ \A e \in Basis(s) : e.n > t.target.n \/ s.transferring => e \in Basis(t)
    BY <1>1, TryStateTransferFields
  <2> HIDE DEF t
  <2>3. Grows(s, t) /\ Known(t, G) = Known(s, G)
    BY <2>2 DEF Grows, Known, Reports, Transfers
  <2>4. WellFormed(t)
    BY <1>1, <2>2 DEF WellFormed, InReach, Transfers
  <2>5. Agree(Known(s, G)) /\ Checkpointed(s, G) => LastExec(s) < c.n
    BY <1>4 DEF Checkpointed, Agree
  <2>6. /\ LastExec(s) \in Nat /\ c.n \in Nat /\ t.target.n \in Nat
        /\ \A nv \in s.outNV : nv.base \in Nat
    BY <1>1, <2>2 DEF States, LastExec, Ckpts, NVs
  <2>7. Agree(Known(s, G)) /\ Checkpointed(s, G) => Checkpointed(t, G)
    BY <2>2, <2>3, <2>5, <2>6 DEF Checkpointed, NewViewsOf, LastExec, Transfers
  <2>8. ASSUME Agree(Known(s, G)), NoneRecovers(s, G), Checkpointed(s, G), Voted(s, r, G)
        PROVE  Voted(t, r, G)
    <3>1. \A nv \in s.outNV : nv.view # s.view
      BY <2>5, <2>6, <2>8 DEF Voted, NewViewsStand, NewViewStands
    <3>2. \A id \in s.outPP : id.v # s.view
      BY <2>8 DEF Voted, ProposesInView
    <3>3. ProposesInView(t, r) /\ OneProposal(t) /\ OneNewView(t, r)
      BY <2>2, <2>8 DEF Voted, ProposesInView, OneProposal, OneNewView, Proposed, Passed,
                           Transfers
    <3>4. NewViewsStand(t) /\ SilentInTransfer(t)
      BY <2>2, <3>1, <3>2 DEF NewViewsStand, SilentInTransfer, Transfers
    <3>5. FollowsPrimaries(t, r, G)
      BY <2>2, <2>8 DEF Voted, FollowsPrimaries, StateOf, Proposed, Transfers
    <3> QED BY <3>3, <3>4, <3>5 DEF Voted
  <2>9. ASSUME Tells(s, r, G) PROVE Tells(t, r, G)
    <3>1. \A id \in t.prePrep \cup t.plist \cup t.outC : id.v <= t.view
      BY <2>2, <2>9 DEF Tells, Transfers
    <3>2. s.target.n \in Nat /\ \A id \in s.outC : id.n \in Nat
      BY <1>1 DEF States, Ckpts, IDs, Seqs
    <3>3. Remembers(t)
      <4> SUFFICES ASSUME NEW id \in s.outC, id.n > s.H, id.n > t.target.n
                   PROVE  Reported(Basis(t), id.n)
        BY <2>2 DEF Remembers, Transfers
      <4>1. id.n > s.target.n
        BY <2>2, <2>6, <3>2
      <4>2. Reported(Basis(s), id.n)
        BY <2>9, <4>1 DEF Tells, Remembers
      <4> QED BY <2>2, <4>2 DEF Reported
    <3>4. Told(t) /\ HeardOf(t, r, G)
      BY <2>2, <2>9 DEF Tells, Told, HeardOf, StateOf, Transfers
    <3> QED BY <3>1, <3>3, <3>4 DEF Tells
  <2>10. Leads(s, t, r, G)
    <3>1. Agree(Known(t, G)) => Checkpointed(t, G)
      BY <2>3, <2>7 DEF OK, Sound
    <3>2. Agree(Known(t, G)) /\ NoneRecovers(t, G) => Voted(t, r, G) /\ Tells(t, r, G)
      BY <2>3, <2>8, <2>9, GrowsBack DEF OK, Sound
    <3> QED BY <2>2, <2>3, <2>4, <3>1, <3>2 DEF Leads, OK, Sound
  <2> QED BY <2>1, <2>10
<1> QED BY <1>2, <1>3, <1>4

\* What it leaves alone, and what holds when it asks for no state transfer.
Updated(s, t, c) ==
  /\ t.view = s.view /\ t.inVC = s.inVC /\ t.event = s.event
  /\ t.vcStore = s.vcStore /\ t.nvStore = s.nvStore
  /\ ~t.transferring /\ (\A o \in s.localCkpt : o.n <= LastExec(s)) =>
       /\ c.n <= LastExec(t)
       /\ c.n <= t.H \/ \A o \in t.localCkpt : o.n # c.n

\* What the fields are after checkIfNeedStateUpdate.
LEMMA CheckIfNeedStateUpdateFields ==
  ASSUME NEW s \in States, WellFormed(s), NEW c \in Ckpts
  PROVE  Updated(s, CheckIfNeedStateUpdate(s, c), c)
<1> DEFINE t == CheckIfNeedStateUpdate(s, c)
<1> SUFFICES Updated(s, t, c)
  OBVIOUS
<1> DEFINE u == TryStateTransfer(s, c)
           w == MoveWatermarks(s, c.n)
           behind == LastExec(s) < c.n \/ (s.H < c.n /\ \E o \in s.localCkpt : o.n = c.n)
<1>1. s.H \in Nat /\ c.n \in Nat /\ LastExec(s) \in Nat
  BY DEF States, Ckpts, LastExec
<1>2. CASE s.H < c.n /\ c \in s.localCkpt
  <2>1. t = w
    BY <1>2 DEF CheckIfNeedStateUpdate
  <2>2. w.H = c.n
    BY <1>1, <1>2 DEF MoveWatermarks, States
  <2> QED BY <1>1, <1>2, <2>1, <2>2 DEF MoveWatermarks, States, LastExec, Updated
<1>3. CASE ~(s.H < c.n /\ c \in s.localCkpt) /\ ~behind
  <2>1. t = s
    BY <1>3 DEF CheckIfNeedStateUpdate
  <2> HIDE DEF t
  <2> QED BY <1>1, <1>3, <2>1 DEF Updated
<1>4. CASE ~(s.H < c.n /\ c \in s.localCkpt) /\ behind
  <2>1. t = u
    BY <1>4 DEF CheckIfNeedStateUpdate
  <2>2. Transfers(s, u, c)
    BY TryStateTransferFields
  <2> HIDE DEF u, t
  <2> QED BY <2>1, <2>2 DEF Transfers, Updated
<1> QED BY <1>2, <1>3, <1>4

\* assignSequenceNumbers carries over heights that were proposed.
LEMMA AssignTyped ==
  ASSUME NEW vcs \in SUBSET VCs, NEW h \in Nat, NEW x \in AssignSequenceNumbers(vcs, h)
  PROVE  x \in XSets
<1> DEFINE range == (h + 1) .. (h + L)
           full == {f \in [range -> Batches] : \A n \in range : f[n] \in DigestsFor(vcs, n)}
           chosen == {n \in range : Selected(vcs, n) # {}}
           maxN == Max(chosen \cup {h + 1})
           Kept(f) == {n \in range : n < maxN \/ f[n] # NullDigest}
<1>1. L \in Nat /\ L # 0 /\ MaxSeq \in Nat
  BY ConstantAssumption
<1>2. PICK f \in full : x = [n \in Kept(f) |-> f[n]]
  BY DEF AssignSequenceNumbers
<1>3. \A n \in chosen : n \in Seqs
  <2> SUFFICES ASSUME NEW n \in chosen PROVE n \in Seqs
    OBVIOUS
  <2>1. PICK em \in UNION {m.P : m \in vcs} : em.n = n
    BY DEF Selected
  <2>2. em \in IDs
    BY <2>1 DEF VCs
  <2> QED BY <2>1, <2>2 DEF IDs
<1>4. maxN \in chosen \cup {h + 1}
  <2> DEFINE S == chosen \cup {h + 1}
             a == h + 1
             b == h + L
  <2>1. S \subseteq a .. b /\ S # {} /\ a \in Int /\ b \in Int
    BY <1>1
  <2> HIDE DEF S, a, b
  <2>2. Max(S) \in S
    BY <2>1, MaxIsIn
  <2> QED BY <2>2 DEF S
<1> HIDE DEF maxN
<1>5. \A n \in range : f[n] \in Batches /\ f[n] \in DigestsFor(vcs, n)
  OBVIOUS
<1>6. \A n \in range : n \notin chosen => f[n] = NullDigest
  BY <1>5 DEF DigestsFor
<1> HIDE DEF chosen, full
<1>7. ASSUME NEW n \in Kept(f) PROVE n \in Seqs
  <2>1. CASE n \in chosen
    BY <1>3, <2>1
  <2>2. CASE n \notin chosen
    <3>1. n < maxN /\ n \in Nat /\ n >= h + 1
      BY <1>6, <2>2
    <3>2. maxN \in Seqs
      BY <1>3, <1>4, <3>1
    <3> QED BY <1>1, <3>1, <3>2 DEF Seqs
  <2> QED BY <2>1, <2>2
<1>8. \A n \in Kept(f) : f[n] \in Batches
  BY <1>5
<1> HIDE DEF Kept
<1>9. x \in [Kept(f) -> Batches] /\ Kept(f) \in SUBSET Seqs
  BY <1>2, <1>7, <1>8
<1> QED BY <1>9 DEF XSets

\* The initial checkpoint is one of those the view changes list.
LEMMA InitialCheckpointListed ==
  ASSUME NEW vcs \in SUBSET VCs, InitialCheckpoints(vcs) # {},
         NEW c, c = CHOOSE i \in InitialCheckpoints(vcs) : TRUE
  PROVE  c \in Ckpts /\ \E vc \in vcs : c \in vc.C
<1>1. c \in InitialCheckpoints(vcs)
  OBVIOUS
<1>2. c \in UNION {vc.C : vc \in vcs}
  BY <1>1 DEF InitialCheckpoints
<1> QED BY <1>2 DEF VCs

-----------------------------------------------------------------------------
\* The next sequence number lies above every live proposal.
LEMMA SeqNoAfterAbove ==
  ASSUME NEW s \in States, NEW live \in SUBSET IDs
  PROVE  /\ SeqNoAfter(s, live) \in Nat
         /\ \A id \in live : id.n <= SeqNoAfter(s, live)
<1> DEFINE S == {id.n : id \in live} \cup {LastExec(s)}
           b == MaxSeq + LastExec(s)
<1>1. LastExec(s) \in Nat /\ MaxSeq \in Nat
  BY ConstantAssumption DEF LastExec, States
<1>2. \A id \in live : id.n \in 0 .. b
  BY <1>1 DEF IDs, Seqs
<1>3. S \subseteq 0 .. b /\ S # {} /\ 0 \in Int /\ b \in Int
  BY <1>1, <1>2
<1>4. SeqNoAfter(s, live) = Max(S)
  BY DEF SeqNoAfter
<1>5. \A id \in live : id.n \in S
  OBVIOUS
<1> HIDE DEF S, b
<1>6. Max(S) \in S /\ \A y \in S : y <= Max(S)
  BY <1>3, MaxIsIn
<1>7. Max(S) \in Nat
  <2>1. Max(S) \in 0 .. b
    BY <1>3, <1>6
  <2> HIDE DEF S
  <2> QED BY <1>3, <2>1
<1> QED BY <1>4, <1>5, <1>6, <1>7

\* What t has of s when new view nv was entered.
Installs(s, t, r, nv) ==
  /\ t.view = s.view /\ t.inVC = s.inVC /\ t.inRec = s.inRec /\ t.event = "done"
  /\ t.transferring = s.transferring /\ t.target = s.target /\ t.H = s.H
  /\ t.ledger = s.ledger /\ t.batchStore = s.batchStore /\ t.missing = s.missing
  /\ t.vcStore = s.vcStore /\ t.nvStore = s.nvStore /\ t.latestNV = nv
  /\ t.localCkpt = s.localCkpt /\ t.prepared = s.prepared
  /\ t.outPP = s.outPP /\ t.outK = s.outK
  /\ t.outVC = s.outVC /\ t.outNV = s.outNV /\ t.outRR = s.outRR
  /\ t.plist = s.plist
  /\ s.prePrep \subseteq t.prePrep /\ t.prePrep \subseteq s.prePrep \cup Carried(nv)
  /\ t.sentPrepare \subseteq s.sentPrepare \cup Carried(nv)
  /\ \A id \in t.outC : \/ id \in s.outC
                        \/ id \in Carried(nv) /\ id.n > s.H /\ id.n <= LastExec(s)
  /\ t.outP \subseteq s.outP \cup Carried(nv)
  /\ r = PrimaryOf[s.view] => t.outP = s.outP
  /\ \A n \in DOMAIN nv.xset : n > s.H /\ HasBatch(s, nv.xset[n]) => n <= t.seqNo

\* What the fields are after processNewView.
LEMMA ProcessNewViewFields ==
  ASSUME NEW s \in States, NEW r \in Validator, NEW nv \in NVs, nv.view = s.view
  PROVE  LET t == [ProcessNewView(s, r, nv.xset) EXCEPT !.latestNV = nv, !.event = "done"]
         IN t \in States /\ Installs(s, t, r, nv)
<1> DEFINE x == {[v |-> s.view, n |-> n, d |-> nv.xset[n]] : n \in DOMAIN nv.xset}
           live == {id \in Above(x, s.H) : HasBatch(s, id.d)}
           redone == {id \in Above(x, s.H) : id.n <= LastExec(s)}
           top == SeqNoAfter(s, live)
           sp == IF r # PrimaryOf[s.view] THEN s.sentPrepare \cup Above(x, s.H)
                 ELSE s.sentPrepare
           op == IF r # PrimaryOf[s.view] THEN s.outP \cup x ELSE s.outP
           u == [s EXCEPT !.seqNo = top, !.prePrep = @ \cup live, !.sentPrepare = sp,
                          !.outP = op, !.outC = @ \cup redone]
           t == [u EXCEPT !.latestNV = nv, !.event = "done"]
<1>1. x = Carried(nv)
  BY DEF Carried
<1>2. x \subseteq IDs
  <2>1. s.view \in Pos /\ \A n \in DOMAIN nv.xset : n \in Seqs /\ nv.xset[n] \in Batches
    BY DEF States, NVs, XSets
  <2> QED BY <2>1 DEF IDs
<1>3. \A n \in DOMAIN nv.xset :
        n > s.H /\ HasBatch(s, nv.xset[n]) =>
          \E id \in live : id.n = n
  <2> SUFFICES ASSUME NEW n \in DOMAIN nv.xset, n > s.H, HasBatch(s, nv.xset[n])
               PROVE  \E id \in live : id.n = n
    OBVIOUS
  <2> DEFINE id == [v |-> s.view, n |-> n, d |-> nv.xset[n]]
  <2>1. id \in x /\ id.n = n /\ id.d = nv.xset[n]
    OBVIOUS
  <2> HIDE DEF id, x
  <2>2. id \in live
    BY <2>1 DEF Above
  <2> QED BY <2>1, <2>2
<1>4. ProcessNewView(s, r, nv.xset) = u
  BY DEF ProcessNewView
<1> HIDE DEF x
<1>5. /\ live \subseteq x /\ redone \subseteq x /\ Above(x, s.H) \subseteq x
      /\ \A id \in redone : id.n > s.H /\ id.n <= LastExec(s)
  BY DEF Above
<1>6. /\ sp \subseteq s.sentPrepare \cup x /\ op \subseteq s.outP \cup x
      /\ r = PrimaryOf[s.view] => op = s.outP
  BY <1>5
<1>7. top \in Nat /\ \A id \in live : id.n <= top
  <2>1. live \in SUBSET IDs
    BY <1>2, <1>5
  <2> HIDE DEF live
  <2> QED BY <2>1, SeqNoAfterAbove
<1>8. \A n \in DOMAIN nv.xset : n > s.H /\ HasBatch(s, nv.xset[n]) => n <= top
  BY <1>3, <1>7
<1>9. sp \subseteq IDs /\ op \subseteq IDs /\ live \subseteq IDs /\ redone \subseteq IDs
  BY <1>2, <1>5, <1>6 DEF States
<1> HIDE DEF live, redone, sp, op, top
<1>10. t \in States
  BY <1>7, <1>9 DEF States
<1>11. /\ t.view = s.view /\ t.inVC = s.inVC /\ t.inRec = s.inRec /\ t.event = "done"
       /\ t.transferring = s.transferring /\ t.target = s.target /\ t.H = s.H
       /\ t.ledger = s.ledger /\ t.batchStore = s.batchStore /\ t.missing = s.missing
       /\ t.vcStore = s.vcStore /\ t.nvStore = s.nvStore /\ t.latestNV = nv
       /\ t.localCkpt = s.localCkpt /\ t.prepared = s.prepared
       /\ t.outPP = s.outPP /\ t.outK = s.outK
       /\ t.outVC = s.outVC /\ t.outNV = s.outNV /\ t.outRR = s.outRR
       /\ t.plist = s.plist
  BY DEF States
<1>12. /\ t.seqNo = top /\ t.prePrep = s.prePrep \cup live /\ t.sentPrepare = sp
       /\ t.outP = op /\ t.outC = s.outC \cup redone
  BY DEF States
<1> HIDE DEF u, t
<1>13. Installs(s, t, r, nv)
  BY <1>1, <1>5, <1>6, <1>8, <1>11, <1>12 DEF Installs
<1> QED BY <1>4, <1>10, <1>13 DEF t

\* resetStateForNewView keeps everything and leaves the event it finishes with.
LEMMA ResetStateForNewViewGood ==
  ASSUME NEW s, NEW r \in Validator, NEW G, OK(s, r, G), s.missing = {}
  PROVE  LET t == ResetStateForNewView(s, r)
         IN Leads(s, t, r, G) /\ (t.event = "done" \/ t.event = s.event)
<1> DEFINE nv == CHOOSE o \in s.nvStore : o.view = s.view
           t == [ProcessNewView(s, r, nv.xset) EXCEPT !.latestNV = nv, !.event = "done"]
<1>1. CASE ~s.inVC \/ \A o \in s.nvStore : o.view # s.view
  BY <1>1, LeadsNowhere DEF ResetStateForNewView
<1>2. CASE ~(~s.inVC \/ \A o \in s.nvStore : o.view # s.view)
  <2>1. ResetStateForNewView(s, r) = t
    BY <1>2 DEF ResetStateForNewView
  <2>2. nv \in s.nvStore /\ nv.view = s.view /\ s.inVC
    BY <1>2
  <2> HIDE DEF nv
  <2>3. s \in States /\ nv \in NVs /\ s.H \in Nat /\ WellFormed(s)
    BY <2>2 DEF OK, Sound, States
  <2>4. t \in States /\ Installs(s, t, r, nv)
    BY <2>2, <2>3, ProcessNewViewFields
  <2> HIDE DEF t
  <2>5. \A id \in Carried(nv) : id.v = s.view
    BY <2>2 DEF Carried
  <2>6. Grows(s, t) /\ t.event = "done"
    BY <2>4 DEF Grows, Installs
  <2>7. WellFormed(t)
    <3>1. InReach(s, s.view)
      BY <2>3 DEF InReach, States, Pos
    <3> QED BY <2>3, <2>4, <2>5, <3>1 DEF WellFormed, InReach, Installs
  <2>8. Checkpointed(s, G) => Checkpointed(t, G)
    <3>1. NewViewsOf(t) \subseteq NewViewsOf(s)
      BY <2>2, <2>4 DEF NewViewsOf, Installs
    <3> QED BY <2>3, <2>4, <2>6, <3>1, CheckpointedKept DEF Installs
  <2>9. ASSUME Voted(s, r, G) PROVE Voted(t, r, G)
    <3>1. /\ ProposesInView(t, r) /\ OneProposal(t) /\ OneNewView(t, r)
          /\ SilentInTransfer(t)
      <4>1. \A id \in s.outPP : id.v # s.view
        BY <2>2, <2>9 DEF Voted, ProposesInView
      <4> QED BY <2>4, <2>9, <4>1 DEF Voted, ProposesInView, OneProposal, OneNewView,
                                      SilentInTransfer, Proposed, Installs
    <3>2. nv.from = PrimaryOf[nv.view] /\ nv \in StateOf(nv.from, s, r, G).outNV
      BY <2>2, <2>9 DEF Voted, FollowsPrimaries
    <3>3. NewViewsStand(t)
      <4> SUFFICES ASSUME NEW w \in t.outNV, w.view = t.view PROVE NewViewStands(t, w)
        BY DEF NewViewsStand
      <4>1. w \in s.outNV /\ w.view = s.view
        BY <2>4 DEF Installs
      <4>2. w = nv
        BY <2>2, <2>9, <3>2, <4>1 DEF Voted, OneNewView, StateOf
      <4>3. NewViewStands(s, nv)
        BY <2>9, <4>1, <4>2 DEF Voted, NewViewsStand
      <4>4. \A n \in DOMAIN nv.xset : n \in Nat /\ Passed(t, n)
        <5>1. \A n \in DOMAIN nv.xset : n \in Nat
          BY <2>3 DEF NVs, XSets, Seqs
        <5> QED BY <2>3, <2>4, <4>3, <5>1 DEF Passed, Installs, NewViewStands
      <4> QED BY <2>2, <2>4, <4>2, <4>3, <4>4
              DEF NewViewStands, Installs, HasBatch, LastExec
    <3>4. FollowsPrimaries(t, r, G)
      <4>1. \A p : StateOf(p, t, r, G).outNV = StateOf(p, s, r, G).outNV
                   /\ Proposed(StateOf(p, t, r, G)) = Proposed(StateOf(p, s, r, G))
        BY <2>4 DEF StateOf, Proposed, Installs
      <4>2. Carried(nv) \subseteq Proposed(StateOf(PrimaryOf[s.view], s, r, G))
        BY <2>2, <3>2 DEF Proposed
      <4>3. \A o \in t.nvStore : /\ o.from = PrimaryOf[o.view]
                                 /\ o \in StateOf(o.from, t, r, G).outNV
        BY <2>4, <2>9, <4>1 DEF Voted, FollowsPrimaries, Installs
      <4>4. \A id \in t.prePrep \cup t.outP \cup t.outC :
              /\ PrimaryOf[id.v] \in Validator
              /\ id \in Proposed(StateOf(PrimaryOf[id.v], t, r, G))
        <5>1. PrimaryOf[s.view] \in Validator
          BY <2>2, <2>3, <3>2 DEF NVs
        <5> QED BY <2>4, <2>5, <2>9, <4>1, <4>2, <5>1 DEF Voted, FollowsPrimaries, Installs
      <4>5. \A id \in t.outP : PrimaryOf[id.v] # r
        BY <2>4, <2>5, <2>9 DEF Voted, FollowsPrimaries, Installs
      <4> QED BY <4>3, <4>4, <4>5 DEF FollowsPrimaries
    <3> QED BY <3>1, <3>3, <3>4 DEF Voted
  <2>10. ASSUME Checkpointed(s, G), Tells(s, r, G) PROVE Tells(t, r, G)
    <3>1. /\ LastExec(s) \in Nat /\ LastExec(t) = LastExec(s) /\ s.target.n \in Nat
          /\ s.view \in Nat /\ Basis(t) = Basis(s)
          /\ \A id \in t.outC : id.n \in Nat /\ id.n # 0
      BY <2>3, <2>4 DEF States, Ckpts, LastExec, IDs, Seqs, Pos, Basis, Installs
    <3>2. \A id \in t.prePrep \cup t.plist \cup t.outC : id.v <= t.view
      BY <2>4, <2>5, <2>10, <3>1 DEF Tells, Installs
    <3>3. Remembers(t)
      <4>1. ASSUME NEW id \in t.outC, id.n > s.H, s.transferring => id.n > s.target.n
            PROVE  Reported(Basis(s), id.n)
        <5>1. CASE id \in s.outC
          BY <2>10, <4>1, <5>1 DEF Tells, Remembers
        <5>2. CASE id.n <= LastExec(s)
          <6>1. ~s.transferring
            BY <2>10, <3>1, <4>1, <5>2 DEF Checkpointed
          <6>2. id.n \in 1 .. LastExec(s)
            BY <3>1, <5>2
          <6> QED BY <2>10, <4>1, <6>1, <6>2 DEF Tells, Remembers
        <5> QED BY <2>4, <5>1, <5>2 DEF Installs
      <4> QED BY <2>4, <2>10, <3>1, <4>1 DEF Tells, Remembers, Installs
    <3>4. Told(t)
      <4>1. \A vc \in s.outVC : vc.view \in Nat /\ vc.view <= s.view
        BY <2>3, <2>10 DEF Tells, Told, States, VCs, Pos
      <4>2. \A id \in t.outC : id \in s.outC \/ id.v = s.view
        BY <2>4, <2>5 DEF Installs
      <4> QED BY <2>4, <2>10, <3>1, <4>1, <4>2 DEF Tells, Told, Installs
    <3>5. HeardOf(t, r, G)
      BY <2>4, <2>10 DEF Tells, HeardOf, StateOf, Installs
    <3> QED BY <3>2, <3>3, <3>4, <3>5 DEF Tells
  <2>11. Leads(s, t, r, G)
    BY <2>4, <2>6, <2>7, <2>8, <2>9, <2>10, GrowsBack DEF Leads, OK, Sound
  <2> QED BY <2>1, <2>6, <2>11
<1> QED BY <1>1, <1>2

\* The batches of xset above H that are not at hand.
Lacks(s, xset) ==
  {xset[n] : n \in {m \in DOMAIN xset : m > s.H /\ ~HasBatch(s, xset[m])}}

\* What t has of s when its new views and missing batches alone differ.
SameButNewViews(s, t) ==
  /\ t.view = s.view /\ t.inVC = s.inVC /\ t.inRec = s.inRec /\ t.event = s.event
  /\ t.transferring = s.transferring /\ t.target = s.target /\ t.seqNo = s.seqNo
  /\ t.ledger = s.ledger /\ t.batchStore = s.batchStore
  /\ t.vcStore = s.vcStore /\ t.latestNV = s.latestNV
  /\ t.localCkpt = s.localCkpt /\ t.prePrep = s.prePrep /\ t.H = s.H
  /\ t.sentPrepare = s.sentPrepare /\ t.prepared = s.prepared
  /\ t.outPP = s.outPP /\ t.outP = s.outP /\ t.outC = s.outC /\ t.outK = s.outK
  /\ t.outVC = s.outVC /\ t.outRR = s.outRR /\ t.plist = s.plist

\* Batches that are lacking are batches.
LEMMA LacksTyped ==
  ASSUME NEW s, NEW xset \in XSets
  PROVE  Lacks(s, xset) \subseteq Batches
<1>1. \A n \in DOMAIN xset : xset[n] \in Batches
  BY DEF XSets
<1> QED BY <1>1 DEF Lacks

\* The missing batches are those of a new view stored for the view.
LEMMA MissingGood ==
  ASSUME NEW s, NEW r \in Validator, NEW G, OK(s, r, G),
         NEW nv \in s.nvStore, nv.view = s.view
  PROVE  Leads(s, [s EXCEPT !.missing = Lacks(s, nv.xset)], r, G)
<1> DEFINE m == Lacks(s, nv.xset)
           t == [s EXCEPT !.missing = m]
<1>1. s \in States /\ nv \in NVs /\ WellFormed(s)
  BY DEF OK, Sound, States
<1>2. m \subseteq Batches
  BY <1>1, LacksTyped DEF NVs
<1>3. \A n \in DOMAIN nv.xset : n > s.H => HasBatch(s, nv.xset[n]) \/ nv.xset[n] \in m
  BY DEF Lacks
<1> HIDE DEF m
<1>4. t \in States
  BY <1>1, <1>2 DEF States
<1>5. SameButNewViews(s, t)
  BY <1>1 DEF States, SameButNewViews
<1>6. t.nvStore = s.nvStore /\ t.outNV = s.outNV /\ t.missing = m
  BY <1>1 DEF States
<1> HIDE DEF t
<1>7. Grows(s, t)
  BY <1>5, <1>6 DEF Grows, SameButNewViews
<1>8. WellFormed(t)
  BY <1>1, <1>5, <1>6 DEF WellFormed, InReach, SameButNewViews
<1>9. Checkpointed(s, G) => Checkpointed(t, G)
  <2>1. NewViewsOf(t) = NewViewsOf(s)
    BY <1>5, <1>6 DEF NewViewsOf, SameButNewViews
  <2> QED BY <1>1, <1>4, <1>5, <1>7, <2>1, CheckpointedKept DEF SameButNewViews
<1>10. ASSUME Voted(s, r, G) PROVE Voted(t, r, G)
  <2>1. /\ ProposesInView(t, r) /\ OneProposal(t) /\ OneNewView(t, r)
        /\ SilentInTransfer(t)
    BY <1>5, <1>6, <1>10 DEF Voted, ProposesInView, OneProposal, OneNewView,
                             SilentInTransfer, Proposed, SameButNewViews, Passed
  <2>2. NewViewsStand(t)
    <3> SUFFICES ASSUME NEW w \in t.outNV, w.view = t.view PROVE NewViewStands(t, w)
      BY DEF NewViewsStand
    <3>1. w \in s.outNV /\ w.view = s.view
      BY <1>5, <1>6 DEF SameButNewViews
    <3>2. nv.from = PrimaryOf[nv.view] /\ nv \in StateOf(nv.from, s, r, G).outNV
      BY <1>10 DEF Voted, FollowsPrimaries
    <3>3. w = nv
      BY <1>10, <3>1, <3>2 DEF Voted, OneNewView, StateOf
    <3>4. NewViewStands(s, nv)
      BY <1>10, <3>1, <3>3 DEF Voted, NewViewsStand
    <3> QED BY <1>3, <1>5, <1>6, <3>3, <3>4
            DEF NewViewStands, SameButNewViews, HasBatch, LastExec, Passed
  <2>3. FollowsPrimaries(t, r, G)
    BY <1>5, <1>6, <1>10 DEF Voted, FollowsPrimaries, StateOf, Proposed, SameButNewViews
  <2> QED BY <2>1, <2>2, <2>3 DEF Voted
<1>11. Tells(s, r, G) => Tells(t, r, G)
  BY <1>1, <1>4, <1>5, <1>6, TellsStay DEF SameButNewViews
<1>12. Leads(s, t, r, G)
  BY <1>4, <1>7, <1>8, <1>9, <1>10, <1>11, GrowsBack DEF Leads, OK, Sound
<1> QED BY <1>12 DEF t, m

\* Fetching the batches of the x-set, or installing it, keeps everything.
LEMMA FetchOrResetGood ==
  ASSUME NEW s, NEW r \in Validator, NEW G, OK(s, r, G),
         NEW nv \in s.nvStore, nv.view = s.view
  PROVE  LET t == FetchOrReset(s, r, nv.xset)
         IN Leads(s, t, r, G) /\ (t.event = "done" \/ t.event = s.event)
<1> DEFINE m == Lacks(s, nv.xset)
           w == [s EXCEPT !.missing = m]
           t == FetchOrReset(s, r, nv.xset)
<1>1. Leads(s, w, r, G)
  BY MissingGood
<1>2. t = IF m = {} THEN ResetStateForNewView(w, r) ELSE w
  BY DEF FetchOrReset, Lacks
<1> HIDE DEF m, t
<1>3. w.missing = m /\ w.event = s.event
  BY DEF OK, Sound, States
<1>4. OK(w, r, G)
  BY <1>1 DEF Leads
<1> HIDE DEF w
<1>5. CASE m = {}
  <2> DEFINE z == ResetStateForNewView(w, r)
  <2>1. Leads(w, z, r, G) /\ (z.event = "done" \/ z.event = w.event)
    BY <1>3, <1>4, <1>5, ResetStateForNewViewGood
  <2> HIDE DEF z
  <2>2. t = z
    BY <1>2, <1>5 DEF z
  <2>3. Leads(s, z, r, G)
    BY <1>1, <2>1, LeadsOn
  <2> QED BY <1>3, <2>1, <2>2, <2>3 DEF t
<1>6. CASE m # {}
  BY <1>1, <1>2, <1>3, <1>6 DEF t
<1> QED BY <1>5, <1>6

\* The primary adds the new view it has computed, with the batches it lacks.
LEMMA NewViewAdded ==
  ASSUME NEW s, NEW r \in Validator, NEW G, OK(s, r, G), s.event = "none", s.inVC,
         ~s.transferring, r = PrimaryOf[s.view],
         \A nv \in s.nvStore : nv.view # s.view,
         NEW nv \in NVs, nv.from = r, nv.view = s.view, nv.vcs \subseteq s.vcStore,
         Computed(nv),
         Agree(Known(s, G)) => /\ nv.base <= LastExec(s)
                               /\ nv.base <= s.H \/ \A c \in s.localCkpt : c.n # nv.base
  PROVE  Leads(s, [s EXCEPT !.outNV = @ \cup {nv}, !.nvStore = @ \cup {nv},
                            !.missing = Lacks(s, nv.xset)], r, G)
<1> DEFINE m == Lacks(s, nv.xset)
           t == [s EXCEPT !.outNV = @ \cup {nv}, !.nvStore = @ \cup {nv}, !.missing = m]
<1>1. s \in States /\ WellFormed(s)
  BY DEF OK, Sound
<1>2. m \subseteq Batches
  BY LacksTyped DEF NVs
<1>3. \A n \in DOMAIN nv.xset : n > s.H => HasBatch(s, nv.xset[n]) \/ nv.xset[n] \in m
  BY DEF Lacks
<1> HIDE DEF m
<1>4. t \in States
  BY <1>1, <1>2 DEF States
<1>5. SameButNewViews(s, t)
  BY <1>1 DEF States, SameButNewViews
<1>6. /\ t.nvStore = s.nvStore \cup {nv} /\ t.outNV = s.outNV \cup {nv} /\ t.missing = m
  BY <1>1 DEF States
<1> HIDE DEF t
<1>7. Grows(s, t) /\ Known(t, G) = Known(s, G)
  BY <1>5, <1>6 DEF Grows, SameButNewViews, Known, Reports
<1>8. WellFormed(t)
  <2>1. InReach(t, nv.view)
    BY <1>1, <1>5 DEF InReach, States, Pos, SameButNewViews
  <2> QED BY <1>1, <1>5, <1>6, <2>1 DEF WellFormed, InReach, SameButNewViews
<1>9. Checkpointed(s, G) => Checkpointed(t, G)
  <2>1. NewViewsOf(t) = NewViewsOf(s) \cup {nv}
    BY <1>5, <1>6 DEF NewViewsOf, SameButNewViews
  <2>2. Checkpointed(s, G) => \A vc \in nv.vcs : vc.C \subseteq Known(t, G)
    BY <1>7 DEF Checkpointed
  <2> QED BY <1>1, <1>4, <1>5, <1>7, <2>1, <2>2, CheckpointedKept DEF SameButNewViews
<1>10. ASSUME Voted(s, r, G), Agree(Known(s, G)) PROVE Voted(t, r, G)
  <2>1. \A id \in s.outPP : id.v # s.view
    BY <1>10 DEF Voted, ProposesInView
  <2>2. \A w \in s.outNV : w.view # s.view
    BY <1>10 DEF Voted, NewViewsStand, NewViewStands
  <2>3. ProposesInView(t, r) /\ SilentInTransfer(t)
    BY <1>5, <1>10 DEF Voted, ProposesInView, SilentInTransfer, SameButNewViews, Passed
  <2>4. OneNewView(t, r)
    <3>1. s.view <= s.view
      BY <1>1 DEF States, Pos
    <3> QED BY <1>5, <1>6, <1>10, <2>2, <3>1 DEF Voted, OneNewView, SameButNewViews
  <2>5. OneProposal(t)
    <3>1. Proposed(t) = Proposed(s) \cup Carried(nv)
      BY <1>5, <1>6 DEF Proposed, SameButNewViews
    <3>2. \A x \in Carried(nv) : x.v = s.view
      BY DEF Carried
    <3>3. \A x \in Proposed(s) : x.v # s.view
      BY <2>1, <2>2 DEF Proposed, Carried
    <3>4. \A x, y \in Carried(nv) : x.v = y.v /\ x.n = y.n => x = y
      BY DEF Carried
    <3> QED BY <1>10, <3>1, <3>2, <3>3, <3>4 DEF Voted, OneProposal
  <2>6. NewViewsStand(t)
    <3> SUFFICES ASSUME NEW w \in t.outNV, w.view = t.view PROVE NewViewStands(t, w)
      BY DEF NewViewsStand
    <3>1. w = nv
      BY <1>5, <1>6, <2>2 DEF SameButNewViews
    <3> QED BY <1>3, <1>5, <1>6, <1>10, <3>1
            DEF NewViewStands, SameButNewViews, HasBatch, LastExec
  <2>7. FollowsPrimaries(t, r, G)
    <3>1. \A p : StateOf(p, s, r, G).outNV \subseteq StateOf(p, t, r, G).outNV
                 /\ Proposed(StateOf(p, s, r, G)) \subseteq Proposed(StateOf(p, t, r, G))
      BY <1>5, <1>6 DEF StateOf, Proposed, SameButNewViews
    <3>2. nv \in StateOf(nv.from, t, r, G).outNV
      BY <1>6 DEF StateOf
    <3> QED BY <1>5, <1>6, <1>10, <3>1, <3>2 DEF Voted, FollowsPrimaries, SameButNewViews
  <2> QED BY <2>3, <2>4, <2>5, <2>6, <2>7 DEF Voted
<1>11. ASSUME Tells(s, r, G) PROVE Tells(t, r, G)
  <2>1. Remembers(t) /\ Told(t)
    BY <1>5, <1>11 DEF Tells, Remembers, Told, Basis, LastExec, SameButNewViews
  <2>2. HeardOf(t, r, G)
    <3>1. \A p : StateOf(p, t, r, G).outVC = StateOf(p, s, r, G).outVC
      BY <1>5 DEF StateOf, SameButNewViews
    <3> QED BY <1>5, <1>6, <1>11, <3>1 DEF Tells, HeardOf, SameButNewViews
  <2> QED BY <1>5, <1>11, <2>1, <2>2 DEF Tells, SameButNewViews
<1>12. Leads(s, t, r, G)
  BY <1>4, <1>7, <1>8, <1>9, <1>10, <1>11, GrowsBack DEF Leads, OK, Sound
<1> QED BY <1>12 DEF t, m

\* sendNewView keeps everything.
LEMMA SendNewViewGood ==
  ASSUME NEW s, NEW r \in Validator, NEW G, OK(s, r, G), s.event = "none", s.inVC,
         ~s.transferring, r = PrimaryOf[s.view], NEW u \in SendNewView(s, r)
  PROVE  Leads(s, u, r, G) /\ u.event \in {"none", "done"}
<1> DEFINE vcs == {vc \in s.vcStore : vc.view = s.view}
           c == CHOOSE i \in InitialCheckpoints(vcs) : TRUE
           xsets == AssignSequenceNumbers(vcs, c.n)
           t == CheckIfNeedStateUpdate(s, c)
           NewView(x) == [from |-> r, view |-> s.view, vcs |-> vcs, xset |-> x,
                          base |-> c.n]
<1>1. s \in States /\ WellFormed(s) /\ vcs \in SUBSET VCs /\ vcs \subseteq s.vcStore
  BY DEF OK, Sound, States
<1>2. CASE \/ \E nv \in s.nvStore : nv.view = s.view
           \/ InitialCheckpoints(vcs) = {} \/ xsets = {}
  <2>1. u = s
    BY <1>2 DEF SendNewView
  <2> QED BY <2>1, LeadsNowhere
<1>3. CASE ~(\/ \E nv \in s.nvStore : nv.view = s.view
             \/ InitialCheckpoints(vcs) = {} \/ xsets = {})
  <2>1. /\ \A nv \in s.nvStore : nv.view # s.view
        /\ InitialCheckpoints(vcs) # {}
    BY <1>3
  <2>2. c \in Ckpts /\ \E vc \in vcs : c \in vc.C
    BY <1>1, <2>1, InitialCheckpointListed
  <2>3. u \in IF t.transferring THEN {t}
              ELSE {FetchOrReset([t EXCEPT !.outNV = @ \cup {NewView(x)},
                                           !.nvStore = @ \cup {NewView(x)}], r, x)
                      : x \in xsets}
    BY <1>3 DEF SendNewView
  <2> HIDE DEF c
  <2>4. Agree(Known(s, G)) => c \in Known(s, G)
    BY <1>1, <2>2 DEF OK, Sound, Checkpointed
  <2>5. Agree(Known(s, G)) /\ NoneRecovers(s, G) =>
          s.inVC /\ \A nv \in s.outNV : nv.view = s.view => nv.base = c.n
    BY <2>1 DEF OK, Voted, NewViewsStand, NewViewStands
  <2>6. Leads(s, t, r, G)
    BY <2>2, <2>4, <2>5, CheckIfNeedStateUpdateGood
  <2>7. Updated(s, t, c)
    BY <1>1, <2>2, CheckIfNeedStateUpdateFields
  <2> HIDE DEF t
  <2>8. CASE t.transferring
    BY <2>3, <2>6, <2>7, <2>8 DEF Updated
  <2>9. CASE ~t.transferring
    <3>1. PICK x \in xsets :
            u = FetchOrReset([t EXCEPT !.outNV = @ \cup {NewView(x)},
                                       !.nvStore = @ \cup {NewView(x)}], r, x)
      BY <2>3, <2>9
    <3> DEFINE nv == NewView(x)
               m == Lacks(t, nv.xset)
               a == [t EXCEPT !.outNV = @ \cup {nv}, !.nvStore = @ \cup {nv}]
               w == [t EXCEPT !.outNV = @ \cup {nv}, !.nvStore = @ \cup {nv}, !.missing = m]
    <3>2. x \in XSets /\ c.n \in Nat
      BY <1>1, <2>2, AssignTyped DEF Ckpts
    <3>3. /\ nv \in NVs /\ nv.from = r /\ nv.view = t.view /\ nv.vcs \subseteq t.vcStore
          /\ nv.base = c.n /\ nv.xset = x
      <4>1. s.view \in Pos
        BY <1>1 DEF States
      <4> QED BY <1>1, <2>7, <3>2, <4>1 DEF NVs, Updated
    <3>4. Computed(nv)
      <4>1. \A m1, m2 \in vcs : m1.from = m2.from => m1 = m2
        BY <1>1 DEF WellFormed
      <4>2. nv.vcs = vcs /\ nv.xset \in AssignSequenceNumbers(vcs, c.n)
        BY <3>3
      <4> QED BY <2>1, <3>3, <4>1, <4>2 DEF Computed, c
    <3>5. \A o \in t.nvStore : o.view # t.view
      BY <2>1, <2>7 DEF Updated
    <3>6. Agree(Known(t, G)) => /\ nv.base <= LastExec(t)
                                /\ nv.base <= t.H \/ \A o \in t.localCkpt : o.n # nv.base
      <4>1. Agree(Known(t, G)) => Checkpointed(s, G)
        BY <2>6, GrowsBack DEF OK, Sound, Leads
      <4> QED BY <2>7, <2>9, <3>3, <4>1 DEF Checkpointed, Updated
    <3>7. t \in States /\ OK(t, r, G) /\ t.event = "none" /\ t.inVC /\ r = PrimaryOf[t.view]
      BY <2>6, <2>7 DEF Leads, OK, Sound, Updated
    <3> HIDE DEF NewView
    <3>8. Leads(t, w, r, G)
      <4> HIDE DEF nv
      <4> QED BY <2>9, <3>3, <3>4, <3>5, <3>6, <3>7, NewViewAdded
    <3>9. u = IF m = {} THEN ResetStateForNewView(w, r) ELSE w
      <4>1. Lacks(a, x) = m
        <5>1. a.H = t.H /\ a.batchStore = t.batchStore
          BY <3>7 DEF States
        <5> QED BY <3>3, <5>1 DEF Lacks, HasBatch
      <4>2. [a EXCEPT !.missing = m] = w
        BY <3>7 DEF States
      <4>3. u = FetchOrReset(a, r, x)
        BY <3>1
      <4> HIDE DEF a, w, m
      <4> QED BY <4>1, <4>2, <4>3 DEF FetchOrReset, Lacks
    <3>10. w.missing = m /\ w.event = "none"
      BY <3>7 DEF States
    <3>11. OK(w, r, G)
      BY <3>8 DEF Leads
    <3>12. Leads(s, w, r, G)
      BY <2>6, <3>8, LeadsOn
    <3> HIDE DEF w, m, nv
    <3>13. CASE m = {}
      <4> DEFINE z == ResetStateForNewView(w, r)
      <4>1. Leads(w, z, r, G) /\ (z.event = "done" \/ z.event = w.event)
        BY <3>10, <3>11, <3>13, ResetStateForNewViewGood
      <4>2. u = z
        BY <3>9, <3>13
      <4> HIDE DEF z
      <4> QED BY <3>10, <3>12, <4>1, <4>2, LeadsOn
    <3>14. CASE m # {}
      BY <3>9, <3>10, <3>12, <3>14
    <3> QED BY <3>13, <3>14
  <2> QED BY <2>8, <2>9
<1> QED BY <1>2, <1>3

\* replicaCheckNewView keeps everything; alone it signals nothing.
LEMMA ReplicaCheckNewViewGood ==
  ASSUME NEW s, NEW r \in Validator, NEW G, OK(s, r, G), s.event = "none"
  PROVE  LET u == ReplicaCheckNewView(s, r)
         IN /\ Leads(s, u, r, G)
            /\ Called(u) \/ u.event = "done"
            /\ Lone(s) => u.event = "none"
<1> DEFINE nv == CHOOSE o \in s.nvStore : o.view = s.view
           c == CHOOSE i \in InitialCheckpoints(nv.vcs) : TRUE
           a == [s EXCEPT !.vcHandled = TRUE]
           t == CheckIfNeedStateUpdate(a, c)
           u == ReplicaCheckNewView(s, r)
           skip == ~s.inVC \/ s.vcHandled \/ \A o \in s.nvStore : o.view # s.view
           wrong == \/ InitialCheckpoints(nv.vcs) = {}
                    \/ nv.xset \notin AssignSequenceNumbers(nv.vcs, c.n)
<1>1. u = IF skip THEN s ELSE IF wrong THEN SendViewChange(s, r)
          ELSE IF t.transferring THEN t ELSE FetchOrReset(t, r, nv.xset)
  BY DEF ReplicaCheckNewView
<1>2. Lone(s) => skip
  BY DEF Lone
<1>3. ~skip => nv \in s.nvStore /\ nv.view = s.view /\ s.inVC
  OBVIOUS
<1>4. ~wrong => InitialCheckpoints(nv.vcs) # {}
  OBVIOUS
<1> HIDE DEF nv, u, t, skip, wrong
<1>5. CASE skip
  BY <1>1, <1>5, LeadsNowhere DEF Called, u
<1>6. CASE ~skip /\ wrong
  BY <1>1, <1>2, <1>6, SendViewChangeGood DEF u
<1>7. CASE ~skip /\ ~wrong
  <2>1. s \in States /\ WellFormed(s) /\ nv \in NVs /\ nv.vcs \in SUBSET VCs
    BY <1>3, <1>7 DEF OK, Sound, States, NVs
  <2>2. c \in Ckpts /\ \E vc \in nv.vcs : c \in vc.C
    BY <1>4, <1>7, <2>1, InitialCheckpointListed
  <2>3. c = CHOOSE i \in InitialCheckpoints(nv.vcs) : TRUE
    OBVIOUS
  <2> HIDE DEF c
  <2>4. a \in States /\ SameCore(s, a) /\ a.event = "none"
    <3>1. a \in States
      BY <2>1 DEF States
    <3>2. SameCore(s, a) /\ a.event = s.event
      BY <2>1 DEF States, SameCore
    <3> QED BY <3>1, <3>2
  <2> HIDE DEF a
  <2>5. Leads(s, a, r, G)
    BY <2>4, SameCoreGood
  <2>6. OK(a, r, G) /\ a.nvStore = s.nvStore /\ a.view = s.view /\ a.inVC
    BY <1>3, <1>7, <2>4, <2>5 DEF Leads, SameCore
  <2>7. Agree(Known(a, G)) => c \in Known(a, G)
    <3>1. nv \in NewViewsOf(a)
      BY <1>3, <1>7, <2>6 DEF NewViewsOf
    <3> QED BY <2>2, <2>6, <3>1 DEF OK, Sound, Checkpointed
  <2>8. ASSUME Agree(Known(a, G)), NoneRecovers(a, G)
        PROVE  \A w \in a.outNV : w.view = a.view => w.base = c.n
    <3> SUFFICES ASSUME NEW w \in a.outNV, w.view = a.view PROVE w.base = c.n
      OBVIOUS
    <3>1. Voted(a, r, G) /\ WellFormed(a)
      BY <2>6, <2>8 DEF OK, Sound
    <3>2. nv.from = PrimaryOf[nv.view] /\ nv \in StateOf(nv.from, a, r, G).outNV
      BY <1>3, <1>7, <2>6, <3>1 DEF Voted, FollowsPrimaries
    <3>3. w = nv
      BY <1>3, <1>7, <2>6, <3>1, <3>2 DEF Voted, OneNewView, StateOf
    <3>4. Computed(nv)
      BY <3>1, <3>3 DEF WellFormed
    <3> QED BY <2>3, <3>3, <3>4 DEF Computed
  <2>9. Leads(a, t, r, G)
    BY <2>2, <2>6, <2>7, <2>8, CheckIfNeedStateUpdateGood DEF t
  <2>10. t.view = a.view /\ t.event = a.event /\ t.nvStore = a.nvStore
    <3>1. a \in States /\ WellFormed(a)
      BY <2>6 DEF OK, Sound
    <3> QED BY <2>2, <3>1, CheckIfNeedStateUpdateFields DEF t, Updated
  <2>11. Leads(s, t, r, G) /\ OK(t, r, G)
    BY <2>5, <2>9, LeadsOn DEF Leads
  <2>12. CASE t.transferring
    BY <1>1, <1>2, <1>7, <2>4, <2>10, <2>11, <2>12 DEF Called, u
  <2>13. CASE ~t.transferring
    <3> DEFINE z == FetchOrReset(t, r, nv.xset)
    <3>1. nv \in t.nvStore /\ nv.view = t.view
      BY <1>3, <1>7, <2>6, <2>10
    <3>2. Leads(t, z, r, G) /\ (z.event = "done" \/ z.event = t.event)
      BY <2>11, <3>1, FetchOrResetGood
    <3>3. u = z
      BY <1>1, <1>7, <2>13
    <3> HIDE DEF z
    <3>4. Leads(s, z, r, G)
      BY <2>11, <3>2, LeadsOn
    <3> QED BY <1>2, <1>7, <2>4, <2>10, <3>2, <3>3, <3>4 DEF Called, u
  <2> QED BY <2>12, <2>13
<1> QED BY <1>5, <1>6, <1>7

\* Finishing the view change keeps everything.
LEMMA ViewChangeDoneGood ==
  ASSUME NEW s, NEW r \in Validator, NEW G, OK(s, r, G), s.event = "done"
  PROVE  LET t == ViewChangeDone([s EXCEPT !.event = "none"])
         IN Leads(s, t, r, G) /\ t.event = "none"
<1> DEFINE a == [s EXCEPT !.event = "none"]
           t == ViewChangeDone(a)
<1>1. s \in States /\ WellFormed(s)
  BY DEF OK, Sound
<1>2. a \in States /\ SameCore(s, a) /\ a.event = "none"
  <2>1. a \in States
    BY <1>1 DEF States
  <2>2. SameCore(s, a) /\ a.event = "none"
    BY <1>1 DEF States, SameCore
  <2> QED BY <2>1, <2>2
<1> HIDE DEF a
<1>3. t \in States
  BY <1>2 DEF States, ViewChangeDone
<1>4. /\ t.view = a.view /\ t.inVC = FALSE /\ t.inRec = FALSE /\ t.event = a.event
      /\ t.transferring = a.transferring /\ t.target = a.target /\ t.seqNo = a.seqNo
      /\ t.ledger = a.ledger /\ t.batchStore = a.batchStore /\ t.missing = a.missing
      /\ t.latestNV = a.latestNV
      /\ t.localCkpt = a.localCkpt /\ t.prePrep = a.prePrep /\ t.H = a.H
      /\ t.sentPrepare = a.sentPrepare /\ t.prepared = a.prepared
      /\ t.outPP = a.outPP /\ t.outP = a.outP /\ t.outC = a.outC /\ t.outK = a.outK
      /\ t.outVC = a.outVC /\ t.outNV = a.outNV /\ t.outRR = a.outRR
      /\ t.vcStore \subseteq a.vcStore /\ t.nvStore \subseteq a.nvStore
      /\ t.plist = a.plist
  BY <1>2 DEF States, ViewChangeDone
<1> HIDE DEF t
<1>5. Grows(s, t)
  BY <1>2, <1>4 DEF Grows, SameCore
<1>6. WellFormed(t)
  BY <1>1, <1>2, <1>4 DEF WellFormed, InReach, SameCore
<1>7. Checkpointed(s, G) => Checkpointed(t, G)
  <2>1. NewViewsOf(t) \subseteq NewViewsOf(s)
    BY <1>2, <1>4 DEF NewViewsOf, SameCore
  <2> QED BY <1>1, <1>2, <1>3, <1>4, <1>5, <2>1, CheckpointedKept DEF SameCore
<1>8. ASSUME Voted(s, r, G) PROVE Voted(t, r, G)
  <2>1. /\ ProposesInView(t, r) /\ OneProposal(t) /\ OneNewView(t, r)
        /\ SilentInTransfer(t)
    BY <1>2, <1>4, <1>8 DEF Voted, ProposesInView, OneProposal, OneNewView,
                            SilentInTransfer, Proposed, SameCore, Passed
  <2>2. NewViewsStand(t)
    BY <1>2, <1>4, <1>8 DEF Voted, NewViewsStand, NewViewStands, SameCore, Passed,
                            HasBatch, LastExec
  <2>3. FollowsPrimaries(t, r, G)
    BY <1>2, <1>4, <1>8 DEF Voted, FollowsPrimaries, StateOf, Proposed, SameCore
  <2> QED BY <2>1, <2>2, <2>3 DEF Voted
<1>9. Tells(s, r, G) => Tells(t, r, G)
  <2>1. t.view >= s.view /\ t.H >= s.H
    BY <1>1, <1>2, <1>4 DEF States, Pos, SameCore
  <2>2. Basis(t) = Basis(s)
    BY <1>2, <1>4 DEF Basis, SameCore
  <2> QED BY <1>1, <1>2, <1>3, <1>4, <2>1, <2>2, TellsKept DEF SameCore
<1>10. Leads(s, t, r, G)
  BY <1>3, <1>5, <1>6, <1>7, <1>8, <1>9, GrowsBack DEF Leads, OK, Sound
<1> QED BY <1>2, <1>4, <1>10 DEF t, a

\* Each event leads on to fewer: a quorum whose new view is checked may find
\* another quorum, but for a view without a new view.
LEMMA HandleEventGood ==
  ASSUME NEW s, NEW r \in Validator, NEW G, OK(s, r, G), NEW u \in HandleEvent(s, r)
  PROVE  /\ Leads(s, u, r, G)
         /\ s.event = "none" => u.event = "none"
         /\ s.event = "done" => u.event = "none"
         /\ Called(s) => u.event \in {"none", "done"}
         /\ Called(u) \/ u.event = "done"
<1> DEFINE t == [s EXCEPT !.event = "none"]
<1>1. s \in States /\ WellFormed(s)
  BY DEF OK, Sound
<1>2. s.event = "none" \/ s.event = "done" \/ s.event = "quorum"
  BY <1>1 DEF States
<1>3. CASE s.event = "none"
  <2>1. HandleEvent(s, r) = {s}
    BY <1>3 DEF HandleEvent
  <2> QED BY <1>3, <2>1, LeadsNowhere DEF Called
<1>4. CASE s.event = "done"
  <2>1. HandleEvent(s, r) = {ViewChangeDone(t)}
    BY <1>4 DEF HandleEvent
  <2>2. Leads(s, ViewChangeDone(t), r, G) /\ ViewChangeDone(t).event = "none"
    BY <1>4, ViewChangeDoneGood
  <2> QED BY <1>4, <2>1, <2>2 DEF Called
<1>5. CASE s.event = "quorum"
  <2>1. HandleEvent(s, r) = IF r # PrimaryOf[s.view] THEN {ReplicaCheckNewView(t, r)}
                            ELSE IF s.transferring THEN {t} ELSE SendNewView(t, r)
    BY <1>5 DEF HandleEvent
  <2>2. t \in States /\ SameCore(s, t) /\ t.event = "none"
    <3>1. t \in States
      BY <1>1 DEF States
    <3>2. SameCore(s, t) /\ t.event = "none"
      BY <1>1 DEF States, SameCore
    <3> QED BY <3>1, <3>2
  <2> HIDE DEF t
  <2>3. Leads(s, t, r, G) /\ OK(t, r, G)
    BY <2>2, SameCoreGood DEF Leads
  <2>4. t.inVC /\ t.view = s.view /\ t.transferring = s.transferring
        /\ (Called(s) => Lone(t))
    BY <1>1, <1>5, <2>2 DEF WellFormed, SameCore, Called, Lone
  <2>5. CASE r # PrimaryOf[s.view]
    <3> DEFINE z == ReplicaCheckNewView(t, r)
    <3>1. /\ Leads(t, z, r, G) /\ (Called(z) \/ z.event = "done")
          /\ Lone(t) => z.event = "none"
      BY <2>2, <2>3, ReplicaCheckNewViewGood
    <3>2. u = z
      BY <2>1, <2>5
    <3> HIDE DEF z
    <3>3. Leads(s, z, r, G)
      BY <2>3, <3>1, LeadsOn
    <3> QED BY <1>5, <2>4, <3>1, <3>2, <3>3
  <2>6. CASE r = PrimaryOf[s.view] /\ s.transferring
    <3>1. u = t
      BY <2>1, <2>6
    <3> QED BY <1>5, <2>2, <2>3, <3>1 DEF Called
  <2>7. CASE r = PrimaryOf[s.view] /\ ~s.transferring
    <3>1. u \in SendNewView(t, r) /\ r = PrimaryOf[t.view] /\ ~t.transferring
      BY <2>1, <2>4, <2>7
    <3>2. Leads(t, u, r, G) /\ u.event \in {"none", "done"}
      BY <2>2, <2>3, <2>4, <3>1, SendNewViewGood
    <3>3. Leads(s, u, r, G)
      BY <2>3, <3>2, LeadsOn
    <3> QED BY <1>5, <3>2, <3>3 DEF Called
  <2> QED BY <2>5, <2>6, <2>7
<1> QED BY <1>2, <1>3, <1>4, <1>5

\* Three rounds are enough to handle every event a handler leads to.
LEMMA SettleGood ==
  ASSUME NEW s, NEW r \in Validator, NEW G, OK(s, r, G), NEW u \in Settle(s, r)
  PROVE  Leads(s, u, r, G) /\ u.event = "none"
<1>1. PICK a \in HandleEvent(s, r) : \E b \in HandleEvent(a, r) : u \in HandleEvent(b, r)
  BY Zenon DEF Settle
<1>2. PICK b \in HandleEvent(a, r) : u \in HandleEvent(b, r)
  BY <1>1
<1>3. Leads(s, a, r, G) /\ (Called(a) \/ a.event = "done")
  BY HandleEventGood
<1>4. OK(a, r, G)
  BY <1>3 DEF Leads
<1>5. Leads(a, b, r, G) /\ b.event \in {"none", "done"}
  BY <1>3, <1>4, HandleEventGood
<1>6. OK(b, r, G)
  BY <1>5 DEF Leads
<1>7. Leads(b, u, r, G) /\ u.event = "none"
  BY <1>2, <1>5, <1>6, HandleEventGood
<1>8. Leads(s, b, r, G)
  BY <1>3, <1>5, LeadsOn
<1>9. Leads(s, u, r, G)
  BY <1>7, <1>8, LeadsOn
<1> QED BY <1>7, <1>9

\* A new view is stored that its primary has sent.
LEMMA StoreNewViewGood ==
  ASSUME NEW s, NEW r \in Validator, NEW G, OK(s, r, G), NEW nv \in NVs,
         Agree(Known(s, G)) => \A vc \in nv.vcs : vc.C \subseteq Known(s, G),
         Agree(Known(s, G)) /\ NoneRecovers(s, G) =>
           /\ nv.from = PrimaryOf[nv.view]
           /\ nv \in StateOf(nv.from, s, r, G).outNV
  PROVE  Leads(s, StoreNewView(s, nv), r, G) /\ StoreNewView(s, nv).event = s.event
<1> DEFINE t == StoreNewView(s, nv)
<1>1. s \in States /\ WellFormed(s)
  BY DEF OK, Sound
<1>2. t \in States
  BY <1>1 DEF States, StoreNewView
<1>3. SameButNewViews(s, t) /\ t.missing = s.missing /\ t.outNV = s.outNV
  BY <1>1 DEF States, SameButNewViews, StoreNewView
<1>4. t.nvStore = {o \in s.nvStore : o.view # nv.view} \cup {nv}
  BY <1>1 DEF States, StoreNewView
<1> HIDE DEF t
<1>5. Grows(s, t) /\ Known(t, G) = Known(s, G) /\ t.event = s.event
      /\ (NoneRecovers(t, G) <=> NoneRecovers(s, G))
  BY <1>3 DEF Grows, SameButNewViews, Known, Reports, NoneRecovers
<1>6. WellFormed(t)
  BY <1>1, <1>3 DEF WellFormed, InReach, SameButNewViews
<1>7. Agree(Known(s, G)) /\ Checkpointed(s, G) => Checkpointed(t, G)
  <2>1. NewViewsOf(t) \subseteq NewViewsOf(s) \cup {nv}
    BY <1>3, <1>4 DEF NewViewsOf, SameButNewViews
  <2>2. Agree(Known(s, G)) => \A vc \in nv.vcs : vc.C \subseteq Known(t, G)
    BY <1>5
  <2> QED BY <1>1, <1>2, <1>3, <1>5, <2>1, <2>2, CheckpointedKept DEF SameButNewViews
<1>8. ASSUME Voted(s, r, G), Agree(Known(s, G)), NoneRecovers(s, G) PROVE Voted(t, r, G)
  <2>1. /\ ProposesInView(t, r) /\ OneProposal(t) /\ OneNewView(t, r)
        /\ SilentInTransfer(t)
    BY <1>3, <1>8 DEF Voted, ProposesInView, OneProposal, OneNewView,
                      SilentInTransfer, Proposed, SameButNewViews, Passed
  <2>2. nv.from = PrimaryOf[nv.view] /\ nv \in StateOf(nv.from, s, r, G).outNV
    BY <1>8
  <2>3. NewViewsStand(t)
    <3> SUFFICES ASSUME NEW w \in t.outNV, w.view = t.view PROVE NewViewStands(t, w)
      BY DEF NewViewsStand
    <3>1. w \in s.outNV /\ w.view = s.view
      BY <1>3 DEF SameButNewViews
    <3>2. NewViewStands(s, w)
      BY <1>8, <3>1 DEF Voted, NewViewsStand
    <3>3. nv.view = w.view => nv = w
      BY <1>8, <2>2, <3>1 DEF Voted, OneNewView, StateOf
    <3>4. w \in s.nvStore => w \in t.nvStore
      BY <1>4, <3>3
    <3> QED BY <1>3, <3>2, <3>4
            DEF NewViewStands, SameButNewViews, HasBatch, LastExec, Passed
  <2>4. FollowsPrimaries(t, r, G)
    BY <1>3, <1>4, <1>8, <2>2 DEF Voted, FollowsPrimaries, StateOf, Proposed, SameButNewViews
  <2> QED BY <2>1, <2>3, <2>4 DEF Voted
<1>9. Tells(s, r, G) => Tells(t, r, G)
  BY <1>1, <1>2, <1>3, TellsStay DEF SameButNewViews
<1>10. Leads(s, t, r, G)
  BY <1>2, <1>5, <1>6, <1>7, <1>8, <1>9 DEF Leads, OK, Sound
<1> QED BY <1>5, <1>10 DEF t

\* What the pairs S of a state and the view changes still to be received lead
\* to when one of those is received.
ReceivedThen(r, q, vc) ==
  {<<t, q[2] \ {vc}>> : t \in Settle(RecvViewChange(q[1], r, vc), r)}

ReceivedAfter(r, q) == UNION {ReceivedThen(r, q, vc) : vc \in q[2]}

Received(r, S) == UNION {ReceivedAfter(r, q) : q \in S}

\* The function RecvNewView defines by recursion exists.
Receipts(r, A, len) ==
  CHOOSE f : f = [i \in 0 .. len |-> IF i = 0 THEN A ELSE Received(r, f[i - 1])]

\* The sets of view changes taken over one by one are well defined.
LEMMA ReceiptsExist ==
  ASSUME NEW r, NEW A, NEW len \in Nat
  PROVE  Receipts(r, A, len) =
           [i \in 0 .. len |-> IF i = 0 THEN A ELSE Received(r, Receipts(r, A, len)[i - 1])]
<1> DEFINE Ends(k) == \E f : f = [i \in 0 .. k |-> IF i = 0 THEN A ELSE Received(r, f[i - 1])]
           B == {k \in Nat : ~Ends(k)}
<1> SUFFICES ASSUME B # {} PROVE FALSE
  BY DEF Receipts
<1> DEFINE k == Min(B)
<1>1. k \in B /\ \A j \in B : k <= j
  BY MinIsIn
<1> HIDE DEF k
<1>2. k \in Nat /\ ~Ends(k) /\ \A j \in Nat : j < k => Ends(j)
  BY <1>1
<1> HIDE DEF B
<1>3. CASE k = 0
  <2> DEFINE f == [i \in 0 .. 0 |-> A]
  <2>1. f = [i \in 0 .. 0 |-> IF i = 0 THEN A ELSE Received(r, f[i - 1])]
    OBVIOUS
  <2> QED BY <1>2, <1>3, <2>1
<1>4. CASE k # 0
  <2>1. k - 1 \in Nat /\ k - 1 < k
    BY <1>2, <1>4
  <2>2. PICK f : f = [i \in 0 .. k - 1 |-> IF i = 0 THEN A ELSE Received(r, f[i - 1])]
    BY <1>2, <2>1
  <2> DEFINE g == [i \in 0 .. k |-> IF i = 0 THEN A ELSE Received(r, f[i - 1])]
  <2>3. \A i \in 0 .. k - 1 : g[i] = f[i]
    <3> SUFFICES ASSUME NEW i \in 0 .. k - 1 PROVE g[i] = f[i]
      OBVIOUS
    <3>1. i \in 0 .. k
      BY <1>2
    <3>2. g[i] = IF i = 0 THEN A ELSE Received(r, f[i - 1])
      BY <3>1
    <3>3. f[i] = IF i = 0 THEN A ELSE Received(r, f[i - 1])
      BY <2>2
    <3> QED BY <3>2, <3>3
  <2> HIDE DEF g
  <2>4. \A i \in 0 .. k : i # 0 => i - 1 \in 0 .. k - 1
    BY <1>2
  <2>5. \A i \in 0 .. k : (IF i = 0 THEN A ELSE Received(r, f[i - 1]))
                           = (IF i = 0 THEN A ELSE Received(r, g[i - 1]))
    BY <2>3, <2>4
  <2>6. g = [i \in 0 .. k |-> IF i = 0 THEN A ELSE Received(r, g[i - 1])]
    BY <2>5 DEF g
  <2> QED BY <1>2, <2>6
<1> QED BY <1>3, <1>4

\* recvNewView keeps everything, the view changes it takes over included.
LEMMA RecvNewViewGood ==
  ASSUME NEW s, NEW r \in Validator, NEW G, OK(s, r, G), s.event = "none",
         NEW nv \in NVs, nv.view <= MaxView, IsFiniteSet(nv.vcs),
         Agree(Known(s, G)) => \A vc \in nv.vcs : vc.C \subseteq Known(s, G),
         Agree(Known(s, G)) /\ NoneRecovers(s, G) =>
           /\ nv.from = PrimaryOf[nv.view] /\ nv.from # r
           /\ nv \in G[nv.from].outNV
           /\ \A vc \in nv.vcs : vc \in G[vc.from].outVC,
         NEW u \in RecvNewView(s, r, nv)
  PROVE  Leads(s, u, r, G) /\ u.event = "none"
<1> DEFINE others == {vc \in nv.vcs : vc.from # r}
           len == Cardinality(others)
           A == {<<s, others>>}
           after == Receipts(r, A, len)
           Check(t) == IF t.latestNV.view >= nv.view THEN {t}
                       ELSE Settle(ReplicaCheckNewView(StoreNewView(t, nv), r), r)
<1>1. len \in Nat
  <2>1. IsFiniteSet(others)
    BY FS_Subset
  <2> QED BY <2>1, FS_CardinalityType
<1>2. u \in UNION {Check(q[1]) : q \in after[len]}
  BY Zenon DEF RecvNewView, Received, ReceivedAfter, ReceivedThen, Receipts
<1>4. after = [i \in 0 .. len |-> IF i = 0 THEN A ELSE Received(r, after[i - 1])]
  <2> HIDE DEF len, A
  <2> QED BY <1>1, ReceiptsExist
<1>5. others \subseteq VCs /\ \A vc \in others : vc.view <= MaxView
  BY DEF NVs
<1>6. /\ Agree(Known(s, G)) => \A vc \in others : vc.C \subseteq Known(s, G)
      /\ Agree(Known(s, G)) /\ NoneRecovers(s, G) =>
           \A vc \in others : vc.from # r /\ vc \in G[vc.from].outVC
  OBVIOUS
<1>7. after[0] = {<<s, others>>}
  <2> HIDE DEF after, len
  <2> QED BY <1>1, <1>4
<1> HIDE DEF after, len, A, others
<1> DEFINE Fine(q) == Leads(s, q[1], r, G) /\ q[1].event = "none" /\ q[2] \subseteq others
           B == {i \in Nat : i <= len /\ ~\A q \in after[i] : Fine(q)}
<1>8. B = {}
  <2> SUFFICES ASSUME B # {} PROVE FALSE
    OBVIOUS
  <2> DEFINE k == Min(B)
  <2>1. k \in B /\ \A j \in B : k <= j
    BY MinIsIn
  <2> HIDE DEF k
  <2>2. k \in Nat /\ k <= len /\ (~\A q \in after[k] : Fine(q))
    BY <2>1
  <2>3. k # 0
    <3>1. \A q \in after[0] : Fine(q)
      BY <1>7, LeadsNowhere
    <3> QED BY <2>2, <3>1
  <2>4. k - 1 \in Nat /\ k - 1 <= len /\ k - 1 < k
    BY <1>1, <2>2, <2>3
  <2>5. \A q \in after[k - 1] : Fine(q)
    BY <2>1, <2>2, <2>4
  <2> HIDE DEF B
  <2>6. after[k] = Received(r, after[k - 1])
    <3>1. k \in 0 .. len
      BY <1>1, <2>2
    <3> QED BY <1>4, <2>3, <3>1
  <2>7. ASSUME NEW q \in after[k] PROVE Fine(q)
    <3> DEFINE S == after[k - 1]
    <3>0. q \in Received(r, S)
      BY <2>6
    <3> HIDE DEF S
    <3>1. PICK o \in S : q \in ReceivedAfter(r, o)
      BY <3>0 DEF Received
    <3>2. PICK vc \in o[2] : q \in ReceivedThen(r, o, vc)
      BY <3>1 DEF ReceivedAfter
    <3>3. PICK t \in Settle(RecvViewChange(o[1], r, vc), r) : q = <<t, o[2] \ {vc}>>
      BY <3>2 DEF ReceivedThen
    <3> DEFINE a == o[1]
               b == RecvViewChange(a, r, vc)
    <3>4. Leads(s, a, r, G) /\ o[2] \subseteq others
      BY <2>5 DEF S
    <3> HIDE DEF a
    <3>5. OK(a, r, G) /\ Grows(s, a)
      BY <3>4 DEF Leads
    <3>6. vc \in VCs /\ vc.view <= MaxView
      BY <1>5, <3>4
    <3>7. Agree(Known(a, G)) => vc.C \subseteq Known(a, G)
      BY <1>6, <3>4, <3>5, GrowsBack
    <3>8. Leads(a, b, r, G)
      <4>1. Agree(Known(a, G)) /\ NoneRecovers(a, G) =>
              vc \in StateOf(vc.from, a, r, G).outVC
        BY <1>6, <3>2, <3>4, <3>5, GrowsBack DEF StateOf, a
      <4> QED BY <3>5, <3>6, <3>7, <4>1, RecvViewChangeGood
    <3>9. t \in Settle(b, r)
      BY <3>3 DEF a
    <3> HIDE DEF b
    <3>10. OK(b, r, G)
      BY <3>8 DEF Leads
    <3>11. Leads(b, t, r, G) /\ t.event = "none"
      BY <3>9, <3>10, SettleGood
    <3>12. Leads(s, b, r, G)
      BY <3>4, <3>8, LeadsOn
    <3>13. Leads(s, t, r, G)
      BY <3>11, <3>12, LeadsOn
    <3>14. q[1] = t /\ q[2] \subseteq others
      BY <3>3, <3>4
    <3> QED BY <3>11, <3>13, <3>14
  <2> QED BY <2>2, <2>7
<1>9. PICK q \in after[len] : u \in Check(q[1])
  BY <1>2
<1> DEFINE t == q[1]
           a == StoreNewView(t, nv)
           b == ReplicaCheckNewView(a, r)
<1>10. Leads(s, t, r, G) /\ t.event = "none"
  <2>1. len <= len /\ len \notin B
    BY <1>1, <1>8
  <2> QED BY <1>1, <1>9, <2>1
<1>11. u = t \/ u \in Settle(b, r)
  BY <1>9
<1> HIDE DEF t
<1>12. OK(t, r, G) /\ Grows(s, t)
  BY <1>10 DEF Leads
<1>13. /\ Agree(Known(t, G)) => Agree(Known(s, G))
       /\ NoneRecovers(t, G) => NoneRecovers(s, G)
       /\ Known(s, G) \subseteq Known(t, G)
  BY <1>12, GrowsBack
<1>14. Leads(t, a, r, G) /\ a.event = "none"
  <2>1. Agree(Known(t, G)) => \A vc \in nv.vcs : vc.C \subseteq Known(t, G)
    BY <1>13
  <2>2. Agree(Known(t, G)) /\ NoneRecovers(t, G) =>
          nv.from = PrimaryOf[nv.view] /\ nv \in StateOf(nv.from, t, r, G).outNV
    BY <1>13 DEF StateOf
  <2> QED BY <1>10, <1>12, <2>1, <2>2, StoreNewViewGood
<1> HIDE DEF a
<1>15. OK(a, r, G) /\ Leads(s, a, r, G)
  BY <1>10, <1>14, LeadsOn DEF Leads
<1>16. Leads(a, b, r, G)
  BY <1>14, <1>15, ReplicaCheckNewViewGood
<1> HIDE DEF b
<1>17. OK(b, r, G) /\ Leads(s, b, r, G)
  BY <1>15, <1>16, LeadsOn DEF Leads
<1>18. CASE u \in Settle(b, r)
  <2>1. Leads(b, u, r, G) /\ u.event = "none"
    BY <1>17, <1>18, SettleGood
  <2> QED BY <1>17, <2>1, LeadsOn
<1> QED BY <1>10, <1>11, <1>18

\* Every replica of the cluster is as it should be between two steps.
Cluster(G) ==
  /\ G \in [Validator -> States]
  /\ \A p \in Validator :
       OK(G[p], p, G) /\ G[p].event = "none" /\ G[p].view <= MaxView

\* What is known of one replica holds on while the others say more.
LEMMA OthersMaySayMore ==
  ASSUME NEW s, NEW q \in Validator, NEW G, NEW H, OK(s, q, G),
         \A p \in Validator : Grows(G[p], H[p])
  PROVE  OK(s, q, H)
<1>1. \A p \in Validator : Reports(G[p]) \subseteq Reports(H[p])
  BY DEF Grows, Reports
<1>2. Known(s, G) \subseteq Known(s, H)
  BY <1>1 DEF Known
<1>3. Agree(Known(s, H)) => Agree(Known(s, G))
  BY <1>2 DEF Agree
<1>4. NoneRecovers(s, H) => NoneRecovers(s, G)
  BY DEF NoneRecovers, Grows
<1>5. Checkpointed(s, G) => Checkpointed(s, H)
  BY <1>2 DEF Checkpointed
<1>6. ASSUME Voted(s, q, G), s \in States PROVE Voted(s, q, H)
  <2>1. \A p \in Validator :
          /\ StateOf(p, s, q, G).outNV \subseteq StateOf(p, s, q, H).outNV
          /\ Proposed(StateOf(p, s, q, G)) \subseteq Proposed(StateOf(p, s, q, H))
    BY DEF StateOf, Proposed, Grows
  <2>2. \A nv \in s.nvStore : nv.from \in Validator
    BY <1>6 DEF States, NVs
  <2>3. FollowsPrimaries(s, q, H)
    BY <1>6, <2>1, <2>2 DEF Voted, FollowsPrimaries
  <2> QED BY <1>6, <2>3 DEF Voted
<1>7. ASSUME Tells(s, q, G), s \in States PROVE Tells(s, q, H)
  <2>1. \A p \in Validator : StateOf(p, s, q, G).outVC \subseteq StateOf(p, s, q, H).outVC
    BY DEF StateOf, Grows
  <2>2. \A vc \in s.vcStore \cup UNION {nv.vcs : nv \in s.outNV} : vc.from \in Validator
    BY <1>7 DEF States, NVs, VCs
  <2> QED BY <1>7, <2>1, <2>2 DEF Tells, HeardOf
<1> QED BY <1>3, <1>4, <1>5, <1>6, <1>7 DEF OK, Sound

\* A step of one replica that keeps its own state sound keeps the cluster.
LEMMA ClusterKept ==
  ASSUME NEW G, Cluster(G), NEW r \in Validator, NEW t, Leads(G[r], t, r, G),
         t.event = "none", t.view <= MaxView
  PROVE  Cluster([G EXCEPT ![r] = t])
<1> DEFINE H == [G EXCEPT ![r] = t]
<1>1. G \in [Validator -> States] /\ t \in States
  BY DEF Cluster, Leads, OK, Sound
<1>2. H \in [Validator -> States] /\ H[r] = t /\ \A p \in Validator \ {r} : H[p] = G[p]
  BY <1>1
<1> HIDE DEF H
<1>3. \A p \in Validator : Grows(G[p], H[p])
  BY <1>2 DEF Leads, Grows
<1>4. \A p \in Validator : OK(H[p], p, G)
  BY <1>2 DEF Cluster, Leads
<1>5. \A p \in Validator : OK(H[p], p, H)
  BY <1>3, <1>4, OthersMaySayMore
<1>6. Cluster(H)
  BY <1>2, <1>5 DEF Cluster
<1> QED BY <1>6 DEF H

\* The invariant holds initially.
LEMMA ClusterStarts ==
  Init => Cluster(node)
<1> SUFFICES ASSUME Init PROVE Cluster(node)
  OBVIOUS
<1>1. node = [p \in Validator |-> InitState]
  BY DEF Init, Replicas
<1>2. MaxView \in Nat /\ 1 <= MaxView /\ PrimaryOf[1] \in Validator
  BY ConstantAssumption
<1>3. NoCheckpoint \in Ckpts /\ NoCheckpoint.n = 0
  BY DEF NoCheckpoint, Ckpts
<1> DEFINE first == {[from |-> r, view |-> 1, h |-> 0, P |-> {}, Q |-> {},
                      C |-> {NoCheckpoint}, recovery |-> TRUE] : r \in Validator}
<1>4. first \subseteq VCs
  <2> SUFFICES ASSUME NEW r \in Validator
               PROVE  [from |-> r, view |-> 1, h |-> 0, P |-> {}, Q |-> {},
                       C |-> {NoCheckpoint}, recovery |-> TRUE] \in VCs
    OBVIOUS
  <2>1. {NoCheckpoint} \in SUBSET Ckpts /\ 1 \in Pos
    BY <1>3 DEF Pos
  <2> DEFINE C == {NoCheckpoint}
  <2>2. C \in SUBSET Ckpts
    BY <2>1
  <2> HIDE DEF C
  <2>3. [from |-> r, view |-> 1, h |-> 0, P |-> {}, Q |-> {}, C |-> C, recovery |-> TRUE]
          \in VCs
    BY <2>1, <2>2 DEF VCs
  <2> QED BY <2>3 DEF C
<1>5. FirstNewView \in NVs /\ \A vc \in FirstNewView.vcs : vc.C = {NoCheckpoint}
  <2>1. <<>> \in XSets
    <3>1. <<>> \in [{} -> Batches]
      OBVIOUS
    <3> QED BY <3>1 DEF XSets
  <2>2. \A vc \in first : vc.view = 1 /\ vc.C = {NoCheckpoint}
    OBVIOUS
  <2> HIDE DEF first
  <2> QED BY <1>2, <1>4, <2>1, <2>2 DEF FirstNewView, NVs, Pos, first
<1>6. InitState \in States
  BY <1>3, <1>5 DEF InitState, States, Pos
<1>7. /\ InitState.H = 0 /\ InitState.ledger = <<>> /\ InitState.view = 1
      /\ InitState.localCkpt = {NoCheckpoint} /\ InitState.target = NoCheckpoint
      /\ InitState.transferring = FALSE /\ InitState.vcStore = {}
      /\ InitState.nvStore = {} /\ InitState.outNV = {} /\ InitState.outRR = {}
      /\ InitState.latestNV = FirstNewView /\ InitState.event = "none"
      /\ InitState.prePrep = {} /\ InitState.prepared = {} /\ InitState.sentPrepare = {}
      /\ InitState.outPP = {} /\ InitState.outP = {} /\ InitState.outC = {}
      /\ InitState.outVC = {} /\ InitState.inRec = FALSE /\ InitState.plist = {}
  BY DEF InitState
<1> HIDE DEF first
<1>8. ASSUME NEW p \in Validator
      PROVE  /\ OK(InitState, p, node) /\ InitState.event = "none"
             /\ InitState.view <= MaxView
  <2>1. WellFormed(InitState)
    BY <1>7 DEF WellFormed
  <2>2. Checkpointed(InitState, node)
    <3>1. NoCheckpoint \in Known(InitState, node)
      BY DEF Known
    <3>2. LastExec(InitState) = 0
      BY <1>7 DEF LastExec
    <3> QED BY <1>3, <1>5, <1>7, <3>1, <3>2 DEF Checkpointed, NewViewsOf
  <2>3. Voted(InitState, p, node)
    BY <1>7 DEF Voted, ProposesInView, OneProposal, OneNewView, NewViewsStand,
                SilentInTransfer, FollowsPrimaries, Proposed
  <2>4. Tells(InitState, p, node)
    <3>1. LastExec(InitState) = 0
      BY <1>7 DEF LastExec
    <3> QED BY <1>7, <3>1 DEF Tells, Remembers, Told, HeardOf
  <2> QED BY <1>2, <1>6, <1>7, <2>1, <2>2, <2>3, <2>4 DEF OK, Sound
<1> QED BY <1>1, <1>6, <1>8 DEF Cluster

\* A replica that recovers may go back to a lower view.
LEMMA ViewGoesBackGood ==
  ASSUME NEW s, NEW r \in Validator, NEW G, OK(s, r, G), s.view <= MaxView,
         ~NoneRecovers(s, G), NEW v \in Pos
  PROVE  Leads(s, [s EXCEPT !.view = v], r, G)
<1> DEFINE t == [s EXCEPT !.view = v]
<1>1. s \in States /\ t \in States
  BY DEF OK, Sound, States
<1>2. /\ t.view = v /\ t.inVC = s.inVC /\ t.inRec = s.inRec /\ t.event = s.event
      /\ t.transferring = s.transferring /\ t.target = s.target /\ t.seqNo = s.seqNo
      /\ t.ledger = s.ledger /\ t.batchStore = s.batchStore /\ t.missing = s.missing
      /\ t.vcStore = s.vcStore /\ t.nvStore = s.nvStore /\ t.latestNV = s.latestNV
      /\ t.localCkpt = s.localCkpt /\ t.prePrep = s.prePrep /\ t.H = s.H
      /\ t.sentPrepare = s.sentPrepare /\ t.prepared = s.prepared
      /\ t.outPP = s.outPP /\ t.outP = s.outP /\ t.outC = s.outC /\ t.outK = s.outK
      /\ t.outVC = s.outVC /\ t.outNV = s.outNV /\ t.outRR = s.outRR
      /\ t.plist = s.plist
  BY <1>1 DEF States
<1> HIDE DEF t
<1>3. Grows(s, t)
  BY <1>2 DEF Grows
<1>4. WellFormed(t)
  <2>1. s.view \in Nat /\ MaxView \in Nat
    BY <1>1, ConstantAssumption DEF States, Pos
  <2>2. \A k \in Nat : InReach(s, k) => InReach(t, k)
    BY <2>1 DEF InReach
  <2>3. /\ \A id \in s.prePrep \cup s.sentPrepare \cup s.outPP : id.v \in Nat
        /\ \A vc \in s.vcStore \cup s.outVC : vc.view \in Nat
        /\ \A nv \in s.outNV : nv.view \in Nat
    BY <1>1 DEF States, IDs, VCs, NVs, Pos
  <2> QED BY <1>2, <2>2, <2>3 DEF OK, Sound, WellFormed
<1>5. Checkpointed(s, G) => Checkpointed(t, G)
  BY <1>1, <1>2, <1>3, CheckpointedKept DEF NewViewsOf
<1> QED BY <1>1, <1>3, <1>4, <1>5, GrowsBack DEF Leads, OK, Sound, t

\* A recovery response, which may roll the replica back, keeps everything.
LEMMA RecvRecoveryResponseGood ==
  ASSUME NEW s, NEW r \in Validator, NEW G, OK(s, r, G), s.event = "none",
         s.view <= MaxView, s.inRec, NEW rr \in RRs, rr.ckpt \in Known(s, G),
         Agree(Known(s, G)) => \A vc \in rr.nv.vcs : vc.C \subseteq Known(s, G),
         NEW u \in RecvRecoveryResponse(s, r, rr)
  PROVE  Leads(s, u, r, G) /\ u.event = "none"
<1> DEFINE t == CheckIfNeedStateUpdate(s, rr.ckpt)
           v == rr.nv.view
           a == [t EXCEPT !.view = v]
           b == StoreNewView(a, rr.nv)
           c == ReplicaCheckNewView(b, r)
<1>1. rr.nv \in NVs /\ rr.ckpt \in Ckpts /\ v \in Pos
  BY DEF RRs, NVs
<1>2. ~NoneRecovers(s, G)
  BY DEF OK, Sound, WellFormed, NoneRecovers
<1>3. u \in Settle(c, r)
  BY DEF RecvRecoveryResponse
<1>4. Leads(s, t, r, G)
  BY <1>1, <1>2, CheckIfNeedStateUpdateGood
<1>5. t.view = s.view /\ t.event = s.event
  <2>1. s \in States /\ WellFormed(s)
    BY DEF OK, Sound
  <2>2. Updated(s, t, rr.ckpt)
    BY <1>1, <2>1, CheckIfNeedStateUpdateFields
  <2> HIDE DEF t
  <2> QED BY <2>2 DEF Updated
<1> HIDE DEF t, v
<1>6. OK(t, r, G) /\ ~NoneRecovers(t, G) /\ t \in States
  BY <1>2, <1>4, GrowsBack DEF Leads, OK, Sound
<1>7. Leads(t, a, r, G)
  BY <1>1, <1>5, <1>6, ViewGoesBackGood
<1>8. a.event = "none"
  BY <1>5, <1>6 DEF States
<1> HIDE DEF a
<1>9. OK(a, r, G) /\ ~NoneRecovers(a, G) /\ Leads(s, a, r, G)
  BY <1>4, <1>6, <1>7, GrowsBack, LeadsOn DEF Leads
<1>10. Agree(Known(a, G)) => \A vc \in rr.nv.vcs : vc.C \subseteq Known(a, G)
  BY <1>9, GrowsBack DEF Leads
<1>11. Leads(a, b, r, G) /\ b.event = "none"
  BY <1>1, <1>8, <1>9, <1>10, StoreNewViewGood
<1> HIDE DEF b
<1>12. OK(b, r, G) /\ Leads(s, b, r, G)
  BY <1>9, <1>11, LeadsOn DEF Leads
<1>13. Leads(b, c, r, G)
  BY <1>11, <1>12, ReplicaCheckNewViewGood
<1> HIDE DEF c
<1>14. OK(c, r, G) /\ Leads(s, c, r, G)
  BY <1>12, <1>13, LeadsOn DEF Leads
<1>15. Leads(c, u, r, G) /\ u.event = "none"
  BY <1>3, <1>14, SettleGood
<1> QED BY <1>14, <1>15, LeadsOn

\* An action that updates one replica keeps the cluster.
LEMMA UpdateGood ==
  ASSUME Cluster(node), NEW r \in Validator, NEW t, Leads(node[r], t, r, node),
         t.event = "none", Update(r, t)
  PROVE  Cluster(node)'
<1>1. t.view <= MaxView /\ node' = [node EXCEPT ![r] = t]
  BY DEF Update
<1>2. Cluster([node EXCEPT ![r] = t])
  BY <1>1, ClusterKept
<1> QED BY <1>1, <1>2

\* So does one that handles the events it causes.
LEMMA SettleUpdateGood ==
  ASSUME Cluster(node), NEW r \in Validator, NEW s, Leads(node[r], s, r, node),
         NEW t \in Settle(s, r), Update(r, t)
  PROVE  Cluster(node)'
<1>1. Leads(s, t, r, node) /\ t.event = "none"
  BY SettleGood DEF Leads
<1>2. Leads(node[r], t, r, node)
  BY <1>1, LeadsOn
<1> QED BY <1>1, <1>2, UpdateGood

\* What Cluster says of a replica.
LEMMA OfCluster ==
  ASSUME Cluster(node), NEW r \in Validator
  PROVE  /\ OK(node[r], r, node) /\ node[r] \in States /\ WellFormed(node[r])
         /\ node[r].event = "none" /\ node[r].view <= MaxView
         /\ node[r].view \in Views /\ PrimaryOf[node[r].view] \in Validator
         /\ \A v \in Nat : InReach(node[r], v) => v <= MaxView
<1>1. OK(node[r], r, node) /\ node[r].event = "none" /\ node[r].view <= MaxView
  BY DEF Cluster
<1>2. node[r] \in States /\ WellFormed(node[r])
  BY <1>1 DEF OK, Sound
<1>3. node[r].view \in Nat /\ node[r].view # 0 /\ MaxView \in Nat
  BY <1>2, ConstantAssumption DEF States, Pos
<1>4. node[r].view \in Views
  BY <1>1, <1>3 DEF Views
<1>5. PrimaryOf[node[r].view] \in Validator
  BY <1>4, ConstantAssumption DEF Views
<1>6. \A v \in Nat : InReach(node[r], v) => v <= MaxView
  BY <1>1, <1>3 DEF InReach
<1> QED BY <1>1, <1>2, <1>4, <1>5, <1>6

\* What replica p has sent is known to every replica of the cluster.
LEMMA SentIsKnown ==
  ASSUME Cluster(node), NEW r \in Validator, NEW p \in Validator
  PROVE  /\ Reports(node[p]) \subseteq Known(node[r], node)
         /\ Known(node[p], node) = Known(node[r], node)
         /\ NoneRecovers(node[r], node) => NoneRecovers(node[p], node)
         /\ \A vc \in node[p].outVC :
              /\ vc \in VCs /\ vc.view <= MaxView
              /\ vc.C \subseteq Known(node[r], node)
         /\ \A nv \in node[p].outNV :
              /\ nv \in NVs /\ nv.view <= MaxView /\ Computed(nv)
         /\ Agree(Known(node[r], node)) /\ NoneRecovers(node[r], node) =>
              /\ \A vc \in node[p].outVC : vc.from = p
              /\ \A nv \in node[p].outNV : \A vc \in nv.vcs : vc \in node[vc.from].outVC
         /\ Agree(Known(node[r], node)) =>
              \A nv \in NewViewsOf(node[p]) : \A vc \in nv.vcs :
                vc.C \subseteq Known(node[r], node)
         /\ \A rr \in node[p].outRR : rr \in RRs /\ rr.ckpt \in Known(node[r], node)
<1>1. /\ node[p] \in States /\ WellFormed(node[p]) /\ OK(node[p], p, node)
      /\ \A v \in Nat : InReach(node[p], v) => v <= MaxView
  BY OfCluster
<1>2. /\ Reports(node[p]) \subseteq Known(node[r], node)
      /\ Known(node[p], node) = Known(node[r], node)
  BY DEF Known
<1>3. NoneRecovers(node[r], node) => NoneRecovers(node[p], node)
  BY DEF NoneRecovers
<1>4. ASSUME NEW vc \in node[p].outVC
      PROVE  vc \in VCs /\ vc.view <= MaxView /\ vc.C \subseteq Known(node[r], node)
  <2>1. vc \in VCs /\ vc.view \in Nat
    BY <1>1 DEF States, VCs, Pos
  <2>2. vc.C \subseteq Reports(node[p])
    BY DEF Reports
  <2> QED BY <1>1, <1>2, <2>1, <2>2 DEF WellFormed
<1>5. ASSUME NEW nv \in node[p].outNV
      PROVE  nv \in NVs /\ nv.view <= MaxView /\ Computed(nv)
  <2>1. nv \in NVs /\ nv.view \in Nat
    BY <1>1 DEF States, NVs, Pos
  <2> QED BY <1>1, <2>1 DEF WellFormed
<1>6. Agree(Known(node[r], node)) =>
        \A nv \in NewViewsOf(node[p]) : \A vc \in nv.vcs :
          vc.C \subseteq Known(node[r], node)
  BY <1>1, <1>2 DEF OK, Sound, Checkpointed
<1>7. \A rr \in node[p].outRR : rr \in RRs /\ rr.ckpt \in Known(node[r], node)
  <2>1. node[p].outRR \subseteq RRs
    BY <1>1 DEF States
  <2>2. \A rr \in node[p].outRR : rr.ckpt \in Reports(node[p])
    BY DEF Reports
  <2> QED BY <1>2, <2>1, <2>2
<1>8. Agree(Known(node[r], node)) /\ NoneRecovers(node[r], node) =>
        /\ \A vc \in node[p].outVC : vc.from = p
        /\ \A nv \in node[p].outNV : \A vc \in nv.vcs : vc \in node[vc.from].outVC
  BY <1>1, <1>2, <1>3 DEF OK, Tells, HeardOf, StateOf
<1> QED BY <1>2, <1>3, <1>4, <1>5, <1>6, <1>7, <1>8

\* SuspectPrimary keeps the cluster.
LEMMA SuspectPrimaryGood ==
  ASSUME Cluster(node), NEW r \in Validator, SuspectPrimary(r)
  PROVE  Cluster(node)'
<1>1. PICK t \in Settle(SendViewChange(node[r], r), r) : Update(r, t)
  BY DEF SuspectPrimary
<1>2. Leads(node[r], SendViewChange(node[r], r), r, node)
  BY OfCluster, SendViewChangeGood
<1> QED BY <1>1, <1>2, SettleUpdateGood

\* NewViewTimeout keeps the cluster.
LEMMA NewViewTimeoutGood ==
  ASSUME Cluster(node), NEW r \in Validator, NewViewTimeout(r)
  PROVE  Cluster(node)'
<1>1. PICK t \in Settle(SendViewChange(node[r], r), r) : Update(r, t)
  BY DEF NewViewTimeout
<1>2. Leads(node[r], SendViewChange(node[r], r), r, node)
  BY OfCluster, SendViewChangeGood
<1> QED BY <1>1, <1>2, SettleUpdateGood

\* RecvCheckpointQuorum keeps the cluster.
LEMMA RecvCheckpointQuorumGood ==
  ASSUME Cluster(node), NEW r \in Validator, NEW c, RecvCheckpointQuorum(r, c)
  PROVE  Cluster(node)'
<1> DEFINE s == node[r]
           a == [s EXCEPT !.waitFin = FALSE]
           t == MoveWatermarks(a, c.n)
<1>1. c \in s.localCkpt /\ Update(r, t)
  BY DEF RecvCheckpointQuorum
<1>2. s \in States /\ OK(s, r, node) /\ s.event = "none"
  BY OfCluster
<1>3. a \in States
  BY <1>2 DEF States
<1>4. SameCore(s, a) /\ a.event = "none"
  BY <1>2 DEF States, SameCore
<1> HIDE DEF s, a
<1>5. Leads(s, a, r, node) /\ OK(a, r, node) /\ c \in a.localCkpt
  BY <1>1, <1>2, <1>3, <1>4, SameCoreGood DEF Leads, SameCore
<1>6. Leads(a, t, r, node)
  BY <1>5, MoveWatermarksGood
<1>7. t.event = "none"
  BY <1>3, <1>4 DEF MoveWatermarks, States
<1> HIDE DEF t
<1>8. Leads(s, t, r, node)
  BY <1>5, <1>6, LeadsOn
<1> QED BY <1>1, <1>7, <1>8, UpdateGood DEF s

\* ReceiveNewView keeps the cluster.
LEMMA ReceiveNewViewGood ==
  ASSUME Cluster(node), NEW r \in Validator, NEW p \in Validator, ReceiveNewView(r, p)
  PROVE  Cluster(node)'
<1>1. PICK nv \in node[p].outNV : /\ ChecksNewView(node[r], nv) /\ p # r
                                  /\ \E t \in RecvNewView(node[r], r, nv) : Update(r, t)
  BY DEF ReceiveNewView
<1>2. PICK t \in RecvNewView(node[r], r, nv) : Update(r, t)
  BY <1>1
<1>3. OK(node[r], r, node) /\ node[r].event = "none"
  BY OfCluster
<1>4. nv \in NVs /\ nv.view <= MaxView /\ Computed(nv)
  BY SentIsKnown
<1>5. IsFiniteSet(nv.vcs)
  <2> DEFINE f == [m \in nv.vcs |-> m.from]
  <2>1. f \in Injection(nv.vcs, Validator)
    BY <1>4 DEF Computed, NVs, VCs, Injection, IsInjective
  <2> HIDE DEF f
  <2> QED BY <2>1, ValidatorAssumption, FS_Injection
<1>6. Agree(Known(node[r], node)) => \A vc \in nv.vcs : vc.C \subseteq Known(node[r], node)
  <2>1. nv \in NewViewsOf(node[p])
    BY DEF NewViewsOf
  <2> QED BY <2>1, SentIsKnown
<1>7. Agree(Known(node[r], node)) /\ NoneRecovers(node[r], node) =>
        /\ nv.from = PrimaryOf[nv.view] /\ nv.from # r /\ nv \in node[nv.from].outNV
        /\ \A vc \in nv.vcs : vc \in node[vc.from].outVC
  <2> SUFFICES ASSUME Agree(Known(node[r], node)), NoneRecovers(node[r], node)
               PROVE  nv.from = PrimaryOf[nv.view] /\ nv.from = p
    BY <1>1, SentIsKnown
  <2>1. Agree(Known(node[p], node)) /\ NoneRecovers(node[p], node)
    BY SentIsKnown
  <2>2. Voted(node[p], p, node)
    BY <2>1, OfCluster DEF OK
  <2> QED BY <1>1, <2>2 DEF Voted, OneNewView, ChecksNewView
<1>8. Leads(node[r], t, r, node) /\ t.event = "none"
  BY <1>2, <1>3, <1>4, <1>5, <1>6, <1>7, RecvNewViewGood
<1> QED BY <1>2, <1>8, UpdateGood

\* ReceiveRecoveryResponse keeps the cluster.
LEMMA ReceiveRecoveryResponseGood ==
  ASSUME Cluster(node), NEW r \in Validator, NEW p \in Validator,
         ReceiveRecoveryResponse(r, p)
  PROVE  Cluster(node)'
<1>1. PICK rr \in node[p].outRR :
        /\ node[r].inRec
        /\ \E t \in RecvRecoveryResponse(node[r], r, rr) : Update(r, t)
  BY DEF ReceiveRecoveryResponse
<1>2. PICK t \in RecvRecoveryResponse(node[r], r, rr) : Update(r, t)
  BY <1>1
<1>3. OK(node[r], r, node) /\ node[r].event = "none" /\ node[r].view <= MaxView
  BY OfCluster
<1>4. rr \in RRs /\ rr.ckpt \in Known(node[r], node)
  BY SentIsKnown
<1>5. Agree(Known(node[r], node)) =>
        \A vc \in rr.nv.vcs : vc.C \subseteq Known(node[r], node)
  <2>1. rr.nv \in NewViewsOf(node[p])
    BY DEF NewViewsOf
  <2> QED BY <2>1, SentIsKnown
<1>6. Leads(node[r], t, r, node) /\ t.event = "none"
  BY <1>1, <1>2, <1>3, <1>4, <1>5, RecvRecoveryResponseGood
<1> QED BY <1>2, <1>6, UpdateGood

\* ReceiveViewChange keeps the cluster.
LEMMA ReceiveViewChangeGood ==
  ASSUME Cluster(node), NEW r \in Validator, ReceiveViewChange(r)
  PROVE  Cluster(node)'
<1> DEFINE s == node[r]
           sent == {vc \in UNION {node[p].outVC : p \in Replicas \ {r}} :
                      ~(vc.view >= s.view /\ RefusesViewChange(s, vc))}
<1>1. PICK vc \in sent, E \in SUBSET sent :
        /\ \A a, b \in E : a.from = b.from => a = b
        /\ \E t \in Settle(RecvViewChange(StoreAll(s, E), r, vc), r) : Update(r, t)
  BY Zenon DEF ReceiveViewChange, StoreAll
<1>2. PICK t \in Settle(RecvViewChange(StoreAll(s, E), r, vc), r) : Update(r, t)
  BY <1>1
<1>3. \A m \in sent : m \in VCs /\ m.view <= MaxView /\ m.C \subseteq Known(s, node)
  BY SentIsKnown DEF Replicas
<1>10. Agree(Known(s, node)) /\ NoneRecovers(s, node) =>
         \A m \in sent : m.from # r /\ m \in node[m.from].outVC
  BY SentIsKnown DEF Replicas
<1> DEFINE a == StoreAll(s, E)
           b == RecvViewChange(a, r, vc)
<1>4. OK(s, r, node)
  BY OfCluster
<1> HIDE DEF s, sent
<1>5. Leads(s, a, r, node)
  <2>1. /\ E \in SUBSET VCs /\ \A e \in E : InReach(s, e.view)
        /\ Agree(Known(s, node)) => \A e \in E : e.C \subseteq Known(s, node)
        /\ Agree(Known(s, node)) /\ NoneRecovers(s, node) =>
             \A e \in E : e \in StateOf(e.from, s, r, node).outVC
    BY <1>3, <1>10 DEF InReach, StateOf
  <2>2. \A x, y \in E : x.view = y.view /\ x.from = y.from => x = y
    BY <1>1
  <2> QED BY <1>4, <2>1, <2>2, StoreAllGood
<1> HIDE DEF a
<1>6. OK(a, r, node)
  BY <1>5 DEF Leads
<1>7. Leads(a, b, r, node)
  <2>1. /\ Agree(Known(a, node)) => vc.C \subseteq Known(a, node)
        /\ Agree(Known(a, node)) /\ NoneRecovers(a, node) =>
             vc \in StateOf(vc.from, a, r, node).outVC
    BY <1>3, <1>5, <1>10, GrowsBack DEF Leads, StateOf
  <2> QED BY <1>3, <1>6, <2>1, RecvViewChangeGood
<1>8. t \in Settle(b, r)
  BY <1>2 DEF a
<1> HIDE DEF b
<1>9. Leads(s, b, r, node)
  BY <1>5, <1>7, LeadsOn
<1> QED BY <1>2, <1>8, <1>9, SettleUpdateGood DEF s

\* RecvFetchBatchResponse keeps the cluster.
LEMMA RecvFetchBatchResponseGood ==
  ASSUME Cluster(node), NEW r \in Validator, RecvFetchBatchResponse(r)
  PROVE  Cluster(node)'
<1> DEFINE s == node[r]
           t == [s EXCEPT !.batchStore = @ \cup s.missing, !.missing = {}]
           z == ResetStateForNewView(t, r)
<1>1. PICK u \in Settle(z, r) : Update(r, u)
  BY DEF RecvFetchBatchResponse
<1>2. s \in States /\ OK(s, r, node) /\ WellFormed(s)
  BY OfCluster
<1>3. t \in States
  BY <1>2 DEF States
<1>5. /\ t.view = s.view /\ t.inVC = s.inVC /\ t.inRec = s.inRec /\ t.event = s.event
      /\ t.transferring = s.transferring /\ t.target = s.target /\ t.seqNo = s.seqNo
      /\ t.ledger = s.ledger /\ t.batchStore = s.batchStore \cup s.missing /\ t.missing = {}
      /\ t.vcStore = s.vcStore /\ t.nvStore = s.nvStore /\ t.latestNV = s.latestNV
      /\ t.localCkpt = s.localCkpt /\ t.prePrep = s.prePrep /\ t.H = s.H
      /\ t.sentPrepare = s.sentPrepare /\ t.prepared = s.prepared
      /\ t.outPP = s.outPP /\ t.outP = s.outP /\ t.outC = s.outC /\ t.outK = s.outK
      /\ t.outVC = s.outVC /\ t.outNV = s.outNV /\ t.outRR = s.outRR
      /\ t.plist = s.plist
  BY <1>2 DEF States
<1> HIDE DEF s, t
<1>6. Grows(s, t)
  BY <1>5 DEF Grows
<1>7. WellFormed(t)
  BY <1>2, <1>5 DEF WellFormed, InReach
<1>8. Checkpointed(s, node) => Checkpointed(t, node)
  <2>1. NewViewsOf(t) = NewViewsOf(s)
    BY <1>5 DEF NewViewsOf
  <2> QED BY <1>2, <1>3, <1>5, <1>6, <2>1, CheckpointedKept
<1>9. ASSUME Voted(s, r, node) PROVE Voted(t, r, node)
  <2>1. /\ ProposesInView(t, r) /\ OneProposal(t) /\ OneNewView(t, r)
        /\ SilentInTransfer(t)
    BY <1>5, <1>9 DEF Voted, ProposesInView, OneProposal, OneNewView,
                      SilentInTransfer, Proposed, Passed
  <2>2. NewViewsStand(t)
    BY <1>5, <1>9 DEF Voted, NewViewsStand, NewViewStands, Passed, HasBatch, LastExec
  <2>3. FollowsPrimaries(t, r, node)
    BY <1>5, <1>9 DEF Voted, FollowsPrimaries, StateOf, Proposed
  <2> QED BY <2>1, <2>2, <2>3 DEF Voted
<1>13. Tells(s, r, node) => Tells(t, r, node)
  BY <1>2, <1>3, <1>5, TellsStay
<1>10. Leads(s, t, r, node) /\ OK(t, r, node)
  BY <1>2, <1>3, <1>6, <1>7, <1>8, <1>9, <1>13, GrowsBack DEF Leads, OK, Sound
<1>11. Leads(t, z, r, node)
  BY <1>5, <1>10, ResetStateForNewViewGood
<1> HIDE DEF z
<1>12. Leads(s, z, r, node)
  BY <1>10, <1>11, LeadsOn
<1> QED BY <1>1, <1>12, SettleUpdateGood DEF s

\* ProposeBatch keeps the cluster: the height proposed was passed over by
\* everything the primary stands for.
LEMMA ProposeBatchGood ==
  ASSUME Cluster(node), NEW r \in Validator, NEW d \in Digest, ProposeBatch(r, d)
  PROVE  Cluster(node)'
<1> DEFINE s == node[r]
           n == s.seqNo + 1
           id == [v |-> s.view, n |-> n, d |-> d]
           t == [s EXCEPT !.seqNo = n, !.prePrep = @ \cup {id},
                          !.batchStore = @ \cup {d}, !.outPP = @ \cup {id}]
<1>1. /\ r = PrimaryOf[s.view] /\ Normal(s)
      /\ n <= MaxSeq /\ n > s.H /\ Update(r, t)
  BY DEF ProposeBatch
<1>2. /\ s \in States /\ OK(s, r, node) /\ WellFormed(s)
      /\ s.event = "none" /\ s.view \in Views /\ PrimaryOf[s.view] \in Validator
  BY OfCluster
<1>3. n \in Nat /\ s.seqNo \in Nat /\ n = s.seqNo + 1 /\ s.H \in Nat
  BY <1>2 DEF States
<1> HIDE DEF s, n
<1>4. n \in Seqs /\ d \in Batches
  BY <1>1, <1>3, ConstantAssumption DEF Seqs, Batches
<1>5. id \in IDs /\ id.v = s.view /\ id.n = n
  BY <1>2, <1>4, ConstantAssumption DEF IDs, Views, Pos
<1> HIDE DEF id
<1>6. t \in States
  BY <1>2, <1>3, <1>4, <1>5 DEF States
<1>7. /\ t.view = s.view /\ t.inVC = s.inVC /\ t.inRec = s.inRec /\ t.event = s.event
      /\ t.transferring = s.transferring /\ t.target = s.target /\ t.seqNo = n
      /\ t.ledger = s.ledger /\ t.batchStore = s.batchStore \cup {d}
      /\ t.missing = s.missing
      /\ t.vcStore = s.vcStore /\ t.nvStore = s.nvStore /\ t.latestNV = s.latestNV
      /\ t.localCkpt = s.localCkpt /\ t.prePrep = s.prePrep \cup {id} /\ t.H = s.H
      /\ t.sentPrepare = s.sentPrepare /\ t.prepared = s.prepared
      /\ t.outPP = s.outPP \cup {id} /\ t.outP = s.outP /\ t.outC = s.outC
      /\ t.outK = s.outK
      /\ t.outVC = s.outVC /\ t.outNV = s.outNV /\ t.outRR = s.outRR
      /\ t.plist = s.plist
  BY <1>2 DEF States
<1> HIDE DEF t
<1>8. Grows(s, t)
  BY <1>7 DEF Grows
<1>9. WellFormed(t)
  <2>1. InReach(s, s.view)
    BY <1>2 DEF InReach, States, Pos
  <2> QED BY <1>2, <1>5, <1>7, <2>1 DEF WellFormed, InReach
<1>10. Checkpointed(s, node) => Checkpointed(t, node)
  <2>1. NewViewsOf(t) = NewViewsOf(s)
    BY <1>7 DEF NewViewsOf
  <2> QED BY <1>2, <1>6, <1>7, <1>8, <2>1, CheckpointedKept
<1>11. ASSUME Voted(s, r, node) PROVE Voted(t, r, node)
  <2>0. \A k \in Nat : Passed(s, k) => Passed(t, k) /\ k # n
    BY <1>1, <1>3, <1>7 DEF Passed
  <2>1. ProposesInView(t, r)
    <3>1. s.view <= s.view /\ ~s.inVC /\ Passed(t, n)
      BY <1>1, <1>2, <1>3, <1>7 DEF States, Pos, Normal, Passed
    <3>2. \A x \in s.outPP : x.n \in Nat
      BY <1>2 DEF States, IDs, Seqs
    <3> QED BY <1>1, <1>5, <1>7, <1>11, <2>0, <3>1, <3>2 DEF Voted, ProposesInView
  <2>2. OneProposal(t)
    <3>1. Proposed(t) = Proposed(s) \cup {id}
      BY <1>7 DEF Proposed
    <3>2. ASSUME NEW x \in Proposed(s), x.v = s.view PROVE x.n # n
      <4>1. CASE x \in s.outPP
        <5>1. x.n \in Nat /\ Passed(s, x.n)
          BY <1>2, <1>11, <3>2, <4>1 DEF States, IDs, Seqs, Voted, ProposesInView
        <5> QED BY <2>0, <5>1
      <4>2. ASSUME NEW nv \in s.outNV, x \in Carried(nv) PROVE x.n # n
        <5>1. nv.view = s.view /\ x.n \in DOMAIN nv.xset
          BY <3>2, <4>2 DEF Carried
        <5>2. NewViewStands(s, nv)
          BY <1>11, <5>1 DEF Voted, NewViewsStand
        <5>3. x.n \in Nat
          BY <1>2, <5>1 DEF States, NVs, XSets, Seqs
        <5>4. Passed(s, x.n)
          BY <1>1, <5>1, <5>2 DEF NewViewStands, Normal
        <5> QED BY <2>0, <5>3, <5>4
      <4> QED BY <4>1, <4>2 DEF Proposed
    <3> QED BY <1>5, <1>11, <3>1, <3>2 DEF Voted, OneProposal
  <2>3. OneNewView(t, r) /\ SilentInTransfer(t)
    BY <1>1, <1>7, <1>11 DEF Voted, OneNewView, SilentInTransfer, Normal
  <2>4. NewViewsStand(t)
    <3> SUFFICES ASSUME NEW nv \in t.outNV, nv.view = t.view PROVE NewViewStands(t, nv)
      BY DEF NewViewsStand
    <3>1. NewViewStands(s, nv)
      BY <1>7, <1>11 DEF Voted, NewViewsStand
    <3>2. DOMAIN nv.xset \subseteq Nat
      BY <1>2, <1>7 DEF States, NVs, XSets, Seqs
    <3> QED BY <1>7, <2>0, <3>1, <3>2 DEF NewViewStands, HasBatch, LastExec
  <2>5. FollowsPrimaries(t, r, node)
    <3>1. \A p : StateOf(p, s, r, node).outNV = StateOf(p, t, r, node).outNV
                 /\ Proposed(StateOf(p, s, r, node)) \subseteq Proposed(StateOf(p, t, r, node))
      BY <1>7 DEF StateOf, Proposed
    <3>2. PrimaryOf[id.v] = r /\ id \in Proposed(StateOf(r, t, r, node))
      BY <1>1, <1>5, <1>7 DEF StateOf, Proposed
    <3> QED BY <1>7, <1>11, <3>1, <3>2 DEF Voted, FollowsPrimaries
  <2> QED BY <2>1, <2>2, <2>3, <2>4, <2>5 DEF Voted
<1>12. Tells(s, r, node) => Tells(t, r, node)
  <2>1. t.view >= s.view /\ t.H >= s.H /\ id.v <= t.view
    BY <1>2, <1>5, <1>7 DEF States, Pos
  <2>2. Basis(t) = Basis(s)
    BY <1>7 DEF Basis
  <2> QED BY <1>2, <1>6, <1>7, <2>1, <2>2, TellsKept
<1>13. Leads(s, t, r, node)
  BY <1>2, <1>6, <1>8, <1>9, <1>10, <1>11, <1>12, GrowsBack DEF Leads, OK, Sound
<1> QED BY <1>1, <1>2, <1>7, <1>13, UpdateGood DEF s

\* RecvPrePrepare keeps the cluster.
LEMMA RecvPrePrepareGood ==
  ASSUME Cluster(node), NEW r \in Validator,
         NEW id \in node[PrimaryOf[node[r].view]].outPP, RecvPrePrepare(r, id)
  PROVE  Cluster(node)'
<1> DEFINE s == node[r]
           t == SendPrepare(s, id)
           p == PrimaryOf[s.view]
<1>1. /\ s \in States /\ OK(s, r, node) /\ WellFormed(s)
      /\ s.event = "none" /\ s.view \in Views /\ p \in Validator
  BY OfCluster
<1>2. id.v = s.view /\ r # p
  BY DEF RecvPrePrepare
<1>3. CASE Conflicts(s, id)
  <2>1. PICK u \in Settle(SendViewChange(s, r), r) : Update(r, u)
    BY <1>3 DEF RecvPrePrepare
  <2>2. Leads(s, SendViewChange(s, r), r, node)
    BY <1>1, SendViewChangeGood
  <2> QED BY <2>1, <2>2, SettleUpdateGood
<1>4. CASE ~Conflicts(s, id)
  <2>1. Update(r, t)
    BY <1>4 DEF RecvPrePrepare
  <2>2. id \in IDs /\ id.d \in Batches
    <3>1. node[p] \in States
      BY <1>1, OfCluster
    <3> QED BY <3>1 DEF States, IDs
  <2>3. id \in Proposed(StateOf(p, t, r, node))
    BY <1>2 DEF StateOf, Proposed
  <2> HIDE DEF s, p
  <2>4. t \in States
    BY <1>1, <2>2 DEF States, SendPrepare
  <2>5. /\ t.view = s.view /\ t.inVC = s.inVC /\ t.inRec = s.inRec /\ t.event = s.event
        /\ t.transferring = s.transferring /\ t.target = s.target /\ t.seqNo = s.seqNo
        /\ t.ledger = s.ledger /\ t.batchStore = s.batchStore \cup {id.d}
        /\ t.missing = s.missing
        /\ t.vcStore = s.vcStore /\ t.nvStore = s.nvStore /\ t.latestNV = s.latestNV
        /\ t.localCkpt = s.localCkpt /\ t.prePrep = s.prePrep \cup {id} /\ t.H = s.H
        /\ t.sentPrepare = s.sentPrepare \cup {id} /\ t.prepared = s.prepared
        /\ t.outPP = s.outPP /\ t.outP = s.outP \cup {id} /\ t.outC = s.outC
        /\ t.outK = s.outK
        /\ t.outVC = s.outVC /\ t.outNV = s.outNV /\ t.outRR = s.outRR
        /\ t.plist = s.plist
    BY <1>1 DEF States, SendPrepare
  <2> HIDE DEF t
  <2>6. Grows(s, t)
    BY <2>5 DEF Grows
  <2>7. WellFormed(t)
    <3>1. InReach(s, s.view)
      BY <1>1 DEF InReach, States, Pos
    <3> QED BY <1>1, <1>2, <2>5, <3>1 DEF WellFormed, InReach
  <2>8. Checkpointed(s, node) => Checkpointed(t, node)
    <3>1. NewViewsOf(t) = NewViewsOf(s)
      BY <2>5 DEF NewViewsOf
    <3> QED BY <1>1, <2>4, <2>5, <2>6, <3>1, CheckpointedKept
  <2>9. ASSUME Voted(s, r, node) PROVE Voted(t, r, node)
    <3>1. /\ ProposesInView(t, r) /\ OneProposal(t) /\ OneNewView(t, r)
          /\ SilentInTransfer(t)
      BY <2>5, <2>9 DEF Voted, ProposesInView, OneProposal, OneNewView,
                        SilentInTransfer, Proposed, Passed
    <3>2. NewViewsStand(t)
      BY <2>5, <2>9 DEF Voted, NewViewsStand, NewViewStands, Passed, HasBatch, LastExec
    <3>3. FollowsPrimaries(t, r, node)
      <4>1. \A q : StateOf(q, s, r, node).outNV = StateOf(q, t, r, node).outNV
                   /\ Proposed(StateOf(q, s, r, node)) = Proposed(StateOf(q, t, r, node))
        BY <2>5 DEF StateOf, Proposed
      <4>2. PrimaryOf[id.v] = p
        BY <1>2 DEF p
      <4> QED BY <1>1, <1>2, <2>3, <2>5, <2>9, <4>1, <4>2 DEF Voted, FollowsPrimaries
    <3> QED BY <3>1, <3>2, <3>3 DEF Voted
  <2>10. Tells(s, r, node) => Tells(t, r, node)
    <3>1. t.view >= s.view /\ t.H >= s.H /\ id.v <= t.view
      BY <1>1, <1>2, <2>5 DEF States, Pos
    <3>2. Basis(t) = Basis(s)
      BY <2>5 DEF Basis
    <3> QED BY <1>1, <2>4, <2>5, <3>1, <3>2, TellsKept
  <2>11. Leads(s, t, r, node)
    BY <1>1, <2>4, <2>6, <2>7, <2>8, <2>9, <2>10, GrowsBack DEF Leads, OK, Sound
  <2> QED BY <1>1, <2>1, <2>5, <2>11, UpdateGood DEF s
<1> QED BY <1>3, <1>4

\* RecvPrepareQuorum keeps the cluster.
LEMMA RecvPrepareQuorumGood ==
  ASSUME Cluster(node), NEW r \in Validator, NEW id \in node[r].prePrep,
         RecvPrepareQuorum(r, id)
  PROVE  Cluster(node)'
<1> DEFINE s == node[r]
           t == [s EXCEPT !.prepared = @ \cup {id}, !.outC = @ \cup {id}]
<1>1. /\ s \in States /\ OK(s, r, node) /\ WellFormed(s) /\ s.event = "none"
  BY OfCluster
<1>2. id \in s.prePrep /\ Update(r, t) /\ id.v = s.view /\ ~s.transferring
  BY DEF RecvPrepareQuorum
<1> HIDE DEF s
<1>3. t \in States
  <2>1. s \in States /\ id \in s.prePrep
    BY <1>1, <1>2
  <2> QED BY <2>1 DEF States
<1>4. /\ t.view = s.view /\ t.inVC = s.inVC /\ t.inRec = s.inRec /\ t.event = s.event
      /\ t.transferring = s.transferring /\ t.target = s.target /\ t.seqNo = s.seqNo
      /\ t.ledger = s.ledger /\ t.batchStore = s.batchStore /\ t.missing = s.missing
      /\ t.vcStore = s.vcStore /\ t.nvStore = s.nvStore /\ t.latestNV = s.latestNV
      /\ t.localCkpt = s.localCkpt /\ t.prePrep = s.prePrep /\ t.H = s.H
      /\ t.sentPrepare = s.sentPrepare /\ t.prepared = s.prepared \cup {id}
      /\ t.outPP = s.outPP /\ t.outP = s.outP /\ t.outC = s.outC \cup {id}
      /\ t.outK = s.outK
      /\ t.outVC = s.outVC /\ t.outNV = s.outNV /\ t.outRR = s.outRR
      /\ t.plist = s.plist
  BY <1>1 DEF States
<1> HIDE DEF t
<1>5. Grows(s, t)
  BY <1>4 DEF Grows
<1>6. WellFormed(t)
  BY <1>1, <1>2, <1>4 DEF WellFormed, InReach
<1>7. Checkpointed(s, node) => Checkpointed(t, node)
  <2>1. NewViewsOf(t) = NewViewsOf(s)
    BY <1>4 DEF NewViewsOf
  <2> QED BY <1>1, <1>3, <1>4, <1>5, <2>1, CheckpointedKept
<1>8. ASSUME Voted(s, r, node) PROVE Voted(t, r, node)
  <2>1. /\ ProposesInView(t, r) /\ OneProposal(t) /\ OneNewView(t, r)
        /\ SilentInTransfer(t)
    BY <1>4, <1>8 DEF Voted, ProposesInView, OneProposal, OneNewView,
                      SilentInTransfer, Proposed, Passed
  <2>2. NewViewsStand(t)
    BY <1>4, <1>8 DEF Voted, NewViewsStand, NewViewStands, Passed, HasBatch, LastExec
  <2>3. FollowsPrimaries(t, r, node)
    BY <1>2, <1>4, <1>8 DEF Voted, FollowsPrimaries, StateOf, Proposed
  <2> QED BY <2>1, <2>2, <2>3 DEF Voted
<1>9. ASSUME Tells(s, r, node) PROVE Tells(t, r, node)
  <2>1. /\ s.view \in Nat /\ Basis(t) = Basis(s) \cup {id} /\ LastExec(t) = LastExec(s)
        /\ \A vc \in s.outVC : vc.view \in Nat
    BY <1>1, <1>4 DEF States, Pos, VCs, Basis, LastExec
  <2>2. Remembers(t)
    BY <1>2, <1>4, <1>9, <2>1 DEF Tells, Remembers, Reported
  <2>3. Told(t)
    BY <1>2, <1>4, <1>9, <2>1 DEF Tells, Told
  <2>4. HeardOf(t, r, node)
    BY <1>4, <1>9 DEF Tells, HeardOf, StateOf
  <2> QED BY <1>2, <1>4, <1>9, <2>2, <2>3, <2>4 DEF Tells
<1>10. Leads(s, t, r, node)
  BY <1>1, <1>3, <1>5, <1>6, <1>7, <1>8, <1>9, GrowsBack DEF Leads, OK, Sound
<1> QED BY <1>1, <1>2, <1>4, <1>10, UpdateGood DEF s

\* Stored checkpoints are checkpoints.
LEMMA SaveCheckpointTyped ==
  ASSUME NEW cs \in SUBSET Ckpts, NEW c \in Ckpts
  PROVE  SaveCheckpoint(cs, c) \in SUBSET Ckpts
BY DEF SaveCheckpoint

\* RecvCommitQuorum keeps the cluster: executing and reporting go together.
LEMMA RecvCommitQuorumGood ==
  ASSUME Cluster(node), NEW r \in Validator, NEW id \in node[r].prepared,
         RecvCommitQuorum(r, id)
  PROVE  Cluster(node)'
<1> DEFINE s == node[r]
           l == Append(s.ledger, id.d)
           c == [n |-> id.n, ledger |-> l]
           cs == SaveCheckpoint(s.localCkpt, c)
           a == [s EXCEPT !.ledger = l]
           z == [a EXCEPT !.waitFin = TRUE, !.localCkpt = cs, !.outK = @ \cup {c}]
           t == IF id.n % K # 0 THEN a ELSE z
<1>1. /\ s \in States /\ OK(s, r, node) /\ WellFormed(s) /\ s.event = "none"
  BY OfCluster
<1>2. /\ id \in s.prepared /\ id.n = LastExec(s) + 1 /\ ~s.transferring
  BY DEF RecvCommitQuorum
<1>3. a.localCkpt = s.localCkpt /\ a.ledger = l /\ a.outK = s.outK
  BY <1>1 DEF States
<1>4. Update(r, t)
  BY <1>3 DEF RecvCommitQuorum
<1> HIDE DEF s
<1>5. id \in IDs /\ LastExec(s) \in Nat /\ s.ledger \in Seq(Batches) /\ s.H \in Nat
  BY <1>1, <1>2 DEF States, LastExec
<1>6. l \in Seq(Batches) /\ Len(l) = LastExec(s) + 1
  BY <1>5 DEF IDs, LastExec
<1> HIDE DEF l
<1>7. c \in Ckpts /\ c.n = LastExec(s) + 1
  BY <1>2, <1>5, <1>6 DEF Ckpts
<1> HIDE DEF c
<1>8. cs \in SUBSET Ckpts
  BY <1>1, <1>7, SaveCheckpointTyped DEF States
<1>9. cs \subseteq s.localCkpt \cup {c}
  BY DEF SaveCheckpoint
<1> HIDE DEF cs
<1>10. a \in States
  BY <1>1, <1>6 DEF States
<1>11. z \in States
  BY <1>7, <1>8, <1>10 DEF States
<1> DEFINE Same(u) ==
      /\ u.view = s.view /\ u.inVC = s.inVC /\ u.inRec = s.inRec /\ u.event = s.event
      /\ u.transferring = s.transferring /\ u.target = s.target /\ u.seqNo = s.seqNo
      /\ u.ledger = l /\ u.batchStore = s.batchStore /\ u.missing = s.missing
      /\ u.vcStore = s.vcStore /\ u.nvStore = s.nvStore /\ u.latestNV = s.latestNV
      /\ u.prePrep = s.prePrep /\ u.H = s.H
      /\ u.sentPrepare = s.sentPrepare /\ u.prepared = s.prepared
      /\ u.outPP = s.outPP /\ u.outP = s.outP /\ u.outC = s.outC
      /\ u.outVC = s.outVC /\ u.outNV = s.outNV /\ u.outRR = s.outRR
      /\ u.plist = s.plist
<1>12. Same(a) /\ a.localCkpt = s.localCkpt /\ a.outK = s.outK
  BY <1>1 DEF States
<1> HIDE DEF a
<1>13. Same(z) /\ z.localCkpt = cs /\ z.outK = s.outK \cup {c}
  BY <1>10, <1>12 DEF States
<1> HIDE DEF z
<1>14. t \in States /\ Same(t) /\ t.localCkpt \subseteq s.localCkpt \cup {c}
       /\ s.outK \subseteq t.outK /\ (t.localCkpt = s.localCkpt \/ c \in t.outK)
  BY <1>9, <1>10, <1>11, <1>12, <1>13
<1> HIDE DEF t
<1>15. Grows(s, t) /\ LastExec(t) = LastExec(s) + 1
  BY <1>6, <1>14 DEF Grows, LastExec
<1>16. WellFormed(t)
  BY <1>1, <1>14 DEF WellFormed, InReach
<1>17. ASSUME Checkpointed(s, node) PROVE Checkpointed(t, node)
  <2>1. Known(s, node) \subseteq Known(t, node)
    BY <1>15, GrowsBack
  <2>2. c \in t.outK => c \in Known(t, node)
    BY DEF Known, Reports
  <2>3. \A o \in t.localCkpt : o \in Known(t, node) /\ o.n <= LastExec(t)
    <3>1. \A o \in s.localCkpt : o \in Known(t, node) /\ o.n \in Nat /\ o.n <= LastExec(s)
      BY <1>1, <1>17, <2>1 DEF Checkpointed, States, Ckpts
    <3> QED BY <1>5, <1>7, <1>14, <1>15, <2>2, <3>1
  <2>4. t.H <= LastExec(t)
    BY <1>5, <1>14, <1>15, <1>17 DEF Checkpointed
  <2>5. t.target \in Known(t, node) /\ ~t.transferring
    BY <1>2, <1>14, <1>17, <2>1 DEF Checkpointed
  <2>6. NewViewsOf(t) = NewViewsOf(s)
    BY <1>14 DEF NewViewsOf
  <2>7. /\ \A vc \in t.vcStore : vc.C \subseteq Known(t, node)
        /\ \A nv \in NewViewsOf(t) : \A vc \in nv.vcs : vc.C \subseteq Known(t, node)
    BY <1>14, <1>17, <2>1, <2>6 DEF Checkpointed
  <2> QED BY <2>3, <2>4, <2>5, <2>7 DEF Checkpointed
<1>18. ASSUME Voted(s, r, node) PROVE Voted(t, r, node)
  <2>1. /\ ProposesInView(t, r) /\ OneProposal(t) /\ OneNewView(t, r)
        /\ SilentInTransfer(t)
    BY <1>14, <1>18 DEF Voted, ProposesInView, OneProposal, OneNewView,
                        SilentInTransfer, Proposed, Passed
  <2>2. NewViewsStand(t)
    <3> SUFFICES ASSUME NEW nv \in t.outNV, nv.view = t.view PROVE NewViewStands(t, nv)
      BY DEF NewViewsStand
    <3>1. NewViewStands(s, nv)
      BY <1>14, <1>18 DEF Voted, NewViewsStand
    <3>2. nv.base \in Nat
      BY <1>1, <1>14 DEF States, NVs
    <3>3. nv.base <= LastExec(s)
      BY <3>1 DEF NewViewStands
    <3>4. nv.base <= LastExec(t) /\ c.n # nv.base
      BY <1>5, <1>7, <1>15, <3>2, <3>3
    <3>5. nv.base <= t.H \/ \A o \in t.localCkpt : o.n # nv.base
      BY <1>14, <3>1, <3>4 DEF NewViewStands
    <3> QED BY <1>14, <3>1, <3>4, <3>5 DEF NewViewStands, HasBatch, Passed
  <2>3. FollowsPrimaries(t, r, node)
    BY <1>14, <1>18 DEF Voted, FollowsPrimaries, StateOf, Proposed
  <2> QED BY <2>1, <2>2, <2>3 DEF Voted
<1>19. ASSUME Tells(s, r, node) PROVE Tells(t, r, node)
  <2>1. Basis(t) = Basis(s) /\ id \in Basis(s)
    BY <1>2, <1>14 DEF Basis
  <2>2. Remembers(t)
    <3>1. \A n \in 1 .. LastExec(t) : n > s.H => Reported(Basis(s), n)
      <4> SUFFICES ASSUME NEW n \in 1 .. LastExec(t), n > s.H PROVE Reported(Basis(s), n)
        OBVIOUS
      <4>1. n = id.n \/ n \in 1 .. LastExec(s)
        BY <1>2, <1>5, <1>15
      <4> QED BY <1>2, <1>19, <2>1, <4>1 DEF Tells, Remembers, Reported
    <3> QED BY <1>2, <1>14, <1>19, <2>1, <3>1 DEF Tells, Remembers
  <2>3. Told(t) /\ HeardOf(t, r, node)
    BY <1>14, <1>19 DEF Tells, Told, HeardOf, StateOf
  <2> QED BY <1>14, <1>19, <2>2, <2>3 DEF Tells
<1>20. Leads(s, t, r, node)
  BY <1>1, <1>14, <1>15, <1>16, <1>17, <1>18, <1>19, GrowsBack DEF Leads, OK, Sound
<1>21. t.event = "none"
  BY <1>1, <1>14
<1> QED BY <1>4, <1>20, <1>21, UpdateGood DEF s

\* The view change sent again is one for the view the replica is in.
LEMMA ViewChangeResendTimeoutGood ==
  ASSUME Cluster(node), NEW r \in Validator, ViewChangeResendTimeout(r)
  PROVE  Cluster(node)'
<1> DEFINE s == node[r]
           v == s.view
           k == s.recoveries + 1
           low == s.view - 1
           asked == [s EXCEPT !.view = low, !.recoveries = k]
           a == [s EXCEPT !.recoveries = k]
           e == AfterOwn(EnterViews(a, r, {v}, TRUE), r)
<1>1. /\ s \in States /\ OK(s, r, node) /\ s.event = "none" /\ v \in Pos
  BY OfCluster DEF States
<1>2. /\ ~s.transferring
      /\ \E t \in Settle(InitRecovery(asked, r), r) : Update(r, t)
  BY DEF ViewChangeResendTimeout
<1>3. low + 1 = v /\ k \in Nat
  BY <1>1 DEF States, Pos
<1> HIDE DEF s, low, k
<1>4. a \in States
  BY <1>1, <1>3 DEF States
<1>5. SameCore(s, a) /\ a.event = "none"
  BY <1>1 DEF States, SameCore
<1>6. ~asked.transferring /\ asked.view = low
  BY <1>1, <1>2 DEF States
<1>7. EnterViews(asked, r, {v}, TRUE) = EnterViews(a, r, {v}, TRUE)
  <2> DEFINE m == Max({v})
  <2>1. BeforeSend(asked, {v}, m, TRUE) = BeforeSend(a, {v}, m, TRUE)
    <3> HIDE DEF m, v
    <3> QED BY <1>1 DEF BeforeSend, States
  <2> HIDE DEF asked, a, v
  <2> QED BY <2>1, EnterViewsInTwo
<1>8. InitRecovery(asked, r) = e
  BY <1>3, <1>6, <1>7 DEF InitRecovery
<1> HIDE DEF a, asked, v
<1>9. Leads(s, a, r, node)
  BY <1>1, <1>4, <1>5, SameCoreGood
<1>10. Leads(a, e, r, node)
  <2>1. Sound(a, node) /\ v \in Pos /\ v >= a.view
    BY <1>1, <1>5, <1>9 DEF Leads, OK, SameCore, Pos, v
  <2> QED BY <2>1, RecoveryGood
<1> HIDE DEF e
<1>11. Leads(s, e, r, node)
  BY <1>9, <1>10, LeadsOn
<1> QED BY <1>2, <1>8, <1>11, SettleUpdateGood DEF s

\* The state in which recvStateUpdatedEvent goes on: the target is installed.
Transferred(s) ==
  MoveWatermarks([s EXCEPT !.transferring = FALSE, !.ledger = s.target.ledger,
                           !.seqNo = s.target.n,
                           !.localCkpt = SaveCheckpoint(@, s.target)], s.target.n)

\* Installing the target of a state transfer keeps everything.
LEMMA TransferredGood ==
  ASSUME NEW s, NEW r \in Validator, NEW G, OK(s, r, G), s.event = "none", s.transferring
  PROVE  /\ Leads(s, Transferred(s), r, G) /\ Transferred(s).event = "none"
         /\ ~Transferred(s).transferring
<1> DEFINE c == s.target
           h == c.n
           l == c.ledger
           cs == SaveCheckpoint(s.localCkpt, c)
           a == [s EXCEPT !.transferring = FALSE, !.ledger = l, !.seqNo = h, !.localCkpt = cs]
           t == Transferred(s)
<1>1. /\ s \in States /\ WellFormed(s) /\ c \in Ckpts /\ h \in Nat
      /\ l \in Seq(Batches) /\ Len(l) = h /\ s.H \in Nat /\ LastExec(s) \in Nat
  BY DEF OK, Sound, States, Ckpts, LastExec
<1>2. cs \in SUBSET Ckpts
  BY <1>1, SaveCheckpointTyped DEF States
<1>3. \A o \in cs : o = c \/ (o \in s.localCkpt /\ o.n # h)
  BY DEF SaveCheckpoint
<1>4. t = MoveWatermarks(a, h)
  BY DEF Transferred
<1> HIDE DEF h, l, cs, c
<1>5. a \in States
  <2>1. s \in States /\ h \in Nat /\ l \in Seq(Batches) /\ cs \in SUBSET Ckpts
    BY <1>1, <1>2
  <2> QED BY <2>1 DEF States
<1>6. /\ a.view = s.view /\ a.inVC = s.inVC /\ a.inRec = s.inRec /\ a.event = s.event
      /\ a.transferring = FALSE /\ a.target = s.target /\ a.seqNo = h
      /\ a.ledger = l /\ a.batchStore = s.batchStore /\ a.missing = s.missing
      /\ a.vcStore = s.vcStore /\ a.nvStore = s.nvStore /\ a.latestNV = s.latestNV
      /\ a.localCkpt = cs /\ a.prePrep = s.prePrep /\ a.H = s.H
      /\ a.sentPrepare = s.sentPrepare /\ a.prepared = s.prepared
      /\ a.outPP = s.outPP /\ a.outP = s.outP /\ a.outC = s.outC /\ a.outK = s.outK
      /\ a.outVC = s.outVC /\ a.outNV = s.outNV /\ a.outRR = s.outRR
      /\ a.plist = s.plist
  BY <1>1 DEF States
<1> HIDE DEF a, t
<1>7. t \in States
  BY <1>1, <1>4, <1>5, MoveWatermarksTyped
<1>8. /\ t.view = a.view /\ t.inVC = a.inVC /\ t.inRec = a.inRec /\ t.event = a.event
      /\ t.transferring = a.transferring /\ t.target = a.target /\ t.seqNo = a.seqNo
      /\ t.ledger = a.ledger /\ t.batchStore = a.batchStore /\ t.missing = a.missing
      /\ t.vcStore = a.vcStore /\ t.nvStore = a.nvStore /\ t.latestNV = a.latestNV
      /\ t.outPP = a.outPP /\ t.outP = a.outP /\ t.outC = a.outC /\ t.outK = a.outK
      /\ t.outVC = a.outVC /\ t.outNV = a.outNV /\ t.outRR = a.outRR
  BY <1>4, <1>5 DEF MoveWatermarks, States
<1>9. /\ t.prePrep \subseteq a.prePrep /\ t.sentPrepare \subseteq a.sentPrepare
      /\ a.prepared \subseteq a.prePrep => t.prepared \subseteq t.prePrep
      /\ t.H = IF a.H > h THEN a.H ELSE h
      /\ a.H <= h => \A o \in t.localCkpt : o \in a.localCkpt /\ o.n >= h
      /\ t.plist \subseteq a.plist
      /\ \A e \in a.plist : e.n > t.H => e \in t.plist
      /\ \A e \in a.prepared : e.n > t.H => e \in t.prepared
  BY <1>1, <1>4, <1>5 DEF MoveWatermarks, States, Above
<1>10. Grows(s, t) /\ Known(t, G) = Known(s, G)
  BY <1>6, <1>8 DEF Grows, Known, Reports
<1>11. WellFormed(t)
  BY <1>1, <1>6, <1>8, <1>9 DEF WellFormed, InReach
<1>12. LastExec(t) = h
  BY <1>1, <1>6, <1>8 DEF LastExec
<1>13. ASSUME Checkpointed(s, G) PROVE Checkpointed(t, G)
  <2>1. h > LastExec(s) /\ s.H <= LastExec(s)
    BY <1>13 DEF Checkpointed, h, c
  <2>2. t.H = h
    BY <1>1, <1>6, <1>9, <2>1
  <2>3. \A o \in t.localCkpt : o = c
    <3> SUFFICES ASSUME NEW o \in t.localCkpt PROVE o = c
      OBVIOUS
    <3>1. o \in cs /\ o.n >= h
      BY <1>1, <1>6, <1>9, <2>1
    <3>2. o \in s.localCkpt => o.n <= LastExec(s) /\ o.n \in Nat
      BY <1>1, <1>13 DEF Checkpointed, States, Ckpts
    <3> QED BY <1>1, <1>3, <2>1, <3>1, <3>2
  <2>4. c \in Known(t, G) /\ t.target = c
    BY <1>6, <1>8, <1>10, <1>13 DEF Checkpointed, c
  <2>5. NewViewsOf(t) = NewViewsOf(s)
    BY <1>6, <1>8 DEF NewViewsOf
  <2>6. h <= h /\ c.n = h
    BY <1>1 DEF h
  <2> QED BY <1>6, <1>8, <1>10, <1>12, <1>13, <2>2, <2>3, <2>4, <2>5, <2>6 DEF Checkpointed
<1>14. ASSUME Voted(s, r, G) PROVE Voted(t, r, G)
  <2>1. /\ \A id \in s.outPP : id.v # s.view
        /\ \A nv \in s.outNV : nv.view # s.view
    BY <1>14 DEF Voted, SilentInTransfer
  <2>2. /\ ProposesInView(t, r) /\ OneProposal(t) /\ OneNewView(t, r)
        /\ SilentInTransfer(t) /\ NewViewsStand(t)
    BY <1>6, <1>8, <1>14, <2>1 DEF Voted, ProposesInView, OneProposal, OneNewView,
                                   SilentInTransfer, NewViewsStand, Proposed
  <2>3. FollowsPrimaries(t, r, G)
    BY <1>6, <1>8, <1>9, <1>14 DEF Voted, FollowsPrimaries, StateOf, Proposed
  <2> QED BY <2>2, <2>3 DEF Voted
<1>15. ASSUME Checkpointed(s, G), Tells(s, r, G) PROVE Tells(t, r, G)
  <2>1. h > LastExec(s) /\ s.H <= LastExec(s)
    BY <1>15 DEF Checkpointed, h, c
  <2>2. t.H = h /\ s.target.n = h /\ h > s.H
    BY <1>1, <1>6, <1>9, <2>1 DEF h, c
  <2>3. \A e \in Basis(s) : e.n > h => e \in Basis(t)
    BY <1>6, <1>9, <2>2 DEF Basis
  <2>4. Remembers(t)
    <3>1. ASSUME NEW id \in t.outC, id.n > t.H PROVE Reported(Basis(t), id.n)
      <4>1. id \in s.outC /\ id.n > s.H /\ id.n > s.target.n
        <5>1. id.n \in Nat
          BY <1>7 DEF States, IDs, Seqs
        <5> QED BY <1>1, <1>6, <1>8, <2>2, <3>1, <5>1
      <4>2. Reported(Basis(s), id.n)
        BY <1>15, <4>1 DEF Tells, Remembers
      <4> QED BY <2>2, <2>3, <4>1, <4>2 DEF Reported
    <3>2. \A n \in 1 .. LastExec(t) : ~(n > t.H)
      BY <1>1, <1>12, <2>2
    <3> QED BY <3>1, <3>2 DEF Remembers
  <2>5. Told(t) /\ HeardOf(t, r, G)
    BY <1>6, <1>8, <1>15 DEF Tells, Told, HeardOf, StateOf
  <2>6. \A id \in t.prePrep \cup t.plist \cup t.outC : id.v <= t.view
    BY <1>6, <1>8, <1>9, <1>15 DEF Tells
  <2> QED BY <2>4, <2>5, <2>6 DEF Tells
<1>16. Leads(s, t, r, G)
  BY <1>7, <1>10, <1>11, <1>13, <1>14, <1>15, GrowsBack DEF Leads, OK, Sound
<1> QED BY <1>6, <1>8, <1>16 DEF t

\* A stored new view is entered as it stands, by a replica that is not the
\* primary.
LEMMA EnteredAsItStands ==
  ASSUME NEW s, NEW r \in Validator, NEW G, OK(s, r, G), s.inVC, r # PrimaryOf[s.view],
         NEW nv \in s.nvStore
  PROVE  Leads(s, [s EXCEPT !.latestNV = nv, !.event = "done"], r, G)
<1> DEFINE t == [s EXCEPT !.latestNV = nv, !.event = "done"]
<1>1. s \in States /\ WellFormed(s)
  BY DEF OK, Sound
<1>2. t \in States
  BY <1>1 DEF States
<1>3. /\ t.view = s.view /\ t.inVC = s.inVC /\ t.inRec = s.inRec /\ t.event = "done"
      /\ t.transferring = s.transferring /\ t.target = s.target /\ t.seqNo = s.seqNo
      /\ t.ledger = s.ledger /\ t.batchStore = s.batchStore /\ t.missing = s.missing
      /\ t.vcStore = s.vcStore /\ t.nvStore = s.nvStore /\ t.latestNV = nv
      /\ t.localCkpt = s.localCkpt /\ t.prePrep = s.prePrep /\ t.H = s.H
      /\ t.sentPrepare = s.sentPrepare /\ t.prepared = s.prepared
      /\ t.outPP = s.outPP /\ t.outP = s.outP /\ t.outC = s.outC /\ t.outK = s.outK
      /\ t.outVC = s.outVC /\ t.outNV = s.outNV /\ t.outRR = s.outRR
      /\ t.plist = s.plist
  BY <1>1 DEF States
<1> HIDE DEF t
<1>4. Grows(s, t)
  BY <1>3 DEF Grows
<1>5. WellFormed(t)
  BY <1>1, <1>3 DEF WellFormed, InReach
<1>6. Checkpointed(s, G) => Checkpointed(t, G)
  <2>1. NewViewsOf(t) \subseteq NewViewsOf(s)
    BY <1>3 DEF NewViewsOf
  <2> QED BY <1>1, <1>2, <1>3, <1>4, <2>1, CheckpointedKept
<1>7. ASSUME Voted(s, r, G) PROVE Voted(t, r, G)
  <2>1. /\ ProposesInView(t, r) /\ OneProposal(t) /\ OneNewView(t, r)
        /\ SilentInTransfer(t)
    BY <1>3, <1>7 DEF Voted, ProposesInView, OneProposal, OneNewView,
                      SilentInTransfer, Proposed, Passed
  <2>2. NewViewsStand(t)
    BY <1>3, <1>7 DEF Voted, NewViewsStand, OneNewView
  <2>3. FollowsPrimaries(t, r, G)
    BY <1>3, <1>7 DEF Voted, FollowsPrimaries, StateOf, Proposed
  <2> QED BY <2>1, <2>2, <2>3 DEF Voted
<1>8. Tells(s, r, G) => Tells(t, r, G)
  BY <1>1, <1>2, <1>3, TellsStay
<1>9. Leads(s, t, r, G)
  BY <1>1, <1>2, <1>4, <1>5, <1>6, <1>7, <1>8, GrowsBack DEF Leads, OK, Sound
<1> QED BY <1>9 DEF t

\* Beginning a recovery keeps everything.
LEMMA InitRecoveryGood ==
  ASSUME NEW s, NEW r \in Validator, NEW G, Sound(s, G), ~s.transferring
  PROVE  Leads(s, InitRecovery(s, r), r, G)
<1> DEFINE v == s.view + 1
<1>1. v \in Pos /\ v >= s.view
  BY DEF Sound, States, Pos
<1> HIDE DEF v
<1>2. Leads(s, AfterOwn(EnterViews(s, r, {v}, TRUE), r), r, G)
  BY <1>1, RecoveryGood
<1>3. InitRecovery(s, r) = AfterOwn(EnterViews(s, r, {v}, TRUE), r)
  BY DEF InitRecovery, v
<1> QED BY <1>2, <1>3

\* StateUpdated keeps the cluster.
LEMMA StateUpdatedGood ==
  ASSUME Cluster(node), NEW r \in Validator, StateUpdated(r)
  PROVE  Cluster(node)'
<1> DEFINE s == node[r]
           t == Transferred(s)
           stored == {nv \in t.nvStore : nv.view = t.view}
           nv == CHOOSE o \in stored : TRUE
           after == IF ~t.inVC THEN t
                    ELSE IF r = PrimaryOf[t.view] THEN SendViewChange(t, r)
                    ELSE IF stored = {} THEN InitRecovery(t, r)
                    ELSE [t EXCEPT !.latestNV = nv, !.event = "done"]
<1>1. s.transferring /\ \E u \in Settle(after, r) : Update(r, u)
  BY DEF StateUpdated, Transferred
<1>2. OK(s, r, node) /\ s.event = "none"
  BY OfCluster
<1>3. Leads(s, t, r, node) /\ t.event = "none" /\ ~t.transferring
  BY <1>1, <1>2, TransferredGood
<1> HIDE DEF s
<1>4. stored # {} => nv \in t.nvStore
  OBVIOUS
<1> HIDE DEF t, stored, nv
<1>5. OK(t, r, node) /\ Sound(t, node)
  BY <1>3 DEF Leads, OK
<1>6. Leads(t, SendViewChange(t, r), r, node) /\ Leads(t, t, r, node)
  BY <1>5, SendViewChangeGood, LeadsNowhere
<1>7. Leads(t, InitRecovery(t, r), r, node)
  BY <1>3, <1>5, InitRecoveryGood
<1>8. t.inVC /\ r # PrimaryOf[t.view] /\ stored # {} =>
        Leads(t, [t EXCEPT !.latestNV = nv, !.event = "done"], r, node)
  BY <1>4, <1>5, EnteredAsItStands
<1>9. Leads(t, after, r, node)
  BY <1>6, <1>7, <1>8
<1> HIDE DEF after
<1>10. Leads(s, after, r, node)
  BY <1>3, <1>9, LeadsOn
<1> QED BY <1>1, <1>10, SettleUpdateGood DEF s

\* Restart keeps the cluster.
LEMMA RestartGood ==
  ASSUME Cluster(node), NEW r \in Validator, Restart(r)
  PROVE  Cluster(node)'
<1> DEFINE s == node[r]
           kept == {c \in s.localCkpt : c.n # 0}
           cs == IF kept = {} THEN {NoCheckpoint} ELSE kept
           k == s.recoveries + 1
           v == s.latestNV.view
           top == LastExec(s)
           t == [s EXCEPT !.view = v, !.recoveries = k,
                          !.inVC = FALSE, !.inRec = FALSE,
                          !.vcHandled = FALSE, !.timer = FALSE,
                          !.waitFin = FALSE, !.transferring = FALSE,
                          !.target = NoCheckpoint, !.missing = {},
                          !.seqNo = top, !.localCkpt = cs,
                          !.vcStore = {}, !.nvStore = {}]
<1>1. \E u \in Settle(InitRecovery(t, r), r) : Update(r, u)
  BY DEF Restart
<1>2. /\ s \in States /\ WellFormed(s) /\ OK(s, r, node) /\ s.event = "none"
      /\ \A n \in Nat : InReach(s, n) => n <= MaxView
  BY OfCluster
<1>3. NoCheckpoint \in Ckpts /\ NoCheckpoint.n = 0
  BY DEF NoCheckpoint, Ckpts
<1>4. v \in Pos /\ k \in Nat /\ top \in Nat
  BY <1>2 DEF States, NVs, LastExec
<1>5. cs \in SUBSET Ckpts /\ cs \subseteq s.localCkpt \cup {NoCheckpoint}
  BY <1>2, <1>3 DEF States
<1> HIDE DEF s, cs, k, v, top, kept
<1>6. t \in States
  BY <1>2, <1>3, <1>4, <1>5 DEF States
<1>7. /\ t.view = v /\ t.inRec = FALSE /\ t.event = s.event
      /\ t.transferring = FALSE /\ t.target = NoCheckpoint /\ t.ledger = s.ledger
      /\ t.vcStore = {} /\ t.nvStore = {} /\ t.latestNV = s.latestNV
      /\ t.localCkpt = cs /\ t.prePrep = s.prePrep /\ t.H = s.H
      /\ t.sentPrepare = s.sentPrepare /\ t.prepared = s.prepared
      /\ t.outPP = s.outPP /\ t.outK = s.outK
      /\ t.outVC = s.outVC /\ t.outNV = s.outNV /\ t.outRR = s.outRR
      /\ t.plist = s.plist
  BY <1>2 DEF States
<1> HIDE DEF t
<1>8. Grows(s, t) /\ Known(t, node) = Known(s, node)
  BY <1>7 DEF Grows, Known, Reports
<1>9. WellFormed(t)
  <2>1. /\ \A id \in s.prePrep \cup s.sentPrepare \cup s.outPP : id.v \in Nat
        /\ \A vc \in s.outVC : vc.view \in Nat
        /\ \A nv \in s.outNV : nv.view \in Nat
    BY <1>2 DEF States, IDs, VCs, NVs, Pos
  <2>2. \A n \in Nat : InReach(s, n) => InReach(t, n)
    BY <1>2 DEF InReach
  <2> QED BY <1>2, <1>7, <2>1, <2>2 DEF WellFormed
<1>10. ASSUME Checkpointed(s, node) PROVE Checkpointed(t, node)
  <2>1. NoCheckpoint \in Known(t, node)
    BY DEF Known
  <2>2. LastExec(t) = LastExec(s) /\ LastExec(s) \in Nat
    BY <1>2, <1>7 DEF LastExec, States
  <2>3. \A c \in t.localCkpt : c \in Known(t, node) /\ c.n <= LastExec(t)
    BY <1>3, <1>5, <1>7, <1>8, <1>10, <2>1, <2>2 DEF Checkpointed
  <2>4. NewViewsOf(t) \subseteq NewViewsOf(s)
    BY <1>7 DEF NewViewsOf
  <2> QED BY <1>7, <1>8, <1>10, <2>1, <2>2, <2>3, <2>4 DEF Checkpointed
<1>11. Sound(t, node)
  BY <1>2, <1>6, <1>8, <1>9, <1>10 DEF Sound, OK
<1> DEFINE e == InitRecovery(t, r)
<1>12. Leads(t, e, r, node)
  BY <1>7, <1>11, InitRecoveryGood
<1> HIDE DEF e
<1>13. Leads(s, e, r, node)
  BY <1>8, <1>12, GrowsOn DEF Leads
<1> QED BY <1>1, <1>13, SettleUpdateGood DEF s, e

\* One step of the cluster, action by action.
LEMMA ClusterSteps ==
  ASSUME Cluster(node), [Next]_vars
  PROVE  Cluster(node)'
<1>1. CASE UNCHANGED vars
  BY <1>1 DEF vars
<1>2. ASSUME NEW r \in Validator, Step(r)
      PROVE  Cluster(node)'
  <2>1. ASSUME NEW d \in Digest, ProposeBatch(r, d) PROVE Cluster(node)'
    BY <2>1, ProposeBatchGood
  <2>2. ASSUME NEW id \in node[PrimaryOf[node[r].view]].outPP, RecvPrePrepare(r, id)
        PROVE  Cluster(node)'
    BY <2>2, RecvPrePrepareGood
  <2>3. ASSUME NEW id \in node[r].prePrep, RecvPrepareQuorum(r, id)
        PROVE  Cluster(node)'
    BY <2>3, RecvPrepareQuorumGood
  <2>4. ASSUME NEW id \in node[r].prepared, RecvCommitQuorum(r, id)
        PROVE  Cluster(node)'
    BY <2>4, RecvCommitQuorumGood
  <2>5. ASSUME NEW c \in node[r].localCkpt, RecvCheckpointQuorum(r, c)
        PROVE  Cluster(node)'
    BY <2>5, RecvCheckpointQuorumGood
  <2>6. CASE SuspectPrimary(r)
    BY <2>6, SuspectPrimaryGood
  <2>7. CASE NewViewTimeout(r)
    BY <2>7, NewViewTimeoutGood
  <2>8. CASE ViewChangeResendTimeout(r)
    BY <2>8, ViewChangeResendTimeoutGood
  <2>9. CASE ReceiveViewChange(r)
    BY <2>9, ReceiveViewChangeGood
  <2>10. ASSUME NEW p \in Validator, ReceiveNewView(r, p) PROVE Cluster(node)'
    BY <2>10, ReceiveNewViewGood
  <2>11. ASSUME NEW p \in Validator, ReceiveRecoveryResponse(r, p) PROVE Cluster(node)'
    BY <2>11, ReceiveRecoveryResponseGood
  <2>12. CASE RecvFetchBatchResponse(r)
    BY <2>12, RecvFetchBatchResponseGood
  <2>13. CASE StateUpdated(r)
    BY <2>13, StateUpdatedGood
  <2>14. CASE Restart(r)
    BY <2>14, RestartGood
  <2> QED BY <1>2, <2>1, <2>2, <2>3, <2>4, <2>5, <2>6, <2>7, <2>8, <2>9, <2>10, <2>11,
             <2>12, <2>13, <2>14 DEF Step, Replicas
<1> QED BY <1>1, <1>2 DEF Next, Replicas

(***************************************************************************)
(* The inductive invariant of ViewChange: in every reachable state each     *)
(* replica is sound, its checkpoints are among those reported as long as these *)
(* agree, and it followed the primaries as long as nobody recovers.         *)
(***************************************************************************)
LEMMA ClusterAlways ==
  Spec => []Cluster(node)
<1>1. Init => Cluster(node)
  BY ClusterStarts
<1>2. Cluster(node) /\ [Next]_vars => Cluster(node)'
  BY ClusterSteps
<1> QED BY <1>1, <1>2, PTL DEF Spec

\* The checkpoints any replica has reported agree: one per height.
CheckpointsAgree ==
  Agree({NoCheckpoint} \cup UNION {Reports(node[p]) : p \in Replicas})

\* No replica has asked for a recovery by a view change.
NobodyRecovers == \A p \in Replicas : \A vc \in node[p].outVC : ~vc.recovery

\* What holds of the cluster is said of all of it at once.
LEMMA OfAll ==
  /\ CheckpointsAgree => \A r \in Validator : Agree(Known(node[r], node))
  /\ NobodyRecovers => \A r \in Validator : NoneRecovers(node[r], node)
<1>1. ASSUME NEW r \in Validator
      PROVE  Known(node[r], node) = {NoCheckpoint} \cup UNION {Reports(node[p]) : p \in Validator}
  BY DEF Known
<1> QED BY <1>1 DEF CheckpointsAgree, NobodyRecovers, NoneRecovers, Replicas

(***************************************************************************)
(* Whatever fails or forks, no view, and no id a replica prepared, voted   *)
(* or proposed, is out of range, what is prepared was pre-prepared, and no *)
(* handler leaves an event behind (viewchange_mgr.go, recovery_mgr.go).    *)
(***************************************************************************)
InRange ==
  \A r \in Replicas :
    LET s == node[r]
    IN /\ s.view \in Views
       /\ s.prepared \cup s.sentPrepare \cup s.outPP \subseteq ID
       /\ s.prepared \subseteq s.prePrep
       /\ s.event = "none"

\* The invariant bounds views and ids.
LEMMA ClusterInRange ==
  Cluster(node) => InRange
<1> SUFFICES ASSUME Cluster(node), NEW r \in Validator
             PROVE  /\ node[r].view \in Views
                    /\ node[r].prepared \cup node[r].sentPrepare \cup node[r].outPP \subseteq ID
                    /\ node[r].prepared \subseteq node[r].prePrep
                    /\ node[r].event = "none"
  BY DEF InRange, Replicas
<1> DEFINE s == node[r]
<1>1. /\ s \in States /\ WellFormed(s) /\ s.event = "none" /\ s.view \in Views
      /\ \A v \in Nat : InReach(s, v) => v <= MaxView
  BY OfCluster
<1>2. s.prepared \subseteq s.prePrep /\ s.prePrep \cup s.sentPrepare \cup s.outPP \subseteq IDs
  BY <1>1 DEF WellFormed, States
<1>3. ASSUME NEW id \in s.prePrep \cup s.sentPrepare \cup s.outPP PROVE id \in ID
  <2>1. id \in IDs /\ InReach(s, id.v)
    BY <1>1, <1>2, <1>3 DEF WellFormed
  <2>2. id.v \in Views
    BY <1>1, <2>1, ConstantAssumption DEF IDs, Pos, Views
  <2> QED BY <2>1, <2>2 DEF IDs, ID
<1> QED BY <1>1, <1>2, <1>3

(***************************************************************************)
(* InRange holds in every behaviour of ViewChange, for every number of      *)
(* validators, assignment of primaries and bound.                           *)
(***************************************************************************)
THEOREM RangesAlways ==
  Spec => []InRange
BY ClusterInRange, ClusterAlways, PTL

(***************************************************************************)
(* TypeOK holds as long as the reported checkpoints agree.  After a fork a  *)
(* state transfer may leave a replica with a shorter ledger than one of its *)
(* stored checkpoints, and a quorum for that one moves H above the ledger;  *)
(* everything else in TypeOK holds even then (RangesAlways).                *)
(***************************************************************************)
THEOREM TypeCorrect ==
  Spec => [](CheckpointsAgree => TypeOK)
<1>1. Cluster(node) => (CheckpointsAgree => TypeOK)
  <2> SUFFICES ASSUME Cluster(node), CheckpointsAgree, NEW r \in Validator
               PROVE  node[r].H \in 0 .. LastExec(node[r])
    BY ClusterInRange DEF TypeOK, InRange, Replicas
  <2>1. OK(node[r], r, node) /\ node[r] \in States
    BY OfCluster
  <2>2. node[r].H <= LastExec(node[r])
    BY <2>1, OfAll DEF OK, Sound, Checkpointed
  <2> QED BY <2>1, <2>2 DEF States, LastExec
<1> QED BY <1>1, ClusterAlways, PTL

-----------------------------------------------------------------------------
\* What a replica in state s accepted, voted for, proposed or carried over.
StandsFor(s) == s.prePrep \cup s.outP \cup s.outC \cup Proposed(s)

\* Whatever a replica stands for, the primary of its view proposed it.
LEMMA FromThePrimary ==
  ASSUME Cluster(node), CheckpointsAgree, NobodyRecovers, NEW p \in Validator,
         NEW x \in StandsFor(node[p])
  PROVE  /\ PrimaryOf[x.v] \in Validator
         /\ x \in Proposed(node[PrimaryOf[x.v]])
<1> DEFINE s == node[p]
<1>1. Voted(s, p, node) /\ s \in States
  BY OfAll, OfCluster DEF OK
<1>2. CASE x \in s.prePrep \cup s.outP \cup s.outC
  <2>1. PrimaryOf[x.v] \in Validator /\ x \in Proposed(StateOf(PrimaryOf[x.v], s, p, node))
    BY <1>1, <1>2 DEF Voted, FollowsPrimaries
  <2> QED BY <2>1 DEF StateOf
<1>3. CASE x \in s.outPP
  BY <1>1, <1>3 DEF Voted, ProposesInView, Proposed
<1>4. ASSUME NEW nv \in s.outNV, x \in Carried(nv)
      PROVE  PrimaryOf[x.v] = p
  <2>1. PrimaryOf[nv.view] = p
    BY <1>1 DEF Voted, OneNewView
  <2>2. x.v = nv.view
    BY <1>4 DEF Carried
  <2> QED BY <2>1, <2>2
<1>5. CASE x \in Proposed(s)
  <2>1. PrimaryOf[x.v] = p
    BY <1>3, <1>4, <1>5, <1>1 DEF Proposed, Voted, ProposesInView
  <2> QED BY <1>5, <2>1
<1> QED BY <1>2, <1>5 DEF StandsFor

\* So there is one batch per view and height.
LEMMA ClusterOneBatch ==
  Cluster(node) /\ CheckpointsAgree /\ NobodyRecovers => OneBatchPerView
<1> SUFFICES ASSUME Cluster(node), CheckpointsAgree, NobodyRecovers,
                    NEW p \in Validator, NEW q \in Validator,
                    NEW x \in StandsFor(node[p]), NEW y \in StandsFor(node[q]), x.v = y.v, x.n = y.n
             PROVE  x = y
  BY DEF OneBatchPerView, StandsFor, Replicas
<1> DEFINE o == PrimaryOf[x.v]
<1>1. o \in Validator /\ x \in Proposed(node[o])
  BY FromThePrimary
<1>2. y \in Proposed(node[o])
  BY FromThePrimary
<1>3. Voted(node[o], o, node)
  BY <1>1, OfAll, OfCluster DEF OK
<1> HIDE DEF o
<1> QED BY <1>1, <1>2, <1>3 DEF Voted, OneProposal

(***************************************************************************)
(* As long as the reported checkpoints agree and nobody recovers, no two    *)
(* replicas have different batches at one height of one view, through any   *)
(* view changes and state transfers: not in a pre-prepare, prepare or commit, *)
(* nor in an x-set (sendPrePrepare, recvPrePrepare, processNewView).  After a *)
(* recovery a replica may be in a view a second time (resetStateForRecovery). *)
(***************************************************************************)
THEOREM OneBatchAlways ==
  Spec => [](CheckpointsAgree /\ NobodyRecovers => OneBatchPerView)
<1>1. Cluster(node) => (CheckpointsAgree /\ NobodyRecovers => OneBatchPerView)
  BY ClusterOneBatch
<1> QED BY <1>1, ClusterAlways, PTL

\* A set of view changes as viewChangeStore has it: one per validator.
OnePerSender(vcs) ==
  /\ \A m \in vcs : m.from \in Validator /\ m.h \in Nat
                    /\ m.P \subseteq IDs /\ m.Q \subseteq IDs
  /\ \A m1, m2 \in vcs : m1.from = m2.from => m1 = m2

Senders(vcs) == {m.from : m \in vcs}
\* The quorums in numbers.
LEMMA QuorumSizes ==
  /\ N \in Nat /\ F \in Nat /\ CommonCaseQuorum \in Nat
  /\ 2 * CommonCaseQuorum >= N + F + 1
<1>1. N \in Nat /\ N >= 4
  BY ValidatorAssumption, FS_CardinalityType DEF N
<1> QED BY <1>1 DEF F, CommonCaseQuorum

\* There are as many senders as view changes.
LEMMA AsManySenders ==
  ASSUME NEW vcs, OnePerSender(vcs)
  PROVE  /\ Senders(vcs) \subseteq Validator /\ IsFiniteSet(Senders(vcs))
         /\ Cardinality(vcs) = Cardinality(Senders(vcs))
<1>1. Senders(vcs) \subseteq Validator
  BY DEF OnePerSender, Senders
<1>2. IsFiniteSet(Senders(vcs))
  BY <1>1, ValidatorAssumption, FS_Subset
<1> DEFINE f == [m \in vcs |-> m.from]
<1>3. f \in Injection(vcs, Senders(vcs))
  BY DEF OnePerSender, Senders, Injection, IsInjective
<1>4. f \in Surjection(vcs, Senders(vcs))
  BY DEF Senders, Surjection
<1> HIDE DEF f
<1> QED BY <1>1, <1>2, <1>3, <1>4, FS_Injection

\* A quorum of view changes and a quorum of validators have more than F in
\* common, so one of them is not faulty.
LEMMA QuorumsMeet ==
  ASSUME NEW vcs, OnePerSender(vcs), Cardinality(vcs) >= CommonCaseQuorum,
         NEW C \in SUBSET Validator, Cardinality(C) >= CommonCaseQuorum,
         NEW Faulty \in SUBSET Validator, Cardinality(Faulty) <= F
  PROVE  \E m \in vcs : m.from \in C \ Faulty
<1> DEFINE S == Senders(vcs)
<1>1. S \subseteq Validator /\ IsFiniteSet(S) /\ Cardinality(S) >= CommonCaseQuorum
  BY AsManySenders
<1>2. IsFiniteSet(C) /\ IsFiniteSet(Faulty) /\ IsFiniteSet(Validator)
  BY ValidatorAssumption, FS_Subset
<1>3. Cardinality(S \cup C) = Cardinality(S) + Cardinality(C) - Cardinality(S \cap C)
      /\ Cardinality(S \cup C) <= N
  BY <1>1, <1>2, FS_Union, FS_Subset DEF N
<1>4. IsFiniteSet(S \cap C)
  BY <1>1, FS_Intersection
<1>5. /\ Cardinality(S) \in Nat /\ Cardinality(C) \in Nat /\ Cardinality(S \cap C) \in Nat
      /\ Cardinality(S \cup C) \in Nat /\ Cardinality(Faulty) \in Nat
  BY <1>1, <1>2, <1>4, FS_CardinalityType, FS_Union
<1>6. Cardinality(S \cap C) > Cardinality(Faulty)
  BY <1>1, <1>3, <1>5, QuorumSizes
<1>7. ~(S \cap C \subseteq Faulty)
  BY <1>2, <1>5, <1>6, FS_Subset
<1>8. PICK p \in S \cap C : p \notin Faulty
  BY <1>7
<1> QED BY <1>8 DEF Senders

\* F + 1 view changes have one that is not faulty.
LEMMA OneIsCorrect ==
  ASSUME NEW vcs, OnePerSender(vcs), Cardinality(vcs) >= OneCorrectQuorum,
         NEW Faulty \in SUBSET Validator, Cardinality(Faulty) <= F
  PROVE  \E m \in vcs : m.from \notin Faulty
<1> DEFINE S == Senders(vcs)
<1>1. S \subseteq Validator /\ IsFiniteSet(S) /\ Cardinality(S) >= F + 1
  BY AsManySenders DEF OneCorrectQuorum
<1>2. IsFiniteSet(Faulty)
  BY ValidatorAssumption, FS_Subset
<1>3. Cardinality(S) \in Nat /\ Cardinality(Faulty) \in Nat
  BY <1>1, <1>2, FS_CardinalityType
<1>4. ~(S \subseteq Faulty)
  BY <1>1, <1>2, <1>3, QuorumSizes, FS_Subset
<1> QED BY <1>4 DEF Senders

\* A part of a set of view changes has one per sender as well.
LEMMA PartOnePerSender ==
  ASSUME NEW vcs, OnePerSender(vcs), NEW part \in SUBSET vcs
  PROVE  OnePerSender(part)
BY DEF OnePerSender
-----------------------------------------------------------------------------
\* The view changes of vcs that do not come from Faulty.
Honest(vcs, Faulty) == {m \in vcs : m.from \notin Faulty}

\* Whatever entry of P is selected for the height, it has the settled batch:
\* condition A1 rules out older entries, and A2 those nobody pre-prepared.
LEMMA SelectedIsSettled ==
  ASSUME NEW vcs, OnePerSender(vcs),
         NEW Faulty \in SUBSET Validator, Cardinality(Faulty) <= F,
         NEW C \in SUBSET Validator, Cardinality(C) >= CommonCaseQuorum,
         NEW n \in Seqs, NEW d \in Batches, NEW w \in Views,
         Settled(Honest(vcs, Faulty), C, n, d, w),
         NEW em \in Selected(vcs, n)
  PROVE  em.d = d
<1>1. em \in IDs /\ em.n = n /\ ConditionA1(vcs, em) /\ ConditionA2(vcs, em)
  BY DEF Selected, OnePerSender
<1>2. em.v \in Nat /\ w \in Nat /\ n \in Nat
  BY <1>1, ConstantAssumption DEF IDs, Pos, Views, Seqs
<1> DEFINE A1 == {m \in vcs :
                    /\ m.h < em.n
                    /\ \A p \in m.P : p.n = em.n =>
                         p.v < em.v \/ (p.v = em.v /\ p.d = em.d)}
           A2 == {m \in vcs : \E q \in m.Q : q.n = em.n /\ q.v >= em.v /\ q.d = em.d}
<1>3. PICK m \in A1 : m.from \in C \ Faulty
  <2>1. Cardinality(A1) >= CommonCaseQuorum
    BY <1>1 DEF ConditionA1
  <2>2. OnePerSender(A1)
    BY PartOnePerSender
  <2> HIDE DEF A1
  <2> QED BY <2>1, <2>2, QuorumsMeet
<1>4. PICK p \in m.P : p.n = n /\ p.v >= w /\ (p.v = w => p.d = d)
  BY <1>1, <1>3 DEF Settled, Honest
<1>5. p.v \in Nat
  BY <1>3, ConstantAssumption DEF OnePerSender, IDs, Pos
<1>6. p.v < em.v \/ (p.v = em.v /\ p.d = em.d)
  BY <1>1, <1>3, <1>4
<1>7. CASE em.v = w
  BY <1>2, <1>4, <1>5, <1>6, <1>7
<1>8. CASE em.v > w
  <2>1. PICK k \in A2 : k.from \notin Faulty
    <3>1. Cardinality(A2) >= OneCorrectQuorum
      BY <1>1 DEF ConditionA2
    <3>2. OnePerSender(A2)
      BY PartOnePerSender
    <3> HIDE DEF A2
    <3> QED BY <3>1, <3>2, OneIsCorrect
  <2>2. PICK q \in k.Q : q.n = n /\ q.v >= em.v /\ q.d = em.d
    BY <1>1, <2>1
  <2>3. q.v \in Nat
    BY <2>1, ConstantAssumption DEF OnePerSender, IDs, Pos
  <2>4. q.v > w
    BY <1>2, <1>8, <2>2, <2>3
  <2> QED BY <2>1, <2>2, <2>4 DEF Settled, Honest
<1> QED BY <1>2, <1>4, <1>5, <1>6, <1>7, <1>8

\* A height that is settled is not given to a null request for want of an
\* entry.
LEMMA SettledIsNotNull ==
  ASSUME NEW vcs, OnePerSender(vcs),
         NEW Faulty \in SUBSET Validator, Cardinality(Faulty) <= F,
         NEW C \in SUBSET Validator, Cardinality(C) >= CommonCaseQuorum,
         NEW n, NEW d, NEW w,
         Settled(Honest(vcs, Faulty), C, n, d, w)
  PROVE  ~NullCondition(vcs, n)
<1> SUFFICES ASSUME NullCondition(vcs, n) PROVE FALSE
  OBVIOUS
<1> DEFINE Q == {m \in vcs : m.h < n /\ \A p \in m.P : p.n # n}
<1>1. Cardinality(Q) >= CommonCaseQuorum
  BY DEF NullCondition
<1>2. OnePerSender(Q)
  BY PartOnePerSender
<1>3. PICK m \in Q : m.from \in C \ Faulty
  <2> HIDE DEF Q
  <2> QED BY <1>1, <1>2, QuorumsMeet
<1> QED BY <1>3 DEF Settled, Honest

(***************************************************************************)
(* assignSequenceNumbers keeps what is settled: take any view changes, one *)
(* per validator, at most F of them from faulty validators that report     *)
(* anything.  If batch d is settled at height n for a quorum C, then every *)
(* x-set it may return has d at height n.  A null request is not a batch:  *)
(* it may be pruned.                                                       *)
(***************************************************************************)
THEOREM AssignKeepsSettled ==
  ASSUME NEW vcs, OnePerSender(vcs),
         NEW Faulty \in SUBSET Validator, Cardinality(Faulty) <= F,
         NEW C \in SUBSET Validator, Cardinality(C) >= CommonCaseQuorum,
         NEW h \in Nat, NEW n \in Seqs, n \in (h + 1) .. (h + L),
         NEW d \in Batches, d # NullDigest, NEW w \in Views,
         Settled(Honest(vcs, Faulty), C, n, d, w),
         NEW x \in AssignSequenceNumbers(vcs, h)
  PROVE  n \in DOMAIN x /\ x[n] = d
<1> DEFINE range == (h + 1) .. (h + L)
           full == {f \in [range -> Batches] : \A k \in range : f[k] \in DigestsFor(vcs, k)}
           maxN == Max({k \in range : Selected(vcs, k) # {}} \cup {h + 1})
           Kept(f) == {k \in range : k < maxN \/ f[k] # NullDigest}
<1>1. PICK f \in full : x = [k \in Kept(f) |-> f[k]]
  BY DEF AssignSequenceNumbers
<1>2. f[n] \in DigestsFor(vcs, n)
  BY <1>1
<1>3. f[n] = d
  <2>1. CASE Selected(vcs, n) # {}
    BY <1>2, <2>1, SelectedIsSettled DEF DigestsFor
  <2>2. CASE Selected(vcs, n) = {}
    BY <1>2, <2>2, SettledIsNotNull DEF DigestsFor
  <2> QED BY <2>1, <2>2
<1>4. n \in Kept(f)
  BY <1>3
<1> HIDE DEF Kept
<1> QED BY <1>1, <1>3, <1>4

\* A new view that was sent has one view change per sender, and its x-set was
\* assigned from them.
LEMMA SentNewViews ==
  ASSUME Cluster(node), NEW p \in Validator, NEW nv \in node[p].outNV
  PROVE  /\ OnePerSender(nv.vcs) /\ nv.base \in Nat
         /\ nv.xset \in AssignSequenceNumbers(nv.vcs, nv.base)
<1>1. nv \in NVs /\ Computed(nv)
  BY SentIsKnown
<1>2. nv.base \in Nat /\ nv.vcs \subseteq VCs
  BY <1>1 DEF NVs
<1>3. \A m \in nv.vcs : m.from \in Validator /\ m.h \in Nat /\ m.P \subseteq IDs /\ m.Q \subseteq IDs
  BY <1>2 DEF VCs
<1> QED BY <1>1, <1>2, <1>3 DEF Computed, OnePerSender

(***************************************************************************)
(* Where what a quorum committed is settled in the view changes of a new   *)
(* view, within the L heights it covers, its x-set has that batch          *)
(* (sendNewView, assignSequenceNumbers).                                   *)
(***************************************************************************)
SettledIsKept ==
  CommitIsSettled =>
    \A r \in Replicas : \A nv \in node[r].outNV :
      \A id \in UNION {node[p].outC : p \in Replicas} :
        id.d # NullDigest /\ id.n <= nv.base + L => Keeps(nv, id)

(***************************************************************************)
(* SettledIsKept holds in every behaviour of ViewChange, with or without    *)
(* recoveries and forks.                                                    *)
(***************************************************************************)
THEOREM SettledIsKeptAlways ==
  Spec => []SettledIsKept
<1>1. Cluster(node) => SettledIsKept
  <2> SUFFICES ASSUME Cluster(node), CommitIsSettled, NEW r \in Validator,
                      NEW nv \in node[r].outNV,
                      NEW id \in UNION {node[p].outC : p \in Validator},
                      id.d # NullDigest, id.n <= nv.base + L,
                      id.v < nv.view, CommitQuorum(id), id.n > nv.base
               PROVE  id.n \in DOMAIN nv.xset /\ nv.xset[id.n] = id.d
    BY DEF SettledIsKept, Keeps, Replicas
  <2> DEFINE C == {p \in Validator : id \in node[p].outC}
  <2>1. id \in IDs
    BY OfCluster DEF States
  <2>2. Cardinality(C) >= CommonCaseQuorum /\ C \in SUBSET Validator
    BY DEF CommitQuorum
  <2> HIDE DEF C
  <2>3. PICK w \in Views : Settled(nv.vcs, C, id.n, id.d, w)
    BY <2>2 DEF CommitIsSettled, Replicas, C
  <2>4. Honest(nv.vcs, {}) = nv.vcs
    BY DEF Honest
  <2>5. Cardinality({}) <= F /\ {} \in SUBSET Validator
    BY FS_EmptySet, QuorumSizes
  <2>6. /\ OnePerSender(nv.vcs) /\ nv.base \in Nat
        /\ nv.xset \in AssignSequenceNumbers(nv.vcs, nv.base)
    BY SentNewViews
  <2>7. /\ id.n \in Seqs /\ id.d \in Batches
        /\ id.n \in (nv.base + 1) .. (nv.base + L)
    <3>1. id.n \in Seqs /\ id.d \in Batches
      BY <2>1 DEF IDs
    <3> QED BY <3>1, <2>6, ConstantAssumption DEF Seqs
  <2>8. Settled(Honest(nv.vcs, {}), C, id.n, id.d, w)
    BY <2>3, <2>4
  <2> QED BY <2>2, <2>5, <2>6, <2>7, <2>8, AssignKeepsSettled
<1> QED BY <1>1, ClusterAlways, PTL

\* A sender of a commit reports the height in its view changes for later views,
\* as they are found in a new view.
LEMMA CommitterReports ==
  ASSUME Cluster(node), CheckpointsAgree, NobodyRecovers,
         NEW r \in Validator, NEW nv \in node[r].outNV, NEW m \in nv.vcs,
         NEW id \in node[m.from].outC, id.v < nv.view, m.h < id.n
  PROVE  Reported(m.P, id.n)
<1>1. Agree(Known(node[r], node)) /\ NoneRecovers(node[r], node)
  BY OfAll
<1>2. m \in node[m.from].outVC /\ nv \in NVs
  BY <1>1, SentIsKnown
<1>3. m.from \in Validator /\ m.view = nv.view /\ m.h \in Nat
  BY <1>2 DEF NVs, VCs
<1>4. Told(node[m.from])
  BY <1>3, OfAll, OfCluster DEF OK, Tells
<1>5. id \in IDs
  BY <1>3, OfCluster DEF States
<1>6. id.n \in Nat
  BY <1>5, ConstantAssumption DEF IDs, Pos, Seqs
<1> QED BY <1>2, <1>3, <1>4, <1>6 DEF Told

\* CommittedIsReported holds as long as the reported checkpoints agree and
\* nobody recovers: a recovery response may take a replica back to a view it
\* sent view changes for leaving, and it commits there again.
THEOREM CommittedIsReportedAlways ==
  Spec => [](CheckpointsAgree /\ NobodyRecovers => CommittedIsReported)
<1>1. Cluster(node) => (CheckpointsAgree /\ NobodyRecovers => CommittedIsReported)
  <2> SUFFICES ASSUME Cluster(node), CheckpointsAgree, NobodyRecovers,
                      NEW r \in Validator, NEW nv \in node[r].outNV,
                      NEW id \in UNION {node[p].outC : p \in Validator},
                      id.v < nv.view, CommitQuorum(id), id.n > nv.base
               PROVE  /\ ~NullCondition(nv.vcs, id.n)
                      /\ id.n <= nv.base + L => Selected(nv.vcs, id.n) # {}
    BY DEF CommittedIsReported, Replicas
  <2> DEFINE C == {p \in Validator : id \in node[p].outC}
             Q == {m \in nv.vcs : m.h < id.n /\ \A p \in m.P : p.n # id.n}
  <2>1. /\ OnePerSender(nv.vcs) /\ nv.base \in Nat
        /\ nv.xset \in AssignSequenceNumbers(nv.vcs, nv.base)
    BY SentNewViews
  <2>2. id \in IDs
    BY OfCluster DEF States
  <2>3. ~NullCondition(nv.vcs, id.n)
    <3> SUFFICES ASSUME NullCondition(nv.vcs, id.n) PROVE FALSE
      OBVIOUS
    <3>1. Cardinality(Q) >= CommonCaseQuorum /\ OnePerSender(Q)
      BY <2>1, PartOnePerSender DEF NullCondition
    <3>2. Cardinality(C) >= CommonCaseQuorum /\ C \in SUBSET Validator
      BY DEF CommitQuorum
    <3>3. Cardinality({}) <= F /\ {} \in SUBSET Validator
      BY FS_EmptySet, QuorumSizes
    <3>4. PICK m \in Q : m.from \in C
      <4> HIDE DEF Q, C
      <4> QED BY <3>1, <3>2, <3>3, QuorumsMeet
    <3> QED BY <3>4, CommitterReports DEF Reported
  <2>4. ASSUME id.n <= nv.base + L PROVE Selected(nv.vcs, id.n) # {}
    <3>1. id.n \in (nv.base + 1) .. (nv.base + L)
      BY <2>1, <2>2, <2>4, ConstantAssumption DEF IDs, Seqs
    <3>2. DigestsFor(nv.vcs, id.n) # {}
      BY <2>1, <3>1 DEF AssignSequenceNumbers
    <3> QED BY <2>3, <3>2 DEF DigestsFor
  <2> QED BY <2>3, <2>4
<1> QED BY <1>1, ClusterAlways, PTL
=============================================================================
