------------------------ MODULE StateTransferProofs -------------------------
(***************************************************************************)
(* State transfer for every number of validators, window and height, of    *)
(* which at most F validators are faulty.  A handler maps a sane record of *)
(* the replica to a sane one; the two arguments are that F faulty          *)
(* validators can vouch for nothing, and that the checkpoints a replica    *)
(* keeps are right up to some height and wrong above it.                   *)
(***************************************************************************)
EXTENDS StateTransfer, TLAPS, FiniteSetTheorems, WellFoundedInduction,
        NaturalsInduction

Msg == [a : Validator, n : 1 .. MaxSeq, d : Digests]

Point == [n : Nat, d : Digests]

State ==
  [ H : Nat, lastExec : Nat, sound : BOOLEAN, local : SUBSET Point,
    store : SUBSET Msg, higher : SUBSET Msg, target : Point, syncing : Point,
    skip : BOOLEAN, inVC : BOOLEAN, newView : BOOLEAN, waitFin : BOOLEAN,
    timer : Int, stopped : BOOLEAN ]

\* A wrong checkpoint that is stored came from a faulty validator.
Authentic(t, B) == \A m \in t.store \cup t.higher : m.d = "bad" => m.a \in B

(***************************************************************************)
(* The target is right and never below the one being transferred to, and   *)
(* it has reached every height at which a quorum of checkpoints is stored. *)
(* The last conjunct is why the digest of the message that comes last does *)
(* no harm: with a wrong digest it finds the target already set.           *)
(***************************************************************************)
Targeted(t) ==
  /\ t.target.d = "good" /\ t.syncing.d = "good"
  /\ t.syncing.n <= t.target.n
  /\ t.skip <=> Transferring(t)
  /\ \A n \in 1 .. MaxSeq :
       Cardinality(Of(t.store, [n |-> n, d |-> "good"])) >= CommonCaseQuorum
         => n <= t.target.n

(***************************************************************************)
(* The checkpoints kept are right up to some height, the low watermark     *)
(* among them, and wrong above it; a transfer ends above the right ones,   *)
(* and below lastExec only if the ledger is wrong.                         *)
(***************************************************************************)
Kept(t) ==
  /\ [n |-> t.H, d |-> "good"] \in t.local
  /\ \A c \in t.local : c.d = "good" => c.n <= t.lastExec
  /\ \A x, y \in t.local : x.d = "good" /\ y.d = "bad" => x.n < y.n
  /\ ~Transferring(t) /\ t.sound =>
       \A c \in t.local : c.n <= t.lastExec => c.d = "good"
  /\ Transferring(t) =>
       /\ t.syncing.n >= t.lastExec \/ ~t.sound
       /\ \A c \in t.local : c.d = "good" => c.n <= t.syncing.n

Sane(t, B) ==
  /\ t \in State /\ ~t.stopped
  /\ Authentic(t, B) /\ Targeted(t) /\ Kept(t)

FewFaulty(B) == B \in SUBSET Validator /\ Cardinality(B) <= F

\* The inductive invariant.
IInv == FewFaulty(faulty) /\ Sane(s, faulty)

-----------------------------------------------------------------------------
(* Counting *)

\* The quorum sizes that updateDerivedData yields are ordered.
LEMMA QuorumSizes ==
  /\ F \in Nat /\ OneCorrectQuorum = F + 1
  /\ CommonCaseQuorum \in Nat /\ CommonCaseQuorum >= OneCorrectQuorum
<1>1. N \in Nat /\ N >= 4
  BY ValidatorAssumption, FS_CardinalityType DEF N
<1> QED BY <1>1 DEF F, CommonCaseQuorum, OneCorrectQuorum

\* There are at most as many checkpoints of one height and digest as authors.
LEMMA Votes ==
  ASSUME NEW S \in SUBSET Msg, NEW c, NEW A \in SUBSET Validator,
         \A m \in Of(S, c) : m.a \in A
  PROVE  /\ IsFiniteSet(Of(S, c))
         /\ Cardinality(Of(S, c)) \in Nat
         /\ Cardinality(Of(S, c)) <= Cardinality(A)
<1> DEFINE Author == [m \in Of(S, c) |-> m.a]
<1>1. IsFiniteSet(A)
  BY ValidatorAssumption, FS_Subset
<1>2. Author \in Injection(Of(S, c), A)
  BY DEF Of, Msg, Injection, IsInjective
<1> HIDE DEF Author
<1> QED BY <1>1, <1>2, FS_Injection, FS_CardinalityType

\* F+1 checkpoints of one digest are not all from faulty validators.
LEMMA EnoughIsGood ==
  ASSUME NEW B, FewFaulty(B), NEW S \in SUBSET Msg, NEW c, c.d \in Digests,
         \A m \in S : m.d = "bad" => m.a \in B,
         Cardinality(Of(S, c)) >= OneCorrectQuorum
  PROVE  c.d = "good"
<1> SUFFICES ASSUME c.d = "bad" PROVE FALSE
  BY DEF Digests
<1>1. \A m \in Of(S, c) : m.a \in B
  BY DEF Of
<1>2. Cardinality(Of(S, c)) \in Nat /\ Cardinality(Of(S, c)) <= Cardinality(B)
  BY <1>1, Votes DEF FewFaulty
<1>3. Cardinality(B) \in Nat
  BY ValidatorAssumption, FS_Subset, FS_CardinalityType DEF FewFaulty
<1> QED BY <1>2, <1>3, QuorumSizes DEF FewFaulty

\* Fewer messages make no quorum.
LEMMA FewerVotes ==
  ASSUME NEW S \in SUBSET Msg, NEW T \in SUBSET Msg, NEW c,
         Of(T, c) \subseteq Of(S, c),
         Cardinality(Of(T, c)) >= CommonCaseQuorum
  PROVE  Cardinality(Of(S, c)) >= CommonCaseQuorum
<1>1. IsFiniteSet(Of(S, c)) /\ Cardinality(Of(S, c)) \in Nat
  BY Votes DEF Of, Msg
<1>2. Cardinality(Of(T, c)) \in Nat
  BY Votes DEF Of, Msg
<1>3. Cardinality(Of(T, c)) <= Cardinality(Of(S, c))
  BY <1>1, FS_Subset
<1> QED BY <1>1, <1>2, <1>3, QuorumSizes

\* Some weak set is the highest: heights are bounded.
LEMMA HighestExists ==
  ASSUME NEW W \in SUBSET Checkpoint, W # {}
  PROVE  Highest(W) \in W
<1>1. MaxSeq \in Nat
  BY TransferAssumption
<1> DEFINE R == OpToRel(<, Nat)
           Gap(c) == MaxSeq - c.n
           G == {g \in Nat : \E c \in W : g = Gap(c)}
<1>2. IsWellFoundedOn(R, Nat)
  BY NatLessThanWellFounded
<1>3. \A x, y \in Nat : <<x, y>> \in R <=> x < y
  BY DEF OpToRel
<1>4. \A c \in W : c.n \in Nat /\ Gap(c) \in Nat
  BY <1>1 DEF Checkpoint
<1>5. G # {} /\ G \subseteq Nat
  BY <1>4
<1> HIDE DEF R
<1>6. PICK g \in G : \A h \in G : ~(<<h, g>> \in R)
  <2> HIDE DEF G
  <2> QED BY <1>2, <1>5, WFMin
<1>7. PICK c \in W : g = Gap(c)
  OBVIOUS
<1>8. \A k \in W : k.n <= c.n
  <2> SUFFICES ASSUME NEW k \in W PROVE k.n <= c.n
    OBVIOUS
  <2>1. Gap(k) \in G
    BY <1>4
  <2>2. ~(Gap(k) < g)
    BY <2>1, <1>3, <1>4, <1>6
  <2> QED BY <2>2, <1>1, <1>4, <1>7
<1> QED BY <1>8 DEF Highest
-----------------------------------------------------------------------------
(* Handlers *)

\* The fields the invariant is about; timers and view-change flags are not.
SameCore(t, u) ==
  /\ u.H = t.H /\ u.lastExec = t.lastExec /\ u.sound = t.sound
  /\ u.local = t.local /\ u.store = t.store /\ u.higher = t.higher
  /\ u.target = t.target /\ u.syncing = t.syncing /\ u.skip = t.skip
  /\ u.stopped = t.stopped

\* The invariant depends on the fields of SameCore only.
LEMMA SameCoreSane ==
  ASSUME NEW t, NEW u \in State, NEW B, Sane(t, B), SameCore(t, u)
  PROVE  Sane(u, B)
BY DEF Sane, SameCore, Authentic, Targeted, Kept, Transferring

\* sendViewChange and the high-watermark timer leave the core alone.
LEMMA SendViewChangeSane ==
  ASSUME NEW t, NEW B, Sane(t, B), NEW recovery \in BOOLEAN
  PROVE  /\ Sane(SendViewChange(t, recovery), B)
         /\ SameCore(t, SendViewChange(t, recovery))
<1>1. t \in State
  BY DEF Sane
<1> DEFINE off == -1
           v == [t EXCEPT !.inVC = TRUE, !.newView = FALSE, !.timer = off]
<1>2. SendViewChange(t, recovery) \in State
  <2>1. SendViewChange(t, recovery) \in {t, v} /\ off \in Int
    BY DEF SendViewChange
  <2> HIDE DEF off
  <2>2. v \in State
    BY <1>1, <2>1 DEF State
  <2> QED BY <1>1, <2>1, <2>2
<1>3. SameCore(t, SendViewChange(t, recovery))
  BY <1>1 DEF SendViewChange, State, SameCore
<1> QED BY <1>2, <1>3, SameCoreSane

\* softStartTimer leaves the core alone.
LEMMA SoftStartTimerSane ==
  ASSUME NEW t, NEW B, Sane(t, B)
  PROVE  Sane(SoftStartTimer(t), B) /\ SameCore(t, SoftStartTimer(t))
<1>1. t \in State
  BY DEF Sane
<1>2. SoftStartTimer(t) \in State
  BY <1>1 DEF SoftStartTimer, State
<1>3. SameCore(t, SoftStartTimer(t))
  BY <1>1 DEF SoftStartTimer, State, SameCore
<1> QED BY <1>2, <1>3, SameCoreSane

\* A right target keeps the invariant, and the target is then as high.
LEMMA UpdateHighStateTargetSane ==
  ASSUME NEW t, NEW B, Sane(t, B), NEW c \in Checkpoint, c.d = "good"
  PROVE  LET u == UpdateHighStateTarget(t, c) IN
         /\ Sane(u, B) /\ u.target.n >= c.n /\ u.target # None
         /\ u.local = t.local /\ u.lastExec = t.lastExec /\ u.sound = t.sound
         /\ u.store = t.store /\ u.syncing = t.syncing /\ u.H = t.H
<1> DEFINE u == UpdateHighStateTarget(t, c)
<1>1. t \in State /\ c.n \in Nat /\ c.n >= 1 /\ c \in Point
  BY TransferAssumption DEF Sane, Checkpoint, Point
<1>2. u \in State
  BY <1>1 DEF UpdateHighStateTarget, State
<1>3. /\ u.local = t.local /\ u.lastExec = t.lastExec /\ u.sound = t.sound
      /\ u.store = t.store /\ u.syncing = t.syncing /\ u.H = t.H
      /\ u.higher = t.higher /\ u.skip = t.skip /\ u.stopped = t.stopped
  BY <1>1 DEF UpdateHighStateTarget, State
<1>4. /\ u.target \in {t.target, c} /\ u.target.n >= c.n
      /\ u.target.n >= t.target.n
  BY <1>1 DEF UpdateHighStateTarget, State, Point, None, Sane, Targeted
<1>5. u.target # None
  BY <1>1, <1>4 DEF None
<1> HIDE DEF u
<1>6. Authentic(u, B) /\ Kept(u)
  BY <1>3 DEF Sane, Authentic, Kept, Transferring
<1>7. u.target.n \in Nat /\ t.target.n \in Nat /\ u.syncing.n \in Nat
  BY <1>1, <1>2 DEF State, Point
<1>8. Targeted(u)
  BY <1>1, <1>3, <1>4, <1>7, TransferAssumption DEF Sane, Targeted, Transferring
<1> QED BY <1>2, <1>3, <1>4, <1>5, <1>6, <1>8 DEF Sane, u

(***************************************************************************)
(* tryStateTransfer keeps the invariant when there is a target above the   *)
(* right checkpoints, and not below lastExec unless the ledger is wrong.   *)
(***************************************************************************)
LEMMA TryStateTransferSane ==
  ASSUME NEW t, NEW B, Sane(t, B), t.target # None,
         ~Transferring(t) =>
           /\ t.target.n >= t.lastExec \/ ~t.sound
           /\ \A c \in t.local : c.d = "good" => c.n <= t.target.n
  PROVE  Sane(TryStateTransfer(t), B)
<1> DEFINE u == TryStateTransfer(t)
<1>1. t \in State
  BY DEF Sane
<1> DEFINE off == -1
           v == [t EXCEPT !.skip = TRUE, !.syncing = t.target, !.timer = off]
<1>2. u \in State
  <2>1. u \in {[t EXCEPT !.skip = TRUE], v} /\ off \in Int
    BY DEF TryStateTransfer
  <2> HIDE DEF off, u
  <2>2. v \in State /\ [t EXCEPT !.skip = TRUE] \in State
    BY <1>1, <2>1 DEF State
  <2> QED BY <2>1, <2>2
<1>3. /\ u.H = t.H /\ u.lastExec = t.lastExec /\ u.sound = t.sound
      /\ u.local = t.local /\ u.store = t.store /\ u.higher = t.higher
      /\ u.target = t.target /\ u.skip = TRUE /\ u.stopped = t.stopped
  BY <1>1 DEF TryStateTransfer, State
<1>4. u.syncing = IF Transferring(t) THEN t.syncing ELSE t.target
  BY <1>1 DEF TryStateTransfer, State
<1> HIDE DEF u
<1>5. Transferring(u)
  BY <1>4 DEF Transferring
<1>6. Authentic(u, B)
  BY <1>3 DEF Sane, Authentic
<1>7. Targeted(u)
  <2>1. u.syncing.n <= u.target.n
    BY <1>1, <1>3, <1>4 DEF Sane, Targeted, State, Point
  <2> QED BY <1>3, <1>4, <1>5, <2>1 DEF Sane, Targeted
<1>8. Kept(u)
  BY <1>3, <1>4, <1>5 DEF Sane, Kept
<1> QED BY <1>2, <1>3, <1>6, <1>7, <1>8 DEF Sane, u

\* What moveWatermarks leaves.
LEMMA MoveWatermarksFields ==
  ASSUME NEW t \in State, NEW n \in Nat
  PROVE  LET u == MoveWatermarks(t, n) IN
         /\ u \in State
         /\ u.lastExec = t.lastExec /\ u.sound = t.sound /\ u.higher = t.higher
         /\ u.target = t.target /\ u.syncing = t.syncing /\ u.skip = t.skip
         /\ u.stopped = t.stopped /\ u.inVC = t.inVC /\ u.newView = t.newView
         /\ t.H > n => u = t
         /\ t.H <= n => /\ u.H = n
                        /\ u.store = {m \in t.store : m.n > n}
                        /\ u.local = {c \in t.local : c.n >= n}
<1> DEFINE st == {m \in t.store : m.n > n}
           lo == {c \in t.local : c.n >= n}
           v == [t EXCEPT !.H = n, !.store = st, !.local = lo]
           u == MoveWatermarks(t, n)
<1>1. u = IF t.H > n THEN t ELSE v
  BY DEF MoveWatermarks
<1>2. st \in SUBSET Msg /\ lo \in SUBSET Point
  BY DEF State
<1>3. t.H <= n <=> ~(t.H > n)
  BY DEF State
<1> HIDE DEF st, lo
<1>4. v \in State
  BY <1>2 DEF State
<1>5. /\ v.lastExec = t.lastExec /\ v.sound = t.sound /\ v.higher = t.higher
      /\ v.target = t.target /\ v.syncing = t.syncing /\ v.skip = t.skip
      /\ v.stopped = t.stopped /\ v.inVC = t.inVC /\ v.newView = t.newView
      /\ v.H = n /\ v.store = st /\ v.local = lo
  BY DEF State
<1> HIDE DEF v, u
<1> QED BY <1>1, <1>3, <1>4, <1>5 DEF st, lo, u

\* Other checkpoints are stored: authentic ones, and no quorum of them above
\* the target that was not there before.
LEMMA StoreSane ==
  ASSUME NEW t, NEW B, Sane(t, B), NEW S \in SUBSET Msg, NEW u \in State,
         \A m \in S : m \in t.store \/ (m.d = "bad" => m.a \in B),
         \A n \in 1 .. MaxSeq :
           LET c == [n |-> n, d |-> "good"] IN
           Cardinality(Of(S, c)) >= CommonCaseQuorum =>
             n <= t.target.n \/ Of(S, c) \subseteq Of(t.store, c),
         SameCore([t EXCEPT !.store = S], u)
  PROVE  Sane(u, B)
<1>1. t \in State
  BY DEF Sane
<1>2. /\ u.H = t.H /\ u.lastExec = t.lastExec /\ u.sound = t.sound
      /\ u.local = t.local /\ u.store = S /\ u.higher = t.higher
      /\ u.target = t.target /\ u.syncing = t.syncing /\ u.skip = t.skip
      /\ u.stopped = t.stopped
  BY <1>1 DEF SameCore, State
<1>3. Authentic(u, B)
  BY <1>2 DEF Sane, Authentic
<1>4. Kept(u)
  BY <1>2 DEF Sane, Kept, Transferring
<1>5. ASSUME NEW n \in 1 .. MaxSeq,
             Cardinality(Of(u.store, [n |-> n, d |-> "good"])) >= CommonCaseQuorum
      PROVE  n <= u.target.n
  <2> DEFINE c == [n |-> n, d |-> "good"]
  <2>1. t.store \in SUBSET Msg
    BY <1>1 DEF State
  <2>2. n <= t.target.n \/ Cardinality(Of(t.store, c)) >= CommonCaseQuorum
    BY <1>2, <1>5, <2>1, FewerVotes
  <2> QED BY <1>2, <2>2 DEF Sane, Targeted
<1>6. Targeted(u)
  BY <1>2, <1>5 DEF Sane, Targeted, Transferring
<1> QED BY <1>2, <1>3, <1>4, <1>6 DEF Sane

\* moveWatermarks keeps the invariant at a right checkpoint of its own.
LEMMA MoveWatermarksSane ==
  ASSUME NEW t, NEW B, Sane(t, B), NEW n \in Nat, [n |-> n, d |-> "good"] \in t.local
  PROVE  Sane(MoveWatermarks(t, n), B)
<1> DEFINE u == MoveWatermarks(t, n)
<1>1. t \in State
  BY DEF Sane
<1>2. CASE t.H > n
  BY <1>1, <1>2, MoveWatermarksFields
<1>3. CASE ~(t.H > n)
  <2>1. t.H <= n
    BY <1>1, <1>3 DEF State
  <2>2. /\ u \in State
        /\ u.lastExec = t.lastExec /\ u.sound = t.sound /\ u.higher = t.higher
        /\ u.target = t.target /\ u.syncing = t.syncing /\ u.skip = t.skip
        /\ u.stopped = t.stopped /\ u.H = n
        /\ u.store = {m \in t.store : m.n > n}
        /\ u.local = {c \in t.local : c.n >= n}
    BY <1>1, <2>1, MoveWatermarksFields
  <2> HIDE DEF u
  <2>3. Authentic(u, B)
    BY <2>2 DEF Sane, Authentic
  <2>4. Kept(u)
    BY <2>2 DEF Sane, Kept, Transferring
  <2>5. Targeted(u)
    <3>1. t.store \in SUBSET Msg /\ u.store \in SUBSET Msg
      BY <1>1, <2>2 DEF State
    <3>2. \A c : Of(u.store, c) \subseteq Of(t.store, c)
      BY <2>2 DEF Of
    <3>3. \A k \in 1 .. MaxSeq :
            Cardinality(Of(u.store, [n |-> k, d |-> "good"])) >= CommonCaseQuorum
              => Cardinality(Of(t.store, [n |-> k, d |-> "good"])) >= CommonCaseQuorum
      BY <3>1, <3>2, FewerVotes
    <3> QED BY <2>2, <3>3 DEF Sane, Targeted, Transferring
  <2> QED BY <2>2, <2>3, <2>4, <2>5 DEF Sane, u
<1> QED BY <1>2, <1>3

(***************************************************************************)
(* A checkpoint of its own that differs from what F+1 vouch for makes a    *)
(* transfer: its ledger is wrong, or the checkpoint is one left over above *)
(* lastExec, and the right ones lie below it.                              *)
(***************************************************************************)
LEMMA MismatchTransfers ==
  ASSUME NEW t, NEW B, Sane(t, B), NEW c \in Checkpoint, c.d = "good",
         Mismatch(t, c.n, c.d), t.target # None, t.target.n >= c.n
  PROVE  Sane(TryStateTransfer(t), B)
<1>1. t \in State /\ c.n \in Nat /\ t.target.n \in Nat
  BY DEF Sane, State, Point, Checkpoint
<1>2. PICK k \in t.local : k.n = c.n /\ k.d = "bad"
  BY <1>1 DEF Mismatch, State, Point, Digests
<1>3. \A x \in t.local : x.d = "good" => x.n <= t.target.n
  BY <1>1, <1>2 DEF Sane, Kept, State, Point
<1>4. ~Transferring(t) => t.target.n >= t.lastExec \/ ~t.sound
  BY <1>1, <1>2 DEF Sane, Kept, State, Point
<1> QED BY <1>3, <1>4, TryStateTransferSane

\* A checkpoint that may arrive: a wrong one comes from a faulty validator.
Sent(m, B) == m \in Msg /\ (m.d = "bad" => m.a \in B)

Received(t, m) == {k \in t.store : k.a # m.a \/ k.n # m.n} \cup {m}

(***************************************************************************)
(* Storing a checkpoint keeps the invariant if the target has reached its  *)
(* height, or no quorum of right checkpoints is stored there.              *)
(***************************************************************************)
LEMMA ReceivedSane ==
  ASSUME NEW t, NEW B, Sane(t, B), NEW m, Sent(m, B),
         NEW w, Sane(w, B), w.store = t.store, NEW u \in State,
         SameCore([w EXCEPT !.store = Received(t, m)], u),
         \/ m.n <= w.target.n
         \/ ~(Cardinality(Of(Received(t, m), [n |-> m.n, d |-> "good"])) >= CommonCaseQuorum)
         \/ m.d = "bad"
  PROVE  Sane(u, B)
<1> DEFINE S == Received(t, m)
<1>1. t \in State /\ m \in Msg
  BY DEF Sane, Sent
<1>2. S \in SUBSET Msg
  BY <1>1 DEF State, Received
<1>3. \A k \in S : k \in w.store \/ (k.d = "bad" => k.a \in B)
  BY DEF Received, Sent
<1>4. ASSUME NEW n \in 1 .. MaxSeq, n # m.n \/ m.d = "bad"
      PROVE  Of(S, [n |-> n, d |-> "good"]) \subseteq Of(w.store, [n |-> n, d |-> "good"])
  BY <1>4 DEF Of, Received
<1> HIDE DEF S
<1>5. \A n \in 1 .. MaxSeq :
        LET c == [n |-> n, d |-> "good"] IN
        Cardinality(Of(S, c)) >= CommonCaseQuorum =>
          n <= w.target.n \/ Of(S, c) \subseteq Of(w.store, c)
  BY <1>4 DEF S
<1> QED BY <1>2, <1>3, <1>5, StoreSane DEF S

\* compareCheckpointWithWeakSet and what recvCheckpoint does after it.
LEMMA CompareCheckpointSane ==
  ASSUME NEW t, NEW B, FewFaulty(B), Sane(t, B), NEW m, Sent(m, B)
  PROVE  Sane(CompareCheckpoint(t, m), B)
<1> DEFINE S == Received(t, m)
           u == [t EXCEPT !.store = S]
           V == Vouched(u, m)
           c == [n |-> m.n, d |-> "good"]
           Quorum == Cardinality(Of(S, c)) >= CommonCaseQuorum
<1>1. t \in State /\ m \in Msg /\ m.n \in Nat /\ c \in Checkpoint
  BY DEF Sane, Sent, Msg, Checkpoint, Digests
<1>2. S \in SUBSET Msg /\ \A k \in S : k.d = "bad" => k.a \in B
  BY <1>1 DEF State, Received, Sane, Authentic, Sent
<1>3. /\ u \in State /\ u.store = S /\ u.H = t.H /\ u.lastExec = t.lastExec
      /\ u.sound = t.sound /\ u.local = t.local /\ u.higher = t.higher
      /\ u.target = t.target /\ u.syncing = t.syncing /\ u.skip = t.skip
      /\ u.stopped = t.stopped
  <2> HIDE DEF S
  <2> QED BY <1>1, <1>2 DEF State
<1>4. V \subseteq {"good"}
  BY <1>2, <1>3, EnoughIsGood DEF Vouched
<1>5. Cardinality(Of(S, c)) \in Nat
  BY <1>2, Votes DEF Of, Msg
<1>6. V = {} => ~Quorum
  BY <1>3, <1>5, QuorumSizes DEF Vouched, Digests
<1>7. SameCore(u, u) /\ SameCore([t EXCEPT !.store = S], u)
  BY DEF SameCore
<1>8. CASE m.n <= t.H
  BY <1>8 DEF CompareCheckpoint
<1>9. CASE ~(m.n <= t.H) /\ V = {}
  <2>1. CompareCheckpoint(t, m) = u
    BY <1>9 DEF CompareCheckpoint, Received
  <2> HIDE DEF u
  <2> QED BY <1>3, <1>6, <1>7, <1>9, <2>1, ReceivedSane
<1>10. CASE ~(m.n <= t.H) /\ V # {}
  <2>1. V = {"good"} /\ ~(Cardinality(V) > 1) /\ (CHOOSE d \in V : TRUE) = "good"
    BY <1>4, <1>10, FS_Singleton
  <2>2. CompareCheckpoint(t, m) =
          IF Mismatch(u, m.n, "good") THEN TryStateTransfer(UpdateHighStateTarget(u, c))
          ELSE IF Cardinality(Of(u.store, c)) < CommonCaseQuorum THEN u
          ELSE QuorumCheckpoint(u, m)
    BY <1>10, <2>1, Zenon DEF CompareCheckpoint, Received
  <2> HIDE DEF V
  <2>3. CASE Mismatch(u, m.n, "good")
    <3> DEFINE w == UpdateHighStateTarget(t, c)
               v == UpdateHighStateTarget(u, c)
    <3>1. Sane(w, B) /\ w.target.n >= m.n /\ w.target # None /\ w.local = t.local
          /\ w.store = t.store
      BY <1>1, UpdateHighStateTargetSane
    <3>2. v \in State /\ SameCore([w EXCEPT !.store = S], v)
      <4> HIDE DEF S
      <4>1. c \in Point
        BY <1>1 DEF Point, Digests
      <4> QED BY <1>1, <1>2, <1>3, <4>1 DEF UpdateHighStateTarget, State, SameCore
    <3>3. v.target = w.target /\ v.local = u.local
      BY <1>1, <1>3, <3>1, <3>2 DEF SameCore, Sane, State
    <3>4. m.n <= w.target.n
      BY <1>1, <3>1 DEF Sane, State, Point
    <3> HIDE DEF w, u
    <3>5. Sane(v, B)
      BY <3>1, <3>2, <3>4, ReceivedSane
    <3>6. Mismatch(v, c.n, c.d)
      BY <2>3, <3>3 DEF Mismatch
    <3> HIDE DEF v
    <3>7. Sane(TryStateTransfer(v), B)
      BY <1>1, <3>1, <3>3, <3>5, <3>6, MismatchTransfers
    <3> QED BY <2>2, <2>3, <3>7 DEF v
  <2>4. CASE ~Mismatch(u, m.n, "good") /\ ~Quorum
    <3>1. CompareCheckpoint(t, m) = u
      BY <1>3, <1>5, <2>2, <2>4, QuorumSizes
    <3> HIDE DEF u
    <3> QED BY <1>3, <1>7, <2>4, <3>1, ReceivedSane
  <2>5. CASE ~Mismatch(u, m.n, "good") /\ Quorum
    <3>1. CompareCheckpoint(t, m) = QuorumCheckpoint(u, m)
      BY <1>3, <1>5, <2>2, <2>5, QuorumSizes
    <3>2. CASE \A k \in u.local : k.n # m.n
      <4> DEFINE p == [n |-> m.n, d |-> m.d]
                 v == UpdateHighStateTarget(u, p)
      <4>1. CompareCheckpoint(t, m) = v
        BY <3>1, <3>2 DEF QuorumCheckpoint
      <4>2. p \in Checkpoint /\ p \in Point /\ m.d \in Digests
        BY <1>1 DEF Msg, Checkpoint, Point
      <4>3. CASE m.d = "good"
        <5> DEFINE w == UpdateHighStateTarget(t, p)
        <5>1. Sane(w, B) /\ w.target.n >= m.n /\ w.store = t.store
          BY <4>2, <4>3, UpdateHighStateTargetSane
        <5>2. v \in State /\ SameCore([w EXCEPT !.store = S], v)
          <6> HIDE DEF S
          <6> QED BY <1>1, <1>2, <1>3, <4>2 DEF UpdateHighStateTarget, State, SameCore
        <5>3. m.n <= w.target.n
          BY <1>1, <5>1 DEF Sane, State, Point
        <5> HIDE DEF w, v, u
        <5> QED BY <4>1, <5>1, <5>2, <5>3, ReceivedSane
      <4>4. CASE m.d = "bad"
        <5>1. Sane(u, B)
          <6> HIDE DEF u
          <6> QED BY <1>3, <1>7, <4>4, ReceivedSane
        <5>2. m.n <= u.target.n /\ m.n >= 1
          <6> HIDE DEF u
          <6> QED BY <1>1, <1>3, <2>5, <5>1, TransferAssumption DEF Sane, Targeted, Msg
        <5>3. v = u
          BY <1>1, <1>3, <5>2 DEF UpdateHighStateTarget, None, State, Point
        <5> QED BY <4>1, <5>1, <5>3
      <4> QED BY <4>2, <4>3, <4>4 DEF Digests
    <3>3. CASE ~(\A k \in u.local : k.n # m.n)
      <4> DEFINE off == -1
                 x == [u EXCEPT !.waitFin = FALSE, !.timer = off]
                 w == MoveWatermarks(t, m.n)
                 v == MoveWatermarks(x, m.n)
      <4>1. CompareCheckpoint(t, m) = v
        BY <3>1, <3>3 DEF QuorumCheckpoint
      <4>2. off \in Int
        OBVIOUS
      <4> HIDE DEF off
      <4>3. x \in State /\ SameCore(u, x)
        <5> HIDE DEF u
        <5> QED BY <1>3, <4>2 DEF State, SameCore
      <4>4. [n |-> m.n, d |-> "good"] \in t.local
        BY <1>1, <1>3, <2>5, <3>3 DEF Mismatch, State, Point
      <4>5. Sane(w, B)
        BY <1>1, <4>4, MoveWatermarksSane
      <4>6. t.H <= m.n /\ x.H <= m.n
        BY <1>1, <1>3, <1>10, <4>3 DEF SameCore, State
      <4>7. {k \in S : k.n > m.n} = {k \in t.store : k.n > m.n}
        BY <1>1 DEF Received, State, Msg
      <4> HIDE DEF u, x, S
      <4>8. v \in State /\ SameCore(w, v)
        <5>1. /\ x.lastExec = t.lastExec /\ x.sound = t.sound /\ x.higher = t.higher
              /\ x.target = t.target /\ x.syncing = t.syncing /\ x.skip = t.skip
              /\ x.stopped = t.stopped /\ x.local = t.local /\ x.store = S
          BY <1>3, <4>3 DEF SameCore
        <5>2. /\ w.H = m.n /\ w.local = {k \in t.local : k.n >= m.n}
              /\ w.store = {k \in t.store : k.n > m.n}
          BY <1>1, <4>6, MoveWatermarksFields
        <5>3. /\ v.H = m.n /\ v.local = {k \in x.local : k.n >= m.n}
              /\ v.store = {k \in x.store : k.n > m.n}
          BY <1>1, <4>3, <4>6, MoveWatermarksFields
        <5>4. v.H = w.H /\ v.local = w.local /\ v.store = w.store
          BY <4>7, <5>1, <5>2, <5>3
        <5>5. /\ w.lastExec = t.lastExec /\ w.sound = t.sound /\ w.higher = t.higher
              /\ w.target = t.target /\ w.syncing = t.syncing /\ w.skip = t.skip
              /\ w.stopped = t.stopped
          BY <1>1, MoveWatermarksFields
        <5>6. /\ v \in State
              /\ v.lastExec = x.lastExec /\ v.sound = x.sound /\ v.higher = x.higher
              /\ v.target = x.target /\ v.syncing = x.syncing /\ v.skip = x.skip
              /\ v.stopped = x.stopped
          BY <1>1, <4>3, MoveWatermarksFields
        <5> HIDE DEF v, w
        <5> QED BY <5>1, <5>4, <5>5, <5>6 DEF SameCore
      <4> HIDE DEF v, w
      <4> QED BY <4>1, <4>5, <4>8, SameCoreSane
    <3> QED BY <3>2, <3>3
  <2> QED BY <2>3, <2>4, <2>5
<1> QED BY <1>8, <1>9, <1>10

\* weakCheckpointSetOutOfRange stores the checkpoint above the high watermark.
LEMMA TrackHigherSane ==
  ASSUME NEW t, NEW B, Sane(t, B), NEW m, Sent(m, B)
  PROVE  Sane(TrackHigher(t, m), B)
<1> DEFINE others == {k \in t.higher : k.a # m.a}
           all == others \cup {m}
           above == {k \in all : k.n > HighMark(t)}
<1>1. t \in State /\ m \in Msg
  BY DEF Sane, Sent
<1>2. \A X \in {others, all, above} : X \in SUBSET Msg /\ X \subseteq t.higher \cup {m}
  BY <1>1 DEF State
<1>3. PICK X \in {others, all, above} : TrackHigher(t, m) = [t EXCEPT !.higher = X]
  BY DEF TrackHigher
<1> HIDE DEF others, all, above
<1>4. X \in SUBSET Msg /\ X \subseteq t.higher \cup {m}
  BY <1>2
<1> DEFINE u == [t EXCEPT !.higher = X]
<1>5. /\ u \in State /\ u.H = t.H /\ u.lastExec = t.lastExec
      /\ u.sound = t.sound /\ u.local = t.local /\ u.higher = X
      /\ u.target = t.target /\ u.syncing = t.syncing /\ u.skip = t.skip
      /\ u.stopped = t.stopped /\ u.store = t.store
  BY <1>1, <1>4 DEF State
<1> HIDE DEF u
<1>6. Authentic(u, B)
  BY <1>4, <1>5 DEF Sane, Sent, Authentic
<1>7. Targeted(u) /\ Kept(u)
  BY <1>5 DEF Sane, Targeted, Kept, Transferring
<1> QED BY <1>3, <1>5, <1>6, <1>7 DEF Sane, u

\* A weak set of higher checkpoints is right: it has more than F members.
LEMMA WeakSetsAreGood ==
  ASSUME NEW t, NEW B, FewFaulty(B), Sane(t, B), NEW m
  PROVE  WeakSets(t, m) \in SUBSET {c \in Checkpoint : c.d = "good"}
<1> SUFFICES ASSUME NEW c \in WeakSets(t, m) PROVE c \in Checkpoint /\ c.d = "good"
  OBVIOUS
<1>1. /\ t.higher \in SUBSET Msg /\ \A k \in t.higher : k.d = "bad" => k.a \in B
  BY DEF Sane, State, Authentic
<1>2. c \in Reported(t.higher) /\ Cardinality(Of(t.higher, c)) > OneCorrectQuorum
  BY DEF WeakSets
<1>3. PICK k \in t.higher : c = [n |-> k.n, d |-> k.d]
  BY <1>2 DEF Reported
<1>4. c \in Checkpoint /\ c.d \in Digests
  BY <1>1, <1>3 DEF Msg, Checkpoint
<1>5. Cardinality(Of(t.higher, c)) \in Nat
  BY <1>1, Votes DEF Of, Msg
<1>6. Cardinality(Of(t.higher, c)) >= OneCorrectQuorum
  BY <1>2, <1>5, QuorumSizes
<1> QED BY <1>1, <1>4, <1>6, EnoughIsGood

\* recvCheckpoint keeps the invariant.
LEMMA RecvCheckpointSane ==
  ASSUME NEW t, NEW B, FewFaulty(B), Sane(t, B), NEW m, Sent(m, B)
  PROVE  Sane(RecvCheckpoint(t, m), B)
<1> DEFINE u == TrackHigher(t, m)
           weak == WeakSets(u, m)
           c == Highest(weak)
           found == UpdateHighStateTarget(u, c)
<1>1. Sane(u, B)
  BY TrackHigherSane
<1> HIDE DEF u
<1>2. CASE weak = {}
  BY <1>1, <1>2, CompareCheckpointSane DEF RecvCheckpoint, u
<1>3. CASE weak # {} /\ u.lastExec >= c.n
  <2>1. Sane(SoftStartTimer(u), B)
    BY <1>1, SoftStartTimerSane
  <2> QED BY <1>3, <2>1, CompareCheckpointSane DEF RecvCheckpoint, u
<1>4. CASE weak # {} /\ ~(u.lastExec >= c.n)
  <2>1. c \in weak /\ c \in Checkpoint /\ c.d = "good"
    <3>1. weak \in SUBSET Checkpoint /\ \A k \in weak : k.d = "good"
      BY <1>1, WeakSetsAreGood
    <3> HIDE DEF weak
    <3> QED BY <1>4, <3>1, HighestExists
  <2> HIDE DEF weak, c
  <2>2. /\ Sane(found, B) /\ found.target.n >= c.n /\ found.target # None
        /\ found.local = u.local /\ found.lastExec = u.lastExec
        /\ found.syncing = u.syncing
    BY <1>1, <2>1, UpdateHighStateTargetSane
  <2>3. CASE Transferring(u)
    <3>1. RecvCheckpoint(t, m) = found
      BY <1>4, <2>3 DEF RecvCheckpoint, u, c, weak
    <3> QED BY <2>2, <3>1
  <2>4. CASE ~Transferring(u)
    <3> DEFINE w == [found EXCEPT !.waitFin = FALSE]
               v == SendViewChange(w, TRUE)
    <3>1. RecvCheckpoint(t, m) = TryStateTransfer(v)
      BY <1>4, <2>4 DEF RecvCheckpoint, u, c, weak
    <3> HIDE DEF found
    <3>2. w \in State /\ SameCore(found, w)
      BY <2>2 DEF Sane, State, SameCore
    <3> HIDE DEF w
    <3>3. Sane(w, B)
      BY <2>2, <3>2, SameCoreSane
    <3>4. Sane(v, B) /\ SameCore(w, v)
      BY <3>3, SendViewChangeSane
    <3> HIDE DEF v
    <3>5. v.target = found.target /\ v.local = found.local /\ v.lastExec = found.lastExec
      BY <3>2, <3>4 DEF SameCore
    <3>6. c.n \in Nat /\ v.lastExec \in Nat /\ v.target.n \in Nat
      BY <2>1, <3>4 DEF Checkpoint, Sane, State, Point
    <3>7. v.target.n > v.lastExec
      BY <1>4, <2>2, <3>5, <3>6
    <3>8. \A k \in v.local : k.n \in Nat /\ (k.d = "good" => k.n <= v.lastExec)
      BY <3>4 DEF Sane, Kept, State, Point
    <3> QED BY <2>2, <3>1, <3>4, <3>5, <3>6, <3>7, <3>8, TryStateTransferSane
  <2> QED BY <2>3, <2>4
<1> QED BY <1>2, <1>3, <1>4

(***************************************************************************)
(* A block executed: the record before recvCheckpoint of its checkpoint.   *)
(* The height is above the right checkpoints, and a wrong one left over at *)
(* it is replaced.                                                         *)
(***************************************************************************)
LEMMA ExecutedSane ==
  ASSUME NEW t, NEW B, Sane(t, B), ~t.skip, NEW d \in Digests, ~t.sound => d = "bad"
  PROVE  LET n == t.lastExec + 1
             x == [t EXCEPT !.lastExec = n, !.sound = d = "good", !.waitFin = TRUE]
         IN Sane(SaveCheckpoint(x, [n |-> n, d |-> d]), B)
<1> DEFINE n == t.lastExec + 1
           good == d = "good"
           x == [t EXCEPT !.lastExec = n, !.sound = good, !.waitFin = TRUE]
           lo == {k \in t.local : k.n # n} \cup {[n |-> n, d |-> d]}
           u == SaveCheckpoint(x, [n |-> n, d |-> d])
<1>1. t \in State /\ n \in Nat /\ good \in BOOLEAN
  BY DEF Sane, State
<1>2. lo \in SUBSET Point
  BY <1>1 DEF State, Point
<1>3. x \in State /\ x.local = t.local
  <2> HIDE DEF good, n
  <2> QED BY <1>1 DEF State
<1>4. u = [x EXCEPT !.local = lo]
  BY <1>3 DEF SaveCheckpoint
<1>5. /\ u \in State /\ u.H = t.H /\ u.lastExec = n
      /\ u.sound = good /\ u.local = lo /\ u.higher = t.higher
      /\ u.target = t.target /\ u.syncing = t.syncing /\ u.skip = t.skip
      /\ u.stopped = t.stopped /\ u.store = t.store
  <2> HIDE DEF good, n, lo, u
  <2> QED BY <1>1, <1>2, <1>4 DEF State
<1> HIDE DEF u, x
<1>6. Authentic(u, B) /\ Targeted(u)
  BY <1>5 DEF Sane, Authentic, Targeted, Transferring
<1>7. ~Transferring(t) /\ ~Transferring(u)
  BY <1>5 DEF Sane, Targeted, Transferring
<1>8. \A k \in t.local : k.n \in Nat /\ (k.d = "good" => k.n <= t.lastExec)
  BY <1>1 DEF Sane, Kept, State, Point
<1>9. [n |-> u.H, d |-> "good"] \in u.local
  <2>1. [n |-> t.H, d |-> "good"] \in t.local
    BY DEF Sane, Kept
  <2>2. t.H <= t.lastExec /\ t.H \in Nat /\ t.lastExec \in Nat
    BY <1>1, <1>8, <2>1 DEF State
  <2> QED BY <1>5, <2>1, <2>2
<1>10. \A k \in u.local : k.d = "good" => k.n <= u.lastExec
  BY <1>1, <1>5, <1>8 DEF Sane, State
<1>11. \A k \in t.local : k.d = "bad" /\ t.sound => k.n > t.lastExec
  BY <1>1, <1>7, <1>8 DEF Sane, Kept, State
<1>12. ASSUME NEW y \in u.local, NEW z \in u.local, y.d = "good", z.d = "bad"
       PROVE  y.n < z.n
  <2>1. CASE y \in t.local /\ z \in t.local
    BY <2>1, <1>12 DEF Sane, Kept
  <2>2. CASE y = [n |-> n, d |-> d] /\ z \in t.local
    BY <1>1, <1>5, <1>8, <1>11, <1>12, <2>2 DEF State, Digests
  <2>3. CASE z = [n |-> n, d |-> d] /\ y \in t.local
    BY <1>1, <1>8, <1>12, <2>3 DEF State
  <2>4. CASE y = [n |-> n, d |-> d] /\ z = [n |-> n, d |-> d]
    BY <1>12, <2>4
  <2> QED BY <1>5, <2>1, <2>2, <2>3, <2>4
<1>13. u.sound => \A k \in u.local : k.n <= u.lastExec => k.d = "good"
  BY <1>1, <1>5, <1>7, <1>8 DEF Sane, Kept, State, Digests
<1>14. Kept(u)
  BY <1>7, <1>9, <1>10, <1>12, <1>13 DEF Kept
<1> QED BY <1>5, <1>6, <1>14 DEF Sane, u, x

(***************************************************************************)
(* recvStateUpdatedEvent: the ledger is right up to the target reached.  A *)
(* later target is transferred to at once; otherwise the target reached    *)
(* becomes the stable checkpoint.                                          *)
(***************************************************************************)
LEMMA StateUpdatedAgain ==
  ASSUME NEW t, NEW B, Sane(t, B), Transferring(t), t.syncing.n < t.target.n
  PROVE  Sane(TryStateTransfer([t EXCEPT !.syncing = None, !.lastExec = t.syncing.n,
                                         !.sound = t.syncing.d = "good"]), B)
<1> DEFINE n == t.syncing.n
           good == t.syncing.d = "good"
           x == [t EXCEPT !.syncing = None, !.lastExec = n, !.sound = good]
           off == -1
           u == [x EXCEPT !.skip = TRUE, !.syncing = x.target, !.timer = off]
<1>1. /\ t \in State /\ n \in Nat /\ good = TRUE /\ t.target \in Point
      /\ None \in Point /\ off \in Int
  BY DEF Sane, State, Point, Targeted, None, Digests
<1>2. t.target # None
  BY <1>1 DEF None
<1> HIDE DEF n, good, off
<1>3. /\ x \in State /\ x.target = t.target /\ x.syncing = None
  BY <1>1 DEF State
<1>4. TryStateTransfer(x) = u
  BY <1>2, <1>3 DEF TryStateTransfer, Transferring, off
<1>5. /\ u \in State /\ u.H = t.H /\ u.lastExec = n
      /\ u.sound = good /\ u.local = t.local /\ u.higher = t.higher
      /\ u.target = t.target /\ u.syncing = t.target /\ u.skip = TRUE
      /\ u.stopped = t.stopped /\ u.store = t.store
  BY <1>1 DEF State
<1> HIDE DEF u, x
<1>6. Authentic(u, B)
  BY <1>5 DEF Sane, Authentic
<1>7. Transferring(u)
  BY <1>2, <1>5 DEF Transferring
<1>8. Targeted(u)
  BY <1>1, <1>5, <1>7 DEF Sane, Targeted, Point
<1>9. \A k \in t.local : k.n \in Nat /\ (k.d = "good" => k.n <= n)
  BY <1>1 DEF Sane, Kept, State, Point, n
<1>10. n < t.target.n /\ t.target.n \in Nat
  BY <1>1 DEF n, Point
<1>11. Kept(u)
  BY <1>1, <1>5, <1>7, <1>9, <1>10 DEF Sane, Kept
<1> QED BY <1>4, <1>5, <1>6, <1>8, <1>11 DEF Sane, x, n, good

\* The target reached is the last one.
LEMMA StateUpdatedEnd ==
  ASSUME NEW t, NEW B, Sane(t, B), Transferring(t), t.syncing.n = t.target.n
  PROVE  LET x == [t EXCEPT !.syncing = None, !.lastExec = t.syncing.n,
                            !.sound = t.syncing.d = "good"]
             end == SaveCheckpoint([x EXCEPT !.skip = FALSE], t.target)
         IN Sane(MoveWatermarks(end, t.syncing.n), B)
<1> DEFINE n == t.syncing.n
           good == t.syncing.d = "good"
           x == [t EXCEPT !.syncing = None, !.lastExec = n, !.sound = good]
           y == [x EXCEPT !.skip = FALSE]
           lo == {k \in t.local : k.n # t.target.n} \cup {t.target}
           end == SaveCheckpoint(y, t.target)
           u == MoveWatermarks(end, n)
<1>1. /\ t \in State /\ n \in Nat /\ good = TRUE /\ t.target \in Point
      /\ None \in Point /\ t.target.d = "good" /\ t.H \in Nat
  BY DEF Sane, State, Point, Targeted, None, Digests
<1>2. lo \in SUBSET Point
  BY <1>1 DEF State
<1> HIDE DEF n, good, lo
<1>3. y \in State /\ y.local = t.local
  BY <1>1 DEF State
<1>4. end = [y EXCEPT !.local = lo]
  BY <1>3 DEF SaveCheckpoint, lo
<1>5. /\ end \in State /\ end.H = t.H /\ end.lastExec = n
      /\ end.sound = good /\ end.local = lo /\ end.higher = t.higher
      /\ end.target = t.target /\ end.syncing = None /\ end.skip = FALSE
      /\ end.stopped = t.stopped /\ end.store = t.store
  <2> HIDE DEF end
  <2> QED BY <1>1, <1>2, <1>4 DEF State
<1> HIDE DEF end, x, y
<1>6. \A k \in t.local : k.n \in Nat /\ k.d \in Digests /\ (k.d = "good" => k.n <= n)
  BY <1>1 DEF Sane, Kept, State, Point, n
<1>7. t.H <= n
  BY <1>6 DEF Sane, Kept
<1>8. /\ u \in State /\ u.H = n /\ u.lastExec = n /\ u.sound = TRUE
      /\ u.higher = t.higher /\ u.target = t.target /\ u.syncing = None
      /\ u.skip = FALSE /\ u.stopped = t.stopped
      /\ u.store = {m \in t.store : m.n > n}
      /\ u.local = {k \in lo : k.n >= n}
  <2>1. end.H <= n
    BY <1>5, <1>7
  <2>2. /\ u \in State /\ u.lastExec = end.lastExec /\ u.sound = end.sound
        /\ u.higher = end.higher /\ u.target = end.target
        /\ u.syncing = end.syncing /\ u.skip = end.skip /\ u.stopped = end.stopped
    BY <1>1, <1>5, MoveWatermarksFields
  <2>3. /\ u.H = n /\ u.store = {m \in end.store : m.n > n}
        /\ u.local = {k \in end.local : k.n >= n}
    BY <1>1, <1>5, <2>1, MoveWatermarksFields
  <2> HIDE DEF u
  <2> QED BY <1>1, <1>5, <2>2, <2>3
<1> HIDE DEF u
<1>9. /\ t.target.n = n /\ t.target = [n |-> n, d |-> "good"]
      /\ \A k \in u.local : k = t.target \/ (k.n > n /\ k.d = "bad")
  BY <1>1, <1>6, <1>8 DEF lo, n, Point, Digests
<1>10. t.target \in u.local
  BY <1>1, <1>8, <1>9 DEF lo
<1>11. ~Transferring(u)
  BY <1>8 DEF Transferring
<1>12. Kept(u)
  <2>1. \A k \in u.local : k.d = "good" => k = t.target
    BY <1>9
  <2>2. \A k \in u.local : k.d = "bad" => k.n > n
    BY <1>1, <1>9
  <2>3. \A k \in u.local : k.n <= n => k.d = "good"
    BY <1>1, <1>6, <1>8, <1>9 DEF lo
  <2>4. \A x1, y1 \in u.local : x1.d = "good" /\ y1.d = "bad" => x1.n < y1.n
    BY <1>9, <2>1, <2>2
  <2>5. \A k \in u.local : k.d = "good" => k.n <= n
    BY <1>1, <1>9, <2>1
  <2>6. [n |-> u.H, d |-> "good"] \in u.local
    BY <1>8, <1>9, <1>10
  <2> QED BY <1>8, <1>11, <2>3, <2>4, <2>5, <2>6 DEF Kept
<1>13. Authentic(u, B)
  BY <1>8 DEF Sane, Authentic
<1>14. Targeted(u)
  <2>1. t.store \in SUBSET Msg /\ u.store \in SUBSET Msg
    BY <1>1, <1>8 DEF State
  <2>2. \A c : Of(u.store, c) \subseteq Of(t.store, c)
    BY <1>8 DEF Of
  <2>3. \A k \in 1 .. MaxSeq :
          Cardinality(Of(u.store, [n |-> k, d |-> "good"])) >= CommonCaseQuorum
            => Cardinality(Of(t.store, [n |-> k, d |-> "good"])) >= CommonCaseQuorum
    BY <2>1, <2>2, FewerVotes
  <2>4. None.n <= t.target.n /\ None.d = "good"
    BY <1>1 DEF None, Point
  <2> QED BY <1>1, <1>8, <1>11, <2>3, <2>4 DEF Sane, Targeted
<1> QED BY <1>8, <1>12, <1>13, <1>14 DEF Sane, u, end, y, x, n, good

-----------------------------------------------------------------------------
(* The invariant *)

\* A fresh replica with at most F faulty validators is sane.
LEMMA InitIInv == Init => IInv
<1> SUFFICES ASSUME Init PROVE IInv
  OBVIOUS
<1>1. FewFaulty(faulty)
  BY TransferAssumption DEF Init, FewFaulty
<1>2. s \in State
  BY DEF Init, InitState, State, Point, None, Digests
<1>3. Authentic(s, faulty)
  BY DEF Init, InitState, Authentic
<1>4. Targeted(s)
  <2>1. \A c : Of(s.store, c) = {}
    BY DEF Init, InitState, Of
  <2>2. \A c : ~(Cardinality(Of(s.store, c)) >= CommonCaseQuorum)
    BY <2>1, QuorumSizes, FS_EmptySet
  <2> QED BY <2>2 DEF Init, InitState, Targeted, Transferring, None
<1>5. Kept(s)
  BY DEF Init, InitState, Kept, Transferring, None
<1>6. ~s.stopped
  BY DEF Init, InitState
<1> QED BY <1>1, <1>2, <1>3, <1>4, <1>5, <1>6 DEF IInv, Sane

\* Every step of the replica, and of the validators it hears, keeps it sane.
LEMMA NextIInv == IInv /\ [Next]_vars => IInv'
<1> SUFFICES ASSUME IInv, [Next]_vars PROVE IInv'
  OBVIOUS
<1>1. FewFaulty(faulty) /\ Sane(s, faulty) /\ s \in State
  BY DEF IInv, Sane
<1>2. SUFFICES ASSUME Next PROVE FewFaulty(faulty') /\ Sane(s', faulty')
  <2>1. CASE UNCHANGED vars
    BY <1>1, <2>1 DEF IInv, vars
  <2> QED BY <1>2, <2>1 DEF IInv
<1>3. ASSUME NEW t, Become(t), Sane(t, faulty)
      PROVE  FewFaulty(faulty') /\ Sane(s', faulty')
  BY <1>1, <1>3 DEF Become
<1>4. ASSUME NEW d \in Digests, CheckpointBlockExecuted(d)
      PROVE  FewFaulty(faulty') /\ Sane(s', faulty')
  <2> DEFINE n == s.lastExec + 1
             t == [s EXCEPT !.lastExec = n, !.sound = d = "good", !.waitFin = TRUE]
             u == SaveCheckpoint(t, [n |-> n, d |-> d])
             v == IF n = HighMark(s) THEN SoftStartTimer(u) ELSE u
             m == [a |-> Self, n |-> n, d |-> d]
  <2>1. ~s.skip /\ (~s.sound => d = "bad") /\ Become(RecvCheckpoint(v, m))
    BY <1>4 DEF CheckpointBlockExecuted
  <2>2. Sane(u, faulty)
    BY <1>1, <2>1, ExecutedSane
  <2>3. Sane(v, faulty)
    <3> HIDE DEF u
    <3> QED BY <2>2, SoftStartTimerSane
  <2>4. Sent(m, faulty)
    BY <1>1, <1>4, TransferAssumption DEF CheckpointBlockExecuted, State, Sent, Msg
  <2> HIDE DEF v, m
  <2> QED BY <1>1, <1>3, <2>1, <2>3, <2>4, RecvCheckpointSane
<1>5. ASSUME NEW a \in Validator \ {Self}, NEW c \in Checkpoint, ReceiveCheckpoint(a, c)
      PROVE  FewFaulty(faulty') /\ Sane(s', faulty')
  <2> DEFINE m == [a |-> a, n |-> c.n, d |-> c.d]
  <2>1. Become(RecvCheckpoint(s, m)) /\ Sent(m, faulty)
    BY <1>5 DEF ReceiveCheckpoint, Sent, Msg, Checkpoint
  <2> HIDE DEF m
  <2> QED BY <1>1, <1>3, <2>1, RecvCheckpointSane
<1>6. ASSUME HighWatermarkTimeout
      PROVE  FewFaulty(faulty') /\ Sane(s', faulty')
  <2> DEFINE off == -1
             t == [s EXCEPT !.timer = off]
  <2>1. off \in Int /\ \/ Become(t) \/ Become(SendViewChange(t, FALSE))
    <3>1. Become(IF s.inVC \/ s.timer < s.H THEN t ELSE SendViewChange(t, FALSE))
      BY <1>6, Zenon DEF HighWatermarkTimeout
    <3>2. off \in Int
      OBVIOUS
    <3> HIDE DEF off, t
    <3>3. CASE s.inVC \/ s.timer < s.H
      BY <3>1, <3>2, <3>3
    <3>4. CASE ~(s.inVC \/ s.timer < s.H)
      BY <3>1, <3>2, <3>4
    <3> QED BY <3>3, <3>4
  <2> HIDE DEF off
  <2>2. t \in State /\ SameCore(s, t)
    BY <1>1, <2>1 DEF State, SameCore
  <2> HIDE DEF t
  <2>3. Sane(t, faulty)
    BY <1>1, <2>2, SameCoreSane
  <2>4. Sane(SendViewChange(t, FALSE), faulty)
    BY <2>3, SendViewChangeSane
  <2> QED BY <1>3, <2>1, <2>3, <2>4
<1>7. ASSUME NEW c \in Checkpoint, AcceptNewView(c)
      PROVE  FewFaulty(faulty') /\ Sane(s', faulty')
  <2> DEFINE has == s.H < c.n /\ \E k \in s.local : k.n = c.n
             wrong == has /\ Mismatch(s, c.n, c.d)
             lags == ~has /\ s.lastExec < c.n
             done == [s EXCEPT !.inVC = FALSE]
             x == [s EXCEPT !.newView = TRUE]
             u == UpdateHighStateTarget(x, c)
  <2>1. /\ c.d = "good" /\ c.n \in Nat
        /\ Become(IF wrong \/ lags THEN TryStateTransfer(u)
                  ELSE IF has THEN MoveWatermarks(done, c.n) ELSE done)
    <3>1. c.n \in Nat
      BY TransferAssumption DEF Checkpoint
    <3> QED BY <1>7, <3>1, Zenon DEF AcceptNewView
  <2>2. done \in State /\ SameCore(s, done) /\ x \in State /\ SameCore(s, x)
    BY <1>1 DEF State, SameCore
  <2> HIDE DEF done, x
  <2>3. Sane(done, faulty) /\ Sane(x, faulty)
    BY <1>1, <2>2, SameCoreSane
  <2>4. /\ Sane(u, faulty) /\ u.target.n >= c.n /\ u.target # None
        /\ u.local = s.local /\ u.lastExec = s.lastExec
    BY <2>1, <2>2, <2>3, UpdateHighStateTargetSane DEF SameCore
  <2> HIDE DEF u
  <2>5. CASE wrong
    <3>1. Mismatch(u, c.n, c.d)
      BY <2>4, <2>5 DEF Mismatch
    <3> QED BY <1>3, <2>1, <2>4, <2>5, <3>1, MismatchTransfers
  <2>6. CASE lags
    <3>1. \A k \in u.local : k.n \in Nat /\ (k.d = "good" => k.n <= u.lastExec)
      BY <2>4 DEF Sane, Kept, State, Point
    <3>2. u.target.n > u.lastExec /\ u.target.n \in Nat /\ u.lastExec \in Nat
      BY <2>1, <2>4, <2>6 DEF Sane, State, Point
    <3>3. Sane(TryStateTransfer(u), faulty)
      BY <2>4, <3>1, <3>2, TryStateTransferSane
    <3> QED BY <1>3, <2>1, <2>6, <3>3
  <2>7. CASE has /\ ~wrong
    <3>1. [n |-> c.n, d |-> "good"] \in s.local
      BY <1>1, <2>1, <2>7 DEF Mismatch, State, Point
    <3>2. [n |-> c.n, d |-> "good"] \in done.local
      BY <2>2, <3>1 DEF SameCore
    <3>3. Sane(MoveWatermarks(done, c.n), faulty)
      BY <2>1, <2>3, <3>2, MoveWatermarksSane
    <3> QED BY <1>3, <2>1, <2>7, <3>3
  <2>8. CASE ~has /\ ~lags
    BY <1>3, <2>1, <2>3, <2>8
  <2> QED BY <2>5, <2>6, <2>7, <2>8
<1>8. ASSUME StateUpdated
      PROVE  FewFaulty(faulty') /\ Sane(s', faulty')
  <2> DEFINE c == s.syncing
             back == [s EXCEPT !.syncing = None, !.lastExec = c.n, !.sound = c.d = "good"]
             end == SaveCheckpoint([back EXCEPT !.skip = FALSE], s.target)
             moved == MoveWatermarks(end, c.n)
  <2>1. /\ Transferring(s)
        /\ Become(IF c.n < s.target.n THEN TryStateTransfer(back)
                  ELSE IF c.n > s.target.n THEN [s EXCEPT !.stopped = TRUE]
                  ELSE IF moved.inVC /\ moved.newView THEN [moved EXCEPT !.inVC = FALSE]
                  ELSE IF moved.inVC THEN SendViewChange(moved, TRUE)
                  ELSE moved)
    BY <1>8 DEF StateUpdated
  <2>2. c.n \in Nat /\ s.target.n \in Nat /\ c.n <= s.target.n
    BY <1>1 DEF Sane, Targeted, State, Point
  <2>3. CASE c.n < s.target.n
    <3>1. Sane(TryStateTransfer(back), faulty)
      BY <1>1, <2>1, <2>3, StateUpdatedAgain
    <3> HIDE DEF back
    <3> QED BY <1>3, <2>1, <2>3, <3>1
  <2>4. CASE c.n = s.target.n
    <3>1. Sane(moved, faulty)
      BY <1>1, <2>1, <2>4, StateUpdatedEnd
    <3> HIDE DEF moved
    <3>2. Sane(SendViewChange(moved, TRUE), faulty)
      BY <3>1, SendViewChangeSane
    <3>3. [moved EXCEPT !.inVC = FALSE] \in State
          /\ SameCore(moved, [moved EXCEPT !.inVC = FALSE])
      BY <3>1 DEF Sane, State, SameCore
    <3>4. Sane([moved EXCEPT !.inVC = FALSE], faulty)
      BY <3>1, <3>3, SameCoreSane
    <3>5. ~(c.n < s.target.n) /\ ~(c.n > s.target.n)
      BY <2>2, <2>4
    <3> QED BY <1>3, <2>1, <3>1, <3>2, <3>4, <3>5
  <2> QED BY <2>2, <2>3, <2>4
<1> QED BY <1>2, <1>4, <1>5, <1>6, <1>7, <1>8 DEF Next

\* The replica's record is sane throughout.
THEOREM Invariance == Spec => []IInv
BY InitIInv, NextIInv, PTL DEF Spec

(***************************************************************************)
(* recvCheckpoint and the new view never set a target that the correct     *)
(* validators do not have, whichever digest came last.                     *)
(***************************************************************************)
THEOREM TargetIsCorrect == Spec => []TransferTargetIsCorrect
<1>1. IInv => TransferTargetIsCorrect
  BY DEF IInv, Sane, Targeted, TransferTargetIsCorrect
<1> QED BY <1>1, Invariance, PTL

\* moveWatermarks never makes a wrong checkpoint stable.
THEOREM StableIsCorrect == Spec => []StableCheckpointIsCorrect
<1>1. IInv => StableCheckpointIsCorrect
  BY DEF IInv, Sane, Kept, StableCheckpointIsCorrect
<1> QED BY <1>1, Invariance, PTL

\* stopNamespace is not reached: there are no two weak certs, and no transfer
\* ends above its target.
THEOREM ReplicaNeverStops == Spec => []NeverStops
<1>1. IInv => NeverStops
  BY DEF IInv, Sane, NeverStops
<1> QED BY <1>1, Invariance, PTL

\* SkipInProgress is on exactly while the application transfers.
THEOREM SkipMeansTransfer == Spec => []TransferUnderWay
<1>1. IInv => TransferUnderWay
  BY DEF IInv, Sane, Targeted, TransferUnderWay
<1> QED BY <1>1, Invariance, PTL

-----------------------------------------------------------------------------
(* Blocks taken back *)

Has(t) == "lastExec" \in DOMAIN t

SameHeight(t, u) == Has(u) /\ u.lastExec = t.lastExec

\* The handlers of a checkpoint leave lastExec alone.
LEMMA HandlersSameHeight ==
  ASSUME NEW t, Has(t)
  PROVE  /\ SameHeight(t, SoftStartTimer(t))
         /\ SameHeight(t, TryStateTransfer(t))
         /\ \A n : SameHeight(t, MoveWatermarks(t, n))
         /\ \A c : SameHeight(t, UpdateHighStateTarget(t, c))
         /\ \A m : SameHeight(t, TrackHigher(t, m))
         /\ SameHeight(t, SendViewChange(t, TRUE))
         /\ SameHeight(t, SendViewChange(t, FALSE))
BY DEF Has, SameHeight, SoftStartTimer, TryStateTransfer, MoveWatermarks,
       UpdateHighStateTarget, TrackHigher, SendViewChange

\* recvCheckpoint leaves lastExec alone.
LEMMA RecvCheckpointSameHeight ==
  ASSUME NEW t, Has(t), NEW m
  PROVE  SameHeight(t, RecvCheckpoint(t, m))
<1>1. ASSUME NEW x, Has(x), NEW y, SameHeight(x, y), NEW z, SameHeight(y, z)
      PROVE  SameHeight(x, z) /\ Has(y)
  BY <1>1 DEF SameHeight
<1>2. ASSUME NEW x, Has(x) PROVE SameHeight(x, CompareCheckpoint(x, m))
  <2> DEFINE S == {k \in x.store : k.a # m.a \/ k.n # m.n} \cup {m}
             u == [x EXCEPT !.store = S]
             vouched == Vouched(u, m)
             c == [n |-> m.n, d |-> CHOOSE d \in vouched : TRUE]
             w == [u EXCEPT !.waitFin = FALSE, !.timer = -1]
  <2>1. SameHeight(x, u) /\ Has(u)
    BY <1>2 DEF SameHeight, Has
  <2>2. SameHeight(x, [u EXCEPT !.stopped = TRUE])
    BY <1>2 DEF SameHeight, Has
  <2>3. SameHeight(x, w) /\ Has(w)
    BY <1>2 DEF SameHeight, Has
  <2>4. SameHeight(x, x)
    BY <1>2 DEF SameHeight
  <2> HIDE DEF u, w, c
  <2>5. SameHeight(x, TryStateTransfer(UpdateHighStateTarget(u, c)))
    <3>1. SameHeight(x, UpdateHighStateTarget(u, c)) /\ Has(UpdateHighStateTarget(u, c))
      BY <2>1, HandlersSameHeight DEF SameHeight
    <3> QED BY <3>1, HandlersSameHeight DEF SameHeight
  <2>6. SameHeight(x, UpdateHighStateTarget(u, [n |-> m.n, d |-> m.d]))
    BY <2>1, HandlersSameHeight DEF SameHeight
  <2>7. SameHeight(x, MoveWatermarks(w, m.n))
    BY <2>3, HandlersSameHeight DEF SameHeight
  <2>8. SameHeight(x, QuorumCheckpoint(u, m))
    BY <2>6, <2>7 DEF QuorumCheckpoint, w
  <2>9. CompareCheckpoint(x, m) \in
          {x, u, [u EXCEPT !.stopped = TRUE],
           TryStateTransfer(UpdateHighStateTarget(u, c)), QuorumCheckpoint(u, m)}
    BY Zenon DEF CompareCheckpoint, u, c
  <2> QED BY <2>1, <2>2, <2>4, <2>5, <2>8, <2>9
<1> DEFINE u == TrackHigher(t, m)
           c == Highest(WeakSets(u, m))
           found == UpdateHighStateTarget(u, c)
           ready == [found EXCEPT !.waitFin = FALSE]
<1>3. SameHeight(t, u) /\ Has(u)
  BY HandlersSameHeight DEF SameHeight
<1> HIDE DEF u
<1>4. SameHeight(t, found) /\ Has(found)
  BY <1>3, HandlersSameHeight DEF SameHeight
<1> HIDE DEF found
<1>5. SameHeight(t, ready) /\ Has(ready)
  BY <1>4 DEF SameHeight, Has
<1> HIDE DEF ready
<1>6. SameHeight(t, TryStateTransfer(SendViewChange(ready, TRUE)))
  <2> DEFINE v == SendViewChange(ready, TRUE)
  <2>1. SameHeight(t, v) /\ Has(v)
    BY <1>5, HandlersSameHeight DEF SameHeight
  <2> HIDE DEF v
  <2>2. SameHeight(t, TryStateTransfer(v))
    BY <2>1, HandlersSameHeight DEF SameHeight
  <2> QED BY <2>2 DEF v
<1>7. SameHeight(t, CompareCheckpoint(u, m))
  BY <1>2, <1>3 DEF SameHeight
<1>8. SameHeight(t, CompareCheckpoint(SoftStartTimer(u), m))
  BY <1>2, <1>3, HandlersSameHeight DEF SameHeight
<1>9. RecvCheckpoint(t, m) \in
        {CompareCheckpoint(u, m), CompareCheckpoint(SoftStartTimer(u), m), found,
         TryStateTransfer(SendViewChange(ready, TRUE))}
  BY Zenon DEF RecvCheckpoint, u, found, ready
<1> QED BY <1>4, <1>6, <1>7, <1>8, <1>9

(***************************************************************************)
(* Only a transfer takes blocks back, and only of a wrong ledger: a target *)
(* below lastExec was set by a checkpoint that differs from its own.       *)
(***************************************************************************)
THEOREM RightBlocksStay == Spec => OnlyWrongBlocksAreCut
<1>1. ASSUME IInv, [Next]_vars
      PROVE  [s'.lastExec < s.lastExec => ~s.sound]_vars
  <2>1. s \in State /\ s.lastExec \in Nat /\ s.syncing.n \in Nat /\ Has(s) /\ Kept(s)
    BY <1>1 DEF IInv, Sane, State, Point, Has
  <2>2. SUFFICES ASSUME Next, s'.lastExec < s.lastExec PROVE ~s.sound
    BY <1>1
  <2>3. ASSUME s'.lastExec = s.lastExec PROVE FALSE
    BY <2>1, <2>2, <2>3
  <2>4. ASSUME NEW d \in Digests, CheckpointBlockExecuted(d) PROVE FALSE
    <3> DEFINE n == s.lastExec + 1
               t == [s EXCEPT !.lastExec = n, !.sound = d = "good", !.waitFin = TRUE]
               u == SaveCheckpoint(t, [n |-> n, d |-> d])
               v == IF n = HighMark(s) THEN SoftStartTimer(u) ELSE u
               m == [a |-> Self, n |-> n, d |-> d]
    <3>1. s' = RecvCheckpoint(v, m)
      BY <2>4, Zenon DEF CheckpointBlockExecuted, Become
    <3>2. Has(u) /\ u.lastExec = n
      BY <2>1 DEF SaveCheckpoint, Has
    <3> HIDE DEF u
    <3>3. Has(v) /\ v.lastExec = n
      BY <3>2, HandlersSameHeight DEF SameHeight
    <3> HIDE DEF v
    <3>4. s'.lastExec = n
      BY <3>1, <3>3, RecvCheckpointSameHeight DEF SameHeight
    <3> QED BY <2>1, <2>2, <3>4
  <2>5. ASSUME NEW a \in Validator \ {Self}, NEW c \in Checkpoint, ReceiveCheckpoint(a, c)
        PROVE FALSE
    BY <2>1, <2>3, <2>5, RecvCheckpointSameHeight DEF ReceiveCheckpoint, Become, SameHeight
  <2>6. ASSUME HighWatermarkTimeout PROVE FALSE
    <3> DEFINE t == [s EXCEPT !.timer = -1]
    <3>1. s' \in {t, SendViewChange(t, FALSE)}
      BY <2>6, Zenon DEF HighWatermarkTimeout, Become
    <3>2. Has(t) /\ t.lastExec = s.lastExec
      BY <2>1 DEF Has
    <3> HIDE DEF t
    <3> QED BY <2>3, <3>1, <3>2, HandlersSameHeight DEF SameHeight
  <2>7. ASSUME NEW c \in Checkpoint, AcceptNewView(c) PROVE FALSE
    <3> DEFINE t == [s EXCEPT !.newView = TRUE]
               done == [s EXCEPT !.inVC = FALSE]
    <3>1. s' \in {TryStateTransfer(UpdateHighStateTarget(t, c)), MoveWatermarks(done, c.n), done}
      BY <2>7, Zenon DEF AcceptNewView, Become
    <3>2. Has(t) /\ t.lastExec = s.lastExec /\ Has(done) /\ done.lastExec = s.lastExec
      BY <2>1 DEF Has
    <3> HIDE DEF t, done
    <3> DEFINE u == UpdateHighStateTarget(t, c)
    <3>3. SameHeight(t, u) /\ SameHeight(done, MoveWatermarks(done, c.n))
      BY <3>2, HandlersSameHeight
    <3> HIDE DEF u
    <3>4. TryStateTransfer(u).lastExec = s.lastExec
      BY <3>2, <3>3, HandlersSameHeight DEF SameHeight
    <3>5. MoveWatermarks(done, c.n).lastExec = s.lastExec
      BY <3>2, <3>3 DEF SameHeight
    <3> QED BY <2>3, <3>1, <3>2, <3>4, <3>5 DEF u
  <2>8. ASSUME StateUpdated PROVE ~s.sound
    <3> DEFINE c == s.syncing
               back == [s EXCEPT !.syncing = None, !.lastExec = c.n, !.sound = c.d = "good"]
               x == [back EXCEPT !.skip = FALSE]
               end == SaveCheckpoint(x, s.target)
               moved == MoveWatermarks(end, c.n)
    <3>1. /\ Transferring(s)
          /\ s' \in {TryStateTransfer(back), [s EXCEPT !.stopped = TRUE],
                     [moved EXCEPT !.inVC = FALSE], SendViewChange(moved, TRUE), moved}
      BY <2>8, Zenon DEF StateUpdated, Become
    <3>2. Has(back) /\ back.lastExec = c.n
      BY <2>1 DEF Has
    <3> HIDE DEF back
    <3>3. Has(end) /\ end.lastExec = c.n
      BY <3>2 DEF Has, SaveCheckpoint
    <3> HIDE DEF end
    <3>4. Has(moved) /\ moved.lastExec = c.n
      BY <3>3, HandlersSameHeight DEF SameHeight
    <3> HIDE DEF moved
    <3>5. [moved EXCEPT !.inVC = FALSE].lastExec = c.n
      BY <3>4 DEF Has
    <3>6. [s EXCEPT !.stopped = TRUE].lastExec = s.lastExec
      BY <2>1
    <3>7. s'.lastExec \in {c.n, s.lastExec}
      BY <3>1, <3>2, <3>4, <3>5, <3>6, HandlersSameHeight DEF SameHeight
    <3>8. s.syncing.n < s.lastExec
      BY <2>1, <2>2, <3>7
    <3> QED BY <2>1, <3>1, <3>8 DEF Kept
  <2> QED BY <2>2, <2>4, <2>5, <2>6, <2>7, <2>8 DEF Next
<1> QED BY <1>1, Invariance, PTL DEF Spec, OnlyWrongBlocksAreCut
=============================================================================
