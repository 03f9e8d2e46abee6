---------------------------- MODULE StateTransfer ----------------------------
(***************************************************************************)
(* How one replica finds out from the checkpoints of the others that it is *)
(* behind or that its ledger is wrong, and how it transfers to a           *)
(* checkpoint they agree on: recvCheckpoint and what it calls,             *)
(* tryStateTransfer, recvStateUpdatedEvent.  Heights count checkpoint      *)
(* periods, so every block has a checkpoint.  At most F validators are     *)
(* faulty: another one sends any checkpoint, the replica itself executes a *)
(* block wrongly.  The view change is reduced to its start and to the      *)
(* checkpoint a new view begins from.                                      *)
(***************************************************************************)
EXTENDS RbftQuorum

CONSTANTS
  Self,        \* the replica
  FaultySets,  \* the sets of validators that may be faulty together
  L,           \* size of the window, in checkpoint periods
  MaxSeq,      \* bound on heights
  MaxViews     \* bound on the view changes it starts

ASSUME TransferAssumption ==
  /\ Self \in Validator
  /\ FaultySets \subseteq {B \in SUBSET Validator : Cardinality(B) <= F}
  /\ L \in Nat \ {0} /\ {MaxSeq, MaxViews} \subseteq Nat

VARIABLES
  s,         \* the replica
  faulty,    \* validators that do not follow the protocol
  views      \* view changes it has started

vars == <<s, faulty, views>>

Digests == {"good", "bad"}

Checkpoint == [n : 1 .. MaxSeq, d : Digests]

None == [n |-> 0, d |-> "good"]

InitState ==
  [ H         |-> 0,
    lastExec  |-> 0,
    sound     |-> TRUE,    \* its ledger is that of the others
    local     |-> {None},  \* localCheckpoints
    store     |-> {},      \* checkpointStore: author, height and digest
    higher    |-> {},      \* higherCheckpoints
    target    |-> None,    \* highStateTarget
    syncing   |-> None,    \* the target the application transfers to
    skip      |-> FALSE,   \* SkipInProgress
    inVC      |-> FALSE,
    newView   |-> FALSE,   \* newViewStore has the new view of its view
    waitFin   |-> FALSE,   \* waitCheckpointFinished
    timer     |-> -1,      \* high-watermark timer: H when it was started
    stopped   |-> FALSE ]  \* stopNamespace

Transferring(t) == t.syncing # None

Of(set, c) == {m \in set : m.n = c.n /\ m.d = c.d}

-----------------------------------------------------------------------------
(* Handlers *)

MoveWatermarks(t, n) ==
  IF t.H > n THEN t
  ELSE [t EXCEPT !.H = n, !.store = {m \in @ : m.n > n}, !.local = {c \in @ : c.n >= n}]

SaveCheckpoint(t, c) == [t EXCEPT !.local = {k \in @ : k.n # c.n} \cup {c}]

\* Mutant: the target is set once.
UpdateTargetOnce(t, c) == IF t.target # None THEN t ELSE [t EXCEPT !.target = c]

UpdateHighStateTarget(t, c) ==
  IF t.target # None /\ t.target.n >= c.n THEN t ELSE [t EXCEPT !.target = c]

\* Mutant: a transfer that reached an old target does not go on.
TryTransferOnce(t) ==
  IF t.skip \/ t.target = None THEN [t EXCEPT !.skip = TRUE]
  ELSE [t EXCEPT !.skip = TRUE, !.syncing = t.target, !.timer = -1]

TryStateTransfer(t) ==
  IF Transferring(t) \/ t.target = None THEN [t EXCEPT !.skip = TRUE]
  ELSE [t EXCEPT !.skip = TRUE, !.syncing = t.target, !.timer = -1]

\* sendViewChange; a recovery does not mind waitCheckpointFinished.
SendViewChange(t, recovery) ==
  IF (t.waitFin /\ ~recovery) \/ Transferring(t) THEN t
  ELSE [t EXCEPT !.inVC = TRUE, !.newView = FALSE, !.timer = -1]

SoftStartTimer(t) == IF t.timer = -1 THEN [t EXCEPT !.timer = t.H] ELSE t

(***************************************************************************)
(* weakCheckpointSetOutOfRange: checkpoints above the high watermark, the  *)
(* last of each author; a weak set has more than F+1 members.              *)
(***************************************************************************)
HighMark(t) == t.H + L

TrackHigher(t, m) ==
  LET others == {k \in t.higher : k.a # m.a}
      all == others \cup {m}
  IN IF m.n < HighMark(t) THEN [t EXCEPT !.higher = others]
     ELSE IF Cardinality(all) < OneCorrectQuorum THEN [t EXCEPT !.higher = all]
     ELSE [t EXCEPT !.higher = {k \in all : k.n > HighMark(t)}]

Reported(set) == {[n |-> m.n, d |-> m.d] : m \in set}

\* Mutant: any F+1 higher checkpoints make a weak set.
WeakSetsMixed(t, m) ==
  IF m.n < HighMark(t) \/ Cardinality(t.higher) <= OneCorrectQuorum THEN {}
  ELSE Reported(t.higher)

WeakSets(t, m) ==
  IF m.n < HighMark(t) THEN {}
  ELSE {c \in Reported(t.higher) : Cardinality(Of(t.higher, c)) > OneCorrectQuorum}

Highest(weak) == CHOOSE c \in weak : \A k \in weak : k.n <= c.n

\* Mutant: F validators are enough.
VouchedByFew(t, m) ==
  {d \in Digests : Cardinality(Of(t.store, [n |-> m.n, d |-> d])) >= OneCorrectQuorum - 1}

\* compareCheckpointWithWeakSet: the digests at m's height F+1 vouch for.
Vouched(t, m) ==
  {d \in Digests : Cardinality(Of(t.store, [n |-> m.n, d |-> d])) >= OneCorrectQuorum}

\* Mutant: a checkpoint of its own that differs is not compared.
MismatchUnseen(t, n, d) == FALSE

Mismatch(t, n, d) == \E c \in t.local : c.n = n /\ c.d # d

(***************************************************************************)
(* The checkpoint completes a quorum, or found one complete: it is stable  *)
(* if this replica has reached it, and a target otherwise.  The digest is  *)
(* that of the message that came, not that of the quorum.                  *)
(***************************************************************************)
QuorumCheckpoint(t, m) ==
  IF \A c \in t.local : c.n # m.n THEN UpdateHighStateTarget(t, [n |-> m.n, d |-> m.d])
  ELSE MoveWatermarks([t EXCEPT !.waitFin = FALSE, !.timer = -1], m.n)

CompareCheckpoint(t, m) ==
  LET u == [t EXCEPT !.store = {k \in @ : k.a # m.a \/ k.n # m.n} \cup {m}]
      vouched == Vouched(u, m)
      d == CHOOSE d \in vouched : TRUE
      c == [n |-> m.n, d |-> d]
  IN IF m.n <= t.H THEN t
     ELSE IF vouched = {} THEN u
     ELSE IF Cardinality(vouched) > 1 THEN [u EXCEPT !.stopped = TRUE]
     ELSE IF Mismatch(u, m.n, d) THEN TryStateTransfer(UpdateHighStateTarget(u, c))
     ELSE IF Cardinality(Of(u.store, c)) < CommonCaseQuorum THEN u
     ELSE QuorumCheckpoint(u, m)

\* recvCheckpoint, of a remote checkpoint or of its own.
RecvCheckpoint(t, m) ==
  LET u == TrackHigher(t, m)
      weak == WeakSets(u, m)
      c == Highest(weak)
      found == UpdateHighStateTarget(u, c)
  IN IF weak = {} THEN CompareCheckpoint(u, m)
     ELSE IF u.lastExec >= c.n THEN CompareCheckpoint(SoftStartTimer(u), m)
     ELSE IF Transferring(u) THEN found
     ELSE TryStateTransfer(SendViewChange([found EXCEPT !.waitFin = FALSE], TRUE))

-----------------------------------------------------------------------------
(* Actions *)

\* A step that changes nothing is left to stuttering; a view change it starts
\* counts against the bound.
Become(t) ==
  /\ t # s
  /\ s' = t
  /\ views' = views + (IF t.inVC /\ ~s.inVC THEN 1 ELSE 0)
  /\ views' <= MaxViews
  /\ UNCHANGED faulty

(***************************************************************************)
(* A block is committed and executed and the application reports it:       *)
(* checkpoint() and recvCheckpoint of its own.                             *)
(***************************************************************************)
CheckpointBlockExecuted(d) ==
  LET n == s.lastExec + 1
      t == [s EXCEPT !.lastExec = n, !.sound = d = "good", !.waitFin = TRUE]
      u == SaveCheckpoint(t, [n |-> n, d |-> d])
  IN /\ ~s.stopped /\ ~s.skip /\ ~s.inVC
     /\ n <= HighMark(s) /\ n <= MaxSeq
     /\ d = "bad" => Self \in faulty
     /\ ~s.sound => d = "bad"
     /\ Become(RecvCheckpoint(IF n = HighMark(s) THEN SoftStartTimer(u) ELSE u,
                              [a |-> Self, n |-> n, d |-> d]))

\* A checkpoint of another validator arrives.
ReceiveCheckpoint(a, c) ==
  /\ ~s.stopped
  /\ c.d = "bad" => a \in faulty
  /\ Become(RecvCheckpoint(s, [a |-> a, n |-> c.n, d |-> c.d]))

HighWatermarkTimeout ==
  LET t == [s EXCEPT !.timer = -1]
  IN /\ ~s.stopped /\ s.timer # -1
     /\ Become(IF s.inVC \/ s.timer < s.H THEN t ELSE SendViewChange(t, FALSE))

(***************************************************************************)
(* The view change ends: a new view with the initial checkpoint c is       *)
(* accepted (checkIfNeedStateUpdate).  A transfer comes first.             *)
(***************************************************************************)
AcceptNewView(c) ==
  LET has == s.H < c.n /\ \E k \in s.local : k.n = c.n
      wrong == has /\ Mismatch(s, c.n, c.d)
      lags == ~has /\ s.lastExec < c.n
      done == [s EXCEPT !.inVC = FALSE]
  IN /\ ~s.stopped /\ s.inVC /\ ~Transferring(s)
     /\ c.d = "good"
     /\ Become(IF wrong \/ lags
               THEN TryStateTransfer(UpdateHighStateTarget([s EXCEPT !.newView = TRUE], c))
               ELSE IF has THEN MoveWatermarks(done, c.n) ELSE done)

(***************************************************************************)
(* recvStateUpdatedEvent.  The application has reached the target it was   *)
(* given, which may have been replaced meanwhile.                          *)
(***************************************************************************)
StateUpdated ==
  LET c == s.syncing
      back == [s EXCEPT !.syncing = None, !.lastExec = c.n, !.sound = c.d = "good"]
      end == SaveCheckpoint([back EXCEPT !.skip = FALSE], s.target)
      moved == MoveWatermarks(end, c.n)
  IN /\ ~s.stopped /\ Transferring(s)
     /\ Become(IF c.n < s.target.n THEN TryStateTransfer(back)
               ELSE IF c.n > s.target.n THEN [s EXCEPT !.stopped = TRUE]
               ELSE IF moved.inVC /\ moved.newView THEN [moved EXCEPT !.inVC = FALSE]
               ELSE IF moved.inVC THEN SendViewChange(moved, TRUE)
               ELSE moved)

-----------------------------------------------------------------------------
Init ==
  /\ s = InitState
  /\ views = 0
  /\ faulty \in FaultySets

Next ==
  \/ \E d \in Digests : CheckpointBlockExecuted(d)
  \/ \E a \in Validator \ {Self}, c \in Checkpoint : ReceiveCheckpoint(a, c)
  \/ HighWatermarkTimeout
  \/ \E c \in Checkpoint : AcceptNewView(c)
  \/ StateUpdated

Spec == Init /\ [][Next]_vars

-----------------------------------------------------------------------------
(* Properties *)

(***************************************************************************)
(* A replica transfers only to a state of the correct validators, although *)
(* recvCheckpoint makes its target from the digest of the checkpoint that  *)
(* came last, which need not be the digest the quorum agrees on.           *)
(***************************************************************************)
TransferTargetIsCorrect == s.target.d = "good" /\ s.syncing.d = "good"

(***************************************************************************)
(* The checkpoint at the low watermark is that of the correct validators,  *)
(* whether a quorum, a new view or a transfer moved it there, and whatever *)
(* this replica computed itself.                                           *)
(***************************************************************************)
StableCheckpointIsCorrect == [n |-> s.H, d |-> "good"] \in s.local

(***************************************************************************)
(* F faulty validators, or a wrong ledger of its own, do not stop a        *)
(* replica: it never finds two weak certs, nor itself above its target.    *)
(***************************************************************************)
NeverStops == ~s.stopped

(***************************************************************************)
(* Blocks are taken back only if they were wrong: a target that became     *)
(* stale while the replica went on by itself is never transferred to.      *)
(***************************************************************************)
OnlyWrongBlocksAreCut == [][s'.lastExec < s.lastExec => ~s.sound]_vars

(***************************************************************************)
(* A replica that left normal operation for a transfer can come back: one  *)
(* is under way, also when the target moved during it, and none is under   *)
(* way once SkipInProgress is off.                                         *)
(***************************************************************************)
TransferUnderWay == s.skip <=> Transferring(s)
=============================================================================
