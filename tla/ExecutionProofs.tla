--------------------------- MODULE ExecutionProofs --------------------------
(***************************************************************************)
(* What one replica does with the batches it agreed on: it misses neither  *)
(* a prepared nor a committed cert, executes every height once and in      *)
(* order, stops at checkpoints, keeps the batches it needs, and moves its  *)
(* low watermark only to a height that F+1 correct validators executed.    *)
(* Sound is the invariant of one record; it holds between events, while    *)
(* inside a handler the cert at hand is excepted from Wakes and Tracks.    *)
(***************************************************************************)
EXTENDS AgreementProofs

\* Every height up to lastExec is executed, once; H and checkpoints are below.
Heights(s) ==
  /\ s.H <= s.lastExec
  /\ s.waitExec => s.H < s.lastExec
  /\ \A n \in s.localCkpt \cup s.outK : n <= s.lastExec
  /\ \A id \in s.executed : id.n <= s.lastExec
  /\ \A n \in 1 .. s.lastExec : \E id \in s.executed : id.n = n
  /\ \A x, y \in s.executed : x.n = y.n => x = y

\* seqMap has one digest per height above H, and it has every batch executed
\* there: this is why cleaning drops only batches that were executed.
Window(s, r) ==
  /\ s.prePrep \subseteq s.seqMap
  /\ \A x, y \in s.seqMap : x.n = y.n => x = y
  /\ \A x \in s.seqMap : x.n > s.H
  /\ s.left => s.seqMap = {}
  /\ \A x \in s.executed : x.n <= s.H \/ s.left \/ x \in s.seqMap
  /\ s.left \/ s.batchStore \subseteq s.seqMap \cup s.executed
  /\ r = Primary =>
       s.lastExec <= s.seqNo /\ \A x \in s.seqMap : x.n <= s.seqNo

\* A checkpoint height has its checkpoint before the next block, unless the
\* replica left the view while the block executed; then it executes no more.
Checkpointed(s) ==
  /\ \A n \in Seqs : n < s.lastExec /\ n % K = 0 => n <= s.H \/ n \in s.localCkpt
  /\ s.lastExec % K = 0 =>
       s.waitExec \/ s.left \/ s.lastExec <= s.H \/ s.lastExec \in s.localCkpt

\* The flags of a cert agree with the votes it holds.
Flags(s, r) ==
  /\ s.sentPrepare \subseteq s.prePrep
  /\ \A id \in ID : r \in s.prepare[id] => id \in s.sentPrepare
  /\ \A id \in ID : r \in s.commit[id] => id \in s.sentCommit
  /\ \A id \in s.sentCommit : Prepared(s, id)

Kept(s) ==
  \A id \in s.sentPrepare :
    id.n > s.lastExec => HasBatch(s, id.d) \/ \E x \in s.executed : x.d = id.d

\* Prepared certs have sent their commit, and committed ones are tracked,
\* except those in X.
Wakes(s, r, X) ==
  \A id \in s.prePrep \ X :
    Prepared(s, id) /\ (r = Primary \/ id \in s.sentPrepare) => id \in s.sentCommit

Tracks(s, X) ==
  \A id \in s.sentCommit \ X :
    Committed(s, id) => id \in s.committedCert \cup s.sentExecute

Local(s, r) ==
  /\ s \in State /\ Heights(s) /\ Window(s, r) /\ Checkpointed(s)
  /\ Flags(s, r) /\ Kept(s)

Sound(s, r) == Local(s, r) /\ Wakes(s, r, {}) /\ Tracks(s, {})

\* A handler leaves H alone and never takes a block back.
Advances(s, t) ==
  t.H = s.H /\ t.lastExec >= s.lastExec /\ s.executed \subseteq t.executed

-----------------------------------------------------------------------------
(* Records *)

\* Heights are numbers.
LEMMA Numbers ==
  ASSUME NEW s \in State
  PROVE  /\ s.H \in Nat /\ s.lastExec \in Nat /\ s.seqNo \in Nat
         /\ \A id \in ID : id.n \in Nat /\ id.n >= 1 /\ id.n \in Seqs
         /\ \A n \in Seqs : n \in Nat /\ n >= 1
         /\ s.executed \subseteq ID /\ s.seqMap \subseteq ID /\ s.prePrep \subseteq ID
         /\ s.sentPrepare \subseteq ID /\ s.sentCommit \subseteq ID
         /\ s.batchStore \subseteq ID
         /\ s.localCkpt \subseteq Seqs /\ s.outK \subseteq Seqs
BY ConstantAssumption DEF State, ID, Seqs

LEMMA AdvancesTrans ==
  ASSUME NEW s \in State, NEW t \in State, NEW u \in State,
         Advances(s, t), Advances(t, u)
  PROVE  Advances(s, u)
BY Numbers DEF Advances

\* The fields Sound is about; timers, outstanding and other histories are not.
SameRecord(s, t) ==
  /\ t.prePrep = s.prePrep /\ t.prepare = s.prepare /\ t.commit = s.commit
  /\ t.sentPrepare = s.sentPrepare /\ t.sentCommit = s.sentCommit
  /\ t.sentExecute = s.sentExecute /\ t.committedCert = s.committedCert
  /\ t.seqMap = s.seqMap /\ t.batchStore = s.batchStore /\ t.seqNo = s.seqNo
  /\ t.H = s.H /\ t.lastExec = s.lastExec /\ t.localCkpt = s.localCkpt
  /\ t.waitExec = s.waitExec /\ t.left = s.left /\ t.outK = s.outK
  /\ t.executed = s.executed

\* Local, Wakes and Tracks depend on the fields of SameRecord only.
LEMMA SameRecordKeeps ==
  ASSUME NEW s, NEW t \in State, NEW r, Local(s, r), SameRecord(s, t)
  PROVE  /\ Local(t, r) /\ Advances(s, t)
         /\ \A X : Wakes(s, r, X) => Wakes(t, r, X)
         /\ \A X : Tracks(s, X) => Tracks(t, X)
<1>1. Heights(t) /\ Window(t, r) /\ Checkpointed(t)
  BY DEF Local, SameRecord, Heights, Window, Checkpointed
<1>2. \A id : (Prepared(t, id) <=> Prepared(s, id)) /\ (Committed(t, id) <=> Committed(s, id))
  BY DEF SameRecord, Prepared, Committed
<1>3. Flags(t, r) /\ Kept(t)
  BY <1>2 DEF Local, SameRecord, Flags, Kept, HasBatch
<1>4. Advances(s, t)
  BY Numbers DEF Local, SameRecord, Advances
<1>5. ASSUME NEW X, Wakes(s, r, X) PROVE Wakes(t, r, X)
  BY <1>2, <1>5 DEF SameRecord, Wakes
<1>6. ASSUME NEW X, Tracks(s, X) PROVE Tracks(t, X)
  BY <1>2, <1>6 DEF SameRecord, Tracks
<1> QED BY <1>1, <1>3, <1>4, <1>5, <1>6 DEF Local

\* startTimerIfOutstandingRequests changes the timer only.
LEMMA StartTimerSame ==
  ASSUME NEW s \in State
  PROVE  SameRecord(s, StartTimerIfOutstandingRequests(s))
BY DEF SameRecord, StartTimerIfOutstandingRequests, State

\* Leaving the view is sound: no cert is left, and nothing is executed after.
LEMMA EnterNextViewSound ==
  ASSUME NEW s, NEW r, Local(s, r)
  PROVE  Sound(EnterNextView(s), r) /\ Advances(s, EnterNextView(s))
<1> DEFINE t == EnterNextView(s)
<1>1. s \in State /\ t \in State
  BY EnterNextViewType DEF Local
<1>2. /\ t.prePrep = {} /\ t.seqMap = {} /\ t.left = TRUE
      /\ t.prepare = NoSenders /\ t.commit = NoSenders
      /\ t.sentPrepare = {} /\ t.sentCommit = {} /\ t.outK = s.outK
      /\ t.H = s.H /\ t.seqNo = s.seqNo /\ t.lastExec = s.lastExec
      /\ t.executed = s.executed /\ t.localCkpt = s.localCkpt
      /\ t.waitExec = s.waitExec
  BY <1>1 DEF EnterNextView, State
<1> HIDE DEF t
<1>3. Heights(t) /\ Window(t, r) /\ Checkpointed(t)
  BY <1>2 DEF Local, Heights, Window, Checkpointed
<1>4. Flags(t, r) /\ Kept(t) /\ Wakes(t, r, {}) /\ Tracks(t, {})
  BY <1>2 DEF Flags, Kept, Wakes, Tracks, NoSenders
<1>5. Advances(s, t)
  BY <1>1, <1>2, Numbers DEF Advances
<1> QED BY <1>1, <1>3, <1>4, <1>5 DEF Local, Sound, t

\* sendViewChange is sound.
LEMMA SendViewChangeSound ==
  ASSUME NEW s, NEW r, Sound(s, r)
  PROVE  Sound(SendViewChange(s), r) /\ Advances(s, SendViewChange(s))
<1>1. Advances(s, s)
  BY Numbers DEF Advances, Sound, Local
<1> QED BY <1>1, EnterNextViewSound DEF SendViewChange, Sound

-----------------------------------------------------------------------------
(* Commit and execute *)

\* The heights commitPendingBlocks executes follow lastExec without a gap, and
\* only the last of them may be a checkpoint height.
LEMMA RunFacts ==
  ASSUME NEW s \in State, PendingRun(s) # {}
  PROVE  LET M == Max(PendingRun(s)) IN
         /\ ~s.waitExec
         /\ M \in PendingRun(s) /\ M \in Nat /\ M > s.lastExec
         /\ \A m \in PendingRun(s) : m \in Nat /\ s.lastExec < m /\ m <= M
         /\ \A k \in (s.lastExec + 1) .. M :
              /\ k \in PendingRun(s)
              /\ \E id \in ID : id.n = k /\ Executable(s, id)
              /\ k < M => k % K # 0
<1> DEFINE run == PendingRun(s)
           M == Max(run)
<1>1. run \in SUBSET Seqs
  BY DEF PendingRun
<1>2. M \in run /\ \A y \in run : M >= y
  BY <1>1, MaxInSet
<1>3. s.lastExec \in Nat /\ \A m \in run : m \in Nat
  BY <1>1, Numbers
<1> HIDE DEF M
<1>4. ~s.waitExec /\ M > s.lastExec
      /\ \A k \in (s.lastExec + 1) .. M :
           /\ \E id \in ID : id.n = k /\ Executable(s, id)
           /\ k < M => k % K # 0
  BY <1>2 DEF PendingRun
<1>5. \A m \in run : s.lastExec < m
  BY <1>3 DEF PendingRun
<1>6. ASSUME NEW k \in (s.lastExec + 1) .. M PROVE k \in run
  <2>1. k \in Seqs /\ k > s.lastExec
    BY <1>1, <1>2, <1>3, ConstantAssumption DEF Seqs
  <2>2. ASSUME NEW j \in (s.lastExec + 1) .. k
        PROVE  /\ \E id \in ID : id.n = j /\ Executable(s, id)
               /\ j < k => j % K # 0
    <3>1. j \in (s.lastExec + 1) .. M /\ (j < k => j < M)
      BY <1>2, <1>3, <1>6
    <3> QED BY <1>4, <3>1
  <2> QED BY <1>4, <2>1, <2>2 DEF PendingRun
<1> QED BY <1>2, <1>3, <1>4, <1>5, <1>6 DEF M

\* commitPendingBlocks executes the next heights, each once, and stops at a
\* checkpoint; it forgets no cert.
LEMMA CommitPendingBlocksSound ==
  ASSUME NEW s, NEW r, Local(s, r)
  PROVE  LET u == CommitPendingBlocks(s) IN
         /\ Local(u, r) /\ Advances(s, u) /\ u.left = s.left
         /\ \A X : Wakes(s, r, X) => Wakes(u, r, X)
         /\ \A X : Tracks(s, X) => Tracks(u, X)
<1> DEFINE run == PendingRun(s)
           done == {id \in ID : id.n \in run /\ Executable(s, id)}
           last == IF run = {} THEN s.lastExec ELSE Max(run)
           wait == s.waitExec \/ \E m \in run : m % K = 0
           timer == IF run = {} THEN s.timer ELSE "off"
           out == s.outstanding \ {id.d : id \in done}
           t == [s EXCEPT !.lastExec = last,
                          !.sentExecute = @ \cup done,
                          !.committedCert = @ \ done,
                          !.executed = @ \cup done,
                          !.outstanding = out,
                          !.waitExec = wait,
                          !.timer = timer]
           u == CommitPendingBlocks(s)
<1>0. s \in State /\ u \in State
  BY CommitPendingBlocksType DEF Local
<1>1. u = IF t.waitExec THEN t ELSE StartTimerIfOutstandingRequests(t)
  BY DEF CommitPendingBlocks
<1>2. /\ u.prePrep = s.prePrep /\ u.prepare = s.prepare /\ u.commit = s.commit
      /\ u.sentPrepare = s.sentPrepare /\ u.sentCommit = s.sentCommit
      /\ u.sentExecute = s.sentExecute \cup done
      /\ u.committedCert = s.committedCert \ done
      /\ u.executed = s.executed \cup done
      /\ u.seqMap = s.seqMap /\ u.batchStore = s.batchStore /\ u.seqNo = s.seqNo
      /\ u.H = s.H /\ u.lastExec = last /\ u.localCkpt = s.localCkpt
      /\ u.waitExec = wait /\ u.left = s.left /\ u.outK = s.outK
  <2> HIDE DEF done, last, wait, timer, out, u
  <2> QED BY <1>0, <1>1 DEF StartTimerIfOutstandingRequests, State
<1>3. /\ run = {} => last = s.lastExec /\ wait = s.waitExec
      /\ run # {} =>
           /\ ~s.waitExec /\ last > s.lastExec
           /\ last % K = 0 => wait
           /\ \A k \in (s.lastExec + 1) .. last :
                (\E id \in done : id.n = k) /\ (k < last => k % K # 0)
      /\ last \in Nat /\ last >= s.lastExec /\ s.lastExec \in Nat
      /\ \A id \in done :
           s.lastExec < id.n /\ id.n <= last /\ id \in s.prePrep /\ run # {}
  <2>1. CASE run = {}
    BY <1>0, <2>1, Numbers DEF State
  <2>2. CASE run # {}
    <3> HIDE DEF run
    <3>1. last = Max(run)
      BY <2>2
    <3>2. /\ ~s.waitExec /\ last \in run /\ last \in Nat /\ last > s.lastExec
          /\ \A m \in run : m \in Nat /\ s.lastExec < m /\ m <= last
          /\ \A k \in (s.lastExec + 1) .. last :
              /\ k \in run
              /\ \E id \in ID : id.n = k /\ Executable(s, id)
              /\ k < last => k % K # 0
      <4> HIDE DEF last
      <4> QED BY <1>0, <2>2, <3>1, RunFacts DEF run
    <3> HIDE DEF last
    <3> QED BY <1>0, <2>2, <3>2, Numbers DEF Executable
  <2> QED BY <2>1, <2>2
<1> HIDE DEF run, done, last, wait, u
<1>4. /\ s.H \in Nat /\ s.seqNo \in Nat
      /\ \A id \in ID : id.n \in Nat /\ id.n >= 1
      /\ \A n \in Seqs : n \in Nat /\ n >= 1
      /\ s.executed \subseteq ID /\ s.seqMap \subseteq ID
      /\ s.localCkpt \subseteq Seqs /\ s.outK \subseteq Seqs
      /\ done \subseteq s.seqMap
  BY <1>0, <1>3, Numbers DEF Local, Window
<1>5. Heights(u)
  <2>1. /\ u.H <= u.lastExec
        /\ u.waitExec => u.H < u.lastExec
        /\ \A n \in u.localCkpt \cup u.outK : n <= u.lastExec
        /\ \A id \in u.executed : id.n <= u.lastExec
    BY <1>2, <1>3, <1>4 DEF Local, Heights
  <2>2. ASSUME NEW n \in 1 .. u.lastExec PROVE \E id \in u.executed : id.n = n
    <3>1. CASE n <= s.lastExec
      BY <1>2, <1>3, <3>1 DEF Local, Heights
    <3>2. CASE n > s.lastExec
      BY <1>2, <1>3, <3>2
    <3> QED BY <1>3, <3>1, <3>2
  <2>3. ASSUME NEW x \in u.executed, NEW y \in u.executed, x.n = y.n
        PROVE  x = y
    <3>1. x \in done /\ y \in done => x = y
      BY <1>4, <2>3 DEF Local, Window
    <3>2. x \in s.executed /\ y \in s.executed => x = y
      BY <2>3 DEF Local, Heights
    <3>3. ~(x \in s.executed /\ y \in done) /\ ~(x \in done /\ y \in s.executed)
      BY <1>3, <1>4, <2>3 DEF Local, Heights
    <3> QED BY <1>2, <3>1, <3>2, <3>3
  <2> QED BY <2>1, <2>2, <2>3 DEF Heights
<1>6. Window(u, r)
  <2>1. r = Primary => last <= s.seqNo
    <3>1. CASE run = {}
      BY <1>3, <3>1 DEF Local, Window
    <3>2. CASE run # {}
      <4>1. last \in (s.lastExec + 1) .. last
        BY <1>3, <3>2
      <4> QED BY <1>3, <1>4, <3>2, <4>1 DEF Local, Window
    <3> QED BY <3>1, <3>2
  <2> QED BY <1>2, <1>4, <2>1 DEF Local, Window
<1>7. Checkpointed(u)
  <2>1. ASSUME NEW n \in Seqs, n < u.lastExec, n % K = 0
        PROVE  n <= u.H \/ n \in u.localCkpt
    <3>1. CASE n < s.lastExec
      BY <1>2, <2>1, <3>1 DEF Local, Checkpointed
    <3>2. CASE n = s.lastExec
      <4>1. run # {}
        BY <1>2, <1>3, <2>1, <3>2
      <4>2. last \in (s.lastExec + 1) .. last
        BY <1>3, <4>1
      <4>3. ~s.waitExec /\ ~s.left
        BY <1>3, <1>4, <4>1, <4>2 DEF Local, Window
      <4> QED BY <1>2, <2>1, <3>2, <4>3 DEF Local, Checkpointed
    <3>3. CASE n > s.lastExec
      <4>1. n \in (s.lastExec + 1) .. last /\ n < last
        BY <1>2, <1>3, <1>4, <2>1, <3>3
      <4>2. run # {}
        BY <1>3, <4>1
      <4> QED BY <1>3, <2>1, <4>1, <4>2
    <3> QED BY <1>3, <1>4, <3>1, <3>2, <3>3
  <2>2. u.lastExec % K = 0 =>
          u.waitExec \/ u.left \/ u.lastExec <= u.H \/ u.lastExec \in u.localCkpt
    BY <1>2, <1>3 DEF Local, Checkpointed
  <2> QED BY <2>1, <2>2 DEF Checkpointed
<1>8. \A id : (Prepared(u, id) <=> Prepared(s, id)) /\ (Committed(u, id) <=> Committed(s, id))
  BY <1>2 DEF Prepared, Committed
<1>9. Flags(u, r)
  BY <1>2, <1>8 DEF Local, Flags
<1>10. Kept(u)
  <2> SUFFICES ASSUME NEW id \in s.sentPrepare, id.n > last
               PROVE  HasBatch(s, id.d) \/ \E x \in u.executed : x.d = id.d
    BY <1>2 DEF Kept, HasBatch
  <2>1. id.n > s.lastExec
    BY <1>0, <1>3, Numbers
  <2> QED BY <1>2, <2>1 DEF Local, Kept
<1>11. ASSUME NEW X, Wakes(s, r, X) PROVE Wakes(u, r, X)
  BY <1>2, <1>8, <1>11 DEF Wakes
<1>12. ASSUME NEW X, Tracks(s, X) PROVE Tracks(u, X)
  BY <1>2, <1>8, <1>12 DEF Tracks
<1>13. Advances(s, u)
  BY <1>2, <1>3 DEF Advances
<1> QED
  BY <1>0, <1>2, <1>5, <1>6, <1>7, <1>9, <1>10, <1>11, <1>12, <1>13
  DEF Local, u

\* The fields that Heights, Window and Checkpointed are about.
SameLedger(s, t) ==
  /\ t.prePrep = s.prePrep /\ t.seqMap = s.seqMap /\ t.batchStore = s.batchStore
  /\ t.seqNo = s.seqNo /\ t.H = s.H /\ t.lastExec = s.lastExec
  /\ t.localCkpt = s.localCkpt /\ t.waitExec = s.waitExec /\ t.left = s.left
  /\ t.outK = s.outK /\ t.executed = s.executed

\* A handler that touches only votes and flags keeps them.
LEMMA SameLedgerKeeps ==
  ASSUME NEW s, NEW t \in State, NEW r, Local(s, r), SameLedger(s, t)
  PROVE  Heights(t) /\ Window(t, r) /\ Checkpointed(t) /\ Advances(s, t)
<1>1. Heights(t) /\ Window(t, r) /\ Checkpointed(t)
  BY DEF Local, SameLedger, Heights, Window, Checkpointed
<1>2. Advances(s, t)
  BY Numbers DEF Local, SameLedger, Advances
<1> QED BY <1>1, <1>2

\* recvCommit is sound for the cert at hand even if it was not yet tracked.
LEMMA RecvCommitSound ==
  ASSUME NEW s, NEW r, NEW p, NEW id \in ID,
         Counts(r, p) => p \in Validator,
         Local(s, r), Wakes(s, r, {}), Tracks(s, {id}),
         p = r => id \in s.sentCommit,
         ~IsCommitLegal(s, id) \/ (p \in s.commit[id] /\ id.n <= s.lastExec)
           => Tracks(s, {})
  PROVE  Sound(RecvCommit(s, r, p, id), r) /\ Advances(s, RecvCommit(s, r, p, id))
<1> DEFINE t == IF Counts(r, p)
                THEN [s EXCEPT !.commit[id] = @ \cup {p}] ELSE s
           v == [t EXCEPT !.committedCert = @ \cup {id}]
           u == CommitPendingBlocks(v)
           early == ~IsCommitLegal(s, id) \/ (p \in s.commit[id] /\ id.n <= s.lastExec)
           tracked == Committed(t, id) /\ id \notin t.sentExecute /\ id \in t.sentCommit
<1>0. s \in State /\ t \in State
  BY DEF Local, State
<1>1. /\ SameLedger(s, t) /\ t.prepare = s.prepare
      /\ t.sentPrepare = s.sentPrepare /\ t.sentCommit = s.sentCommit
      /\ t.sentExecute = s.sentExecute /\ t.committedCert = s.committedCert
      /\ \A x \in ID : x # id => t.commit[x] = s.commit[x]
      /\ \A x \in ID : \A q : q \in t.commit[x] => q \in s.commit[x] \/ (q = p /\ x = id)
  BY <1>0 DEF SameLedger, State
<1>2. RecvCommit(s, r, p, id) =
        IF early THEN s
        ELSE IF tracked
             THEN IF ~u.waitExec /\ id.n = ViewChangeSeqNo
                  THEN SendViewChange(u) ELSE u
             ELSE t
  BY DEF RecvCommit
<1> HIDE DEF t
<1>3. Local(t, r) /\ Wakes(t, r, {}) /\ Tracks(t, {id}) /\ Advances(s, t)
  <2>1. Heights(t) /\ Window(t, r) /\ Checkpointed(t) /\ Advances(s, t)
    BY <1>0, <1>1, SameLedgerKeeps
  <2>2. \A x : Prepared(t, x) <=> Prepared(s, x)
    BY <1>1 DEF Prepared, SameLedger
  <2>3. \A x \in ID : x # id => (Committed(t, x) <=> Committed(s, x))
    BY <1>1, <2>2 DEF Committed
  <2>4. Flags(t, r) /\ Kept(t)
    BY <1>1, <2>2 DEF Local, Flags, Kept, HasBatch, SameLedger
  <2>5. Wakes(t, r, {})
    BY <1>1, <2>2 DEF Wakes, SameLedger
  <2>6. Tracks(t, {id})
    BY <1>0, <1>1, <2>3, Numbers DEF Tracks
  <2> QED BY <1>0, <2>1, <2>4, <2>5, <2>6 DEF Local
<1>4. ~tracked => Tracks(t, {})
  BY <1>3 DEF Tracks
<1>5. v \in State /\ SameLedger(t, v) /\ v.prepare = t.prepare
      /\ v.sentPrepare = t.sentPrepare /\ v.sentCommit = t.sentCommit
      /\ v.sentExecute = t.sentExecute /\ v.commit = t.commit
      /\ v.committedCert = t.committedCert \cup {id}
  BY <1>0 DEF SameLedger, State
<1> HIDE DEF v
<1>6. Local(v, r) /\ Wakes(v, r, {}) /\ Tracks(v, {}) /\ Advances(t, v)
  <2>1. Heights(v) /\ Window(v, r) /\ Checkpointed(v) /\ Advances(t, v)
    BY <1>3, <1>5, SameLedgerKeeps
  <2>2. \A x : (Prepared(v, x) <=> Prepared(t, x)) /\ (Committed(v, x) <=> Committed(t, x))
    BY <1>5 DEF Prepared, Committed, SameLedger
  <2>3. Flags(v, r) /\ Kept(v)
    BY <1>3, <1>5, <2>2 DEF Local, Flags, Kept, HasBatch, SameLedger
  <2>4. Wakes(v, r, {})
    BY <1>3, <1>5, <2>2 DEF Wakes, SameLedger
  <2>5. Tracks(v, {})
    BY <1>3, <1>5, <2>2 DEF Tracks
  <2> QED BY <1>5, <2>1, <2>3, <2>4, <2>5 DEF Local
<1>7. Sound(u, r) /\ Advances(v, u)
  BY <1>6, CommitPendingBlocksSound DEF Sound
<1>8. u \in State /\ v \in State /\ SendViewChange(u) \in State
  BY <1>5, <1>7, SendViewChangeType DEF Sound, Local
<1> HIDE DEF u
<1>9. Sound(SendViewChange(u), r) /\ Advances(u, SendViewChange(u))
  BY <1>7, SendViewChangeSound
<1>10. Advances(s, u)
  BY <1>0, <1>3, <1>6, <1>7, <1>8, AdvancesTrans
<1>11. Advances(s, SendViewChange(u))
  BY <1>0, <1>8, <1>9, <1>10, AdvancesTrans
<1>12. early => Sound(s, r) /\ Advances(s, s)
  BY <1>0, Numbers DEF Sound, Advances
<1>13. ~tracked => Sound(t, r)
  BY <1>3, <1>4 DEF Sound
<1> HIDE DEF early, tracked
<1> QED BY <1>2, <1>3, <1>7, <1>9, <1>10, <1>11, <1>12, <1>13

\* sendCommit is sound for a prepared cert: its own commit is never refused,
\* so the cert is tracked if it is already committed.
LEMMA SendCommitSound ==
  ASSUME NEW s, NEW r, NEW id \in ID,
         Local(s, r), Wakes(s, r, {id}), Tracks(s, {}),
         Prepared(s, id), id \notin s.sentCommit, ~s.left
  PROVE  Sound(SendCommit(s, r, id), r) /\ Advances(s, SendCommit(s, r, id))
<1> DEFINE t == [s EXCEPT !.sentCommit = @ \cup {id},
                          !.outC = IF r \in Validator THEN @ \cup {id} ELSE @]
<1>0. s \in State
  BY DEF Local
<1>1. t \in State
  BY <1>0 DEF State
<1>2. /\ SameLedger(s, t) /\ t.prepare = s.prepare /\ t.commit = s.commit
      /\ t.sentPrepare = s.sentPrepare /\ t.sentCommit = s.sentCommit \cup {id}
      /\ t.sentExecute = s.sentExecute /\ t.committedCert = s.committedCert
  BY <1>0 DEF SameLedger, State
<1>3. SendCommit(s, r, id) = RecvCommit(t, r, r, id)
  BY DEF SendCommit
<1> HIDE DEF t
<1>4. Heights(t) /\ Window(t, r) /\ Checkpointed(t) /\ Advances(s, t)
  BY <1>1, <1>2, SameLedgerKeeps
<1>5. \A x : (Prepared(t, x) <=> Prepared(s, x)) /\ (Committed(t, x) <=> Committed(s, x))
  BY <1>2 DEF Prepared, Committed, SameLedger
<1>6. Flags(t, r) /\ Kept(t)
  BY <1>2, <1>5 DEF Local, Flags, Kept, HasBatch, SameLedger
<1>7. Wakes(t, r, {})
  BY <1>2, <1>5 DEF Wakes, SameLedger
<1>8. Tracks(t, {id})
  BY <1>2, <1>5 DEF Tracks
<1>9. IsCommitLegal(t, id) /\ r \notin t.commit[id]
  BY <1>2 DEF IsCommitLegal, InWV, SameLedger, Local, Flags, Window, Prepared
<1>10. Counts(r, r) => r \in Validator
  BY DEF Counts
<1>11. Local(t, r) /\ id \in t.sentCommit
  BY <1>1, <1>2, <1>4, <1>6 DEF Local
<1>12. Sound(RecvCommit(t, r, r, id), r) /\ Advances(t, RecvCommit(t, r, r, id))
  BY <1>7, <1>8, <1>9, <1>10, <1>11, RecvCommitSound
<1>13. Advances(s, RecvCommit(t, r, r, id))
  BY <1>0, <1>1, <1>4, <1>12, AdvancesTrans DEF Sound, Local
<1> QED BY <1>3, <1>12, <1>13

\* maybeSendCommit wakes the cert at hand.
LEMMA MaybeSendCommitSound ==
  ASSUME NEW s, NEW r, NEW id \in ID,
         Local(s, r), Wakes(s, r, {id}), Tracks(s, {}), ~s.left
  PROVE  /\ Sound(MaybeSendCommit(s, r, id), r)
         /\ Advances(s, MaybeSendCommit(s, r, id))
<1> DEFINE sends == /\ Prepared(s, id)
                    /\ r = Primary \/ id \in s.sentPrepare
                    /\ id \notin s.sentCommit
<1>1. MaybeSendCommit(s, r, id) = IF sends THEN SendCommit(s, r, id) ELSE s
  BY DEF MaybeSendCommit
<1>2. CASE sends
  BY <1>1, <1>2, SendCommitSound
<1>3. CASE ~sends
  <2>1. Wakes(s, r, {})
    BY <1>3 DEF Wakes
  <2>2. Advances(s, s)
    BY Numbers DEF Advances, Local
  <2> QED BY <1>1, <1>3, <2>1, <2>2 DEF Sound
<1> QED BY <1>2, <1>3

-----------------------------------------------------------------------------
(* Prepare and pre-prepare *)

\* recvPrepare is sound for the cert at hand even if it was not yet woken.
LEMMA RecvPrepareSound ==
  ASSUME NEW s, NEW r, NEW p, NEW id \in ID,
         Counts(r, p) => p \in Validator,
         Local(s, r), Wakes(s, r, {id}), Tracks(s, {}),
         p = r => id \in s.sentPrepare,
         ~IsPrepareLegal(s, p, id) \/ p \in s.prepare[id] => Wakes(s, r, {})
  PROVE  /\ Sound(RecvPrepare(s, r, p, id), r)
         /\ Advances(s, RecvPrepare(s, r, p, id))
<1> DEFINE t == IF Counts(r, p)
                THEN [s EXCEPT !.prepare[id] = @ \cup {p}] ELSE s
           early == ~IsPrepareLegal(s, p, id) \/ p \in s.prepare[id]
<1>0. s \in State /\ t \in State
  BY DEF Local, State
<1>1. /\ SameLedger(s, t) /\ t.commit = s.commit
      /\ t.sentPrepare = s.sentPrepare /\ t.sentCommit = s.sentCommit
      /\ t.sentExecute = s.sentExecute /\ t.committedCert = s.committedCert
      /\ \A x \in ID : x # id => t.prepare[x] = s.prepare[x]
      /\ \A x \in ID : s.prepare[x] \subseteq t.prepare[x]
      /\ \A x \in ID : \A q : q \in t.prepare[x] => q \in s.prepare[x] \/ (q = p /\ x = id)
  BY <1>0 DEF SameLedger, State
<1>2. RecvPrepare(s, r, p, id) = IF early THEN s ELSE MaybeSendCommit(t, r, id)
  BY DEF RecvPrepare
<1> HIDE DEF t
<1>3. CASE early
  <2>1. Advances(s, s)
    BY <1>0, Numbers DEF Advances
  <2> QED BY <1>2, <1>3, <2>1 DEF Sound
<1>4. CASE ~early
  <2>1. Heights(t) /\ Window(t, r) /\ Checkpointed(t) /\ Advances(s, t)
    BY <1>0, <1>1, SameLedgerKeeps
  <2>2. \A x \in ID : Cardinality(s.prepare[x]) \in Nat /\ Cardinality(t.prepare[x]) \in Nat
                      /\ Cardinality(s.prepare[x]) <= Cardinality(t.prepare[x])
    <3> SUFFICES ASSUME NEW x \in ID
                 PROVE  Cardinality(s.prepare[x]) \in Nat /\ Cardinality(t.prepare[x]) \in Nat
                        /\ Cardinality(s.prepare[x]) <= Cardinality(t.prepare[x])
      OBVIOUS
    <3>1. s.prepare[x] \in SUBSET Validator /\ t.prepare[x] \in SUBSET Validator
      BY <1>0 DEF State
    <3> QED BY <1>1, <3>1, Counting
  <2>3. \A x \in ID : Prepared(s, x) => Prepared(t, x)
    BY <1>1, <2>2, QuorumType DEF Prepared, SameLedger
  <2>4. \A x \in ID : x # id => (Prepared(t, x) <=> Prepared(s, x))
    BY <1>1 DEF Prepared, SameLedger
  <2>5. Flags(t, r) /\ Kept(t)
    BY <1>0, <1>1, <2>3, Numbers DEF Local, Flags, Kept, HasBatch, SameLedger
  <2>6. Wakes(t, r, {id})
    BY <1>0, <1>1, <2>4, Numbers DEF Wakes, SameLedger
  <2>7. Tracks(t, {})
    BY <1>1 DEF Tracks, Committed, Local, Flags
  <2>8. ~t.left
    BY <1>1, <1>4 DEF IsPrepareLegal, InWV, SameLedger
  <2>9. Local(t, r)
    BY <1>0, <2>1, <2>5 DEF Local
  <2>10. Sound(MaybeSendCommit(t, r, id), r) /\ Advances(t, MaybeSendCommit(t, r, id))
    BY <2>6, <2>7, <2>8, <2>9, MaybeSendCommitSound
  <2>11. Advances(s, MaybeSendCommit(t, r, id))
    BY <1>0, <2>1, <2>10, AdvancesTrans DEF Sound, Local
  <2> QED BY <1>2, <1>4, <2>10, <2>11
<1> QED BY <1>3, <1>4

\* sendPrepare is sound for a batch at hand: its own prepare is counted at
\* once, unless it was counted before.
LEMMA SendPrepareSound ==
  ASSUME NEW s, NEW r, NEW id \in ID, Sound(s, r),
         r # Primary, ~s.left, id \in s.prePrep, HasBatch(s, id.d)
  PROVE  Sound(SendPrepare(s, r, id), r) /\ Advances(s, SendPrepare(s, r, id))
<1> DEFINE t == [s EXCEPT !.sentPrepare = @ \cup {id},
                          !.outP = IF r \in Validator THEN @ \cup {id} ELSE @]
<1>0. s \in State
  BY DEF Sound, Local
<1>1. t \in State
  BY <1>0 DEF State
<1>2. /\ SameLedger(s, t) /\ t.prepare = s.prepare /\ t.commit = s.commit
      /\ t.sentPrepare = s.sentPrepare \cup {id} /\ t.sentCommit = s.sentCommit
      /\ t.sentExecute = s.sentExecute /\ t.committedCert = s.committedCert
  BY <1>0 DEF SameLedger, State
<1>3. SendPrepare(s, r, id) = RecvPrepare(t, r, r, id)
  BY DEF SendPrepare
<1> HIDE DEF t
<1>4. Heights(t) /\ Window(t, r) /\ Checkpointed(t) /\ Advances(s, t)
  BY <1>1, <1>2, SameLedgerKeeps DEF Sound
<1>5. \A x : (Prepared(t, x) <=> Prepared(s, x)) /\ (Committed(t, x) <=> Committed(s, x))
  BY <1>2 DEF Prepared, Committed, SameLedger
<1>6. Flags(t, r) /\ Kept(t)
  BY <1>2, <1>5 DEF Sound, Local, Flags, Kept, HasBatch, SameLedger
<1>7. Wakes(t, r, {id})
  BY <1>2, <1>5 DEF Sound, Wakes, SameLedger
<1>8. Tracks(t, {})
  BY <1>2, <1>5 DEF Sound, Tracks
<1>9. IsPrepareLegal(t, r, id)
  BY <1>2 DEF IsPrepareLegal, InWV, SameLedger, Sound, Local, Window
<1>10. r \in t.prepare[id] => Wakes(t, r, {})
  BY <1>2, <1>5 DEF Sound, Local, Flags, Wakes, SameLedger
<1>11. Counts(r, r) => r \in Validator
  BY DEF Counts
<1>12. Local(t, r) /\ id \in t.sentPrepare
  BY <1>1, <1>2, <1>4, <1>6 DEF Local
<1>13. Sound(RecvPrepare(t, r, r, id), r) /\ Advances(t, RecvPrepare(t, r, r, id))
  BY <1>7, <1>8, <1>9, <1>10, <1>11, <1>12, RecvPrepareSound
<1>14. Advances(s, RecvPrepare(t, r, r, id))
  BY <1>0, <1>1, <1>4, <1>13, AdvancesTrans DEF Sound, Local
<1> QED BY <1>3, <1>13, <1>14

\* findNextPrepareBatch prepares only a batch that it has, or fetches it.
LEMMA FindNextPrepareBatchSound ==
  ASSUME NEW s, NEW r, NEW id \in ID, NEW pool \in PoolResult, Sound(s, r),
         r # Primary
  PROVE  /\ Sound(FindNextPrepareBatch(s, r, id, pool), r)
         /\ Advances(s, FindNextPrepareBatch(s, r, id, pool))
<1> DEFINE found == [s EXCEPT !.batchStore = @ \cup {id},
                              !.outstanding = @ \cup {id.d}]
           miss == [s EXCEPT !.missing = @ \cup {id}]
           out == FindNextPrepareBatch(s, r, id, pool)
<1>0. s \in State /\ Advances(s, s)
  BY Numbers DEF Sound, Local, Advances
<1>1. pool \in {"found", "missing", "error"}
  BY ConstantAssumption
<1>2. \/ out \in {s, SendViewChange(s), miss}
      \/ /\ ~s.left /\ id \in s.prePrep
         /\ \/ HasBatch(s, id.d) /\ out = SendPrepare(s, r, id)
            \/ out = SendPrepare(found, r, id)
  BY <1>1, Zenon DEF FindNextPrepareBatch
<1>3. Sound(miss, r) /\ Advances(s, miss)
  <2>1. miss \in State /\ SameRecord(s, miss)
    BY <1>0 DEF State, SameRecord
  <2> HIDE DEF miss
  <2> QED BY <2>1, SameRecordKeeps DEF Sound
<1>4. ASSUME ~s.left, id \in s.prePrep, HasBatch(s, id.d)
      PROVE  Sound(SendPrepare(s, r, id), r) /\ Advances(s, SendPrepare(s, r, id))
  BY <1>4, SendPrepareSound
<1>5. ASSUME ~s.left, id \in s.prePrep
      PROVE  Sound(SendPrepare(found, r, id), r) /\ Advances(s, SendPrepare(found, r, id))
  <2>1. /\ found \in State
        /\ found.prePrep = s.prePrep /\ found.prepare = s.prepare
        /\ found.commit = s.commit
        /\ found.sentPrepare = s.sentPrepare /\ found.sentCommit = s.sentCommit
        /\ found.sentExecute = s.sentExecute
        /\ found.committedCert = s.committedCert
        /\ found.seqMap = s.seqMap /\ found.batchStore = s.batchStore \cup {id}
        /\ found.seqNo = s.seqNo /\ found.H = s.H
        /\ found.lastExec = s.lastExec /\ found.localCkpt = s.localCkpt
        /\ found.waitExec = s.waitExec /\ found.left = s.left
        /\ found.outK = s.outK /\ found.executed = s.executed
    BY <1>0 DEF State, ID
  <2> HIDE DEF found
  <2>2. Heights(found) /\ Checkpointed(found)
    BY <2>1 DEF Sound, Local, Heights, Checkpointed
  <2>3. Window(found, r)
    BY <1>5, <2>1 DEF Sound, Local, Window
  <2>4. \A x : (Prepared(found, x) <=> Prepared(s, x)) /\ (Committed(found, x) <=> Committed(s, x))
    BY <2>1 DEF Prepared, Committed
  <2>5. Flags(found, r) /\ Kept(found)
    BY <2>1, <2>4 DEF Sound, Local, Flags, Kept, HasBatch
  <2>6. Wakes(found, r, {}) /\ Tracks(found, {})
    BY <2>1, <2>4 DEF Sound, Wakes, Tracks
  <2>7. Sound(found, r) /\ Advances(s, found)
    BY <1>0, <2>1, <2>2, <2>3, <2>5, <2>6 DEF Sound, Local, Advances
  <2>8. HasBatch(found, id.d)
    BY <2>1 DEF HasBatch
  <2>9. /\ Sound(SendPrepare(found, r, id), r)
        /\ Advances(found, SendPrepare(found, r, id))
    BY <1>5, <2>1, <2>7, <2>8, SendPrepareSound
  <2> QED BY <1>0, <2>1, <2>7, <2>9, AdvancesTrans DEF Sound, Local
<1> HIDE DEF found, miss, out
<1>6. Sound(out, r) /\ Advances(s, out)
  BY <1>0, <1>2, <1>3, <1>4, <1>5, SendViewChangeSound
<1> QED BY <1>6 DEF out

\* recvPrePrepare is sound: a second digest for a height is refused, and a
\* cert that was prepared before its pre-prepare came waits for its batch.
LEMMA RecvPrePrepareSound ==
  ASSUME NEW s, NEW r, NEW id \in ID, NEW valid, NEW pool \in PoolResult,
         Sound(s, r), r # Primary, InWV(s, id.n)
  PROVE  /\ Sound(RecvPrePrepare(s, r, id, valid, pool), r)
         /\ Advances(s, RecvPrePrepare(s, r, id, valid, pool))
<1> DEFINE timer == IF id.n > s.lastExec THEN SoftStart(s.timer) ELSE s.timer
           t == [s EXCEPT !.prePrep = @ \cup {id},
                          !.seqMap = @ \cup {id},
                          !.timer = timer]
           out == RecvPrePrepare(s, r, id, valid, pool)
           find == FindNextPrepareBatch(t, r, id, pool)
<1>0. s \in State /\ Advances(s, s)
  BY Numbers DEF Sound, Local, Advances
<1>1. timer \in TimerState
  BY <1>0 DEF State, SoftStart, TimerState
<1>2. /\ out = IF Conflicts(s, id) \/ ~valid THEN SendViewChange(s)
               ELSE IF id \in t.sentPrepare THEN t ELSE find
  BY DEF RecvPrePrepare
<1> HIDE DEF timer
<1>3. /\ t \in State
      /\ t.prePrep = s.prePrep \cup {id} /\ t.prepare = s.prepare
      /\ t.commit = s.commit
      /\ t.sentPrepare = s.sentPrepare /\ t.sentCommit = s.sentCommit
      /\ t.sentExecute = s.sentExecute
      /\ t.committedCert = s.committedCert
      /\ t.seqMap = s.seqMap \cup {id} /\ t.batchStore = s.batchStore
      /\ t.seqNo = s.seqNo /\ t.H = s.H
      /\ t.lastExec = s.lastExec /\ t.localCkpt = s.localCkpt
      /\ t.waitExec = s.waitExec /\ t.left = s.left
      /\ t.outK = s.outK /\ t.executed = s.executed
  BY <1>0, <1>1 DEF State
<1> HIDE DEF t, out, find
<1>4. ASSUME ~Conflicts(s, id) PROVE Sound(t, r) /\ Advances(s, t)
  <2>1. Heights(t) /\ Checkpointed(t)
    BY <1>3 DEF Sound, Local, Heights, Checkpointed
  <2>2. \A x \in s.seqMap : x.n = id.n => x = id
    BY <1>0, <1>4 DEF Conflicts, State, ID
  <2>3. Window(t, r)
    BY <1>3, <2>2 DEF Sound, Local, Window, InWV
  <2>4. \A x : (Prepared(s, x) => Prepared(t, x))
               /\ (x # id => (Prepared(t, x) <=> Prepared(s, x)))
    BY <1>3 DEF Prepared
  <2>5. Flags(t, r) /\ Kept(t)
    BY <1>3, <2>4 DEF Sound, Local, Flags, Kept, HasBatch
  <2>6. \A x \in s.prePrep : Prepared(t, x) <=> Prepared(s, x)
    BY <1>3 DEF Prepared
  <2>7. s.sentPrepare \subseteq s.prePrep /\ s.sentCommit \subseteq s.prePrep
    BY DEF Sound, Local, Flags, Prepared
  <2>8. Wakes(t, r, {})
    BY <1>3, <2>6, <2>7 DEF Sound, Wakes
  <2>9. Tracks(t, {})
    BY <1>3, <2>6, <2>7 DEF Sound, Tracks, Committed
  <2>10. Advances(s, t)
    BY <1>0, <1>3 DEF Advances
  <2> QED BY <1>3, <2>1, <2>3, <2>5, <2>8, <2>9, <2>10 DEF Sound, Local
<1>5. ASSUME ~Conflicts(s, id) PROVE Sound(find, r) /\ Advances(s, find)
  <2>1. Sound(find, r) /\ Advances(t, find)
    BY <1>4, <1>5, FindNextPrepareBatchSound DEF find
  <2> QED BY <1>0, <1>3, <1>4, <1>5, <2>1, AdvancesTrans DEF Sound, Local
<1>6. Sound(out, r) /\ Advances(s, out)
  BY <1>2, <1>4, <1>5, SendViewChangeSound
<1> QED BY <1>6 DEF out

\* The primary proposes a fresh height; its cert cannot be prepared yet.
LEMMA MaybeSendPrePrepareSound ==
  ASSUME NEW s, NEW r, NEW id \in ID, Sound(s, r), ~s.left, id.n = s.seqNo + 1,
         r = Primary, ~(Cardinality(s.prepare[id]) >= CommonCaseQuorum - 1)
  PROVE  Sound(MaybeSendPrePrepare(s, id), r) /\ Advances(s, MaybeSendPrePrepare(s, id))
<1> DEFINE out == s.outstanding \cup {id.d}
           store == {b \in s.batchStore : b.d # id.d} \cup {id}
           timer == SoftStart(s.timer)
           n == id.n
           t == [s EXCEPT !.outstanding = out, !.batchStore = store,
                          !.timer = timer, !.prePrep = @ \cup {id},
                          !.seqMap = @ \cup {id}, !.outPP = @ \cup {id},
                          !.seqNo = n]
<1>0. s \in State /\ MaybeSendPrePrepare(s, id) \in State
  BY MaybeSendPrePrepareType DEF Sound, Local
<1>1. MaybeSendPrePrepare(s, id) = t
  BY DEF MaybeSendPrePrepare
<1>2. t \in State
  BY <1>0, <1>1, Zenon
<1>3. /\ t.prePrep = s.prePrep \cup {id} /\ t.prepare = s.prepare
      /\ t.commit = s.commit
      /\ t.sentPrepare = s.sentPrepare /\ t.sentCommit = s.sentCommit
      /\ t.sentExecute = s.sentExecute
      /\ t.committedCert = s.committedCert
      /\ t.seqMap = s.seqMap \cup {id} /\ t.batchStore = store
      /\ t.seqNo = n /\ t.H = s.H
      /\ t.lastExec = s.lastExec /\ t.localCkpt = s.localCkpt
      /\ t.waitExec = s.waitExec /\ t.left = s.left
      /\ t.outK = s.outK /\ t.executed = s.executed
  <2> HIDE DEF out, store, timer, n
  <2> QED BY <1>0 DEF State
<1> HIDE DEF t
<1>4. Heights(t) /\ Checkpointed(t)
  BY <1>3 DEF Sound, Local, Heights, Checkpointed
<1>5. s.seqNo \in Nat /\ s.H \in Nat /\ s.lastExec \in Nat /\ n \in Nat
      /\ s.seqMap \subseteq ID /\ \A x \in ID : x.n \in Nat
  BY <1>0, Numbers
<1>6. Window(t, r)
  <2>1. \A x \in s.seqMap : x.n < id.n
    BY <1>5 DEF Sound, Local, Window
  <2>2. \A x, y \in t.seqMap : x.n = y.n => x = y
    BY <1>3, <1>5, <2>1 DEF Sound, Local, Window
  <2>3. \A x \in t.seqMap : x.n > t.H
    BY <1>3, <1>5 DEF Sound, Local, Window, Heights
  <2>4. t.lastExec <= t.seqNo /\ \A x \in t.seqMap : x.n <= t.seqNo
    BY <1>3, <1>5, <2>1 DEF Sound, Local, Window
  <2> QED BY <1>3, <2>2, <2>3, <2>4 DEF Sound, Local, Window
<1>7. ~Prepared(t, id) /\ \A x \in s.prePrep : Prepared(t, x) <=> Prepared(s, x)
  BY <1>3 DEF Prepared
<1>8. s.sentPrepare \subseteq s.prePrep /\ s.sentCommit \subseteq s.prePrep
  BY DEF Sound, Local, Flags, Prepared
<1>9. Flags(t, r)
  BY <1>3, <1>7, <1>8 DEF Sound, Local, Flags
<1>10. \A d : HasBatch(s, d) => HasBatch(t, d)
  BY <1>3 DEF HasBatch
<1>11. Kept(t)
  BY <1>3, <1>10 DEF Sound, Local, Kept
<1>12. Wakes(t, r, {})
  BY <1>3, <1>7 DEF Sound, Wakes
<1>13. Tracks(t, {})
  BY <1>3, <1>7, <1>8 DEF Sound, Tracks, Committed
<1>14. Advances(s, t)
  BY <1>3, <1>5 DEF Advances
<1> QED
  BY <1>1, <1>2, <1>4, <1>6, <1>9, <1>11, <1>12, <1>13, <1>14 DEF Sound, Local

-----------------------------------------------------------------------------
(* Checkpoint *)

\* The batches moveWatermarks(n) drops are those of heights up to n.
LEMMA CleanTargetBelow ==
  ASSUME NEW n \in Nat
  PROVE  CleanTarget(n) \in Int /\ CleanTarget(n) <= n
<1> DEFINE pos == (n \div K) * K
           target == IF pos <= K THEN 0 ELSE pos - K
<1>1. K \in Nat /\ K # 0 /\ CacheNumber \in Nat
  BY ConstantAssumption
<1>2. n \div K \in Int
  BY <1>1
<1>3. pos \in Int
  <2> DEFINE q == n \div K
  <2> HIDE DEF q
  <2>1. q * K \in Int
    BY <1>1, <1>2 DEF q
  <2> QED BY <2>1 DEF q
<1>4. CleanTarget(n) = IF n - target >= CacheNumber THEN target
                       ELSE IF n > CacheNumber THEN n - CacheNumber ELSE 0
  BY DEF CleanTarget
<1> HIDE DEF pos
<1>5. target \in Int
  BY <1>1, <1>3
<1> HIDE DEF target
<1> QED BY <1>1, <1>4, <1>5

\* moveWatermarks to a height that was executed drops no batch that is still
\* needed, no checkpoint above it and no cert that is still open.
LEMMA MoveWatermarksSound ==
  ASSUME NEW s, NEW r, NEW h \in Seqs, Sound(s, r), ~s.waitExec,
         s.H < h, h <= s.lastExec
  PROVE  LET t == MoveWatermarks(s, h) IN
         Sound(t, r) /\ t.H = h /\ t.lastExec = s.lastExec /\ t.executed = s.executed
<1> DEFINE t == MoveWatermarks(s, h)
<1>0. s \in State /\ t \in State
  BY MoveWatermarksFields DEF Sound, Local
<1>1. /\ s.H \in Nat /\ h \in Nat /\ h >= 1 /\ s.lastExec \in Nat
      /\ \A id \in ID : id.n \in Nat /\ id.n >= 1
      /\ \A n \in Seqs : n \in Nat
      /\ s.executed \subseteq ID /\ s.seqMap \subseteq ID /\ s.prePrep \subseteq ID
      /\ s.sentPrepare \subseteq ID /\ s.sentCommit \subseteq ID
      /\ s.batchStore \subseteq ID
      /\ s.localCkpt \subseteq Seqs /\ s.outK \subseteq Seqs
  BY <1>0, Numbers
<1>2. Cleaned(s, h, t)
  BY <1>0, <1>1, MoveWatermarksFields
<1> HIDE DEF t
<1>3. Heights(t)
  BY <1>1, <1>2 DEF Sound, Local, Heights, Cleaned
\* What seqMap has up to lastExec is what was executed.
<1>4. ASSUME NEW b \in s.seqMap, b.n <= s.lastExec PROVE b \in s.executed
  <2>1. PICK e \in s.executed : e.n = b.n
    BY <1>1, <1>4 DEF Sound, Local, Heights
  <2>2. e.n > s.H /\ ~s.left
    BY <1>1, <1>4, <2>1 DEF Sound, Local, Window
  <2>3. e \in s.seqMap
    BY <1>1, <2>2 DEF Sound, Local, Window
  <2> QED BY <1>4, <2>1, <2>3 DEF Sound, Local, Window
<1>5. Window(t, r)
  <2>1. /\ t.prePrep \subseteq t.seqMap
        /\ \A x, y \in t.seqMap : x.n = y.n => x = y
        /\ \A x \in t.seqMap : x.n > t.H
        /\ t.left => t.seqMap = {}
        /\ r = Primary =>
             t.lastExec <= t.seqNo /\ \A x \in t.seqMap : x.n <= t.seqNo
    BY <1>2 DEF Sound, Local, Window, Cleaned
  <2>2. \A x \in t.executed : x.n <= t.H \/ t.left \/ x \in t.seqMap
    BY <1>1, <1>2 DEF Sound, Local, Window, Cleaned
  <2>3. ASSUME ~t.left, NEW b \in t.batchStore PROVE b \in t.seqMap \cup t.executed
    <3>1. b \in s.seqMap \cup s.executed
      BY <1>2, <2>3 DEF Sound, Local, Window, Cleaned
    <3> QED BY <1>1, <1>2, <1>4, <3>1 DEF Cleaned
  <2> QED BY <2>1, <2>2, <2>3 DEF Window
<1>6. Checkpointed(t)
  BY <1>1, <1>2 DEF Sound, Local, Checkpointed, Cleaned
<1>7. \A x \in ID : x.n > h =>
        (Prepared(t, x) <=> Prepared(s, x)) /\ (Committed(t, x) <=> Committed(s, x))
  BY <1>2 DEF Prepared, Committed, Cleaned
<1>8. Flags(t, r)
  BY <1>1, <1>2, <1>7 DEF Sound, Local, Flags, Cleaned
<1>9. Kept(t)
  <2> SUFFICES ASSUME NEW id \in t.sentPrepare, id.n > t.lastExec
               PROVE  HasBatch(t, id.d) \/ \E x \in t.executed : x.d = id.d
    BY DEF Kept
  <2>1. id \in s.sentPrepare /\ id.n > s.lastExec /\ ~s.left
    BY <1>2 DEF Cleaned, Sound, Local, Flags, Window
  <2>2. SUFFICES ASSUME NEW b \in s.batchStore, b.d = id.d
                 PROVE  b \in t.batchStore \/ b \in s.executed
    BY <1>2, <2>1 DEF Sound, Local, Kept, HasBatch, Cleaned
  <2>3. CleanTarget(h) \in Int /\ CleanTarget(h) <= h
    BY <1>1, CleanTargetBelow
  <2>4. CASE b.n > CleanTarget(h)
    BY <1>2, <2>4 DEF Cleaned
  <2>5. CASE b.n <= h
    BY <1>1, <1>4, <2>1, <2>5 DEF Sound, Local, Window
  <2> QED BY <1>1, <2>3, <2>4, <2>5
<1>10. Wakes(t, r, {})
  BY <1>1, <1>2, <1>7 DEF Sound, Wakes, Cleaned
<1>11. Tracks(t, {})
  <2> SUFFICES ASSUME NEW x \in t.sentCommit, Committed(t, x)
               PROVE  x \in t.committedCert \cup t.sentExecute
    BY DEF Tracks
  <2>1. x \in s.sentCommit /\ x \in ID /\ x.n > h /\ Committed(s, x)
    BY <1>1, <1>2, <1>7 DEF Cleaned
  <2>2. x \in s.committedCert \cup s.sentExecute /\ ~(x.n <= h)
    BY <1>1, <2>1 DEF Sound, Tracks
  <2> QED BY <1>2, <2>1, <2>2 DEF Cleaned
<1>12. Sound(t, r) /\ t.H = h /\ t.lastExec = s.lastExec /\ t.executed = s.executed
  BY <1>0, <1>2, <1>3, <1>5, <1>6, <1>8, <1>9, <1>10, <1>11
  DEF Sound, Local, Cleaned
<1> QED BY <1>12 DEF t

\* The end of recvCheckpoint is sound.
LEMMA FinishNormalCheckpointSound ==
  ASSUME NEW s, NEW r, NEW n \in Seqs, Sound(s, r), ~s.waitExec,
         s.H < n, n <= s.lastExec
  PROVE  LET t == FinishNormalCheckpoint(s, n) IN
         Sound(t, r) /\ t.H = n /\ t.lastExec = s.lastExec /\ t.executed = s.executed
<1> DEFINE w == [s EXCEPT !.waitFin = FALSE]
<1>1. s \in State /\ w \in State
  BY DEF Sound, Local, State
<1>2. SameRecord(s, w)
  BY <1>1 DEF SameRecord, State
<1>3. FinishNormalCheckpoint(s, n) = MoveWatermarks(w, n)
  BY DEF FinishNormalCheckpoint
<1> HIDE DEF w
<1>4. Sound(w, r)
  BY <1>1, <1>2, SameRecordKeeps DEF Sound
<1>5. /\ ~w.waitExec /\ w.H < n /\ n <= w.lastExec /\ w.lastExec = s.lastExec
      /\ w.executed = s.executed
  BY <1>2 DEF SameRecord
<1> QED BY <1>3, <1>4, <1>5, MoveWatermarksSound

\* The checkpoint of an executed block is generated, or the view was left.
LEMMA CheckpointSound ==
  ASSUME NEW s, NEW r, Sound(s, r), s.waitExec
  PROVE  LET t == Checkpoint([s EXCEPT !.waitExec = FALSE, !.waitFin = TRUE], r) IN
         /\ Sound(t, r) /\ ~t.waitExec /\ t.H = s.H /\ t.lastExec = s.lastExec
         /\ t.executed = s.executed
<1> DEFINE b == [s EXCEPT !.waitExec = FALSE, !.waitFin = TRUE]
           t == Checkpoint(b, r)
<1>0. s \in State
  BY DEF Sound, Local
<1>1. b \in State
  BY <1>0 DEF State
<1>2. t \in State
  <2> HIDE DEF b
  <2> QED BY <1>1, CheckpointType
<1>3. /\ b.prePrep = s.prePrep /\ b.prepare = s.prepare /\ b.commit = s.commit
      /\ b.sentPrepare = s.sentPrepare /\ b.sentCommit = s.sentCommit
      /\ b.sentExecute = s.sentExecute /\ b.committedCert = s.committedCert
      /\ b.seqMap = s.seqMap /\ b.batchStore = s.batchStore /\ b.seqNo = s.seqNo
      /\ b.H = s.H /\ b.lastExec = s.lastExec /\ b.localCkpt = s.localCkpt
      /\ b.waitExec = FALSE /\ b.left = s.left /\ b.outK = s.outK
      /\ b.executed = s.executed
  BY <1>0 DEF State
<1> HIDE DEF b
<1>4. /\ t.prePrep = b.prePrep /\ t.prepare = b.prepare /\ t.commit = b.commit
      /\ t.sentPrepare = b.sentPrepare /\ t.sentCommit = b.sentCommit
      /\ t.sentExecute = b.sentExecute /\ t.committedCert = b.committedCert
      /\ t.seqMap = b.seqMap /\ t.batchStore = b.batchStore /\ t.seqNo = b.seqNo
      /\ t.H = b.H /\ t.lastExec = b.lastExec
      /\ t.waitExec = b.waitExec /\ t.left = b.left
      /\ t.executed = b.executed
      /\ \A n \in b.localCkpt : n \in t.localCkpt
      /\ \A n \in t.localCkpt : n \in b.localCkpt \/ n = b.lastExec
      /\ \A n \in t.outK : n \in b.outK \/ n = b.lastExec
      /\ (\E e \in b.seqMap : e.n = b.lastExec) => b.lastExec \in t.localCkpt
  BY <1>1 DEF Checkpoint, State
<1> HIDE DEF t
<1>5. s.H \in Nat /\ s.lastExec \in Nat /\ \A id \in ID : id.n \in Nat
      /\ s.executed \subseteq ID
      /\ s.localCkpt \subseteq Seqs /\ s.outK \subseteq Seqs
      /\ \A n \in Seqs : n \in Nat
  BY <1>0, Numbers
<1>6. s.left \/ s.lastExec \in t.localCkpt
  <2> SUFFICES ASSUME ~s.left PROVE \E e \in s.seqMap : e.n = s.lastExec
    BY <1>3, <1>4
  <2>1. s.lastExec > s.H /\ s.lastExec \in 1 .. s.lastExec
    BY <1>5 DEF Sound, Local, Heights
  <2>2. PICK e \in s.executed : e.n = s.lastExec
    BY <2>1 DEF Sound, Local, Heights
  <2> QED BY <1>5, <2>1, <2>2 DEF Sound, Local, Window
<1>7. Heights(t)
  BY <1>3, <1>4, <1>5 DEF Sound, Local, Heights
<1>8. Window(t, r)
  BY <1>3, <1>4 DEF Sound, Local, Window
<1>9. Checkpointed(t)
  BY <1>3, <1>4, <1>6 DEF Sound, Local, Checkpointed
<1>10. \A id : (Prepared(t, id) <=> Prepared(s, id)) /\ (Committed(t, id) <=> Committed(s, id))
  BY <1>3, <1>4 DEF Prepared, Committed
<1>11. Flags(t, r) /\ Kept(t)
  BY <1>3, <1>4, <1>10 DEF Sound, Local, Flags, Kept, HasBatch
<1>12. Wakes(t, r, {}) /\ Tracks(t, {})
  BY <1>3, <1>4, <1>10 DEF Sound, Wakes, Tracks
<1>13. /\ Sound(t, r) /\ ~t.waitExec /\ t.H = s.H /\ t.lastExec = s.lastExec
       /\ t.executed = s.executed
  BY <1>2, <1>3, <1>4, <1>7, <1>8, <1>9, <1>11, <1>12 DEF Sound, Local
<1> QED BY <1>13 DEF t, b

-----------------------------------------------------------------------------
(* The invariant of the cluster *)

\* The validators that run the code and executed the block n, in a state nd.
Reached(nd, n) == {p \in Validator \cap Correct : nd[p].lastExec >= n}

\* A replica moves H only to a height that one correct quorum executed.
StableIsReached ==
  \A r \in Correct :
    node[r].H > 0 => Cardinality(Reached(node, node[r].H)) >= OneCorrectQuorum

\* The inductive invariant.
ExecInv ==
  /\ IInv
  /\ \A r \in Correct : Sound(node[r], r)
  /\ StableIsReached

\* What an event may make of the record of r.
Outcome(r, t) ==
  /\ Sound(t, r)
  /\ t.lastExec >= node[r].lastExec /\ node[r].executed \subseteq t.executed
  /\ t.H = node[r].H \/ Cardinality(Reached(node, t.H)) >= OneCorrectQuorum

\* A handler that leaves H alone and is sound.
LEMMA AdvancesOutcome ==
  ASSUME NEW r \in Correct, NEW t, Sound(t, r), Advances(node[r], t)
  PROVE  Outcome(r, t)
BY DEF Outcome, Advances

\* A quorum of checkpoints for n, ours among them if it counts, contains one
\* correct quorum of replicas that executed n.
LEMMA QuorumReached ==
  ASSUME ExecInv, NEW r \in Correct, NEW n \in Seqs, n <= node[r].lastExec,
         Cardinality(CheckpointVotes(r, n)) + (IF r \in Validator THEN 1 ELSE 0)
           >= CommonCaseQuorum
  PROVE  Cardinality(Reached(node, n)) >= OneCorrectQuorum
<1> DEFINE V == CheckpointVotes(r, n)
           Q == IF r \in Validator THEN V \cup {r} ELSE V
           Z == Validator \ Correct
<1>1. V \in SUBSET Validator /\ r \notin V
  BY ConstantAssumption DEF CheckpointVotes
<1>2. IsFiniteSet(V) /\ Cardinality(V) \in Nat
  BY <1>1, ValidatorAssumption, FS_Subset, FS_CardinalityType
<1>3. Q \in SUBSET Validator /\ IsFiniteSet(Q) /\ Cardinality(Q) \in Nat
  <2>1. Q \in SUBSET Validator
    BY <1>1
  <2> HIDE DEF Q
  <2> QED BY <2>1, ValidatorAssumption, FS_Subset, FS_CardinalityType
<1>4. Cardinality(Q) >= CommonCaseQuorum
  <2>1. CASE r \in Validator
    <3>1. Cardinality(V \cup {r}) = Cardinality(V) + 1
      BY <1>1, <1>2, FS_AddElement
    <3> QED BY <2>1, <3>1
  <2>2. CASE r \notin Validator
    <3>1. Cardinality(V) + 0 >= CommonCaseQuorum
      BY <2>2
    <3> QED BY <1>2, <2>2, <3>1
  <2> QED BY <2>1, <2>2
<1>5. Q \ Z \subseteq Reached(node, n)
  <2> SUFFICES ASSUME NEW p \in Q, p \in Correct PROVE p \in Reached(node, n)
    BY <1>3
  <2>1. p = r \/ n \in node[p].outK
    BY ConstantAssumption DEF CheckpointVotes
  <2>2. Sound(node[p], p) /\ p \in Validator
    BY <1>3 DEF ExecInv
  <2>3. node[p].lastExec >= n
    <3>1. node[p] \in State
      BY <2>2 DEF Sound, Local
    <3> QED BY <2>1, <2>2, <3>1, Numbers DEF Sound, Local, Heights
  <2> QED BY <2>2, <2>3 DEF Reached
<1> HIDE DEF Q
<1>6. Cardinality(Q \ Z) >= Cardinality(Q) - Cardinality(Z)
      /\ Cardinality(Q \ Z) \in Nat
  <2>1. IsFiniteSet(Z) /\ Cardinality(Z) \in Nat
    BY Faulty
  <2> HIDE DEF Z
  <2>2. IsFiniteSet(Q \cap Z) /\ IsFiniteSet(Q \ Z)
    BY <1>3, FS_Intersection, FS_Subset
  <2>3. Cardinality(Q \ Z) = Cardinality(Q) - Cardinality(Q \cap Z)
    BY <1>3, <2>1, FS_Difference
  <2>4. Cardinality(Q \cap Z) <= Cardinality(Z)
    BY <2>1, FS_Subset
  <2>5. Cardinality(Q \ Z) \in Nat /\ Cardinality(Q \cap Z) \in Nat
    BY <2>2, FS_CardinalityType
  <2> QED BY <1>3, <2>1, <2>3, <2>4, <2>5
<1>7. Cardinality(Q \ Z) <= Cardinality(Reached(node, n)) /\ Cardinality(Reached(node, n)) \in Nat
  <2>1. Q \ Z \in SUBSET Validator /\ Reached(node, n) \in SUBSET Validator
    BY <1>3 DEF Reached
  <2> HIDE DEF Z
  <2> QED BY <1>5, <2>1, Counting
<1>8. Cardinality(Z) <= F /\ Cardinality(Z) \in Nat
  BY Faulty
<1> HIDE DEF Z
<1> QED BY <1>3, <1>4, <1>6, <1>7, <1>8, QuorumType DEF OneCorrectQuorum

\* Before a correct primary proposes a height only faulty validators can have
\* prepared it, too few to make the cert prepared.
LEMMA FreshIsNotPrepared ==
  ASSUME ExecInv, NEW id \in ID, Primary \in Correct,
         id.n = node[Primary].seqNo + 1
  PROVE  ~(Cardinality(node[Primary].prepare[id]) >= CommonCaseQuorum - 1)
<1> DEFINE P == node[Primary].prepare[id]
           Z == Validator \ Correct
<1>1. Good(node, node[Primary], Primary)
  BY DEF ExecInv, IInv
<1>2. P \in SUBSET Validator
  BY <1>1 DEF Good, State
<1>3. P \subseteq Z
  <2> SUFFICES ASSUME NEW p \in P, p \in Correct PROVE FALSE
    BY <1>2
  <2>1. SentP(node, node[Primary], Primary, p, id) /\ p # Primary
    BY <1>1 DEF Good, Authentic
  <2>2. id \in node[p].outP
    BY <2>1, ConstantAssumption DEF SentP, Rec
  <2>3. SentPP(node, node[p], p, id)
    BY <2>2 DEF ExecInv, IInv, Good, Authentic
  <2>4. id \in node[Primary].outPP
    BY <2>1, <2>3, ConstantAssumption DEF SentPP, Rec
  <2>5. id.n <= node[Primary].seqNo
    BY <1>1, <2>4 DEF Good, Ordered
  <2> QED BY <1>1, <2>5, Numbers DEF Good
<1>4. Cardinality(P) \in Nat /\ Cardinality(P) <= Cardinality(Z)
  <2> HIDE DEF P
  <2> QED BY <1>2, <1>3, Counting
<1>5. Cardinality(Z) <= F /\ Cardinality(Z) \in Nat
  BY Faulty
<1> HIDE DEF P, Z
<1>6. Cardinality(P) < CommonCaseQuorum - 1
  BY <1>4, <1>5, QuorumType
<1>7. ~(Cardinality(P) >= CommonCaseQuorum - 1)
  BY <1>4, <1>6, QuorumType
<1> QED BY <1>7 DEF P

\* Every event of a replica has a sound outcome.
LEMMA StepOutcome ==
  ASSUME ExecInv, NEW r \in Correct, Step(r)
  PROVE  \E t : Update(r, t) /\ Outcome(r, t)
<1>0. Sound(node[r], r) /\ node[r] \in State /\ Good(node, node[r], r)
  BY DEF ExecInv, IInv, Sound, Local
<1>1. CASE \E d \in Digest : ProposeBatch(r, d)
  <2> PICK d \in Digest : ProposeBatch(r, d)
    BY <1>1
  <2> DEFINE id == [n |-> node[r].seqNo + 1, d |-> d]
  <2>1. id \in ID /\ id.n = node[r].seqNo + 1
    BY <1>0, ConstantAssumption DEF ProposeBatch, ID, Seqs, State
  <2>2. Update(r, MaybeSendPrePrepare(node[r], id)) /\ r = Primary /\ ~node[r].left
    BY DEF ProposeBatch
  <2> HIDE DEF id
  <2>3. ~(Cardinality(node[r].prepare[id]) >= CommonCaseQuorum - 1)
    BY <2>1, <2>2, FreshIsNotPrepared
  <2>4. /\ Sound(MaybeSendPrePrepare(node[r], id), r)
        /\ Advances(node[r], MaybeSendPrePrepare(node[r], id))
    BY <1>0, <2>1, <2>2, <2>3, MaybeSendPrePrepareSound
  <2> QED BY <2>2, <2>4, AdvancesOutcome
<1>2. ASSUME NEW id \in ID, NEW valid \in BOOLEAN, NEW pool \in PoolResult,
             HandlePrePrepare(r, id, valid, pool)
      PROVE  \E t : Update(r, t) /\ Outcome(r, t)
  <2> DEFINE t == RecvPrePrepare(node[r], r, id, valid, pool)
  <2>1. r # Primary /\ InWV(node[r], id.n) /\ Update(r, t)
    BY <1>2 DEF HandlePrePrepare, IsPrePrepareLegal
  <2>2. Sound(t, r) /\ Advances(node[r], t)
    BY <1>0, <2>1, RecvPrePrepareSound
  <2> QED BY <2>1, <2>2, AdvancesOutcome
<1>3. ASSUME NEW p \in Validator, NEW id \in ID, HandlePrepare(r, p, id)
      PROVE  \E t : Update(r, t) /\ Outcome(r, t)
  <2> DEFINE t == RecvPrepare(node[r], r, p, id)
  <2>1. p # r /\ Update(r, t)
    BY <1>3 DEF HandlePrepare
  <2>2. Local(node[r], r) /\ Wakes(node[r], r, {id}) /\ Wakes(node[r], r, {})
        /\ Tracks(node[r], {})
    BY <1>0 DEF Sound, Wakes
  <2>3. Sound(t, r) /\ Advances(node[r], t)
    BY <2>1, <2>2, RecvPrepareSound
  <2> QED BY <2>1, <2>3, AdvancesOutcome
<1>4. ASSUME NEW p \in Validator, NEW id \in ID, HandleCommit(r, p, id)
      PROVE  \E t : Update(r, t) /\ Outcome(r, t)
  <2> DEFINE t == RecvCommit(node[r], r, p, id)
  <2>1. p # r /\ Update(r, t)
    BY <1>4 DEF HandleCommit
  <2>2. Local(node[r], r) /\ Wakes(node[r], r, {}) /\ Tracks(node[r], {id})
        /\ Tracks(node[r], {})
    BY <1>0 DEF Sound, Tracks
  <2>3. Sound(t, r) /\ Advances(node[r], t)
    BY <2>1, <2>2, RecvCommitSound
  <2> QED BY <2>1, <2>3, AdvancesOutcome
<1>5. CASE ReceivePrePrepare(r)
  BY <1>2, <1>5 DEF ReceivePrePrepare
<1>6. CASE ReceivePrepare(r)
  BY <1>3, <1>6 DEF ReceivePrepare
<1>7. CASE ReceiveCommit(r)
  BY <1>4, <1>7 DEF ReceiveCommit
<1>8. CASE RecvFetchPQCResponse(r)
  BY <1>2, <1>3, <1>4, <1>8 DEF RecvFetchPQCResponse
<1>9. ASSUME NEW id \in ID, NEW ok \in BOOLEAN, NEW pool \in PoolComplete,
             RecvFetchMissingResponse(r, id, ok, pool)
      PROVE  \E t : Update(r, t) /\ Outcome(r, t)
  <2> DEFINE t == FindNextPrepareBatch(node[r], r, id, pool)
             v == SendViewChange(node[r])
  <2>1. node[r].missing # {} /\ Update(r, IF ok THEN t ELSE v)
    BY <1>9 DEF RecvFetchMissingResponse
  <2>2. r # Primary
    BY <1>0, <2>1 DEF Good, Ordered
  <2>3. Sound(t, r) /\ Advances(node[r], t)
    BY <1>0, <2>2, FindNextPrepareBatchSound DEF PoolComplete
  <2>4. Sound(v, r) /\ Advances(node[r], v)
    BY <1>0, SendViewChangeSound
  <2> HIDE DEF t, v
  <2>5. Outcome(r, t) /\ Outcome(r, v)
    BY <2>3, <2>4, AdvancesOutcome
  <2> QED BY <2>1, <2>5
<1>10. ASSUME NEW id \in ID, NEW pool \in PoolComplete,
              NotifyFindNextBatch(r, id, pool)
       PROVE  \E t : Update(r, t) /\ Outcome(r, t)
  <2> DEFINE t == FindNextPrepareBatch(node[r], r, id, pool)
             u == [t EXCEPT !.missing = @ \ {id}]
  <2>1. id \in node[r].missing /\ Update(r, u)
    BY <1>10 DEF NotifyFindNextBatch
  <2>2. r # Primary
    BY <1>0, <2>1 DEF Good, Ordered
  <2>3. Sound(t, r) /\ Advances(node[r], t)
    BY <1>0, <2>2, FindNextPrepareBatchSound DEF PoolComplete
  <2> HIDE DEF t
  <2>4. t \in State /\ u \in State /\ SameRecord(t, u)
    BY <2>3 DEF Sound, Local, State, SameRecord
  <2> HIDE DEF u
  <2>5. Sound(u, r) /\ Advances(t, u)
    BY <2>3, <2>4, SameRecordKeeps DEF Sound
  <2>6. Advances(node[r], u)
    BY <1>0, <2>3, <2>4, <2>5, AdvancesTrans
  <2> QED BY <2>1, <2>5, <2>6, AdvancesOutcome
<1>11. ASSUME NEW stable \in BOOLEAN, BlockExecuted(r, stable)
       PROVE  \E t : Update(r, t) /\ Outcome(r, t)
  <2> DEFINE s == Checkpoint([node[r] EXCEPT !.waitExec = FALSE, !.waitFin = TRUE], r)
             n == s.lastExec
             t == IF stable THEN FinishNormalCheckpoint(s, n) ELSE s
             u == StartTimerIfOutstandingRequests(t)
             v == IF n = ViewChangeSeqNo THEN SendViewChange(u) ELSE u
             votes == Cardinality(CheckpointVotes(r, n))
                        + (IF r \in Validator THEN 1 ELSE 0)
  <2>1. Update(r, v) /\ node[r].waitExec
        /\ (stable => n \in s.localCkpt /\ n > s.H /\ votes >= CommonCaseQuorum)
    BY <1>11 DEF BlockExecuted
  <2>2. /\ Sound(s, r) /\ ~s.waitExec /\ s.H = node[r].H /\ n = node[r].lastExec
        /\ s.executed = node[r].executed
    BY <1>0, <2>1, CheckpointSound
  <2> HIDE DEF s, v
  <2>3. n \in Nat /\ s.H \in Nat /\ (stable => n \in Seqs /\ s.H < n)
    <3>1. s \in State
      BY <2>2 DEF Sound, Local
    <3> QED BY <2>1, <3>1, Numbers
  <2>4. Sound(t, r) /\ t.lastExec = n /\ t.executed = node[r].executed
        /\ (t.H = node[r].H \/ Cardinality(Reached(node, t.H)) >= OneCorrectQuorum)
    <3>1. CASE stable
      <4>1. Sound(t, r) /\ t.H = n /\ t.lastExec = n /\ t.executed = s.executed
        BY <2>2, <2>3, <3>1, FinishNormalCheckpointSound
      <4>2. Cardinality(Reached(node, n)) >= OneCorrectQuorum
        <5> HIDE DEF n
        <5> QED BY <1>0, <2>1, <2>2, <2>3, <3>1, QuorumReached, Numbers
      <4> QED BY <2>2, <4>1, <4>2
    <3>2. CASE ~stable
      BY <2>2, <3>2
    <3> QED BY <3>1, <3>2
  <2> HIDE DEF t
  <2>5. Sound(u, r) /\ Advances(t, u)
    <3>1. t \in State
      BY <2>4 DEF Sound, Local
    <3>2. u \in State /\ SameRecord(t, u)
      BY <3>1, StartTimerType, StartTimerSame
    <3> HIDE DEF u
    <3> QED BY <2>4, <3>2, SameRecordKeeps DEF Sound
  <2> HIDE DEF u
  <2>6. Sound(v, r) /\ Advances(t, v)
    <3>1. Sound(SendViewChange(u), r) /\ Advances(u, SendViewChange(u))
      BY <2>5, SendViewChangeSound
    <3>2. Advances(t, SendViewChange(u))
      BY <2>4, <2>5, <3>1, AdvancesTrans DEF Sound, Local
    <3> QED BY <2>5, <3>1, <3>2 DEF v
  <2>7. v.H = t.H /\ v.lastExec >= node[r].lastExec
        /\ node[r].executed \subseteq v.executed
    BY <2>2, <2>4, <2>6 DEF Advances
  <2>8. Outcome(r, v)
    BY <2>4, <2>6, <2>7 DEF Outcome
  <2> QED BY <2>1, <2>8
<1>12. ASSUME NEW n \in Seqs, RecvCheckpoint(r, n)
       PROVE  \E t : Update(r, t) /\ Outcome(r, t)
  <2> DEFINE t == FinishNormalCheckpoint(node[r], n)
  <2>1. /\ ~node[r].waitExec /\ n \in node[r].localCkpt /\ n > node[r].H
        /\ Cardinality(CheckpointVotes(r, n)) + (IF r \in Validator THEN 1 ELSE 0)
             >= CommonCaseQuorum
        /\ Update(r, t)
    BY <1>12 DEF RecvCheckpoint, CanProcess
  <2>2. n <= node[r].lastExec /\ node[r].H < n
    BY <1>0, <2>1, Numbers DEF Sound, Local, Heights
  <2>3. Sound(t, r) /\ t.H = n /\ t.lastExec = node[r].lastExec
        /\ t.executed = node[r].executed
    BY <1>0, <2>1, <2>2, FinishNormalCheckpointSound
  <2>4. Cardinality(Reached(node, n)) >= OneCorrectQuorum
    BY <2>1, <2>2, QuorumReached
  <2> HIDE DEF t
  <2>5. Outcome(r, t)
    BY <1>0, <2>3, <2>4, Numbers DEF Outcome
  <2> QED BY <2>1, <2>5
<1>13. CASE NewViewTimerFires(r)
  <2> DEFINE t == [node[r] EXCEPT !.timer = "expired", !.vcEvent = TRUE]
  <2>1. t \in State /\ SameRecord(node[r], t)
    BY <1>0 DEF State, TimerState, SameRecord
  <2>2. Update(r, t)
    BY <1>13 DEF NewViewTimerFires
  <2> HIDE DEF t
  <2> QED BY <1>0, <2>1, <2>2, SameRecordKeeps, AdvancesOutcome DEF Sound
<1>14. CASE HandleViewChangeTimerEvent(r)
  <2> DEFINE s == [node[r] EXCEPT !.vcEvent = FALSE]
  <2>1. s \in State /\ SameRecord(node[r], s)
    BY <1>0 DEF State, SameRecord
  <2>2. Update(r, IF s.left THEN s ELSE SendViewChange(s))
    BY <1>14 DEF HandleViewChangeTimerEvent
  <2> HIDE DEF s
  <2>3. Sound(s, r) /\ Advances(node[r], s)
    BY <1>0, <2>1, SameRecordKeeps DEF Sound
  <2>4. Sound(SendViewChange(s), r) /\ Advances(s, SendViewChange(s))
    BY <2>3, SendViewChangeSound
  <2>5. Advances(node[r], SendViewChange(s))
    BY <1>0, <2>1, <2>3, <2>4, AdvancesTrans DEF Sound, Local
  <2>6. Outcome(r, s) /\ Outcome(r, SendViewChange(s))
    BY <2>3, <2>4, <2>5, AdvancesOutcome
  <2> QED BY <2>2, <2>6
<1>15. CASE StartViewChange(r)
  <2>1. Outcome(r, SendViewChange(node[r]))
    BY <1>0, SendViewChangeSound, AdvancesOutcome
  <2> QED BY <1>15, <2>1 DEF StartViewChange
<1>16. CASE InitRecovery(r)
  <2>1. Outcome(r, EnterNextView(node[r]))
    BY <1>0, EnterNextViewSound, AdvancesOutcome DEF Sound
  <2> QED BY <1>16, <2>1 DEF InitRecovery
<1> QED
  BY <1>1, <1>5, <1>6, <1>7, <1>8, <1>9, <1>10, <1>11, <1>12, <1>13, <1>14,
     <1>15, <1>16
  DEF Step

\* Events keep the invariant: no replica's lastExec ever decreases, so what
\* backs a stable checkpoint stays.
LEMMA StepExec ==
  ASSUME ExecInv, NEW r \in Correct, Step(r)
  PROVE  ExecInv'
<1>1. IInv'
  BY StepInvariant DEF ExecInv
<1>2. PICK t : Update(r, t) /\ Outcome(r, t)
  BY StepOutcome
<1>3. \A p \in Correct : node'[p] = IF p = r THEN t ELSE node[p]
  BY <1>2 DEF Update, ExecInv, IInv, TypeOK
<1>4. \A p \in Correct : Sound(node'[p], p)
  BY <1>2, <1>3 DEF ExecInv, Outcome
<1>5. \A p \in Correct : node[p].lastExec \in Nat /\ node'[p].lastExec \in Nat
      /\ node'[p].lastExec >= node[p].lastExec /\ node'[p].H \in Nat
  <2> SUFFICES ASSUME NEW p \in Correct
               PROVE  node[p].lastExec \in Nat /\ node'[p].lastExec \in Nat
                      /\ node'[p].lastExec >= node[p].lastExec /\ node'[p].H \in Nat
    OBVIOUS
  <2>1. node[p] \in State /\ node'[p] \in State
    BY <1>4 DEF ExecInv, Sound, Local
  <2>2. node[p].lastExec \in Nat /\ node'[p].lastExec \in Nat /\ node'[p].H \in Nat
    BY <2>1, Numbers
  <2> QED BY <1>2, <1>3, <2>2 DEF Outcome
<1>6. ASSUME NEW n \in Nat, Cardinality(Reached(node, n)) >= OneCorrectQuorum
      PROVE  Cardinality(Reached(node', n)) >= OneCorrectQuorum
  <2>1. Reached(node, n) \subseteq Reached(node', n)
    BY <1>5 DEF Reached
  <2>2. Reached(node, n) \in SUBSET Validator /\ Reached(node', n) \in SUBSET Validator
    BY DEF Reached
  <2> QED BY <1>6, <2>1, <2>2, Counting, QuorumType DEF OneCorrectQuorum
<1>7. ASSUME NEW p \in Correct, node'[p].H > 0
      PROVE  Cardinality(Reached(node', node'[p].H)) >= OneCorrectQuorum
  <2>1. Cardinality(Reached(node, node'[p].H)) >= OneCorrectQuorum
    <3>1. CASE node'[p].H = node[p].H
      BY <1>7, <3>1 DEF ExecInv, StableIsReached
    <3>2. CASE node'[p].H # node[p].H
      BY <1>2, <1>3, <3>2 DEF Outcome
    <3> QED BY <3>1, <3>2
  <2>2. node'[p].H \in Nat
    BY <1>5
  <2> QED BY <1>6, <2>1, <2>2
<1>8. StableIsReached'
  BY <1>7 DEF StableIsReached
<1> QED BY <1>1, <1>4, <1>8 DEF ExecInv

\* Fresh replicas satisfy the invariant.
LEMMA InitExec == Init => ExecInv
<1> SUFFICES ASSUME Init PROVE ExecInv
  OBVIOUS
<1>1. IInv
  BY InitInvariant
<1>2. ASSUME NEW r \in Correct PROVE Sound(node[r], r) /\ ~(node[r].H > 0)
  <2> DEFINE s == node[r]
  <2>1. s = InitState /\ s \in State
    BY <1>1 DEF Init, IInv, TypeOK
  <2>2. /\ s.prePrep = {} /\ s.prepare = NoSenders /\ s.commit = NoSenders
        /\ s.sentPrepare = {} /\ s.sentCommit = {} /\ s.seqMap = {}
        /\ s.batchStore = {} /\ s.seqNo = 0 /\ s.H = 0 /\ s.lastExec = 0
        /\ s.localCkpt = {} /\ s.waitExec = FALSE /\ s.left = FALSE
        /\ s.outK = {} /\ s.executed = {}
    BY <2>1 DEF InitState
  <2> HIDE DEF s
  <2>3. Heights(s) /\ Window(s, r)
    BY <2>2 DEF Heights, Window
  <2>4. Checkpointed(s)
    BY <2>2, ConstantAssumption DEF Checkpointed, Seqs
  <2>5. Flags(s, r) /\ Kept(s) /\ Wakes(s, r, {}) /\ Tracks(s, {})
    BY <2>2 DEF Flags, Kept, Wakes, Tracks, NoSenders
  <2> QED BY <2>1, <2>2, <2>3, <2>4, <2>5 DEF Sound, Local, s
<1> QED BY <1>1, <1>2 DEF ExecInv, StableIsReached

\* The inductive invariant of execution holds in every reachable state: every
\* record is Sound between events, and stable checkpoints are backed.
THEOREM ExecInvariance == Spec => []ExecInv
<1>1. ExecInv /\ [Next]_vars => ExecInv'
  <2>1. ASSUME ExecInv, UNCHANGED vars PROVE ExecInv'
    <3>1. node' = node
      BY <2>1 DEF vars
    <3> QED BY <2>1, <3>1 DEF ExecInv, IInv, TypeOK, StableIsReached, Reached
  <2>2. ASSUME ExecInv, Next PROVE ExecInv'
    BY <2>2, StepExec DEF Next
  <2> QED BY <2>1, <2>2
<1> QED BY <1>1, InitExec, PTL DEF Spec

-----------------------------------------------------------------------------
\* maybeSendCommit misses no wake-up: in whatever order the pre-prepare, the
\* batch and the prepares arrive, a prepared cert has sent its commit.
THEOREM PreparedSendsCommitHolds == Spec => []PreparedSendsCommit
<1>1. ExecInv => PreparedSendsCommit
  BY DEF ExecInv, Sound, Wakes, PreparedSendsCommit
<1> QED BY <1>1, ExecInvariance, PTL

\* recvCommit misses no quorum: a committed cert is in committedCert or was
\* executed, in whatever order prepares and commits arrive.
THEOREM CommittedIsTrackedHolds == Spec => []CommittedIsTracked
<1>1. ExecInv => CommittedIsTracked
  BY DEF ExecInv, Sound, Tracks, CommittedIsTracked
<1> QED BY <1>1, ExecInvariance, PTL

\* commitPendingBlocks executes one batch per height up to lastExec and none
\* above it, whatever the other validators send.
THEOREM ExecutedOnceInOrderHolds == Spec => []ExecutedOnceInOrder
<1>1. ExecInv => ExecutedOnceInOrder
  <2> SUFFICES ASSUME ExecInv, NEW r \in Correct
               PROVE  /\ \A id \in node[r].executed : id.n <= node[r].lastExec
                      /\ \A n \in 1 .. node[r].lastExec :
                           \E id \in node[r].executed :
                             id.n = n /\ \A e \in node[r].executed : e.n = n => e = id
    BY DEF ExecutedOnceInOrder
  <2>1. Heights(node[r])
    BY DEF ExecInv, Sound, Local
  <2> QED BY <2>1 DEF Heights
<1> QED BY <1>1, ExecInvariance, PTL

\* No block past a checkpoint height is executed before the checkpoint of
\* that height was generated (afterCommitBlock, checkpoint).
THEOREM CheckpointBeforeNextBlockHolds == Spec => []CheckpointBeforeNextBlock
<1>1. ExecInv => CheckpointBeforeNextBlock
  BY DEF ExecInv, Sound, Local, Checkpointed, CheckpointBeforeNextBlock
<1> QED BY <1>1, ExecInvariance, PTL

\* moveWatermarks never drops a prepared batch that commitPendingBlocks still
\* needs, unless its digest was executed at another height before.
THEOREM BatchKeptUntilExecutedHolds == Spec => []BatchKeptUntilExecuted
<1>1. ExecInv => BatchKeptUntilExecuted
  BY DEF ExecInv, Sound, Local, Kept, BatchKeptUntilExecuted
<1> QED BY <1>1, ExecInvariance, PTL

\* Two replicas that executed the block n have the same ledger up to n.
LEMMA SameLedgerUpTo ==
  ASSUME ExecInv, Agreement, NEW p \in Correct, NEW q \in Correct, NEW n \in Nat,
         node[p].lastExec >= n, node[q].lastExec >= n
  PROVE  LedgerUpTo(node[p], n) \subseteq LedgerUpTo(node[q], n)
<1> SUFFICES ASSUME NEW x \in node[p].executed, x.n <= n
             PROVE  x \in node[q].executed
  BY DEF LedgerUpTo
<1>1. Sound(node[q], q) /\ node[q] \in State /\ node[p] \in State
  BY DEF ExecInv, Sound, Local
<1>2. x.n \in 1 .. node[q].lastExec
  BY <1>1, Numbers
<1>3. PICK y \in node[q].executed : y.n = x.n
  BY <1>1, <1>2 DEF Sound, Local, Heights
<1> QED BY <1>3 DEF Agreement

\* When a replica moves H to n, F+1 validators that run the code have executed
\* the same blocks up to n (recvCheckpoint, moveWatermarks).
THEOREM StableCheckpointIsBackedHolds == Spec => []StableCheckpointIsBacked
<1>1. ExecInv /\ Agreement => StableCheckpointIsBacked
  <2> SUFFICES ASSUME ExecInv, Agreement, NEW r \in Correct, node[r].H > 0
               PROVE  Cardinality({p \in Validator \cap Correct :
                        LedgerUpTo(node[p], node[r].H) = LedgerUpTo(node[r], node[r].H)})
                      >= OneCorrectQuorum
    BY DEF StableCheckpointIsBacked
  <2> DEFINE h == node[r].H
             B == {p \in Validator \cap Correct :
                     LedgerUpTo(node[p], h) = LedgerUpTo(node[r], h)}
  <2>1. h \in Nat /\ node[r].lastExec \in Nat /\ node[r].lastExec >= h
    <3>1. node[r] \in State /\ Heights(node[r])
      BY DEF ExecInv, Sound, Local
    <3>2. h \in Nat /\ node[r].lastExec \in Nat
      BY <3>1, Numbers
    <3> QED BY <3>1, <3>2 DEF Heights
  <2>2. Cardinality(Reached(node, h)) >= OneCorrectQuorum
    BY DEF ExecInv, StableIsReached
  <2> HIDE DEF h
  <2>3. Reached(node, h) \subseteq B
    <3> SUFFICES ASSUME NEW p \in Reached(node, h) PROVE p \in B
      OBVIOUS
    <3>1. p \in Validator /\ p \in Correct /\ node[p].lastExec >= h
      BY DEF Reached
    <3>2. /\ LedgerUpTo(node[p], h) \subseteq LedgerUpTo(node[r], h)
          /\ LedgerUpTo(node[r], h) \subseteq LedgerUpTo(node[p], h)
      BY <2>1, <3>1, SameLedgerUpTo
    <3> QED BY <3>1, <3>2
  <2>4. Reached(node, h) \in SUBSET Validator /\ B \in SUBSET Validator
    BY DEF Reached
  <2> HIDE DEF B
  <2>5. Cardinality(B) >= OneCorrectQuorum
    BY <2>2, <2>3, <2>4, Counting, QuorumType DEF OneCorrectQuorum
  <2> QED BY <2>5 DEF B, h
<1> QED BY <1>1, ExecInvariance, AgreementHolds, PTL
=============================================================================
