-------------------------- MODULE AgreementProofs ---------------------------
(***************************************************************************)
(* Safety of the normal case for every number of validators of which at    *)
(* most F do not run the code.  Every handler maps a good record of a      *)
(* replica to a good one and only adds to the messages sent; an event is a *)
(* composition of handlers, and nobody's record is invalidated by messages *)
(* that others add.  Agreement follows by the intersection of quorums.     *)
(***************************************************************************)
EXTENDS NormalCaseSafety, NormalCaseProofs, FiniteSetTheorems

\* The record of p as r sees it while its own record is s.
Rec(nd, s, r, p) == IF p = r THEN s ELSE nd[p]

\* What the primary, p as preparer and p as committer have sent.
SentPP(nd, s, r, id) ==
  Primary \in Byz
    \/ (Primary \in Correct /\ id \in Rec(nd, s, r, Primary).outPP)

SentP(nd, s, r, p, id) ==
  p \in Byz \/ (p \in Correct /\ id \in Rec(nd, s, r, p).outP)

SentC(nd, s, r, p, id) ==
  p \in Byz \/ (p \in Correct /\ id \in Rec(nd, s, r, p).outC)

\* The backups that sent a prepare, and the validators that sent a commit.
Preparers(nd, s, r, id) ==
  {p \in Validator \ {Primary} : SentP(nd, s, r, p, id)}

Committers(nd, s, r, id) == {p \in Validator : SentC(nd, s, r, p, id)}

\* The messages that prepared() and committed() stand for were really sent.
Backed(nd, s, r, id) ==
  /\ SentPP(nd, s, r, id)
  /\ Cardinality(Preparers(nd, s, r, id)) >= CommonCaseQuorum - 1

CommitBacked(nd, s, r, id) ==
  Cardinality(Committers(nd, s, r, id)) >= CommonCaseQuorum

\* One batch per height: in seqMap, among the prepares sent and among the
\* proposals.  A prepared batch is in seqMap, or its height is at or below H,
\* or the view was left: seqMap's guard in recvPrePrepare is never lost while
\* it is needed.  This conjunct makes OnePreparePerSeq inductive.
Ordered(s, r) ==
  /\ s.prePrep \subseteq s.seqMap
  /\ \A x, y \in s.seqMap : x.n = y.n => x = y
  /\ \A x, y \in s.outP : x.n = y.n => x = y
  /\ \A x, y \in s.outPP : x.n = y.n => x = y
  /\ \A x \in s.outP : x.n <= s.H \/ s.left \/ x \in s.seqMap
  /\ \A x \in s.outPP : x.n <= s.seqNo
  /\ r # Primary => \A x \in s.seqMap : x.n > s.H
  /\ r = Primary => s.missing = {} /\ \A x \in s.seqMap : x.n <= s.seqNo

\* Every recorded vote was sent, and everything sent on the strength of votes
\* is backed by them.
Authentic(nd, s, r) ==
  /\ \A id \in s.prePrep \cup s.outP : SentPP(nd, s, r, id)
  /\ \A id \in ID : \A p \in s.prepare[id] :
       p # Primary /\ SentP(nd, s, r, p, id)
  /\ \A id \in ID : \A p \in s.commit[id] : SentC(nd, s, r, p, id)
  /\ \A id \in s.outC : Backed(nd, s, r, id)
  /\ \A id \in s.executed : Backed(nd, s, r, id) /\ CommitBacked(nd, s, r, id)

\* The invariant of one replica whose record is s, as the handlers see it.
Good(nd, s, r) == s \in State /\ Ordered(s, r) /\ Authentic(nd, s, r)

\* The inductive invariant.
IInv == TypeOK /\ \A r \in Correct : Good(node, node[r], r)
-----------------------------------------------------------------------------
\* The arithmetic of chain_config.go and helper.go: N >= 3F+1, and two common
\* case quorums overlap in more than F validators.
LEMMA QuorumType ==
  /\ N \in Nat /\ F \in Nat /\ CommonCaseQuorum \in Nat /\ CommonCaseQuorum >= 3
  /\ 3 * F + 1 <= N
  /\ 2 * CommonCaseQuorum >= N + F + 1
<1>1. N \in Nat /\ N >= 4
  BY ValidatorAssumption, FS_CardinalityType DEF N
<1> QED BY <1>1 DEF F, CommonCaseQuorum

\* A set of validators is finite, and a superset has at least its size.
LEMMA Counting ==
  ASSUME NEW A \in SUBSET Validator, NEW B \in SUBSET Validator, A \subseteq B
  PROVE  /\ IsFiniteSet(A) /\ IsFiniteSet(B)
         /\ Cardinality(A) \in Nat /\ Cardinality(B) \in Nat
         /\ Cardinality(A) <= Cardinality(B)
<1>1. IsFiniteSet(B) /\ IsFiniteSet(A)
  BY ValidatorAssumption, FS_Subset
<1> QED BY <1>1, FS_CardinalityType, FS_Subset

\* What a replica may only add to.
Grows(s, t) ==
  s.outPP \subseteq t.outPP /\ s.outP \subseteq t.outP /\ s.outC \subseteq t.outC

\* What a replica has sent and what backs a batch is never lost.
LEMMA BackedGrows ==
  ASSUME NEW nd, NEW s, NEW t, NEW r, NEW id, Grows(s, t)
  PROVE  /\ SentPP(nd, s, r, id) => SentPP(nd, t, r, id)
         /\ \A p : SentP(nd, s, r, p, id) => SentP(nd, t, r, p, id)
         /\ \A p : SentC(nd, s, r, p, id) => SentC(nd, t, r, p, id)
         /\ Backed(nd, s, r, id) => Backed(nd, t, r, id)
         /\ CommitBacked(nd, s, r, id) => CommitBacked(nd, t, r, id)
<1>1. SentPP(nd, s, r, id) => SentPP(nd, t, r, id)
  BY DEF SentPP, Rec, Grows
<1>2. \A p : SentP(nd, s, r, p, id) => SentP(nd, t, r, p, id)
  BY DEF SentP, Rec, Grows
<1>3. \A p : SentC(nd, s, r, p, id) => SentC(nd, t, r, p, id)
  BY DEF SentC, Rec, Grows
<1>4. Cardinality(Preparers(nd, s, r, id)) \in Nat
      /\ Cardinality(Preparers(nd, t, r, id)) \in Nat
      /\ Cardinality(Preparers(nd, s, r, id)) <= Cardinality(Preparers(nd, t, r, id))
  <2>1. Preparers(nd, s, r, id) \subseteq Preparers(nd, t, r, id)
    BY <1>2 DEF Preparers
  <2>2. Preparers(nd, s, r, id) \in SUBSET Validator
        /\ Preparers(nd, t, r, id) \in SUBSET Validator
    BY DEF Preparers
  <2> QED BY <2>1, <2>2, Counting
<1>5. Cardinality(Committers(nd, s, r, id)) \in Nat
      /\ Cardinality(Committers(nd, t, r, id)) \in Nat
      /\ Cardinality(Committers(nd, s, r, id)) <= Cardinality(Committers(nd, t, r, id))
  <2>1. Committers(nd, s, r, id) \subseteq Committers(nd, t, r, id)
    BY <1>3 DEF Committers
  <2>2. Committers(nd, s, r, id) \in SUBSET Validator
        /\ Committers(nd, t, r, id) \in SUBSET Validator
    BY DEF Committers
  <2> QED BY <2>1, <2>2, Counting
<1> QED BY <1>1, <1>2, <1>3, <1>4, <1>5, QuorumType DEF Backed, CommitBacked

\* A cert that prepared() accepts proves the backing of its batch.
LEMMA PreparedIsBacked ==
  ASSUME NEW nd, NEW s, NEW r, Good(nd, s, r), NEW id \in ID, Prepared(s, id)
  PROVE  Backed(nd, s, r, id)
<1>1. s.prepare[id] \in SUBSET Validator
  BY DEF Good, State
<1>2. s.prepare[id] \subseteq Preparers(nd, s, r, id)
  BY <1>1 DEF Good, Authentic, Preparers
<1>3. Preparers(nd, s, r, id) \in SUBSET Validator
  BY DEF Preparers
<1>4. Cardinality(s.prepare[id]) <= Cardinality(Preparers(nd, s, r, id))
      /\ Cardinality(s.prepare[id]) \in Nat
      /\ Cardinality(Preparers(nd, s, r, id)) \in Nat
  BY <1>1, <1>2, <1>3, Counting
<1>5. SentPP(nd, s, r, id)
  BY DEF Good, Authentic, Prepared
<1> QED BY <1>4, <1>5, QuorumType DEF Prepared, Backed

\* A cert that committed() accepts proves the backing and the commits.
LEMMA CommittedIsBacked ==
  ASSUME NEW nd, NEW s, NEW r, Good(nd, s, r), NEW id \in ID, Committed(s, id)
  PROVE  Backed(nd, s, r, id) /\ CommitBacked(nd, s, r, id)
<1>1. s.commit[id] \in SUBSET Validator
  BY DEF Good, State
<1>2. s.commit[id] \subseteq Committers(nd, s, r, id)
  BY <1>1 DEF Good, Authentic, Committers
<1>3. Committers(nd, s, r, id) \in SUBSET Validator
  BY DEF Committers
<1>4. Cardinality(s.commit[id]) <= Cardinality(Committers(nd, s, r, id))
      /\ Cardinality(s.commit[id]) \in Nat
      /\ Cardinality(Committers(nd, s, r, id)) \in Nat
  BY <1>1, <1>2, <1>3, Counting
<1> QED
  BY <1>4, QuorumType, PreparedIsBacked DEF Committed, CommitBacked

-----------------------------------------------------------------------------
\* A step from s to t keeps Authentic if what it adds is authentic.
LEMMA Extend ==
  ASSUME NEW nd, NEW s, NEW t, NEW r,
         Good(nd, s, r), t \in State, Grows(s, t),
         \A id \in t.prePrep \cup t.outP :
           id \in s.prePrep \cup s.outP \/ SentPP(nd, t, r, id),
         \A id \in ID : \A p \in t.prepare[id] :
           p \in s.prepare[id] \/ (p # Primary /\ SentP(nd, t, r, p, id)),
         \A id \in ID : \A p \in t.commit[id] :
           p \in s.commit[id] \/ SentC(nd, t, r, p, id),
         \A id \in t.outC : id \in s.outC \/ Backed(nd, s, r, id),
         \A id \in t.executed :
           id \in s.executed
             \/ (Backed(nd, s, r, id) /\ CommitBacked(nd, s, r, id))
  PROVE  Authentic(nd, t, r)
<1>1. \A id \in t.prePrep \cup t.outP : SentPP(nd, t, r, id)
  BY BackedGrows DEF Good, Authentic
<1>2. \A id \in ID : \A p \in t.prepare[id] :
        p # Primary /\ SentP(nd, t, r, p, id)
  BY BackedGrows DEF Good, Authentic
<1>3. \A id \in ID : \A p \in t.commit[id] : SentC(nd, t, r, p, id)
  BY BackedGrows DEF Good, Authentic
<1>4. \A id \in t.outC : Backed(nd, t, r, id)
  BY BackedGrows DEF Good, Authentic
<1>5. \A id \in t.executed : Backed(nd, t, r, id) /\ CommitBacked(nd, t, r, id)
  BY BackedGrows DEF Good, Authentic
<1> QED BY <1>1, <1>2, <1>3, <1>4, <1>5 DEF Authentic

\* The fields Ordered is about, and those Authentic is about.
SameOrder(s, t) ==
  /\ t.prePrep = s.prePrep /\ t.seqMap = s.seqMap /\ t.outP = s.outP
  /\ t.outPP = s.outPP /\ t.H = s.H /\ t.left = s.left /\ t.seqNo = s.seqNo
  /\ t.missing = s.missing

SameVotes(s, t) ==
  /\ t.prepare = s.prepare /\ t.commit = s.commit
  /\ t.outC = s.outC /\ t.executed = s.executed

\* Ordered depends on the fields of SameOrder only.
LEMMA SameOrderKeeps ==
  ASSUME NEW s, NEW t, NEW r, Ordered(s, r), SameOrder(s, t)
  PROVE  Ordered(t, r)
BY DEF Ordered, SameOrder

\* A step that leaves the fields of SameOrder and SameVotes alone is good.
LEMMA SameKeeps ==
  ASSUME NEW nd, NEW s, NEW t \in State, NEW r,
         Good(nd, s, r), SameOrder(s, t), SameVotes(s, t)
  PROVE  Good(nd, t, r) /\ Grows(s, t)
<1>1. Ordered(t, r)
  BY SameOrderKeeps DEF Good
<1>2. Grows(s, t)
  BY DEF Grows, SameOrder, SameVotes
<1>3. Authentic(nd, t, r)
  BY <1>2, Extend DEF SameOrder, SameVotes
<1> QED BY <1>1, <1>2, <1>3 DEF Good

\* The calls of a handler compose: histories grow in each of them.
LEMMA GrowsTrans ==
  ASSUME NEW s, NEW t, NEW u, Grows(s, t), Grows(t, u)
  PROVE  Grows(s, u)
BY DEF Grows

\* startTimerIfOutstandingRequests is good: it starts a timer.
LEMMA StartTimerGood ==
  ASSUME NEW nd, NEW s, NEW r, Good(nd, s, r)
  PROVE  /\ Good(nd, StartTimerIfOutstandingRequests(s), r)
         /\ Grows(s, StartTimerIfOutstandingRequests(s))
<1> DEFINE t == StartTimerIfOutstandingRequests(s)
<1>1. s \in State /\ t \in State
  BY StartTimerType DEF Good
<1>2. SameOrder(s, t) /\ SameVotes(s, t)
  BY <1>1 DEF SameOrder, SameVotes, StartTimerIfOutstandingRequests, State
<1> QED BY <1>1, <1>2, SameKeeps

\* Leaving the view is good: certs and seqMap are dropped, but no prepare is
\* sent afterwards.
LEMMA EnterNextViewGood ==
  ASSUME NEW nd, NEW s, NEW r, Good(nd, s, r)
  PROVE  Good(nd, EnterNextView(s), r) /\ Grows(s, EnterNextView(s))
<1> DEFINE t == EnterNextView(s)
<1>1. s \in State /\ t \in State
  BY EnterNextViewType DEF Good
<1>2. /\ t.prePrep = {} /\ t.seqMap = {} /\ t.left = TRUE
      /\ t.prepare = NoSenders /\ t.commit = NoSenders
      /\ t.outP = s.outP /\ t.outPP = s.outPP /\ t.outC = s.outC
      /\ t.H = s.H /\ t.seqNo = s.seqNo /\ t.missing = s.missing
      /\ t.executed = s.executed
  BY <1>1 DEF EnterNextView, State
<1> HIDE DEF t
<1>3. Ordered(t, r)
  BY <1>2 DEF Good, Ordered
<1>4. Grows(s, t)
  BY <1>2 DEF Grows
<1>5. Authentic(nd, t, r)
  BY <1>1, <1>2, <1>4, Extend DEF NoSenders
<1> QED BY <1>1, <1>3, <1>4, <1>5 DEF Good, t

\* sendViewChange is good.
LEMMA SendViewChangeGood ==
  ASSUME NEW nd, NEW s, NEW r, Good(nd, s, r)
  PROVE  Good(nd, SendViewChange(s), r) /\ Grows(s, SendViewChange(s))
<1>1. Grows(s, s)
  BY DEF Grows
<1> QED BY <1>1, EnterNextViewGood DEF SendViewChange

\* commitPendingBlocks is good: what it executes is committed.
LEMMA CommitPendingBlocksGood ==
  ASSUME NEW nd, NEW s, NEW r, Good(nd, s, r)
  PROVE  /\ Good(nd, CommitPendingBlocks(s), r)
         /\ Grows(s, CommitPendingBlocks(s))
<1> DEFINE run == PendingRun(s)
           done == {id \in ID : id.n \in run /\ Executable(s, id)}
           last == IF run = {} THEN s.lastExec ELSE Max(run)
           wait == s.waitExec \/ \E m \in run : m % K = 0
           timer == IF run = {} THEN s.timer ELSE "off"
           out == s.outstanding \ {id.d : id \in done}
           t == [s EXCEPT !.lastExec = last,
                          !.sentExecute = @ \cup done,
                          !.committedCert = @ \ done,
                          !.executed = @ \cup done,
                          !.outstanding = out,
                          !.waitExec = wait,
                          !.timer = timer]
           u == CommitPendingBlocks(s)
<1>1. s \in State /\ u \in State
  BY CommitPendingBlocksType DEF Good
<1>2. u = IF t.waitExec THEN t ELSE StartTimerIfOutstandingRequests(t)
  BY DEF CommitPendingBlocks
<1>3. \A id \in done : Backed(nd, s, r, id) /\ CommitBacked(nd, s, r, id)
  BY CommittedIsBacked DEF Executable
<1>4. SameOrder(s, u) /\ u.prepare = s.prepare /\ u.commit = s.commit
      /\ u.outC = s.outC /\ u.executed = s.executed \cup done
  <2> HIDE DEF done, last, wait, timer, out, u
  <2> QED BY <1>1, <1>2
          DEF SameOrder, StartTimerIfOutstandingRequests, State
<1> HIDE DEF u, done
<1>5. Ordered(u, r)
  BY <1>4, SameOrderKeeps DEF Good
<1>6. Grows(s, u)
  BY <1>4 DEF Grows, SameOrder
<1>7. Authentic(nd, u, r)
  BY <1>1, <1>3, <1>4, <1>6, Extend DEF SameOrder
<1> QED BY <1>1, <1>5, <1>6, <1>7 DEF Good, u

\* recvCommit is good for a commit that its sender sent.
LEMMA RecvCommitGood ==
  ASSUME NEW nd, NEW s, NEW r, NEW p, NEW id \in ID, Good(nd, s, r),
         Counts(r, p) => p \in Validator /\ SentC(nd, s, r, p, id)
  PROVE  /\ Good(nd, RecvCommit(s, r, p, id), r)
         /\ Grows(s, RecvCommit(s, r, p, id))
<1> DEFINE t == IF Counts(r, p)
                THEN [s EXCEPT !.commit[id] = @ \cup {p}] ELSE s
           v == [t EXCEPT !.committedCert = @ \cup {id}]
           u == CommitPendingBlocks(v)
<1>0. s \in State /\ Grows(s, s)
  BY DEF Good, Grows
<1>1. Good(nd, t, r) /\ Grows(s, t)
  <2>1. t \in State
    BY <1>0 DEF State
  <2>2. SameOrder(s, t) /\ t.prepare = s.prepare /\ t.outC = s.outC
        /\ t.executed = s.executed
    BY <1>0 DEF SameOrder, State
  <2>3. \A x \in ID : \A q \in t.commit[x] :
          q \in s.commit[x] \/ SentC(nd, s, r, q, x)
    BY <1>0 DEF State
  <2> HIDE DEF t
  <2>4. Ordered(t, r)
    BY <2>2, SameOrderKeeps DEF Good
  <2>5. Grows(s, t)
    BY <2>2 DEF Grows, SameOrder
  <2>6. \A x \in ID : \A q \in t.commit[x] :
          q \in s.commit[x] \/ SentC(nd, t, r, q, x)
    BY <2>3, <2>5, BackedGrows
  <2>7. Authentic(nd, t, r)
    BY <2>1, <2>2, <2>5, <2>6, Extend DEF SameOrder
  <2> QED BY <2>1, <2>4, <2>5, <2>7 DEF Good
<1>2. Good(nd, v, r) /\ Grows(t, v)
  <2> HIDE DEF t
  <2>1. t \in State
    BY <1>1 DEF Good
  <2>2. v \in State
    BY <2>1 DEF State
  <2>3. SameOrder(t, v) /\ SameVotes(t, v)
    BY <2>1 DEF State, SameOrder, SameVotes
  <2> QED BY <1>1, <2>2, <2>3, SameKeeps
<1> HIDE DEF v
<1>3. Good(nd, u, r) /\ Grows(v, u)
  BY <1>2, CommitPendingBlocksGood
<1> HIDE DEF u
<1>4. Good(nd, SendViewChange(u), r) /\ Grows(u, SendViewChange(u))
  BY <1>3, SendViewChangeGood
<1>5. Grows(s, u) /\ Grows(s, SendViewChange(u))
  <2> HIDE DEF t
  <2> QED BY <1>1, <1>2, <1>3, <1>4, GrowsTrans
<1>6. RecvCommit(s, r, p, id) \in {s, t, u, SendViewChange(u)}
  <2> HIDE DEF t
  <2> QED BY DEF RecvCommit, t, u, v
<1> HIDE DEF t
<1> QED BY <1>0, <1>1, <1>3, <1>4, <1>5, <1>6

\* sendCommit is good for a prepared cert.
LEMMA SendCommitGood ==
  ASSUME NEW nd, NEW s, NEW r \in Correct, NEW id \in ID, Good(nd, s, r),
         Prepared(s, id)
  PROVE  Good(nd, SendCommit(s, r, id), r) /\ Grows(s, SendCommit(s, r, id))
<1> DEFINE t == [s EXCEPT !.sentCommit = @ \cup {id},
                          !.outC = IF r \in Validator THEN @ \cup {id} ELSE @]
<1>1. s \in State
  BY DEF Good
<1>2. t \in State
  BY <1>1 DEF State
<1>3. SameOrder(s, t) /\ t.prepare = s.prepare /\ t.commit = s.commit
      /\ t.executed = s.executed
      /\ t.outC = IF r \in Validator THEN s.outC \cup {id} ELSE s.outC
  BY <1>1 DEF SameOrder, State
<1> HIDE DEF t
<1>4. Backed(nd, s, r, id)
  BY PreparedIsBacked
<1>5. Ordered(t, r)
  BY <1>3, SameOrderKeeps DEF Good
<1>6. Grows(s, t)
  BY <1>3 DEF Grows, SameOrder
<1>7. Authentic(nd, t, r)
  BY <1>2, <1>3, <1>4, <1>6, Extend DEF SameOrder
<1>8. Good(nd, t, r)
  BY <1>2, <1>5, <1>7 DEF Good
<1>9. Counts(r, r) => r \in Validator /\ SentC(nd, t, r, r, id)
  BY <1>3 DEF Counts, SentC, Rec
<1>10. SendCommit(s, r, id) = RecvCommit(t, r, r, id)
  BY DEF SendCommit, t
<1> QED BY <1>6, <1>8, <1>9, <1>10, RecvCommitGood, GrowsTrans

\* maybeSendCommit is good: it sends only what is prepared.
LEMMA MaybeSendCommitGood ==
  ASSUME NEW nd, NEW s, NEW r \in Correct, NEW id \in ID, Good(nd, s, r)
  PROVE  /\ Good(nd, MaybeSendCommit(s, r, id), r)
         /\ Grows(s, MaybeSendCommit(s, r, id))
<1>1. Grows(s, s)
  BY DEF Grows
<1> QED BY <1>1, SendCommitGood DEF MaybeSendCommit

\* recvPrepare is good for a prepare that its sender sent: isPrepareLegal
\* refuses the primary's.
LEMMA RecvPrepareGood ==
  ASSUME NEW nd, NEW s, NEW r \in Correct, NEW p, NEW id \in ID,
         Good(nd, s, r),
         Counts(r, p) => p \in Validator /\ SentP(nd, s, r, p, id)
  PROVE  /\ Good(nd, RecvPrepare(s, r, p, id), r)
         /\ Grows(s, RecvPrepare(s, r, p, id))
<1> DEFINE t == IF Counts(r, p)
                THEN [s EXCEPT !.prepare[id] = @ \cup {p}] ELSE s
<1>0. s \in State /\ Grows(s, s)
  BY DEF Good, Grows
<1>1. ASSUME p # Primary
      PROVE  Good(nd, t, r) /\ Grows(s, t)
  <2>1. t \in State
    BY <1>0 DEF State
  <2>2. SameOrder(s, t) /\ t.commit = s.commit /\ t.outC = s.outC
        /\ t.executed = s.executed
    BY <1>0 DEF SameOrder, State
  <2>3. \A x \in ID : \A q \in t.prepare[x] :
          q \in s.prepare[x] \/ (q # Primary /\ SentP(nd, s, r, q, x))
    BY <1>0, <1>1 DEF State
  <2> HIDE DEF t
  <2>4. Ordered(t, r)
    BY <2>2, SameOrderKeeps DEF Good
  <2>5. Grows(s, t)
    BY <2>2 DEF Grows, SameOrder
  <2>6. \A x \in ID : \A q \in t.prepare[x] :
          q \in s.prepare[x] \/ (q # Primary /\ SentP(nd, t, r, q, x))
    BY <2>3, <2>5, BackedGrows
  <2>7. Authentic(nd, t, r)
    BY <2>1, <2>2, <2>5, <2>6, Extend DEF SameOrder
  <2> QED BY <2>1, <2>4, <2>5, <2>7 DEF Good
<1> HIDE DEF t
<1>2. RecvPrepare(s, r, p, id) =
        IF ~IsPrepareLegal(s, p, id) \/ p \in s.prepare[id]
        THEN s ELSE MaybeSendCommit(t, r, id)
  BY DEF RecvPrepare, t
<1>3. CASE IsPrepareLegal(s, p, id)
  <2>1. Good(nd, t, r) /\ Grows(s, t)
    BY <1>1, <1>3 DEF IsPrepareLegal
  <2> QED BY <1>0, <1>2, <2>1, MaybeSendCommitGood, GrowsTrans
<1> QED BY <1>0, <1>2, <1>3

\* sendPrepare is good: seqMap has one digest per height, so no other batch
\* of the height was prepared.
LEMMA SendPrepareGood ==
  ASSUME NEW nd, NEW s, NEW r \in Correct, NEW id \in ID, Good(nd, s, r),
         r # Primary, ~s.left, id \in s.prePrep
  PROVE  Good(nd, SendPrepare(s, r, id), r) /\ Grows(s, SendPrepare(s, r, id))
<1> DEFINE t == [s EXCEPT !.sentPrepare = @ \cup {id},
                          !.outP = IF r \in Validator THEN @ \cup {id} ELSE @]
<1>1. s \in State
  BY DEF Good
<1>2. t \in State
  BY <1>1 DEF State
<1>3. /\ t.prePrep = s.prePrep /\ t.seqMap = s.seqMap /\ t.outPP = s.outPP
      /\ t.H = s.H /\ t.left = s.left /\ t.seqNo = s.seqNo
      /\ t.missing = s.missing /\ SameVotes(s, t)
      /\ t.outP = IF r \in Validator THEN s.outP \cup {id} ELSE s.outP
  BY <1>1 DEF SameVotes, State
<1> HIDE DEF t
\* Another prepare for this height would still be in seqMap, or below H.
<1>4. \A x \in s.outP : x.n = id.n => x = id
  <2>1. s.H \in Int /\ \A x \in ID : x.n \in Int
    BY <1>1, ConstantAssumption DEF State, ID, Seqs
  <2>2. id \in s.seqMap /\ id.n > s.H
    BY DEF Good, Ordered
  <2> QED BY <1>1, <2>1, <2>2 DEF Good, Ordered, State
<1>5. Ordered(t, r)
  BY <1>3, <1>4 DEF Good, Ordered
<1>6. Grows(s, t)
  BY <1>3 DEF Grows, SameVotes
<1>7. Authentic(nd, t, r)
  BY <1>2, <1>3, <1>6, Extend DEF SameVotes
<1>8. Good(nd, t, r)
  BY <1>2, <1>5, <1>7 DEF Good
<1>9. Counts(r, r) => r \in Validator /\ SentP(nd, t, r, r, id)
  BY <1>3 DEF Counts, SentP, Rec
<1>10. SendPrepare(s, r, id) = RecvPrepare(t, r, r, id)
  BY DEF SendPrepare, t
<1> QED BY <1>6, <1>8, <1>9, <1>10, RecvPrepareGood, GrowsTrans

\* findNextPrepareBatch is good on a backup.
LEMMA FindNextPrepareBatchGood ==
  ASSUME NEW nd, NEW s, NEW r \in Correct, NEW id \in ID,
         NEW pool \in PoolResult, Good(nd, s, r), r # Primary
  PROVE  /\ Good(nd, FindNextPrepareBatch(s, r, id, pool), r)
         /\ Grows(s, FindNextPrepareBatch(s, r, id, pool))
<1> DEFINE found == [s EXCEPT !.batchStore = @ \cup {id},
                              !.outstanding = @ \cup {id.d}]
           miss == [s EXCEPT !.missing = @ \cup {id}]
           t == FindNextPrepareBatch(s, r, id, pool)
<1>1. s \in State /\ Grows(s, s)
  BY DEF Good, Grows
<1>2. Good(nd, found, r) /\ Grows(s, found) /\ found.left = s.left
      /\ found.prePrep = s.prePrep
  <2>1. found \in State
    BY <1>1 DEF State, ID
  <2>2. SameOrder(s, found) /\ SameVotes(s, found)
    BY <1>1 DEF SameOrder, SameVotes, State
  <2> HIDE DEF found
  <2> QED BY <2>1, <2>2, SameKeeps DEF SameOrder
<1>3. Good(nd, miss, r) /\ Grows(s, miss)
  <2>1. miss \in State
    BY <1>1 DEF State
  <2>2. /\ miss.prePrep = s.prePrep /\ miss.seqMap = s.seqMap
        /\ miss.outP = s.outP /\ miss.outPP = s.outPP /\ miss.H = s.H
        /\ miss.left = s.left /\ miss.seqNo = s.seqNo /\ SameVotes(s, miss)
    BY <1>1 DEF SameVotes, State
  <2> HIDE DEF miss
  <2>3. Ordered(miss, r)
    BY <2>2 DEF Good, Ordered
  <2>4. Grows(s, miss)
    BY <2>2 DEF Grows, SameVotes
  <2>5. Authentic(nd, miss, r)
    BY <2>1, <2>2, <2>4, Extend DEF SameVotes
  <2> QED BY <2>1, <2>3, <2>4, <2>5 DEF Good
<1>4. pool \in {"found", "missing", "error"}
  BY ConstantAssumption
<1>5. \/ t = s
      \/ ~s.left /\ id \in s.prePrep /\ t = SendPrepare(s, r, id)
      \/ t = SendViewChange(s)
      \/ t = miss
      \/ ~s.left /\ id \in s.prePrep /\ t = SendPrepare(found, r, id)
  BY <1>4, Zenon DEF FindNextPrepareBatch
<1> HIDE DEF found, miss, t
<1>6. ~s.left /\ id \in s.prePrep =>
        Good(nd, SendPrepare(s, r, id), r) /\ Grows(s, SendPrepare(s, r, id))
  BY SendPrepareGood
<1>7. ~s.left /\ id \in s.prePrep =>
        Good(nd, SendPrepare(found, r, id), r)
          /\ Grows(s, SendPrepare(found, r, id))
  BY <1>2, SendPrepareGood, GrowsTrans
<1> QED BY <1>1, <1>3, <1>5, <1>6, <1>7, SendViewChangeGood DEF t

\* recvPrePrepare is good: a second digest for a height in seqMap is refused,
\* and what seqMap has forgotten is at or below H.
LEMMA RecvPrePrepareGood ==
  ASSUME NEW nd, NEW s, NEW r \in Correct, NEW id \in ID, NEW valid,
         NEW pool \in PoolResult, Good(nd, s, r), r # Primary,
         id.n > s.H, SentPP(nd, s, r, id)
  PROVE  /\ Good(nd, RecvPrePrepare(s, r, id, valid, pool), r)
         /\ Grows(s, RecvPrePrepare(s, r, id, valid, pool))
<1> DEFINE timer == IF id.n > s.lastExec THEN SoftStart(s.timer) ELSE s.timer
           t == [s EXCEPT !.prePrep = @ \cup {id},
                          !.seqMap = @ \cup {id},
                          !.timer = timer]
           u == RecvPrePrepare(s, r, id, valid, pool)
<1>1. s \in State
  BY DEF Good
<1>2. t \in State
  <2>1. timer \in TimerState
    BY <1>1 DEF State, SoftStart, TimerState
  <2> HIDE DEF timer
  <2> QED BY <1>1, <2>1 DEF State
<1>3. /\ t.prePrep = s.prePrep \cup {id} /\ t.seqMap = s.seqMap \cup {id}
      /\ t.outP = s.outP /\ t.outPP = s.outPP /\ t.H = s.H /\ t.left = s.left
      /\ t.seqNo = s.seqNo /\ t.missing = s.missing /\ SameVotes(s, t)
  <2> HIDE DEF timer
  <2> QED BY <1>1 DEF SameVotes, State
<1>4. u = SendViewChange(s) \/ (~Conflicts(s, id)
        /\ u \in {t, FindNextPrepareBatch(t, r, id, pool)})
  <2>1. u = IF Conflicts(s, id) \/ ~valid THEN SendViewChange(s)
            ELSE IF id \in t.sentPrepare THEN t
            ELSE FindNextPrepareBatch(t, r, id, pool)
    BY DEF RecvPrePrepare
  <2> HIDE DEF t, u
  <2> QED BY <2>1
<1> HIDE DEF t, u
<1>5. ASSUME ~Conflicts(s, id)
      PROVE  Good(nd, t, r) /\ Grows(s, t)
  <2>1. \A x \in s.seqMap : x.n = id.n => x = id
    BY <1>1, <1>5 DEF Conflicts, State, ID
  <2>2. Ordered(t, r)
    BY <1>3, <2>1 DEF Good, Ordered
  <2>3. Grows(s, t)
    BY <1>3 DEF Grows, SameVotes
  <2>4. SentPP(nd, t, r, id)
    BY <2>3, BackedGrows
  <2>5. Authentic(nd, t, r)
    BY <1>2, <1>3, <2>3, <2>4, Extend DEF SameVotes
  <2> QED BY <1>2, <2>2, <2>3, <2>5 DEF Good
<1>6. ASSUME ~Conflicts(s, id)
      PROVE  /\ Good(nd, FindNextPrepareBatch(t, r, id, pool), r)
             /\ Grows(s, FindNextPrepareBatch(t, r, id, pool))
  BY <1>5, <1>6, FindNextPrepareBatchGood, GrowsTrans
<1> QED BY <1>4, <1>5, <1>6, SendViewChangeGood DEF u

\* A new proposal is the only one of its height: seqNo never goes back.
LEMMA MaybeSendPrePrepareGood ==
  ASSUME NEW nd, NEW s, NEW r \in Correct, NEW id \in ID, Good(nd, s, r),
         r = Primary, id.n = s.seqNo + 1
  PROVE  /\ Good(nd, MaybeSendPrePrepare(s, id), r)
         /\ Grows(s, MaybeSendPrePrepare(s, id))
<1> DEFINE t == MaybeSendPrePrepare(s, id)
<1>1. s \in State /\ t \in State
  BY MaybeSendPrePrepareType DEF Good
<1>2. /\ t.prePrep = s.prePrep \cup {id} /\ t.seqMap = s.seqMap \cup {id}
      /\ t.outPP = s.outPP \cup {id} /\ t.outP = s.outP /\ t.H = s.H
      /\ t.left = s.left /\ t.seqNo = id.n /\ t.missing = s.missing
      /\ SameVotes(s, t)
  BY <1>1 DEF MaybeSendPrePrepare, SameVotes, State
<1> HIDE DEF t
<1>3. s.seqNo \in Int /\ \A x \in ID : x.n \in Int
  BY <1>1, ConstantAssumption DEF State, ID, Seqs
<1>4. \A x \in s.seqMap \cup s.outPP : x.n < id.n
  BY <1>1, <1>3 DEF Good, Ordered, State
<1>5. Ordered(t, r)
  <2>1. s.seqMap \subseteq ID /\ s.outPP \subseteq ID
    BY <1>1 DEF State
  <2> QED BY <1>2, <1>3, <1>4, <2>1 DEF Good, Ordered
<1>6. Grows(s, t)
  BY <1>2 DEF Grows, SameVotes
<1>7. SentPP(nd, t, r, id)
  BY <1>2 DEF SentPP, Rec
<1>8. Authentic(nd, t, r)
  BY <1>1, <1>2, <1>6, <1>7, Extend DEF SameVotes
<1> QED BY <1>1, <1>5, <1>6, <1>8 DEF Good, t

\* moveWatermarks is good: it forgets only what is at or below the new H,
\* where no pre-prepare is accepted any more.
LEMMA MoveWatermarksGood ==
  ASSUME NEW nd, NEW s, NEW r, NEW h \in Seqs, Good(nd, s, r)
  PROVE  Good(nd, MoveWatermarks(s, h), r) /\ Grows(s, MoveWatermarks(s, h))
<1> DEFINE t == MoveWatermarks(s, h)
<1>1. s \in State /\ t \in State /\ Grows(s, s)
  BY MoveWatermarksFields DEF Good, Grows
<1>2. CASE s.H > h
  BY <1>1, <1>2 DEF MoveWatermarks
<1>3. CASE s.H <= h
  <2>0. Cleaned(s, h, t)
    BY <1>1, <1>3, MoveWatermarksFields
  <2> HIDE DEF t
  <2>1. /\ t.prePrep = {id \in s.prePrep : id.n > h}
        /\ t.seqMap = {id \in s.seqMap : id.n > h}
        /\ t.missing = {id \in s.missing : id.n > h}
        /\ t.prepare = [id \in ID |-> IF id.n > h THEN s.prepare[id] ELSE {}]
        /\ t.commit = [id \in ID |-> IF id.n > h THEN s.commit[id] ELSE {}]
        /\ t.H = h /\ t.left = s.left /\ t.seqNo = s.seqNo
        /\ t.outP = s.outP /\ t.outPP = s.outPP /\ t.outC = s.outC
        /\ t.executed = s.executed
    BY <2>0 DEF Cleaned
  <2>2. s.H \in Int /\ h \in Int /\ \A x \in ID : x.n \in Int
    BY <1>1, ConstantAssumption DEF State, ID, Seqs
  <2>3. Ordered(t, r)
    <3>1. s.outP \subseteq ID /\ s.seqMap \subseteq ID
      BY <1>1 DEF State
    <3>2. \A x \in t.outP : x.n <= t.H \/ t.left \/ x \in t.seqMap
      BY <1>3, <2>1, <2>2, <3>1 DEF Good, Ordered
    <3> QED BY <2>1, <3>2 DEF Good, Ordered
  <2>4. Grows(s, t)
    BY <2>1 DEF Grows
  <2>5. /\ \A id \in ID : \A p \in t.prepare[id] : p \in s.prepare[id]
        /\ \A id \in ID : \A p \in t.commit[id] : p \in s.commit[id]
    BY <2>1
  <2>6. Authentic(nd, t, r)
    BY <1>1, <2>1, <2>4, <2>5, Extend
  <2> QED BY <1>1, <2>3, <2>4, <2>6 DEF Good, t
<1>4. s.H \in Int /\ h \in Int
  BY <1>1, ConstantAssumption DEF State, Seqs
<1> QED BY <1>2, <1>3, <1>4

\* checkpoint is good: it touches neither certs nor votes.
LEMMA CheckpointGood ==
  ASSUME NEW nd, NEW s, NEW r, Good(nd, s, r)
  PROVE  Good(nd, Checkpoint(s, r), r) /\ Grows(s, Checkpoint(s, r))
<1> DEFINE t == Checkpoint(s, r)
<1>1. s \in State /\ t \in State
  BY CheckpointType DEF Good
<1>2. SameOrder(s, t) /\ SameVotes(s, t)
  BY <1>1 DEF SameOrder, SameVotes, Checkpoint, State
<1> QED BY <1>1, <1>2, SameKeeps

\* The end of recvCheckpoint is good.
LEMMA FinishNormalCheckpointGood ==
  ASSUME NEW nd, NEW s, NEW r, NEW n \in Seqs, Good(nd, s, r)
  PROVE  /\ Good(nd, FinishNormalCheckpoint(s, n), r)
         /\ Grows(s, FinishNormalCheckpoint(s, n))
<1> DEFINE t == [s EXCEPT !.waitFin = FALSE]
<1>1. s \in State
  BY DEF Good
<1>2. t \in State
  BY <1>1 DEF State
<1>3. SameOrder(s, t) /\ SameVotes(s, t)
  BY <1>1 DEF SameOrder, SameVotes, State
<1>4. FinishNormalCheckpoint(s, n) = MoveWatermarks(t, n)
  BY DEF FinishNormalCheckpoint
<1> HIDE DEF t
<1>5. Good(nd, t, r) /\ Grows(s, t)
  BY <1>2, <1>3, SameKeeps
<1> QED BY <1>4, <1>5, MoveWatermarksGood, GrowsTrans

-----------------------------------------------------------------------------
\* A good step of one replica keeps the invariant of all: what the others
\* rely on is in histories that only grow.
LEMMA UpdateGood ==
  ASSUME IInv, NEW r \in Correct, NEW t,
         Good(node, t, r), Grows(node[r], t), Update(r, t)
  PROVE  IInv'
<1>1. TypeOK'
  BY UpdateType DEF IInv, Good
<1>2. node'[r] = t /\ \A q \in Correct : q # r => node'[q] = node[q]
  BY DEF Update, IInv, TypeOK
<1>3. \A q \in Correct : Grows(node[q], node'[q])
  BY <1>2 DEF Grows
<1> DEFINE m == node'
<1>4. ASSUME NEW q \in Correct
      PROVE  Good(m, m[q], q)
  <2> DEFINE s == IF q = r THEN t ELSE node[q]
  <2>1. Good(node, s, q) /\ m[q] = s
    BY <1>2 DEF IInv
  <2> HIDE DEF s
  <2>2. \A p \in Correct : Grows(Rec(node, s, q, p), Rec(m, s, q, p))
    BY <1>3 DEF Rec, Grows
  <2> HIDE DEF m
  <2>3. \A id : SentPP(node, s, q, id) => SentPP(m, s, q, id)
    BY <2>2 DEF SentPP, Grows
  <2>4. \A id, p : SentP(node, s, q, p, id) => SentP(m, s, q, p, id)
    BY <2>2 DEF SentP, Grows
  <2>5. \A id, p : SentC(node, s, q, p, id) => SentC(m, s, q, p, id)
    BY <2>2 DEF SentC, Grows
  <2>6. \A id : Backed(node, s, q, id) => Backed(m, s, q, id)
    <3> SUFFICES ASSUME NEW id, Backed(node, s, q, id)
                 PROVE  Backed(m, s, q, id)
      OBVIOUS
    <3>1. Preparers(node, s, q, id) \in SUBSET Validator
          /\ Preparers(m, s, q, id) \in SUBSET Validator
          /\ Preparers(node, s, q, id) \subseteq Preparers(m, s, q, id)
      BY <2>4 DEF Preparers
    <3> QED BY <2>3, <3>1, Counting, QuorumType DEF Backed
  <2>7. \A id : CommitBacked(node, s, q, id) => CommitBacked(m, s, q, id)
    <3> SUFFICES ASSUME NEW id, CommitBacked(node, s, q, id)
                 PROVE  CommitBacked(m, s, q, id)
      OBVIOUS
    <3>1. Committers(node, s, q, id) \in SUBSET Validator
          /\ Committers(m, s, q, id) \in SUBSET Validator
          /\ Committers(node, s, q, id) \subseteq Committers(m, s, q, id)
      BY <2>5 DEF Committers
    <3> QED BY <3>1, Counting, QuorumType DEF CommitBacked
  <2> QED BY <2>1, <2>3, <2>4, <2>5, <2>6, <2>7 DEF Good, Authentic
<1> QED BY <1>1, <1>4 DEF IInv

\* Every event of a replica keeps the invariant.
LEMMA StepInvariant ==
  ASSUME IInv, NEW r \in Correct, Step(r)
  PROVE  IInv'
<1>0. Good(node, node[r], r) /\ node[r] \in State /\ Grows(node[r], node[r])
  BY DEF IInv, Good, Grows
<1>1. CASE \E d \in Digest : ProposeBatch(r, d)
  <2> PICK d \in Digest : ProposeBatch(r, d)
    BY <1>1
  <2> DEFINE id == [n |-> node[r].seqNo + 1, d |-> d]
  <2>1. id \in ID
    BY <1>0, ConstantAssumption DEF ProposeBatch, ID, Seqs, State
  <2>2. r = Primary /\ Update(r, MaybeSendPrePrepare(node[r], id))
    BY DEF ProposeBatch
  <2>3. id.n = node[r].seqNo + 1
    OBVIOUS
  <2> HIDE DEF id
  <2> QED BY <1>0, <2>1, <2>2, <2>3, MaybeSendPrePrepareGood, UpdateGood
<1>2. ASSUME NEW id \in ID, NEW valid \in BOOLEAN, NEW pool \in PoolResult,
             HandlePrePrepare(r, id, valid, pool)
      PROVE  IInv'
  <2> DEFINE t == RecvPrePrepare(node[r], r, id, valid, pool)
  <2>1. r # Primary /\ id.n > node[r].H /\ SaidPrePrepare(id) /\ Update(r, t)
    BY <1>2 DEF HandlePrePrepare, IsPrePrepareLegal, InWV
  <2>2. SentPP(node, node[r], r, id)
    BY <2>1 DEF SaidPrePrepare, SentPP, Rec
  <2>3. Good(node, t, r) /\ Grows(node[r], t)
    BY <1>0, <2>1, <2>2, RecvPrePrepareGood
  <2> QED BY <2>1, <2>3, UpdateGood
<1>3. ASSUME NEW p \in Validator, NEW id \in ID, HandlePrepare(r, p, id)
      PROVE  IInv'
  <2>1. SentP(node, node[r], r, p, id)
        /\ Update(r, RecvPrepare(node[r], r, p, id))
    BY <1>3 DEF HandlePrepare, SaidPrepare, SentP, Rec
  <2> QED BY <1>0, <2>1, RecvPrepareGood, UpdateGood
<1>4. ASSUME NEW p \in Validator, NEW id \in ID, HandleCommit(r, p, id)
      PROVE  IInv'
  <2>1. SentC(node, node[r], r, p, id)
        /\ Update(r, RecvCommit(node[r], r, p, id))
    BY <1>4 DEF HandleCommit, SaidCommit, SentC, Rec
  <2> QED BY <1>0, <2>1, RecvCommitGood, UpdateGood
<1>5. CASE ReceivePrePrepare(r)
  BY <1>2, <1>5 DEF ReceivePrePrepare
<1>6. CASE ReceivePrepare(r)
  BY <1>3, <1>6 DEF ReceivePrepare
<1>7. CASE ReceiveCommit(r)
  BY <1>4, <1>7 DEF ReceiveCommit
<1>8. CASE RecvFetchPQCResponse(r)
  BY <1>2, <1>3, <1>4, <1>8 DEF RecvFetchPQCResponse
<1>9. ASSUME NEW id \in ID, NEW ok \in BOOLEAN, NEW pool \in PoolComplete,
             RecvFetchMissingResponse(r, id, ok, pool)
      PROVE  IInv'
  <2> DEFINE t == FindNextPrepareBatch(node[r], r, id, pool)
  <2>1. node[r].missing # {} /\ Update(r, IF ok THEN t ELSE SendViewChange(node[r]))
    BY <1>9 DEF RecvFetchMissingResponse
  <2>2. r # Primary
    BY <1>0, <2>1 DEF Good, Ordered
  <2>3. Good(node, t, r) /\ Grows(node[r], t)
    BY <1>0, <2>2, FindNextPrepareBatchGood DEF PoolComplete
  <2> HIDE DEF t
  <2> QED BY <1>0, <2>1, <2>3, SendViewChangeGood, UpdateGood
<1>10. ASSUME NEW id \in ID, NEW pool \in PoolComplete,
              NotifyFindNextBatch(r, id, pool)
       PROVE  IInv'
  <2> DEFINE t == FindNextPrepareBatch(node[r], r, id, pool)
             u == [t EXCEPT !.missing = @ \ {id}]
  <2>1. id \in node[r].missing /\ Update(r, u)
    BY <1>10 DEF NotifyFindNextBatch
  <2>2. r # Primary
    BY <1>0, <2>1 DEF Good, Ordered
  <2>3. Good(node, t, r) /\ Grows(node[r], t)
    BY <1>0, <2>2, FindNextPrepareBatchGood DEF PoolComplete
  <2> HIDE DEF t
  <2>4. t \in State /\ u \in State
    BY <2>3 DEF Good, State
  <2>5. /\ u.prePrep = t.prePrep /\ u.seqMap = t.seqMap
        /\ u.outP = t.outP /\ u.outPP = t.outPP /\ u.H = t.H
        /\ u.left = t.left /\ u.seqNo = t.seqNo /\ SameVotes(t, u)
    BY <2>4 DEF SameVotes, State
  <2> HIDE DEF u
  <2>6. Ordered(u, r)
    BY <2>2, <2>3, <2>5 DEF Good, Ordered
  <2>7. Grows(t, u)
    BY <2>5 DEF Grows, SameVotes
  <2>8. Authentic(node, u, r)
    BY <2>3, <2>4, <2>5, <2>7, Extend DEF SameVotes
  <2>9. Good(node, u, r) /\ Grows(node[r], u)
    BY <2>3, <2>4, <2>6, <2>7, <2>8, GrowsTrans DEF Good
  <2> QED BY <2>1, <2>9, UpdateGood
<1>11. ASSUME NEW stable \in BOOLEAN, BlockExecuted(r, stable)
       PROVE  IInv'
  <2> DEFINE b == [node[r] EXCEPT !.waitExec = FALSE, !.waitFin = TRUE]
             s == Checkpoint(b, r)
             n == s.lastExec
             t == IF stable THEN FinishNormalCheckpoint(s, n) ELSE s
             u == StartTimerIfOutstandingRequests(t)
             v == IF n = ViewChangeSeqNo THEN SendViewChange(u) ELSE u
  <2>1. Update(r, v) /\ (stable => n \in s.localCkpt)
    BY <1>11 DEF BlockExecuted
  <2>2. Good(node, b, r) /\ Grows(node[r], b)
    <3>1. b \in State
      BY <1>0 DEF State
    <3>2. SameOrder(node[r], b) /\ SameVotes(node[r], b)
      BY <1>0 DEF SameOrder, SameVotes, State
    <3> HIDE DEF b
    <3> QED BY <1>0, <3>1, <3>2, SameKeeps
  <2> HIDE DEF b
  <2>3. Good(node, s, r) /\ Grows(b, s)
    BY <2>2, CheckpointGood
  <2> HIDE DEF s
  <2>4. Good(node, t, r) /\ Grows(s, t)
    <3>1. stable => n \in Seqs
      BY <2>1, <2>3 DEF Good, State
    <3>2. Grows(s, s)
      BY DEF Grows
    <3> QED BY <2>3, <3>1, <3>2, FinishNormalCheckpointGood
  <2> HIDE DEF t
  <2>5. Good(node, u, r) /\ Grows(t, u)
    BY <2>4, StartTimerGood
  <2> HIDE DEF u
  <2>6. Good(node, v, r) /\ Grows(u, v)
    <3>1. Grows(u, u)
      BY DEF Grows
    <3> QED BY <2>5, <3>1, SendViewChangeGood
  <2> HIDE DEF v
  <2>7. Grows(node[r], v)
    BY <2>2, <2>3, <2>4, <2>5, <2>6, GrowsTrans
  <2> QED BY <2>1, <2>6, <2>7, UpdateGood
<1>12. ASSUME NEW n \in Seqs, RecvCheckpoint(r, n)
       PROVE  IInv'
  BY <1>0, <1>12, FinishNormalCheckpointGood, UpdateGood DEF RecvCheckpoint
<1>13. CASE NewViewTimerFires(r)
  <2> DEFINE t == [node[r] EXCEPT !.timer = "expired", !.vcEvent = TRUE]
  <2>1. t \in State
    BY <1>0 DEF State, TimerState
  <2>2. SameOrder(node[r], t) /\ SameVotes(node[r], t)
    BY <1>0 DEF SameOrder, SameVotes, State
  <2>3. Update(r, t)
    BY <1>13 DEF NewViewTimerFires
  <2> HIDE DEF t
  <2> QED BY <1>0, <2>1, <2>2, <2>3, SameKeeps, UpdateGood
<1>14. CASE HandleViewChangeTimerEvent(r)
  <2> DEFINE s == [node[r] EXCEPT !.vcEvent = FALSE]
  <2>1. s \in State
    BY <1>0 DEF State
  <2>2. SameOrder(node[r], s) /\ SameVotes(node[r], s)
    BY <1>0 DEF SameOrder, SameVotes, State
  <2>3. Update(r, IF s.left THEN s ELSE SendViewChange(s))
    BY <1>14 DEF HandleViewChangeTimerEvent
  <2> HIDE DEF s
  <2>4. Good(node, s, r) /\ Grows(node[r], s)
    BY <1>0, <2>1, <2>2, SameKeeps
  <2>5. Good(node, SendViewChange(s), r) /\ Grows(node[r], SendViewChange(s))
    BY <2>4, SendViewChangeGood, GrowsTrans
  <2> QED BY <2>3, <2>4, <2>5, UpdateGood
<1>15. CASE StartViewChange(r)
  BY <1>0, <1>15, SendViewChangeGood, UpdateGood DEF StartViewChange
<1>16. CASE InitRecovery(r)
  BY <1>0, <1>16, EnterNextViewGood, UpdateGood DEF InitRecovery
<1> QED
  BY <1>1, <1>5, <1>6, <1>7, <1>8, <1>9, <1>10, <1>11, <1>12, <1>13, <1>14,
     <1>15, <1>16
  DEF Step

\* Fresh replicas satisfy the invariant.
LEMMA InitInvariant == Init => IInv
<1> SUFFICES ASSUME Init PROVE IInv
  OBVIOUS
<1>1. TypeOK
  BY InitType
<1>2. ASSUME NEW r \in Correct PROVE Good(node, node[r], r)
  <2>1. node[r] = InitState
    BY DEF Init
  <2>2. node[r] \in State
    BY <1>1 DEF TypeOK
  <2>3. Ordered(node[r], r)
    BY <2>1 DEF Ordered, InitState
  <2>4. Authentic(node, node[r], r)
    BY <2>1 DEF Authentic, InitState, NoSenders
  <2> QED BY <2>2, <2>3, <2>4 DEF Good
<1> QED BY <1>1, <1>2 DEF IInv

\* The inductive invariant holds in every reachable state: a replica orders
\* one batch per height, and every vote it has recorded was sent.
THEOREM Invariance == Spec => []IInv
<1>1. IInv /\ [Next]_vars => IInv'
  <2>1. ASSUME IInv, UNCHANGED vars PROVE IInv'
    <3>1. node' = node
      BY <2>1 DEF vars
    <3> QED BY <2>1, <3>1 DEF IInv, TypeOK
  <2>2. ASSUME IInv, Next PROVE IInv'
    BY <2>2, StepInvariant DEF Next
  <2> QED BY <2>1, <2>2
<1> QED BY <1>1, InitInvariant, PTL DEF Spec

-----------------------------------------------------------------------------
\* Two sets of members of a set S have a common member outside Z when their
\* sizes exceed that of S by more than the size of Z.
LEMMA Overlap ==
  ASSUME NEW S, IsFiniteSet(S), NEW A \in SUBSET S, NEW B \in SUBSET S, NEW Z,
         IsFiniteSet(Z), Cardinality(A) + Cardinality(B) > Cardinality(S) + Cardinality(Z)
  PROVE  \E p \in A \cap B : p \notin Z
<1>1. IsFiniteSet(A) /\ IsFiniteSet(B) /\ IsFiniteSet(A \cup B)
      /\ IsFiniteSet(A \cap B)
  BY FS_Subset, FS_Union, FS_Intersection
<1>2. {Cardinality(A), Cardinality(B), Cardinality(S), Cardinality(Z),
       Cardinality(A \cup B), Cardinality(A \cap B)} \subseteq Nat
  BY <1>1, FS_CardinalityType
<1>3. Cardinality(A \cup B) <= Cardinality(S)
  <2>1. A \cup B \in SUBSET S
    OBVIOUS
  <2> QED BY <2>1, FS_Subset
<1>4. Cardinality(A \cup B) =
        Cardinality(A) + Cardinality(B) - Cardinality(A \cap B)
  BY <1>1, FS_Union
<1>5. Cardinality(A \cap B) > Cardinality(Z)
  BY <1>2, <1>3, <1>4
<1>6. SUFFICES ASSUME A \cap B \in SUBSET Z PROVE FALSE
  OBVIOUS
<1>7. Cardinality(A \cap B) <= Cardinality(Z)
  BY <1>6, FS_Subset
<1> QED BY <1>2, <1>5, <1>7

\* At most F validators do not run the code.
LEMMA Faulty ==
  /\ IsFiniteSet(Validator \ Correct)
  /\ Cardinality(Validator \ Correct) \in Nat
  /\ Cardinality(Validator \ Correct) <= F
<1>1. IsFiniteSet(Validator \ Correct)
  BY ValidatorAssumption, FS_Subset
<1> QED BY <1>1, FS_CardinalityType, FaultAssumption

\* At most one batch of a height gathers a backing: a correct primary
\* proposed only one; under a faulty one the two prepare quorums share a
\* correct backup, which prepared only one.
LEMMA OneBackedBatch ==
  ASSUME IInv, NEW r1 \in Correct, NEW r2 \in Correct, NEW x, NEW y,
         Backed(node, node[r1], r1, x), Backed(node, node[r2], r2, y),
         x.n = y.n
  PROVE  x = y
<1>1. \A p : Rec(node, node[r1], r1, p) = node[p]
             /\ Rec(node, node[r2], r2, p) = node[p]
  BY DEF Rec
<1>2. Primary \in Byz \/ (Primary \in Correct
        /\ x \in node[Primary].outPP /\ y \in node[Primary].outPP)
  BY <1>1, ConstantAssumption DEF Backed, SentPP
<1>3. CASE Primary \in Correct
  <2>1. Primary \notin Byz
    BY <1>3, ConstantAssumption
  <2>2. Ordered(node[Primary], Primary)
    BY <1>3 DEF IInv, Good
  <2> QED BY <1>2, <2>1, <2>2 DEF Ordered
<1>4. CASE Primary \notin Correct
  <2> DEFINE S == Validator \ {Primary}
             A == Preparers(node, node[r1], r1, x)
             B == Preparers(node, node[r2], r2, y)
             Z == (Validator \ Correct) \ {Primary}
  <2>1. IsFiniteSet(S) /\ Cardinality(S) = N - 1
    BY ValidatorAssumption, ConstantAssumption, FS_RemoveElement DEF N
  <2>2. IsFiniteSet(Z) /\ Cardinality(Z) = Cardinality(Validator \ Correct) - 1
    BY <1>4, Faulty, ConstantAssumption, FS_RemoveElement
  <2>3. A \in SUBSET S /\ B \in SUBSET S
    BY DEF Preparers
  <2>4. Cardinality(A) >= CommonCaseQuorum - 1
        /\ Cardinality(B) >= CommonCaseQuorum - 1
    BY DEF Backed
  <2>5. Cardinality(A) \in Nat /\ Cardinality(B) \in Nat
    BY <2>1, <2>3, FS_Subset, FS_CardinalityType
  <2> HIDE DEF S, A, B, Z
  <2>6. Cardinality(A) + Cardinality(B) > Cardinality(S) + Cardinality(Z)
    BY <2>1, <2>2, <2>4, <2>5, QuorumType, Faulty
  <2>7. PICK p \in A \cap B : p \notin Z
    BY <2>1, <2>2, <2>3, <2>6, Overlap
  <2>8. p \in Correct
    BY <2>3, <2>7 DEF S, Z
  <2>9. p \notin Byz
    BY <2>8, ConstantAssumption
  <2>10. x \in node[p].outP /\ y \in node[p].outP
    BY <1>1, <2>7, <2>9 DEF A, B, Preparers, SentP
  <2> QED BY <2>8, <2>10 DEF IInv, Good, Ordered
<1> QED BY <1>3, <1>4

\* Agreement: no two correct nodes execute different batches at one height,
\* for any number of validators, at most F of them faulty (recvPrePrepare,
\* recvPrepare, recvCommit, commitPendingBlocks).
THEOREM AgreementHolds == Spec => []Agreement
<1>1. IInv => Agreement
  <2> SUFFICES ASSUME IInv, NEW r1 \in Correct, NEW r2 \in Correct,
                      NEW x \in node[r1].executed, NEW y \in node[r2].executed,
                      x.n = y.n
               PROVE  x = y
    BY DEF Agreement
  <2>1. Backed(node, node[r1], r1, x) /\ Backed(node, node[r2], r2, y)
    BY DEF IInv, Good, Authentic
  <2> QED BY <2>1, OneBackedBatch
<1> QED BY <1>1, Invariance, PTL

\* A node broadcasts prepares for at most one batch per height, although
\* moveWatermarks and the view change forget seqMap (sendPrepare).
THEOREM OnePreparePerSeqHolds == Spec => []OnePreparePerSeq
<1>1. IInv => OnePreparePerSeq
  BY DEF IInv, Good, Ordered, OnePreparePerSeq
<1> QED BY <1>1, Invariance, PTL

\* A commit that sendCommit broadcasts is backed by the primary's
\* pre-prepare and by the prepares of a quorum of backups.
THEOREM CommitHasPrepareQuorumHolds == Spec => []CommitHasPrepareQuorum
<1>1. IInv => CommitHasPrepareQuorum
  <2> SUFFICES ASSUME IInv, NEW r \in Correct, NEW id \in node[r].outC
               PROVE  /\ SaidPrePrepare(id)
                      /\ Cardinality({p \in Validator \ {Primary} :
                                        SaidPrepare(p, id)})
                           >= CommonCaseQuorum - 1
    BY DEF CommitHasPrepareQuorum
  <2>1. Backed(node, node[r], r, id)
    BY DEF IInv, Good, Authentic
  <2>2. SentPP(node, node[r], r, id) <=> SaidPrePrepare(id)
    BY DEF SentPP, SaidPrePrepare, Rec
  <2>3. Preparers(node, node[r], r, id)
          = {p \in Validator \ {Primary} : SaidPrepare(p, id)}
    BY DEF Preparers, SentP, SaidPrepare, Rec
  <2> QED BY <2>1, <2>2, <2>3 DEF Backed
<1> QED BY <1>1, Invariance, PTL

\* The invariant contains the commits behind an executed batch.
LEMMA ExecutedIsCommitted == IInv => ExecutedHasCommitQuorum
<1> SUFFICES ASSUME IInv, NEW r \in Correct, NEW id \in node[r].executed
             PROVE  Cardinality({p \in Validator : SaidCommit(p, id)})
                      >= CommonCaseQuorum
  BY DEF ExecutedHasCommitQuorum
<1>1. CommitBacked(node, node[r], r, id)
  BY DEF IInv, Good, Authentic
<1>2. Committers(node, node[r], r, id) = {p \in Validator : SaidCommit(p, id)}
  BY DEF Committers, SentC, SaidCommit, Rec
<1> QED BY <1>1, <1>2 DEF CommitBacked

\* What commitPendingBlocks executes was committed by a quorum of validators,
\* on a validator and on a candidate.
THEOREM ExecutedHasCommitQuorumHolds == Spec => []ExecutedHasCommitQuorum
BY ExecutedIsCommitted, Invariance, PTL

\* Every N-F validators, those a view change hears from, include a correct
\* one that sent a commit for an executed batch, and so persisted it first.
THEOREM ExecutedIsDurableHolds == Spec => []ExecutedIsDurable
<1>1. IInv => ExecutedIsDurable
  <2> SUFFICES ASSUME IInv, NEW r \in Correct, NEW id \in node[r].executed,
                      NEW Q \in SUBSET Validator,
                      Cardinality(Q) >= AllCorrectReplicasQuorum
               PROVE  \E p \in Q \cap Correct : id \in node[p].outC
    BY DEF ExecutedIsDurable
  <2> DEFINE C == {p \in Validator : SaidCommit(p, id)}
             Z == Validator \ Correct
  <2>1. Cardinality(C) >= CommonCaseQuorum
    BY ExecutedIsCommitted DEF ExecutedHasCommitQuorum
  <2>2. Cardinality(C) \in Nat /\ Cardinality(Q) \in Nat
    BY ValidatorAssumption, FS_Subset, FS_CardinalityType
  <2>3. Cardinality(C) + Cardinality(Q) > Cardinality(Validator) + Cardinality(Z)
    <3> HIDE DEF C, Z
    <3>1. N = Cardinality(Validator) /\ Cardinality(Z) <= F /\ Cardinality(Z) \in Nat
      BY Faulty DEF N, Z
    <3> QED BY <2>1, <2>2, <3>1, QuorumType DEF AllCorrectReplicasQuorum
  <2>4. PICK p \in C \cap Q : p \notin Z
    <3>1. C \in SUBSET Validator /\ IsFiniteSet(Z)
      BY Faulty
    <3> HIDE DEF C, Z
    <3> QED BY <2>3, <3>1, ValidatorAssumption, Overlap
  <2>5. p \in Correct /\ p \notin Byz
    BY <2>4, ConstantAssumption
  <2> QED BY <2>4, <2>5 DEF SaidCommit
<1> QED BY <1>1, Invariance, PTL
=============================================================================
