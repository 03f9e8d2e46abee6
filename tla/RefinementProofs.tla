-------------------------- MODULE RefinementProofs --------------------------
(***************************************************************************)
(* The normal case implements Ledger: the blocks of the correct replicas   *)
(* are one ledger, and every event appends a run of blocks to one of them  *)
(* or changes none.  The inductive invariant of ExecutionProofs says that  *)
(* executed holds one batch per height, Agreement that replicas ahead hold *)
(* the same one, and StepOutcome that no event takes a block back.         *)
(***************************************************************************)
EXTENDS ExecutionProofs, SequenceTheorems

\* A sequence is the concatenation of its head and its tail.
LEMMA HeadAndTail ==
  ASSUME NEW D, NEW f \in Seq(D), NEW g \in Seq(D), NEW h \in Seq(D),
         Len(g) = Len(f) + Len(h),
         \A n \in 1 .. Len(f) : g[n] = f[n],
         \A i \in 1 .. Len(h) : h[i] = g[Len(f) + i]
  PROVE  g = f \o h
<1>1. f \o h \in Seq(D) /\ Len(f \o h) = Len(g)
  BY ConcatProperties
<1>2. ASSUME NEW n \in 1 .. Len(g) PROVE g[n] = (f \o h)[n]
  <2>1. CASE n <= Len(f)
    BY <2>1
  <2>2. CASE n > Len(f)
    <3>1. n - Len(f) \in 1 .. Len(h) /\ Len(f) + (n - Len(f)) = n
      BY <2>2
    <3>2. (f \o h)[n] = h[n - Len(f)]
      BY <2>2
    <3> QED BY <3>1, <3>2
  <2> QED BY <2>1, <2>2
<1> QED BY <1>1, <1>2, SeqEqual

\* The ledger of a record, as LedgerOf takes it from every replica.
Blocks(s) == [n \in 1 .. s.lastExec |-> BlockAt(s, n)]

\* BlockAt names the one batch that was executed at a height.
LEMMA BlockAtExecuted ==
  ASSUME NEW s \in State, Heights(s), NEW id \in s.executed
  PROVE  BlockAt(s, id.n) = id.d
BY DEF Heights, BlockAt

\* Every height up to lastExec has a block, which is a batch.
LEMMA BlockOfHeight ==
  ASSUME NEW s \in State, Heights(s), NEW n \in 1 .. s.lastExec
  PROVE  \E id \in s.executed : id.n = n /\ id.d \in Digest /\ BlockAt(s, n) = id.d
<1>1. PICK id \in s.executed : id.n = n
  BY DEF Heights
<1>2. id.d \in Digest
  BY DEF State, ID
<1> QED BY <1>1, <1>2, BlockAtExecuted

\* A record's blocks are a sequence of batches.
LEMMA BlocksType ==
  ASSUME NEW s \in State, Heights(s)
  PROVE  Blocks(s) \in Seq(Digest) /\ Len(Blocks(s)) = s.lastExec
<1>1. s.lastExec \in Nat
  BY Numbers
<1>2. \A n \in 1 .. s.lastExec : BlockAt(s, n) \in Digest
  BY BlockOfHeight
<1>3. Blocks(s) \in [1 .. s.lastExec -> Digest]
  BY <1>2 DEF Blocks
<1> QED BY <1>1, <1>3

\* A handler that never takes a block back appends the blocks above lastExec.
LEMMA BlocksAppend ==
  ASSUME NEW s \in State, NEW t \in State, Heights(s), Heights(t),
         t.lastExec >= s.lastExec, s.executed \subseteq t.executed
  PROVE  LET bs == [i \in 1 .. t.lastExec - s.lastExec |-> BlockAt(t, s.lastExec + i)]
         IN  /\ bs \in [1 .. t.lastExec - s.lastExec -> Digest]
             /\ Blocks(t) = Blocks(s) \o bs
<1> DEFINE k == t.lastExec - s.lastExec
           bs == [i \in 1 .. k |-> BlockAt(t, s.lastExec + i)]
<1>1. s.lastExec \in Nat /\ t.lastExec \in Nat /\ k \in Nat
  BY Numbers
<1>2. \A i \in 1 .. k : BlockAt(t, s.lastExec + i) \in Digest
  <2> TAKE i \in 1 .. k
  <2>1. s.lastExec + i \in 1 .. t.lastExec
    BY <1>1
  <2> QED BY <2>1, BlockOfHeight
<1>3. bs \in [1 .. k -> Digest]
  BY <1>2
<1>4. bs \in Seq(Digest) /\ Len(bs) = k
  BY <1>1, <1>3
<1>5. /\ Blocks(s) \in Seq(Digest) /\ Len(Blocks(s)) = s.lastExec
      /\ Blocks(t) \in Seq(Digest) /\ Len(Blocks(t)) = t.lastExec
  BY BlocksType
<1>6. \A n \in 1 .. s.lastExec : Blocks(t)[n] = Blocks(s)[n]
  <2> TAKE n \in 1 .. s.lastExec
  <2>1. PICK id \in s.executed : id.n = n /\ BlockAt(s, n) = id.d
    BY BlockOfHeight
  <2>2. BlockAt(t, n) = BlockAt(s, n)
    BY <2>1, BlockAtExecuted
  <2> QED BY <1>1, <2>2 DEF Blocks
<1>7. \A i \in 1 .. k : bs[i] = Blocks(t)[s.lastExec + i]
  BY <1>1 DEF Blocks
<1>8. t.lastExec = s.lastExec + k
  BY <1>1
<1> HIDE DEF bs, k
<1>9. Blocks(t) = Blocks(s) \o bs
  <2> DEFINE f == Blocks(s)
             g == Blocks(t)
  <2>1. Len(g) = Len(f) + Len(bs) /\ f \in Seq(Digest) /\ g \in Seq(Digest)
    BY <1>4, <1>5, <1>8
  <2>2. \A n \in 1 .. Len(f) : g[n] = f[n]
    BY <1>5, <1>6
  <2>3. \A i \in 1 .. Len(bs) : bs[i] = g[Len(f) + i]
    BY <1>4, <1>5, <1>7
  <2> HIDE DEF f, g
  <2>4. g = f \o bs
    BY <1>4, <2>1, <2>2, <2>3, HeadAndTail
  <2> QED BY <2>4 DEF f, g
<1> QED BY <1>3, <1>9 DEF bs, k

\* Replicas hold the same block at a height that both have reached.
LEMMA SameBlock ==
  ASSUME NEW s \in State, NEW t \in State, Heights(s), Heights(t),
         \A x \in s.executed, y \in t.executed : x.n = y.n => x = y,
         NEW n \in 1 .. s.lastExec, n <= t.lastExec
  PROVE  BlockAt(s, n) = BlockAt(t, n)
<1>1. n \in 1 .. t.lastExec
  BY Numbers
<1>2. PICK x \in s.executed : x.n = n /\ BlockAt(s, n) = x.d
  BY BlockOfHeight
<1>3. PICK y \in t.executed : y.n = n /\ BlockAt(t, n) = y.d
  BY <1>1, BlockOfHeight
<1> QED BY <1>2, <1>3
-----------------------------------------------------------------------------
\* Fresh replicas have an empty ledger.
LEMMA InitRefines == Init => OneLedger!Init
<1> SUFFICES ASSUME Init PROVE OneLedger!Init
  OBVIOUS
<1>1. \A r \in Correct : Blocks(node[r]) = <<>>
  <2> TAKE r \in Correct
  <2>1. node[r] \in State /\ Heights(node[r]) /\ node[r].lastExec = 0
    BY InitExec DEF ExecInv, Sound, Local, Init, InitState
  <2>2. Blocks(node[r]) \in Seq(Digest) /\ Len(Blocks(node[r])) = 0
    BY <2>1, BlocksType
  <2> QED BY <2>2
<1> QED BY <1>1 DEF OneLedger!Init, LedgerOf, Blocks

\* Every event is a run of blocks appended by one replica, or a stutter.
LEMMA StepRefines ==
  ASSUME ExecInv, ExecInv', Agreement', NEW r \in Correct, Step(r)
  PROVE  OneLedger!Next \/ LedgerOf' = LedgerOf
<1>1. PICK t : Update(r, t) /\ Outcome(r, t)
  BY StepOutcome
<1>2. \A p \in Correct : node'[p] = IF p = r THEN t ELSE node[p]
  BY <1>1 DEF Update, ExecInv, IInv, TypeOK
<1>3. \A p \in Correct : /\ node[p] \in State /\ Heights(node[p])
                         /\ node'[p] \in State /\ Heights(node'[p])
  BY DEF ExecInv, Sound, Local
<1> DEFINE s == node[r]
           k == t.lastExec - s.lastExec
           bs == [i \in 1 .. k |-> BlockAt(t, s.lastExec + i)]
<1>4. s \in State /\ t \in State /\ Heights(s) /\ Heights(t)
      /\ t.lastExec >= s.lastExec /\ s.executed \subseteq t.executed
  BY <1>1, <1>2, <1>3 DEF Outcome
<1>5. bs \in [1 .. k -> Digest] /\ Blocks(t) = Blocks(s) \o bs
  BY <1>4, BlocksAppend
<1>6. LedgerOf = [p \in Correct |-> Blocks(node[p])]
      /\ LedgerOf' = [p \in Correct |-> Blocks(node'[p])]
  BY DEF LedgerOf, Blocks
<1>7. k \in 0 .. MaxSeq
  <2>1. s.lastExec \in 0 .. MaxSeq /\ t.lastExec \in 0 .. MaxSeq
    BY <1>4 DEF State
  <2> QED BY <1>4, <2>1, ConstantAssumption
<1>8. LedgerOf' = [LedgerOf EXCEPT ![r] = @ \o bs]
  BY <1>2, <1>5, <1>6
<1>9. \A i \in 1 .. k : bs[i] = BlockAt(t, s.lastExec + i)
  OBVIOUS
<1>10. s.lastExec \in Nat /\ t.lastExec \in Nat /\ \A p \in Correct : node[p].lastExec \in Nat
  BY <1>3, <1>4, Numbers
<1> HIDE DEF bs
<1>11. CASE k = 0
  <2>1. t.lastExec = s.lastExec
    BY <1>10, <1>11
  <2>2. Blocks(t) = Blocks(s)
    <3>1. \A n \in 1 .. s.lastExec : BlockAt(t, n) = BlockAt(s, n)
      <4> TAKE n \in 1 .. s.lastExec
      <4>1. PICK id \in s.executed : id.n = n /\ BlockAt(s, n) = id.d
        BY <1>4, BlockOfHeight
      <4> QED BY <1>4, <4>1, BlockAtExecuted
    <3> QED BY <2>1, <3>1 DEF Blocks
  <2> QED BY <1>2, <1>6, <2>2
<1>12. CASE k # 0
  <2>1. bs \in OneLedger!Runs
    <3>1. k \in 1 .. MaxSeq
      BY <1>7, <1>12
    <3> QED BY <1>5, <3>1 DEF OneLedger!Runs
  <2>2. Len(bs) = k
    BY <1>5, <1>7
  <2>3. \A p \in Correct : Len(LedgerOf[p]) = node[p].lastExec
    BY <1>3, <1>6, BlocksType
  <2>4. ASSUME NEW p \in Correct, NEW i \in 1 .. Len(bs),
               Len(LedgerOf[r]) + i <= Len(LedgerOf[p])
        PROVE  LedgerOf[p][Len(LedgerOf[r]) + i] = bs[i]
    <3> DEFINE n == s.lastExec + i
    <3>0. i \in 1 .. k /\ Len(LedgerOf[r]) = s.lastExec /\ n <= node[p].lastExec
      BY <2>2, <2>3, <2>4
    <3>1. n \in 1 .. node[p].lastExec /\ n <= t.lastExec /\ p # r
      BY <1>10, <3>0
    <3>2. LedgerOf[p][n] = BlockAt(node[p], n)
      BY <1>6, <3>1 DEF Blocks
    <3>3. \A x \in node[p].executed, y \in t.executed : x.n = y.n => x = y
      BY <1>2, <3>1 DEF Agreement
    <3>4. BlockAt(node[p], n) = BlockAt(t, n)
      BY <1>3, <1>4, <3>1, <3>3, SameBlock
    <3> QED BY <1>9, <3>0, <3>2, <3>4
  <2>5. OneLedger!Execute(r, bs)
    BY <1>8, <2>4 DEF OneLedger!Execute
  <2> QED BY <2>1, <2>5 DEF OneLedger!Next
<1> QED BY <1>11, <1>12

(***************************************************************************)
(* The normal case implements one ledger: whatever is delayed, lost or     *)
(* sent by F faulty validators, each event of a correct replica appends    *)
(* batches no replica disagrees with (commitPendingBlocks), or none.       *)
(***************************************************************************)
THEOREM NormalCaseRefinesLedger == Spec => BuildsOneLedger
<1>1. ASSUME ExecInv, ExecInv', Agreement', [Next]_vars
      PROVE  [OneLedger!Next]_LedgerOf
  <2>1. CASE UNCHANGED vars
    <3>1. node' = node
      BY <2>1 DEF vars
    <3> QED BY <3>1 DEF LedgerOf
  <2>2. CASE Next
    BY <1>1, <2>2, StepRefines DEF Next
  <2> QED BY <1>1, <2>1, <2>2
<1> QED
  BY <1>1, InitRefines, ExecInvariance, AgreementHolds, PTL
     DEF Spec, BuildsOneLedger, OneLedger!Spec
=============================================================================
