---------------------------- MODULE LedgerProofs ----------------------------
(***************************************************************************)
(* The abstract ledger is consistent for every set of replicas and         *)
(* batches.  As NormalCase and ViewChange implement Ledger, so are theirs. *)
(***************************************************************************)
EXTENDS Ledger, TLAPS

TypeOK == ledger \in [Replica -> Seq(Batch)]

LInv == TypeOK /\ Consistent

(***************************************************************************)
(* The blocks that commitPendingBlocks appends agree with every replica    *)
(* that is ahead; those below are the ones the replica had.                *)
(***************************************************************************)
LEMMA ExecuteKeepsConsistent ==
  ASSUME LInv, NEW r \in Replica, NEW bs \in Runs, Execute(r, bs)
  PROVE  LInv'
<1>1. ledger \in [Replica -> Seq(Batch)] /\ ledger[r] \in Seq(Batch)
  BY DEF LInv, TypeOK
<1>2. bs \in Seq(Batch)
  BY DEF Runs
<1>3. /\ ledger' \in [Replica -> Seq(Batch)]
      /\ ledger'[r] = ledger[r] \o bs
      /\ \A s \in Replica \ {r} : ledger'[s] = ledger[s]
  BY <1>1, <1>2 DEF Execute
<1>4. /\ Len(ledger'[r]) = Len(ledger[r]) + Len(bs)
      /\ \A n \in 1 .. Len(ledger[r]) : ledger'[r][n] = ledger[r][n]
      /\ \A i \in 1 .. Len(bs) : ledger'[r][Len(ledger[r]) + i] = bs[i]
  BY <1>1, <1>2, <1>3
<1>5. ASSUME NEW s \in Replica, s # r,
             NEW n \in 1 .. Len(ledger'[r]), n <= Len(ledger'[s])
      PROVE  ledger'[r][n] = ledger'[s][n]
  <2>1. ledger'[s] = ledger[s] /\ ledger[s] \in Seq(Batch)
    BY <1>1, <1>3, <1>5
  <2>2. CASE n \in 1 .. Len(ledger[r])
    BY <1>4, <1>5, <2>1, <2>2 DEF LInv, Consistent
  <2>3. CASE n > Len(ledger[r])
    <3> DEFINE i == n - Len(ledger[r])
    <3>1. i \in 1 .. Len(bs) /\ n = Len(ledger[r]) + i
      BY <1>1, <1>2, <1>4, <2>3
    <3> HIDE DEF i
    <3>2. ledger[s][Len(ledger[r]) + i] = bs[i]
      BY <1>5, <2>1, <3>1 DEF Execute
    <3> QED
      BY <1>4, <2>1, <3>1, <3>2
  <2> QED
    BY <1>1, <2>2, <2>3
<1>6. Consistent'
  <2> SUFFICES ASSUME NEW p \in Replica, NEW q \in Replica,
                      NEW n \in 1 .. Len(ledger'[p]), n <= Len(ledger'[q])
               PROVE  ledger'[p][n] = ledger'[q][n]
    BY DEF Consistent
  <2>1. CASE p = r /\ q # r
    BY <1>5, <2>1
  <2>2. CASE q = r /\ p # r
    <3>1. ledger'[p] \in Seq(Batch) /\ ledger'[q] \in Seq(Batch)
      BY <1>3
    <3>2. n \in 1 .. Len(ledger'[r]) /\ n <= Len(ledger'[p])
      BY <2>2, <3>1
    <3> QED
      BY <1>5, <2>2, <3>2
  <2>3. CASE p # r /\ q # r
    <3>1. ledger'[p] = ledger[p] /\ ledger'[q] = ledger[q]
      BY <1>3, <2>3
    <3> QED
      BY <3>1 DEF LInv, Consistent
  <2> QED
    BY <2>1, <2>2, <2>3
<1> QED
  BY <1>3, <1>6 DEF LInv, TypeOK

(***************************************************************************)
(* A transferred ledger is a prefix of that of a replica, which agrees     *)
(* with all others (StateUpdate).                                          *)
(***************************************************************************)
LEMMA CatchUpKeepsConsistent ==
  ASSUME LInv, NEW r \in Replica, NEW s \in Replica,
         NEW n \in 1 .. Len(ledger[s]), CatchUp(r, s, n)
  PROVE  LInv'
<1>1. ledger \in [Replica -> Seq(Batch)] /\ ledger[s] \in Seq(Batch)
  BY DEF LInv, TypeOK
<1>2. /\ SubSeq(ledger[s], 1, n) \in Seq(Batch)
      /\ Len(SubSeq(ledger[s], 1, n)) = n
      /\ \A i \in 1 .. n : SubSeq(ledger[s], 1, n)[i] = ledger[s][i]
  BY <1>1
<1>3. /\ ledger' \in [Replica -> Seq(Batch)]
      /\ ledger'[r] = SubSeq(ledger[s], 1, n)
      /\ \A p \in Replica \ {r} : ledger'[p] = ledger[p]
  BY <1>1, <1>2 DEF CatchUp
<1>4. ASSUME NEW p \in Replica, p # r,
             NEW i \in 1 .. n, i <= Len(ledger'[p])
      PROVE  ledger'[r][i] = ledger'[p][i]
  <2>1. ledger'[p] = ledger[p] /\ ledger[p] \in Seq(Batch)
    BY <1>1, <1>3, <1>4
  <2>2. i \in 1 .. Len(ledger[s]) /\ i <= Len(ledger[p])
    BY <1>1, <1>4, <2>1
  <2> QED
    BY <1>2, <1>3, <2>1, <2>2 DEF LInv, Consistent
<1>5. Consistent'
  <2> SUFFICES ASSUME NEW p \in Replica, NEW q \in Replica,
                      NEW i \in 1 .. Len(ledger'[p]), i <= Len(ledger'[q])
               PROVE  ledger'[p][i] = ledger'[q][i]
    BY DEF Consistent
  <2>1. CASE p = r /\ q # r
    BY <1>2, <1>3, <1>4, <2>1
  <2>2. CASE q = r /\ p # r
    <3>1. ledger'[p] \in Seq(Batch) /\ ledger'[q] \in Seq(Batch)
      BY <1>3
    <3>2. i \in 1 .. n /\ i <= Len(ledger'[p])
      BY <1>2, <1>3, <2>2, <3>1
    <3> QED
      BY <1>4, <2>2, <3>2
  <2>3. CASE p # r /\ q # r
    <3>1. ledger'[p] = ledger[p] /\ ledger'[q] = ledger[q]
      BY <1>3, <2>3
    <3> QED
      BY <3>1 DEF LInv, Consistent
  <2> QED
    BY <2>1, <2>2, <2>3
<1> QED
  BY <1>3, <1>5 DEF LInv, TypeOK

(***************************************************************************)
(* No two replicas ever hold different batches at one height, however they *)
(* append blocks and take over ledgers.                                    *)
(***************************************************************************)
THEOREM LedgerIsConsistent == Spec => []Consistent
<1>1. Init => LInv
  BY DEF Init, LInv, TypeOK, Consistent
<1>2. LInv /\ [Next]_ledger => LInv'
  <2>1. ASSUME LInv, UNCHANGED ledger PROVE LInv'
    BY <2>1 DEF LInv, TypeOK, Consistent
  <2> QED
    BY <2>1, ExecuteKeepsConsistent, CatchUpKeepsConsistent DEF Next
<1>3. LInv => Consistent
  BY DEF LInv
<1> QED
  BY <1>1, <1>2, <1>3, PTL DEF Spec
=============================================================================
