-------------------------- MODULE PersistenceProofs -------------------------
(***************************************************************************)
(* What a replica has told others survives a crash and restart, for every  *)
(* number of heights, views, batches and crashes, as long as no crash      *)
(* comes while getVcBasis rewrites the lists.  The memory always has an    *)
(* entry for what was sent; the database has the entries of the memory, or *)
(* the running handler has still to write them; and what it has still to   *)
(* delete is no longer in memory.                                          *)
(***************************************************************************)
EXTENDS Persistence, TLAPS, WellFoundedInduction, NaturalsInduction

Memory ==
  [ view : Int, inVC : BOOLEAN, waitExec : BOOLEAN, target : Nat, H : Nat,
    lastExec : Nat, seqMap : SUBSET Int, prePrep : SUBSET ID, prepares : SUBSET ID,
    qlist : SUBSET ID, plist : SUBSET ID, localCkpt : SUBSET Int ]

Store ==
  [ qset : SUBSET ID, pset : SUBSET ID, qlist : SUBSET ID, plist : SUBSET ID,
    chkpt : SUBSET Int, h : Nat, view : Int ]

Entry == [at : Nat, op : {"put", "del"}, key : {"qset", "pset", "qlist", "plist"}, e : ID]
Value == [at : Nat, op : {"put", "del"}, key : {"chkpt"}, e : Int]
           \cup [at : Nat, op : {"set"}, key : {"h"}, e : Nat]
           \cup [at : Nat, op : {"set"}, key : {"view"}, e : Int]
Message == [at : Nat, op : {"send"}, key : {"prepare", "commit"}, e : ID]

Types(m, st, t, c) ==
  m \in Memory /\ st \in Store /\ t \in SUBSET (Entry \cup Value \cup Message) /\ c \in Nat

\* Everything in memory, stored or on the way was proposed, once per height
\* and view.
Proposed(m, st, t, pr) ==
  /\ pr \in SUBSET ID
  /\ \A x, y \in pr : x.v = y.v /\ x.n = y.n => x = y
  /\ m.prePrep \cup m.prepares \cup m.plist \cup m.qlist \subseteq pr
  /\ st.qset \cup st.pset \cup st.plist \cup st.qlist \subseteq pr
  /\ \A w \in t : w \in Entry \cup Message => w.e \in pr

\* t has w.op of e under the key.
Pending(t, op, key, e) == \E w \in t : w.op = op /\ w.key = key /\ w.e = e

\* The certs in memory are stored or about to be, and none is deleted.
Certs(m, st, t) ==
  /\ \A id \in m.prePrep :
       /\ id \in st.qset \/ Pending(t, "put", "qset", id)
       /\ ~Pending(t, "del", "qset", id)
  /\ \A id \in m.prepares :
       /\ id \in st.pset \/ Pending(t, "put", "pset", id)
       /\ ~Pending(t, "del", "pset", id)

\* The lists in memory are stored and stay, or they are about to be stored.
Lists(m, st, t) ==
  /\ \A e \in m.plist :
       \/ e \in st.plist /\ ~Pending(t, "del", "plist", e)
       \/ Pending(t, "put", "plist", e)
  /\ \A e \in m.qlist :
       \/ e \in st.qlist /\ ~Pending(t, "del", "qlist", e)
       \/ Pending(t, "put", "qlist", e)

\* A handler deletes old list entries before it stores new ones, and stores
\* what it sends before it sends it.
Order(m, t) ==
  /\ \A x, y \in t : x.op = "del" /\ y.op = "put" /\ x.key = y.key
                     /\ x.key \in {"plist", "qlist"} => x.at < y.at
  /\ \A x, y \in t : x.op = "put" /\ y.op = "send" => x.at < y.at
  /\ \A w \in t : w.key = "prepare" => w.e \in m.prePrep
  /\ \A w \in t : w.key = "commit" => w.e \in Prepared(m)

\* Low watermarks and targets are checkpoints of a quorum.
Certified(m, st, t, c) ==
  /\ m.H <= c /\ m.target <= c /\ st.h <= c
  /\ \A w \in t : w.key = "h" => w.e <= c

\* S has, for a height at which id was committed, id or a later entry.
Covers(S, id) == \E p \in S : p.n = id.n /\ (p.v > id.v \/ p = id)

\* S has, for a height at which id was prepared, the same batch.
Vouches(S, id) == \E q \in S : q.n = id.n /\ q.d = id.d /\ q.v >= id.v

\* The certs that are prepared in memory and stored.
Stored(m, st) == Prepared(m) \cap st.pset \cap st.qset

\* What was sent is in memory, and stored as far as it is in a cert.
Told(m, st, c, sp, sc) ==
  /\ \A id \in sc : id.n > c => Covers(m.plist \cup Stored(m, st), id)
  /\ \A id \in sp : id.n > c => Vouches(m.qlist \cup (m.prePrep \cap st.qset), id)

Good(m, st, t, c, sp, sc, pr) ==
  /\ Types(m, st, t, c) /\ Proposed(m, st, t, pr)
  /\ sp \in SUBSET pr /\ sc \in SUBSET pr
  /\ Certs(m, st, t) /\ Lists(m, st, t) /\ Order(m, t)
  /\ Certified(m, st, t, c) /\ Told(m, st, c, sp, sc)

\* The inductive invariant.
IInv ==
  /\ ~CrashInRewrite
  /\ applied \in Nat
  /\ Good(mem, db, todo, certified, outP, outC, proposed)

\* What is to be stored is pending.
LEMMA PutIsPending ==
  ASSUME NEW at, NEW key, NEW ids, NEW e \in ids
  PROVE  Pending(Put(at, key, ids), "put", key, e)
<1>1. [at |-> at, op |-> "put", key |-> key, e |-> e] \in Put(at, key, ids)
  BY DEF Put
<1> QED BY <1>1 DEF Pending

-----------------------------------------------------------------------------
(* Entries *)

\* Some entries have one of the highest view.
LEMMA Highest ==
  ASSUME NEW S \in SUBSET ID, S # {}
  PROVE  \E p \in S : \A o \in S : o.v <= p.v
<1>1. MaxView \in Nat
  BY ConstantAssumption
<1> DEFINE R == OpToRel(<, Nat)
           Gap(x) == MaxView - x.v
           G == {g \in Nat : \E x \in S : g = Gap(x)}
<1>2. IsWellFoundedOn(R, Nat)
  BY NatLessThanWellFounded
<1>3. \A x, y \in Nat : <<x, y>> \in R <=> x < y
  BY DEF OpToRel
<1>4. \A x \in S : x.v \in Nat /\ Gap(x) \in Nat
  BY <1>1 DEF ID
<1>5. G # {} /\ G \subseteq Nat
  BY <1>4
<1> HIDE DEF R
<1>6. PICK g \in G : \A h \in G : ~(<<h, g>> \in R)
  <2> HIDE DEF G
  <2> QED BY <1>2, <1>5, WFMin
<1>7. PICK p \in S : g = Gap(p)
  OBVIOUS
<1> SUFFICES ASSUME NEW o \in S PROVE o.v <= p.v
  OBVIOUS
<1>8. Gap(o) \in G /\ ~(Gap(o) < g)
  BY <1>3, <1>4, <1>6
<1> QED BY <1>1, <1>4, <1>7, <1>8

\* calcPSet keeps what is covered: of each height it has the latest entry.
LEMMA CalcPSetCovers ==
  ASSUME NEW m \in Memory, NEW pr \in SUBSET ID, m.plist \cup Prepared(m) \subseteq pr,
         \A x, y \in pr : x.v = y.v /\ x.n = y.n => x = y,
         NEW id \in pr, Covers(m.plist \cup Prepared(m), id)
  PROVE  Covers(CalcPSet(m), id)
<1> DEFINE all == m.plist \cup Prepared(m)
           S == {o \in all : o.n = id.n}
<1>1. PICK p \in all : p.n = id.n /\ (p.v > id.v \/ p = id)
  BY DEF Covers
<1>2. S \in SUBSET ID /\ S # {}
  BY <1>1
<1>3. PICK q \in S : \A o \in S : o.v <= q.v
  <2> HIDE DEF S
  <2> QED BY <1>2, Highest
<1>4. q \in CalcPSet(m)
  BY <1>3 DEF CalcPSet
<1>5. q.n = id.n /\ p.v <= q.v /\ q \in pr
  BY <1>1, <1>3
<1>6. q.v > id.v \/ q = id
  <2>1. p.v \in Int /\ q.v \in Int /\ id.v \in Int
    BY <1>1, <1>5 DEF ID
  <2>2. q.v = id.v => q = id
    BY <1>5
  <2> QED BY <1>1, <1>5, <2>1, <2>2
<1> QED BY <1>4, <1>5, <1>6 DEF Covers

\* calcQSet keeps what is vouched for.
LEMMA CalcQSetVouches ==
  ASSUME NEW m \in Memory, NEW id \in ID, Vouches(m.qlist \cup m.prePrep, id)
  PROVE  Vouches(CalcQSet(m), id)
<1> DEFINE all == m.qlist \cup m.prePrep
           S == {o \in all : o.n = id.n /\ o.d = id.d}
<1>1. PICK p \in all : p.n = id.n /\ p.d = id.d /\ p.v >= id.v
  BY DEF Vouches
<1>2. S \in SUBSET ID /\ S # {}
  BY <1>1 DEF Memory
<1>3. PICK q \in S : \A o \in S : o.v <= q.v
  <2> HIDE DEF S
  <2> QED BY <1>2, Highest
<1>4. q \in CalcQSet(m)
  BY <1>3 DEF CalcQSet
<1>5. p.v \in Int /\ q.v \in Int /\ id.v \in Int
  BY <1>1, <1>2, <1>3 DEF ID, Memory
<1> QED BY <1>1, <1>3, <1>4, <1>5 DEF Vouches

-----------------------------------------------------------------------------
(* Memory and database *)

\* Between handlers everything in memory is stored.
LEMMA AllStored ==
  ASSUME NEW m, NEW st, NEW c, NEW sp, NEW sc, NEW pr, Good(m, st, {}, c, sp, sc, pr)
  PROVE  /\ m.prePrep \subseteq st.qset
         /\ m.prepares \subseteq st.pset
         /\ m.plist \subseteq st.plist /\ m.qlist \subseteq st.qlist
BY DEF Good, Certs, Lists, Pending

\* What was told stays so when only entries up to certified are dropped.
LEMMA ToldKept ==
  ASSUME NEW m, NEW st, NEW c \in Nat, NEW sp \in SUBSET ID, NEW sc \in SUBSET ID,
         Told(m, st, c, sp, sc),
         NEW m2, NEW st2, NEW c2 \in Nat, c2 >= c,
         \A p \in m.plist \cup Stored(m, st) :
           p.n > c2 => p \in m2.plist \cup Stored(m2, st2),
         \A q \in m.qlist \cup (m.prePrep \cap st.qset) :
           q.n > c2 => q \in m2.qlist \cup (m2.prePrep \cap st2.qset)
  PROVE  Told(m2, st2, c2, sp, sc)
<1>1. ASSUME NEW id \in sc, id.n > c2
      PROVE  Covers(m2.plist \cup Stored(m2, st2), id)
  <2>1. id.n > c
    BY <1>1 DEF ID
  <2>2. PICK p \in m.plist \cup Stored(m, st) :
          p.n = id.n /\ (p.v > id.v \/ p = id)
    BY <2>1 DEF Told, Covers
  <2>3. p \in m2.plist \cup Stored(m2, st2)
    BY <1>1, <2>2
  <2> QED BY <2>2, <2>3 DEF Covers
<1>2. ASSUME NEW id \in sp, id.n > c2
      PROVE  Vouches(m2.qlist \cup (m2.prePrep \cap st2.qset), id)
  <2>1. id.n > c
    BY <1>2 DEF ID
  <2>2. PICK q \in m.qlist \cup (m.prePrep \cap st.qset) :
          q.n = id.n /\ q.d = id.d /\ q.v >= id.v
    BY <2>1 DEF Told, Vouches
  <2>3. q \in m2.qlist \cup (m2.prePrep \cap st2.qset)
    BY <1>2, <2>2
  <2> QED BY <2>2, <2>3 DEF Vouches
<1> QED BY <1>1, <1>2 DEF Told

\* Fields that no report depends on.
SameReports(m, u) ==
  /\ u.prePrep = m.prePrep /\ u.prepares = m.prepares
  /\ u.plist = m.plist /\ u.qlist = m.qlist
  /\ u.H = m.H /\ u.target = m.target

\* A handler that leaves the entries alone and writes no entry.
LEMMA OtherHandler ==
  ASSUME NEW m, NEW st, NEW c, NEW sp, NEW sc, NEW pr, Good(m, st, {}, c, sp, sc, pr),
         NEW u \in Memory, SameReports(m, u),
         NEW t \in SUBSET Value, \A w \in t : w.key = "chkpt"
  PROVE  Good(u, st, t, c, sp, sc, pr)
<1>1. \A w \in t : w \notin Entry \cup Message
                  /\ w.key \notin {"qset", "pset", "qlist", "plist", "prepare", "commit", "h"}
  BY DEF Entry, Message
<1>2. \A op, e : \A k \in {"qset", "pset", "qlist", "plist"} : ~Pending(t, op, k, e)
  BY <1>1 DEF Pending
<1>3. Types(u, st, t, c)
  BY DEF Good, Types
<1>4. Proposed(u, st, t, pr)
  BY <1>1 DEF Good, Proposed, SameReports
<1>5. Certs(u, st, t) /\ Lists(u, st, t)
  BY <1>2, AllStored DEF Certs, Lists, SameReports
<1>6. Order(u, t)
  <2>1. \A w \in t : w.op # "send"
    BY <1>1 DEF Value
  <2> QED BY <1>1, <2>1 DEF Order
<1>7. Certified(u, st, t, c)
  BY <1>1 DEF Good, Certified, SameReports
<1>8. Told(u, st, c, sp, sc)
  BY DEF Good, Told, SameReports, Stored, Prepared
<1> QED BY <1>3, <1>4, <1>5, <1>6, <1>7, <1>8 DEF Good

\* Handlers that store pre-prepares and send prepares for them: recvPrePrepare
\* and processNewView.
LEMMA StorePrePrepares ==
  ASSUME NEW m, NEW st, NEW c, NEW sp, NEW sc, NEW pr, Good(m, st, {}, c, sp, sc, pr),
         NEW pr2 \in SUBSET ID, pr \subseteq pr2,
         \A x, y \in pr2 : x.v = y.v /\ x.n = y.n => x = y,
         NEW ids \in SUBSET pr2,
         NEW u \in Memory, u.prePrep = m.prePrep \cup ids, u.prepares = m.prepares,
         u.plist = m.plist, u.qlist = m.qlist, u.H = m.H, u.target = m.target,
         NEW v, v = {} \/ v \in {Set(3, "view", n) : n \in Int}
  PROVE  Good(u, st, Put(1, "qset", ids) \cup Broadcast(2, "prepare", ids) \cup v,
              c, sp, sc, pr2)
<1> DEFINE put == Put(1, "qset", ids)
           send == Broadcast(2, "prepare", ids)
           t == put \cup send \cup v
<1>1. \A w \in v : w \in Value /\ w.at = 3 /\ w.op = "set" /\ w.key = "view"
  BY DEF Set, Value
<1>2. \A w \in put : w.at = 1 /\ w.op = "put" /\ w.key = "qset" /\ w.e \in ids
  BY DEF Put, Del, Broadcast, Set
<1>3. \A w \in send : w.at = 2 /\ w.op = "send" /\ w.key = "prepare" /\ w.e \in ids
  BY DEF Put, Del, Broadcast, Set
<1>4. put \subseteq Entry /\ send \subseteq Message
  BY DEF Put, Del, Broadcast, Set, Entry, Message, Value
<1>5. \A e \in ids : Pending(t, "put", "qset", e)
  <2> SUFFICES ASSUME NEW e \in ids PROVE Pending(t, "put", "qset", e)
    OBVIOUS
  <2>1. Pending(put, "put", "qset", e)
    BY PutIsPending
  <2> QED BY <2>1 DEF Pending
<1> HIDE DEF put, send
<1>6. \A e, k : ~Pending(t, "del", k, e)
  BY <1>1, <1>2, <1>3 DEF Pending
<1>7. Types(u, st, t, c)
  BY <1>1, <1>4 DEF Good, Types
<1>8. Proposed(u, st, t, pr2)
  <2>1. \A w \in t : w \in Entry \cup Message => w.e \in pr2
    <3>1. \A w \in v : w \notin Entry \cup Message
      BY <1>1 DEF Entry, Message
    <3> QED BY <1>2, <1>3, <3>1
  <2>2. u.prePrep \cup u.prepares \cup u.plist \cup u.qlist \subseteq pr2
    BY DEF Good, Proposed
  <2>3. st.qset \cup st.pset \cup st.plist \cup st.qlist \subseteq pr2
    BY DEF Good, Proposed
  <2> HIDE DEF t
  <2> QED BY <2>1, <2>2, <2>3 DEF Proposed
<1>9. Certs(u, st, t)
  BY <1>5, <1>6, AllStored DEF Certs
<1>10. Lists(u, st, t)
  BY <1>6, AllStored DEF Lists
<1>11. Order(u, t)
  BY <1>1, <1>2, <1>3 DEF Order
<1>12. Certified(u, st, t, c)
  BY <1>1, <1>2, <1>3 DEF Good, Certified
<1>13. Told(u, st, c, sp, sc)
  <2>1. c \in Nat /\ sp \in SUBSET ID /\ sc \in SUBSET ID /\ Told(m, st, c, sp, sc)
    BY DEF Good, Types, Proposed
  <2>2. Stored(m, st) \subseteq Stored(u, st)
        /\ m.prePrep \cap st.qset \subseteq u.prePrep \cap st.qset
    BY DEF Stored, Prepared
  <2> QED BY <2>1, <2>2, ToldKept
<1> HIDE DEF t
<1>14. sp \in SUBSET pr2 /\ sc \in SUBSET pr2
  BY DEF Good
<1>15. Good(u, st, t, c, sp, sc, pr2)
  BY <1>7, <1>8, <1>9, <1>10, <1>11, <1>12, <1>13, <1>14 DEF Good
<1> QED BY <1>15 DEF t, put, send

\* sendCommit: the prepares are stored before the commit goes out.
LEMMA StorePrepares ==
  ASSUME NEW m, NEW st, NEW c, NEW sp, NEW sc, NEW pr, Good(m, st, {}, c, sp, sc, pr),
         NEW id \in m.prePrep
  PROVE  Good([m EXCEPT !.prepares = @ \cup {id}], st, CommitWrites(id), c, sp, sc, pr)
<1> DEFINE put == Put(1, "pset", {id})
           send == Broadcast(2, "commit", {id})
           t == put \cup send
           u == [m EXCEPT !.prepares = @ \cup {id}]
<1>0. m \in Memory /\ id \in ID /\ id \in pr
  BY DEF Good, Types, Proposed, Memory
<1>1. \A w \in put : w.at = 1 /\ w.op = "put" /\ w.key = "pset" /\ w.e = id
  BY DEF Put, Del, Broadcast, Set
<1>2. \A w \in send : w.at = 2 /\ w.op = "send" /\ w.key = "commit" /\ w.e = id
  BY DEF Put, Del, Broadcast, Set
<1>3. put \subseteq Entry /\ send \subseteq Message
  BY <1>0 DEF Put, Del, Broadcast, Set, Entry, Message, Value
<1>4. Pending(t, "put", "pset", id)
  <2>1. Pending(put, "put", "pset", id)
    BY PutIsPending
  <2> QED BY <2>1 DEF Pending
<1>5. u \in Memory /\ u.prepares = m.prepares \cup {id} /\ u.prePrep = m.prePrep
      /\ u.plist = m.plist /\ u.qlist = m.qlist /\ u.H = m.H /\ u.target = m.target
  BY <1>0 DEF Memory
<1> HIDE DEF put, send, u
<1>6. \A e, k : ~Pending(t, "del", k, e)
  BY <1>1, <1>2 DEF Pending
<1>7. Types(u, st, t, c)
  BY <1>3, <1>5 DEF Good, Types
<1>8. Proposed(u, st, t, pr)
  <2>1. \A w \in t : w.e \in pr
    BY <1>0, <1>1, <1>2
  <2> HIDE DEF t
  <2> QED BY <1>0, <1>5, <2>1 DEF Good, Proposed
<1>9. Certs(u, st, t)
  BY <1>4, <1>5, <1>6, AllStored DEF Certs
<1>10. Lists(u, st, t)
  BY <1>5, <1>6, AllStored DEF Lists
<1>11. Order(u, t)
  BY <1>1, <1>2, <1>5 DEF Order, Prepared
<1>12. Certified(u, st, t, c)
  BY <1>1, <1>2, <1>5 DEF Good, Certified
<1>13. Told(u, st, c, sp, sc)
  <2>1. c \in Nat /\ sp \in SUBSET ID /\ sc \in SUBSET ID /\ Told(m, st, c, sp, sc)
    BY DEF Good, Types, Proposed
  <2> QED BY <1>5, <2>1, ToldKept DEF Stored, Prepared
<1> HIDE DEF t
<1>14. Good(u, st, t, c, sp, sc, pr)
  BY <1>7, <1>8, <1>9, <1>10, <1>11, <1>12, <1>13 DEF Good
<1> QED BY <1>14 DEF t, put, send, u, CommitWrites

\* Handlers that drop certs, and list entries, up to certified: they delete
\* only what is gone from memory.
LEMMA DropCerts ==
  ASSUME NEW m, NEW st, NEW c, NEW sp, NEW sc, NEW pr, Good(m, st, {}, c, sp, sc, pr),
         NEW u \in Memory, NEW c2 \in Nat, c2 >= c, NEW old \in SUBSET pr,
         \A x \in old : x.n <= c2,
         u.prePrep = m.prePrep \ old, u.prepares = m.prepares \ old,
         u.plist \subseteq m.plist, \A p \in m.plist : p.n > c2 => p \in u.plist,
         u.qlist \subseteq m.qlist, \A q \in m.qlist : q.n > c2 => q \in u.qlist,
         u.H <= c2, u.target <= c2,
         NEW at \in Nat, NEW v \in SUBSET Value,
         \A w \in v : w.key = "chkpt" \/ (w.key = "h" /\ w.e <= c2)
  PROVE  Good(u, st, DelQPCSet(at, old) \cup v, c2, sp, sc, pr)
<1> DEFINE delq == Del(at, "qset", old)
           delp == Del(at, "pset", old)
           t == delq \cup delp \cup v
<1>0. pr \in SUBSET ID /\ c \in Nat /\ st \in Store
  BY DEF Good, Types, Proposed
<1>1. \A w \in delq : w.op = "del" /\ w.key = "qset" /\ w.e \in old
  BY DEF Put, Del, Broadcast, Set
<1>2. \A w \in delp : w.op = "del" /\ w.key = "pset" /\ w.e \in old
  BY DEF Put, Del, Broadcast, Set
<1>3. delq \subseteq Entry /\ delp \subseteq Entry
  <2>1. old \in SUBSET ID
    BY <1>0
  <2> QED BY <2>1 DEF Put, Del, Broadcast, Set, Entry, Message, Value
<1>4. \A w \in v : w \notin Entry \cup Message /\ w.key \in {"chkpt", "h"} /\ w.op # "send"
  BY DEF Entry, Message, Value
<1> HIDE DEF delq, delp
<1>5. \A e : /\ Pending(t, "del", "qset", e) \/ Pending(t, "del", "pset", e) => e \in old
             /\ \A op : \A k \in {"qlist", "plist"} : ~Pending(t, op, k, e)
  BY <1>1, <1>2, <1>4 DEF Pending
<1>6. Types(u, st, t, c2)
  BY <1>0, <1>3 DEF Types
<1>7. Proposed(u, st, t, pr)
  <2>1. \A w \in t : w \in Entry \cup Message => w.e \in pr
    BY <1>1, <1>2, <1>4
  <2> HIDE DEF t
  <2> QED BY <2>1 DEF Good, Proposed
<1>8. Certs(u, st, t)
  BY <1>5, AllStored DEF Certs
<1>9. Lists(u, st, t)
  BY <1>5, AllStored DEF Lists
<1>10. Order(u, t)
  BY <1>1, <1>2, <1>4 DEF Order
<1>11. Certified(u, st, t, c2)
  <2>1. st.h <= c2
    BY <1>0 DEF Good, Certified, Store
  <2>2. \A w \in t : w.key = "h" => w.e <= c2
    BY <1>1, <1>2
  <2> HIDE DEF t
  <2> QED BY <2>1, <2>2 DEF Certified
<1>12. Told(u, st, c2, sp, sc)
  <2>1. sp \in SUBSET ID /\ sc \in SUBSET ID /\ Told(m, st, c, sp, sc)
    BY DEF Good, Proposed
  <2>2. \A x \in ID : x.n > c2 => x \notin old
    BY DEF ID
  <2>3. m.prepares \subseteq ID /\ m.prePrep \subseteq ID
    BY DEF Good, Types, Memory
  <2>4. \A p \in m.plist \cup Stored(m, st) :
          p.n > c2 => p \in u.plist \cup Stored(u, st)
    BY <2>2, <2>3 DEF Stored, Prepared
  <2>5. \A q \in m.qlist \cup (m.prePrep \cap st.qset) :
          q.n > c2 => q \in u.qlist \cup (u.prePrep \cap st.qset)
    BY <2>2, <2>3
  <2> QED BY <1>0, <2>1, <2>4, <2>5, ToldKept
<1>13. sp \in SUBSET pr /\ sc \in SUBSET pr
  BY DEF Good
<1> HIDE DEF t
<1>14. Good(u, st, t, c2, sp, sc, pr)
  BY <1>6, <1>7, <1>8, <1>9, <1>10, <1>11, <1>12, <1>13 DEF Good
<1> QED BY <1>14 DEF t, delq, delp, DelQPCSet

\* moveWatermarks to a checkpoint of a quorum.
LEMMA MoveGood ==
  ASSUME NEW m, NEW st, NEW c, NEW sp, NEW sc, NEW pr, Good(m, st, {}, c, sp, sc, pr),
         NEW c2 \in Nat, c2 >= c, NEW h \in Nat, h <= c2, ~(m.H > h),
         NEW ns \in SUBSET Int, NEW v \in SUBSET Value, \A w \in v : w.key = "chkpt"
  PROVE  Good(MoveWatermarks(m, h), st,
              v \cup (DelQPCSet(2, CertStore(m) \ Above(CertStore(m), h))
                       \cup Del(3, "chkpt", ns) \cup Set(4, "h", h)),
              c2, sp, sc, pr)
<1> DEFINE u == MoveWatermarks(m, h)
           old == CertStore(m) \ Above(CertStore(m), h)
           rest == v \cup Del(3, "chkpt", ns) \cup Set(4, "h", h)
<1>1. m \in Memory /\ m.target <= c /\ c \in Nat
      /\ m.prePrep \cup m.prepares \subseteq pr /\ pr \subseteq ID
  BY DEF Good, Types, Certified, Proposed
<1>2. /\ u \in Memory /\ u.prePrep = Above(m.prePrep, h) /\ u.prepares = Above(m.prepares, h)
      /\ u.plist = Above(m.plist, h) /\ u.qlist = Above(m.qlist, h)
      /\ u.H = h /\ u.target = m.target
  BY <1>1 DEF MoveWatermarks, Memory, Above
<1> HIDE DEF u
<1>3. old \in SUBSET pr /\ \A x \in old : x.n <= c2
  BY <1>1 DEF Above, CertStore, ID
<1>4. u.prePrep = m.prePrep \ old /\ u.prepares = m.prepares \ old
  BY <1>1, <1>2 DEF Above, CertStore
<1>5. /\ u.plist \subseteq m.plist /\ \A p \in m.plist : p.n > c2 => p \in u.plist
      /\ u.qlist \subseteq m.qlist /\ \A q \in m.qlist : q.n > c2 => q \in u.qlist
  BY <1>1, <1>2 DEF Above, Memory, ID
<1>6. rest \in SUBSET Value /\ \A w \in rest : w.key = "chkpt" \/ (w.key = "h" /\ w.e <= c2)
  <2>1. Del(3, "chkpt", ns) \subseteq Value /\ Set(4, "h", h) \subseteq Value
    BY DEF Put, Del, Broadcast, Set, Entry, Message, Value
  <2>2. \A w \in Del(3, "chkpt", ns) : w.key = "chkpt"
    BY DEF Put, Del, Broadcast, Set
  <2>3. \A w \in Set(4, "h", h) : w.key = "h" /\ w.e = h
    BY DEF Put, Del, Broadcast, Set
  <2> QED BY <2>1, <2>2, <2>3
<1>7. u.H <= c2 /\ u.target <= c2
  BY <1>1, <1>2 DEF Memory
<1> HIDE DEF old, rest
<1>8. Good(u, st, DelQPCSet(2, old) \cup rest, c2, sp, sc, pr)
  BY <1>2, <1>3, <1>4, <1>5, <1>6, <1>7, DropCerts
<1>9. DelQPCSet(2, old) \cup rest
        = v \cup (DelQPCSet(2, old) \cup Del(3, "chkpt", ns) \cup Set(4, "h", h))
  BY DEF rest
<1> QED BY <1>8, <1>9 DEF u, old

\* getVcBasis with a database that is st: the lists get what the certs had.
BasisOf(st, plist, qlist, old) ==
  Del(1, "qlist", st.qlist) \cup Del(2, "plist", st.plist)
    \cup Put(3, "plist", plist) \cup Put(4, "qlist", qlist) \cup DelQPCSet(5, old)

\* sendViewChange: the lists in memory have all the certs had, and are stored
\* before the certs are deleted.
LEMMA RewriteLists ==
  ASSUME NEW m, NEW st, NEW c, NEW sp, NEW sc, NEW pr, Good(m, st, {}, c, sp, sc, pr),
         NEW old \in SUBSET CertStore(m), NEW u \in Memory,
         u.prePrep = m.prePrep \ old, u.prepares = m.prepares \ old,
         u.plist = CalcPSet(m), u.qlist = CalcQSet(m), u.H = m.H, u.target = m.target
  PROVE  Good(u, st, BasisOf(st, u.plist, u.qlist, old), c, sp, sc, pr)
<1> DEFINE d1 == Del(1, "qlist", st.qlist)
           d2 == Del(2, "plist", st.plist)
           p3 == Put(3, "plist", u.plist)
           p4 == Put(4, "qlist", u.qlist)
           d5 == Del(5, "qset", old)
           d6 == Del(5, "pset", old)
           t == d1 \cup d2 \cup p3 \cup p4 \cup d5 \cup d6
<1>0. /\ m \in Memory /\ st \in Store /\ c \in Nat /\ pr \in SUBSET ID
      /\ \A x, y \in pr : x.v = y.v /\ x.n = y.n => x = y
      /\ m.prePrep \cup m.prepares \cup m.plist \cup m.qlist \subseteq pr
      /\ st.qset \cup st.pset \cup st.plist \cup st.qlist \subseteq pr
      /\ sp \in SUBSET pr /\ sc \in SUBSET pr
  BY DEF Good, Types, Proposed
<1>1. u.plist \subseteq m.plist \cup Prepared(m) /\ u.qlist \subseteq m.qlist \cup m.prePrep
  BY DEF CalcPSet, CalcQSet
<1>2. u.plist \subseteq pr /\ u.qlist \subseteq pr /\ old \subseteq pr
      /\ m.plist \cup Prepared(m) \subseteq pr
  BY <1>0, <1>1 DEF Prepared, CertStore
<1>3. /\ \A w \in d1 : w.at = 1 /\ w.op = "del" /\ w.key = "qlist" /\ w.e \in st.qlist
      /\ \A w \in d2 : w.at = 2 /\ w.op = "del" /\ w.key = "plist" /\ w.e \in st.plist
      /\ \A w \in p3 : w.at = 3 /\ w.op = "put" /\ w.key = "plist" /\ w.e \in u.plist
      /\ \A w \in p4 : w.at = 4 /\ w.op = "put" /\ w.key = "qlist" /\ w.e \in u.qlist
      /\ \A w \in d5 : w.at = 5 /\ w.op = "del" /\ w.key = "qset" /\ w.e \in old
      /\ \A w \in d6 : w.at = 5 /\ w.op = "del" /\ w.key = "pset" /\ w.e \in old
  BY DEF Put, Del, Broadcast, Set
<1>4. d1 \cup d2 \cup p3 \cup p4 \cup d5 \cup d6 \subseteq Entry
  <2>1. st.qlist \in SUBSET ID /\ st.plist \in SUBSET ID /\ old \in SUBSET ID
        /\ u.plist \in SUBSET ID /\ u.qlist \in SUBSET ID
    BY <1>0, <1>2
  <2> QED BY <2>1 DEF Put, Del, Broadcast, Set, Entry, Message, Value
<1>5. /\ \A e \in u.plist : Pending(p3, "put", "plist", e)
      /\ \A e \in u.qlist : Pending(p4, "put", "qlist", e)
  BY PutIsPending
<1> HIDE DEF d1, d2, p3, p4, d5, d6
<1>6. /\ \A e \in u.plist : Pending(t, "put", "plist", e)
      /\ \A e \in u.qlist : Pending(t, "put", "qlist", e)
  BY <1>5 DEF Pending
<1>7. \A e : Pending(t, "del", "qset", e) \/ Pending(t, "del", "pset", e) => e \in old
  BY <1>3 DEF Pending
<1>8. Types(u, st, t, c)
  BY <1>0, <1>4 DEF Types
<1>9. Proposed(u, st, t, pr)
  <2>1. \A w \in t : w.e \in pr
    BY <1>0, <1>2, <1>3
  <2> HIDE DEF t
  <2> QED BY <1>0, <1>2, <2>1 DEF Proposed
<1>10. Certs(u, st, t)
  BY <1>7, AllStored DEF Certs
<1>11. Lists(u, st, t)
  BY <1>6 DEF Lists
<1>12. Order(u, t)
  BY <1>3 DEF Order
<1>13. Certified(u, st, t, c)
  <2>1. \A w \in t : w.key # "h"
    BY <1>3
  <2> HIDE DEF t
  <2> QED BY <2>1 DEF Good, Certified
<1>14. ASSUME NEW id \in sc, id.n > c
       PROVE  Covers(u.plist \cup Stored(u, st), id)
  <2>1. Covers(m.plist \cup Stored(m, st), id)
    BY <1>14 DEF Good, Told
  <2>2. Covers(m.plist \cup Prepared(m), id)
    BY <2>1 DEF Covers, Stored
  <2>3. id \in pr
    BY <1>0
  <2>4. Covers(CalcPSet(m), id)
    BY <1>0, <1>2, <2>2, <2>3, CalcPSetCovers
  <2> QED BY <2>4 DEF Covers
<1>15. ASSUME NEW id \in sp, id.n > c
       PROVE  Vouches(u.qlist \cup (u.prePrep \cap st.qset), id)
  <2>1. Vouches(m.qlist \cup (m.prePrep \cap st.qset), id)
    BY <1>15 DEF Good, Told
  <2>2. Vouches(m.qlist \cup m.prePrep, id)
    BY <2>1 DEF Vouches
  <2>3. id \in ID
    BY <1>0
  <2>4. Vouches(CalcQSet(m), id)
    BY <1>0, <2>2, <2>3, CalcQSetVouches
  <2> QED BY <2>4 DEF Vouches
<1>16. Told(u, st, c, sp, sc)
  BY <1>14, <1>15 DEF Told
<1> HIDE DEF t
<1>17. Good(u, st, t, c, sp, sc, pr)
  BY <1>0, <1>8, <1>9, <1>10, <1>11, <1>12, <1>13, <1>16 DEF Good
<1>18. t = BasisOf(st, u.plist, u.qlist, old)
  BY DEF t, d1, d2, p3, p4, d5, d6, BasisOf, DelQPCSet
<1> QED BY <1>17, <1>18

-----------------------------------------------------------------------------
(* Writes *)

\* One write of the running handler, in the order it has.
LEMMA WriteGood ==
  ASSUME NEW m, NEW st, NEW t, NEW c, NEW sp, NEW sc, NEW pr,
         Good(m, st, t, c, sp, sc, pr),
         NEW w \in t, \A x \in t : w.at <= x.at
  PROVE  Good(m, Apply(st, w), t \ {w}, c,
              IF w.key = "prepare" THEN sp \cup {w.e} ELSE sp,
              IF w.key = "commit" THEN sc \cup {w.e} ELSE sc, pr)
<1> DEFINE a == Apply(st, w)
           rest == t \ {w}
           sp2 == IF w.key = "prepare" THEN sp \cup {w.e} ELSE sp
           sc2 == IF w.key = "commit" THEN sc \cup {w.e} ELSE sc
<1>0. /\ Types(m, st, t, c) /\ Proposed(m, st, t, pr) /\ Certs(m, st, t) /\ Lists(m, st, t)
      /\ Order(m, t) /\ Certified(m, st, t, c) /\ Told(m, st, c, sp, sc)
      /\ sp \in SUBSET pr /\ sc \in SUBSET pr
  BY DEF Good
<1>1. w \in Entry \/ w \in Value \/ w \in Message
  BY <1>0 DEF Types
<1>2. /\ w.key \in {"qset", "pset", "qlist", "plist"} =>
            w.op \in {"put", "del"} /\ w.e \in pr /\ w.at \in Nat
      /\ w.key \in {"prepare", "commit"} => w.op = "send" /\ w.e \in pr /\ w.at \in Nat
      /\ w.key = "chkpt" => w.op \in {"put", "del"} /\ w.e \in Int
      /\ w.key = "h" => w.e \in Nat /\ w.e <= c
      /\ w.key = "view" => w.e \in Int
  <2>1. CASE w \in Entry
    BY <1>0, <2>1 DEF Entry, Proposed
  <2>2. CASE w \in Message
    BY <1>0, <2>2 DEF Message, Proposed
  <2>3. CASE w \in Value
    BY <1>0, <2>3 DEF Value, Certified
  <2> QED BY <1>1, <2>1, <2>2, <2>3
<1>3. /\ a.qset = Entries(st.qset, "qset", w) /\ a.pset = Entries(st.pset, "pset", w)
      /\ a.qlist = Entries(st.qlist, "qlist", w) /\ a.plist = Entries(st.plist, "plist", w)
      /\ a.chkpt = Entries(st.chkpt, "chkpt", w)
      /\ a.h = (IF w.key = "h" THEN w.e ELSE st.h)
      /\ a.view = (IF w.key = "view" THEN w.e ELSE st.view)
  BY DEF Apply
<1>4. a \in Store
  <2>1. Entries(st.qset, "qset", w) \in SUBSET ID /\ Entries(st.pset, "pset", w) \in SUBSET ID
        /\ Entries(st.qlist, "qlist", w) \in SUBSET ID
        /\ Entries(st.plist, "plist", w) \in SUBSET ID
    BY <1>0, <1>2 DEF Entries, Types, Store, Proposed
  <2>2. Entries(st.chkpt, "chkpt", w) \in SUBSET Int
    BY <1>0, <1>2 DEF Entries, Types, Store
  <2>3. (IF w.key = "h" THEN w.e ELSE st.h) \in Nat
        /\ (IF w.key = "view" THEN w.e ELSE st.view) \in Int
    BY <1>0, <1>2 DEF Types, Store
  <2> QED BY <2>1, <2>2, <2>3 DEF Apply, Store
<1> HIDE DEF a
<1>5. Types(m, a, rest, c)
  BY <1>0, <1>4 DEF Types
<1>6. Proposed(m, a, rest, pr)
  <2>1. a.qset \cup a.pset \cup a.plist \cup a.qlist \subseteq pr
    BY <1>0, <1>2, <1>3 DEF Entries, Proposed
  <2> QED BY <1>0, <2>1 DEF Proposed
<1>7. \A op, k, e : Pending(rest, op, k, e) => Pending(t, op, k, e)
  BY DEF Pending
<1>8. \A op, k, e : Pending(t, op, k, e) =>
        Pending(rest, op, k, e) \/ (w.op = op /\ w.key = k /\ w.e = e)
  BY DEF Pending
<1>9. Certs(m, a, rest)
  <2>1. ASSUME NEW id \in m.prePrep
        PROVE  /\ id \in st.qset => id \in a.qset
               /\ id \in a.qset \/ Pending(rest, "put", "qset", id)
               /\ ~Pending(rest, "del", "qset", id)
    <3>1. ~Pending(t, "del", "qset", id)
      BY <1>0 DEF Certs
    <3>2. ~(w.op = "del" /\ w.key = "qset" /\ w.e = id)
      BY <3>1 DEF Pending
    <3>3. id \in st.qset => id \in a.qset
      BY <1>2, <1>3, <3>2 DEF Entries
    <3>4. w.op = "put" /\ w.key = "qset" /\ w.e = id => id \in a.qset
      BY <1>3 DEF Entries
    <3>5. id \in st.qset \/ Pending(t, "put", "qset", id)
      BY <1>0 DEF Certs
    <3> QED BY <1>7, <1>8, <3>1, <3>3, <3>4, <3>5
  <2>2. ASSUME NEW id \in m.prepares
        PROVE  /\ id \in a.pset \/ Pending(rest, "put", "pset", id)
               /\ ~Pending(rest, "del", "pset", id)
    <3>1. ~Pending(t, "del", "pset", id)
      BY <1>0 DEF Certs
    <3>2. ~(w.op = "del" /\ w.key = "pset" /\ w.e = id)
      BY <3>1 DEF Pending
    <3>3. id \in st.pset => id \in a.pset
      BY <1>2, <1>3, <3>2 DEF Entries
    <3>4. w.op = "put" /\ w.key = "pset" /\ w.e = id => id \in a.pset
      BY <1>3 DEF Entries
    <3>5. id \in st.pset \/ Pending(t, "put", "pset", id)
      BY <1>0 DEF Certs
    <3> QED BY <1>7, <1>8, <3>1, <3>3, <3>4, <3>5
  <2> HIDE DEF rest
  <2> QED BY <2>1, <2>2 DEF Certs
<1>10. Lists(m, a, rest)
  <2>0. \A x \in t : x.op = "del" /\ w.op = "put" /\ x.key = w.key
                     => w.key \notin {"plist", "qlist"}
    <3> SUFFICES ASSUME NEW x \in t, x.op = "del", w.op = "put", x.key = w.key,
                        w.key \in {"plist", "qlist"}
                 PROVE  FALSE
      OBVIOUS
    <3>1. x.at < w.at
      BY <1>0 DEF Order
    <3>2. x.at \in Nat /\ w.at \in Nat
      BY <1>0 DEF Types, Entry, Value, Message
    <3> QED BY <3>1, <3>2
  <2>1. ASSUME NEW e \in m.plist
        PROVE  \/ e \in a.plist /\ ~Pending(rest, "del", "plist", e)
               \/ Pending(rest, "put", "plist", e)
    <3>1. CASE e \in st.plist /\ ~Pending(t, "del", "plist", e)
      <4>1. ~(w.op = "del" /\ w.key = "plist" /\ w.e = e)
        BY <3>1 DEF Pending
      <4>2. e \in a.plist
        BY <1>2, <1>3, <3>1, <4>1 DEF Entries
      <4> QED BY <1>7, <3>1, <4>2
    <3>2. CASE w.op = "put" /\ w.key = "plist" /\ w.e = e
      <4>1. e \in a.plist
        BY <1>3, <3>2 DEF Entries
      <4>2. ~Pending(rest, "del", "plist", e)
        BY <2>0, <3>2 DEF Pending
      <4> QED BY <4>1, <4>2
    <3> QED BY <1>0, <1>8, <3>1, <3>2 DEF Lists
  <2>2. ASSUME NEW e \in m.qlist
        PROVE  \/ e \in a.qlist /\ ~Pending(rest, "del", "qlist", e)
               \/ Pending(rest, "put", "qlist", e)
    <3>1. CASE e \in st.qlist /\ ~Pending(t, "del", "qlist", e)
      <4>1. ~(w.op = "del" /\ w.key = "qlist" /\ w.e = e)
        BY <3>1 DEF Pending
      <4>2. e \in a.qlist
        BY <1>2, <1>3, <3>1, <4>1 DEF Entries
      <4> QED BY <1>7, <3>1, <4>2
    <3>2. CASE w.op = "put" /\ w.key = "qlist" /\ w.e = e
      <4>1. e \in a.qlist
        BY <1>3, <3>2 DEF Entries
      <4>2. ~Pending(rest, "del", "qlist", e)
        BY <2>0, <3>2 DEF Pending
      <4> QED BY <4>1, <4>2
    <3> QED BY <1>0, <1>8, <3>1, <3>2 DEF Lists
  <2> HIDE DEF rest
  <2> QED BY <2>1, <2>2 DEF Lists
<1>11. Order(m, rest)
  BY <1>0 DEF Order
<1>12. Certified(m, a, rest, c)
  BY <1>0, <1>2, <1>3 DEF Certified
<1>13. sp2 \in SUBSET pr /\ sc2 \in SUBSET pr
  BY <1>0, <1>2
<1>14. \A x \in t : ~(x.op = "put" /\ w.op = "send")
  <2> SUFFICES ASSUME NEW x \in t, x.op = "put", w.op = "send" PROVE FALSE
    OBVIOUS
  <2>1. x.at < w.at
    BY <1>0 DEF Order
  <2>2. x.at \in Nat /\ w.at \in Nat
    BY <1>0 DEF Types, Entry, Value, Message
  <2> QED BY <2>1, <2>2
<1>15. Told(m, a, c, sp2, sc2)
  <2>1. Told(m, a, c, sp, sc)
    <3>0. \A x : (x \in m.prePrep /\ x \in st.qset => x \in a.qset)
                /\ (x \in m.prepares /\ x \in st.pset => x \in a.pset)
      <4>1. ASSUME NEW x \in m.prePrep, x \in st.qset PROVE x \in a.qset
        <5>1. ~(w.op = "del" /\ w.key = "qset" /\ w.e = x)
          BY <1>0 DEF Certs, Pending
        <5> QED BY <1>2, <1>3, <4>1, <5>1 DEF Entries
      <4>2. ASSUME NEW x \in m.prepares, x \in st.pset PROVE x \in a.pset
        <5>1. ~(w.op = "del" /\ w.key = "pset" /\ w.e = x)
          BY <1>0 DEF Certs, Pending
        <5> QED BY <1>2, <1>3, <4>2, <5>1 DEF Entries
      <4> QED BY <4>1, <4>2
    <3>1. \A p \in m.plist \cup Stored(m, st) : p \in m.plist \cup Stored(m, a)
      BY <3>0 DEF Stored, Prepared
    <3>2. \A q \in m.qlist \cup (m.prePrep \cap st.qset) :
            q \in m.qlist \cup (m.prePrep \cap a.qset)
      BY <3>0
    <3>3. sp \in SUBSET ID /\ sc \in SUBSET ID /\ c \in Nat
      BY <1>0 DEF Types, Proposed
    <3> QED BY <1>0, <3>1, <3>2, <3>3, ToldKept
  <2>2. ASSUME w.key = "commit" PROVE Covers(m.plist \cup Stored(m, a), w.e)
    <3>1. w.e \in m.prePrep /\ w.e \in m.prepares
      BY <1>0, <2>2 DEF Order, Prepared
    <3>2. w.e \in st.qset /\ w.e \in st.pset
      BY <1>0, <1>2, <1>14, <2>2, <3>1 DEF Certs, Pending
    <3>3. w.e \in a.qset /\ w.e \in a.pset
      BY <1>3, <2>2, <3>2 DEF Entries
    <3> QED BY <3>1, <3>3 DEF Covers, Stored, Prepared
  <2>3. ASSUME w.key = "prepare" PROVE Vouches(m.qlist \cup (m.prePrep \cap a.qset), w.e)
    <3>1. w.e \in m.prePrep
      BY <1>0, <2>3 DEF Order
    <3>2. w.e \in st.qset
      BY <1>0, <1>2, <1>14, <2>3, <3>1 DEF Certs, Pending
    <3>3. w.e \in a.qset
      BY <1>3, <2>3, <3>2 DEF Entries
    <3>4. w.e.v >= w.e.v
      BY <1>0, <1>2, <2>3 DEF Proposed, ID
    <3> QED BY <3>1, <3>3, <3>4 DEF Vouches
  <2> QED BY <2>1, <2>2, <2>3 DEF Told
<1> HIDE DEF rest, sp2, sc2
<1>16. Good(m, a, rest, c, sp2, sc2, pr)
  BY <1>5, <1>6, <1>9, <1>10, <1>11, <1>12, <1>13, <1>15 DEF Good
<1> QED BY <1>16 DEF a, rest, sp2, sc2

-----------------------------------------------------------------------------
(* Restart *)

\* What restoreState reads.
LEMMA ReadStoreFields ==
  ASSUME NEW st \in Store, NEW height \in Nat
  PROVE  /\ ReadStore(st, height) \in Memory
         /\ ReadStore(st, height).prePrep = st.qset
         /\ ReadStore(st, height).prepares = st.pset
         /\ ReadStore(st, height).plist = st.plist /\ ReadStore(st, height).qlist = st.qlist
         /\ ReadStore(st, height).H = 0 /\ ReadStore(st, height).target = 0
<1>1. RestoreCheckpoints(st, height) \in SUBSET Int
  <2>1. height \div K \in Int /\ K \in Int
    BY ConstantAssumption
  <2>2. (height \div K) * K \in Int
    BY <2>1
  <2> QED BY <2>2 DEF RestoreCheckpoints, Store
<1> DEFINE cs == RestoreCheckpoints(st, height)
<1> HIDE DEF cs
<1>2. cs \in SUBSET Int
  BY <1>1 DEF cs
<1> QED BY <1>2 DEF ReadStore, RestoreCert, Memory, Store, cs

\* A restart outside the rewriting of the lists finds all it had told.
LEMMA ReadStoreGood ==
  ASSUME NEW m, NEW st, NEW t, NEW c, NEW sp, NEW sc, NEW pr,
         Good(m, st, t, c, sp, sc, pr), NEW height \in Nat,
         ~ \E w \in t : w.key \in {"plist", "qlist"}
  PROVE  Good(ReadStore(st, height), st, {}, c, sp, sc, pr)
<1> DEFINE u == ReadStore(st, height)
<1>0. st \in Store /\ c \in Nat /\ pr \in SUBSET ID /\ sp \in SUBSET pr /\ sc \in SUBSET pr
  BY DEF Good, Types, Proposed
<1>1. /\ u \in Memory /\ u.prePrep = st.qset /\ u.prepares = st.pset
      /\ u.plist = st.plist /\ u.qlist = st.qlist /\ u.H = 0 /\ u.target = 0
  BY <1>0, ReadStoreFields
<1> HIDE DEF u
<1>2. Types(u, st, {}, c)
  BY <1>0, <1>1 DEF Types
<1>3. Proposed(u, st, {}, pr)
  BY <1>1 DEF Good, Proposed
<1>4. Certs(u, st, {}) /\ Lists(u, st, {}) /\ Order(u, {})
  BY <1>1 DEF Certs, Lists, Order, Pending
<1>5. Certified(u, st, {}, c)
  BY <1>0, <1>1 DEF Good, Certified
<1>6. Told(u, st, c, sp, sc)
  <2>1. m.plist \subseteq st.plist /\ m.qlist \subseteq st.qlist
    BY DEF Good, Lists, Pending
  <2>2. Stored(m, st) \subseteq Stored(u, st)
    BY <1>1 DEF Stored, Prepared
  <2>3. sp \in SUBSET ID /\ sc \in SUBSET ID /\ Told(m, st, c, sp, sc)
    BY <1>0 DEF Good
  <2> QED BY <1>0, <1>1, <2>1, <2>2, <2>3, ToldKept
<1>7. Good(u, st, {}, c, sp, sc, pr)
  BY <1>0, <1>2, <1>3, <1>4, <1>5, <1>6 DEF Good
<1> QED BY <1>7 DEF u

\* restoreState and the writes of its moveWatermarks.
RestartWrites(st, height) ==
  IF st.h = 0 THEN {} ELSE WatermarkWrites(ReadStore(st, height), st.h)

\* A restart outside the rewriting of the lists keeps the invariant.
LEMMA RestartGood ==
  ASSUME NEW m, NEW st, NEW t, NEW c, NEW sp, NEW sc, NEW pr,
         Good(m, st, t, c, sp, sc, pr), NEW height \in Nat,
         ~ \E w \in t : w.key \in {"plist", "qlist"}
  PROVE  Good(RestoreState(st, height), st, RestartWrites(st, height), c, sp, sc, pr)
<1> DEFINE f == ReadStore(st, height)
<1>0. st \in Store /\ c \in Nat /\ st.h \in Nat /\ st.h <= c
  BY DEF Good, Types, Certified, Store
<1>1. Good(f, st, {}, c, sp, sc, pr)
  BY ReadStoreGood
<1>2. RestoreState(st, height) = IF st.h = 0 THEN f ELSE MoveWatermarks(f, st.h)
  BY DEF RestoreState
<1>3. f \in Memory /\ f.prePrep = st.qset /\ f.H = 0
  BY <1>0, ReadStoreFields
<1> HIDE DEF f
<1>4. CASE st.h = 0
  BY <1>1, <1>2, <1>4 DEF RestartWrites
<1>5. CASE st.h # 0
  <2> DEFINE ns == {n \in f.localCkpt : n < st.h}
  <2>1. ns \in SUBSET Int
    BY <1>3 DEF Memory
  <2>2. ~(f.H > st.h)
    BY <1>0, <1>3
  <2>3. RestartWrites(st, height) = WatermarkWrites(f, st.h)
    BY <1>5 DEF RestartWrites, f
  <2>4. WatermarkWrites(f, st.h) = {} \cup (DelQPCSet(2, CertStore(f) \ Above(CertStore(f), st.h))
                                     \cup Del(3, "chkpt", ns) \cup Set(4, "h", st.h))
    BY <2>2 DEF WatermarkWrites
  <2> HIDE DEF ns
  <2>5. Good(MoveWatermarks(f, st.h), st,
             {} \cup (DelQPCSet(2, CertStore(f) \ Above(CertStore(f), st.h))
                       \cup Del(3, "chkpt", ns) \cup Set(4, "h", st.h)),
             c, sp, sc, pr)
    <3>1. c >= c /\ {} \in SUBSET Value /\ \A w \in {} : w.key = "chkpt"
      BY <1>0
    <3> QED BY <1>0, <1>1, <2>1, <2>2, <3>1, MoveGood
  <2> QED BY <1>2, <1>5, <2>3, <2>4, <2>5
<1> QED BY <1>4, <1>5

-----------------------------------------------------------------------------
(* The invariant *)

\* The larger of two heights.
LEMMA LargerOf ==
  ASSUME NEW a \in Nat, NEW b \in Nat
  PROVE  Max({a, b}) \in Nat /\ Max({a, b}) >= a /\ Max({a, b}) >= b
<1>1. \E x \in {a, b} : \A y \in {a, b} : x >= y
  <2>1. CASE a >= b
    BY <2>1
  <2>2. CASE b >= a
    BY <2>2
  <2> QED BY <2>1, <2>2
<1>2. Max({a, b}) \in {a, b} /\ \A y \in {a, b} : Max({a, b}) >= y
  BY <1>1 DEF Max
<1> QED BY <1>2

\* An empty database is good.
LEMMA InitGood == Init /\ ~CrashInRewrite => IInv
<1> SUFFICES ASSUME Init, ~CrashInRewrite PROVE IInv
  OBVIOUS
<1>1. db \in Store /\ db.h = 0 /\ db.qset = {} /\ db.pset = {} /\ db.plist = {} /\ db.qlist = {}
  BY DEF Init, EmptyDB, Store
<1>2. mem = ReadStore(db, 0)
  BY DEF Init, EmptyDB, RestoreState
<1>3. /\ mem \in Memory /\ mem.prePrep = {} /\ mem.prepares = {} /\ mem.plist = {}
      /\ mem.qlist = {} /\ mem.H = 0 /\ mem.target = 0
  BY <1>1, <1>2, ReadStoreFields
<1>4. todo = {} /\ applied = 0 /\ certified = 0 /\ outP = {} /\ outC = {} /\ proposed = {}
  BY DEF Init
<1>5. Good(mem, db, {}, 0, {}, {}, {})
  BY <1>1, <1>3 DEF Good, Types, Proposed, Certs, Lists, Order, Certified, Told, Pending
<1> QED BY <1>4, <1>5 DEF IInv

\* Every step keeps the invariant.
LEMMA NextGood == IInv /\ [Next]_vars => IInv'
<1> SUFFICES ASSUME IInv, [Next]_vars PROVE IInv'
  OBVIOUS
<1>1. /\ Good(mem, db, todo, certified, outP, outC, proposed) /\ ~CrashInRewrite
      /\ applied \in Nat /\ mem \in Memory /\ db \in Store /\ certified \in Nat
      /\ proposed \in SUBSET ID /\ mem.prePrep \cup mem.prepares \subseteq proposed
      /\ mem.H <= certified /\ mem.target <= certified
  BY DEF IInv, Good, Types, Proposed, Certified
<1>2. SUFFICES applied' \in Nat
               /\ Good(mem', db', todo', certified', outP', outC', proposed')
  BY <1>1 DEF IInv
<1>3. CASE UNCHANGED vars
  BY <1>1, <1>3 DEF vars
<1>4. ASSUME NEW id \in ID, RecvPrePrepare(id)
      PROVE  applied' \in Nat /\ Good(mem', db', todo', certified', outP', outC', proposed')
  <2> DEFINE u == [mem EXCEPT !.prePrep = @ \cup {id}, !.seqMap = @ \cup {id.n}]
  <2>1. /\ todo = {} /\ MayPropose({id}) /\ proposed' = proposed \cup {id}
        /\ mem' = u /\ todo' = Put(1, "qset", {id}) \cup Broadcast(2, "prepare", {id})
        /\ UNCHANGED <<db, applied, outP, outC, certified>>
    BY <1>4 DEF RecvPrePrepare, Handle, Idle
  <2>2. /\ u \in Memory /\ u.prePrep = mem.prePrep \cup {id} /\ u.prepares = mem.prepares
        /\ u.plist = mem.plist /\ u.qlist = mem.qlist /\ u.H = mem.H /\ u.target = mem.target
    <3>1. id.n \in Int
      BY DEF ID
    <3> QED BY <1>1, <3>1 DEF Memory
  <2> HIDE DEF u
  <2>3. \A x, y \in proposed \cup {id} : x.v = y.v /\ x.n = y.n => x = y
    BY <2>1 DEF MayPropose
  <2>4. Good(mem, db, {}, certified, outP, outC, proposed)
    BY <1>1, <2>1
  <2> DEFINE pr2 == proposed \cup {id}
  <2>5. pr2 \in SUBSET ID /\ proposed \subseteq pr2 /\ {id} \in SUBSET pr2
    BY <1>1
  <2> HIDE DEF pr2
  <2>6. Good(u, db, Put(1, "qset", {id}) \cup Broadcast(2, "prepare", {id}) \cup {},
             certified, outP, outC, pr2)
    BY <2>2, <2>3, <2>4, <2>5, StorePrePrepares DEF pr2
  <2> QED BY <1>1, <2>1, <2>6 DEF pr2
<1>5. ASSUME NEW id \in mem.prePrep, RecvPrepares(id)
      PROVE  applied' \in Nat /\ Good(mem', db', todo', certified', outP', outC', proposed')
  <2>1. /\ todo = {} /\ mem' = [mem EXCEPT !.prepares = @ \cup {id}]
        /\ todo' = CommitWrites(id)
        /\ UNCHANGED <<db, applied, outP, outC, proposed, certified>>
    BY <1>5 DEF RecvPrepares, Handle, Idle
  <2>2. Good(mem, db, {}, certified, outP, outC, proposed)
    BY <1>1, <2>1
  <2> QED BY <1>1, <2>1, <2>2, StorePrepares
<1>6. ASSUME NEW id \in Prepared(mem), RecvCommits(id)
      PROVE  applied' \in Nat /\ Good(mem', db', todo', certified', outP', outC', proposed')
  <2> DEFINE u == [mem EXCEPT !.lastExec = id.n, !.waitExec = id.n % K = 0]
  <2>1. /\ todo = {} /\ mem' = u /\ todo' = {} /\ id.n = mem.lastExec + 1
        /\ UNCHANGED <<db, applied, outP, outC, proposed, certified>>
    BY <1>6 DEF RecvCommits, Handle, Idle
  <2>2. u \in Memory /\ SameReports(mem, u)
    <3>1. id.n \in Nat /\ (id.n % K = 0) \in BOOLEAN
      BY <1>1, <2>1 DEF Memory
    <3> QED BY <1>1, <3>1 DEF Memory, SameReports
  <2> HIDE DEF u
  <2>3. Good(mem, db, {}, certified, outP, outC, proposed)
    BY <1>1, <2>1
  <2>4. Good(u, db, {}, certified, outP, outC, proposed)
    BY <2>2, <2>3, OtherHandler
  <2> QED BY <1>1, <2>1, <2>4
<1>7. ASSUME BlockExecuted
      PROVE  applied' \in Nat /\ Good(mem', db', todo', certified', outP', outC', proposed')
  <2> DEFINE n == applied + 1
             report == n % K = 0 /\ mem.waitExec /\ n = mem.lastExec
             made == report /\ n \in mem.seqMap
             u == [mem EXCEPT !.waitExec = @ /\ ~report,
                              !.localCkpt = IF made THEN @ \cup {n} ELSE @]
             t == IF made THEN Put(1, "chkpt", {n}) ELSE {}
  <2>1. /\ todo = {} /\ mem' = u /\ todo' = t /\ applied' = n
        /\ UNCHANGED <<db, outP, outC, proposed, certified>>
    BY <1>7 DEF BlockExecuted, Handle
  <2>2. n \in Nat
    BY <1>1
  <2>3. t \in SUBSET Value /\ \A w \in t : w.key = "chkpt"
    <3>1. {n} \in SUBSET Int
      BY <2>2
    <3>2. Put(1, "chkpt", {n}) \subseteq Value
      BY <3>1 DEF Put, Del, Broadcast, Set, Entry, Message, Value
    <3>3. \A w \in Put(1, "chkpt", {n}) : w.key = "chkpt"
      BY DEF Put, Del, Broadcast, Set
    <3> QED BY <3>2, <3>3
  <2> HIDE DEF n
  <2>4. u \in Memory /\ SameReports(mem, u)
    <3>1. (mem.waitExec /\ ~report) \in BOOLEAN
          /\ (IF made THEN mem.localCkpt \cup {n} ELSE mem.localCkpt) \in SUBSET Int
      BY <1>1, <2>2 DEF Memory
    <3> HIDE DEF made, report
    <3> QED BY <1>1, <3>1 DEF Memory, SameReports
  <2> HIDE DEF u, t
  <2>5. Good(mem, db, {}, certified, outP, outC, proposed)
    BY <1>1, <2>1
  <2>6. Good(u, db, t, certified, outP, outC, proposed)
    BY <2>3, <2>4, <2>5, OtherHandler
  <2> QED BY <2>1, <2>2, <2>6
<1>8. ASSUME NEW n \in mem.localCkpt, StableCheckpoint(n)
      PROVE  applied' \in Nat /\ Good(mem', db', todo', certified', outP', outC', proposed')
  <2> DEFINE c2 == Max({certified, n})
             ns == {k \in mem.localCkpt : k < n}
  <2>1. /\ todo = {} /\ n > mem.H /\ certified' = c2
        /\ mem' = MoveWatermarks(mem, n) /\ todo' = WatermarkWrites(mem, n)
        /\ UNCHANGED <<db, applied, outP, outC, proposed>>
    BY <1>8 DEF StableCheckpoint, Handle, Idle
  <2>2. n \in Nat /\ ~(mem.H > n)
    BY <1>1, <2>1 DEF Memory
  <2>3. c2 \in Nat /\ c2 >= certified /\ n <= c2
    BY <1>1, <2>2, LargerOf
  <2>4. ns \in SUBSET Int
    BY <1>1 DEF Memory
  <2>5. todo' = {} \cup (DelQPCSet(2, CertStore(mem) \ Above(CertStore(mem), n))
                         \cup Del(3, "chkpt", ns) \cup Set(4, "h", n))
    BY <2>1, <2>2 DEF WatermarkWrites
  <2>6. Good(mem, db, {}, certified, outP, outC, proposed)
    BY <1>1, <2>1
  <2> HIDE DEF c2, ns
  <2>7. Good(MoveWatermarks(mem, n), db,
             {} \cup (DelQPCSet(2, CertStore(mem) \ Above(CertStore(mem), n))
                         \cup Del(3, "chkpt", ns) \cup Set(4, "h", n)),
             c2, outP, outC, proposed)
    BY <2>2, <2>3, <2>4, <2>6, MoveGood
  <2> QED BY <1>1, <2>1, <2>5, <2>7
<1>9. ASSUME SendViewChange
      PROVE  applied' \in Nat /\ Good(mem', db', todo', certified', outP', outC', proposed')
  <2> DEFINE v == mem.view + 1
             plist == CalcPSet(mem)
             qlist == CalcQSet(mem)
             old == {id \in CertStore(mem) : id.v < v}
             u == [mem EXCEPT !.view = v, !.inVC = TRUE, !.plist = plist, !.qlist = qlist,
                              !.prePrep = @ \ old, !.prepares = @ \ old,
                              !.seqMap = @ \ {id.n : id \in old}]
  <2>1. /\ todo = {} /\ mem' = u /\ todo' = BasisWrites(plist, qlist, old)
        /\ UNCHANGED <<db, applied, outP, outC, proposed, certified>>
    BY <1>9 DEF SendViewChange, Handle, Idle
  <2>2. v \in Int /\ plist \in SUBSET ID /\ qlist \in SUBSET ID /\ old \in SUBSET CertStore(mem)
    BY <1>1 DEF Memory, CalcPSet, CalcQSet, Prepared
  <2> HIDE DEF v, plist, qlist, old
  <2>3. /\ u \in Memory /\ u.prePrep = mem.prePrep \ old /\ u.prepares = mem.prepares \ old
        /\ u.plist = plist /\ u.qlist = qlist /\ u.H = mem.H /\ u.target = mem.target
    BY <1>1, <2>2 DEF Memory
  <2> HIDE DEF u
  <2>4. Good(mem, db, {}, certified, outP, outC, proposed)
    BY <1>1, <2>1
  <2>5. u.plist = CalcPSet(mem) /\ u.qlist = CalcQSet(mem)
    BY <2>3 DEF plist, qlist
  <2>6. Good(u, db, BasisOf(db, u.plist, u.qlist, old), certified, outP, outC, proposed)
    BY <2>2, <2>3, <2>4, <2>5, RewriteLists
  <2>7. todo' = BasisOf(db, u.plist, u.qlist, old)
    BY <2>1, <2>3 DEF BasisWrites, BasisOf
  <2> QED BY <1>1, <2>1, <2>6, <2>7
<1>10. ASSUME NEW v \in {mem.view, db.view}, NEW x \in SUBSET {id \in ID : id.v = v},
              EnterNewView(v, x)
       PROVE  applied' \in Nat /\ Good(mem', db', todo', certified', outP', outC', proposed')
  <2> DEFINE live == Above(x, mem.H)
             u == [mem EXCEPT !.view = v, !.inVC = FALSE, !.prePrep = @ \cup live,
                              !.seqMap = @ \cup {id.n : id \in live}]
             pr2 == proposed \cup x
  <2>1. /\ todo = {} /\ MayPropose(x) /\ proposed' = pr2 /\ mem' = u
        /\ todo' = Put(1, "qset", live) \cup Broadcast(2, "prepare", live) \cup Set(3, "view", v)
        /\ UNCHANGED <<db, applied, outP, outC, certified>>
    BY <1>10 DEF EnterNewView, Handle, Idle
  <2>2. v \in Int /\ live \in SUBSET ID /\ live \subseteq x /\ x \in SUBSET ID
    BY <1>1 DEF Memory, Store, Above
  <2>3. {id.n : id \in live} \in SUBSET Int
    BY <2>2 DEF ID
  <2> HIDE DEF live
  <2>4. /\ u \in Memory /\ u.prePrep = mem.prePrep \cup live /\ u.prepares = mem.prepares
        /\ u.plist = mem.plist /\ u.qlist = mem.qlist /\ u.H = mem.H /\ u.target = mem.target
    BY <1>1, <2>2, <2>3 DEF Memory
  <2> HIDE DEF u
  <2>5. pr2 \in SUBSET ID /\ proposed \subseteq pr2 /\ live \in SUBSET pr2
        /\ \A a, b \in pr2 : a.v = b.v /\ a.n = b.n => a = b
    BY <1>1, <2>1, <2>2 DEF MayPropose
  <2>6. Good(mem, db, {}, certified, outP, outC, proposed)
    BY <1>1, <2>1
  <2>7. Set(3, "view", v) \in {Set(3, "view", n) : n \in Int}
    BY <2>2
  <2> HIDE DEF pr2
  <2>8. Good(u, db, Put(1, "qset", live) \cup Broadcast(2, "prepare", live)
                      \cup Set(3, "view", v), certified, outP, outC, pr2)
    BY <2>4, <2>5, <2>6, <2>7, StorePrePrepares
  <2> QED BY <1>1, <2>1, <2>8
<1>11. ASSUME NEW g \in 1 .. MaxSeq, TryStateTransfer(g)
       PROVE  applied' \in Nat /\ Good(mem', db', todo', certified', outP', outC', proposed')
  <2> DEFINE old == CertStore(mem) \ Above(CertStore(mem), g)
             c2 == Max({certified, g})
             u == [mem EXCEPT !.target = g, !.prePrep = @ \ old, !.prepares = @ \ old,
                              !.seqMap = @ \ {id.n : id \in old}]
  <2>1. /\ todo = {} /\ certified' = c2 /\ mem' = u /\ todo' = DelQPCSet(1, old)
        /\ UNCHANGED <<db, applied, outP, outC, proposed>>
    BY <1>11 DEF TryStateTransfer, Handle, Idle
  <2>2. g \in Nat
    BY ConstantAssumption
  <2>3. c2 \in Nat /\ c2 >= certified /\ g <= c2
    BY <1>1, <2>2, LargerOf
  <2>4. old \in SUBSET proposed /\ \A x \in old : x.n <= c2
    <3>1. \A x \in old : x \in proposed /\ ~(x.n > g) /\ x.n \in Nat
      BY <1>1 DEF Above, CertStore, ID
    <3> QED BY <2>2, <2>3, <3>1
  <2> HIDE DEF old, c2
  <2>5. /\ u \in Memory /\ u.prePrep = mem.prePrep \ old /\ u.prepares = mem.prepares \ old
        /\ u.plist = mem.plist /\ u.qlist = mem.qlist /\ u.H = mem.H /\ u.target = g
    BY <1>1, <2>2 DEF Memory
  <2> HIDE DEF u
  <2>6. Good(mem, db, {}, certified, outP, outC, proposed)
    BY <1>1, <2>1
  <2>7. u.H <= c2 /\ u.target <= c2
    BY <1>1, <2>2, <2>3, <2>5 DEF Memory
  <2>8. Good(u, db, DelQPCSet(1, old) \cup {}, c2, outP, outC, proposed)
    BY <2>3, <2>4, <2>5, <2>6, <2>7, DropCerts
  <2> QED BY <1>1, <2>1, <2>8
<1>12. ASSUME StateUpdated
       PROVE  applied' \in Nat /\ Good(mem', db', todo', certified', outP', outC', proposed')
  <2> DEFINE g == mem.target
             m == [mem EXCEPT !.lastExec = g, !.target = 0, !.localCkpt = @ \cup {g}]
             v == Put(1, "chkpt", {g})
             ns == {k \in m.localCkpt : k < g}
  <2>1. /\ todo = {} /\ applied' = g /\ mem' = MoveWatermarks(m, g)
        /\ todo' = v \cup WatermarkWrites(m, g)
        /\ UNCHANGED <<db, outP, outC, proposed, certified>>
    BY <1>12 DEF StateUpdated, Handle
  <2>2. g \in Nat /\ g <= certified
    BY <1>1 DEF Memory
  <2> HIDE DEF g
  <2>3. /\ m \in Memory /\ m.target = 0 /\ m.prePrep = mem.prePrep /\ m.prepares = mem.prepares
        /\ m.plist = mem.plist /\ m.qlist = mem.qlist /\ m.H = mem.H
    <3> HIDE DEF v, ns
    <3> DEFINE cs == mem.localCkpt \cup {g}
    <3>1. cs \in SUBSET Int
      BY <1>1, <2>2 DEF Memory
    <3> HIDE DEF cs
    <3>2. m = [mem EXCEPT !.lastExec = g, !.target = 0, !.localCkpt = cs]
      BY <1>1 DEF cs, Memory
    <3> HIDE DEF m
    <3> QED BY <1>1, <2>2, <3>1, <3>2 DEF Memory
  <2>4. v \in SUBSET Value /\ \A w \in v : w.key = "chkpt"
    <3>1. {g} \in SUBSET Int
      BY <2>2
    <3> QED BY <3>1 DEF Put, Value
  <2> HIDE DEF v, m
  <2>5. Good(mem, db, {}, certified, outP, outC, proposed)
    BY <1>1, <2>1
  <2>6. Good(m, db, {}, certified, outP, outC, proposed)
    <3>1. Types(m, db, {}, certified) /\ Proposed(m, db, {}, proposed)
      BY <2>3, <2>5 DEF Good, Types, Proposed
    <3>2. Certs(m, db, {}) /\ Lists(m, db, {}) /\ Order(m, {})
      BY <2>3, <2>5 DEF Good, Certs, Lists, Order
    <3>3. Certified(m, db, {}, certified)
      BY <1>1, <2>3, <2>5 DEF Good, Certified
    <3>4. Told(m, db, certified, outP, outC)
      BY <2>3, <2>5 DEF Good, Told, Stored, Prepared
    <3> QED BY <2>5, <3>1, <3>2, <3>3, <3>4 DEF Good
  <2>7. CASE m.H > g
    <3>1. mem' = m /\ todo' = v
      BY <2>1, <2>7 DEF MoveWatermarks, WatermarkWrites
    <3>2. Good(m, db, v, certified, outP, outC, proposed)
      BY <2>3, <2>4, <2>6, OtherHandler DEF SameReports
    <3> QED BY <2>1, <2>2, <3>1, <3>2
  <2>8. CASE ~(m.H > g)
    <3>1. ns \in SUBSET Int
      BY <2>3 DEF Memory
    <3>2. todo' = v \cup (DelQPCSet(2, CertStore(m) \ Above(CertStore(m), g))
                           \cup Del(3, "chkpt", ns) \cup Set(4, "h", g))
      BY <2>1, <2>8 DEF WatermarkWrites
    <3> HIDE DEF ns
    <3>3. Good(MoveWatermarks(m, g), db,
               v \cup (DelQPCSet(2, CertStore(m) \ Above(CertStore(m), g))
                           \cup Del(3, "chkpt", ns) \cup Set(4, "h", g)),
               certified, outP, outC, proposed)
      <4>1. certified >= certified
        BY <1>1
      <4> QED BY <1>1, <2>2, <2>4, <2>6, <2>8, <3>1, <4>1, MoveGood
    <3> QED BY <2>1, <2>2, <3>2, <3>3
  <2> QED BY <2>7, <2>8
<1>13. ASSUME WriteNext
       PROVE  applied' \in Nat /\ Good(mem', db', todo', certified', outP', outC', proposed')
  <2>1. PICK w \in todo : /\ Due(w) /\ db' = Apply(db, w) /\ todo' = todo \ {w}
                          /\ outP' = IF w.key = "prepare" THEN outP \cup {w.e} ELSE outP
                          /\ outC' = IF w.key = "commit" THEN outC \cup {w.e} ELSE outC
                          /\ UNCHANGED <<mem, applied, proposed, certified>>
    BY <1>13 DEF WriteNext
  <2>2. \A x \in todo : w.at <= x.at
    BY <2>1 DEF Due
  <2>3. Good(mem, Apply(db, w), todo \ {w}, certified,
             IF w.key = "prepare" THEN outP \cup {w.e} ELSE outP,
             IF w.key = "commit" THEN outC \cup {w.e} ELSE outC, proposed)
    BY <1>1, <2>2, WriteGood
  <2> QED BY <1>1, <2>1, <2>3
<1>14. ASSUME CrashAndRestart
       PROVE  applied' \in Nat /\ Good(mem', db', todo', certified', outP', outC', proposed')
  <2>1. /\ ~RewritingLists /\ mem' = RestoreState(db, applied)
        /\ todo' = RestartWrites(db, applied)
        /\ UNCHANGED <<db, applied, outP, outC, proposed, certified>>
    BY <1>1, <1>14 DEF CrashAndRestart, RestartWrites
  <2>2. ~ \E w \in todo : w.key \in {"plist", "qlist"}
    BY <2>1 DEF RewritingLists
  <2>3. Good(RestoreState(db, applied), db, RestartWrites(db, applied),
             certified, outP, outC, proposed)
    BY <1>1, <2>2, RestartGood
  <2> QED BY <1>1, <2>1, <2>3
<1> QED BY <1>3, <1>4, <1>5, <1>6, <1>7, <1>8, <1>9, <1>10, <1>11, <1>12, <1>13, <1>14
        DEF Next

\* The invariant holds in every reachable state when no crash comes while the
\* lists are rewritten.
THEOREM Invariance == Spec /\ ~CrashInRewrite => []IInv
BY InitGood, NextGood, PTL DEF Spec

\* A commit is never forgotten: after a crash at any other moment, the P set
\* of the next view change has it or an entry of a later view (persistPSet,
\* getVcBasis, restoreCert).
THEOREM CommitSurvivesRestartHolds ==
  Spec /\ ~CrashInRewrite => []CommitSurvivesRestart
<1>1. IInv => CommitSurvivesRestart
  <2> SUFFICES ASSUME IInv, ~RewritingLists, NEW id \in outC, id.n > certified
               PROVE  \E p \in CalcPSet(Restored) : p.n = id.n /\ (p.v > id.v \/ p = id)
    BY DEF CommitSurvivesRestart
  <2> DEFINE u == Restored
             t == RestartWrites(db, applied)
  <2>1. Good(u, db, t, certified, outP, outC, proposed)
    BY RestartGood DEF IInv, Restored, RewritingLists
  <2> HIDE DEF u, t
  <2>2. /\ u \in Memory /\ proposed \in SUBSET ID /\ u.plist \cup Prepared(u) \subseteq proposed
        /\ id \in proposed /\ \A x, y \in proposed : x.v = y.v /\ x.n = y.n => x = y
    BY <2>1 DEF Good, Types, Proposed, Prepared
  <2>3. Covers(u.plist \cup Prepared(u), id)
    <3>1. Covers(u.plist \cup Stored(u, db), id)
      BY <2>1 DEF Good, Told
    <3> QED BY <3>1 DEF Covers, Stored
  <2>4. Covers(CalcPSet(u), id)
    BY <2>2, <2>3, CalcPSetCovers
  <2> QED BY <2>4 DEF Covers, u
<1> QED BY <1>1, Invariance, PTL

\* The same for prepares: the Q set of a restarted replica has every batch it
\* sent a prepare for (persistQSet, getVcBasis).
THEOREM PrepareSurvivesRestartHolds ==
  Spec /\ ~CrashInRewrite => []PrepareSurvivesRestart
<1>1. IInv => PrepareSurvivesRestart
  <2> SUFFICES ASSUME IInv, ~RewritingLists, NEW id \in outP, id.n > certified
               PROVE  \E q \in CalcQSet(Restored) : q.n = id.n /\ q.d = id.d /\ q.v >= id.v
    BY DEF PrepareSurvivesRestart
  <2> DEFINE u == Restored
             t == RestartWrites(db, applied)
  <2>1. Good(u, db, t, certified, outP, outC, proposed)
    BY RestartGood DEF IInv, Restored, RewritingLists
  <2> HIDE DEF u, t
  <2>2. u \in Memory /\ id \in ID
    BY <2>1 DEF Good, Types, Proposed
  <2>3. Vouches(u.qlist \cup u.prePrep, id)
    <3>1. Vouches(u.qlist \cup (u.prePrep \cap db.qset), id)
      BY <2>1 DEF Good, Told
    <3> QED BY <3>1 DEF Vouches
  <2>4. Vouches(CalcQSet(u), id)
    BY <2>2, <2>3, CalcQSetVouches
  <2> QED BY <2>4 DEF Vouches, u
<1> QED BY <1>1, Invariance, PTL
=============================================================================
