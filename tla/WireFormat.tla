----------------------------- MODULE WireFormat -----------------------------
(***************************************************************************)
(* How a message of RbftMessages becomes bytes and bytes a message         *)
(* (rbft_vtproto.pb.go, and encodeVarint, sov and skip of                  *)
(* fltTransaction_vtproto.pb.go), byte by byte.  A message is a function   *)
(* from the names of its fields; a message field is a sequence of at most  *)
(* one message (nil is the empty one), a map a function on its keys.       *)
(*                                                                         *)
(* A replica builds a message and marshals it; another one unmarshals it,  *)
(* or what is left of it when the payload was cut.  Only TLC uses this     *)
(* module: its operators are recursive.                                    *)
(***************************************************************************)
EXTENDS RbftMessages, Integers, Sequences, SequencesExt, FiniteSetsExt, TLC

CONSTANT Depth    \* bound on the nesting of the messages that are sent

ASSUME DepthAssumption == Depth \in Nat

Fields(T) == ToSet(UnmarshalOf[T])

-----------------------------------------------------------------------------
(* Marshalling *)

RECURSIVE EncodeVarint(_)
EncodeVarint(v) ==
  IF v < 128 THEN <<v>> ELSE <<128 + (v % 128)>> \o EncodeVarint(v \div 128)

\* sov: (bits.Len64(x|1) + 6) / 7.
RECURSIVE Sov(_)
Sov(v) == IF v < 128 THEN 1 ELSE 1 + Sov(v \div 128)

Tag(n, wireType) == EncodeVarint(8 * n + wireType)

Delimited(n, bytes) == Tag(n, 2) \o EncodeVarint(Len(bytes)) \o bytes

\* Every concatenation of an element of each set of the sequence.
Concatenations(sets) ==
  FoldLeft(LAMBDA acc, S : {a \o b : a \in acc, b \in S}, {<<>>}, sets)

\* `for k := range m`: the entries of a map come in any order.
InAnyOrder(map, Entry(_)) ==
  UNION {Concatenations([i \in DOMAIN q |-> Entry(q[i])]) : q \in SetToSeqs(DOMAIN map)}

(***************************************************************************)
(* MarshalToSizedBufferVTStrict fills the buffer from its end, so that the *)
(* fields come in the order of the table and the unknown ones last.  What  *)
(* is zero, empty or nil is left out, within lists and maps it is not.     *)
(***************************************************************************)
RECURSIVE Encodings(_, _)
Encodings(T, m) ==
  LET OfMsg(f, e) == {Delimited(f.n, b) : b \in Encodings(f.type, e)}
      Pair(f, k, b) == Delimited(f.n, Tag(1, 0) \o EncodeVarint(k) \o Delimited(2, b))
      OfField(f) ==
        LET v == m[f.name]
        IN CASE f.kind = "varint" ->
                  {IF v = 0 THEN <<>> ELSE Tag(f.n, 0) \o EncodeVarint(v)}
             [] f.kind = "bool" -> {IF v THEN Tag(f.n, 0) \o <<1>> ELSE <<>>}
             [] f.kind = "bytes" -> {IF v = <<>> THEN <<>> ELSE Delimited(f.n, v)}
             [] f.kind = "boollist" ->
                  {IF v = <<>> THEN <<>>
                   ELSE Delimited(f.n, [i \in DOMAIN v |-> IF v[i] THEN 1 ELSE 0])}
             [] f.kind = "byteslist" ->
                  Concatenations([i \in DOMAIN v |-> {Delimited(f.n, v[i])}])
             [] f.kind \in {"msg", "msglist"} ->
                  Concatenations([i \in DOMAIN v |-> OfMsg(f, v[i])])
             [] f.kind = "bytesmap" -> InAnyOrder(v, LAMBDA k : {Pair(f, k, v[k])})
             [] f.kind = "msgmap" ->
                  InAnyOrder(v, LAMBDA k : {Pair(f, k, b) : b \in Encodings(f.type, v[k])})
      fields == MarshalOf[T]
  IN Concatenations(Append([i \in DOMAIN fields |-> OfField(fields[i])],
                           {m.unknownFields}))

SumOver(q, Op(_)) == FoldLeft(LAMBDA acc, e : acc + Op(e), 0, q)

\* SizeVT: here n is the number of bytes of the field's tag.
RECURSIVE SizeVT(_, _)
SizeVT(T, m) ==
  LET Len1(n, l) == n + l + Sov(l)
      Pair(f, k, l) == Len1(f.n, 1 + Sov(k) + Len1(1, l))
      OfField(f) ==
        LET v == m[f.name]
        IN CASE f.kind = "varint" -> IF v = 0 THEN 0 ELSE f.n + Sov(v)
             [] f.kind = "bool" -> IF v THEN f.n + 1 ELSE 0
             [] f.kind \in {"bytes", "boollist"} ->
                  IF v = <<>> THEN 0 ELSE Len1(f.n, Len(v))
             [] f.kind = "byteslist" -> SumOver(v, LAMBDA e : Len1(f.n, Len(e)))
             [] f.kind \in {"msg", "msglist"} ->
                  SumOver(v, LAMBDA e : Len1(f.n, SizeVT(f.type, e)))
             [] f.kind = "bytesmap" ->
                  SumOver(SetToSeq(DOMAIN v), LAMBDA k : Pair(f, k, Len(v[k])))
             [] f.kind = "msgmap" ->
                  SumOver(SetToSeq(DOMAIN v), LAMBDA k : Pair(f, k, SizeVT(f.type, v[k])))
  IN SumOver(SizeOf[T], OfField) + Len(m.unknownFields)

-----------------------------------------------------------------------------
(* Unmarshalling: what is read, and the bytes that are left *)

ZeroOf(kind) == CASE kind = "varint" -> 0 [] kind = "bool" -> FALSE [] OTHER -> <<>>

Zero(T) ==
  [x \in {f.name : f \in Fields(T)} \cup {"unknownFields"} |->
     IF x = "unknownFields" THEN <<>>
     ELSE ZeroOf((CHOOSE f \in Fields(T) : f.name = x).kind)]

Failure == [ok |-> FALSE]
Read(v, rest) == [ok |-> TRUE, v |-> v, rest |-> rest]

\* The loop over shift: io.ErrUnexpectedEOF when the bytes run out.
RECURSIVE ReadVarint(_)
ReadVarint(b) ==
  IF b = <<>> THEN Failure
  ELSE IF Head(b) < 128 THEN Read(Head(b), Tail(b))
  ELSE LET high == ReadVarint(Tail(b))
       IN IF high.ok THEN Read(Head(b) - 128 + 128 * high.v, high.rest) ELSE Failure

Take(b, n) == SubSeq(b, 1, n)
Drop(b, n) == SubSeq(b, n + 1, Len(b))

\* Mutant: the end of the buffer is not compared with postIndex.
ReadDelimitedUnchecked(b) ==
  LET l == ReadVarint(b)
  IN IF ~l.ok THEN Failure
     ELSE Read(Take(l.rest, Min({l.v, Len(l.rest)})), Drop(l.rest, l.v))

\* A length and as many bytes: postIndex > l is io.ErrUnexpectedEOF.
ReadDelimited(b) ==
  LET l == ReadVarint(b)
  IN IF ~l.ok \/ l.v > Len(l.rest) THEN Failure
     ELSE Read(Take(l.rest, l.v), Drop(l.rest, l.v))

\* skip(), for the wire types the messages have: the bytes of one field.
Skip(b) ==
  LET tag == ReadVarint(b)
      body == IF tag.v % 8 = 2 THEN ReadDelimited(tag.rest) ELSE ReadVarint(tag.rest)
  IN IF ~tag.ok \/ ~body.ok THEN Failure
     ELSE Read(Take(b, Len(b) - Len(body.rest)), body.rest)

\* The entry of a map: key and value in their order, as Marshal writes them.
ReadPair(b) ==
  LET k == ReadVarint(Tail(b))
      v == ReadDelimited(Tail(k.rest))
  IN IF b = <<>> \/ ~k.ok \/ k.rest = <<>> \/ ~v.ok THEN Failure
     ELSE Read([key |-> k.v, value |-> v.v], v.rest)

WireTypes(kind) ==
  CASE kind \in {"varint", "bool"} -> {0} [] kind = "boollist" -> {0, 2} [] OTHER -> {2}

(***************************************************************************)
(* UnmarshalVT on m: a scalar is replaced, a message merged, a list grows, *)
(* an unknown field is kept as its bytes.                                  *)
(***************************************************************************)
RECURSIVE UnmarshalVT(_, _, _)
UnmarshalVT(T, m, b) ==
  LET tag == ReadVarint(b)
      num == tag.v \div 8
      known == {f \in Fields(T) : f.n = num}
      f == CHOOSE g \in known : TRUE
      old == m[f.name]
      r == IF tag.v % 8 = 0 THEN ReadVarint(tag.rest) ELSE ReadDelimited(tag.rest)
      Nested(type, base, bytes) == UnmarshalVT(type, base, bytes)
      sub == Nested(f.type, IF f.kind = "msg" /\ old # <<>> THEN old[1] ELSE Zero(f.type), r.v)
      pair == ReadPair(r.v)
      val == Nested(f.type, Zero(f.type), pair.v.value)
      With(v) == UnmarshalVT(T, [m EXCEPT ![f.name] = v], r.rest)
  IN CASE b = <<>> -> [ok |-> TRUE, v |-> m]
       [] b # <<>> /\ (~tag.ok \/ tag.v % 8 = 4 \/ num <= 0) -> Failure
       [] b # <<>> /\ tag.ok /\ num > 0 /\ known = {} ->
            LET s == Skip(b)
            IN IF ~s.ok THEN Failure
               ELSE UnmarshalVT(T, [m EXCEPT !.unknownFields = @ \o s.v], s.rest)
       [] OTHER ->
            IF tag.v % 8 \notin WireTypes(f.kind) \/ ~r.ok THEN Failure
            ELSE CASE f.kind \in {"varint", "bytes"} -> With(r.v)
                   [] f.kind = "bool" -> With(r.v # 0)
                   [] f.kind = "byteslist" -> With(Append(old, r.v))
                   [] f.kind = "boollist" ->
                        With(old \o [i \in DOMAIN r.v |-> r.v[i] # 0])
                   [] f.kind = "msg" -> IF sub.ok THEN With(<<sub.v>>) ELSE Failure
                   [] f.kind = "msglist" ->
                        IF sub.ok THEN With(Append(old, sub.v)) ELSE Failure
                   [] f.kind = "bytesmap" ->
                        IF pair.ok THEN With((pair.v.key :> pair.v.value) @@ old)
                        ELSE Failure
                   [] f.kind = "msgmap" ->
                        IF pair.ok /\ val.ok THEN With((pair.v.key :> val.v) @@ old)
                        ELSE Failure

-----------------------------------------------------------------------------
(* Copies and comparisons, for the messages that are copied or compared.   *)
(* None of them has a map: a field is a scalar, a message or a list.       *)

RECURSIVE CloneVT(_, _)
CloneVT(T, m) ==
  [x \in DOMAIN m |->
     IF x \notin CloneOf[T] THEN Zero(T)[x]
     ELSE IF \E f \in Fields(T) : f.name = x /\ f.kind \in {"msg", "msglist"}
     THEN LET f == CHOOSE g \in Fields(T) : g.name = x
          IN [i \in DOMAIN m[x] |-> CloneVT(f.type, m[x][i])]
     ELSE m[x]]

RECURSIVE EqualVT(_, _, _)
EqualVT(T, a, b) ==
  \A x \in EqualOf[T] :
    IF \E f \in Fields(T) : f.name = x /\ f.kind \in {"msg", "msglist"}
    THEN LET f == CHOOSE g \in Fields(T) : g.name = x
         IN /\ Len(a[x]) = Len(b[x])
            /\ \A i \in DOMAIN a[x] : EqualVT(f.type, a[x][i], b[x][i])
    ELSE a[x] = b[x]

-----------------------------------------------------------------------------
(* What is hashed and signed *)

\* Mutant: the whole new view is signed, with the certificate it carries.
SignedWholeNewView(T, m) ==
  CASE T = "Checkpoint" ->
         [Zero(T) EXCEPT !.Epoch = m.Epoch, !.ExecuteState = m.ExecuteState,
                         !.NeedUpdateEpoch = m.NeedUpdateEpoch]
    [] OTHER -> m

\* Checkpoint.Hash, calculateNewViewHash, and calculateViewChangeHash of a basis.
SignedPart(T, m) ==
  CASE T = "Checkpoint" ->
         [Zero(T) EXCEPT !.Epoch = m.Epoch, !.ExecuteState = m.ExecuteState,
                         !.NeedUpdateEpoch = m.NeedUpdateEpoch]
    [] T = "NewView" ->
         [Zero(T) EXCEPT !.ReplicaId = m.ReplicaId, !.View = m.View, !.Xset = m.Xset,
                         !.AutoTermUpdate = m.AutoTermUpdate,
                         !.ValidatorDynamicInfo = m.ValidatorDynamicInfo]
    [] T = "VcBasis" -> m

Signed == {"Checkpoint", "NewView", "VcBasis"}

-----------------------------------------------------------------------------
(* The messages that are sent *)

\* A value of the field that differs from the default and from other fields'.
RECURSIVE Filled(_, _)
Value(f, d) ==
  CASE f.kind = "varint" -> f.n
    [] f.kind = "bool" -> TRUE
    [] f.kind = "bytes" -> <<f.n>>
    [] f.kind = "boollist" -> <<TRUE, FALSE>>
    [] f.kind = "byteslist" -> << <<>>, <<f.n>> >>
    [] f.kind = "msg" -> <<Filled(f.type, d)>>
    [] f.kind = "msglist" -> <<Zero(f.type), Filled(f.type, d)>>
    [] f.kind = "bytesmap" -> (0 :> <<f.n>>) @@ (300 :> <<>>)
    [] f.kind = "msgmap" -> (1 :> Filled(f.type, d)) @@ (2 :> Zero(f.type))

\* Every field set, with messages in it down to a depth.
Filled(T, d) ==
  IF d = 0 THEN Zero(T)
  ELSE [x \in DOMAIN Zero(T) |->
          IF x = "unknownFields" THEN <<>>
          ELSE Value(CHOOSE f \in Fields(T) : f.name = x, d - 1)]

\* A field of a later version of the message, number 100.
Unknown == Tag(100, 0) \o <<1>>

Samples(T) ==
  LET some(S) == [x \in DOMAIN Zero(T) |->
                    IF x \in S THEN Filled(T, 2)[x] ELSE Zero(T)[x]]
      large(f) == [Zero(T) EXCEPT ![f.name] = IF f.kind = "varint" THEN 70000
                                               ELSE [i \in 1..130 |-> i % 256]]
  IN {Filled(T, Depth), [Filled(T, 1) EXCEPT !.unknownFields = Unknown]}
       \cup {some(S) : S \in UNION {kSubset(k, DOMAIN Zero(T)) : k \in 0..2}}
       \cup {large(f) : f \in {g \in Fields(T) : g.kind \in {"varint", "bytes"}}}

-----------------------------------------------------------------------------
VARIABLES
  ty,       \* the message's type
  msg,      \* the message that was built
  wire,     \* its bytes
  arrived,  \* the bytes that arrived
  got       \* what was made of them

vars == <<ty, msg, wire, arrived, got>>

Pending == [ok |-> FALSE, pending |-> TRUE]

Init ==
  /\ ty \in MessageType
  /\ msg \in Samples(ty)
  /\ wire = <<>>
  /\ arrived = <<>>
  /\ got = Pending

\* MarshalVTStrict on the sender's side.
Marshal ==
  /\ wire = <<>> /\ got = Pending
  /\ \E b \in Encodings(ty, msg) : wire' = b
  /\ UNCHANGED <<ty, msg, arrived, got>>

\* UnmarshalVT on the receiver's side, of the payload or of what is left of it.
Unmarshal ==
  /\ got = Pending
  /\ wire # <<>> \/ msg = Zero(ty)
  /\ \E n \in 0..Len(wire) : arrived' = Take(wire, n)
  /\ got' = UnmarshalVT(ty, Zero(ty), arrived')
  /\ UNCHANGED <<ty, msg, wire>>

Done == got # Pending /\ UNCHANGED vars

Next == Marshal \/ Unmarshal \/ Done

Spec == Init /\ [][Next]_vars

-----------------------------------------------------------------------------
(* Properties *)

Whole == got # Pending /\ arrived = wire

(***************************************************************************)
(* Whatever the order a map was written in, the receiver of the whole      *)
(* payload has the message that was built: MarshalToSizedBufferVTStrict    *)
(* and UnmarshalVT agree on every field, its number and its wire type, and *)
(* a field neither knows travels through.                                  *)
(***************************************************************************)
RoundTrip == Whole => got.ok /\ got.v = msg

(***************************************************************************)
(* SizeVT is the number of bytes that are written: MarshalVTStrict         *)
(* allocates that many and writes from the end, so that a size too small   *)
(* is an index out of range and one too large leaves zero bytes in front.  *)
(***************************************************************************)
SizeIsLength == wire # <<>> => SizeVT(ty, msg) = Len(wire)

(***************************************************************************)
(* A payload that was cut is refused or is itself the encoding of what     *)
(* UnmarshalVT made of it: no value of a field is made up of half its      *)
(* bytes, nor of the bytes of another one.                                 *)
(***************************************************************************)
CutIsNotMisread ==
  got # Pending /\ got.ok => arrived \in Encodings(ty, got.v)

(***************************************************************************)
(* The bytes that are hashed for a signature have one form, and the form   *)
(* the receiver computes from the message that arrived is the one the      *)
(* sender signed, although the entries of a map come in any order.         *)
(***************************************************************************)
SignedBytesAgree ==
  Whole /\ got.ok /\ ty \in Signed =>
    \A a \in Encodings(ty, SignedPart(ty, msg)),
       b \in Encodings(ty, SignedPart(ty, got.v)) : a = b

(***************************************************************************)
(* EqualVT tells two messages apart whatever they differ in, at any depth, *)
(* for the basis of a view change, the validator infos and what they       *)
(* contain: recvViewChange drops a view change whose basis is EqualVT to   *)
(* the stored one.  CloneVT leaves nothing out of a prepare or commit that *)
(* is persisted, or of a checkpoint that goes into a proof.  The other     *)
(* messages are neither compared nor copied.                               *)
(***************************************************************************)
CloneIsEqual ==
  got = Pending /\ wire = <<>> =>
    /\ ty \in DOMAIN CloneOf => CloneVT(ty, msg) = msg
    /\ ty \in DOMAIN EqualOf =>
         \A m \in Samples(ty) : EqualVT(ty, m, msg) <=> m = msg

=============================================================================
