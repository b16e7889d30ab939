------------------------ MODULE PacketBuildingProofs ------------------------
(***************************************************************************)
(* Proofs about both ends of a stream of packets, for all templates, spans *)
(* and values.  First what the sender has and writes, then that the        *)
(* receiver is a dissector as GenericDissectorProofs speaks of, then where *)
(* the bytes of the stream are, that what is sent is what is returned, and *)
(* at last that the dissector reads a stream as PacketFraming does.        *)
(***************************************************************************)
EXTENDS PacketBuilding, GenericDissectorProofs, FlattenProofs

(* The packets of a template, complete or not.                             *)
Packet(t) == UNION {[D -> Seq(Byte)] : D \in SUBSET DOMAIN t}

(* packetDataToBuffer as a function of the template too.                   *)
Filled(t, p) == [i \in DOMAIN t |-> IF i \in DOMAIN p THEN p[i] ELSE <<>>]
Wire(t, p)   == FlattenSeq(Filled(t, p))

LEMMA Fields ==
  ASSUME NEW t \in Templates
  PROVE  /\ Len(t) \in Nat /\ DOMAIN t = 1 .. Len(t)
         /\ \A i \in DOMAIN t : t[i] \in FieldDescriptor
BY TemplateAssumption, LenProperties, TemplateDomain

LEMMA WireType ==
  ASSUME NEW t \in Templates, NEW p \in Packet(t)
  PROVE  Filled(t, p) \in [1 .. Len(t) -> Seq(Byte)] /\ Wire(t, p) \in Seq(Byte)
<1>1. PICK D \in SUBSET DOMAIN t : p \in [D -> Seq(Byte)]
  BY DEF Packet
<1>2. ASSUME NEW i \in DOMAIN t PROVE (IF i \in DOMAIN p THEN p[i] ELSE <<>>) \in Seq(Byte)
  BY <1>1, EmptySeq
<1>3. Filled(t, p) \in [DOMAIN t -> Seq(Byte)]
  BY <1>2 DEF Filled
<1>4. Len(t) \in Nat /\ DOMAIN t = 1 .. Len(t)
  BY Fields
<1> QED BY <1>3, <1>4, FlattenType DEF Wire

LEMMA Written == \A p : PacketDataToBuffer(p) = Wire(template, p)
BY DEF PacketDataToBuffer, Wire, Filled

-----------------------------------------------------------------------------
(* The sender's copy of the descriptor.                                    *)

Draft(t) == [size : [DOMAIN t -> UInt16], value : [DOMAIN t -> Seq(Byte)]]

(* Every value is as long as its field says, or still the one the field was*)
(* made with.                                                              *)
Settled(t, d) ==
  \A i \in DOMAIN t :
    \/ Len(d.value[i]) = d.size[i]
    \/ d.size[i] = t[i].size /\ d.value[i] = t[i].value

LEMMA NewDraftSettled ==
  ASSUME NEW t \in Templates
  PROVE  NewDraft(t) \in Draft(t) /\ Settled(t, NewDraft(t))
<1>1. ASSUME NEW i \in DOMAIN t PROVE t[i].size \in UInt16 /\ t[i].value \in Seq(Byte)
  <2>1. t[i] \in FieldDescriptor
    BY Fields
  <2> QED BY <2>1, FieldParts
<1> QED BY <1>1 DEF NewDraft, Draft, Settled

LEMMA SetSettled ==
  ASSUME NEW t \in Templates, NEW d \in Draft(t), NEW i \in DOMAIN t, NEW v \in Seq(Byte),
         NEW n \in UInt16
  PROVE  /\ [d EXCEPT !.value[i] = v, !.size[i] = n] \in Draft(t)
         /\ Settled(t, d) /\ Len(v) = n
              => Settled(t, [d EXCEPT !.value[i] = v, !.size[i] = n])
BY DEF Draft, Settled

LEMMA Getting ==
  ASSUME NEW n, template \in Templates, Named(template, DOMAIN template, n) # {}
  PROVE  Get(n) \in DOMAIN template
BY NamedProperties DEF Get

(* What the sender writes.                                                 *)
LEMMA WireOfDraft ==
  ASSUME template \in Templates, NEW swap \in BOOLEAN, draft \in Draft(template)
  PROVE  OnWire(draft, swap) \in [DOMAIN template -> Seq(Byte)]
<1>1. ASSUME NEW s \in Seq(Byte) PROVE Reverse(s) \in Seq(Byte)
  BY DEF Reverse
<1>2. \A i \in DOMAIN template : draft.value[i] \in Seq(Byte)
  BY DEF Draft
<1>3. ASSUME NEW i \in DOMAIN template
      PROVE  (IF draft.size[i] = 0 THEN <<>>
              ELSE IF swap THEN Reverse(draft.value[i]) ELSE draft.value[i]) \in Seq(Byte)
  BY <1>1, <1>2, EmptySeq
<1> QED BY <1>3 DEF OnWire

LEMMA FirstBytes ==
  ASSUME NEW s \in Seq(Byte), NEW n \in UInt16, n <= Len(s)
  PROVE  SubSeq(s, 1, n) \in Seq(Byte) /\ Len(SubSeq(s, 1, n)) = n
<1>1. n \in Nat /\ 1 \in Int /\ n \in Int
  BY DEF UInt16
<1>2. \A k \in 1 .. n : s[k] \in Byte
  <2>1. \A k \in 1 .. Len(s) : s[k] \in Byte
    BY ElementOfSeq
  <2> QED BY <1>1, <2>1, LenProperties
<1>3. SubSeq(s, 1, n) \in Seq(Byte) /\ Len(SubSeq(s, 1, n)) = IF 1 <= n THEN n - 1 + 1 ELSE 0
  BY <1>1, <1>2, SubSeqProperties
<1> QED BY <1>1, <1>3

LEMMA ShortLength ==
  ASSUME NEW n \in Nat, n <= 65535
  PROVE  ToUInt16(n) = n
BY DEF ToUInt16

(* A step of the sender leaves a draft that is typed, and settled.         *)
LEMMA SenderKeeps ==
  ASSUME template \in Templates, template \in Built, draft \in Draft(template), SenderStep
  PROVE  /\ draft' \in Draft(template)
         /\ ShortValues /\ Settled(template, draft) => Settled(template, draft')
<1>0. USE DEF Draft
<1>1. ASSUME NEW n \in FieldName, NEW x \in NumbersFor(template, n), SetNumber(n, x)
      PROVE  /\ draft' \in Draft(template)
             /\ Settled(template, draft) => Settled(template, draft')
  <2> DEFINE i == Get(n)
             v == ToBytes(x, draft.size[i])
  <2>1. i \in DOMAIN template
    BY <1>1, Getting DEF SetNumber
  <2>2. x \in Seq(Byte) /\ draft.size[i] \in UInt16 /\ draft.size[i] <= Len(x)
    BY <1>1, <2>1, BuiltAssumption DEF SetNumber
  <2>3. v \in Seq(Byte) /\ Len(v) = draft.size[i]
    BY <2>2, FirstBytes DEF ToBytes
  <2>4. draft' = [draft EXCEPT !.value[i] = v]
    BY <1>1 DEF SetNumber
  <2> HIDE DEF i, v
  <2> QED BY <2>1, <2>3, <2>4 DEF Settled
<1>2. ASSUME NEW n \in FieldName, NEW v \in BytesFor(template, n), SetBytes(n, v)
      PROVE  /\ draft' \in Draft(template)
             /\ ShortValues /\ Settled(template, draft) => Settled(template, draft')
  <2> DEFINE i == Get(n)
  <2>1. i \in DOMAIN template
    BY <1>2, Getting DEF SetBytes
  <2>2. v \in Seq(Byte) /\ Len(v) \in Nat
    BY BuiltAssumption
  <2>3. ToUInt16(Len(v)) \in UInt16 /\ (ShortValues => ToUInt16(Len(v)) = Len(v))
    <3>1. ShortValues => Len(v) <= 65535
      BY DEF ShortValues
    <3> QED BY <2>2, <3>1, ToUInt16Type, ShortLength
  <2>4. draft' = [draft EXCEPT !.value[i] = v, !.size[i] = ToUInt16(Len(v))]
    BY <1>2 DEF SetBytes
  <2> HIDE DEF i
  <2> HIDE DEF Draft
  <2>5. PICK m \in UInt16 : m = ToUInt16(Len(v)) /\ (ShortValues => m = Len(v))
    BY <2>3
  <2>6. /\ [draft EXCEPT !.value[i] = v, !.size[i] = m] \in Draft(template)
        /\ Settled(template, draft) /\ Len(v) = m
             => Settled(template, [draft EXCEPT !.value[i] = v, !.size[i] = m])
    BY <2>1, <2>2, SetSettled, Zenon
  <2>7. draft' = [draft EXCEPT !.value[i] = v, !.size[i] = m]
    BY <2>4, <2>5
  <2> QED BY <2>5, <2>6, <2>7, Zenon
<1>3. CASE Renew
  BY <1>3, NewDraftSettled DEF Renew
<1>4. ASSUME NEW swap \in BOOLEAN, Send(swap) PROVE draft' = draft
  BY <1>4 DEF Send, Hand
<1>5. ASSUME NEW n \in FieldName, SendExcluding(n) PROVE draft' = draft
  BY <1>5 DEF SendExcluding, Hand
<1> QED BY <1>1, <1>2, <1>3, <1>4, <1>5 DEF SenderStep

-----------------------------------------------------------------------------
(* The steps of the sender and of the owner, seen from the receiver: a byte*)
(* for addByte, a span for addBytes, or nothing at all.                    *)

SenderTypes ==
  /\ template \in Templates
  /\ span \in Seq(Byte)
  /\ draft \in Draft(template)

LEMMA SentSteps ==
  ASSUME SenderTypes, BuildNext
  PROVE  \/ \E b \in DirectOf(template) : AddOneByte(b) /\ UNCHANGED <<draft, sent>>
         \/ \E c \in ChunksOf(template) :
              (AddFixed(c) \/ BeginSpan(c)) /\ UNCHANGED <<draft, sent>>
         \/ FeedByte /\ UNCHANGED <<draft, sent>>
         \/ template \in Built /\ SenderStep /\ UNCHANGED <<feedVars, sent>>
         \/ /\ template \in Built /\ span = <<>>
            /\ \E p \in Packet(template) :
                 /\ AddFixed(Wire(template, p)) \/ BeginSpan(Wire(template, p))
                 /\ sent' = Append(sent, p) /\ UNCHANGED draft
<1>0. template \in Templates /\ draft \in Draft(template)
  BY DEF SenderTypes
<1>1. CASE FeedNext /\ UNCHANGED <<draft, sent>>
  BY <1>1 DEF FeedNext
<1>2. ASSUME template \in Built, span = <<>>, NEW p \in Packet(template), Hand(p)
      PROVE  /\ AddFixed(Wire(template, p)) \/ BeginSpan(Wire(template, p))
             /\ sent' = Append(sent, p) /\ UNCHANGED draft
  BY <1>2, Written DEF Hand
<1>3. CASE template \in Built /\ span = <<>> /\ SenderStep
  <2>1. ASSUME NEW n \in FieldName, NEW x \in NumbersFor(template, n), SetNumber(n, x)
        PROVE  UNCHANGED <<feedVars, sent>>
    BY <2>1 DEF SetNumber
  <2>2. ASSUME NEW n \in FieldName, NEW v \in BytesFor(template, n), SetBytes(n, v)
        PROVE  UNCHANGED <<feedVars, sent>>
    BY <2>2 DEF SetBytes
  <2>3. CASE Renew
    BY <1>3, <2>3 DEF Renew
  <2>4. ASSUME NEW swap \in BOOLEAN, Send(swap)
        PROVE  Hand(OnWire(draft, swap)) /\ OnWire(draft, swap) \in Packet(template)
    <3>1. OnWire(draft, swap) \in [DOMAIN template -> Seq(Byte)]
      BY <1>0, WireOfDraft
    <3> QED BY <2>4, <3>1 DEF Send, Packet
  <2>5. ASSUME NEW n \in FieldName, SendExcluding(n)
        PROVE  \E p \in Packet(template) : Hand(p)
    <3> DEFINE D == DOMAIN template \ Named(template, DOMAIN template, n)
               p == [i \in D |-> OnWire(draft, FALSE)[i]]
    <3>1. OnWire(draft, FALSE) \in [DOMAIN template -> Seq(Byte)]
      BY <1>0, WireOfDraft
    <3>2. p \in [D -> Seq(Byte)]
      BY <3>1
    <3>3. p \in Packet(template)
      BY <3>2 DEF Packet
    <3>4. Hand(p)
      BY <2>5 DEF SendExcluding
    <3> HIDE DEF p
    <3> QED BY <3>3, <3>4
  <2>6. CASE \E p \in Packet(template) : Hand(p)
    BY <1>2, <1>3, <2>6
  <2> QED BY <1>3, <2>1, <2>2, <2>3, <2>4, <2>5, <2>6 DEF SenderStep
<1> QED BY <1>1, <1>3 DEF BuildNext

(* The same, without the packets.                                          *)
LEMMA BuildCases ==
  ASSUME SenderTypes, BuildNext
  PROVE  \/ \E b \in DirectOf(template) : AddOneByte(b) /\ draft' = draft
         \/ /\ \E bytes \in Seq(Byte) : AddFixed(bytes) \/ BeginSpan(bytes)
            /\ ChunksOf(template) # {} \/ template \in Built
            /\ draft' = draft
         \/ FeedByte /\ draft' = draft
         \/ template \in Built /\ SenderStep /\ UNCHANGED feedVars
<1>1. ChunksOf(template) \subseteq Seq(Byte)
  BY FeedAssumption DEF SenderTypes
<1>2. \A p \in Packet(template) : Wire(template, p) \in Seq(Byte)
  BY WireType DEF SenderTypes
<1> QED BY <1>1, <1>2, SentSteps

LEMMA Spans ==
  ASSUME span \in Seq(Byte), FeedByte
  PROVE  span' \in Seq(Byte) /\ Head(span) \in Byte /\ Tail(span) \in Seq(Byte)
<1>1. Head(span) \in Byte /\ Tail(span) \in Seq(Byte)
  BY HeadTailProperties DEF FeedByte
<1> QED BY <1>1, EmptySeq DEF FeedByte

LEMMA BytesOfReceiver ==
  ASSUME SenderTypes, [BuildNext]_buildVars
  PROVE  [Next]_vars
<1>1. ASSUME NEW b \in DirectOf(template), AddOneByte(b) PROVE [Next]_vars
  BY <1>1, FeedAssumption DEF AddOneByte, Next, SenderTypes
<1>2. ASSUME NEW bytes, AddFixed(bytes) \/ BeginSpan(bytes) PROVE [Next]_vars
  BY <1>2 DEF AddFixed, BeginSpan
<1>3. CASE FeedByte
  BY <1>3, Spans DEF FeedByte, Next, SenderTypes
<1>4. CASE UNCHANGED feedVars
  BY <1>4 DEF feedVars, vars
<1>5. CASE UNCHANGED buildVars
  BY <1>4, <1>5 DEF buildVars
<1>6. CASE BuildNext
  BY <1>1, <1>2, <1>3, <1>4, <1>6, BuildCases
<1> QED BY <1>5, <1>6

LEMMA SenderTypesKept ==
  ASSUME SenderTypes, [BuildNext]_buildVars
  PROVE  /\ SenderTypes' /\ template' = template
         /\ ShortValues /\ Settled(template, draft) => Settled(template, draft')
<1>0. template' = template
  BY BytesOfReceiver, TemplateFixed
<1>1. CASE UNCHANGED buildVars
  BY <1>0, <1>1 DEF buildVars, feedVars, SenderTypes
<1>2. ASSUME draft' = draft, span' \in Seq(Byte) PROVE SenderTypes'
  BY <1>0, <1>2 DEF SenderTypes
<1>3. ASSUME NEW b, AddOneByte(b) PROVE span' \in Seq(Byte)
  BY <1>3 DEF AddOneByte, SenderTypes
<1>4. ASSUME NEW bytes \in Seq(Byte), AddFixed(bytes) \/ BeginSpan(bytes)
      PROVE  span' \in Seq(Byte)
  BY <1>4 DEF AddFixed, BeginSpan, SenderTypes
<1>5. ASSUME FeedByte PROVE span' \in Seq(Byte)
  BY <1>5, Spans DEF SenderTypes
<1>6. CASE template \in Built /\ SenderStep /\ UNCHANGED feedVars
  BY <1>0, <1>6, SenderKeeps DEF SenderTypes, feedVars
<1>7. CASE BuildNext
  <2>1. ASSUME draft' = draft, span' \in Seq(Byte)
        PROVE  SenderTypes' /\ (Settled(template, draft) => Settled(template, draft'))
    BY <1>2, <2>1
  <2> QED BY <1>0, <1>3, <1>4, <1>5, <1>6, <1>7, <2>1, BuildCases
<1> QED BY <1>0, <1>1, <1>7

LEMMA SenderTypesInit ==
  ASSUME BuildInit
  PROVE  /\ SenderTypes
         /\ Settled(template, draft)
BY NewDraftSettled, EmptySeq DEF BuildInit, FeedInit, Init, SenderTypes

(* What is done to the receiver is calls of addByte, and nothing else: all *)
(* that GenericDissectorProofs shows holds of it (FeedByte, AddOneByte).   *)
THEOREM ReceiverIsDissector == BuildSpec => Spec
<1>1. BuildInit => Init /\ SenderTypes
  BY SenderTypesInit DEF BuildInit, FeedInit
<1>2. SenderTypes /\ [BuildNext]_buildVars => SenderTypes' /\ [Next]_vars
  BY SenderTypesKept, BytesOfReceiver
<1> QED BY <1>1, <1>2, PTL DEF BuildSpec, Spec

-----------------------------------------------------------------------------
(* The buffer of a draft.                                                  *)

(* What the function in Ends is at i, when it is g below; there is one.    *)
End(g, size, i) == IF i = 0 THEN 0 ELSE g[i - 1] + size[i]

LEMMA EndsExist ==
  ASSUME NEW size, NEW N \in Nat
  PROVE  \E g : g = [i \in 0 .. N |-> End(g, size, i)]
<1> DEFINE S == {n \in Nat : \E g : g = [i \in 0 .. n |-> End(g, size, i)]}
<1>1. 0 \in S
  <2> DEFINE g == [i \in 0 .. 0 |-> 0]
  <2>1. g = [i \in 0 .. 0 |-> End(g, size, i)]
    BY DEF End
  <2> QED BY <2>1
<1>2. ASSUME NEW n \in S PROVE n + 1 \in S
  <2>1. PICK g : g = [i \in 0 .. n |-> End(g, size, i)]
    OBVIOUS
  <2> DEFINE h == [i \in 0 .. n + 1 |-> IF i = n + 1 THEN End(g, size, n + 1) ELSE g[i]]
  <2>2. ASSUME NEW i \in 0 .. n + 1 PROVE h[i] = End(h, size, i)
    <3>1. n \in Nat /\ (i = 0 \/ i - 1 \in 0 .. n)
      OBVIOUS
    <3>2. i # 0 => h[i - 1] = g[i - 1]
      BY <3>1
    <3>3. End(h, size, i) = End(g, size, i)
      BY <3>2 DEF End
    <3>4. CASE i = n + 1
      BY <3>3, <3>4
    <3>5. CASE i # n + 1
      <4>1. i \in 0 .. n
        BY <3>1, <3>5
      <4>2. g[i] = End(g, size, i)
        BY <2>1, <4>1
      <4> QED BY <4>2, <3>3, <3>5
    <3> QED BY <3>4, <3>5
  <2> HIDE DEF h
  <2>3. h = [i \in 0 .. n + 1 |-> h[i]]
    BY DEF h
  <2>4. h = [i \in 0 .. n + 1 |-> End(h, size, i)]
    BY <2>2, <2>3
  <2> QED BY <2>4
<1>3. S = Nat
  <2> HIDE DEF S
  <2>1. S \in SUBSET Nat
    BY DEF S
  <2> QED BY <1>1, <1>2, <2>1, FromZero
<1> QED BY <1>3

(* Ends adds the sizes up.                                                 *)
LEMMA EndsAddUp ==
  ASSUME NEW N \in Nat, NEW size \in [1 .. N -> Nat]
  PROVE  /\ Ends(size) \in [0 .. N -> Nat]
         /\ Ends(size)[0] = 0
         /\ \A i \in 1 .. N : Ends(size)[i] = Ends(size)[i - 1] + size[i]
<1> DEFINE F(u) == u = [i \in 0 .. Len(size) |-> IF i = 0 THEN 0 ELSE u[i - 1] + size[i]]
           e == CHOOSE u : F(u)
<1>1. Len(size) = N
  OBVIOUS
<1>2. F(e)
  <2>1. PICK g : g = [i \in 0 .. N |-> End(g, size, i)]
    BY EndsExist
  <2>2. F(g)
    BY <1>1, <2>1 DEF End
  <2> HIDE DEF F
  <2> QED BY <2>2
<1>3. Ends(size) = e
  BY DEF Ends
<1> HIDE DEF e
<1>4. e = [i \in 0 .. N |-> IF i = 0 THEN 0 ELSE e[i - 1] + size[i]]
  BY <1>1, <1>2
<1> HIDE DEF F
<1>5. e[0] = 0
  BY <1>4
<1>6. ASSUME NEW i \in 1 .. N PROVE e[i] = e[i - 1] + size[i]
  <2>1. i \in 0 .. N /\ i # 0
    OBVIOUS
  <2>2. e[i] = IF i = 0 THEN 0 ELSE e[i - 1] + size[i]
    BY <1>4, <2>1, Zenon
  <2> QED BY <2>1, <2>2
<1>7. ASSUME NEW k \in 0 .. N PROVE e[k] \in Nat
  <2> DEFINE S == {n \in Nat : n <= N => e[n] \in Nat}
  <2>1. 0 \in S
    BY <1>5
  <2>2. ASSUME NEW n \in S PROVE n + 1 \in S
    <3> SUFFICES ASSUME n + 1 <= N PROVE e[n + 1] \in Nat
      OBVIOUS
    <3>1. n \in Nat /\ n <= N /\ e[n] \in Nat /\ n + 1 \in 1 .. N /\ (n + 1) - 1 = n
      OBVIOUS
    <3>2. e[n + 1] = e[n] + size[n + 1] /\ size[n + 1] \in Nat
      BY <1>6, <3>1
    <3> QED BY <3>1, <3>2
  <2>3. S \in SUBSET Nat
    OBVIOUS
  <2> HIDE DEF S
  <2>4. S = Nat
    BY <2>1, <2>2, <2>3, FromZero
  <2>5. k \in Nat /\ k <= N
    OBVIOUS
  <2> QED BY <2>4, <2>5 DEF S
<1>8. e \in [0 .. N -> Nat]
  <2>1. e = [k \in 0 .. N |-> e[k]]
    BY <1>4
  <2> QED BY <1>7, <2>1
<1> QED BY <1>3, <1>5, <1>6, <1>8

(* A field that packetDescriptorToBuffer refuses was made so and never set:*)
(* of descriptors used before, too, and however fields were set.  With none*)
(* it writes all values and as many bytes as getPacketSize says; if no     *)
(* value is longer than a size can say (set, PacketHelper.hpp).            *)
THEOREM DraftIsWritable ==
  ASSUME ShortValues
  PROVE  BuildSpec => []DraftWritable
<1>1. BuildInit => SenderTypes /\ Settled(template, draft)
  BY SenderTypesInit
<1>2. /\ SenderTypes /\ Settled(template, draft) /\ [BuildNext]_buildVars
      => SenderTypes' /\ Settled(template, draft)'
  <2> SUFFICES ASSUME SenderTypes, Settled(template, draft), [BuildNext]_buildVars
               PROVE  SenderTypes' /\ Settled(template, draft)'
    OBVIOUS
  <2>1. SenderTypes' /\ template' = template /\ Settled(template, draft')
    BY SenderTypesKept
  <2> QED BY <2>1 DEF Settled
<1>3. SenderTypes /\ Settled(template, draft) => DraftWritable
  <2> SUFFICES ASSUME SenderTypes, Settled(template, draft),
                      \A i \in DOMAIN template : AsMade(i) => Len(draft.value[i]) = draft.size[i]
               PROVE  /\ Writable(draft)
                      /\ PacketDataToBuffer(OnWire(draft, FALSE)) = PacketDataToBuffer(draft.value)
                      /\ Len(PacketDataToBuffer(draft.value)) = PacketSize(draft)
    BY DEF DraftWritable
  <2>0. \A i \in DOMAIN template : Len(draft.value[i]) = draft.size[i]
    BY DEF Settled, AsMade
  <2>1. PICK N \in Nat : N = Len(template) /\ DOMAIN template = 1 .. N
    BY Fields DEF SenderTypes
  <2>2. draft.size \in [1 .. N -> Nat] /\ draft.value \in [1 .. N -> Seq(Byte)]
    <3>1. UInt16 \subseteq Nat
      BY DEF UInt16
    <3>2. draft.size \in [1 .. N -> UInt16] /\ draft.value \in [1 .. N -> Seq(Byte)]
      BY <2>1 DEF SenderTypes, Draft
    <3> QED BY <3>1, <3>2
  <2>3. Writable(draft)
    BY <2>0 DEF Writable
  <2>4. OnWire(draft, FALSE) = draft.value
    <3>1. ASSUME NEW i \in 1 .. N, draft.size[i] = 0 PROVE draft.value[i] = <<>>
      <4>1. draft.value[i] \in Seq(Byte) /\ Len(draft.value[i]) = 0
        BY <2>0, <2>1, <2>2, <3>1
      <4> QED BY <4>1
    <3>2. OnWire(draft, FALSE) = [i \in 1 .. N |-> draft.value[i]]
      BY <2>1, <3>1 DEF OnWire
    <3> QED BY <2>2, <3>2
  <2>5. PacketDataToBuffer(draft.value) = FlattenSeq(draft.value)
    <3>1. [i \in DOMAIN template |-> IF i \in DOMAIN draft.value THEN draft.value[i] ELSE <<>>]
            = draft.value
      BY <2>1, <2>2
    <3> QED BY <3>1 DEF PacketDataToBuffer
  <2>6. Len(FlattenSeq(draft.value)) = Ends(draft.size)[N]
    <3>1. /\ Ends(draft.size) \in [0 .. N -> Nat]
          /\ Ends(draft.size)[0] = 0
          /\ \A i \in 1 .. N : Ends(draft.size)[i] = Ends(draft.size)[i - 1] + draft.size[i]
      BY <2>2, EndsAddUp
    <3>2. \A i \in 1 .. N : Len(draft.value[i]) = draft.size[i]
      BY <2>0, <2>1
    <3>3. \A i \in 1 .. N : Ends(draft.size)[i] = Ends(draft.size)[i - 1] + Len(draft.value[i])
      BY <3>1, <3>2
    <3> QED BY <2>2, <3>1, <3>3, FlattenLength, Zenon
  <2>7. PacketSize(draft) = Ends(draft.size)[N]
    <3>1. Len(draft.size) = N
      BY <2>2
    <3> QED BY <3>1 DEF PacketSize
  <2> QED BY <2>3, <2>4, <2>5, <2>6, <2>7
<1> QED BY <1>1, <1>2, <1>3, PTL DEF BuildSpec

-----------------------------------------------------------------------------
(* Where the bytes are: in the packets returned, and in the one under      *)
(* construction.                                                           *)

All(t, ps) == FlattenSeq([k \in DOMAIN ps |-> Wire(t, ps[k])])

Open(t, d, bytes) ==
  IF d.stack = {} THEN <<>> ELSE Wire(t, [i \in d.done |-> d.value[i]]) \o bytes

(* Nothing is left in the buffer when a packet is complete.                *)
NothingLeft == cur.stack = {} => buffer = <<>>

LEMMA ReadSoFar ==
  ASSUME NEW t \in Templates, NEW d \in Current(t),
         \A i \in DOMAIN t : i \notin d.done => d.value[i] = <<>>
  PROVE  /\ [i \in d.done |-> d.value[i]] \in Packet(t)
         /\ Wire(t, [i \in d.done |-> d.value[i]]) = FlattenSeq(d.value)
         /\ FlattenSeq(d.value) \in Seq(Byte)
<1> DEFINE p == [i \in d.done |-> d.value[i]]
<1>1. d.done \subseteq DOMAIN t /\ d.value \in [DOMAIN t -> Seq(Byte)]
  BY CurrentParts
<1>2. p \in [d.done -> Seq(Byte)]
  BY <1>1
<1>3. p \in Packet(t)
  BY <1>1, <1>2 DEF Packet
<1>4. \A i \in DOMAIN t : (IF i \in DOMAIN p THEN p[i] ELSE <<>>) = d.value[i]
  BY <1>1
<1> HIDE DEF p
<1>5. Filled(t, p) = [i \in DOMAIN t |-> d.value[i]]
  BY <1>4 DEF Filled
<1>6. Filled(t, p) = d.value
  BY <1>1, <1>5
<1>7. Wire(t, p) = FlattenSeq(d.value) /\ FlattenSeq(d.value) \in Seq(Byte)
  BY <1>3, <1>6, WireType DEF Wire
<1> QED BY <1>3, <1>7 DEF p

(* A field on the stack has no bytes yet, nor have those behind it.        *)
LEMMA NotYetRead ==
  ASSUME NEW t \in Templates, NEW d \in Current(t), Consistent(t, d), d.stack # {}
  PROVE  \A j \in DOMAIN t : j >= Top(d) => d.value[j] = <<>>
<1> TAKE j \in DOMAIN t
<1>1. Top(d) \in d.stack /\ Top(d) \in Nat /\ j \in Nat
  BY TopProperties, TemplateDomain
<1>2. ASSUME j >= Top(d) PROVE j \notin d.done
  <2>1. j \in d.done => j < Top(d)
    BY <1>1 DEF Consistent
  <2> QED BY <1>1, <1>2, <2>1
<1> QED BY <1>2 DEF Consistent

(* Passing over an empty field, or beginning a packet, moves no byte.      *)
LEMMA PreparedHolds ==
  ASSUME TypeOK, WellFormed(template), Consistent(template, cur), NothingLeft
  PROVE  /\ Prepared \in Current(template) /\ Consistent(template, Prepared)
         /\ FlattenSeq(Prepared.value) \in Seq(Byte)
         /\ FlattenSeq(Prepared.value) \o buffer = Open(template, cur, buffer)
<1> DEFINE d == IF cur.stack = {} /\ buffer = <<>> THEN NewPacket(template) ELSE cur
<1>1. template \in Templates /\ cur \in Current(template) /\ buffer \in Seq(Byte)
  BY DEF TypeOK
<1>2. d \in Current(template) /\ Consistent(template, d)
  BY <1>1, NewPacketType, NewPacketConsistent
<1>3. Prepared \in Current(template) /\ Consistent(template, Prepared)
  BY PreparedType, PreparedConsistent
<1>4. FlattenSeq(d.value) \in Seq(Byte) /\ FlattenSeq(d.value) \o buffer = Open(template, cur, buffer)
  <2>1. CASE cur.stack = {}
    <3>1. d.value = [i \in DOMAIN template |-> <<>>] /\ buffer = <<>>
      BY <2>1 DEF NothingLeft, NewPacket, Parts
    <3>2. Len(template) \in Nat /\ DOMAIN template = 1 .. Len(template)
      BY <1>1, Fields
    <3>3. FlattenSeq(d.value) = <<>>
      BY <3>1, <3>2, FlattenEmpty
    <3> HIDE DEF d
    <3> QED BY <2>1, <3>1, <3>3, EmptySeq, ConcatEmptySeq DEF Open
  <2>2. CASE cur.stack # {}
    <3>1. d = cur
      BY <2>2
    <3>2. \A i \in DOMAIN template : i \notin cur.done => cur.value[i] = <<>>
      BY DEF Consistent
    <3> HIDE DEF d
    <3> QED BY <1>1, <2>2, <3>1, <3>2, ReadSoFar DEF Open
  <2> QED BY <2>1, <2>2
<1>5. Prepared = SkipEmptyTop(d)
  BY DEF Prepared
<1> HIDE DEF d
<1>6. Prepared.value = d.value
  <2>1. CASE d.stack # {} /\ CertainlyZeroSized(d, Top(d))
    <3>1. Prepared.value = [d.value EXCEPT ![Top(d)] = <<>>]
      BY <1>5, <2>1 DEF SkipEmptyTop, Push, Parts
    <3>2. Top(d) \in DOMAIN template /\ Top(d) \in Nat
      BY <1>1, <1>2, <2>1, TopProperties, TemplateDomain
    <3>3. d.value[Top(d)] = <<>>
      BY <1>1, <1>2, <2>1, <3>2, NotYetRead
    <3>4. d.value \in [DOMAIN template -> Seq(Byte)]
      BY <1>2, CurrentParts
    <3> QED BY <3>1, <3>2, <3>3, <3>4
  <2>2. CASE ~(d.stack # {} /\ CertainlyZeroSized(d, Top(d)))
    BY <1>5, <2>2 DEF SkipEmptyTop
  <2> QED BY <2>1, <2>2
<1> QED BY <1>3, <1>4, <1>6

LEMMA NoCallbacks ==
  ASSUME TypeOK, Consistent(template, Prepared), NoSizers, NEW b
  PROVE  /\ Prepared.unsized = {}
         /\ Resolved(b) = Prepared /\ Held(b) = Append(buffer, b)
<1>1. Prepared.unsized = {}
  <2>1. Prepared.unsized \subseteq DOMAIN template
    BY PreparedType, CurrentParts
  <2> QED BY <2>1 DEF Consistent, NoSizers
<1> QED BY <1>1 DEF Callable, Resolved, Held, TakeSize, Unread

(* The rules touch no byte.                                                *)
LEMMA FieldGoes ==
  ASSUME NEW b, CompleteField(b)
  PROVE  /\ SizeKnown(b)
         /\ buffer' = <<>>
         /\ cur'.value = [Resolved(b).value EXCEPT ![Top(Resolved(b))] = Held(b)]
         /\ result' = IF cur'.stack = {} THEN "packet" ELSE "none"
<1>1. AfterSizes(b).value = Pushed(b).value
  BY DEF AfterSizes, ApplySizeRule, Parts
<1>2. \A d, i : ApplyExistenceRule(template, d, i).value = d.value
  BY DEF ApplyExistenceRule, Parts
<1>3. \A d : DrainEmpty(d).value = d.value
  BY DEF DrainEmpty, Parts
<1>4. Pushed(b).value = [Resolved(b).value EXCEPT ![Top(Resolved(b))] = Held(b)]
  BY DEF Pushed, Push, Parts
<1> QED BY <1>1, <1>2, <1>3, <1>4 DEF CompleteField, FieldRead, Return

LEMMA OneMoreByte ==
  ASSUME NEW s \in Seq(Byte), NEW u \in Seq(Byte), NEW b \in Byte
  PROVE  /\ s \o Append(u, b) = Append(s \o u, b)
         /\ s \o u \in Seq(Byte) /\ Append(u, b) \in Seq(Byte)
<1>1. <<b>> \in Seq(Byte) /\ Append(u, b) = u \o <<b>> /\ Append(s \o u, b) = (s \o u) \o <<b>>
  BY ConcatProperties, AppendIsConcat
<1>2. s \o u \in Seq(Byte) /\ u \o <<b>> \in Seq(Byte)
  BY <1>1, ConcatProperties
<1>3. (s \o u) \o <<b>> = s \o (u \o <<b>>)
  BY <1>1, ConcatAssociative
<1> QED BY <1>1, <1>2, <1>3

(* Without callbacks, and unless a header has to be looked for, a call of  *)
(* addByte puts its byte behind those of the packet, which may be complete *)
(* with it.                                                                *)
LEMMA ByteKept ==
  ASSUME RulesInv, RulesInv', NothingLeft, WellFormed(template), NoSizers,
         NEW b \in Byte, AddByte(b), ~ResyncHeader(b)
  PROVE  /\ Open(template, cur, buffer) \in Seq(Byte)
         /\ result' = "packet" =>
              /\ cur'.stack = {} /\ CurrentPacket \in Packet(template)
              /\ Wire(template, CurrentPacket) = Append(Open(template, cur, buffer), b)
         /\ result' # "packet" =>
              /\ result' = "none" /\ cur'.stack # {}
              /\ Open(template, cur', buffer') = Append(Open(template, cur, buffer), b)
<1> DEFINE P == Prepared
           F == FlattenSeq(P.value)
<1>1. /\ TypeOK /\ template \in Templates /\ buffer \in Seq(Byte)
      /\ Consistent(template, cur)
  BY DEF RulesInv, TypeOK
<1>2. /\ P \in Current(template) /\ Consistent(template, P)
      /\ F \in Seq(Byte) /\ F \o buffer = Open(template, cur, buffer)
  BY <1>1, PreparedHolds
<1> HIDE DEF F
<1>3. P.unsized = {} /\ Resolved(b) = P /\ Held(b) = Append(buffer, b)
  BY <1>1, <1>2, NoCallbacks
<1>4. /\ F \o Append(buffer, b) = Append(Open(template, cur, buffer), b)
      /\ Open(template, cur, buffer) \in Seq(Byte) /\ Append(buffer, b) \in Seq(Byte)
  <2>1. PICK f \in Seq(Byte) : f = F
    BY <1>2
  <2>2. PICK u \in Seq(Byte) : u = buffer
    BY <1>1
  <2>3. f \o Append(u, b) = Append(f \o u, b) /\ f \o u \in Seq(Byte) /\ Append(u, b) \in Seq(Byte)
    BY OneMoreByte
  <2>4. f \o u = Open(template, cur, buffer)
    BY <1>2, <2>1, <2>2
  <2> QED BY <2>1, <2>2, <2>3, <2>4
<1>5. template' = template
  BY TemplateFixed DEF Next
<1>6. result' # "threw" /\ cur' \in Current(template)
      /\ \A i \in DOMAIN template : i \notin cur'.done => cur'.value[i] = <<>>
  <2>1. /\ WellFormed(template)' => Consistent(template, cur)' /\ result' # "threw"
        /\ (cur \in Current(template))'
    BY DEF RulesInv, TypeOK
  <2>2. WellFormed(template)'
    BY <1>5
  <2>3. cur' \in Current(template)
    BY <1>5, <2>1
  <2>4. \A i \in DOMAIN template : i \notin cur'.done => cur'.value[i] = <<>>
    BY <1>5, <2>1, <2>2 DEF Consistent
  <2> QED BY <2>1, <2>2, <2>3, <2>4
<1>7. CASE AwaitSize(b)
  BY <1>3, <1>7 DEF AwaitSize
<1>8. CASE AwaitBytes(b)
  <2>1. P.stack # {} /\ cur' = P /\ buffer' = Append(buffer, b) /\ result' = "none"
    BY <1>3, <1>8 DEF AwaitBytes, SizeKnown, Return
  <2>2. Wire(template, [i \in P.done |-> P.value[i]]) = F
    <3>1. \A i \in DOMAIN template : i \notin P.done => P.value[i] = <<>>
      BY <1>2 DEF Consistent
    <3> QED BY <1>1, <1>2, <3>1, ReadSoFar DEF F
  <2>3. Open(template, cur', buffer') = F \o Append(buffer, b)
    BY <2>1, <2>2 DEF Open
  <2> QED BY <1>4, <2>1, <2>3
<1>9. CASE SizeRuleFails(b) \/ ExistenceRuleFails(b)
  BY <1>6, <1>9 DEF SizeRuleFails, ExistenceRuleFails, Return
<1>10. CASE CompleteField(b)
  <2> DEFINE i == Top(P)
             N == Len(template)
  <2>1. /\ P.stack # {} /\ buffer' = <<>>
        /\ cur'.value = [P.value EXCEPT ![i] = Append(buffer, b)]
        /\ result' = IF cur'.stack = {} THEN "packet" ELSE "none"
    BY <1>3, <1>10, FieldGoes DEF SizeKnown
  <2>2. N \in Nat /\ DOMAIN template = 1 .. N
    BY <1>1, Fields
  <2>3. i \in 1 .. N /\ \A j \in 1 .. N : j >= i => P.value[j] = <<>>
    <3> HIDE DEF P
    <3>1. Top(P) \in P.stack /\ P.stack \subseteq DOMAIN template
      BY <1>1, <1>2, <2>1, TopProperties, CurrentParts
    <3>2. \A j \in DOMAIN template : j >= Top(P) => P.value[j] = <<>>
      BY <1>1, <1>2, <2>1, NotYetRead
    <3> QED BY <2>2, <3>1, <3>2
  <2>4. P.value \in [1 .. N -> Seq(Byte)] /\ cur'.value \in [1 .. N -> Seq(Byte)]
    BY <1>2, <1>6, <2>2, CurrentParts
  <2> HIDE DEF i, N, P
  <2>5. /\ cur'.value[i] = Append(buffer, b)
        /\ \A j \in 1 .. N : j # i => cur'.value[j] = P.value[j]
    BY <2>1, <2>3, <2>4
  <2>6. \A j \in 1 .. N : /\ j < i => cur'.value[j] = P.value[j]
                          /\ j > i => P.value[j] = <<>> /\ cur'.value[j] = <<>>
    BY <2>2, <2>3, <2>5
  <2>7. P.value[i] = <<>>
    BY <2>2, <2>3
  <2>8. FlattenSeq(cur'.value) = F \o Append(buffer, b)
    <3>1. PICK n \in Nat : n = N
      BY <2>2
    <3>2. PICK k \in 1 .. n : k = i
      BY <2>3, <3>1
    <3>3. PICK p \in [1 .. n -> Seq(Byte)] : p = P.value
      BY <2>4, <3>1
    <3>4. PICK q \in [1 .. n -> Seq(Byte)] : q = cur'.value
      BY <2>4, <3>1
    <3>5. \A j \in 1 .. n : j < k => q[j] = p[j]
      BY <2>6, <3>1, <3>2, <3>3, <3>4
    <3>6. \A j \in 1 .. n : j > k => p[j] = <<>> /\ q[j] = <<>>
      BY <2>6, <3>1, <3>2, <3>3, <3>4
    <3>7. p[k] = <<>>
      BY <2>7, <3>2, <3>3
    <3>8. FlattenSeq(q) = FlattenSeq(p) \o q[k]
      BY <3>5, <3>6, <3>7, FlattenFills
    <3> QED BY <2>5, <3>2, <3>3, <3>4, <3>8 DEF F
  <2>9. /\ [k \in cur'.done |-> cur'.value[k]] \in Packet(template)
        /\ Wire(template, [k \in cur'.done |-> cur'.value[k]]) = FlattenSeq(cur'.value)
        /\ FlattenSeq(cur'.value) \in Seq(Byte)
    BY <1>1, <1>6, ReadSoFar
  <2>10. CurrentPacket = [k \in cur'.done |-> cur'.value[k]]
    BY DEF CurrentPacket
  <2>11. cur'.stack # {} => Open(template, cur', buffer') = FlattenSeq(cur'.value)
    BY <2>1, <2>9, ConcatEmptySeq DEF Open
  <2> QED BY <1>4, <2>1, <2>8, <2>9, <2>10, <2>11
<1> QED BY <1>4, <1>7, <1>8, <1>9, <1>10 DEF AddByte

LEMMA NothingLeftStays ==
  ASSUME NothingLeft, [Next]_vars
  PROVE  NothingLeft'
<1>1. ASSUME NEW b, AwaitSize(b) PROVE NothingLeft'
  BY <1>1 DEF AwaitSize, Return, NothingLeft
<1>2. ASSUME NEW b, SizeKnown(b) PROVE Resolved(b).stack # {}
  BY <1>2 DEF SizeKnown, Resolved, TakeSize, Parts
<1>3. ASSUME NEW b, AwaitBytes(b) PROVE NothingLeft'
  BY <1>2, <1>3 DEF AwaitBytes, Return, NothingLeft
<1>4. ASSUME NEW b, ResyncHeader(b) PROVE NothingLeft'
  BY <1>2, <1>4 DEF ResyncHeader, Return, NothingLeft
<1>5. ASSUME NEW b, SizeRuleFails(b) \/ ExistenceRuleFails(b) \/ CompleteField(b)
      PROVE  NothingLeft'
  BY <1>5 DEF SizeRuleFails, ExistenceRuleFails, CompleteField, Return, NothingLeft
<1>6. CASE UNCHANGED vars
  BY <1>6 DEF vars, NothingLeft
<1> QED BY <1>1, <1>3, <1>4, <1>5, <1>6 DEF Next, AddByte

LEMMA NothingIsLeft == Spec => []NothingLeft
<1>1. Init => NothingLeft
  BY DEF Init, NothingLeft
<1> QED BY <1>1, NothingLeftStays, PTL DEF Spec

(* A packet begun has no bytes.                                            *)
LEMMA NothingOpen ==
  ASSUME NEW t \in Templates
  PROVE  Open(t, NewPacket(t), <<>>) = <<>>
<1>1. NewPacket(t) \in Current(t) /\ NewPacket(t).value = [i \in DOMAIN t |-> <<>>]
  BY NewPacketType DEF NewPacket, Parts
<1>2. Len(t) \in Nat /\ DOMAIN t = 1 .. Len(t)
  BY Fields
<1>3. FlattenSeq(NewPacket(t).value) = <<>>
  BY <1>1, <1>2, FlattenEmpty
<1>4. Wire(t, [i \in NewPacket(t).done |-> NewPacket(t).value[i]]) = <<>>
  BY <1>1, <1>3, ReadSoFar
<1> QED BY <1>4, EmptySeq, ConcatEmptySeq DEF Open

LEMMA AllGrows ==
  ASSUME NEW t \in Templates, NEW ps \in Seq(Packet(t)), NEW p \in Packet(t)
  PROVE  /\ Append(ps, p) \in Seq(Packet(t)) /\ Append(ps, p) # <<>> /\ Append(ps, p) # ps
         /\ All(t, ps) \in Seq(Byte)
         /\ All(t, Append(ps, p)) = All(t, ps) \o Wire(t, p)
<1>1. PICK n \in Nat : n = Len(ps)
  OBVIOUS
<1>2. PICK qs \in Seq(Packet(t)) : qs = Append(ps, p)
  BY AppendProperties
<1>3. /\ DOMAIN ps = 1 .. n /\ DOMAIN qs = 1 .. n + 1
      /\ \A k \in 1 .. n : ps[k] \in Packet(t) /\ qs[k] = ps[k]
      /\ qs[n + 1] = p /\ qs # <<>> /\ qs # ps
  BY <1>1, <1>2
<1>4. PICK F \in [1 .. n -> Seq(Byte)] : F = [k \in DOMAIN ps |-> Wire(t, ps[k])]
  BY <1>3, WireType
<1>5. PICK G \in [1 .. n + 1 -> Seq(Byte)] : G = [k \in DOMAIN qs |-> Wire(t, qs[k])]
  <2>1. \A k \in 1 .. n + 1 : qs[k] \in Packet(t)
    BY <1>3
  <2> QED BY <1>3, <2>1, WireType
<1>6. G[n + 1] = Wire(t, p) /\ \A k \in 1 .. n : G[k] = F[k]
  BY <1>3, <1>4, <1>5
<1>7. FlattenSeq(G) = FlattenSeq(F) \o G[n + 1]
  BY <1>6, FlattenOneMore
<1>8. FlattenSeq(F) \in Seq(Byte)
  BY FlattenType
<1> QED BY <1>2, <1>3, <1>4, <1>5, <1>6, <1>7, <1>8 DEF All

(* The fast path cuts a packet from the front of the span.                 *)
LEMMA FixedPacket ==
  ASSUME NEW t \in Templates, NEW bytes \in Seq(Byte), FixedSize(t) <= Len(bytes)
  PROVE  /\ [i \in DOMAIN t |-> Slice(t, bytes, i)] \in Packet(t)
         /\ Wire(t, [i \in DOMAIN t |-> Slice(t, bytes, i)]) = SubSeq(bytes, 1, FixedSize(t))
<1>1. PICK n \in Nat : n = Len(t) /\ DOMAIN t = 1 .. n
  BY Fields
<1>2. SizesOf(t) \in [1 .. n -> Nat]
  <2>1. UInt16 \subseteq Nat
    BY DEF UInt16
  <2>2. \A i \in 1 .. n : t[i].size \in UInt16
    BY <1>1, Fields, FieldParts
  <2> QED BY <1>1, <2>1, <2>2 DEF SizesOf
<1>3. PICK e \in [0 .. n -> Nat] :
        /\ e = Ends(SizesOf(t)) /\ e[0] = 0
        /\ \A i \in 1 .. n : e[i] = e[i - 1] + SizesOf(t)[i]
  BY <1>2, EndsAddUp
<1>4. \A i \in 1 .. n : e[i - 1] <= e[i]
  <2> TAKE i \in 1 .. n
  <2>1. e[i - 1] \in Nat /\ SizesOf(t)[i] \in Nat /\ e[i] = e[i - 1] + SizesOf(t)[i]
    BY <1>2, <1>3
  <2> QED BY <2>1
<1>5. FixedSize(t) = e[n]
  BY <1>1, <1>3 DEF FixedSize
<1>6. \A i \in 1 .. n : e[i] <= Len(bytes)
  <2> TAKE i \in 1 .. n
  <2>1. \A k \in 0 .. n : e[k] <= e[n]
    BY <1>3, <1>4, UpToTheLast
  <2> QED BY <1>5, <2>1
<1>7. PICK p \in [1 .. n -> Seq(Byte)] : p = [i \in DOMAIN t |-> Slice(t, bytes, i)]
  <2>1. ASSUME NEW i \in 1 .. n PROVE Slice(t, bytes, i) \in Seq(Byte)
    <3>1. e[i - 1] + 1 \in 1 .. e[i] + 1 /\ e[i] \in Nat /\ e[i] <= Len(bytes)
      BY <1>4, <1>6
    <3>2. \A k \in e[i - 1] + 1 .. e[i] : bytes[k] \in Byte
      BY <3>1, ElementOfSeq, LenProperties
    <3>3. SubSeq(bytes, e[i - 1] + 1, e[i]) \in Seq(Byte)
      BY <3>1, <3>2, SubSeqProperties
    <3> QED BY <1>3, <3>3 DEF Slice
  <2> QED BY <1>1, <2>1
<1>8. \A i \in 1 .. n : p[i] = SubSeq(bytes, e[i - 1] + 1, e[i])
  BY <1>1, <1>3, <1>7 DEF Slice
<1>9. FlattenSeq(p) = SubSeq(bytes, 1, e[n])
  BY <1>3, <1>4, <1>5, <1>8, FlattenSlices, Zenon
<1>10. p \in Packet(t) /\ Filled(t, p) = p
  BY <1>1 DEF Packet, Filled
<1> QED BY <1>5, <1>7, <1>9, <1>10 DEF Wire

-----------------------------------------------------------------------------
(* Every byte is in one field.                                             *)

(* addBytes cuts packets of fixed fields without a look at what addByte has*)
(* in its buffer: the owner may call it only when that is nothing.         *)
BetweenPackets ==
  [][\A bytes \in Seq(Byte) : AddFixed(bytes) => Unfinished = <<>>]_feedVars

HistoryTypes ==
  /\ taken \in Seq(Byte) /\ fed \in Seq(Byte)
  /\ packets \in Seq(Packet(template))

(* What addBytes alone cuts leaves no trace in the stack.                  *)
Untouched ==
  IsFixedSize(template) /\ DirectOf(template) = {} =>
    cur = NewPacket(template) /\ buffer = <<>> /\ span = <<>>

(* A byte has gone through addByte.                                        *)
ByteGoes(b) ==
  /\ AddByte(b)
  /\ taken' = Append(taken, b)
  /\ packets' = IF result' = "packet" THEN Append(packets, CurrentPacket) ELSE packets
  /\ fed' \in Seq(Byte)
  /\ result' = "none" => fed' = Append(fed, b)
  /\ ~(IsFixedSize(template) /\ DirectOf(template) = {})

(* A packet has been cut from the front of a span.                         *)
PacketCut(bytes) == AddFixed(bytes) /\ (ChunksOf(template) # {} \/ template \in Built)

HistoryStands ==
  /\ UNCHANGED <<vars, fed, taken, packets>>
  /\ span' = span \/ ~IsFixedSize(template)

LEMMA WaysIn ==
  ASSUME SenderTypes, HistoryTypes, Untouched, [BuildNext]_buildVars
  PROVE  \/ \E b \in Byte : ByteGoes(b)
         \/ \E bytes \in Seq(Byte) : PacketCut(bytes)
         \/ HistoryStands
<1>1. CASE UNCHANGED feedVars
  BY <1>1 DEF feedVars, vars, HistoryStands
<1>2. CASE UNCHANGED buildVars
  BY <1>1, <1>2 DEF buildVars
<1>3. ASSUME NEW b \in DirectOf(template), AddOneByte(b) PROVE b \in Byte /\ ByteGoes(b)
  <2>1. b \in Byte
    BY FeedAssumption DEF SenderTypes
  <2>2. Append(fed, b) \in Seq(Byte)
    BY <2>1, AppendProperties DEF HistoryTypes
  <2> QED BY <1>3, <2>1, <2>2 DEF AddOneByte, ByteGoes
<1>4. CASE FeedByte
  <2>1. Head(span) \in Byte
    BY <1>4, Spans DEF SenderTypes
  <2>2. Append(fed, Head(span)) \in Seq(Byte) /\ fed \o span \in Seq(Byte)
    BY <2>1, AppendProperties, ConcatProperties DEF SenderTypes, HistoryTypes
  <2>3. ~(IsFixedSize(template) /\ DirectOf(template) = {})
    BY <1>4 DEF FeedByte, Untouched
  <2>4. ByteGoes(Head(span))
    BY <1>4, <2>2, <2>3 DEF FeedByte, ByteGoes
  <2> QED BY <2>1, <2>4
<1>5. ASSUME NEW bytes \in Seq(Byte), AddFixed(bytes),
             ChunksOf(template) # {} \/ template \in Built
      PROVE  PacketCut(bytes)
  BY <1>5 DEF PacketCut
<1>6. ASSUME NEW bytes \in Seq(Byte), BeginSpan(bytes) PROVE HistoryStands
  BY <1>6 DEF BeginSpan, HistoryStands
<1> QED BY <1>1, <1>2, <1>3, <1>4, <1>5, <1>6, BuildCases

LEMMA PacketCutGoes ==
  ASSUME SenderTypes, HistoryTypes, NEW bytes \in Seq(Byte), AddFixed(bytes)
  PROVE  /\ taken' \in Seq(Byte) /\ fed' \in Seq(Byte) /\ packets' \in Seq(Packet(template))
         /\ packets' # <<>> /\ packets' # packets
         /\ All(template, packets) \in Seq(Byte)
         /\ SubSeq(bytes, 1, FixedSize(template)) \in Seq(Byte)
         /\ taken' = taken \o SubSeq(bytes, 1, FixedSize(template))
         /\ All(template, packets')
              = All(template, packets) \o SubSeq(bytes, 1, FixedSize(template))
<1> DEFINE p == [i \in DOMAIN template |-> Slice(template, bytes, i)]
           front == SubSeq(bytes, 1, FixedSize(template))
<1>1. p \in Packet(template) /\ Wire(template, p) = front
  BY FixedPacket DEF SenderTypes, AddFixed
<1>2. front \in Seq(Byte)
  BY <1>1, WireType DEF SenderTypes
<1>3. packets' = Append(packets, p) /\ taken' = taken \o front /\ fed' = fed \o bytes
  BY DEF AddFixed
<1> HIDE DEF p, front
<1>4. /\ Append(packets, p) \in Seq(Packet(template))
      /\ Append(packets, p) # <<>> /\ Append(packets, p) # packets
      /\ All(template, packets) \in Seq(Byte)
      /\ All(template, Append(packets, p)) = All(template, packets) \o Wire(template, p)
  BY <1>1, AllGrows DEF SenderTypes, HistoryTypes
<1>5. taken \o front \in Seq(Byte) /\ fed \o bytes \in Seq(Byte)
  BY <1>2, ConcatProperties DEF HistoryTypes
<1> QED BY <1>1, <1>2, <1>3, <1>4, <1>5 DEF front

LEMMA CurrentPacketType ==
  ASSUME TypeOK', template' = template
  PROVE  CurrentPacket \in Packet(template)
<1>1. cur' \in Current(template)
  BY DEF TypeOK
<1>2. cur'.done \subseteq DOMAIN template /\ cur'.value \in [DOMAIN template -> Seq(Byte)]
  BY <1>1, CurrentParts
<1>3. CurrentPacket \in [cur'.done -> Seq(Byte)]
  BY <1>2 DEF CurrentPacket
<1> QED BY <1>2, <1>3 DEF Packet

LEMMA HistoryKept ==
  ASSUME SenderTypes, TypeOK', HistoryTypes, Untouched, [BuildNext]_buildVars
  PROVE  HistoryTypes' /\ Untouched'
<1>1. template' = template
  BY SenderTypesKept
<1>2. ASSUME NEW b \in Byte, ByteGoes(b) PROVE HistoryTypes' /\ Untouched'
  <2>1. Append(taken, b) \in Seq(Byte)
    BY AppendProperties DEF HistoryTypes
  <2>2. CurrentPacket \in Packet(template)
    BY <1>1, CurrentPacketType
  <2>3. Append(packets, CurrentPacket) \in Seq(Packet(template))
    BY <2>2, AppendProperties DEF HistoryTypes
  <2>4. HistoryTypes'
    BY <1>1, <1>2, <2>1, <2>3 DEF HistoryTypes, ByteGoes
  <2>5. Untouched'
    BY <1>1, <1>2 DEF ByteGoes, Untouched
  <2> QED BY <2>4, <2>5
<1>3. ASSUME NEW bytes \in Seq(Byte), PacketCut(bytes) PROVE HistoryTypes' /\ Untouched'
  BY <1>1, <1>3, PacketCutGoes DEF HistoryTypes, PacketCut, AddFixed, Untouched, vars
<1>4. CASE HistoryStands
  BY <1>1, <1>4 DEF HistoryStands, HistoryTypes, Untouched, vars
<1> QED BY <1>2, <1>3, <1>4, WaysIn

(* The packets returned and the one under construction are what was taken. *)
Together ==
  WellFormed(template) /\ NoHeaders /\ NoSizers =>
    All(template, packets) \o Open(template, cur, buffer) = taken

LEMMA HistoryBegins ==
  ASSUME BuildInit
  PROVE  /\ HistoryTypes /\ Untouched /\ Together
         /\ packets = <<>> /\ fed = <<>> /\ Open(template, cur, buffer) = <<>>
<1>1. /\ template \in Templates /\ cur = NewPacket(template) /\ buffer = <<>>
      /\ span = <<>> /\ fed = <<>> /\ taken = <<>> /\ packets = <<>>
  BY DEF BuildInit, FeedInit, Init
<1>2. HistoryTypes
  BY <1>1 DEF HistoryTypes
<1>3. Open(template, cur, buffer) = <<>>
  BY <1>1, NothingOpen
<1>4. All(template, packets) = <<>>
  <2>1. [k \in DOMAIN packets |-> Wire(template, packets[k])] = [k \in 1 .. 0 |-> <<>>]
    BY <1>1
  <2> QED BY <2>1, FlattenEmpty DEF All
<1>5. Together
  BY <1>1, <1>3, <1>4, EmptySeq, ConcatEmptySeq DEF Together
<1> QED BY <1>1, <1>2, <1>3, <1>5 DEF Untouched

(* What the invariants below are proved from.                              *)
Reached == RulesInv /\ NothingLeft /\ SenderTypes /\ HistoryTypes /\ Untouched

LEMMA ReachedStates == BuildSpec => []Reached
<1>1. BuildInit => SenderTypes /\ HistoryTypes /\ Untouched
  BY SenderTypesInit, HistoryBegins
<1>2. SenderTypes /\ HistoryTypes /\ Untouched /\ RulesInv' /\ [BuildNext]_buildVars
        => SenderTypes' /\ HistoryTypes' /\ Untouched'
  BY SenderTypesKept, HistoryKept DEF RulesInv
<1>3. RulesInv /\ NothingLeft /\ SenderTypes /\ HistoryTypes /\ Untouched => Reached
  BY DEF Reached
<1> QED BY <1>1, <1>2, <1>3, ReceiverIsDissector, RulesInvariant, NothingIsLeft, PTL
        DEF BuildSpec

LEMMA TogetherKept ==
  ASSUME [\A bytes \in Seq(Byte) : AddFixed(bytes) => Unfinished = <<>>]_feedVars,
         Reached, Reached', Together, [BuildNext]_buildVars
  PROVE  Together'
<1> USE DEF Reached
<1>1. template' = template /\ template \in Templates
  BY SenderTypesKept DEF SenderTypes
<1> SUFFICES ASSUME WellFormed(template), NoHeaders, NoSizers
             PROVE  All(template, packets') \o Open(template, cur', buffer') = taken'
  BY <1>1 DEF Together, NoHeaders, NoSizers
<1>2. All(template, packets) \o Open(template, cur, buffer) = taken
  BY DEF Together
<1>3. ASSUME NEW b \in Byte, ByteGoes(b)
      PROVE  All(template, packets') \o Open(template, cur', buffer') = taken'
  <2>1. ~ResyncHeader(b)
    <3>1. ASSUME SizeKnown(b) PROVE Top(Resolved(b)) \in DOMAIN template
      BY <1>1, <3>1, FrontType, TopProperties DEF RulesInv
    <3> QED BY <3>1 DEF ResyncHeader, MatchesTop, NoHeaders
  <2>2. PICK u \in Seq(Byte) :
          /\ u = Open(template, cur, buffer)
          /\ result' = "packet" =>
               /\ cur'.stack = {} /\ CurrentPacket \in Packet(template)
               /\ Wire(template, CurrentPacket) = Append(u, b)
          /\ result' # "packet" => Open(template, cur', buffer') = Append(u, b)
    BY <1>3, <2>1, ByteKept DEF ByteGoes
  <2>3. PICK s \in Seq(Byte) : s = All(template, packets)
    <3>1. NewPacket(template) \in Current(template)
      BY <1>1, NewPacketType
    <3>2. [i \in NewPacket(template).done |-> NewPacket(template).value[i]] \in Packet(template)
      BY <1>1, <3>1, ReadSoFar DEF NewPacket, Parts
    <3>3. All(template, packets) \in Seq(Byte)
      BY <1>1, <3>2, AllGrows DEF HistoryTypes
    <3> QED BY <3>3
  <2>4. s \o Append(u, b) = Append(taken, b) /\ s \o Append(u, b) \in Seq(Byte)
    <3>1. s \o Append(u, b) = Append(s \o u, b) /\ s \o u \in Seq(Byte)
      BY OneMoreByte
    <3>2. s \o u = taken
      BY <1>2, <2>2, <2>3
    <3> QED BY <3>1, <3>2, AppendProperties
  <2>5. CASE result' = "packet"
    <3>1. packets' = Append(packets, CurrentPacket) /\ taken' = Append(taken, b)
      BY <1>3, <2>5 DEF ByteGoes
    <3>2. All(template, packets') = s \o Append(u, b)
      <4>1. CurrentPacket \in Packet(template) /\ Wire(template, CurrentPacket) = Append(u, b)
        BY <2>2, <2>5
      <4>2. All(template, Append(packets, CurrentPacket))
              = All(template, packets) \o Wire(template, CurrentPacket)
        BY <1>1, <4>1, AllGrows DEF HistoryTypes
      <4> QED BY <2>3, <3>1, <4>1, <4>2
    <3>3. Open(template, cur', buffer') = <<>>
      BY <2>2, <2>5 DEF Open
    <3> QED BY <2>4, <3>1, <3>2, <3>3, ConcatEmptySeq
  <2>6. CASE result' # "packet"
    BY <1>3, <2>2, <2>3, <2>4, <2>6 DEF ByteGoes
  <2> QED BY <2>5, <2>6
<1>4. ASSUME NEW bytes \in Seq(Byte), PacketCut(bytes)
      PROVE  All(template, packets') \o Open(template, cur', buffer') = taken'
  <2>1. Unfinished = <<>>
    BY <1>4, PacketCutGoes DEF PacketCut, feedVars
  <2>2. Open(template, cur, buffer) = <<>> /\ cur' = cur /\ buffer' = buffer
    BY <1>4, <2>1, Written DEF PacketCut, AddFixed, vars, Open, Unfinished
  <2>3. PICK s \in Seq(Byte), front \in Seq(Byte) :
          /\ s = All(template, packets) /\ taken' = taken \o front
          /\ All(template, packets') = s \o front /\ taken' \in Seq(Byte)
    BY <1>4, PacketCutGoes DEF PacketCut
  <2>4. s = taken
    BY <1>2, <2>2, <2>3, ConcatEmptySeq
  <2> QED BY <2>2, <2>3, <2>4, ConcatEmptySeq
<1>5. CASE HistoryStands
  BY <1>2, <1>5 DEF HistoryStands, vars
<1> QED BY <1>3, <1>4, <1>5, WaysIn

(* packetDataToBuffer makes the bytes again that the packets were read     *)
(* from, in the order they came in and each once (addByte, addBytes).      *)
THEOREM TakenIsConserved == BuildSpec /\ BetweenPackets => []TakenConserved
<1>1. BuildInit => Together
  BY HistoryBegins
<1>2. /\ Reached /\ Reached' /\ Together /\ [BuildNext]_buildVars
      /\ [\A bytes \in Seq(Byte) : AddFixed(bytes) => Unfinished = <<>>]_feedVars
      => Together'
  BY TogetherKept
<1>3. Together => TakenConserved
  <2>1. All(template, packets)
          = FlattenSeq([k \in DOMAIN packets |-> PacketDataToBuffer(packets[k])])
    BY Written DEF All
  <2>2. Open(template, cur, buffer) = Unfinished
    BY Written DEF Open, Unfinished
  <2> QED BY <2>1, <2>2 DEF Together, TakenConserved, Conserved
<1> QED BY <1>1, <1>2, <1>3, ReachedStates, PTL DEF BuildSpec, BetweenPackets

(* The condition holds of an owner that keeps to one way, whatever senders *)
(* do (addBytes).                                                          *)
THEOREM OneWayIsEnough ==
  ASSUME OneWayIn
  PROVE  BuildSpec => BetweenPackets
<1>1. ASSUME Reached, [BuildNext]_buildVars, NEW bytes \in Seq(Byte), AddFixed(bytes)
      PROVE  UNCHANGED feedVars \/ Unfinished = <<>>
  <2>1. template \in Templates /\ SenderTypes /\ HistoryTypes /\ Untouched /\ RulesInv
    BY <1>1 DEF Reached, SenderTypes
  <2>2. cur' = cur /\ buffer' = buffer /\ IsFixedSize(template)
    BY <1>1 DEF AddFixed, vars
  <2>3. CASE DirectOf(template) = {}
    <3>1. cur = NewPacket(template) /\ buffer = <<>>
      BY <2>1, <2>2, <2>3 DEF Untouched
    <3>2. Open(template, cur, buffer) = <<>>
      BY <2>1, <3>1, NothingOpen
    <3> QED BY <3>2, Written DEF Open, Unfinished
  <2>4. CASE DirectOf(template) # {}
    <3>1. packets' # packets
      BY <1>1, <2>1, PacketCutGoes
    <3>2. ASSUME NEW b \in Byte, ByteGoes(b) PROVE cur.stack = {}
      <4>1. result' = "packet"
        BY <3>1, <3>2 DEF ByteGoes
      <4>2. CompleteField(b)
        BY <3>2, <4>1 DEF ByteGoes, AddByte, AwaitSize, AwaitBytes, ResyncHeader, SizeRuleFails,
                          ExistenceRuleFails, Return
      <4>3. cur'.stack = {}
        BY <4>1, <4>2, FieldGoes
      <4> QED BY <2>2, <4>3
    <3>3. \A c \in Seq(Byte) : ~PacketCut(c)
      BY <2>1, <2>2, <2>4 DEF PacketCut, OneWayIn
    <3>4. ~HistoryStands
      BY <3>1 DEF HistoryStands
    <3> QED BY <1>1, <2>1, <3>2, <3>3, <3>4, WaysIn DEF Unfinished
  <2> QED BY <2>3, <2>4
<1>2. Reached /\ [BuildNext]_buildVars
        => [\A bytes \in Seq(Byte) : AddFixed(bytes) => Unfinished = <<>>]_feedVars
  BY <1>1
<1> QED BY <1>2, ReachedStates, PTL DEF BuildSpec, BetweenPackets

-----------------------------------------------------------------------------
(* What matchesHeader accepts, addByte accepts.                            *)

(* As far as the bytes go, they are those of the header.                   *)
BeginsAs(t, bytes) ==
  t[1].isHeaderValue /\ \A k \in 1 .. Len(bytes) : k <= Len(t[1].value) => bytes[k] = t[1].value[k]

HeaderFirst(t) == \A i \in DOMAIN t : t[i].isHeaderValue => i = 1

(* Until the first packet is complete nothing is dropped.                  *)
NothingSkipped ==
  /\ WellFormed(template) /\ NoSizers /\ HeaderFirst(template)
  /\ packets = <<>> /\ BeginsAs(template, fed)
  => Open(template, cur, buffer) = fed

(* The bytes held for the first field are all that came.                   *)
LEMMA HeldForHeader ==
  ASSUME TypeOK, WellFormed(template), Consistent(template, cur), NothingLeft, NoSizers,
         HeaderFirst(template), NEW b \in Byte, ResyncHeader(b)
  PROVE  /\ Append(buffer, b) # template[1].value
         /\ Len(Append(buffer, b)) = Len(template[1].value)
         /\ Open(template, cur, buffer) = buffer
<1> DEFINE P == Prepared
<1>1. /\ P \in Current(template) /\ Consistent(template, P)
      /\ FlattenSeq(P.value) \o buffer = Open(template, cur, buffer)
      /\ template \in Templates /\ buffer \in Seq(Byte)
  BY PreparedHolds DEF TypeOK
<1>2. P.unsized = {} /\ Resolved(b) = P /\ Held(b) = Append(buffer, b)
  BY <1>1, NoCallbacks
<1>3. /\ P.stack # {} /\ Len(Append(buffer, b)) = P.size[Top(P)]
      /\ template[Top(P)].isHeaderValue /\ template[Top(P)].value # Append(buffer, b)
  BY <1>2 DEF ResyncHeader, SizeKnown, Need, MatchesTop
<1> HIDE DEF P
<1>4. Top(P) \in P.stack /\ Top(P) \in DOMAIN template
  BY <1>1, <1>3, TopProperties
<1>5. Top(P) = 1
  BY <1>3, <1>4 DEF HeaderFirst
<1>6. P.size[1] = Len(template[1].value)
  <2>1. /\ template[1].sizer = NoSizer /\ \A k \in DOMAIN template : ~Determines(template, k, 1)
        /\ template[1].size = Len(template[1].value)
    BY <1>3, <1>4, <1>5 DEF WellFormed, HeadersAreFixed
  <2> QED BY <1>1, <1>4, <1>5, <2>1, SizeOfUnannounced
<1>7. FlattenSeq(P.value) = <<>>
  <2>1. PICK n \in Nat : n = Len(template) /\ DOMAIN template = 1 .. n
    BY <1>1, Fields
  <2>2. \A j \in DOMAIN template : j >= Top(P) => P.value[j] = <<>>
    BY <1>1, <1>3, NotYetRead
  <2>3. P.value \in [1 .. n -> Seq(Byte)]
    BY <1>1, <2>1, CurrentParts
  <2>4. P.value = [k \in 1 .. n |-> <<>>]
    BY <1>5, <2>1, <2>2, <2>3
  <2> QED BY <2>4, FlattenEmpty
<1> QED BY <1>1, <1>3, <1>5, <1>6, <1>7, ConcatEmptySeq

LEMMA NothingSkippedKept ==
  ASSUME Reached, Reached', NothingSkipped, [BuildNext]_buildVars
  PROVE  NothingSkipped'
<1> USE DEF Reached
<1>1. template' = template /\ template \in Templates
  BY SenderTypesKept DEF SenderTypes
<1> SUFFICES ASSUME WellFormed(template), NoSizers, HeaderFirst(template),
                    packets' = <<>>, BeginsAs(template, fed')
             PROVE  Open(template, cur', buffer') = fed'
  BY <1>1 DEF NothingSkipped, NoSizers
<1>2. TypeOK /\ Consistent(template, cur)
  BY DEF RulesInv
<1>3. ASSUME NEW b \in Byte, ByteGoes(b) PROVE Open(template, cur', buffer') = fed'
  <2>1. result' # "threw"
    BY <1>1 DEF RulesInv
  <2>2. result' # "packet" /\ packets = <<>>
    <3>1. CurrentPacket \in Packet(template)
      BY <1>1, CurrentPacketType DEF RulesInv
    <3>2. Append(packets, CurrentPacket) # <<>>
      BY <1>1, <3>1, AllGrows DEF HistoryTypes
    <3> QED BY <1>3, <3>2 DEF ByteGoes
  <2>3. fed' = Append(fed, b) /\ fed \in Seq(Byte)
    BY <1>3, <2>1, <2>2 DEF ByteGoes, HistoryTypes, RulesInv, TypeOK
  <2>4. BeginsAs(template, fed)
    BY <2>3 DEF BeginsAs
  <2>5. Open(template, cur, buffer) = fed
    BY <2>2, <2>4 DEF NothingSkipped
  <2>6. ~ResyncHeader(b)
    <3> SUFFICES ASSUME ResyncHeader(b) PROVE FALSE
      OBVIOUS
    <3>1. fed' # template[1].value /\ Len(fed') = Len(template[1].value)
      BY <1>2, <2>3, <2>5, HeldForHeader
    <3>2. template[1].value \in Seq(Byte) /\ fed' \in Seq(Byte)
      <4>1. 1 \in DOMAIN template
        BY <1>1, Fields DEF WellFormed
      <4>2. template[1].value \in Seq(Byte)
        BY <1>1, <4>1, Fields, FieldParts
      <4> QED BY <2>3, <4>2, AppendProperties
    <3>3. \A k \in 1 .. Len(fed') : fed'[k] = template[1].value[k]
      BY <3>1 DEF BeginsAs
    <3> QED BY <3>1, <3>2, <3>3, SeqEqual
  <2> QED BY <1>3, <2>2, <2>3, <2>5, <2>6, ByteKept DEF ByteGoes
<1>4. ASSUME NEW bytes \in Seq(Byte), PacketCut(bytes) PROVE FALSE
  BY <1>4, PacketCutGoes DEF PacketCut
<1>5. CASE HistoryStands
  BY <1>5 DEF HistoryStands, NothingSkipped, vars
<1> QED BY <1>3, <1>4, <1>5, WaysIn

(* The bytes matchesHeader says yes to are those addByte keeps.            *)
THEOREM HeaderIsAccepted == BuildSpec => []HeaderAccepted
<1>1. BuildInit => NothingSkipped
  BY HistoryBegins DEF NothingSkipped
<1>2. Reached /\ Reached' /\ NothingSkipped /\ [BuildNext]_buildVars => NothingSkipped'
  BY NothingSkippedKept
<1>3. Reached /\ NothingSkipped => HeaderAccepted
  <2> SUFFICES ASSUME Reached, NothingSkipped,
                      WellFormed(template), NoSizers, HeaderFirst(template),
                      MatchesHeader(template, fed), packets = <<>>, cur.stack # {}
               PROVE  Unfinished = fed
    BY DEF HeaderAccepted, HeaderFirst
  <2> USE DEF Reached
  <2>1. 1 \in DOMAIN template /\ template[1].isHeaderValue
    BY Fields DEF SenderTypes, WellFormed, MatchesHeader
  <2>2. /\ template[1].size = Len(template[1].value) /\ template[1].value \in Seq(Byte)
        /\ template[1].size \in Nat
    <3>1. template[1] \in FieldDescriptor
      BY <2>1, Fields DEF SenderTypes
    <3>2. template[1].size \in UInt16 /\ template[1].value \in Seq(Byte)
      BY <3>1, FieldParts
    <3>3. template[1].size = Len(template[1].value)
      BY <2>1 DEF WellFormed, HeadersAreFixed
    <3>4. UInt16 \subseteq Nat
      BY DEF UInt16
    <3> QED BY <3>2, <3>3, <3>4
  <2>3. fed \in Seq(Byte) /\ Len(fed) >= template[1].size
        /\ SubSeq(fed, 1, template[1].size) = template[1].value
    BY DEF HistoryTypes, MatchesHeader
  <2>4. \A k \in 1 .. template[1].size : fed[k] = template[1].value[k]
    <3>1. PICK n \in Nat : n = template[1].size
      BY <2>2
    <3>2. \A k \in 1 .. n : SubSeq(fed, 1, n)[k] = fed[k]
      OBVIOUS
    <3> QED BY <2>3, <3>1, <3>2
  <2>5. BeginsAs(template, fed)
    BY <2>1, <2>2, <2>3, <2>4 DEF BeginsAs
  <2>6. Open(template, cur, buffer) = fed
    BY <2>5 DEF NothingSkipped
  <2> QED BY <2>6, Written DEF Open, Unfinished
<1> QED BY <1>1, <1>2, <1>3, ReachedStates, PTL DEF BuildSpec

-----------------------------------------------------------------------------
(* What a sender has written is what the receiver is given. The dissector  *)
(* is followed through the bytes of one packet that keeps the rules; what  *)
(* it still has to read is always what the packet still has.               *)

(* The fields read are those of p.                                         *)
Follows(d, p) == \A i \in d.done : i \in DOMAIN p /\ d.value[i] = p[i]

(* The bytes of the fields of p that are on the stack.                     *)
Left(t, d, p) == [i \in DOMAIN t |-> IF i \in d.stack /\ i \in DOMAIN p THEN p[i] ELSE <<>>]
Rest(t, d, p) == FlattenSeq(Left(t, d, p))

(* The bytes held, with those ahead, are the rest of p; before a header    *)
(* there may be others.                                                    *)
Ready(t, d, bytes, ahead, p) ==
  /\ Follows(d, p)
  /\ \E lead \in Seq(Byte) :
       /\ bytes \o ahead = lead \o Rest(t, d, p)
       /\ lead # <<>> => d.stack # {} /\ Top(d) = 1 /\ Foreign(t, lead)

(* What addByte makes of the stack before it looks at a byte.              *)
Prep(t, d, bytes) ==
  SkipEmptyTop(IF d.stack = {} /\ bytes = <<>> THEN NewPacket(t) ELSE d)

(* Between two packets: at most bytes are held that begin no header.       *)
Resting(t, d, bytes) ==
  /\ Prep(t, d, bytes) = SkipEmptyTop(NewPacket(t))
  /\ bytes # <<>> => Foreign(t, bytes)

-----------------------------------------------------------------------------
(* A packet that keeps the rules, field by field.                          *)

(* A field on the stack is in the packet, and as long as the stack says,   *)
(* once nothing before it on the stack decides about it.                   *)
LEMMA NextField ==
  ASSUME NEW t \in Templates, WellFormed(t), Sizerless(t), NEW d \in Current(t),
         Consistent(t, d), NEW p \in Packet(t), Agrees(t, p), Follows(d, p),
         NEW i \in d.stack,
         \A j \in d.stack : j < i => ~Determines(t, j, i) /\ ~Removes(t, j, i)
  PROVE  i \in DOMAIN p /\ Len(p[i]) = d.size[i]
<1>1. /\ i \in DOMAIN t /\ DOMAIN t \subseteq Nat /\ d.done \subseteq DOMAIN t
      /\ d.stack \subseteq DOMAIN t
  BY CurrentParts, TemplateDomain
<1>2. DOMAIN p \subseteq DOMAIN t
  BY DEF Packet
<1>3. ASSUME NEW k \in DOMAIN p, Determines(t, k, i) \/ Removes(t, k, i)
      PROVE  k \in d.done /\ d.value[k] = p[k]
  <2>1. k \in DOMAIN t /\ k < i
    BY <1>1, <1>2, <1>3, RulesAhead
  <2>2. k \notin d.stack
    BY <1>3, <2>1
  <2>3. k \in d.done
    <3> SUFFICES ASSUME k \notin d.done PROVE FALSE
      OBVIOUS
    <3>1. PICK m \in d.done : Removes(t, m, k) /\ Zero(d.value[m])
      BY <2>1, <2>2 DEF Consistent
    <3>2. m \in DOMAIN p /\ Zero(p[m])
      BY <3>1 DEF Follows
    <3> QED BY <1>1, <2>1, <3>1, <3>2 DEF Agrees
  <2> QED BY <2>3 DEF Follows
<1>4. i \in DOMAIN p
  <2> SUFFICES ASSUME i \notin DOMAIN p PROVE FALSE
    OBVIOUS
  <2>1. PICK k \in DOMAIN p : Removes(t, k, i) /\ Zero(p[k])
    BY <1>1 DEF Agrees
  <2>2. k \in d.done /\ Zero(d.value[k])
    BY <1>3, <2>1
  <2> QED BY <1>1, <2>1, <2>2 DEF Consistent
<1>5. Announcers(t, [done |-> DOMAIN p, value |-> p], i) = Announcers(t, d, i)
  <2>1. \A k \in d.done : k \in DOMAIN p
    BY DEF Follows
  <2> QED BY <1>3, <2>1 DEF Announcers
<1>6. \A k \in Announcers(t, d, i) : d.value[k] = p[k]
  BY DEF Announcers, Follows
<1>7. Asked(t, [done |-> DOMAIN p, value |-> p], i, Len(p[i])) /\ Asked(t, d, i, d.size[i])
  BY <1>1, <1>4 DEF Agrees, Consistent, Sizerless
<1>8. CASE Announcers(t, d, i) = {}
  BY <1>4, <1>5, <1>7, <1>8 DEF Asked
<1>9. CASE Announcers(t, d, i) # {}
  <2>1. PICK k \in Announcers(t, d, i) : \A m \in Announcers(t, d, i) : m <= k
    <3>1. Announcers(t, d, i) \subseteq DOMAIN t
      BY <1>1 DEF Announcers
    <3>2. PICK n \in Nat : DOMAIN t = 1 .. n
      BY Fields
    <3> DEFINE S == {m \in Nat : n - m \in Announcers(t, d, i)}
    <3>3. S # {} /\ S \subseteq Nat
      <4>1. PICK a \in Announcers(t, d, i) : TRUE
        BY <1>9
      <4>2. n - a \in Nat /\ n - (n - a) = a
        BY <3>1, <3>2
      <4>3. n - a \in S
        BY <4>2
      <4> QED BY <4>3
    <3>4. Min(S) \in S /\ \A y \in S : Min(S) <= y
      BY <3>3, MinProperties
    <3>5. ASSUME NEW m \in Announcers(t, d, i) PROVE m <= n - Min(S)
      <4>1. m \in Nat /\ n - m \in Nat /\ n - (n - m) = m
        BY <3>1, <3>2
      <4>2. n - m \in S
        BY <4>1
      <4>3. Min(S) <= n - m /\ Min(S) \in Nat
        BY <3>4, <4>2
      <4> HIDE DEF S
      <4> QED BY <4>1, <4>3
    <3>6. n - Min(S) \in Announcers(t, d, i)
      BY <3>4
    <3> QED BY <3>5, <3>6
  <2>2. Len(p[i]) = ToUInt16(Low16(p[k]) + t[k].sizeOffset)
    BY <1>5, <1>7, <2>1 DEF Asked
  <2>3. d.size[i] = ToUInt16(Low16(d.value[k]) + t[k].sizeOffset)
    BY <1>7, <2>1 DEF Asked
  <2> QED BY <1>4, <1>6, <2>1, <2>2, <2>3
<1> QED BY <1>8, <1>9

(* Empty fields that leave the stack from the front are empty in p.        *)
Alike(t, d, e, p) == Follows(e, p) /\ Rest(t, e, p) = Rest(t, d, p)

LEMMA EmptyFollow ==
  ASSUME NEW t \in Templates, WellFormed(t), Sizerless(t), NEW d \in Current(t),
         Consistent(t, d), NEW p \in Packet(t), Agrees(t, p), Follows(d, p),
         NEW z, z \subseteq d.stack,
         \A i \in z : CertainlyZeroSized(d, i),
         \A i \in z, j \in d.stack : j < i => j \in z,
         NEW e \in Current(t),
         e.stack = d.stack \ z, e.done = d.done \cup z, e.value = d.value
  PROVE  Alike(t, d, e, p)
<1>1. PICK D \in SUBSET DOMAIN t : p \in [D -> Seq(Byte)]
  BY DEF Packet
<1>2. ASSUME NEW i \in z PROVE i \in DOMAIN p /\ p[i] = <<>> /\ d.value[i] = <<>>
  <2>1. i \in d.stack
    OBVIOUS
  <2>2. \A j \in d.stack : j < i => ~Determines(t, j, i) /\ ~Removes(t, j, i)
    BY EmptyFieldHasNoRule
  <2>3. i \in DOMAIN p /\ Len(p[i]) = d.size[i]
    BY <2>1, <2>2, NextField
  <2>4. d.size[i] = 0 /\ d.value[i] = <<>>
    BY <2>1, EmptyFieldHasNoRule DEF CertainlyZeroSized
  <2>5. p[i] \in Seq(Byte) /\ Len(p[i]) = 0
    BY <1>1, <2>3, <2>4
  <2> QED BY <2>3, <2>4, <2>5
<1>3. Follows(e, p)
  BY <1>2 DEF Follows
<1>4. Left(t, e, p) = Left(t, d, p)
  BY <1>2 DEF Left
<1> QED BY <1>3, <1>4 DEF Rest, Alike

LEMMA LeftType ==
  ASSUME NEW t \in Templates, NEW d, NEW p \in Packet(t)
  PROVE  /\ Left(t, d, p) \in [1 .. Len(t) -> Seq(Byte)] /\ Len(t) \in Nat
         /\ DOMAIN t = 1 .. Len(t) /\ Rest(t, d, p) \in Seq(Byte)
<1>1. PICK D \in SUBSET DOMAIN t : p \in [D -> Seq(Byte)]
  BY DEF Packet
<1>2. ASSUME NEW i \in DOMAIN t
      PROVE  (IF i \in d.stack /\ i \in DOMAIN p THEN p[i] ELSE <<>>) \in Seq(Byte)
  BY <1>1, EmptySeq
<1>3. Left(t, d, p) \in [DOMAIN t -> Seq(Byte)]
  BY <1>2 DEF Left
<1>4. Len(t) \in Nat /\ DOMAIN t = 1 .. Len(t)
  BY Fields
<1> QED BY <1>3, <1>4, FlattenType DEF Rest

(* The first field left is no longer left.                                 *)
Took(t, d, e, p, i) == Rest(t, d, p) = p[i] \o Rest(t, e, p)

LEMMA RestShrinks ==
  ASSUME NEW t \in Templates, NEW d, NEW e, NEW p \in Packet(t),
         NEW i \in DOMAIN t, i \in d.stack, i \in DOMAIN p,
         \A j \in DOMAIN t : j <= i => j \notin e.stack,
         \A j \in DOMAIN t : j < i => j \notin d.stack,
         \A j \in DOMAIN t : j > i /\ j \in DOMAIN p => (j \in d.stack <=> j \in e.stack)
  PROVE  Took(t, d, e, p, i)
<1>1. PICK n \in Nat : n = Len(t) /\ DOMAIN t = 1 .. n
  BY Fields
<1>2. PICK P \in [1 .. n -> Seq(Byte)] : P = Left(t, d, p)
  BY <1>1, LeftType
<1>3. PICK Q \in [1 .. n -> Seq(Byte)] : Q = Left(t, e, p)
  BY <1>1, LeftType
<1>4. PICK k \in 1 .. n : k = i
  BY <1>1
<1>5. P[k] = p[i]
  BY <1>2, <1>4 DEF Left
<1>6. \A j \in 1 .. n : j < k => P[j] = <<>> /\ Q[j] = <<>>
  BY <1>1, <1>2, <1>3, <1>4 DEF Left
<1>7. Q[k] = <<>>
  BY <1>1, <1>3, <1>4 DEF Left
<1>8. \A j \in 1 .. n : j > k => P[j] = Q[j]
  BY <1>1, <1>2, <1>3, <1>4 DEF Left
<1>9. Splits(P, k, Q)
  BY <1>6, <1>7, <1>8, FlattenTakesFirst
<1> QED BY <1>2, <1>3, <1>5, <1>9 DEF Rest, Splits, Took

(* Reading the field on top of the stack takes its bytes off what is left, *)
(* and what the rules and the empty fields do to the stack takes nothing.  *)
After(t, d, bytes) ==
  DrainEmpty(ApplyExistenceRule(t, ApplySizeRule(t, Push(d, bytes), Top(d)), Top(d)))

Followed(t, d, p, i, w) ==
  /\ i \in DOMAIN p /\ Len(p[i]) = d.size[i] /\ p[i] \in Seq(Byte)
  /\ t[i].isHeaderValue => p[i] = t[i].value
  /\ Follows(w, p)
  /\ Rest(t, d, p) = p[i] \o Rest(t, w, p)
  /\ w.stack \subseteq d.stack \ {i}

LEMMA FieldFollowed ==
  ASSUME NEW t \in Templates, WellFormed(t), Sizerless(t), NEW d \in Current(t),
         Consistent(t, d), d.stack # {}, NEW p \in Packet(t), Agrees(t, p), Follows(d, p)
  PROVE  Followed(t, d, p, Top(d), After(t, d, p[Top(d)]))
<1> DEFINE i == Top(d)
           s == ApplySizeRule(t, Push(d, p[i]), i)
           e == ApplyExistenceRule(t, s, i)
           w == DrainEmpty(e)
<1>1. /\ i \in d.stack /\ i \in DOMAIN t /\ \A j \in d.stack : i <= j
      /\ d.stack \subseteq DOMAIN t /\ DOMAIN t \subseteq Nat
  BY TopProperties, CurrentParts, TemplateDomain
<1>2. i \in DOMAIN p /\ Len(p[i]) = d.size[i]
  <2>1. \A j \in d.stack : ~(j < i)
    BY <1>1
  <2> QED BY <1>1, <2>1, NextField
<1>3. PICK D \in SUBSET DOMAIN t : p \in [D -> Seq(Byte)]
  BY DEF Packet
<1>4. p[i] \in Seq(Byte) /\ (t[i].isHeaderValue => t[i].value = p[i])
  BY <1>2, <1>3 DEF Agrees
<1>5. /\ ~ExistenceRuleThrows(t, s, i) /\ s \in Current(t)
      /\ s.stack = d.stack \ {i} /\ s.done = d.done \cup {i}
      /\ s.value = [d.value EXCEPT ![i] = p[i]] /\ SizeBytes(t, s, i) = p[i]
  <2>1. /\ ~ExistenceRuleThrows(t, s, i) /\ s \in Current(t)
        /\ s.stack = Push(d, p[i]).stack /\ s.done = Push(d, p[i]).done
        /\ s.value = Push(d, p[i]).value /\ SizeBytes(t, s, i) = p[i]
    BY <1>2, <1>4, RulesApply
  <2> QED BY <2>1 DEF Push, Parts
<1>6. /\ e \in Current(t) /\ Consistent(t, e)
  BY <1>2, <1>4, FieldConsistent
<1>7. /\ e.stack = s.stack \ {y \in DOMAIN t : Removes(t, i, y) /\ Zero(p[i])}
      /\ e.done = s.done /\ e.value = s.value
  <2>1. \A j \in DOMAIN t : Removes(t, i, j) => Len(p[i]) \in {1, 2, 4}
    <3> SUFFICES ASSUME NEW j \in DOMAIN t, Removes(t, i, j) PROVE Len(p[i]) \in {1, 2, 4}
      OBVIOUS
    <3>1. /\ t[i].sizer = NoSizer /\ \A k \in DOMAIN t : ~Determines(t, k, i)
          /\ t[i].size \in {1, 2, 4}
      BY <1>1, RulesNumbers
    <3>2. d.size[i] = t[i].size
      BY <1>1, <3>1, SizeOfUnannounced
    <3> QED BY <1>2, <3>1, <3>2
  <2> HIDE DEF s
  <2> QED BY <1>1, <1>4, <1>5, <2>1, ExistenceApplies
<1> HIDE DEF s
<1>8. \A y \in d.stack : y \notin e.stack /\ y # i => y \notin DOMAIN p
  BY <1>1, <1>2, <1>5, <1>7 DEF Agrees
<1>9. d.value \in [DOMAIN t -> Seq(Byte)] /\ i \notin e.stack /\ e.stack \subseteq d.stack
  BY <1>5, <1>7, CurrentParts
<1>10. Follows(e, p)
  BY <1>1, <1>2, <1>5, <1>7, <1>9 DEF Follows
<1> HIDE DEF e
<1>11. Took(t, d, e, p, i)
  <2> HIDE DEF i
  <2>1. \A j \in DOMAIN t : j <= i => j \notin e.stack
    BY <1>1, <1>9
  <2>2. \A j \in DOMAIN t : j < i => j \notin d.stack
    BY <1>1
  <2>3. \A j \in DOMAIN t : j > i /\ j \in DOMAIN p => (j \in d.stack <=> j \in e.stack)
    BY <1>1, <1>8, <1>9
  <2> QED BY <1>1, <1>2, <2>1, <2>2, <2>3, RestShrinks
<1>12. Follows(w, p) /\ Rest(t, w, p) = Rest(t, e, p) /\ w.stack \subseteq e.stack
  <2> DEFINE z == {j \in e.stack : \A k \in e.stack : k <= j => CertainlyZeroSized(e, k)}
  <2>1. e.stack \subseteq Nat
    BY <1>1, <1>9
  <2>2. /\ w \in Current(t) /\ w.stack = e.stack \ z /\ w.done = e.done \cup z
        /\ w.value = e.value
    BY <1>6, DrainEmptyType DEF DrainEmpty, Parts
  <2>3. /\ z \subseteq e.stack /\ \A j \in z : CertainlyZeroSized(e, j)
        /\ \A j \in z, k \in e.stack : k < j => k \in z
    BY <2>1
  <2> HIDE DEF z, w
  <2>4. Alike(t, e, w, p)
    BY <1>6, <1>10, <2>2, <2>3, EmptyFollow
  <2> QED BY <2>2, <2>4 DEF Alike
<1> HIDE DEF w
<1>13. Rest(t, d, p) = p[i] \o Rest(t, w, p) /\ w.stack \subseteq d.stack \ {i}
  BY <1>9, <1>11, <1>12 DEF Took
<1>14. Followed(t, d, p, i, w)
  BY <1>2, <1>4, <1>12, <1>13 DEF Followed
<1> QED BY <1>14 DEF w, e, s, After

-----------------------------------------------------------------------------
(* Bytes held and bytes ahead.                                             *)

(* The first byte ahead is held.                                           *)
LEMMA ByteArrives ==
  ASSUME NEW u \in Seq(Byte), NEW s \in Seq(Byte), s # <<>>
  PROVE  /\ Append(u, Head(s)) \o Tail(s) = u \o s
         /\ Append(u, Head(s)) \in Seq(Byte) /\ Tail(s) \in Seq(Byte) /\ Head(s) \in Byte
<1>1. Head(s) \in Byte /\ Tail(s) \in Seq(Byte) /\ s = << Head(s) >> \o Tail(s)
  BY HeadTailProperties
<1>2. PICK h \in Byte, r \in Seq(Byte) : h = Head(s) /\ r = Tail(s)
  BY <1>1
<1>3. << h >> \in Seq(Byte) /\ Append(u, h) = u \o << h >> /\ Append(u, h) \in Seq(Byte)
  BY AppendIsConcat, AppendProperties
<1>4. (u \o << h >>) \o r = u \o (<< h >> \o r)
  BY <1>3, ConcatAssociative
<1> QED BY <1>1, <1>2, <1>3, <1>4

(* The first byte held goes.                                               *)
LEMMA ByteLeaves ==
  ASSUME NEW u \in Seq(Byte), NEW s \in Seq(Byte), u # <<>>
  PROVE  Tail(u) \o s = Tail(u \o s) /\ Tail(u) \in Seq(Byte)
<1>1. Len(u) \in Nat /\ Len(u) > 0 /\ Len(s) \in Nat
  BY LenProperties, EmptySeq
<1>2. /\ u \o s \in Seq(Byte) /\ Len(u \o s) = Len(u) + Len(s)
      /\ \A k \in 1 .. Len(u) + Len(s) :
           (u \o s)[k] = IF k <= Len(u) THEN u[k] ELSE s[k - Len(u)]
  BY ConcatProperties
<1>3. /\ Tail(u) \in Seq(Byte) /\ Len(Tail(u)) = Len(u) - 1
      /\ \A k \in 1 .. Len(u) - 1 : Tail(u)[k] = u[k + 1]
  BY HeadTailProperties
<1>4. PICK x \in Seq(Byte) : x = Tail(u)
  BY <1>3
<1>5. PICK y \in Seq(Byte) : y = u \o s
  BY <1>2
<1>6. /\ Tail(y) \in Seq(Byte) /\ Len(Tail(y)) = Len(y) - 1
      /\ \A k \in 1 .. Len(y) - 1 : Tail(y)[k] = y[k + 1]
  <2>1. y # <<>>
    BY <1>1, <1>2, <1>5
  <2> QED BY <2>1, HeadTailProperties
<1>7. /\ x \o s \in Seq(Byte) /\ Len(x \o s) = Len(x) + Len(s)
      /\ \A k \in 1 .. Len(x) + Len(s) :
           (x \o s)[k] = IF k <= Len(x) THEN x[k] ELSE s[k - Len(x)]
  BY ConcatProperties
<1>8. Len(x \o s) = Len(Tail(y))
  BY <1>1, <1>2, <1>3, <1>4, <1>5, <1>6, <1>7
<1>9. \A k \in 1 .. Len(x \o s) : (x \o s)[k] = Tail(y)[k]
  BY <1>1, <1>2, <1>3, <1>4, <1>5, <1>6, <1>7
<1>10. x \o s = Tail(y)
  BY <1>6, <1>7, <1>8, <1>9, SeqEqual
<1> QED BY <1>3, <1>4, <1>5, <1>10

(* Equal bytes, cut at the same place.                                     *)
LEMMA SameCut ==
  ASSUME NEW a \in Seq(Byte), NEW b \in Seq(Byte), NEW c \in Seq(Byte), NEW d \in Seq(Byte),
         a \o b = c \o d, Len(a) = Len(c)
  PROVE  a = c /\ b = d
<1>1. PICK n \in Nat : n = Len(a) /\ n = Len(c)
  BY LenProperties
<1>2. Len(a \o b) = n + Len(b) /\ Len(c \o d) = n + Len(d) /\ Len(b) \in Nat /\ Len(d) \in Nat
  BY <1>1, ConcatProperties, LenProperties
<1>3. Len(b) = Len(d)
  BY <1>2
<1>4. \A k \in 1 .. n : a[k] = c[k]
  <2> TAKE k \in 1 .. n
  <2>1. (a \o b)[k] = a[k] /\ (c \o d)[k] = c[k]
    BY <1>1
  <2> QED BY <2>1
<1>5. \A k \in 1 .. Len(b) : b[k] = d[k]
  <2> TAKE k \in 1 .. Len(b)
  <2>1. (a \o b)[n + k] = b[k] /\ (c \o d)[n + k] = d[k]
    BY <1>1, <1>2, <1>3
  <2> QED BY <2>1
<1> QED BY <1>1, <1>3, <1>4, <1>5, SeqEqual

(* A header found in bytes that may not hold one is the first thing there. *)
LEMMA NoEarlyHeader ==
  ASSUME NEW h \in Seq(Byte), h # <<>>, NEW lead \in Seq(Byte), lead # <<>>,
         NEW x \in Seq(Byte), NEW y \in Seq(Byte), h \o x = lead \o (h \o y),
         \A k \in 1 .. Len(lead) : lead[k] # h[Len(h)],
         \A k \in 1 .. Len(h) - 1 : h[k] # h[Len(h)]
  PROVE  FALSE
<1>1. PICK n \in Nat : n = Len(h) /\ n > 0
  BY LenProperties, EmptySeq
<1>2. PICK m \in Nat : m = Len(lead) /\ m > 0
  BY LenProperties, EmptySeq
<1>3. PICK z \in Seq(Byte) : z = h \o y
  BY ConcatProperties
<1>4. /\ Len(z) = n + Len(y) /\ Len(y) \in Nat /\ Len(x) \in Nat
      /\ \A k \in 1 .. n : z[k] = h[k]
  BY <1>1, <1>3, ConcatProperties, LenProperties
<1>5. (h \o x)[n] = h[n]
  <2>1. \A k \in 1 .. n + Len(x) : (h \o x)[k] = IF k <= n THEN h[k] ELSE x[k - n]
    BY <1>1, ConcatProperties
  <2> QED BY <1>1, <1>4, <2>1
<1>6. (lead \o z)[n] = IF n <= m THEN lead[n] ELSE z[n - m]
  <2>1. \A k \in 1 .. m + Len(z) : (lead \o z)[k] = IF k <= m THEN lead[k] ELSE z[k - m]
    BY <1>2, ConcatProperties
  <2> QED BY <1>1, <1>2, <1>4, <2>1
<1>7. CASE n <= m
  BY <1>1, <1>2, <1>3, <1>5, <1>6, <1>7
<1>8. CASE ~(n <= m)
  <2>1. n - m \in 1 .. n /\ n - m \in 1 .. Len(h) - 1
    BY <1>1, <1>2, <1>8
  <2>2. (lead \o z)[n] = h[n - m]
    BY <1>4, <1>6, <1>8, <2>1
  <2> QED BY <1>1, <1>3, <1>5, <2>1, <2>2
<1> QED BY <1>7, <1>8

-----------------------------------------------------------------------------
(* The dissector on its way through the bytes of a packet.                 *)

(* Passing over an empty field changes nothing.                            *)
LEMMA SkipReady ==
  ASSUME NEW t \in Templates, WellFormed(t), Sizerless(t), NEW d \in Current(t),
         Consistent(t, d), NEW p \in Packet(t), Agrees(t, p),
         NEW bytes, NEW ahead, Ready(t, d, bytes, ahead, p)
  PROVE  Ready(t, SkipEmptyTop(d), bytes, ahead, p)
<1> SUFFICES ASSUME d.stack # {}, CertainlyZeroSized(d, Top(d))
             PROVE  Ready(t, SkipEmptyTop(d), bytes, ahead, p)
  BY DEF SkipEmptyTop
<1> DEFINE i == Top(d)
           e == SkipEmptyTop(d)
<1>1. i \in d.stack /\ i \in DOMAIN t /\ \A j \in d.stack : i <= j
  BY TopProperties
<1>2. d.value[i] = <<>> /\ ~t[i].isHeaderValue
  BY <1>1, EmptyFieldHasNoRule
<1>3. /\ e \in Current(t) /\ e.stack = d.stack \ {i} /\ e.done = d.done \cup {i}
      /\ e.value = [d.value EXCEPT ![i] = <<>>]
  BY SkipEmptyTopType DEF SkipEmptyTop, Push, Parts
<1>4. e.value = d.value
  <2>1. d.value \in [DOMAIN t -> Seq(Byte)]
    BY CurrentParts
  <2> HIDE DEF e, i
  <2> QED BY <1>1, <1>2, <1>3, <2>1
<1>5. Follows(d, p)
  BY DEF Ready
<1>6. Follows(e, p) /\ Rest(t, e, p) = Rest(t, d, p)
  <2> DEFINE z == {i}
  <2>1. z \subseteq d.stack /\ \A j \in z : CertainlyZeroSized(d, j)
    BY <1>1
  <2>2. \A k \in z, j \in d.stack : j < k => j \in z
    <3>1. d.stack \subseteq Nat
      BY CurrentParts, TemplateDomain
    <3> QED BY <1>1, <3>1
  <2> HIDE DEF z, e
  <2>3. e.stack = d.stack \ z /\ e.done = d.done \cup z
    BY <1>3 DEF z
  <2>4. Alike(t, d, e, p)
    BY <1>3, <1>4, <1>5, <2>1, <2>2, <2>3, EmptyFollow
  <2> QED BY <2>4 DEF Alike
<1>7. PICK lead \in Seq(Byte) :
        /\ bytes \o ahead = lead \o Rest(t, d, p)
        /\ lead # <<>> => d.stack # {} /\ Top(d) = 1 /\ Foreign(t, lead)
  BY DEF Ready
<1>8. lead = <<>>
  BY <1>2, <1>7 DEF Foreign
<1> HIDE DEF e
<1> QED BY <1>6, <1>7, <1>8 DEF Ready, e

(* All of a packet is ahead of a dissector that rests.                     *)
LEMMA RestingReady ==
  ASSUME NEW t \in Templates, WellFormed(t), Sizerless(t), NEW d, NEW bytes \in Seq(Byte),
         Resting(t, d, bytes), NEW p \in Packet(t), Agrees(t, p)
  PROVE  Ready(t, Prep(t, d, bytes), bytes, Wire(t, p), p)
<1> DEFINE n == NewPacket(t)
<1>1. n \in Current(t) /\ Consistent(t, n)
  BY NewPacketType, NewPacketConsistent
<1>2. n.stack = DOMAIN t /\ n.done = {}
  BY DEF NewPacket, Parts
<1>3. Follows(n, p)
  BY <1>2 DEF Follows
<1>4. Rest(t, n, p) = Wire(t, p)
  <2>1. Left(t, n, p) = Filled(t, p)
    BY <1>2 DEF Left, Filled
  <2> QED BY <2>1 DEF Rest, Wire
<1>5. bytes # <<>> => n.stack # {} /\ Top(n) = 1 /\ Foreign(t, bytes)
  <2>1. PICK N \in Nat : DOMAIN t = 1 .. N
    BY Fields
  <2>2. 1 \in DOMAIN t
    <3>1. t # <<>> /\ N = Len(t) /\ t \in Seq(FieldDescriptor)
      BY <2>1, TemplateAssumption, LenProperties DEF WellFormed
    <3>2. N # 0
      BY <3>1, EmptySeq
    <3> QED BY <2>1, <3>2
  <2>3. Top(n) \in DOMAIN t /\ Top(n) <= 1
    BY <1>1, <1>2, <2>2, TopProperties
  <2>4. Top(n) = 1
    BY <2>1, <2>3
  <2> QED BY <1>2, <2>2, <2>4 DEF Resting
<1>6. Ready(t, n, bytes, Wire(t, p), p)
  BY <1>3, <1>4, <1>5 DEF Ready
<1>7. Prep(t, d, bytes) = SkipEmptyTop(n)
  BY DEF Resting
<1> HIDE DEF n
<1> QED BY <1>1, <1>6, <1>7, SkipReady

(* A dissector that waits for bytes has some of the packet ahead.          *)
LEMMA SomeAhead ==
  ASSUME NEW t \in Templates, WellFormed(t), Sizerless(t), NEW d \in Current(t),
         Consistent(t, d), NEW p \in Packet(t), Agrees(t, p), d.stack # {},
         NEW bytes \in Seq(Byte), Len(bytes) < d.size[Top(d)],
         NEW ahead, Ready(t, d, bytes, ahead, p)
  PROVE  ahead # <<>>
<1> SUFFICES ASSUME ahead = <<>> PROVE FALSE
  OBVIOUS
<1> DEFINE i == Top(d)
<1>1. Follows(d, p)
  BY DEF Ready
<1>2. PICK r \in Seq(Byte) : /\ p[i] \in Seq(Byte) /\ Len(p[i]) = d.size[i]
                             /\ Rest(t, d, p) = p[i] \o r
  <2> DEFINE w == After(t, d, p[i])
  <2>0. Followed(t, d, p, i, w)
    BY <1>1, FieldFollowed
  <2>1. /\ p[i] \in Seq(Byte) /\ Len(p[i]) = d.size[i]
        /\ Rest(t, d, p) = p[i] \o Rest(t, w, p)
    BY <2>0 DEF Followed
  <2> HIDE DEF w, i
  <2>2. Rest(t, w, p) \in Seq(Byte)
    BY LeftType
  <2> QED BY <2>1, <2>2
<1>3. PICK lead \in Seq(Byte) : bytes \o ahead = lead \o Rest(t, d, p)
  BY DEF Ready
<1> HIDE DEF i
<1>4. PICK f \in Seq(Byte) : f = p[i]
  BY <1>2
<1>5. PICK z \in Seq(Byte) : z = f \o r
  BY ConcatProperties
<1>6. bytes = lead \o z
  BY <1>2, <1>3, <1>4, <1>5, ConcatEmptySeq
<1>7. Len(bytes) = Len(lead) + (Len(f) + Len(r))
  <2>1. Len(lead \o z) = Len(lead) + Len(z) /\ Len(z) = Len(f) + Len(r)
    BY <1>5, ConcatProperties
  <2> QED BY <1>6, <2>1
<1>8. Len(bytes) < Len(f)
  BY <1>2, <1>4 DEF i
<1> QED BY <1>7, <1>8, LenProperties

(* One call of addByte with the byte that is next.                         *)
Advanced(ahead, p) ==
  /\ result' \in {"none", "packet"}
  /\ result' = "none" =>
       /\ cur'.stack # {}
       /\ Ready(template, Prep(template, cur', buffer'), buffer', Tail(ahead), p)
  /\ result' = "packet" =>
       /\ Tail(ahead) = <<>> /\ CurrentPacket = p
       /\ Resting(template, cur', buffer')

(* What is known of the dissector between two calls.                       *)
Known ==
  /\ RulesInv /\ NothingLeft
  /\ Sizerless(template) => BufferInv

LEMMA PreparedIs == Prepared = Prep(template, cur, buffer)
BY DEF Prepared, Prep

LEMMA PreparedKnown ==
  ASSUME Known, WellFormed(template), Sizerless(template)
  PROVE  /\ TypeOK /\ template \in Templates /\ buffer \in Seq(Byte)
         /\ Consistent(template, cur) /\ cur \in Current(template)
         /\ Prepared \in Current(template) /\ Consistent(template, Prepared)
         /\ Prepared.stack # {} /\ Len(buffer) < Prepared.size[Top(Prepared)]
         /\ Prepared.unsized = {}
<1>1. /\ TypeOK /\ template \in Templates /\ buffer \in Seq(Byte)
      /\ Consistent(template, cur) /\ cur \in Current(template)
      /\ Waiting(template, cur, buffer)
  BY DEF Known, RulesInv, TypeOK, BufferInv
<1>2. Prepared \in Current(template) /\ Consistent(template, Prepared)
  BY <1>1, PreparedType, PreparedConsistent
<1>3. Prepared.unsized = {}
  BY <1>1, <1>2, NoCallbacks DEF Sizerless, NoSizers
<1> QED BY <1>1, <1>2, <1>3, PreparedTakes

(* A packet read to its end.                                               *)
LEMMA AllRead ==
  ASSUME NEW t \in Templates, NEW d \in Current(t), Consistent(t, d), d.stack = {},
         NEW p \in Packet(t), Agrees(t, p), Follows(d, p)
  PROVE  [i \in d.done |-> d.value[i]] = p /\ Rest(t, d, p) = <<>>
<1>1. d.done \subseteq DOMAIN t /\ d.done \subseteq DOMAIN p
  BY CurrentParts DEF Follows
<1>2. PICK D \in SUBSET DOMAIN t : p \in [D -> Seq(Byte)]
  BY DEF Packet
<1>3. DOMAIN p \subseteq d.done
  <2> SUFFICES ASSUME NEW i \in DOMAIN p, i \notin d.done PROVE FALSE
    OBVIOUS
  <2>1. PICK k \in d.done : Removes(t, k, i) /\ Zero(d.value[k])
    BY <1>2 DEF Consistent
  <2>2. k \in DOMAIN p /\ Zero(p[k])
    BY <2>1 DEF Follows
  <2> QED BY <1>2, <2>1, <2>2 DEF Agrees
<1>4. D = d.done /\ \A i \in D : d.value[i] = p[i]
  BY <1>1, <1>2, <1>3 DEF Follows
<1>5. [i \in d.done |-> d.value[i]] = p
  BY <1>2, <1>4
<1>6. Left(t, d, p) = [k \in 1 .. Len(t) |-> <<>>] /\ Len(t) \in Nat
  BY Fields DEF Left
<1>7. Rest(t, d, p) = <<>>
  BY <1>6, FlattenEmpty DEF Rest
<1> QED BY <1>5, <1>7

LEMMA StepReady ==
  ASSUME Known, Known', template' = template, WellFormed(template), Sizerless(template),
         NEW p \in Packet(template), Agrees(template, p),
         NEW ahead \in Seq(Byte), ahead # <<>>, AddByte(Head(ahead)),
         Ready(template, Prepared, buffer, ahead, p)
  PROVE  Advanced(ahead, p)
<1> DEFINE t == template
           b == Head(ahead)
           d == Prepared
           held == Append(buffer, b)
           rest == Tail(ahead)
           i == Top(d)
<1>1. /\ TypeOK /\ t \in Templates /\ buffer \in Seq(Byte) /\ d \in Current(t)
      /\ Consistent(t, d) /\ d.stack # {} /\ Len(buffer) < d.size[i] /\ d.unsized = {}
  BY PreparedKnown
<1>2. /\ held \o rest = buffer \o ahead /\ held \in Seq(Byte) /\ rest \in Seq(Byte)
      /\ b \in Byte
  BY <1>1, ByteArrives
<1>3. Resolved(b) = d /\ Held(b) = held
  BY <1>1, NoCallbacks DEF Sizerless, NoSizers
<1>4. Follows(d, p) /\ Followed(t, d, p, i, After(t, d, p[i]))
  <2>1. Follows(d, p)
    BY DEF Ready
  <2> QED BY <1>1, <2>1, FieldFollowed
<1>5. PICK lead \in Seq(Byte) :
        /\ held \o rest = lead \o Rest(t, d, p)
        /\ lead # <<>> => d.stack # {} /\ Top(d) = 1 /\ Foreign(t, lead)
  BY <1>2 DEF Ready
<1>6. result' # "threw" /\ cur' \in Current(t) /\ Consistent(t, cur') /\ buffer' \in Seq(Byte)
  <2>1. (WellFormed(template) /\ Sizerless(template))'
    BY DEF WellFormed, Sizerless, Determines, Removes, RulesPointAhead, RulesAreNumbers, HeadersAreFixed
  <2> QED BY <2>1 DEF Known, RulesInv, TypeOK
<1>7. ASSUME result' = "none", cur'.stack # {}, Ready(t, cur', buffer', rest, p)
      PROVE  Advanced(ahead, p)
  <2>1. Prep(t, cur', buffer') = SkipEmptyTop(cur')
    BY <1>7 DEF Prep
  <2>2. Ready(t, SkipEmptyTop(cur'), buffer', rest, p)
    BY <1>1, <1>6, <1>7, SkipReady
  <2> QED BY <1>7, <2>1, <2>2 DEF Advanced
<1>8. ~AwaitSize(b)
  BY <1>1 DEF AwaitSize
<1>9. CASE AwaitBytes(b)
  <2>1. cur' = d /\ buffer' = held /\ result' = "none"
    BY <1>3, <1>9 DEF AwaitBytes, Return
  <2>2. Ready(t, d, held, rest, p)
    BY <1>4, <1>5 DEF Ready
  <2> QED BY <1>1, <1>7, <2>1, <2>2
<1>10. ~(SizeRuleFails(b) \/ ExistenceRuleFails(b))
  BY <1>6 DEF SizeRuleFails, ExistenceRuleFails, Return
<1>11. PICK r \in Seq(Byte), f \in Seq(Byte) :
         /\ r = Rest(t, After(t, d, p[i]), p) /\ f = p[i] /\ Len(f) = d.size[i]
         /\ Rest(t, d, p) = f \o r
  BY <1>1, <1>4, LeftType DEF Followed
<1>12. ASSUME lead = <<>>, Len(held) = d.size[i] PROVE held = f /\ rest = r
  <2>1. held \o rest = f \o r
    <3>1. f \o r \in Seq(Byte)
      BY ConcatProperties
    <3> QED BY <1>5, <1>11, <1>12, <3>1, ConcatEmptySeq
  <2>2. Len(held) = Len(f)
    BY <1>11, <1>12
  <2> HIDE DEF held, rest
  <2> QED BY <1>2, <2>1, <2>2, SameCut
<1>13. CASE ResyncHeader(b)
  <2>1. /\ cur' = d /\ buffer' = Tail(held) /\ result' = "none"
        /\ held # <<>> /\ Len(held) = d.size[i]
        /\ t[i].isHeaderValue /\ t[i].value # held
    BY <1>3, <1>13 DEF ResyncHeader, Return, Need, MatchesTop
  <2>2. lead # <<>>
    <3>1. f = t[i].value
      BY <1>4, <1>11, <2>1 DEF Followed
    <3> QED BY <1>12, <2>1, <3>1
  <2>3. PICK z \in Seq(Byte) : z = Rest(t, d, p)
    BY <1>1, LeftType
  <2>4. PICK g \in Seq(Byte), x \in Seq(Byte) : g = held /\ x = rest
    BY <1>2
  <2>5. /\ Tail(g) \o x = Tail(g \o x) /\ Tail(g) \in Seq(Byte)
        /\ Tail(lead) \o z = Tail(lead \o z) /\ Tail(lead) \in Seq(Byte)
    <3>1. g # <<>>
      BY <2>1, <2>4
    <3> QED BY <2>2, <3>1, ByteLeaves
  <2>6. Tail(held) \o rest = Tail(lead) \o Rest(t, d, p)
    BY <1>5, <2>3, <2>4, <2>5
  <2>7. Foreign(t, Tail(lead)) /\ Top(d) = 1
    <3>1. Foreign(t, lead) /\ Top(d) = 1
      BY <1>5, <2>2
    <3>2. \A k \in 1 .. Len(Tail(lead)) : k + 1 \in 1 .. Len(lead) /\ Tail(lead)[k] = lead[k + 1]
      BY <2>2
    <3> QED BY <3>1, <3>2 DEF Foreign
  <2>8. Ready(t, d, Tail(held), rest, p)
    BY <1>1, <1>4, <2>5, <2>6, <2>7 DEF Ready
  <2> QED BY <1>1, <1>7, <2>1, <2>8
<1>14. CASE CompleteField(b)
  <2>1. /\ cur' = After(t, d, held) /\ buffer' = <<>> /\ Len(held) = d.size[i]
        /\ result' = IF cur'.stack = {} THEN "packet" ELSE "none"
        /\ t[i].isHeaderValue => t[i].value = held
    BY <1>3, <1>14 DEF CompleteField, Return, FieldRead, Need, MatchesTop, AfterSizes, Pushed,
                       After
  <2>2. lead = <<>>
    <3> SUFFICES ASSUME lead # <<>> PROVE FALSE
      OBVIOUS
    <3>1. i = 1 /\ Foreign(t, lead)
      BY <1>5
    <3>2. held = t[1].value /\ f = held /\ t[1].isHeaderValue
      BY <1>4, <1>11, <2>1, <3>1 DEF Followed, Foreign
    <3>0. held # <<>>
      BY <1>1, <1>2, OneMore
    <3> HIDE DEF held, rest
    <3>3. PICK h \in Seq(Byte), x \in Seq(Byte) : h = held /\ x = rest /\ h # <<>>
      BY <1>2, <3>0
    <3>4. h \o x = lead \o (h \o r)
      BY <1>5, <1>11, <3>2, <3>3
    <3>5. /\ \A k \in 1 .. Len(lead) : lead[k] # h[Len(h)]
          /\ \A k \in 1 .. Len(h) - 1 : h[k] # h[Len(h)]
      BY <3>1, <3>2, <3>3 DEF Foreign
    <3> QED BY <3>3, <3>4, <3>5, NoEarlyHeader
  <2>3. held = f /\ rest = r
    BY <1>12, <2>1, <2>2
  <2>4. cur' = After(t, d, p[i])
    BY <1>11, <2>1, <2>3
  <2>5. Follows(cur', p) /\ rest = Rest(t, cur', p)
    BY <1>4, <1>11, <2>3, <2>4 DEF Followed
  <2>6. CASE cur'.stack # {}
    <3>1. Ready(t, cur', <<>>, rest, p)
      BY <2>5, EmptySeq DEF Ready
    <3> QED BY <1>7, <2>1, <2>6, <3>1
  <2>7. CASE cur'.stack = {}
    <3>1. /\ [k \in cur'.done |-> cur'.value[k]] = p
          /\ Rest(t, cur', p) = <<>>
      BY <1>1, <1>6, <2>5, <2>7, AllRead
    <3>2. CurrentPacket = p
      BY <3>1 DEF CurrentPacket
    <3>3. Resting(t, cur', buffer')
      BY <2>1, <2>7 DEF Resting, Prep
    <3>4. result' = "packet"
      BY <2>1, <2>7
    <3> QED BY <2>5, <3>1, <3>2, <3>3, <3>4 DEF Advanced
  <2> QED BY <2>6, <2>7
<1> QED BY <1>8, <1>9, <1>10, <1>13, <1>14 DEF AddByte

(* One call of addByte with a byte that belongs to no packet.              *)
LEMMA NoiseLeavesResting ==
  ASSUME Known, Known', template' = template, WellFormed(template), Sizerless(template),
         Resting(template, cur, buffer), NEW b \in Byte, Foreign(template, << b >>), AddByte(b)
  PROVE  result' = "none" /\ Resting(template, cur', buffer')
<1> DEFINE t == template
           d == Prepared
           n == NewPacket(t)
           held == Append(buffer, b)
           h == t[1].value
<1>1. /\ TypeOK /\ t \in Templates /\ buffer \in Seq(Byte) /\ d \in Current(t)
      /\ Consistent(t, d) /\ d.stack # {} /\ Len(buffer) < d.size[Top(d)] /\ d.unsized = {}
  BY PreparedKnown
<1>2. held \in Seq(Byte) /\ held # <<>> /\ Len(held) = Len(buffer) + 1 /\ Len(buffer) \in Nat
  BY <1>1, OneMore
<1>3. Resolved(b) = d /\ Held(b) = held
  BY <1>1, NoCallbacks DEF Sizerless, NoSizers
<1>4. /\ t[1].isHeaderValue /\ << b >>[1] # h[Len(h)] /\ b # h[Len(h)]
      /\ \A k \in 1 .. Len(h) - 1 : h[k] # h[Len(h)]
  BY DEF Foreign
<1>5. Foreign(t, held)
  <2>1. \A k \in 1 .. Len(held) : held[k] = IF k <= Len(buffer) THEN buffer[k] ELSE b
    BY <1>1, <1>2
  <2>2. ASSUME NEW k \in 1 .. Len(held) PROVE held[k] # h[Len(h)]
    <3>1. CASE k <= Len(buffer)
      <4>1. buffer # <<>> /\ k \in 1 .. Len(buffer)
        BY <1>1, <1>2, <3>1
      <4>2. Foreign(t, buffer)
        BY <4>1 DEF Resting
      <4> QED BY <2>1, <3>1, <4>1, <4>2 DEF Foreign
    <3>2. CASE ~(k <= Len(buffer))
      BY <1>4, <2>1, <3>2
    <3> QED BY <3>1, <3>2
  <2> HIDE DEF held, h
  <2> QED BY <1>4, <2>2 DEF Foreign, h
<1>6. /\ 1 \in DOMAIN t /\ n.stack = DOMAIN t /\ n \in Current(t) /\ Consistent(t, n)
      /\ Top(n) = 1 /\ ~CertainlyZeroSized(n, 1)
  <2>1. PICK N \in Nat : DOMAIN t = 1 .. N
    BY <1>1, Fields
  <2>2. 1 \in DOMAIN t
    <3>1. t # <<>> /\ N = Len(t) /\ t \in Seq(FieldDescriptor)
      BY <1>1, <2>1, TemplateAssumption, LenProperties DEF WellFormed
    <3>2. N # 0
      BY <3>1, EmptySeq
    <3> QED BY <2>1, <3>2
  <2>3. n \in Current(t) /\ Consistent(t, n) /\ n.stack = DOMAIN t
    BY <1>1, NewPacketType, NewPacketConsistent DEF NewPacket, Parts
  <2>4. Top(n) \in DOMAIN t /\ Top(n) <= 1
    BY <1>1, <2>2, <2>3, TopProperties
  <2>5. Top(n) = 1
    BY <2>1, <2>4
  <2>6. ~CertainlyZeroSized(n, 1)
    BY <1>1, <1>4, <2>2, <2>3, EmptyFieldHasNoRule
  <2> QED BY <2>2, <2>3, <2>5, <2>6
<1>7. d = n /\ SkipEmptyTop(n) = n
  <2>1. SkipEmptyTop(n) = n
    BY <1>6 DEF SkipEmptyTop
  <2> QED BY <2>1, PreparedIs DEF Resting
<1> HIDE DEF n, held, d
<1>8. ASSUME cur' = n, result' = "none", Foreign(t, buffer')
      PROVE  result' = "none" /\ Resting(template, cur', buffer')
  BY <1>6, <1>7, <1>8 DEF Resting, Prep, n
<1>9. CASE AwaitSize(b)
  BY <1>1, <1>9 DEF AwaitSize, d
<1>10. CASE AwaitBytes(b)
  BY <1>3, <1>5, <1>7, <1>8, <1>10 DEF AwaitBytes, Return
<1>11. CASE ResyncHeader(b)
  <2>1. cur' = n /\ result' = "none" /\ buffer' = Tail(held)
    BY <1>3, <1>7, <1>11 DEF ResyncHeader, Return
  <2>2. \A k \in 1 .. Len(Tail(held)) : k + 1 \in 1 .. Len(held) /\ Tail(held)[k] = held[k + 1]
    BY <1>2
  <2>3. Foreign(t, Tail(held))
    BY <1>5, <2>2 DEF Foreign
  <2> QED BY <1>8, <2>1, <2>3
<1>12. ~FieldRead(b)
  <2> SUFFICES ASSUME FieldRead(b) PROVE FALSE
    OBVIOUS
  <2>1. held = h
    BY <1>3, <1>4, <1>6, <1>7 DEF FieldRead, MatchesTop
  <2>2. Len(held) \in 1 .. Len(held)
    BY <1>2
  <2> QED BY <1>5, <2>1, <2>2 DEF Foreign
<1> QED BY <1>9, <1>10, <1>11, <1>12 DEF AddByte, SizeRuleFails, ExistenceRuleFails, CompleteField

-----------------------------------------------------------------------------
(* The packets sent and the packets returned.                              *)

(* The fast path cuts out what was put together.                           *)
LEMMA FixedRead ==
  ASSUME NEW t \in Templates, IsFixedSize(t), NEW p \in Packet(t), Agrees(t, p)
  PROVE  [i \in DOMAIN t |-> Slice(t, Wire(t, p), i)] = p
<1>1. PICK n \in Nat : n = Len(t) /\ DOMAIN t = 1 .. n
  BY Fields
<1>2. PICK D \in SUBSET DOMAIN t : p \in [D -> Seq(Byte)]
  BY DEF Packet
<1>3. \A k, i \in DOMAIN t : ~Determines(t, k, i) /\ ~Removes(t, k, i)
  BY DEF IsFixedSize, Determines, Removes
<1>4. DOMAIN p = DOMAIN t
  BY <1>2, <1>3 DEF Agrees
<1>5. \A i \in DOMAIN t : Len(p[i]) = t[i].size
  <2> TAKE i \in DOMAIN t
  <2>1. Announcers(t, [done |-> DOMAIN p, value |-> p], i) = {}
    BY <1>3, <1>4 DEF Announcers
  <2>2. Asked(t, [done |-> DOMAIN p, value |-> p], i, Len(p[i]))
    BY <1>4 DEF Agrees
  <2> QED BY <2>1, <2>2 DEF Asked
<1>6. PICK P \in [1 .. n -> Seq(Byte)] : P = p
  BY <1>1, <1>2, <1>4
<1>7. SizesOf(t) \in [1 .. n -> Nat] /\ \A i \in 1 .. n : SizesOf(t)[i] = Len(P[i])
  <2>1. UInt16 \subseteq Nat
    BY DEF UInt16
  <2>2. \A i \in 1 .. n : t[i].size \in UInt16
    BY <1>1, Fields, FieldParts
  <2> QED BY <1>1, <1>5, <1>6, <2>1, <2>2 DEF SizesOf
<1>8. PICK e \in [0 .. n -> Nat] :
        /\ e = Ends(SizesOf(t)) /\ e[0] = 0
        /\ \A i \in 1 .. n : e[i] = e[i - 1] + SizesOf(t)[i]
  BY <1>7, EndsAddUp
<1>9. \A i \in 1 .. n : e[i] = e[i - 1] + Len(P[i])
  BY <1>7, <1>8
<1>10. \A i \in 1 .. n : SubSeq(FlattenSeq(P), e[i - 1] + 1, e[i]) = P[i]
  BY <1>8, <1>9, FlattenGivesBack
<1>11. Filled(t, p) = P
  BY <1>1, <1>4, <1>6 DEF Filled
<1>12. \A i \in 1 .. n : Slice(t, Wire(t, p), i) = P[i]
  BY <1>8, <1>10, <1>11 DEF Slice, Wire
<1> QED BY <1>1, <1>6, <1>12

Agreeing(n) == \A k \in 1 .. n : Agrees(template, sent[k])
Returned(n) == n <= Len(packets) /\ \A k \in 1 .. n : packets[k] = sent[k]

(* Between two spans, within one of noise, or within the last packet.      *)
Idle ==
  /\ Len(packets) = Len(sent) /\ Returned(Len(sent))
  /\ span # <<>> => ~IsFixedSize(template) /\ Foreign(template, span)
  /\ ~IsFixedSize(template) => Resting(template, cur, buffer)

Busy ==
  /\ span # <<>> /\ ~IsFixedSize(template)
  /\ Len(sent) # 0 /\ Len(packets) = Len(sent) - 1 /\ Returned(Len(sent) - 1)
  /\ Ready(template, Prepared, buffer, span, sent[Len(sent)])

RoundInv ==
  /\ sent \in Seq(Packet(template))
  /\ template \notin Built => sent = <<>>
  /\ template \in Built /\ WellFormed(template) =>
       /\ \A n \in 1 .. Len(sent) : Agreeing(n) /\ n # Len(sent) => Returned(n)
       /\ Agreeing(Len(sent)) => Idle \/ Busy

LEMMA RoundTripFollows ==
  ASSUME RoundInv, Reached
  PROVE  RoundTrip
<1> SUFFICES ASSUME span = <<>>, WellFormed(template), NEW n \in DOMAIN sent,
                    \A k \in 1 .. n : Agrees(template, sent[k])
             PROVE  SubSeq(packets, 1, n) = SubSeq(sent, 1, n)
  BY DEF RoundTrip
<1>1. sent \in Seq(Packet(template)) /\ n \in 1 .. Len(sent) /\ template \in Built
      /\ Len(sent) \in Nat
  BY DEF RoundInv
<1>2. Returned(n)
  <2>1. CASE n = Len(sent)
    BY <1>1, <2>1 DEF RoundInv, Idle, Busy, Agreeing
  <2>2. CASE n # Len(sent)
    BY <1>1, <2>2 DEF RoundInv, Agreeing
  <2> QED BY <2>1, <2>2
<1>3. packets \in Seq(Packet(template))
  BY DEF Reached, HistoryTypes
<1> QED BY <1>1, <1>2, <1>3 DEF Returned

(* A dissector in such a state has room for a byte.                        *)
Room ==
  WellFormed(template) /\ Sizerless(template) =>
    /\ template \in Templates /\ buffer \in Seq(Byte)
    /\ Prepared \in Current(template) /\ Consistent(template, Prepared)
    /\ Prepared.stack # {} /\ Len(buffer) < Prepared.size[Top(Prepared)]

LEMMA KnownRoom == Known => Room
BY PreparedKnown DEF Room

LEMMA KnownStates == BuildSpec => [](Known /\ Room)
<1> DEFINE B == Sizerless(template) => BufferInv
<1>1. Init => B
  BY BufferInvInit
<1>2. RulesInv /\ RulesInv' /\ B /\ [Next]_vars => B'
  <2> SUFFICES ASSUME RulesInv, RulesInv', B, [Next]_vars, Sizerless(template)'
               PROVE  BufferInv'
    OBVIOUS
  <2>1. Sizerless(template)
    BY TemplateFixed DEF Sizerless
  <2>2. SizerContract(template, Seq(Byte))
    BY <2>1 DEF SizerContract, Sizerless
  <2>3. HandedFrom(Seq(Byte))
    BY AppendProperties DEF HandedFrom, RulesInv, TypeOK
  <2> QED BY <2>1, <2>2, <2>3, BufferInvKept
<1>3. RulesInv /\ NothingLeft /\ B => Known
  BY DEF Known
<1> HIDE DEF B
<1> QED BY <1>1, <1>2, <1>3, KnownRoom, ReceiverIsDissector, RulesInvariant, NothingIsLeft, PTL
        DEF Spec

LEMMA RoundInvInit ==
  ASSUME BuildInit
  PROVE  RoundInv
<1>1. /\ template \in Templates /\ cur = NewPacket(template) /\ buffer = <<>>
      /\ span = <<>> /\ packets = <<>> /\ sent = <<>>
  BY DEF BuildInit, FeedInit, Init
<1>2. ASSUME WellFormed(template) PROVE Resting(template, cur, buffer)
  BY <1>1 DEF Resting, Prep
<1>3. Len(sent) = 0 /\ Len(packets) = 0 /\ Returned(0) /\ sent \in Seq(Packet(template))
  BY <1>1, EmptySeq DEF Returned
<1>4. WellFormed(template) => Idle
  BY <1>1, <1>2, <1>3 DEF Idle
<1> QED BY <1>1, <1>3, <1>4 DEF RoundInv

(* Packets already returned stay.                                          *)
LEMMA StaysReturned ==
  ASSUME NEW n \in Nat, Returned(n), HistoryTypes, sent \in Seq(Packet(template)),
         NEW x, packets' = packets \/ packets' = Append(packets, x),
         NEW y, sent' = sent \/ (sent' = Append(sent, y) /\ n <= Len(sent))
  PROVE  Returned(n)' /\ (packets' = packets \/ Len(packets') = Len(packets) + 1)
<1>1. packets \in Seq(Packet(template)) /\ Len(packets) \in Nat /\ n <= Len(packets)
  BY DEF HistoryTypes, Returned
<1>2. /\ packets' = packets \/ Len(packets') = Len(packets) + 1
      /\ \A k \in 1 .. Len(packets) : packets'[k] = packets[k]
  BY <1>1
<1>3. \A k \in 1 .. n : sent'[k] = sent[k]
  OBVIOUS
<1>4. \A k \in 1 .. n : packets'[k] = packets[k]
  BY <1>1, <1>2
<1> QED BY <1>1, <1>2, <1>3, <1>4 DEF Returned

(* A byte that belongs to no packet.                                       *)
LEMMA NoiseStep ==
  ASSUME Known, Known', template' = template, WellFormed(template), Sizerless(template),
         Idle, NEW b \in Byte, Foreign(template, << b >>), ~IsFixedSize(template), AddByte(b)
  PROVE  result' = "none" /\ Resting(template, cur', buffer')
BY NoiseLeavesResting DEF Idle

LEMMA ForeignSpan ==
  ASSUME NEW t, NEW s \in Seq(Byte), s # <<>>, Foreign(t, s)
  PROVE  Head(s) \in Byte /\ Foreign(t, << Head(s) >>) /\ Foreign(t, Tail(s))
<1>1. Head(s) \in Byte /\ Tail(s) \in Seq(Byte) /\ Head(s) = s[1] /\ 1 \in 1 .. Len(s)
  OBVIOUS
<1>2. \A k \in 1 .. Len(Tail(s)) : k + 1 \in 1 .. Len(s) /\ Tail(s)[k] = s[k + 1]
  OBVIOUS
<1>3. \A k \in 1 .. Len(<< Head(s) >>) : << Head(s) >>[k] = s[1]
  BY <1>1
<1> QED BY <1>1, <1>2, <1>3 DEF Foreign

LEMMA RoundInvKept ==
  ASSUME OnlyNoise, Reached, Known, Known', Room', RoundInv, [BuildNext]_buildVars
  PROVE  RoundInv'
<1> DEFINE t == template
           N == Len(sent)
<1>1. /\ template' = template /\ template \in Templates /\ SenderTypes /\ HistoryTypes
      /\ Untouched /\ packets \in Seq(Packet(template)) /\ Len(packets) \in Nat
      /\ span \in Seq(Byte)
  BY SenderTypesKept DEF Reached, SenderTypes, HistoryTypes
<1>2. sent \in Seq(Packet(t)) /\ N \in Nat /\ (t \notin Built => sent = <<>>)
  BY DEF RoundInv
<1>3. CASE UNCHANGED <<feedVars, sent>>
  <2>1. /\ UNCHANGED <<template, cur, buffer, span, packets, sent>>
    BY <1>3 DEF feedVars
  <2>2. Prepared' = Prepared
    BY <2>1 DEF Prepared
  <2> QED BY <2>1, <2>2 DEF RoundInv, Agreeing, Returned, Idle, Busy
<1>4. ASSUME sent' = sent, NEW x, packets' = packets \/ packets' = Append(packets, x),
             t \in Built /\ WellFormed(t) /\ Agreeing(N) => Idle' \/ Busy'
      PROVE  RoundInv'
  <2>1. sent' \in Seq(Packet(t)) /\ (t \notin Built => sent' = <<>>)
    BY <1>2, <1>4
  <2>2. ASSUME t \in Built, WellFormed(t), NEW n \in 1 .. N, Agreeing(n), n # N
        PROVE  Returned(n)'
    <3>1. Returned(n) /\ n \in Nat
      BY <2>2 DEF RoundInv
    <3> QED BY <1>1, <1>2, <1>4, <3>1, StaysReturned
  <2>3. \A n : Agreeing(n)' <=> Agreeing(n)
    BY <1>1, <1>4 DEF Agreeing
  <2> QED BY <1>1, <1>4, <2>1, <2>2, <2>3 DEF RoundInv
<1>5. ASSUME t \in Built, span = <<>>, NEW p \in Packet(t), sent' = Append(sent, p),
             NEW x, packets' = packets \/ packets' = Append(packets, x),
             WellFormed(t) /\ Agreeing(N) /\ Agrees(t, p) => Idle' \/ Busy'
      PROVE  RoundInv'
  <2>1. /\ sent' \in Seq(Packet(t)) /\ Len(sent') = N + 1
        /\ sent'[N + 1] = p /\ \A k \in 1 .. N : sent'[k] = sent[k]
    BY <1>2, <1>5
  <2>2. \A n \in 1 .. N : Agreeing(n)' <=> Agreeing(n)
    BY <1>1, <2>1 DEF Agreeing
  <2>3. Agreeing(Len(sent))' => Agreeing(N) /\ Agrees(t, p)
    <3>1. PICK m \in Nat : m = Len(sent') /\ m = N + 1
      BY <1>2, <2>1
    <3>2. SUFFICES ASSUME \A k \in 1 .. m : Agrees(t, sent'[k])
                   PROVE  (\A k \in 1 .. N : Agrees(t, sent[k])) /\ Agrees(t, p)
      BY <1>1, <3>1 DEF Agreeing
    <3>3. sent'[m] = p /\ m \in 1 .. m /\ \A k \in 1 .. N : k \in 1 .. m
      BY <1>2, <2>1, <3>1
    <3> QED BY <2>1, <3>2, <3>3
  <2>4. ASSUME WellFormed(t), NEW n \in 1 .. N, Agreeing(n) PROVE Returned(n)'
    <3>1. Returned(n) /\ n \in Nat
      <4>1. n = N => Returned(n)
        BY <1>5, <2>4 DEF RoundInv, Idle, Busy
      <4> QED BY <1>5, <2>4, <4>1 DEF RoundInv
    <3>2. n <= Len(sent)
      OBVIOUS
    <3> QED BY <1>1, <1>2, <1>5, <3>1, <3>2, StaysReturned
  <2>5. ASSUME WellFormed(t), NEW n \in 1 .. N + 1, Agreeing(n)', n # N + 1 PROVE Returned(n)'
    <3>1. n \in 1 .. N
      BY <1>2, <2>5
    <3> QED BY <2>2, <2>4, <2>5, <3>1
  <2>6. (Agreeing(Len(sent)) /\ WellFormed(template))' => Idle' \/ Busy'
    BY <1>1, <1>5, <2>3
  <2>7. \A n \in 1 .. Len(sent') :
          WellFormed(t) /\ Agreeing(n)' /\ n # Len(sent') => Returned(n)'
    BY <2>1, <2>5
  <2> QED BY <1>1, <1>5, <2>1, <2>6, <2>7 DEF RoundInv
<1>6. ASSUME NEW b \in DirectOf(t), AddOneByte(b), sent' = sent PROVE RoundInv'
  <2>1. span = <<>> /\ span' = <<>> /\ AddByte(b)
        /\ packets' = IF result' = "packet" THEN Append(packets, CurrentPacket) ELSE packets
    BY <1>6 DEF AddOneByte
  <2>2. ASSUME t \in Built, WellFormed(t), Agreeing(N) PROVE Idle'
    <3>1. Idle
      BY <2>1, <2>2 DEF RoundInv, Busy
    <3>2. b \in Byte /\ Sizerless(t) /\ ~IsFixedSize(t) /\ Foreign(t, << b >>)
      BY <1>1, <2>2, FeedAssumption DEF OnlyNoise
    <3>3. result' = "none" /\ Resting(t, cur', buffer')
      BY <1>1, <2>1, <2>2, <3>1, <3>2, NoiseStep
    <3> QED BY <1>1, <1>6, <2>1, <3>1, <3>3 DEF Idle, Returned
  <2> QED BY <1>4, <1>6, <2>1, <2>2
<1>7. ASSUME NEW c \in ChunksOf(t), AddFixed(c) \/ BeginSpan(c), sent' = sent PROVE RoundInv'
  <2>1. \E x : packets' = packets \/ packets' = Append(packets, x)
    BY <1>7 DEF AddFixed, BeginSpan
  <2>2. ASSUME t \in Built, WellFormed(t), Agreeing(N) PROVE Idle'
    <3>1. ~IsFixedSize(t) /\ Foreign(t, c)
      BY <2>2 DEF OnlyNoise
    <3>2. /\ span = <<>> /\ span' = c /\ packets' = packets /\ cur' = cur /\ buffer' = buffer
      BY <1>7, <3>1 DEF AddFixed, BeginSpan, vars
    <3>3. Idle
      BY <2>2, <3>2 DEF RoundInv, Busy
    <3> QED BY <1>1, <1>7, <3>1, <3>2, <3>3 DEF Idle, Returned
  <2> QED BY <1>4, <1>7, <2>1, <2>2
<1>8. ASSUME FeedByte, sent' = sent PROVE RoundInv'
  <2>1. /\ span # <<>> /\ AddByte(Head(span))
        /\ span' = IF result' = "none" THEN Tail(span) ELSE <<>>
        /\ packets' = IF result' = "packet" THEN Append(packets, CurrentPacket) ELSE packets
    BY <1>8 DEF FeedByte
  <2>2. ASSUME t \in Built, WellFormed(t), Agreeing(N), Idle PROVE Idle'
    <3>1. ~IsFixedSize(t) /\ Foreign(t, span) /\ Sizerless(t)
      BY <2>1, <2>2 DEF Idle, OnlyNoise
    <3>2. Head(span) \in Byte /\ Foreign(t, << Head(span) >>) /\ Foreign(t, Tail(span))
      BY <1>1, <2>1, <3>1, ForeignSpan
    <3>3. result' = "none" /\ Resting(t, cur', buffer')
      BY <1>1, <2>1, <2>2, <3>1, <3>2, NoiseStep
    <3> QED BY <1>1, <1>8, <2>1, <2>2, <3>1, <3>2, <3>3 DEF Idle, Returned
  <2>3. ASSUME t \in Built, WellFormed(t), Agreeing(N), Busy PROVE Idle' \/ Busy'
    <3>1. PICK p \in Packet(t) : p = sent[N] /\ Agrees(t, p)
      BY <1>2, <2>3 DEF Busy, Agreeing
    <3>2. Sizerless(t) /\ ~IsFixedSize(t) /\ Ready(t, Prepared, buffer, span, p)
      BY <2>3, <3>1 DEF Busy, OnlyNoise
    <3>3. Advanced(span, p)
      BY <1>1, <2>1, <2>3, <3>1, <3>2, StepReady
    <3>4. N # 0 /\ Len(packets) = N - 1 /\ Returned(N - 1)
      BY <2>3 DEF Busy
    <3>5. CASE result' = "none"
      <4>1. packets' = packets /\ span' = Tail(span)
        BY <2>1, <3>5
      <4>2. Prepared' = Prep(t, cur', buffer')
        BY <1>1 DEF Prepared, Prep
      <4>3. Ready(t, Prepared', buffer', span', p)
        BY <3>3, <3>5, <4>1, <4>2 DEF Advanced
      <4>4. span' # <<>>
        <5>1. (WellFormed(template) /\ Sizerless(template))'
          BY <1>1, <2>3, <3>2
        <5>2. /\ buffer' \in Seq(Byte) /\ Prepared' \in Current(t) /\ Consistent(t, Prepared')
              /\ Prepared'.stack # {} /\ Len(buffer') < Prepared'.size[Top(Prepared')]
          BY <1>1, <5>1 DEF Room
        <5> QED BY <1>1, <2>3, <3>1, <3>2, <4>3, <5>2, SomeAhead
      <4>5. Busy'
        BY <1>1, <1>8, <3>1, <3>2, <3>4, <4>1, <4>3, <4>4 DEF Busy, Returned
      <4> QED BY <4>5
    <3>6. CASE result' = "packet"
      <4>1. packets' = Append(packets, p) /\ span' = <<>> /\ Resting(t, cur', buffer')
        BY <2>1, <3>3, <3>6 DEF Advanced
      <4>2. Len(packets') = N /\ packets'[N] = p /\ \A k \in 1 .. N - 1 : packets'[k] = packets[k]
        BY <1>1, <1>2, <3>4, <4>1
      <4>3. \A k \in 1 .. N : packets'[k] = sent[k]
        BY <1>2, <3>1, <3>4, <4>2 DEF Returned
      <4>4. Idle'
        BY <1>1, <1>2, <1>8, <4>1, <4>2, <4>3 DEF Idle, Returned
      <4> QED BY <4>4
    <3> QED BY <3>3, <3>5, <3>6 DEF Advanced
  <2>4. t \in Built /\ WellFormed(t) /\ Agreeing(N) => Idle' \/ Busy'
    BY <2>2, <2>3 DEF RoundInv
  <2> QED BY <1>4, <1>8, <2>1, <2>4
<1>9. ASSUME t \in Built, span = <<>>, NEW p \in Packet(t), sent' = Append(sent, p),
             AddFixed(Wire(t, p)) \/ BeginSpan(Wire(t, p))
      PROVE  RoundInv'
  <2>1. \E x : packets' = packets \/ packets' = Append(packets, x)
    BY <1>9 DEF AddFixed, BeginSpan
  <2>2. ASSUME WellFormed(t), Agreeing(N), Agrees(t, p) PROVE Idle' \/ Busy'
    <3>1. Idle /\ Len(packets) = N /\ Returned(N)
      BY <1>9, <2>2 DEF RoundInv, Busy, Idle
    <3>2. Len(sent') = N + 1 /\ sent'[N + 1] = p /\ \A k \in 1 .. N : sent'[k] = sent[k]
      BY <1>2, <1>9
    <3>3. CASE AddFixed(Wire(t, p))
      <4>1. /\ IsFixedSize(t) /\ span' = <<>>
            /\ packets' = Append(packets, [i \in DOMAIN t |-> Slice(t, Wire(t, p), i)])
        BY <1>9, <3>3 DEF AddFixed
      <4>2. packets' = Append(packets, p)
        BY <1>1, <2>2, <4>1, FixedRead
      <4>3. Len(packets') = N + 1 /\ packets'[N + 1] = p
            /\ \A k \in 1 .. N : packets'[k] = packets[k]
        BY <1>1, <1>2, <3>1, <4>2
      <4>4. \A k \in 1 .. N + 1 : packets'[k] = sent'[k]
        BY <1>2, <3>1, <3>2, <4>3 DEF Returned
      <4>5. Returned(Len(sent))'
        BY <1>2, <3>2, <4>3, <4>4 DEF Returned
      <4>6. Idle'
        BY <1>1, <3>2, <4>1, <4>3, <4>5 DEF Idle
      <4> QED BY <4>6
    <3>4. CASE BeginSpan(Wire(t, p))
      <4>1. /\ ~IsFixedSize(t) /\ span' = Wire(t, p) /\ packets' = packets
            /\ cur' = cur /\ buffer' = buffer
        BY <3>4 DEF BeginSpan, vars
      <4>2. Sizerless(t)
        BY <1>9, <2>2 DEF OnlyNoise
      <4>3. Resting(t, cur, buffer) /\ buffer \in Seq(Byte)
        BY <2>2, <3>1, <4>1, <4>2, PreparedKnown DEF Idle
      <4>4. Ready(t, Prepared, buffer, Wire(t, p), p)
        BY <1>1, <2>2, <4>2, <4>3, PreparedIs, RestingReady
      <4>5. span' # <<>>
        BY <1>1, <2>2, <4>1, <4>2, <4>4, PreparedKnown, SomeAhead
      <4>6. Prepared' = Prepared
        BY <1>1, <4>1 DEF Prepared
      <4>7. Busy'
        BY <1>1, <1>2, <3>1, <3>2, <4>1, <4>4, <4>5, <4>6 DEF Busy, Returned
      <4> QED BY <4>7
    <3> QED BY <1>9, <3>3, <3>4
  <2> QED BY <1>5, <1>9, <2>1, <2>2
<1> QED BY <1>1, <1>3, <1>6, <1>7, <1>8, <1>9, SentSteps DEF buildVars

(* What the receiver is given is what was sent (set, packetDescriptorTo-   *)
(* Buffer, addBytes), for all templates without callbacks, with whatever   *)
(* noise between the packets that holds no byte a header ends with.        *)
THEOREM RoundTripHolds ==
  ASSUME OnlyNoise
  PROVE  BuildSpec => []RoundTrip
<1>1. BuildInit => RoundInv
  BY RoundInvInit
<1>2. /\ Reached /\ Known /\ Room /\ Known' /\ Room' /\ RoundInv /\ [BuildNext]_buildVars
      => RoundInv'
  BY RoundInvKept
<1>3. RoundInv /\ Reached => RoundTrip
  BY RoundTripFollows
<1> QED BY <1>1, <1>2, <1>3, ReachedStates, KnownStates, PTL DEF BuildSpec

-----------------------------------------------------------------------------
(* No byte of a stream of packets is dropped.                              *)

Headerless(t) == \A i \in DOMAIN t : ~t[i].isHeaderValue
Spanned(t)    == ChunksOf(t) # {} \/ t \in Built

(* Of a template without headers and callbacks an owner that passes spans  *)
(* to addBytes passes nothing but packets that keep the rules, each in a   *)
(* span of its own, and calls addByte for none of them.                    *)
WholeSpans ==
  \A t \in Templates :
    WellFormed(t) /\ Sizerless(t) /\ Headerless(t) /\ Spanned(t) =>
      /\ DirectOf(t) = {}
      /\ \A c \in ChunksOf(t) : \E p \in Packet(t) : Agrees(t, p) /\ c = Wire(t, p)

(* Within a packet, the rest of it is the rest of the span.                *)
Within ==
  /\ span # <<>>
  /\ \E p \in Packet(template) :
       Agrees(template, p) /\ Ready(template, Prepared, buffer, span, p)

(* Dropped bytes would be in fed and not in taken.                         *)
FedInv ==
  /\ sent \in Seq(Packet(template))
  /\ WellFormed(template) /\ Headerless(template) /\ Sizerless(template) =>
       /\ ~Spanned(template) => span = <<>> /\ fed = taken
       /\ Spanned(template) /\ AllAgree =>
            /\ fed = taken
            /\ ~IsFixedSize(template) =>
                 Within \/ (span = <<>> /\ Resting(template, cur, buffer))

(* A packet that keeps the rules is handed over between two others.        *)
LEMMA PacketHanded ==
  ASSUME Reached, Known, template' = template, WellFormed(template), Sizerless(template),
         fed = taken, ~IsFixedSize(template) => Resting(template, cur, buffer),
         NEW p \in Packet(template), Agrees(template, p),
         AddFixed(Wire(template, p)) \/ BeginSpan(Wire(template, p))
  PROVE  /\ fed' = taken'
         /\ ~IsFixedSize(template) => Within'
<1> DEFINE t == template
<1>1. t \in Templates
  BY DEF Reached, SenderTypes
<1>2. CASE AddFixed(Wire(t, p))
  <2>1. PICK w \in Seq(Byte) : w = Wire(t, p)
    BY <1>1, WireType
  <2>2. IsFixedSize(t) /\ FixedSize(t) <= Len(w)
    BY <1>2, <2>1 DEF AddFixed
  <2>3. [i \in DOMAIN t |-> Slice(t, w, i)] = p
    BY <1>1, <2>1, <2>2, FixedRead
  <2>4. Wire(t, [i \in DOMAIN t |-> Slice(t, w, i)]) = SubSeq(w, 1, FixedSize(t))
    BY <1>1, <2>2, FixedPacket
  <2>5. SubSeq(w, 1, FixedSize(t)) = w
    BY <2>1, <2>3, <2>4
  <2> QED BY <1>2, <2>1, <2>2, <2>5 DEF AddFixed
<1>3. CASE BeginSpan(Wire(t, p))
  <2>1. /\ ~IsFixedSize(t) /\ span' = Wire(t, p)
        /\ UNCHANGED <<cur, buffer, fed, taken>>
    BY <1>3 DEF BeginSpan, vars
  <2>2. Resting(t, cur, buffer) /\ buffer \in Seq(Byte)
    BY <2>1, PreparedKnown
  <2>3. Ready(t, Prepared, buffer, Wire(t, p), p)
    BY <1>1, <2>2, PreparedIs, RestingReady
  <2>4. span' # <<>>
    BY <1>1, <2>1, <2>3, PreparedKnown, SomeAhead
  <2>5. Prepared' = Prepared
    BY <2>1 DEF Prepared
  <2> QED BY <2>1, <2>3, <2>4, <2>5 DEF Within
<1> QED BY <1>2, <1>3

LEMMA LastByte ==
  ASSUME NEW x \in Seq(Byte), NEW s \in Seq(Byte), s # <<>>, Tail(s) = <<>>
  PROVE  x \o s = Append(x, Head(s))
<1>1. Len(s) = 1
  <2>1. Len(Tail(s)) = Len(s) - 1
    BY HeadTailProperties
  <2>2. Len(Tail(s)) = 0
    BY EmptySeq
  <2>3. PICK n \in Nat : n = Len(s)
    BY LenProperties
  <2>4. n - 1 = 0
    BY <2>1, <2>2, <2>3
  <2> QED BY <2>3, <2>4
<1>2. s[1] = Head(s) /\ Head(s) \in Byte
  BY <1>1
<1>3. PICK b \in Byte : b = Head(s)
  BY <1>2
<1>4. s = << b >>
  BY <1>1, <1>2, <1>3
<1>5. x \o << b >> = Append(x, b)
  BY AppendIsConcat
<1> QED BY <1>3, <1>4, <1>5

(* A byte of it is taken, and with its last byte the span is at its end.   *)
LEMMA PacketTaken ==
  ASSUME Reached, Known, Known', Room', template' = template, WellFormed(template),
         Sizerless(template), Headerless(template), ~IsFixedSize(template),
         fed = taken, Within, FeedByte
  PROVE  fed' = taken' /\ (Within' \/ (span' = <<>> /\ Resting(template, cur', buffer')))
<1> DEFINE t == template
<1>1. t \in Templates /\ span \in Seq(Byte) /\ span # <<>> /\ fed \in Seq(Byte)
  BY DEF Reached, SenderTypes, HistoryTypes, Within
<1>2. PICK p \in Packet(t) : Agrees(t, p) /\ Ready(t, Prepared, buffer, span, p)
  BY DEF Within
<1>3. Advanced(span, p)
  BY <1>1, <1>2, StepReady DEF FeedByte
<1>4. taken' = Append(taken, Head(span))
  BY DEF FeedByte
<1>5. CASE result' = "none"
  <2>1. span' = Tail(span) /\ fed' = Append(fed, Head(span))
    BY <1>5 DEF FeedByte
  <2>2. Ready(t, Prepared', buffer', span', p)
    BY <1>3, <1>5, <2>1 DEF Advanced, Prepared, Prep
  <2>3. /\ buffer' \in Seq(Byte) /\ Prepared' \in Current(t) /\ Consistent(t, Prepared')
        /\ Prepared'.stack # {} /\ Len(buffer') < Prepared'.size[Top(Prepared')]
    <3>1. (WellFormed(template) /\ Sizerless(template))'
      OBVIOUS
    <3> QED BY <3>1 DEF Room
  <2>4. span' # <<>>
    BY <1>1, <1>2, <2>2, <2>3, SomeAhead
  <2>5. Within'
    BY <1>2, <2>2, <2>4 DEF Within
  <2> QED BY <1>4, <2>1, <2>5
<1>6. CASE result' = "packet"
  <2>1. Tail(span) = <<>> /\ Resting(t, cur', buffer')
    BY <1>3, <1>6 DEF Advanced
  <2>2. span' = <<>> /\ fed' = fed \o span
    BY <1>6 DEF FeedByte
  <2>3. fed \o span = Append(fed, Head(span))
    BY <1>1, <2>1, LastByte
  <2> QED BY <1>4, <2>1, <2>2, <2>3
<1> QED BY <1>3, <1>5, <1>6 DEF Advanced

LEMMA FedInvKept ==
  ASSUME WholeSpans, Reached, Known, Known', Room', FedInv, [BuildNext]_buildVars
  PROVE  FedInv'
<1> DEFINE t == template
<1>1. /\ template' = template /\ t \in Templates /\ SenderTypes /\ Untouched
      /\ sent \in Seq(Packet(t))
  BY SenderTypesKept DEF Reached, FedInv, SenderTypes
<1>2. CASE UNCHANGED <<feedVars, sent>>
  <2>1. UNCHANGED <<template, cur, buffer, span, fed, taken, sent>>
    BY <1>2 DEF feedVars
  <2> QED BY <2>1 DEF FedInv, AllAgree, Within, Prepared
<1>3. sent' \in Seq(Packet(t)) /\ (AllAgree' => AllAgree)
  <2>1. CASE sent' = sent
    BY <1>1, <2>1 DEF AllAgree
  <2>2. ASSUME NEW p \in Packet(t), sent' = Append(sent, p)
        PROVE  sent' \in Seq(Packet(t)) /\ (AllAgree' => AllAgree)
    <3>1. \A k \in DOMAIN sent : k \in DOMAIN sent' /\ sent'[k] = sent[k]
      BY <1>1, <2>2
    <3> QED BY <1>1, <2>2, <3>1 DEF AllAgree
  <2> QED BY <1>1, <1>2, <2>1, <2>2, SentSteps DEF buildVars
<1> SUFFICES ASSUME WellFormed(t), Headerless(t), Sizerless(t)
             PROVE  /\ ~Spanned(t) => span' = <<>> /\ fed' = taken'
                    /\ Spanned(t) /\ AllAgree' =>
                         /\ fed' = taken'
                         /\ ~IsFixedSize(t) =>
                              Within' \/ (span' = <<>> /\ Resting(t, cur', buffer'))
  BY <1>1, <1>3 DEF FedInv
<1>4. CASE ~Spanned(t)
  <2>1. span = <<>> /\ fed = taken
    BY <1>4 DEF FedInv
  <2>2. ASSUME NEW b, AddOneByte(b) PROVE span' = <<>> /\ fed' = taken'
    BY <2>1, <2>2 DEF AddOneByte
  <2>3. ~FeedByte
    BY <2>1 DEF FeedByte
  <2>4. span' = <<>> /\ fed' = taken'
    BY <1>1, <1>2, <1>4, <2>1, <2>2, <2>3, SentSteps DEF buildVars, feedVars, Spanned
  <2> QED BY <1>4, <2>4
<1>5. CASE Spanned(t)
  <2> SUFFICES ASSUME AllAgree'
               PROVE  /\ fed' = taken'
                      /\ ~IsFixedSize(t) =>
                           Within' \/ (span' = <<>> /\ Resting(t, cur', buffer'))
    BY <1>5
  <2>1. /\ fed = taken
        /\ ~IsFixedSize(t) => Within \/ (span = <<>> /\ Resting(t, cur, buffer))
    BY <1>3, <1>5 DEF FedInv
  <2>2. /\ DirectOf(t) = {}
        /\ \A c \in ChunksOf(t) : \E p \in Packet(t) : Agrees(t, p) /\ c = Wire(t, p)
    BY <1>1, <1>5 DEF WholeSpans, Spanned, Headerless
  <2>3. ASSUME NEW p \in Packet(t), Agrees(t, p), AddFixed(Wire(t, p)) \/ BeginSpan(Wire(t, p))
        PROVE  fed' = taken' /\ (~IsFixedSize(t) => Within')
    <3>1. span = <<>>
      BY <2>3 DEF AddFixed, BeginSpan
    <3>2. ~IsFixedSize(t) => Resting(t, cur, buffer)
      BY <2>1, <3>1 DEF Within
    <3> QED BY <1>1, <2>1, <2>3, <3>2, PacketHanded
  <2>4. ASSUME NEW c \in ChunksOf(t), AddFixed(c) \/ BeginSpan(c)
        PROVE  fed' = taken' /\ (~IsFixedSize(t) => Within')
    BY <2>2, <2>3, <2>4
  <2>5. ASSUME NEW p \in Packet(t), AddFixed(Wire(t, p)) \/ BeginSpan(Wire(t, p)),
               sent' = Append(sent, p)
        PROVE  fed' = taken' /\ (~IsFixedSize(t) => Within')
    <3>1. Len(sent') \in DOMAIN sent' /\ sent'[Len(sent')] = p
      BY <1>1, <2>5
    <3>2. Agrees(t, p)
      BY <1>1, <3>1 DEF AllAgree
    <3> QED BY <2>3, <2>5, <3>2
  <2>6. ASSUME FeedByte
        PROVE  fed' = taken' /\ (Within' \/ (span' = <<>> /\ Resting(t, cur', buffer')))
    <3>1. ~IsFixedSize(t) /\ span # <<>>
      BY <1>1, <2>2, <2>6 DEF Untouched, FeedByte
    <3> QED BY <1>1, <2>1, <2>6, <3>1, PacketTaken
  <2>7. ASSUME UNCHANGED <<feedVars, sent>>
        PROVE  /\ fed' = taken'
               /\ ~IsFixedSize(t) => Within' \/ (span' = <<>> /\ Resting(t, cur', buffer'))
    <3>1. UNCHANGED <<template, cur, buffer, span, fed, taken>>
      BY <2>7 DEF feedVars
    <3> QED BY <2>1, <3>1 DEF Within, Prepared
  <2> QED BY <1>1, <2>2, <2>4, <2>5, <2>6, <2>7, SentSteps DEF buildVars
<1> QED BY <1>4, <1>5

(* Every byte handed over is in one field of one packet returned, or will  *)
(* be (addBytes, which drops what a span has behind a packet): for all     *)
(* templates without headers and callbacks whose packets keep the rules.   *)
THEOREM BytesAreConserved ==
  ASSUME WholeSpans
  PROVE  BuildSpec /\ BetweenPackets => []BytesConserved
<1>1. BuildInit => FedInv
  <2> SUFFICES ASSUME BuildInit PROVE FedInv
    OBVIOUS
  <2>1. /\ cur = NewPacket(template) /\ buffer = <<>> /\ span = <<>>
        /\ fed = <<>> /\ taken = <<>> /\ sent = <<>>
    BY DEF BuildInit, FeedInit, Init
  <2>2. Resting(template, cur, buffer)
    BY <2>1 DEF Resting, Prep
  <2> QED BY <2>1, <2>2, EmptySeq DEF FedInv
<1>2. Reached /\ Known /\ Known' /\ Room' /\ FedInv /\ [BuildNext]_buildVars => FedInv'
  BY FedInvKept
<1>3. FedInv /\ TakenConserved => BytesConserved
  BY DEF FedInv, TakenConserved, BytesConserved, NoHeaders, NoSizers, Headerless, Sizerless
<1> QED BY <1>1, <1>2, <1>3, ReachedStates, KnownStates, TakenIsConserved, PTL
        DEF BuildSpec

-----------------------------------------------------------------------------
(* What is known of a packet when some of its fields have been read.       *)
Reading(t) ==
  [fields : Packet(t), size : [DOMAIN t -> UInt16], gone : SUBSET DOMAIN t,
   rest : Seq(Byte)]

(* Field i has been read: m is known where k was, and its place is sure.   *)
Passes(t, k, i, m) ==
  /\ k \in Reading(t) /\ m \in Reading(t)
  /\ \/ i \in k.gone /\ m = k
     \/ /\ i \notin k.gone
        /\ \E a, n \in Nat :
             /\ Framing!Extent(t, i, k.size[i], k.rest) = {<<a, n>>}
             /\ a + n <= Len(k.rest)
             /\ m = Framing!Past(t, k, i, a, n)

(* The first i fields have been read, and h is what was known on the way.  *)
Path(t, bytes, i, h) ==
  /\ h[0] = Framing!Unread(t, bytes)
  /\ h[0] \in Reading(t)
  /\ \A j \in 1 .. i : Passes(t, h[j - 1], j, h[j])

(* What the function in ReadUpTo is at i, when it is g.                    *)
UpTo(g, t, bytes, i) ==
  IF i = 0 THEN {Framing!Unread(t, bytes)}
  ELSE UNION {Framing!ReadField(t, k, i) : k \in g[i - 1]}

LEMMA UpToExists ==
  ASSUME NEW t, NEW bytes, NEW N \in Nat
  PROVE  \E g : g = [i \in 0 .. N |-> UpTo(g, t, bytes, i)]
<1> DEFINE S == {n \in Nat : \E g : g = [i \in 0 .. n |-> UpTo(g, t, bytes, i)]}
<1>1. 0 \in S
  <2> DEFINE g == [i \in 0 .. 0 |-> {Framing!Unread(t, bytes)}]
  <2>1. g = [i \in 0 .. 0 |-> UpTo(g, t, bytes, i)]
    BY DEF UpTo
  <2> QED BY <2>1
<1>2. ASSUME NEW n \in S PROVE n + 1 \in S
  <2>1. PICK g : g = [i \in 0 .. n |-> UpTo(g, t, bytes, i)]
    OBVIOUS
  <2> DEFINE h == [i \in 0 .. n + 1 |-> IF i = n + 1 THEN UpTo(g, t, bytes, n + 1) ELSE g[i]]
  <2>2. ASSUME NEW i \in 0 .. n + 1 PROVE h[i] = UpTo(h, t, bytes, i)
    <3>1. n \in Nat /\ (i = 0 \/ i - 1 \in 0 .. n)
      OBVIOUS
    <3>2. i # 0 => h[i - 1] = g[i - 1]
      BY <3>1
    <3>3. UpTo(h, t, bytes, i) = UpTo(g, t, bytes, i)
      BY <3>2 DEF UpTo
    <3>4. CASE i = n + 1
      BY <3>3, <3>4
    <3>5. CASE i # n + 1
      <4>1. i \in 0 .. n
        BY <3>1, <3>5
      <4>2. g[i] = UpTo(g, t, bytes, i)
        BY <2>1, <4>1
      <4> QED BY <4>2, <3>3, <3>5
    <3> QED BY <3>4, <3>5
  <2> HIDE DEF h
  <2>3. h = [i \in 0 .. n + 1 |-> h[i]]
    BY DEF h
  <2>4. h = [i \in 0 .. n + 1 |-> UpTo(h, t, bytes, i)]
    BY <2>2, <2>3
  <2> QED BY <2>4
<1>3. S = Nat
  <2> HIDE DEF S
  <2>1. S \in SUBSET Nat
    BY DEF S
  <2> QED BY <1>1, <1>2, <2>1, FromZero
<1> QED BY <1>3

(* ReadUpTo takes one field after the other.                               *)
LEMMA ReadSteps ==
  ASSUME NEW t \in Templates, NEW bytes
  PROVE  /\ Framing!ReadUpTo(t, bytes)[0] = {Framing!Unread(t, bytes)}
         /\ \A i \in 1 .. Len(t) :
              Framing!ReadUpTo(t, bytes)[i]
                = UNION {Framing!ReadField(t, k, i) : k \in Framing!ReadUpTo(t, bytes)[i - 1]}
<1> DEFINE F(u) == u = [i \in 0 .. Len(t) |->
                          IF i = 0 THEN {Framing!Unread(t, bytes)}
                          ELSE UNION {Framing!ReadField(t, k, i) : k \in u[i - 1]}]
           e == CHOOSE u : F(u)
<1>1. Len(t) \in Nat
  BY Fields
<1>2. F(e)
  <2>1. PICK g : g = [i \in 0 .. Len(t) |-> UpTo(g, t, bytes, i)]
    BY <1>1, UpToExists
  <2>2. F(g)
    BY <2>1 DEF UpTo
  <2> HIDE DEF F
  <2> QED BY <2>2
<1>3. Framing!ReadUpTo(t, bytes) = e
  BY DEF Framing!ReadUpTo
<1> HIDE DEF e
<1>4. ASSUME NEW i \in 0 .. Len(t)
      PROVE  e[i] = IF i = 0 THEN {Framing!Unread(t, bytes)}
                    ELSE UNION {Framing!ReadField(t, k, i) : k \in e[i - 1]}
  BY <1>2, Zenon
<1> HIDE DEF F
<1>5. e[0] = {Framing!Unread(t, bytes)}
  <2>1. 0 \in 0 .. Len(t)
    BY <1>1
  <2> QED BY <1>4, <2>1
<1>6. ASSUME NEW i \in 1 .. Len(t)
      PROVE  e[i] = UNION {Framing!ReadField(t, k, i) : k \in e[i - 1]}
  <2>1. i \in 0 .. Len(t) /\ i # 0
    BY <1>1
  <2> QED BY <1>4, <2>1
<1> QED BY <1>3, <1>5, <1>6

(* A field that is known to be read is what ReadField reads.               *)
LEMMA PassesReads ==
  ASSUME NEW t, NEW k, NEW i, NEW m, Passes(t, k, i, m)
  PROVE  Framing!ReadField(t, k, i) = {m}
<1>1. CASE i \in k.gone
  BY <1>1 DEF Passes, Framing!ReadField
<1>2. CASE i \notin k.gone
  <2>1. PICK a \in Nat, n \in Nat :
          /\ Framing!Extent(t, i, k.size[i], k.rest) = {<<a, n>>}
          /\ a + n <= Len(k.rest)
          /\ m = Framing!Past(t, k, i, a, n)
    BY <1>2 DEF Passes
  <2> DEFINE E == {x \in Framing!Extent(t, i, k.size[i], k.rest) :
                     x[1] + x[2] <= Len(k.rest)}
  <2>2. E = {<<a, n>>}
    BY <2>1
  <2>3. Framing!ReadField(t, k, i) = {Framing!Past(t, k, i, e[1], e[2]) : e \in E}
    BY <1>2 DEF Framing!ReadField
  <2> HIDE DEF E
  <2>4. <<a, n>>[1] = a /\ <<a, n>>[2] = n
    OBVIOUS
  <2> QED BY <2>1, <2>2, <2>3, <2>4
<1> QED BY <1>1, <1>2

(* Along a path ReadUpTo knows what the path says.                         *)
LEMMA PathReads ==
  ASSUME NEW t \in Templates, NEW bytes, NEW i \in 0 .. Len(t), NEW h, Path(t, bytes, i, h)
  PROVE  Framing!ReadUpTo(t, bytes)[i] = {h[i]}
<1> DEFINE r == Framing!ReadUpTo(t, bytes)
           S == {n \in Nat : n <= i => r[n] = {h[n]}}
<1>0. Len(t) \in Nat /\ i \in Nat /\ i <= Len(t)
  BY Fields
<1>1. /\ r[0] = {Framing!Unread(t, bytes)}
      /\ \A j \in 1 .. Len(t) : r[j] = UNION {Framing!ReadField(t, k, j) : k \in r[j - 1]}
  BY ReadSteps
<1> HIDE DEF r
<1>2. 0 \in S
  BY <1>1 DEF Path
<1>3. ASSUME NEW n \in S PROVE n + 1 \in S
  <2> SUFFICES ASSUME n + 1 <= i PROVE r[n + 1] = {h[n + 1]}
    OBVIOUS
  <2>1. /\ n \in Nat /\ n <= i /\ n + 1 \in 1 .. i /\ n + 1 \in 1 .. Len(t)
        /\ (n + 1) - 1 = n /\ r[n] = {h[n]}
    BY <1>0
  <2>2. Passes(t, h[n], n + 1, h[n + 1])
    BY <2>1 DEF Path
  <2>3. Framing!ReadField(t, h[n], n + 1) = {h[n + 1]}
    BY <2>2, PassesReads
  <2>4. r[n + 1] = UNION {Framing!ReadField(t, k, n + 1) : k \in r[n]}
    BY <1>1, <2>1
  <2> QED BY <2>1, <2>3, <2>4
<1>4. S = Nat
  <2>1. S \in SUBSET Nat
    OBVIOUS
  <2> HIDE DEF S
  <2> QED BY <1>2, <1>3, <2>1, FromZero
<1> QED BY <1>0, <1>4 DEF r

(* What cannot be read up to a field cannot be read beyond it.             *)
LEMMA NoneBeyond ==
  ASSUME NEW t \in Templates, NEW bytes, NEW i \in 1 .. Len(t),
         Framing!ReadUpTo(t, bytes)[i] = {}
  PROVE  Framing!Read(t, bytes) = {}
<1> DEFINE r == Framing!ReadUpTo(t, bytes)
           S == {n \in Nat : i + n <= Len(t) => r[i + n] = {}}
<1>0. Len(t) \in Nat /\ i \in Nat
  BY Fields
<1>1. \A j \in 1 .. Len(t) : r[j] = UNION {Framing!ReadField(t, k, j) : k \in r[j - 1]}
  BY ReadSteps
<1>2. 0 \in S
  BY <1>0
<1>3. ASSUME NEW n \in S PROVE n + 1 \in S
  <2>1. n \in Nat /\ i + (n + 1) = (i + n) + 1 /\ (i + n) + 1 - 1 = i + n
    BY <1>0
  <2> HIDE DEF r
  <2>2. ASSUME i + (n + 1) <= Len(t) PROVE r[i + (n + 1)] = {}
    <3>1. (i + n) + 1 \in 1 .. Len(t) /\ r[i + n] = {}
      BY <1>0, <2>1, <2>2
    <3>2. r[(i + n) + 1] = UNION {Framing!ReadField(t, k, (i + n) + 1) : k \in r[i + n]}
      BY <1>1, <2>1, <3>1
    <3> QED BY <2>1, <3>1, <3>2
  <2> QED BY <2>1, <2>2
<1>4. S = Nat
  <2>1. S \in SUBSET Nat
    OBVIOUS
  <2> HIDE DEF S
  <2> QED BY <1>2, <1>3, <2>1, FromZero
<1>5. ASSUME NEW n \in Nat, i + n <= Len(t) PROVE r[i + n] = {}
  BY <1>4, <1>5
<1> HIDE DEF r, S
<1>6. PICK n \in Nat : i + n = Len(t)
  <2>1. Len(t) - i \in Nat /\ i + (Len(t) - i) = Len(t)
    BY <1>0
  <2> QED BY <2>1
<1>7. r[Len(t)] = {}
  <2>1. i + n <= Len(t)
    BY <1>0, <1>6
  <2>2. r[i + n] = {}
    BY <1>5, <2>1
  <2> QED BY <1>6, <2>2
<1> QED BY <1>7 DEF Framing!Read, r

(* The field behind a path that is not all there: no packet.               *)
LEMMA PathEnds ==
  ASSUME NEW t \in Templates, NEW bytes, NEW i \in 1 .. Len(t), NEW h,
         Path(t, bytes, i - 1, h), Framing!ReadField(t, h[i - 1], i) = {}
  PROVE  Framing!Read(t, bytes) = {}
<1>1. Len(t) \in Nat /\ i - 1 \in 0 .. Len(t)
  BY Fields
<1>2. Framing!ReadUpTo(t, bytes)[i - 1] = {h[i - 1]}
  BY <1>1, PathReads
<1>3. Framing!ReadUpTo(t, bytes)[i]
        = UNION {Framing!ReadField(t, k, i) : k \in {h[i - 1]}}
  BY <1>2, ReadSteps
<1>4. Framing!ReadUpTo(t, bytes)[i] = {}
  BY <1>3
<1> QED BY <1>4, NoneBeyond

-----------------------------------------------------------------------------
(* One more byte.                                                          *)

(* What was cut out of the bytes before is cut out again.                  *)
LEMMA SliceStays ==
  ASSUME NEW s \in Seq(Byte), NEW b \in Byte, NEW p \in Nat, NEW q \in Nat,
         1 <= p, q <= Len(s)
  PROVE  SubSeq(Append(s, b), p, q) = SubSeq(s, p, q)
<1>1. /\ Append(s, b) \in Seq(Byte) /\ Len(s) \in Nat
      /\ \A k \in 1 .. Len(s) : Append(s, b)[k] = s[k]
  BY AppendProperties, LenProperties
<1>2. \A k \in p .. q : k \in 1 .. Len(s) /\ Append(s, b)[k] \in Byte /\ s[k] \in Byte
  BY <1>1, ElementOfSeq
<1>3. /\ Len(SubSeq(Append(s, b), p, q)) = IF p <= q THEN q - p + 1 ELSE 0
      /\ \A k \in 1 .. q - p + 1 : SubSeq(Append(s, b), p, q)[k] = Append(s, b)[p + k - 1]
      /\ SubSeq(Append(s, b), p, q) \in Seq(Byte)
  BY <1>2, SubSeqProperties
<1>4. /\ Len(SubSeq(s, p, q)) = IF p <= q THEN q - p + 1 ELSE 0
      /\ \A k \in 1 .. q - p + 1 : SubSeq(s, p, q)[k] = s[p + k - 1]
      /\ SubSeq(s, p, q) \in Seq(Byte)
  BY <1>2, SubSeqProperties
<1>5. \A k \in 1 .. q - p + 1 : p + k - 1 \in 1 .. Len(s)
  BY <1>1
<1> QED BY <1>1, <1>3, <1>4, <1>5, SeqEqual

(* What is left behind a place is as long as it must be.                   *)
LEMMA RestType ==
  ASSUME NEW s \in Seq(Byte), NEW p \in Nat, p <= Len(s)
  PROVE  SubSeq(s, p + 1, Len(s)) \in Seq(Byte) /\ Len(SubSeq(s, p + 1, Len(s))) = Len(s) - p
<1>1. Len(s) \in Nat /\ p + 1 \in Int /\ \A k \in p + 1 .. Len(s) : s[k] \in Byte
  <2>1. \A k \in 1 .. Len(s) : s[k] \in Byte
    BY ElementOfSeq
  <2> QED BY <2>1, LenProperties
<1>2. /\ SubSeq(s, p + 1, Len(s)) \in Seq(Byte)
      /\ Len(SubSeq(s, p + 1, Len(s))) = IF p + 1 <= Len(s) THEN Len(s) - (p + 1) + 1 ELSE 0
  BY <1>1, SubSeqProperties
<1> QED BY <1>1, <1>2

LEMMA RestGrows ==
  ASSUME NEW s \in Seq(Byte), NEW b \in Byte, NEW p \in Nat, p <= Len(s)
  PROVE  SubSeq(Append(s, b), p + 1, Len(Append(s, b))) = Append(SubSeq(s, p + 1, Len(s)), b)
<1> DEFINE u == Append(s, b)
           n == Len(s)
           v == SubSeq(s, p + 1, n)
           w == SubSeq(u, p + 1, n + 1)
<1>1. /\ u \in Seq(Byte) /\ n \in Nat /\ Len(u) = n + 1
      /\ \A k \in 1 .. n : u[k] = s[k]
      /\ u[n + 1] = b
  BY AppendProperties, LenProperties
<1>2. /\ v \in Seq(Byte) /\ Len(v) = n - p
  BY RestType
<1>3. /\ w \in Seq(Byte) /\ Len(w) = (n + 1) - p
  <2>1. SubSeq(u, p + 1, Len(u)) \in Seq(Byte) /\ Len(SubSeq(u, p + 1, Len(u))) = Len(u) - p
    BY <1>1, RestType
  <2> QED BY <1>1, <2>1
<1> HIDE DEF u, n
<1>4. \A k \in 1 .. n - p : v[k] = s[p + k]
  <2>1. \A k \in p + 1 .. n : s[k] \in Byte
    BY <1>1, ElementOfSeq DEF n
  <2>2. \A k \in 1 .. n - (p + 1) + 1 : v[k] = s[(p + 1) + k - 1]
    BY <1>1, <2>1, SubSeqProperties
  <2> HIDE DEF v
  <2> QED BY <1>1, <2>2
<1>5. \A k \in 1 .. n + 1 - p : w[k] = u[p + k]
  <2>1. \A k \in p + 1 .. n + 1 : u[k] \in Byte
    BY <1>1, ElementOfSeq
  <2>2. \A k \in 1 .. (n + 1) - (p + 1) + 1 : w[k] = u[(p + 1) + k - 1]
    BY <1>1, <2>1, SubSeqProperties
  <2> HIDE DEF w
  <2> QED BY <1>1, <2>2
<1> HIDE DEF v, w
<1>6. /\ Append(v, b) \in Seq(Byte) /\ Len(Append(v, b)) = Len(v) + 1
      /\ \A k \in 1 .. Len(v) : Append(v, b)[k] = v[k]
      /\ Append(v, b)[Len(v) + 1] = b
  BY <1>2, AppendProperties
<1>7. ASSUME NEW k \in 1 .. n + 1 - p PROVE w[k] = Append(v, b)[k]
  <2>1. p <= n
    BY DEF n
  <2>2. CASE k = n + 1 - p
    BY <1>1, <1>2, <1>5, <1>6, <2>1, <2>2
  <2>3. CASE k # n + 1 - p
    BY <1>1, <1>2, <1>4, <1>5, <1>6, <2>1, <2>3
  <2> QED BY <2>2, <2>3
<1>8. w = Append(v, b)
  <2>1. Len(w) = Len(Append(v, b)) /\ Len(w) = n + 1 - p
    BY <1>1, <1>2, <1>3, <1>6 DEF n
  <2> QED BY <1>3, <1>6, <1>7, <2>1, SeqEqual
<1> QED BY <1>1, <1>8 DEF u, v, w, n

(* The first of some places stays the first when one behind them is found. *)
LEMMA FirstStays ==
  ASSUME NEW A, A \subseteq Nat, A # {}, NEW m \in Nat, \A x \in A : x < m,
         NEW B, A \subseteq B, B \subseteq A \cup {m}
  PROVE  Framing!Min(B) = Framing!Min(A)
<1>1. Min(A) \in A /\ \A y \in A : Min(A) <= y
  BY MinProperties
<1>2. B \subseteq Nat /\ B # {}
  OBVIOUS
<1>3. Min(B) \in B /\ \A y \in B : Min(B) <= y
  BY <1>2, MinProperties
<1>4. Min(B) = Min(A)
  <2>1. PICK x \in Nat : x = Min(A) /\ x \in A /\ \A y \in A : x <= y
    BY <1>1
  <2>2. PICK z \in Nat : z = Min(B) /\ z \in B /\ \A y \in B : z <= y
    BY <1>2, <1>3
  <2> QED BY <2>1, <2>2
<1> QED BY <1>4 DEF Framing!Min, Min

(* Where a field was found, it stays.                                      *)
LEMMA ExtentStays ==
  ASSUME NEW t \in Templates, NEW i \in DOMAIN t, NEW size \in UInt16,
         NEW s \in Seq(Byte), NEW b \in Byte, NEW a \in Nat, NEW n \in Nat,
         Framing!Extent(t, i, size, s) = {<<a, n>>}
  PROVE  Framing!Extent(t, i, size, Append(s, b)) = {<<a, n>>}
<1>1. PICK N \in Nat : N = Len(s)
  BY LenProperties
<1>2. PICK u \in Seq(Byte), M \in Nat : u = Append(s, b) /\ M = Len(u) /\ M = N + 1
  <2>1. /\ Append(s, b) \in Seq(Byte) /\ Len(Append(s, b)) = N + 1
    BY <1>1, AppendProperties
  <2>2. PICK M \in Nat : M = N + 1
    OBVIOUS
  <2> QED BY <2>1, <2>2
<1>3. size \in Nat
  BY SizesAreNumbers
<1>4. \A p, q \in Nat : 1 <= p /\ q <= N => SubSeq(u, p, q) = SubSeq(s, p, q)
  BY <1>1, <1>2, SliceStays
<1>5. CASE t[i].isHeaderValue
  <2> DEFINE A == {k \in 0 .. N - size : SubSeq(s, k + 1, k + size) = t[i].value}
             B == {k \in 0 .. M - size : SubSeq(u, k + 1, k + size) = t[i].value}
  <2>1. Framing!Extent(t, i, size, s) = IF A = {} THEN {} ELSE {<<Framing!Min(A), size>>}
    BY <1>1, <1>5 DEF Framing!Extent
  <2>2. Framing!Extent(t, i, size, u) = IF B = {} THEN {} ELSE {<<Framing!Min(B), size>>}
    BY <1>2, <1>5 DEF Framing!Extent
  <2>3. A \subseteq Nat /\ \A x \in A : x < N + 1 - size
    BY <1>3
  <2>4. \A k \in 0 .. N - size : SubSeq(u, k + 1, k + size) = SubSeq(s, k + 1, k + size)
    <3> TAKE k \in 0 .. N - size
    <3>1. k + 1 \in Nat /\ k + size \in Nat /\ 1 <= k + 1 /\ k + size <= N
      BY <1>3
    <3> QED BY <1>4, <3>1
  <2>5. ASSUME NEW k \in A PROVE k \in B
    <3>1. k \in 0 .. N - size /\ SubSeq(s, k + 1, k + size) = t[i].value
      OBVIOUS
    <3>2. k \in 0 .. M - size
      BY <1>2, <1>3, <3>1
    <3>3. SubSeq(u, k + 1, k + size) = t[i].value
      BY <2>4, <3>1
    <3> QED BY <3>2, <3>3
  <2>6. ASSUME NEW k \in B PROVE k \in A \cup {N + 1 - size}
    <3>1. k \in 0 .. M - size /\ SubSeq(u, k + 1, k + size) = t[i].value
      OBVIOUS
    <3>2. k \in 0 .. N - size \/ k = N + 1 - size
      BY <1>2, <1>3, <3>1
    <3>3. k \in 0 .. N - size => SubSeq(s, k + 1, k + size) = t[i].value
      BY <2>4, <3>1
    <3> QED BY <3>2, <3>3
  <2> HIDE DEF A, B
  <2>7. A # {}
    BY <2>1
  <2>8. N + 1 - size \in Nat
    <3>1. PICK x \in A : TRUE
      BY <2>7
    <3>2. x \in Nat /\ x < N + 1 - size
      BY <2>3
    <3> QED BY <1>3, <3>2
  <2>9. A \subseteq B /\ B \subseteq A \cup {N + 1 - size}
    BY <2>5, <2>6
  <2>10. Framing!Min(B) = Framing!Min(A)
    <3>1. PICK m \in Nat : m = N + 1 - size
      BY <2>8
    <3>2. A \subseteq Nat /\ \A x \in A : x < m
      BY <2>3, <3>1
    <3>3. A \subseteq B /\ B \subseteq A \cup {m}
      BY <2>9, <3>1
    <3> QED BY <2>7, <3>2, <3>3, FirstStays
  <2> QED BY <1>2, <2>1, <2>2, <2>7, <2>9, <2>10
<1>6. CASE ~t[i].isHeaderValue /\ t[i].sizer # NoSizer
  <2> DEFINE A == {k \in 1 .. N : k >= size /\ ~SizeCalc(t[i].sizer, SubSeq(s, 1, k)).more}
             B == {k \in 1 .. M : k >= size /\ ~SizeCalc(t[i].sizer, SubSeq(u, 1, k)).more}
             r == SizeCalc(t[i].sizer, SubSeq(s, 1, Framing!Min(A)))
             q == SizeCalc(t[i].sizer, SubSeq(u, 1, Framing!Min(B)))
  <2>1. Framing!Extent(t, i, size, s) = IF A = {} THEN {} ELSE {<<r.consumed, r.size>>}
    BY <1>1, <1>6 DEF Framing!Extent
  <2>2. Framing!Extent(t, i, size, u) = IF B = {} THEN {} ELSE {<<q.consumed, q.size>>}
    BY <1>2, <1>6 DEF Framing!Extent
  <2>3. A \subseteq Nat /\ A \subseteq 1 .. N /\ \A x \in A : x < N + 1
    OBVIOUS
  <2>4. \A k \in 1 .. N : SubSeq(u, 1, k) = SubSeq(s, 1, k)
    <3> TAKE k \in 1 .. N
    <3>1. 1 \in Nat /\ k \in Nat /\ 1 <= 1 /\ k <= N
      OBVIOUS
    <3> QED BY <1>4, <3>1
  <2>5. ASSUME NEW k \in A PROVE k \in B
    <3>1. k \in 1 .. N /\ k >= size /\ ~SizeCalc(t[i].sizer, SubSeq(s, 1, k)).more
      OBVIOUS
    <3>2. k \in 1 .. M
      BY <1>2, <3>1
    <3>3. SubSeq(u, 1, k) = SubSeq(s, 1, k)
      BY <2>4, <3>1
    <3>4. ~SizeCalc(t[i].sizer, SubSeq(u, 1, k)).more
      BY <3>1, <3>3
    <3> QED BY <3>1, <3>2, <3>4
  <2>6. ASSUME NEW k \in B PROVE k \in A \cup {N + 1}
    <3>1. k \in 1 .. M /\ k >= size /\ ~SizeCalc(t[i].sizer, SubSeq(u, 1, k)).more
      OBVIOUS
    <3>2. k \in 1 .. N \/ k = N + 1
      BY <1>2, <3>1
    <3>3. ASSUME k \in 1 .. N PROVE k \in A
      <4>1. SubSeq(u, 1, k) = SubSeq(s, 1, k)
        BY <2>4, <3>3
      <4>2. ~SizeCalc(t[i].sizer, SubSeq(s, 1, k)).more
        BY <3>1, <4>1
      <4> QED BY <3>1, <3>3, <4>2
    <3> QED BY <3>2, <3>3
  <2> HIDE DEF A, B
  <2>7. A # {}
    BY <2>1
  <2>8. A \subseteq B /\ B \subseteq A \cup {N + 1}
    BY <2>5, <2>6
  <2>9. Min(A) \in A
    BY <2>3, <2>7, MinProperties
  <2>10. Framing!Min(B) = Framing!Min(A) /\ Framing!Min(A) \in 1 .. N
    <3>1. N + 1 \in Nat
      OBVIOUS
    <3> QED BY <2>3, <2>7, <2>8, <2>9, <3>1, FirstStays DEF Framing!Min, Min
  <2>11. q = r
    BY <2>4, <2>10
  <2> HIDE DEF q, r
  <2> QED BY <1>2, <2>1, <2>2, <2>7, <2>8, <2>11
<1>7. CASE ~t[i].isHeaderValue /\ t[i].sizer = NoSizer
  BY <1>7 DEF Framing!Extent
<1> QED BY <1>5, <1>6, <1>7

(* The same is known with one more byte behind.                            *)
Longer(k, b) ==
  [fields |-> k.fields, size |-> k.size, gone |-> k.gone, rest |-> Append(k.rest, b)]

LEMMA ReadingParts ==
  ASSUME NEW t, NEW k \in Reading(t)
  PROVE  /\ k.fields \in Packet(t) /\ k.size \in [DOMAIN t -> UInt16]
         /\ k.gone \subseteq DOMAIN t /\ k.rest \in Seq(Byte)
         /\ k = [fields |-> k.fields, size |-> k.size, gone |-> k.gone, rest |-> k.rest]
BY DEF Reading

LEMMA LongerType ==
  ASSUME NEW t, NEW k \in Reading(t), NEW b \in Byte
  PROVE  Longer(k, b) \in Reading(t)
<1>1. Append(k.rest, b) \in Seq(Byte)
  BY ReadingParts, AppendProperties
<1> QED BY <1>1, ReadingParts DEF Longer, Reading

LEMMA PassesStays ==
  ASSUME NEW t \in Templates, NEW i \in DOMAIN t, NEW k, NEW m, Passes(t, k, i, m),
         NEW b \in Byte
  PROVE  Passes(t, Longer(k, b), i, Longer(m, b))
<1>1. k \in Reading(t) /\ m \in Reading(t)
  BY DEF Passes
<1>2. Longer(k, b) \in Reading(t) /\ Longer(m, b) \in Reading(t)
  BY <1>1, LongerType
<1>3. /\ Longer(k, b).gone = k.gone /\ Longer(k, b).size = k.size
      /\ Longer(k, b).fields = k.fields /\ Longer(k, b).rest = Append(k.rest, b)
  BY DEF Longer
<1>4. CASE i \in k.gone
  BY <1>2, <1>3, <1>4 DEF Passes
<1>5. CASE i \notin k.gone
  <2>1. PICK a \in Nat, n \in Nat :
          /\ Framing!Extent(t, i, k.size[i], k.rest) = {<<a, n>>}
          /\ a + n <= Len(k.rest)
          /\ m = Framing!Past(t, k, i, a, n)
    BY <1>5 DEF Passes
  <2>2. k.rest \in Seq(Byte) /\ k.size[i] \in UInt16
    BY <1>1, ReadingParts
  <2>3. Framing!Extent(t, i, k.size[i], Append(k.rest, b)) = {<<a, n>>}
    BY <2>1, <2>2, ExtentStays
  <2>4. Len(Append(k.rest, b)) = Len(k.rest) + 1 /\ Len(k.rest) \in Nat
    BY <2>2, AppendProperties, LenProperties
  <2>5. Framing!Past(t, Longer(k, b), i, a, n) = Longer(m, b)
    <3> DEFINE s == k.rest
    <3>1. SubSeq(Append(s, b), a + 1, a + n) = SubSeq(s, a + 1, a + n)
      <4>1. a + 1 \in Nat /\ a + n \in Nat /\ 1 <= a + 1
        OBVIOUS
      <4> QED BY <2>1, <2>2, <4>1, SliceStays
    <3>2. SubSeq(Append(s, b), a + n + 1, Len(Append(s, b))) = Append(SubSeq(s, a + n + 1, Len(s)), b)
      <4>1. a + n \in Nat
        OBVIOUS
      <4> QED BY <2>1, <2>2, <4>1, RestGrows
    <3>3. Framing!Bytes(Longer(k, b), a, n) = Framing!Bytes(k, a, n)
      BY <1>3, <3>1 DEF Framing!Bytes
    <3> HIDE DEF s
    <3> QED BY <1>3, <2>1, <3>2, <3>3 DEF Framing!Past, Longer, s
  <2>6. a + n <= Len(Append(k.rest, b))
    BY <2>1, <2>4
  <2> QED BY <1>2, <1>3, <1>5, <2>3, <2>5, <2>6 DEF Passes
<1> QED BY <1>4, <1>5

LEMMA UnreadType ==
  ASSUME NEW t \in Templates, NEW bytes \in Seq(Byte)
  PROVE  Framing!Unread(t, bytes) \in Reading(t)
<1>1. [i \in {} |-> <<>>] \in Packet(t)
  <2>1. [i \in {} |-> <<>>] \in [{} -> Seq(Byte)] /\ {} \in SUBSET DOMAIN t
    OBVIOUS
  <2> QED BY <2>1 DEF Packet
<1>2. [i \in DOMAIN t |-> t[i].size] \in [DOMAIN t -> UInt16]
  <2>1. \A i \in DOMAIN t : t[i].size \in UInt16
    BY Fields, FieldParts
  <2> QED BY <2>1
<1> QED BY <1>1, <1>2 DEF Framing!Unread, Reading

LEMMA PathGrows ==
  ASSUME NEW t \in Templates, NEW bytes \in Seq(Byte), NEW i \in 0 .. Len(t), NEW h,
         Path(t, bytes, i, h), NEW b \in Byte
  PROVE  Path(t, Append(bytes, b), i, [j \in 0 .. i |-> Longer(h[j], b)])
<1> DEFINE g == [j \in 0 .. i |-> Longer(h[j], b)]
<1>1. Len(t) \in Nat /\ DOMAIN t = 1 .. Len(t) /\ i \in Nat
  BY Fields
<1>2. \A j \in 0 .. i : g[j] = Longer(h[j], b)
  OBVIOUS
<1> HIDE DEF g
<1>3. g[0] = Framing!Unread(t, Append(bytes, b))
  <2>1. 0 \in 0 .. i /\ h[0] = Framing!Unread(t, bytes)
    BY <1>1 DEF Path
  <2>2. g[0] = Longer(Framing!Unread(t, bytes), b)
    BY <1>2, <2>1
  <2> QED BY <2>2 DEF Longer, Framing!Unread
<1>4. g[0] \in Reading(t)
  BY <1>3, UnreadType, AppendProperties
<1>5. ASSUME NEW j \in 1 .. i PROVE Passes(t, g[j - 1], j, g[j])
  <2>1. j \in DOMAIN t /\ j \in 0 .. i /\ j - 1 \in 0 .. i
    BY <1>1
  <2>2. Passes(t, h[j - 1], j, h[j])
    BY DEF Path
  <2> QED BY <1>2, <2>1, <2>2, PassesStays
<1> QED BY <1>3, <1>4, <1>5 DEF Path, g

-----------------------------------------------------------------------------
(* One byte after the other.                                               *)

(* What the function in Found is at n, when it is g.                       *)
FoundAt(g, t, bytes, n) ==
  IF n = 0 THEN [open |-> <<>>, packets |-> <<>>]
  ELSE Framing!AfterByte(t, g[n - 1], bytes[n])

LEMMA FoundExists ==
  ASSUME NEW t, NEW bytes, NEW N \in Nat
  PROVE  \E g : g = [n \in 0 .. N |-> FoundAt(g, t, bytes, n)]
<1> DEFINE S == {n \in Nat : \E g : g = [i \in 0 .. n |-> FoundAt(g, t, bytes, i)]}
<1>1. 0 \in S
  <2> DEFINE g == [i \in 0 .. 0 |-> [open |-> <<>>, packets |-> <<>>]]
  <2>1. g = [i \in 0 .. 0 |-> FoundAt(g, t, bytes, i)]
    BY DEF FoundAt
  <2> QED BY <2>1
<1>2. ASSUME NEW n \in S PROVE n + 1 \in S
  <2>1. PICK g : g = [i \in 0 .. n |-> FoundAt(g, t, bytes, i)]
    OBVIOUS
  <2> DEFINE h == [i \in 0 .. n + 1 |-> IF i = n + 1 THEN FoundAt(g, t, bytes, n + 1) ELSE g[i]]
  <2>2. ASSUME NEW i \in 0 .. n + 1 PROVE h[i] = FoundAt(h, t, bytes, i)
    <3>1. n \in Nat /\ (i = 0 \/ i - 1 \in 0 .. n)
      OBVIOUS
    <3>2. i # 0 => h[i - 1] = g[i - 1]
      BY <3>1
    <3>3. FoundAt(h, t, bytes, i) = FoundAt(g, t, bytes, i)
      BY <3>2 DEF FoundAt
    <3>4. CASE i = n + 1
      BY <3>3, <3>4
    <3>5. CASE i # n + 1
      <4>1. i \in 0 .. n
        BY <3>1, <3>5
      <4>2. g[i] = FoundAt(g, t, bytes, i)
        BY <2>1, <4>1
      <4> QED BY <4>2, <3>3, <3>5
    <3> QED BY <3>4, <3>5
  <2> HIDE DEF h
  <2>3. h = [i \in 0 .. n + 1 |-> h[i]]
    BY DEF h
  <2>4. h = [i \in 0 .. n + 1 |-> FoundAt(h, t, bytes, i)]
    BY <2>2, <2>3
  <2> QED BY <2>4
<1>3. S = Nat
  <2> HIDE DEF S
  <2>1. S \in SUBSET Nat
    BY DEF S
  <2> QED BY <1>1, <1>2, <2>1, FromZero
<1> QED BY <1>3

LEMMA FoundSteps ==
  ASSUME NEW t, NEW bytes, Len(bytes) \in Nat
  PROVE  /\ Framing!Found(t, bytes)[0] = [open |-> <<>>, packets |-> <<>>]
         /\ \A n \in 1 .. Len(bytes) :
              Framing!Found(t, bytes)[n]
                = Framing!AfterByte(t, Framing!Found(t, bytes)[n - 1], bytes[n])
<1> DEFINE F(u) == u = [n \in 0 .. Len(bytes) |->
                          IF n = 0 THEN [open |-> <<>>, packets |-> <<>>]
                          ELSE Framing!AfterByte(t, u[n - 1], bytes[n])]
           e == CHOOSE u : F(u)
<1>1. Len(bytes) \in Nat
  OBVIOUS
<1>2. F(e)
  <2>1. PICK g : g = [n \in 0 .. Len(bytes) |-> FoundAt(g, t, bytes, n)]
    <3>1. PICK N \in Nat : N = Len(bytes)
      BY <1>1
    <3>2. \E g : g = [n \in 0 .. N |-> FoundAt(g, t, bytes, n)]
      BY FoundExists
    <3> QED BY <3>1, <3>2
  <2>2. F(g)
    BY <2>1 DEF FoundAt
  <2> HIDE DEF F
  <2> QED BY <2>2
<1>3. Framing!Found(t, bytes) = e
  BY DEF Framing!Found
<1> HIDE DEF e
<1>4. ASSUME NEW n \in 0 .. Len(bytes)
      PROVE  e[n] = IF n = 0 THEN [open |-> <<>>, packets |-> <<>>]
                    ELSE Framing!AfterByte(t, e[n - 1], bytes[n])
  BY <1>2, Zenon
<1> HIDE DEF F
<1>5. e[0] = [open |-> <<>>, packets |-> <<>>]
  <2>1. 0 \in 0 .. Len(bytes)
    BY <1>1
  <2> QED BY <1>4, <2>1
<1>6. ASSUME NEW n \in 1 .. Len(bytes)
      PROVE  e[n] = Framing!AfterByte(t, e[n - 1], bytes[n])
  <2>1. n \in 0 .. Len(bytes) /\ n # 0
    BY <1>1
  <2> QED BY <1>4, <2>1
<1> QED BY <1>3, <1>5, <1>6

(* The packets of a stream and the bytes behind them.                      *)
Seen(t, bytes) == Framing!Found(t, bytes)[Len(bytes)]

LEMMA SeenNothing ==
  ASSUME NEW t
  PROVE  Seen(t, <<>>) = [open |-> <<>>, packets |-> <<>>]
<1>1. <<>> \in Seq(Byte) /\ Len(<<>>) = 0
  BY EmptySeq
<1> QED BY <1>1, LenProperties, FoundSteps DEF Seen

LEMMA SeenMore ==
  ASSUME NEW t, NEW bytes \in Seq(Byte), NEW b \in Byte
  PROVE  Seen(t, Append(bytes, b)) = Framing!AfterByte(t, Seen(t, bytes), b)
<1>1. PICK N \in Nat : N = Len(bytes)
  BY LenProperties
<1>2. PICK u \in Seq(Byte) :
        /\ u = Append(bytes, b) /\ Len(u) = N + 1 /\ u[N + 1] = b
        /\ \A k \in 1 .. N : u[k] = bytes[k]
  <2>1. /\ Append(bytes, b) \in Seq(Byte)
        /\ Len(Append(bytes, b)) = N + 1
        /\ Append(bytes, b)[N + 1] = b
        /\ \A k \in 1 .. N : Append(bytes, b)[k] = bytes[k]
    BY <1>1, AppendProperties
  <2> QED BY <2>1
<1> DEFINE f == Framing!Found(t, bytes)
           g == Framing!Found(t, u)
<1>3. /\ f[0] = [open |-> <<>>, packets |-> <<>>]
      /\ \A n \in 1 .. N : f[n] = Framing!AfterByte(t, f[n - 1], bytes[n])
  BY <1>1, LenProperties, FoundSteps
<1>4. /\ g[0] = [open |-> <<>>, packets |-> <<>>]
      /\ \A n \in 1 .. N + 1 : g[n] = Framing!AfterByte(t, g[n - 1], u[n])
  <2>1. Len(u) \in Nat /\ Len(u) = N + 1
    BY <1>2
  <2> HIDE <1>2
  <2> QED BY <2>1, FoundSteps
<1> HIDE DEF f, g
<1>5. g[N] = f[N]
  <2> DEFINE S == {n \in Nat : n <= N => g[n] = f[n]}
  <2>1. 0 \in S
    BY <1>3, <1>4
  <2>2. ASSUME NEW n \in S PROVE n + 1 \in S
    <3> SUFFICES ASSUME n + 1 <= N PROVE g[n + 1] = f[n + 1]
      OBVIOUS
    <3>1. n \in Nat /\ g[n] = f[n] /\ n + 1 \in 1 .. N /\ n + 1 \in 1 .. N + 1 /\ (n + 1) - 1 = n
      OBVIOUS
    <3>2. g[n + 1] = Framing!AfterByte(t, g[n], u[n + 1])
      BY <1>4, <3>1
    <3>3. f[n + 1] = Framing!AfterByte(t, f[n], bytes[n + 1])
      BY <1>3, <3>1
    <3>4. u[n + 1] = bytes[n + 1]
      BY <1>2, <3>1
    <3> QED BY <3>1, <3>2, <3>3, <3>4
  <2>3. S = Nat
    <3>1. S \in SUBSET Nat
      OBVIOUS
    <3> HIDE DEF S
    <3> QED BY <2>1, <2>2, <3>1, FromZero
  <2> QED BY <2>3
<1>6. g[N + 1] = Framing!AfterByte(t, g[N], u[N + 1])
  <2>1. N + 1 \in 1 .. N + 1 /\ (N + 1) - 1 = N
    OBVIOUS
  <2> QED BY <1>4, <2>1
<1> QED BY <1>1, <1>2, <1>5, <1>6 DEF Seen, f, g

(* A byte that completes no packet, and one that does.                     *)
LEMMA SeenOpen ==
  ASSUME NEW t, NEW s \in Seq(Byte), NEW b \in Byte, NEW open, NEW found,
         Seen(t, s) = [open |-> open, packets |-> found],
         Framing!Read(t, Append(open, b)) = {}
  PROVE  Seen(t, Append(s, b)) = [open |-> Append(open, b), packets |-> found]
BY SeenMore DEF Framing!AfterByte

LEMMA SeenPacket ==
  ASSUME NEW t, NEW s \in Seq(Byte), NEW b \in Byte, NEW open, NEW found, NEW m,
         Seen(t, s) = [open |-> open, packets |-> found],
         Framing!Read(t, Append(open, b)) = {m}
  PROVE  Seen(t, Append(s, b)) = [open |-> <<>>, packets |-> Append(found, m.fields)]
<1>1. (CHOOSE x \in {m} : TRUE) = m
  OBVIOUS
<1> DEFINE so == [open |-> open, packets |-> found]
<1>2. so.open = open /\ so.packets = found
  OBVIOUS
<1>3. Seen(t, Append(s, b)) = Framing!AfterByte(t, so, b)
  BY SeenMore
<1> HIDE DEF so
<1>4. {m} # {}
  OBVIOUS
<1>5. Framing!Read(t, Append(so.open, b)) = {m}
  BY <1>2
<1> QED BY <1>1, <1>2, <1>3, <1>4, <1>5 DEF Framing!AfterByte

-----------------------------------------------------------------------------
(* One field more.                                                         *)

(* The fields a rule is about, as the dissector finds them.                *)
LEMMA CalledFields ==
  ASSUME NEW t, NEW i \in DOMAIN t
  PROVE  /\ Framing!Called(t, t[i].determinesSizeOf) = {j \in DOMAIN t : Determines(t, i, j)}
         /\ Framing!Called(t, t[i].sizeDeterminesExistenceOf) = {j \in DOMAIN t : Removes(t, i, j)}
BY DEF Framing!Called, Determines, Removes

LEMMA SliceType ==
  ASSUME NEW s \in Seq(Byte), NEW a \in Nat, NEW n \in Nat, a + n <= Len(s)
  PROVE  /\ SubSeq(s, a + 1, a + n) \in Seq(Byte)
         /\ Len(SubSeq(s, a + 1, a + n)) = n
         /\ \A k \in 1 .. n : SubSeq(s, a + 1, a + n)[k] = s[a + k]
<1>1. Len(s) \in Nat /\ \A k \in 1 .. Len(s) : s[k] \in Byte
  BY LenProperties, ElementOfSeq
<1>2. a + 1 \in Int /\ a + n \in Int /\ \A k \in a + 1 .. a + n : s[k] \in Byte
  BY <1>1
<1>3. /\ SubSeq(s, a + 1, a + n) \in Seq(Byte)
      /\ Len(SubSeq(s, a + 1, a + n)) = IF a + 1 <= a + n THEN (a + n) - (a + 1) + 1 ELSE 0
      /\ \A k \in 1 .. (a + n) - (a + 1) + 1 : SubSeq(s, a + 1, a + n)[k] = s[(a + 1) + k - 1]
  BY <1>2, SubSeqProperties
<1>4. (a + n) - (a + 1) + 1 = n /\ \A k \in 1 .. n : (a + 1) + k - 1 = a + k
  OBVIOUS
<1>5. n = 0 \/ a + 1 <= a + n
  OBVIOUS
<1>6. n = 0 => ~(a + 1 <= a + n)
  OBVIOUS
<1>7. PICK w : w = SubSeq(s, a + 1, a + n)
  OBVIOUS
<1>8. w \in Seq(Byte) /\ Len(w) = n
  BY <1>3, <1>4, <1>5, <1>6, <1>7
<1>9. \A k \in 1 .. n : w[k] = s[a + k]
  BY <1>3, <1>4, <1>7
<1> QED BY <1>7, <1>8, <1>9

LEMMA WithType ==
  ASSUME NEW t, NEW p \in Packet(t), NEW i \in DOMAIN t, NEW v \in Seq(Byte)
  PROVE  Framing!With(p, i, v) \in Packet(t)
<1>1. PICK D \in SUBSET DOMAIN t : p \in [D -> Seq(Byte)]
  BY DEF Packet
<1>2. Framing!With(p, i, v) \in [D \cup {i} -> Seq(Byte)]
  BY <1>1 DEF Framing!With
<1>3. D \cup {i} \in SUBSET DOMAIN t
  OBVIOUS
<1> QED BY <1>2, <1>3 DEF Packet

(* What is known after a field.                                            *)
Knows(t, k, i, a, n, v, m) ==
  /\ m \in Reading(t) /\ v \in Seq(Byte) /\ Len(v) = n
  /\ m.fields = Framing!With(k.fields, i, v)
  /\ \A j \in DOMAIN t :
       m.size[j] = IF Determines(t, i, j)
                   THEN ToUInt16(Low16(v) + t[i].sizeOffset) ELSE k.size[j]
  /\ m.gone = k.gone \cup {j \in DOMAIN t : Removes(t, i, j) /\ Zero(v)}
  /\ m.rest = SubSeq(k.rest, a + n + 1, Len(k.rest))

LEMMA PastParts ==
  ASSUME NEW t \in Templates, NEW k \in Reading(t), NEW i \in DOMAIN t,
         NEW a \in Nat, NEW n \in Nat, a + n <= Len(k.rest),
         \A j \in DOMAIN t : Determines(t, i, j) => n # 0,
         NEW v, v = SubSeq(k.rest, a + 1, a + n),
         NEW m, m = Framing!Past(t, k, i, a, n)
  PROVE  Knows(t, k, i, a, n, v, m)
<1>1. /\ k.fields \in Packet(t) /\ k.size \in [DOMAIN t -> UInt16]
      /\ k.gone \subseteq DOMAIN t /\ k.rest \in Seq(Byte)
  BY ReadingParts
<1>2. v \in Seq(Byte) /\ Len(v) = n
  BY <1>1, SliceType
<1>3. /\ m.fields = Framing!With(k.fields, i, v)
      /\ m.size = Framing!Sized(t, k.size, i, v)
      /\ m.gone = k.gone \cup Framing!Removed(t, i, v)
      /\ m.rest = SubSeq(k.rest, a + n + 1, Len(k.rest))
      /\ m = [fields |-> m.fields, size |-> m.size, gone |-> m.gone, rest |-> m.rest]
  BY DEF Framing!Past, Framing!Bytes
<1>4. /\ DOMAIN m.size = DOMAIN t
      /\ \A j \in DOMAIN t :
           m.size[j] = IF Determines(t, i, j)
                       THEN ToUInt16(Low16(v) + t[i].sizeOffset) ELSE k.size[j]
      /\ m.size = [j \in DOMAIN t |-> m.size[j]]
  <2>1. Framing!Number(v) = Low16(v)
    BY DEF Framing!Number, Low16
  <2> QED BY <1>3, <2>1, CalledFields DEF Framing!Sized, ToUInt16
<1>5. m.size \in [DOMAIN t -> UInt16]
  <2>1. ASSUME NEW j \in DOMAIN t PROVE m.size[j] \in UInt16
    <3>1. CASE Determines(t, i, j)
      <4>1. Low16(v) \in Nat
        BY <1>2, <3>1, Low16Type
      <4>2. t[i].sizeOffset \in Int
        BY Fields, FieldParts
      <4>3. Low16(v) + t[i].sizeOffset \in Int
        BY <4>1, <4>2
      <4> QED BY <1>4, <3>1, <4>3, ToUInt16Type
    <3>2. CASE ~Determines(t, i, j)
      BY <1>1, <1>4, <3>2
    <3> QED BY <3>1, <3>2
  <2> QED BY <1>4, <2>1
<1>6. m.gone = k.gone \cup {j \in DOMAIN t : Removes(t, i, j) /\ Zero(v)}
  BY <1>3, CalledFields DEF Framing!Removed, Zero
<1>7. m.rest \in Seq(Byte)
  <2>1. a + n \in Nat
    OBVIOUS
  <2> QED BY <1>1, <1>3, <2>1, RestType
<1>8. m.fields \in Packet(t)
  <2>1. PICK p \in Packet(t), x \in Seq(Byte) : p = k.fields /\ x = v
    BY <1>1, <1>2
  <2>2. Framing!With(p, i, x) \in Packet(t)
    BY WithType
  <2> QED BY <1>3, <2>1, <2>2
<1>9. m \in Reading(t)
  <2>1. m.gone \in SUBSET DOMAIN t
    BY <1>1, <1>6
  <2> QED BY <1>3, <1>5, <1>7, <1>8, <2>1 DEF Reading
<1> QED BY <1>2, <1>3, <1>4, <1>6, <1>9 DEF Knows

(* A path ends where k is known, and goes on.                              *)
PathTo(t, bytes, i, k) == \E h : Path(t, bytes, i, h) /\ h[i] = k

LEMMA PathExtends ==
  ASSUME NEW t, NEW bytes, NEW i \in Nat, NEW k, PathTo(t, bytes, i, k),
         NEW m, Passes(t, k, i + 1, m)
  PROVE  PathTo(t, bytes, i + 1, m)
<1>0. PICK h : Path(t, bytes, i, h) /\ h[i] = k
  BY DEF PathTo
<1> DEFINE g == [j \in 0 .. i + 1 |-> IF j = i + 1 THEN m ELSE h[j]]
<1>1. /\ g[0] = h[0] /\ g[i] = h[i] /\ g[i + 1] = m
      /\ \A j \in 1 .. i : g[j] = h[j] /\ g[j - 1] = h[j - 1]
  OBVIOUS
<1> HIDE DEF g
<1>2. ASSUME NEW j \in 1 .. i + 1 PROVE Passes(t, g[j - 1], j, g[j])
  <2>1. CASE j = i + 1
    <3>1. j - 1 = i
      BY <2>1
    <3> QED BY <1>0, <1>1, <2>1, <3>1
  <2>2. CASE j # i + 1
    <3>1. j \in 1 .. i
      BY <2>2
    <3>2. Passes(t, h[j - 1], j, h[j])
      BY <1>0, <3>1 DEF Path
    <3> QED BY <1>1, <3>1, <3>2
  <2> QED BY <2>1, <2>2
<1>3. Path(t, bytes, i + 1, g)
  BY <1>0, <1>1, <1>2 DEF Path
<1> QED BY <1>1, <1>3 DEF PathTo

-----------------------------------------------------------------------------
(* What the dissector has read, and what is known on the path.             *)

(* Fields 1 .. i are behind: d has read them, or they are empty.           *)
ReadTo(d, i) == d.done \cup {j \in d.stack : j <= i}

(* The size of a field with a callback stays, the callback tells another.  *)
At(t, d, i, k) ==
  /\ k \in Reading(t)
  /\ d.done \subseteq 1 .. i
  /\ k.fields = [x \in ReadTo(d, i) |-> d.value[x]]
  /\ k.gone = DOMAIN t \ (d.stack \cup d.done)
  /\ \A j \in d.stack :
       i < j => k.size[j] = IF t[j].sizer = NoSizer THEN d.size[j] ELSE t[j].size

(* Reading the fields 1 .. i of bytes ends where d is, with rest behind.   *)
Reaches(t, d, bytes, i, rest) ==
  \E k : PathTo(t, bytes, i, k) /\ At(t, d, i, k) /\ k.rest = rest

(* Nothing is read of an empty field.                                      *)
LEMMA EmptyPasses ==
  ASSUME NEW t \in Templates, WellFormed(t), NEW d \in Current(t), Consistent(t, d),
         NEW i \in Nat, i + 1 \in d.stack, CertainlyZeroSized(d, i + 1),
         t[i + 1].sizer = NoSizer, NEW k, At(t, d, i, k)
  PROVE  \E m : Passes(t, k, i + 1, m) /\ At(t, d, i + 1, m) /\ m.rest = k.rest
<1> DEFINE j == i + 1
<1>1. /\ k \in Reading(t) /\ j \in DOMAIN t /\ i < j /\ j \in d.stack
      /\ d.done \subseteq 1 .. i
      /\ k.size[j] = 0
  <2>1. d.size[j] = 0
    BY DEF CertainlyZeroSized
  <2> QED BY <2>1, CurrentParts DEF At
<1>2. /\ \A y : ~Determines(t, j, y) /\ ~Removes(t, j, y)
      /\ ~t[j].isHeaderValue /\ d.value[j] = <<>>
  BY EmptyFieldHasNoRule
<1> HIDE DEF j
<1>3. k.rest \in Seq(Byte) /\ k.fields \in Packet(t)
  BY <1>1, ReadingParts
<1>13. PICK z \in Nat : z = 0
  OBVIOUS
<1>4. PICK m : m = Framing!Past(t, k, j, z, z)
  OBVIOUS
<1>5. PICK v : v = SubSeq(k.rest, z + 1, z + z)
  OBVIOUS
<1>6. z + z <= Len(k.rest) /\ Len(k.rest) \in Nat
  BY <1>3, <1>13, LenProperties
<1>7. /\ m \in Reading(t) /\ v \in Seq(Byte) /\ Len(v) = z
      /\ m.fields = Framing!With(k.fields, j, v)
      /\ \A y \in DOMAIN t :
           m.size[y] = IF Determines(t, j, y)
                       THEN ToUInt16(Low16(v) + t[j].sizeOffset) ELSE k.size[y]
      /\ m.gone = k.gone \cup {y \in DOMAIN t : Removes(t, j, y) /\ Zero(v)}
      /\ m.rest = SubSeq(k.rest, z + z + 1, Len(k.rest))
  <2>1. \A y \in DOMAIN t : Determines(t, j, y) => z # 0
    BY <1>2
  <2>2. Knows(t, k, j, z, z, v, m)
    BY <1>1, <1>4, <1>5, <1>6, <2>1, PastParts
  <2> QED BY <2>2 DEF Knows
<1>8. v = <<>>
  BY <1>7, <1>13, EmptySeq
<1>9. m.rest = k.rest
  <2>1. z + z + 1 = 1
    BY <1>13
  <2>2. SubSeq(k.rest, 1, Len(k.rest)) = k.rest
    <3>1. PICK s \in Seq(Byte), M \in Nat : s = k.rest /\ M = Len(s)
      BY <1>3, LenProperties
    <3>2. SubSeq(s, 1, Len(s)) \in Seq(Byte) /\ Len(SubSeq(s, 1, Len(s))) = M
          /\ \A x \in 1 .. M : SubSeq(s, 1, Len(s))[x] = s[x]
      <4>1. 0 + M <= Len(s) /\ 0 + 1 = 1 /\ 0 + M = Len(s) /\ \A x \in 1 .. M : 0 + x = x
        BY <3>1
      <4> QED BY <4>1, SliceType
    <3> QED BY <3>1, <3>2, SeqEqual
  <2> QED BY <1>7, <2>1, <2>2
<1>10. m.gone = k.gone /\ \A y \in DOMAIN t : m.size[y] = k.size[y]
  BY <1>2, <1>7
<1>11. Passes(t, k, j, m)
  <2>1. j \notin k.gone
    BY <1>1 DEF At
  <2>2. Framing!Extent(t, j, k.size[j], k.rest) = {<<0, 0>>}
    BY <1>1, <1>2 DEF Framing!Extent, j
  <2>3. Framing!Extent(t, j, k.size[j], k.rest) = {<<z, z>>}
    BY <1>13, <2>2
  <2> QED BY <1>1, <1>4, <1>6, <1>7, <2>1, <2>3 DEF Passes
<1>12. At(t, d, j, m)
  <2>1. m.fields = [x \in ReadTo(d, j) |-> d.value[x]]
    <3>1. k.fields = [x \in ReadTo(d, i) |-> d.value[x]]
      BY DEF At
    <3>2. ReadTo(d, j) = ReadTo(d, i) \cup {j}
      <4>1. \A x \in d.stack : x <= j <=> x <= i \/ x = j
        <5>1. \A x \in d.stack : x \in Nat
          BY CurrentParts, Fields
        <5> QED BY <5>1 DEF j
      <4> QED BY <1>1, <4>1 DEF ReadTo
    <3>3. m.fields = [x \in DOMAIN k.fields \cup {j} |-> IF x = j THEN v ELSE k.fields[x]]
      BY <1>7 DEF Framing!With
    <3>4. \A x \in ReadTo(d, j) : (IF x = j THEN v ELSE k.fields[x]) = d.value[x]
      BY <1>2, <1>8, <3>1, <3>2
    <3> QED BY <3>1, <3>2, <3>3, <3>4
  <2>2. d.done \subseteq 1 .. j
    BY <1>1 DEF j
  <2>3. \A y \in d.stack :
          j < y => m.size[y] = IF t[y].sizer = NoSizer THEN d.size[y] ELSE t[y].size
    <3> SUFFICES ASSUME NEW y \in d.stack, j < y
                 PROVE  m.size[y] = IF t[y].sizer = NoSizer THEN d.size[y] ELSE t[y].size
      OBVIOUS
    <3>1. y \in DOMAIN t /\ y \in Nat
      BY CurrentParts, Fields
    <3>2. i < y
      BY <3>1 DEF j
    <3> QED BY <1>10, <3>1, <3>2 DEF At
  <2>4. m.gone = DOMAIN t \ (d.stack \cup d.done)
    BY <1>10 DEF At
  <2> QED BY <1>7, <2>1, <2>2, <2>3, <2>4 DEF At
<1> QED BY <1>9, <1>11, <1>12 DEF j

(* Nor of one that was removed.                                            *)
LEMMA GonePasses ==
  ASSUME NEW t \in Templates, NEW d \in Current(t), NEW i \in Nat, i + 1 \in DOMAIN t,
         i + 1 \notin d.stack, NEW k, At(t, d, i, k)
  PROVE  Passes(t, k, i + 1, k) /\ At(t, d, i + 1, k)
<1>1. i + 1 \in k.gone /\ k \in Reading(t)
  BY DEF At
<1>2. \A x \in d.stack : x \in Nat /\ (x <= i + 1 <=> x <= i) /\ (i + 1 < x => i < x)
  BY CurrentParts, Fields
<1>3. ReadTo(d, i + 1) = ReadTo(d, i)
  BY <1>2 DEF ReadTo
<1>4. d.done \subseteq 1 .. i + 1
  BY DEF At
<1> QED BY <1>1, <1>2, <1>3, <1>4 DEF At, Passes

(* Between two fields that are read the path goes on by itself.            *)
LEMMA ReachesOver ==
  ASSUME NEW t \in Templates, WellFormed(t), NEW d \in Current(t), Consistent(t, d),
         NEW bytes, NEW rest, NEW i \in Nat, NEW n \in Nat, i <= n, n <= Len(t),
         Reaches(t, d, bytes, i, rest),
         \A j \in d.stack : i < j /\ j <= n => CertainlyZeroSized(d, j) /\ t[j].sizer = NoSizer
  PROVE  Reaches(t, d, bytes, n, rest)
<1> DEFINE S == {x \in Nat : i + x <= n => Reaches(t, d, bytes, i + x, rest)}
<1>0. Len(t) \in Nat /\ DOMAIN t = 1 .. Len(t)
  BY Fields
<1>1. 0 \in S
  <2>1. i + 0 = i
    OBVIOUS
  <2> QED BY <2>1
<1>2. ASSUME NEW x \in S PROVE x + 1 \in S
  <2>1. PICK y \in Nat : y = i + x
    OBVIOUS
  <2>2. i + (x + 1) = y + 1 /\ x + 1 \in Nat
    BY <2>1
  <2> SUFFICES ASSUME y + 1 <= n PROVE Reaches(t, d, bytes, y + 1, rest)
    BY <2>2
  <2>3. Reaches(t, d, bytes, y, rest)
    BY <2>1
  <2>4. PICK k : PathTo(t, bytes, y, k) /\ At(t, d, y, k) /\ k.rest = rest
    BY <2>3 DEF Reaches
  <2>5. y + 1 \in DOMAIN t
    BY <1>0, <2>1
  <2>6. PICK m : Passes(t, k, y + 1, m) /\ At(t, d, y + 1, m) /\ m.rest = rest
    <3>1. CASE y + 1 \in d.stack
      <4>1. i < y + 1
        BY <2>1
      <4>2. CertainlyZeroSized(d, y + 1) /\ t[y + 1].sizer = NoSizer
        BY <3>1, <4>1
      <4> QED BY <2>4, <3>1, <4>2, EmptyPasses
    <3>2. CASE y + 1 \notin d.stack
      BY <2>4, <2>5, <3>2, GonePasses
    <3> QED BY <3>1, <3>2
  <2>7. PathTo(t, bytes, y + 1, m)
    BY <2>4, <2>6, PathExtends
  <2> QED BY <2>6, <2>7 DEF Reaches
<1>3. S = Nat
  <2>1. S \in SUBSET Nat
    OBVIOUS
  <2> HIDE DEF S
  <2> QED BY <1>1, <1>2, <2>1, FromZero
<1>4. PICK x \in Nat : i + x = n
  <2>1. n - i \in Nat /\ i + (n - i) = n
    OBVIOUS
  <2> QED BY <2>1
<1>5. i + x <= n => Reaches(t, d, bytes, i + x, rest)
  BY <1>3
<1> HIDE DEF S
<1> QED BY <1>4, <1>5

-----------------------------------------------------------------------------
(* Empty fields leave the stack, and the path passes over them.            *)

Emptied(d, e, z) ==
  /\ z \subseteq d.stack
  /\ \A i \in z : CertainlyZeroSized(d, i)
  /\ \A i \in z, j \in d.stack : j < i => j \in z
  /\ e.stack = d.stack \ z /\ e.done = d.done \cup z /\ e.size = d.size
  /\ e.unsized = d.unsized /\ e.value = d.value

LEMMA DrainEmpties ==
  ASSUME NEW t \in Templates, NEW d \in Current(t)
  PROVE  \E z : Emptied(d, DrainEmpty(d), z)
<1> DEFINE z == {i \in d.stack : \A j \in d.stack : j <= i => CertainlyZeroSized(d, j)}
           e == DrainEmpty(d)
<1>1. /\ e.stack = d.stack \ z /\ e.done = d.done \cup z /\ e.size = d.size
      /\ e.unsized = d.unsized /\ e.value = d.value
  BY DEF DrainEmpty, Parts
<1>3. d.stack \subseteq Nat
  BY CurrentParts, TemplateDomain
<1>4. z \subseteq d.stack
  OBVIOUS
<1>5. \A i \in z : CertainlyZeroSized(d, i)
  BY <1>3
<1>6. \A i \in z, j \in d.stack : j < i => j \in z
  <2> SUFFICES ASSUME NEW i \in z, NEW j \in d.stack, j < i
               PROVE  \A k \in d.stack : k <= j => CertainlyZeroSized(d, k)
    OBVIOUS
  <2> TAKE k \in d.stack
  <2>1. k <= j => k <= i
    BY <1>3
  <2> QED BY <2>1
<1> HIDE DEF z, e
<1>7. Emptied(d, e, z)
  BY <1>1, <1>4, <1>5, <1>6 DEF Emptied
<1> QED BY <1>7 DEF e

LEMMA SkipEmpties ==
  ASSUME NEW t \in Templates, WellFormed(t), NEW d \in Current(t), Consistent(t, d)
  PROVE  \E z : Emptied(d, SkipEmptyTop(d), z)
<1> DEFINE e == SkipEmptyTop(d)
<1>1. CASE d.stack # {} /\ CertainlyZeroSized(d, Top(d))
  <2> DEFINE z == {Top(d)}
  <2>1. Top(d) \in d.stack /\ \A j \in d.stack : Top(d) <= j
    BY <1>1, TopProperties
  <2>2. d.stack \subseteq Nat
    BY CurrentParts, TemplateDomain
  <2>3. d.value[Top(d)] = <<>>
    BY <1>1, <2>1, EmptyFieldHasNoRule
  <2>4. [d.value EXCEPT ![Top(d)] = <<>>] = d.value
    BY <2>3, CurrentParts
  <2>5. /\ e.stack = d.stack \ z /\ e.done = d.done \cup z /\ e.size = d.size
        /\ e.unsized = d.unsized /\ e.value = d.value
    BY <1>1, <2>4 DEF SkipEmptyTop, Push, Parts
  <2>6. \A i \in z, j \in d.stack : j < i => j \in z
    BY <2>1, <2>2
  <2>7. z \subseteq d.stack /\ \A i \in z : CertainlyZeroSized(d, i)
    BY <1>1, <2>1
  <2> HIDE DEF z, e
  <2>8. Emptied(d, e, z)
    BY <2>5, <2>6, <2>7 DEF Emptied
  <2> QED BY <2>8 DEF e
<1>2. CASE ~(d.stack # {} /\ CertainlyZeroSized(d, Top(d)))
  <2>1. e = d
    BY <1>2 DEF SkipEmptyTop
  <2> HIDE DEF e
  <2>2. Emptied(d, e, {})
    BY <2>1 DEF Emptied
  <2> QED BY <2>2 DEF e
<1> QED BY <1>1, <1>2

(* The callbacks of the fields to come are still set, or all but the top's.*)
Callbacks(t, S, d) == \A j \in S : t[j].sizer # NoSizer => j \in d.unsized

(* The last field before the one on top.                                   *)
Before(t, d) == IF d.stack = {} THEN Len(t) ELSE Top(d) - 1

LEMMA Drained ==
  ASSUME NEW t \in Templates, WellFormed(t), NEW d \in Current(t), Consistent(t, d),
         NEW e \in Current(t), NEW z, Emptied(d, e, z), Callbacks(t, d.stack, d),
         NEW i \in Nat, i <= Len(t), \A j \in d.stack : i < j,
         NEW bytes, NEW rest, Reaches(t, d, bytes, i, rest)
  PROVE  Reaches(t, e, bytes, Before(t, e), rest) /\ Callbacks(t, e.stack, e)
<1>1. /\ Len(t) \in Nat /\ DOMAIN t = 1 .. Len(t)
      /\ \A j \in d.stack : j \in Nat /\ j <= Len(t)
      /\ \A j \in e.stack : j \in Nat /\ j \in d.stack
  BY Fields, CurrentParts DEF Emptied
<1>2. e.stack # {} => Top(e) \in e.stack /\ \A j \in e.stack : Top(e) <= j
  BY TopProperties
<1>3. PICK n \in Nat : n = Before(t, e) /\ i <= n /\ n <= Len(t)
  <2>1. CASE e.stack = {}
    <3>1. Before(t, e) = Len(t)
      BY <2>1 DEF Before
    <3>2. PICK N \in Nat : N = Len(t)
      BY <1>1
    <3>3. i <= N
      BY <3>2
    <3> QED BY <3>1, <3>2, <3>3
  <2>2. CASE e.stack # {}
    <3>1. Top(e) \in Nat /\ i < Top(e) /\ Top(e) <= Len(t)
      BY <1>1, <1>2, <2>2
    <3>2. Top(e) - 1 \in Nat /\ i <= Top(e) - 1 /\ Top(e) - 1 <= Len(t)
      BY <1>1, <3>1
    <3> QED BY <2>2, <3>2 DEF Before
  <2> QED BY <2>1, <2>2
<1>4. \A j \in d.stack : j <= n <=> j \in z
  <2> TAKE j \in d.stack
  <2>1. CASE e.stack = {}
    <3>1. n = Len(t)
      BY <1>3, <2>1 DEF Before
    <3> QED BY <1>1, <2>1, <3>1 DEF Emptied
  <2>2. CASE e.stack # {}
    <3>1. n = Top(e) - 1 /\ Top(e) \in Nat /\ Top(e) \in e.stack
      BY <1>1, <1>2, <1>3, <2>2 DEF Before
    <3>2. j \notin z => Top(e) <= j
      BY <1>2, <2>2 DEF Emptied
    <3>3. j \in z => j < Top(e)
      <4>1. Top(e) \in d.stack /\ Top(e) \notin z
        BY <3>1 DEF Emptied
      <4>2. j \in z => ~(Top(e) < j)
        BY <4>1 DEF Emptied
      <4> QED BY <1>1, <3>1, <4>1, <4>2
    <3>4. j \in Nat
      BY <1>1
    <3> QED BY <3>1, <3>2, <3>3, <3>4
  <2> QED BY <2>1, <2>2
<1>5. \A j \in z : t[j].sizer = NoSizer /\ CertainlyZeroSized(d, j)
  BY DEF Emptied, Callbacks, CertainlyZeroSized
<1>6. Reaches(t, d, bytes, n, rest)
  <2>1. \A j \in d.stack : i < j /\ j <= n => CertainlyZeroSized(d, j) /\ t[j].sizer = NoSizer
    BY <1>4, <1>5
  <2> QED BY <1>3, <2>1, ReachesOver
<1>7. PICK k : PathTo(t, bytes, n, k) /\ At(t, d, n, k) /\ k.rest = rest
  BY <1>6 DEF Reaches
<1>8. At(t, e, n, k)
  <2>1. ReadTo(e, n) = ReadTo(d, n)
    <3>1. \A j \in e.stack : ~(j <= n)
      BY <1>1, <1>4 DEF Emptied
    <3> QED BY <1>4, <3>1 DEF ReadTo, Emptied
  <2>2. e.stack \cup e.done = d.stack \cup d.done
    BY DEF Emptied
  <2>3. \A j \in e.done : j \in 1 .. n
    <3>1. \A j \in z : j \in 1 .. n
      <4>1. \A j \in z : j \in d.stack /\ j \in DOMAIN t
        BY CurrentParts DEF Emptied
      <4> QED BY <1>1, <1>4, <4>1
    <3>2. \A j \in d.done : j \in 1 .. n
      BY <1>7 DEF At
    <3> QED BY <3>1, <3>2 DEF Emptied
  <2>4. \A j \in e.stack :
          n < j => k.size[j] = IF t[j].sizer = NoSizer THEN e.size[j] ELSE t[j].size
    BY <1>1, <1>7 DEF At, Emptied
  <2>5. k.fields = [x \in ReadTo(e, n) |-> e.value[x]]
    BY <1>7, <2>1 DEF At, Emptied
  <2>6. e.done \subseteq 1 .. n
    BY <2>3
  <2> QED BY <1>7, <2>2, <2>4, <2>5, <2>6 DEF At
<1>9. Callbacks(t, e.stack, e)
  BY DEF Callbacks, Emptied
<1> QED BY <1>3, <1>7, <1>8, <1>9 DEF Reaches

-----------------------------------------------------------------------------
(* Half a packet.                                                          *)

Told(t, d, j) == IF t[j].sizer = NoSizer THEN d.size[j] ELSE t[j].size
Nowhere(t, d, rest) == Framing!Extent(t, Top(d), Told(t, d, Top(d)), rest) = {}
Located(t, d, rest, c, n) == Framing!Extent(t, Top(d), Told(t, d, Top(d)), rest) = {<<c, n>>}

(* Behind the fields that are read, c bytes are passed over and the others *)
(* held: for a callback, for a field that is not all there, or in search   *)
(* of a header.                                                            *)
Awaiting(t, d, rest, bytes, c) ==
  /\ c <= Len(rest) /\ bytes = SubSeq(rest, c + 1, Len(rest))
  /\ \/ Top(d) \in d.unsized /\ c = 0 /\ Nowhere(t, d, rest)
     \/ /\ Top(d) \notin d.unsized
        /\ Located(t, d, rest, c, d.size[Top(d)]) /\ Len(bytes) < d.size[Top(d)]
     \/ /\ Top(d) \notin d.unsized /\ t[Top(d)].isHeaderValue
        /\ Nowhere(t, d, rest) /\ (c = 0 \/ Len(bytes) = d.size[Top(d)] - 1)

(* Of the bytes in no packet yet the dissector has made what it should.    *)
Half(t, d, bytes, open) ==
  /\ d.stack # {}
  /\ Callbacks(t, d.stack \ {Top(d)}, d)
  /\ \E rest \in Seq(Byte), c \in Nat :
       Reaches(t, d, open, Top(d) - 1, rest) /\ Awaiting(t, d, rest, bytes, c)

(* They are no packet.                                                     *)
LEMMA HalfUnread ==
  ASSUME NEW t \in Templates, NEW d \in Current(t), NEW bytes, NEW open,
         Half(t, d, bytes, open)
  PROVE  Framing!Read(t, open) = {}
<1>1. PICK rest \in Seq(Byte), c \in Nat :
        Reaches(t, d, open, Top(d) - 1, rest) /\ Awaiting(t, d, rest, bytes, c)
  BY DEF Half
<1>2. PICK i : i = Top(d) /\ i \in 1 .. Len(t) /\ i \in d.stack /\ i \in Nat
  BY TopProperties, Fields DEF Half
<1>3. PICK k : PathTo(t, open, i - 1, k) /\ At(t, d, i - 1, k) /\ k.rest = rest
  BY <1>1, <1>2 DEF Reaches
<1>4. k.size[i] = Told(t, d, i) /\ i \notin k.gone
  BY <1>2, <1>3 DEF At, Told
<1>5. Framing!ReadField(t, k, i) = {}
  <2> DEFINE E == {x \in Framing!Extent(t, i, k.size[i], k.rest) : x[1] + x[2] <= Len(k.rest)}
  <2>1. E = {}
    <3>1. CASE Nowhere(t, d, rest)
      BY <1>2, <1>3, <1>4, <3>1 DEF Nowhere
    <3>2. CASE Located(t, d, rest, c, d.size[i]) /\ Len(bytes) < d.size[i]
      <4>1. Framing!Extent(t, i, k.size[i], k.rest) = {<<c, d.size[i]>>}
        BY <1>2, <1>3, <1>4, <3>2 DEF Located
      <4>2. c <= Len(rest) /\ bytes = SubSeq(rest, c + 1, Len(rest)) /\ Len(rest) \in Nat
        BY <1>1, LenProperties DEF Awaiting
      <4>3. Len(bytes) = Len(rest) - c
        BY <4>2, RestType
      <4>4. d.size[i] \in Nat
        BY <1>2, CurrentParts, SizesAreNumbers
      <4>5. PICK n \in Nat : n = d.size[i]
        BY <4>4
      <4>6. ~(c + n <= Len(rest))
        BY <3>2, <4>2, <4>3, <4>5
      <4>7. \A x \in {<<c, n>>} : x[1] = c /\ x[2] = n
        OBVIOUS
      <4> QED BY <1>3, <4>1, <4>5, <4>6, <4>7
    <3> QED BY <1>1, <1>2, <3>1, <3>2 DEF Awaiting
  <2> HIDE DEF E
  <2>2. Framing!ReadField(t, k, i) = {Framing!Past(t, k, i, e[1], e[2]) : e \in E}
    BY <1>4 DEF Framing!ReadField, E
  <2> QED BY <2>1, <2>2
<1>6. PICK h : Path(t, open, i - 1, h) /\ h[i - 1] = k
  BY <1>3 DEF PathTo
<1> QED BY <1>2, <1>5, <1>6, PathEnds

(* A packet of which some fields are read, and nothing behind them is.     *)
LEMMA FreshHalf ==
  ASSUME NEW t \in Templates, WellFormed(t), NEW d \in Current(t), Consistent(t, d),
         d.stack # {}, ~CertainlyZeroSized(d, Top(d)), Callbacks(t, d.stack, d),
         NEW open, Reaches(t, d, open, Before(t, d), <<>>)
  PROVE  Half(t, d, <<>>, open)
<1>1. PICK i : i = Top(d) /\ i \in DOMAIN t /\ i \in d.stack
  BY TopProperties
<1>2. d.size[i] \in Nat /\ t[i] \in FieldDescriptor
  BY <1>1, CurrentParts, SizesAreNumbers, Fields
<1>3. <<>> \in Seq(Byte) /\ Len(<<>>) = 0 /\ SubSeq(<<>>, 0 + 1, 0) = <<>>
  BY EmptySeq
<1>4. CASE i \in d.unsized
  <2>1. t[i].sizer # NoSizer
    BY <1>4 DEF Consistent
  <2>2. ~t[i].isHeaderValue
    BY <1>1, <2>1, HeadersFixed
  <2>3. Framing!Extent(t, i, Told(t, d, i), <<>>) = {}
    <3>1. 1 .. Len(<<>>) = {}
      BY <1>3
    <3> QED BY <2>1, <2>2, <3>1 DEF Framing!Extent
  <2>4. Awaiting(t, d, <<>>, <<>>, 0)
    BY <1>1, <1>3, <1>4, <2>3 DEF Awaiting, Nowhere
  <2> QED BY <1>3, <2>4 DEF Half, Callbacks, Before
<1>5. CASE i \notin d.unsized /\ t[i].isHeaderValue
  <2>1. /\ t[i].sizer = NoSizer /\ t[i].size # 0
        /\ \A k \in DOMAIN t : ~Determines(t, k, i)
    BY <1>1, <1>5, HeadersFixed
  <2>2. d.size[i] = t[i].size
    BY <1>1, <2>1, SizeOfUnannounced
  <2>3. PICK n \in Nat : n = Told(t, d, i) /\ n # 0
    BY <1>2, <2>1, <2>2 DEF Told
  <2>4. Framing!Extent(t, i, n, <<>>) = {}
    <3>1. 0 .. Len(<<>>) - n = {}
      BY <1>3, <2>3
    <3> QED BY <1>5, <3>1 DEF Framing!Extent
  <2>5. Awaiting(t, d, <<>>, <<>>, 0)
    BY <1>1, <1>3, <1>5, <2>3, <2>4 DEF Awaiting, Nowhere
  <2> QED BY <1>3, <2>5 DEF Half, Callbacks, Before
<1>6. CASE i \notin d.unsized /\ ~t[i].isHeaderValue
  <2>1. t[i].sizer = NoSizer
    BY <1>1, <1>6 DEF Callbacks
  <2>2. 0 < d.size[i]
    BY <1>1, <1>2, <1>6 DEF CertainlyZeroSized
  <2>3. Located(t, d, <<>>, 0, d.size[i])
    BY <1>1, <1>6, <2>1 DEF Located, Told, Framing!Extent
  <2>4. Awaiting(t, d, <<>>, <<>>, 0)
    BY <1>1, <1>3, <1>6, <2>2, <2>3 DEF Awaiting
  <2> QED BY <1>3, <2>4 DEF Half, Callbacks, Before
<1> QED BY <1>4, <1>5, <1>6

(* A packet begun, of no bytes.                                            *)
LEMMA BeginHalf ==
  ASSUME NEW t \in Templates, WellFormed(t)
  PROVE  Half(t, SkipEmptyTop(NewPacket(t)), <<>>, <<>>)
<1> DEFINE d == NewPacket(t)
           e == SkipEmptyTop(d)
           k == Framing!Unread(t, <<>>)
<1>1. /\ d.stack = DOMAIN t /\ d.done = {}
      /\ d.unsized = {i \in DOMAIN t : t[i].sizer # NoSizer}
      /\ \A i \in DOMAIN t : d.size[i] = t[i].size /\ d.value[i] = <<>>
  BY DEF NewPacket, Parts
<1>2. d \in Current(t) /\ Consistent(t, d) /\ e \in Current(t) /\ Consistent(t, e)
  BY NewPacketType, NewPacketConsistent, SkipEmptyTopType, SkipConsistent
<1>3. e.stack # {} /\ ~CertainlyZeroSized(e, Top(e))
  BY NewPacketHasTop
<1>4. PICK z : Emptied(d, e, z)
  BY <1>2, SkipEmpties
<1>5. Callbacks(t, d.stack, d)
  BY <1>1 DEF Callbacks
<1> HIDE DEF d, e
<1>6. Len(t) \in Nat /\ DOMAIN t = 1 .. Len(t)
  BY Fields
<1>7. k.rest = <<>> /\ k.gone = {} /\ k.fields = [i \in {} |-> <<>>]
      /\ \A i \in DOMAIN t : k.size[i] = t[i].size
  BY DEF Framing!Unread
<1>8. k \in Reading(t)
  BY UnreadType, EmptySeq
<1> HIDE DEF k
<1>9. PathTo(t, <<>>, 0, k)
  <2> DEFINE h == [j \in 0 .. 0 |-> k]
  <2>1. h[0] = k
    OBVIOUS
  <2> HIDE DEF h
  <2>2. Path(t, <<>>, 0, h)
    BY <1>8, <2>1 DEF Path, k
  <2> QED BY <2>1, <2>2 DEF PathTo
<1>10. At(t, d, 0, k)
  <2>1. ReadTo(d, 0) = {}
    BY <1>1, <1>6 DEF ReadTo
  <2>2. k.fields = [x \in ReadTo(d, 0) |-> d.value[x]]
    BY <1>7, <2>1
  <2>3. k.gone = DOMAIN t \ (d.stack \cup d.done)
    BY <1>1, <1>7
  <2> QED BY <1>1, <1>7, <1>8, <2>2, <2>3 DEF At
<1>11. Reaches(t, d, <<>>, 0, <<>>)
  BY <1>7, <1>9, <1>10 DEF Reaches
<1>12. Reaches(t, e, <<>>, Before(t, e), <<>>) /\ Callbacks(t, e.stack, e)
  <2>1. \A j \in d.stack : 0 < j
    BY <1>1, <1>6
  <2>2. 0 \in Nat /\ 0 <= Len(t)
    BY <1>6
  <2> QED BY <1>2, <1>4, <1>5, <1>11, <2>1, <2>2, Drained
<1>13. Half(t, e, <<>>, <<>>)
  BY <1>2, <1>3, <1>12, FreshHalf
<1> QED BY <1>13 DEF d, e

-----------------------------------------------------------------------------
(* A field is all there.                                                   *)

(* What the dissector makes of a field it has read, but for empty ones.    *)
Ruled(t, d, bytes) ==
  ApplyExistenceRule(t, ApplySizeRule(t, Push(d, bytes), Top(d)), Top(d))

Off(t, d, i, bytes, e) ==
  /\ e \in Current(t) /\ Consistent(t, e)
  /\ e.stack = d.stack \ ({i} \cup {y \in DOMAIN t : Removes(t, i, y) /\ Zero(bytes)})
  /\ e.done = d.done \cup {i} /\ e.unsized = d.unsized
  /\ e.value = [d.value EXCEPT ![i] = bytes]
  /\ \A j \in DOMAIN t :
       e.size[j] = IF Determines(t, i, j)
                   THEN ToUInt16(Low16(bytes) + t[i].sizeOffset) ELSE d.size[j]

LEMMA FieldOff ==
  ASSUME NEW t \in Templates, WellFormed(t), NEW d \in Current(t), Consistent(t, d),
         d.stack # {}, NEW bytes \in Seq(Byte), Len(bytes) = d.size[Top(d)],
         t[Top(d)].isHeaderValue => t[Top(d)].value = bytes
  PROVE  Off(t, d, Top(d), bytes, Ruled(t, d, bytes))
<1> DEFINE i == Top(d)
           s == ApplySizeRule(t, Push(d, bytes), i)
           e == ApplyExistenceRule(t, s, i)
           X == {x \in DOMAIN t : Determines(t, i, x)}
           n == ToUInt16(Low16(bytes) + t[i].sizeOffset)
<1>1. i \in d.stack /\ i \in DOMAIN t
  BY TopProperties
<1>2. /\ ~ExistenceRuleThrows(t, s, i) /\ s \in Current(t)
      /\ s.stack = d.stack \ {i} /\ s.done = d.done \cup {i} /\ s.unsized = d.unsized
      /\ s.value = [d.value EXCEPT ![i] = bytes]
      /\ \A j \in DOMAIN t : s.size[j] = IF j \in X THEN n ELSE d.size[j]
      /\ SizeBytes(t, s, i) = bytes
  <2> DEFINE p == Push(d, bytes)
  <2>1. /\ p.stack = d.stack \ {i} /\ p.done = d.done \cup {i}
        /\ p.unsized = d.unsized /\ p.value = [d.value EXCEPT ![i] = bytes]
    BY DEF Push, Parts
  <2>2. /\ ~ExistenceRuleThrows(t, s, i) /\ s \in Current(t)
        /\ s.stack = p.stack /\ s.done = p.done /\ s.unsized = p.unsized
        /\ s.value = p.value
        /\ \A j \in DOMAIN t : s.size[j] = IF j \in X THEN n ELSE d.size[j]
        /\ SizeBytes(t, s, i) = bytes
    BY RulesApply
  <2> HIDE DEF p, s, i, X, n
  <2> QED BY <2>1, <2>2
<1>3. e \in Current(t) /\ Consistent(t, e)
  BY FieldConsistent
<1>4. \A j \in DOMAIN t : Removes(t, i, j) => Len(bytes) \in {1, 2, 4}
  <2> SUFFICES ASSUME NEW j \in DOMAIN t, Removes(t, i, j) PROVE Len(bytes) \in {1, 2, 4}
    OBVIOUS
  <2>1. /\ t[i].sizer = NoSizer /\ \A k \in DOMAIN t : ~Determines(t, k, i)
        /\ t[i].size \in {1, 2, 4}
    BY <1>1, RulesNumbers
  <2>2. d.size[i] = t[i].size
    BY <1>1, <2>1, SizeOfUnannounced
  <2> QED BY <2>1, <2>2
<1>5. /\ e.stack = s.stack \ {y \in DOMAIN t : Removes(t, i, y) /\ Zero(bytes)}
      /\ e.done = s.done /\ e.size = s.size /\ e.unsized = s.unsized /\ e.value = s.value
  <2> DEFINE v == SizeBytes(t, s, i)
             Z == {y \in DOMAIN t : Removes(t, i, y) /\ Zero(v)}
             Y == {y \in DOMAIN t : Removes(t, i, y) /\ Zero(bytes)}
  <2>1. v = bytes
    BY <1>2
  <2>2. v \in Seq(Byte) /\ \A j \in DOMAIN t : Removes(t, i, j) => Len(v) \in {1, 2, 4}
    BY <2>1, <1>4
  <2>3. /\ e.stack = s.stack \ Z /\ e.done = s.done /\ e.size = s.size
        /\ e.unsized = s.unsized /\ e.value = s.value
    BY <1>1, <1>2, <2>2, ExistenceApplies
  <2>4. Z = Y
    BY <2>1
  <2> HIDE DEF Z, Y, e
  <2>5. e.stack = s.stack \ Y
    BY <2>3, <2>4
  <2> QED BY <2>3, <2>5 DEF Y
<1> HIDE DEF i, s, e, X, n
<1>6. /\ e.stack = d.stack \ ({i} \cup {y \in DOMAIN t : Removes(t, i, y) /\ Zero(bytes)})
      /\ e.done = d.done \cup {i} /\ e.unsized = d.unsized
      /\ e.value = [d.value EXCEPT ![i] = bytes]
  BY <1>2, <1>5
<1>7. \A j \in DOMAIN t :
        e.size[j] = IF Determines(t, i, j)
                    THEN ToUInt16(Low16(bytes) + t[i].sizeOffset) ELSE d.size[j]
  BY <1>2, <1>5 DEF X, n
<1> QED BY <1>3, <1>6, <1>7 DEF Off, Ruled, e, s, i

(* What the framing makes of it.                                           *)
Passed(t, k, i, e) == \E m : Passes(t, k, i, m) /\ At(t, e, i, m) /\ m.rest = <<>>

LEMMA FieldPasses ==
  ASSUME NEW t \in Templates, WellFormed(t), NEW d \in Current(t), Consistent(t, d),
         NEW i, i = Top(d), d.stack # {}, NEW rest \in Seq(Byte), NEW c \in Nat,
         c <= Len(rest), NEW held, held = SubSeq(rest, c + 1, Len(rest)),
         Len(held) = d.size[i], Located(t, d, rest, c, d.size[i]),
         t[i].isHeaderValue => t[i].value = held,
         NEW k, At(t, d, i - 1, k), k.rest = rest
  PROVE  Passed(t, k, i, Ruled(t, d, held))
<1> DEFINE e == Ruled(t, d, held)
<1>1. /\ i \in d.stack /\ i \in DOMAIN t /\ i \in Nat /\ i - 1 < i
      /\ \A j \in d.stack : j \in Nat /\ j \in DOMAIN t /\ i <= j
      /\ \A j \in d.done : j \in DOMAIN t /\ j \in Nat /\ j < i
  <2>1. i \in d.stack /\ i \in DOMAIN t /\ \A j \in d.stack : i <= j
    BY TopProperties
  <2>2. \A j \in DOMAIN t : j \in Nat
    BY Fields
  <2> QED BY <2>1, <2>2, CurrentParts DEF Consistent
<1>2. PICK n \in Nat : n = d.size[i] /\ n = Len(held) /\ c + n = Len(rest)
  <2>1. held \in Seq(Byte) /\ Len(held) = Len(rest) - c
    BY RestType
  <2>2. PICK N \in Nat : N = Len(rest)
    BY LenProperties
  <2>3. c + (N - c) = N /\ N - c \in Nat /\ Len(held) = N - c
    BY <2>1, <2>2
  <2> QED BY <2>2, <2>3
<1>3. held \in Seq(Byte)
  BY RestType
<1>4. Off(t, d, i, held, e)
  BY <1>2, <1>3, FieldOff
<1> HIDE DEF e
<1>5. k \in Reading(t) /\ i \notin k.gone /\ k.size[i] = Told(t, d, i)
  BY <1>1 DEF At, Told
<1>6. PICK m : m = Framing!Past(t, k, i, c, n)
  OBVIOUS
<1>7. Knows(t, k, i, c, n, held, m)
  <2>1. \A j \in DOMAIN t : Determines(t, i, j) => n # 0
    <3> SUFFICES ASSUME NEW j \in DOMAIN t, Determines(t, i, j) PROVE n # 0
      OBVIOUS
    <3>1. /\ t[i].sizer = NoSizer /\ \A x \in DOMAIN t : ~Determines(t, x, i)
          /\ t[i].size \in {1, 2, 4, 8}
      BY <1>1, RulesNumbers
    <3>2. d.size[i] = t[i].size
      BY <1>1, <3>1, SizeOfUnannounced
    <3> QED BY <1>2, <3>1, <3>2
  <2>2. held = SubSeq(k.rest, c + 1, c + n) /\ c + n <= Len(k.rest)
    <3>1. PICK N \in Nat : N = Len(rest)
      BY LenProperties
    <3>2. c + n = N
      BY <1>2, <3>1
    <3>3. held = SubSeq(rest, c + 1, N)
      BY <3>1
    <3>4. held = SubSeq(rest, c + 1, c + n)
      BY <3>2, <3>3
    <3>5. c + n <= Len(rest)
      BY <3>1, <3>2
    <3> QED BY <3>4, <3>5
  <2> QED BY <1>1, <1>5, <1>6, <2>1, <2>2, PastParts
<1>8. Passes(t, k, i, m)
  <2>1. Framing!Extent(t, i, k.size[i], k.rest) = {<<c, n>>}
    BY <1>2, <1>5 DEF Located
  <2>2. c + n <= Len(k.rest)
    BY <1>2, LenProperties
  <2> QED BY <1>5, <1>6, <1>7, <2>1, <2>2 DEF Passes, Knows
<1>9. m.rest = <<>>
  <2>1. m.rest = SubSeq(rest, Len(rest) + 1, Len(rest))
    BY <1>2, <1>7 DEF Knows
  <2>2. PICK N \in Nat : N = Len(rest)
    BY LenProperties
  <2>3. SubSeq(rest, N + 1, Len(rest)) \in Seq(Byte) /\ Len(SubSeq(rest, N + 1, Len(rest))) = Len(rest) - N
    BY <2>2, RestType
  <2> QED BY <2>1, <2>2, <2>3, EmptySeq
<1>10. At(t, e, i, m)
  <2>1. /\ e.done = d.done \cup {i} /\ e.value = [d.value EXCEPT ![i] = held]
        /\ e.stack = d.stack \ ({i} \cup {y \in DOMAIN t : Removes(t, i, y) /\ Zero(held)})
    BY <1>4 DEF Off
  <2>2. e.done \subseteq 1 .. i
    <3>1. \A j \in DOMAIN t : 1 <= j
      BY Fields
    <3> QED BY <1>1, <2>1, <3>1
  <2>3. \A j \in e.stack : j \in d.stack /\ ~(j <= i)
    BY <1>1, <2>1
  <2>4. ReadTo(e, i) = d.done \cup {i} /\ ReadTo(d, i - 1) = d.done
    <3>1. \A j \in d.stack : ~(j <= i - 1)
      BY <1>1
    <3> QED BY <2>1, <2>3, <3>1 DEF ReadTo
  <2>5. m.fields = [x \in ReadTo(e, i) |-> e.value[x]]
    <3>1. k.fields = [x \in d.done |-> d.value[x]]
      BY <2>4 DEF At
    <3>2. m.fields = [x \in d.done \cup {i} |-> IF x = i THEN held ELSE k.fields[x]]
      BY <1>7, <3>1 DEF Knows, Framing!With
    <3>3. \A x \in d.done \cup {i} : (IF x = i THEN held ELSE k.fields[x]) = e.value[x]
      <4>1. d.value \in [DOMAIN t -> Seq(Byte)]
        BY CurrentParts
      <4> QED BY <1>1, <2>1, <3>1, <4>1
    <3> QED BY <2>4, <3>2, <3>3
  <2>6. m.gone = DOMAIN t \ (e.stack \cup e.done)
    <3> DEFINE Y == {y \in DOMAIN t : Removes(t, i, y) /\ Zero(held)}
    <3>1. \A y \in Y : y \in DOMAIN t /\ y \notin d.done /\ y # i
      <4> SUFFICES ASSUME NEW y \in Y PROVE y \in DOMAIN t /\ y \notin d.done /\ y # i
        OBVIOUS
      <4>1. y \in DOMAIN t /\ Removes(t, i, y)
        OBVIOUS
      <4>2. i < y
        BY <1>1, <4>1, RulesAhead
      <4>3. y \in Nat
        BY <4>1, Fields
      <4> QED BY <1>1, <4>1, <4>2, <4>3
    <3>2. m.gone = k.gone \cup Y /\ k.gone = DOMAIN t \ (d.stack \cup d.done)
      BY <1>7 DEF Knows, At
    <3> HIDE DEF Y
    <3>3. e.stack = d.stack \ ({i} \cup Y)
      BY <2>1 DEF Y
    <3> QED BY <1>1, <2>1, <3>1, <3>2, <3>3
  <2>7. \A j \in e.stack :
          i < j => m.size[j] = IF t[j].sizer = NoSizer THEN e.size[j] ELSE t[j].size
    <3> SUFFICES ASSUME NEW j \in e.stack
                 PROVE  m.size[j] = IF t[j].sizer = NoSizer THEN e.size[j] ELSE t[j].size
      OBVIOUS
    <3>1. j \in d.stack /\ j \in DOMAIN t /\ i - 1 < j
      BY <1>1, <2>3
    <3>2. k.size[j] = IF t[j].sizer = NoSizer THEN d.size[j] ELSE t[j].size
      BY <3>1 DEF At
    <3>3. t[j].sizer # NoSizer => ~Determines(t, i, j)
      BY <1>1, <3>1 DEF WellFormed
    <3> QED BY <1>4, <1>7, <3>1, <3>2, <3>3 DEF Knows, Off
  <2>8. m \in Reading(t)
    BY <1>7 DEF Knows
  <2> QED BY <2>2, <2>5, <2>6, <2>7, <2>8 DEF At
<1> QED BY <1>8, <1>9, <1>10 DEF e, Passed

(* With the field behind it, the path goes on to the next that is not      *)
(* certainly empty.                                                        *)
LEMMA FieldRuns ==
  ASSUME NEW t \in Templates, WellFormed(t), NEW d \in Current(t), Consistent(t, d),
         d.stack # {}, NEW rest \in Seq(Byte), NEW c \in Nat,
         c <= Len(rest), NEW held, held = SubSeq(rest, c + 1, Len(rest)),
         Len(held) = d.size[Top(d)], Located(t, d, rest, c, d.size[Top(d)]),
         t[Top(d)].isHeaderValue => t[Top(d)].value = held,
         Callbacks(t, d.stack \ {Top(d)}, d),
         NEW open, Reaches(t, d, open, Top(d) - 1, rest)
  PROVE  /\ Reaches(t, After(t, d, held), open, Before(t, After(t, d, held)), <<>>)
         /\ Callbacks(t, After(t, d, held).stack, After(t, d, held))
<1> DEFINE w == Ruled(t, d, held)
           e == DrainEmpty(w)
<1>1. PICK i \in Nat : i = Top(d) /\ i \in DOMAIN t /\ i - 1 \in Nat /\ i <= Len(t) /\ (i - 1) + 1 = i
  <2>1. Top(d) \in DOMAIN t
    BY TopProperties
  <2> QED BY <2>1, Fields
<1>2. held \in Seq(Byte)
  BY RestType
<1>3. Off(t, d, i, held, w)
  BY <1>1, <1>2, FieldOff
<1> HIDE DEF w
<1>4. PICK k : PathTo(t, open, i - 1, k) /\ At(t, d, i - 1, k) /\ k.rest = rest
  BY <1>1 DEF Reaches
<1>5. PICK m : Passes(t, k, i, m) /\ At(t, w, i, m) /\ m.rest = <<>>
  <2>1. Passed(t, k, i, Ruled(t, d, held))
    BY <1>1, <1>4, FieldPasses
  <2> QED BY <2>1 DEF Passed, w
<1>6. PathTo(t, open, i, m)
  BY <1>1, <1>4, <1>5, PathExtends
<1>7. Reaches(t, w, open, i, <<>>)
  BY <1>5, <1>6 DEF Reaches
<1>8. /\ w \in Current(t) /\ Consistent(t, w) /\ w.unsized = d.unsized
      /\ \A j \in w.stack : j \in d.stack \ {Top(d)}
  BY <1>1, <1>3 DEF Off
<1>9. Callbacks(t, w.stack, w)
  BY <1>8 DEF Callbacks
<1>10. \A j \in w.stack : i < j
  <2>1. \A j \in d.stack : Top(d) <= j
    BY TopProperties
  <2>2. \A j \in d.stack : j \in Nat
    BY CurrentParts, Fields
  <2> QED BY <1>1, <1>8, <2>1, <2>2
<1>11. e \in Current(t) /\ Consistent(t, e)
  BY <1>8, DrainEmptyType, DrainConsistent
<1>12. PICK z : Emptied(w, e, z)
  BY <1>8, DrainEmpties
<1> HIDE DEF e
<1>13. Reaches(t, e, open, Before(t, e), <<>>) /\ Callbacks(t, e.stack, e)
  BY <1>1, <1>7, <1>8, <1>9, <1>10, <1>11, <1>12, Drained
<1> QED BY <1>13 DEF e, w, Ruled, After

-----------------------------------------------------------------------------
(* One byte of a search.                                                   *)

(* The header is not in s, unless it is the last of it.                    *)
Unseen(t, i, n, s) ==
  \A k \in Nat : k + n < Len(s) => SubSeq(s, k + 1, k + n) # t[i].value

LEMMA NowhereUnseen ==
  ASSUME NEW t, NEW i, t[i].isHeaderValue, NEW n \in Nat, NEW s \in Seq(Byte), NEW b \in Byte,
         Framing!Extent(t, i, n, s) = {}
  PROVE  Unseen(t, i, n, Append(s, b))
<1>1. PICK N \in Nat : N = Len(s) /\ Len(Append(s, b)) = N + 1
  BY AppendProperties, LenProperties
<1>2. \A k \in 0 .. N - n : SubSeq(s, k + 1, k + n) # t[i].value
  <2> DEFINE A == {k \in 0 .. N - n : SubSeq(s, k + 1, k + n) = t[i].value}
  <2>1. Framing!Extent(t, i, n, s) = IF A = {} THEN {} ELSE {<<Framing!Min(A), n>>}
    BY <1>1 DEF Framing!Extent
  <2>2. A = {}
    <3> HIDE DEF A
    <3> QED BY <2>1
  <2> QED BY <2>2
<1>3. ASSUME NEW k \in Nat, k + n < N + 1 PROVE SubSeq(Append(s, b), k + 1, k + n) # t[i].value
  <2>1. k \in 0 .. N - n /\ k + 1 \in Nat /\ k + n \in Nat /\ 1 <= k + 1 /\ k + n <= N
    BY <1>3
  <2>2. SubSeq(Append(s, b), k + 1, k + n) = SubSeq(s, k + 1, k + n)
    BY <1>1, <2>1, SliceStays
  <2> QED BY <1>2, <2>1, <2>2
<1> QED BY <1>1, <1>3 DEF Unseen

LEMMA ShortSearch ==
  ASSUME NEW t, NEW i, t[i].isHeaderValue, NEW n \in Nat, NEW s \in Seq(Byte), Len(s) < n
  PROVE  Framing!Extent(t, i, n, s) = {}
<1>1. PICK N \in Nat : N = Len(s)
  BY LenProperties
<1>2. 0 .. Len(s) - n = {}
  BY <1>1
<1> QED BY <1>2 DEF Framing!Extent

LEMMA HeaderSought ==
  ASSUME NEW t, NEW i, t[i].isHeaderValue, NEW n \in Nat, NEW s \in Seq(Byte),
         Unseen(t, i, n, s), NEW c \in Nat, c + n = Len(s)
  PROVE  Framing!Extent(t, i, n, s)
           = IF SubSeq(s, c + 1, Len(s)) = t[i].value THEN {<<c, n>>} ELSE {}
<1>1. PICK N \in Nat : N = Len(s) /\ N = c + n
  BY LenProperties
<1> DEFINE A == {k \in 0 .. N - n : SubSeq(s, k + 1, k + n) = t[i].value}
<1>2. Framing!Extent(t, i, n, s) = IF A = {} THEN {} ELSE {<<Framing!Min(A), n>>}
  BY <1>1 DEF Framing!Extent
<1>3. ASSUME NEW k \in A PROVE k = c /\ SubSeq(s, c + 1, N) = t[i].value
  <2>1. k \in Nat /\ k <= c /\ SubSeq(s, k + 1, k + n) = t[i].value
    BY <1>1
  <2>2. ~(k + n < N)
    BY <1>1, <2>1 DEF Unseen
  <2>3. k = c
    BY <1>1, <2>1, <2>2
  <2> QED BY <1>1, <2>1, <2>3
<1>4. ASSUME SubSeq(s, c + 1, N) = t[i].value PROVE c \in A
  <2>1. c \in 0 .. N - n
    BY <1>1
  <2>2. SubSeq(s, c + 1, c + n) = t[i].value
    BY <1>1, <1>4
  <2> QED BY <2>1, <2>2
<1> HIDE DEF A
<1>5. CASE SubSeq(s, c + 1, N) = t[i].value
  <2>1. A = {c}
    BY <1>3, <1>4, <1>5
  <2>2. Min(A) \in A
    <3>1. A \subseteq Nat /\ A # {}
      BY <2>1
    <3> QED BY <3>1, MinProperties
  <2>3. Framing!Min(A) = c
    BY <2>1, <2>2 DEF Framing!Min, Min
  <2> QED BY <1>1, <1>2, <1>5, <2>1, <2>3
<1>6. CASE SubSeq(s, c + 1, N) # t[i].value
  <2>1. A = {}
    BY <1>3, <1>6
  <2> QED BY <1>1, <1>2, <1>6, <2>1
<1> QED BY <1>5, <1>6

(* A callback that has refused all of s does not tell where its field is.  *)
LEMMA RefusedNowhere ==
  ASSUME NEW t, NEW i, ~t[i].isHeaderValue, t[i].sizer # NoSizer, NEW s,
         Refused(t, i, s)
  PROVE  Framing!Extent(t, i, t[i].size, s) = {}
BY DEF Refused, Framing!Extent

(* It has answered the last byte of s.                                     *)
LEMMA AnsweredThere ==
  ASSUME NEW t, NEW i, ~t[i].isHeaderValue, t[i].sizer # NoSizer, NEW s \in Seq(Byte),
         NEW b \in Byte, Refused(t, i, s), Len(Append(s, b)) >= t[i].size,
         ~SizeCalc(t[i].sizer, Append(s, b)).more
  PROVE  Framing!Extent(t, i, t[i].size, Append(s, b))
           = {<<SizeCalc(t[i].sizer, Append(s, b)).consumed, SizeCalc(t[i].sizer, Append(s, b)).size>>}
<1>1. PICK N \in Nat : N = Len(s)
  BY LenProperties
<1>2. PICK u \in Seq(Byte) : u = Append(s, b)
  BY OneMore
<1>3. /\ Len(u) = N + 1 /\ SubSeq(u, 1, N + 1) = u
      /\ \A k \in 1 .. N : SubSeq(u, 1, k) = SubSeq(s, 1, k)
  BY <1>1, <1>2, OneMore
<1> DEFINE A == {k \in 1 .. N + 1 : k >= t[i].size /\ ~SizeCalc(t[i].sizer, SubSeq(u, 1, k)).more}
           r == SizeCalc(t[i].sizer, SubSeq(u, 1, Framing!Min(A)))
<1>4. Framing!Extent(t, i, t[i].size, u) = IF A = {} THEN {} ELSE {<<r.consumed, r.size>>}
  BY <1>3 DEF Framing!Extent
<1>5. ASSUME NEW k \in A PROVE k = N + 1
  <2>1. k \in 1 .. N + 1 /\ k >= t[i].size /\ ~SizeCalc(t[i].sizer, SubSeq(u, 1, k)).more
    OBVIOUS
  <2>2. k \notin 1 .. N
    <3> SUFFICES ASSUME k \in 1 .. N PROVE FALSE
      OBVIOUS
    <3>1. SubSeq(u, 1, k) = SubSeq(s, 1, k)
      BY <1>3
    <3> QED BY <1>1, <2>1, <3>1 DEF Refused
  <2> QED BY <2>1, <2>2
<1>6. N + 1 \in A
  <2>1. N + 1 >= t[i].size
    BY <1>2, <1>3
  <2>2. ~SizeCalc(t[i].sizer, u).more
    BY <1>2
  <2>3. ~SizeCalc(t[i].sizer, SubSeq(u, 1, N + 1)).more
    BY <1>3, <2>2
  <2> QED BY <2>1, <2>3
<1> HIDE DEF A
<1>7. A = {N + 1}
  BY <1>5, <1>6
<1>8. Framing!Min(A) = N + 1
  <2>1. A \subseteq Nat /\ A # {}
    BY <1>7
  <2>2. Min(A) \in A
    BY <2>1, MinProperties
  <2> QED BY <1>7, <2>2 DEF Framing!Min, Min
<1>9. r = SizeCalc(t[i].sizer, u)
  BY <1>3, <1>8
<1> HIDE DEF r
<1> QED BY <1>2, <1>4, <1>7, <1>9

(* The same fields are read of one byte more.                              *)
LEMMA ReachesGrows ==
  ASSUME NEW t \in Templates, NEW d, NEW open \in Seq(Byte), NEW i \in 0 .. Len(t),
         NEW rest, Reaches(t, d, open, i, rest), NEW b \in Byte
  PROVE  Reaches(t, d, Append(open, b), i, Append(rest, b))
<1>1. PICK k : PathTo(t, open, i, k) /\ At(t, d, i, k) /\ k.rest = rest
  BY DEF Reaches
<1>2. PICK h : Path(t, open, i, h) /\ h[i] = k
  BY <1>1 DEF PathTo
<1> DEFINE g == [j \in 0 .. i |-> Longer(h[j], b)]
<1>3. Path(t, Append(open, b), i, g)
  BY <1>2, PathGrows
<1>4. g[i] = Longer(k, b)
  <2>1. i \in 0 .. i
    BY Fields
  <2> QED BY <1>2, <2>1
<1> HIDE DEF g
<1>5. PathTo(t, Append(open, b), i, Longer(k, b))
  BY <1>3, <1>4 DEF PathTo
<1>6. At(t, d, i, Longer(k, b))
  <2>1. Longer(k, b) \in Reading(t)
    BY <1>1, LongerType DEF At
  <2> QED BY <1>1, <2>1 DEF At, Longer
<1>7. Longer(k, b).rest = Append(rest, b)
  BY <1>1 DEF Longer
<1> QED BY <1>5, <1>6, <1>7 DEF Reaches

-----------------------------------------------------------------------------
(* One call of addByte.                                                    *)

LEMMA AllOfIt ==
  ASSUME NEW s \in Seq(Byte)
  PROVE  SubSeq(s, 1, Len(s)) = s
<1>1. PICK N \in Nat : N = Len(s)
  BY LenProperties
<1>2. /\ SubSeq(s, 0 + 1, 0 + N) \in Seq(Byte) /\ Len(SubSeq(s, 0 + 1, 0 + N)) = N
      /\ \A x \in 1 .. N : SubSeq(s, 0 + 1, 0 + N)[x] = s[0 + x]
  <2>1. PICK z \in Nat : z = 0
    OBVIOUS
  <2>2. z + N <= Len(s)
    BY <1>1, <2>1
  <2>3. /\ SubSeq(s, z + 1, z + N) \in Seq(Byte) /\ Len(SubSeq(s, z + 1, z + N)) = N
        /\ \A x \in 1 .. N : SubSeq(s, z + 1, z + N)[x] = s[z + x]
    BY <2>2, SliceType
  <2> QED BY <2>1, <2>3
<1>3. PICK w \in Seq(Byte) : w = SubSeq(s, 1, N) /\ Len(w) = N /\ \A x \in 1 .. N : w[x] = s[x]
  <2>1. 0 + 1 = 1 /\ 0 + N = N /\ \A x \in 1 .. N : 0 + x = x
    OBVIOUS
  <2> QED BY <1>2, <2>1
<1>4. w = s
  BY <1>1, <1>3, SeqEqual
<1> QED BY <1>1, <1>3, <1>4

(* A callback has told a size: the same fields are behind.                 *)
LEMMA ReachesSized ==
  ASSUME NEW t, NEW d, NEW e, e.stack = d.stack, e.done = d.done, e.value = d.value,
         \A j \in d.stack : t[j].sizer = NoSizer => e.size[j] = d.size[j],
         NEW open, NEW i, NEW rest, Reaches(t, d, open, i, rest)
  PROVE  Reaches(t, e, open, i, rest)
<1>1. PICK k : PathTo(t, open, i, k) /\ At(t, d, i, k) /\ k.rest = rest
  BY DEF Reaches
<1>2. ReadTo(e, i) = ReadTo(d, i)
  BY DEF ReadTo
<1>3. At(t, e, i, k)
  BY <1>1, <1>2 DEF At
<1> QED BY <1>1, <1>3 DEF Reaches

(* Between two calls, half a packet.                                       *)
Halfway(S, open) ==
  /\ TypeOK /\ WellFormed(template) /\ Consistent(template, cur)
  /\ Waiting(template, cur, buffer)
  /\ SizerContract(template, S) /\ HandedFrom(S)
  /\ open \in Seq(Byte) /\ Half(template, Prepared, buffer, open)

LEMMA HalfwayParts ==
  ASSUME NEW S, NEW open, Halfway(S, open)
  PROVE  /\ template \in Templates /\ buffer \in Seq(Byte)
         /\ Prepared \in Current(template) /\ Consistent(template, Prepared)
         /\ Prepared.stack # {} /\ TooFew(template, Prepared, buffer)
         /\ Top(Prepared) \in Prepared.stack /\ Top(Prepared) \in DOMAIN template
         /\ Top(Prepared) \in Nat /\ Top(Prepared) - 1 \in 0 .. Len(template)
<1>1. template \in Templates /\ buffer \in Seq(Byte)
  BY DEF Halfway, TypeOK
<1>2. /\ Prepared \in Current(template) /\ Consistent(template, Prepared)
      /\ Prepared.stack # {} /\ TooFew(template, Prepared, buffer)
  BY PreparedType, PreparedConsistent, PreparedTakes DEF Halfway
<1>3. Top(Prepared) \in Prepared.stack /\ Top(Prepared) \in DOMAIN template
  BY <1>1, <1>2, TopProperties
<1>4. Top(Prepared) \in Nat /\ Top(Prepared) - 1 \in 0 .. Len(template)
  BY <1>1, <1>3, Fields
<1> QED BY <1>1, <1>2, <1>3, <1>4

(* What is behind the fields that are read, with one more byte.            *)
Behind(b, open, rest, c) ==
  /\ rest \in Seq(Byte) /\ c \in Nat /\ c <= Len(rest) /\ buffer = SubSeq(rest, c + 1, Len(rest))
  /\ Awaiting(template, Prepared, rest, buffer, c)
  /\ Reaches(template, Prepared, open, Top(Prepared) - 1, rest)
  /\ Append(rest, b) \in Seq(Byte) /\ c <= Len(Append(rest, b))
  /\ Append(buffer, b) = SubSeq(Append(rest, b), c + 1, Len(Append(rest, b)))
  /\ Reaches(template, Prepared, Append(open, b), Top(Prepared) - 1, Append(rest, b))

LEMMA HalfwayBehind ==
  ASSUME NEW S, NEW open, Halfway(S, open), NEW b \in Byte
  PROVE  \E rest, c : Behind(b, open, rest, c)
<1>1. PICK rest \in Seq(Byte), c \in Nat :
        /\ Reaches(template, Prepared, open, Top(Prepared) - 1, rest)
        /\ Awaiting(template, Prepared, rest, buffer, c)
  BY DEF Halfway, Half
<1>2. c <= Len(rest) /\ buffer = SubSeq(rest, c + 1, Len(rest))
  BY <1>1 DEF Awaiting
<1>3. Append(buffer, b) = SubSeq(Append(rest, b), c + 1, Len(Append(rest, b)))
  BY <1>2, RestGrows
<1>4. Append(rest, b) \in Seq(Byte) /\ c <= Len(Append(rest, b))
  <2>1. PICK N \in Nat : N = Len(rest)
    BY LenProperties
  <2>2. Append(rest, b) \in Seq(Byte) /\ Len(Append(rest, b)) = N + 1
    BY <2>1, AppendProperties
  <2>3. c <= N
    BY <1>2, <2>1
  <2>4. c <= N + 1
    BY <2>3
  <2> QED BY <2>2, <2>4
<1>5. Reaches(template, Prepared, Append(open, b), Top(Prepared) - 1, Append(rest, b))
  <2>1. template \in Templates /\ Top(Prepared) - 1 \in 0 .. Len(template) /\ open \in Seq(Byte)
    BY HalfwayParts DEF Halfway
  <2> QED BY <1>1, <2>1, ReachesGrows
<1> QED BY <1>1, <1>2, <1>3, <1>4, <1>5 DEF Behind

(* The callback waits.                                                     *)
LEMMA AwaitSizeHalf ==
  ASSUME NEW S, NEW open, Halfway(S, open), NEW b \in Byte, AwaitSize(b)
  PROVE  Half(template, Prepared, Append(buffer, b), Append(open, b))
<1>1. PICK rest, c : Behind(b, open, rest, c)
  BY HalfwayBehind
<1>2. PICK i : i = Top(Prepared)
  OBVIOUS
<1>3. /\ template \in Templates /\ i \in DOMAIN template /\ Consistent(template, Prepared)
      /\ TooFew(template, Prepared, buffer) /\ WellFormed(template) /\ Prepared.stack # {}
  BY <1>2, HalfwayParts DEF Halfway
<1>4. i \in Prepared.unsized
  BY <1>2 DEF AwaitSize
<1>5. template[i].sizer # NoSizer
  BY <1>3, <1>4 DEF Consistent
<1>6. ~template[i].isHeaderValue
  BY <1>3, <1>5, HeadersFixed
<1>7. c = 0
  BY <1>1, <1>2, <1>4 DEF Behind, Awaiting
<1>8. PICK u \in Seq(Byte) : u = Append(rest, b) /\ SubSeq(u, 1, Len(u)) = u
  BY <1>1, AllOfIt DEF Behind
<1>9. Append(buffer, b) = u
  <2>1. c + 1 = 1
    BY <1>7
  <2>2. Append(buffer, b) = SubSeq(u, c + 1, Len(u))
    BY <1>1, <1>8 DEF Behind
  <2> QED BY <1>8, <2>1, <2>2
<1>10. Waiting(template, Prepared, Append(buffer, b))
  BY AwaitSizeWaits DEF Halfway
<1>11. Refused(template, i, u)
  BY <1>2, <1>3, <1>4, <1>9, <1>10 DEF Waiting, TooFew
<1>12. Nowhere(template, Prepared, u)
  BY <1>2, <1>5, <1>6, <1>11, RefusedNowhere DEF Nowhere, Told
<1>13. Awaiting(template, Prepared, u, Append(buffer, b), c)
  BY <1>1, <1>2, <1>4, <1>7, <1>8, <1>12 DEF Awaiting, Behind
<1>14. Reaches(template, Prepared, Append(open, b), Top(Prepared) - 1, u)
  BY <1>1, <1>8 DEF Behind
<1>15. c \in Nat
  BY <1>1 DEF Behind
<1>16. Callbacks(template, Prepared.stack \ {Top(Prepared)}, Prepared)
  BY DEF Halfway, Half
<1> QED BY <1>3, <1>13, <1>14, <1>15, <1>16 DEF Half

(* The size of the field on top is known: its bytes begin where they       *)
(* should, or a header has not been found before the last bytes.           *)
Fronted(b, open, rest, c) ==
  /\ rest \in Seq(Byte) /\ c \in Nat /\ c <= Len(rest)
  /\ Held(b) = SubSeq(rest, c + 1, Len(rest))
  /\ Reaches(template, Resolved(b), Append(open, b), Top(Resolved(b)) - 1, rest)
  /\ \/ Located(template, Resolved(b), rest, c, Need(b))
     \/ /\ template[Top(Resolved(b))].isHeaderValue
        /\ Told(template, Resolved(b), Top(Resolved(b))) = Need(b)
        /\ Unseen(template, Top(Resolved(b)), Need(b), rest)
        /\ c = 0 \/ Len(Held(b)) = Need(b)

Lies(t, i, size, s, a, n) == Framing!Extent(t, i, size, s) = {<<a, n>>}

LEMMA LiesThere ==
  ASSUME NEW t, NEW i, NEW size, NEW s, NEW b, NEW a, NEW n,
         t \in Templates, i \in DOMAIN t, size \in UInt16, s \in Seq(Byte), b \in Byte,
         a \in Nat, n \in Nat, Lies(t, i, size, s, a, n)
  PROVE  Lies(t, i, size, Append(s, b), a, n)
BY ExtentStays DEF Lies

LEMMA KnownFront ==
  ASSUME NEW S, NEW open, Halfway(S, open), NEW b \in Byte, SizeKnown(b),
         Top(Prepared) \notin Prepared.unsized
  PROVE  \E rest, c : Fronted(b, open, rest, c)
<1>1. PICK rest, c : Behind(b, open, rest, c)
  BY HalfwayBehind
<1>2. PICK i : i = Top(Prepared)
  OBVIOUS
<1>3. /\ template \in Templates /\ i \in DOMAIN template /\ buffer \in Seq(Byte)
      /\ Prepared \in Current(template) /\ WellFormed(template)
  BY <1>2, HalfwayParts DEF Halfway
<1>4. Resolved(b) = Prepared /\ Held(b) = Append(buffer, b) /\ Need(b) = Prepared.size[i]
  BY <1>2 DEF Resolved, Held, TakeSize, Unread, Callable, Need
<1>5. PICK u \in Seq(Byte) : u = Append(rest, b)
  BY <1>1 DEF Behind
<1>6. PICK n \in Nat : n = Prepared.size[i] /\ n \in UInt16
  <2>1. Prepared.size[i] \in UInt16
    BY <1>3, CurrentParts
  <2> QED BY <2>1, SizesAreNumbers
<1>7. /\ c \in Nat /\ c <= Len(u) /\ Append(buffer, b) = SubSeq(u, c + 1, Len(u))
      /\ Reaches(template, Prepared, Append(open, b), i - 1, u)
  BY <1>1, <1>2, <1>5 DEF Behind
<1>8. /\ rest \in Seq(Byte)
      /\ \/ Located(template, Prepared, rest, c, n)
         \/ /\ template[i].isHeaderValue /\ Nowhere(template, Prepared, rest)
            /\ c = 0 \/ Len(buffer) = n - 1
  BY <1>1, <1>2, <1>6 DEF Behind, Awaiting
<1>9. CASE Located(template, Prepared, rest, c, n)
  <2>1. Told(template, Prepared, i) \in UInt16
    BY <1>3, <1>6, FieldParts, Fields DEF Told
  <2>2. PICK s : s = Told(template, Prepared, i) /\ s \in UInt16
    BY <2>1
  <2>3. Framing!Extent(template, i, s, rest) = {<<c, n>>}
    BY <1>2, <1>9, <2>2 DEF Located
  <2>4. Framing!Extent(template, i, s, u) = {<<c, n>>}
    <3>1. template \in Templates /\ i \in DOMAIN template /\ s \in UInt16
      BY <1>3, <2>2
    <3>2. rest \in Seq(Byte) /\ c \in Nat
      BY <1>7, <1>8
    <3>3. Lies(template, i, s, rest, c, n)
      BY <2>3 DEF Lies
    <3>4. Lies(template, i, s, Append(rest, b), c, n)
      BY <3>1, <3>2, <3>3, LiesThere
    <3> QED BY <1>5, <3>4 DEF Lies
  <2>5. Located(template, Prepared, u, c, n)
    BY <1>2, <2>2, <2>4 DEF Located
  <2> QED BY <1>2, <1>4, <1>6, <1>7, <2>5 DEF Fronted
<1>10. CASE /\ template[i].isHeaderValue /\ Nowhere(template, Prepared, rest)
            /\ c = 0 \/ Len(buffer) = n - 1
  <2>1. Told(template, Prepared, i) = n
    BY <1>3, <1>6, <1>10, HeadersFixed DEF Told
  <2>2. Framing!Extent(template, i, n, rest) = {}
    BY <1>2, <1>10, <2>1 DEF Nowhere
  <2>3. Unseen(template, i, n, u)
    BY <1>5, <1>8, <1>10, <2>2, NowhereUnseen
  <2>4. c = 0 \/ Len(Append(buffer, b)) = n
    BY <1>3, <1>10, OneMore
  <2> QED BY <1>2, <1>4, <1>6, <1>7, <1>10, <2>1, <2>3, <2>4 DEF Fronted
<1> QED BY <1>8, <1>9, <1>10

LEMMA AnsweredFront ==
  ASSUME NEW S, NEW open, Halfway(S, open), NEW b \in Byte, SizeKnown(b),
         Top(Prepared) \in Prepared.unsized
  PROVE  \E rest, c : Fronted(b, open, rest, c)
<1>1. PICK rest, c : Behind(b, open, rest, c)
  BY HalfwayBehind
<1>2. PICK i : i = Top(Prepared)
  OBVIOUS
<1>3. /\ template \in Templates /\ i \in DOMAIN template /\ buffer \in Seq(Byte)
      /\ Prepared \in Current(template) /\ Consistent(template, Prepared) /\ WellFormed(template)
      /\ TooFew(template, Prepared, buffer) /\ Prepared.stack # {} /\ i \in Prepared.unsized
  BY <1>2, HalfwayParts DEF Halfway
<1>4. template[i].sizer # NoSizer
  BY <1>3 DEF Consistent
<1>5. ~template[i].isHeaderValue
  BY <1>3, <1>4, HeadersFixed
<1>6. PICK u \in Seq(Byte) : u = Append(buffer, b)
  BY <1>3, OneMore
<1>7. Append(rest, b) = u
  <2>1. c = 0
    BY <1>1, <1>2, <1>3 DEF Behind, Awaiting
  <2>2. c + 1 = 1
    BY <2>1
  <2>3. rest \in Seq(Byte) /\ buffer = SubSeq(rest, c + 1, Len(rest))
    BY <1>1 DEF Behind
  <2>4. SubSeq(rest, 1, Len(rest)) = rest
    BY <2>3, AllOfIt
  <2> QED BY <1>6, <2>2, <2>3, <2>4
<1>8. /\ Callable(Prepared, u) /\ ~Answer(Prepared, u).more /\ Prepared.size[i] = template[i].size
      /\ Refused(template, i, buffer)
  BY <1>2, <1>3, <1>6 DEF SizeKnown, TooFew
<1>9. PICK r : r = SizeCalc(template[i].sizer, u) /\ r = Answer(Prepared, u)
  BY <1>2 DEF Answer
<1>10. r \in SizeResult /\ r.consumed <= Len(u)
  <2>1. HandedFrom(S) /\ SizerContract(template, S) /\ TypeOK
    BY DEF Halfway
  <2>2. /\ Answer(Prepared, Append(buffer, b)) \in SizeResult
        /\ ~Answer(Prepared, Append(buffer, b)).more =>
             Answer(Prepared, Append(buffer, b)).consumed <= Len(Append(buffer, b))
    BY <1>3, <1>6, <1>8, <2>1, AnswerKept
  <2> QED BY <1>6, <1>8, <1>9, <2>2
<1>11. PICK x \in Nat, n \in Nat : x = r.consumed /\ n = r.size
  BY <1>10, SizesAreNumbers
<1>12. Framing!Extent(template, i, template[i].size, u) = {<<x, n>>}
  <2>1. Len(u) >= template[i].size
    BY <1>2, <1>8 DEF Callable
  <2>2. ~SizeCalc(template[i].sizer, u).more
    BY <1>8, <1>9
  <2>3. Len(Append(buffer, b)) >= template[i].size /\ ~SizeCalc(template[i].sizer, Append(buffer, b)).more
    BY <1>6, <2>1, <2>2
  <2>4. Framing!Extent(template, i, template[i].size, Append(buffer, b))
          = {<<SizeCalc(template[i].sizer, Append(buffer, b)).consumed,
               SizeCalc(template[i].sizer, Append(buffer, b)).size>>}
    BY <1>3, <1>4, <1>5, <1>8, <2>3, AnsweredThere
  <2>5. SizeCalc(template[i].sizer, Append(buffer, b)) = r
    BY <1>6, <1>9
  <2> QED BY <1>6, <1>11, <2>4, <2>5
<1>13. /\ Resolved(b).stack = Prepared.stack /\ Resolved(b).done = Prepared.done
       /\ Resolved(b).value = Prepared.value
       /\ Resolved(b).size = [Prepared.size EXCEPT ![i] = n]
       /\ Held(b) = SubSeq(u, x + 1, Len(u))
  BY <1>2, <1>6, <1>8, <1>9, <1>11 DEF Resolved, Held, TakeSize, Unread, Parts
<1>14. Top(Resolved(b)) = i
  BY <1>2, <1>13 DEF Top
<1>15. Need(b) = n
  <2>1. Prepared.size \in [DOMAIN template -> UInt16]
    BY <1>3, CurrentParts
  <2> QED BY <1>3, <1>13, <1>14, <2>1 DEF Need
<1>16. Located(template, Resolved(b), u, x, n)
  BY <1>4, <1>12, <1>14 DEF Located, Told
<1>17. Reaches(template, Resolved(b), Append(open, b), i - 1, u)
  <2>1. Reaches(template, Prepared, Append(open, b), i - 1, u)
    BY <1>1, <1>2, <1>7 DEF Behind
  <2>2. \A j \in Prepared.stack : template[j].sizer = NoSizer => Resolved(b).size[j] = Prepared.size[j]
    <3>1. Prepared.size \in [DOMAIN template -> UInt16] /\ Prepared.stack \subseteq DOMAIN template
      BY <1>3, CurrentParts
    <3> QED BY <1>4, <1>13, <3>1
  <2> QED BY <1>13, <2>1, <2>2, ReachesSized
<1>18. Fronted(b, open, u, x)
  <2>1. x <= Len(u)
    BY <1>10, <1>11
  <2> QED BY <1>13, <1>14, <1>15, <1>16, <1>17, <2>1 DEF Fronted
<1> QED BY <1>18

(* A top that is not certainly empty after the empty ones have left.       *)
LEMMA DrainedTop ==
  ASSUME NEW t \in Templates, NEW d \in Current(t), DrainEmpty(d).stack # {}
  PROVE  ~CertainlyZeroSized(DrainEmpty(d), Top(DrainEmpty(d)))
<1> DEFINE w == DrainEmpty(d)
           z == {j \in d.stack : \A k \in d.stack : k <= j => CertainlyZeroSized(d, k)}
<1>1. w.stack = d.stack \ z /\ w.size = d.size /\ w.unsized = d.unsized
  BY DEF DrainEmpty, Parts
<1>2. Top(w) \in w.stack /\ \A j \in w.stack : Top(w) <= j
  BY DrainEmptyType, TopProperties
<1>3. d.stack \subseteq Nat
  BY CurrentParts, TemplateDomain
<1> HIDE DEF w
<1> SUFFICES ASSUME CertainlyZeroSized(w, Top(w)) PROVE FALSE
  BY DEF w
<1>4. PICK k \in d.stack : k <= Top(w) /\ ~CertainlyZeroSized(d, k)
  BY <1>1, <1>2
<1>5. CertainlyZeroSized(d, Top(w))
  BY <1>1 DEF CertainlyZeroSized
<1>6. k \notin w.stack
  <2>1. k # Top(w)
    BY <1>4, <1>5
  <2> QED BY <1>1, <1>2, <1>3, <1>4, <2>1
<1>7. \A j \in d.stack : j <= k => CertainlyZeroSized(d, j)
  BY <1>1, <1>4, <1>6
<1> QED BY <1>3, <1>4, <1>7

-----------------------------------------------------------------------------
(* The field on top, its size known, and the bytes held for it.            *)
AtFront(b) ==
  /\ Resolved(b) \in Current(template) /\ Consistent(template, Resolved(b))
  /\ Resolved(b).stack # {} /\ Top(Resolved(b)) \in DOMAIN template
  /\ Need(b) = Resolved(b).size[Top(Resolved(b))]
  /\ Held(b) \in Seq(Byte) /\ Need(b) \in Nat /\ Len(Held(b)) <= Need(b)
  /\ Top(Resolved(b)) \notin Resolved(b).unsized
  /\ template[Top(Resolved(b))].isHeaderValue => Held(b) # <<>>
  /\ Callbacks(template, Resolved(b).stack \ {Top(Resolved(b))}, Resolved(b))

LEMMA FrontParts ==
  ASSUME NEW S, NEW open, Halfway(S, open), NEW b \in Byte, SizeKnown(b)
  PROVE  AtFront(b)
<1>1. /\ TypeOK /\ WellFormed(template) /\ Consistent(template, cur)
      /\ Waiting(template, cur, buffer) /\ SizerContract(template, S) /\ HandedFrom(S)
      /\ Callbacks(template, Prepared.stack \ {Top(Prepared)}, Prepared)
  BY DEF Halfway, Half
<1>2. /\ Resolved(b) \in Current(template) /\ Resolved(b).stack = Prepared.stack
      /\ Resolved(b).stack # {} /\ Top(Resolved(b)) = Top(Prepared)
      /\ Held(b) \in Seq(Byte)
  BY <1>1, FrontType
<1>3. Consistent(template, Resolved(b))
  BY <1>1, FrontConsistent
<1>4. Top(Resolved(b)) \in DOMAIN template
  BY <1>2, HalfwayParts
<1>5. /\ Need(b) \in Nat /\ Len(Held(b)) <= Need(b)
      /\ Top(Resolved(b)) \notin Resolved(b).unsized
      /\ template[Top(Resolved(b))].isHeaderValue => Held(b) # <<>>
  BY <1>1, FrontTakes
<1>6. \A j \in Prepared.unsized : j # Top(Prepared) => j \in Resolved(b).unsized
  BY DEF Resolved, TakeSize, Parts
<1>7. Callbacks(template, Resolved(b).stack \ {Top(Resolved(b))}, Resolved(b))
  BY <1>1, <1>2, <1>6 DEF Callbacks
<1>8. Need(b) = Resolved(b).size[Top(Resolved(b))]
  BY DEF Need
<1> QED BY <1>2, <1>3, <1>4, <1>5, <1>7, <1>8 DEF AtFront

(* A field that takes bytes stays on top.                                  *)
LEMMA StaysPrepared ==
  ASSUME NEW t, NEW d, NEW bytes, d.stack # {}, d.size[Top(d)] # 0
  PROVE  Prep(t, d, bytes) = d
BY DEF Prep, SkipEmptyTop, CertainlyZeroSized

(* The field on top is not all there.                                      *)
LEMMA AwaitBytesHalf ==
  ASSUME NEW open, NEW b \in Byte, AtFront(b), Len(Held(b)) # Need(b),
         NEW rest, NEW c, Fronted(b, open, rest, c)
  PROVE  /\ Half(template, Resolved(b), Held(b), Append(open, b))
         /\ Need(b) # 0
<1> DEFINE i == Top(Resolved(b))
<1>1. PICK u \in Seq(Byte), k \in Nat, n \in Nat : u = rest /\ k = c /\ n = Need(b)
  BY DEF AtFront, Fronted
<1>2. PICK l \in Nat : l = Len(Held(b)) /\ l < n
  <2>1. Len(Held(b)) \in Nat /\ Len(Held(b)) <= n /\ Len(Held(b)) # n
    BY <1>1, LenProperties DEF AtFront
  <2> QED BY <2>1
<1>3. k <= Len(u) /\ Held(b) = SubSeq(u, k + 1, Len(u))
  BY <1>1 DEF Fronted
<1>4. Awaiting(template, Resolved(b), u, Held(b), k)
  <2>1. CASE Located(template, Resolved(b), rest, c, Need(b))
    BY <1>1, <1>2, <1>3, <2>1 DEF Awaiting, AtFront
  <2>2. CASE /\ template[i].isHeaderValue
             /\ Told(template, Resolved(b), i) = Need(b)
             /\ c = 0 \/ Len(Held(b)) = Need(b)
    <3>1. k = 0
      BY <1>1, <1>2, <2>2
    <3>2. k + 1 = 1
      BY <3>1
    <3>3. Held(b) = u
      BY <1>3, <3>2, AllOfIt
    <3>4. Framing!Extent(template, i, n, u) = {}
      BY <1>2, <2>2, <3>3, ShortSearch
    <3>5. Nowhere(template, Resolved(b), u)
      BY <1>1, <2>2, <3>4 DEF Nowhere
    <3> QED BY <1>3, <2>2, <3>1, <3>5 DEF Awaiting, AtFront
  <2> QED BY <2>1, <2>2 DEF Fronted
<1>5. Reaches(template, Resolved(b), Append(open, b), Top(Resolved(b)) - 1, u)
  BY <1>1 DEF Fronted
<1>6. Half(template, Resolved(b), Held(b), Append(open, b))
  BY <1>4, <1>5 DEF Half, AtFront
<1>7. Need(b) # 0
  BY <1>1, <1>2
<1> QED BY <1>6, <1>7

(* Where a header was found, it is.                                        *)
LEMMA HeaderThere ==
  ASSUME NEW t, NEW i, t[i].isHeaderValue, NEW size, NEW s \in Seq(Byte),
         NEW c \in Nat, NEW n \in Nat, Lies(t, i, size, s, c, n), c + n = Len(s)
  PROVE  SubSeq(s, c + 1, Len(s)) = t[i].value
<1> DEFINE A == {k \in 0 .. Len(s) - size : SubSeq(s, k + 1, k + size) = t[i].value}
<1>1. Framing!Extent(t, i, size, s) = IF A = {} THEN {} ELSE {<<Framing!Min(A), size>>}
  BY DEF Framing!Extent
<1>2. A # {} /\ <<Framing!Min(A), size>> = <<c, n>>
  BY <1>1 DEF Lies
<1>3. Framing!Min(A) = c /\ size = n
  BY <1>2
<1>4. A \subseteq Nat
  BY <1>3, LenProperties
<1>5. Framing!Min(A) \in A
  <2>1. Framing!Min(A) = Min(A)
    BY DEF Framing!Min, Min
  <2> HIDE DEF A
  <2> QED BY <1>2, <1>4, <2>1, MinProperties
<1>6. SubSeq(s, c + 1, c + size) = t[i].value
  BY <1>3, <1>5
<1> QED BY <1>3, <1>6

(* As many bytes as the header has, but not the header.                    *)
LEMMA ResyncHalf ==
  ASSUME NEW open, NEW b \in Byte, AtFront(b), Len(Held(b)) = Need(b), ~MatchesTop(b),
         NEW rest, NEW c, Fronted(b, open, rest, c)
  PROVE  /\ Half(template, Resolved(b), Tail(Held(b)), Append(open, b))
         /\ Need(b) # 0
<1> DEFINE i == Top(Resolved(b))
<1>1. PICK u \in Seq(Byte), k \in Nat, n \in Nat : u = rest /\ k = c /\ n = Need(b)
  BY DEF AtFront, Fronted
<1>2. template[i].isHeaderValue /\ template[i].value # Held(b)
  BY DEF MatchesTop
<1>3. PICK h \in Seq(Byte) : h = Held(b) /\ h # <<>> /\ Len(h) = n
  BY <1>1, <1>2 DEF AtFront
<1>4. k <= Len(u) /\ h = SubSeq(u, k + 1, Len(u))
  BY <1>1, <1>3 DEF Fronted
<1>5. PICK N \in Nat : N = Len(u) /\ k + n = N /\ n # 0
  <2>1. PICK N \in Nat : N = Len(u)
    BY LenProperties
  <2>2. Len(h) = N - k /\ k <= N
    BY <1>4, <2>1, RestType
  <2>3. Len(h) # 0
    BY <1>3, EmptySeq
  <2> QED BY <1>3, <2>1, <2>2, <2>3
<1>6. ~Located(template, Resolved(b), rest, c, Need(b))
  <2> SUFFICES ASSUME Located(template, Resolved(b), rest, c, Need(b)) PROVE FALSE
    OBVIOUS
  <2>1. Framing!Extent(template, i, Told(template, Resolved(b), i), u) = {<<k, n>>}
    BY <1>1 DEF Located
  <2>2. SubSeq(u, k + 1, Len(u)) = template[i].value
    <3>1. PICK z : z = Told(template, Resolved(b), i)
      OBVIOUS
    <3>2. Lies(template, i, z, u, k, n) /\ k + n = Len(u)
      BY <1>5, <2>1, <3>1 DEF Lies
    <3> QED BY <1>2, <3>2, HeaderThere
  <2> QED BY <1>2, <1>3, <1>4, <2>2
<1>7. Told(template, Resolved(b), i) = n /\ Unseen(template, i, n, u)
  BY <1>1, <1>6 DEF Fronted
<1>8. Framing!Extent(template, i, n, u) = {}
  <2>1. Framing!Extent(template, i, n, u)
          = IF SubSeq(u, k + 1, Len(u)) = template[i].value THEN {<<k, n>>} ELSE {}
    BY <1>2, <1>5, <1>7, HeaderSought
  <2> QED BY <1>2, <1>3, <1>4, <2>1
<1>9. Nowhere(template, Resolved(b), u)
  BY <1>7, <1>8 DEF Nowhere
<1>10. /\ Tail(h) = SubSeq(u, (k + 1) + 1, Len(u)) /\ Len(Tail(h)) = n - 1
       /\ k + 1 <= Len(u)
  <2>1. Len(Tail(h)) = n - 1 /\ Tail(h) \in Seq(Byte)
    BY <1>3, HeadTailProperties
  <2>2. k + 1 <= N
    BY <1>5
  <2>3. PICK q \in Nat : q = k + 1
    OBVIOUS
  <2>4. /\ SubSeq(u, q + 1, Len(u)) \in Seq(Byte)
        /\ Len(SubSeq(u, q + 1, Len(u))) = N - q
    BY <1>5, <2>2, <2>3, RestType
  <2>5. \A x \in 1 .. n - 1 : Tail(h)[x] = SubSeq(u, q + 1, Len(u))[x]
    <3> TAKE x \in 1 .. n - 1
    <3>1. Tail(h)[x] = h[x + 1]
      BY <1>3, HeadTailProperties
    <3>2. h[x + 1] = u[k + 1 + x]
      BY <1>3, <1>4, <1>5, SubSeqProperties
    <3>3. SubSeq(u, q + 1, Len(u))[x] = u[q + x]
      BY <1>5, <2>2, <2>3, SubSeqProperties
    <3>4. k + 1 + x = q + x
      BY <2>3
    <3> QED BY <3>1, <3>2, <3>3, <3>4
  <2>6. N - q = n - 1
    BY <1>5, <2>3
  <2>7. Tail(h) = SubSeq(u, q + 1, Len(u))
    BY <2>1, <2>4, <2>5, <2>6, SeqEqual
  <2> QED BY <1>5, <2>1, <2>2, <2>3, <2>7
<1>11. Need(b) = Resolved(b).size[i]
  BY DEF AtFront
<1>12. Awaiting(template, Resolved(b), u, Tail(h), k + 1)
  BY <1>1, <1>2, <1>9, <1>10, <1>11 DEF Awaiting, AtFront
<1>13. Reaches(template, Resolved(b), Append(open, b), Top(Resolved(b)) - 1, u)
  BY <1>1 DEF Fronted
<1>14. k + 1 \in Nat
  OBVIOUS
<1>15. Half(template, Resolved(b), Tail(h), Append(open, b))
  BY <1>12, <1>13, <1>14 DEF Half, AtFront
<1> QED BY <1>1, <1>3, <1>5, <1>15

(* A packet in the framing's words.                                        *)
LEMMA AllReadFramed ==
  ASSUME NEW t \in Templates, NEW d \in Current(t), d.stack = {},
         NEW open, Reaches(t, d, open, Before(t, d), <<>>)
  PROVE  \E m : Framing!Read(t, open) = {m} /\ m.fields = [x \in d.done |-> d.value[x]]
<1>1. PICK N \in Nat : N = Len(t)
  BY Fields
<1>2. Before(t, d) = N
  BY <1>1 DEF Before
<1>3. PICK k : PathTo(t, open, N, k) /\ At(t, d, N, k)
  BY <1>2 DEF Reaches
<1>4. PICK h : Path(t, open, N, h) /\ h[N] = k
  BY <1>3 DEF PathTo
<1>5. Framing!ReadUpTo(t, open)[N] = {k}
  <2>1. N \in 0 .. Len(t)
    BY <1>1
  <2> QED BY <1>4, <2>1, PathReads
<1>6. Framing!Read(t, open) = {k}
  BY <1>1, <1>5 DEF Framing!Read
<1>7. ReadTo(d, N) = d.done
  BY DEF ReadTo
<1>8. k.fields = [x \in d.done |-> d.value[x]]
  BY <1>3, <1>7 DEF At
<1> QED BY <1>6, <1>8

(* A call of addByte does to half a packet what the framing says.          *)
Framed(b, open) ==
  \/ /\ result' = "packet" /\ cur'.stack = {} /\ buffer' = <<>>
     /\ \E m : Framing!Read(template, Append(open, b)) = {m} /\ m.fields = CurrentPacket
  \/ /\ result' = "none" /\ cur'.stack # {}
     /\ Half(template, Prep(template, cur', buffer'), buffer', Append(open, b))

LEMMA FieldLocated ==
  ASSUME NEW open, NEW b \in Byte, AtFront(b), Len(Held(b)) = Need(b), MatchesTop(b),
         NEW rest, NEW c, Fronted(b, open, rest, c)
  PROVE  Located(template, Resolved(b), rest, c, Need(b))
<1> DEFINE i == Top(Resolved(b))
<1> SUFFICES ASSUME ~Located(template, Resolved(b), rest, c, Need(b)) PROVE FALSE
  OBVIOUS
<1>1. PICK u \in Seq(Byte), k \in Nat, n \in Nat : u = rest /\ k = c /\ n = Need(b)
  BY DEF AtFront, Fronted
<1>2. /\ template[i].isHeaderValue /\ Told(template, Resolved(b), i) = n
      /\ Unseen(template, i, n, u)
  BY <1>1 DEF Fronted
<1>3. template[i].value = SubSeq(u, k + 1, Len(u))
  BY <1>1, <1>2 DEF MatchesTop, Fronted
<1>4. k + n = Len(u)
  <2>1. PICK N \in Nat : N = Len(u)
    BY LenProperties
  <2>2. k <= N /\ Len(SubSeq(u, k + 1, Len(u))) = n
    BY <1>1, <2>1 DEF Fronted
  <2>3. Len(SubSeq(u, k + 1, Len(u))) = N - k
    BY <2>1, <2>2, RestType
  <2> QED BY <2>1, <2>2, <2>3
<1>5. Framing!Extent(template, i, n, u)
        = IF SubSeq(u, k + 1, Len(u)) = template[i].value THEN {<<k, n>>} ELSE {}
  BY <1>2, <1>4, HeaderSought
<1> QED BY <1>1, <1>2, <1>3, <1>5 DEF Located

LEMMA FieldHalf ==
  ASSUME NEW S, NEW open, Halfway(S, open), NEW b \in Byte, AtFront(b), CompleteField(b),
         RulesInv', template' = template, NEW rest, NEW c, Fronted(b, open, rest, c)
  PROVE  Framed(b, open)
<1> DEFINE d == Resolved(b)
           u == Append(open, b)
<1>1. /\ Len(Held(b)) = Need(b) /\ MatchesTop(b) /\ buffer' = <<>>
      /\ result' = IF cur'.stack = {} THEN "packet" ELSE "none"
  BY FieldGoes DEF CompleteField, FieldRead
<1>2. cur' = After(template, d, Held(b))
  BY DEF CompleteField, Return, After, AfterSizes, Pushed
<1>3. template \in Templates /\ WellFormed(template)
  BY HalfwayParts DEF Halfway
<1>4. cur' \in Current(template) /\ Consistent(template, cur')
  BY <1>3 DEF RulesInv, TypeOK
<1>5. d \in Current(template) /\ Consistent(template, d) /\ d.stack # {}
      /\ Need(b) = d.size[Top(d)]
      /\ Callbacks(template, d.stack \ {Top(d)}, d)
  BY DEF AtFront
<1>6. template[Top(d)].isHeaderValue => template[Top(d)].value = Held(b)
  BY <1>1 DEF MatchesTop
<1>7. /\ Reaches(template, cur', u, Before(template, cur'), <<>>)
      /\ Callbacks(template, cur'.stack, cur')
  <2>1. Located(template, d, rest, c, d.size[Top(d)])
    BY <1>1, <1>5, FieldLocated
  <2>2. PICK q \in Seq(Byte), k \in Nat : q = rest /\ k = c
    BY DEF Fronted
  <2>3. k <= Len(q) /\ Held(b) = SubSeq(q, k + 1, Len(q))
        /\ Reaches(template, d, u, Top(d) - 1, q)
    BY <2>2 DEF Fronted
  <2>4. Len(Held(b)) = d.size[Top(d)]
    BY <1>1, <1>5
  <2>5. PICK h, e : h = Held(b) /\ e = d
    OBVIOUS
  <2>6. /\ e \in Current(template) /\ Consistent(template, e) /\ e.stack # {}
        /\ Callbacks(template, e.stack \ {Top(e)}, e)
        /\ Located(template, e, q, k, e.size[Top(e)])
        /\ Len(h) = e.size[Top(e)] /\ h = SubSeq(q, k + 1, Len(q)) /\ k <= Len(q)
        /\ template[Top(e)].isHeaderValue => template[Top(e)].value = h
        /\ Reaches(template, e, u, Top(e) - 1, q)
    BY <1>5, <1>6, <2>1, <2>2, <2>3, <2>4, <2>5
  <2>7. /\ Reaches(template, After(template, e, h), u, Before(template, After(template, e, h)), <<>>)
        /\ Callbacks(template, After(template, e, h).stack, After(template, e, h))
    BY <1>3, <2>6, FieldRuns
  <2> QED BY <1>2, <2>5, <2>7
<1>8. CASE cur'.stack = {}
  <2>1. PICK e : e = cur' /\ e \in Current(template) /\ e.stack = {}
    BY <1>4, <1>8
  <2>2. Reaches(template, e, u, Before(template, e), <<>>)
    BY <1>7, <2>1
  <2>3. \E m : Framing!Read(template, u) = {m} /\ m.fields = [x \in e.done |-> e.value[x]]
    BY <1>3, <2>1, <2>2, AllReadFramed
  <2>4. CurrentPacket = [x \in e.done |-> e.value[x]]
    BY <2>1 DEF CurrentPacket
  <2> QED BY <1>1, <1>8, <2>3, <2>4 DEF Framed
<1>9. CASE cur'.stack # {}
  <2>1. Ruled(template, d, Held(b)) \in Current(template)
    BY <1>1, <1>3, <1>5, <1>6, FieldOff DEF Off, AtFront
  <2>2. cur' = DrainEmpty(Ruled(template, d, Held(b)))
    BY <1>2 DEF After, Ruled
  <2>3. PICK r : r = Ruled(template, d, Held(b)) /\ r \in Current(template)
    BY <2>1
  <2>4. PICK e : e = cur' /\ e = DrainEmpty(r) /\ e.stack # {}
    BY <1>9, <2>2, <2>3
  <2>5. ~CertainlyZeroSized(e, Top(e))
    BY <1>3, <2>3, <2>4, DrainedTop
  <2>6. e \in Current(template) /\ Consistent(template, e) /\ Callbacks(template, e.stack, e)
        /\ Reaches(template, e, u, Before(template, e), <<>>)
    BY <1>4, <1>7, <2>4
  <2>7. Half(template, e, <<>>, u)
    BY <1>3, <2>4, <2>5, <2>6, FreshHalf
  <2>8. Prep(template, e, <<>>) = e
    BY <2>4, <2>5 DEF Prep, SkipEmptyTop
  <2>9. Half(template, Prep(template, cur', buffer'), buffer', u)
    BY <1>1, <2>4, <2>7, <2>8
  <2> QED BY <1>1, <1>9, <2>9 DEF Framed
<1> QED BY <1>8, <1>9

LEMMA StepHalf ==
  ASSUME NEW S, NEW open, Halfway(S, open), NEW b \in Byte, AddByte(b),
         RulesInv', template' = template
  PROVE  Framed(b, open)
<1>1. CASE AwaitSize(b)
  <2>1. Half(template, Prepared, Append(buffer, b), Append(open, b))
    BY <1>1, AwaitSizeHalf
  <2>2. cur' = Prepared /\ buffer' = Append(buffer, b) /\ result' = "none"
        /\ Top(Prepared) \in Prepared.unsized /\ Prepared.stack # {}
    BY <1>1 DEF AwaitSize, Return
  <2>3. Prep(template, Prepared, Append(buffer, b)) = Prepared
    BY <2>2 DEF Prep, SkipEmptyTop, CertainlyZeroSized
  <2> QED BY <2>1, <2>2, <2>3 DEF Framed
<1>2. CASE SizeKnown(b) /\ (AwaitBytes(b) \/ ResyncHeader(b) \/ CompleteField(b))
  <2>1. PICK rest, c : Fronted(b, open, rest, c)
    BY <1>2, KnownFront, AnsweredFront
  <2>2. AtFront(b)
    BY <1>2, FrontParts
  <2>3. Resolved(b).stack # {} /\ Need(b) = Resolved(b).size[Top(Resolved(b))]
    BY <2>2 DEF AtFront
  <2>4. CASE AwaitBytes(b)
    <3>1. cur' = Resolved(b) /\ buffer' = Held(b) /\ result' = "none" /\ Len(Held(b)) # Need(b)
      BY <2>4 DEF AwaitBytes, Return
    <3>2. Half(template, Resolved(b), Held(b), Append(open, b)) /\ Need(b) # 0
      BY <2>1, <2>2, <3>1, AwaitBytesHalf
    <3>3. Prep(template, Resolved(b), Held(b)) = Resolved(b)
      BY <2>3, <3>2, StaysPrepared
    <3> QED BY <2>3, <3>1, <3>2, <3>3 DEF Framed
  <2>5. CASE ResyncHeader(b)
    <3>1. cur' = Resolved(b) /\ buffer' = Tail(Held(b)) /\ result' = "none"
          /\ Len(Held(b)) = Need(b) /\ ~MatchesTop(b)
      BY <2>5 DEF ResyncHeader, Return
    <3>2. Half(template, Resolved(b), Tail(Held(b)), Append(open, b)) /\ Need(b) # 0
      BY <2>1, <2>2, <3>1, ResyncHalf
    <3>3. Prep(template, Resolved(b), Tail(Held(b))) = Resolved(b)
      BY <2>3, <3>2, StaysPrepared
    <3> QED BY <2>3, <3>1, <3>2, <3>3 DEF Framed
  <2>6. CASE CompleteField(b)
    BY <2>1, <2>2, <2>6, FieldHalf
  <2> QED BY <1>2, <2>4, <2>5, <2>6
<1>3. result' # "threw"
  BY DEF RulesInv, Halfway
<1> QED BY <1>1, <1>2, <1>3
     DEF AddByte, AwaitBytes, ResyncHeader, CompleteField, FieldRead, SizeRuleFails,
         ExistenceRuleFails, Return

-----------------------------------------------------------------------------
(* A packet of fixed fields, as the framing reads it.                      *)

(* e[i] is where field i ends.                                             *)
Ending(t, n, e) ==
  /\ n \in Nat /\ n = Len(t) /\ DOMAIN t = 1 .. n
  /\ e \in [0 .. n -> Nat] /\ e[0] = 0
  /\ \A i \in 1 .. n : t[i].size \in Nat /\ e[i] = e[i - 1] + t[i].size
  /\ \A x, y \in 0 .. n : x <= y => e[x] <= e[y]

LEMMA FixedEnds ==
  ASSUME NEW t \in Templates
  PROVE  Ending(t, Len(t), Ends(SizesOf(t)))
<1>1. PICK n \in Nat : n = Len(t) /\ DOMAIN t = 1 .. n
  BY Fields
<1>2. \A i \in 1 .. n : t[i].size \in Nat
  <2>1. \A i \in 1 .. n : t[i].size \in UInt16
    BY <1>1, Fields, FieldParts
  <2> QED BY <2>1, SizesAreNumbers
<1>3. SizesOf(t) \in [1 .. n -> Nat] /\ \A i \in 1 .. n : SizesOf(t)[i] = t[i].size
  BY <1>1, <1>2 DEF SizesOf
<1>4. PICK e \in [0 .. n -> Nat] :
        /\ e = Ends(SizesOf(t)) /\ e[0] = 0
        /\ \A i \in 1 .. n : e[i] = e[i - 1] + SizesOf(t)[i]
  BY <1>3, EndsAddUp
<1>5. \A i \in 1 .. n : e[i] = e[i - 1] + t[i].size
  BY <1>3, <1>4
<1>6. ASSUME NEW x \in 0 .. n, NEW y \in 0 .. n, x <= y PROVE e[x] <= e[y]
  <2>1. PICK N \in Nat : N = y
    OBVIOUS
  <2>2. PICK f \in [0 .. N -> Nat] : f = [k \in 0 .. N |-> e[k]]
    <3>1. \A k \in 0 .. N : k \in 0 .. n
      BY <2>1
    <3>2. \A k \in 0 .. N : e[k] \in Nat
      BY <1>4, <3>1
    <3> QED BY <3>2
  <2>3. \A k \in 1 .. N : f[k - 1] <= f[k]
    <3> TAKE k \in 1 .. N
    <3>1. k - 1 \in 0 .. N /\ k \in 0 .. N /\ k \in 1 .. n /\ k - 1 \in 0 .. n
      BY <2>1
    <3>2. PICK a \in Nat, z \in Nat : a = e[k - 1] /\ z = t[k].size
      BY <1>2, <1>4, <3>1
    <3>3. e[k] = a + z
      BY <1>5, <3>1, <3>2
    <3>4. f[k - 1] = a /\ f[k] = a + z
      BY <2>2, <3>1, <3>2, <3>3
    <3> QED BY <3>4
  <2>4. \A k \in 0 .. N : f[k] <= f[N]
    BY <2>3, UpToTheLast
  <2> QED BY <1>6, <2>1, <2>2, <2>4
<1> QED BY <1>1, <1>2, <1>4, <1>5, <1>6 DEF Ending

(* What is known of bytes s after j fields.                                *)
FixedKnown(t, e, s, j) ==
  [fields |-> [x \in 1 .. j |-> SubSeq(s, e[x - 1] + 1, e[x])],
   size   |-> [x \in DOMAIN t |-> t[x].size],
   gone   |-> {},
   rest   |-> SubSeq(s, e[j] + 1, Len(s))]

(* Of the headers those that are all there are what they should be.        *)
HeadersIn(t, e, s) ==
  \A j \in DOMAIN t :
    t[j].isHeaderValue /\ e[j] <= Len(s) => SubSeq(s, e[j - 1] + 1, e[j]) = t[j].value

LEMMA FixedField ==
  ASSUME NEW t, NEW n, NEW e, Ending(t, n, e), NEW s \in Seq(Byte), NEW x \in 1 .. n,
         e[x] <= Len(s)
  PROVE  SubSeq(s, e[x - 1] + 1, e[x]) \in Seq(Byte)
<1>1. x - 1 \in 0 .. n /\ n \in Nat
  BY DEF Ending
<1>2. PICK a \in Nat, z \in Nat : a = e[x - 1] /\ z = t[x].size /\ e[x] = a + z
  BY <1>1 DEF Ending
<1>3. SubSeq(s, a + 1, a + z) \in Seq(Byte)
  BY <1>2, SliceType
<1> QED BY <1>2, <1>3

LEMMA FixedKnownType ==
  ASSUME NEW t \in Templates, NEW n, NEW e, Ending(t, n, e), NEW s \in Seq(Byte),
         NEW j \in 0 .. n, e[j] <= Len(s)
  PROVE  FixedKnown(t, e, s, j) \in Reading(t)
<1>1. n \in Nat /\ DOMAIN t = 1 .. n
  BY DEF Ending
<1>2. PICK f : f = FixedKnown(t, e, s, j).fields
  OBVIOUS
<1>3. f = [x \in 1 .. j |-> SubSeq(s, e[x - 1] + 1, e[x])]
  BY <1>2 DEF FixedKnown
<1>4. \A x \in 1 .. j : SubSeq(s, e[x - 1] + 1, e[x]) \in Seq(Byte)
  <2> TAKE x \in 1 .. j
  <2>1. x \in 1 .. n /\ x \in 0 .. n /\ x <= j
    BY <1>1
  <2>2. e[x] <= e[j] /\ e[x] \in Nat /\ e[j] \in Nat
    BY <2>1 DEF Ending
  <2>3. e[x] <= Len(s)
    BY <2>2, LenProperties
  <2> QED BY <2>1, <2>3, FixedField
<1>5. f \in [1 .. j -> Seq(Byte)]
  BY <1>3, <1>4
<1>6. f \in Packet(t)
  <2>1. 1 .. j \in SUBSET DOMAIN t
    BY <1>1
  <2> QED BY <1>5, <2>1 DEF Packet
<1>7. [x \in DOMAIN t |-> t[x].size] \in [DOMAIN t -> UInt16]
  BY Fields, FieldParts
<1>8. SubSeq(s, e[j] + 1, Len(s)) \in Seq(Byte)
  <2>1. e[j] \in Nat
    BY DEF Ending
  <2> QED BY <2>1, RestType
<1>9. FixedKnown(t, e, s, j)
        = [fields |-> f, size |-> [x \in DOMAIN t |-> t[x].size], gone |-> {},
           rest |-> SubSeq(s, e[j] + 1, Len(s))]
  BY <1>3 DEF FixedKnown
<1> QED BY <1>6, <1>7, <1>8, <1>9 DEF Reading

LEMMA NothingCalled ==
  ASSUME NEW t
  PROVE  Framing!Called(t, NoName) = {}
BY DEF Framing!Called

(* A field of a fixed packet lies at the front of the rest.                *)
InFront(t, j, size, r) == Framing!Extent(t, j, size, r) = {<<0, size>>}

LEMMA FixedExtent ==
  ASSUME NEW t, IsFixedSize(t), NEW j \in DOMAIN t, NEW size \in Nat,
         NEW r \in Seq(Byte), size <= Len(r),
         t[j].isHeaderValue => SubSeq(r, 1, size) = t[j].value
  PROVE  InFront(t, j, size, r)
<1> DEFINE A == {k \in 0 .. Len(r) - size : SubSeq(r, k + 1, k + size) = t[j].value}
<1>1. t[j].sizer = NoSizer
  BY DEF IsFixedSize
<1>2. CASE ~t[j].isHeaderValue
  BY <1>1, <1>2 DEF Framing!Extent, InFront
<1>3. CASE t[j].isHeaderValue
  <2>1. Framing!Extent(t, j, size, r) = IF A = {} THEN {} ELSE {<<Framing!Min(A), size>>}
    BY <1>3 DEF Framing!Extent
  <2>2. PICK N \in Nat : N = Len(r)
    BY LenProperties
  <2>3. 0 \in A
    <3>1. 0 \in 0 .. Len(r) - size
      BY <2>2
    <3>2. SubSeq(r, 0 + 1, 0 + size) = t[j].value
      BY <1>3
    <3> QED BY <3>1, <3>2
  <2>4. A \subseteq Nat
    BY <2>2
  <2> HIDE DEF A
  <2>5. Min(A) \in A /\ \A y \in A : Min(A) <= y
    BY <2>3, <2>4, MinProperties
  <2>6. Framing!Min(A) = Min(A)
    BY DEF Framing!Min, Min
  <2>7. Framing!Min(A) = 0
    <3>1. PICK m \in Nat : m = Min(A)
      BY <2>4, <2>5
    <3>2. m <= 0
      BY <2>3, <2>5, <3>1
    <3>3. m = 0
      BY <3>2
    <3> QED BY <2>6, <3>1, <3>3
  <2> QED BY <2>1, <2>3, <2>7 DEF InFront
<1> QED BY <1>2, <1>3

(* The rest of a rest.                                                     *)
LEMMA RestOfRest ==
  ASSUME NEW s \in Seq(Byte), NEW a \in Nat, NEW z \in Nat, NEW b \in Nat, b = a + z,
         b <= Len(s), NEW r, r = SubSeq(s, a + 1, Len(s))
  PROVE  /\ r \in Seq(Byte) /\ Len(r) = Len(s) - a
         /\ SubSeq(r, 1, z) = SubSeq(s, a + 1, b)
         /\ SubSeq(r, z + 1, Len(r)) = SubSeq(s, b + 1, Len(s))
<1>1. PICK N \in Nat : N = Len(s)
  BY LenProperties
<1>2. PICK q \in Nat : a + q = N /\ z <= q
  <2>1. N - a \in Nat /\ z <= N - a /\ a + (N - a) = N
    BY <1>1
  <2> QED BY <2>1
<1>3. r = SubSeq(s, a + 1, a + q)
  BY <1>1, <1>2
<1>4. a + q <= Len(s)
  BY <1>1, <1>2
<1>5. r \in Seq(Byte) /\ Len(r) = q /\ \A x \in 1 .. q : r[x] = s[a + x]
  BY <1>3, <1>4, SliceType
<1>6. PICK m \in Nat : z + m = q /\ b + m = N
  <2>1. q - z \in Nat /\ z + (q - z) = q /\ b + (q - z) = N
    BY <1>2
  <2> QED BY <2>1
<1>7. PICK o \in Nat : o = 0
  OBVIOUS
<1>8. SubSeq(r, 1, z) = SubSeq(s, a + 1, b)
  <2>1. PICK w : w = SubSeq(r, o + 1, o + z)
    OBVIOUS
  <2>2. o + z <= Len(r)
    BY <1>2, <1>5, <1>7
  <2>3. w \in Seq(Byte) /\ Len(w) = z /\ \A x \in 1 .. z : w[x] = r[o + x]
    BY <1>5, <2>1, <2>2, SliceType
  <2>4. PICK y : y = SubSeq(s, a + 1, a + z)
    OBVIOUS
  <2>5. y \in Seq(Byte) /\ Len(y) = z /\ \A x \in 1 .. z : y[x] = s[a + x]
    <3>1. a + z <= Len(s)
      OBVIOUS
    <3> QED BY <2>4, <3>1, SliceType
  <2>6. \A x \in 1 .. z : w[x] = y[x]
    <3> TAKE x \in 1 .. z
    <3>1. x \in 1 .. q /\ o + x = x
      BY <1>2, <1>7
    <3> QED BY <1>5, <2>3, <2>5, <3>1
  <2>7. w = y
    BY <2>3, <2>5, <2>6, SeqEqual
  <2>8. o + 1 = 1 /\ o + z = z
    BY <1>7
  <2> QED BY <2>1, <2>4, <2>7, <2>8
<1>9. SubSeq(r, z + 1, Len(r)) = SubSeq(s, b + 1, Len(s))
  <2>1. PICK w : w = SubSeq(r, z + 1, z + m)
    OBVIOUS
  <2>2. z + m <= Len(r)
    BY <1>5, <1>6
  <2>3. w \in Seq(Byte) /\ Len(w) = m /\ \A x \in 1 .. m : w[x] = r[z + x]
    BY <1>5, <2>1, <2>2, SliceType
  <2>4. PICK y : y = SubSeq(s, b + 1, b + m)
    OBVIOUS
  <2>5. b + m <= Len(s)
    BY <1>1, <1>6
  <2>6. y \in Seq(Byte) /\ Len(y) = m /\ \A x \in 1 .. m : y[x] = s[b + x]
    BY <2>4, <2>5, SliceType
  <2>7. \A x \in 1 .. m : w[x] = y[x]
    <3> TAKE x \in 1 .. m
    <3>1. z + x \in 1 .. q /\ a + (z + x) = b + x
      BY <1>6
    <3>2. r[z + x] = s[b + x]
      BY <1>5, <3>1
    <3> QED BY <2>3, <2>6, <3>2
  <2>8. w = y
    BY <2>3, <2>6, <2>7, SeqEqual
  <2>9. z + m = Len(r) /\ b + m = Len(s)
    BY <1>1, <1>5, <1>6
  <2> QED BY <2>1, <2>4, <2>8, <2>9
<1>10. Len(r) = Len(s) - a
  BY <1>1, <1>2, <1>5
<1> QED BY <1>5, <1>8, <1>9, <1>10

(* The bytes before and behind a field.                                    *)
FixedRest(t, e, s, j, r) ==
  /\ r \in Seq(Byte) /\ t[j].size \in Nat /\ e[j - 1] \in Nat
  /\ Len(r) = Len(s) - e[j - 1]
  /\ r = SubSeq(s, e[j - 1] + 1, Len(s))
  /\ e[j] <= Len(s) =>
       /\ t[j].size <= Len(r)
       /\ SubSeq(r, 1, t[j].size) = SubSeq(s, e[j - 1] + 1, e[j])
       /\ SubSeq(r, t[j].size + 1, Len(r)) = SubSeq(s, e[j] + 1, Len(s))
  /\ e[j] > Len(s) => Len(r) < t[j].size

LEMMA FixedRests ==
  ASSUME NEW t, NEW n, NEW e, Ending(t, n, e), NEW s \in Seq(Byte), NEW j \in 1 .. n,
         e[j - 1] <= Len(s)
  PROVE  FixedRest(t, e, s, j, FixedKnown(t, e, s, j - 1).rest)
<1>1. j - 1 \in 0 .. n /\ j \in 0 .. n
  BY DEF Ending
<1>2. PICK a \in Nat, z \in Nat, b \in Nat : a = e[j - 1] /\ z = t[j].size /\ b = e[j] /\ b = a + z
  BY <1>1 DEF Ending
<1>3. PICK r : r = SubSeq(s, a + 1, Len(s))
  OBVIOUS
<1>4. PICK N \in Nat : N = Len(s) /\ a <= N
  BY <1>2, LenProperties
<1>5. r \in Seq(Byte) /\ Len(r) = N - a
  BY <1>3, <1>4, RestType
<1>6. CASE b <= N
  <2>1. b <= Len(s)
    BY <1>4, <1>6
  <2>2. /\ SubSeq(r, 1, z) = SubSeq(s, a + 1, b)
        /\ SubSeq(r, z + 1, Len(r)) = SubSeq(s, b + 1, Len(s))
    <3>1. b = a + z
      BY <1>2
    <3> QED BY <1>3, <2>1, <3>1, RestOfRest
  <2>3. z <= Len(r) /\ ~(b > N)
    <3>1. b = a + z /\ b <= N
      BY <1>2, <1>6
    <3>2. z <= N - a /\ ~(b > N)
      BY <3>1
    <3> QED BY <1>5, <3>2
  <2>4. r = FixedKnown(t, e, s, j - 1).rest
    BY <1>2, <1>3 DEF FixedKnown
  <2>5. FixedRest(t, e, s, j, r)
    BY <1>2, <1>3, <1>4, <1>5, <2>2, <2>3 DEF FixedRest
  <2> QED BY <2>4, <2>5
<1>7. CASE ~(b <= N)
  <2>1. Len(r) < z
    <3>1. b = a + z /\ ~(b <= N)
      BY <1>2, <1>7
    <3>2. N - a < z
      BY <3>1
    <3> QED BY <1>5, <3>2
  <2>2. r = FixedKnown(t, e, s, j - 1).rest
    BY <1>2, <1>3 DEF FixedKnown
  <2>3. FixedRest(t, e, s, j, r)
    BY <1>2, <1>3, <1>4, <1>5, <1>7, <2>1 DEF FixedRest
  <2> QED BY <2>2, <2>3
<1> QED BY <1>6, <1>7

(* Reading a field moves to the next.                                      *)
LEMMA FixedPast ==
  ASSUME NEW t, IsFixedSize(t), NEW n, NEW e, Ending(t, n, e), NEW s \in Seq(Byte),
         NEW j \in 1 .. n, e[j] <= Len(s), e[j - 1] <= Len(s)
  PROVE  Framing!Past(t, FixedKnown(t, e, s, j - 1), j, 0, t[j].size) = FixedKnown(t, e, s, j)
<1>1. PICK k : k = FixedKnown(t, e, s, j - 1)
  OBVIOUS
<1>2. FixedRest(t, e, s, j, k.rest)
  BY <1>1, FixedRests
<1>3. PICK z \in Nat : z = t[j].size
  BY <1>2 DEF FixedRest
<1>4. 0 + 1 = 1 /\ 0 + z = z /\ 0 + z + 1 = z + 1
  OBVIOUS
<1>5. PICK v : v = SubSeq(s, e[j - 1] + 1, e[j])
  OBVIOUS
<1>6. Framing!Bytes(k, 0, z) = v
  BY <1>2, <1>3, <1>4, <1>5 DEF Framing!Bytes, FixedRest
<1>7. SubSeq(k.rest, 0 + z + 1, Len(k.rest)) = SubSeq(s, e[j] + 1, Len(s))
  BY <1>2, <1>3, <1>4 DEF FixedRest
<1>8. j \in DOMAIN t /\ n \in Nat
  BY DEF Ending
<1>9. /\ Framing!Called(t, t[j].determinesSizeOf) = {}
      /\ Framing!Called(t, t[j].sizeDeterminesExistenceOf) = {}
  BY <1>8, NothingCalled DEF IsFixedSize
<1>10. Framing!Sized(t, k.size, j, v) = [x \in DOMAIN t |-> t[x].size]
  <2>1. k.size = [x \in DOMAIN t |-> t[x].size]
    BY <1>1 DEF FixedKnown
  <2> QED BY <1>9, <2>1 DEF Framing!Sized
<1>11. k.gone \cup Framing!Removed(t, j, v) = {}
  BY <1>1, <1>9 DEF FixedKnown, Framing!Removed
<1>12. Framing!With(k.fields, j, v) = [x \in 1 .. j |-> SubSeq(s, e[x - 1] + 1, e[x])]
  <2>1. k.fields = [x \in 1 .. j - 1 |-> SubSeq(s, e[x - 1] + 1, e[x])]
    BY <1>1 DEF FixedKnown
  <2>2. 1 .. j = (1 .. j - 1) \cup {j}
    BY <1>8
  <2>3. \A x \in 1 .. j : x # j => x \in 1 .. j - 1
    BY <2>2
  <2>4. \A x \in 1 .. j : (IF x = j THEN v ELSE k.fields[x]) = SubSeq(s, e[x - 1] + 1, e[x])
    BY <1>5, <2>1, <2>3
  <2>5. DOMAIN k.fields \cup {j} = 1 .. j
    BY <2>1, <2>2
  <2>6. Framing!With(k.fields, j, v) = [x \in 1 .. j |-> IF x = j THEN v ELSE k.fields[x]]
    BY <2>5 DEF Framing!With
  <2> QED BY <2>4, <2>6
<1>13. Framing!Past(t, k, j, 0, z) = FixedKnown(t, e, s, j)
  BY <1>6, <1>7, <1>10, <1>11, <1>12 DEF Framing!Past, FixedKnown
<1> QED BY <1>1, <1>3, <1>13

LEMMA FixedPasses ==
  ASSUME NEW t \in Templates, IsFixedSize(t), NEW n, NEW e, Ending(t, n, e),
         NEW s \in Seq(Byte), HeadersIn(t, e, s), NEW j \in 1 .. n, e[j] <= Len(s)
  PROVE  Passes(t, FixedKnown(t, e, s, j - 1), j, FixedKnown(t, e, s, j))
<1>1. n \in Nat /\ j \in DOMAIN t /\ j - 1 \in 0 .. n /\ j \in 0 .. n /\ j - 1 <= j
  BY DEF Ending
<1>2. e[j - 1] <= Len(s)
  <2>1. e[j - 1] <= e[j] /\ e[j - 1] \in Nat /\ e[j] \in Nat
    BY <1>1 DEF Ending
  <2>2. Len(s) \in Nat
    BY LenProperties
  <2> QED BY <2>1, <2>2
<1>3. PICK k : k = FixedKnown(t, e, s, j - 1)
  OBVIOUS
<1>4. PICK m : m = FixedKnown(t, e, s, j)
  OBVIOUS
<1>5. k \in Reading(t) /\ m \in Reading(t)
  BY <1>1, <1>2, <1>3, <1>4, FixedKnownType
<1>6. k.gone = {} /\ k.size[j] = t[j].size
  BY <1>1, <1>3 DEF FixedKnown
<1>7. FixedRest(t, e, s, j, k.rest)
  BY <1>2, <1>3, FixedRests
<1>8. PICK r \in Seq(Byte), z \in Nat :
        /\ r = k.rest /\ z = t[j].size /\ z <= Len(r)
        /\ SubSeq(r, 1, z) = SubSeq(s, e[j - 1] + 1, e[j])
  BY <1>7 DEF FixedRest
<1>9. t[j].isHeaderValue => SubSeq(r, 1, z) = t[j].value
  BY <1>1, <1>8 DEF HeadersIn
<1>10. InFront(t, j, z, r)
  BY <1>1, <1>8, <1>9, FixedExtent
<1>11. m = Framing!Past(t, k, j, 0, z)
  BY <1>2, <1>3, <1>4, <1>8, FixedPast
<1>12. 0 + z <= Len(k.rest)
  BY <1>8
<1>13. Framing!Extent(t, j, k.size[j], k.rest) = {<<0, z>>}
  BY <1>6, <1>8, <1>10 DEF InFront
<1>14. \E a, q \in Nat : /\ Framing!Extent(t, j, k.size[j], k.rest) = {<<a, q>>}
                         /\ a + q <= Len(k.rest)
                         /\ m = Framing!Past(t, k, j, a, q)
  BY <1>11, <1>12, <1>13
<1>15. j \notin k.gone
  BY <1>6
<1> QED BY <1>3, <1>4, <1>5, <1>14, <1>15 DEF Passes

LEMMA FixedPath ==
  ASSUME NEW t \in Templates, IsFixedSize(t), NEW n, NEW e, Ending(t, n, e),
         NEW s \in Seq(Byte), HeadersIn(t, e, s), NEW i \in 0 .. n, e[i] <= Len(s)
  PROVE  Path(t, s, i, [j \in 0 .. i |-> FixedKnown(t, e, s, j)])
<1> DEFINE h == [j \in 0 .. i |-> FixedKnown(t, e, s, j)]
<1>1. n \in Nat /\ i \in Nat /\ 0 \in 0 .. i /\ e[0] = 0
  BY DEF Ending
<1>2. h[0] = Framing!Unread(t, s)
  <2>1. h[0] = FixedKnown(t, e, s, 0)
    BY <1>1
  <2>2. [x \in 1 .. 0 |-> SubSeq(s, e[x - 1] + 1, e[x])] = [x \in {} |-> <<>>]
    <3>1. 1 .. 0 = {}
      OBVIOUS
    <3> QED BY <3>1
  <2>3. SubSeq(s, e[0] + 1, Len(s)) = s
    <3>1. e[0] + 1 = 1
      BY <1>1
    <3> QED BY <3>1, AllOfIt
  <2> QED BY <2>1, <2>2, <2>3 DEF FixedKnown, Framing!Unread
<1>3. h[0] \in Reading(t)
  BY <1>2, UnreadType
<1>4. \A j \in 1 .. i : Passes(t, h[j - 1], j, h[j])
  <2> TAKE j \in 1 .. i
  <2>1. j \in 1 .. n /\ j \in 0 .. n /\ j \in 0 .. i /\ j - 1 \in 0 .. i /\ j <= i
    BY <1>1
  <2>2. e[j] <= e[i] /\ e[j] \in Nat /\ e[i] \in Nat
    BY <2>1 DEF Ending
  <2>3. e[j] <= Len(s)
    BY <2>2, LenProperties
  <2>4. Passes(t, FixedKnown(t, e, s, j - 1), j, FixedKnown(t, e, s, j))
    BY <2>1, <2>3, FixedPasses
  <2> QED BY <2>1, <2>4
<1> QED BY <1>2, <1>3, <1>4 DEF Path

(* Not all of it is there.                                                 *)
LEMMA FixedUnread ==
  ASSUME NEW t \in Templates, IsFixedSize(t), NEW n, NEW e, Ending(t, n, e),
         NEW s \in Seq(Byte), HeadersIn(t, e, s), Len(s) < e[n]
  PROVE  Framing!Read(t, s) = {}
<1> DEFINE A == {x \in 1 .. n : e[x] > Len(s)}
<1>1. PICK N \in Nat : N = Len(s)
  BY LenProperties
<1>2. n \in Nat /\ n = Len(t) /\ DOMAIN t = 1 .. n /\ e[0] = 0 /\ \A x \in 0 .. n : e[x] \in Nat
  BY DEF Ending
<1>3. n \in A
  <2>1. e[n] \in Nat /\ n # 0
    BY <1>1, <1>2
  <2> QED BY <1>1, <1>2, <2>1
<1>4. A \subseteq Nat
  BY <1>2
<1>5. PICK j : j \in A /\ \A y \in A : j <= y
  <2> HIDE DEF A
  <2> QED BY <1>3, <1>4, MinProperties
<1>6. j \in 1 .. n /\ j - 1 \in 0 .. n /\ j \in DOMAIN t
  BY <1>2, <1>5
<1>7. e[j] > Len(s)
  BY <1>5
<1>8. e[j - 1] <= Len(s)
  <2>1. CASE j = 1
    <3>1. e[j - 1] = 0
      BY <1>2, <2>1
    <3> QED BY <1>1, <3>1
  <2>2. CASE j # 1
    <3>1. j - 1 \in 1 .. n /\ j - 1 < j
      BY <1>2, <1>6, <2>2
    <3>2. j - 1 \notin A
      BY <1>5, <1>6, <3>1
    <3> QED BY <1>1, <1>2, <1>6, <3>1, <3>2
  <2> QED BY <2>1, <2>2
<1>9. PICK i : i = j - 1
  OBVIOUS
<1>10. PICK h : h = [x \in 0 .. i |-> FixedKnown(t, e, s, x)]
  OBVIOUS
<1>11. Path(t, s, i, h)
  BY <1>6, <1>8, <1>9, <1>10, FixedPath
<1>12. h[i] = FixedKnown(t, e, s, i)
  <2>1. i \in 0 .. i
    BY <1>2, <1>6, <1>9
  <2> QED BY <1>10, <2>1
<1>13. Framing!ReadField(t, h[i], j) = {}
  <2>1. PICK k : k = h[i]
    OBVIOUS
  <2>2. k.gone = {} /\ k.size[j] = t[j].size
    BY <1>6, <1>12, <2>1 DEF FixedKnown
  <2>3. FixedRest(t, e, s, j, k.rest)
    BY <1>6, <1>8, <1>9, <1>12, <2>1, FixedRests
  <2>4. PICK r \in Seq(Byte), z \in Nat : r = k.rest /\ z = t[j].size /\ Len(r) < z
    BY <1>7, <2>3 DEF FixedRest
  <2>5. \A x \in Framing!Extent(t, j, z, r) : ~(x[1] + x[2] <= Len(r))
    <3>1. CASE t[j].isHeaderValue
      BY <2>4, <3>1, ShortSearch
    <3>2. CASE ~t[j].isHeaderValue
      <4>1. Framing!Extent(t, j, z, r) = {<<0, z>>}
        BY <1>6, <3>2 DEF Framing!Extent, IsFixedSize
      <4>2. ~(0 + z <= Len(r))
        BY <2>4, LenProperties
      <4> QED BY <4>1, <4>2
    <3> QED BY <3>1, <3>2
  <2>6. {x \in Framing!Extent(t, j, k.size[j], k.rest) : x[1] + x[2] <= Len(k.rest)} = {}
    BY <2>2, <2>4, <2>5
  <2>7. Framing!ReadField(t, k, j) = {}
    BY <2>2, <2>6 DEF Framing!ReadField
  <2> QED BY <2>1, <2>7
<1>14. Framing!Read(t, s) = {}
  <2>1. j \in 1 .. Len(t) /\ Path(t, s, j - 1, h) /\ Framing!ReadField(t, h[j - 1], j) = {}
    BY <1>2, <1>6, <1>9, <1>11, <1>13
  <2> QED BY <2>1, PathEnds
<1> QED BY <1>14

(* All of it.                                                              *)
LEMMA FixedReads ==
  ASSUME NEW t \in Templates, IsFixedSize(t), NEW n, NEW e, Ending(t, n, e),
         NEW s \in Seq(Byte), HeadersIn(t, e, s), Len(s) = e[n]
  PROVE  Framing!Read(t, s) = {FixedKnown(t, e, s, n)}
<1>1. n \in Nat /\ n = Len(t) /\ n \in 0 .. n /\ e[n] <= Len(s)
  <2>1. n \in Nat /\ n = Len(t) /\ n \in 0 .. n
    BY DEF Ending
  <2>2. Len(s) \in Nat
    BY LenProperties
  <2> QED BY <2>1, <2>2
<1>2. PICK h : h = [x \in 0 .. n |-> FixedKnown(t, e, s, x)]
  OBVIOUS
<1>3. Path(t, s, n, h)
  BY <1>1, <1>2, FixedPath
<1>4. h[n] = FixedKnown(t, e, s, n)
  BY <1>1, <1>2
<1>5. Framing!ReadUpTo(t, s)[n] = {h[n]}
  BY <1>1, <1>3, PathReads
<1> QED BY <1>1, <1>4, <1>5 DEF Framing!Read

(* A well-formed packet of fixed fields has bytes.                         *)
LEMMA FixedNotEmpty ==
  ASSUME NEW t \in Templates, WellFormed(t), IsFixedSize(t), NEW n, NEW e, Ending(t, n, e)
  PROVE  e[n] \in Nat /\ e[n] # 0
<1>1. n \in Nat /\ DOMAIN t = 1 .. n /\ e[0] = 0 /\ n = Len(t) /\ n \in 0 .. n
  BY DEF Ending
<1>2. e[n] \in Nat
  BY <1>1 DEF Ending
<1>3. n # 0
  <2>1. t # <<>>
    BY DEF WellFormed
  <2>2. t \in Seq(FieldDescriptor)
    BY TemplateAssumption
  <2> QED BY <1>1, <2>1, <2>2, EmptySeq
<1>4. 1 \in 1 .. n /\ 1 \in DOMAIN t
  BY <1>1, <1>3
<1>5. PICK j : j \in 1 .. n /\ t[j].size # 0
  <2>1. t[1].sizer = NoSizer
    BY <1>4 DEF IsFixedSize
  <2>2. CASE t[1].size # 0
    BY <1>4, <2>2
  <2>3. CASE t[1].size = 0
    <3>1. 2 \in DOMAIN t /\ (t[2].size > 0 \/ t[2].sizer # NoSizer)
      BY <2>1, <2>3 DEF WellFormed
    <3>2. t[2].size > 0
      BY <3>1 DEF IsFixedSize
    <3>3. t[2].size # 0
      BY <3>2
    <3> QED BY <1>1, <3>1, <3>3
  <2> QED BY <2>2, <2>3
<1>6. PICK a \in Nat, z \in Nat, b \in Nat : a = e[j - 1] /\ z = t[j].size /\ b = e[j] /\ b = a + z
  <2>1. j - 1 \in 0 .. n /\ j \in 0 .. n
    BY <1>1, <1>5
  <2> QED BY <1>5, <2>1 DEF Ending
<1>7. b # 0
  BY <1>5, <1>6
<1>8. b <= e[n]
  <2>1. j \in 0 .. n /\ j <= n
    BY <1>1, <1>5
  <2> QED BY <1>1, <1>6, <2>1 DEF Ending
<1> QED BY <1>2, <1>6, <1>7, <1>8

(* What is cut out of the front of bytes is cut out of the bytes.          *)
LEMMA SliceOfFront ==
  ASSUME NEW s \in Seq(Byte), NEW k \in Nat, k <= Len(s), NEW a \in Nat, NEW z \in Nat,
         a + z <= k
  PROVE  /\ SubSeq(s, 1, k) \in Seq(Byte) /\ Len(SubSeq(s, 1, k)) = k
         /\ SubSeq(SubSeq(s, 1, k), a + 1, a + z) = SubSeq(s, a + 1, a + z)
<1>1. PICK f : f = SubSeq(s, 1, k)
  OBVIOUS
<1>2. f \in Seq(Byte) /\ Len(f) = k /\ \A x \in 1 .. k : f[x] = s[x]
  <2>1. PICK o \in Nat : o = 0
    OBVIOUS
  <2>2. o + k <= Len(s)
    BY <2>1
  <2>3. /\ SubSeq(s, o + 1, o + k) \in Seq(Byte) /\ Len(SubSeq(s, o + 1, o + k)) = k
        /\ \A x \in 1 .. k : SubSeq(s, o + 1, o + k)[x] = s[o + x]
    BY <2>2, SliceType
  <2>4. o + 1 = 1 /\ o + k = k /\ \A x \in 1 .. k : o + x = x
    BY <2>1
  <2> QED BY <1>1, <2>3, <2>4
<1>3. PICK N \in Nat : N = Len(s)
  BY LenProperties
<1>4. a + z <= Len(f) /\ a + z <= Len(s)
  BY <1>2, <1>3
<1>5. PICK v : v = SubSeq(f, a + 1, a + z)
  OBVIOUS
<1>6. v \in Seq(Byte) /\ Len(v) = z /\ \A x \in 1 .. z : v[x] = f[a + x]
  BY <1>2, <1>4, <1>5, SliceType
<1>7. PICK w : w = SubSeq(s, a + 1, a + z)
  OBVIOUS
<1>8. w \in Seq(Byte) /\ Len(w) = z /\ \A x \in 1 .. z : w[x] = s[a + x]
  BY <1>4, <1>7, SliceType
<1>9. \A x \in 1 .. z : v[x] = w[x]
  <2> TAKE x \in 1 .. z
  <2>1. a + x \in 1 .. k
    OBVIOUS
  <2> QED BY <1>2, <1>6, <1>8, <2>1
<1>10. v = w
  BY <1>6, <1>8, <1>9, SeqEqual
<1> QED BY <1>1, <1>2, <1>5, <1>7, <1>10

(* A field of the front is a field of the bytes.                           *)
Cut(e, s, j) == SubSeq(s, e[j - 1] + 1, e[j])

LEMMA FrontField ==
  ASSUME NEW t, NEW n, NEW e, Ending(t, n, e), NEW s \in Seq(Byte), NEW k \in Nat,
         k <= Len(s), NEW j \in 1 .. n, e[j] <= k
  PROVE  Cut(e, SubSeq(s, 1, k), j) = Cut(e, s, j)
<1>1. j - 1 \in 0 .. n /\ j \in 0 .. n
  BY DEF Ending
<1>2. PICK a \in Nat, z \in Nat : a = e[j - 1] /\ z = t[j].size /\ e[j] = a + z
  BY <1>1 DEF Ending
<1>3. a + z <= k
  BY <1>2
<1>4. SubSeq(SubSeq(s, 1, k), a + 1, a + z) = SubSeq(s, a + 1, a + z)
  BY <1>3, SliceOfFront
<1> QED BY <1>2, <1>4 DEF Cut

(* The front of bytes with the headers in place has them in place.         *)
LEMMA FrontHeaders ==
  ASSUME NEW t, NEW n, NEW e, Ending(t, n, e), NEW s \in Seq(Byte), HeadersIn(t, e, s),
         NEW k \in Nat, k <= Len(s)
  PROVE  HeadersIn(t, e, SubSeq(s, 1, k))
<1>1. PICK z \in Nat : z = 0
  OBVIOUS
<1>2. Len(SubSeq(s, 1, k)) = k
  <2>1. z + z <= k
    BY <1>1
  <2> QED BY <2>1, SliceOfFront
<1>3. ASSUME NEW j \in DOMAIN t, t[j].isHeaderValue, e[j] <= k
      PROVE  SubSeq(SubSeq(s, 1, k), e[j - 1] + 1, e[j]) = t[j].value
  <2>1. j \in 1 .. n /\ j \in 0 .. n
    BY DEF Ending
  <2>2. SubSeq(SubSeq(s, 1, k), e[j - 1] + 1, e[j]) = SubSeq(s, e[j - 1] + 1, e[j])
    <3>1. Cut(e, SubSeq(s, 1, k), j) = Cut(e, s, j)
      BY <1>3, <2>1, FrontField
    <3> QED BY <3>1 DEF Cut
  <2>3. e[j] <= Len(s)
    <3>1. e[j] \in Nat
      BY <2>1 DEF Ending
    <3> QED BY <1>3, <3>1, LenProperties
  <2> QED BY <1>3, <2>2, <2>3 DEF HeadersIn
<1> QED BY <1>2, <1>3 DEF HeadersIn

(* Byte by byte, the packet is found with its last.                        *)
LEMMA FixedSeen ==
  ASSUME NEW t \in Templates, WellFormed(t), IsFixedSize(t), NEW n, NEW e, Ending(t, n, e),
         NEW s \in Seq(Byte), HeadersIn(t, e, s), Len(s) = e[n],
         NEW before \in Seq(Byte), NEW found,
         Seen(t, before) = [open |-> <<>>, packets |-> found]
  PROVE  Seen(t, before \o s)
           = [open |-> <<>>, packets |-> Append(found, FixedKnown(t, e, s, n).fields)]
<1>1. PICK N \in Nat : N = Len(s) /\ N = e[n] /\ N # 0
  BY FixedNotEmpty
<1> DEFINE F(k) == SubSeq(s, 1, k)
           S == {k \in Nat : k < N =>
                   Seen(t, before \o F(k)) = [open |-> F(k), packets |-> found]}
<1>2. ASSUME NEW k \in Nat, k < N
      PROVE  /\ F(k) \in Seq(Byte) /\ Len(F(k)) = k /\ s[k + 1] \in Byte
             /\ F(k + 1) = Append(F(k), s[k + 1])
  <2>1. F(k) \in Seq(Byte) /\ Len(F(k)) = k
    BY <1>1, <1>2, SubSeqProperties
  <2>2. F(k + 1) \in Seq(Byte) /\ Len(F(k + 1)) = k + 1
    BY <1>1, <1>2, SubSeqProperties
  <2>3. s[k + 1] \in Byte
    <3>1. k + 1 \in 1 .. Len(s)
      BY <1>1, <1>2
    <3> QED BY <3>1, ElementOfSeq
  <2>4. PICK c \in Seq(Byte), x \in Byte : c = F(k) /\ x = s[k + 1]
    BY <2>1, <2>3
  <2>5. PICK w : w = Append(c, x)
    OBVIOUS
  <2>6. /\ w \in Seq(Byte) /\ Len(w) = k + 1
        /\ \A y \in 1 .. k : w[y] = c[y]
        /\ w[k + 1] = x
    BY <2>1, <2>4, <2>5, AppendProperties
  <2>7. \A y \in 1 .. k + 1 : w[y] = F(k + 1)[y]
    <3> TAKE y \in 1 .. k + 1
    <3>1. F(k + 1)[y] = s[y]
      BY <1>1, <1>2, SubSeqProperties
    <3>2. CASE y \in 1 .. k
      <4>1. F(k)[y] = s[y]
        BY <1>1, <1>2, <3>2, SubSeqProperties
      <4> QED BY <2>4, <2>6, <3>1, <3>2, <4>1
    <3>3. CASE y = k + 1
      BY <2>4, <2>6, <3>1, <3>3
    <3> QED BY <3>2, <3>3
  <2> HIDE DEF F
  <2>8. w = F(k + 1)
    BY <2>2, <2>6, <2>7, SeqEqual
  <2> QED BY <2>1, <2>3, <2>4, <2>5, <2>8
<1>3. 0 \in S
  <2>1. F(0) = <<>>
    OBVIOUS
  <2>2. before \o F(0) = before
    BY <2>1, ConcatEmptySeq
  <2> HIDE DEF F
  <2> QED BY <2>1, <2>2
<1> HIDE DEF F
<1>4. ASSUME NEW k \in Nat, k < N, Seen(t, before \o F(k)) = [open |-> F(k), packets |-> found]
      PROVE  before \o F(k) \in Seq(Byte) /\ before \o F(k + 1) = Append(before \o F(k), s[k + 1])
  <2>1. F(k) \in Seq(Byte) /\ s[k + 1] \in Byte /\ F(k + 1) = Append(F(k), s[k + 1])
    BY <1>2, <1>4
  <2>2. PICK c \in Seq(Byte), x \in Byte : c = F(k) /\ x = s[k + 1] /\ F(k + 1) = Append(c, x)
    BY <2>1
  <2>3. before \o c \in Seq(Byte) /\ before \o Append(c, x) = Append(before \o c, x)
    BY OneMoreByte
  <2> QED BY <2>2, <2>3
<1>5. ASSUME NEW k \in S PROVE k + 1 \in S
  <2> SUFFICES ASSUME k + 1 < N
               PROVE  Seen(t, before \o F(k + 1)) = [open |-> F(k + 1), packets |-> found]
    OBVIOUS
  <2>1. k \in Nat /\ k < N /\ k + 1 \in Nat /\ k + 1 <= Len(s)
    BY <1>1
  <2>2. Seen(t, before \o F(k)) = [open |-> F(k), packets |-> found]
    BY <2>1
  <2>3. before \o F(k) \in Seq(Byte) /\ before \o F(k + 1) = Append(before \o F(k), s[k + 1])
    BY <1>4, <2>1, <2>2
  <2>4. s[k + 1] \in Byte /\ F(k + 1) = Append(F(k), s[k + 1])
    BY <1>2, <2>1
  <2>5. Len(F(k + 1)) = k + 1 /\ F(k + 1) \in Seq(Byte)
    BY <1>2, <2>1
  <2>6. HeadersIn(t, e, F(k + 1))
    BY <2>1, FrontHeaders DEF F
  <2>7. Framing!Read(t, F(k + 1)) = {}
    <3>1. Len(F(k + 1)) < e[n]
      BY <1>1, <2>5
    <3> QED BY <2>5, <2>6, <3>1, FixedUnread
  <2>8. Seen(t, Append(before \o F(k), s[k + 1])) = [open |-> Append(F(k), s[k + 1]), packets |-> found]
    <3>1. PICK o, c, x : o = F(k) /\ c = before \o F(k) /\ x = s[k + 1]
      OBVIOUS
    <3>2. /\ c \in Seq(Byte) /\ x \in Byte /\ Seen(t, c) = [open |-> o, packets |-> found]
          /\ Framing!Read(t, Append(o, x)) = {}
      BY <2>2, <2>3, <2>4, <2>7, <3>1
    <3>3. Seen(t, Append(c, x)) = [open |-> Append(o, x), packets |-> found]
      BY <3>2, SeenOpen
    <3> QED BY <3>1, <3>3
  <2> QED BY <2>3, <2>4, <2>8
<1>6. S = Nat
  <2>1. S \in SUBSET Nat
    OBVIOUS
  <2> HIDE DEF S
  <2> QED BY <1>3, <1>5, <2>1, FromZero
<1>7. PICK k \in Nat : k + 1 = N /\ k < N
  <2>1. N - 1 \in Nat /\ (N - 1) + 1 = N /\ N - 1 < N
    BY <1>1
  <2> QED BY <2>1
<1>8. Seen(t, before \o F(k)) = [open |-> F(k), packets |-> found]
  BY <1>6, <1>7
<1>9. /\ before \o F(k) \in Seq(Byte) /\ before \o F(k + 1) = Append(before \o F(k), s[k + 1])
      /\ s[k + 1] \in Byte /\ F(k + 1) = Append(F(k), s[k + 1])
  BY <1>2, <1>4, <1>7, <1>8
<1>10. F(k + 1) = s
  BY <1>1, <1>7, AllOfIt DEF F
<1>11. Framing!Read(t, Append(F(k), s[k + 1])) = {FixedKnown(t, e, s, n)}
  <2>1. Framing!Read(t, s) = {FixedKnown(t, e, s, n)}
    BY FixedReads
  <2> QED BY <1>9, <1>10, <2>1
<1>12. Seen(t, Append(before \o F(k), s[k + 1]))
         = [open |-> <<>>, packets |-> Append(found, FixedKnown(t, e, s, n).fields)]
  <2>1. PICK o, c, x, m : /\ o = F(k) /\ c = before \o F(k) /\ x = s[k + 1]
                          /\ m = FixedKnown(t, e, s, n)
    OBVIOUS
  <2>2. /\ c \in Seq(Byte) /\ x \in Byte /\ Seen(t, c) = [open |-> o, packets |-> found]
        /\ Framing!Read(t, Append(o, x)) = {m}
    BY <1>8, <1>9, <1>11, <2>1
  <2>3. Seen(t, Append(c, x)) = [open |-> <<>>, packets |-> Append(found, m.fields)]
    BY <2>2, SeenPacket
  <2> QED BY <2>1, <2>3
<1> QED BY <1>9, <1>10, <1>12

-----------------------------------------------------------------------------
(* The dissector on its way through a stream.                              *)

(* addBytes compares no headers in packets of fixed fields: its owner sees *)
(* to it that they are there.                                              *)
HeadersInPlace ==
  [][\A bytes \in Seq(Byte) :
       WellFormed(template) /\ AddFixed(bytes) =>
         \A i \in DOMAIN template :
           template[i].isHeaderValue => Slice(template, bytes, i) = template[i].value]_feedVars

(* The packets returned are those of the bytes taken, and the dissector is *)
(* where it should be in the bytes behind them.                            *)
Upto(open) ==
  /\ open \in Seq(Byte)
  /\ Seen(template, taken) = [open |-> open, packets |-> packets]
  /\ IsFixedSize(template) /\ DirectOf(template) = {} => open = <<>>
  /\ Half(template, Prep(template, cur, buffer), buffer, open)

FramedInv == WellFormed(template) => \E open : Upto(open)

LEMMA FramedBegins ==
  ASSUME BuildInit
  PROVE  FramedInv
<1>1. /\ template \in Templates /\ cur = NewPacket(template) /\ buffer = <<>>
      /\ taken = <<>> /\ packets = <<>>
  BY DEF BuildInit, FeedInit, Init
<1> SUFFICES ASSUME WellFormed(template) PROVE Upto(<<>>)
  BY DEF FramedInv
<1>2. Seen(template, taken) = [open |-> <<>>, packets |-> packets]
  BY <1>1, SeenNothing
<1>3. Prep(template, cur, buffer) = SkipEmptyTop(NewPacket(template))
  BY <1>1 DEF Prep
<1>4. Half(template, SkipEmptyTop(NewPacket(template)), <<>>, <<>>)
  BY <1>1, BeginHalf
<1>5. <<>> \in Seq(Byte)
  BY EmptySeq
<1> QED BY <1>1, <1>2, <1>3, <1>4, <1>5 DEF Upto

(* A byte.                                                                 *)
LEMMA ByteFramed ==
  ASSUME NEW S, SizerContract(template, S), HandedFrom(S), Reached, Reached', BufferInv,
         template' = template, WellFormed(template), NEW open, Upto(open),
         NEW b \in Byte, ByteGoes(b)
  PROVE  \E o : Upto(o)'
<1>1. /\ TypeOK /\ Consistent(template, cur) /\ Waiting(template, cur, buffer)
      /\ template \in Templates /\ taken \in Seq(Byte) /\ RulesInv'
  BY DEF Reached, RulesInv, TypeOK, BufferInv, HistoryTypes
<1>2. /\ AddByte(b) /\ taken' = Append(taken, b)
      /\ packets' = IF result' = "packet" THEN Append(packets, CurrentPacket) ELSE packets
      /\ ~(IsFixedSize(template) /\ DirectOf(template) = {})
  BY DEF ByteGoes
<1>3. Halfway(S, open)
  BY <1>1, PreparedIs DEF Halfway, Upto
<1>4. Framed(b, open)
  BY <1>1, <1>2, <1>3, StepHalf
<1>5. Seen(template, taken) = [open |-> open, packets |-> packets] /\ open \in Seq(Byte)
  BY DEF Upto
<1>6. CASE result' = "packet" /\ cur'.stack = {} /\ buffer' = <<>>
           /\ \E m : Framing!Read(template, Append(open, b)) = {m} /\ m.fields = CurrentPacket
  <2>1. PICK m : Framing!Read(template, Append(open, b)) = {m} /\ m.fields = CurrentPacket
    BY <1>6
  <2>2. Seen(template, Append(taken, b)) = [open |-> <<>>, packets |-> Append(packets, m.fields)]
    BY <1>1, <1>5, <2>1, SeenPacket
  <2>3. Seen(template', taken') = [open |-> <<>>, packets |-> packets']
    BY <1>2, <1>6, <2>1, <2>2
  <2>4. Prep(template', cur', buffer') = SkipEmptyTop(NewPacket(template))
    BY <1>6 DEF Prep
  <2>5. Half(template, SkipEmptyTop(NewPacket(template)), <<>>, <<>>)
    BY <1>1, BeginHalf
  <2>6. Half(template', Prep(template', cur', buffer'), buffer', <<>>)
    BY <1>6, <2>4, <2>5
  <2>7. <<>> \in Seq(Byte)
    BY EmptySeq
  <2>8. Upto(<<>>)'
    BY <2>3, <2>6, <2>7 DEF Upto
  <2> QED BY <2>8
<1>7. CASE result' = "none" /\ Half(template, Prep(template, cur', buffer'), buffer', Append(open, b))
  <2>1. PICK d : d = Prep(template, cur', buffer')
    OBVIOUS
  <2>2. d \in Current(template)
    <3>1. cur' \in Current(template)
      BY <1>1 DEF RulesInv, TypeOK
    <3>2. NewPacket(template) \in Current(template)
      BY <1>1, NewPacketType
    <3> QED BY <1>1, <2>1, <3>1, <3>2, SkipEmptyTopType DEF Prep
  <2>3. Framing!Read(template, Append(open, b)) = {}
    BY <1>1, <1>7, <2>1, <2>2, HalfUnread
  <2>4. Seen(template, Append(taken, b)) = [open |-> Append(open, b), packets |-> packets]
    BY <1>1, <1>5, <2>3, SeenOpen
  <2>5. Seen(template', taken') = [open |-> Append(open, b), packets |-> packets']
    BY <1>2, <1>7, <2>4
  <2>6. Append(open, b) \in Seq(Byte)
    BY <1>5, OneMore
  <2>7. Half(template', Prep(template', cur', buffer'), buffer', Append(open, b))
    BY <1>7
  <2>8. Upto(Append(open, b))'
    BY <1>2, <2>5, <2>6, <2>7 DEF Upto
  <2> QED BY <2>8
<1> QED BY <1>4, <1>6, <1>7 DEF Framed

(* A packet of fixed fields.                                               *)
LEMMA CutFramed ==
  ASSUME OneWayIn, Reached, template' = template, WellFormed(template),
         NEW open, Upto(open), NEW bytes \in Seq(Byte), PacketCut(bytes),
         \A i \in DOMAIN template :
           template[i].isHeaderValue => Slice(template, bytes, i) = template[i].value
  PROVE  /\ Upto(<<>>)'
         /\ SubSeq(bytes, 1, FixedSize(template)) \in Seq(Byte)
         /\ SubSeq(bytes, 1, FixedSize(template)) # <<>>
<1>1. /\ template \in Templates /\ taken \in Seq(Byte)
  BY DEF Reached, RulesInv, TypeOK, HistoryTypes
<1>2. /\ IsFixedSize(template) /\ FixedSize(template) <= Len(bytes)
      /\ taken' = taken \o SubSeq(bytes, 1, FixedSize(template))
      /\ packets' = Append(packets, [i \in DOMAIN template |-> Slice(template, bytes, i)])
      /\ cur' = cur /\ buffer' = buffer
  BY DEF PacketCut, AddFixed, vars
<1>3. DirectOf(template) = {}
  BY <1>1, <1>2 DEF OneWayIn, PacketCut
<1>4. open = <<>>
  BY <1>2, <1>3 DEF Upto
<1>5. PICK n, e : n = Len(template) /\ e = Ends(SizesOf(template)) /\ Ending(template, n, e)
  BY <1>1, FixedEnds
<1>6. PICK k \in Nat : k = FixedSize(template) /\ k = e[n] /\ k # 0 /\ k <= Len(bytes)
  <2>1. e[n] \in Nat /\ e[n] # 0
    BY <1>1, <1>2, <1>5, FixedNotEmpty
  <2> QED BY <1>2, <1>5, <2>1 DEF FixedSize
<1>7. PICK s : s = SubSeq(bytes, 1, k)
  OBVIOUS
<1>8. s \in Seq(Byte) /\ Len(s) = k /\ s # <<>>
  <2>1. PICK z \in Nat : z = 0
    OBVIOUS
  <2>2. z + z <= k
    BY <2>1
  <2>3. s \in Seq(Byte) /\ Len(s) = k
    BY <1>6, <1>7, <2>2, SliceOfFront
  <2> QED BY <1>6, <2>3, EmptySeq
<1>9. HeadersIn(template, e, bytes)
  BY <1>5 DEF HeadersIn, Slice
<1>10. HeadersIn(template, e, s)
  BY <1>5, <1>6, <1>7, <1>9, FrontHeaders
<1>11. Seen(template, taken \o s)
         = [open |-> <<>>, packets |-> Append(packets, FixedKnown(template, e, s, n).fields)]
  <2>1. Seen(template, taken) = [open |-> <<>>, packets |-> packets]
    BY <1>4 DEF Upto
  <2> QED BY <1>1, <1>2, <1>5, <1>6, <1>8, <1>10, <2>1, FixedSeen
<1>12. FixedKnown(template, e, s, n).fields = [i \in DOMAIN template |-> Slice(template, bytes, i)]
  <2>1. DOMAIN template = 1 .. n /\ n \in Nat
    BY <1>5 DEF Ending
  <2>2. FixedKnown(template, e, s, n).fields = [x \in 1 .. n |-> Cut(e, s, x)]
    BY DEF FixedKnown, Cut
  <2>3. ASSUME NEW x \in 1 .. n PROVE Cut(e, s, x) = Slice(template, bytes, x)
    <3>1. x \in 0 .. n /\ n \in 0 .. n /\ x <= n
      BY <2>1
    <3>2. e[x] <= k
      BY <1>5, <1>6, <3>1 DEF Ending
    <3>3. Cut(e, s, x) = Cut(e, bytes, x)
      BY <1>5, <1>6, <1>7, <3>2, FrontField
    <3> QED BY <1>5, <3>3 DEF Cut, Slice
  <2> QED BY <2>1, <2>2, <2>3
<1>13. Seen(template', taken') = [open |-> <<>>, packets |-> packets']
  BY <1>2, <1>6, <1>7, <1>11, <1>12
<1>14. Half(template', Prep(template', cur', buffer'), buffer', <<>>)
  BY <1>2, <1>4 DEF Upto
<1>15. Upto(<<>>)'
  BY <1>13, <1>14, EmptySeq DEF Upto
<1> QED BY <1>6, <1>7, <1>8, <1>15

(* What came in last is behind what came before.                           *)
LEMMA LastIn ==
  ASSUME NEW s \in Seq(Byte), NEW x \in Seq(Byte), x # <<>>, NEW u, u = s \o x
  PROVE  Len(u) > Len(s) /\ u = s \o SubSeq(u, Len(s) + 1, Len(u))
<1>1. PICK m \in Nat, n \in Nat : m = Len(s) /\ n = Len(x) /\ n # 0
  BY LenProperties, EmptySeq
<1>2. /\ u \in Seq(Byte) /\ Len(u) = m + n
      /\ \A k \in 1 .. m : u[k] = s[k]
      /\ \A k \in 1 .. n : u[m + k] = x[k]
  <2>1. /\ u \in Seq(Byte) /\ Len(u) = Len(s) + Len(x)
        /\ \A i \in 1 .. Len(s) + Len(x) : u[i] = IF i <= Len(s) THEN s[i] ELSE x[i - Len(s)]
    BY ConcatProperties
  <2>2. ASSUME NEW k \in 1 .. m PROVE u[k] = s[k]
    <3>1. k \in 1 .. m + n /\ k <= m
      BY <1>1
    <3> QED BY <1>1, <2>1, <3>1
  <2>3. ASSUME NEW k \in 1 .. n PROVE u[m + k] = x[k]
    <3>1. m + k \in 1 .. m + n /\ ~(m + k <= m) /\ (m + k) - m = k
      BY <1>1
    <3> QED BY <1>1, <2>1, <3>1
  <2> QED BY <1>1, <2>1, <2>2, <2>3
<1>3. PICK v : v = SubSeq(u, m + 1, m + n)
  OBVIOUS
<1>4. v \in Seq(Byte) /\ Len(v) = n /\ \A k \in 1 .. n : v[k] = u[m + k]
  <2>1. m + n <= Len(u)
    BY <1>2
  <2> QED BY <1>2, <1>3, <2>1, SliceType
<1>5. \A k \in 1 .. n : v[k] = x[k]
  BY <1>2, <1>4
<1>6. v = x
  BY <1>1, <1>4, <1>5, SeqEqual
<1> QED BY <1>1, <1>2, <1>3, <1>6

LEMMA FramingGoes ==
  ASSUME WellFormed(template), template' = template, taken \in Seq(Byte),
         NEW x \in Seq(Byte), x # <<>>, taken' = taken \o x, NEW o, Upto(o)'
  PROVE  Framing!Next
<1>1. Len(taken') > Len(taken) /\ taken' = taken \o SubSeq(taken', Len(taken) + 1, Len(taken'))
  BY LastIn
<1>2. Seen(template', taken').packets = packets'
  BY DEF Upto
<1>3. Framing!PacketsOf(template', taken') = packets'
  BY <1>2 DEF Seen, Framing!PacketsOf
<1> QED BY <1>1, <1>3 DEF Framing!Next, Framing!Receive

(* What PacketFraming is shown.                                            *)
Shown ==
  <<template, IF WellFormed(template) THEN taken ELSE <<>>,
    IF WellFormed(template) THEN packets ELSE <<>>>>

HeadersHere(bytes) ==
  WellFormed(template) /\ AddFixed(bytes) =>
    \A i \in DOMAIN template :
      template[i].isHeaderValue => Slice(template, bytes, i) = template[i].value

(* Bytes have come in, or nothing that is shown has changed.               *)
Grown ==
  \/ FramedInv' /\ Framing!Next
  \/ (FramedInv => FramedInv') /\ UNCHANGED Shown

LEMMA FramedKept ==
  ASSUME NEW S, \A t \in Templates : WellFormed(t) => SizerContract(t, S), OneWayIn,
         HandedFrom(S), Reached, Reached', BufferInv, FramedInv,
         [\A bytes \in Seq(Byte) : HeadersHere(bytes)]_feedVars,
         [BuildNext]_buildVars
  PROVE  FramedInv' /\ [Framing!Next]_Shown
<1>1. /\ template' = template /\ template \in Templates
      /\ taken \in Seq(Byte) /\ SenderTypes /\ HistoryTypes /\ Untouched
  BY SenderTypesKept DEF Reached, SenderTypes, HistoryTypes
<1>2. CASE ~WellFormed(template)
  BY <1>1, <1>2 DEF FramedInv, Shown
<1>3. CASE WellFormed(template)
  <2>1. PICK open : Upto(open)
    BY <1>3 DEF FramedInv
  <2>2. ASSUME NEW b \in Byte, ByteGoes(b)
        PROVE  FramedInv' /\ Framing!Next
    <3>1. SizerContract(template, S)
      BY <1>1, <1>3
    <3>2. PICK o : Upto(o)'
      BY <1>1, <1>3, <2>1, <2>2, <3>1, ByteFramed
    <3>3. taken' = taken \o <<b>>
      <4>1. taken' = Append(taken, b)
        BY <2>2 DEF ByteGoes
      <4>2. Append(taken, b) = taken \o <<b>>
        BY <1>1, AppendIsConcat
      <4> QED BY <4>1, <4>2
    <3>4. <<b>> \in Seq(Byte) /\ <<b>> # <<>>
      OBVIOUS
    <3>5. Framing!Next
      BY <1>1, <1>3, <3>2, <3>3, <3>4, FramingGoes
    <3> QED BY <3>2, <3>5 DEF FramedInv
  <2>3. ASSUME NEW bytes \in Seq(Byte), PacketCut(bytes)
        PROVE  FramedInv' /\ Framing!Next
    <3>1. AddFixed(bytes)
      BY <2>3 DEF PacketCut
    <3>2. packets' # packets
      BY <1>1, <3>1, PacketCutGoes
    <3>3. HeadersHere(bytes)
      BY <3>2 DEF feedVars
    <3>4. PICK x : x = SubSeq(bytes, 1, FixedSize(template))
      OBVIOUS
    <3>5. Upto(<<>>)' /\ x \in Seq(Byte) /\ x # <<>>
      BY <1>1, <1>3, <2>1, <2>3, <3>1, <3>3, <3>4, CutFramed DEF HeadersHere
    <3>6. taken' = taken \o x
      BY <3>1, <3>4 DEF AddFixed
    <3>7. Framing!Next
      BY <1>1, <1>3, <3>5, <3>6, FramingGoes
    <3> QED BY <3>5, <3>7 DEF FramedInv
  <2>4. CASE HistoryStands
    <3>1. Upto(open)'
      BY <2>1, <2>4 DEF Upto, HistoryStands, vars
    <3> QED BY <3>1, <2>4 DEF FramedInv, Shown, HistoryStands, vars
  <2> QED BY <1>1, <2>2, <2>3, <2>4, WaysIn
<1> QED BY <1>2, <1>3

LEMMA FramingBegins ==
  ASSUME BuildInit
  PROVE  Framing!Init
BY DEF BuildInit, FeedInit, Init, Framing!Init

(* The dissector does to a stream what PacketFraming says: every packet it *)
(* returns has the fields of the bytes taken, each of them read at the     *)
(* place and with the length that the whole stream gives it, the moment    *)
(* they are there (addByte, and the fast path of addBytes).  For all       *)
(* well-formed templates, with all callbacks that keep their contract and  *)
(* whatever bytes come.                                                    *)
THEOREM StreamIsFramed ==
  ASSUME NEW S, \A t \in Templates : WellFormed(t) => SizerContract(t, S), OneWayIn
  PROVE  BuildSpec /\ []HandedFrom(S) /\ HeadersInPlace => FramingSpec
<1>1. BuildInit => BufferInv /\ FramedInv /\ Framing!Init
  BY BufferInvInit, FramedBegins, FramingBegins DEF BuildInit, FeedInit
<1>2. /\ HandedFrom(S) /\ Reached /\ Reached' /\ BufferInv /\ FramedInv
      /\ [\A bytes \in Seq(Byte) : HeadersHere(bytes)]_feedVars
      /\ [BuildNext]_buildVars
      => BufferInv' /\ FramedInv' /\ [Framing!Next]_Shown
  <2> SUFFICES ASSUME HandedFrom(S), Reached, Reached', BufferInv, FramedInv,
                      [\A bytes \in Seq(Byte) : HeadersHere(bytes)]_feedVars,
                      [BuildNext]_buildVars
               PROVE  BufferInv' /\ FramedInv' /\ [Framing!Next]_Shown
    OBVIOUS
  <2>1. [Next]_vars /\ RulesInv /\ RulesInv'
    BY BytesOfReceiver DEF Reached
  <2>2. BufferInv'
    BY <2>1, BufferInvKept DEF RulesInv, TypeOK
  <2> QED BY <2>2, FramedKept
<1>3. HeadersInPlace => [][\A bytes \in Seq(Byte) : HeadersHere(bytes)]_feedVars
  BY DEF HeadersInPlace, HeadersHere
<1>4. BuildSpec /\ []HandedFrom(S) /\ HeadersInPlace => Framing!Init /\ [][Framing!Next]_Shown
  BY <1>1, <1>2, <1>3, ReachedStates, PTL DEF BuildSpec
<1> QED BY <1>4 DEF FramingSpec, Framing!Spec, Shown
=============================================================================
