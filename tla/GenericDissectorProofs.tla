----------------------- MODULE GenericDissectorProofs -----------------------
(***************************************************************************)
(* Proofs about GenericDissector, for every set of templates and callbacks.*)
(* First what each operation on the stack and the packet does to their     *)
(* parts, then type correctness, then the rules of well-formed templates   *)
(* and the buffer.                                                         *)
(***************************************************************************)
EXTENDS GenericDissector, TLAPS, SequenceTheorems, WellFoundedInduction

(* The least-number principle, for Min of the community modules.           *)
LEMMA MinProperties ==
  ASSUME NEW S, S \subseteq Nat, S # {}
  PROVE  /\ Min(S) \in S
         /\ \A y \in S : Min(S) <= y
<1>1. PICK x \in S : \A y \in S : ~ (<<y, x>> \in OpToRel(<, Nat))
  BY WFMin, NatLessThanWellFounded, Zenon
<1>2. \A y \in S : x <= y
  <2>1. TAKE y \in S
  <2>2. <<y, x>> \notin OpToRel(<, Nat)
    BY <1>1
  <2>3. ~(y < x)
    BY <2>2 DEF OpToRel
  <2> QED
    BY <2>3
<1> QED
  BY <1>2 DEF Min

LEMMA TemplateDomain ==
  ASSUME NEW t \in Templates
  PROVE  /\ DOMAIN t \subseteq Nat
         /\ \A i \in DOMAIN t : t[i] \in FieldDescriptor
<1>1. t \in Seq(FieldDescriptor)
  BY TemplateAssumption
<1> QED
  BY <1>1, LenProperties, ElementOfSeq

LEMMA FieldParts ==
  ASSUME NEW f \in FieldDescriptor
  PROVE  /\ f.size \in UInt16
         /\ f.value \in Seq(Byte)
         /\ f.sizeOffset \in Int
         /\ f.isHeaderValue \in BOOLEAN
<1>1. f.size \in UInt16 /\ f.value \in Seq(Byte) /\ f.sizeOffset \in Int16
      /\ f.isHeaderValue \in BOOLEAN
  BY DEF FieldDescriptor
<1>2. Int16 \subseteq Int
  BY DEF Int16
<1> QED
  BY <1>1, <1>2

LEMMA TopProperties ==
  ASSUME NEW t \in Templates, NEW d \in Current(t), d.stack # {}
  PROVE  /\ Top(d) \in d.stack
         /\ Top(d) \in DOMAIN t
         /\ \A j \in d.stack : Top(d) <= j
<1>1. d.stack \subseteq DOMAIN t /\ d.stack \subseteq Nat
  BY TemplateDomain DEF Current
<1> QED
  BY <1>1, MinProperties DEF Top

(* Every position and the parts of a well-typed record.                    *)
LEMMA CurrentParts ==
  ASSUME NEW t, NEW d \in Current(t)
  PROVE  /\ d.stack \subseteq DOMAIN t
         /\ d.unsized \subseteq DOMAIN t
         /\ d.done \subseteq DOMAIN t
         /\ d.size \in [DOMAIN t -> UInt16]
         /\ d.value \in [DOMAIN t -> Seq(Byte)]
         /\ d = [stack |-> d.stack, size |-> d.size, unsized |-> d.unsized,
                 done |-> d.done, value |-> d.value]
BY DEF Current

LEMMA PartsType ==
  ASSUME NEW t, NEW st, NEW si, NEW un, NEW dn, NEW va,
         st \subseteq DOMAIN t, un \subseteq DOMAIN t, dn \subseteq DOMAIN t,
         si \in [DOMAIN t -> UInt16], va \in [DOMAIN t -> Seq(Byte)]
  PROVE  Parts(st, si, un, dn, va) \in Current(t)
BY DEF Parts, Current

LEMMA NewPacketType ==
  ASSUME NEW t \in Templates
  PROVE  NewPacket(t) \in Current(t)
<1>1. \A i \in DOMAIN t : t[i].size \in UInt16
  BY TemplateDomain DEF FieldDescriptor
<1>2. [i \in DOMAIN t |-> t[i].size] \in [DOMAIN t -> UInt16]
  BY <1>1
<1>3. [i \in DOMAIN t |-> <<>>] \in [DOMAIN t -> Seq(Byte)]
  BY EmptySeq
<1> QED
  BY <1>2, <1>3, PartsType DEF NewPacket

LEMMA PushType ==
  ASSUME NEW t \in Templates, NEW d \in Current(t), d.stack # {},
         NEW bytes \in Seq(Byte)
  PROVE  Push(d, bytes) \in Current(t)
<1>1. [d.value EXCEPT ![Top(d)] = bytes] \in [DOMAIN t -> Seq(Byte)]
  BY CurrentParts
<1>2. Top(d) \in DOMAIN t
  BY TopProperties
<1>3. /\ d.stack \ {Top(d)} \subseteq DOMAIN t
      /\ d.done \cup {Top(d)} \subseteq DOMAIN t
  BY <1>2, CurrentParts
<1> QED
  BY <1>1, <1>3, CurrentParts, PartsType DEF Push

LEMMA SkipEmptyTopType ==
  ASSUME NEW t \in Templates, NEW d \in Current(t)
  PROVE  SkipEmptyTop(d) \in Current(t)
BY PushType, EmptySeq DEF SkipEmptyTop

LEMMA DrainEmptyType ==
  ASSUME NEW t \in Templates, NEW d \in Current(t)
  PROVE  DrainEmpty(d) \in Current(t)
<1> DEFINE z == {i \in d.stack : \A j \in d.stack : j <= i => CertainlyZeroSized(d, j)}
<1>1. z \subseteq DOMAIN t
  BY CurrentParts
<1>2. DrainEmpty(d) = Parts(d.stack \ z, d.size, d.unsized, d.done \cup z, d.value)
  BY DEF DrainEmpty
<1> HIDE DEF z
<1>3. d.stack \ z \subseteq DOMAIN t /\ d.done \cup z \subseteq DOMAIN t
  BY <1>1, CurrentParts
<1> QED
  BY <1>2, <1>3, CurrentParts, PartsType

(* The field a rule names, when the stack has it.                          *)
LEMMA NamedProperties ==
  ASSUME NEW t \in Templates, NEW S, S \subseteq DOMAIN t, NEW n, Named(t, S, n) # {}
  PROVE  /\ Min(Named(t, S, n)) \in S
         /\ t[Min(Named(t, S, n))].name = n
<1>1. Named(t, S, n) \subseteq Nat
  BY TemplateDomain DEF Named
<1>2. Min(Named(t, S, n)) \in Named(t, S, n)
  BY <1>1, MinProperties
<1> QED
  BY <1>2 DEF Named

LEMMA Low16Type ==
  ASSUME NEW v \in Seq(Byte), Len(v) # 0
  PROVE  Low16(v) \in Nat
<1>1. Len(v) \in Nat \ {0}
  BY LenProperties
<1>2. \A k \in 1 .. Len(v) : v[k] \in Nat
  <2>1. \A k \in 1 .. Len(v) : v[k] \in Byte
    BY ElementOfSeq
  <2>2. Byte \subseteq Nat
    BY ByteAssumption
  <2> QED
    BY <2>1, <2>2
<1>3. 1 \in 1 .. Len(v) /\ (Len(v) > 1 => 2 \in 1 .. Len(v))
  BY <1>1
<1> QED
  BY <1>1, <1>2, <1>3 DEF Low16

LEMMA ToUInt16Type ==
  ASSUME NEW n \in Int
  PROVE  ToUInt16(n) \in UInt16
BY DEF ToUInt16, UInt16

LEMMA ApplySizeRuleType ==
  ASSUME NEW t \in Templates, NEW d \in Current(t), NEW i \in d.done,
         ~SizeRuleThrows(t, d, i)
  PROVE  ApplySizeRule(t, d, i) \in Current(t)
<1>1. CASE t[i].determinesSizeOf = NoName
  BY <1>1 DEF ApplySizeRule
<1>2. CASE t[i].determinesSizeOf # NoName
  <2> DEFINE x == Min(Named(t, d.stack, t[i].determinesSizeOf))
             n == ToUInt16(Low16(SizeBytes(t, d, i)) + t[i].sizeOffset)
  <2>1. x \in DOMAIN t
    BY <1>2, NamedProperties, CurrentParts DEF SizeRuleThrows
  <2>2. Len(SizeBytes(t, d, i)) # 0
    BY <1>2 DEF SizeRuleThrows, Readable
  <2>3. SizeBytes(t, d, i) \in Seq(Byte)
    <3>1. i \in DOMAIN t /\ d.done \subseteq DOMAIN t
      BY CurrentParts
    <3>2. Named(t, d.done, t[i].name) # {}
      BY DEF Named
    <3>3. Min(Named(t, d.done, t[i].name)) \in DOMAIN t
      BY <3>1, <3>2, NamedProperties
    <3> QED
      BY <3>3, CurrentParts DEF SizeBytes
  <2>4. t[i].sizeOffset \in Int
    <3>1. t[i] \in FieldDescriptor
      BY TemplateDomain, CurrentParts
    <3> QED
      BY <3>1, FieldParts
  <2>5. n \in UInt16
    <3>1. Low16(SizeBytes(t, d, i)) \in Nat
      BY <2>2, <2>3, Low16Type
    <3>2. Low16(SizeBytes(t, d, i)) + t[i].sizeOffset \in Int
      BY <3>1, <2>4
    <3> QED
      BY <3>2, ToUInt16Type
  <2>6. ApplySizeRule(t, d, i) =
          Parts(d.stack, [d.size EXCEPT ![x] = n], d.unsized, d.done, d.value)
    BY <1>2 DEF ApplySizeRule
  <2> HIDE DEF x, n
  <2>7. [d.size EXCEPT ![x] = n] \in [DOMAIN t -> UInt16]
    BY <2>1, <2>5, CurrentParts
  <2>8. Parts(d.stack, [d.size EXCEPT ![x] = n], d.unsized, d.done, d.value) \in Current(t)
    BY <2>7, CurrentParts, PartsType
  <2> QED
    BY <2>6, <2>8
<1> QED
  BY <1>1, <1>2

LEMMA ApplyExistenceRuleType ==
  ASSUME NEW t \in Templates, NEW d \in Current(t), NEW i
  PROVE  ApplyExistenceRule(t, d, i) \in Current(t)
<1> DEFINE x == Min(Named(t, d.stack, t[i].sizeDeterminesExistenceOf))
<1>1. Parts(d.stack \ {x}, d.size, d.unsized, d.done, d.value) \in Current(t)
  BY CurrentParts, PartsType
<1> QED
  BY <1>1 DEF ApplyExistenceRule

-----------------------------------------------------------------------------
(* Type correctness.                                                       *)

LEMMA PreparedType ==
  ASSUME TypeOK
  PROVE  Prepared \in Current(template)
<1>1. template \in Templates /\ cur \in Current(template)
  BY DEF TypeOK
<1>2. NewPacket(template) \in Current(template)
  BY <1>1, NewPacketType
<1> QED
  BY <1>1, <1>2, SkipEmptyTopType DEF Prepared

LEMMA AppendType ==
  ASSUME TypeOK, NEW b \in Byte
  PROVE  Append(buffer, b) \in Seq(Byte)
BY AppendProperties DEF TypeOK

(* The top whose size is known, and the bytes held for it.                 *)
LEMMA FrontType ==
  ASSUME TypeOK, NEW b \in Byte, SizeKnown(b)
  PROVE  /\ Resolved(b) \in Current(template)
         /\ Resolved(b).stack = Prepared.stack
         /\ Resolved(b).stack # {}
         /\ Top(Resolved(b)) = Top(Prepared)
         /\ Held(b) \in Seq(Byte)
<1> DEFINE bytes == Append(buffer, b)
           d == Prepared
<1>1. d \in Current(template) /\ bytes \in Seq(Byte) /\ template \in Templates
  BY PreparedType, AppendType DEF TypeOK
<1>2. d.stack # {}
  BY DEF SizeKnown
<1>3. CASE ~Callable(d, bytes)
  <2>1. Resolved(b) = d /\ Held(b) = bytes
    BY <1>3 DEF Resolved, Held, TakeSize, Unread
  <2> QED
    BY <2>1, <1>1, <1>2
<1>4. CASE Callable(d, bytes)
  <2>1. Answer(d, bytes) \in SizeResult
    BY <1>4 DEF SizeKnown, Callable
  <2>2. Answer(d, bytes).size \in UInt16 /\ Answer(d, bytes).consumed \in Nat
    BY <2>1 DEF SizeResult
  <2>3. [d.size EXCEPT ![Top(d)] = Answer(d, bytes).size] \in [DOMAIN template -> UInt16]
    BY <1>1, <2>2, CurrentParts
  <2>4. Resolved(b) = Parts(d.stack, [d.size EXCEPT ![Top(d)] = Answer(d, bytes).size],
                         d.unsized \ {Top(d)}, d.done, d.value)
    BY <1>4 DEF Resolved, TakeSize
  <2>5. Resolved(b) \in Current(template)
    <3>1. Parts(d.stack, [d.size EXCEPT ![Top(d)] = Answer(d, bytes).size],
                d.unsized \ {Top(d)}, d.done, d.value) \in Current(template)
      BY <1>1, <2>3, CurrentParts, PartsType
    <3> QED
      BY <2>4, <3>1
  <2>6. Resolved(b).stack = d.stack
    BY <2>4 DEF Parts
  <2>7. Held(b) = SubSeq(bytes, Answer(d, bytes).consumed + 1, Len(bytes))
    BY <1>4 DEF Held, Unread
  <2>8. Held(b) \in Seq(Byte)
    <3>1. \A k \in Answer(d, bytes).consumed + 1 .. Len(bytes) : bytes[k] \in Byte
      <4>1. \A k \in 1 .. Len(bytes) : bytes[k] \in Byte
        BY <1>1, ElementOfSeq
      <4> QED
        BY <4>1, <2>2
    <3>2. Len(bytes) \in Int /\ Answer(d, bytes).consumed + 1 \in Int
      BY <1>1, <2>2, LenProperties
    <3> QED
      BY <2>7, <3>1, <3>2, SubSeqProperties
  <2> QED
    BY <1>2, <2>5, <2>6, <2>8 DEF Top
<1> QED
  BY <1>3, <1>4

LEMMA PushedType ==
  ASSUME TypeOK, NEW b \in Byte, SizeKnown(b)
  PROVE  /\ Pushed(b) \in Current(template)
         /\ Top(Resolved(b)) \in Pushed(b).done
<1>1. template \in Templates
  BY DEF TypeOK
<1>2. Pushed(b) \in Current(template)
  BY <1>1, FrontType, PushType DEF Pushed
<1>3. Pushed(b).done = Resolved(b).done \cup {Top(Resolved(b))}
  BY DEF Pushed, Push, Parts
<1> QED
  BY <1>2, <1>3

LEMMA AfterSizesType ==
  ASSUME TypeOK, NEW b \in Byte, FieldRead(b),
         ~SizeRuleThrows(template, Pushed(b), Top(Resolved(b)))
  PROVE  AfterSizes(b) \in Current(template)
<1>1. template \in Templates /\ SizeKnown(b)
  BY DEF TypeOK, FieldRead
<1> QED
  BY <1>1, PushedType, ApplySizeRuleType DEF AfterSizes

(* addByte keeps the types whatever the template and the bytes.            *)
THEOREM TypeCorrect == Spec => []TypeOK
<1>1. Init => TypeOK
  BY NewPacketType, EmptySeq DEF Init, TypeOK
<1>2. TypeOK /\ [Next]_vars => TypeOK'
  <2> SUFFICES ASSUME TypeOK, [Next]_vars PROVE TypeOK'
    OBVIOUS
  <2>1. ASSUME NEW d, NEW bytes, NEW r, Return(d, bytes, r), d \in Current(template),
               bytes \in Seq(Byte), r \in {"none", "packet", "threw"}
        PROVE  TypeOK'
    BY <2>1 DEF Return, TypeOK
  <2>2. CASE UNCHANGED vars
    BY <2>2 DEF vars, TypeOK, Current
  <2>3. ASSUME NEW b \in Byte, AddByte(b) PROVE TypeOK'
    <3>1. CASE AwaitSize(b)
      BY <3>1, <2>1, PreparedType, AppendType DEF AwaitSize
    <3>2. CASE AwaitBytes(b)
      BY <3>2, <2>1, FrontType DEF AwaitBytes
    <3>3. CASE ResyncHeader(b)
      <4>1. Tail(Held(b)) \in Seq(Byte) /\ Resolved(b) \in Current(template)
        BY <3>3, FrontType, HeadTailProperties DEF ResyncHeader
      <4> QED
        BY <3>3, <4>1, <2>1 DEF ResyncHeader
    <3>4. CASE SizeRuleFails(b)
      <4>1. Pushed(b) \in Current(template) /\ <<>> \in Seq(Byte)
        BY <3>4, PushedType, EmptySeq DEF SizeRuleFails, FieldRead
      <4> QED
        BY <3>4, <4>1, <2>1 DEF SizeRuleFails
    <3>5. CASE ExistenceRuleFails(b)
      <4>1. AfterSizes(b) \in Current(template) /\ <<>> \in Seq(Byte)
        BY <3>5, AfterSizesType, EmptySeq DEF ExistenceRuleFails
      <4> QED
        BY <3>5, <4>1, <2>1 DEF ExistenceRuleFails
    <3>6. CASE CompleteField(b)
      <4> DEFINE i == Top(Resolved(b))
                 d == DrainEmpty(ApplyExistenceRule(template, AfterSizes(b), i))
      <4>1. AfterSizes(b) \in Current(template) /\ template \in Templates
        BY <3>6, AfterSizesType DEF CompleteField, TypeOK
      <4>2. d \in Current(template)
        BY <4>1, ApplyExistenceRuleType, DrainEmptyType
      <4>3. Return(d, <<>>, IF d.stack = {} THEN "packet" ELSE "none")
        BY <3>6 DEF CompleteField
      <4> HIDE DEF d
      <4> QED
        BY <4>2, <4>3, <2>1, EmptySeq
    <3> QED
      BY <2>3, <3>1, <3>2, <3>3, <3>4, <3>5, <3>6 DEF AddByte
  <2> QED
    BY <2>2, <2>3 DEF Next
<1> QED
  BY <1>1, <1>2, PTL DEF Spec

-----------------------------------------------------------------------------
(* Fields leave the stack from the top, whatever the rules do.             *)

Ordered(d) == \A i \in d.done : \A j \in d.stack : i < j

LEMMA PushOrdered ==
  ASSUME NEW t \in Templates, NEW d \in Current(t), d.stack # {}, Ordered(d),
         NEW bytes
  PROVE  Ordered(Push(d, bytes))
<1>1. \A j \in d.stack \ {Top(d)} : Top(d) < j
  <2> TAKE j \in d.stack \ {Top(d)}
  <2>1. Top(d) \in Nat /\ j \in Nat
    BY TopProperties, CurrentParts, TemplateDomain
  <2> QED
    BY <2>1, TopProperties
<1> QED
  BY <1>1 DEF Ordered, Push, Parts

LEMMA PreparedOrdered ==
  ASSUME TypeOK, Ordered(cur)
  PROVE  Ordered(Prepared)
<1> DEFINE d == IF cur.stack = {} /\ buffer = <<>> THEN NewPacket(template) ELSE cur
<1>1. d \in Current(template) /\ template \in Templates
  BY NewPacketType DEF TypeOK
<1>2. Ordered(d)
  BY DEF Ordered, NewPacket, Parts
<1> HIDE DEF d
<1>3. Ordered(SkipEmptyTop(d))
  BY <1>1, <1>2, PushOrdered DEF SkipEmptyTop
<1> QED
  BY <1>3 DEF Prepared, d

LEMMA FrontOrdered ==
  ASSUME Ordered(Prepared), NEW b
  PROVE  Ordered(Resolved(b))
BY DEF Ordered, Resolved, TakeSize, Parts

LEMMA DrainOrdered ==
  ASSUME NEW t \in Templates, NEW d \in Current(t), Ordered(d)
  PROVE  Ordered(DrainEmpty(d))
<1> DEFINE z == {i \in d.stack : \A j \in d.stack : j <= i => CertainlyZeroSized(d, j)}
<1>1. d.stack \subseteq Nat
  BY CurrentParts, TemplateDomain
<1>2. \A i \in z : \A j \in d.stack \ z : i < j
  <2> TAKE i \in z
  <2> TAKE j \in d.stack \ z
  <2>1. PICK k \in d.stack : k <= j /\ ~CertainlyZeroSized(d, k)
    OBVIOUS
  <2>2. ~(k <= i)
    BY <2>1
  <2> QED
    BY <1>1, <2>1, <2>2
<1>3. DrainEmpty(d).stack = d.stack \ z /\ DrainEmpty(d).done = d.done \cup z
  BY DEF DrainEmpty, Parts
<1> HIDE DEF z
<1> QED
  BY <1>2, <1>3 DEF Ordered

(* In every packet, also one an exception has left half done, the fields   *)
(* read come before the fields still expected.                             *)
THEOREM FieldsStayInOrder == Spec => []InOrder
<1>1. Init => Ordered(cur)
  BY DEF Init, Ordered, NewPacket, Parts
<1>2. TypeOK /\ Ordered(cur) /\ [Next]_vars => Ordered(cur)'
  <2> SUFFICES ASSUME TypeOK, Ordered(cur), [Next]_vars PROVE Ordered(cur)'
    OBVIOUS
  <2>1. template \in Templates /\ Ordered(Prepared)
    BY PreparedOrdered DEF TypeOK
  <2>2. ASSUME NEW d, NEW bytes, NEW r, Return(d, bytes, r), Ordered(d)
        PROVE  Ordered(cur)'
    BY <2>2 DEF Return, Ordered
  <2>3. CASE UNCHANGED vars
    BY <2>3 DEF vars, Ordered
  <2>4. ASSUME NEW b \in Byte, SizeKnown(b)
        PROVE  /\ Ordered(Resolved(b))
               /\ Pushed(b) \in Current(template) /\ Ordered(Pushed(b))
               /\ Ordered(AfterSizes(b))
    <3>1. Ordered(Resolved(b)) /\ Ordered(Pushed(b))
      BY <2>1, <2>4, FrontOrdered, FrontType, PushOrdered DEF Pushed
    <3>2. Ordered(AfterSizes(b))
      BY <3>1 DEF AfterSizes, ApplySizeRule, Ordered, Parts
    <3> QED
      BY <2>4, <3>1, <3>2, PushedType
  <2>5. ASSUME NEW b \in Byte, CompleteField(b)
        PROVE  Ordered(cur)'
    <3> DEFINE e == ApplyExistenceRule(template, AfterSizes(b), Top(Resolved(b)))
    <3>1. SizeKnown(b) /\ AfterSizes(b) \in Current(template)
      BY <2>5, AfterSizesType DEF CompleteField, FieldRead
    <3>2. e \in Current(template) /\ Ordered(e)
      <4>1. Ordered(AfterSizes(b))
        BY <2>4, <3>1
      <4>2. e \in Current(template)
        BY <2>1, <3>1, ApplyExistenceRuleType
      <4> QED
        BY <4>1, <4>2 DEF ApplyExistenceRule, Ordered, Parts
    <3>3. Return(DrainEmpty(e), <<>>, IF DrainEmpty(e).stack = {} THEN "packet" ELSE "none")
      BY <2>5 DEF CompleteField
    <3> HIDE DEF e
    <3> QED
      BY <2>1, <2>2, <3>2, <3>3, DrainOrdered
  <2>6. ASSUME NEW b \in Byte, AddByte(b) PROVE Ordered(cur)'
    BY <2>1, <2>2, <2>4, <2>5, <2>6
       DEF AddByte, AwaitSize, AwaitBytes, ResyncHeader, FieldRead, SizeRuleFails,
           ExistenceRuleFails
  <2> QED
    BY <2>3, <2>6 DEF Next
<1>3. Ordered(cur) => InOrder
  BY DEF Ordered, InOrder
<1> QED
  BY <1>1, <1>2, <1>3, TypeCorrect, PTL DEF Spec

-----------------------------------------------------------------------------
(* On well-formed templates the rules can be carried out and are: RulesInv *)
(* is inductive, and NoThrow, SizesHonoured, ExistenceHonoured and         *)
(* HeaderSound follow.  With callbacks that keep their contract BufferInv  *)
(* is inductive with it, and NoOverrun and NothingUndefined follow.        *)


(* What well-formedness gives: a rule names one field, and a later one.    *)
LEMMA RulesAhead ==
  ASSUME NEW t \in Templates, WellFormed(t), NEW k \in DOMAIN t, NEW i \in DOMAIN t,
         Determines(t, k, i) \/ Removes(t, k, i)
  PROVE  k < i
<1>1. CASE Determines(t, k, i)
  <2>1. PICK j \in DOMAIN t : k < j /\ Determines(t, k, j)
    BY <1>1 DEF WellFormed, RulesPointAhead, Determines
  <2>2. j = i
    BY <1>1, <2>1 DEF WellFormed, Determines
  <2> QED
    BY <2>1, <2>2
<1>2. CASE Removes(t, k, i)
  <2>1. PICK j \in DOMAIN t : k < j /\ Removes(t, k, j)
    BY <1>2 DEF WellFormed, RulesPointAhead, Removes
  <2>2. j = i
    BY <1>2, <2>1 DEF WellFormed, Removes
  <2> QED
    BY <2>1, <2>2
<1> QED
  BY <1>1, <1>2

LEMMA RulesExist ==
  ASSUME NEW t, WellFormed(t), NEW k \in DOMAIN t
  PROVE  /\ t[k].determinesSizeOf # NoName => \E i \in DOMAIN t : Determines(t, k, i)
         /\ t[k].sizeDeterminesExistenceOf # NoName => \E i \in DOMAIN t : Removes(t, k, i)
BY DEF WellFormed, RulesPointAhead

LEMMA RulesUnique ==
  ASSUME NEW t, WellFormed(t), NEW k, NEW i \in DOMAIN t, NEW j \in DOMAIN t
  PROVE  /\ Determines(t, k, i) /\ Determines(t, k, j) => i = j
         /\ Removes(t, k, i) /\ Removes(t, k, j) => i = j
BY DEF WellFormed, Determines, Removes

LEMMA RulesNotStale ==
  ASSUME NEW t, WellFormed(t), NEW k \in DOMAIN t, NEW j \in DOMAIN t, NEW i \in DOMAIN t,
         k < j, Removes(t, k, i)
  PROVE  ~Determines(t, j, i) /\ ~Removes(t, j, i)
BY DEF WellFormed, RulesPointAhead

(* A field with a rule has no callback, no determiner, and the width of a  *)
(* number.                                                                 *)
LEMMA RulesNumbers ==
  ASSUME NEW t, WellFormed(t), NEW k \in DOMAIN t, NEW i,
         Determines(t, k, i) \/ Removes(t, k, i)
  PROVE  /\ t[k].sizer = NoSizer
         /\ \A j \in DOMAIN t : ~Determines(t, j, k)
         /\ t[k].size \in {1, 2, 4, 8}
         /\ Removes(t, k, i) => t[k].size \in {1, 2, 4}
BY DEF WellFormed, RulesAreNumbers, Determines, Removes

LEMMA HeadersFixed ==
  ASSUME NEW t \in Templates, WellFormed(t), NEW i \in DOMAIN t, t[i].isHeaderValue
  PROVE  /\ t[i].sizer = NoSizer
         /\ \A k \in DOMAIN t : ~Determines(t, k, i)
         /\ t[i].size # 0
<1>1. t[i].value \in Seq(Byte)
  BY TemplateDomain, FieldParts
<1>2. /\ t[i].value # <<>> /\ t[i].size = Len(t[i].value)
      /\ t[i].sizer = NoSizer /\ \A k \in DOMAIN t : ~Determines(t, k, i)
  BY DEF WellFormed, HeadersAreFixed
<1> QED
  BY <1>1, <1>2, EmptySeq

-----------------------------------------------------------------------------
(* A set of empty fields that leaves the stack from the front.             *)

(* The size a field that nothing announces has is that of the template.    *)
LEMMA SizeOfUnannounced ==
  ASSUME NEW t \in Templates, NEW d \in Current(t), Consistent(t, d), NEW i \in d.stack,
         t[i].sizer = NoSizer, \A k \in DOMAIN t : ~Determines(t, k, i)
  PROVE  d.size[i] = t[i].size
<1>1. Announcers(t, d, i) = {}
  BY CurrentParts DEF Announcers
<1> QED
  BY <1>1 DEF Consistent, Asked

LEMMA EmptyFieldHasNoRule ==
  ASSUME NEW t \in Templates, WellFormed(t), NEW d \in Current(t), Consistent(t, d),
         NEW i \in d.stack, CertainlyZeroSized(d, i)
  PROVE  /\ \A j : ~Determines(t, i, j) /\ ~Removes(t, i, j)
         /\ ~t[i].isHeaderValue
         /\ d.value[i] = <<>>
<1>0. i \in DOMAIN t /\ i \in Nat
  BY CurrentParts, TemplateDomain
<1>1. d.size[i] = 0
  BY DEF CertainlyZeroSized
<1>2. ASSUME NEW j, Determines(t, i, j) \/ Removes(t, i, j) PROVE FALSE
  <2>1. t[i].sizer = NoSizer /\ (\A k \in DOMAIN t : ~Determines(t, k, i))
        /\ t[i].size \in {1, 2, 4, 8}
    BY <1>0, <1>2, RulesNumbers
  <2>2. d.size[i] = t[i].size
    BY <2>1, SizeOfUnannounced
  <2> QED
    BY <1>1, <2>1, <2>2
<1>3. ASSUME t[i].isHeaderValue PROVE FALSE
  <2>1. t[i].sizer = NoSizer /\ (\A k \in DOMAIN t : ~Determines(t, k, i)) /\ t[i].size # 0
    BY <1>0, <1>3, HeadersFixed
  <2>2. d.size[i] = t[i].size
    BY <2>1, SizeOfUnannounced
  <2> QED
    BY <1>1, <2>1, <2>2
<1>4. i \notin d.done
  BY <1>0 DEF Consistent
<1>5. d.value[i] = <<>>
  BY <1>0, <1>4 DEF Consistent
<1>6. \A j : ~Determines(t, i, j) /\ ~Removes(t, i, j)
  BY <1>2
<1> QED
  BY <1>3, <1>5, <1>6

LEMMA EmptyFieldsLeave ==
  ASSUME NEW t \in Templates, WellFormed(t), NEW d \in Current(t), Consistent(t, d),
         NEW z, z \subseteq d.stack,
         \A i \in z : CertainlyZeroSized(d, i),
         \A i \in z, j \in d.stack : j < i => j \in z,
         NEW e \in Current(t),
         e.stack = d.stack \ z, e.done = d.done \cup z, e.size = d.size,
         e.unsized = d.unsized, e.value = d.value
  PROVE  Consistent(t, e)
<1>0. /\ d.stack \subseteq DOMAIN t /\ d.done \subseteq DOMAIN t /\ DOMAIN t \subseteq Nat
      /\ z \subseteq DOMAIN t
  BY CurrentParts, TemplateDomain
<1>1. /\ \A i \in z : \A j : ~Determines(t, i, j) /\ ~Removes(t, i, j)
      /\ \A i \in z : ~t[i].isHeaderValue /\ d.value[i] = <<>>
  BY EmptyFieldHasNoRule
<1>2. \A i : Announcers(t, e, i) = Announcers(t, d, i)
  BY <1>1 DEF Announcers
<1>3. \A i, n : Asked(t, e, i, n) <=> Asked(t, d, i, n)
  BY <1>2 DEF Asked
<1>4. \A i \in e.done, j \in e.stack : i < j
  <2> TAKE i \in e.done, j \in e.stack
  <2>1. CASE i \in d.done
    BY <2>1 DEF Consistent
  <2>2. CASE i \in z
    <3>1. ~(j < i) /\ j # i
      BY <2>2
    <3>2. i \in Nat /\ j \in Nat
      BY <1>0
    <3> QED
      BY <3>1, <3>2
  <2> QED
    BY <2>1, <2>2
<1>5. \A i \in DOMAIN t : i \notin e.done => e.value[i] = <<>>
  BY DEF Consistent
<1>6. \A i \in e.unsized : t[i].sizer # NoSizer
  BY DEF Consistent
<1>7. \A i \in e.stack : t[i].sizer = NoSizer => Asked(t, e, i, e.size[i])
  BY <1>3 DEF Consistent
<1>8. \A i \in e.done : t[i].sizer = NoSizer => Asked(t, e, i, Len(e.value[i]))
  <2> TAKE i \in e.done
  <2>1. CASE i \in d.done
    BY <2>1, <1>3 DEF Consistent
  <2>2. CASE i \in z
    <3>1. Len(e.value[i]) = d.size[i]
      BY <2>2, <1>1, EmptySeq DEF CertainlyZeroSized
    <3>2. t[i].sizer = NoSizer => Asked(t, d, i, d.size[i])
      BY <2>2 DEF Consistent
    <3> QED
      BY <3>1, <3>2, <1>3
  <2> QED
    BY <2>1, <2>2
<1>9. \A k \in e.stack, i \in DOMAIN t :
        Determines(t, k, i) \/ Removes(t, k, i) => i \in e.stack
  <2> SUFFICES ASSUME NEW k \in e.stack, NEW i \in DOMAIN t,
                      Determines(t, k, i) \/ Removes(t, k, i)
               PROVE  i \in e.stack
    OBVIOUS
  <2>1. k < i
    BY <1>0, RulesAhead
  <2>2. i \in d.stack
    BY DEF Consistent
  <2>3. i \notin z
    BY <2>1
  <2> QED
    BY <2>2, <2>3
<1>10. \A i \in DOMAIN t :
         i \in e.stack \cup e.done <=>
           ~ \E k \in e.done : Removes(t, k, i) /\ Zero(e.value[k])
  <2> TAKE i \in DOMAIN t
  <2>1. i \in e.stack \cup e.done <=> i \in d.stack \cup d.done
    OBVIOUS
  <2>2. (\E k \in e.done : Removes(t, k, i) /\ Zero(e.value[k])) <=>
        (\E k \in d.done : Removes(t, k, i) /\ Zero(d.value[k]))
    BY <1>1
  <2> QED
    BY <2>1, <2>2 DEF Consistent
<1>11. \A i \in e.done : t[i].isHeaderValue => e.value[i] = t[i].value
  BY <1>1 DEF Consistent
<1> QED
  BY <1>4, <1>5, <1>6, <1>7, <1>8, <1>9, <1>10, <1>11 DEF Consistent

LEMMA DrainConsistent ==
  ASSUME NEW t \in Templates, WellFormed(t), NEW d \in Current(t), Consistent(t, d)
  PROVE  Consistent(t, DrainEmpty(d))
<1> DEFINE z == {i \in d.stack : \A j \in d.stack : j <= i => CertainlyZeroSized(d, j)}
           e == DrainEmpty(d)
<1>1. /\ e.stack = d.stack \ z /\ e.done = d.done \cup z /\ e.size = d.size
      /\ e.unsized = d.unsized /\ e.value = d.value
  BY DEF DrainEmpty, Parts
<1>2. e \in Current(t)
  BY DrainEmptyType
<1>3. d.stack \subseteq Nat
  BY CurrentParts, TemplateDomain
<1>4. z \subseteq d.stack
  OBVIOUS
<1>5. \A i \in z : CertainlyZeroSized(d, i)
  BY <1>3
<1>6. \A i \in z, j \in d.stack : j < i => j \in z
  <2> SUFFICES ASSUME NEW i \in z, NEW j \in d.stack, j < i
               PROVE  \A k \in d.stack : k <= j => CertainlyZeroSized(d, k)
    OBVIOUS
  <2> TAKE k \in d.stack
  <2>1. k <= j => k <= i
    BY <1>3
  <2> QED
    BY <2>1
<1> HIDE DEF z, e
<1> QED
  BY <1>1, <1>2, <1>4, <1>5, <1>6, EmptyFieldsLeave DEF e

LEMMA SkipConsistent ==
  ASSUME NEW t \in Templates, WellFormed(t), NEW d \in Current(t), Consistent(t, d)
  PROVE  Consistent(t, SkipEmptyTop(d))
<1>1. CASE d.stack # {} /\ CertainlyZeroSized(d, Top(d))
  <2> DEFINE z == {Top(d)}
             e == SkipEmptyTop(d)
  <2>1. Top(d) \in d.stack /\ \A j \in d.stack : Top(d) <= j
    BY <1>1, TopProperties
  <2>2. d.stack \subseteq Nat
    BY CurrentParts, TemplateDomain
  <2>3. d.value[Top(d)] = <<>>
    BY <1>1, <2>1, EmptyFieldHasNoRule
  <2>4. [d.value EXCEPT ![Top(d)] = <<>>] = d.value
    BY <2>3, CurrentParts
  <2>5. /\ e.stack = d.stack \ z /\ e.done = d.done \cup z /\ e.size = d.size
        /\ e.unsized = d.unsized /\ e.value = d.value
    BY <1>1, <2>4 DEF SkipEmptyTop, Push, Parts
  <2>6. e \in Current(t)
    BY SkipEmptyTopType
  <2>7. \A i \in z, j \in d.stack : j < i => j \in z
    BY <2>1, <2>2
  <2>8. z \subseteq d.stack /\ \A i \in z : CertainlyZeroSized(d, i)
    BY <1>1, <2>1
  <2> HIDE DEF z, e
  <2> QED
    BY <2>5, <2>6, <2>7, <2>8, EmptyFieldsLeave DEF e
<1>2. CASE ~(d.stack # {} /\ CertainlyZeroSized(d, Top(d)))
  BY <1>2 DEF SkipEmptyTop
<1> QED
  BY <1>1, <1>2

LEMMA NewPacketConsistent ==
  ASSUME NEW t \in Templates, WellFormed(t)
  PROVE  Consistent(t, NewPacket(t))
<1> DEFINE d == NewPacket(t)
<1>1. /\ d.stack = DOMAIN t /\ d.done = {}
      /\ d.unsized = {i \in DOMAIN t : t[i].sizer # NoSizer}
      /\ \A i \in DOMAIN t : d.size[i] = t[i].size /\ d.value[i] = <<>>
  BY DEF NewPacket, Parts
<1>2. \A i : Announcers(t, d, i) = {}
  BY <1>1 DEF Announcers
<1> HIDE DEF d
<1>3. \A i \in DOMAIN t : Asked(t, d, i, t[i].size)
  BY <1>2 DEF Asked
<1>4. Consistent(t, d)
  BY <1>1, <1>3 DEF Consistent
<1> QED
  BY <1>4 DEF d

LEMMA PreparedConsistent ==
  ASSUME TypeOK, WellFormed(template), Consistent(template, cur)
  PROVE  Consistent(template, Prepared)
<1> DEFINE d == IF cur.stack = {} /\ buffer = <<>> THEN NewPacket(template) ELSE cur
<1>1. template \in Templates /\ cur \in Current(template)
  BY DEF TypeOK
<1>2. d \in Current(template) /\ Consistent(template, d)
  BY <1>1, NewPacketType, NewPacketConsistent
<1> HIDE DEF d
<1>3. Consistent(template, SkipEmptyTop(d))
  BY <1>1, <1>2, SkipConsistent
<1> QED
  BY <1>3 DEF Prepared, d

(* The answer of a callback changes the size of no field a rule is about.  *)
LEMMA FrontConsistent ==
  ASSUME TypeOK, WellFormed(template), Consistent(template, cur),
         NEW b \in Byte, SizeKnown(b)
  PROVE  Consistent(template, Resolved(b))
<1> DEFINE bytes == Append(buffer, b)
           d == Prepared
           e == Resolved(b)
           i == Top(d)
<1>1. Consistent(template, d) /\ d \in Current(template) /\ template \in Templates
  BY PreparedConsistent, PreparedType DEF TypeOK
<1>2. CASE ~Callable(d, bytes)
  BY <1>1, <1>2 DEF Resolved, TakeSize
<1>3. CASE Callable(d, bytes)
  <2>1. /\ e.stack = d.stack /\ e.done = d.done /\ e.value = d.value
        /\ e.unsized = d.unsized \ {i}
        /\ e.size = [d.size EXCEPT ![i] = Answer(d, bytes).size]
    BY <1>3 DEF Resolved, TakeSize, Parts
  <2>2. template[i].sizer # NoSizer
    BY <1>1, <1>3 DEF Callable, Consistent
  <2> HIDE DEF d, e, i
  <2>3. \A j, n : Asked(template, e, j, n) <=> Asked(template, d, j, n)
    BY <2>1 DEF Asked, Announcers
  <2>4. \A j \in DOMAIN template : j # i => e.size[j] = d.size[j]
    BY <1>1, <2>1, CurrentParts
  <2>5. \A j \in e.stack : template[j].sizer = NoSizer => Asked(template, e, j, e.size[j])
    BY <1>1, <2>1, <2>2, <2>3, <2>4, CurrentParts DEF Consistent
  <2> QED
    BY <1>1, <2>1, <2>3, <2>5 DEF Consistent, e
<1> QED
  BY <1>2, <1>3

-----------------------------------------------------------------------------
(* A field is read, and its rules are applied.                             *)

LEMMA NamedSingle ==
  ASSUME NEW t \in Templates, WellFormed(t), NEW S, S \subseteq DOMAIN t, NEW i \in S
  PROVE  Min(Named(t, S, t[i].name)) = i
<1>1. Named(t, S, t[i].name) = {i}
  BY DEF Named, WellFormed
<1>2. {i} \subseteq Nat
  BY TemplateDomain
<1>3. Min({i}) \in {i}
  BY <1>2, MinProperties
<1> QED
  BY <1>1, <1>3

LEMMA ZeroBytes ==
  ASSUME NEW v \in Seq(Byte), Len(v) \in {1, 2, 4}
  PROVE  IsZero(v) <=> Zero(v)
<1>1. DOMAIN v = 1 .. Len(v)
  BY LenProperties
<1>2. \A n \in {1, 2, 4} : \A k \in 1 .. n : k <= 4
  OBVIOUS
<1> QED
  BY <1>1, <1>2 DEF IsZero, Zero

(* Neither rule of the field just pushed can fail.                         *)
LEMMA RulesApply ==
  ASSUME NEW t \in Templates, WellFormed(t), NEW d \in Current(t), Consistent(t, d),
         d.stack # {}, NEW bytes \in Seq(Byte), Len(bytes) = d.size[Top(d)]
  PROVE  LET i == Top(d)  p == Push(d, bytes)  s == ApplySizeRule(t, p, i)
             X == {x \in DOMAIN t : Determines(t, i, x)}
             n == ToUInt16(Low16(bytes) + t[i].sizeOffset)
         IN  /\ ~SizeRuleThrows(t, p, i)
             /\ ~ExistenceRuleThrows(t, s, i)
             /\ s \in Current(t)
             /\ s.stack = p.stack /\ s.done = p.done
             /\ s.unsized = p.unsized /\ s.value = p.value
             /\ \A j \in DOMAIN t : s.size[j] = IF j \in X THEN n ELSE d.size[j]
             /\ SizeBytes(t, s, i) = bytes
<1> DEFINE i == Top(d)
           p == Push(d, bytes)
           s == ApplySizeRule(t, p, i)
           X == {x \in DOMAIN t : Determines(t, i, x)}
           n == ToUInt16(Low16(bytes) + t[i].sizeOffset)
<1>1. /\ i \in d.stack /\ i \in DOMAIN t /\ i \in Nat
      /\ DOMAIN t \subseteq Nat
      /\ \A j \in d.stack : i <= j
  BY TopProperties, TemplateDomain
<1>2. /\ p.stack = d.stack \ {i} /\ p.done = d.done \cup {i} /\ p.size = d.size
      /\ p.unsized = d.unsized /\ p.value = [d.value EXCEPT ![i] = bytes]
  BY DEF Push, Parts
<1>3. p \in Current(t)
  BY PushType
<1>4. p.value[i] = bytes
  BY <1>1, <1>2, CurrentParts
<1> HIDE DEF i, p
<1>5. SizeBytes(t, p, i) = bytes
  <2>1. p.done \subseteq DOMAIN t /\ i \in p.done
    BY <1>2, <1>3, CurrentParts
  <2>2. Min(Named(t, p.done, t[i].name)) = i
    BY <2>1, NamedSingle
  <2> QED
    BY <1>4, <2>2 DEF SizeBytes
<1>6. ASSUME NEW j \in DOMAIN t, Determines(t, i, j) \/ Removes(t, i, j)
      PROVE  /\ j \in p.stack /\ i < j
             /\ d.size[i] = t[i].size /\ t[i].size \in {1, 2, 4, 8}
             /\ i \notin X
  <2>1. i < j
    BY <1>1, <1>6, RulesAhead
  <2>2. j \in d.stack
    BY <1>1, <1>6 DEF Consistent
  <2>3. t[i].sizer = NoSizer /\ (\A k \in DOMAIN t : ~Determines(t, k, i))
        /\ t[i].size \in {1, 2, 4, 8}
    BY <1>1, <1>6, RulesNumbers
  <2>4. d.size[i] = t[i].size
    BY <1>1, <2>3, SizeOfUnannounced
  <2>5. j # i
    BY <1>1, <2>1
  <2> QED
    BY <1>1, <1>2, <2>1, <2>2, <2>3, <2>4, <2>5
<1>7. Len(bytes) = d.size[i]
  BY DEF i
<1>8. ~SizeRuleThrows(t, p, i)
  <2> SUFFICES ASSUME t[i].determinesSizeOf # NoName
               PROVE  Named(t, p.stack, t[i].determinesSizeOf) # {} /\ Readable(t, p, i)
    BY DEF SizeRuleThrows
  <2>1. PICK j \in DOMAIN t : Determines(t, i, j)
    BY <1>1, RulesExist
  <2>2. j \in p.stack /\ d.size[i] = t[i].size /\ t[i].size \in {1, 2, 4, 8}
    BY <1>6, <2>1
  <2>3. j \in Named(t, p.stack, t[i].determinesSizeOf)
    BY <2>1, <2>2 DEF Named, Determines
  <2> QED
    BY <1>2, <1>5, <1>7, <2>2, <2>3 DEF Readable
<1>9. i \in p.done
  BY <1>2
<1>10. s \in Current(t)
  BY <1>3, <1>8, <1>9, ApplySizeRuleType
<1>11. s.stack = p.stack /\ s.done = p.done /\ s.unsized = p.unsized /\ s.value = p.value
  BY DEF ApplySizeRule, Parts
<1>12. \A j \in DOMAIN t : s.size[j] = IF j \in X THEN n ELSE d.size[j]
  <2>1. CASE t[i].determinesSizeOf = NoName
    <3>1. s = p /\ X = {}
      BY <2>1 DEF ApplySizeRule, Determines
    <3> QED
      BY <3>1, <1>2
  <2>2. CASE t[i].determinesSizeOf # NoName
    <3> DEFINE x == Min(Named(t, p.stack, t[i].determinesSizeOf))
    <3>1. PICK j \in DOMAIN t : Determines(t, i, j)
      BY <1>1, <2>2, RulesExist
    <3>2. j \in p.stack /\ t[i].determinesSizeOf = t[j].name
      BY <1>6, <3>1 DEF Determines
    <3>3. p.stack \subseteq DOMAIN t
      BY <1>3, CurrentParts
    <3>4. x = j
      BY <3>2, <3>3, NamedSingle
    <3>5. X = {j}
      BY <3>1, RulesUnique
    <3>6. s.size = [p.size EXCEPT ![x] = n]
      BY <1>5, <2>2 DEF ApplySizeRule, Parts
    <3> HIDE DEF x, n, s, X
    <3> QED
      BY <1>2, <3>4, <3>5, <3>6, CurrentParts
  <2> QED
    BY <2>1, <2>2
<1>13. SizeBytes(t, s, i) = bytes
  BY <1>5, <1>11 DEF SizeBytes
<1>14. ~ExistenceRuleThrows(t, s, i)
  <2> SUFFICES ASSUME t[i].sizeDeterminesExistenceOf # NoName
               PROVE  /\ Readable(t, s, i)
                      /\ Named(t, s.stack, t[i].sizeDeterminesExistenceOf) # {}
    BY DEF ExistenceRuleThrows
  <2>1. PICK j \in DOMAIN t : Removes(t, i, j)
    BY <1>1, RulesExist
  <2>2. /\ j \in p.stack /\ d.size[i] = t[i].size /\ t[i].size \in {1, 2, 4, 8}
        /\ i \notin X
    BY <1>6, <2>1
  <2>3. j \in Named(t, s.stack, t[i].sizeDeterminesExistenceOf)
    BY <1>11, <2>1, <2>2 DEF Named, Removes
  <2>4. s.size[i] = d.size[i]
    BY <1>1, <1>12, <2>2
  <2> QED
    BY <1>7, <1>13, <2>2, <2>3, <2>4 DEF Readable
<1> QED
  BY <1>8, <1>10, <1>11, <1>12, <1>13, <1>14 DEF i, p

(* The existence rule removes what it names, and only on a zero.           *)
LEMMA ExistenceApplies ==
  ASSUME NEW t \in Templates, WellFormed(t), NEW s \in Current(t), NEW i \in DOMAIN t,
         ~ExistenceRuleThrows(t, s, i), SizeBytes(t, s, i) \in Seq(Byte),
         \A j \in DOMAIN t : Removes(t, i, j) => Len(SizeBytes(t, s, i)) \in {1, 2, 4}
  PROVE  LET e == ApplyExistenceRule(t, s, i)
             Y == {y \in DOMAIN t : Removes(t, i, y) /\ Zero(SizeBytes(t, s, i))}
         IN  /\ e.stack = s.stack \ Y /\ e.done = s.done /\ e.size = s.size
             /\ e.unsized = s.unsized /\ e.value = s.value
<1> DEFINE e == ApplyExistenceRule(t, s, i)
           v == SizeBytes(t, s, i)
           Y == {y \in DOMAIN t : Removes(t, i, y) /\ Zero(v)}
<1>1. CASE t[i].sizeDeterminesExistenceOf = NoName \/ ~IsZero(v)
  <2>1. e = s
    BY <1>1 DEF ApplyExistenceRule
  <2>2. Y = {}
    BY <1>1, ZeroBytes DEF Removes
  <2> QED
    BY <2>1, <2>2
<1>2. CASE t[i].sizeDeterminesExistenceOf # NoName /\ IsZero(v)
  <2> DEFINE x == Min(Named(t, s.stack, t[i].sizeDeterminesExistenceOf))
  <2>1. Named(t, s.stack, t[i].sizeDeterminesExistenceOf) # {}
    BY <1>2 DEF ExistenceRuleThrows
  <2>2. x \in DOMAIN t /\ Removes(t, i, x)
    BY <1>2, <2>1, NamedProperties, CurrentParts DEF Removes
  <2>3. Zero(v)
    BY <1>2, <2>2, ZeroBytes
  <2>4. Y = {x}
    BY <2>2, <2>3, RulesUnique
  <2>5. /\ e.stack = s.stack \ {x} /\ e.done = s.done /\ e.size = s.size
        /\ e.unsized = s.unsized /\ e.value = s.value
    BY <1>2 DEF ApplyExistenceRule, Parts
  <2> QED
    BY <2>4, <2>5
<1> QED
  BY <1>1, <1>2

(* A whole field: the packet stays consistent with the template.           *)
LEMMA FieldConsistent ==
  ASSUME NEW t \in Templates, WellFormed(t), NEW d \in Current(t), Consistent(t, d),
         d.stack # {}, NEW bytes \in Seq(Byte), Len(bytes) = d.size[Top(d)],
         t[Top(d)].isHeaderValue => t[Top(d)].value = bytes
  PROVE  LET i == Top(d)  s == ApplySizeRule(t, Push(d, bytes), i)
         IN  /\ ApplyExistenceRule(t, s, i) \in Current(t)
             /\ Consistent(t, ApplyExistenceRule(t, s, i))
<1> DEFINE i == Top(d)
           s == ApplySizeRule(t, Push(d, bytes), i)
           e == ApplyExistenceRule(t, s, i)
           X == {x \in DOMAIN t : Determines(t, i, x)}
           Y == {y \in DOMAIN t : Removes(t, i, y) /\ Zero(bytes)}
           n == ToUInt16(Low16(bytes) + t[i].sizeOffset)
<1>1. /\ i \in d.stack /\ i \in DOMAIN t /\ DOMAIN t \subseteq Nat
      /\ \A j \in d.stack : i <= j
      /\ d.stack \subseteq DOMAIN t /\ d.done \subseteq DOMAIN t
  BY TopProperties, TemplateDomain, CurrentParts
<1>2. /\ ~ExistenceRuleThrows(t, s, i)
      /\ s \in Current(t)
      /\ s.stack = d.stack \ {i} /\ s.done = d.done \cup {i} /\ s.unsized = d.unsized
      /\ s.value = [d.value EXCEPT ![i] = bytes]
      /\ \A j \in DOMAIN t : s.size[j] = IF j \in X THEN n ELSE d.size[j]
      /\ SizeBytes(t, s, i) = bytes
  <2> DEFINE p == Push(d, bytes)
  <2>1. /\ p.stack = d.stack \ {i} /\ p.done = d.done \cup {i}
        /\ p.unsized = d.unsized /\ p.value = [d.value EXCEPT ![i] = bytes]
    BY DEF Push, Parts
  <2>2. /\ ~ExistenceRuleThrows(t, s, i)
        /\ s \in Current(t)
        /\ s.stack = p.stack /\ s.done = p.done /\ s.unsized = p.unsized
        /\ s.value = p.value
        /\ \A j \in DOMAIN t : s.size[j] = IF j \in X THEN n ELSE d.size[j]
        /\ SizeBytes(t, s, i) = bytes
    BY RulesApply
  <2> HIDE DEF p, s, i, X, n
  <2> QED
    BY <2>1, <2>2
<1>3. Len(bytes) = d.size[i] /\ (t[i].isHeaderValue => t[i].value = bytes)
  OBVIOUS
<1>4. e \in Current(t)
  BY <1>2, ApplyExistenceRuleType
<1> HIDE DEF i, s
<1>5. \A j \in DOMAIN t : Removes(t, i, j) => Len(bytes) \in {1, 2, 4}
  <2> SUFFICES ASSUME NEW j \in DOMAIN t, Removes(t, i, j)
               PROVE  Len(bytes) \in {1, 2, 4}
    OBVIOUS
  <2>1. t[i].sizer = NoSizer /\ (\A k \in DOMAIN t : ~Determines(t, k, i))
        /\ t[i].size \in {1, 2, 4}
    BY <1>1, RulesNumbers
  <2>2. d.size[i] = t[i].size
    BY <1>1, <2>1, SizeOfUnannounced
  <2> QED
    BY <1>3, <2>1, <2>2
<1>6. /\ e.stack = d.stack \ ({i} \cup Y) /\ e.done = d.done \cup {i}
      /\ e.unsized = d.unsized /\ e.value = [d.value EXCEPT ![i] = bytes]
      /\ \A j \in DOMAIN t : e.size[j] = IF j \in X THEN n ELSE d.size[j]
  <2>1. /\ e.stack = s.stack \ Y /\ e.done = s.done /\ e.size = s.size
        /\ e.unsized = s.unsized /\ e.value = s.value
    <3> DEFINE v == SizeBytes(t, s, i)
               Z == {y \in DOMAIN t : Removes(t, i, y) /\ Zero(v)}
    <3>1. v = bytes
      BY <1>2
    <3>2. v \in Seq(Byte) /\ \A j \in DOMAIN t : Removes(t, i, j) => Len(v) \in {1, 2, 4}
      BY <3>1, <1>5
    <3>3. /\ e.stack = s.stack \ Z /\ e.done = s.done /\ e.size = s.size
          /\ e.unsized = s.unsized /\ e.value = s.value
      BY <1>1, <1>2, <3>2, ExistenceApplies
    <3>4. Z = Y
      BY <3>1
    <3> HIDE DEF Z, Y, e
    <3> QED
      BY <3>3, <3>4
  <2> HIDE DEF e, Y, X, n
  <2> QED
    BY <1>2, <2>1
<1>7. \A x \in X \cup Y : i < x /\ x \in d.stack
  BY <1>1, RulesAhead DEF Consistent
<1>8. \A j \in d.done : j < i
  BY <1>1 DEF Consistent
<1>9. e.value[i] = bytes /\ \A j \in DOMAIN t : j # i => e.value[j] = d.value[j]
  BY <1>1, <1>6, CurrentParts
<1> HIDE DEF e, X, Y, n
<1>10. \A j \in e.done, k \in e.stack : j < k
  <2> TAKE j \in e.done, k \in e.stack
  <2>1. CASE j \in d.done
    BY <2>1, <1>6 DEF Consistent
  <2>2. CASE j = i
    BY <2>2, <1>1, <1>6
  <2> QED
    BY <2>1, <2>2, <1>6
<1>11. \A j \in DOMAIN t : j \notin e.done => e.value[j] = <<>>
  BY <1>6, <1>9 DEF Consistent
<1>12. \A j \in e.unsized : t[j].sizer # NoSizer
  BY <1>6 DEF Consistent
(* The sizes asked for: only those field i announces are new.              *)
<1>13. \A j \in DOMAIN t : Announcers(t, e, j) =
         IF j \in X THEN Announcers(t, d, j) \cup {i} ELSE Announcers(t, d, j)
  BY <1>1, <1>6 DEF Announcers, X
<1>14. ASSUME NEW j \in DOMAIN t, j \notin X, NEW m, Asked(t, d, j, m)
       PROVE  Asked(t, e, j, m)
  <2>1. Announcers(t, e, j) = Announcers(t, d, j)
    BY <1>13, <1>14
  <2>2. \A k \in Announcers(t, d, j) : e.value[k] = d.value[k]
    BY <1>1, <1>8, <1>9 DEF Announcers
  <2> QED
    BY <1>14, <2>1, <2>2 DEF Asked
<1>15. \A j \in X : Asked(t, e, j, n)
  <2> TAKE j \in X
  <2>1. j \in DOMAIN t /\ Announcers(t, e, j) = Announcers(t, d, j) \cup {i}
    BY <1>13 DEF X
  <2>2. ASSUME NEW k \in Announcers(t, e, j), \A m \in Announcers(t, e, j) : m <= k
        PROVE  k = i
    <3>1. i <= k
      BY <2>1, <2>2
    <3>2. k \in d.done => k < i
      BY <1>8
    <3>3. k \in d.done \/ k = i
      BY <2>1, <2>2 DEF Announcers
    <3> QED
      BY <1>1, <3>1, <3>2, <3>3
  <2> QED
    BY <1>9, <2>1, <2>2 DEF Asked, n
<1>16. \A j \in e.stack : t[j].sizer = NoSizer => Asked(t, e, j, e.size[j])
  <2> SUFFICES ASSUME NEW j \in e.stack, t[j].sizer = NoSizer PROVE Asked(t, e, j, e.size[j])
    OBVIOUS
  <2>1. j \in d.stack /\ j \in DOMAIN t
    BY <1>1, <1>6
  <2>2. CASE j \in X
    BY <2>1, <2>2, <1>6, <1>15
  <2>3. CASE j \notin X
    <3>1. Asked(t, d, j, d.size[j])
      BY <2>1 DEF Consistent
    <3> QED
      BY <2>1, <2>3, <3>1, <1>6, <1>14
  <2> QED
    BY <2>2, <2>3
<1>17. \A j \in e.done : t[j].sizer = NoSizer => Asked(t, e, j, Len(e.value[j]))
  <2> SUFFICES ASSUME NEW j \in e.done, t[j].sizer = NoSizer
               PROVE  Asked(t, e, j, Len(e.value[j]))
    OBVIOUS
  <2>1. j \in DOMAIN t /\ (j \in d.done \/ j = i)
    BY <1>1, <1>6
  <2>2. j \notin X
    BY <1>1, <1>7, <1>8, <2>1
  <2>3. Asked(t, d, j, Len(e.value[j]))
    <3>1. CASE j \in d.done
      BY <2>1, <3>1, <1>1, <1>8, <1>9 DEF Consistent
    <3>2. CASE j = i
      BY <3>2, <1>1, <1>3, <1>9 DEF Consistent
    <3> QED
      BY <2>1, <3>1, <3>2
  <2> QED
    BY <2>1, <2>2, <2>3, <1>14
<1>18. \A k \in e.stack, j \in DOMAIN t :
         Determines(t, k, j) \/ Removes(t, k, j) => j \in e.stack
  <2> SUFFICES ASSUME NEW k \in e.stack, NEW j \in DOMAIN t,
                      Determines(t, k, j) \/ Removes(t, k, j)
               PROVE  j \in e.stack
    OBVIOUS
  <2>1. k \in d.stack /\ k \in DOMAIN t /\ i < k
    BY <1>1, <1>6
  <2>2. j \in d.stack /\ k < j
    BY <2>1, RulesAhead DEF Consistent
  <2>3. j \notin Y
    BY <2>1, <1>1, RulesNotStale DEF Y
  <2> QED
    BY <1>1, <1>6, <2>1, <2>2, <2>3
<1>19. \A j \in DOMAIN t :
         j \in e.stack \cup e.done <=>
           ~ \E k \in e.done : Removes(t, k, j) /\ Zero(e.value[k])
  <2> TAKE j \in DOMAIN t
  <2>1. j \in e.stack \cup e.done <=> j \in d.stack \cup d.done /\ j \notin Y
    <3>1. j \in Y => i < j /\ j \notin d.done
      BY <1>1, <1>7, <1>8
    <3>2. i \notin Y
      BY <1>1, <1>7
    <3> QED
      BY <3>1, <3>2, <1>1, <1>6
  <2>2. (\E k \in e.done : Removes(t, k, j) /\ Zero(e.value[k])) <=>
        j \in Y \/ \E k \in d.done : Removes(t, k, j) /\ Zero(d.value[k])
    <3>1. \A k \in d.done : e.value[k] = d.value[k]
      BY <1>1, <1>8, <1>9
    <3> QED
      BY <3>1, <1>6, <1>9 DEF Y
  <2>3. j \in d.stack \cup d.done <=>
          ~ \E k \in d.done : Removes(t, k, j) /\ Zero(d.value[k])
    BY DEF Consistent
  <2> QED
    BY <2>1, <2>2, <2>3
<1>20. \A j \in e.done : t[j].isHeaderValue => e.value[j] = t[j].value
  <2> TAKE j \in e.done
  <2>1. CASE j \in d.done
    BY <2>1, <1>1, <1>8, <1>9 DEF Consistent
  <2>2. CASE j = i
    BY <2>2, <1>3, <1>9
  <2> QED
    BY <2>1, <2>2, <1>6
<1>21. Consistent(t, e)
  BY <1>10, <1>11, <1>12, <1>16, <1>17, <1>18, <1>19, <1>20 DEF Consistent
<1> QED
  BY <1>4, <1>21 DEF e, s, i

-----------------------------------------------------------------------------
(* The invariant and what it gives.                                        *)

(* No call of addByte changes the template.                                *)
LEMMA TemplateFixed == [Next]_vars => template' = template
BY DEF Next, AddByte, AwaitSize, AwaitBytes, ResyncHeader, SizeRuleFails,
       ExistenceRuleFails, CompleteField, Return, vars

(* Every call keeps the packet consistent with a well-formed template, and *)
(* none throws.                                                            *)
THEOREM RulesInvariant == Spec => []RulesInv
<1>1. Init => RulesInv
  <2> SUFFICES ASSUME Init PROVE RulesInv
    OBVIOUS
  <2>1. template \in Templates /\ cur = NewPacket(template) /\ result = "none"
    BY DEF Init
  <2>2. TypeOK
    BY NewPacketType, EmptySeq DEF Init, TypeOK
  <2> QED
    BY <2>1, <2>2, NewPacketConsistent DEF RulesInv
<1>2. RulesInv /\ TypeOK' /\ [Next]_vars => RulesInv'
  <2> SUFFICES ASSUME RulesInv, TypeOK', [Next]_vars, WellFormed(template)
               PROVE  (Consistent(template, cur) /\ result # "threw")'
    BY TemplateFixed DEF RulesInv
  <2>0. /\ template \in Templates /\ WellFormed(template) /\ TypeOK
        /\ cur \in Current(template) /\ Consistent(template, cur)
    BY DEF RulesInv, TypeOK
  <2>1. ASSUME NEW d, NEW bytes, NEW r, Return(d, bytes, r), Consistent(template, d),
               r # "threw"
        PROVE  (Consistent(template, cur) /\ result # "threw")'
    <3>1. template' = template /\ cur' = d /\ result' = r
      BY <2>1 DEF Return
    <3>2. Consistent(template, d)'
      BY <2>1, <3>1 DEF Consistent, Asked, Announcers, Determines, Removes
    <3> QED
      BY <2>1, <3>1, <3>2
  <2>2. CASE UNCHANGED vars
    <3>1. cur' = cur /\ template' = template /\ result' = result
      BY <2>2 DEF vars
    <3> QED
      BY <3>1, <2>0 DEF RulesInv, Consistent, Asked, Announcers, Determines, Removes
  <2>3. ASSUME NEW b \in Byte, AddByte(b)
        PROVE  (Consistent(template, cur) /\ result # "threw")'
    <3>1. CASE AwaitSize(b)
      BY <3>1, <2>0, <2>1, PreparedConsistent DEF AwaitSize
    <3>2. CASE AwaitBytes(b)
      BY <3>2, <2>0, <2>1, FrontConsistent DEF AwaitBytes
    <3>3. CASE ResyncHeader(b)
      BY <3>3, <2>0, <2>1, FrontConsistent DEF ResyncHeader
    <3>4. ASSUME FieldRead(b)
          PROVE  LET i == Top(Resolved(b)) IN
                 /\ ~SizeRuleThrows(template, Pushed(b), i)
                 /\ ~ExistenceRuleThrows(template, AfterSizes(b), i)
                 /\ ApplyExistenceRule(template, AfterSizes(b), i) \in Current(template)
                 /\ Consistent(template, ApplyExistenceRule(template, AfterSizes(b), i))
      <4> DEFINE d == Resolved(b)
                 bytes == Held(b)
      <4>1. /\ SizeKnown(b) /\ Len(bytes) = d.size[Top(d)]
            /\ template[Top(d)].isHeaderValue => template[Top(d)].value = bytes
        BY <3>4 DEF FieldRead, Need, MatchesTop
      <4>2. /\ d \in Current(template) /\ d.stack # {} /\ bytes \in Seq(Byte)
            /\ Consistent(template, d)
        BY <4>1, <2>0, FrontType, FrontConsistent
      <4>3. Pushed(b) = Push(d, bytes)
        BY DEF Pushed
      <4>4. AfterSizes(b) = ApplySizeRule(template, Push(d, bytes), Top(d))
        BY DEF AfterSizes, Pushed
      <4> HIDE DEF d, bytes
      <4>5. /\ ~SizeRuleThrows(template, Push(d, bytes), Top(d))
            /\ ~ExistenceRuleThrows(template, AfterSizes(b), Top(d))
        BY <2>0, <4>1, <4>2, <4>4, RulesApply
      <4>6. /\ ApplyExistenceRule(template, AfterSizes(b), Top(d)) \in Current(template)
            /\ Consistent(template, ApplyExistenceRule(template, AfterSizes(b), Top(d)))
        BY <2>0, <4>1, <4>2, <4>4, FieldConsistent
      <4> QED
        BY <4>3, <4>5, <4>6 DEF d
    <3>5. CASE SizeRuleFails(b)
      BY <3>4, <3>5 DEF SizeRuleFails
    <3>6. CASE ExistenceRuleFails(b)
      BY <3>4, <3>6 DEF ExistenceRuleFails
    <3>7. CASE CompleteField(b)
      <4> DEFINE e == ApplyExistenceRule(template, AfterSizes(b), Top(Resolved(b)))
                 r == IF DrainEmpty(e).stack = {} THEN "packet" ELSE "none"
      <4>1. FieldRead(b) /\ Return(DrainEmpty(e), <<>>, r)
        BY <3>7 DEF CompleteField
      <4>2. e \in Current(template) /\ Consistent(template, e)
        BY <4>1, <3>4
      <4>3. r # "threw"
        OBVIOUS
      <4> HIDE DEF e, r
      <4> QED
        BY <4>1, <4>2, <4>3, <2>0, <2>1, DrainConsistent
    <3> QED
      BY <2>3, <3>1, <3>2, <3>3, <3>5, <3>6, <3>7 DEF AddByte
  <2> QED
    BY <2>2, <2>3 DEF Next
<1> QED
  BY <1>1, <1>2, TypeCorrect, PTL DEF Spec

(* With a well-formed template addByte never throws.                       *)
THEOREM NeverThrows == Spec => []NoThrow
<1>1. RulesInv => NoThrow
  BY DEF RulesInv, NoThrow
<1> QED
  BY <1>1, RulesInvariant, PTL

(* The fields of a packet are as long as the packet said, or the template. *)
THEOREM SizesAreHonoured == Spec => []SizesHonoured
<1>1. RulesInv => SizesHonoured
  <2> SUFFICES ASSUME RulesInv, WellFormed(template),
                      NEW i \in cur.done, template[i].sizer = NoSizer
               PROVE  LET by == {k \in cur.done : Determines(template, k, i)} IN
                      /\ by = {} => Len(cur.value[i]) = template[i].size
                      /\ \A k \in by : (\A m \in by : m <= k) =>
                           Len(cur.value[i]) =
                             ToUInt16(Low16(cur.value[k]) + template[k].sizeOffset)
    BY DEF SizesHonoured
  <2>1. Asked(template, cur, i, Len(cur.value[i]))
    BY DEF RulesInv, Consistent
  <2> QED
    BY <2>1 DEF Asked, Announcers
<1> QED
  BY <1>1, RulesInvariant, PTL

(* Exactly the fields that were not removed are read or still expected.    *)
THEOREM ExistenceIsHonoured == Spec => []ExistenceHonoured
<1>1. RulesInv => ExistenceHonoured
  BY DEF RulesInv, Consistent, ExistenceHonoured, Zero
<1> QED
  BY <1>1, RulesInvariant, PTL

(* No packet is built on bytes that differ from its header.                *)
THEOREM HeadersAreSound == Spec => []HeaderSound
<1>1. RulesInv => HeaderSound
  BY DEF RulesInv, Consistent, HeaderSound
<1> QED
  BY <1>1, RulesInvariant, PTL

-----------------------------------------------------------------------------
(* What the buffer holds: never as much as the field on top takes.         *)

(* What addByte would hand to a callback next, whatever the byte, is in S. *)
HandedFrom(S) ==
  \A b \in Byte :
    Prepared.stack # {} /\ Callable(Prepared, Append(buffer, b)) => Append(buffer, b) \in S

(* The callback of field i has refused all the bytes buffered so far.      *)
Refused(t, i, bytes) ==
  \A k \in 1 .. Len(bytes) :
    k >= t[i].size => SizeCalc(t[i].sizer, SubSeq(bytes, 1, k)).more

(* The bytes are too few for the field on top of a stack.                  *)
TooFew(t, d, bytes) ==
  /\ \A i \in d.unsized : d.size[i] = t[i].size
  /\ d.stack # {} /\ Top(d) \notin d.unsized /\ bytes # <<>> => Len(bytes) < d.size[Top(d)]
  /\ d.stack # {} /\ Top(d) \in d.unsized => Refused(t, Top(d), bytes)

(* The stack addByte is left with: after a packet there are no bytes, and  *)
(* an empty field is on top only of a stack that is new.                   *)
Waiting(t, d, bytes) ==
  /\ TooFew(t, d, bytes)
  /\ d.stack = {} => bytes = <<>>
  /\ d.stack # {} /\ CertainlyZeroSized(d, Top(d)) => d = NewPacket(t) /\ bytes = <<>>

BufferInv == WellFormed(template) => Waiting(template, cur, buffer)

LEMMA SizesAreNumbers ==
  /\ UInt16 \subseteq Nat
  /\ \A n \in UInt16 : n # 0 => 0 < n
  /\ \A r \in SizeResult : r.size \in Nat /\ r.consumed \in Nat
<1>1. \A r \in SizeResult : r.size \in UInt16 /\ r.consumed \in 0 .. 255
  BY DEF SizeResult
<1>2. UInt16 \subseteq Nat /\ 0 .. 255 \subseteq Nat
  BY DEF UInt16
<1>3. \A n \in Nat : n # 0 => 0 < n
  OBVIOUS
<1> QED
  BY <1>1, <1>2, <1>3

(* A new packet is waiting, for any template.                              *)
LEMMA NewPacketWaits ==
  ASSUME NEW t \in Templates
  PROVE  Waiting(t, NewPacket(t), <<>>)
<1>1. \A i \in DOMAIN t : NewPacket(t).size[i] = t[i].size
  BY DEF NewPacket, Parts
<1>2. NewPacket(t).unsized \subseteq DOMAIN t
  BY DEF NewPacket, Parts
<1>3. \A i : Refused(t, i, <<>>)
  BY EmptySeq DEF Refused
<1> QED
  BY <1>1, <1>2, <1>3 DEF Waiting, TooFew

(* The first field of a well-formed template, or else the second, is not   *)
(* certainly empty: one pass over an empty top is enough.                  *)
LEMMA NewPacketHasTop ==
  ASSUME NEW t \in Templates, WellFormed(t)
  PROVE  LET d == SkipEmptyTop(NewPacket(t)) IN
         /\ d.stack # {} /\ ~CertainlyZeroSized(d, Top(d))
         /\ d.size = NewPacket(t).size /\ d.unsized = NewPacket(t).unsized
<1> DEFINE n == NewPacket(t)
           d == SkipEmptyTop(n)
<1>1. /\ n.stack = DOMAIN t /\ n.unsized = {i \in DOMAIN t : t[i].sizer # NoSizer}
      /\ n.size = [i \in DOMAIN t |-> t[i].size]
  BY DEF NewPacket, Parts
<1>2. t \in Seq(FieldDescriptor) /\ t # <<>>
  BY TemplateAssumption DEF WellFormed
<1>3. DOMAIN t = 1 .. Len(t) /\ Len(t) \in Nat /\ Len(t) # 0
  BY <1>2, LenProperties, EmptySeq
<1>4. 1 \in DOMAIN t
  BY <1>3
<1>5. \A i \in DOMAIN t : t[i].size \in UInt16
  BY TemplateDomain, FieldParts
<1>6. n \in Current(t)
  BY NewPacketType
<1> HIDE DEF n
<1>7. Top(n) = 1
  <2>1. Top(n) \in DOMAIN t /\ \A j \in DOMAIN t : Top(n) <= j
    BY <1>1, <1>4, <1>6, TopProperties
  <2> QED
    BY <2>1, <1>3, <1>4
<1>8. CASE ~CertainlyZeroSized(n, 1)
  <2>1. d = n
    BY <1>7, <1>8 DEF SkipEmptyTop
  <2> QED
    BY <2>1, <1>1, <1>4, <1>7, <1>8 DEF n
<1>9. CASE CertainlyZeroSized(n, 1)
  <2>1. t[1].sizer = NoSizer /\ t[1].size = 0
    BY <1>1, <1>4, <1>9 DEF CertainlyZeroSized
  <2>2. 2 \in DOMAIN t /\ (t[2].size > 0 \/ t[2].sizer # NoSizer)
    BY <2>1 DEF WellFormed
  <2>3. d.stack = DOMAIN t \ {1} /\ d.size = n.size /\ d.unsized = n.unsized
    BY <1>1, <1>4, <1>7, <1>9 DEF SkipEmptyTop, Push, Parts
  <2>4. d \in Current(t)
    BY <1>6, SkipEmptyTopType
  <2>5. 2 \in d.stack
    BY <2>2, <2>3
  <2>6. Top(d) = 2
    <3>1. Top(d) \in d.stack /\ \A j \in d.stack : Top(d) <= j
      BY <2>4, <2>5, TopProperties
    <3> QED
      BY <3>1, <2>3, <2>5, <1>3
  <2>7. ~CertainlyZeroSized(d, 2)
    <3>1. t[2].size \in Nat
      BY <2>2, <1>5, SizesAreNumbers
    <3>2. d.size[2] = t[2].size /\ (2 \in d.unsized <=> t[2].sizer # NoSizer)
      BY <2>2, <2>3, <1>1
    <3> HIDE DEF d
    <3> QED
      BY <2>2, <3>1, <3>2 DEF CertainlyZeroSized
  <2> QED
    BY <2>3, <2>5, <2>6, <2>7 DEF n
<1> QED
  BY <1>8, <1>9

(* Before a byte is looked at, there is a field on top that still takes    *)
(* one.                                                                    *)
LEMMA PreparedTakes ==
  ASSUME TypeOK, WellFormed(template), Waiting(template, cur, buffer)
  PROVE  /\ Prepared.stack # {}
         /\ TooFew(template, Prepared, buffer)
         /\ Top(Prepared) \notin Prepared.unsized => Len(buffer) < Prepared.size[Top(Prepared)]
<1> DEFINE n == NewPacket(template)
           p == Prepared
<1>1. template \in Templates /\ cur \in Current(template) /\ buffer \in Seq(Byte)
  BY DEF TypeOK
<1>2. Len(<<>>) = 0 /\ \A bytes \in Seq(Byte) : Len(bytes) \in Nat /\ (Len(bytes) = 0 => bytes = <<>>)
  BY EmptySeq, LenProperties
<1>3. p \in Current(template)
  BY PreparedType
<1>4. ASSUME NEW i \in DOMAIN template, ~CertainlyZeroSized(p, i), i \notin p.unsized
      PROVE  0 < p.size[i]
  <2>1. p.size[i] \in UInt16
    BY <1>3, CurrentParts
  <2> QED
    BY <1>4, <2>1, SizesAreNumbers DEF CertainlyZeroSized
<1>5. CASE cur.stack = {} \/ (cur = n /\ buffer = <<>>)
  <2>1. buffer = <<>> /\ p = SkipEmptyTop(n)
    BY <1>5 DEF Prepared, Waiting
  <2>2. /\ p.stack # {} /\ ~CertainlyZeroSized(p, Top(p))
        /\ p.size = n.size /\ p.unsized = n.unsized
    BY <1>1, <2>1, NewPacketHasTop
  <2>3. \A i \in p.unsized : p.size[i] = template[i].size
    BY <1>1, <2>2, NewPacketWaits DEF Waiting, TooFew
  <2>4. Refused(template, Top(p), buffer)
    BY <2>1, EmptySeq DEF Refused
  <2>5. Top(p) \in DOMAIN template
    BY <1>1, <1>3, <2>2, TopProperties
  <2>6. Top(p) \notin p.unsized => Len(buffer) < p.size[Top(p)]
    BY <1>2, <1>4, <2>1, <2>2, <2>5
  <2> QED
    BY <2>2, <2>3, <2>4, <2>6 DEF TooFew
<1>6. CASE cur.stack # {} /\ ~(cur = n /\ buffer = <<>>)
  <2>1. ~CertainlyZeroSized(cur, Top(cur))
    BY <1>6 DEF Waiting
  <2>2. p = cur
    BY <1>6, <2>1 DEF Prepared, SkipEmptyTop
  <2>3. TooFew(template, p, buffer)
    BY <2>2 DEF Waiting
  <2>4. Top(p) \in DOMAIN template
    BY <1>1, <1>6, <2>2, TopProperties
  <2>5. Top(p) \notin p.unsized => Len(buffer) < p.size[Top(p)]
    <3>1. CASE buffer = <<>>
      BY <3>1, <1>2, <1>4, <2>1, <2>2, <2>4
    <3>2. CASE buffer # <<>>
      BY <3>2, <1>6, <2>2, <2>3 DEF TooFew
    <3> QED
      BY <3>1, <3>2
  <2> QED
    BY <1>6, <2>2, <2>3, <2>5
<1> QED
  BY <1>5, <1>6

-----------------------------------------------------------------------------
(* One more byte.                                                          *)

LEMMA OneMore ==
  ASSUME NEW bytes \in Seq(Byte), NEW b \in Byte
  PROVE  /\ Append(bytes, b) \in Seq(Byte)
         /\ Append(bytes, b) # <<>>
         /\ Len(Append(bytes, b)) = Len(bytes) + 1 /\ Len(bytes) \in Nat
         /\ \A k \in 1 .. Len(bytes) : SubSeq(Append(bytes, b), 1, k) = SubSeq(bytes, 1, k)
         /\ SubSeq(Append(bytes, b), 1, Len(bytes) + 1) = Append(bytes, b)
<1>1. /\ Append(bytes, b) \in Seq(Byte) /\ Append(bytes, b) # <<>>
      /\ Len(Append(bytes, b)) = Len(bytes) + 1 /\ Len(bytes) \in Nat
      /\ \A k \in 1 .. Len(bytes) : Append(bytes, b)[k] = bytes[k]
  BY AppendProperties, LenProperties
<1>2. \A k \in 1 .. Len(bytes) : SubSeq(Append(bytes, b), 1, k) = SubSeq(bytes, 1, k)
  BY <1>1
<1>3. SubSeq(Append(bytes, b), 1, Len(bytes) + 1) = Append(bytes, b)
  BY <1>1
<1> QED
  BY <1>1, <1>2, <1>3

(* A callback within its contract answers a byte string that has been      *)
(* refused so far with a size, and no fewer bytes than it leaves.          *)
LEMMA AnswerKept ==
  ASSUME TypeOK, NEW S, SizerContract(template, S), Consistent(template, Prepared),
         TooFew(template, Prepared, buffer), Prepared.stack # {}, HandedFrom(S),
         NEW b \in Byte, Callable(Prepared, Append(buffer, b))
  PROVE  LET r == Answer(Prepared, Append(buffer, b)) IN
         /\ r \in SizeResult
         /\ ~r.more => /\ r.consumed <= Len(Append(buffer, b))
                       /\ Len(Append(buffer, b)) - r.consumed <= r.size
<1> DEFINE bytes == Append(buffer, b)
           i == Top(Prepared)
<1>1. /\ template \in Templates /\ buffer \in Seq(Byte) /\ Prepared \in Current(template)
  BY PreparedType DEF TypeOK
<1>2. i \in DOMAIN template /\ i \in Prepared.unsized /\ Len(bytes) >= Prepared.size[i]
  BY <1>1, TopProperties DEF Callable
<1>3. template[i].sizer # NoSizer
  BY <1>2 DEF Consistent
<1>4. Len(bytes) >= template[i].size
  BY <1>2 DEF TooFew
<1>5. bytes \in S
  BY DEF HandedFrom
<1>6. /\ Len(bytes) = Len(buffer) + 1 /\ Len(buffer) \in Nat
      /\ \A k \in 1 .. Len(buffer) : SubSeq(bytes, 1, k) = SubSeq(buffer, 1, k)
  BY <1>1, OneMore
<1>7. Refused(template, i, buffer)
  BY <1>2 DEF TooFew
<1> HIDE DEF i, bytes
<1>8. \A k \in 1 .. Len(bytes) - 1 :
        k >= template[i].size => SizeCalc(template[i].sizer, SubSeq(bytes, 1, k)).more
  <2> TAKE k \in 1 .. Len(bytes) - 1
  <2>1. k \in 1 .. Len(buffer)
    BY <1>6
  <2>2. k >= template[i].size => SizeCalc(template[i].sizer, SubSeq(buffer, 1, k)).more
    BY <1>7, <2>1 DEF Refused
  <2> QED
    BY <1>6, <2>1, <2>2
<1>9. LET r == SizeCalc(template[i].sizer, bytes) IN
        /\ r \in SizeResult
        /\ ~r.more => r.consumed <= Len(bytes) /\ Len(bytes) - r.consumed <= r.size
  BY <1>2, <1>3, <1>4, <1>5, <1>8 DEF SizerContract
<1> QED
  BY <1>9 DEF Answer, i, bytes

(* Once the size of the top is known, no more bytes are held for it than   *)
(* it takes.                                                               *)
LEMMA FrontTakes ==
  ASSUME TypeOK, WellFormed(template), Waiting(template, cur, buffer),
         Consistent(template, cur), NEW S, SizerContract(template, S), HandedFrom(S),
         NEW b \in Byte, SizeKnown(b)
  PROVE  /\ Len(Held(b)) \in Nat /\ Need(b) \in Nat /\ Len(Held(b)) <= Need(b)
         /\ Top(Resolved(b)) \notin Resolved(b).unsized
         /\ \A i \in Resolved(b).unsized : Resolved(b).size[i] = template[i].size
         /\ template[Top(Resolved(b))].isHeaderValue => Held(b) # <<>>
<1> DEFINE p == Prepared
           bytes == Append(buffer, b)
           i == Top(p)
<1>1. template \in Templates /\ buffer \in Seq(Byte) /\ p \in Current(template)
  BY PreparedType DEF TypeOK
<1>2. /\ p.stack # {} /\ TooFew(template, p, buffer)
      /\ i \notin p.unsized => Len(buffer) < p.size[i]
  BY PreparedTakes
<1>3. Consistent(template, p)
  BY PreparedConsistent
<1>4. /\ Resolved(b) \in Current(template) /\ Resolved(b).stack # {}
      /\ Top(Resolved(b)) = i /\ Held(b) \in Seq(Byte)
  BY FrontType
<1>5. i \in DOMAIN template
  BY <1>1, <1>2, TopProperties
<1>6. Need(b) = Resolved(b).size[i] /\ Need(b) \in Nat /\ Len(Held(b)) \in Nat
  <2>1. Resolved(b).size[i] \in UInt16
    BY <1>4, <1>5, CurrentParts
  <2>2. Need(b) = Resolved(b).size[i]
    BY <1>4 DEF Need
  <2>3. Len(Held(b)) \in Nat
    BY <1>4, LenProperties
  <2> HIDE DEF i
  <2> QED
    BY <2>1, <2>2, <2>3, SizesAreNumbers
<1>7. /\ bytes \in Seq(Byte) /\ bytes # <<>>
      /\ Len(bytes) = Len(buffer) + 1 /\ Len(buffer) \in Nat
  BY <1>1, OneMore
<1>8. CASE i \notin p.unsized
  <2>1. Resolved(b) = p /\ Held(b) = bytes
    BY <1>8 DEF Resolved, Held, TakeSize, Unread, Callable
  <2>2. Len(Held(b)) <= Need(b)
    BY <2>1, <1>2, <1>6, <1>7, <1>8
  <2>3. \A j \in p.unsized : p.size[j] = template[j].size
    BY <1>2 DEF TooFew
  <2> HIDE DEF p, bytes, i
  <2> QED
    BY <2>1, <2>2, <2>3, <1>4, <1>6, <1>7, <1>8
<1>9. CASE i \in p.unsized
  <2>1. Callable(p, bytes) /\ ~Answer(p, bytes).more
    BY <1>9 DEF SizeKnown
  <2> DEFINE r == Answer(p, bytes)
  <2>2. r \in SizeResult /\ r.consumed <= Len(bytes) /\ Len(bytes) - r.consumed <= r.size
    BY <2>1, <1>2, <1>3, AnswerKept
  <2>3. r.consumed \in Nat /\ r.size \in Nat
    <3> HIDE DEF r
    <3> QED
      BY <2>2, SizesAreNumbers
  <2>4. /\ Resolved(b).size = [p.size EXCEPT ![i] = r.size]
        /\ Resolved(b).unsized = p.unsized \ {i}
    BY <2>1 DEF Resolved, TakeSize, Parts
  <2>5. Held(b) = SubSeq(bytes, r.consumed + 1, Len(bytes))
    BY <2>1 DEF Held, Unread
  <2>6. template[i].sizer # NoSizer
    BY <1>3, <1>9 DEF Consistent
  <2>7. ~template[i].isHeaderValue
    BY <1>1, <1>5, <2>6, HeadersFixed
  <2>8. \A j \in p.unsized : p.size[j] = template[j].size
    BY <1>2 DEF TooFew
  <2> HIDE DEF p, bytes, i, r
  <2>9. Need(b) = r.size
    BY <2>4, <1>1, <1>5, <1>6, CurrentParts
  <2>10. Len(Held(b)) = Len(bytes) - r.consumed
    BY <2>2, <2>3, <2>5, <1>7
  <2>11. \A j \in Resolved(b).unsized : Resolved(b).size[j] = template[j].size
    BY <2>4, <2>8, <1>1, CurrentParts
  <2>12. Top(Resolved(b)) \notin Resolved(b).unsized
    BY <1>4, <2>4
  <2>13. ~template[Top(Resolved(b))].isHeaderValue
    BY <1>4, <2>7
  <2> QED
    BY <2>2, <2>9, <2>10, <2>11, <2>12, <2>13, <1>6
<1> QED
  BY <1>8, <1>9

-----------------------------------------------------------------------------
(* The invariant is kept.                                                  *)

(* A byte the callback of the top still wants more of.                     *)
LEMMA AwaitSizeWaits ==
  ASSUME TypeOK, WellFormed(template), Waiting(template, cur, buffer), NEW b \in Byte,
         AwaitSize(b)
  PROVE  Waiting(template, Prepared, Append(buffer, b))
<1> DEFINE p == Prepared
           bytes == Append(buffer, b)
           i == Top(p)
<1>1. template \in Templates /\ buffer \in Seq(Byte)
  BY DEF TypeOK
<1>2. p.stack # {} /\ i \in p.unsized /\ (Callable(p, bytes) => Answer(p, bytes).more)
  BY DEF AwaitSize
<1>3. TooFew(template, p, buffer)
  BY PreparedTakes
<1>4. /\ Len(bytes) = Len(buffer) + 1 /\ Len(buffer) \in Nat
      /\ \A k \in 1 .. Len(buffer) : SubSeq(bytes, 1, k) = SubSeq(buffer, 1, k)
      /\ SubSeq(bytes, 1, Len(buffer) + 1) = bytes
  BY <1>1, OneMore
<1>5. Refused(template, i, buffer) /\ p.size[i] = template[i].size
  BY <1>2, <1>3 DEF TooFew
<1>6. Len(bytes) >= template[i].size => SizeCalc(template[i].sizer, bytes).more
  BY <1>2, <1>5 DEF Callable, Answer
<1> HIDE DEF i, bytes
<1>7. ASSUME NEW k \in 1 .. Len(bytes), k >= template[i].size
      PROVE  SizeCalc(template[i].sizer, SubSeq(bytes, 1, k)).more
  <2>1. CASE k = Len(buffer) + 1
    <3>1. SubSeq(bytes, 1, k) = bytes /\ Len(bytes) >= template[i].size
      BY <2>1, <1>4, <1>7
    <3> QED
      BY <3>1, <1>6
  <2>2. CASE k # Len(buffer) + 1
    <3>1. k \in 1 .. Len(buffer)
      BY <2>2, <1>4
    <3>2. SizeCalc(template[i].sizer, SubSeq(buffer, 1, k)).more
      BY <3>1, <1>5, <1>7 DEF Refused
    <3> QED
      BY <3>1, <3>2, <1>4
  <2> QED
    BY <2>1, <2>2
<1>8. Refused(template, i, bytes)
  BY <1>7 DEF Refused
<1> QED
  BY <1>2, <1>3, <1>8 DEF Waiting, TooFew, CertainlyZeroSized, i, bytes

(* After a field the buffer is empty, and so is no field on top.           *)
LEMMA FieldLeavesWaiting ==
  ASSUME NEW t \in Templates, WellFormed(t), NEW d \in Current(t), Consistent(t, d),
         d.stack # {}, NEW bytes \in Seq(Byte), Len(bytes) = d.size[Top(d)],
         t[Top(d)].isHeaderValue => t[Top(d)].value = bytes,
         \A j \in d.unsized : d.size[j] = t[j].size
  PROVE  LET i == Top(d)  s == ApplySizeRule(t, Push(d, bytes), i)
         IN  Waiting(t, DrainEmpty(ApplyExistenceRule(t, s, i)), <<>>)
<1> DEFINE i == Top(d)
           p == Push(d, bytes)
           s == ApplySizeRule(t, p, i)
           e == ApplyExistenceRule(t, s, i)
           z == {j \in e.stack : \A k \in e.stack : k <= j => CertainlyZeroSized(e, k)}
           w == DrainEmpty(e)
           X == {x \in DOMAIN t : Determines(t, i, x)}
           n == ToUInt16(Low16(bytes) + t[i].sizeOffset)
<1>1. p.unsized = d.unsized
  BY DEF Push, Parts
<1>2. /\ s.unsized = p.unsized
      /\ \A j \in DOMAIN t : s.size[j] = IF j \in X THEN n ELSE d.size[j]
  BY RulesApply
<1>3. e.unsized = s.unsized /\ e.size = s.size
  BY DEF ApplyExistenceRule, Parts
<1>4. e \in Current(t)
  BY FieldConsistent
<1>5. d.unsized \subseteq DOMAIN t /\ i \in DOMAIN t
  BY CurrentParts, TopProperties
<1>6. \A j \in d.unsized : j \notin X
  <2> TAKE j \in d.unsized
  <2>1. j \in DOMAIN t /\ t[j].sizer # NoSizer
    BY <1>5 DEF Consistent
  <2> QED
    BY <2>1, <1>5 DEF WellFormed
<1> HIDE DEF i, p, s, X, n, e
<1>7. \A j \in e.unsized : e.size[j] = t[j].size
  BY <1>1, <1>2, <1>3, <1>5, <1>6
<1>8. w.stack = e.stack \ z /\ w.size = e.size /\ w.unsized = e.unsized
  BY DEF DrainEmpty, Parts
<1>9. w \in Current(t)
  BY <1>4, DrainEmptyType
<1>10. ASSUME w.stack # {}, CertainlyZeroSized(w, Top(w)) PROVE FALSE
  <2>1. Top(w) \in w.stack /\ \A j \in w.stack : Top(w) <= j
    BY <1>9, <1>10, TopProperties
  <2>2. e.stack \subseteq Nat
    BY <1>4, CurrentParts, TemplateDomain
  <2>3. PICK k \in e.stack : k <= Top(w) /\ ~CertainlyZeroSized(e, k)
    BY <2>1, <1>8
  <2>4. CertainlyZeroSized(e, Top(w))
    BY <1>8, <1>10 DEF CertainlyZeroSized
  <2>5. k \notin w.stack
    <3>1. k # Top(w)
      BY <2>3, <2>4
    <3> QED
      BY <2>1, <2>2, <2>3, <3>1, <1>8
  <2>6. \A j \in e.stack : j <= k => CertainlyZeroSized(e, j)
    BY <2>5, <2>3, <1>8
  <2> QED
    BY <2>2, <2>3, <2>6
<1>11. Refused(t, Top(w), <<>>)
  BY EmptySeq DEF Refused
<1> HIDE DEF w, z
<1>12. Waiting(t, w, <<>>)
  BY <1>7, <1>8, <1>10, <1>11 DEF Waiting, TooFew
<1> QED
  BY <1>12 DEF w, e, s, p, i

LEMMA BufferInvKept ==
  ASSUME NEW S, WellFormed(template) => SizerContract(template, S),
         RulesInv, RulesInv', HandedFrom(S), BufferInv, [Next]_vars
  PROVE  BufferInv'
<1> SUFFICES ASSUME WellFormed(template)
             PROVE  Waiting(template, cur', buffer')
  BY TemplateFixed DEF BufferInv
<1>1. /\ TypeOK /\ template \in Templates /\ Consistent(template, cur)
      /\ Waiting(template, cur, buffer) /\ SizerContract(template, S)
  BY DEF RulesInv, TypeOK, BufferInv
<1>2. result' # "threw"
  BY TemplateFixed DEF RulesInv
<1>3. CASE UNCHANGED vars
  BY <1>1, <1>3 DEF vars
<1>4. ASSUME NEW b \in Byte, AddByte(b)
      PROVE  Waiting(template, cur', buffer')
  <2>1. CASE AwaitSize(b)
    <3>1. cur' = Prepared /\ buffer' = Append(buffer, b)
      BY <2>1 DEF AwaitSize, Return
    <3> QED
      BY <2>1, <3>1, <1>1, AwaitSizeWaits
  <2>2. ASSUME SizeKnown(b)
        PROVE  /\ Resolved(b) \in Current(template) /\ Resolved(b).stack # {}
               /\ Held(b) \in Seq(Byte) /\ Consistent(template, Resolved(b))
               /\ Len(Held(b)) \in Nat /\ Need(b) \in Nat /\ Len(Held(b)) <= Need(b)
               /\ Top(Resolved(b)) \notin Resolved(b).unsized
               /\ \A i \in Resolved(b).unsized : Resolved(b).size[i] = template[i].size
    BY <1>1, <2>2, FrontType, FrontConsistent, FrontTakes
  <2>3. ASSUME SizeKnown(b), NEW bytes, Len(bytes) \in Nat, Len(bytes) < Need(b)
        PROVE  Waiting(template, Resolved(b), bytes)
    <3>1. 0 < Resolved(b).size[Top(Resolved(b))]
      BY <2>2, <2>3 DEF Need
    <3> QED
      BY <2>2, <2>3, <3>1 DEF Waiting, TooFew, Need, CertainlyZeroSized
  <2>4. CASE AwaitBytes(b)
    <3>1. SizeKnown(b) /\ Len(Held(b)) # Need(b) /\ cur' = Resolved(b) /\ buffer' = Held(b)
      BY <2>4 DEF AwaitBytes, Return
    <3>2. Len(Held(b)) \in Nat /\ Len(Held(b)) < Need(b)
      BY <2>2, <3>1
    <3> QED
      BY <2>3, <3>1, <3>2
  <2>5. CASE ResyncHeader(b)
    <3>1. /\ SizeKnown(b) /\ Len(Held(b)) = Need(b) /\ Held(b) # <<>>
          /\ cur' = Resolved(b) /\ buffer' = Tail(Held(b))
      BY <2>5 DEF ResyncHeader, Return
    <3>2. Len(Tail(Held(b))) = Len(Held(b)) - 1 /\ Len(Held(b)) # 0
      BY <2>2, <3>1, HeadTailProperties, EmptySeq
    <3>3. Len(Tail(Held(b))) \in Nat /\ Len(Tail(Held(b))) < Need(b)
      BY <2>2, <3>1, <3>2
    <3> QED
      BY <2>3, <3>1, <3>3
  <2>6. CASE SizeRuleFails(b) \/ ExistenceRuleFails(b)
    BY <2>6, <1>2 DEF SizeRuleFails, ExistenceRuleFails, Return
  <2>7. CASE CompleteField(b)
    <3> DEFINE d == Resolved(b)
               bytes == Held(b)
    <3>1. /\ SizeKnown(b) /\ Len(bytes) = d.size[Top(d)]
          /\ template[Top(d)].isHeaderValue => template[Top(d)].value = bytes
      BY <2>7 DEF CompleteField, FieldRead, Need, MatchesTop
    <3>2. /\ cur' = DrainEmpty(ApplyExistenceRule(template, AfterSizes(b), Top(d)))
          /\ buffer' = <<>>
      BY <2>7 DEF CompleteField, Return
    <3>3. AfterSizes(b) = ApplySizeRule(template, Push(d, bytes), Top(d))
      BY DEF AfterSizes, Pushed
    <3>4. /\ d \in Current(template) /\ d.stack # {} /\ bytes \in Seq(Byte)
          /\ Consistent(template, d)
          /\ \A j \in d.unsized : d.size[j] = template[j].size
      BY <2>2, <3>1
    <3> HIDE DEF d, bytes
    <3>5. Waiting(template, DrainEmpty(ApplyExistenceRule(template,
                    ApplySizeRule(template, Push(d, bytes), Top(d)), Top(d))), <<>>)
      BY <1>1, <3>1, <3>4, FieldLeavesWaiting
    <3> QED
      BY <3>2, <3>3, <3>5
  <2> QED
    BY <1>4, <2>1, <2>4, <2>5, <2>6, <2>7 DEF AddByte
<1> QED
  BY <1>3, <1>4 DEF Next

LEMMA BufferInvInit == Init => BufferInv
BY NewPacketWaits DEF Init, BufferInv

(* Callbacks that keep their contract for the byte strings of S, and a     *)
(* stream that hands them no others: addByte never waits with as many      *)
(* bytes as the field on top takes.                                        *)
THEOREM NeverOverruns ==
  ASSUME NEW S, \A t \in Templates : WellFormed(t) => SizerContract(t, S)
  PROVE  Spec /\ []HandedFrom(S) => []NoOverrun
<1>1. RulesInv /\ RulesInv' /\ HandedFrom(S) /\ BufferInv /\ [Next]_vars => BufferInv'
  BY BufferInvKept DEF RulesInv, TypeOK
<1>2. BufferInv => NoOverrun
  BY DEF BufferInv, Waiting, TooFew, NoOverrun
<1> QED
  BY <1>1, <1>2, BufferInvInit, RulesInvariant, PTL DEF Spec

(* Under the same conditions nothing addByte does with the next byte is    *)
(* undefined, whatever the byte: there is a field on top, a callback       *)
(* answers and consumes no more than it is given, and a header that does   *)
(* not match has a first byte to drop.                                     *)
THEOREM NeverUndefined ==
  ASSUME NEW S, \A t \in Templates : WellFormed(t) => SizerContract(t, S)
  PROVE  Spec /\ []HandedFrom(S) => []NothingUndefined
<1>1. RulesInv /\ RulesInv' /\ HandedFrom(S) /\ BufferInv /\ [Next]_vars => BufferInv'
  BY BufferInvKept DEF RulesInv, TypeOK
<1>2. RulesInv /\ HandedFrom(S) /\ BufferInv => NothingUndefined
  <2> SUFFICES ASSUME RulesInv, HandedFrom(S), BufferInv, WellFormed(template),
                      NEW b \in Byte
               PROVE  /\ Prepared.stack # {}
                      /\ Callable(Prepared, Append(buffer, b)) =>
                           LET r == Answer(Prepared, Append(buffer, b)) IN
                           r \in SizeResult /\ (~r.more => r.consumed <= Len(buffer) + 1)
                      /\ SizeKnown(b) /\ ~MatchesTop(b) => Held(b) # <<>>
    BY DEF NothingUndefined
  <2>1. /\ TypeOK /\ Consistent(template, cur) /\ Waiting(template, cur, buffer)
        /\ SizerContract(template, S) /\ buffer \in Seq(Byte)
    BY DEF RulesInv, TypeOK, BufferInv
  <2>2. Prepared.stack # {} /\ TooFew(template, Prepared, buffer)
    BY <2>1, PreparedTakes
  <2>3. Consistent(template, Prepared)
    BY <2>1, PreparedConsistent
  <2>4. ASSUME Callable(Prepared, Append(buffer, b))
        PROVE  LET r == Answer(Prepared, Append(buffer, b)) IN
               r \in SizeResult /\ (~r.more => r.consumed <= Len(buffer) + 1)
    <3>1. Len(Append(buffer, b)) = Len(buffer) + 1
      BY <2>1, OneMore
    <3> QED
      BY <2>1, <2>2, <2>3, <2>4, <3>1, AnswerKept
  <2>5. SizeKnown(b) /\ ~MatchesTop(b) => Held(b) # <<>>
    BY <2>1, FrontTakes DEF MatchesTop
  <2> QED
    BY <2>2, <2>4, <2>5
<1> QED
  BY <1>1, <1>2, BufferInvInit, RulesInvariant, PTL DEF Spec
=============================================================================
