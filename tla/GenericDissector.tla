-------------------------- MODULE GenericDissector --------------------------
(***************************************************************************)
(* libs/protos/dissection: the state machine behind addByte, which cuts a  *)
(* byte stream into the fields of one packet after another.                *)
(*                                                                         *)
(* The deque current_packet_stack holds copies of the template's field     *)
(* descriptors, is filled in template order and only ever loses elements;  *)
(* of a copy, addByte changes the size and the size callback and nothing   *)
(* else.  The model keeps the positions of the fields still on the stack   *)
(* (the top is the smallest), their present sizes, and the positions whose *)
(* callback is still set.  current_packet lists its fields in that same    *)
(* order, so it is a set of positions with their values.  A field that is  *)
(* neither on the stack nor in the packet was removed.                     *)
(***************************************************************************)
EXTENDS Integers, Sequences, FiniteSetsExt

CONSTANTS
  Byte,            \* the bytes of the stream, a subset of 0..255
  FieldName,       \* FieldId
  NoName,          \* the empty FieldId: no field is referred to
  Sizer,           \* the externalSizeCalculation callbacks in use
  NoSizer,         \* an unset (null) callback
  SizeCalc(_, _),  \* what a callback answers for the bytes buffered so far
  Templates        \* packet templates: sequences of field descriptors

UInt16 == 0 .. 65535
Int16  == -32768 .. 32767

(* Conversion of a whole number to uint16_t.                               *)
ToUInt16(n) == n % 65536

(* One rule set of a template: FieldDescriptor without its description.    *)
FieldDescriptor ==
  [name : FieldName, size : UInt16, value : Seq(Byte),
   determinesSizeOf : FieldName \cup {NoName},
   sizeDeterminesExistenceOf : FieldName \cup {NoName},
   isHeaderValue : BOOLEAN, sizeOffset : Int16, sizer : Sizer \cup {NoSizer}]

(* SizeCallCallbackResult.                                                 *)
SizeResult == [more : BOOLEAN, size : UInt16, consumed : 0 .. 255]

ASSUME ByteAssumption == Byte \subseteq 0 .. 255
ASSUME SizerAssumption == NoSizer \notin Sizer
ASSUME TemplateAssumption == Templates \subseteq Seq(FieldDescriptor)

VARIABLES
  template,  \* packet_template, fixed at construction
  cur,       \* current_packet_stack and current_packet, see NewPacket
  buffer,    \* current_message_buffer
  result     \* how the last addByte ended: "none" | "packet" | "threw"

vars == <<template, cur, buffer, result>>

-----------------------------------------------------------------------------
(* The stack and the packet as values.                                     *)

Parts(stack, size, unsized, done, value) ==
  [stack |-> stack, size |-> size, unsized |-> unsized, done |-> done, value |-> value]

NewPacket(t) ==
  Parts(DOMAIN t, [i \in DOMAIN t |-> t[i].size],
        {i \in DOMAIN t : t[i].sizer # NoSizer}, {}, [i \in DOMAIN t |-> <<>>])

Top(d) == Min(d.stack)

CertainlyZeroSized(d, i) == i \notin d.unsized /\ d.size[i] = 0

(* pop_front, with the popped field appended to the packet.                *)
Push(d, bytes) ==
  Parts(d.stack \ {Top(d)}, d.size, d.unsized, d.done \cup {Top(d)},
        [d.value EXCEPT ![Top(d)] = bytes])

(* Before a byte is looked at, one empty field on top is passed over.      *)
SkipEmptyTop(d) ==
  IF d.stack # {} /\ CertainlyZeroSized(d, Top(d)) THEN Push(d, <<>>) ELSE d

(* MUTANT: empty fields are taken off the stack wherever they are.         *)
DrainEmpty_Anywhere(d) ==
  LET z == {i \in d.stack : CertainlyZeroSized(d, i)}
  IN  Parts(d.stack \ z, d.size, d.unsized, d.done \cup z, d.value)

(* MUTANT: the last field of a packet is left, empty or not.               *)
DrainEmpty_NotLast(d) ==
  LET z == {i \in d.stack : /\ \A j \in d.stack : j <= i => CertainlyZeroSized(d, j)
                           /\ i # Max(d.stack)}
  IN  Parts(d.stack \ z, d.size, d.unsized, d.done \cup z, d.value)

(* After a field, every empty field on top is.                             *)
DrainEmpty(d) ==
  LET z == {i \in d.stack : \A j \in d.stack : j <= i => CertainlyZeroSized(d, j)}
  IN  Parts(d.stack \ z, d.size, d.unsized, d.done \cup z, d.value)

Named(t, S, n) == {i \in S : t[i].name = n}

(* The bytes getSizeFromFieldValue converts: those of the first field of   *)
(* that name in the packet.  It throws unless to_number has their width.   *)
SizeBytes(t, d, i) == d.value[Min(Named(t, d.done, t[i].name))]

Readable(t, d, i) ==
  /\ d.size[i] \in {1, 2, 4, 8}
  /\ Len(SizeBytes(t, d, i)) = d.size[i]

(* The number is a uint32_t; a size keeps its low 16 bits, and the test    *)
(* for zero sees the low 32 even of an 8-byte field.                       *)
Low16(v)  == v[1] + (IF Len(v) > 1 THEN 256 * v[2] ELSE 0)
IsZero(v) == \A k \in 1 .. Len(v) : k <= 4 => v[k] = 0

(* withDeterminesSizeOf: field i, just read, sets the size of another.     *)
SizeRuleThrows(t, d, i) ==
  /\ t[i].determinesSizeOf # NoName
  /\ Named(t, d.stack, t[i].determinesSizeOf) = {} \/ ~Readable(t, d, i)

(* MUTANT: the sum is not cut to the width of the size.                    *)
ApplySizeRule_Wide(t, d, i) ==
  IF t[i].determinesSizeOf = NoName THEN d
  ELSE LET x == Min(Named(t, d.stack, t[i].determinesSizeOf))
           n == Low16(SizeBytes(t, d, i)) + t[i].sizeOffset
       IN  Parts(d.stack, [d.size EXCEPT ![x] = n], d.unsized, d.done, d.value)

ApplySizeRule(t, d, i) ==
  IF t[i].determinesSizeOf = NoName THEN d
  ELSE LET x == Min(Named(t, d.stack, t[i].determinesSizeOf))
           n == ToUInt16(Low16(SizeBytes(t, d, i)) + t[i].sizeOffset)
       IN  Parts(d.stack, [d.size EXCEPT ![x] = n], d.unsized, d.done, d.value)

(* withSizeDeterminesExistenceOf: a zero in field i removes another.       *)
ExistenceRuleThrows(t, d, i) ==
  /\ t[i].sizeDeterminesExistenceOf # NoName
  /\ \/ ~Readable(t, d, i)
     \/ /\ IsZero(SizeBytes(t, d, i))
        /\ Named(t, d.stack, t[i].sizeDeterminesExistenceOf) = {}

(* MUTANT: the last field is removed in place of the one named.            *)
ApplyExistenceRule_Last(t, d, i) ==
  IF \/ t[i].sizeDeterminesExistenceOf = NoName
     \/ ~IsZero(SizeBytes(t, d, i))
  THEN d
  ELSE Parts(d.stack \ {Max(d.stack)}, d.size, d.unsized, d.done, d.value)

ApplyExistenceRule(t, d, i) ==
  IF \/ t[i].sizeDeterminesExistenceOf = NoName
     \/ ~IsZero(SizeBytes(t, d, i))
  THEN d
  ELSE LET x == Min(Named(t, d.stack, t[i].sizeDeterminesExistenceOf))
       IN  Parts(d.stack \ {x}, d.size, d.unsized, d.done, d.value)

-----------------------------------------------------------------------------
(* addByte.  Each action below is one whole call, from the push_back of b  *)
(* to its return or throw.                                                 *)

Init ==
  /\ template \in Templates
  /\ cur = NewPacket(template)
  /\ buffer = <<>>
  /\ result = "none"

(* MUTANT: the new stack has the sizes the last packet announced.          *)
Prepared_KeepsSizes ==
  SkipEmptyTop(IF cur.stack = {} /\ buffer = <<>>
               THEN [NewPacket(template) EXCEPT !.size = cur.size] ELSE cur)

(* The stack and packet once a finished packet has been replaced and one   *)
(* empty top passed over.  stackTop() on an empty stack is undefined: the  *)
(* actions need a top, and without one addByte has no step.                *)
Prepared ==
  SkipEmptyTop(IF cur.stack = {} /\ buffer = <<>> THEN NewPacket(template) ELSE cur)

(* The callback has what it needs to be called, and its answer.            *)
Callable(d, bytes) == Top(d) \in d.unsized /\ Len(bytes) >= d.size[Top(d)]
Answer(d, bytes)   == SizeCalc(template[Top(d)].sizer, bytes)

TakeSize(d, bytes) ==
  IF Callable(d, bytes)
  THEN Parts(d.stack, [d.size EXCEPT ![Top(d)] = Answer(d, bytes).size],
             d.unsized \ {Top(d)}, d.done, d.value)
  ELSE d

Unread(d, bytes) ==
  IF Callable(d, bytes)
  THEN SubSeq(bytes, Answer(d, bytes).consumed + 1, Len(bytes))
  ELSE bytes

(* The stack of known top, and the bytes held for that top.                *)
Resolved(b) == TakeSize(Prepared, Append(buffer, b))
Held(b)  == Unread(Prepared, Append(buffer, b))
Need(b)  == Resolved(b).size[Top(Resolved(b))]

(* The size of the top is known: it has no callback, or the callback       *)
(* answers.  Erasing more bytes than there are is undefined: no step.      *)
SizeKnown(b) ==
  LET bytes == Append(buffer, b) IN
  /\ Prepared.stack # {}
  /\ Top(Prepared) \in Prepared.unsized =>
       /\ Callable(Prepared, bytes)
       /\ Answer(Prepared, bytes) \in SizeResult
       /\ ~Answer(Prepared, bytes).more
       /\ Answer(Prepared, bytes).consumed <= Len(bytes)

Return(d, bytes, r) ==
  /\ cur' = d
  /\ buffer' = bytes
  /\ result' = r
  /\ UNCHANGED template

(* The callback of the top field cannot tell the size yet.                 *)
AwaitSize(b) ==
  LET bytes == Append(buffer, b) IN
  /\ Prepared.stack # {}
  /\ Top(Prepared) \in Prepared.unsized
  /\ Callable(Prepared, bytes) => Answer(Prepared, bytes).more
  /\ Return(Prepared, bytes, "none")

AwaitBytes(b) ==
  /\ SizeKnown(b)
  /\ Len(Held(b)) # Need(b)
  /\ Return(Resolved(b), Held(b), "none")

(* MUTANT: the last byte of the header is not compared.                    *)
MatchesTop_AllButLast(b) ==
  LET f == template[Top(Resolved(b))] IN
  f.isHeaderValue => SubSeq(f.value, 1, Len(f.value) - 1) = SubSeq(Held(b), 1, Len(f.value) - 1)

(* The check of a header field; other fields take any bytes.               *)
MatchesTop(b) ==
  LET f == template[Top(Resolved(b))] IN f.isHeaderValue => f.value = Held(b)

(* MUTANT: the byte stays in the buffer.                                   *)
ResyncHeader_Keeps(b) ==
  /\ SizeKnown(b)
  /\ Len(Held(b)) = Need(b)
  /\ ~MatchesTop(b)
  /\ Held(b) # <<>>
  /\ Return(Resolved(b), Held(b), "none")

(* MUTANT: all the bytes go.                                               *)
ResyncHeader_Restarts(b) ==
  /\ SizeKnown(b)
  /\ Len(Held(b)) = Need(b)
  /\ ~MatchesTop(b)
  /\ Held(b) # <<>>
  /\ Return(Resolved(b), <<>>, "none")

(* As many bytes as the header has, but not the header: the first goes.    *)
(* Erasing it from no bytes is undefined.                                  *)
ResyncHeader(b) ==
  /\ SizeKnown(b)
  /\ Len(Held(b)) = Need(b)
  /\ ~MatchesTop(b)
  /\ Held(b) # <<>>
  /\ Return(Resolved(b), Tail(Held(b)), "none")

(* The field on top is read, and the size it announces has been set.       *)
FieldRead(b)  == SizeKnown(b) /\ Len(Held(b)) = Need(b) /\ MatchesTop(b)
Pushed(b)     == Push(Resolved(b), Held(b))
AfterSizes(b) == ApplySizeRule(template, Pushed(b), Top(Resolved(b)))

(* A rule throws after the field has left the stack: what was done stays.  *)
SizeRuleFails(b) ==
  /\ FieldRead(b)
  /\ SizeRuleThrows(template, Pushed(b), Top(Resolved(b)))
  /\ Return(Pushed(b), <<>>, "threw")

ExistenceRuleFails(b) ==
  /\ FieldRead(b)
  /\ ~SizeRuleThrows(template, Pushed(b), Top(Resolved(b)))
  /\ ExistenceRuleThrows(template, AfterSizes(b), Top(Resolved(b)))
  /\ Return(AfterSizes(b), <<>>, "threw")

CompleteField(b) ==
  LET i == Top(Resolved(b))
      d == DrainEmpty(ApplyExistenceRule(template, AfterSizes(b), i)) IN
  /\ FieldRead(b)
  /\ ~SizeRuleThrows(template, Pushed(b), i)
  /\ ~ExistenceRuleThrows(template, AfterSizes(b), i)
  /\ Return(d, <<>>, IF d.stack = {} THEN "packet" ELSE "none")

AddByte(b) ==
  \/ AwaitSize(b)
  \/ AwaitBytes(b)
  \/ ResyncHeader(b)
  \/ SizeRuleFails(b)
  \/ ExistenceRuleFails(b)
  \/ CompleteField(b)

Next == \E b \in Byte : AddByte(b)

Spec == Init /\ [][Next]_vars

-----------------------------------------------------------------------------
(* Templates the rules make sense for.                                     *)

Determines(t, k, i) ==
  t[k].determinesSizeOf # NoName /\ t[k].determinesSizeOf = t[i].name
Removes(t, k, i) ==
  t[k].sizeDeterminesExistenceOf # NoName /\ t[k].sizeDeterminesExistenceOf = t[i].name

(* Every field a rule names is a later one, and is not gone by the time    *)
(* the rule is applied.                                                    *)
RulesPointAhead(t) ==
  \A k \in DOMAIN t :
    /\ t[k].determinesSizeOf # NoName =>
         \E i \in DOMAIN t : k < i /\ Determines(t, k, i)
    /\ t[k].sizeDeterminesExistenceOf # NoName =>
         \E i \in DOMAIN t : k < i /\ Removes(t, k, i)
    /\ \A j, i \in DOMAIN t :
         k < j /\ Removes(t, k, i) => ~Determines(t, j, i) /\ ~Removes(t, j, i)

(* A field with a rule is a number: of a width that never changes.         *)
RulesAreNumbers(t) ==
  \A k \in DOMAIN t :
    /\ t[k].determinesSizeOf # NoName => t[k].size \in {1, 2, 4, 8}
    /\ t[k].sizeDeterminesExistenceOf # NoName => t[k].size \in {1, 2, 4}
    /\ t[k].determinesSizeOf # NoName \/ t[k].sizeDeterminesExistenceOf # NoName =>
         t[k].sizer = NoSizer /\ ~ \E j \in DOMAIN t : Determines(t, j, k)

HeadersAreFixed(t) ==
  \A i \in DOMAIN t : t[i].isHeaderValue =>
    /\ t[i].value # <<>> /\ t[i].size = Len(t[i].value)
    /\ t[i].sizer = NoSizer /\ ~ \E k \in DOMAIN t : Determines(t, k, i)

WellFormed(t) ==
  /\ t # <<>>
  /\ \A i, j \in DOMAIN t : t[i].name = t[j].name => i = j
  /\ RulesPointAhead(t) /\ RulesAreNumbers(t) /\ HeadersAreFixed(t)
  /\ t[1].size = 0 /\ t[1].sizer = NoSizer =>
       2 \in DOMAIN t /\ (t[2].size > 0 \/ t[2].sizer # NoSizer)
  /\ \A i, k \in DOMAIN t : t[i].sizer # NoSizer => ~Determines(t, k, i)

(* A callback, refused for every shorter run of bytes, never announces     *)
(* fewer bytes than it leaves in the buffer, nor consumes more.            *)
SizerContract(t, byteStrings) ==
  \A i \in DOMAIN t : \A bytes \in byteStrings :
    /\ t[i].sizer # NoSizer
    /\ Len(bytes) >= t[i].size
    /\ \A k \in 1 .. Len(bytes) - 1 :
         k >= t[i].size => SizeCalc(t[i].sizer, SubSeq(bytes, 1, k)).more
    => LET r == SizeCalc(t[i].sizer, bytes) IN
         /\ r \in SizeResult
         /\ ~r.more => r.consumed <= Len(bytes) /\ Len(bytes) - r.consumed <= r.size

-----------------------------------------------------------------------------
(* Properties.                                                             *)

Current(t) ==
  [stack : SUBSET (DOMAIN t), size : [DOMAIN t -> UInt16],
   unsized : SUBSET (DOMAIN t), done : SUBSET (DOMAIN t),
   value : [DOMAIN t -> Seq(Byte)]]

(* The types of GenericDissector.hpp:54-57.                                *)
TypeOK ==
  /\ template \in Templates
  /\ cur \in Current(template)
  /\ buffer \in Seq(Byte)
  /\ result \in {"none", "packet", "threw"}

(* A legal template never makes addByte throw, however the removals and    *)
(* sizes its bytes ask for interact (getFieldInStack, getSizeFromFieldValue*)
(* and removeFieldFromStack each throw).                                   *)
NoThrow == WellFormed(template) => result # "threw"

(* The dissector waits with fewer bytes than the field on top takes.  The  *)
(* test for a complete field is ==, so with more it would wait forever.    *)
NoOverrun ==
  WellFormed(template) /\ cur.stack # {} /\ buffer # <<>> /\ Top(cur) \notin cur.unsized =>
    Len(buffer) < cur.size[Top(cur)]

(* Whatever byte comes, addByte does nothing undefined: it looks for the   *)
(* top of a deque that has one, and erases no more bytes than there are.   *)
NothingUndefined ==
  WellFormed(template) => \A b \in Byte :
    /\ Prepared.stack # {}
    /\ Top(Prepared) \in Prepared.unsized /\ Callable(Prepared, Append(buffer, b)) =>
         LET r == Answer(Prepared, Append(buffer, b)) IN
         r \in SizeResult /\ (~r.more => r.consumed <= Len(buffer) + 1)
    /\ SizeKnown(b) /\ Len(Held(b)) = Need(b) /\ ~MatchesTop(b) => Held(b) # <<>>

(* A field of the packet under construction has the length its last        *)
(* determiner in that packet announced, and without one (and without a     *)
(* callback) that of the template, whatever earlier packets announced.     *)
SizesHonoured ==
  WellFormed(template) => \A i \in cur.done : template[i].sizer = NoSizer =>
    LET by == {k \in cur.done : Determines(template, k, i)} IN
    /\ by = {} => Len(cur.value[i]) = template[i].size
    /\ \A k \in by : (\A m \in by : m <= k) =>
         Len(cur.value[i]) = ToUInt16(Low16(cur.value[k]) + template[k].sizeOffset)

(* A field carries nothing if a field that decides its existence was read  *)
(* as zero, and is there in any other case (sizeDeterminesExistenceOf).    *)
(* addByte and its tests take such a field out of the packet; the comments *)
(* (FieldDescriptor.hpp:38) would keep it with size 0, which is allowed.   *)
ExistenceHonoured ==
  WellFormed(template) => \A i \in DOMAIN template :
    IF \E k \in cur.done : /\ Removes(template, k, i)
                          /\ \A n \in DOMAIN cur.value[k] : cur.value[k][n] = 0
    THEN (i \in cur.stack => cur.size[i] = 0) /\ (i \in cur.done => cur.value[i] = <<>>)
    ELSE i \in cur.stack \cup cur.done

(* A header field in the packet has the value of the template: no packet   *)
(* is built on bytes that merely have the header's length.                 *)
HeaderSound ==
  WellFormed(template) =>
    \A i \in cur.done : template[i].isHeaderValue => cur.value[i] = template[i].value

(* Whatever the template, and after any exception: no field is both read   *)
(* and expected, and the packet holds its fields in template order, all    *)
(* before those still to come.                                             *)
InOrder == \A i \in cur.done, j \in cur.stack : i < j

-----------------------------------------------------------------------------
(* Why the properties hold: what is true of the stack and the packet of a  *)
(* well-formed template between two calls.                                 *)

Zero(v) == \A n \in DOMAIN v : v[n] = 0

(* The fields that have announced a size for i so far.                     *)
Announcers(t, d, i) == {k \in d.done : Determines(t, k, i)}

(* n is the size the packet asks of field i.                               *)
Asked(t, d, i, n) ==
  /\ Announcers(t, d, i) = {} => n = t[i].size
  /\ \A k \in Announcers(t, d, i) :
       (\A m \in Announcers(t, d, i) : m <= k) =>
         n = ToUInt16(Low16(d.value[k]) + t[k].sizeOffset)

Consistent(t, d) ==
  \* fields are read in order, and hold nothing before
  /\ \A i \in d.done, j \in d.stack : i < j
  /\ \A i \in DOMAIN t : i \notin d.done => d.value[i] = <<>>
  \* only callbacks and determiners change a size
  /\ \A i \in d.unsized : t[i].sizer # NoSizer
  /\ \A i \in d.stack : t[i].sizer = NoSizer => Asked(t, d, i, d.size[i])
  /\ \A i \in d.done : t[i].sizer = NoSizer => Asked(t, d, i, Len(d.value[i]))
  \* what a field to come refers to is still to come
  /\ \A k \in d.stack, i \in DOMAIN t :
       Determines(t, k, i) \/ Removes(t, k, i) => i \in d.stack
  /\ \A i \in DOMAIN t :
       i \in d.stack \cup d.done <=>
         ~ \E k \in d.done : Removes(t, k, i) /\ Zero(d.value[k])
  /\ \A i \in d.done : t[i].isHeaderValue => d.value[i] = t[i].value

(* The inductive invariant behind NoThrow, SizesHonoured, ExistenceHonoured*)
(* and HeaderSound: a field that makes addByte throw, is read short, or    *)
(* outlives its removal shows in these first.                              *)
RulesInv ==
  /\ TypeOK
  /\ WellFormed(template) => Consistent(template, cur) /\ result # "threw"

=============================================================================
