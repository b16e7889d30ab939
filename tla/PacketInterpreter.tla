-------------------------- MODULE PacketInterpreter --------------------------
(***************************************************************************)
(* libs/protos/interpretation: packets of bytes become named, typed values.*)
(* Several interpreters work side by side, also while the callback of one  *)
(* is running, and share the keys of utils::once.  Those live as long as   *)
(* the process, in a static set of each instance of a template: one for    *)
(* warnings and one for exceptions, since either has a lambda of its own.  *)
(*                                                                         *)
(* Of a FieldInterpretation with subFields interpret uses nothing but      *)
(* those, however deep, each on all bytes of the field: the model keeps    *)
(* the sequence of the leaves.  Formats and hidden flags are copied along  *)
(* and left out, as is littleEndian, which nothing reads.                  *)
(***************************************************************************)
EXTENDS Numbers, SequencesExt

CONSTANTS
  Byte,         \* the bytes of fields, a subset of 0..255
  FieldName,    \* names of fields, sequences of characters
  Interpreter,  \* GenericPacketInterpreter objects
  NameOf(_),    \* getName of each, a sequence of characters
  Mapper,       \* the mappers in use
  NoMapper,     \* an unset mapper
  Map(_, _),    \* the results a mapper makes of a value
  Unsupported,  \* the characters of "Unsupported type"
  Interpretations,  \* FieldInterpretations in use: a name and its leaves
  Packets,      \* PacketData in use: sequences of fields, name and value
  Behaviors(_)  \* EmptyFieldBehaviors that the owner of each may set

Type == {"UNDEFINED", "STRING", "INTEGER", "UNSIGNED_INTEGER", "FLOAT", "BYTES", "BOOL"}

Leaf == [name : FieldName, type : Type, mapper : Mapper \cup {NoMapper}]
FieldInterpretation == [name : FieldName, leaves : Seq(Leaf) \ {<<>>}]

(* Variants.  Integers are the eight bytes of the number, least first.     *)
Bytes == Seq(0 .. 255)
Variant ==
  [is : {"string", "double", "bytes"}, of : Bytes]
  \cup [is : {"int64", "uint64"}, of : [1 .. 8 -> 0 .. 255]]
  \cup [is : {"bool"}, of : BOOLEAN]

Result == [name : FieldName, value : Variant]

(* EmptyFieldBehavior: those that say nothing, and those that say it once. *)
Silent    == {"SKIP", "EMPTY_STRING", "DASH", "CALL_BACK"}
Reporting == {"SKIP_AND_WARN_ONCE", "TROW_ONCE"}

(* A warning or an exception, and the field it is about.                   *)
Report == Reporting \X FieldName

ASSUME ByteAssumption == Byte \subseteq 0 .. 255
ASSUME MapperAssumption == NoMapper \notin Mapper
ASSUME InputAssumption ==
  /\ Unsupported \in Bytes
  /\ Interpretations \subseteq FieldInterpretation
  /\ Packets \subseteq Seq([name : FieldName, value : Seq(Byte)])

VARIABLES
  alive,    \* the process
  fields,   \* interpretations of each interpreter, by name
  behaves,  \* behaviors of each interpreter: the mode, and whether a callback is set
  onceSet,  \* the two once_set, as pairs of which and a key
  run,      \* the interpretPacketData under way in each interpreter, or how it ended
  told      \* history: how often each interpreter made each report

vars == <<alive, fields, behaves, onceSet, run, told>>

-----------------------------------------------------------------------------
(* Bytes to values.                                                        *)

(* as_variant: the values it may give.  A bool made of a byte that is not  *)
(* one is undefined.                                                       *)
AsVariant(type, v) ==
  CASE type = "STRING"           -> {[is |-> "string", of |-> v]}
    [] type = "INTEGER"          -> {[is |-> "int64", of |-> Integer(v)]}
    [] type = "UNSIGNED_INTEGER" -> {[is |-> "uint64", of |-> UnsignedInteger(v)]}
    [] type = "FLOAT"            -> {[is |-> "double", of |-> Float(v)]}
    [] type = "BYTES"            -> {[is |-> "bytes", of |-> v]}
    [] type = "BOOL"             ->
         {[is |-> "bool", of |-> x] : x \in IF v[1] \in {0, 1} THEN {v[1] = 1} ELSE BOOLEAN}
    [] type = "UNDEFINED"        -> {[is |-> "string", of |-> Unsupported]}

(* A leaf: the value as it is, or what the mapper makes of it.             *)
InterpretLeaf(l, v) ==
  {IF l.mapper # NoMapper THEN Map(l.mapper, x) ELSE <<[name |-> l.name, value |-> x]>>
   : x \in AsVariant(l.type, v)}

(* A mapper makes results of each value that it may be given.              *)
ASSUME MapAssumption ==
  \A p \in Packets : \A k \in DOMAIN p : \A type \in Type :
    (type = "BOOL" => p[k].value # <<>>) =>
      \A x \in AsVariant(type, p[k].value) \cap Variant : \A m \in Mapper : Map(m, x) \in Seq(Result)

-----------------------------------------------------------------------------
(* The state of an interpreter, and what it says of missing fields.        *)

Idle     == [at |-> "idle"]
Returned == [at |-> "returned"]
Threw    == [at |-> "threw"]
Running(p, k, rs) == [at |-> "running", packet |-> p, next |-> k, results |-> rs]

Init ==
  /\ alive = TRUE
  /\ fields = [i \in Interpreter |-> <<>>]
  /\ behaves = [i \in Interpreter |-> [mode |-> "SKIP_AND_WARN_ONCE", callback |-> FALSE]]
  /\ onceSet = {}
  /\ run = [i \in Interpreter |-> Idle]
  /\ told = [i \in Interpreter |-> [r \in Report |-> 0]]

(* The name of the field and that of the interpreter in one string.        *)
OnceKey(i, r) == <<r[1], r[2] \o NameOf(i)>>

(* Another report of the process has the same key.                         *)
Ambiguous(i, r) ==
  \E j \in Interpreter : \E q \in Report :
    <<j, q>> # <<i, r>> /\ OnceKey(j, q) = OnceKey(i, r)

-----------------------------------------------------------------------------
(* The owner of an interpreter.                                            *)

(* addField: emplace leaves what is there.                                 *)
AddField(i, f) ==
  /\ alive /\ run[i].at # "running"
  /\ fields' = [fields EXCEPT ![i] =
       [n \in DOMAIN @ \cup {f.name} |-> IF n \in DOMAIN @ THEN @[n] ELSE f.leaves]]
  /\ UNCHANGED <<alive, behaves, onceSet, run, told>>

(* setBehaviors; only CALL_BACK looks at the callback.  Not modelled: an   *)
(* owner whose callback or mapper calls the interpreter that called it.    *)
SetBehaviors(i, mode, callback) ==
  /\ alive /\ run[i].at # "running"
  /\ mode \in Behaviors(i) /\ (callback => mode = "CALL_BACK")
  /\ behaves' = [behaves EXCEPT ![i] = [mode |-> mode, callback |-> callback]]
  /\ UNCHANGED <<alive, fields, onceSet, run, told>>

-----------------------------------------------------------------------------
(* interpretPacketData, one step for each field.                           *)

InterpretPacketData(i, p) ==
  /\ alive /\ run[i].at # "running"
  /\ run' = [run EXCEPT ![i] = Running(p, 1, <<>>)]
  /\ UNCHANGED <<alive, fields, behaves, onceSet, told>>

AtField(i) == alive /\ run[i].at = "running" /\ run[i].next <= Len(run[i].packet)
Field(i)   == run[i].packet[run[i].next]
HasField(i) == Field(i).name \in DOMAIN fields[i]
Missing(i, mode) == AtField(i) /\ ~HasField(i) /\ behaves[i].mode = mode

Continue(i, rs) ==
  /\ run' = [run EXCEPT ![i] = Running(@.packet, @.next + 1, @.results \o rs)]
  /\ UNCHANGED <<alive, fields, behaves>>

Throw(i) ==
  /\ run' = [run EXCEPT ![i] = Threw]
  /\ UNCHANGED <<alive, fields, behaves>>

LeavesOf(i) == fields[i][Field(i).name]

(* A bool is made of the first byte, also of a field that has none.        *)
ReadsNothing(i) ==
  Field(i).value = <<>> /\ \E k \in DOMAIN LeavesOf(i) : LeavesOf(i)[k].type = "BOOL"

(* MUTANT: subfields return the context they were given as well.           *)
InterpretField_Context(i) ==
  /\ AtField(i) /\ HasField(i) /\ ~ReadsNothing(i)
  /\ LET leaves == LeavesOf(i)
         of(k) == InterpretLeaf(leaves[k], Field(i).value)
     IN  \E parts \in [DOMAIN leaves -> UNION {of(k) : k \in DOMAIN leaves}] :
           /\ \A k \in DOMAIN leaves : parts[k] \in of(k)
           /\ Continue(i, run[i].results \o FlattenSeq(parts))
  /\ UNCHANGED <<onceSet, told>>

InterpretField(i) ==
  /\ AtField(i) /\ HasField(i) /\ ~ReadsNothing(i)
  /\ LET leaves == LeavesOf(i)
         of(k) == InterpretLeaf(leaves[k], Field(i).value)
     IN  \E parts \in [DOMAIN leaves -> UNION {of(k) : k \in DOMAIN leaves}] :
           /\ \A k \in DOMAIN leaves : parts[k] \in of(k)
           /\ Continue(i, FlattenSeq(parts))
  /\ UNCHANGED <<onceSet, told>>

DereferenceNull(i) ==
  /\ AtField(i) /\ HasField(i) /\ ReadsNothing(i)
  /\ alive' = FALSE
  /\ UNCHANGED <<fields, behaves, onceSet, run, told>>

(* A mapper may throw, if no earlier leaf has ended the process.           *)
MapperThrows(i) ==
  /\ AtField(i) /\ HasField(i)
  /\ \E k \in DOMAIN LeavesOf(i) :
       /\ LeavesOf(i)[k].mapper # NoMapper
       /\ Field(i).value = <<>> => \A j \in 1 .. k : LeavesOf(i)[j].type # "BOOL"
  /\ Throw(i)
  /\ UNCHANGED <<onceSet, told>>

(* MUTANT: one flag, whatever the key.                                     *)
Once_Flag(i, r) ==
  /\ onceSet' = onceSet \cup {OnceKey(i, r)}
  /\ told' = IF onceSet # {} THEN told ELSE [told EXCEPT ![i][r] = @ + 1]

(* utils::once: the key is in the set before the report is made.           *)
Once(i, r) ==
  /\ onceSet' = onceSet \cup {OnceKey(i, r)}
  /\ told' = IF OnceKey(i, r) \in onceSet THEN told ELSE [told EXCEPT ![i][r] = @ + 1]

Due(i) == <<behaves[i].mode, Field(i).name>>

Skip(i) == Missing(i, "SKIP") /\ Continue(i, <<>>) /\ UNCHANGED <<onceSet, told>>

SkipAndWarnOnce(i) ==
  /\ Missing(i, "SKIP_AND_WARN_ONCE")
  /\ Once(i, Due(i))
  /\ Continue(i, <<>>)

Text(i, bytes) == <<[name |-> Field(i).name, value |-> [is |-> "string", of |-> bytes]]>>

EmptyString(i) ==
  Missing(i, "EMPTY_STRING") /\ Continue(i, Text(i, <<>>)) /\ UNCHANGED <<onceSet, told>>

Dash(i) == Missing(i, "DASH") /\ Continue(i, Text(i, <<45>>)) /\ UNCHANGED <<onceSet, told>>

(* MUTANT: the key is not kept when the report throws.                     *)
ThrowOnce_Late(i) ==
  /\ Missing(i, "TROW_ONCE")
  /\ IF OnceKey(i, Due(i)) \in onceSet
     THEN Continue(i, <<>>) /\ UNCHANGED <<onceSet, told>>
     ELSE Throw(i) /\ told' = [told EXCEPT ![i][Due(i)] = @ + 1] /\ UNCHANGED onceSet

(* The exception takes the results so far with it.                         *)
ThrowOnce(i) ==
  /\ Missing(i, "TROW_ONCE")
  /\ Once(i, Due(i))
  /\ IF OnceKey(i, Due(i)) \in onceSet THEN Continue(i, <<>>) ELSE Throw(i)

(* The callback may throw; without one, std::bad_function_call.            *)
CallBack(i) ==
  /\ Missing(i, "CALL_BACK")
  /\ Throw(i) \/ (behaves[i].callback /\ Continue(i, <<>>))
  /\ UNCHANGED <<onceSet, told>>

(* The caller is given run[i].results.                                     *)
Return(i) ==
  /\ alive /\ run[i].at = "running" /\ run[i].next > Len(run[i].packet)
  /\ run' = [run EXCEPT ![i] = Returned]
  /\ UNCHANGED <<alive, fields, behaves, onceSet, told>>

-----------------------------------------------------------------------------
OwnerStep(i) ==
  \/ \E f \in Interpretations : AddField(i, f)
  \/ \E mode \in Silent \cup Reporting, callback \in BOOLEAN : SetBehaviors(i, mode, callback)
  \/ \E p \in Packets : InterpretPacketData(i, p)

FieldStep(i) ==
  \/ InterpretField(i) \/ DereferenceNull(i) \/ MapperThrows(i)
  \/ Skip(i) \/ SkipAndWarnOnce(i) \/ EmptyString(i) \/ Dash(i) \/ ThrowOnce(i) \/ CallBack(i)

Next == \E i \in Interpreter : OwnerStep(i) \/ FieldStep(i) \/ Return(i)

Spec == Init /\ [][Next]_vars

-----------------------------------------------------------------------------
(* Properties.                                                             *)

(* The types of GenericPacketInterpreter.hpp and InterpretationResult.hpp. *)
TypeOK ==
  /\ alive \in BOOLEAN
  /\ \A i \in Interpreter :
       /\ DOMAIN fields[i] \subseteq FieldName
       /\ \A n \in DOMAIN fields[i] : fields[i][n] \in Seq(Leaf) \ {<<>>}
       /\ behaves[i] \in [mode : Silent \cup Reporting, callback : BOOLEAN]
       /\ \/ run[i] \in {Idle, Returned, Threw}
          \/ /\ run[i].at = "running" /\ run[i].packet \in Packets
             /\ run[i].next \in 1 .. Len(run[i].packet) + 1
             /\ run[i].results \in Seq(Result)
       /\ told[i] \in [Report -> Nat]
  /\ onceSet \subseteq {OnceKey(i, r) : i \in Interpreter, r \in Report}

(* One of each, one after the other; and so for the first k of the sets.   *)
Joins(A, B) == {a \o b : a \in A, b \in B}

Joined(sets, k) ==
  LET upTo[n \in {0} \cup DOMAIN sets] ==
        IF n = 0 THEN {<<>>} ELSE Joins(upTo[n - 1], sets[n])
  IN  upTo[k]

(* What a field may contribute, and what the first k of a packet may.      *)
MeaningOfField(known, mode, f) ==
  IF f.name \in DOMAIN known
  THEN LET leaves == known[f.name]
       IN  Joined([k \in DOMAIN leaves |-> InterpretLeaf(leaves[k], f.value)], Len(leaves))
  ELSE CASE mode = "EMPTY_STRING" ->
              {<<[name |-> f.name, value |-> [is |-> "string", of |-> <<>>]]>>}
         [] mode = "DASH" ->
              {<<[name |-> f.name, value |-> [is |-> "string", of |-> <<45>>]]>>}
         [] OTHER -> {<<>>}

Meaning(i, p, k) ==
  Joined([n \in DOMAIN p |-> MeaningOfField(fields[i], behaves[i].mode, p[n])], k)

(* Every field of a packet contributes once and in its place, whatever the *)
(* other interpreters do meanwhile (the loops of interpretPacketData and   *)
(* handleSubFields).                                                       *)
MeansThePacket ==
  \A i \in Interpreter : run[i].at = "running" =>
    run[i].results \in Meaning(i, run[i].packet, run[i].next - 1)

(* No interpreter warns of the same missing field twice, nor throws for it *)
(* twice, when it is given the packet again (handleMissingField, once).    *)
ReportedAtMostOnce == \A i \in Interpreter : \A r \in Report : told[i][r] <= 1

(* An interpreter that warns of missing fields, or throws for them, has    *)
(* done so for each one that it went past, whatever was reported before;   *)
(* unless the names of another field and interpreter read the same one     *)
(* after the other (handleMissingField).                                   *)
MissingIsReported ==
  [][\A i \in Interpreter :
       AtField(i) /\ ~HasField(i) /\ run'[i] # run[i] /\ behaves[i].mode \in Reporting
       /\ ~Ambiguous(i, Due(i))
         => told'[i][Due(i)] = 1]_vars
=============================================================================
