------------------------ MODULE PacketInterpreterProofs ------------------------
(***************************************************************************)
(* Proofs about PacketInterpreter, for any interpreters, names, packets    *)
(* and mappers, and about the numbers it reads.                            *)
(***************************************************************************)
EXTENDS PacketInterpreter, FlattenProofs

(* The loop walks over a packet that was given.                            *)
WalksPacket ==
  /\ run = [i \in Interpreter |-> run[i]]
  /\ \A i \in Interpreter : run[i].at = "running" =>
       run[i].packet \in Packets /\ run[i].next \in Nat \ {0}

(* A report was made for every key in once_set, and only one.              *)
KeysReported ==
  /\ told \in [Interpreter -> [Report -> {0, 1}]]
  /\ \A i \in Interpreter : \A r \in Report : told[i][r] = 1 => OnceKey(i, r) \in onceSet
  /\ \A k \in onceSet :
       \E i \in Interpreter : \E r \in Report : k = OnceKey(i, r) /\ told[i][r] = 1

LEMMA Element ==
  ASSUME NEW S, NEW p \in Seq(S), NEW k \in Nat \ {0}, k <= Len(p)
  PROVE  p[k] \in S
OBVIOUS

LEMMA FieldIsNamed ==
  ASSUME WalksPacket, NEW i \in Interpreter, AtField(i)
  PROVE  Field(i).name \in FieldName
<1>1. PICK p : p = run[i].packet
  OBVIOUS
<1>2. PICK k : k = run[i].next
  OBVIOUS
<1>3. p \in Packets /\ k \in Nat \ {0} /\ k <= Len(p)
  BY <1>1, <1>2 DEF WalksPacket, AtField
<1>4. p \in Seq([name : FieldName, value : Seq(Byte)])
  BY <1>3, InputAssumption, Zenon
<1>5. p[k] \in [name : FieldName, value : Seq(Byte)]
  BY <1>3, <1>4, Element
<1>6. Field(i) = p[k]
  BY <1>1, <1>2 DEF Field
<1> QED BY <1>5, <1>6

LEMMA WalksPacketInit == Init => WalksPacket
BY DEF Init, WalksPacket, Idle

LEMMA WalksPacketKept == WalksPacket /\ [Next]_vars => WalksPacket'
<1> SUFFICES ASSUME WalksPacket, [Next]_vars PROVE WalksPacket'
  OBVIOUS
<1>1. CASE run' = run
  BY <1>1 DEF WalksPacket
<1>2. ASSUME NEW i \in Interpreter, NEW r, run' = [run EXCEPT ![i] = r],
             r.at = "running" => r.packet \in Packets /\ r.next \in Nat \ {0}
      PROVE  WalksPacket'
  BY <1>2 DEF WalksPacket
<1>3. ASSUME NEW i \in Interpreter, NEW p \in Packets, InterpretPacketData(i, p)
      PROVE  WalksPacket'
  <2> DEFINE r == Running(p, 1, <<>>)
  <2>1. run' = [run EXCEPT ![i] = r]
    BY <1>3 DEF InterpretPacketData
  <2>2. r.packet \in Packets /\ r.next \in Nat \ {0}
    BY DEF Running
  <2> QED BY <1>2, <2>1, <2>2
<1>4. ASSUME NEW i \in Interpreter, NEW rs, AtField(i), Continue(i, rs) PROVE WalksPacket'
  <2> DEFINE r == Running(run[i].packet, run[i].next + 1, run[i].results \o rs)
  <2>1. run' = [run EXCEPT ![i] = r]
    BY <1>4 DEF Continue
  <2>2. r.packet \in Packets /\ r.next \in Nat \ {0}
    BY <1>4 DEF WalksPacket, AtField, Running
  <2> QED BY <1>2, <2>1, <2>2
<1>5. ASSUME NEW i \in Interpreter, Throw(i) \/ Return(i) PROVE WalksPacket'
  BY <1>2, <1>5 DEF Throw, Return, Threw, Returned
<1>6. ASSUME NEW i \in Interpreter, FieldStep(i) PROVE WalksPacket'
  BY <1>1, <1>4, <1>5, <1>6
     DEF FieldStep, InterpretField, DereferenceNull, MapperThrows, Skip, SkipAndWarnOnce,
         EmptyString, Dash, ThrowOnce, CallBack, Missing
<1> QED BY <1>1, <1>3, <1>5, <1>6 DEF Next, OwnerStep, AddField, SetBehaviors, vars

LEMMA KeysReportedInit == Init => KeysReported
BY DEF Init, KeysReported

(* utils::once keeps the invariant, and leaves the report made unless  *)
(* its key is that of another.                                             *)
LEMMA OnceReports ==
  ASSUME KeysReported, NEW i \in Interpreter, NEW r \in Report, Once(i, r)
  PROVE  /\ KeysReported'
         /\ ~Ambiguous(i, r) => told'[i][r] = 1
<1>1. CASE OnceKey(i, r) \in onceSet
  <2>1. told' = told /\ onceSet' = onceSet
    BY <1>1 DEF Once
  <2>2. PICK j \in Interpreter, q \in Report : OnceKey(i, r) = OnceKey(j, q) /\ told[j][q] = 1
    BY <1>1 DEF KeysReported
  <2> QED BY <2>1, <2>2 DEF KeysReported, Ambiguous
<1>2. CASE OnceKey(i, r) \notin onceSet
  <2>1. told[i][r] = 0
    BY <1>2 DEF KeysReported
  <2>2. told' = [told EXCEPT ![i] = [told[i] EXCEPT ![r] = 1]]
    BY <1>2, <2>1 DEF Once
  <2>3. told' \in [Interpreter -> [Report -> {0, 1}]]
    BY <2>2 DEF KeysReported
  <2>4. told'[i][r] = 1
    BY <2>2 DEF KeysReported
  <2>5. \A j \in Interpreter : \A q \in Report :
          told'[j][q] = 1 <=> told[j][q] = 1 \/ (j = i /\ q = r)
    BY <2>2 DEF KeysReported
  <2>6. onceSet' = onceSet \cup {OnceKey(i, r)}
    BY DEF Once
  <2>7. \A j \in Interpreter : \A q \in Report : told'[j][q] = 1 => OnceKey(j, q) \in onceSet'
    BY <2>5, <2>6 DEF KeysReported
  <2>8. \A k \in onceSet' :
          \E j \in Interpreter : \E q \in Report : k = OnceKey(j, q) /\ told'[j][q] = 1
    BY <2>4, <2>5, <2>6 DEF KeysReported
  <2> QED BY <2>3, <2>4, <2>7, <2>8 DEF KeysReported
<1> QED BY <1>1, <1>2

LEMMA KeysReportedKept == WalksPacket /\ KeysReported /\ [Next]_vars => KeysReported'
<1> SUFFICES ASSUME WalksPacket, KeysReported, [Next]_vars PROVE KeysReported'
  OBVIOUS
<1>1. CASE UNCHANGED <<onceSet, told>>
  BY <1>1 DEF KeysReported
<1>2. ASSUME NEW i \in Interpreter, SkipAndWarnOnce(i) \/ ThrowOnce(i) PROVE KeysReported'
  <2>1. Due(i) \in Report
    BY <1>2, FieldIsNamed DEF SkipAndWarnOnce, ThrowOnce, Missing, Due, Report, Reporting
  <2> QED BY <1>2, <2>1, OnceReports DEF SkipAndWarnOnce, ThrowOnce
<1> QED BY <1>1, <1>2 DEF Next, OwnerStep, FieldStep, AddField, SetBehaviors, InterpretPacketData,
                          InterpretField, DereferenceNull, MapperThrows, Skip, EmptyString,
                          Dash, CallBack, Return, vars

(* No interpreter warns of the same missing field twice, nor throws for it *)
(* twice (handleMissingField, once).                                       *)
THEOREM NoReportTwice == Spec => []ReportedAtMostOnce
<1>1. KeysReported => ReportedAtMostOnce
  BY DEF KeysReported, ReportedAtMostOnce
<1> QED BY <1>1, WalksPacketInit, WalksPacketKept, KeysReportedInit, KeysReportedKept, PTL DEF Spec

(* A missing field whose key is its own has been reported once an          *)
(* interpreter that reports went past it (handleMissingField, once).       *)
THEOREM ReportsAreMade == Spec => MissingIsReported
<1> DEFINE Past(i) == AtField(i) /\ ~HasField(i) /\ run'[i] # run[i] /\ behaves[i].mode \in Reporting
<1>1. ASSUME WalksPacket, KeysReported, [Next]_vars,
             NEW i \in Interpreter, Past(i), ~Ambiguous(i, Due(i))
      PROVE  told'[i][Due(i)] = 1
  <2>1. CASE SkipAndWarnOnce(i) \/ ThrowOnce(i)
    <3>1. Due(i) \in Report
      BY <1>1, FieldIsNamed DEF Due, Report
    <3> QED BY <1>1, <2>1, <3>1, OnceReports DEF SkipAndWarnOnce, ThrowOnce
  <2>2. ASSUME NEW j \in Interpreter, OwnerStep(j) PROVE FALSE
    BY <1>1, <2>2 DEF OwnerStep, AddField, SetBehaviors, InterpretPacketData, AtField, WalksPacket
  <2>3. ASSUME NEW j \in Interpreter, j # i, FieldStep(j) \/ Return(j) PROVE FALSE
    BY <1>1, <2>3 DEF FieldStep, InterpretField, DereferenceNull, MapperThrows, Skip,
         SkipAndWarnOnce, EmptyString, Dash, ThrowOnce, CallBack, Return, Continue, Throw, WalksPacket
  <2>4. CASE InterpretField(i) \/ DereferenceNull(i) \/ MapperThrows(i)
    BY <1>1, <2>4 DEF InterpretField, DereferenceNull, MapperThrows
  <2>5. CASE Skip(i) \/ EmptyString(i) \/ Dash(i) \/ CallBack(i)
    BY <1>1, <2>5 DEF Skip, EmptyString, Dash, CallBack, Missing, Reporting
  <2>6. CASE Return(i)
    <3>1. run[i].next > Len(run[i].packet) /\ run[i].next <= Len(run[i].packet)
      BY <1>1, <2>6 DEF Return, AtField
    <3>2. run[i].next \in Nat /\ Len(run[i].packet) \in Nat
      BY <1>1, InputAssumption DEF WalksPacket, AtField
    <3> QED BY <3>1, <3>2
  <2> QED BY <1>1, <2>1, <2>2, <2>3, <2>4, <2>5, <2>6 DEF Next, FieldStep, vars
<1>2. WalksPacket /\ KeysReported /\ [Next]_vars
        => [\A i \in Interpreter : Past(i) /\ ~Ambiguous(i, Due(i))
              => told'[i][Due(i)] = 1]_vars
  BY <1>1
<1> QED BY <1>2, WalksPacketInit, WalksPacketKept, KeysReportedInit, KeysReportedKept, PTL
        DEF Spec, MissingIsReported

-----------------------------------------------------------------------------
(* What to_bytes writes, convert reads: for every number, of every width   *)
(* that the number fits into.                                              *)

(* A number loses nothing when it is cut to a width: what is cut off is    *)
(* its sign, or nothing but zeros.                                         *)
FitsSigned(n, width) ==
  \A k \in width + 1 .. Len(n) : n[k] = IF n[width] >= 128 THEN 255 ELSE 0
FitsUnsigned(n, width) == \A k \in width + 1 .. Len(n) : n[k] = 0

(* The lowest bytes are bytes, as many as were asked for.                  *)
LEMMA LowestBytes ==
  ASSUME NEW n \in Object, NEW width \in Widths, width <= Len(n)
  PROVE  /\ ToBytes(n, width) \in Object
         /\ Len(ToBytes(n, width)) = width
         /\ \A k \in 1 .. width : ToBytes(n, width)[k] = n[k]
<1>1. n \in Seq(ByteValue) /\ Len(n) \in Nat /\ width \in 1 .. 8
  BY DEF Object, Widths
<1>2. /\ Len(ToBytes(n, width)) = width
      /\ \A k \in 1 .. width : ToBytes(n, width)[k] = n[k]
  BY <1>1 DEF ToBytes
<1>3. ToBytes(n, width) \in Seq(ByteValue)
  BY <1>1 DEF ToBytes
<1> QED
  BY <1>2, <1>3 DEF Object

(* Padding with a function of the number of missing bytes: its length and  *)
(* its bytes.                                                              *)
LEMMA Padded ==
  ASSUME NEW v \in Object
  PROVE  /\ SignPad(v) \in Seq(ByteValue) /\ ZeroPad(v) \in Seq(ByteValue)
         /\ Len(SignPad(v)) = 8 /\ Len(ZeroPad(v)) = 8
         /\ \A k \in 1 .. Len(v) : SignPad(v)[k] = v[k] /\ ZeroPad(v)[k] = v[k]
         /\ \A k \in Len(v) + 1 .. 8 :
              /\ SignPad(v)[k] = IF v[Len(v)] >= 128 THEN 255 ELSE 0
              /\ ZeroPad(v)[k] = 0
<1>1. v \in Seq(ByteValue) /\ Len(v) \in 1 .. 8 /\ 8 - Len(v) \in Nat
  <2>1. v \in Seq(ByteValue) /\ Len(v) \in 1 .. 8
    BY DEF Object, Widths
  <2>2. \A l \in 1 .. 8 : 8 - l \in Nat
    OBVIOUS
  <2> QED
    BY <2>1, <2>2
<1> DEFINE sign  == [k \in 1 .. 8 - Len(v) |-> IF v[Len(v)] >= 128 THEN 255 ELSE 0]
           zeros == [k \in 1 .. 8 - Len(v) |-> 0]
<1>2. \A k \in 1 .. 8 - Len(v) : sign[k] = (IF v[Len(v)] >= 128 THEN 255 ELSE 0) /\ zeros[k] = 0
  OBVIOUS
<1>3. sign \in Seq(ByteValue) /\ zeros \in Seq(ByteValue)
  BY <1>1 DEF ByteValue
<1>4. Len(sign) = 8 - Len(v) /\ Len(zeros) = 8 - Len(v)
  BY <1>1
<1>5. SignPad(v) = v \o sign /\ ZeroPad(v) = v \o zeros
  BY DEF SignPad, ZeroPad
<1> HIDE DEF sign, zeros
<1> QED
  BY <1>1, <1>2, <1>3, <1>4, <1>5

LEMMA SameBytes ==
  ASSUME NEW s \in Seq(ByteValue), NEW t \in Seq(ByteValue), Len(s) = 8, Len(t) = 8,
         \A k \in 1 .. 8 : s[k] = t[k]
  PROVE  s = t
OBVIOUS

(* A signed number that is written with to_bytes and read by convert is    *)
(* the number it was, in any width that it fits into.                      *)
THEOREM SignedSurvives ==
  \A n \in Object : \A width \in Widths :
    width <= Len(n) /\ FitsSigned(n, width) => Integer(ToBytes(n, width)) = SignPad(n)
<1> SUFFICES ASSUME NEW n \in Object, NEW width \in Widths,
                    width <= Len(n), FitsSigned(n, width)
             PROVE  Integer(ToBytes(n, width)) = SignPad(n)
  OBVIOUS
<1>1. PICK v : v = ToBytes(n, width)
  OBVIOUS
<1>2. v \in Object /\ Len(v) = width /\ \A k \in 1 .. width : v[k] = n[k]
  BY <1>1, LowestBytes
<1>3. width \in 1 .. 8 /\ Len(n) \in 1 .. 8
  BY DEF Object, Widths
<1>4. Integer(v) = SignPad(v)
  BY <1>2 DEF Integer
<1>5. /\ SignPad(v) \in Seq(ByteValue) /\ SignPad(n) \in Seq(ByteValue)
      /\ Len(SignPad(v)) = 8 /\ Len(SignPad(n)) = 8
      /\ \A k \in 1 .. width : SignPad(v)[k] = v[k]
      /\ \A k \in width + 1 .. 8 : SignPad(v)[k] = IF v[width] >= 128 THEN 255 ELSE 0
      /\ \A k \in 1 .. Len(n) : SignPad(n)[k] = n[k]
      /\ \A k \in Len(n) + 1 .. 8 : SignPad(n)[k] = IF n[Len(n)] >= 128 THEN 255 ELSE 0
  BY <1>2, Padded
<1>6. v[width] = n[width]
  BY <1>2, <1>3
<1>7. \A k \in width + 1 .. Len(n) : n[k] = IF n[width] >= 128 THEN 255 ELSE 0
  BY DEF FitsSigned
<1>8. (n[Len(n)] >= 128) <=> (n[width] >= 128)
  <2>1. CASE width = Len(n)
    BY <2>1
  <2>2. CASE width < Len(n)
    BY <2>2, <1>3, <1>7
  <2> QED
    BY <2>1, <2>2, <1>3
<1>9. ASSUME NEW k \in 1 .. 8
      PROVE  SignPad(v)[k] = SignPad(n)[k]
  <2>1. CASE k <= width
    BY <2>1, <1>2, <1>3, <1>5
  <2>2. CASE k > width /\ k <= Len(n)
    BY <2>2, <1>3, <1>5, <1>6, <1>7
  <2>3. CASE k > Len(n)
    BY <2>3, <1>3, <1>5, <1>6, <1>8
  <2> QED
    BY <2>1, <2>2, <2>3, <1>3
<1> QED
  BY <1>1, <1>4, <1>5, <1>9, SameBytes

(* The same of an unsigned number.                                         *)
THEOREM UnsignedSurvives ==
  \A n \in Object : \A width \in Widths :
    width <= Len(n) /\ FitsUnsigned(n, width) => UnsignedInteger(ToBytes(n, width)) = ZeroPad(n)
<1> SUFFICES ASSUME NEW n \in Object, NEW width \in Widths,
                    width <= Len(n), FitsUnsigned(n, width)
             PROVE  UnsignedInteger(ToBytes(n, width)) = ZeroPad(n)
  OBVIOUS
<1>1. PICK v : v = ToBytes(n, width)
  OBVIOUS
<1>2. v \in Object /\ Len(v) = width /\ \A k \in 1 .. width : v[k] = n[k]
  BY <1>1, LowestBytes
<1>3. width \in 1 .. 8 /\ Len(n) \in 1 .. 8
  BY DEF Object, Widths
<1>4. UnsignedInteger(v) = ZeroPad(v)
  BY <1>2 DEF UnsignedInteger
<1>5. /\ ZeroPad(v) \in Seq(ByteValue) /\ ZeroPad(n) \in Seq(ByteValue)
      /\ Len(ZeroPad(v)) = 8 /\ Len(ZeroPad(n)) = 8
      /\ \A k \in 1 .. width : ZeroPad(v)[k] = v[k]
      /\ \A k \in width + 1 .. 8 : ZeroPad(v)[k] = 0
      /\ \A k \in 1 .. Len(n) : ZeroPad(n)[k] = n[k]
      /\ \A k \in Len(n) + 1 .. 8 : ZeroPad(n)[k] = 0
  BY <1>2, Padded
<1>6. \A k \in width + 1 .. Len(n) : n[k] = 0
  BY DEF FitsUnsigned
<1>7. ASSUME NEW k \in 1 .. 8
      PROVE  ZeroPad(v)[k] = ZeroPad(n)[k]
  <2>1. CASE k <= width
    BY <2>1, <1>2, <1>3, <1>5
  <2>2. CASE k > width /\ k <= Len(n)
    BY <2>2, <1>3, <1>5, <1>6
  <2>3. CASE k > Len(n)
    BY <2>3, <1>3, <1>5
  <2> QED
    BY <2>1, <2>2, <2>3, <1>3
<1> QED
  BY <1>1, <1>4, <1>5, <1>7, SameBytes
-----------------------------------------------------------------------------
(* Interpretation: first what Joined and FlattenSeq compute, which are     *)
(* recursive functions, by induction over how far they have got.           *)

(* What the function in Joined is at n, when it is g below; there is one.  *)
Step(g, M, n) == IF n = 0 THEN {<<>>} ELSE Joins(g[n - 1], M[n])

LEMMA JoinedExists ==
  ASSUME NEW M, NEW N \in Nat
  PROVE  \E g : g = [n \in 0 .. N |-> Step(g, M, n)]
<1> DEFINE S == {n \in Nat : \E g : g = [j \in 0 .. n |-> Step(g, M, j)]}
<1>1. 0 \in S
  <2> DEFINE g == [j \in 0 .. 0 |-> {<<>>}]
  <2>1. g = [j \in 0 .. 0 |-> Step(g, M, j)]
    BY DEF Step
  <2> QED BY <2>1
<1>2. ASSUME NEW n \in S PROVE n + 1 \in S
  <2>1. PICK g : g = [j \in 0 .. n |-> Step(g, M, j)]
    OBVIOUS
  <2> DEFINE h == [j \in 0 .. n + 1 |-> IF j = n + 1 THEN Step(g, M, n + 1) ELSE g[j]]
  <2>2. ASSUME NEW j \in 0 .. n + 1 PROVE h[j] = Step(h, M, j)
    <3>1. n \in Nat /\ (j = 0 \/ j - 1 \in 0 .. n)
      OBVIOUS
    <3>2. j # 0 => h[j - 1] = g[j - 1]
      BY <3>1
    <3>3. Step(h, M, j) = Step(g, M, j)
      BY <3>2 DEF Step
    <3>4. CASE j = n + 1
      BY <3>3, <3>4
    <3>5. CASE j # n + 1
      <4>1. j \in 0 .. n
        BY <3>1, <3>5
      <4>2. g[j] = Step(g, M, j)
        BY <2>1, <4>1
      <4> QED BY <4>2, <3>3, <3>5
    <3> QED BY <3>4, <3>5
  <2> HIDE DEF h
  <2>3. h = [j \in 0 .. n + 1 |-> h[j]]
    BY DEF h
  <2>4. h = [j \in 0 .. n + 1 |-> Step(h, M, j)]
    BY <2>2, <2>3
  <2> QED BY <2>4
<1>3. S = Nat
  <2> HIDE DEF S
  <2>1. S \in SUBSET Nat
    BY DEF S
  <2> QED BY <1>1, <1>2, <2>1, FromZero
<1> QED BY <1>3

(* The first k sets joined: those before, and one of the last.             *)
LEMMA JoinedUnfolds ==
  ASSUME NEW M, NEW N \in Nat, DOMAIN M = 1 .. N
  PROVE  /\ Joined(M, 0) = {<<>>}
         /\ \A n \in 1 .. N : Joined(M, n) = Joins(Joined(M, n - 1), M[n])
<1> DEFINE F(u) == u = [n \in {0} \cup DOMAIN M |->
                         IF n = 0 THEN {<<>>} ELSE Joins(u[n - 1], M[n])]
           upTo == CHOOSE u : F(u)
<1>1. {0} \cup DOMAIN M = 0 .. N
  OBVIOUS
<1>2. F(upTo)
  <2>1. PICK g : g = [n \in 0 .. N |-> Step(g, M, n)]
    BY JoinedExists
  <2>2. F(g)
    BY <1>1, <2>1 DEF Step
  <2> HIDE DEF F
  <2> QED BY <2>2
<1>3. \A n : Joined(M, n) = upTo[n]
  BY DEF Joined
<1> HIDE DEF upTo
<1>4. upTo[0] = {<<>>}
  BY <1>1, <1>2
<1>5. ASSUME NEW n \in 1 .. N PROVE upTo[n] = Joins(upTo[n - 1], M[n])
  <2>1. n \in {0} \cup DOMAIN M /\ n # 0
    BY <1>1
  <2>2. upTo = [k \in {0} \cup DOMAIN M |-> IF k = 0 THEN {<<>>} ELSE Joins(upTo[k - 1], M[k])]
    BY <1>2
  <2>3. upTo[n] = IF n = 0 THEN {<<>>} ELSE Joins(upTo[n - 1], M[n])
    BY <2>1, <2>2, Zenon
  <2> QED BY <2>1, <2>3
<1> QED BY <1>3, <1>4, <1>5

LEMMA InJoins ==
  ASSUME NEW A, NEW B, NEW a \in A, NEW b \in B
  PROVE  a \o b \in Joins(A, B)
BY DEF Joins

(* One of each set, flattened, is among the joined sets.                   *)
LEMMA FlattenIsJoined ==
  ASSUME NEW R, NEW N \in Nat \ {0}, NEW M, DOMAIN M = 1 .. N,
         NEW P \in [1 .. N -> Seq(R)], \A k \in 1 .. N : P[k] \in M[k]
  PROVE  FlattenSeq(P) \in Joined(M, N) \cap Seq(R)
<1> DEFINE F(u) == u = [k \in 1 .. Len(P) |-> IF k = 1 THEN P[k] ELSE u[k - 1] \o P[k]]
           flatten == CHOOSE u : F(u)
<1>1. Len(P) = N
  OBVIOUS
<1>2. F(flatten)
  <2>1. PICK g : g = [k \in 1 .. N |-> Grow(g, P, k)]
    BY FlattenExists
  <2>2. F(g)
    BY <1>1, <2>1 DEF Grow
  <2> HIDE DEF F
  <2> QED BY <2>2
<1>3. FlattenSeq(P) = flatten[N]
  BY <1>1 DEF FlattenSeq
<1> HIDE DEF flatten
<1>4. ASSUME NEW k \in 1 .. N
      PROVE  flatten[k] = IF k = 1 THEN P[k] ELSE flatten[k - 1] \o P[k]
  <2>1. flatten = [j \in 1 .. Len(P) |-> IF j = 1 THEN P[j] ELSE flatten[j - 1] \o P[j]]
    BY <1>2
  <2>2. k \in 1 .. Len(P)
    BY <1>1
  <2> QED BY <2>1, <2>2, Zenon
<1> HIDE DEF F
<1> DEFINE S == {n \in Nat : n \in 1 .. N => flatten[n] \in Joined(M, n) \cap Seq(R)}
<1>5. 0 \in S
  OBVIOUS
<1>6. ASSUME NEW n \in S PROVE n + 1 \in S
  <2>0. n \in Nat
    OBVIOUS
  <2> SUFFICES ASSUME n + 1 \in 1 .. N
               PROVE  flatten[n + 1] \in Joined(M, n + 1) \cap Seq(R)
    OBVIOUS
  <2>1. P[n + 1] \in Seq(R) /\ P[n + 1] \in M[n + 1]
    OBVIOUS
  <2>2. Joined(M, n + 1) = Joins(Joined(M, n), M[n + 1])
    <3>1. (n + 1) - 1 = n
      BY <2>0
    <3> QED BY JoinedUnfolds, <3>1
  <2>3. CASE n = 0
    <3>1. flatten[n + 1] = P[n + 1]
      BY <1>4, <2>3
    <3>2. <<>> \in Joined(M, n)
      BY <2>3, JoinedUnfolds
    <3>3. P[n + 1] = <<>> \o P[n + 1]
      BY <2>1
    <3>4. <<>> \o P[n + 1] \in Joins(Joined(M, n), M[n + 1])
      BY <2>1, <3>2, InJoins
    <3>5. P[n + 1] \in Joined(M, n + 1)
      BY <2>2, <3>3, <3>4
    <3> QED BY <2>1, <3>1, <3>5
  <2>4. CASE n # 0
    <3>1. n \in 1 .. N
      BY <2>0, <2>4
    <3>2. flatten[n] \in Joined(M, n) /\ flatten[n] \in Seq(R)
      BY <3>1
    <3>3. flatten[n + 1] = flatten[n] \o P[n + 1]
      <4>1. n + 1 # 1 /\ (n + 1) - 1 = n
        BY <2>0, <2>4
      <4> QED BY <1>4, <4>1
    <3>4. flatten[n] \o P[n + 1] \in Seq(R)
      BY <2>1, <3>2
    <3>5. flatten[n] \o P[n + 1] \in Joins(Joined(M, n), M[n + 1])
      BY <2>1, <3>2, InJoins
    <3> QED BY <2>2, <3>3, <3>4, <3>5
  <2> QED BY <2>3, <2>4
<1>7. S = Nat
  <2> HIDE DEF S
  <2>1. S \in SUBSET Nat
    BY DEF S
  <2> QED BY <1>5, <1>6, <2>1, FromZero
<1> HIDE DEF S
<1>8. N \in S /\ N \in 1 .. N
  BY <1>7
<1>9. flatten[N] \in Joined(M, N) \cap Seq(R)
  BY <1>8 DEF S
<1> QED BY <1>3, <1>9

LEMMA EightElements ==
  ASSUME NEW S, NEW s \in Seq(S), Len(s) = 8
  PROVE  s \in [1 .. 8 -> S]
<1>1. ASSUME NEW k \in 1 .. 8 PROVE s[k] \in S
  <2>1. k \in Nat \ {0} /\ k <= Len(s)
    OBVIOUS
  <2> QED BY <2>1, Element
<1>2. s = [k \in 1 .. 8 |-> s[k]]
  OBVIOUS
<1> QED BY <1>1, <1>2

(* convert makes a number of eight bytes, or none, of whatever it is given. *)
LEMMA EightBytes ==
  ASSUME NEW v \in Bytes
  PROVE  /\ Integer(v) \in [1 .. 8 -> 0 .. 255] /\ UnsignedInteger(v) \in [1 .. 8 -> 0 .. 255]
         /\ Float(v) \in Bytes
<1>1. CASE Len(v) \in Widths
  <2>1. v \in Object
    BY <1>1 DEF Object, Bytes, ByteValue
  <2>2. /\ SignPad(v) \in Seq(0 .. 255) /\ Len(SignPad(v)) = 8
        /\ ZeroPad(v) \in Seq(0 .. 255) /\ Len(ZeroPad(v)) = 8
    BY <2>1, Padded DEF ByteValue
  <2>3. \A s \in Seq(0 .. 255) : Len(s) = 8 => s \in [1 .. 8 -> 0 .. 255]
    BY EightElements, Zenon
  <2> QED BY <1>1, <2>2, <2>3 DEF Integer, UnsignedInteger, Float, Bytes
<1>2. CASE Len(v) \notin Widths
  <2>1. ZeroPad(<<>>) \in [1 .. 8 -> 0 .. 255]
    <3>1. 8 - Len(<<>>) = 8
      <4>1. Len(<<>>) = 0
        OBVIOUS
      <4> QED BY <4>1
    <3>2. [k \in 1 .. 8 - Len(<<>>) |-> 0] = [k \in 1 .. 8 |-> 0]
      BY <3>1
    <3>3. [k \in 1 .. 8 |-> 0] \in Seq(0 .. 255)
      OBVIOUS
    <3>4. <<>> \o [k \in 1 .. 8 |-> 0] = [k \in 1 .. 8 |-> 0]
      BY <3>3
    <3> QED BY <3>2, <3>4 DEF ZeroPad
  <2>2. <<>> \in Bytes
    BY DEF Bytes
  <2> QED BY <1>2, <2>1, <2>2 DEF Integer, UnsignedInteger, Float
<1> QED BY <1>1, <1>2

(* as_variant makes variants.                                              *)
LEMMA MakesVariants ==
  ASSUME NEW type \in Type, NEW v \in Bytes
  PROVE  AsVariant(type, v) \subseteq Variant
<1>1. CASE type = "STRING" \/ type = "BYTES"
  BY <1>1 DEF AsVariant, Variant
<1>2. CASE type = "INTEGER" \/ type = "UNSIGNED_INTEGER" \/ type = "FLOAT"
  BY <1>2, EightBytes DEF AsVariant, Variant
<1>3. CASE type = "BOOL"
  <2>1. (IF v[1] \in {0, 1} THEN {v[1] = 1} ELSE BOOLEAN) \subseteq BOOLEAN
    <3>1. (v[1] = 1) \in BOOLEAN
      BY Zenon
    <3> QED BY <3>1, Zenon
  <2>2. AsVariant(type, v)
          = {[is |-> "bool", of |-> x] : x \in IF v[1] \in {0, 1} THEN {v[1] = 1} ELSE BOOLEAN}
    BY <1>3 DEF AsVariant
  <2>3. \A B \in SUBSET BOOLEAN : {[is |-> "bool", of |-> x] : x \in B} \subseteq Variant
    BY DEF Variant
  <2> QED BY <2>1, <2>2, <2>3, Zenon
<1>4. CASE type = "UNDEFINED"
  BY <1>4, InputAssumption DEF AsVariant, Variant
<1> QED BY <1>1, <1>2, <1>3, <1>4 DEF Type

LEMMA WiderElements ==
  ASSUME NEW S, NEW T, S \subseteq T, NEW s \in Seq(S)
  PROVE  s \in Seq(T)
OBVIOUS

(* A leaf gives results, of any field of a packet that it can read.        *)
LEMMA LeafGivesResults ==
  ASSUME NEW p \in Packets, NEW k \in 1 .. Len(p), NEW l \in Leaf,
         l.type = "BOOL" => p[k].value # <<>>
  PROVE  InterpretLeaf(l, p[k].value) \subseteq Seq(Result)
<1>1. PICK q \in Seq([name : FieldName, value : Seq(Byte)]) : q = p
  BY InputAssumption
<1>2. p[k] \in [name : FieldName, value : Seq(Byte)] /\ k \in DOMAIN p
  <2>1. k \in Nat \ {0} /\ k <= Len(q) /\ DOMAIN q = 1 .. Len(q)
    BY <1>1
  <2>2. q[k] \in [name : FieldName, value : Seq(Byte)]
    BY <2>1, Element
  <2> QED BY <1>1, <2>1, <2>2
<1>3. p[k].value \in Bytes
  <2>1. p[k].value \in Seq(Byte)
    BY <1>2
  <2>2. PICK w : w = p[k].value
    OBVIOUS
  <2>3. w \in Seq(Byte)
    BY <2>1, <2>2
  <2>4. Byte \subseteq 0 .. 255
    BY ByteAssumption
  <2>5. PICK S : S = 0 .. 255
    OBVIOUS
  <2>6. Byte \subseteq S
    BY <2>4, <2>5
  <2>7. w \in Seq(S)
    BY <2>3, <2>6, WiderElements
  <2> QED BY <2>2, <2>5, <2>7 DEF Bytes
<1>4. l.name \in FieldName /\ l.type \in Type /\ l.mapper \in Mapper \cup {NoMapper}
  BY DEF Leaf
<1>5. ASSUME NEW x \in AsVariant(l.type, p[k].value)
      PROVE  (IF l.mapper # NoMapper THEN Map(l.mapper, x) ELSE <<[name |-> l.name, value |-> x]>>)
               \in Seq(Result)
  <2>1. x \in Variant
    BY <1>3, <1>4, MakesVariants
  <2>2. CASE l.mapper # NoMapper
    BY <1>2, <1>4, <2>1, <2>2, MapAssumption
  <2>3. CASE l.mapper = NoMapper
    <3>1. [name |-> l.name, value |-> x] \in Result
      BY <1>4, <2>1 DEF Result
    <3> QED BY <2>3, <3>1
  <2> QED BY <2>2, <2>3
<1> QED BY <1>5 DEF InterpretLeaf

-----------------------------------------------------------------------------
(* What an interpreter has, and what it has made of the packet so far.     *)
Configured ==
  /\ alive \in BOOLEAN
  /\ fields = [i \in Interpreter |-> fields[i]]
  /\ behaves \in [Interpreter -> [mode : Silent \cup Reporting, callback : BOOLEAN]]
  /\ \A i \in Interpreter :
       /\ DOMAIN fields[i] \subseteq FieldName
       /\ \A n \in DOMAIN fields[i] : fields[i][n] \in Seq(Leaf) \ {<<>>}

(* What the first k fields of p mean with the given interpretations.       *)
MayMean(known, mode, p, k) ==
  Joined([n \in DOMAIN p |-> MeaningOfField(known, mode, p[n])], k)

RunOK(known, mode, r) ==
  \/ r \in {Idle, Returned, Threw}
  \/ /\ r.at = "running" /\ r.packet \in Packets
     /\ r.next \in 1 .. Len(r.packet) + 1
     /\ r.results \in Seq(Result)
     /\ r.results \in MayMean(known, mode, r.packet, r.next - 1)

SoFar == \A i \in Interpreter : RunOK(fields[i], behaves[i].mode, run[i])

LEMMA PacketIsSequence ==
  ASSUME NEW p \in Packets
  PROVE  Len(p) \in Nat /\ DOMAIN p = 1 .. Len(p)
BY InputAssumption

(* Only the owner of an interpreter changes what it is configured with.    *)
LEMMA ConfiguredKept == Configured /\ [Next]_vars => Configured'
<1> SUFFICES ASSUME Configured, [Next]_vars PROVE Configured'
  OBVIOUS
<1>1. CASE UNCHANGED <<alive, fields, behaves>>
  BY <1>1 DEF Configured
<1>2. ASSUME NEW i \in Interpreter, NEW f \in Interpretations, AddField(i, f)
      PROVE  Configured'
  <2>1. f.name \in FieldName /\ f.leaves \in Seq(Leaf) \ {<<>>}
    BY InputAssumption DEF FieldInterpretation
  <2> DEFINE after == [n \in DOMAIN fields[i] \cup {f.name} |->
                         IF n \in DOMAIN fields[i] THEN fields[i][n] ELSE f.leaves]
  <2>2. /\ DOMAIN after \subseteq FieldName
        /\ \A n \in DOMAIN after : after[n] \in Seq(Leaf) \ {<<>>}
    BY <2>1 DEF Configured
  <2>3. fields' = [fields EXCEPT ![i] = after] /\ UNCHANGED <<alive, behaves>>
    BY <1>2 DEF AddField
  <2> HIDE DEF after
  <2> QED BY <2>2, <2>3 DEF Configured
<1>3. ASSUME NEW i \in Interpreter, NEW mode \in Silent \cup Reporting, NEW callback \in BOOLEAN,
             SetBehaviors(i, mode, callback)
      PROVE  Configured'
  BY <1>3 DEF SetBehaviors, Configured
<1>4. ASSUME NEW i \in Interpreter, DereferenceNull(i) PROVE Configured'
  BY <1>4 DEF DereferenceNull, Configured
<1> QED BY <1>1, <1>2, <1>3, <1>4
        DEF Next, OwnerStep, FieldStep, InterpretPacketData, InterpretField, MapperThrows, Skip,
            SkipAndWarnOnce, EmptyString, Dash, ThrowOnce, CallBack, Continue, Throw, Return, vars

(* A packet of which nothing has been read yet, and one more field of it.  *)
LEMMA StartsEmpty ==
  ASSUME NEW p \in Packets, NEW known, NEW mode
  PROVE  RunOK(known, mode, Running(p, 1, <<>>))
<1>1. Joined([n \in DOMAIN p |-> MeaningOfField(known, mode, p[n])], 0) = {<<>>}
  BY PacketIsSequence, JoinedUnfolds
<1>2. <<>> \in MayMean(known, mode, p, 1 - 1)
  BY <1>1 DEF MayMean
<1>3. 1 \in 1 .. Len(p) + 1
  BY PacketIsSequence
<1> QED BY <1>2, <1>3 DEF RunOK, Running

LEMMA OneMoreField ==
  ASSUME NEW p \in Packets, NEW known, NEW mode, NEW k \in 1 .. Len(p),
         NEW a \in Seq(Result), a \in MayMean(known, mode, p, k - 1),
         NEW b \in Seq(Result), b \in MeaningOfField(known, mode, p[k])
  PROVE  RunOK(known, mode, Running(p, k + 1, a \o b))
<1> DEFINE M == [n \in DOMAIN p |-> MeaningOfField(known, mode, p[n])]
<1>1. DOMAIN M = 1 .. Len(p) /\ Len(p) \in Nat /\ M[k] = MeaningOfField(known, mode, p[k])
  BY PacketIsSequence
<1>2. \A j : MayMean(known, mode, p, j) = Joined(M, j)
  BY DEF MayMean
<1> HIDE DEF M
<1>3. Joined(M, k) = Joins(Joined(M, k - 1), M[k])
  BY <1>1, JoinedUnfolds
<1>4. a \o b \in MayMean(known, mode, p, k)
  BY <1>1, <1>2, <1>3, InJoins
<1>5. k + 1 \in 1 .. Len(p) + 1 /\ (k + 1) - 1 = k
  BY <1>1
<1>6. a \o b \in Seq(Result)
  OBVIOUS
<1> QED BY <1>4, <1>5, <1>6 DEF RunOK, Running

(* The step of a field appends one of its meanings.                        *)
LEMMA FieldAppends ==
  ASSUME Configured, WalksPacket, SoFar, NEW i \in Interpreter, AtField(i), NEW b, Continue(i, b),
         b \in Seq(Result), b \in MeaningOfField(fields[i], behaves[i].mode, Field(i))
  PROVE  RunOK(fields[i], behaves[i].mode, run'[i])
<1> DEFINE r == run[i]
<1>1. r.at = "running" /\ r.next <= Len(r.packet)
  BY DEF AtField
<1>2. /\ r.packet \in Packets /\ r.next \in 1 .. Len(r.packet) + 1
      /\ r.results \in Seq(Result)
      /\ r.results \in MayMean(fields[i], behaves[i].mode, r.packet, r.next - 1)
  BY <1>1 DEF SoFar, RunOK, Idle, Returned, Threw
<1>3. r.next \in 1 .. Len(r.packet)
  <2>1. Len(r.packet) \in Nat
    BY <1>2, PacketIsSequence
  <2> QED BY <1>1, <1>2, <2>1
<1>4. Field(i) = r.packet[r.next]
  BY DEF Field
<1>5. run'[i] = Running(r.packet, r.next + 1, r.results \o b)
  BY DEF Continue, WalksPacket
<1> HIDE DEF r
<1> QED BY <1>2, <1>3, <1>4, <1>5, OneMoreField

(* A field with an interpretation gives results, all its leaves in order.  *)
LEMMA FieldGivesLeaves ==
  ASSUME Configured, WalksPacket, SoFar, NEW i \in Interpreter, InterpretField(i)
  PROVE  RunOK(fields[i], behaves[i].mode, run'[i])
<1> DEFINE leaves == LeavesOf(i)
           of(k) == InterpretLeaf(leaves[k], Field(i).value)
           M == [k \in DOMAIN leaves |-> of(k)]
<1>1. AtField(i) /\ Field(i).name \in DOMAIN fields[i] /\ ~ReadsNothing(i)
  BY DEF InterpretField, HasField
<1>2. leaves \in Seq(Leaf) /\ leaves # <<>>
  BY <1>1 DEF Configured, LeavesOf
<1>3. PICK N : N = Len(leaves) /\ N \in Nat \ {0} /\ DOMAIN leaves = 1 .. N
  BY <1>2
<1>4. PICK parts \in [DOMAIN leaves -> UNION {of(k) : k \in DOMAIN leaves}] :
        (\A k \in DOMAIN leaves : parts[k] \in of(k)) /\ Continue(i, FlattenSeq(parts))
  BY DEF InterpretField
<1>5. ASSUME NEW k \in DOMAIN leaves PROVE of(k) \subseteq Seq(Result)
  <2>1. PICK p, n, l : p = run[i].packet /\ n = run[i].next /\ l = leaves[k]
    OBVIOUS
  <2>2. p \in Packets /\ n \in Nat \ {0} /\ n <= Len(p) /\ Field(i) = p[n]
    BY <1>1, <2>1 DEF AtField, WalksPacket, Field
  <2>3. n \in 1 .. Len(p)
    BY <2>2, PacketIsSequence
  <2>4. l \in Leaf
    BY <1>2, <1>3, <2>1, Element
  <2>5. l.type = "BOOL" => p[n].value # <<>>
    BY <1>1, <2>1, <2>2 DEF ReadsNothing
  <2>6. InterpretLeaf(l, p[n].value) \subseteq Seq(Result)
    BY <2>2, <2>3, <2>4, <2>5, LeafGivesResults
  <2> QED BY <2>1, <2>2, <2>6
<1>6. DOMAIN M = 1 .. N /\ \A k \in 1 .. N : M[k] = of(k)
  BY <1>3
<1>7. MeaningOfField(fields[i], behaves[i].mode, Field(i)) = Joined(M, N)
  BY <1>1, <1>3 DEF MeaningOfField, LeavesOf
<1> HIDE DEF leaves, of, M
<1>8. \A k \in 1 .. N : parts[k] \in Seq(Result) /\ parts[k] \in M[k]
  BY <1>3, <1>4, <1>5, <1>6
<1>9. parts \in [1 .. N -> Seq(Result)]
  BY <1>3, <1>4, <1>8
<1>10. FlattenSeq(parts) \in Joined(M, N) \cap Seq(Result)
  BY <1>3, <1>6, <1>8, <1>9, FlattenIsJoined
<1> QED BY <1>1, <1>4, <1>7, <1>10, FieldAppends

(* A field without one gives what the mode says, or nothing.               *)
LEMMA MissingGives ==
  ASSUME Configured, WalksPacket, SoFar, NEW i \in Interpreter, NEW b, Continue(i, b),
         AtField(i), ~HasField(i),
         \/ b = <<>> /\ behaves[i].mode \notin {"EMPTY_STRING", "DASH"}
         \/ b = Text(i, <<>>) /\ behaves[i].mode = "EMPTY_STRING"
         \/ b = Text(i, << 45 >>) /\ behaves[i].mode = "DASH"
  PROVE  RunOK(fields[i], behaves[i].mode, run'[i])
<1>1. b \in MeaningOfField(fields[i], behaves[i].mode, Field(i))
  BY DEF MeaningOfField, HasField, Text
<1>2. b \in Seq(Result)
  <2>1. ASSUME NEW t \in Bytes PROVE Text(i, t) \in Seq(Result)
    <3>1. PICK x : x = [name |-> Field(i).name, value |-> [is |-> "string", of |-> t]]
      OBVIOUS
    <3>2. x \in Result
      BY <3>1, FieldIsNamed DEF Result, Variant
    <3> QED BY <3>1, <3>2 DEF Text
  <2>2. <<>> \in Bytes /\ <<45>> \in Bytes /\ <<>> \in Seq(Result)
    BY DEF Bytes
  <2> QED BY <2>1, <2>2
<1> QED BY <1>1, <1>2, FieldAppends

(* Owners change nothing while a packet is interpreted; a field appends    *)
(* what it means; and no step touches another interpreter.                 *)
LEMMA SoFarKept == Configured /\ WalksPacket /\ SoFar /\ [Next]_vars => SoFar'
<1> SUFFICES ASSUME Configured, WalksPacket, SoFar, [Next]_vars PROVE SoFar'
  OBVIOUS
<1>1. CASE UNCHANGED <<fields, behaves, run>>
  BY <1>1 DEF SoFar
<1>2. ASSUME NEW i \in Interpreter,
             \A j \in Interpreter \ {i} :
               fields'[j] = fields[j] /\ behaves'[j] = behaves[j] /\ run'[j] = run[j],
             RunOK(fields'[i], behaves'[i].mode, run'[i])
      PROVE  SoFar'
  <2>1. ASSUME NEW j \in Interpreter PROVE RunOK(fields'[j], behaves'[j].mode, run'[j])
    <3>1. CASE j = i
      BY <1>2, <3>1
    <3>2. CASE j # i
      <4>1. fields'[j] = fields[j] /\ behaves'[j] = behaves[j] /\ run'[j] = run[j]
        BY <1>2, <3>2
      <4>2. RunOK(fields[j], behaves[j].mode, run[j])
        BY DEF SoFar
      <4> QED BY <4>1, <4>2
    <3> QED BY <3>1, <3>2
  <2> QED BY <2>1 DEF SoFar
<1>3. ASSUME NEW i \in Interpreter, run[i].at # "running", run'[i] = run[i]
      PROVE  RunOK(fields'[i], behaves'[i].mode, run'[i])
  BY <1>3 DEF SoFar, RunOK
<1>4. ASSUME NEW i \in Interpreter, OwnerStep(i) PROVE SoFar'
  <2>1. CASE \E f \in Interpretations : AddField(i, f)
    BY <1>2, <1>3, <2>1 DEF AddField, Configured
  <2>2. CASE \E mode \in Silent \cup Reporting, callback \in BOOLEAN : SetBehaviors(i, mode, callback)
    BY <1>2, <1>3, <2>2 DEF SetBehaviors, Configured
  <2>3. ASSUME NEW p \in Packets, InterpretPacketData(i, p) PROVE SoFar'
    <3>1. run' = [run EXCEPT ![i] = Running(p, 1, <<>>)] /\ UNCHANGED <<fields, behaves>>
      BY <2>3 DEF InterpretPacketData
    <3>2. run'[i] = Running(p, 1, <<>>) /\ \A j \in Interpreter \ {i} : run'[j] = run[j]
      BY <3>1 DEF WalksPacket
    <3> QED BY <1>2, <3>1, <3>2, StartsEmpty
  <2> QED BY <1>4, <2>1, <2>2, <2>3 DEF OwnerStep
<1>5. ASSUME NEW i \in Interpreter, NEW r, r \in {Returned, Threw},
             run' = [run EXCEPT ![i] = r], UNCHANGED <<fields, behaves>>
      PROVE  SoFar'
  <2>1. run'[i] = r /\ \A j \in Interpreter \ {i} : run'[j] = run[j]
    BY <1>5 DEF WalksPacket
  <2>2. RunOK(fields'[i], behaves'[i].mode, run'[i])
    BY <1>5, <2>1 DEF RunOK
  <2> QED BY <1>2, <1>5, <2>1, <2>2
<1>6. ASSUME NEW i \in Interpreter, NEW b, Continue(i, b),
             RunOK(fields[i], behaves[i].mode, run'[i])
      PROVE  SoFar'
  <2>1. UNCHANGED <<fields, behaves>> /\ \A j \in Interpreter \ {i} : run'[j] = run[j]
    BY <1>6 DEF Continue, WalksPacket
  <2> QED BY <1>2, <1>6, <2>1
<1>7. ASSUME NEW i \in Interpreter, FieldStep(i) \/ Return(i) PROVE SoFar'
  <2>1. CASE InterpretField(i)
    <3>1. \E b : Continue(i, b)
      BY <2>1 DEF InterpretField
    <3> QED BY <1>6, <2>1, <3>1, FieldGivesLeaves
  <2>2. CASE DereferenceNull(i)
    BY <1>1, <2>2 DEF DereferenceNull
  <2>3. CASE Skip(i) \/ SkipAndWarnOnce(i)
    BY <1>6, <2>3, MissingGives DEF Skip, SkipAndWarnOnce, Missing
  <2>4. CASE EmptyString(i) \/ Dash(i)
    BY <1>6, <2>4, MissingGives DEF EmptyString, Dash, Missing
  <2>5. CASE ThrowOnce(i) \/ CallBack(i)
    <3>1. CASE Throw(i)
      BY <1>5, <3>1 DEF Throw
    <3>2. CASE Continue(i, <<>>)
      BY <1>6, <2>5, <3>2, MissingGives DEF ThrowOnce, CallBack, Missing
    <3> QED BY <2>5, <3>1, <3>2 DEF ThrowOnce, CallBack
  <2>6. CASE Return(i) \/ MapperThrows(i)
    BY <1>5, <2>6 DEF Return, MapperThrows, Throw
  <2> QED BY <1>7, <2>1, <2>2, <2>3, <2>4, <2>5, <2>6 DEF FieldStep
<1> QED BY <1>1, <1>4, <1>7 DEF Next, vars

LEMMA InterpreterInit == Init => Configured /\ SoFar
<1> SUFFICES ASSUME Init PROVE Configured /\ SoFar
  OBVIOUS
<1>1. Configured
  <2>1. [mode |-> "SKIP_AND_WARN_ONCE", callback |-> FALSE]
          \in [mode : Silent \cup Reporting, callback : BOOLEAN]
    BY DEF Silent, Reporting
  <2> QED BY <2>1 DEF Init, Configured
<1>2. SoFar
  BY DEF Init, SoFar, RunOK
<1> QED BY <1>1, <1>2

(* The variables of the interpreters and of utils::once have the types     *)
(* that GenericPacketInterpreter.hpp and InterpretationResult.hpp give     *)
(* them; results above all, which leaves and mappers make.                 *)
THEOREM InterpreterTypes == Spec => []TypeOK
<1>1. ASSUME Configured, SoFar, KeysReported PROVE TypeOK
  <2>1. ASSUME NEW i \in Interpreter
        PROVE  \/ run[i] \in {Idle, Returned, Threw}
               \/ /\ run[i].at = "running" /\ run[i].packet \in Packets
                  /\ run[i].next \in 1 .. Len(run[i].packet) + 1
                  /\ run[i].results \in Seq(Result)
    BY <1>1 DEF SoFar, RunOK
  <2>2. ASSUME NEW i \in Interpreter PROVE told[i] \in [Report -> Nat]
    BY <1>1 DEF KeysReported
  <2>3. onceSet \subseteq {OnceKey(i, r) : i \in Interpreter, r \in Report}
    BY <1>1 DEF KeysReported
  <2>4. ASSUME NEW i \in Interpreter
        PROVE  /\ DOMAIN fields[i] \subseteq FieldName
               /\ \A n \in DOMAIN fields[i] : fields[i][n] \in Seq(Leaf) \ {<<>>}
               /\ behaves[i] \in [mode : Silent \cup Reporting, callback : BOOLEAN]
    BY <1>1 DEF Configured
  <2> QED BY <1>1, <2>1, <2>2, <2>3, <2>4 DEF TypeOK, Configured
<1> QED BY <1>1, WalksPacketInit, WalksPacketKept, KeysReportedInit, KeysReportedKept,
           InterpreterInit, ConfiguredKept, SoFarKept, PTL DEF Spec

(* Every field of a packet contributes once and in its place, whatever the *)
(* other interpreters do meanwhile (the loops of interpretPacketData and   *)
(* handleSubFields).                                                       *)
THEOREM FieldsMeanThePacket == Spec => []MeansThePacket
<1>1. SoFar => MeansThePacket
  BY DEF SoFar, RunOK, MeansThePacket, Meaning, MayMean, Idle, Returned, Threw
<1> QED BY <1>1, WalksPacketInit, WalksPacketKept, InterpreterInit, ConfiguredKept, SoFarKept,
           PTL DEF Spec
=============================================================================
