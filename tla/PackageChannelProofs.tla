------------------------- MODULE PackageChannelProofs -------------------------
(***************************************************************************)
(* Proofs about PackageChannel, for any publishers, clients, links, topics *)
(* and capacities.                                                         *)
(***************************************************************************)
EXTENDS PackageChannel, FlattenProofs

LEMMA MinIsLeast ==
  ASSUME NEW S \in SUBSET Int, NEW m \in S, \A k \in S : m <= k
  PROVE  Min(S) = m
<1>1. \E x \in S : \A y \in S : x =< y
  OBVIOUS
<1>2. Min(S) \in S /\ \A y \in S : Min(S) =< y
  BY <1>1 DEF Min
<1>3. PICK x : x = Min(S)
  OBVIOUS
<1>4. x \in Int /\ m \in Int /\ x =< m /\ m =< x
  BY <1>2, <1>3
<1> QED BY <1>3, <1>4

(* A header whose protocol name has no bar is read as it was sent, be it   *)
(* with a source or without one, and whatever is in the source             *)
(* (makeHeaderMessage, receiveSubscribed).                                 *)
THEOREM HeaderRoundTrip ==
  ASSUME NEW h \in Header, Bar \in Nat,
         \A k \in DOMAIN h.protocol_name : h.protocol_name[k] # Bar
  PROVE  Split(Text(h)) = h
<1> DEFINE n == h.protocol_name
           s == h.source
           t == n \o <<Bar>> \o s
<1>1. n \in Seq(Nat) /\ s \in Seq(Nat) /\ h = [protocol_name |-> n, source |-> s]
  BY DEF Header
<1>2. CASE s = <<>>
  <2>1. Text(h) = n /\ Bars(n) = {}
    BY <1>2 DEF Text, Bars
  <2> QED BY <1>1, <1>2, <2>1 DEF Split
<1>3. CASE s # <<>>
  <2>1. Text(h) = t /\ t \in Seq(Nat) /\ Len(t) = Len(n) + 1 + Len(s)
    BY <1>1, <1>3 DEF Text
  <2>2. t[Len(n) + 1] = Bar /\ \A k \in 1 .. Len(n) : t[k] # Bar
    BY <1>1
  <2>3. Bars(t) \subseteq Int /\ Len(n) + 1 \in Bars(t) /\ \A k \in Bars(t) : Len(n) + 1 <= k
    BY <1>1, <2>1, <2>2 DEF Bars
  <2>4. Min(Bars(t)) = Len(n) + 1
    BY <2>3, MinIsLeast
  <2>5. SubSeq(t, 1, Len(n)) = n
    BY <1>1
  <2>6. SubSeq(t, Len(n) + 2, Len(t)) = s
    BY <1>1
  <2>7. Min(Bars(t)) - 1 = Len(n) /\ Min(Bars(t)) + 1 = Len(n) + 2
    BY <1>1, <2>4
  <2>8. Bars(t) # {}
    BY <2>3
  <2> QED BY <1>1, <2>1, <2>5, <2>6, <2>7, <2>8, Zenon DEF Split
<1> QED BY <1>2, <1>3
-----------------------------------------------------------------------------
(* The sender of a link has learned nothing unless both ends are up.       *)
KnownWhileUp == \A l \in Link : known[l] # {} => {l[1], l[2]} \subseteq up

IInv == TypeOK /\ KnownWhileUp

(* What TypeOK says of the pipes.                                          *)
Filled(pipes) ==
  /\ pipes \in [Link -> Seq(Sent)]
  /\ \A l \in Link : Len(pipes[l]) <= HighWater(l) /\ (pipes[l] # <<>> => l[2] \in up)

LEMMA InitInv == Init => IInv
<1> SUFFICES ASSUME Init PROVE IInv
  OBVIOUS
<1>1. \A l \in Link : Len(pipe[l]) = 0 /\ 0 <= HighWater(l)
  BY HighWaterAssumption DEF Init
<1> QED BY <1>1 DEF Init, IInv, TypeOK, KnownWhileUp

(* A message that is sent goes to pipes with room whose receiver is up.    *)
LEMMA SentFromKeepsPipes ==
  ASSUME KnownWhileUp, NEW n, NEW message \in Sent, NEW pipes, Filled(pipes)
  PROVE  Filled(SentFrom(n, message, pipes))
<1>1. ASSUME NEW l \in Link
      PROVE  /\ SentFrom(n, message, pipes)[l] \in Seq(Sent)
             /\ Len(SentFrom(n, message, pipes)[l]) <= HighWater(l)
             /\ SentFrom(n, message, pipes)[l] # <<>> => l[2] \in up
  <2>1. /\ HighWater(l) \in Nat /\ Len(pipes[l]) \in Nat /\ pipes[l] \in Seq(Sent)
        /\ Len(pipes[l]) <= HighWater(l)
        /\ pipes[l] # <<>> => l[2] \in up
    BY HighWaterAssumption DEF Filled
  <2>2. CASE Matching(l, message.text) # {} /\ Len(pipes[l]) < HighWater(l) /\ l[1] = n
    <3>1. SentFrom(n, message, pipes)[l] = Append(pipes[l], message)
      BY <2>2 DEF SentFrom
    <3>2. l[2] \in up
      BY <2>2 DEF Matching, KnownWhileUp
    <3> QED BY <2>1, <2>2, <3>1, <3>2
  <2>3. CASE ~(Matching(l, message.text) # {} /\ Len(pipes[l]) < HighWater(l) /\ l[1] = n)
    <3>1. SentFrom(n, message, pipes)[l] = pipes[l]
      BY <2>3 DEF SentFrom
    <3> QED BY <2>1, <3>1
  <2> QED BY <2>2, <2>3
<1>2. SentFrom(n, message, pipes) = [l \in Link |-> SentFrom(n, message, pipes)[l]]
  BY DEF SentFrom
<1> QED BY <1>1, <1>2, Zenon DEF Filled

(* Without its first message a pipe is still one of TypeOK.                *)
LEMMA TailKeepsPipes ==
  ASSUME TypeOK, NEW l \in Link, pipe[l] # <<>>
  PROVE  Head(pipe[l]) \in Sent /\ Filled([pipe EXCEPT ![l] = Tail(@)])
<1> DEFINE pipes == [pipe EXCEPT ![l] = Tail(@)]
<1>1. pipe[l] \in Seq(Sent) /\ pipe \in [Link -> Seq(Sent)]
  BY DEF TypeOK
<1>2. /\ Head(pipe[l]) \in Sent /\ Tail(pipe[l]) \in Seq(Sent)
      /\ Len(Tail(pipe[l])) <= Len(pipe[l]) /\ Len(Tail(pipe[l])) \in Nat /\ Len(pipe[l]) \in Nat
  BY <1>1
<1>3. pipes \in [Link -> Seq(Sent)]
  BY <1>1, <1>2
<1>4. ASSUME NEW k \in Link
      PROVE  /\ Len(pipes[k]) <= HighWater(k)
             /\ pipes[k] # <<>> => k[2] \in up
  <2>1. HighWater(k) \in Nat
    BY HighWaterAssumption
  <2>2. CASE k = l
    BY <1>1, <1>2, <2>1, <2>2 DEF TypeOK
  <2>3. CASE k # l
    BY <1>1, <2>3 DEF TypeOK
  <2> QED BY <2>2, <2>3
<1> QED BY <1>2, <1>3, <1>4 DEF Filled

(* What is before the last of a sequence.                                  *)
LEMMA FrontAndLast ==
  ASSUME NEW S, NEW s \in Seq(S), s # <<>>
  PROVE  /\ Front(s) \in Seq(S) /\ Len(Front(s)) = Len(s) - 1
         /\ Last(s) \in S /\ s = Append(Front(s), Last(s))
<1>1. Len(s) \in Nat \ {0}
  OBVIOUS
<1>2. Front(s) = SubSeq(s, 1, Len(s) - 1) /\ Last(s) = s[Len(s)]
  BY DEF Front, Last
<1>3. Front(s) \in Seq(S) /\ Len(Front(s)) = Len(s) - 1
  <2>1. PICK n \in Nat : n = Len(s) - 1 /\ \A k \in 1 .. n : s[k] \in S
    BY <1>1, ElementOfSeq
  <2>2. /\ SubSeq(s, 1, n) \in Seq(S)
        /\ Len(SubSeq(s, 1, n)) = IF 1 <= n THEN n - 1 + 1 ELSE 0
    BY <2>1, SubSeqProperties
  <2> QED BY <1>2, <2>1, <2>2
<1>4. \A k \in 1 .. Len(s) - 1 : Front(s)[k] = s[k]
  <2>1. \A k \in 1 .. Len(s) - 1 : SubSeq(s, 1, Len(s) - 1)[k] = s[k]
    BY <1>1
  <2> QED BY <1>2, <2>1
<1>5. s = Append(Front(s), Last(s))
  BY <1>1, <1>2, <1>3, <1>4
<1> QED BY <1>1, <1>2, <1>3, <1>5

(* Nor without its last.                                                   *)
LEMMA FrontKeepsPipes ==
  ASSUME TypeOK, NEW l \in Link, pipe[l] # <<>>
  PROVE  Filled([pipe EXCEPT ![l] = Front(@)])
<1> DEFINE pipes == [pipe EXCEPT ![l] = Front(@)]
<1>1. pipe[l] \in Seq(Sent) /\ pipe \in [Link -> Seq(Sent)]
  BY DEF TypeOK
<1>2. /\ Front(pipe[l]) \in Seq(Sent)
      /\ Len(Front(pipe[l])) <= Len(pipe[l]) /\ Len(Front(pipe[l])) \in Nat /\ Len(pipe[l]) \in Nat
  BY <1>1, FrontAndLast, LenProperties
<1>3. pipes \in [Link -> Seq(Sent)]
  BY <1>1, <1>2
<1>4. ASSUME NEW k \in Link
      PROVE  /\ Len(pipes[k]) <= HighWater(k)
             /\ pipes[k] # <<>> => k[2] \in up
  <2>1. HighWater(k) \in Nat
    BY HighWaterAssumption
  <2>2. CASE k = l
    BY <1>1, <1>2, <2>1, <2>2 DEF TypeOK
  <2>3. CASE k # l
    BY <1>1, <2>3 DEF TypeOK
  <2> QED BY <2>2, <2>3
<1> QED BY <1>3, <1>4 DEF Filled

(* A client is given a package as its publisher made it.                   *)
LEMMA OpenedIsPackage ==
  ASSUME NEW m \in Sent
  PROVE  Opened(m) \in Package
<1>1. PICK p \in Publisher : m \in [from : {p}, text : {Text(HeaderOf(p))}, data : Data]
  BY DEF Sent
<1>2. Split(m.text) = HeaderOf(p)
  BY <1>1, HeaderRoundTrip, HeaderAssumption
<1> QED BY <1>1, <1>2 DEF Opened, Package

LEMMA StepInv == IInv /\ [Next]_vars => IInv'
<1> SUFFICES ASSUME IInv, [Next]_vars PROVE IInv'
  OBVIOUS
<1> USE DEF IInv
<1>1. ASSUME NEW n \in Node, Open(n) PROVE IInv'
  BY <1>1 DEF Open, TypeOK, KnownWhileUp
<1>2. ASSUME NEW n \in Node, End(n) PROVE IInv'
  <2>1. up' \subseteq Node /\ topics' \in [Client -> SUBSET Topic]
    BY <1>2 DEF End, TypeOK
  <2>2. known' \in [Link -> SUBSET Topic] /\ pipe' \in [Link -> Seq(Sent)]
    BY <1>2 DEF End, TypeOK
  <2>3. got' \in [Client -> Package \cup {NoPackage}]
    BY <1>2 DEF End, TypeOK
  <2>4. ASSUME NEW l \in Link
        PROVE  /\ Len(pipe'[l]) <= HighWater(l)
               /\ pipe'[l] # <<>> => l[2] \in up'
               /\ known'[l] # {} => {l[1], l[2]} \subseteq up'
    <3>1. CASE n = l[2]
      <4>1. pipe'[l] = <<>> /\ known'[l] = {}
        BY <1>2, <3>1 DEF End
      <4>2. HighWater(l) \in Nat
        BY HighWaterAssumption
      <4> QED BY <4>1, <4>2
    <3>3. CASE n = l[1] /\ n # l[2]
      <4>1. pipe'[l] = pipe[l] /\ known'[l] = {} /\ up' = up \ {n}
        BY <1>2, <3>3 DEF End
      <4> QED BY <3>3, <4>1 DEF TypeOK
    <3>2. CASE n \notin {l[1], l[2]}
      <4>1. pipe'[l] = pipe[l] /\ known'[l] = known[l] /\ up' = up \ {n}
        BY <1>2, <3>2 DEF End
      <4> QED BY <3>2, <4>1 DEF TypeOK, KnownWhileUp
    <3> QED BY <3>1, <3>2, <3>3
  <2> QED BY <2>1, <2>2, <2>3, <2>4 DEF TypeOK, KnownWhileUp
<1>3. ASSUME NEW c \in Client, NEW t \in Topic, Subscribe(c, t) PROVE IInv'
  BY <1>3 DEF Subscribe, TypeOK, KnownWhileUp
<1>4. ASSUME NEW l \in Link, NEW t \in Topic, Learn(l, t) PROVE IInv'
  BY <1>4 DEF Learn, TypeOK, KnownWhileUp
<1>5. ASSUME NEW p \in Publisher, NEW data \in Data, Publish(p, data) PROVE IInv'
  <2>1. [from |-> p, text |-> Text(HeaderOf(p)), data |-> data] \in Sent
    BY DEF Sent
  <2>2. Filled(pipe) /\ UNCHANGED up
    BY <1>5 DEF Publish, TypeOK, Filled
  <2>3. Filled(pipe')
    BY <1>5, <2>1, <2>2, SentFromKeepsPipes DEF Publish
  <2> QED BY <1>5, <2>3 DEF Publish, TypeOK, KnownWhileUp, Filled
<1>6. ASSUME NEW l \in Link, Forward(l) PROVE IInv'
  <2> DEFINE pipes == [pipe EXCEPT ![l] = Tail(@)]
  <2>1. Head(pipe[l]) \in Sent /\ Filled(pipes)
    BY <1>6, TailKeepsPipes DEF Forward
  <2>2. pipe' = SentFrom(Proxy, Head(pipe[l]), pipes)
    BY <1>6 DEF Forward
  <2> HIDE DEF pipes
  <2>3. Filled(pipe')
    BY <2>1, <2>2, SentFromKeepsPipes
  <2> QED BY <1>6, <2>3 DEF Forward, TypeOK, KnownWhileUp, Filled
<1>7. ASSUME NEW l \in Link, Receive(l) PROVE IInv'
  <2>1. Head(pipe[l]) \in Sent /\ Filled(pipe')
    BY <1>7, TailKeepsPipes DEF Receive
  <2>2. got' \in [Client -> Package \cup {NoPackage}]
    BY <1>7, <2>1, OpenedIsPackage DEF Receive, TypeOK
  <2> QED BY <1>7, <2>1, <2>2 DEF Receive, TypeOK, KnownWhileUp, Filled
<1>8. ASSUME NEW l \in Link, Lost(l) PROVE IInv'
  <2>1. Filled(pipe')
    BY <1>8, FrontKeepsPipes DEF Lost
  <2> QED BY <1>8, <2>1 DEF Lost, TypeOK, KnownWhileUp, Filled
<1>9. CASE UNCHANGED vars
  BY <1>9 DEF vars, TypeOK, KnownWhileUp
<1> QED BY <1>1, <1>2, <1>3, <1>4, <1>5, <1>6, <1>7, <1>8, <1>9
        DEF Next, Bind, Connect, StartProxy, Node

(* Whatever is restarted and whenever, a package in a pipe is as a         *)
(* publisher sent it, and the header a client is given is one a publisher  *)
(* has (send, receiveSubscribed).                                          *)
THEOREM TypeCorrect == Spec => []TypeOK
BY InitInv, StepInv, PTL DEF Spec, IInv

-----------------------------------------------------------------------------
(* The packages of one publisher in a pipe.                                *)

Mine(p, messages) ==
  [k \in DOMAIN messages |-> IF messages[k].from = p THEN <<Opened(messages[k])>> ELSE <<>>]

LEMMA MineType ==
  ASSUME NEW p, NEW s \in Seq(Sent)
  PROVE  /\ Mine(p, s) \in [1 .. Len(s) -> Seq(Package)]
         /\ PackagesOf(p, s) = FlattenSeq(Mine(p, s))
         /\ PackagesOf(p, s) \in Seq(Package)
<1>1. ASSUME NEW k \in 1 .. Len(s)
      PROVE  (IF s[k].from = p THEN <<Opened(s[k])>> ELSE <<>>) \in Seq(Package)
  <2>1. Opened(s[k]) \in Package
    BY OpenedIsPackage
  <2> QED BY <2>1
<1>2. Len(s) \in Nat /\ DOMAIN s = 1 .. Len(s)
  OBVIOUS
<1>3. Mine(p, s) \in [1 .. Len(s) -> Seq(Package)]
  BY <1>1, <1>2 DEF Mine
<1>4. FlattenSeq(Mine(p, s)) \in Seq(Package)
  BY <1>2, <1>3, FlattenType
<1> QED BY <1>3, <1>4 DEF PackagesOf, Mine

LEMMA NoneMine ==
  ASSUME NEW p, NEW s \in Seq(Sent), \A k \in DOMAIN s : s[k].from # p
  PROVE  PackagesOf(p, s) = <<>>
<1>1. Mine(p, s) = [k \in 1 .. Len(s) |-> <<>>] /\ Len(s) \in Nat
  BY DEF Mine
<1> QED BY <1>1, MineType, FlattenEmpty

(* A message that comes behind the others.                                 *)
LEMMA OneBehind ==
  ASSUME NEW p, NEW s \in Seq(Sent), NEW m \in Sent
  PROVE  PackagesOf(p, Append(s, m))
           = IF m.from = p THEN Append(PackagesOf(p, s), Opened(m)) ELSE PackagesOf(p, s)
<1>1. PICK n \in Nat, z \in Seq(Sent) : n = Len(s) /\ z = Append(s, m) /\ Len(z) = n + 1
  <2>1. Append(s, m) \in Seq(Sent) /\ Len(Append(s, m)) = Len(s) + 1 /\ Len(s) \in Nat
    BY AppendProperties, LenProperties
  <2> QED BY <2>1
<1>2. /\ Mine(p, s) \in [1 .. n -> Seq(Package)] /\ Mine(p, z) \in [1 .. n + 1 -> Seq(Package)]
      /\ PackagesOf(p, s) = FlattenSeq(Mine(p, s)) /\ PackagesOf(p, z) = FlattenSeq(Mine(p, z))
      /\ PackagesOf(p, s) \in Seq(Package)
  BY <1>1, MineType
<1>3. \A k \in 1 .. n : z[k] = s[k]
  BY <1>1
<1>4. z[n + 1] = m
  BY <1>1
<1>5. \A k \in 1 .. n : Mine(p, z)[k] = Mine(p, s)[k]
  BY <1>1, <1>3 DEF Mine
<1>6. Mine(p, z)[n + 1] = IF m.from = p THEN <<Opened(m)>> ELSE <<>>
  BY <1>1, <1>4 DEF Mine
<1>7. FlattenSeq(Mine(p, z)) = FlattenSeq(Mine(p, s)) \o Mine(p, z)[n + 1]
  BY <1>2, <1>5, FlattenOneMore
<1>8. CASE m.from = p
  <2>1. PICK e \in Package : e = Opened(m)
    BY OpenedIsPackage
  <2>2. PackagesOf(p, z) = PackagesOf(p, s) \o << e >>
    BY <1>2, <1>6, <1>7, <1>8, <2>1
  <2>3. PackagesOf(p, s) \o << e >> = Append(PackagesOf(p, s), e)
    BY <1>2, AppendIsConcat
  <2> QED BY <1>1, <1>8, <2>1, <2>2, <2>3
<1>9. CASE m.from # p
  <2>1. PackagesOf(p, z) = PackagesOf(p, s) \o <<>>
    BY <1>2, <1>6, <1>7, <1>9
  <2> QED BY <1>1, <1>2, <1>9, <2>1, ConcatEmptySeq
<1> QED BY <1>8, <1>9

(* The message that is at the front.                                       *)
LEMMA OneInFront ==
  ASSUME NEW p, NEW s \in Seq(Sent), s # <<>>
  PROVE  /\ Head(s).from = p =>
              PackagesOf(p, s) = << Opened(Head(s)) >> \o PackagesOf(p, Tail(s))
         /\ Head(s).from # p => PackagesOf(p, s) = PackagesOf(p, Tail(s))
<1>1. PICK z \in Seq(Sent), n \in Nat, m \in Nat :
        z = Tail(s) /\ n = Len(z) /\ m = Len(s) /\ m = n + 1
  <2>1. Tail(s) \in Seq(Sent) /\ Len(Tail(s)) = Len(s) - 1
    BY HeadTailProperties
  <2>2. Len(Tail(s)) \in Nat /\ Len(s) \in Nat
    BY <2>1, LenProperties
  <2>3. Len(s) = Len(Tail(s)) + 1
    BY <2>1, <2>2
  <2> QED BY <2>1, <2>2, <2>3
<1>2. /\ Mine(p, s) \in [1 .. m -> Seq(Package)] /\ Mine(p, z) \in [1 .. n -> Seq(Package)]
      /\ PackagesOf(p, s) = FlattenSeq(Mine(p, s)) /\ PackagesOf(p, z) = FlattenSeq(Mine(p, z))
      /\ PackagesOf(p, z) \in Seq(Package)
  BY <1>1, MineType
<1>3. \A k \in 1 .. n : z[k] = s[k + 1] /\ k + 1 \in 1 .. m
  BY <1>1, HeadTailProperties
<1>4. \A k \in 1 .. n : Mine(p, z)[k] = Mine(p, s)[k + 1]
  BY <1>1, <1>3 DEF Mine
<1>5. Splits(Mine(p, s), 1, Mine(p, z))
  BY <1>1, <1>2, <1>4, FlattenRest
<1>6. Mine(p, s)[1] = IF Head(s).from = p THEN << Opened(Head(s)) >> ELSE <<>>
  <2>1. Head(s) = s[1] /\ 1 \in DOMAIN s
    BY <1>1
  <2> QED BY <2>1 DEF Mine
<1>7. PackagesOf(p, s) = Mine(p, s)[1] \o PackagesOf(p, z)
  BY <1>2, <1>5 DEF Splits
<1>8. CASE Head(s).from = p
  BY <1>1, <1>6, <1>7, <1>8
<1>9. CASE Head(s).from # p
  BY <1>1, <1>2, <1>6, <1>7, <1>9, ConcatEmptySeq
<1> QED BY <1>8, <1>9

-----------------------------------------------------------------------------
(* What is left of a sequence.                                             *)

LEMMA ThinnedItself ==
  ASSUME NEW s \in Seq(Package)
  PROVE  Streams!Thinned(s, s)
<1> DEFINE at == [i \in DOMAIN s |-> i]
<1>1. at \in [DOMAIN s -> DOMAIN s] /\ DOMAIN s = 1 .. Len(s)
  OBVIOUS
<1>2. \A i, j \in DOMAIN s : i < j => at[i] < at[j]
  OBVIOUS
<1>3. \A i \in DOMAIN s : s[i] = s[at[i]]
  OBVIOUS
<1> HIDE DEF at
<1> QED BY <1>1, <1>2, <1>3 DEF Streams!Thinned

LEMMA ThinnedToNothing ==
  ASSUME NEW s \in Seq(Package)
  PROVE  Streams!Thinned(<<>>, s)
<1> DEFINE at == [i \in {} |-> 1]
<1>1. at \in [{} -> DOMAIN s] /\ DOMAIN <<>> = {}
  OBVIOUS
<1> QED BY <1>1 DEF Streams!Thinned

LEMMA ThinnedJoin ==
  ASSUME NEW a \in Seq(Package), NEW b \in Seq(Package),
         NEW c \in Seq(Package), NEW d \in Seq(Package),
         Streams!Thinned(a, c), Streams!Thinned(b, d)
  PROVE  Streams!Thinned(Join(a, b), Join(c, d))
<1>1. PICK f \in [DOMAIN a -> DOMAIN c] :
        /\ \A i, j \in DOMAIN a : i < j => f[i] < f[j]
        /\ \A i \in DOMAIN a : a[i] = c[f[i]]
  BY DEF Streams!Thinned
<1>2. PICK g \in [DOMAIN b -> DOMAIN d] :
        /\ \A i, j \in DOMAIN b : i < j => g[i] < g[j]
        /\ \A i \in DOMAIN b : b[i] = d[g[i]]
  BY DEF Streams!Thinned
<1>3. PICK A \in Nat, B \in Nat, C \in Nat, D \in Nat :
        A = Len(a) /\ B = Len(b) /\ C = Len(c) /\ D = Len(d)
  BY LenProperties
<1>4. DOMAIN a = 1 .. A /\ DOMAIN b = 1 .. B /\ DOMAIN c = 1 .. C /\ DOMAIN d = 1 .. D
  BY <1>3, LenProperties
<1>5. PICK t \in Seq(Package), s \in Seq(Package) :
        /\ t = Join(a, b) /\ s = Join(c, d)
        /\ DOMAIN t = 1 .. A + B /\ DOMAIN s = 1 .. C + D
        /\ \A k \in 1 .. A + B : t[k] = IF k <= A THEN a[k] ELSE b[k - A]
        /\ \A k \in 1 .. C + D : s[k] = IF k <= C THEN c[k] ELSE d[k - C]
  <2>1. /\ a \o b \in Seq(Package) /\ Len(a \o b) = A + B
        /\ \A k \in 1 .. A + B : (a \o b)[k] = IF k <= A THEN a[k] ELSE b[k - A]
    BY <1>3, ConcatProperties
  <2>2. /\ c \o d \in Seq(Package) /\ Len(c \o d) = C + D
        /\ \A k \in 1 .. C + D : (c \o d)[k] = IF k <= C THEN c[k] ELSE d[k - C]
    BY <1>3, ConcatProperties
  <2>3. DOMAIN (a \o b) = 1 .. A + B /\ DOMAIN (c \o d) = 1 .. C + D
    BY <2>1, <2>2, LenProperties
  <2> QED BY <2>1, <2>2, <2>3 DEF Join
<1> DEFINE at == [k \in 1 .. A + B |-> IF k <= A THEN f[k] ELSE C + g[k - A]]
<1>6. ASSUME NEW k \in 1 .. A + B, k <= A
      PROVE  at[k] = f[k] /\ at[k] \in 1 .. C /\ k \in 1 .. A
  BY <1>1, <1>4, <1>6
<1>7. ASSUME NEW k \in 1 .. A + B, ~(k <= A)
      PROVE  at[k] = C + g[k - A] /\ g[k - A] \in 1 .. D /\ k - A \in 1 .. B
  BY <1>2, <1>4, <1>7
<1>8. DOMAIN at = 1 .. A + B /\ at = [k \in 1 .. A + B |-> at[k]]
  OBVIOUS
<1> HIDE DEF at
<1>9. ASSUME NEW k \in 1 .. A + B PROVE at[k] \in 1 .. C + D
  <2>1. CASE k <= A
    <3>1. at[k] \in 1 .. C
      BY <1>6, <2>1
    <3> QED BY <3>1
  <2>2. CASE ~(k <= A)
    <3>1. PICK m \in 1 .. D : at[k] = C + m
      BY <1>7, <2>2
    <3> QED BY <3>1
  <2> QED BY <2>1, <2>2
<1>10. at \in [DOMAIN t -> DOMAIN s]
  BY <1>5, <1>8, <1>9
<1>11. ASSUME NEW i \in 1 .. A + B, NEW j \in 1 .. A + B, i < j PROVE at[i] < at[j]
  <2>1. CASE j <= A
    <3>1. i <= A
      BY <1>11, <2>1
    <3>2. i \in DOMAIN a /\ j \in DOMAIN a
      BY <1>4, <1>6, <2>1, <3>1
    <3> QED BY <1>1, <1>6, <1>11, <2>1, <3>1, <3>2
  <2>2. CASE ~(i <= A)
    <3>1. ~(j <= A)
      BY <1>11, <2>2
    <3>2. i - A \in DOMAIN b /\ j - A \in DOMAIN b /\ i - A < j - A
      BY <1>4, <1>7, <1>11, <2>2, <3>1
    <3>3. g[i - A] < g[j - A]
      BY <1>2, <3>2
    <3> QED BY <1>7, <2>2, <3>1, <3>3
  <2>3. CASE i <= A /\ ~(j <= A)
    <3>1. at[i] \in 1 .. C
      BY <1>6, <2>3
    <3>2. PICK m \in 1 .. D : at[j] = C + m
      BY <1>7, <2>3
    <3> QED BY <3>1, <3>2
  <2> QED BY <2>1, <2>2, <2>3
<1>12. ASSUME NEW k \in 1 .. A + B PROVE t[k] = s[at[k]]
  <2>1. CASE k <= A
    <3>1. k \in DOMAIN a /\ t[k] = a[k] /\ at[k] = f[k] /\ at[k] \in 1 .. C + D /\ at[k] <= C
      BY <1>4, <1>5, <1>6, <2>1
    <3>2. s[at[k]] = c[f[k]]
      BY <1>5, <3>1
    <3> QED BY <1>1, <3>1, <3>2
  <2>2. CASE ~(k <= A)
    <3>1. k - A \in DOMAIN b /\ t[k] = b[k - A]
      BY <1>4, <1>5, <1>7, <2>2
    <3>2. at[k] \in 1 .. C + D /\ ~(at[k] <= C) /\ at[k] - C = g[k - A]
      BY <1>7, <1>9, <2>2
    <3>3. s[at[k]] = d[g[k - A]]
      BY <1>5, <3>2
    <3> QED BY <1>2, <3>1, <3>3
  <2> QED BY <2>1, <2>2
<1>13. \A i, j \in DOMAIN t : i < j => at[i] < at[j]
  BY <1>5, <1>11
<1>14. \A i \in DOMAIN t : t[i] = s[at[i]]
  BY <1>5, <1>12
<1> QED BY <1>5, <1>10, <1>13, <1>14 DEF Streams!Thinned

-----------------------------------------------------------------------------
(* What is in a pipe came the way the pipe is on, and what is on its way   *)
(* to a client is what the client asked for.                               *)
Carries(l) ==
  {m \in Sent :
     /\ IF l[1] = Proxy THEN <<m.from, Proxy>> \in Link ELSE m.from = l[1]
     /\ l[2] \in Client => \E t \in topics[l[2]] : IsPrefix(t, m.text)}

OnTheirWay(pipes) == \A l \in Link : pipes[l] \in Seq(Carries(l))

KnownIsWanted == \A l \in Link : l[2] \in Client => known[l] \subseteq topics[l[2]]

Asked == OnTheirWay(pipe) /\ KnownIsWanted

LEMMA LinkEnds ==
  ASSUME NEW l \in Link
  PROVE  /\ l = <<l[1], l[2]>>
         /\ \/ l[1] \in Publisher /\ l[1] # Proxy /\ l[1] \notin Client
            \/ l[1] = Proxy /\ l[2] \in Client
         /\ l[2] \in Client \/ l[2] = Proxy
         /\ l[2] = Proxy => l[2] \notin Client
BY LinkAssumption, NodeAssumption

LEMMA SeqOfMore ==
  ASSUME NEW S, NEW T, S \subseteq T, NEW s \in Seq(S)
  PROVE  s \in Seq(T)
<1>1. \A k \in 1 .. Len(s) : s[k] \in T
  BY ElementOfSeq
<1>2. s = [k \in 1 .. Len(s) |-> s[k]] /\ Len(s) \in Nat
  BY SeqDef, LenProperties
<1> QED BY <1>1, <1>2, IsASeq

LEMMA SentFromOnTheirWay ==
  ASSUME KnownIsWanted, NEW n, NEW message \in Sent, NEW pipes, OnTheirWay(pipes),
         IF n = Proxy THEN <<message.from, Proxy>> \in Link ELSE message.from = n
  PROVE  OnTheirWay(SentFrom(n, message, pipes))
<1> SUFFICES ASSUME NEW l \in Link PROVE SentFrom(n, message, pipes)[l] \in Seq(Carries(l))
  BY DEF OnTheirWay
<1>1. pipes[l] \in Seq(Carries(l))
  BY DEF OnTheirWay
<1>2. CASE l[1] = n /\ Matching(l, message.text) # {} /\ Len(pipes[l]) < HighWater(l)
  <2>1. SentFrom(n, message, pipes)[l] = Append(pipes[l], message)
    BY <1>2 DEF SentFrom
  <2>2. message \in Carries(l)
    BY <1>2 DEF Carries, Matching, KnownIsWanted
  <2> QED BY <1>1, <2>1, <2>2, AppendProperties
<1>3. CASE ~(l[1] = n /\ Matching(l, message.text) # {} /\ Len(pipes[l]) < HighWater(l))
  BY <1>1, <1>3 DEF SentFrom
<1> QED BY <1>2, <1>3

LEMMA TailOnTheirWay ==
  ASSUME TypeOK, OnTheirWay(pipe), NEW l \in Link, pipe[l] # <<>>
  PROVE  Head(pipe[l]) \in Carries(l) /\ OnTheirWay([pipe EXCEPT ![l] = Tail(@)])
<1>1. pipe[l] \in Seq(Carries(l)) /\ pipe \in [Link -> Seq(Sent)]
  BY DEF OnTheirWay, TypeOK
<1>2. Head(pipe[l]) \in Carries(l) /\ Tail(pipe[l]) \in Seq(Carries(l))
  BY <1>1, HeadTailProperties
<1>3. OnTheirWay([pipe EXCEPT ![l] = Tail(@)])
  BY <1>1, <1>2 DEF OnTheirWay
<1> QED BY <1>2, <1>3

LEMMA FrontOnTheirWay ==
  ASSUME TypeOK, OnTheirWay(pipe), NEW l \in Link, pipe[l] # <<>>
  PROVE  OnTheirWay([pipe EXCEPT ![l] = Front(@)])
<1>1. pipe[l] \in Seq(Carries(l)) /\ pipe \in [Link -> Seq(Sent)]
  BY DEF OnTheirWay, TypeOK
<1>2. Front(pipe[l]) \in Seq(Carries(l))
  BY <1>1, FrontAndLast
<1> QED BY <1>1, <1>2 DEF OnTheirWay

LEMMA InitAsked == Init => Asked
<1> SUFFICES ASSUME Init PROVE Asked
  OBVIOUS
<1>1. \A l \in Link : pipe[l] = <<>> /\ known[l] = {}
  BY DEF Init
<1>2. \A l \in Link : pipe[l] \in Seq(Carries(l))
  BY <1>1, EmptySeq
<1> QED BY <1>1, <1>2 DEF Asked, OnTheirWay, KnownIsWanted

LEMMA StepAsked == IInv /\ Asked /\ [Next]_vars => Asked'
<1> SUFFICES ASSUME IInv, Asked, [Next]_vars PROVE Asked'
  OBVIOUS
<1>0. TypeOK
  BY DEF IInv
<1>1. ASSUME NEW n \in Node, Open(n) PROVE Asked'
  BY <1>1 DEF Open, Asked, OnTheirWay, KnownIsWanted, Carries
<1>2. ASSUME NEW n \in Node, End(n) PROVE Asked'
  <2>1. ASSUME NEW l \in Link, l[2] \in Client, n # l[2] PROVE topics'[l[2]] = topics[l[2]]
    BY <1>2, <2>1 DEF End
  <2>2. ASSUME NEW l \in Link PROVE pipe'[l] \in Seq(Carries(l)')
    <3>1. CASE n = l[2]
      <4>1. pipe'[l] = <<>>
        BY <1>2, <3>1 DEF End
      <4> QED BY <4>1
    <3>2. CASE n # l[2]
      <4>1. pipe'[l] = pipe[l]
        BY <1>2, <3>2 DEF End
      <4>2. Carries(l)' = Carries(l)
        BY <2>1, <3>2 DEF Carries
      <4> QED BY <4>1, <4>2 DEF Asked, OnTheirWay
    <3> QED BY <3>1, <3>2
  <2>3. ASSUME NEW l \in Link, l[2] \in Client PROVE known'[l] \subseteq topics'[l[2]]
    <3>1. CASE n \in {l[1], l[2]}
      BY <1>2, <3>1 DEF End
    <3>2. CASE n \notin {l[1], l[2]}
      <4>1. known'[l] = known[l]
        BY <1>2, <3>2 DEF End
      <4> QED BY <2>1, <2>3, <3>2, <4>1 DEF Asked, KnownIsWanted
    <3> QED BY <3>1, <3>2
  <2> QED BY <2>2, <2>3 DEF Asked, OnTheirWay, KnownIsWanted
<1>3. ASSUME NEW c \in Client, NEW t \in Topic, Subscribe(c, t) PROVE Asked'
  <2>1. ASSUME NEW k \in Client PROVE topics[k] \subseteq topics'[k]
    BY <1>0, <1>3 DEF Subscribe, TypeOK
  <2>2. ASSUME NEW l \in Link PROVE pipe'[l] \in Seq(Carries(l)')
    <3>1. Carries(l) \subseteq Carries(l)'
      BY <2>1 DEF Carries
    <3>2. pipe'[l] \in Seq(Carries(l))
      BY <1>3 DEF Subscribe, Asked, OnTheirWay
    <3> HIDE DEF Carries
    <3> QED BY <3>1, <3>2, SeqOfMore
  <2> QED BY <1>3, <2>1, <2>2 DEF Subscribe, Asked, OnTheirWay, KnownIsWanted
<1>4. ASSUME NEW l \in Link, NEW t \in Topic, Learn(l, t) PROVE Asked'
  <2>1. known' \in [Link -> SUBSET Topic] /\ l[2] \in Client => t \in topics[l[2]]
    BY <1>0, <1>4 DEF Learn, TypeOK, Wanted
  <2>2. KnownIsWanted'
    BY <1>0, <1>4, <2>1 DEF Learn, Asked, KnownIsWanted, TypeOK, Wanted
  <2> QED BY <1>4, <2>2 DEF Learn, Asked, OnTheirWay, Carries
<1>5. ASSUME UNCHANGED <<topics, known>>, OnTheirWay(pipe') PROVE Asked'
  BY <1>5 DEF Asked, OnTheirWay, KnownIsWanted, Carries
<1>6. ASSUME NEW p \in Publisher, NEW data \in Data, Publish(p, data) PROVE Asked'
  <2>1. PICK m \in Sent : /\ m = [from |-> p, text |-> Text(HeaderOf(p)), data |-> data]
                          /\ m.from = p /\ p # Proxy
    <3>1. [from |-> p, text |-> Text(HeaderOf(p)), data |-> data] \in Sent
      BY DEF Sent
    <3>2. p # Proxy
      BY NodeAssumption
    <3> QED BY <3>1, <3>2
  <2>2. OnTheirWay(SentFrom(p, m, pipe))
    BY <2>1, SentFromOnTheirWay DEF Asked
  <2> QED BY <1>5, <1>6, <2>1, <2>2 DEF Publish
<1>7. ASSUME NEW l \in Link, Forward(l) PROVE Asked'
  <2>1. l[1] # Proxy /\ l = <<l[1], Proxy>>
    BY <1>7, LinkEnds DEF Forward
  <2>2. PICK m, pipes : /\ m \in Sent /\ m = Head(pipe[l]) /\ m.from = l[1]
                        /\ pipes = [pipe EXCEPT ![l] = Tail(@)]
                        /\ OnTheirWay(pipes)
    BY <1>0, <1>7, <2>1, TailOnTheirWay DEF Forward, Asked, Carries
  <2>3. OnTheirWay(SentFrom(Proxy, m, pipes))
    BY <2>1, <2>2, SentFromOnTheirWay DEF Asked
  <2> QED BY <1>5, <1>7, <2>2, <2>3 DEF Forward
<1>8. ASSUME NEW l \in Link, Receive(l) PROVE Asked'
  <2>1. OnTheirWay(pipe')
    BY <1>0, <1>8, TailOnTheirWay DEF Receive, Asked
  <2> QED BY <1>5, <1>8, <2>1 DEF Receive
<1>9. ASSUME NEW l \in Link, Lost(l) PROVE Asked'
  <2>1. OnTheirWay(pipe')
    BY <1>0, <1>9, FrontOnTheirWay DEF Lost, Asked
  <2> QED BY <1>5, <1>9, <2>1 DEF Lost
<1>10. CASE UNCHANGED vars
  BY <1>10 DEF vars, Asked, OnTheirWay, KnownIsWanted, Carries
<1> QED BY <1>1, <1>2, <1>3, <1>4, <1>6, <1>7, <1>8, <1>9, <1>10
        DEF Next, Bind, Connect, StartProxy, Node

-----------------------------------------------------------------------------
Pipes == [Link -> Seq(Sent)]

(* The stream from a publisher to a client has three parts: the packages   *)
(* behind the proxy, before it, and on a link of the two.                  *)
Beyond(pipes, c, p) == IF <<Proxy, c>> \in Link THEN PackagesOf(p, pipes[<<Proxy, c>>]) ELSE <<>>
Before(pipes, c, p) ==
  IF {<<p, Proxy>>, <<Proxy, c>>} \subseteq Link THEN PackagesOf(p, pipes[<<p, Proxy>>]) ELSE <<>>
Straight(pipes, c, p) == IF <<p, c>> \in Link THEN PackagesOf(p, pipes[<<p, c>>]) ELSE <<>>

LEMMA Parts ==
  ASSUME NEW pipes \in Pipes, NEW c, NEW p
  PROVE  /\ Beyond(pipes, c, p) \in Seq(Package)
         /\ Before(pipes, c, p) \in Seq(Package)
         /\ Straight(pipes, c, p) \in Seq(Package)
         /\ Stream(pipes, c, p) = Join(Join(Beyond(pipes, c, p), Before(pipes, c, p)), Straight(pipes, c, p))
         /\ Stream(pipes, c, p) \in Seq(Package)
<1>1. ASSUME NEW l \in Link PROVE PackagesOf(p, pipes[l]) \in Seq(Package)
  BY MineType DEF Pipes
<1>2. Beyond(pipes, c, p) \in Seq(Package)
  BY <1>1 DEF Beyond
<1>3. Before(pipes, c, p) \in Seq(Package)
  BY <1>1 DEF Before
<1>4. Straight(pipes, c, p) \in Seq(Package)
  BY <1>1 DEF Straight
<1>5. Stream(pipes, c, p) = Join(Join(Beyond(pipes, c, p), Before(pipes, c, p)), Straight(pipes, c, p))
  BY Zenon DEF Stream, Join, Beyond, Before, Straight
<1>6. Stream(pipes, c, p) \in Seq(Package)
  BY <1>2, <1>3, <1>4, <1>5 DEF Join
<1> QED BY <1>2, <1>3, <1>4, <1>5, <1>6

LEMMA StreamsType ==
  ASSUME NEW pipes \in Pipes
  PROVE  /\ StreamsOf(pipes) \in [Client -> [Publisher -> Seq(Package)]]
         /\ \A c \in Client, p \in Publisher : StreamsOf(pipes)[c][p] = Stream(pipes, c, p)
<1>1. \A c \in Client, p \in Publisher : Stream(pipes, c, p) \in Seq(Package)
  BY Parts
<1> QED BY <1>1 DEF StreamsOf

(* A stream none of whose parts changes.                                   *)
Alike(p, s, t) == PackagesOf(p, s) = PackagesOf(p, t)

Untouched(pipes, others, c, p) ==
  \A l \in Link : l[2] \in {c, Proxy} => Alike(p, pipes[l], others[l])

LEMMA SameStream ==
  ASSUME NEW pipes \in Pipes, NEW others \in Pipes, NEW c, NEW p,
         Untouched(pipes, others, c, p)
  PROVE  Stream(pipes, c, p) = Stream(others, c, p)
<1>1. Beyond(pipes, c, p) = Beyond(others, c, p)
  BY DEF Beyond, Untouched, Alike
<1>2. Before(pipes, c, p) = Before(others, c, p)
  BY DEF Before, Untouched, Alike
<1>3. Straight(pipes, c, p) = Straight(others, c, p)
  BY DEF Straight, Untouched, Alike
<1> QED BY <1>1, <1>2, <1>3, Parts

(* A stream parts of which get lost.                                       *)
LEMMA StreamThins ==
  ASSUME NEW pipes \in Pipes, NEW others \in Pipes, NEW c, NEW p,
         Streams!Thinned(Beyond(others, c, p), Beyond(pipes, c, p)),
         Streams!Thinned(Before(others, c, p), Before(pipes, c, p)),
         Streams!Thinned(Straight(others, c, p), Straight(pipes, c, p))
  PROVE  Streams!Thinned(Stream(others, c, p), Stream(pipes, c, p))
<1>1. PICK a \in Seq(Package), b \in Seq(Package), d \in Seq(Package) :
        /\ a = Beyond(pipes, c, p) /\ b = Before(pipes, c, p) /\ d = Straight(pipes, c, p)
        /\ Stream(pipes, c, p) = Join(Join(a, b), d)
  BY Parts
<1>2. PICK e \in Seq(Package), f \in Seq(Package), g \in Seq(Package) :
        /\ e = Beyond(others, c, p) /\ f = Before(others, c, p) /\ g = Straight(others, c, p)
        /\ Stream(others, c, p) = Join(Join(e, f), g)
  BY Parts
<1>3. Streams!Thinned(Join(e, f), Join(a, b))
  BY <1>1, <1>2, ThinnedJoin
<1>4. PICK h \in Seq(Package), k \in Seq(Package) : h = Join(a, b) /\ k = Join(e, f)
  BY ConcatProperties DEF Join
<1>5. Streams!Thinned(Join(k, g), Join(h, d))
  BY <1>1, <1>2, <1>3, <1>4, ThinnedJoin
<1> QED BY <1>1, <1>2, <1>4, <1>5

(* From a publisher to a client there is one way at most.                  *)
LEMMA OneWay ==
  ASSUME NEW c \in Client, NEW p \in Publisher, <<p, Proxy>> \in Link
  PROVE  <<p, c>> \notin Link
BY RouteAssumption

(* What is behind the proxy did not come straight.                         *)
LEMMA NoneBeyond ==
  ASSUME TypeOK, Asked, NEW c \in Client, NEW p \in Publisher, <<p, Proxy>> \notin Link
  PROVE  Beyond(pipe, c, p) = <<>> /\ Before(pipe, c, p) = <<>>
<1>1. ASSUME NEW l \in Link, l = <<Proxy, c>>
      PROVE  PackagesOf(p, pipe[l]) = <<>>
  <2>1. pipe[l] \in Seq(Carries(l)) /\ pipe[l] \in Seq(Sent)
    BY DEF Asked, OnTheirWay, TypeOK
  <2>2. \A k \in 1 .. Len(pipe[l]) : pipe[l][k] \in Carries(l)
    BY <2>1, ElementOfSeq
  <2>3. \A k \in DOMAIN pipe[l] : pipe[l][k].from # p
    BY <1>1, <2>1, <2>2 DEF Carries
  <2> QED BY <2>1, <2>3, NoneMine
<1> QED BY <1>1 DEF Beyond, Before

-----------------------------------------------------------------------------
(* The steps of the channel are steps of the streams, or none.             *)

LEMMA JoinType ==
  ASSUME NEW R, NEW a \in Seq(R), NEW b \in Seq(R)
  PROVE  Join(a, b) \in Seq(R)
BY ConcatProperties DEF Join

LEMMA JoinNothing ==
  ASSUME NEW R, NEW a \in Seq(R)
  PROVE  Join(a, <<>>) = a /\ Join(<<>>, a) = a
BY ConcatEmptySeq DEF Join

LEMMA JoinBehind ==
  ASSUME NEW R, NEW a \in Seq(R), NEW b \in Seq(R), NEW e \in R
  PROVE  Join(a, Append(b, e)) = Append(Join(a, b), e)
<1>1. PICK s \in Seq(R), f \in Seq(R) : s = Join(a, b) /\ f = << e >>
  <2>1. Join(a, b) \in Seq(R)
    BY JoinType
  <2>2. << e >> \in Seq(R)
    OBVIOUS
  <2> QED BY <2>1, <2>2
<1>2. Join(Join(a, b), f) = Join(a, Join(b, f))
  <2>1. \A u, v, w \in Seq(R) : Join(Join(u, v), w) = Join(u, Join(v, w))
    BY Regroup
  <2> QED BY <1>1, <2>1
<1>3. Join(b, f) = Append(b, e) /\ Join(s, f) = Append(s, e)
  BY <1>1, AppendIsConcat DEF Join
<1> QED BY <1>1, <1>2, <1>3

(* There is one package of p more.                                         *)
OneMore(p, s, t, m) == PackagesOf(p, s) = Append(PackagesOf(p, t), Opened(m))

LEMMA SentFromPackages ==
  ASSUME NEW n, NEW m \in Sent, NEW pipes \in Pipes, NEW p, NEW l \in Link
  PROVE  \/ Alike(p, SentFrom(n, m, pipes)[l], pipes[l])
         \/ /\ m.from = p /\ l[1] = n
            /\ OneMore(p, SentFrom(n, m, pipes)[l], pipes[l], m)
<1>1. pipes[l] \in Seq(Sent)
  BY DEF Pipes
<1>2. CASE l[1] = n /\ SentFrom(n, m, pipes)[l] = Append(pipes[l], m)
  BY <1>1, <1>2, OneBehind DEF Alike, OneMore
<1>3. CASE SentFrom(n, m, pipes)[l] = pipes[l]
  BY <1>3 DEF Alike
<1>4. \/ l[1] = n /\ SentFrom(n, m, pipes)[l] = Append(pipes[l], m)
      \/ SentFrom(n, m, pipes)[l] = pipes[l]
  BY DEF SentFrom
<1> QED BY <1>2, <1>3, <1>4

LEMMA PublishStep ==
  ASSUME IInv, IInv', NEW p \in Publisher, NEW data \in Data, Publish(p, data)
  PROVE  \E package \in Package : Streams!Publish(p, package)
<1>1. PICK m \in Sent : /\ m = [from |-> p, text |-> Text(HeaderOf(p)), data |-> data]
                        /\ m.from = p
  <2>1. [from |-> p, text |-> Text(HeaderOf(p)), data |-> data] \in Sent
    BY DEF Sent
  <2> QED BY <2>1
<1>2. PICK e \in Package : e = Opened(m)
  BY OpenedIsPackage
<1>3. pipe \in Pipes /\ pipe' \in Pipes /\ pipe' = SentFrom(p, m, pipe)
  BY <1>1 DEF IInv, TypeOK, Publish, Pipes
<1>4. ASSUME NEW q, NEW l \in Link, q # p \/ l[1] # p
      PROVE  PackagesOf(q, pipe'[l]) = PackagesOf(q, pipe[l])
  <2>1. Alike(q, SentFrom(p, m, pipe)[l], pipe[l])
    <3>1. m.from # q \/ l[1] # p
      BY <1>1, <1>4
    <3> QED BY <1>3, <3>1, SentFromPackages
  <2> QED BY <1>3, <2>1 DEF Alike
<1>5. ASSUME NEW l \in Link
      PROVE  PackagesOf(p, pipe'[l]) = PackagesOf(p, pipe[l])
             \/ PackagesOf(p, pipe'[l]) = Append(PackagesOf(p, pipe[l]), e)
  <2>1. Alike(p, pipe'[l], pipe[l]) \/ OneMore(p, pipe'[l], pipe[l], m)
    BY <1>3, SentFromPackages
  <2> QED BY <1>2, <2>1 DEF Alike, OneMore
<1>6. ASSUME NEW c \in Client, NEW q \in Publisher, q # p
      PROVE  Stream(pipe', c, q) = Stream(pipe, c, q)
  <2>1. Untouched(pipe', pipe, c, q)
    BY <1>4, <1>6 DEF Untouched, Alike
  <2> QED BY <1>3, <2>1, SameStream
<1>7. ASSUME NEW c \in Client
      PROVE  Stream(pipe', c, p) = Stream(pipe, c, p)
             \/ Stream(pipe', c, p) = Append(Stream(pipe, c, p), e)
  <2>1. PICK a \in Seq(Package), b \in Seq(Package), d \in Seq(Package) :
          /\ a = Beyond(pipe, c, p) /\ b = Before(pipe, c, p) /\ d = Straight(pipe, c, p)
          /\ Stream(pipe, c, p) = Join(Join(a, b), d)
    BY <1>3, Parts
  <2>2. PICK x \in Seq(Package), y \in Seq(Package), z \in Seq(Package) :
          /\ x = Beyond(pipe', c, p) /\ y = Before(pipe', c, p) /\ z = Straight(pipe', c, p)
          /\ Stream(pipe', c, p) = Join(Join(x, y), z)
    BY <1>3, Parts
  <2>3. x = a
    <3>1. p # Proxy
      BY NodeAssumption
    <3> QED BY <1>4, <2>1, <2>2, <3>1 DEF Beyond
  <2>4. CASE <<p, Proxy>> \in Link
    <3>1. d = <<>> /\ z = <<>>
      BY <2>1, <2>2, <2>4, OneWay DEF Straight
    <3>2. y = b \/ y = Append(b, e)
      BY <1>5, <2>1, <2>2 DEF Before
    <3>3. Join(a, Append(b, e)) = Append(Join(a, b), e)
      BY JoinBehind
    <3>4. PICK f \in Seq(Package), g \in Seq(Package) : f = Join(a, b) /\ g = Join(x, y)
      BY JoinType
    <3>5. Stream(pipe, c, p) = f /\ Stream(pipe', c, p) = g
      BY <2>1, <2>2, <3>1, <3>4, JoinNothing
    <3> QED BY <2>3, <3>2, <3>3, <3>4, <3>5
  <2>5. CASE <<p, Proxy>> \notin Link
    <3>1. b = y
      BY <2>1, <2>2, <2>5 DEF Before
    <3>2. z = d \/ z = Append(d, e)
      BY <1>5, <2>1, <2>2 DEF Straight
    <3>3. PICK f \in Seq(Package) : f = Join(a, b)
      BY JoinType
    <3>4. Join(f, Append(d, e)) = Append(Join(f, d), e)
      BY JoinBehind
    <3> QED BY <2>1, <2>2, <2>3, <3>1, <3>2, <3>3, <3>4
  <2> QED BY <2>4, <2>5
<1> DEFINE reached == {c \in Client : Stream(pipe', c, p) = Append(Stream(pipe, c, p), e)}
           next == [c \in Client |-> IF c \in reached
                                     THEN [StreamsOf(pipe)[c] EXCEPT ![p] = Append(@, e)]
                                     ELSE StreamsOf(pipe)[c]]
<1>8. /\ StreamsOf(pipe) \in [Client -> [Publisher -> Seq(Package)]]
      /\ StreamsOf(pipe') \in [Client -> [Publisher -> Seq(Package)]]
      /\ \A c \in Client, q \in Publisher : /\ StreamsOf(pipe)[c][q] = Stream(pipe, c, q)
                                            /\ StreamsOf(pipe')[c][q] = Stream(pipe', c, q)
  BY <1>3, StreamsType
<1>9. ASSUME NEW c \in Client PROVE StreamsOf(pipe')[c] = next[c]
  <2>1. CASE c \in reached
    <3>1. StreamsOf(pipe')[c][p] = Append(StreamsOf(pipe)[c][p], e)
      BY <1>8, <2>1
    <3>2. \A q \in Publisher : q # p => StreamsOf(pipe')[c][q] = StreamsOf(pipe)[c][q]
      BY <1>6, <1>8
    <3>3. next[c] = [StreamsOf(pipe)[c] EXCEPT ![p] = Append(@, e)]
      BY <2>1
    <3> HIDE DEF next, reached
    <3>4. StreamsOf(pipe)[c] \in [Publisher -> Seq(Package)]
          /\ StreamsOf(pipe')[c] \in [Publisher -> Seq(Package)]
      BY <1>8
    <3> QED BY <3>1, <3>2, <3>3, <3>4
  <2>2. CASE c \notin reached
    <3>1. \A q \in Publisher : StreamsOf(pipe')[c][q] = StreamsOf(pipe)[c][q]
      BY <1>6, <1>7, <1>8, <2>2
    <3>2. next[c] = StreamsOf(pipe)[c]
      BY <2>2
    <3> HIDE DEF next, reached
    <3> QED BY <1>8, <3>1, <3>2
  <2> QED BY <2>1, <2>2
<1>10. StreamsOf(pipe') = next
  <2>1. next = [c \in Client |-> next[c]]
    OBVIOUS
  <2> HIDE DEF next
  <2> QED BY <1>8, <1>9, <2>1
<1>11. StreamsOf(pipe)' = StreamsOf(pipe')
  BY DEF StreamsOf, Stream, PackagesOf
<1> QED BY <1>10, <1>11 DEF Publish, Streams!Publish

LEMMA Thins ==
  ASSUME pipe \in Pipes, pipe' \in Pipes,
         \A c \in Client, p \in Publisher :
           Streams!Thinned(Stream(pipe', c, p), Stream(pipe, c, p))
  PROVE  Streams!Thin
<1>1. /\ StreamsOf(pipe') \in [Client -> [Publisher -> Seq(Package)]]
      /\ \A c \in Client, q \in Publisher : /\ StreamsOf(pipe)[c][q] = Stream(pipe, c, q)
                                            /\ StreamsOf(pipe')[c][q] = Stream(pipe', c, q)
  BY StreamsType
<1>2. StreamsOf(pipe)' = StreamsOf(pipe')
  BY DEF StreamsOf, Stream, PackagesOf
<1> QED BY <1>1, <1>2, Zenon DEF Streams!Thin

(* Streams get thinner where pipes do.                                     *)
LEMMA PipesThin ==
  ASSUME pipe \in Pipes, pipe' \in Pipes,
         \A l \in Link, p \in Publisher :
           Streams!Thinned(PackagesOf(p, pipe'[l]), PackagesOf(p, pipe[l]))
  PROVE  Streams!Thin
<1>1. Streams!Thinned(<<>>, <<>>)
  <2>1. <<>> \in Seq(Package)
    OBVIOUS
  <2> QED BY <2>1, ThinnedItself
<1> SUFFICES ASSUME NEW c \in Client, NEW p \in Publisher
             PROVE  Streams!Thinned(Stream(pipe', c, p), Stream(pipe, c, p))
  BY Thins
<1>2. Streams!Thinned(Beyond(pipe', c, p), Beyond(pipe, c, p))
  BY <1>1 DEF Beyond
<1>3. Streams!Thinned(Before(pipe', c, p), Before(pipe, c, p))
  BY <1>1 DEF Before
<1>4. Streams!Thinned(Straight(pipe', c, p), Straight(pipe, c, p))
  BY <1>1 DEF Straight
<1> QED BY <1>2, <1>3, <1>4, StreamThins

(* The last message of a pipe gets lost.                                   *)
LEMMA LostStep ==
  ASSUME IInv, IInv', NEW l \in Link, Lost(l)
  PROVE  Streams!Lose
<1>1. pipe \in Pipes /\ pipe' \in Pipes
  BY DEF IInv, TypeOK, Pipes
<1>2. ASSUME NEW k \in Link, NEW p \in Publisher
      PROVE  Streams!Thinned(PackagesOf(p, pipe'[k]), PackagesOf(p, pipe[k]))
  <2>1. PackagesOf(p, pipe[k]) \in Seq(Package) /\ PackagesOf(p, pipe'[k]) \in Seq(Package)
    BY <1>1, MineType DEF Pipes
  <2>2. CASE k # l
    <3>1. pipe'[k] = pipe[k]
      BY <1>1, <2>2 DEF Lost, Pipes
    <3> QED BY <2>1, <3>1, ThinnedItself
  <2>3. CASE k = l
    <3>1. PICK s \in Seq(Sent), m \in Sent :
            s = pipe'[l] /\ pipe[l] = Append(s, m)
      <4>1. pipe'[l] = Front(pipe[l]) /\ pipe[l] \in Seq(Sent) /\ pipe[l] # <<>>
        BY <1>1 DEF Lost, Pipes
      <4> QED BY <4>1, FrontAndLast
    <3>2. PackagesOf(p, pipe[l]) \in {PackagesOf(p, s), Append(PackagesOf(p, s), Opened(m))}
      BY <3>1, OneBehind
    <3>3. CASE PackagesOf(p, pipe[l]) = PackagesOf(p, s)
      BY <2>1, <2>3, <3>1, <3>3, ThinnedItself
    <3>4. CASE PackagesOf(p, pipe[l]) = Append(PackagesOf(p, s), Opened(m))
      <4>1. PICK u \in Seq(Package), f \in Seq(Package), z \in Seq(Package) :
              u = PackagesOf(p, s) /\ f = << Opened(m) >> /\ z = <<>>
        <5>1. << Opened(m) >> \in Seq(Package) /\ <<>> \in Seq(Package)
          BY OpenedIsPackage
        <5> QED BY <2>1, <2>3, <3>1, <5>1
      <4>2. Append(u, Opened(m)) = Join(u, f)
        BY <4>1, OpenedIsPackage, AppendIsConcat DEF Join
      <4>3. Streams!Thinned(Join(u, z), Join(u, f))
        BY <4>1, ThinnedItself, ThinnedToNothing, ThinnedJoin
      <4>4. Join(u, z) = u
        BY <4>1, JoinNothing
      <4> QED BY <2>3, <3>1, <3>4, <4>1, <4>2, <4>3, <4>4
    <3> QED BY <3>2, <3>3, <3>4
  <2> QED BY <2>2, <2>3
<1>3. Streams!Thin
  BY <1>1, <1>2, PipesThin
<1> QED BY <1>3 DEF Lost, Streams!Lose

LEMMA EndStep ==
  ASSUME IInv, IInv', NEW n \in Node, End(n)
  PROVE  Streams!Lose \/ \E c \in Client : Streams!Renew(c)
<1>1. pipe \in Pipes /\ pipe' \in Pipes
  BY DEF IInv, TypeOK, Pipes
<1>2. ASSUME NEW l \in Link, NEW p \in Publisher
      PROVE  Streams!Thinned(PackagesOf(p, pipe'[l]), PackagesOf(p, pipe[l]))
  <2>1. pipe'[l] = pipe[l] \/ pipe'[l] = <<>>
    BY DEF End
  <2>2. PackagesOf(p, pipe[l]) \in Seq(Package)
    BY <1>1, MineType DEF Pipes
  <2>3. PackagesOf(p, <<>>) = <<>>
    <3>1. <<>> \in Seq(Sent) /\ \A k \in DOMAIN <<>> : <<>>[k].from # p
      OBVIOUS
    <3> QED BY <3>1, NoneMine
  <2> QED BY <2>1, <2>2, <2>3, ThinnedItself, ThinnedToNothing
<1>4. Streams!Thin
  BY <1>1, <1>2, PipesThin
<1>5. topics \in [Client -> SUBSET Topic] /\ got \in [Client -> Package \cup {NoPackage}]
  BY DEF IInv, TypeOK
<1>6. CASE n \in Client
  <2>1. topics' = [topics EXCEPT ![n] = {}] /\ got' = [got EXCEPT ![n] = NoPackage]
    BY <1>5, <1>6 DEF End
  <2> QED BY <1>4, <1>6, <2>1 DEF Streams!Renew
<1>7. CASE n \notin Client
  <2>1. UNCHANGED <<topics, got>>
    BY <1>5, <1>7 DEF End
  <2> QED BY <1>4, <2>1 DEF Streams!Lose
<1> QED BY <1>6, <1>7

(* The first message of a pipe, and what it becomes without it.            *)
LEMMA Taken ==
  ASSUME TypeOK, Asked, NEW l \in Link, pipe[l] # <<>>
  PROVE  \E m \in Carries(l), pipes \in Pipes :
           /\ m = Head(pipe[l]) /\ pipes = [pipe EXCEPT ![l] = Tail(@)]
           /\ \A p : \A k \in Link : k # l \/ m.from # p => Alike(p, pipes[k], pipe[k])
           /\ PackagesOf(m.from, pipe[l]) = Join(<< Opened(m) >>, PackagesOf(m.from, pipes[l]))
<1>1. PICK m \in Carries(l), pipes \in Pipes :
        m = Head(pipe[l]) /\ pipes = [pipe EXCEPT ![l] = Tail(@)]
  BY TailOnTheirWay, TailKeepsPipes DEF Asked, Pipes, Filled
<1>2. pipe[l] \in Seq(Sent) /\ pipes[l] = Tail(pipe[l]) /\ \A k \in Link : k # l => pipes[k] = pipe[k]
  BY <1>1 DEF TypeOK
<1>3. \A p : \A k \in Link : k # l \/ m.from # p => Alike(p, pipes[k], pipe[k])
  BY <1>1, <1>2, OneInFront DEF Alike
<1>4. PackagesOf(m.from, pipe[l]) = Join(<< Opened(m) >>, PackagesOf(m.from, pipes[l]))
  BY <1>1, <1>2, OneInFront DEF Join
<1> QED BY <1>1, <1>3, <1>4

LEMMA ForwardStep ==
  ASSUME IInv, Asked, IInv', NEW l \in Link, Forward(l)
  PROVE  Streams!Lose
<1>0. TypeOK /\ pipe \in Pipes /\ pipe' \in Pipes
  BY DEF IInv, TypeOK, Pipes
<1>1. l[2] = Proxy /\ pipe[l] # <<>> /\ l = <<l[1], Proxy>> /\ l[1] \in Publisher /\ l[1] # Proxy
  BY LinkEnds DEF Forward
<1>2. PICK m \in Carries(l), pipes \in Pipes :
        /\ m = Head(pipe[l]) /\ pipes = [pipe EXCEPT ![l] = Tail(@)]
        /\ \A p : \A k \in Link : k # l \/ m.from # p => Alike(p, pipes[k], pipe[k])
        /\ PackagesOf(m.from, pipe[l]) = Join(<< Opened(m) >>, PackagesOf(m.from, pipes[l]))
  BY <1>0, <1>1, Taken
<1>3. m \in Sent /\ m.from = l[1] /\ pipe' = SentFrom(Proxy, m, pipes)
  BY <1>1, <1>2 DEF Carries, Forward
<1>4. PICK e \in Package : e = Opened(m)
  BY <1>3, OpenedIsPackage
<1>5. PICK q \in Publisher : q = m.from
  BY <1>1, <1>3
<1>6. ASSUME NEW p, NEW k \in Link, k[1] # Proxy \/ p # q
      PROVE  Alike(p, pipe'[k], pipes[k])
  <2>1. m.from # p \/ k[1] # Proxy
    BY <1>5, <1>6
  <2>2. \/ Alike(p, SentFrom(Proxy, m, pipes)[k], pipes[k])
        \/ m.from = p /\ k[1] = Proxy /\ OneMore(p, SentFrom(Proxy, m, pipes)[k], pipes[k], m)
    BY <1>3, SentFromPackages
  <2> QED BY <1>3, <2>1, <2>2
<1>7. ASSUME NEW c \in Client, NEW p \in Publisher
      PROVE  Streams!Thinned(Stream(pipe', c, p), Stream(pipe, c, p))
  <2>1. PICK s \in Seq(Package), t \in Seq(Package) : s = Stream(pipe, c, p) /\ t = Stream(pipe', c, p)
    BY <1>0, Parts
  <2>2. CASE s = t
    BY <2>1, <2>2, ThinnedItself
  <2>3. CASE p # q
    <3>1. Untouched(pipe', pipe, c, p)
      BY <1>2, <1>5, <1>6, <2>3 DEF Untouched, Alike
    <3> QED BY <1>0, <2>1, <2>2, <3>1, SameStream
  <2>4. CASE p = q
    <3>0. <<p, Proxy>> = l /\ <<p, c>> \notin Link
      BY <1>1, <1>3, <1>5, <2>4, OneWay
    <3>1. CASE <<Proxy, c>> \notin Link
      <4>1. Beyond(pipe', c, p) = Beyond(pipe, c, p) /\ Before(pipe', c, p) = Before(pipe, c, p)
            /\ Straight(pipe', c, p) = Straight(pipe, c, p)
        BY <3>0, <3>1 DEF Beyond, Before, Straight
      <4> QED BY <1>0, <2>1, <2>2, <4>1, Parts
    <3>2. CASE <<Proxy, c>> \in Link
      <4>1. PICK k \in Link : k = <<Proxy, c>> /\ k # l
        BY <1>1, <3>2
      <4>2. PICK a \in Seq(Package), b \in Seq(Package), f \in Seq(Package) :
              /\ a = PackagesOf(p, pipe[k]) /\ b = PackagesOf(p, pipes[l]) /\ f = << e >>
              /\ Join(f, b) = PackagesOf(p, pipe[l]) /\ Join(f, b) \in Seq(Package)
        <5>1. PackagesOf(p, pipe[k]) \in Seq(Package) /\ PackagesOf(p, pipes[l]) \in Seq(Package)
          BY <1>0, MineType DEF Pipes
        <5>2. << e >> \in Seq(Package)
          OBVIOUS
        <5>3. PICK b \in Seq(Package), f \in Seq(Package) : b = PackagesOf(p, pipes[l]) /\ f = << e >>
          BY <5>1, <5>2
        <5>4. Join(f, b) \in Seq(Package)
          BY JoinType
        <5> QED BY <1>2, <1>4, <1>5, <2>4, <5>1, <5>3, <5>4
      <4>3. s = Join(a, Join(f, b))
        <5>1. Beyond(pipe, c, p) = a /\ Before(pipe, c, p) = Join(f, b) /\ Straight(pipe, c, p) = <<>>
          BY <3>0, <3>2, <4>1, <4>2 DEF Beyond, Before, Straight
        <5>2. PICK u \in Seq(Package), v \in Seq(Package) : u = Join(f, b) /\ v = Join(a, u)
          BY <4>2, JoinType
        <5>3. s = Join(v, <<>>)
          BY <1>0, <2>1, <5>1, <5>2, Parts
        <5> QED BY <5>2, <5>3, JoinNothing
      <4>4. PICK d \in Seq(Package) : d = PackagesOf(p, pipe'[k]) /\ t = Join(d, b)
        <5>1. PICK d \in Seq(Package), v \in Seq(Package) : d = PackagesOf(p, pipe'[k]) /\ v = Join(d, b)
          <6>1. PackagesOf(p, pipe'[k]) \in Seq(Package)
            BY <1>0, MineType DEF Pipes
          <6> QED BY <6>1, JoinType
        <5>2. PackagesOf(p, pipe'[l]) = b
          BY <1>1, <1>6, <4>2 DEF Alike
        <5>3. Beyond(pipe', c, p) = d /\ Before(pipe', c, p) = b /\ Straight(pipe', c, p) = <<>>
          BY <3>0, <3>2, <4>1, <5>1, <5>2 DEF Beyond, Before, Straight
        <5>4. t = Join(v, <<>>)
          BY <1>0, <2>1, <5>1, <5>3, Parts
        <5> QED BY <5>1, <5>4, JoinNothing
      <4>5. d = a \/ d = Append(a, e)
        <5>1. PackagesOf(p, pipes[k]) = a
          BY <1>2, <4>1, <4>2 DEF Alike
        <5>2. Alike(p, pipe'[k], pipes[k]) \/ OneMore(p, pipe'[k], pipes[k], m)
          BY <1>3, SentFromPackages
        <5> QED BY <1>4, <4>4, <5>1, <5>2 DEF Alike, OneMore
      <4>6. CASE d = Append(a, e)
        <5>1. Append(a, e) = Join(a, f)
          BY <4>2, AppendIsConcat DEF Join
        <5>2. Join(Join(a, f), b) = Join(a, Join(f, b))
          <6>1. \A u, v, w \in Seq(Package) : Join(Join(u, v), w) = Join(u, Join(v, w))
            BY Regroup
          <6> QED BY <6>1
        <5> QED BY <2>2, <4>3, <4>4, <4>6, <5>1, <5>2
      <4>7. CASE d = a
        <5>1. PICK u \in Seq(Package), z \in Seq(Package) : u = Join(f, b) /\ z = <<>>
          <6>1. <<>> \in Seq(Package)
            OBVIOUS
          <6> QED BY <4>2, <6>1
        <5>2. Streams!Thinned(Join(z, b), Join(f, b))
          BY <5>1, ThinnedItself, ThinnedToNothing, ThinnedJoin
        <5>3. Streams!Thinned(b, u)
          BY <5>1, <5>2, JoinNothing
        <5>4. Streams!Thinned(Join(a, b), Join(a, u))
          BY <5>3, ThinnedItself, ThinnedJoin
        <5> QED BY <2>1, <4>3, <4>4, <4>7, <5>1, <5>4
      <4> QED BY <4>5, <4>6, <4>7
    <3> QED BY <3>1, <3>2
  <2> QED BY <2>3, <2>4
<1>8. Streams!Thin
  BY <1>0, <1>7, Thins
<1> QED BY <1>8 DEF Forward, Streams!Lose

(* What a client reads is what heads the stream of its publisher.          *)
LEMMA ReceiveStep ==
  ASSUME IInv, Asked, IInv', NEW l \in Link, Receive(l)
  PROVE  \E c \in Client : \E p \in Publisher : Streams!Receive(c, p)
<1>0. TypeOK /\ pipe \in Pipes /\ pipe' \in Pipes
  BY DEF IInv, TypeOK, Pipes
<1>1. PICK c \in Client : l[2] = c /\ c # Proxy /\ l = <<l[1], c>> /\ pipe[l] # <<>>
  BY LinkEnds DEF Receive
<1>2. PICK m \in Carries(l), pipes \in Pipes :
        /\ m = Head(pipe[l]) /\ pipes = [pipe EXCEPT ![l] = Tail(@)]
        /\ \A p : \A k \in Link : k # l \/ m.from # p => Alike(p, pipes[k], pipe[k])
        /\ PackagesOf(m.from, pipe[l]) = Join(<< Opened(m) >>, PackagesOf(m.from, pipes[l]))
  BY <1>0, <1>1, Taken
<1>3. pipes = pipe' /\ got' = [got EXCEPT ![c] = Opened(m)] /\ UNCHANGED topics
  BY <1>1, <1>2 DEF Receive
<1>4. /\ m \in Sent /\ \E t \in topics[c] : IsPrefix(t, m.text)
      /\ IF l[1] = Proxy THEN <<m.from, Proxy>> \in Link ELSE m.from = l[1]
  BY <1>1, <1>2 DEF Carries
<1>5. PICK p \in Publisher : p = m.from /\ m.text = Text(HeaderOf(p))
  BY <1>4 DEF Sent
<1>6. PICK e \in Package : e = Opened(m) /\ e.header = HeaderOf(p)
  <2>1. Opened(m) \in Package
    BY <1>4, OpenedIsPackage
  <2>2. Split(m.text) = HeaderOf(p)
    BY <1>5, HeaderRoundTrip, HeaderAssumption
  <2>3. Opened(m).header = HeaderOf(p)
    BY <2>2 DEF Opened
  <2> QED BY <2>1, <2>3
<1>7. ASSUME NEW d \in Client, NEW q \in Publisher, d # c \/ q # p
      PROVE  Stream(pipe', d, q) = Stream(pipe, d, q)
  <2>1. Untouched(pipe', pipe, d, q)
    BY <1>1, <1>2, <1>3, <1>5, <1>7 DEF Untouched
  <2> QED BY <1>0, <2>1, SameStream
<1>8. PICK f \in Seq(Package), b \in Seq(Package) :
        /\ f = << e >> /\ b = PackagesOf(p, pipe'[l]) /\ PackagesOf(p, pipe[l]) = Join(f, b)
  <2>1. PackagesOf(p, pipe'[l]) \in Seq(Package)
    BY <1>0, MineType DEF Pipes
  <2>2. << e >> \in Seq(Package)
    OBVIOUS
  <2> QED BY <1>2, <1>3, <1>5, <1>6, <2>1, <2>2
<1>9. PICK s \in Seq(Package) : s = Stream(pipe', c, p) /\ Stream(pipe, c, p) = Join(f, s)
  <2>1. PICK u \in Seq(Package), v \in Seq(Package), w \in Seq(Package) :
          /\ u = Beyond(pipe, c, p) /\ v = Before(pipe, c, p) /\ w = Straight(pipe, c, p)
          /\ Stream(pipe, c, p) = Join(Join(u, v), w)
    BY <1>0, Parts
  <2>2. PICK x \in Seq(Package), y \in Seq(Package), z \in Seq(Package), s \in Seq(Package) :
          /\ x = Beyond(pipe', c, p) /\ y = Before(pipe', c, p) /\ z = Straight(pipe', c, p)
          /\ s = Stream(pipe', c, p) /\ s = Join(Join(x, y), z)
    BY <1>0, Parts
  <2>3. y = v
    <3>1. l # <<p, Proxy>>
      BY <1>1
    <3>2. <<p, Proxy>> \in Link => PackagesOf(p, pipe'[<<p, Proxy>>]) = PackagesOf(p, pipe[<<p, Proxy>>])
      BY <1>2, <1>3, <3>1 DEF Alike
    <3> QED BY <2>1, <2>2, <3>2 DEF Before
  <2>4. \A i, j, k \in Seq(Package) : Join(Join(i, j), k) = Join(i, Join(j, k))
    BY Regroup
  <2>5. CASE l[1] = Proxy
    <3>1. u = Join(f, b) /\ x = b
      BY <1>1, <1>8, <2>1, <2>2, <2>5 DEF Beyond
    <3>2. z = w
      <4>1. l # <<p, c>>
        BY <2>5, NodeAssumption
      <4> QED BY <1>2, <1>3, <2>1, <2>2, <4>1 DEF Straight, Alike
    <3>3. PICK g \in Seq(Package), h \in Seq(Package) : g = Join(x, y) /\ h = Join(f, b)
      BY JoinType
    <3>4. Join(h, v) = Join(f, g)
      BY <2>3, <2>4, <3>1, <3>3
    <3>5. Join(Join(f, g), w) = Join(f, Join(g, w))
      BY <2>4
    <3> QED BY <2>1, <2>2, <3>1, <3>2, <3>3, <3>4, <3>5
  <2>6. CASE l[1] # Proxy
    <3>1. l = <<p, c>> /\ <<p, Proxy>> \notin Link
      BY <1>1, <1>4, <1>5, <2>6, OneWay
    <3>2. u = <<>> /\ v = <<>>
      BY <1>0, <2>1, <3>1, NoneBeyond
    <3>3. x = u
      <4>1. l # <<Proxy, c>>
        BY <2>6
      <4> QED BY <1>2, <1>3, <2>1, <2>2, <4>1 DEF Beyond, Alike
    <3>4. w = Join(f, b) /\ z = b
      BY <1>8, <2>1, <2>2, <3>1 DEF Straight
    <3>5. Join(Join(u, v), w) = w /\ Join(Join(x, y), z) = z
      BY <2>3, <3>2, <3>3, JoinNothing
    <3> QED BY <2>1, <2>2, <3>4, <3>5
  <2> QED BY <2>5, <2>6
<1>10. Join(f, s) # <<>> /\ Head(Join(f, s)) = e /\ Tail(Join(f, s)) = s
  BY <1>8 DEF Join
<1>11. /\ StreamsOf(pipe) \in [Client -> [Publisher -> Seq(Package)]]
       /\ StreamsOf(pipe') \in [Client -> [Publisher -> Seq(Package)]]
       /\ \A d \in Client, q \in Publisher : /\ StreamsOf(pipe)[d][q] = Stream(pipe, d, q)
                                             /\ StreamsOf(pipe')[d][q] = Stream(pipe', d, q)
  BY <1>0, StreamsType
<1>12. StreamsOf(pipe)[c][p] # <<>> /\ Head(StreamsOf(pipe)[c][p]) = e
  BY <1>9, <1>10, <1>11
<1>13. \E t \in topics[c] : IsPrefix(t, Text(e.header))
  BY <1>4, <1>5, <1>6
<1>14. StreamsOf(pipe') = [StreamsOf(pipe) EXCEPT ![c][p] = Tail(@)]
  <2>1. PICK S \in [Client -> [Publisher -> Seq(Package)]], T \in [Client -> [Publisher -> Seq(Package)]] :
          S = StreamsOf(pipe) /\ T = StreamsOf(pipe')
    BY <1>11
  <2>2. T[c][p] = Tail(S[c][p])
    BY <1>9, <1>10, <1>11, <2>1
  <2>3. \A d \in Client, q \in Publisher : d # c \/ q # p => T[d][q] = S[d][q]
    BY <1>7, <1>11, <2>1
  <2>4. T = [S EXCEPT ![c][p] = Tail(@)]
    <3> DEFINE U == [S EXCEPT ![c][p] = Tail(@)]
    <3>1. ASSUME NEW d \in Client PROVE T[d] = U[d]
      <4>1. T[d] \in [Publisher -> Seq(Package)] /\ S[d] \in [Publisher -> Seq(Package)]
        OBVIOUS
      <4>2. CASE d = c
        <5>1. U[d] = [S[d] EXCEPT ![p] = Tail(@)]
          BY <4>2
        <5>2. \A q \in Publisher : T[d][q] = U[d][q]
          BY <2>2, <2>3, <4>1, <4>2, <5>1
        <5> HIDE DEF U
        <5> QED BY <4>1, <5>1, <5>2
      <4>3. CASE d # c
        <5>1. U[d] = S[d]
          BY <4>3
        <5>2. \A q \in Publisher : T[d][q] = S[d][q]
          BY <2>3, <4>3
        <5> QED BY <4>1, <5>1, <5>2
      <4> QED BY <4>2, <4>3
    <3>2. DOMAIN U = Client /\ U = [d \in Client |-> U[d]]
      OBVIOUS
    <3> HIDE DEF U
    <3>3. T = U
      BY <3>1, <3>2
    <3> QED BY <3>3 DEF U
  <2> QED BY <2>1, <2>4
<1>15. StreamsOf(pipe)' = StreamsOf(pipe')
  BY DEF StreamsOf, Stream, PackagesOf
<1>16. Streams!Receive(c, p)
  BY <1>3, <1>6, <1>12, <1>13, <1>14, <1>15 DEF Streams!Receive
<1> QED BY <1>16

LEMMA InitStreams == Init => Streams!Init
<1> SUFFICES ASSUME Init PROVE Streams!Init
  OBVIOUS
<1>0. PICK pipes \in Pipes : pipes = pipe
  BY InitInv DEF IInv, TypeOK, Pipes
<1>1. \A l \in Link : pipes[l] = <<>>
  BY <1>0 DEF Init
<1>2. ASSUME NEW c \in Client, NEW p \in Publisher PROVE Stream(pipes, c, p) = <<>>
  <2>1. PackagesOf(p, <<>>) = <<>>
    <3>1. <<>> \in Seq(Sent) /\ \A k \in DOMAIN <<>> : <<>>[k].from # p
      OBVIOUS
    <3> QED BY <3>1, NoneMine
  <2>2. Beyond(pipes, c, p) = <<>> /\ Before(pipes, c, p) = <<>> /\ Straight(pipes, c, p) = <<>>
    BY <1>1, <2>1 DEF Beyond, Before, Straight
  <2>3. <<>> \in Seq(Package)
    OBVIOUS
  <2>4. Join(Join(<<>>, <<>>), <<>>) = <<>>
    BY <2>3, JoinNothing
  <2> QED BY <2>2, <2>4, Parts
<1>3. StreamsOf(pipe) = [c \in Client |-> [p \in Publisher |-> <<>>]]
  BY <1>0, <1>2 DEF StreamsOf
<1> QED BY <1>3 DEF Init, Streams!Init

LEMMA StepStreams ==
  IInv /\ Asked /\ IInv' /\ [Next]_vars => [Streams!Next]_(Streams!vars)
<1> SUFFICES ASSUME IInv, Asked, IInv', [Next]_vars PROVE [Streams!Next]_(Streams!vars)
  OBVIOUS
<1>0. ASSUME UNCHANGED pipe PROVE UNCHANGED StreamsOf(pipe)
  BY <1>0 DEF StreamsOf, Stream, PackagesOf
<1>1. ASSUME UNCHANGED <<topics, pipe, got>> PROVE UNCHANGED Streams!vars
  BY <1>0, <1>1, Zenon DEF Streams!vars
<1>2. ASSUME NEW n \in Node, Open(n) PROVE UNCHANGED Streams!vars
  BY <1>1, <1>2 DEF Open
<1>3. ASSUME NEW n \in Node, End(n) PROVE Streams!Next
  BY <1>3, EndStep DEF Streams!Next
<1>4. ASSUME NEW c \in Client, NEW t \in Topic, Subscribe(c, t) PROVE Streams!Next
  <2>1. Streams!Subscribe(c, t)
    BY <1>0, <1>4, Zenon DEF Subscribe, Streams!Subscribe
  <2> QED BY <2>1 DEF Streams!Next
<1>5. ASSUME NEW l \in Link, NEW t \in Topic, Learn(l, t) PROVE UNCHANGED Streams!vars
  BY <1>1, <1>5 DEF Learn
<1>6. ASSUME NEW p \in Publisher, NEW data \in Data, Publish(p, data) PROVE Streams!Next
  BY <1>6, PublishStep DEF Streams!Next
<1>7. ASSUME NEW l \in Link, Forward(l) PROVE Streams!Next
  BY <1>7, ForwardStep DEF Streams!Next
<1>8. ASSUME NEW l \in Link, Receive(l) PROVE Streams!Next
  BY <1>8, ReceiveStep DEF Streams!Next
<1>9. ASSUME NEW l \in Link, Lost(l) PROVE Streams!Next
  BY <1>9, LostStep DEF Streams!Next
<1>10. CASE UNCHANGED vars
  BY <1>1, <1>10 DEF vars
<1> QED BY <1>2, <1>3, <1>4, <1>5, <1>6, <1>7, <1>8, <1>9, <1>10
        DEF Next, Bind, Connect, StartProxy, Node

(* From a publisher to a client runs one stream of packages, over a proxy  *)
(* too, whatever is restarted, however full the pipes are and whenever     *)
(* subscriptions arrive: packages may be missing, but none is received     *)
(* twice, out of turn, with another header or other data than it was sent  *)
(* with, or without a subscription to its protocol (send,                  *)
(* receiveSubscribed).                                                     *)
THEOREM ChannelIsStreams == Spec => StreamsSpec
<1>1. Spec => [](IInv /\ Asked)
  BY InitInv, StepInv, InitAsked, StepAsked, PTL DEF Spec
<1>2. Spec => Streams!Init /\ [][Streams!Next]_(Streams!vars)
  BY <1>1, InitStreams, StepStreams, PTL DEF Spec
<1> QED BY <1>2 DEF StreamsSpec, Streams!Spec
=============================================================================
