----------------------- MODULE ProtocolDirectoryProofs -----------------------
(***************************************************************************)
(* The directory server's list is its map, as long as the owner adds only  *)
(* before it starts the thread; the listeners of its clients miss nothing  *)
(* that the clients were told; and to its peers the server is one table.   *)
(***************************************************************************)
EXTENDS ProtocolDirectory, FiniteSetTheorems, TLAPS

-----------------------------------------------------------------------------
(* The map.                                                                *)

UniqueKeys(s) == \A i, j \in DOMAIN s : Key(s[i]) = Key(s[j]) => i = j

(* What a table is without the entry of a key.                             *)
Others(S, e) == {d \in S : Key(d) # Key(e)}

LEMMA EntriesOf ==
  ASSUME NEW s \in Seq(Entry)
  PROVE  /\ ToSet(s) \subseteq Entry
         /\ IsFiniteSet(ToSet(s))
<1>1. s \in [1 .. Len(s) -> Entry] /\ Len(s) \in Nat
  OBVIOUS
<1>2. IsFiniteSet(1 .. Len(s))
  BY <1>1, FS_Interval
<1>3. s \in Surjection(1 .. Len(s), ToSet(s))
  BY <1>1 DEF ToSet, Surjection
<1> QED
  BY <1>1, <1>2, <1>3, FS_Surjection DEF ToSet

(* All orders of a finite set are sequences of its elements, each once.    *)
LEMMA Orders ==
  ASSUME NEW S \in SUBSET Entry, IsFiniteSet(S), NEW t \in SetToSeqs(S)
  PROVE  /\ t \in Seq(Entry)
         /\ ToSet(t) = S
         /\ \A i, j \in DOMAIN t : t[i] = t[j] => i = j
<1> DEFINE D == 1 .. Cardinality(S)
<1>1. Cardinality(S) \in Nat
  BY FS_CardinalityType
<1>2. t \in [D -> S] /\ \A i, j \in D : i # j => t[i] # t[j]
  BY DEF SetToSeqs
<1>3. t \in Injection(D, S)
  BY <1>2 DEF Injection, IsInjective
<1>4. IsFiniteSet(D) /\ Cardinality(D) = Cardinality(S)
  BY <1>1, FS_Interval
<1>5. t \in Surjection(D, S)
  BY <1>3, <1>4, FS_Injection
<1>6. ToSet(t) = S
  BY <1>2, <1>5 DEF ToSet, Surjection
<1>7. t \in Seq(Entry)
  BY <1>1, <1>2
<1> QED
  BY <1>2, <1>6, <1>7

(* _protocols[key] = e keeps the others as they are.                       *)
LEMMA Insertion ==
  ASSUME NEW s \in Seq(Entry), NEW e \in Entry, NEW t \in Inserted(s, e)
  PROVE  /\ t \in Seq(Entry)
         /\ ToSet(t) = Others(ToSet(s), e) \cup {e}
         /\ UniqueKeys(s) => UniqueKeys(t)
<1>1. CASE \E i \in DOMAIN s : Key(s[i]) = Key(e)
  <2>1. t = [i \in DOMAIN s |-> IF Key(s[i]) = Key(e) THEN e ELSE s[i]]
    BY <1>1 DEF Inserted
  <2>2. DOMAIN t = DOMAIN s /\ DOMAIN s = 1 .. Len(s)
        /\ \A i \in DOMAIN s : t[i] = IF Key(s[i]) = Key(e) THEN e ELSE s[i]
    BY <2>1
  <2>3. t \in Seq(Entry)
    BY <2>1
  <2>4. \A i \in DOMAIN s : Key(t[i]) = Key(s[i])
    BY <2>2
  <2>5. ToSet(t) = Others(ToSet(s), e) \cup {e}
    BY <1>1, <2>2 DEF ToSet, Others
  <2>6. UniqueKeys(s) => UniqueKeys(t)
    BY <2>2, <2>4 DEF UniqueKeys
  <2> QED
    BY <2>3, <2>5, <2>6
<1>2. CASE ~ \E i \in DOMAIN s : Key(s[i]) = Key(e)
  <2> DEFINE S == ToSet(s) \cup {e}
  <2>1. t \in SetToSeqs(S)
    BY <1>2 DEF Inserted
  <2>2. S \in SUBSET Entry /\ IsFiniteSet(S)
    BY EntriesOf, FS_AddElement
  <2>3. t \in Seq(Entry) /\ ToSet(t) = S /\ \A i, j \in DOMAIN t : t[i] = t[j] => i = j
    BY <2>1, <2>2, Orders
  <2>4. S = Others(ToSet(s), e) \cup {e}
    BY <1>2 DEF ToSet, Others
  <2>5. ASSUME UniqueKeys(s), NEW i \in DOMAIN t, NEW j \in DOMAIN t, Key(t[i]) = Key(t[j])
        PROVE  i = j
    <3>1. t[i] \in S /\ t[j] \in S
      BY <2>3 DEF ToSet
    <3>2. \A c, d \in S : Key(c) = Key(d) => c = d
      BY <1>2, <2>5 DEF ToSet, UniqueKeys
    <3> QED
      BY <2>3, <2>5, <3>1, <3>2
  <2> QED
    BY <2>3, <2>4, <2>5 DEF UniqueKeys
<1> QED
  BY <1>1, <1>2

LEMMA Removal ==
  ASSUME NEW s \in Seq(Entry), NEW i \in 1 .. Len(s)
  PROVE  /\ RemoveAt(s, i) \in Seq(Entry)
         /\ DOMAIN RemoveAt(s, i) = 1 .. Len(s) - 1
         /\ \A j \in 1 .. Len(s) - 1 : RemoveAt(s, i)[j] = IF j < i THEN s[j] ELSE s[j + 1]
<1> DEFINE a == SubSeq(s, 1, i - 1)
           b == SubSeq(s, i + 1, Len(s))
<1>1. a \in Seq(Entry) /\ Len(a) = i - 1 /\ \A j \in 1 .. i - 1 : a[j] = s[j]
  OBVIOUS
<1>2. b \in Seq(Entry) /\ Len(b) = Len(s) - i /\ \A j \in 1 .. Len(s) - i : b[j] = s[i + j]
  OBVIOUS
<1>3. RemoveAt(s, i) = a \o b
  BY DEF RemoveAt
<1> HIDE DEF a, b
<1>4. a \o b \in Seq(Entry) /\ Len(a \o b) = Len(s) - 1
  <2>1. Len(a \o b) = Len(a) + Len(b)
    <3>1. a \in Seq(Entry) /\ b \in Seq(Entry)
      BY <1>1, <1>2
    <3> QED
      BY <3>1
  <2>2. i \in Nat /\ Len(s) \in Nat
    OBVIOUS
  <2>3. a \o b \in Seq(Entry)
    BY <1>1, <1>2
  <2> QED
    BY <1>1, <1>2, <2>1, <2>2, <2>3
<1>5. ASSUME NEW j \in 1 .. Len(s) - 1
      PROVE  (a \o b)[j] = IF j < i THEN s[j] ELSE s[j + 1]
  BY <1>1, <1>2, <1>5
<1> QED
  BY <1>3, <1>4, <1>5

(* erase(key) keeps the others as they are.                                *)
LEMMA Erasure ==
  ASSUME NEW s \in Seq(Entry), NEW e \in Entry
  PROVE  /\ Erased(s, e) \in Seq(Entry)
         /\ UniqueKeys(s) => /\ UniqueKeys(Erased(s, e))
                             /\ ToSet(Erased(s, e)) = Others(ToSet(s), e)
<1>1. CASE \E i \in DOMAIN s : Key(s[i]) = Key(e)
  <2>1. PICK i : i = CHOOSE k \in DOMAIN s : Key(s[k]) = Key(e)
    OBVIOUS
  <2>2. PICK t : t = RemoveAt(s, i)
    OBVIOUS
  <2>3. i \in 1 .. Len(s) /\ Key(s[i]) = Key(e)
    BY <1>1, <2>1
  <2>4. Erased(s, e) = t
    BY <1>1, <2>1, <2>2 DEF Erased
  <2>5. /\ t \in Seq(Entry) /\ DOMAIN t = 1 .. Len(s) - 1
        /\ \A j \in 1 .. Len(s) - 1 : t[j] = IF j < i THEN s[j] ELSE s[j + 1]
    BY <2>2, <2>3, Removal
  <2>6. ASSUME UniqueKeys(s) PROVE UniqueKeys(t)
    <3>1. Len(s) \in Nat /\ i \in Nat /\ DOMAIN s = 1 .. Len(s)
      BY <2>3
    <3>2. ASSUME NEW j \in DOMAIN t, NEW k \in DOMAIN t, Key(t[j]) = Key(t[k]) PROVE j = k
      <4>1. PICK u \in DOMAIN s : t[j] = s[u] /\ u = IF j < i THEN j ELSE j + 1
        BY <2>3, <2>5, <3>1
      <4>2. PICK v \in DOMAIN s : t[k] = s[v] /\ v = IF k < i THEN k ELSE k + 1
        BY <2>3, <2>5, <3>1
      <4>3. u = v
        BY <2>6, <3>2, <4>1, <4>2 DEF UniqueKeys
      <4>4. j \in Nat /\ k \in Nat
        BY <2>5, <3>1
      <4> QED
        BY <3>1, <4>1, <4>2, <4>3, <4>4
    <3> QED
      BY <3>2 DEF UniqueKeys
  <2>7. ASSUME UniqueKeys(s) PROVE ToSet(t) = Others(ToSet(s), e)
    <3>1. \A j \in DOMAIN s : Key(s[j]) = Key(e) => j = i
      BY <2>3, <2>7 DEF UniqueKeys
    <3>2. \A j \in DOMAIN t : \E k \in DOMAIN s : k # i /\ t[j] = s[k]
      BY <2>3, <2>5
    <3>3. \A k \in DOMAIN s : k # i => \E j \in DOMAIN t : t[j] = s[k]
      <4> SUFFICES ASSUME NEW k \in 1 .. Len(s), k # i
                   PROVE  \E j \in DOMAIN t : t[j] = s[k]
        OBVIOUS
      <4>1. CASE k < i
        <5>1. k \in 1 .. Len(s) - 1
          BY <2>3, <4>1
        <5> QED
          BY <2>5, <4>1, <5>1
      <4>2. CASE k > i
        <5>1. k - 1 \in DOMAIN t /\ t[k - 1] = s[k]
          BY <2>3, <2>5, <4>2
        <5> QED
          BY <5>1
      <4> QED
        BY <2>3, <4>1, <4>2
    <3> QED
      BY <2>3, <3>1, <3>2, <3>3 DEF ToSet, Others
  <2> QED
    BY <2>4, <2>5, <2>6, <2>7
<1>2. CASE ~ \E i \in DOMAIN s : Key(s[i]) = Key(e)
  BY <1>2 DEF Erased, ToSet, Others
<1> QED
  BY <1>1, <1>2

-----------------------------------------------------------------------------
(* Types: what is in a request depends on who handles it.                  *)

ThreadState ==
  [at : {"off", "check", "receive", "ended"}]
  \cup [at : {"handle", "changed", "read", "replaced"}, peer : Peer, json : Seq(Entry)]

SocketState ==
  {Ready} \cup [at : {"sent", "taken"}, request : Request_]
          \cup [at : {"listing"}, entries : Seq(Entry)]
          \cup [at : {"reply"}, text : {"OK", "refused"}]

LEMMA Requests ==
  ASSUME NEW req \in Request_
  PROVE  /\ req.kind \in {"list", "add", "remove", "unknown"}
         /\ req.kind = "list" => req = ListRequest
         /\ req.kind = "unknown" => req = UnknownRequest
         /\ req.kind = "add" => req.entry \in Entry /\ req = AddRequest(req.entry)
         /\ req.kind = "remove" => req.entry \in Entry /\ req = RemoveRequest(req.entry)
BY DEF Request_, RegistrarRequest, ListRequest, AddRequest, RemoveRequest, UnknownRequest

LEMMA SocketFields ==
  ASSUME NEW s \in SocketState
  PROVE  /\ s.at \in {"ready", "sent", "taken", "listing", "reply"}
         /\ s.at = "ready" <=> s = Ready
         /\ s.at = "sent" => s.request \in Request_ /\ s = Sent(s.request)
         /\ s.at = "taken" => s.request \in Request_ /\ s = Taken(s.request)
         /\ s.at = "listing" => s.entries \in Seq(Entry) /\ s = Listing(s.entries)
         /\ s.at = "reply" => s.text \in {"OK", "refused"} /\ s = Reply(s.text)
BY DEF SocketState, Ready, Sent, Taken, Listing, Reply

LEMMA ThreadFields ==
  ASSUME NEW t \in ThreadState
  PROVE  /\ t.at \in {"off", "check", "receive", "ended",
                      "handle", "changed", "read", "replaced"}
         /\ t.at = "off" <=> t = Nowhere
         /\ t.at \in {"handle", "changed", "read", "replaced"} =>
              t.peer \in Peer /\ t.json \in Seq(Entry) /\ t = Serving(t.at, t.peer, t.json)
BY DEF ThreadState, Nowhere, Serving

LEMMA SocketStates ==
  /\ Ready \in SocketState
  /\ \A req \in Request_ : Sent(req) \in SocketState /\ Taken(req) \in SocketState
  /\ \A s \in Seq(Entry) : Listing(s) \in SocketState
  /\ Reply("OK") \in SocketState /\ Reply("refused") \in SocketState
BY DEF SocketState, Sent, Taken, Listing, Reply

LEMMA ThreadStates ==
  /\ \A a \in {"off", "check", "receive", "ended"} : Running(a) \in ThreadState
  /\ Nowhere \in ThreadState
  /\ \A a \in {"handle", "changed", "read", "replaced"}, p \in Peer, s \in Seq(Entry) :
       Serving(a, p, s) \in ThreadState
BY DEF ThreadState, Running, Nowhere, Serving

LEMMA Typed ==
  TypeOK <=> /\ protocols \in Seq(Entry) /\ list \in Seq(Entry)
             /\ stop \in BOOLEAN /\ starting \in {"none", "unbound", "threw"}
             /\ thread \in ThreadState
             /\ owner \in [at : {"idle", "changed", "read"}, json : Seq(Entry)]
             /\ sock \in [Peer -> SocketState]
             /\ gaveUp \subseteq Client
             /\ result \in [Client -> {NoResult, TimedOut, Threw}
                                      \cup [kind : {"found"}, entries : Seq(Entry)]]
             /\ directory \in [Client -> Seq(Entry)]
             /\ told \in [Client -> {Nobody} \cup [at : {"waiting", "told"}, entries : Seq(Entry)]]
BY DEF TypeOK, ThreadState, SocketState

LEMMA TypeInit == Init => TypeOK
<1> SUFFICES ASSUME Init PROVE TypeOK
  OBVIOUS
<1>1. <<>> \in Seq(Entry)
  OBVIOUS
<1>2. thread \in ThreadState /\ owner \in [at : {"idle", "changed", "read"}, json : Seq(Entry)]
  BY <1>1, ThreadStates DEF Init, Resting
<1>3. sock \in [Peer -> SocketState]
  BY SocketStates DEF Init
<1>4. directory \in [Client -> Seq(Entry)]
  BY <1>1 DEF Init
<1>5. told \in [Client -> {Nobody} \cup [at : {"waiting", "told"}, entries : Seq(Entry)]]
  BY DEF Init
<1>6. result \in [Client -> {NoResult, TimedOut, Threw}
                           \cup [kind : {"found"}, entries : Seq(Entry)]]
  BY DEF Init
<1> QED
  BY <1>1, <1>2, <1>3, <1>4, <1>5, <1>6, Typed DEF Init

(* A request that was taken off a socket is the one that the thread        *)
(* handles.                                                                *)
Busy == thread.at \in {"handle", "changed", "read", "replaced"}

ServesTaken ==
  /\ Busy => sock[thread.peer].at = "taken"
  /\ \A p \in Peer : sock[p].at = "taken" => Busy /\ thread.peer = p

LEMMA TypeOwner ==
  ASSUME TypeOK, OwnerStep
  PROVE  TypeOK'
<1> <<>> \in Seq(Entry)
  OBVIOUS
<1>1. ASSUME NEW e \in Entry, AddProtocol(e) PROVE TypeOK'
  <2>1. protocols' \in Seq(Entry)
    BY <1>1, Insertion DEF AddProtocol, TypeOK
  <2> QED
    BY <1>1, <2>1 DEF AddProtocol, TypeOK, clientVars
<1>2. CASE OwnerReadsMap
  BY <1>2 DEF OwnerReadsMap, TypeOK, clientVars
<1>3. CASE OwnerReplacesList
  BY <1>3 DEF OwnerReplacesList, TypeOK, Resting, clientVars
<1>4. CASE StartRunning
  BY <1>4 DEF StartRunning, TypeOK, clientVars
<1>5. CASE StopRunning
  BY <1>5 DEF StopRunning, TypeOK, clientVars
<1> QED
  BY <1>1, <1>2, <1>3, <1>4, <1>5 DEF OwnerStep

LEMMA TypeThread ==
  ASSUME TypeOK, ServesTaken, ThreadStep
  PROVE  TypeOK'
<1>e. <<>> \in Seq(Entry)
  OBVIOUS
<1>0. ASSUME protocols' \in Seq(Entry), list' \in Seq(Entry), NEW t \in ThreadState, Goto(t),
             sock' \in [Peer -> SocketState]
      PROVE  TypeOK'
  BY <1>0, Typed DEF Typed, TypeOK, Goto, clientVars, ThreadState, SocketState
<1>1. CASE Bind
  BY <1>1 DEF Bind, TypeOK, Running, clientVars
<1>2. CASE BindThrows
  BY <1>2 DEF BindThrows, TypeOK, clientVars
<1>3. CASE Publish \/ EndLoop \/ ReceiveTimesOut
  <2>1. \E t \in ThreadState : Goto(t)
    BY <1>3, ThreadStates DEF Publish, EndLoop, ReceiveTimesOut
  <2> QED
    BY <1>0, <1>3, <2>1, Typed DEF Publish, EndLoop, ReceiveTimesOut
<1>4. ASSUME NEW p \in Peer, Receive(p) PROVE TypeOK'
  <2>1. Taken(sock[p].request) \in SocketState
    BY <1>4, Typed, SocketFields, SocketStates DEF Receive
  <2>2. Serving("handle", p, <<>>) \in ThreadState
    BY <1>e, ThreadStates
  <2> QED
    BY <1>0, <1>4, <2>1, <2>2, Typed DEF Receive
<1>5. ASSUME NEW p \in Peer, AnswerList(p) \/ AnswerUnknown(p) PROVE TypeOK'
  <2>1. Running("check") \in ThreadState /\ Goto(Running("check"))
    BY <1>5, ThreadStates DEF AnswerList, AnswerUnknown
  <2>2. sock' \in [Peer -> SocketState]
    BY <1>5, Typed, SocketStates DEF AnswerList, AnswerUnknown
  <2> QED
    BY <1>0, <1>5, <2>1, <2>2, Typed DEF AnswerList, AnswerUnknown
<1>6. ASSUME NEW p \in Peer, HandleAdd(p) \/ HandleRemove(p) PROVE TypeOK'
  <2>0. thread = Serving("handle", p, <<>>) /\ sock[p].request.kind \in {"add", "remove"}
    BY <1>6 DEF HandleAdd, HandleRemove, Handles
  <2>1. sock[p].request.entry \in Entry
    <3>1. sock[p] \in SocketState /\ sock[p].at = "taken"
      BY <2>0, Typed DEF ServesTaken, Busy, Serving
    <3> QED
      BY <2>0, <3>1, SocketFields, Requests
  <2>2. protocols' \in Seq(Entry)
    BY <1>6, <2>1, Typed, Insertion, Erasure DEF HandleAdd, HandleRemove
  <2>3. Serving("changed", p, <<>>) \in ThreadState /\ Goto(Serving("changed", p, <<>>))
    BY <1>e, <1>6, ThreadStates DEF HandleAdd, HandleRemove
  <2> QED
    BY <1>0, <1>6, <2>2, <2>3, Typed DEF HandleAdd, HandleRemove
<1>7. CASE ReadMap
  <2>1. Serving("read", thread.peer, protocols) \in ThreadState
    BY <1>7, Typed, ThreadFields, ThreadStates DEF ReadMap
  <2> QED
    BY <1>0, <1>7, <2>1, Typed DEF ReadMap
<1>8. CASE ReplaceList
  <2>1. Serving("replaced", thread.peer, <<>>) \in ThreadState
    BY <1>e, <1>8, Typed, ThreadFields, ThreadStates DEF ReplaceList
  <2>2. list' \in Seq(Entry)
    BY <1>8, Typed, ThreadFields DEF ReplaceList
  <2> QED
    BY <1>0, <1>8, <2>1, <2>2, Typed DEF ReplaceList
<1>9. CASE Acknowledge
  <2>1. Running("check") \in ThreadState
    BY ThreadStates
  <2> QED
    BY <1>0, <1>9, <2>1, Typed, SocketStates DEF Acknowledge
<1> QED
  BY <1>1, <1>2, <1>3, <1>4, <1>5, <1>6, <1>7, <1>8, <1>9 DEF ThreadStep

LEMMA TypePeer ==
  ASSUME TypeOK, PeerStep
  PROVE  TypeOK'
<1>1. ASSUME sock' \in [Peer -> SocketState], UNCHANGED <<serverVars, clientVars>>
      PROVE  TypeOK'
  BY <1>1 DEF TypeOK, SocketState, serverVars, clientVars
<1>2. ASSUME NEW c \in Client, QueryProtocols(c) PROVE TypeOK'
  <2>1. ListRequest \in Request_
    BY DEF Request_
  <2> QED
    BY <1>1, <1>2, <2>1, Typed, SocketStates DEF QueryProtocols, Peer
<1>3. ASSUME NEW c \in Client, QueryThrows(c) \/ QueryTimesOut(c) PROVE TypeOK'
  BY <1>3 DEF QueryThrows, QueryTimesOut, TypeOK, serverVars
<1>4. ASSUME NEW c \in Client, QueryReturns(c) PROVE TypeOK'
  <2>1. PICK s : s = sock[c].entries
    OBVIOUS
  <2>2. s \in Seq(Entry)
    BY <1>4, <2>1, Typed, SocketFields DEF QueryReturns, Peer
  <2>3. sock' \in [Peer -> SocketState]
    BY <1>4, Typed, SocketStates DEF QueryReturns
  <2>4. result' = [result EXCEPT ![c] = Found(s)]
    BY <1>4, <2>1 DEF QueryReturns
  <2>5. Found(s) \in [kind : {"found"}, entries : Seq(Entry)]
        /\ Told(s) \in [at : {"waiting", "told"}, entries : Seq(Entry)]
    BY <2>2 DEF Found, Told
  <2>6. /\ directory' \in [Client -> Seq(Entry)]
        /\ told' \in [Client -> {Nobody} \cup [at : {"waiting", "told"}, entries : Seq(Entry)]]
    <3>1. UpdateDirectory(c, s)
      BY <1>4, <2>1 DEF QueryReturns
    <3>2. CASE s = directory[c]
      BY <3>1, <3>2, Typed DEF UpdateDirectory
    <3>3. CASE s # directory[c]
      <4>1. directory' = [directory EXCEPT ![c] = s]
            /\ (told' = told \/ told' = [told EXCEPT ![c] = Told(s)])
        BY <3>1, <3>3 DEF UpdateDirectory
      <4> QED
        BY <4>1, <2>2, <2>5, Typed
    <3> QED
      BY <3>2, <3>3
  <2>7. result' \in [Client -> {NoResult, TimedOut, Threw}
                              \cup [kind : {"found"}, entries : Seq(Entry)]]
    BY <2>4, <2>5, Typed
  <2>8. UNCHANGED <<serverVars, gaveUp>>
    BY <1>4 DEF QueryReturns
  <2> QED
    BY <2>3, <2>6, <2>7, <2>8 DEF serverVars, TypeOK, SocketState
<1>5. ASSUME NEW c \in Client, AddChangeCallback(c) PROVE TypeOK'
  <2>1. Waiting(directory[c]) \in [at : {"waiting", "told"}, entries : Seq(Entry)]
    BY Typed DEF Waiting
  <2> QED
    BY <1>5, <2>1 DEF AddChangeCallback, TypeOK, serverVars
<1>6. ASSUME NEW r \in Registrar, RequestReturns(r) PROVE TypeOK'
  BY <1>1, <1>6, Typed, SocketStates DEF RequestReturns
<1>7. ASSUME NEW r \in Registrar, NEW req \in RegistrarRequest, Request(r, req) PROVE TypeOK'
  <2>1. req \in Request_
    BY DEF Request_
  <2> QED
    BY <1>1, <1>7, <2>1, Typed, SocketStates DEF Request
<1> QED
  BY <1>2, <1>3, <1>4, <1>5, <1>6, <1>7 DEF PeerStep

LEMMA ServesTakenKept ==
  ASSUME TypeOK, ServesTaken, [Next]_vars
  PROVE  ServesTaken'
<1>0. sock \in [Peer -> SocketState] /\ thread \in ThreadState
  BY Typed
<1>1. ASSUME thread' = thread,
             \A p \in Peer : sock'[p].at = "taken" <=> sock[p].at = "taken"
      PROVE  ServesTaken'
  <2>1. Busy => thread.peer \in Peer
    BY <1>0, ThreadFields DEF Busy
  <2> QED
    BY <1>1, <2>1 DEF ServesTaken, Busy
<1>2. ASSUME ~Busy, ~Busy', sock' = sock PROVE ServesTaken'
  BY <1>2 DEF ServesTaken
<1>3. ASSUME Busy, Busy', thread'.peer = thread.peer, sock' = sock PROVE ServesTaken'
  BY <1>3 DEF ServesTaken
<1>4. CASE OwnerStep
  BY <1>1, <1>4 DEF OwnerStep, AddProtocol, OwnerReadsMap, OwnerReplacesList, StartRunning,
                    StopRunning
<1>5. CASE PeerStep
  <2>1. thread' = thread
    BY <1>5 DEF PeerStep, QueryProtocols, QueryThrows, QueryTimesOut, QueryReturns,
                AddChangeCallback, Request, RequestReturns, serverVars
  <2>2. \A p \in Peer : sock'[p].at = "taken" <=> sock[p].at = "taken"
    BY <1>0, <1>5
       DEF PeerStep, QueryProtocols, QueryThrows, QueryTimesOut, QueryReturns,
           AddChangeCallback, Request, RequestReturns, Ready, Sent
  <2> QED
    BY <1>1, <2>1, <2>2
<1>6. CASE Bind \/ Publish \/ EndLoop \/ ReceiveTimesOut
  <2>1. ~Busy /\ ~Busy' /\ sock' = sock
    BY <1>6 DEF Bind, Publish, EndLoop, ReceiveTimesOut, Goto, Running, Busy
  <2> QED
    BY <1>2, <2>1
<1>7. CASE BindThrows
  BY <1>1, <1>7 DEF BindThrows
<1>8. ASSUME NEW p \in Peer, Receive(p) PROVE ServesTaken'
  <2>1. ~Busy /\ Busy' /\ thread'.peer = p
    BY <1>8 DEF Receive, Goto, Serving, Busy
  <2>2. sock'[p].at = "taken" /\ \A q \in Peer \ {p} : sock'[q] = sock[q]
    BY <1>0, <1>8 DEF Receive, Taken
  <2> QED
    BY <2>1, <2>2 DEF ServesTaken
<1>9. ASSUME NEW p \in Peer, AnswerList(p) \/ AnswerUnknown(p) PROVE ServesTaken'
  <2>1. Busy /\ ~Busy' /\ thread.peer = p
    BY <1>9 DEF AnswerList, AnswerUnknown, Handles, Goto, Serving, Running, Busy
  <2>2. sock'[p].at # "taken" /\ \A q \in Peer \ {p} : sock'[q] = sock[q]
    BY <1>0, <1>9 DEF AnswerList, AnswerUnknown, Listing, Reply
  <2> QED
    BY <2>1, <2>2 DEF ServesTaken
<1>10. CASE Acknowledge
  <2>1. Busy /\ ~Busy' /\ thread.peer \in Peer
    BY <1>0, <1>10, ThreadFields DEF Acknowledge, Goto, Running, Busy
  <2>2. sock'[thread.peer].at # "taken" /\ \A q \in Peer \ {thread.peer} : sock'[q] = sock[q]
    BY <1>0, <1>10, <2>1 DEF Acknowledge, Reply
  <2> QED
    BY <2>1, <2>2 DEF ServesTaken
<1>11. ASSUME NEW p \in Peer, HandleAdd(p) \/ HandleRemove(p) PROVE ServesTaken'
  <2>1. Busy /\ Busy' /\ thread'.peer = thread.peer /\ sock' = sock
    BY <1>11 DEF HandleAdd, HandleRemove, Handles, Goto, Serving, Busy
  <2> QED
    BY <1>3, <2>1
<1>12. CASE ReadMap \/ ReplaceList
  <2>1. Busy /\ Busy' /\ thread'.peer = thread.peer /\ sock' = sock
    BY <1>12 DEF ReadMap, ReplaceList, Goto, Serving, Busy
  <2> QED
    BY <1>3, <2>1
<1>13. CASE UNCHANGED vars
  BY <1>1, <1>13 DEF vars, serverVars
<1> QED
  BY <1>4, <1>5, <1>6, <1>7, <1>8, <1>9, <1>10, <1>11, <1>12, <1>13 DEF Next, ThreadStep

(* No request is lost from the sockets to the thread: the one it handles   *)
(* is the one that was taken, so that it has the entry its kind needs.     *)
THEOREM DirectoryTypes == Spec => [](TypeOK /\ ServesTaken)
<1>1. Init => ServesTaken
  BY DEF Init, ServesTaken, Busy, Nowhere, Ready
<1>2. TypeOK /\ ServesTaken /\ [Next]_vars => TypeOK'
  <2>1. TypeOK /\ UNCHANGED vars => TypeOK'
    BY DEF TypeOK, vars, serverVars, clientVars
  <2> QED
    BY <2>1, TypeOwner, TypeThread, TypePeer DEF Next
<1> QED
  BY <1>1, <1>2, TypeInit, ServesTakenKept, PTL DEF Spec

(* Whatever a client was answered, when its listener was set and whoever   *)
(* timed out: it remembers the last answer; a listener that was called was *)
(* last called with it, and one that was not has missed no change.         *)
THEOREM ListenersAreUpToDate == Spec => []ListenerUpToDate
<1>1. Init => ListenerUpToDate
  BY DEF Init, ListenerUpToDate, NoResult
<1>2. ASSUME TypeOK, ListenerUpToDate, [Next]_vars PROVE ListenerUpToDate'
  <2>0. /\ directory \in [Client -> Seq(Entry)]
        /\ result \in [Client -> {NoResult, TimedOut, Threw}
                                 \cup [kind : {"found"}, entries : Seq(Entry)]]
        /\ told \in [Client -> {Nobody} \cup [at : {"waiting", "told"}, entries : Seq(Entry)]]
    BY <1>2, Typed
  <2>1. CASE UNCHANGED <<result, directory, told>>
    <3>1. ListenerUpToDate
      BY <1>2
    <3> QED
      BY <2>1, <3>1 DEF ListenerUpToDate
  <2>2. ASSUME NEW c \in Client, QueryThrows(c) \/ QueryTimesOut(c) PROVE ListenerUpToDate'
    <3>1. directory' = directory /\ told' = told
      BY <2>2 DEF QueryThrows, QueryTimesOut
    <3>2. /\ result'[c].kind # "found"
          /\ \A d \in Client \ {c} : result'[d] = result[d]
      <4>1. PICK x \in {TimedOut, Threw} : result' = [result EXCEPT ![c] = x]
        BY <2>2 DEF QueryThrows, QueryTimesOut
      <4>2. x.kind # "found"
        <5>1. TimedOut.kind = "timed out" /\ Threw.kind = "threw"
          BY DEF TimedOut, Threw
        <5> QED
          BY <5>1
      <4> QED
        BY <2>0, <4>1, <4>2
    <3> QED
      BY <1>2, <3>1, <3>2 DEF ListenerUpToDate
  <2>3. ASSUME NEW c \in Client, QueryReturns(c) PROVE ListenerUpToDate'
    <3>1. PICK s : s = sock[c].entries
      OBVIOUS
    <3>2. result' = [result EXCEPT ![c] = Found(s)] /\ UpdateDirectory(c, s)
      BY <2>3, <3>1 DEF QueryReturns
    <3>3. CASE s = directory[c]
      <4>1. directory' = directory /\ told' = told
        BY <3>2, <3>3 DEF UpdateDirectory
      <4>2. result'[c].entries = s /\ \A d \in Client \ {c} : result'[d] = result[d]
        BY <2>0, <3>2 DEF Found
      <4> QED
        BY <1>2, <3>3, <4>1, <4>2 DEF ListenerUpToDate
    <3>4. CASE s # directory[c]
      <4>1. /\ directory' = [directory EXCEPT ![c] = s]
            /\ told' = IF told[c] = Nobody THEN told ELSE [told EXCEPT ![c] = Told(s)]
        BY <3>2, <3>4 DEF UpdateDirectory
      <4>2. \A d \in Client \ {c} : /\ directory'[d] = directory[d] /\ told'[d] = told[d]
                                    /\ result'[d] = result[d]
        BY <2>0, <3>2, <4>1
      <4>3. directory'[c] = s /\ result'[c] = Found(s) /\ told'[c] \in {Nobody, Told(s)}
        BY <2>0, <3>2, <4>1
      <4> QED
        BY <1>2, <4>2, <4>3 DEF ListenerUpToDate, Found, Told
    <3> QED
      BY <3>3, <3>4
  <2>4. ASSUME NEW c \in Client, AddChangeCallback(c) PROVE ListenerUpToDate'
    BY <1>2, <2>0, <2>4 DEF AddChangeCallback, ListenerUpToDate, Nobody, Waiting
  <2>5. OwnerStep \/ ThreadStep \/ UNCHANGED vars => UNCHANGED <<result, directory, told>>
    BY DEF OwnerStep, AddProtocol, OwnerReadsMap, OwnerReplacesList, StartRunning,
           StopRunning, ThreadStep, Bind, BindThrows, Publish, EndLoop, ReceiveTimesOut,
           Receive, AnswerList, AnswerUnknown, HandleAdd, HandleRemove, ReadMap, ReplaceList,
           Acknowledge, Goto, clientVars, vars
  <2>6. ASSUME NEW c \in Client, QueryProtocols(c) PROVE ListenerUpToDate'
    BY <2>1, <2>6 DEF QueryProtocols, clientVars
  <2>7. ASSUME NEW r \in Registrar,
               RequestReturns(r) \/ \E req \in RegistrarRequest : Request(r, req)
        PROVE  ListenerUpToDate'
    BY <2>1, <2>7 DEF RequestReturns, Request, clientVars
  <2> QED
    BY <1>2, <2>1, <2>2, <2>3, <2>4, <2>5, <2>6, <2>7 DEF Next, PeerStep
<1> QED
  BY <1>1, <1>2, DirectoryTypes, PTL DEF Spec

-----------------------------------------------------------------------------
(* The list and the map.                                                   *)

(* While the owner is inside addProtocol there is no thread; and a list    *)
(* about to replace the old one was read from the map as it is.            *)
CoherentInv ==
  /\ owner.at # "idle" => thread = Nowhere /\ starting = "none"
  /\ owner.at = "idle" => owner = Resting
  /\ owner.at \in {"idle", "changed", "read"}
  /\ owner.at = "read" => owner.json = protocols
  /\ thread.at = "read" => thread.json = protocols
  /\ Coherent

LEMMA CoherentInvInit == Init => CoherentInv
BY DEF Init, CoherentInv, Coherent, Resting, Nowhere

LEMMA CoherentInvOwner ==
  ASSUME ~LiveAdds, CoherentInv, OwnerStep
  PROVE  CoherentInv'
<1>1. ASSUME NEW e \in Entry, AddProtocol(e) PROVE CoherentInv'
  BY <1>1 DEF AddProtocol, OwnerMayAdd, CoherentInv, Coherent, Nowhere, Resting
<1>2. CASE OwnerReadsMap
  BY <1>2 DEF OwnerReadsMap, CoherentInv, Coherent, Nowhere, Resting
<1>3. CASE OwnerReplacesList
  BY <1>3 DEF OwnerReplacesList, CoherentInv, Coherent, Nowhere, Resting
<1>4. CASE StartRunning
  BY <1>4 DEF StartRunning, CoherentInv, Coherent, Resting
<1>5. CASE StopRunning
  BY <1>5 DEF StopRunning, CoherentInv, Coherent
<1> QED
  BY <1>1, <1>2, <1>3, <1>4, <1>5 DEF OwnerStep

LEMMA CoherentInvThread ==
  ASSUME CoherentInv, ThreadStep
  PROVE  CoherentInv'
<1> USE DEF CoherentInv, Coherent, Goto, Running, Serving, Nowhere, Resting
<1>1. CASE Bind
  BY <1>1 DEF Bind
<1>2. CASE BindThrows
  BY <1>2 DEF BindThrows
<1>3. CASE Publish
  BY <1>3 DEF Publish
<1>4. CASE EndLoop
  BY <1>4 DEF EndLoop
<1>5. CASE ReceiveTimesOut
  BY <1>5 DEF ReceiveTimesOut
<1>6. ASSUME NEW p \in Peer, Receive(p) PROVE CoherentInv'
  BY <1>6 DEF Receive
<1>7. ASSUME NEW p \in Peer, AnswerList(p) \/ AnswerUnknown(p) PROVE CoherentInv'
  BY <1>7 DEF AnswerList, AnswerUnknown, Handles
<1>8. ASSUME NEW p \in Peer, HandleAdd(p) \/ HandleRemove(p) PROVE CoherentInv'
  BY <1>8 DEF HandleAdd, HandleRemove, Handles
<1>9. CASE ReadMap
  BY <1>9 DEF ReadMap
<1>10. CASE ReplaceList
  BY <1>10 DEF ReplaceList
<1>11. CASE Acknowledge
  BY <1>11 DEF Acknowledge
<1> QED
  BY <1>1, <1>2, <1>3, <1>4, <1>5, <1>6, <1>7, <1>8, <1>9, <1>10, <1>11 DEF ThreadStep

(* No peer touches the map or the list but through the thread.             *)
LEMMA CoherentInvPeer ==
  ASSUME CoherentInv, PeerStep \/ UNCHANGED vars
  PROVE  CoherentInv'
<1>1. UNCHANGED serverVars
  BY DEF PeerStep, vars, QueryProtocols, QueryThrows, QueryTimesOut, QueryReturns,
         AddChangeCallback, Request, RequestReturns
<1> QED
  BY <1>1 DEF serverVars, CoherentInv, Coherent

(* With an owner that adds only before the thread runs, what answers and   *)
(* publishes the directory is always the directory.                        *)
THEOREM ListIsCoherent ==
  ASSUME ~LiveAdds
  PROVE  Spec => []Coherent
<1>1. CoherentInv /\ [Next]_vars => CoherentInv'
  BY CoherentInvOwner, CoherentInvThread, CoherentInvPeer DEF Next
<1>2. CoherentInv => Coherent
  BY DEF CoherentInv
<1> QED
  BY <1>1, <1>2, CoherentInvInit, PTL DEF Spec

-----------------------------------------------------------------------------
(* ProtocolDirectory implements DirectoryService, for any number of        *)
(* clients, programs that register and entries, and with restarts, as long *)
(* as the owner adds only before it starts the thread and no two entries   *)
(* of different protocols or adapters have the same key.                   *)


-----------------------------------------------------------------------------
(* The table as the peers see it.                                          *)

(* What a request asks of the table.                                       *)
Effect(S, req) == Others(S, req.entry) \cup (IF req.kind = "add" THEN {req.entry} ELSE {})

(* Clients only list; registrars only add, remove and talk nonsense.       *)
OwnRequests ==
  /\ \A c \in Client : /\ sock[c].at \in {"sent", "taken"} => sock[c].request = ListRequest
                       /\ sock[c].at # "reply"
  /\ \A r \in Registrar :
       /\ sock[r].at \in {"sent", "taken"} => sock[r].request \in RegistrarRequest
       /\ sock[r].at # "listing"

(* A list about to be replaced differs from the map by what is being done. *)
OneChange ==
  /\ UniqueKeys(protocols)
  /\ thread.at \in {"handle", "replaced"} => thread.json = <<>>
  /\ thread.at \in {"changed", "read"} =>
       /\ sock[thread.peer].request.kind \in {"add", "remove"}
       /\ ToSet(protocols) = Effect(ToSet(list), sock[thread.peer].request)
  /\ thread.at = "replaced" => sock[thread.peer].request.kind \in {"add", "remove"}
  /\ owner.at \in {"changed", "read"} =>
       \E e \in Entry : ToSet(protocols) = Others(ToSet(list), e) \cup {e}

TableInv == TypeOK /\ ServesTaken /\ CoherentInv /\ OwnRequests /\ OneChange

LEMMA OwnRequestsKept ==
  ASSUME TypeOK, ServesTaken, OwnRequests, OneChange, [Next]_vars
  PROVE  OwnRequests'
<1>0. sock \in [Peer -> SocketState] /\ thread \in ThreadState
  BY Typed
<1>1. ASSUME sock' = sock PROVE OwnRequests'
  BY <1>1 DEF OwnRequests
<1>2. ASSUME NEW p \in Peer, \A q \in Peer \ {p} : sock'[q] = sock[q],
             p \in Client =>
               /\ sock'[p].at \in {"sent", "taken"} => sock'[p].request = ListRequest
               /\ sock'[p].at # "reply",
             p \in Registrar =>
               /\ sock'[p].at \in {"sent", "taken"} => sock'[p].request \in RegistrarRequest
               /\ sock'[p].at # "listing"
      PROVE  OwnRequests'
  BY <1>2 DEF OwnRequests, Peer
<1>3. CASE OwnerStep
  BY <1>1, <1>3 DEF OwnerStep, AddProtocol, OwnerReadsMap, OwnerReplacesList, StartRunning,
                    StopRunning
<1>4. CASE Bind \/ BindThrows \/ Publish \/ EndLoop \/ ReceiveTimesOut \/ ReadMap \/ ReplaceList
           \/ \E p \in Peer : HandleAdd(p) \/ HandleRemove(p)
  BY <1>1, <1>4 DEF Bind, BindThrows, Publish, EndLoop, ReceiveTimesOut, ReadMap, ReplaceList,
                    HandleAdd, HandleRemove
<1>5. ASSUME NEW p \in Peer, Receive(p) PROVE OwnRequests'
  <2>1. /\ sock[p].at = "sent"
        /\ sock' = [sock EXCEPT ![p] = Taken(sock[p].request)]
    BY <1>5 DEF Receive
  <2>2. sock'[p].at = "taken" /\ sock'[p].request = sock[p].request
    BY <1>0, <2>1 DEF Taken
  <2>3. \A q \in Peer \ {p} : sock'[q] = sock[q]
    BY <1>0, <2>1
  <2> QED
    BY <1>2, <2>1, <2>2, <2>3 DEF OwnRequests
<1>6. ASSUME NEW p \in Peer,
             AnswerList(p) \/ AnswerUnknown(p) \/ (Acknowledge /\ p = thread.peer)
      PROVE  OwnRequests'
  <2>1. sock[p].at = "taken"
    BY <1>6 DEF AnswerList, AnswerUnknown, Acknowledge, Handles, Serving, ServesTaken, Busy
  <2>2. \A q \in Peer \ {p} : sock'[q] = sock[q]
    BY <1>0, <1>6 DEF AnswerList, AnswerUnknown, Acknowledge
  <2>3. CASE AnswerList(p)
    <3>1. p \notin Registrar
      <4>1. sock[p].request \notin RegistrarRequest
        BY <2>3 DEF AnswerList, Handles, RegistrarRequest, AddRequest, RemoveRequest,
                    UnknownRequest
      <4> QED
        BY <2>1, <4>1 DEF OwnRequests
    <3>2. sock'[p].at = "listing"
      BY <1>0, <2>3 DEF AnswerList, Listing
    <3> QED
      BY <1>2, <2>2, <3>1, <3>2
  <2>4. CASE AnswerUnknown(p) \/ (Acknowledge /\ p = thread.peer)
    <3>1. p \notin Client
      <4>1. sock[p].request.kind # "list"
        BY <2>4 DEF AnswerUnknown, Handles, Acknowledge, OneChange
      <4> QED
        BY <2>1, <4>1 DEF OwnRequests, ListRequest
    <3>2. sock'[p].at = "reply"
      BY <1>0, <2>4 DEF AnswerUnknown, Acknowledge, Reply
    <3> QED
      BY <1>2, <2>2, <3>1, <3>2
  <2> QED
    BY <1>6, <2>3, <2>4
<1>7. CASE UNCHANGED vars
  BY <1>1, <1>7 DEF vars
<1>8. ASSUME NEW c \in Client, QueryProtocols(c) PROVE OwnRequests'
  <2>1. c \in Peer /\ c \notin Registrar
    BY PeerAssumption DEF Peer
  <2>2. sock'[c] = Sent(ListRequest) /\ \A q \in Peer \ {c} : sock'[q] = sock[q]
    BY <1>0, <1>8, <2>1 DEF QueryProtocols
  <2> QED
    BY <1>2, <2>1, <2>2 DEF Sent
<1>9. ASSUME NEW r \in Registrar, NEW req \in RegistrarRequest, Request(r, req)
      PROVE  OwnRequests'
  <2>1. r \in Peer /\ r \notin Client
    BY PeerAssumption DEF Peer
  <2>2. sock'[r] = Sent(req) /\ \A q \in Peer \ {r} : sock'[q] = sock[q]
    BY <1>0, <1>9, <2>1 DEF Request
  <2> QED
    BY <1>2, <2>1, <2>2 DEF Sent
<1>10. ASSUME NEW p \in Peer, QueryReturns(p) \/ RequestReturns(p) PROVE OwnRequests'
  <2>1. sock'[p] = Ready /\ \A q \in Peer \ {p} : sock'[q] = sock[q]
    BY <1>0, <1>10 DEF QueryReturns, RequestReturns
  <2> QED
    BY <1>2, <2>1 DEF Ready
<1>11. ASSUME NEW c \in Client, QueryThrows(c) \/ QueryTimesOut(c) \/ AddChangeCallback(c)
       PROVE  OwnRequests'
  BY <1>1, <1>11 DEF QueryThrows, QueryTimesOut, AddChangeCallback
<1>12. CASE Acknowledge
  <2>1. thread.peer \in Peer
    BY <1>0, <1>12, ThreadFields DEF Acknowledge
  <2> QED
    BY <1>6, <1>12, <2>1
<1>13. CASE ThreadStep
  BY <1>4, <1>5, <1>6, <1>12, <1>13 DEF ThreadStep
<1>14. CASE PeerStep
  BY <1>8, <1>9, <1>10, <1>11, <1>14 DEF PeerStep, Peer
<1> QED
  BY <1>3, <1>7, <1>13, <1>14 DEF Next

(* An owner inside addProtocol is alone.                                   *)
LEMMA OneChangeOwner ==
  ASSUME ~LiveAdds, TypeOK, CoherentInv, OneChange, OwnerStep
  PROVE  OneChange'
<1>1. ASSUME NEW e \in Entry, AddProtocol(e) PROVE OneChange'
  <2>1. /\ owner' = [at |-> "changed", json |-> <<>>]
        /\ thread = Nowhere /\ owner = Resting
        /\ UNCHANGED <<list, thread, sock>>
    BY <1>1 DEF AddProtocol, OwnerMayAdd
  <2>2. protocols' \in Inserted(protocols, e)
    BY <1>1 DEF AddProtocol
  <2>3. UniqueKeys(protocols') /\ ToSet(protocols') = Others(ToSet(protocols), e) \cup {e}
    BY <2>2, Insertion DEF OneChange, TypeOK
  <2>4. list = protocols
    BY <2>1 DEF CoherentInv, Coherent, Nowhere
  <2>5. ToSet(protocols') = Others(ToSet(list), e) \cup {e}
    BY <2>3, <2>4
  <2> QED
    BY <2>1, <2>3, <2>5 DEF OneChange, Nowhere
<1>2. CASE OwnerReadsMap
  BY <1>2 DEF OwnerReadsMap, OneChange
<1>3. CASE OwnerReplacesList
  <2>1. thread = Nowhere
    BY <1>3 DEF OwnerReplacesList, CoherentInv
  <2> QED
    BY <1>3, <2>1 DEF OwnerReplacesList, OneChange, Nowhere, Resting
<1>4. CASE StartRunning \/ StopRunning
  BY <1>4 DEF StartRunning, StopRunning, OneChange
<1> QED
  BY <1>1, <1>2, <1>3, <1>4 DEF OwnerStep

LEMMA OneChangeThread ==
  ASSUME TypeOK, ServesTaken, CoherentInv, OneChange, ThreadStep
  PROVE  OneChange'
<1>0. sock \in [Peer -> SocketState] /\ thread \in ThreadState
  BY Typed
<1>1. ASSUME thread'.at \in {"off", "check", "receive", "ended"},
             UNCHANGED <<protocols, list, owner>>
      PROVE  OneChange'
  BY <1>1 DEF OneChange
<1>2. CASE Bind \/ Publish \/ EndLoop \/ ReceiveTimesOut \/ Acknowledge
           \/ \E p \in Peer : AnswerList(p) \/ AnswerUnknown(p)
  BY <1>1, <1>2 DEF Bind, Publish, EndLoop, ReceiveTimesOut, Acknowledge, AnswerList,
                    AnswerUnknown, Goto, Running
<1>3. CASE BindThrows
  BY <1>3 DEF BindThrows, OneChange
<1>4. ASSUME NEW p \in Peer, Receive(p) PROVE OneChange'
  <2>1. thread' = Serving("handle", p, <<>>) /\ UNCHANGED <<protocols, list, owner>>
    BY <1>4 DEF Receive, Goto
  <2> QED
    BY <2>1 DEF OneChange, Serving
<1>5. ASSUME NEW p \in Peer, HandleAdd(p) \/ HandleRemove(p) PROVE OneChange'
  <2> PICK req : req = sock[p].request
    OBVIOUS
  <2>1. /\ thread = Serving("handle", p, <<>>) /\ thread' = Serving("changed", p, <<>>)
        /\ UNCHANGED <<list, owner, sock>> /\ req.kind \in {"add", "remove"}
    BY <1>5 DEF HandleAdd, HandleRemove, Handles, Goto
  <2>2. req.entry \in Entry
    <3>1. sock[p].at = "taken"
      BY <2>1 DEF ServesTaken, Busy, Serving
    <3> QED
      BY <1>0, <2>1, <3>1, SocketFields, Requests
  <2>3. list = protocols /\ owner.at = "idle"
    BY <2>1 DEF CoherentInv, Coherent, Nowhere, Serving
  <2>4. UniqueKeys(protocols') /\ ToSet(protocols') = Effect(ToSet(protocols), req)
    <3>1. CASE HandleAdd(p)
      <4>1. req.kind = "add" /\ protocols' \in Inserted(protocols, req.entry)
        BY <3>1 DEF HandleAdd, Handles
      <4> QED
        BY <2>2, <4>1, Insertion DEF OneChange, TypeOK, Effect
    <3>2. CASE HandleRemove(p)
      <4>1. req.kind = "remove" /\ protocols' = Erased(protocols, req.entry)
        BY <3>2 DEF HandleRemove, Handles
      <4> QED
        BY <2>2, <4>1, Erasure DEF OneChange, TypeOK, Effect
    <3> QED
      BY <1>5, <3>1, <3>2
  <2> QED
    BY <2>1, <2>3, <2>4 DEF OneChange, Serving
<1>6. CASE ReadMap
  <2>1. thread.at = "changed" /\ thread' = Serving("read", thread.peer, protocols)
        /\ UNCHANGED <<protocols, list, owner, sock>>
    BY <1>6 DEF ReadMap, Goto
  <2> QED
    BY <2>1 DEF OneChange, Serving
<1>7. CASE ReplaceList
  <2>1. /\ thread.at = "read" /\ thread' = Serving("replaced", thread.peer, <<>>)
        /\ UNCHANGED <<protocols, owner, sock>>
    BY <1>7 DEF ReplaceList, Goto
  <2>2. owner.at = "idle"
    BY <2>1 DEF CoherentInv, Nowhere
  <2> QED
    BY <2>1, <2>2 DEF OneChange, Serving
<1> QED
  BY <1>2, <1>3, <1>4, <1>5, <1>6, <1>7 DEF ThreadStep

(* The request that the thread handles does not change under its hands.    *)
LEMMA OneChangePeer ==
  ASSUME TypeOK, ServesTaken, OneChange, PeerStep
  PROVE  OneChange'
<1>1. UNCHANGED <<protocols, list, thread, owner>>
  BY DEF PeerStep, QueryProtocols, QueryThrows, QueryTimesOut, QueryReturns, AddChangeCallback,
         Request, RequestReturns, serverVars
<1>2. \A p \in Peer : sock[p].at = "taken" => sock'[p] = sock[p]
  BY Typed DEF PeerStep, QueryProtocols, QueryThrows, QueryTimesOut, QueryReturns,
               AddChangeCallback, Request, RequestReturns, Ready
<1>3. Busy => thread.peer \in Peer /\ sock[thread.peer].at = "taken"
  BY Typed, ThreadFields DEF ServesTaken, Busy
<1>4. Busy => sock'[thread.peer] = sock[thread.peer]
  BY <1>2, <1>3
<1> QED
  BY <1>1, <1>4 DEF OneChange, Busy

LEMMA TableInvariant ==
  ASSUME ~LiveAdds
  PROVE  Spec => []TableInv
<1>1. Init => TableInv
  <2>1. Init => ServesTaken
    BY DEF Init, ServesTaken, Busy, Nowhere, Ready
  <2>2. Init => OwnRequests
    BY DEF Init, OwnRequests, Ready, Peer
  <2>3. Init => OneChange
    BY DEF Init, OneChange, UniqueKeys, Nowhere, Resting
  <2> QED
    BY <2>1, <2>2, <2>3, TypeInit, CoherentInvInit DEF TableInv
<1>2. TableInv /\ [Next]_vars => TableInv'
  <2> SUFFICES ASSUME TableInv, [Next]_vars PROVE TableInv'
    OBVIOUS
  <2> USE DEF TableInv
  <2>1. TypeOK'
    <3>1. TypeOK /\ UNCHANGED vars => TypeOK'
      BY DEF TypeOK, vars, serverVars, clientVars
    <3> QED
      BY <3>1, TypeOwner, TypeThread, TypePeer DEF Next
  <2>2. ServesTaken' /\ OwnRequests'
    BY ServesTakenKept, OwnRequestsKept
  <2>3. CoherentInv'
    BY CoherentInvOwner, CoherentInvThread, CoherentInvPeer DEF Next
  <2>4. OneChange'
    <3>1. UNCHANGED vars => OneChange'
      BY DEF OneChange, vars, serverVars
    <3> QED
      BY <3>1, OneChangeOwner, OneChangeThread, OneChangePeer DEF Next
  <2> QED
    BY <2>1, <2>2, <2>3, <2>4
<1> QED
  BY <1>1, <1>2, PTL DEF Spec

-----------------------------------------------------------------------------
(* The key of the map names one protocol and adapter.                      *)
KeysTellApart ==
  \A d, e \in Entry : Key(d) = Key(e) => Service!SameProtocol(d, e)

(* What a key is made of.                                                  *)
BarFree(s) == \A i \in DOMAIN s : s[i] # Bar
Join(a, b) == a \o <<Bar>> \o b

LEMMA Joined ==
  ASSUME NEW a \in Seq(Char), NEW b \in Seq(Char)
  PROVE  /\ Len(Join(a, b)) = Len(a) + 1 + Len(b)
         /\ \A i \in 1 .. Len(a) : Join(a, b)[i] = a[i]
         /\ Join(a, b)[Len(a) + 1] = Bar
         /\ \A i \in 1 .. Len(b) : Join(a, b)[Len(a) + 1 + i] = b[i]
<1> PICK c : c = a \o <<Bar>>
  OBVIOUS
<1>0. Bar \in Char
  BY EntryAssumption
<1>1. /\ c \in Seq(Char) /\ Len(c) = Len(a) + 1
      /\ \A i \in 1 .. Len(a) : c[i] = a[i]
      /\ c[Len(a) + 1] = Bar
  BY <1>0
<1>2. c \o b \in Seq(Char) /\ Len(c \o b) = Len(c) + Len(b)
  BY <1>1
<1>3. \A i \in 1 .. Len(c) : (c \o b)[i] = c[i]
  BY <1>1
<1>4. \A i \in 1 .. Len(b) : (c \o b)[Len(c) + i] = b[i]
  BY <1>1
<1>5. Len(a) \in Nat /\ Len(b) \in Nat
  OBVIOUS
<1>6. \A i \in 1 .. Len(a) : i \in 1 .. Len(c)
  BY <1>1, <1>5
<1>7. Len(a) + 1 \in 1 .. Len(c)
  BY <1>1, <1>5
<1> QED
  BY <1>1, <1>2, <1>3, <1>4, <1>5, <1>6, <1>7 DEF Join

LEMMA BarEndsTheName ==
  ASSUME NEW a \in Seq(Char), NEW b \in Seq(Char), NEW c \in Seq(Char), NEW d \in Seq(Char),
         BarFree(c),
         Join(a, b) = Join(c, d)
  PROVE  ~ Len(a) < Len(c)
<1> SUFFICES ASSUME Len(a) < Len(c) PROVE FALSE
  OBVIOUS
<1>1. Len(a) + 1 \in 1 .. Len(c)
  OBVIOUS
<1>2. Join(a, b)[Len(a) + 1] = Bar
  BY Joined
<1>3. \A i \in 1 .. Len(c) : Join(c, d)[i] = c[i]
  BY Joined
<1> QED
  BY <1>1, <1>2, <1>3 DEF BarFree

LEMMA JoinedOnce ==
  ASSUME NEW a \in Seq(Char), NEW b \in Seq(Char), NEW f \in Seq(Char), NEW g \in Seq(Char),
         BarFree(a), BarFree(f),
         Join(a, b) = Join(f, g)
  PROVE  a = f /\ b = g
<1>4. Len(a) = Len(f)
  <2>1. ~ Len(a) < Len(f)
    BY BarEndsTheName
  <2>2. ~ Len(f) < Len(a)
    BY BarEndsTheName
  <2> QED
    BY <2>1, <2>2
<1>5. PICK u : u = Join(a, b)
  OBVIOUS
<1>12. u = Join(f, g)
  BY <1>5
<1>6. /\ Len(u) = Len(a) + 1 + Len(b)
      /\ \A i \in 1 .. Len(a) : u[i] = a[i]
      /\ \A i \in 1 .. Len(b) : u[Len(a) + 1 + i] = b[i]
  BY <1>5, Joined
<1>7. /\ Len(u) = Len(f) + 1 + Len(g)
      /\ \A i \in 1 .. Len(f) : u[i] = f[i]
      /\ \A i \in 1 .. Len(g) : u[Len(f) + 1 + i] = g[i]
  BY <1>12, Joined
<1>8. Len(a) \in Nat /\ Len(b) \in Nat /\ Len(g) \in Nat
  OBVIOUS
<1>9. Len(b) = Len(g)
  BY <1>4, <1>6, <1>7, <1>8
<1>10. a = f
  <2>1. \A i \in 1 .. Len(a) : a[i] = f[i]
    BY <1>4, <1>6, <1>7
  <2> QED
    BY <1>4, <2>1
<1>11. b = g
  <2>1. \A i \in 1 .. Len(b) : b[i] = g[i]
    BY <1>4, <1>6, <1>7, <1>9
  <2> QED
    BY <1>9, <2>1
<1> QED
  BY <1>10, <1>11

(* It does whenever no name of a protocol holds the separator.             *)
LEMMA NamesWithoutBar ==
  ASSUME \A e \in Entry : BarFree(e.protocol_name)
  PROVE  KeysTellApart
<1> SUFFICES ASSUME NEW d \in Entry, NEW e \in Entry, Key(d) = Key(e)
             PROVE  /\ d.protocol_name = e.protocol_name
                    /\ d.adapter_descriptor = e.adapter_descriptor
  BY DEF KeysTellApart, Service!SameProtocol
<1>1. /\ d.protocol_name \in Seq(Char) /\ d.adapter_descriptor \in Seq(Char)
      /\ e.protocol_name \in Seq(Char) /\ e.adapter_descriptor \in Seq(Char)
  BY EntryAssumption
<1>2. Join(d.protocol_name, d.adapter_descriptor) = Join(e.protocol_name, e.adapter_descriptor)
  BY DEF Key, Join
<1> QED
  BY <1>1, <1>2, JoinedOnce

-----------------------------------------------------------------------------
(* The call of a peer, in each state of its socket.                        *)

(* The request is carried out, only its answer is missing.                 *)
Done(p) == thread = Serving("replaced", p, <<>>)

LEMMA CallStates ==
  ASSUME TypeOK, NEW p \in Peer, p \notin gaveUp
  PROVE  /\ sock[p].at = "ready" => CallOf(p) = Service!Idle
         /\ sock[p].at = "sent" => CallOf(p) = Service!Pending(sock[p].request)
         /\ sock[p].at = "taken" /\ ~Done(p) =>
              CallOf(p) = Service!Pending(sock[p].request)
         /\ sock[p].at = "taken" /\ Done(p) =>
              CallOf(p) = Service!Acknowledged
         /\ sock[p].at = "listing" => CallOf(p) = Service!Listed(ToSet(sock[p].entries))
         /\ sock[p].at = "reply" =>
              CallOf(p) = IF sock[p].text = "OK" THEN Service!Acknowledged ELSE Service!Refused
BY DEF CallOf, Done, Service!Idle, Service!Pending, Service!Acknowledged, Service!Listed,
       Service!Refused

LEMMA Untouched ==
  ASSUME NEW p \in Peer, sock'[p] = sock[p], p \in gaveUp' <=> p \in gaveUp,
         Done(p)' <=> Done(p)
  PROVE  CallOf(p)' = CallOf(p)
BY DEF CallOf, Done

CallMap == [p \in Peer |-> CallOf(p)]
serviceVars == <<ToSet(list), CallMap>>

LEMMA OneCall ==
  ASSUME NEW p \in Peer, NEW x, CallOf(p)' = x,
         \A q \in Peer \ {p} : CallOf(q)' = CallOf(q)
  PROVE  CallMap' = [CallMap EXCEPT ![p] = x]
BY DEF CallMap

LEMMA NoCall ==
  ASSUME \A q \in Peer : CallOf(q)' = CallOf(q)
  PROVE  CallMap' = CallMap
BY DEF CallMap

LEMMA LostCall ==
  ASSUME NEW p \in gaveUp, p \in gaveUp'
  PROVE  CallOf(p)' = CallOf(p)
BY DEF CallOf, Done

(* The table without an entry is what Service says it is.                  *)
LEMMA TableWithout ==
  ASSUME KeysTellApart, NEW s \in Seq(Entry), NEW e \in Entry
  PROVE  Others(ToSet(s), e) = {d \in ToSet(s) : ~Service!SameProtocol(d, e)}
<1>1. ToSet(s) \subseteq Entry
  BY EntriesOf
<1>2. \A d \in Entry : Service!SameProtocol(d, e) <=> Key(d) = Key(e)
  BY DEF KeysTellApart, Service!SameProtocol, Key
<1> QED
  BY <1>1, <1>2 DEF Others

-----------------------------------------------------------------------------
(* Every step is one of the service or leaves the calls as they are.       *)

(* Where the thread is makes no difference to a call until its list is     *)
(* replaced.                                                               *)
LEMMA QuietStep ==
  ASSUME sock' = sock, gaveUp' = gaveUp, list' = list,
         thread'.at # "replaced", thread.at # "replaced"
  PROVE  UNCHANGED serviceVars
<1>1. \A p \in Peer : ~Done(p) /\ ~Done(p)'
  BY DEF Done, Serving
<1>2. \A p \in Peer : CallOf(p)' = CallOf(p)
  BY <1>1, Untouched
<1> QED
  BY <1>2, NoCall DEF serviceVars

LEMMA SameStep ==
  ASSUME sock' = sock, gaveUp' = gaveUp, list' = list, thread' = thread
  PROVE  UNCHANGED serviceVars
<1>1. \A p \in Peer : CallOf(p)' = CallOf(p)
  BY Untouched DEF Done
<1> QED
  BY <1>1, NoCall DEF serviceVars

LEMMA OwnerRefines ==
  ASSUME KeysTellApart, TableInv, OwnerStep
  PROVE  [Service!Next]_serviceVars
<1> USE DEF TableInv
<1>1. ASSUME NEW e \in Entry, AddProtocol(e) PROVE UNCHANGED serviceVars
  BY <1>1, SameStep DEF AddProtocol, clientVars
<1>2. CASE OwnerReadsMap \/ StartRunning \/ StopRunning
  BY <1>2, SameStep DEF OwnerReadsMap, StartRunning, StopRunning, clientVars
<1>3. CASE OwnerReplacesList
  <2>1. owner.at = "read" /\ list' = protocols /\ UNCHANGED <<thread, sock, gaveUp>>
    BY <1>3 DEF OwnerReplacesList, CoherentInv, clientVars
  <2>2. PICK e \in Entry : ToSet(protocols) = Others(ToSet(list), e) \cup {e}
    BY <2>1 DEF OneChange
  <2>3. CallMap' = CallMap
    BY <2>1, Untouched, NoCall DEF Done
  <2>4. ToSet(list') = {d \in ToSet(list) : ~Service!SameProtocol(d, e)} \cup {e}
    BY <2>1, <2>2, TableWithout DEF TypeOK
  <2>5. Service!AddDirectly(e)
    BY <2>3, <2>4 DEF Service!AddDirectly, Service!Without, CallMap
  <2> QED
    BY <2>5 DEF Service!Next
<1> QED
  BY <1>1, <1>2, <1>3 DEF OwnerStep

(* The thread answers one peer at a time.                                  *)
LEMMA AnswerRefines ==
  ASSUME TableInv, NEW p \in Peer, AnswerList(p) \/ AnswerUnknown(p)
  PROVE  [Service!Next]_serviceVars
<1> USE DEF TableInv
<1>0. sock \in [Peer -> SocketState] /\ thread \in ThreadState
  BY Typed
<1>1. /\ thread = Serving("handle", p, <<>>) /\ thread' = Running("check")
      /\ UNCHANGED <<list, gaveUp>>
      /\ \A q \in Peer \ {p} : sock'[q] = sock[q]
  BY <1>0 DEF AnswerList, AnswerUnknown, Handles, Goto, clientVars
<1>2. \A q \in Peer : ~Done(q) /\ ~Done(q)'
  BY <1>1 DEF Done, Serving, Running
<1>3. \A q \in Peer \ {p} : CallOf(q)' = CallOf(q)
  BY <1>1, <1>2, Untouched
<1>4. sock[p].at = "taken" /\ sock[p].request \in Request_
  BY <1>0, <1>1, SocketFields DEF ServesTaken, Busy, Serving
<1>5. CASE p \in gaveUp
  <2>1. \A q \in Peer : CallOf(q)' = CallOf(q)
    BY <1>1, <1>3, <1>5, LostCall
  <2> QED
    BY <1>1, <2>1, NoCall DEF serviceVars
<1>6. CASE p \notin gaveUp
  <2>1. CallMap[p] = Service!Pending(sock[p].request)
    BY <1>2, <1>4, <1>6, CallStates DEF CallMap
  <2>2. CASE AnswerList(p)
    <3>1. sock[p].request = Service!ListRequest
      BY <1>4, <2>2, Requests DEF AnswerList, Handles, ListRequest, Service!ListRequest
    <3>2. p \in Client
      <4>1. sock[p].request \notin RegistrarRequest
        BY <2>2 DEF AnswerList, Handles, RegistrarRequest, AddRequest, RemoveRequest,
                    UnknownRequest
      <4> QED
        BY <1>4, <4>1 DEF OwnRequests, Peer
    <3>3. sock'[p] = Listing(list)
      BY <1>0, <2>2 DEF AnswerList
    <3>4. CallOf(p)' = Service!Listed(ToSet(list))
      BY <1>1, <1>6, <3>3 DEF CallOf, Done, Listing, Service!Listed
    <3>5. CallMap' = [CallMap EXCEPT ![p] = Service!Listed(ToSet(list))]
      BY <1>3, <3>4, OneCall
    <3>6. Service!List(p)
      BY <1>1, <2>1, <3>1, <3>5 DEF Service!List, CallMap
    <3> QED
      BY <3>2, <3>6 DEF Service!Next
  <2>3. CASE AnswerUnknown(p)
    <3>1. sock[p].request = Service!UnknownRequest
      BY <1>4, <2>3, Requests DEF AnswerUnknown, Handles, UnknownRequest, Service!UnknownRequest
    <3>2. p \in Registrar
      <4>1. sock[p].request # ListRequest
        BY <3>1 DEF ListRequest, Service!UnknownRequest
      <4> QED
        BY <1>4, <4>1 DEF OwnRequests, Peer
    <3>3. sock'[p] = Reply("refused")
      BY <1>0, <2>3 DEF AnswerUnknown
    <3>4. CallOf(p)' = Service!Refused
      BY <1>1, <1>6, <3>3 DEF CallOf, Done, Reply, Service!Refused
    <3>5. CallMap' = [CallMap EXCEPT ![p] = Service!Refused]
      BY <1>3, <3>4, OneCall
    <3>6. Service!Refuse(p)
      BY <1>1, <2>1, <3>1, <3>5 DEF Service!Refuse, CallMap
    <3> QED
      BY <3>2, <3>6 DEF Service!Next
  <2> QED
    BY <2>2, <2>3
<1> QED
  BY <1>5, <1>6

(* The moment an add or a remove takes effect.                             *)
LEMMA ReplaceListRefines ==
  ASSUME KeysTellApart, TableInv, ReplaceList
  PROVE  [Service!Next]_serviceVars
<1> USE DEF TableInv
<1> PICK p, req : p = thread.peer /\ req = sock[p].request
  OBVIOUS
<1>0. sock \in [Peer -> SocketState] /\ thread \in ThreadState
  BY Typed
<1>1. /\ thread.at = "read" /\ thread' = Serving("replaced", p, <<>>)
      /\ list' = protocols /\ UNCHANGED <<sock, gaveUp>>
  BY DEF ReplaceList, Goto, CoherentInv, clientVars
<1>2. p \in Peer /\ sock[p].at = "taken" /\ req \in Request_
  BY <1>0, <1>1, ThreadFields, SocketFields DEF ServesTaken, Busy
<1>3. req.kind \in {"add", "remove"} /\ ToSet(protocols) = Effect(ToSet(list), req)
  BY <1>1 DEF OneChange
<1>4. req.entry \in Entry
  BY <1>2, <1>3, Requests
<1>5. p \in Registrar /\ p \notin gaveUp
  <2>1. req # ListRequest
    BY <1>3 DEF ListRequest
  <2>2. p \in Registrar
    BY <1>2, <2>1 DEF OwnRequests, Peer
  <2> QED
    BY <2>2, PeerAssumption DEF TypeOK
<1>6. \A q \in Peer \ {p} : CallOf(q)' = CallOf(q)
  <2>1. \A q \in Peer \ {p} : ~Done(q) /\ ~Done(q)'
    BY <1>1 DEF Done, Serving
  <2> QED
    BY <1>1, <2>1, Untouched
<1>7. CallMap[p] = Service!Pending(req)
  <2>1. ~Done(p)
    BY <1>1 DEF Done, Serving
  <2> QED
    BY <1>2, <1>5, <2>1, CallStates DEF CallMap
<1>8. CallOf(p)' = Service!Acknowledged
  BY <1>1, <1>2, <1>5 DEF CallOf, Done, Service!Acknowledged
<1>9. CallMap' = [CallMap EXCEPT ![p] = Service!Acknowledged]
  BY <1>2, <1>6, <1>8, OneCall
<1>10. Others(ToSet(list), req.entry) = {d \in ToSet(list) : ~Service!SameProtocol(d, req.entry)}
  BY <1>4, TableWithout DEF TypeOK
<1>11. CASE req.kind = "add"
  <2>1. req = Service!AddRequest(req.entry)
    BY <1>2, <1>11, Requests DEF AddRequest, Service!AddRequest
  <2>2. Service!Add(p, req.entry)
    BY <1>1, <1>3, <1>7, <1>9, <1>10, <1>11, <2>1
       DEF Effect, Service!Add, Service!Without, CallMap
  <2> QED
    BY <1>4, <1>5, <2>2 DEF Service!Next
<1>12. CASE req.kind = "remove"
  <2>1. req = Service!RemoveRequest(req.entry)
    BY <1>2, <1>12, Requests DEF RemoveRequest, Service!RemoveRequest
  <2>2. Service!Remove(p, req.entry)
    BY <1>1, <1>3, <1>7, <1>9, <1>10, <1>12, <2>1
       DEF Effect, Service!Remove, Service!Without, CallMap
  <2> QED
    BY <1>4, <1>5, <2>2 DEF Service!Next
<1> QED
  BY <1>3, <1>11, <1>12

LEMMA AcknowledgeRefines ==
  ASSUME TableInv, Acknowledge
  PROVE  UNCHANGED serviceVars
<1> USE DEF TableInv
<1> PICK p : p = thread.peer
  OBVIOUS
<1>0. sock \in [Peer -> SocketState] /\ thread \in ThreadState
  BY Typed
<1>1. /\ thread.at = "replaced" /\ thread' = Running("check")
      /\ UNCHANGED <<list, gaveUp>>
      /\ sock' = [sock EXCEPT ![p] = Reply("OK")]
  BY DEF Acknowledge, Goto, clientVars
<1>2. thread = Serving("replaced", p, <<>>) /\ p \in Peer /\ sock[p].at = "taken"
  BY <1>0, <1>1, ThreadFields DEF OneChange, ServesTaken, Busy
<1>3. \A q \in Peer \ {p} : CallOf(q)' = CallOf(q)
  <2>1. \A q \in Peer \ {p} : ~Done(q) /\ ~Done(q)'
    BY <1>1, <1>2 DEF Done, Serving, Running
  <2>2. \A q \in Peer \ {p} : sock'[q] = sock[q]
    BY <1>0, <1>1
  <2> QED
    BY <1>1, <2>1, <2>2, Untouched
<1>4. CallOf(p)' = CallOf(p)
  <2>1. sock'[p] = Reply("OK")
    BY <1>0, <1>1, <1>2
  <2> QED
    BY <1>1, <1>2, <2>1 DEF CallOf, Done, Reply
<1> QED
  BY <1>1, <1>3, <1>4, NoCall DEF serviceVars

LEMMA ThreadRefines ==
  ASSUME KeysTellApart, TableInv, ThreadStep
  PROVE  [Service!Next]_serviceVars
<1> USE DEF TableInv
<1>0. sock \in [Peer -> SocketState]
  BY Typed
<1>1. CASE Bind \/ Publish \/ EndLoop \/ ReceiveTimesOut \/ ReadMap
           \/ \E p \in Peer : HandleAdd(p) \/ HandleRemove(p)
  <2>1. sock' = sock /\ gaveUp' = gaveUp /\ list' = list
    BY <1>1 DEF Bind, Publish, EndLoop, ReceiveTimesOut, ReadMap, HandleAdd, HandleRemove, Goto,
                clientVars
  <2>2. thread'.at # "replaced" /\ thread.at # "replaced"
    BY <1>1 DEF Bind, Publish, EndLoop, ReceiveTimesOut, ReadMap, HandleAdd, HandleRemove,
                Handles, Goto, Running, Serving
  <2> QED
    BY <2>1, <2>2, QuietStep
<1>2. CASE BindThrows
  BY <1>2, SameStep DEF BindThrows, clientVars
<1>3. ASSUME NEW p \in Peer, Receive(p) PROVE UNCHANGED serviceVars
  <2>1. /\ thread.at = "receive" /\ thread' = Serving("handle", p, <<>>)
        /\ UNCHANGED <<list, gaveUp>> /\ sock[p].at = "sent"
        /\ sock' = [sock EXCEPT ![p] = Taken(sock[p].request)]
    BY <1>3 DEF Receive, Goto, clientVars
  <2>2. \A q \in Peer : ~Done(q) /\ ~Done(q)'
    BY <2>1 DEF Done, Serving
  <2>3. \A q \in Peer \ {p} : CallOf(q)' = CallOf(q)
    BY <1>0, <2>1, <2>2, Untouched
  <2>4. CallOf(p)' = CallOf(p)
    <3>1. sock'[p] = Taken(sock[p].request)
      BY <1>0, <2>1
    <3> QED
      BY <2>1, <2>2, <3>1 DEF CallOf, Done, Taken
  <2> QED
    BY <2>1, <2>3, <2>4, NoCall DEF serviceVars
<1> QED
  BY <1>1, <1>2, <1>3, AnswerRefines, ReplaceListRefines, AcknowledgeRefines DEF ThreadStep

LEMMA PeerRefines ==
  ASSUME TableInv, PeerStep
  PROVE  [Service!Next]_serviceVars
<1> USE DEF TableInv
<1>0. sock \in [Peer -> SocketState]
  BY Typed
<1>1. list' = list /\ thread' = thread
  BY DEF PeerStep, QueryProtocols, QueryThrows, QueryTimesOut, QueryReturns, AddChangeCallback,
         Request, RequestReturns, serverVars
<1>2. ASSUME NEW c \in Client, QueryProtocols(c) PROVE [Service!Next]_serviceVars
  <2>1. c \in Peer /\ sock[c] = Ready /\ sock' = [sock EXCEPT ![c] = Sent(ListRequest)]
        /\ gaveUp' = gaveUp
    BY <1>2 DEF QueryProtocols, clientVars, Peer
  <2>2. \A q \in Peer \ {c} : CallOf(q)' = CallOf(q)
    BY <1>0, <1>1, <2>1, Untouched DEF Done
  <2>3. CASE c \in gaveUp
    BY <1>1, <2>1, <2>2, <2>3, LostCall, NoCall DEF serviceVars
  <2>4. CASE c \notin gaveUp
    <3>1. CallMap[c] = Service!Idle
      BY <2>1, <2>4, CallStates DEF CallMap, Ready
    <3>2. CallOf(c)' = Service!Pending(Service!ListRequest)
      <4>1. sock'[c] = Sent(ListRequest)
        BY <1>0, <2>1
      <4> QED
        BY <2>1, <2>4, <4>1
           DEF CallOf, Done, Sent, ListRequest, Service!Pending, Service!ListRequest
    <3>3. CallMap' = [CallMap EXCEPT ![c] = Service!Pending(Service!ListRequest)]
      BY <2>1, <2>2, <3>2, OneCall
    <3>4. Service!Call(c, Service!ListRequest)
      BY <1>1, <3>1, <3>3 DEF Service!Call, CallMap
    <3> QED
      BY <3>4 DEF Service!Next
  <2> QED
    BY <2>3, <2>4
<1>3. ASSUME NEW c \in Client, QueryThrows(c) \/ AddChangeCallback(c) PROVE UNCHANGED serviceVars
  BY <1>1, <1>3, SameStep DEF QueryThrows, AddChangeCallback
<1>4. ASSUME NEW c \in Client, QueryTimesOut(c) PROVE [Service!Next]_serviceVars
  <2>1. /\ c \in Peer /\ sock[c] # Ready /\ c \notin gaveUp
        /\ sock' = sock /\ gaveUp' = gaveUp \cup {c}
    BY <1>4 DEF QueryTimesOut, Awaiting, Peer
  <2>2. \A q \in Peer \ {c} : CallOf(q)' = CallOf(q)
    BY <1>1, <2>1, Untouched DEF Done
  <2>3. CallOf(c)' = Service!Lost
    BY <2>1 DEF CallOf, Done, Service!Lost
  <2>4. CallMap' = [CallMap EXCEPT ![c] = Service!Lost]
    BY <2>1, <2>2, <2>3, OneCall
  <2>5. CallMap[c].at \in {"pending", "listed", "acknowledged", "refused"}
    <3>1. sock[c].at \in {"sent", "taken", "listing", "reply"}
      BY <1>0, <2>1, SocketFields
    <3> QED
      BY <2>1, <3>1, CallStates
         DEF CallMap, Service!Pending, Service!Acknowledged, Service!Listed, Service!Refused
  <2>6. Service!GiveUp(c)
    BY <1>1, <2>4, <2>5 DEF Service!GiveUp, Service!Answered, CallMap
  <2> QED
    BY <2>6 DEF Service!Next
<1>5. ASSUME NEW p \in Peer, p \notin gaveUp, sock[p].at \in {"listing", "reply"},
             sock' = [sock EXCEPT ![p] = Ready], gaveUp' = gaveUp
      PROVE  Service!Return(p)
  <2>1. \A q \in Peer \ {p} : CallOf(q)' = CallOf(q)
    BY <1>0, <1>1, <1>5, Untouched DEF Done
  <2>2. CallOf(p)' = Service!Idle
    <3>1. sock'[p] = Ready
      BY <1>0, <1>5
    <3> QED
      BY <1>5, <3>1 DEF CallOf, Done, Ready, Service!Idle
  <2>3. CallMap' = [CallMap EXCEPT ![p] = Service!Idle]
    BY <2>1, <2>2, OneCall
  <2>4. CallMap[p].at \in {"listed", "acknowledged", "refused"}
    BY <1>5, CallStates DEF CallMap, Service!Acknowledged, Service!Listed, Service!Refused
  <2> QED
    BY <1>1, <2>3, <2>4 DEF Service!Return, Service!Answered, CallMap
<1>6. ASSUME NEW c \in Client, QueryReturns(c) PROVE [Service!Next]_serviceVars
  <2>1. Service!Return(c)
    BY <1>5, <1>6 DEF QueryReturns, Peer
  <2> QED
    BY <2>1 DEF Service!Next
<1>7. ASSUME NEW r \in Registrar, RequestReturns(r) PROVE [Service!Next]_serviceVars
  <2>1. r \in Peer /\ r \notin gaveUp
    BY PeerAssumption DEF TypeOK, Peer
  <2>2. Service!Return(r)
    BY <1>5, <1>7, <2>1 DEF RequestReturns, clientVars
  <2> QED
    BY <2>2 DEF Service!Next
<1>8. ASSUME NEW r \in Registrar, NEW req \in RegistrarRequest, Request(r, req)
      PROVE  [Service!Next]_serviceVars
  <2>1. r \in Peer /\ r \notin gaveUp
    BY PeerAssumption DEF TypeOK, Peer
  <2>2. sock[r] = Ready /\ sock' = [sock EXCEPT ![r] = Sent(req)] /\ gaveUp' = gaveUp
    BY <1>8 DEF Request, clientVars
  <2>3. \A q \in Peer \ {r} : CallOf(q)' = CallOf(q)
    BY <1>0, <1>1, <2>2, Untouched DEF Done
  <2>4. CallMap[r] = Service!Idle
    BY <2>1, <2>2, CallStates DEF CallMap, Ready
  <2>5. CallOf(r)' = Service!Pending(req)
    <3>1. sock'[r] = Sent(req)
      BY <1>0, <2>1, <2>2
    <3> QED
      BY <2>1, <2>2, <3>1 DEF CallOf, Done, Sent, Service!Pending
  <2>6. CallMap' = [CallMap EXCEPT ![r] = Service!Pending(req)]
    BY <2>1, <2>3, <2>5, OneCall
  <2>7. Service!Call(r, req)
    BY <1>1, <2>4, <2>6 DEF Service!Call, CallMap
  <2>8. \/ req = Service!UnknownRequest
        \/ \E e \in Entry : req = Service!AddRequest(e) \/ req = Service!RemoveRequest(e)
    BY DEF RegistrarRequest, AddRequest, RemoveRequest, UnknownRequest, Service!UnknownRequest,
           Service!AddRequest, Service!RemoveRequest
  <2> QED
    BY <2>7, <2>8 DEF Service!Next
<1> QED
  BY <1>2, <1>3, <1>4, <1>6, <1>7, <1>8 DEF PeerStep

(* Every request takes effect at one moment between its call and its       *)
(* return, on the one table: a list answered holds all that was            *)
(* acknowledged before it was asked for, and nothing removed before.       *)
THEOREM DirectoryIsOneTable ==
  ASSUME ~LiveAdds, KeysTellApart
  PROVE  Spec => ServiceSpec
<1>1. Init => Service!Init
  <2> SUFFICES ASSUME Init PROVE Service!Init
    OBVIOUS
  <2>1. ToSet(list) = {}
    BY DEF Init, ToSet
  <2>2. \A p \in Peer : CallOf(p) = Service!Idle
    BY DEF Init, CallOf, Ready, Service!Idle
  <2> QED
    BY <2>1, <2>2 DEF Service!Init, Peer
<1>2. TableInv /\ [Next]_vars => [Service!Next]_<<ToSet(list), [p \in Peer |-> CallOf(p)]>>
  <2>1. UNCHANGED vars => UNCHANGED serviceVars
    BY SameStep DEF vars, serverVars, clientVars
  <2>2. TableInv /\ [Next]_vars => [Service!Next]_serviceVars
    BY <2>1, OwnerRefines, ThreadRefines, PeerRefines DEF Next
  <2> QED
    BY <2>2 DEF serviceVars, CallMap
<1> QED
  BY <1>1, <1>2, TableInvariant, PTL DEF Spec, ServiceSpec, Service!Spec
=============================================================================
