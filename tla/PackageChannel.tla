---------------------------- MODULE PackageChannel ----------------------------
(***************************************************************************)
(* The publishing half of libs/services, and apps/ProtoProxy: publishers   *)
(* send packages of two frames, to the clients that connect to them or by  *)
(* way of a proxy; subscriptions travel the other way.                     *)
(*                                                                         *)
(* ZeroMQ is modelled from its use in the code.  A link is the connection  *)
(* of two sockets: the sender knows the subscriptions that have reached    *)
(* it, sends a package once to every link where some topic is a prefix of  *)
(* the header frame, and drops it for a link whose pipe is full.  Frames   *)
(* of one package stay together.                                           *)
(***************************************************************************)
EXTENDS Integers, SequencesExt, FiniteSetsExt

CONSTANTS
  Publisher,    \* ProtocolPublisher objects
  Client,       \* ProtocolClient objects
  Proxy,        \* the proxy
  Link,         \* pairs of sender and receiver, see LinkAssumption
  HeaderOf(_),  \* of each publisher: it serves one protocol and one adapter
  Data,         \* contents of packages
  Topic,        \* arguments of subscribe
  HighWater(_), \* packages the pipe of a link holds
  Bar,          \* the character '|'
  NoPackage

Node == Publisher \cup Client \cup {Proxy}

Header == [protocol_name : Seq(Nat), source : Seq(Nat)]

ASSUME NodeAssumption ==
  Publisher \cap Client = {} /\ Proxy \notin Publisher \cup Client
ASSUME LinkAssumption ==
  Link \subseteq Publisher \X (Client \cup {Proxy}) \cup {Proxy} \X Client
(* A publisher connects to the proxy, or binds and waits for clients.      *)
ASSUME RouteAssumption ==
  \A p \in Publisher : <<p, Proxy>> \in Link => \A c \in Client : <<p, c>> \notin Link
(* ProtocolMessages.hpp: the name comes before the first bar.              *)
ASSUME HeaderAssumption ==
  /\ Bar \in Nat
  /\ \A p \in Publisher :
       HeaderOf(p) \in Header /\ \A k \in DOMAIN HeaderOf(p).protocol_name :
                                   HeaderOf(p).protocol_name[k] # Bar
ASSUME HighWaterAssumption == \A l \in Link : HighWater(l) \in Nat \ {0}
ASSUME TopicAssumption == Topic \subseteq Seq(Nat)

VARIABLES
  up,      \* nodes whose socket is bound or connected
  topics,  \* what each client subscribed to
  known,   \* of each link: topics that have reached its sender
  pipe,    \* of each link: packages its receiver has not read
  got      \* what receiveSubscribed of each client returned last

vars == <<up, topics, known, pipe, got>>

-----------------------------------------------------------------------------
(* The header frame.                                                       *)

(* MUTANT: the source comes first.                                         *)
Text_SourceFirst(h) ==
  IF h.source = <<>> THEN h.protocol_name ELSE h.source \o <<Bar>> \o h.protocol_name

(* MUTANT: no bar between the two.                                         *)
Text_NoBar(h) == h.protocol_name \o h.source

(* makeHeaderMessage *)
Text(h) == IF h.source = <<>> THEN h.protocol_name ELSE h.protocol_name \o <<Bar>> \o h.source

Bars(text) == {k \in DOMAIN text : text[k] = Bar}

(* MUTANT: splits at the last bar.                                         *)
Split_Last(text) ==
  IF Bars(text) = {} THEN [protocol_name |-> text, source |-> <<>>]
  ELSE [protocol_name |-> SubSeq(text, 1, Max(Bars(text)) - 1),
        source |-> SubSeq(text, Max(Bars(text)) + 1, Len(text))]

(* receiveSubscribed *)
Split(text) ==
  IF Bars(text) = {} THEN [protocol_name |-> text, source |-> <<>>]
  ELSE [protocol_name |-> SubSeq(text, 1, Min(Bars(text)) - 1),
        source |-> SubSeq(text, Min(Bars(text)) + 1, Len(text))]

-----------------------------------------------------------------------------
Init ==
  /\ up = {}
  /\ topics = [c \in Client |-> {}]
  /\ known = [l \in Link |-> {}]
  /\ pipe = [l \in Link |-> <<>>]
  /\ got = [c \in Client |-> NoPackage]

Open(n) ==
  /\ n \notin up
  /\ up' = up \cup {n}
  /\ UNCHANGED <<topics, known, pipe, got>>

(* ProtocolPublisher::bind: connects when there is a proxy.  Either end of *)
(* a link may be opened first.                                             *)
Bind(p) == p \in Publisher /\ Open(p)

(* ProtocolClient::bind *)
Connect(c) == c \in Client /\ Open(c)

(* ProtoProxy binds its two sockets.                                       *)
StartProxy == Open(Proxy)

(* The process of a node ends; it may be started again.  What it has sent  *)
(* may still be read, and before what it sends when it is started again.   *)
End(n) ==
  /\ n \in up
  /\ up' = up \ {n}
  /\ known' = [l \in Link |-> IF n \in {l[1], l[2]} THEN {} ELSE known[l]]
  /\ pipe' = [l \in Link |-> IF n = l[2] THEN <<>> ELSE pipe[l]]
  /\ topics' = [c \in Client |-> IF c = n THEN {} ELSE topics[c]]
  /\ got' = [c \in Client |-> IF c = n THEN NoPackage ELSE got[c]]

(* The last that a sender had on the way when it ended does not arrive.    *)
Lost(l) ==
  /\ l[1] \notin up /\ pipe[l] # <<>>
  /\ pipe' = [pipe EXCEPT ![l] = Front(@)]
  /\ UNCHANGED <<up, topics, known, got>>

Subscribe(c, t) ==
  /\ topics' = [topics EXCEPT ![c] = @ \cup {t}]
  /\ UNCHANGED <<up, known, pipe, got>>

(* What a node asks of those that send to it: the proxy, what it is asked. *)
Wanted(n) ==
  IF n \in Client THEN topics[n] ELSE UNION {known[l] : l \in {k \in Link : k[1] = n}}

(* A subscription reaches the sender of a link.                            *)
Learn(l, t) ==
  /\ {l[1], l[2]} \subseteq up
  /\ t \in Wanted(l[2]) \ known[l]
  /\ known' = [known EXCEPT ![l] = @ \cup {t}]
  /\ UNCHANGED <<up, topics, pipe, got>>

Matching(l, text) == {t \in known[l] : IsPrefix(t, text)}

(* The pipes after a node sends a message, dropped where it finds no room. *)
SentFrom(n, message, pipes) ==
  [l \in Link |->
     IF l[1] = n /\ Matching(l, message.text) # {} /\ Len(pipes[l]) < HighWater(l)
     THEN Append(pipes[l], message) ELSE pipes[l]]

(* ProtocolPublisher::send.  The sender is kept with the message for the   *)
(* refinement below.                                                       *)
Publish(p, data) ==
  /\ p \in up
  /\ pipe' = SentFrom(p, [from |-> p, text |-> Text(HeaderOf(p)), data |-> data], pipe)
  /\ UNCHANGED <<up, topics, known, got>>

(* zmq::proxy: from the frontend to the backend.                           *)
Forward(l) ==
  /\ l[2] = Proxy /\ pipe[l] # <<>>
  /\ pipe' = SentFrom(Proxy, Head(pipe[l]), [pipe EXCEPT ![l] = Tail(@)])
  /\ UNCHANGED <<up, topics, known, got>>

Opened(m) == [header |-> Split(m.text), data |-> m.data]

(* receiveSubscribed, for a package that has come.                         *)
Receive(l) ==
  /\ l[2] \in Client /\ pipe[l] # <<>>
  /\ got' = [got EXCEPT ![l[2]] = Opened(Head(pipe[l]))]
  /\ pipe' = [pipe EXCEPT ![l] = Tail(@)]
  /\ UNCHANGED <<up, topics, known>>

Next ==
  \/ \E p \in Publisher : Bind(p)
  \/ \E c \in Client : Connect(c)
  \/ StartProxy
  \/ \E n \in Node : End(n)
  \/ \E c \in Client : \E t \in Topic : Subscribe(c, t)
  \/ \E l \in Link : \E t \in Topic : Learn(l, t)
  \/ \E p \in Publisher : \E data \in Data : Publish(p, data)
  \/ \E l \in Link : Forward(l) \/ Receive(l) \/ Lost(l)

Spec == Init /\ [][Next]_vars

(* The loops of the demo server, the pusher, the proxy and the client do   *)
(* not end, and the threads of ZeroMQ carry subscriptions.                 *)
Fairness ==
  /\ \A p \in Publisher : WF_vars(\E data \in Data : Publish(p, data))
  /\ \A l \in Link :
       /\ \A t \in Topic : WF_vars(Learn(l, t))
       /\ WF_vars(Forward(l))
       /\ WF_vars(Receive(l))

FairSpec == Spec /\ Fairness

-----------------------------------------------------------------------------
(* Properties.                                                             *)

(* What publishers may send, and what clients may be given.                *)
Sent == UNION {[from : {p}, text : {Text(HeaderOf(p))}, data : Data] : p \in Publisher}
Package == [header : {HeaderOf(p) : p \in Publisher}, data : Data]

(* Packages in pipes are as some publisher sends them and on the way to a  *)
(* node that is up; clients are given headers as publishers have them (the *)
(* members of the classes, receiveSubscribed).                             *)
TypeOK ==
  /\ up \subseteq Node
  /\ topics \in [Client -> SUBSET Topic]
  /\ known \in [Link -> SUBSET Topic]
  /\ pipe \in [Link -> Seq(Sent)]
  /\ got \in [Client -> Package \cup {NoPackage}]
  /\ \A l \in Link : Len(pipe[l]) <= HighWater(l) /\ (pipe[l] # <<>> => l[2] \in up)

(* Of the packages in a pipe those of p, as a receiver reads them.         *)
PackagesOf(p, messages) ==
  FlattenSeq([k \in DOMAIN messages |->
                IF messages[k].from = p THEN <<Opened(messages[k])>> ELSE <<>>])

(* From the pipes of a proxy and those before it, one stream for each pair *)
(* of a publisher and a client; what has the farther to go comes last.     *)
Stream(pipes, c, p) ==
  (IF <<Proxy, c>> \in Link THEN PackagesOf(p, pipes[<<Proxy, c>>]) ELSE <<>>)
  \o (IF {<<p, Proxy>>, <<Proxy, c>>} \subseteq Link THEN PackagesOf(p, pipes[<<p, Proxy>>]) ELSE <<>>)
  \o (IF <<p, c>> \in Link THEN PackagesOf(p, pipes[<<p, c>>]) ELSE <<>>)

StreamsOf(pipes) == [c \in Client |-> [p \in Publisher |-> Stream(pipes, c, p)]]

Streams == INSTANCE PackageStreams WITH
  Matches <- LAMBDA t, h : IsPrefix(t, Text(h)),
  streams <- StreamsOf(pipe)

(* The channel is a set of streams with gaps: over the proxy too, nothing  *)
(* is received twice, out of turn, with another header or data than it was *)
(* sent with, or without a subscription to its protocol (send,             *)
(* receiveSubscribed).                                                     *)
StreamsSpec == Streams!Spec

(* A publisher and how it gets to a client.                                *)
Route(p, c) ==
  IF <<p, c>> \in Link THEN {p, c}
  ELSE IF {<<p, Proxy>>, <<Proxy, c>>} \subseteq Link THEN {p, Proxy, c} ELSE {}

Subscribed(p, c) == \E t \in topics[c] : IsPrefix(t, HeaderOf(p).protocol_name)

(* A client subscribed to a protocol that is published keeps receiving,    *)
(* however late it subscribed and whatever was restarted before            *)
(* (subscribe, receiveSubscribed).                                         *)
KeepsReceiving ==
  \A c \in Client : \A p \in Publisher :
    Route(p, c) # {} /\ <>[](Route(p, c) \subseteq up /\ Subscribed(p, c))
      => []<><<\E l \in Link : l[2] = c /\ Receive(l)>>_vars
=============================================================================
