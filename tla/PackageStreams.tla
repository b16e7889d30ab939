---------------------------- MODULE PackageStreams ----------------------------
(***************************************************************************)
(* What the package channel promises (ProtocolServer::publish,             *)
(* ProtocolClient::receiveSubscribed): from each publisher to each client  *)
(* runs a stream of packages.  Packages may be missing from it, at any     *)
(* place; but none comes twice, changed, out of turn or from nowhere, and  *)
(* the client is given no more than it subscribed to.                      *)
(***************************************************************************)
EXTENDS Naturals, Sequences

CONSTANTS
  Publisher, Client,
  Package,         \* packages: header and data
  Topic,
  Matches(_, _),   \* a topic and a header
  NoPackage

VARIABLES
  topics,    \* what each client subscribed to
  streams,   \* packages on their way, from each publisher to each client
  got        \* what receiveSubscribed of each client returned last

vars == <<topics, streams, got>>

Init ==
  /\ topics = [c \in Client |-> {}]
  /\ streams = [c \in Client |-> [p \in Publisher |-> <<>>]]
  /\ got = [c \in Client |-> NoPackage]

Subscribe(c, t) ==
  /\ topics' = [topics EXCEPT ![c] = @ \cup {t}]
  /\ UNCHANGED <<streams, got>>

Publish(p, package) ==
  /\ UNCHANGED <<topics, got>>
  /\ streams' \in {[c \in Client |-> IF c \in reached
                                    THEN [streams[c] EXCEPT ![p] = Append(@, package)]
                                    ELSE streams[c]] : reached \in SUBSET Client}

Receive(c, p) ==
  /\ streams[c][p] # <<>>
  /\ \E t \in topics[c] : Matches(t, Head(streams[c][p]).header)
  /\ got' = [got EXCEPT ![c] = Head(streams[c][p])]
  /\ streams' = [streams EXCEPT ![c][p] = Tail(@)]
  /\ UNCHANGED topics

(* What is left of a sequence when elements of it are lost.                *)
Thinned(t, s) ==
  \E at \in [DOMAIN t -> DOMAIN s] :
    /\ \A i, j \in DOMAIN t : i < j => at[i] < at[j]
    /\ \A i \in DOMAIN t : t[i] = s[at[i]]

Thin ==
  /\ streams' \in [Client -> [Publisher -> Seq(Package)]]
  /\ \A c \in Client : \A p \in Publisher : Thinned(streams'[c][p], streams[c][p])

Lose == UNCHANGED <<topics, got>> /\ Thin

(* A client ends and is started again; what was on its way may still come, *)
(* if it subscribes to it.                                                 *)
Renew(c) ==
  /\ topics' = [topics EXCEPT ![c] = {}]
  /\ got' = [got EXCEPT ![c] = NoPackage]
  /\ Thin

Next ==
  \/ \E c \in Client : \E t \in Topic : Subscribe(c, t)
  \/ \E c \in Client : \E p \in Publisher : Receive(c, p)
  \/ \E c \in Client : Renew(c)
  \/ Lose
  \/ \E p \in Publisher : \E package \in Package : Publish(p, package)

Spec == Init /\ [][Next]_vars
=============================================================================
