-------------------------- MODULE DemoSystemProofs ---------------------------
(***************************************************************************)
(* The programs use their components with care, and a client finds the     *)
(* registered protocol or gets nothing.  The invariant follows main of the *)
(* server: what it has called is what its threads and the sockets show.    *)
(***************************************************************************)
EXTENDS DemoSystem, FiniteSetTheorems, TLAPS

-----------------------------------------------------------------------------
(* The programs.                                                           *)

(* Where main of the server is when it calls a function, and that it never *)
(* returns from the last.                                                  *)
LEMMA Calling ==
  ASSUME main \in 0 .. 6
  PROVE  /\ ~Returned
         /\ Calls("addProtocol") => main = 1
         /\ Calls("startRunning") => main = 2
         /\ Calls("bind") => main = 3
         /\ Calls("setCommandCallback") => main = 4
         /\ Calls("startCommandHandler") => main = 5
         /\ Calls("publish") => main = 6
<1>1. Len(Program) = 6
  BY DEF Program
<1>2. /\ Program[1] = "addProtocol" /\ Program[2] = "startRunning" /\ Program[3] = "bind"
      /\ Program[4] = "setCommandCallback" /\ Program[5] = "startCommandHandler"
      /\ Program[6] = "publish"
  BY DEF Program
<1>3. main = 0 \/ main = 1 \/ main = 2 \/ main = 3 \/ main = 4 \/ main = 5 \/ main = 6
  OBVIOUS
<1>4. ~Returned
  BY <1>1, <1>3 DEF Returned
<1>5. ASSUME NEW f, Calls(f) PROVE main # 0 /\ Program[main] = f
  BY <1>5 DEF Calls
<1> QED
  BY <1>2, <1>3, <1>4, <1>5

(* A table has one order when it has one entry.                            *)
LEMMA FirstInserted ==
  ASSUME NEW e
  PROVE  Directory!Inserted(<<>>, e) = {<<e>>}
<1>1. Cardinality({e}) = 1
  BY FS_Singleton
<1>2. Directory!Cardinality({e}) = 1
  BY <1>1 DEF Cardinality, Directory!Cardinality
<1>3. [1 .. 1 -> {e}] = {<<e>>}
  <2>1. ASSUME NEW f \in [1 .. 1 -> {e}] PROVE f = <<e>>
    OBVIOUS
  <2>2. <<e>> \in [1 .. 1 -> {e}]
    OBVIOUS
  <2> QED
    BY <2>1, <2>2
<1>4. \A i, j \in 1 .. 1 : i = j
  OBVIOUS
<1>5. {f \in [1 .. 1 -> {e}] : \A i, j \in 1 .. 1 : i # j => f[i] # f[j]} = [1 .. 1 -> {e}]
  BY <1>4
<1>6. Directory!SetToSeqs({e}) = {<<e>>}
  BY <1>2, <1>3, <1>5 DEF Directory!SetToSeqs
<1>7. Directory!ToSet(<<>>) \cup {e} = {e}
  BY DEF Directory!ToSet
<1>8. ~ \E i \in DOMAIN <<>> : Directory!Key(<<>>[i]) = Directory!Key(e)
  OBVIOUS
<1>9. Directory!Inserted(<<>>, e) = Directory!SetToSeqs(Directory!ToSet(<<>>) \cup {e})
  BY <1>8 DEF Directory!Inserted
<1> QED
  BY <1>6, <1>7, <1>9

-----------------------------------------------------------------------------
(* The invariant.                                                          *)

ServerInv ==
  /\ registered \in Entry
  /\ main \in 0 .. 6

(* The directory holds the one entry before its thread runs, which then    *)
(* knows of no other request than that for the list.                       *)
OwnList == <<registered>>

Filling ==
  /\ main = 0 => owner = Directory!Resting /\ protocols = <<>> /\ list = <<>>
  /\ main = 1 => \/ owner = Directory!Resting /\ protocols = <<>>
                 \/ owner.at = "changed" /\ protocols = OwnList
                 \/ owner.at = "read" /\ owner.json = OwnList /\ protocols = OwnList
  /\ main >= 2 => owner = Directory!Resting /\ protocols = OwnList /\ list = OwnList

AnsweringLists ==
  /\ main <= 2 => thread = Directory!Nowhere /\ starting = "none"
  /\ starting \in {"none", "unbound"}
  /\ starting = "unbound" => thread = Directory!Nowhere
  /\ \/ thread \in {Directory!Nowhere, Directory!Running("check"), Directory!Running("receive")}
     \/ \E p \in Client : /\ thread = Directory!Serving("handle", p, <<>>)
                          /\ sock[p] = Directory!Taken(Directory!ListRequest)
  /\ sock \in [Client -> {Directory!Ready, Directory!Sent(Directory!ListRequest),
                          Directory!Taken(Directory!ListRequest), Directory!Listing(OwnList)}]

(* A query is over, and was answered with the list, once it has found it.  *)
FoundOnce ==
  /\ at = [c \in Client |-> at[c]]
  /\ result = [c \in Client |-> result[c]]
  /\ \A c \in Client : result[c].kind = "found" =>
       result[c].entries = OwnList /\ at[c] \notin {"off", "query"}

(* Commands come when the callback is set, and no endpoint is bound twice. *)
HandlerIsSet ==
  /\ alive = TRUE
  /\ main <= 5 => cmdStarting = {} /\ cmdThread = [e \in Endpoint |-> Commands!Off]
  /\ main >= 5 => handler = "acknowledge"
  /\ cmdThread = [e \in Endpoint |-> cmdThread[e]]
  /\ \A e \in cmdStarting : e \in Endpoint /\ cmdThread[e] = Commands!Off

(* What the loops of a client have left.                                   *)
Loops ==
  /\ todo = [c \in Client |-> todo[c]]
  /\ \A c \in Client :
       /\ at[c] = "subscribe" => todo[c] \in {<<>>, Found(c)}
       /\ at[c] = "command" => todo[c] \in Seq(Commands!Command) /\ todo[c] # <<>>

(* Only who has found the protocol subscribes, and is sent packages of it. *)
OwnHeader == HeaderOf("demo")
OwnMessage ==
  [from : {"demo"}, text : {Packages!Text(OwnHeader)}, data : Data]

Subscriptions ==
  /\ topics \in [Client -> SUBSET {registered.protocol_name}]
  /\ known \in [Link -> SUBSET {registered.protocol_name}]
  /\ pipe \in [Link -> Seq(OwnMessage)]
  /\ got = [c \in Client |-> got[c]]
  /\ \A c \in Client : result[c].kind # "found" =>
       /\ topics[c] = {} /\ got[c] = NoPackage
       /\ known[<<"demo", c>>] = {} /\ pipe[<<"demo", c>>] = <<>>
  /\ \A c \in Client : got[c] # NoPackage => got[c].header = OwnHeader

Inv == ServerInv /\ Filling /\ AnsweringLists /\ FoundOnce /\ HandlerIsSet /\ Loops /\ Subscriptions

-----------------------------------------------------------------------------
LEMMA ServerInvKept == ServerInv /\ [Next]_vars => ServerInv'
<1> SUFFICES ASSUME ServerInv, [Next]_vars PROVE ServerInv'
  OBVIOUS
<1> USE DEF ServerInv
<1>1. CASE registered' = registered /\ main' = main
  BY <1>1
<1>2. CASE LaunchServer
  BY <1>2 DEF LaunchServer, Continue
<1>3. CASE MainStep
  BY <1>3, Calling DEF MainStep, AddProtocol, StartRunning, BindPublisher, SetCommandCallback,
     StartCommandHandler, Publish, Continue, programVars
<1>4. (registered' = registered /\ main' = main) \/ LaunchServer \/ MainStep
  <2>1. CASE DirectoryThread \/ CommandThread
    BY <2>1 DEF DirectoryThread, CommandThread, programVars
  <2>2. ASSUME NEW c \in Client, ClientStep(c) \/ UserStep(c) \/ Receive(c) \/ Learn(c)
        PROVE  registered' = registered /\ main' = main
    BY <2>2 DEF ClientStep, UserStep, Receive, Learn, QueryEnds, Bind, BindThrows, Subscribe,
       Subscribed, Send, SendReturns, LaunchClient, PressKey, Quit, Goto, programVars
  <2>3. CASE UNCHANGED vars
    BY <2>3 DEF vars, programVars
  <2> QED
    BY <2>1, <2>2, <2>3 DEF Next
<1> QED
  BY <1>1, <1>2, <1>3, <1>4

-----------------------------------------------------------------------------
(* What is left of the thread of the directory: nobody stops it or sends   *)
(* it anything else.                                                       *)
ThreadMove ==
  \/ /\ starting = "unbound" /\ starting' = "none"
     /\ thread' = Directory!Running("check") /\ sock' = sock
  \/ /\ thread # Directory!Nowhere /\ starting' = starting
     /\ thread' \in {Directory!Running("check"), Directory!Running("receive")} /\ sock' = sock
  \/ /\ thread # Directory!Nowhere /\ starting' = starting
     /\ \E p \in Client :
          /\ thread' = Directory!Serving("handle", p, <<>>)
          /\ sock[p] = Directory!Sent(Directory!ListRequest)
          /\ sock' = [sock EXCEPT ![p] = Directory!Taken(Directory!ListRequest)]
  \/ /\ thread # Directory!Nowhere /\ starting' = starting
     /\ thread' = Directory!Running("check")
     /\ \E p \in Client : sock' = [sock EXCEPT ![p] = Directory!Listing(list)]

LEMMA ThreadFields ==
  /\ Directory!Nowhere.at = "off"
  /\ \A a : Directory!Running(a).at = a
  /\ \A p : Directory!Serving("handle", p, <<>>).at = "handle"
  /\ \A p, q : Directory!Serving("handle", p, <<>>) = Directory!Serving("handle", q, <<>>) => p = q
<1>1. Directory!Nowhere.at = "off"
  BY DEF Directory!Nowhere
<1>2. \A a : Directory!Running(a).at = a
  BY DEF Directory!Running
<1>3. \A p : Directory!Serving("handle", p, <<>>).at = "handle"
  BY DEF Directory!Serving
<1>4. \A p : Directory!Serving("handle", p, <<>>).peer = p
  BY DEF Directory!Serving
<1> QED
  BY <1>1, <1>2, <1>3, <1>4

LEMMA SocketFields ==
  /\ Directory!Ready.at = "ready"
  /\ Directory!Sent(Directory!ListRequest).at = "sent"
  /\ Directory!Sent(Directory!ListRequest).request = Directory!ListRequest
  /\ Directory!Taken(Directory!ListRequest).at = "taken"
  /\ Directory!Taken(Directory!ListRequest).request.kind = "list"
  /\ \A s : Directory!Listing(s).at = "listing" /\ Directory!Listing(s).entries = s
BY DEF Directory!Ready, Directory!Sent, Directory!Taken, Directory!ListRequest, Directory!Listing

LEMMA ThreadMoves ==
  ASSUME ServerInv, AnsweringLists, DirectoryThread
  PROVE  /\ ThreadMove
         /\ UNCHANGED <<programVars, cmdVars, pkgVars, protocols, list, owner, gaveUp, result, directory>>
<1>1. ~Returned
  BY Calling DEF ServerInv
<1>2. UNCHANGED <<programVars, cmdVars, pkgVars>> /\ Directory!ThreadStep
  BY DEF DirectoryThread
<1>3. thread.at \in {"off", "check", "receive", "handle"}
  BY ThreadFields DEF AnsweringLists
<1>4. \A p : thread = Directory!Serving("handle", p, <<>>) =>
        p \in Client /\ sock[p] = Directory!Taken(Directory!ListRequest)
  <2>1. CASE thread \in {Directory!Nowhere, Directory!Running("check"), Directory!Running("receive")}
    BY <2>1, ThreadFields
  <2>2. CASE \E p \in Client : /\ thread = Directory!Serving("handle", p, <<>>)
                               /\ sock[p] = Directory!Taken(Directory!ListRequest)
    BY <2>2, ThreadFields
  <2> QED
    BY <2>1, <2>2 DEF AnsweringLists
<1>5. Directory!Peer = Client
  BY DEF Directory!Peer, Registrar
<1> DEFINE Same == UNCHANGED <<protocols, list, owner, gaveUp, result, directory>>
<1>6. ASSUME Directory!Bind \/ Directory!BindThrows
      PROVE  ThreadMove /\ Same
  <2>1. starting = "unbound"
    BY <1>6 DEF Directory!Bind, Directory!BindThrows
  <2>2. thread.at = "off"
    BY <2>1, ThreadFields DEF AnsweringLists
  <2>3. Directory!Bind
    BY <1>6, <2>2 DEF Directory!BindThrows
  <2> QED
    BY <2>1, <2>3 DEF Directory!Bind, ThreadMove, Directory!clientVars
<1>7. ASSUME Directory!Publish \/ Directory!EndLoop \/ Directory!ReceiveTimesOut
      PROVE  ThreadMove /\ Same
  <2>1. thread # Directory!Nowhere
    BY <1>7, ThreadFields DEF Directory!Publish, Directory!EndLoop, Directory!ReceiveTimesOut
  <2> QED
    BY <1>1, <1>7, <2>1 DEF Directory!Publish, Directory!EndLoop, Directory!ReceiveTimesOut,
       Directory!Goto, ThreadMove, Directory!clientVars
<1>8. ASSUME NEW p \in Directory!Peer, Directory!Receive(p)
      PROVE  ThreadMove /\ Same
  <2>1. thread # Directory!Nowhere /\ p \in Client
    BY <1>5, <1>8, ThreadFields DEF Directory!Receive
  <2>2. sock[p] = Directory!Sent(Directory!ListRequest)
    <3>1. sock[p].at = "sent"
      BY <1>8 DEF Directory!Receive
    <3> QED
      BY <2>1, <3>1, SocketFields DEF AnsweringLists
  <2>3. sock' = [sock EXCEPT ![p] = Directory!Taken(sock[p].request)]
        /\ Directory!Goto(Directory!Serving("handle", p, <<>>)) /\ UNCHANGED <<protocols, list>>
    BY <1>8 DEF Directory!Receive
  <2>4. sock' = [sock EXCEPT ![p] = Directory!Taken(Directory!ListRequest)]
    BY <2>2, <2>3, SocketFields
  <2> QED
    BY <2>1, <2>2, <2>3, <2>4 DEF Directory!Goto, ThreadMove, Directory!clientVars
<1>9. ASSUME NEW p \in Directory!Peer, Directory!AnswerList(p)
      PROVE  ThreadMove /\ Same
  <2>1. thread # Directory!Nowhere /\ p \in Client
    BY <1>5, <1>9, ThreadFields DEF Directory!AnswerList, Directory!Handles
  <2> QED
    BY <1>9, <2>1 DEF Directory!AnswerList, Directory!Goto, ThreadMove, Directory!clientVars
<1>10. ASSUME NEW p \in Directory!Peer,
              Directory!AnswerUnknown(p) \/ Directory!HandleAdd(p) \/ Directory!HandleRemove(p)
       PROVE  FALSE
  <2>1. thread = Directory!Serving("handle", p, <<>>) /\ sock[p].request.kind \in {"unknown", "add", "remove"}
    BY <1>10 DEF Directory!AnswerUnknown, Directory!HandleAdd, Directory!HandleRemove, Directory!Handles
  <2>2. sock[p].request.kind = "list"
    BY <1>4, <2>1, SocketFields
  <2> QED
    BY <2>1, <2>2
<1>11. ~ (Directory!ReadMap \/ Directory!ReplaceList \/ Directory!Acknowledge)
  BY <1>3 DEF Directory!ReadMap, Directory!ReplaceList, Directory!Acknowledge
<1>12. ThreadMove /\ Same
  BY <1>2, <1>6, <1>7, <1>8, <1>9, <1>10, <1>11 DEF Directory!ThreadStep
<1> QED
  BY <1>2, <1>12

(* The other steps of the programs leave the directory alone.              *)
LEMMA DirectoryElsewhere ==
  ASSUME Next,
         ~MainStep, ~DirectoryThread, ~LaunchServer,
         \A c \in Client : ~LaunchClient(c) /\ ~QueryEnds(c)
  PROVE  /\ UNCHANGED <<dirVars, main, registered>>
         /\ \/ at' = at
            \/ \E c \in Client : \E place \in {"subscribe", "keys", "command", "quit", "threw"} :
                 at' = [at EXCEPT ![c] = place]
<1>1. CASE CommandThread
  BY <1>1 DEF CommandThread, programVars
<1>2. CASE \E c \in Client : ClientStep(c) \/ UserStep(c) \/ Receive(c) \/ Learn(c)
  <2>1. PICK c \in Client : ClientStep(c) \/ UserStep(c) \/ Receive(c) \/ Learn(c)
    BY <1>2
  <2>2. CASE Send(c) \/ Receive(c) \/ Learn(c)
    BY <2>2 DEF Send, Receive, Learn, programVars
  <2>3. CASE Bind(c) \/ BindThrows(c) \/ Subscribe(c) \/ Subscribed(c) \/ SendReturns(c)
    BY <2>3 DEF Bind, BindThrows, Subscribe, Subscribed, SendReturns, Goto, OnlyPrograms
  <2>4. CASE PressKey(c) \/ Quit(c)
    BY <2>4 DEF PressKey, Quit, Goto, OnlyPrograms
  <2> QED
    BY <2>1, <2>2, <2>3, <2>4 DEF ClientStep, UserStep
<1> QED
  BY <1>1, <1>2 DEF Next

(* What main of the server does with the directory.                        *)
LEMMA MainMoves ==
  ASSUME ServerInv, MainStep
  PROVE  /\ registered' = registered /\ at' = at /\ todo' = todo
         /\ \/ AddProtocol /\ main = 1
            \/ StartRunning /\ main = 2 /\ main' = 3
            \/ /\ UNCHANGED dirVars
               /\ main \in 3 .. 6 /\ main' \in 3 .. 6
               /\ main' = main \/ main' = main + 1
<1>1. main \in 0 .. 6
  BY DEF ServerInv
<1>2. CASE AddProtocol
  BY <1>1, <1>2, Calling DEF AddProtocol, Continue, programVars
<1>3. CASE StartRunning
  BY <1>1, <1>3, Calling DEF StartRunning, Continue
<1>4. CASE BindPublisher \/ SetCommandCallback \/ StartCommandHandler
  BY <1>1, <1>4, Calling DEF BindPublisher, SetCommandCallback, StartCommandHandler, Continue
<1>5. CASE Publish
  BY <1>1, <1>5, Calling DEF Publish, programVars
<1> QED
  BY <1>2, <1>3, <1>4, <1>5 DEF MainStep

(* The owner inside addProtocol, and its start of the thread.              *)
LEMMA OwnerMoves ==
  ASSUME ServerInv, Filling, main = 1, AddProtocol
  PROVE  /\ Filling'
         /\ UNCHANGED <<starting, thread, sock, gaveUp, result, directory>>
<1>1. \/ owner = Directory!Resting /\ protocols = <<>>
      \/ owner.at = "changed" /\ protocols = OwnList
      \/ owner.at = "read" /\ owner.json = OwnList /\ protocols = OwnList
  BY DEF Filling
<1>2. Directory!Resting.at = "idle"
  BY DEF Directory!Resting
<1>3. CASE UNCHANGED programVars /\ protocols = <<>> /\ Directory!AddProtocol(registered)
  <2>1. protocols' = OwnList
    BY <1>3, FirstInserted DEF Directory!AddProtocol, OwnList
  <2>2. /\ owner' = [at |-> "changed", json |-> <<>>] /\ list' = list
        /\ UNCHANGED <<starting, thread, sock, gaveUp, result, directory>>
    BY <1>3 DEF Directory!AddProtocol, Directory!clientVars
  <2>3. owner'.at = "changed"
    BY <2>2
  <2>4. main' = 1 /\ registered' = registered
    BY <1>3 DEF programVars
  <2> QED
    BY <2>1, <2>2, <2>3, <2>4 DEF Filling, OwnList
<1>4. CASE UNCHANGED programVars /\ Directory!OwnerReadsMap
  <2>1. protocols' = OwnList /\ owner' = [at |-> "read", json |-> OwnList] /\ list' = list
        /\ UNCHANGED <<starting, thread, sock, gaveUp, result, directory>>
    BY <1>1, <1>2, <1>4 DEF Directory!OwnerReadsMap, Directory!clientVars
  <2>2. owner'.at = "read" /\ owner'.json = OwnList
    BY <2>1
  <2>3. main' = 1 /\ registered' = registered
    BY <1>4 DEF programVars
  <2> QED
    BY <2>1, <2>2, <2>3 DEF Filling, OwnList
<1>5. CASE Continue /\ Directory!OwnerReplacesList
  <2>1. protocols' = OwnList /\ list' = OwnList /\ owner' = Directory!Resting
        /\ UNCHANGED <<starting, thread, sock, gaveUp, result, directory>>
    BY <1>1, <1>2, <1>5 DEF Directory!OwnerReplacesList, Directory!clientVars
  <2>2. main' = 2 /\ registered' = registered
    BY <1>5 DEF Continue
  <2> QED
    BY <2>1, <2>2 DEF Filling, OwnList
<1> QED
  BY <1>3, <1>4, <1>5 DEF AddProtocol

LEMMA FillingKept == ServerInv /\ Filling /\ AnsweringLists /\ [Next]_vars => Filling'
<1> SUFFICES ASSUME ServerInv, Filling, AnsweringLists, [Next]_vars
             PROVE  Filling'
  OBVIOUS
<1>0. main \in Nat
  BY DEF ServerInv
<1>1. CASE UNCHANGED <<protocols, list, owner, main, registered>>
  BY <1>1 DEF Filling, OwnList
<1>2. CASE LaunchServer
  <2>1. main = 0 /\ main' = 1 /\ UNCHANGED <<protocols, list, owner, registered>>
    BY <1>2 DEF LaunchServer, Continue, OnlyPrograms, dirVars
  <2> QED
    BY <2>1 DEF Filling, OwnList
<1>3. CASE MainStep
  <2>1. CASE AddProtocol /\ main = 1
    BY <2>1, OwnerMoves
  <2>2. CASE StartRunning /\ main = 2 /\ main' = 3
    <3>1. UNCHANGED <<protocols, list, owner, registered>>
      BY <2>2 DEF StartRunning, Directory!StartRunning, Continue
    <3> QED
      BY <2>2, <3>1 DEF Filling, OwnList
  <2>3. CASE UNCHANGED dirVars /\ main \in 3 .. 6 /\ main' \in 3 .. 6
    <3>1. UNCHANGED <<protocols, list, owner, registered>>
      BY <1>3, <2>3, MainMoves DEF dirVars
    <3>2. main >= 2 /\ ~(main' = 0) /\ ~(main' = 1)
      BY <2>3
    <3> QED
      BY <3>1, <3>2 DEF Filling, OwnList
  <2> QED
    BY <1>3, <2>1, <2>2, <2>3, MainMoves
<1>4. CASE DirectoryThread
  <2>1. UNCHANGED <<protocols, list, owner, main, registered>>
    BY <1>4, ThreadMoves DEF programVars
  <2> QED
    BY <1>1, <2>1
<1>5. CASE \E c \in Client : LaunchClient(c) \/ QueryEnds(c)
  <2>1. UNCHANGED <<protocols, list, owner, main, registered>>
    BY <1>5 DEF LaunchClient, QueryEnds, Goto, Directory!QueryProtocols, Directory!QueryReturns,
       Directory!QueryTimesOut, Directory!serverVars
  <2> QED
    BY <1>1, <2>1
<1>6. CASE UNCHANGED vars
  BY <1>1, <1>6 DEF vars, programVars, dirVars
<1>7. CASE /\ Next /\ ~MainStep /\ ~DirectoryThread /\ ~LaunchServer
           /\ \A c \in Client : ~LaunchClient(c) /\ ~QueryEnds(c)
  <2>1. UNCHANGED <<dirVars, main, registered>>
    BY <1>7, DirectoryElsewhere
  <2> QED
    BY <1>1, <2>1 DEF dirVars
<1> QED
  BY <1>2, <1>3, <1>4, <1>5, <1>6, <1>7

LEMMA ClientMoves ==
  ASSUME AnsweringLists, FoundOnce, NEW c \in Client, LaunchClient(c) \/ QueryEnds(c)
  PROVE  /\ UNCHANGED <<main, registered, protocols, list, owner, starting, thread>>
         /\ \/ sock' = sock
            \/ /\ sock[c] = Directory!Ready
               /\ sock' = [sock EXCEPT ![c] = Directory!Sent(Directory!ListRequest)]
            \/ sock[c] = Directory!Listing(OwnList) /\ sock' = [sock EXCEPT ![c] = Directory!Ready]
         /\ result[c].kind # "found"
         /\ \/ at' = [at EXCEPT ![c] = "query"] /\ result' = result
            \/ /\ at' = [at EXCEPT ![c] = "bind"]
               /\ \/ result' = [result EXCEPT ![c] = Directory!TimedOut]
                  \/ result' = [result EXCEPT ![c] = Directory!Found(OwnList)]
<1>1. CASE LaunchClient(c)
  BY <1>1 DEF LaunchClient, Goto, Directory!QueryProtocols, Directory!serverVars,
     Directory!clientVars, FoundOnce
<1>2. CASE QueryEnds(c) /\ Directory!QueryTimesOut(c)
  BY <1>2 DEF QueryEnds, Goto, Directory!QueryTimesOut, Directory!serverVars, FoundOnce
<1>3. CASE QueryEnds(c) /\ Directory!QueryReturns(c)
  <2>1. sock[c] = Directory!Listing(OwnList) /\ sock[c].entries = OwnList
    <3>1. sock[c].at = "listing"
      BY <1>3 DEF Directory!QueryReturns
    <3>2. sock[c] = Directory!Listing(OwnList)
      BY <3>1, SocketFields DEF AnsweringLists
    <3> QED
      BY <3>2, SocketFields
  <2> QED
    BY <1>3, <2>1 DEF QueryEnds, Goto, Directory!QueryReturns, Directory!serverVars, FoundOnce
<1> QED
  BY <1>1, <1>2, <1>3 DEF QueryEnds

LEMMA AnsweringListsKept ==
  ServerInv /\ Filling /\ AnsweringLists /\ FoundOnce /\ [Next]_vars => AnsweringLists'
<1> SUFFICES ASSUME ServerInv, Filling, AnsweringLists, FoundOnce, [Next]_vars
             PROVE  AnsweringLists'
  OBVIOUS
<1>0. main \in Nat
  BY DEF ServerInv
<1>1. CASE UNCHANGED <<starting, thread, sock, registered>> /\ (main' <= 2 => main <= 2)
  BY <1>1 DEF AnsweringLists, OwnList
<1>2. CASE LaunchServer
  BY <1>1, <1>2 DEF LaunchServer, Continue, OnlyPrograms, dirVars
<1>3. CASE MainStep
  <2>0. registered' = registered
    BY <1>3, MainMoves
  <2>1. CASE AddProtocol /\ main = 1
    <3>1. UNCHANGED <<starting, thread, sock>>
      BY <2>1, OwnerMoves
    <3> QED
      BY <1>1, <2>0, <2>1, <3>1
  <2>2. CASE StartRunning /\ main = 2 /\ main' = 3
    <3>1. /\ starting' = "unbound" /\ UNCHANGED <<thread, sock>>
          /\ thread = Directory!Nowhere
      BY <2>2 DEF StartRunning, Directory!StartRunning, AnsweringLists, Directory!clientVars
    <3> QED
      BY <2>0, <2>2, <3>1 DEF AnsweringLists, OwnList
  <2>3. CASE UNCHANGED dirVars /\ main \in 3 .. 6 /\ main' \in 3 .. 6
    BY <1>1, <2>0, <2>3 DEF dirVars
  <2> QED
    BY <1>3, <2>1, <2>2, <2>3, MainMoves
<1>4. CASE DirectoryThread
  <2>1. ThreadMove /\ main' = main /\ registered' = registered
    BY <1>4, ThreadMoves DEF programVars
  <2>2. main > 2
    BY <1>0, <2>1 DEF ThreadMove, AnsweringLists
  <2>3. list = OwnList
    BY <1>0, <2>2 DEF Filling
  <2>4. OwnList' = OwnList
    BY <2>1 DEF OwnList
  <2>5. ~(main' <= 2)
    BY <1>0, <2>1, <2>2
  <2>6. CASE starting = "unbound" /\ starting' = "none"
             /\ thread' = Directory!Running("check") /\ sock' = sock
    BY <2>4, <2>5, <2>6 DEF AnsweringLists
  <2>7. starting = "unbound" \/ starting' = "none"
    BY <2>1 DEF ThreadMove, AnsweringLists
  <2>8. CASE thread # Directory!Nowhere /\ starting' = starting
             /\ thread' \in {Directory!Running("check"), Directory!Running("receive")} /\ sock' = sock
    <3>1. starting' = "none"
      BY <2>8 DEF AnsweringLists
    <3> QED
      BY <2>4, <2>5, <2>8, <3>1 DEF AnsweringLists
  <2>9. CASE thread # Directory!Nowhere /\ starting' = starting
             /\ \E p \in Client :
                  /\ thread' = Directory!Serving("handle", p, <<>>)
                  /\ sock[p] = Directory!Sent(Directory!ListRequest)
                  /\ sock' = [sock EXCEPT ![p] = Directory!Taken(Directory!ListRequest)]
    <3>1. starting' = "none"
      BY <2>9 DEF AnsweringLists
    <3>2. PICK p \in Client :
            /\ thread' = Directory!Serving("handle", p, <<>>)
            /\ sock' = [sock EXCEPT ![p] = Directory!Taken(Directory!ListRequest)]
      BY <2>9
    <3>3. sock'[p] = Directory!Taken(Directory!ListRequest)
      BY <3>2 DEF AnsweringLists
    <3>4. sock' \in [Client -> {Directory!Ready, Directory!Sent(Directory!ListRequest),
                          Directory!Taken(Directory!ListRequest), Directory!Listing(OwnList)}]
      BY <3>2 DEF AnsweringLists
    <3> QED
      BY <2>4, <2>5, <3>1, <3>2, <3>3, <3>4 DEF AnsweringLists
  <2>10. CASE thread # Directory!Nowhere /\ starting' = starting
              /\ thread' = Directory!Running("check")
              /\ \E p \in Client : sock' = [sock EXCEPT ![p] = Directory!Listing(list)]
    <3>1. starting' = "none"
      BY <2>10 DEF AnsweringLists
    <3>4. sock' \in [Client -> {Directory!Ready, Directory!Sent(Directory!ListRequest),
                          Directory!Taken(Directory!ListRequest), Directory!Listing(OwnList)}]
      BY <2>3, <2>10 DEF AnsweringLists
    <3> QED
      BY <2>4, <2>5, <2>10, <3>1, <3>4 DEF AnsweringLists
  <2> QED
    BY <2>1, <2>6, <2>8, <2>9, <2>10 DEF ThreadMove
<1>5. CASE \E c \in Client : LaunchClient(c) \/ QueryEnds(c)
  <2>1. PICK c \in Client : LaunchClient(c) \/ QueryEnds(c)
    BY <1>5
  <2>2. /\ UNCHANGED <<main, registered, starting, thread>>
        /\ \/ sock' = sock
           \/ /\ sock[c] = Directory!Ready
              /\ sock' = [sock EXCEPT ![c] = Directory!Sent(Directory!ListRequest)]
           \/ sock[c] = Directory!Listing(OwnList) /\ sock' = [sock EXCEPT ![c] = Directory!Ready]
    BY <2>1, ClientMoves
  <2>3. sock' \in [Client -> {Directory!Ready, Directory!Sent(Directory!ListRequest),
                          Directory!Taken(Directory!ListRequest), Directory!Listing(OwnList)}]
    BY <2>2 DEF AnsweringLists
  <2>4. \A p : sock[p] = Directory!Taken(Directory!ListRequest) /\ p \in Client => sock'[p] = sock[p]
    <3>1. sock[c] = Directory!Taken(Directory!ListRequest) => sock' = sock
      BY <2>2, SocketFields
    <3> QED
      BY <2>2, <3>1 DEF AnsweringLists
  <2> QED
    BY <2>2, <2>3, <2>4 DEF AnsweringLists, OwnList
<1>6. CASE UNCHANGED vars
  BY <1>1, <1>6 DEF vars, programVars, dirVars
<1>7. CASE /\ Next /\ ~MainStep /\ ~DirectoryThread /\ ~LaunchServer
           /\ \A c \in Client : ~LaunchClient(c) /\ ~QueryEnds(c)
  <2>1. UNCHANGED <<dirVars, main, registered>>
    BY <1>7, DirectoryElsewhere
  <2> QED
    BY <1>1, <2>1 DEF dirVars
<1> QED
  BY <1>2, <1>3, <1>4, <1>5, <1>6, <1>7

LEMMA FoundOnceKept ==
  ServerInv /\ Filling /\ AnsweringLists /\ FoundOnce /\ [Next]_vars => FoundOnce'
<1> SUFFICES ASSUME ServerInv, Filling, AnsweringLists, FoundOnce, [Next]_vars
             PROVE  FoundOnce'
  OBVIOUS
<1>1. CASE UNCHANGED <<registered, at, result>>
  BY <1>1 DEF FoundOnce, OwnList
<1>2. CASE LaunchServer
  BY <1>1, <1>2 DEF LaunchServer, Continue, OnlyPrograms, dirVars
<1>3. CASE MainStep
  <2>1. registered' = registered /\ at' = at
    BY <1>3, MainMoves
  <2>2. result' = result
    <3>1. CASE AddProtocol /\ main = 1
      BY <3>1, OwnerMoves
    <3>2. CASE StartRunning
      BY <3>2 DEF StartRunning, Directory!StartRunning, Directory!clientVars
    <3>3. CASE UNCHANGED dirVars
      BY <3>3 DEF dirVars
    <3> QED
      BY <1>3, <3>1, <3>2, <3>3, MainMoves
  <2> QED
    BY <1>1, <2>1, <2>2
<1>4. CASE DirectoryThread
  <2>1. UNCHANGED <<registered, at, result>>
    BY <1>4, ThreadMoves DEF programVars
  <2> QED
    BY <1>1, <2>1
<1>5. CASE \E c \in Client : LaunchClient(c) \/ QueryEnds(c)
  <2>1. PICK c \in Client : LaunchClient(c) \/ QueryEnds(c)
    BY <1>5
  <2>2. /\ registered' = registered
        /\ result[c].kind # "found"
        /\ \/ at' = [at EXCEPT ![c] = "query"] /\ result' = result
           \/ /\ at' = [at EXCEPT ![c] = "bind"]
              /\ \/ result' = [result EXCEPT ![c] = Directory!TimedOut]
                 \/ result' = [result EXCEPT ![c] = Directory!Found(OwnList)]
    BY <2>1, ClientMoves
  <2>3. Directory!TimedOut.kind = "timed out" /\ Directory!Found(OwnList).kind = "found"
        /\ Directory!Found(OwnList).entries = OwnList
    BY DEF Directory!TimedOut, Directory!Found
  <2>4. OwnList' = OwnList
    BY <2>2 DEF OwnList
  <2>5. at' = [d \in Client |-> at'[d]] /\ result' = [d \in Client |-> result'[d]]
    BY <2>2 DEF FoundOnce
  <2>6. ASSUME NEW d \in Client, result'[d].kind = "found"
        PROVE  result'[d].entries = OwnList /\ at'[d] \notin {"off", "query"}
    <3>1. CASE d # c
      <4>1. result'[d] = result[d] /\ at'[d] = at[d]
        BY <2>2, <3>1 DEF FoundOnce
      <4> QED
        BY <2>6, <4>1 DEF FoundOnce
    <3>2. CASE d = c /\ result' = result
      BY <2>2, <2>6, <3>2
    <3>3. CASE d = c /\ result' # result
      <4>1. /\ at' = [at EXCEPT ![c] = "bind"]
            /\ \/ result' = [result EXCEPT ![c] = Directory!TimedOut]
               \/ result' = [result EXCEPT ![c] = Directory!Found(OwnList)]
        BY <2>2, <3>3
      <4>2. at'[c] = "bind" /\ result'[c] \in {Directory!TimedOut, Directory!Found(OwnList)}
        BY <4>1 DEF FoundOnce
      <4> QED
        BY <2>3, <2>6, <3>3, <4>2
    <3> QED
      BY <3>1, <3>2, <3>3
  <2> QED
    BY <2>4, <2>5, <2>6 DEF FoundOnce
<1>6. CASE UNCHANGED vars
  BY <1>1, <1>6 DEF vars, programVars, dirVars
<1>7. CASE /\ Next /\ ~MainStep /\ ~DirectoryThread /\ ~LaunchServer
           /\ \A c \in Client : ~LaunchClient(c) /\ ~QueryEnds(c)
  <2>1. /\ UNCHANGED <<dirVars, main, registered>>
        /\ \/ at' = at
           \/ \E c \in Client : \E place \in {"subscribe", "keys", "command", "quit", "threw"} :
                at' = [at EXCEPT ![c] = place]
    BY <1>7, DirectoryElsewhere
  <2>2. registered' = registered /\ result' = result
    BY <2>1 DEF dirVars
  <2>3. CASE at' = at
    BY <1>1, <2>2, <2>3
  <2>4. CASE \E c \in Client : \E place \in {"subscribe", "keys", "command", "quit", "threw"} :
               at' = [at EXCEPT ![c] = place]
    <3>1. PICK c \in Client, place \in {"subscribe", "keys", "command", "quit", "threw"} :
            at' = [at EXCEPT ![c] = place]
      BY <2>4
    <3>2. at' = [d \in Client |-> at'[d]] /\ \A d \in Client : at'[d] = IF d = c THEN place ELSE at[d]
      BY <3>1 DEF FoundOnce
    <3> QED
      BY <2>2, <3>2 DEF FoundOnce, OwnList
  <2> QED
    BY <2>1, <2>3, <2>4
<1> QED
  BY <1>2, <1>3, <1>4, <1>5, <1>6, <1>7

LEMMA HandlerIsSetThread ==
  ASSUME ServerInv, HandlerIsSet, NEW e \in Endpoint, CarefulCommands!ThreadStep(e), main' = main
  PROVE  HandlerIsSet'
<1>1. ~Returned /\ main \in Nat
  BY Calling DEF ServerInv
<1>2. Commands!Off = [at |-> "off"] /\ CarefulCommands!Off = [at |-> "off"]
  BY DEF Commands!Off, CarefulCommands!Off
<1>3. e \in cmdStarting => cmdThread[e] = [at |-> "off"]
  BY <1>2 DEF HandlerIsSet
<1>4. cmdStarting # {} \/ cmdThread[e] # [at |-> "off"] => ~(main <= 5) /\ handler = "acknowledge"
  BY <1>1, <1>2 DEF HandlerIsSet
<1>5. ASSUME CarefulCommands!Bind(e) PROVE HandlerIsSet'
  <2>1. /\ e \in cmdStarting /\ cmdStarting' = cmdStarting \ {e}
        /\ cmdThread' = [cmdThread EXCEPT ![e] = CarefulCommands!Receiving]
        /\ alive' = alive /\ handler' = handler
    BY <1>5 DEF CarefulCommands!Bind, CarefulCommands!Goto
  <2>2. cmdThread' = [d \in Endpoint |-> cmdThread'[d]]
        /\ \A d \in Endpoint : d # e => cmdThread'[d] = cmdThread[d]
    BY <2>1 DEF HandlerIsSet
  <2>3. \A d \in cmdStarting' : d \in Endpoint /\ cmdThread'[d] = Commands!Off
    BY <2>1, <2>2 DEF HandlerIsSet
  <2>4. ~(main' <= 5) /\ handler' = "acknowledge"
    BY <1>4, <2>1
  <2> QED
    BY <2>1, <2>2, <2>3, <2>4 DEF HandlerIsSet
<1>6. ~CarefulCommands!BindThrows(e) /\ ~CarefulCommands!UsesDestroyed(e)
      /\ ~CarefulCommands!HandlerThrows(e)
  BY <1>1, <1>2, <1>3 DEF CarefulCommands!BindThrows, CarefulCommands!UsesDestroyed, CarefulCommands!HandlerThrows
<1>7. ~CarefulCommands!HandlerMissing(e)
  <2>1. SUFFICES ASSUME CarefulCommands!HandlerMissing(e) PROVE FALSE
    OBVIOUS
  <2>2. cmdThread[e].at = "received" /\ handler = "none"
    BY <2>1 DEF CarefulCommands!HandlerMissing, NoHandler
  <2>3. cmdThread[e] # [at |-> "off"]
    BY <2>2
  <2> QED
    BY <1>4, <2>2, <2>3
<1>8. ASSUME \/ \E c \in Client : CarefulCommands!Receive(e, c)
             \/ CarefulCommands!BeginHandle(e) \/ CarefulCommands!EndHandle(e)
             \/ CarefulCommands!Acknowledge(e)
      PROVE  HandlerIsSet'
  <2>1. cmdThread[e] # [at |-> "off"]
    <3>1. CarefulCommands!Receiving.at = "receive"
      BY DEF CarefulCommands!Receiving
    <3>2. cmdThread[e].at \in {"receive", "received", "handling", "acknowledge"}
      BY <1>8, <3>1 DEF CarefulCommands!Receive, CarefulCommands!BeginHandle,
         CarefulCommands!EndHandle, CarefulCommands!Acknowledge
    <3> QED
      BY <3>2
  <2>2. /\ cmdStarting' = cmdStarting /\ alive' = alive /\ handler' = handler
        /\ \E t : cmdThread' = [cmdThread EXCEPT ![e] = t]
    BY <1>8 DEF CarefulCommands!Receive, CarefulCommands!BeginHandle,
       CarefulCommands!EndHandle, CarefulCommands!Acknowledge, CarefulCommands!Goto
  <2>3. cmdThread' = [d \in Endpoint |-> cmdThread'[d]]
        /\ \A d \in Endpoint : d # e => cmdThread'[d] = cmdThread[d]
    BY <2>2 DEF HandlerIsSet
  <2>4. \A d \in cmdStarting' : d \in Endpoint /\ cmdThread'[d] = Commands!Off
    BY <1>2, <2>1, <2>2, <2>3 DEF HandlerIsSet
  <2>5. ~(main' <= 5) /\ handler' = "acknowledge"
    BY <1>4, <2>1, <2>2
  <2> QED
    BY <2>2, <2>3, <2>4, <2>5 DEF HandlerIsSet
<1> QED
  BY <1>5, <1>6, <1>7, <1>8 DEF CarefulCommands!ThreadStep

LEMMA HandlerIsSetKept == ServerInv /\ HandlerIsSet /\ [Next]_vars => HandlerIsSet'
<1> SUFFICES ASSUME ServerInv, HandlerIsSet, [Next]_vars
             PROVE  HandlerIsSet'
  OBVIOUS
<1>0. main \in Nat
  BY DEF ServerInv
<1>1. CASE UNCHANGED <<main, alive, handler, cmdStarting, cmdThread>>
  BY <1>1 DEF HandlerIsSet
<1>2. CASE UNCHANGED <<alive, handler, cmdStarting, cmdThread>> /\ main # 4 /\ main' = main + 1 /\ main # 5
  BY <1>0, <1>2 DEF HandlerIsSet
<1>3. CASE LaunchServer
  BY <1>2, <1>3 DEF LaunchServer, Continue, OnlyPrograms, cmdVars
<1>4. CASE AddProtocol
  <2>1. main = 1 /\ UNCHANGED cmdVars /\ (main' = main \/ main' = main + 1)
    BY <1>4, Calling DEF AddProtocol, ServerInv, Continue, programVars
  <2> QED
    BY <1>1, <1>2, <2>1 DEF cmdVars
<1>5. CASE StartRunning
  <2>1. main = 2 /\ UNCHANGED cmdVars /\ main' = main + 1
    BY <1>5, Calling DEF StartRunning, ServerInv, Continue
  <2> QED
    BY <1>2, <2>1 DEF cmdVars
<1>6. CASE BindPublisher
  <2>1. main = 3 /\ UNCHANGED cmdVars /\ main' = main + 1
    BY <1>6, Calling DEF BindPublisher, ServerInv, Continue
  <2> QED
    BY <1>2, <2>1 DEF cmdVars
<1>7. CASE SetCommandCallback
  <2>1. main = 4 /\ main' = 5 /\ Commands!SetCommandCallback("acknowledge")
    BY <1>7, Calling DEF SetCommandCallback, ServerInv, Continue
  <2>2. cmdStarting = {} /\ \A e \in Endpoint : cmdThread[e] = Commands!Off
    BY <2>1 DEF HandlerIsSet
  <2>3. \A e \in Endpoint : ~Commands!InUse(e)
    BY <2>2 DEF Commands!InUse, Commands!Off
  <2>4. alive' = TRUE /\ handler' = "acknowledge" /\ UNCHANGED <<cmdStarting, cmdThread>>
    BY <2>1, <2>3 DEF Commands!SetCommandCallback
  <2> QED
    BY <2>1, <2>4 DEF HandlerIsSet
<1>8. CASE StartCommandHandler
  <2>1. main = 5 /\ main' = 6 /\ \E e \in Endpoint : Commands!StartCommandHandler(e)
    BY <1>8, Calling DEF StartCommandHandler, ServerInv, Continue
  <2>2. UNCHANGED <<alive, handler, cmdThread>> /\ cmdStarting' \subseteq Endpoint
    BY <2>1 DEF Commands!StartCommandHandler, HandlerIsSet
  <2>3. \A e \in cmdStarting' : e \in Endpoint /\ cmdThread'[e] = Commands!Off
    BY <2>1, <2>2 DEF HandlerIsSet
  <2> QED
    BY <2>1, <2>2, <2>3 DEF HandlerIsSet
<1>9. CASE Publish
  BY <1>1, <1>9 DEF Publish, programVars, cmdVars
<1>10. CASE DirectoryThread
  BY <1>1, <1>10 DEF DirectoryThread, programVars, cmdVars
<1>11. CASE CommandThread
  <2>1. main' = main /\ \E e \in Endpoint : CarefulCommands!ThreadStep(e)
    BY <1>11 DEF CommandThread, programVars
  <2> QED
    BY <2>1, HandlerIsSetThread
<1>12. CASE \E c \in Client : ClientStep(c) \/ UserStep(c) \/ Receive(c) \/ Learn(c)
  <2>1. PICK c \in Client : ClientStep(c) \/ UserStep(c) \/ Receive(c) \/ Learn(c)
    BY <1>12
  <2>2. CASE QueryEnds(c) \/ Subscribe(c) \/ Subscribed(c) \/ LaunchClient(c) \/ PressKey(c)
             \/ Receive(c) \/ Learn(c)
    BY <1>1, <2>2 DEF QueryEnds, Subscribe, Subscribed, LaunchClient, PressKey, Receive, Learn,
       Goto, OnlyPrograms, programVars, cmdVars
  <2>3. CASE Bind(c)
    BY <1>1, <2>3 DEF Bind, Goto, Commands!Connect, Commands!serverVars
  <2>4. CASE BindThrows(c) \/ Quit(c)
    BY <1>1, <2>4 DEF BindThrows, Quit, Goto, Commands!Leave, Commands!serverVars
  <2>5. CASE Send(c)
    BY <1>1, <2>5 DEF Send, programVars, Commands!SendCommand, Commands!serverVars
  <2>6. CASE SendReturns(c)
    BY <1>1, <2>6 DEF SendReturns, Goto, Commands!SendReturns, Commands!serverVars
  <2> QED
    BY <2>1, <2>2, <2>3, <2>4, <2>5, <2>6 DEF ClientStep, UserStep
<1>13. CASE UNCHANGED vars
  BY <1>1, <1>13 DEF vars, programVars, cmdVars
<1> QED
  BY <1>3, <1>4, <1>5, <1>6, <1>7, <1>8, <1>9, <1>10, <1>11, <1>12, <1>13 DEF Next, MainStep

PackageProofs == INSTANCE PackageChannelProofs

LEMMA OneElement ==
  ASSUME NEW S, NEW x \in S
  PROVE  <<x>> \in Seq(S)
OBVIOUS

LEMMA TailOf ==
  ASSUME NEW S, NEW t \in Seq(S), t # <<>>
  PROVE  Tail(t) \in Seq(S) /\ (Len(t) # 1 => Tail(t) # <<>>)
<1>1. Len(t) \in Nat \ {0}
  OBVIOUS
<1>2. Tail(t) \in Seq(S) /\ Len(Tail(t)) = Len(t) - 1
  OBVIOUS
<1>3. Len(t) # 1 => Len(Tail(t)) # 0
  BY <1>1, <1>2
<1>4. PICK u : u = Tail(t)
  OBVIOUS
<1>5. u = <<>> => Len(u) = 0
  OBVIOUS
<1> QED
  BY <1>2, <1>3, <1>4, <1>5

(* What PackageChannel assumes of its constants is true of the programs.   *)
LEMMA PackageConstants ==
  /\ PackageProofs!NodeAssumption /\ PackageProofs!LinkAssumption
  /\ PackageProofs!HeaderAssumption /\ PackageProofs!HighWaterAssumption
  /\ PackageProofs!TopicAssumption /\ PackageProofs!RouteAssumption
<1>1. PICK n, m : n = HeaderOf("demo").protocol_name /\ m = HeaderOf("demo").source
  OBVIOUS
<1>2. /\ HeaderOf("demo") = [protocol_name |-> n, source |-> m]
      /\ n \in Seq(Nat \ {Bar}) /\ m \in Seq(Nat)
  BY <1>1, NameAssumption
<1>3. n \in Seq(Nat) /\ \A k \in DOMAIN n : n[k] # Bar
  BY <1>2
<1>4. HeaderOf("demo") \in PackageProofs!Header
  BY <1>2, <1>3 DEF PackageProofs!Header
<1>5. PackageProofs!NodeAssumption
  BY ClientAssumption DEF PackageProofs!NodeAssumption, Publisher, Proxy
<1>6. PackageProofs!LinkAssumption
  BY DEF PackageProofs!LinkAssumption, Link, Publisher
<1>7. PackageProofs!HeaderAssumption
  BY <1>1, <1>3, <1>4, NameAssumption DEF PackageProofs!HeaderAssumption, Publisher
<1>8. PackageProofs!HighWaterAssumption
  BY DEF PackageProofs!HighWaterAssumption, HighWater
<1>9. PackageProofs!TopicAssumption
  <2>1. <<>> \in Seq(Nat)
    OBVIOUS
  <2>2. \A e \in Entry : e.protocol_name \in Seq(Nat)
    BY <1>1, <1>3, NameAssumption
  <2> QED
    BY <2>1, <2>2 DEF PackageProofs!TopicAssumption, Topic
<1>10. PackageProofs!RouteAssumption
  <2>1. \A p \in Publisher : <<p, Proxy>> \notin Link
    BY ClientAssumption DEF Link, Proxy
  <2> QED
    BY <2>1 DEF PackageProofs!RouteAssumption
<1> QED
  BY <1>5, <1>6, <1>7, <1>8, <1>9, <1>10

(* The header of the server arrives as it was sent.                        *)
LEMMA HeaderArrives == Packages!Split(Packages!Text(OwnHeader)) = OwnHeader
<1>1. OwnHeader \in PackageProofs!Header /\ Bar \in Nat
      /\ \A k \in DOMAIN OwnHeader.protocol_name : OwnHeader.protocol_name[k] # Bar
  BY PackageConstants DEF PackageProofs!HeaderAssumption, OwnHeader, Publisher
<1>2. PackageProofs!Split(PackageProofs!Text(OwnHeader)) = OwnHeader
  <2>1. PICK h : h = OwnHeader
    OBVIOUS
  <2>2. /\ h \in PackageProofs!Header /\ Bar \in Nat
        /\ \A k \in DOMAIN h.protocol_name : h.protocol_name[k] # Bar
    BY <1>1, <2>1
  <2>3. PackageProofs!Split(PackageProofs!Text(h)) = h
    BY <2>2, PackageConstants, PackageProofs!HeaderRoundTrip
  <2> QED
    BY <2>1, <2>3
<1>3. Packages!Text(OwnHeader) = PackageProofs!Text(OwnHeader)
  BY DEF Packages!Text, PackageProofs!Text
<1>4. \A t : Packages!Split(t) = PackageProofs!Split(t)
  BY DEF Packages!Split, PackageProofs!Split, Packages!Bars, PackageProofs!Bars,
     Packages!Min, PackageProofs!Min
<1> QED
  BY <1>2, <1>3, <1>4

(* What a client has found.                                                *)
LEMMA FoundLists ==
  ASSUME FoundOnce, NEW c \in Client
  PROVE  \/ result[c].kind = "found" /\ Found(c) = OwnList
         \/ result[c].kind # "found" /\ Found(c) = <<>>
BY DEF FoundOnce, Found

LEMMA KeyCommands ==
  ASSUME ServerInv, FoundOnce, NEW c \in Client, NEW key \in Pressed
  PROVE  CommandsOf(c)[key] \in Seq(Commands!Command)
<1> DEFINE Hullo(verb) == SendCommand(verb, "ECHO", "Hullo")
           Asked == [k \in DOMAIN Found(c) |-> SendCommand("CONNECT", FrameOf(Found(c)[k].protocol_name), "")]
<1>1. \A verb \in Verb : Hullo(verb) \in Commands!Command
  BY FramesAssumption DEF SendCommand, Commands!Command, Verb, Name
<1>2. Asked \in Seq(Commands!Command)
  <2>1. CASE Found(c) = <<>>
    <3>1. Asked = <<>>
      BY <2>1
    <3> QED
      BY <3>1
  <2>2. CASE Found(c) = OwnList
    <3>1. SendCommand("CONNECT", FrameOf(registered.protocol_name), "") \in Commands!Command
      <4>1. FrameOf(registered.protocol_name) \in Name /\ "CONNECT" \in Verb /\ "" \in Frame
        BY FramesAssumption DEF Verb, Name, ServerInv
      <4> QED
        BY <4>1 DEF SendCommand, Commands!Command
    <3>2. PICK x : x = SendCommand("CONNECT", FrameOf(registered.protocol_name), "")
      OBVIOUS
    <3>3. Asked = <<x>>
      <4>1. DOMAIN Found(c) = 1 .. 1 /\ Found(c)[1] = registered
        BY <2>2 DEF OwnList
      <4>2. \A k \in 1 .. 1 : SendCommand("CONNECT", FrameOf(Found(c)[k].protocol_name), "") = x
        <5>1. \A k \in 1 .. 1 : Found(c)[k] = registered
          BY <4>1
        <5> QED
          BY <3>2, <5>1
      <4>3. Asked = [k \in 1 .. 1 |-> SendCommand("CONNECT", FrameOf(Found(c)[k].protocol_name), "")]
        BY <4>1
      <4>4. Asked = [k \in 1 .. 1 |-> x]
        BY <4>2, <4>3
      <4>5. [k \in 1 .. 1 |-> x] = <<x>>
        OBVIOUS
      <4> QED
        BY <4>4, <4>5
    <3> QED
      BY <3>1, <3>2, <3>3, OneElement
  <2> QED
    BY <2>1, <2>2, FoundLists
<1>3. <<Hullo("SEND")>> \in Seq(Commands!Command) /\ <<Hullo("CONNECT")>> \in Seq(Commands!Command)
  <2>1. Hullo("SEND") \in Commands!Command /\ Hullo("CONNECT") \in Commands!Command
    BY <1>1 DEF Verb
  <2> HIDE DEF Hullo
  <2> QED
    BY <2>1
<1>4. /\ CommandsOf(c)["s"] = <<Hullo("SEND")>> /\ CommandsOf(c)["c"] = <<Hullo("CONNECT")>>
      /\ CommandsOf(c)["a"] = Asked
  BY DEF CommandsOf
<1> HIDE DEF Hullo, Asked
<1>5. key = "s" \/ key = "c" \/ key = "a"
  BY PressedAssumption
<1> QED
  BY <1>2, <1>3, <1>4, <1>5

LEMMA GotoLoops ==
  ASSUME FoundOnce, Loops, NEW c \in Client, NEW place, NEW rest, Goto(c, place, rest),
         \A d \in Client : d # c => result'[d] = result[d],
         place = "subscribe" => rest \in {<<>>, Found(c)} /\ result' = result,
         place = "command" => rest \in Seq(Commands!Command) /\ rest # <<>>
  PROVE  Loops'
<1>1. /\ at' = [at EXCEPT ![c] = place] /\ todo' = [todo EXCEPT ![c] = rest]
  BY DEF Goto
<1>2. todo' = [d \in Client |-> todo'[d]]
  BY <1>1 DEF Loops
<1>3. at'[c] = place /\ todo'[c] = rest
  BY <1>1 DEF Loops, FoundOnce
<1>4. \A d \in Client : d # c => at'[d] = at[d] /\ todo'[d] = todo[d] /\ Found(d)' = Found(d)
  BY <1>1 DEF Loops, FoundOnce, Found
<1>5. place = "subscribe" => Found(c)' = Found(c)
  BY DEF Found
<1>6. ASSUME NEW d \in Client
      PROVE  /\ at'[d] = "subscribe" => todo'[d] \in {<<>>, Found(d)'}
             /\ at'[d] = "command" => todo'[d] \in Seq(Commands!Command) /\ todo'[d] # <<>>
  <2>1. CASE d = c
    BY <1>3, <1>5, <2>1
  <2>2. CASE d # c
    BY <1>4, <2>2 DEF Loops
  <2> QED
    BY <2>1, <2>2
<1> QED
  BY <1>2, <1>6 DEF Loops, Found

(* The results of the directory change only when a query ends.             *)
LEMMA ResultsElsewhere ==
  ASSUME ServerInv, Filling, AnsweringLists, FoundOnce, [Next]_vars
  PROVE  /\ registered' = registered
         /\ \/ result' = result
            \/ \E c \in Client : QueryEnds(c)
<1>1. CASE LaunchServer
  BY <1>1 DEF LaunchServer, Continue, OnlyPrograms, dirVars
<1>2. CASE MainStep
  <2>1. registered' = registered
    BY <1>2, MainMoves
  <2>2. CASE AddProtocol /\ main = 1
    BY <2>1, <2>2, OwnerMoves
  <2>3. CASE StartRunning
    BY <2>1, <2>3 DEF StartRunning, Directory!StartRunning, Directory!clientVars
  <2>4. CASE UNCHANGED dirVars
    BY <2>1, <2>4 DEF dirVars
  <2> QED
    BY <1>2, <2>2, <2>3, <2>4, MainMoves
<1>3. CASE DirectoryThread
  BY <1>3, ThreadMoves DEF programVars
<1>4. CASE \E c \in Client : LaunchClient(c) \/ QueryEnds(c)
  BY <1>4 DEF LaunchClient, QueryEnds, Goto, Directory!QueryProtocols, Directory!clientVars
<1>5. CASE UNCHANGED vars
  BY <1>5 DEF vars, programVars, dirVars
<1>6. CASE /\ Next /\ ~MainStep /\ ~DirectoryThread /\ ~LaunchServer
           /\ \A c \in Client : ~LaunchClient(c) /\ ~QueryEnds(c)
  BY <1>6, DirectoryElsewhere DEF dirVars
<1> QED
  BY <1>1, <1>2, <1>3, <1>4, <1>5, <1>6

LEMMA LoopsKept ==
  ServerInv /\ Filling /\ AnsweringLists /\ FoundOnce /\ Loops /\ [Next]_vars => Loops'
<1> SUFFICES ASSUME ServerInv, Filling, AnsweringLists, FoundOnce, Loops, [Next]_vars
             PROVE  Loops'
  OBVIOUS
<1>1. CASE UNCHANGED <<at, todo, result>>
  BY <1>1 DEF Loops, Found
<1>2. CASE LaunchServer \/ MainStep \/ DirectoryThread \/ CommandThread \/ UNCHANGED vars
  <2>1. at' = at /\ todo' = todo
    BY <1>2, MainMoves DEF LaunchServer, Continue, DirectoryThread, CommandThread, vars, programVars
  <2>2. result' = result
    <3>1. \A c \in Client : ~QueryEnds(c)
      <4>1. SUFFICES ASSUME NEW c \in Client, QueryEnds(c) PROVE FALSE
        OBVIOUS
      <4>2. at' = [at EXCEPT ![c] = "bind"] /\ at[c] = "query"
        BY <4>1 DEF QueryEnds, Goto
      <4>3. at'[c] = "bind"
        BY <4>2 DEF FoundOnce
      <4> QED
        BY <2>1, <4>2, <4>3
    <3> QED
      BY <3>1, ResultsElsewhere
  <2> QED
    BY <1>1, <2>1, <2>2
<1>3. ASSUME NEW c \in Client, ClientStep(c) \/ UserStep(c) \/ Receive(c) \/ Learn(c)
      PROVE  Loops'
  <2>1. CASE Send(c) \/ Receive(c) \/ Learn(c)
    BY <1>1, <2>1 DEF Send, Receive, Learn, programVars, dirVars
  <2>2. CASE LaunchClient(c)
    BY <2>2, GotoLoops DEF LaunchClient, Directory!QueryProtocols, Directory!clientVars
  <2>3. CASE QueryEnds(c)
    <3>1. \A d \in Client : d # c => result'[d] = result[d]
      BY <2>3 DEF QueryEnds, Directory!QueryReturns, Directory!QueryTimesOut, FoundOnce
    <3> QED
      BY <2>3, <3>1, GotoLoops DEF QueryEnds
  <2>4. CASE Bind(c)
    BY <2>4, GotoLoops DEF Bind, dirVars
  <2>5. CASE BindThrows(c) \/ Subscribed(c) \/ Quit(c)
    BY <2>5, GotoLoops DEF BindThrows, Subscribed, Quit, OnlyPrograms, dirVars
  <2>6. CASE Subscribe(c)
    <3>1. todo[c] = OwnList
      BY <2>6, FoundLists DEF Subscribe, Loops
    <3>2. Tail(todo[c]) = <<>>
      BY <3>1 DEF OwnList
    <3> QED
      BY <2>6, <3>2, GotoLoops DEF Subscribe, dirVars
  <2>7. CASE PressKey(c)
    <3>1. PICK key \in Pressed : CommandsOf(c)[key] # <<>> /\ Goto(c, "command", CommandsOf(c)[key])
      BY <2>7 DEF PressKey
    <3>2. CommandsOf(c)[key] \in Seq(Commands!Command)
      BY <3>1, KeyCommands
    <3>3. result' = result
      BY <2>7 DEF PressKey, OnlyPrograms, dirVars
    <3> QED
      BY <3>1, <3>2, <3>3, GotoLoops
  <2>8. CASE SendReturns(c)
    <3>1. PICK t : t = todo[c]
      OBVIOUS
    <3>2. t \in Seq(Commands!Command) /\ t # <<>>
      BY <2>8, <3>1 DEF SendReturns, Loops
    <3>3. Tail(t) \in Seq(Commands!Command) /\ (Len(t) # 1 => Tail(t) # <<>>)
      BY <3>2, TailOf
    <3>4. Goto(c, IF Len(t) = 1 THEN "keys" ELSE "command", Tail(t)) /\ result' = result
      BY <2>8, <3>1 DEF SendReturns, dirVars
    <3>5. CASE Len(t) = 1
      BY <3>4, <3>5, GotoLoops
    <3>6. CASE Len(t) # 1
      BY <3>3, <3>4, <3>6, GotoLoops
    <3> QED
      BY <3>5, <3>6
  <2> QED
    BY <1>3, <2>1, <2>2, <2>3, <2>4, <2>5, <2>6, <2>7, <2>8 DEF ClientStep, UserStep
<1> QED
  BY <1>2, <1>3 DEF Next

(* The messages in the pipes, by whoever has found the protocol.           *)
LEMMA PublishKept ==
  ASSUME Subscriptions, Packages!Publish("demo", "message"), registered' = registered, result' = result
  PROVE  Subscriptions'
<1> DEFINE m == [from |-> "demo", text |-> Packages!Text(OwnHeader), data |-> "message"]
           Matched(l) == Packages!Matching(l, m.text) # {}
<1>1. pipe' = [l \in Link |-> IF l[1] = "demo" /\ Matched(l) /\ Len(pipe[l]) < HighWater(l)
                              THEN Append(pipe[l], m) ELSE pipe[l]]
      /\ UNCHANGED <<topics, known, got>>
  BY DEF Packages!Publish, Packages!SentFrom, OwnHeader
<1>2. m \in OwnMessage
  BY DEF OwnMessage, Data
<1>3. ASSUME NEW l \in Link PROVE pipe'[l] \in Seq(OwnMessage)
  <2>1. pipe[l] \in Seq(OwnMessage)
    BY DEF Subscriptions
  <2>2. Append(pipe[l], m) \in Seq(OwnMessage)
    <3>1. PICK S, x, s : S = OwnMessage /\ x = m /\ s = pipe[l]
      OBVIOUS
    <3>2. Append(s, x) \in Seq(S)
      BY <1>2, <2>1, <3>1
    <3> QED
      BY <3>1, <3>2
  <2>3. pipe'[l] = Append(pipe[l], m) \/ pipe'[l] = pipe[l]
    <3> HIDE DEF m, Matched
    <3> QED
      BY <1>1
  <2> QED
    BY <2>1, <2>2, <2>3
<1>4. ASSUME NEW c \in Client, result[c].kind # "found"
      PROVE  pipe'[<<"demo", c>>] = <<>>
  <2>1. <<"demo", c>> \in Link
    BY DEF Link, Publisher
  <2>2. known[<<"demo", c>>] = {} /\ pipe[<<"demo", c>>] = <<>>
    BY <1>4 DEF Subscriptions
  <2>3. ~Matched(<<"demo", c>>)
    BY <2>2 DEF Packages!Matching
  <2> HIDE DEF m, Matched
  <2> QED
    BY <1>1, <2>1, <2>2, <2>3
<1>5. pipe' \in [Link -> Seq(OwnMessage)]
  <2>1. pipe' = [l \in Link |-> pipe'[l]]
    <3> HIDE DEF m, Matched
    <3> QED
      BY <1>1
  <2> QED
    BY <1>3, <2>1
<1> HIDE DEF m, Matched
<1> QED
  BY <1>1, <1>4, <1>5 DEF Subscriptions, OwnMessage, OwnHeader

LEMMA SubscribeKept ==
  ASSUME ServerInv, FoundOnce, Loops, Subscriptions, NEW c \in Client, Subscribe(c)
  PROVE  Subscriptions'
<1>1. todo[c] = OwnList /\ result[c].kind = "found"
  BY FoundLists DEF Subscribe, Loops
<1>2. Head(todo[c]) = registered
  BY <1>1 DEF OwnList
<1>3. topics' = [topics EXCEPT ![c] = @ \cup {registered.protocol_name}]
      /\ UNCHANGED <<known, pipe, got, result, registered>>
  BY <1>2 DEF Subscribe, Packages!Subscribe, Goto, dirVars
<1>4. topics' \in [Client -> SUBSET {registered.protocol_name}]
      /\ \A d \in Client : d # c => topics'[d] = topics[d]
  BY <1>3 DEF Subscriptions
<1> QED
  BY <1>1, <1>3, <1>4 DEF Subscriptions, OwnMessage, OwnHeader

LEMMA LearnKept ==
  ASSUME Subscriptions, NEW c \in Client, Learn(c)
  PROVE  Subscriptions'
<1> DEFINE l == <<"demo", c>>
<1>1. PICK t : t \in topics[c] /\ known' = [known EXCEPT ![l] = @ \cup {t}]
  <2>1. l[2] = c
    OBVIOUS
  <2> QED
    BY <2>1 DEF Learn, Packages!Learn, Packages!Wanted
<1>2. UNCHANGED <<topics, pipe, got, result, registered>>
  BY DEF Learn, Packages!Learn, programVars, dirVars
<1>3. t = registered.protocol_name /\ result[c].kind = "found"
  BY <1>1 DEF Subscriptions
<1>4. l \in Link
  BY DEF Link, Publisher
<1>5. known' \in [Link -> SUBSET {registered.protocol_name}]
  BY <1>1, <1>3, <1>4 DEF Subscriptions
<1>6. ASSUME NEW d \in Client, d # c PROVE known'[<<"demo", d>>] = known[<<"demo", d>>]
  <2>1. <<"demo", d>> # l /\ <<"demo", d>> \in Link
    BY <1>6 DEF Link, Publisher
  <2> HIDE DEF l
  <2> QED
    BY <1>1, <1>4, <2>1 DEF Subscriptions
<1> HIDE DEF l
<1> QED
  BY <1>2, <1>3, <1>5, <1>6 DEF Subscriptions, OwnMessage, OwnHeader

LEMMA ReceiveKept ==
  ASSUME Subscriptions, NEW c \in Client, Receive(c)
  PROVE  Subscriptions'
<1> DEFINE l == <<"demo", c>>
<1>1. /\ pipe[l] # <<>>
      /\ got' = [got EXCEPT ![c] = Packages!Opened(Head(pipe[l]))]
      /\ pipe' = [pipe EXCEPT ![l] = Tail(@)]
      /\ UNCHANGED <<topics, known>>
  <2>1. l[2] = c
    OBVIOUS
  <2> QED
    BY <2>1 DEF Receive, Packages!Receive
<1>2. UNCHANGED <<result, registered>>
  BY DEF Receive, programVars, dirVars
<1>3. l \in Link
  BY DEF Link, Publisher
<1>4. result[c].kind = "found"
  BY <1>1 DEF Subscriptions
<1>5. PICK s : s = pipe[l]
  OBVIOUS
<1>6. s \in Seq(OwnMessage) /\ s # <<>>
  BY <1>1, <1>3, <1>5 DEF Subscriptions
<1>7. Head(s) \in OwnMessage /\ Tail(s) \in Seq(OwnMessage)
  <2>1. PICK S : S = OwnMessage
    OBVIOUS
  <2>2. Head(s) \in S /\ Tail(s) \in Seq(S)
    BY <1>6, <2>1
  <2> QED
    BY <2>1, <2>2
<1>8. Packages!Opened(Head(s)).header = OwnHeader
  <2>1. Head(s).text = Packages!Text(OwnHeader)
    BY <1>7 DEF OwnMessage
  <2> QED
    BY <2>1, HeaderArrives DEF Packages!Opened
<1>9. pipe' \in [Link -> Seq(OwnMessage)]
  BY <1>1, <1>3, <1>5, <1>7 DEF Subscriptions
<1>10. ASSUME NEW d \in Client, d # c
       PROVE  pipe'[<<"demo", d>>] = pipe[<<"demo", d>>] /\ got'[d] = got[d]
  <2>1. <<"demo", d>> # l /\ <<"demo", d>> \in Link
    BY <1>10 DEF Link, Publisher
  <2> HIDE DEF l
  <2> QED
    BY <1>1, <1>3, <1>10, <2>1 DEF Subscriptions
<1>11. got' = [d \in Client |-> got'[d]] /\ got'[c].header = OwnHeader
  BY <1>1, <1>5, <1>8 DEF Subscriptions
<1> HIDE DEF l
<1> QED
  BY <1>1, <1>2, <1>4, <1>9, <1>10, <1>11 DEF Subscriptions, OwnMessage, OwnHeader

LEMMA QuitKept ==
  ASSUME Subscriptions, NEW c \in Client, Quit(c)
  PROVE  Subscriptions'
<1>1. /\ known' = [l \in Link |-> IF c \in {l[1], l[2]} THEN {} ELSE known[l]]
      /\ pipe' = [l \in Link |-> IF c = l[2] THEN <<>> ELSE pipe[l]]
      /\ topics' = [d \in Client |-> IF d = c THEN {} ELSE topics[d]]
      /\ got' = [d \in Client |-> IF d = c THEN NoPackage ELSE got[d]]
  BY DEF Quit, Packages!End
<1>2. UNCHANGED <<result, registered>>
  BY DEF Quit, Goto, dirVars
<1>3. \A l \in Link : known'[l] \in {{}, known[l]} /\ pipe'[l] \in {<<>>, pipe[l]}
  BY <1>1
<1>4. \A d \in Client : topics'[d] \in {{}, topics[d]} /\ got'[d] \in {NoPackage, got[d]}
  BY <1>1
<1>5. /\ topics' \in [Client -> SUBSET {registered.protocol_name}]
      /\ known' \in [Link -> SUBSET {registered.protocol_name}]
      /\ got' = [d \in Client |-> got'[d]]
  BY <1>1 DEF Subscriptions
<1>6. pipe' \in [Link -> Seq(OwnMessage)]
  <2>1. <<>> \in Seq(OwnMessage)
    OBVIOUS
  <2> QED
    BY <1>1, <2>1 DEF Subscriptions
<1>7. \A d \in Client : <<"demo", d>> \in Link
  BY DEF Link, Publisher
<1> QED
  BY <1>2, <1>3, <1>4, <1>5, <1>6, <1>7 DEF Subscriptions, OwnMessage, OwnHeader

LEMMA SubscriptionsKept ==
  /\ ServerInv /\ Filling /\ AnsweringLists /\ FoundOnce /\ Loops /\ Subscriptions
  /\ [Next]_vars
  => Subscriptions'
<1> SUFFICES ASSUME ServerInv, Filling, AnsweringLists, FoundOnce, Loops, Subscriptions, [Next]_vars
             PROVE  Subscriptions'
  OBVIOUS
<1>1. CASE UNCHANGED <<topics, known, pipe, got, result, registered>>
  BY <1>1 DEF Subscriptions, OwnMessage, OwnHeader
<1>2. CASE \E c \in Client : QueryEnds(c)
  <2>1. PICK c \in Client : QueryEnds(c)
    BY <1>2
  <2>2. UNCHANGED <<topics, known, pipe, got, registered>>
    BY <2>1 DEF QueryEnds, Goto, pkgVars
  <2>3. /\ \A d \in Client : d # c => result'[d] = result[d]
        /\ result[c].kind # "found"
    <3>1. result[c].kind # "found"
      BY <2>1, ClientMoves
    <3>2. \A d \in Client : d # c => result'[d] = result[d]
      BY <2>1 DEF QueryEnds, Directory!QueryReturns, Directory!QueryTimesOut, FoundOnce
    <3> QED
      BY <3>1, <3>2
  <2>4. \A d \in Client : result'[d].kind # "found" => result[d].kind # "found"
    BY <2>3
  <2> QED
    BY <2>2, <2>4 DEF Subscriptions, OwnMessage, OwnHeader
<1>3. CASE ~ \E c \in Client : QueryEnds(c)
  <2>0. registered' = registered /\ result' = result
    BY <1>3, ResultsElsewhere
  <2>1. CASE UNCHANGED <<topics, known, pipe, got>>
    BY <1>1, <2>0, <2>1
  <2>2. CASE LaunchServer \/ DirectoryThread \/ CommandThread \/ UNCHANGED vars
    BY <2>1, <2>2 DEF LaunchServer, OnlyPrograms, DirectoryThread, CommandThread, vars, pkgVars
  <2>3. CASE AddProtocol \/ StartRunning \/ SetCommandCallback \/ StartCommandHandler
    BY <2>1, <2>3 DEF AddProtocol, StartRunning, SetCommandCallback, StartCommandHandler, pkgVars
  <2>4. CASE BindPublisher
    BY <2>1, <2>4 DEF BindPublisher, Packages!Bind, Packages!Open
  <2>5. CASE Publish
    BY <2>0, <2>5, PublishKept DEF Publish
  <2>6. ASSUME NEW c \in Client, ClientStep(c) \/ UserStep(c) \/ Receive(c) \/ Learn(c)
        PROVE  Subscriptions'
    <3>1. CASE BindThrows(c) \/ Subscribed(c) \/ Send(c) \/ SendReturns(c) \/ LaunchClient(c) \/ PressKey(c)
      BY <2>1, <3>1 DEF BindThrows, Subscribed, Send, SendReturns, LaunchClient, PressKey,
         OnlyPrograms, pkgVars
    <3>2. CASE Bind(c)
      BY <2>1, <3>2 DEF Bind, Packages!Connect, Packages!Open
    <3>3. CASE Subscribe(c)
      BY <3>3, SubscribeKept
    <3>4. CASE Receive(c)
      BY <3>4, ReceiveKept
    <3>5. CASE Learn(c)
      BY <3>5, LearnKept
    <3>6. CASE Quit(c)
      BY <3>6, QuitKept
    <3> QED
      BY <1>3, <2>6, <3>1, <3>2, <3>3, <3>4, <3>5, <3>6 DEF ClientStep, UserStep
  <2> QED
    BY <2>2, <2>3, <2>4, <2>5, <2>6 DEF Next, MainStep
<1> QED
  BY <1>2, <1>3

-----------------------------------------------------------------------------
LEMMA InvInit == Init => Inv
<1> SUFFICES ASSUME Init PROVE Inv
  OBVIOUS
<1>1. /\ registered \in Entry /\ main = 0
      /\ at = [c \in Client |-> "off"] /\ todo = [c \in Client |-> <<>>]
  BY DEF Init
<1>2. ServerInv
  BY <1>1 DEF ServerInv
<1>3. Filling
  BY <1>1 DEF Filling, Init, Directory!Init
<1>4. AnsweringLists
  <2>1. Directory!Peer = Client
    BY DEF Directory!Peer, Registrar
  <2> QED
    BY <1>1, <2>1 DEF AnsweringLists, Init, Directory!Init
<1>5. result = [c \in Client |-> Directory!NoResult] /\ Directory!NoResult.kind = "none"
  BY DEF Init, Directory!Init, Directory!NoResult
<1>6. FoundOnce
  BY <1>1, <1>5 DEF FoundOnce
<1>7. HandlerIsSet
  BY <1>1 DEF HandlerIsSet, Init, Commands!Init
<1>8. Loops
  BY <1>1 DEF Loops
<1>9. Subscriptions
  <2>1. <<>> \in Seq(OwnMessage)
    OBVIOUS
  <2>2. \A c \in Client : <<"demo", c>> \in Link
    BY DEF Link, Publisher
  <2> QED
    BY <2>1, <2>2 DEF Subscriptions, Init, Packages!Init
<1> QED
  BY <1>2, <1>3, <1>4, <1>6, <1>7, <1>8, <1>9 DEF Inv

LEMMA InvKept == Inv /\ [Next]_vars => Inv'
<1> SUFFICES ASSUME Inv, [Next]_vars PROVE Inv'
  OBVIOUS
<1> QED
  BY ServerInvKept, FillingKept, AnsweringListsKept, FoundOnceKept, HandlerIsSetKept, LoopsKept,
     SubscriptionsKept DEF Inv

(* main of the server, its threads and the clients show what was called,   *)
(* in whatever order the programs are started (the programs).              *)
THEOREM ProgramsInvariant == Spec => []Inv
BY InvInit, InvKept, PTL DEF Spec

(* A client that the directory answers is told of the one protocol, and    *)
(* receives packages of no other, and none if it was told of none (main of *)
(* the client, queryProtocols, receiveSubscribed).                         *)
THEOREM FoundOrNothing == Spec => []FindsOrGetsNothing
<1>1. Inv => FindsOrGetsNothing
  <2> SUFFICES ASSUME Inv, NEW c \in Client
               PROVE  /\ result[c].kind = "found" => result[c].entries = <<registered>>
                      /\ got[c] # NoPackage =>
                           \E k \in DOMAIN Found(c) : Found(c)[k].protocol_name = got[c].header.protocol_name
    BY DEF FindsOrGetsNothing
  <2>1. result[c].kind = "found" => result[c].entries = <<registered>>
    BY DEF Inv, FoundOnce, OwnList
  <2>2. ASSUME got[c] # NoPackage
        PROVE  \E k \in DOMAIN Found(c) : Found(c)[k].protocol_name = got[c].header.protocol_name
    <3>1. result[c].kind = "found" /\ got[c].header = OwnHeader
      BY <2>2 DEF Inv, Subscriptions
    <3>2. Found(c) = <<registered>>
      BY <2>1, <3>1 DEF Found
    <3>3. DOMAIN Found(c) = 1 .. 1 /\ Found(c)[1] = registered
      BY <3>2
    <3>4. registered.protocol_name = OwnHeader.protocol_name
      BY NameAssumption DEF Inv, ServerInv, OwnHeader
    <3> QED
      BY <3>1, <3>3, <3>4
  <2> QED
    BY <2>1, <2>2
<1> QED
  BY <1>1, ProgramsInvariant, PTL

-----------------------------------------------------------------------------
(* The programs as owners of their components.                             *)

(* The directory that the programs use, and the one of a careful owner, are *)
(* the same but for what the owner may do.                                 *)
LEMMA SameTable == \A s, e : /\ Directory!Inserted(s, e) = CarefulDirectory!Inserted(s, e)
                            /\ Directory!Erased(s, e) = CarefulDirectory!Erased(s, e)
<1>1. \A e : Directory!Key(e) = CarefulDirectory!Key(e)
  BY DEF Directory!Key, CarefulDirectory!Key
<1>2. \A S : Directory!SetToSeqs(S) = CarefulDirectory!SetToSeqs(S)
  BY DEF Directory!SetToSeqs, CarefulDirectory!SetToSeqs, Directory!Cardinality,
     CarefulDirectory!Cardinality
<1>3. \A s : Directory!ToSet(s) = CarefulDirectory!ToSet(s)
  BY DEF Directory!ToSet, CarefulDirectory!ToSet
<1>4. \A s, i : Directory!RemoveAt(s, i) = CarefulDirectory!RemoveAt(s, i)
  BY DEF Directory!RemoveAt, CarefulDirectory!RemoveAt
<1>5. \A s, e : Directory!Inserted(s, e) = CarefulDirectory!Inserted(s, e)
  BY <1>1, <1>2, <1>3 DEF Directory!Inserted, CarefulDirectory!Inserted
<1>6. \A s, e : Directory!Erased(s, e) = CarefulDirectory!Erased(s, e)
  BY <1>1, <1>4 DEF Directory!Erased, CarefulDirectory!Erased
<1> QED
  BY <1>5, <1>6

LEMMA SameStates ==
  /\ Directory!ListRequest = CarefulDirectory!ListRequest /\ Directory!Ready = CarefulDirectory!Ready
  /\ Directory!Nowhere = CarefulDirectory!Nowhere /\ Directory!Resting = CarefulDirectory!Resting
  /\ Directory!TimedOut = CarefulDirectory!TimedOut /\ Directory!Nobody = CarefulDirectory!Nobody
  /\ \A x : /\ Directory!Sent(x) = CarefulDirectory!Sent(x) /\ Directory!Taken(x) = CarefulDirectory!Taken(x)
           /\ Directory!Listing(x) = CarefulDirectory!Listing(x) /\ Directory!Reply(x) = CarefulDirectory!Reply(x)
           /\ Directory!Running(x) = CarefulDirectory!Running(x) /\ Directory!Found(x) = CarefulDirectory!Found(x)
           /\ Directory!Waiting(x) = CarefulDirectory!Waiting(x) /\ Directory!Told(x) = CarefulDirectory!Told(x)
  /\ \A a, p, s : Directory!Serving(a, p, s) = CarefulDirectory!Serving(a, p, s)
BY DEF Directory!ListRequest, CarefulDirectory!ListRequest, Directory!Ready,
     CarefulDirectory!Ready, Directory!Sent, CarefulDirectory!Sent, Directory!Taken,
     CarefulDirectory!Taken, Directory!Listing, CarefulDirectory!Listing, Directory!Reply,
     CarefulDirectory!Reply, Directory!Nowhere, CarefulDirectory!Nowhere, Directory!Running,
     CarefulDirectory!Running, Directory!Serving, CarefulDirectory!Serving, Directory!Resting,
     CarefulDirectory!Resting, Directory!TimedOut, CarefulDirectory!TimedOut, Directory!Threw,
     CarefulDirectory!Threw, Directory!Found, CarefulDirectory!Found, Directory!Nobody,
     CarefulDirectory!Nobody, Directory!Waiting, CarefulDirectory!Waiting, Directory!Told,
     CarefulDirectory!Told

LEMMA SameThread == Directory!ThreadStep => CarefulDirectory!ThreadStep
<1> USE SameTable, SameStates
    DEF Directory!Goto, CarefulDirectory!Goto, Directory!Alive, CarefulDirectory!Alive,
        Directory!Handles, CarefulDirectory!Handles, Directory!clientVars,
        CarefulDirectory!clientVars
<1>1. Directory!Bind => CarefulDirectory!Bind
  BY DEF Directory!Bind, CarefulDirectory!Bind
<1>2. Directory!BindThrows => CarefulDirectory!BindThrows
  BY DEF Directory!BindThrows, CarefulDirectory!BindThrows
<1>3. Directory!Publish => CarefulDirectory!Publish
  BY DEF Directory!Publish, CarefulDirectory!Publish
<1>4. Directory!EndLoop => CarefulDirectory!EndLoop
  BY DEF Directory!EndLoop, CarefulDirectory!EndLoop
<1>5. Directory!ReceiveTimesOut => CarefulDirectory!ReceiveTimesOut
  BY DEF Directory!ReceiveTimesOut, CarefulDirectory!ReceiveTimesOut
<1>6. Directory!ReadMap => CarefulDirectory!ReadMap
  BY DEF Directory!ReadMap, CarefulDirectory!ReadMap
<1>7. Directory!ReplaceList => CarefulDirectory!ReplaceList
  BY DEF Directory!ReplaceList, CarefulDirectory!ReplaceList
<1>8. Directory!Acknowledge => CarefulDirectory!Acknowledge
  BY DEF Directory!Acknowledge, CarefulDirectory!Acknowledge
<1>9. \A p : Directory!Receive(p) => CarefulDirectory!Receive(p)
  BY DEF Directory!Receive, CarefulDirectory!Receive
<1>10. \A p : Directory!AnswerList(p) => CarefulDirectory!AnswerList(p)
  BY DEF Directory!AnswerList, CarefulDirectory!AnswerList
<1>11. \A p : Directory!AnswerUnknown(p) => CarefulDirectory!AnswerUnknown(p)
  BY DEF Directory!AnswerUnknown, CarefulDirectory!AnswerUnknown
<1>12. \A p : Directory!HandleAdd(p) => CarefulDirectory!HandleAdd(p)
  BY DEF Directory!HandleAdd, CarefulDirectory!HandleAdd
<1>13. \A p : Directory!HandleRemove(p) => CarefulDirectory!HandleRemove(p)
  BY DEF Directory!HandleRemove, CarefulDirectory!HandleRemove
<1>14. Directory!Peer = CarefulDirectory!Peer
  BY DEF Directory!Peer, CarefulDirectory!Peer
<1> QED
  BY <1>1, <1>2, <1>3, <1>4, <1>5, <1>6, <1>7, <1>8, <1>9, <1>10, <1>11, <1>12, <1>13, <1>14 DEF Directory!ThreadStep, CarefulDirectory!ThreadStep

(* What an owner may do who is not to fill in the directory while it runs. *)
LEMMA CarefulDirectoryStep ==
  Inv /\ Inv' /\ [Next]_vars => [CarefulDirectory!Next]_CarefulDirectory!vars
<1> SUFFICES ASSUME Inv, Inv', [Next]_vars
             PROVE  [CarefulDirectory!Next]_CarefulDirectory!vars
  OBVIOUS
<1>0. ServerInv /\ Filling /\ AnsweringLists /\ FoundOnce /\ Returned = FALSE /\ Returned' = FALSE
  <2>1. ServerInv /\ Filling /\ AnsweringLists /\ FoundOnce /\ ServerInv'
    BY DEF Inv
  <2>2. main \in 0 .. 6 /\ main' \in 0 .. 6 /\ Len(Program) = 6
    BY <2>1 DEF ServerInv, Program
  <2> QED
    BY <2>1, <2>2 DEF Returned
<1>1. CASE UNCHANGED dirVars
  BY <1>0, <1>1 DEF dirVars, CarefulDirectory!vars, CarefulDirectory!serverVars, CarefulDirectory!clientVars
<1>2. CASE LaunchServer
  BY <1>1, <1>2 DEF LaunchServer, OnlyPrograms
<1>3. CASE AddProtocol /\ main = 1
  <2>1. CarefulDirectory!OwnerMayAdd
    BY <1>0, <1>3, SameStates DEF AnsweringLists, CarefulDirectory!OwnerMayAdd
  <2>2. CASE Directory!AddProtocol(registered)
    <3>1. CarefulDirectory!AddProtocol(registered)
      BY <2>1, <2>2, SameStates, SameTable
         DEF CarefulDirectory!AddProtocol, Directory!AddProtocol, Directory!Alive,
             CarefulDirectory!Alive, Directory!clientVars, CarefulDirectory!clientVars
    <3> QED
      BY <1>0, <3>1 DEF CarefulDirectory!Next, CarefulDirectory!OwnerStep, ServerInv
  <2>3. CASE Directory!OwnerReadsMap
    <3>1. CarefulDirectory!OwnerReadsMap
      BY <2>3 DEF CarefulDirectory!OwnerReadsMap, Directory!OwnerReadsMap, Directory!Alive,
             CarefulDirectory!Alive, Directory!clientVars, CarefulDirectory!clientVars
    <3> QED
      BY <3>1 DEF CarefulDirectory!Next, CarefulDirectory!OwnerStep
  <2>4. CASE Directory!OwnerReplacesList
    <3>1. CarefulDirectory!OwnerReplacesList
      BY <2>4, SameStates DEF CarefulDirectory!OwnerReplacesList, Directory!OwnerReplacesList,
         Directory!Alive, CarefulDirectory!Alive, Directory!clientVars, CarefulDirectory!clientVars
    <3> QED
      BY <3>1 DEF CarefulDirectory!Next, CarefulDirectory!OwnerStep
  <2> QED
    BY <1>3, <2>2, <2>3, <2>4 DEF AddProtocol
<1>4. CASE StartRunning
  <2>1. CarefulDirectory!StartRunning
    BY <1>0, <1>4, SameStates DEF StartRunning, CarefulDirectory!StartRunning,
       Directory!StartRunning, Directory!clientVars, CarefulDirectory!clientVars
  <2> QED
    BY <2>1 DEF CarefulDirectory!Next, CarefulDirectory!OwnerStep
<1>5. CASE MainStep
  BY <1>0, <1>1, <1>3, <1>4, <1>5, MainMoves
<1>6. CASE DirectoryThread
  BY <1>6, SameThread DEF DirectoryThread, CarefulDirectory!Next
<1>7. CASE \E c \in Client : LaunchClient(c) \/ QueryEnds(c)
  <2>1. PICK c \in Client : LaunchClient(c) \/ QueryEnds(c)
    BY <1>7
  <2>2. CASE LaunchClient(c)
    <3>1. CarefulDirectory!QueryProtocols(c)
      BY <2>2, SameStates DEF LaunchClient, CarefulDirectory!QueryProtocols,
         Directory!QueryProtocols, Directory!serverVars, CarefulDirectory!serverVars,
         Directory!clientVars, CarefulDirectory!clientVars
    <3> QED
      BY <3>1 DEF CarefulDirectory!Next, CarefulDirectory!PeerStep
  <2>3. CASE Directory!QueryTimesOut(c)
    <3>1. CarefulDirectory!QueryTimesOut(c)
      BY <2>3, SameStates DEF CarefulDirectory!QueryTimesOut, Directory!QueryTimesOut,
         Directory!Awaiting, CarefulDirectory!Awaiting, Directory!serverVars, CarefulDirectory!serverVars
    <3> QED
      BY <3>1 DEF CarefulDirectory!Next, CarefulDirectory!PeerStep
  <2>4. CASE Directory!QueryReturns(c)
    <3>1. CarefulDirectory!QueryReturns(c)
      BY <2>4, SameStates DEF CarefulDirectory!QueryReturns, Directory!QueryReturns,
         Directory!UpdateDirectory, CarefulDirectory!UpdateDirectory,
         Directory!serverVars, CarefulDirectory!serverVars
    <3> QED
      BY <3>1 DEF CarefulDirectory!Next, CarefulDirectory!PeerStep
  <2> QED
    BY <2>1, <2>2, <2>3, <2>4 DEF QueryEnds
<1>8. CASE UNCHANGED vars
  BY <1>1, <1>8 DEF vars
<1>9. CASE /\ Next /\ ~MainStep /\ ~DirectoryThread /\ ~LaunchServer
           /\ \A c \in Client : ~LaunchClient(c) /\ ~QueryEnds(c)
  BY <1>1, <1>9, DirectoryElsewhere
<1> QED
  BY <1>2, <1>5, <1>6, <1>7, <1>8, <1>9

(* The demo server is an owner for whom the directory keeps its list right:*)
(* it fills it in before it starts the thread, and nothing after (main of  *)
(* the server, addProtocol, startRunning).                                 *)
THEOREM DirectoryIsUsedWithCare == Spec => DirectoryUsedWithCare
<1>1. Init => CarefulDirectory!Init
  <2> SUFFICES ASSUME Init PROVE CarefulDirectory!Init
    OBVIOUS
  <2>1. Returned = FALSE
    BY DEF Init, Returned, Program
  <2> QED
    BY <2>1, SameStates DEF Init, Directory!Init, CarefulDirectory!Init, Directory!Peer,
       CarefulDirectory!Peer, Directory!NoResult, CarefulDirectory!NoResult
<1>2. Inv /\ Inv' /\ [Next]_vars => [CarefulDirectory!Next]_CarefulDirectory!vars
  BY CarefulDirectoryStep
<1> QED
  BY <1>1, <1>2, ProgramsInvariant, PTL DEF Spec, DirectoryUsedWithCare, CarefulDirectory!Spec

(* The same of the commands.                                               *)
LEMMA SameCommands ==
  /\ Commands!Command = CarefulCommands!Command
  /\ Commands!Ready = CarefulCommands!Ready /\ Commands!Lost = CarefulCommands!Lost
  /\ Commands!Off = CarefulCommands!Off
  /\ \A e, f : Commands!Sent(e, f) = CarefulCommands!Sent(e, f)
  /\ \A cmd : Commands!EncodeCommand(cmd) = CarefulCommands!EncodeCommand(cmd)
  /\ \A f : Commands!DecodeReply(f) = CarefulCommands!DecodeReply(f)
  /\ \A r : Commands!Got(r) = CarefulCommands!Got(r)
  /\ \A e : Commands!InUse(e) <=> CarefulCommands!InUse(e)
BY DEF Commands!Command, CarefulCommands!Command, Commands!Ready, CarefulCommands!Ready,
   Commands!Lost, CarefulCommands!Lost, Commands!Off, CarefulCommands!Off, Commands!Sent,
   CarefulCommands!Sent, Commands!EncodeCommand, CarefulCommands!EncodeCommand,
   Commands!DecodeReply, CarefulCommands!DecodeReply, Commands!Got, CarefulCommands!Got,
   Commands!InUse, CarefulCommands!InUse

LEMMA CarefulCommandsStep ==
  Inv /\ Inv' /\ [Next]_vars => [CarefulCommands!Next]_CarefulCommands!vars
<1> SUFFICES ASSUME Inv, Inv', [Next]_vars
             PROVE  [CarefulCommands!Next]_CarefulCommands!vars
  OBVIOUS
<1>0. /\ ServerInv /\ HandlerIsSet /\ Loops
      /\ Returned = FALSE /\ Returned' = FALSE
  <2>1. ServerInv /\ HandlerIsSet /\ Loops /\ ServerInv'
    BY DEF Inv
  <2>2. main \in 0 .. 6 /\ main' \in 0 .. 6 /\ Len(Program) = 6
    BY <2>1 DEF ServerInv, Program
  <2> QED
    BY <2>1, <2>2 DEF Returned
<1> DEFINE Same == UNCHANGED cmdVars
<1>1. CASE Same
  BY <1>0, <1>1 DEF cmdVars, CarefulCommands!vars, CarefulCommands!ownerVars,
     CarefulCommands!serverVars, CarefulCommands!clientVars
<1>2. CASE LaunchServer \/ AddProtocol \/ StartRunning \/ BindPublisher \/ Publish
  BY <1>1, <1>2 DEF LaunchServer, AddProtocol, StartRunning, BindPublisher, Publish, OnlyPrograms
<1>3. CASE SetCommandCallback
  <2>1. main = 4
    BY <1>0, <1>3, Calling DEF SetCommandCallback, ServerInv
  <2>2. CarefulCommands!Unstarted
    BY <1>0, <2>1, SameCommands DEF HandlerIsSet, CarefulCommands!Unstarted
  <2>3. CarefulCommands!SetCommandCallback("acknowledge")
    BY <1>0, <1>3, <2>2, SameCommands DEF SetCommandCallback, Commands!SetCommandCallback,
       CarefulCommands!SetCommandCallback, Commands!ownerVars, CarefulCommands!ownerVars,
       Commands!clientVars, CarefulCommands!clientVars
  <2> QED
    BY <2>3 DEF CarefulCommands!Next, CarefulCommands!OwnerStep, Handler
<1>4. CASE StartCommandHandler
  <2>1. main = 5
    BY <1>0, <1>4, Calling DEF StartCommandHandler, ServerInv
  <2>2. PICK e \in Endpoint : Commands!StartCommandHandler(e)
    BY <1>4 DEF StartCommandHandler
  <2>3. handler # NoHandler /\ cmdThread[e] = CarefulCommands!Off
    BY <1>0, <2>1, SameCommands DEF HandlerIsSet, NoHandler
  <2>4. CarefulCommands!StartCommandHandler(e)
    BY <1>0, <2>2, <2>3 DEF Commands!StartCommandHandler,
       CarefulCommands!StartCommandHandler, Commands!ownerVars, CarefulCommands!ownerVars,
       Commands!clientVars, CarefulCommands!clientVars
  <2> QED
    BY <2>4 DEF CarefulCommands!Next, CarefulCommands!OwnerStep
<1>5. CASE DirectoryThread
  BY <1>1, <1>5 DEF DirectoryThread
<1>6. CASE CommandThread
  BY <1>6 DEF CommandThread, CarefulCommands!Next
<1>7. ASSUME NEW c \in Client, ClientStep(c) \/ UserStep(c) \/ Receive(c) \/ Learn(c)
      PROVE  [CarefulCommands!Next]_CarefulCommands!vars
  <2>1. CASE QueryEnds(c) \/ Subscribe(c) \/ Subscribed(c) \/ LaunchClient(c) \/ PressKey(c)
             \/ Receive(c) \/ Learn(c)
    BY <1>1, <2>1 DEF QueryEnds, Subscribe, Subscribed, LaunchClient, PressKey, Receive, Learn,
       OnlyPrograms
  <2>2. ASSUME CarefulCommands!ClientStep(c) PROVE CarefulCommands!Next
    BY <2>2 DEF CarefulCommands!Next
  <2>3. CASE Bind(c)
    <3>1. PICK e \in Endpoint : Commands!Connect(c, e)
      BY <2>3 DEF Bind
    <3>2. CarefulCommands!Connect(c, e)
      BY <1>0, <3>1, SameCommands DEF Commands!Connect, CarefulCommands!Connect,
         Commands!ownerVars, CarefulCommands!ownerVars, Commands!serverVars, CarefulCommands!serverVars
    <3> QED
      BY <2>2, <3>2 DEF CarefulCommands!ClientStep
  <2>4. CASE BindThrows(c) \/ Quit(c)
    <3>1. CarefulCommands!Leave(c)
      BY <1>0, <2>4, SameCommands DEF BindThrows, Quit, Commands!Leave, CarefulCommands!Leave,
         Commands!ownerVars, CarefulCommands!ownerVars, Commands!serverVars, CarefulCommands!serverVars
    <3> QED
      BY <2>2, <3>1 DEF CarefulCommands!ClientStep
  <2>5. CASE Send(c)
    <3>1. PICK cmd : cmd = Head(todo[c])
      OBVIOUS
    <3>2. cmd \in Commands!Command
      <4>1. PICK S, t : S = Commands!Command /\ t = todo[c]
        OBVIOUS
      <4>2. t \in Seq(S) /\ t # <<>>
        BY <1>0, <2>5, <4>1 DEF Send, Loops
      <4>3. Head(t) \in S
        BY <4>2
      <4> QED
        BY <3>1, <4>1, <4>3
    <3>3. CarefulCommands!SendCommand(c, cmd)
      BY <1>0, <2>5, <3>1, SameCommands DEF Send, Commands!SendCommand, CarefulCommands!SendCommand,
         Commands!ownerVars, CarefulCommands!ownerVars, Commands!serverVars, CarefulCommands!serverVars,
         Commands!clientVars, CarefulCommands!clientVars
    <3> QED
      BY <2>2, <3>2, <3>3, SameCommands DEF CarefulCommands!ClientStep
  <2>6. CASE SendReturns(c)
    <3>1. CarefulCommands!SendReturns(c)
      BY <1>0, <2>6, SameCommands DEF SendReturns, Commands!SendReturns, CarefulCommands!SendReturns,
         Commands!ownerVars, CarefulCommands!ownerVars, Commands!serverVars, CarefulCommands!serverVars
    <3> QED
      BY <2>2, <3>1 DEF CarefulCommands!ClientStep
  <2> QED
    BY <1>7, <2>1, <2>3, <2>4, <2>5, <2>6 DEF ClientStep, UserStep
<1>8. CASE UNCHANGED vars
  BY <1>1, <1>8 DEF vars
<1> QED
  BY <1>2, <1>3, <1>4, <1>5, <1>6, <1>7, <1>8 DEF Next, MainStep

(* The demo server is an owner for whom the command channel stays alive: it*)
(* sets its callback before it starts the one thread that calls it, which  *)
(* nobody starts twice (main of the server, setCommandCallback,            *)
(* startCommandHandler).                                                   *)
THEOREM CommandsAreUsedWithCare == Spec => CommandsUsedWithCare
<1>1. Init => CarefulCommands!Init
  <2> SUFFICES ASSUME Init PROVE CarefulCommands!Init
    OBVIOUS
  <2>1. Returned = FALSE
    BY DEF Init, Returned, Program
  <2> QED
    BY <2>1, SameCommands DEF Init, Commands!Init, CarefulCommands!Init, Commands!NoReply,
       CarefulCommands!NoReply
<1>2. Inv /\ Inv' /\ [Next]_vars => [CarefulCommands!Next]_CarefulCommands!vars
  BY CarefulCommandsStep
<1> QED
  BY <1>1, <1>2, ProgramsInvariant, PTL DEF Spec, CommandsUsedWithCare, CarefulCommands!Spec

(* The process of the server does not end: neither of its threads binds an *)
(* endpoint that is taken, and no command comes without a callback (main   *)
(* of the server).                                                         *)
THEOREM ServerStaysUp == Spec => [](alive /\ starting # "threw")
<1>1. Inv => alive /\ starting # "threw"
  BY DEF Inv, HandlerIsSet, AnsweringLists
<1> QED
  BY <1>1, ProgramsInvariant, PTL

-----------------------------------------------------------------------------
(* The theorems on the components, of what the programs do with them.      *)

LEMMA SamePackages ==
  /\ Packages!Init <=> PackageProofs!Init
  /\ Packages!Next <=> PackageProofs!Next
  /\ Packages!vars = PackageProofs!vars
<1>1. Packages!Init <=> PackageProofs!Init
  BY DEF Packages!Init, PackageProofs!Init
<1>2. Packages!vars = PackageProofs!vars
  BY DEF Packages!vars, PackageProofs!vars
<1>3. Packages!Next <=> PackageProofs!Next
  BY DEF Packages!Next, PackageProofs!Next, Packages!Bind, PackageProofs!Bind,
     Packages!Connect, PackageProofs!Connect, Packages!StartProxy, PackageProofs!StartProxy,
     Packages!End, PackageProofs!End, Packages!Subscribe, PackageProofs!Subscribe,
     Packages!Learn, PackageProofs!Learn, Packages!Publish, PackageProofs!Publish,
     Packages!Forward, PackageProofs!Forward, Packages!Receive, PackageProofs!Receive,
     Packages!Lost, PackageProofs!Lost, Packages!Front, PackageProofs!Front,
     Packages!Open, PackageProofs!Open, Packages!Node, PackageProofs!Node,
     Packages!Wanted, PackageProofs!Wanted, Packages!SentFrom, PackageProofs!SentFrom,
     Packages!Matching, PackageProofs!Matching, Packages!IsPrefix, PackageProofs!IsPrefix,
     Packages!Text, PackageProofs!Text, Packages!Opened, PackageProofs!Opened,
     Packages!Split, PackageProofs!Split, Packages!Bars, PackageProofs!Bars,
     Packages!Min, PackageProofs!Min
<1> QED BY <1>1, <1>2, <1>3

(* The topic of a subscription is the name of an entry.                    *)
LEMMA PackagesStep ==
  Inv /\ [Next]_vars => [Packages!Next]_(Packages!vars)
<1> SUFFICES ASSUME Inv, [Next]_vars PROVE [Packages!Next]_(Packages!vars)
  OBVIOUS
<1>0. ServerInv /\ FoundOnce /\ Loops
  BY DEF Inv
<1>1. CASE UNCHANGED pkgVars
  BY <1>1 DEF pkgVars, Packages!vars
<1>2. CASE LaunchServer \/ DirectoryThread \/ CommandThread \/ UNCHANGED vars
  BY <1>1, <1>2 DEF LaunchServer, OnlyPrograms, DirectoryThread, CommandThread, vars
<1>3. CASE AddProtocol \/ StartRunning \/ SetCommandCallback \/ StartCommandHandler
  BY <1>1, <1>3 DEF AddProtocol, StartRunning, SetCommandCallback, StartCommandHandler
<1>4. CASE BindPublisher
  BY <1>4 DEF BindPublisher, Packages!Next, Publisher
<1>5. CASE Publish
  BY <1>5 DEF Publish, Packages!Next, Publisher, Data
<1>6. ASSUME NEW c \in Client, ClientStep(c) \/ UserStep(c) \/ Receive(c) \/ Learn(c)
      PROVE  [Packages!Next]_(Packages!vars)
  <2>1. <<"demo", c>> \in Link
    BY DEF Link, Publisher
  <2>2. CASE BindThrows(c) \/ Subscribed(c) \/ Send(c) \/ SendReturns(c) \/ LaunchClient(c)
             \/ PressKey(c) \/ QueryEnds(c)
    BY <1>1, <2>2 DEF BindThrows, Subscribed, Send, SendReturns, LaunchClient, PressKey,
       OnlyPrograms, QueryEnds
  <2>3. CASE Bind(c)
    BY <2>3 DEF Bind, Packages!Next
  <2>4. CASE Subscribe(c)
    <3>1. todo[c] = Found(c) /\ todo[c] # <<>>
      BY <1>0, <2>4 DEF Subscribe, Loops
    <3>2. todo[c] = OwnList
      BY <1>0, <3>1 DEF Found, FoundOnce
    <3>3. Head(todo[c]).protocol_name \in Topic
      BY <1>0, <3>2 DEF OwnList, Topic, ServerInv
    <3> QED BY <2>4, <3>3 DEF Subscribe, Packages!Next
  <2>5. CASE Receive(c)
    BY <2>1, <2>5 DEF Receive, Packages!Next
  <2>6. CASE Learn(c)
    BY <2>1, <2>6 DEF Learn, Packages!Next
  <2>7. CASE Quit(c)
    BY <2>7 DEF Quit, Packages!Next, Packages!Node
  <2> QED BY <1>6, <2>2, <2>3, <2>4, <2>5, <2>6, <2>7 DEF ClientStep, UserStep
<1> QED BY <1>2, <1>3, <1>4, <1>5, <1>6 DEF Next, MainStep

(* What the demo server publishes reaches each of its clients as one       *)
(* stream: packages may be missing, but none comes twice, out of turn,     *)
(* changed, or without a subscription, whenever either side is started     *)
(* (main of client and server, send, receiveSubscribed).                   *)
THEOREM ProgramsAreStreams == Spec => PackageProofs!StreamsSpec
<1>1. Init => Packages!Init
  BY DEF Init
<1>2. Spec => Packages!Init /\ [][Packages!Next]_(Packages!vars)
  BY <1>1, PackagesStep, ProgramsInvariant, PTL DEF Spec
<1>3. Packages!Init <=> PackageProofs!Init
  BY SamePackages
<1>4. [Packages!Next]_(Packages!vars) => [PackageProofs!Next]_(PackageProofs!vars)
  BY SamePackages DEF Packages!vars, PackageProofs!vars
<1>5. Spec => PackageProofs!Spec
  BY <1>2, <1>3, <1>4, PTL DEF PackageProofs!Spec
<1>6. PackageProofs!Spec => PackageProofs!StreamsSpec
  BY PackageConstants, PackageProofs!ChannelIsStreams
<1> QED BY <1>5, <1>6, PTL

CommandProofs == INSTANCE CommandChannelProofs WITH
  careful <- ~Returned, destroyed <- Returned,
  starting <- cmdStarting, thread <- cmdThread, sock <- cmdSock, result <- cmdResult

LEMMA SameCalls ==
  /\ CarefulCommands!Init <=> CommandProofs!Init
  /\ CarefulCommands!Next <=> CommandProofs!Next
  /\ CarefulCommands!vars = CommandProofs!vars
<1>1. CarefulCommands!Init <=> CommandProofs!Init
  BY DEF CarefulCommands!Init, CommandProofs!Init, CarefulCommands!Off, CommandProofs!Off,
     CarefulCommands!Ready, CommandProofs!Ready, CarefulCommands!NoReply, CommandProofs!NoReply
<1>2. CarefulCommands!vars = CommandProofs!vars
  BY DEF CarefulCommands!vars, CommandProofs!vars, CarefulCommands!ownerVars,
     CommandProofs!ownerVars, CarefulCommands!serverVars, CommandProofs!serverVars,
     CarefulCommands!clientVars, CommandProofs!clientVars
<1>3. CarefulCommands!Next <=> CommandProofs!Next
  BY DEF CarefulCommands!Next, CommandProofs!Next, CarefulCommands!OwnerStep,
     CommandProofs!OwnerStep, CarefulCommands!ThreadStep, CommandProofs!ThreadStep,
     CarefulCommands!ClientStep, CommandProofs!ClientStep,
     CarefulCommands!SetCommandCallback, CommandProofs!SetCommandCallback,
     CarefulCommands!StartCommandHandler, CommandProofs!StartCommandHandler,
     CarefulCommands!Destroy, CommandProofs!Destroy, CarefulCommands!Restart,
     CommandProofs!Restart, CarefulCommands!Bind, CommandProofs!Bind,
     CarefulCommands!BindThrows, CommandProofs!BindThrows, CarefulCommands!Receive,
     CommandProofs!Receive, CarefulCommands!BeginHandle, CommandProofs!BeginHandle,
     CarefulCommands!HandlerMissing, CommandProofs!HandlerMissing,
     CarefulCommands!EndHandle, CommandProofs!EndHandle, CarefulCommands!HandlerThrows,
     CommandProofs!HandlerThrows, CarefulCommands!UsesDestroyed,
     CommandProofs!UsesDestroyed, CarefulCommands!Acknowledge,
     CommandProofs!Acknowledge, CarefulCommands!Connect, CommandProofs!Connect,
     CarefulCommands!SendCommand, CommandProofs!SendCommand,
     CarefulCommands!SendReturns, CommandProofs!SendReturns, CarefulCommands!Leave,
     CommandProofs!Leave, CarefulCommands!Terminate, CommandProofs!Terminate,
     CarefulCommands!Goto, CommandProofs!Goto, CarefulCommands!Unstarted,
     CommandProofs!Unstarted, CarefulCommands!InUse, CommandProofs!InUse,
     CarefulCommands!Command, CommandProofs!Command, CarefulCommands!EncodeCommand,
     CommandProofs!EncodeCommand, CarefulCommands!EncodeReply,
     CommandProofs!EncodeReply, CarefulCommands!DecodeCommand,
     CommandProofs!DecodeCommand, CarefulCommands!DecodeReply,
     CommandProofs!DecodeReply, CarefulCommands!Sent, CommandProofs!Sent,
     CarefulCommands!Ready, CommandProofs!Ready, CarefulCommands!Taken,
     CommandProofs!Taken, CarefulCommands!Replied, CommandProofs!Replied,
     CarefulCommands!Lost, CommandProofs!Lost, CarefulCommands!Off, CommandProofs!Off,
     CarefulCommands!Receiving, CommandProofs!Receiving, CarefulCommands!Received,
     CommandProofs!Received, CarefulCommands!Handling, CommandProofs!Handling,
     CarefulCommands!Acknowledging, CommandProofs!Acknowledging, CarefulCommands!Got,
     CommandProofs!Got, CarefulCommands!ownerVars, CommandProofs!ownerVars,
     CarefulCommands!serverVars, CommandProofs!serverVars, CarefulCommands!clientVars,
     CommandProofs!clientVars
<1> QED BY <1>1, <1>2, <1>3

(* What CommandChannel assumes of its constants is true of the programs.   *)
LEMMA CommandConstants ==
  /\ CommandProofs!FrameAssumption /\ CommandProofs!HandlerAssumption
  /\ CommandProofs!AnswerAssumption
<1>1. CommandProofs!FrameAssumption
  BY FramesAssumption DEF CommandProofs!FrameAssumption, Verb, Name
<1>2. CommandProofs!HandlerAssumption
  BY DEF CommandProofs!HandlerAssumption, Handler, NoHandler
<1>3. ASSUME NEW h \in Handler, NEW cmd \in CommandProofs!Command
      PROVE  Answers(h, cmd) \subseteq CommandProofs!CommandReply
  <2>1. cmd.command_verb \in Verb /\ "ACK" \in Frame
    BY FramesAssumption DEF CommandProofs!Command
  <2> QED BY <2>1 DEF Answers, CommandProofs!CommandReply
<1>4. CommandProofs!AnswerAssumption
  BY <1>3 DEF CommandProofs!AnswerAssumption
<1> QED BY <1>1, <1>2, <1>4

(* Every command of a client of the demo server is a call of its own of    *)
(* the callback, which is given it at most once, and what returns is the   *)
(* reply to this command (main of client and server, sendCommand).         *)
THEOREM ProgramsCallOnce == Spec => CommandProofs!CallsSpec
<1>1. Spec => CarefulCommands!Init /\ [][CarefulCommands!Next]_(CarefulCommands!vars)
  BY CommandsAreUsedWithCare, PTL DEF CommandsUsedWithCare, CarefulCommands!Spec
<1>2. CarefulCommands!Init <=> CommandProofs!Init
  BY SameCalls
<1>3. [CarefulCommands!Next]_(CarefulCommands!vars) => [CommandProofs!Next]_(CommandProofs!vars)
  BY SameCalls DEF CarefulCommands!vars, CommandProofs!vars, CarefulCommands!ownerVars,
     CommandProofs!ownerVars, CarefulCommands!serverVars, CommandProofs!serverVars,
     CarefulCommands!clientVars, CommandProofs!clientVars
<1>4. Spec => CommandProofs!Spec
  BY <1>1, <1>2, <1>3, PTL DEF CommandProofs!Spec
<1>5. CommandProofs!Spec => CommandProofs!CallsSpec
  BY CommandConstants, CommandProofs!CallsAreImplemented
<1> QED BY <1>4, <1>5, PTL

DirectoryProofs == INSTANCE ProtocolDirectoryProofs WITH
  LiveAdds <- FALSE, Restarts <- FALSE, stop <- Returned,
  told <- [c \in Client |-> [at |-> "nobody"]]

LEMMA SameDirectory ==
  /\ CarefulDirectory!Init <=> DirectoryProofs!Init
  /\ CarefulDirectory!Next <=> DirectoryProofs!Next
  /\ CarefulDirectory!vars = DirectoryProofs!vars
<1>1. CarefulDirectory!Init <=> DirectoryProofs!Init
  BY DEF CarefulDirectory!Init, DirectoryProofs!Init, CarefulDirectory!Nowhere,
     DirectoryProofs!Nowhere, CarefulDirectory!Resting, DirectoryProofs!Resting,
     CarefulDirectory!Ready, DirectoryProofs!Ready, CarefulDirectory!Nobody,
     DirectoryProofs!Nobody, CarefulDirectory!NoResult, DirectoryProofs!NoResult,
     CarefulDirectory!Peer, DirectoryProofs!Peer
<1>2. CarefulDirectory!vars = DirectoryProofs!vars
  BY DEF CarefulDirectory!vars, DirectoryProofs!vars, CarefulDirectory!serverVars,
     DirectoryProofs!serverVars, CarefulDirectory!clientVars, DirectoryProofs!clientVars
<1>3. CarefulDirectory!OwnerStep <=> DirectoryProofs!OwnerStep
  BY DEF CarefulDirectory!OwnerStep, DirectoryProofs!OwnerStep,
     CarefulDirectory!AddProtocol, DirectoryProofs!AddProtocol,
     CarefulDirectory!OwnerReadsMap, DirectoryProofs!OwnerReadsMap,
     CarefulDirectory!OwnerReplacesList, DirectoryProofs!OwnerReplacesList,
     CarefulDirectory!StartRunning, DirectoryProofs!StartRunning,
     CarefulDirectory!StopRunning, DirectoryProofs!StopRunning, CarefulDirectory!Alive,
     DirectoryProofs!Alive, CarefulDirectory!OwnerMayAdd, DirectoryProofs!OwnerMayAdd,
     CarefulDirectory!Key, DirectoryProofs!Key, CarefulDirectory!Inserted,
     DirectoryProofs!Inserted, CarefulDirectory!SetToSeqs, DirectoryProofs!SetToSeqs,
     CarefulDirectory!Cardinality, DirectoryProofs!Cardinality,
     CarefulDirectory!ToSet, DirectoryProofs!ToSet, CarefulDirectory!Nowhere,
     DirectoryProofs!Nowhere, CarefulDirectory!Resting, DirectoryProofs!Resting,
     CarefulDirectory!clientVars, DirectoryProofs!clientVars
<1>4. CarefulDirectory!ThreadStep <=> DirectoryProofs!ThreadStep
  BY DEF CarefulDirectory!ThreadStep, DirectoryProofs!ThreadStep, CarefulDirectory!Bind,
     DirectoryProofs!Bind, CarefulDirectory!BindThrows, DirectoryProofs!BindThrows,
     CarefulDirectory!Publish, DirectoryProofs!Publish, CarefulDirectory!EndLoop,
     DirectoryProofs!EndLoop, CarefulDirectory!ReceiveTimesOut,
     DirectoryProofs!ReceiveTimesOut, CarefulDirectory!Receive, DirectoryProofs!Receive,
     CarefulDirectory!AnswerList, DirectoryProofs!AnswerList,
     CarefulDirectory!AnswerUnknown, DirectoryProofs!AnswerUnknown,
     CarefulDirectory!HandleAdd, DirectoryProofs!HandleAdd,
     CarefulDirectory!HandleRemove, DirectoryProofs!HandleRemove,
     CarefulDirectory!ReadMap, DirectoryProofs!ReadMap, CarefulDirectory!ReplaceList,
     DirectoryProofs!ReplaceList, CarefulDirectory!Acknowledge,
     DirectoryProofs!Acknowledge, CarefulDirectory!Goto, DirectoryProofs!Goto,
     CarefulDirectory!Handles, DirectoryProofs!Handles, CarefulDirectory!Alive,
     DirectoryProofs!Alive, CarefulDirectory!Peer, DirectoryProofs!Peer,
     CarefulDirectory!Key, DirectoryProofs!Key, CarefulDirectory!Inserted,
     DirectoryProofs!Inserted, CarefulDirectory!Erased, DirectoryProofs!Erased,
     CarefulDirectory!SetToSeqs, DirectoryProofs!SetToSeqs,
     CarefulDirectory!Cardinality, DirectoryProofs!Cardinality, CarefulDirectory!ToSet,
     DirectoryProofs!ToSet, CarefulDirectory!RemoveAt, DirectoryProofs!RemoveAt,
     CarefulDirectory!Taken, DirectoryProofs!Taken, CarefulDirectory!Listing,
     DirectoryProofs!Listing, CarefulDirectory!Reply, DirectoryProofs!Reply,
     CarefulDirectory!Running, DirectoryProofs!Running, CarefulDirectory!Serving,
     DirectoryProofs!Serving, CarefulDirectory!clientVars, DirectoryProofs!clientVars
<1>5. CarefulDirectory!PeerStep <=> DirectoryProofs!PeerStep
  BY DEF CarefulDirectory!PeerStep, DirectoryProofs!PeerStep,
     CarefulDirectory!QueryProtocols, DirectoryProofs!QueryProtocols,
     CarefulDirectory!QueryThrows, DirectoryProofs!QueryThrows,
     CarefulDirectory!QueryTimesOut, DirectoryProofs!QueryTimesOut,
     CarefulDirectory!QueryReturns, DirectoryProofs!QueryReturns,
     CarefulDirectory!UpdateDirectory, DirectoryProofs!UpdateDirectory,
     CarefulDirectory!AddChangeCallback, DirectoryProofs!AddChangeCallback,
     CarefulDirectory!Request, DirectoryProofs!Request, CarefulDirectory!RequestReturns,
     DirectoryProofs!RequestReturns, CarefulDirectory!Awaiting,
     DirectoryProofs!Awaiting, CarefulDirectory!RegistrarRequest,
     DirectoryProofs!RegistrarRequest, CarefulDirectory!ListRequest,
     DirectoryProofs!ListRequest, CarefulDirectory!AddRequest,
     DirectoryProofs!AddRequest, CarefulDirectory!RemoveRequest,
     DirectoryProofs!RemoveRequest, CarefulDirectory!UnknownRequest,
     DirectoryProofs!UnknownRequest, CarefulDirectory!Ready, DirectoryProofs!Ready,
     CarefulDirectory!Sent, DirectoryProofs!Sent, CarefulDirectory!TimedOut,
     DirectoryProofs!TimedOut, CarefulDirectory!Threw, DirectoryProofs!Threw,
     CarefulDirectory!Found, DirectoryProofs!Found, CarefulDirectory!Nobody,
     DirectoryProofs!Nobody, CarefulDirectory!Waiting, DirectoryProofs!Waiting,
     CarefulDirectory!Told, DirectoryProofs!Told,
     CarefulDirectory!serverVars, DirectoryProofs!serverVars,
     CarefulDirectory!clientVars, DirectoryProofs!clientVars
<1>6. CarefulDirectory!Next <=> DirectoryProofs!Next
  BY <1>3, <1>4, <1>5 DEF CarefulDirectory!Next, DirectoryProofs!Next
<1> QED BY <1>1, <1>2, <1>6

(* What ProtocolDirectory assumes of its constants is true of the programs,*)
(* and the keys of its map name one protocol.                              *)
LEMMA DirectoryConstants ==
  /\ DirectoryProofs!EntryAssumption /\ DirectoryProofs!PeerAssumption
  /\ DirectoryProofs!UseAssumption /\ DirectoryProofs!KeysTellApart
<1>1. DirectoryProofs!EntryAssumption
  BY EntryAssumption DEF DirectoryProofs!EntryAssumption
<1>2. DirectoryProofs!PeerAssumption /\ DirectoryProofs!UseAssumption
  BY DEF DirectoryProofs!PeerAssumption, DirectoryProofs!UseAssumption, Registrar
<1>3. \A e \in Entry : DirectoryProofs!BarFree(e.protocol_name)
  <2> SUFFICES ASSUME NEW e \in Entry PROVE DirectoryProofs!BarFree(e.protocol_name)
    OBVIOUS
  <2>1. PICK n : n = HeaderOf("demo").protocol_name
    OBVIOUS
  <2>2. n \in Seq(Nat \ {Bar}) /\ e.protocol_name = n
    BY <2>1, NameAssumption
  <2> QED BY <2>2 DEF DirectoryProofs!BarFree
<1> QED BY <1>1, <1>2, <1>3, DirectoryProofs!NamesWithoutBar

(* The directory of the demo server is one table: a client is answered with*)
(* all that was registered before it asked, at one moment between its      *)
(* question and the answer (main of the server, addProtocol,               *)
(* queryProtocols).                                                        *)
THEOREM ProgramsHaveOneTable == Spec => DirectoryProofs!ServiceSpec
<1>1. Spec => CarefulDirectory!Init /\ [][CarefulDirectory!Next]_(CarefulDirectory!vars)
  BY DirectoryIsUsedWithCare, PTL DEF DirectoryUsedWithCare, CarefulDirectory!Spec
<1>2. CarefulDirectory!Init <=> DirectoryProofs!Init
  BY SameDirectory
<1>3. [CarefulDirectory!Next]_(CarefulDirectory!vars)
      => [DirectoryProofs!Next]_(DirectoryProofs!vars)
  BY SameDirectory DEF CarefulDirectory!vars, DirectoryProofs!vars,
     CarefulDirectory!serverVars, DirectoryProofs!serverVars, CarefulDirectory!clientVars,
     DirectoryProofs!clientVars
<1>4. Spec => DirectoryProofs!Spec
  BY <1>1, <1>2, <1>3, PTL DEF DirectoryProofs!Spec
<1>5. DirectoryProofs!Spec => DirectoryProofs!ServiceSpec
  BY DirectoryConstants, DirectoryProofs!DirectoryIsOneTable
<1> QED BY <1>4, <1>5, PTL
=============================================================================
