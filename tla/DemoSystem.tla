------------------------------ MODULE DemoSystem ------------------------------
(***************************************************************************)
(* The programs of apps/ProtocolDemoServer and apps/ProtocolClient, started*)
(* in any order: a server with a directory, a publisher and a command      *)
(* handler, and clients that ask the directory where to connect.  The main *)
(* functions are modelled here; what they call is ProtocolDirectory,       *)
(* CommandChannel and PackageChannel.                                      *)
(***************************************************************************)
EXTENDS Naturals, Sequences

CONSTANTS
  Client,       \* processes of ProtocolClientMain.cpp
  Entry,        \* what the server may register, one of these
  Defaults,     \* the endpoints of a client that found nothing
  Connectable,  \* endpoints that a socket can connect to
  Char, Bar,    \* characters of names
  Frame,        \* contents of command frames
  FrameOf(_),   \* the frame of the name of a protocol
  HeaderOf(_),  \* the header of the packages of the server
  NoPackage,
  Pressed       \* keys that are pressed, of those that send commands

(* The names that the programs give to the other nodes are no clients, the *)
(* server publishes under the name that it registers, and the commands of  *)
(* the client are made of frames.                                          *)
ASSUME ClientAssumption == {"demo", "none"} \cap Client = {}
ASSUME EntryAssumption ==
  /\ Bar \in Char
  /\ \A e \in Entry : e.protocol_name \in Seq(Char) /\ e.adapter_descriptor \in Seq(Char)
ASSUME NameAssumption ==
  /\ Bar \in Nat
  /\ HeaderOf("demo") \in [protocol_name : Seq(Nat \ {Bar}), source : Seq(Nat)]
  /\ \A e \in Entry : e.protocol_name = HeaderOf("demo").protocol_name
ASSUME FramesAssumption ==
  /\ {"SEND", "CONNECT", "ECHO", "Hullo", "", "ACK"} \subseteq Frame
  /\ \A e \in Entry : FrameOf(e.protocol_name) \in Frame
ASSUME PressedAssumption == Pressed \subseteq {"s", "c", "a"}

VARIABLES
  registered,  \* the entry in the program of the server
  main,        \* how far main of the server has come, 0 when it is not started
  at,          \* where main of each client is
  todo,        \* what the loop of each client, if it is in one, has left

  \* of ProtocolDirectory
  protocols, list, starting, thread, owner, sock, gaveUp, result, directory,
  \* of CommandChannel, where it has the names of others with a prefix
  alive, handler, cmdStarting, cmdThread, conn, cmdSock, gone, served, cmdResult,
  \* of PackageChannel
  up, topics, known, pipe, got

programVars == <<registered, main, at, todo>>
dirVars == <<protocols, list, starting, thread, owner, sock, gaveUp, result, directory>>
cmdVars == <<alive, handler, cmdStarting, cmdThread, conn, cmdSock, gone, served, cmdResult>>
pkgVars == <<up, topics, known, pipe, got>>
vars == <<programVars, dirVars, cmdVars, pkgVars>>

-----------------------------------------------------------------------------
(* What main of the server calls; it loops in the last call.               *)

(* MUTANT: the directory is filled in while it runs.                       *)
Program_StartsFirst ==
  <<"startRunning", "addProtocol", "bind", "setCommandCallback", "startCommandHandler", "publish">>

(* MUTANT: the callback is set when commands come already.                 *)
Program_HandlerFirst ==
  <<"addProtocol", "startRunning", "bind", "startCommandHandler", "setCommandCallback", "publish">>

(* MUTANT: no command handler.                                             *)
Program_NoHandler ==
  <<"addProtocol", "startRunning", "bind", "setCommandCallback", "publish">>

Program ==
  <<"addProtocol", "startRunning", "bind", "setCommandCallback", "startCommandHandler", "publish">>

(* The end of main would destroy its objects.                              *)
Returned == main > Len(Program)

-----------------------------------------------------------------------------
(* The components as the programs use them.  Nobody adds a listener, and   *)
(* the callback acknowledges everything.                                   *)

Registrar == {}

Endpoint == {"tcp://*:41001"}
Verb == {"SEND", "CONNECT"}
Name == {"ECHO"} \cup {FrameOf(e.protocol_name) : e \in Entry}
Handler == {"acknowledge"}
NoHandler == "none"
Answers(h, cmd) == {[reply_verb |-> cmd.command_verb, reply_data |-> "ACK"]}

Publisher == {"demo"}
Proxy == "none"
Link == Publisher \X Client
Data == {"message"}
Topic == {<<>>} \cup {e.protocol_name : e \in Entry}
HighWater(l) == 1

(* Owners that may do anything, for the steps of the programs ...          *)
Directory == INSTANCE ProtocolDirectory WITH
  LiveAdds <- TRUE, Restarts <- TRUE, stop <- Returned,
  told <- [c \in Client |-> [at |-> "nobody"]]
Commands == INSTANCE CommandChannel WITH
  careful <- Returned, destroyed <- Returned,
  starting <- cmdStarting, thread <- cmdThread, sock <- cmdSock, result <- cmdResult
Packages == INSTANCE PackageChannel

(* ... and owners as their properties want them, to compare with.          *)
CarefulDirectory == INSTANCE ProtocolDirectory WITH
  LiveAdds <- FALSE, Restarts <- FALSE, stop <- Returned,
  told <- [c \in Client |-> [at |-> "nobody"]]
CarefulCommands == INSTANCE CommandChannel WITH
  careful <- ~Returned, destroyed <- Returned,
  starting <- cmdStarting, thread <- cmdThread, sock <- cmdSock, result <- cmdResult

OnlyPrograms == UNCHANGED <<dirVars, cmdVars, pkgVars>>

Init ==
  /\ registered \in Entry
  /\ main = 0
  /\ at = [c \in Client |-> "off"]
  /\ todo = [c \in Client |-> <<>>]
  /\ Directory!Init /\ Commands!Init /\ Packages!Init

-----------------------------------------------------------------------------
(* The server.                                                             *)

Calls(f) == main # 0 /\ Program[main] = f

Continue == main' = main + 1 /\ UNCHANGED <<registered, at, todo>>

LaunchServer == main = 0 /\ Continue /\ OnlyPrograms

(* addProtocol returns when the list is replaced.                          *)
AddProtocol ==
  /\ Calls("addProtocol")
  /\ \/ /\ UNCHANGED programVars
        /\ \/ protocols = <<>> /\ Directory!AddProtocol(registered)
           \/ Directory!OwnerReadsMap
     \/ Continue /\ Directory!OwnerReplacesList
  /\ UNCHANGED <<cmdVars, pkgVars>>

StartRunning ==
  /\ Calls("startRunning")
  /\ Continue /\ Directory!StartRunning
  /\ UNCHANGED <<cmdVars, pkgVars>>

BindPublisher ==
  /\ Calls("bind")
  /\ Continue /\ Packages!Bind("demo")
  /\ UNCHANGED <<dirVars, cmdVars>>

SetCommandCallback ==
  /\ Calls("setCommandCallback")
  /\ Continue /\ Commands!SetCommandCallback("acknowledge")
  /\ UNCHANGED <<dirVars, pkgVars>>

StartCommandHandler ==
  /\ Calls("startCommandHandler")
  /\ Continue /\ (\E e \in Endpoint : Commands!StartCommandHandler(e))
  /\ UNCHANGED <<dirVars, pkgVars>>

Publish ==
  /\ Calls("publish")
  /\ UNCHANGED <<programVars, dirVars, cmdVars>>
  /\ Packages!Publish("demo", "message")

MainStep ==
  alive /\ (\/ AddProtocol \/ StartRunning \/ BindPublisher
            \/ SetCommandCallback \/ StartCommandHandler \/ Publish)

(* Its other two threads, of which the callback never throws.              *)
DirectoryThread ==
  alive /\ UNCHANGED <<programVars, cmdVars, pkgVars>> /\ Directory!ThreadStep

CommandThread ==
  /\ UNCHANGED <<programVars, dirVars, pkgVars>>
  /\ \E e \in Endpoint : CarefulCommands!ThreadStep(e)

(* The part of it that takes up the command of one client.                 *)
TakesCommand(c) ==
  /\ UNCHANGED <<programVars, dirVars, pkgVars>>
  /\ \E e \in Endpoint : CarefulCommands!Receive(e, c)

-----------------------------------------------------------------------------
(* A client.                                                               *)

(* The local variable protocols.                                           *)
Found(c) == IF result[c].kind = "found" THEN result[c].entries ELSE <<>>

Goto(c, place, rest) ==
  /\ at' = [at EXCEPT ![c] = place]
  /\ todo' = [todo EXCEPT ![c] = rest]
  /\ UNCHANGED <<registered, main>>

LaunchClient(c) ==
  /\ at[c] = "off"
  /\ Goto(c, "query", <<>>)
  /\ Directory!QueryProtocols(c)
  /\ UNCHANGED <<cmdVars, pkgVars>>

QueryEnds(c) ==
  /\ at[c] = "query"
  /\ Goto(c, "bind", <<>>)
  /\ Directory!QueryReturns(c) \/ Directory!QueryTimesOut(c)
  /\ UNCHANGED <<cmdVars, pkgVars>>

(* The first entry counts.                                                 *)
Endpoints(c) ==
  IF Found(c) = <<>> THEN Defaults
  ELSE {Found(c)[1].publisher_endpoint, Found(c)[1].command_endpoint}

Bind(c) ==
  /\ at[c] = "bind"
  /\ Endpoints(c) \subseteq Connectable
  /\ Goto(c, "subscribe", Found(c))
  /\ Packages!Connect(c) /\ (\E e \in Endpoint : Commands!Connect(c, e))
  /\ UNCHANGED dirVars

(* connect throws, and main returns 1.                                     *)
BindThrows(c) ==
  /\ at[c] = "bind"
  /\ ~(Endpoints(c) \subseteq Connectable)
  /\ Goto(c, "threw", <<>>)
  /\ Commands!Leave(c)
  /\ UNCHANGED <<dirVars, pkgVars>>

(* MUTANT: the topic is the key of the directory.                          *)
Subscribe_Key(c) ==
  /\ at[c] = "subscribe" /\ todo[c] # <<>>
  /\ Goto(c, "subscribe", Tail(todo[c]))
  /\ Packages!Subscribe(c, Directory!Key(Head(todo[c])))
  /\ UNCHANGED <<dirVars, cmdVars>>

(* MUTANT: who has found nothing takes everything.                         *)
Subscribe_All(c) ==
  /\ at[c] = "subscribe" /\ Found(c) = <<>>
  /\ Goto(c, "keys", <<>>)
  /\ Packages!Subscribe(c, <<>>)
  /\ UNCHANGED <<dirVars, cmdVars>>

Subscribe(c) ==
  /\ at[c] = "subscribe" /\ todo[c] # <<>>
  /\ Goto(c, "subscribe", Tail(todo[c]))
  /\ Packages!Subscribe(c, Head(todo[c]).protocol_name)
  /\ UNCHANGED <<dirVars, cmdVars>>

Subscribed(c) ==
  /\ at[c] = "subscribe" /\ todo[c] = <<>>
  /\ Goto(c, "keys", <<>>)
  /\ OnlyPrograms

SendCommand(verb, receiver, data) ==
  [command_verb |-> verb, command_receiver |-> receiver, command_data |-> data]

(* What the keys send.                                                     *)
CommandsOf(c) ==
  [s |-> <<SendCommand("SEND", "ECHO", "Hullo")>>,
   c |-> <<SendCommand("CONNECT", "ECHO", "Hullo")>>,
   a |-> [k \in DOMAIN Found(c) |-> SendCommand("CONNECT", FrameOf(Found(c)[k].protocol_name), "")]]

PressKey(c) ==
  /\ at[c] = "keys"
  /\ \E key \in Pressed : CommandsOf(c)[key] # <<>> /\ Goto(c, "command", CommandsOf(c)[key])
  /\ OnlyPrograms

(* The loop over the commands of a key: sendCommand, and its return.       *)
Send(c) ==
  /\ at[c] = "command"
  /\ UNCHANGED <<programVars, dirVars, pkgVars>>
  /\ Commands!SendCommand(c, Head(todo[c]))

SendReturns(c) ==
  /\ at[c] = "command"
  /\ Goto(c, IF Len(todo[c]) = 1 THEN "keys" ELSE "command", Tail(todo[c]))
  /\ Commands!SendReturns(c)
  /\ UNCHANGED <<dirVars, pkgVars>>

(* The thread that receives, detached.                                     *)
Receive(c) ==
  /\ at[c] \in {"keys", "command"}
  /\ UNCHANGED <<programVars, dirVars, cmdVars>>
  /\ Packages!Receive(<<"demo", c>>)

Quit(c) ==
  /\ at[c] = "keys"
  /\ Goto(c, "quit", <<>>)
  /\ Packages!End(c) /\ Commands!Leave(c)
  /\ UNCHANGED dirVars

ClientStep(c) ==
  QueryEnds(c) \/ Bind(c) \/ BindThrows(c) \/ Subscribe(c) \/ Subscribed(c) \/ Send(c) \/ SendReturns(c)

UserStep(c) == LaunchClient(c) \/ PressKey(c) \/ Quit(c)

(* Subscriptions on their way to the server.                               *)
Learn(c) ==
  /\ UNCHANGED <<programVars, dirVars, cmdVars>>
  /\ \E t \in Topic : Packages!Learn(<<"demo", c>>, t)

Next ==
  \/ LaunchServer \/ MainStep \/ DirectoryThread \/ CommandThread
  \/ \E c \in Client : ClientStep(c) \/ UserStep(c) \/ Receive(c) \/ Learn(c)

Spec == Init /\ [][Next]_vars

(* The threads of a server that was started and of the clients are         *)
(* scheduled, and commands that wait for the server are taken up in turn.  *)
(* Nobody need start a program or press a key; the directory need not      *)
(* answer, since a query ends with its timeout.                            *)
Fairness ==
  /\ WF_vars(MainStep) /\ WF_vars(CommandThread)
  /\ \A c \in Client : SF_vars(TakesCommand(c))
  /\ \A c \in Client : WF_vars(ClientStep(c)) /\ WF_vars(Receive(c)) /\ WF_vars(Learn(c))

FairSpec == Spec /\ Fairness

-----------------------------------------------------------------------------
(* Properties.                                                             *)

(* The demo server fills in its directory before it starts it, and nothing *)
(* else: it is an owner for whom ProtocolDirectory keeps the list of       *)
(* protocols right (main of the server, addProtocol, startRunning).        *)
DirectoryUsedWithCare == CarefulDirectory!Spec

(* It sets the callback before the first command can come: an owner for    *)
(* whom CommandChannel stays alive (main of the server,                    *)
(* setCommandCallback, startCommandHandler).                               *)
CommandsUsedWithCare == CarefulCommands!Spec

(* Who is answered by the directory is told of the protocol, however early *)
(* it asked; who is not told receives nothing, and who is told nothing but *)
(* that protocol (main of the client, queryProtocols, receiveSubscribed).  *)
FindsOrGetsNothing ==
  \A c \in Client :
    /\ result[c].kind = "found" => result[c].entries = <<registered>>
    /\ got[c] # NoPackage =>
         \E k \in DOMAIN Found(c) : Found(c)[k].protocol_name = got[c].header.protocol_name

(* A client that found the protocol, and could connect to what it found,   *)
(* receives in the end (main of client and server).                        *)
FoundIsReceived ==
  \A c \in Client :
    Found(c) # <<>> ~> got[c] # NoPackage \/ at[c] \in {"quit", "threw"}

(* The keyboard is not blocked for good by a command, to a server that is  *)
(* started some time, before or after the command was sent, also when the  *)
(* directory was not there to ask and while others press keys all the time *)
(* (main of client and server, sendCommand).                               *)
KeysComeBack ==
  \A c \in Client : main # 0 /\ at[c] = "command" ~> at[c] = "keys"

(* Once the loop that subscribes is behind it, or main has ended by an     *)
(* exception, a client is subscribed to all protocols it found (main of the*)
(* client, bind, subscribe).                                               *)
SubscribesToAll ==
  \A c \in Client : at[c] \in {"keys", "command", "threw"} =>
    \A k \in DOMAIN Found(c) : Found(c)[k].protocol_name \in topics[c]
=============================================================================
