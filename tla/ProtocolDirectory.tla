-------------------------- MODULE ProtocolDirectory --------------------------
(***************************************************************************)
(* libs/services/directory: the directory of protocols.  A detached thread *)
(* answers requests on a REP socket and publishes the list; the owner adds *)
(* entries through the same members without a lock; clients query with a   *)
(* timeout and tell a listener of changes.                                 *)
(*                                                                         *)
(* The server keeps the directory twice, as a map and as the JSON text of  *)
(* it that every list request is answered with.  The model keeps the map   *)
(* as the sequence of its entries in iteration order and the text as the   *)
(* sequence it was written from.  Names are sequences of characters, since *)
(* the key of the map is their concatenation.                              *)
(***************************************************************************)
EXTENDS Integers, SequencesExt

CONSTANTS
  Char, Bar,       \* characters of names, and the separator among them
  Entry,           \* ProtocolDirectoryEntry
  Client,          \* ProtocolDirectoryClient objects, each with a REQ socket
  Registrar,       \* REQ sockets of programs that add and remove
  LiveAdds,        \* whether the owner adds while the thread runs
  Restarts         \* whether the owner starts again after stopRunning

ASSUME EntryAssumption ==
  /\ Bar \in Char
  /\ \A e \in Entry :
       e.protocol_name \in Seq(Char) /\ e.adapter_descriptor \in Seq(Char)
ASSUME PeerAssumption == Client \cap Registrar = {}
ASSUME UseAssumption == LiveAdds \in BOOLEAN /\ Restarts \in BOOLEAN

Peer == Client \cup Registrar

VARIABLES
  protocols,  \* _protocols
  list,       \* _complete_list_json
  stop,       \* _stop_source: a stop was requested
  starting,   \* a new thread: "none" | "unbound" | "threw" when its bind failed
  thread,     \* runRequestServer: where it is, whom it serves, its new list
  owner,      \* the thread of the owner inside addProtocol, its new list
  sock,       \* the REQ socket of each peer, and its message at the server
  gaveUp,     \* clients whose query timed out
  result,     \* what the last query of each client came to
  directory,  \* _directory of each client
  told        \* history: what the listener of each client, if there is one, was last told

serverVars == <<protocols, list, stop, starting, thread, owner>>
clientVars == <<gaveUp, result, directory, told>>
vars == <<serverVars, sock, clientVars>>

-----------------------------------------------------------------------------
(* The map.                                                                *)

Key(e) == e.protocol_name \o <<Bar>> \o e.adapter_descriptor

(* What the map may look like after _protocols[key] = e.  A new key may    *)
(* rehash the table and so change the order of all.                        *)
Inserted(s, e) ==
  IF \E i \in DOMAIN s : Key(s[i]) = Key(e)
  THEN {[i \in DOMAIN s |-> IF Key(s[i]) = Key(e) THEN e ELSE s[i]]}
  ELSE SetToSeqs(ToSet(s) \cup {e})

(* MUTANT: the key lacks the adapter.                                      *)
Erased_ByName(s, e) ==
  IF \E i \in DOMAIN s : s[i].protocol_name = e.protocol_name
  THEN RemoveAt(s, CHOOSE i \in DOMAIN s : s[i].protocol_name = e.protocol_name)
  ELSE s

(* What erase(key) leaves: the others, in their order.                     *)
Erased(s, e) ==
  IF \E i \in DOMAIN s : Key(s[i]) = Key(e)
  THEN RemoveAt(s, CHOOSE i \in DOMAIN s : Key(s[i]) = Key(e))
  ELSE s

-----------------------------------------------------------------------------
(* Requests, and the state of a REQ socket.                                *)

ListRequest      == [kind |-> "list"]
AddRequest(e)    == [kind |-> "add", entry |-> e]
RemoveRequest(e) == [kind |-> "remove", entry |-> e]
UnknownRequest   == [kind |-> "unknown"]

RegistrarRequest ==
  {AddRequest(e) : e \in Entry} \cup {RemoveRequest(e) : e \in Entry} \cup {UnknownRequest}

Ready           == [at |-> "ready"]
Sent(req)       == [at |-> "sent", request |-> req]
Taken(req)      == [at |-> "taken", request |-> req]
Listing(s)      == [at |-> "listing", entries |-> s]
Reply(r)        == [at |-> "reply", text |-> r]

Awaiting(p) == sock[p] # Ready

Nowhere    == [at |-> "off"]
Running(a) == [at |-> a]
Serving(a, p, s) == [at |-> a, peer |-> p, json |-> s]
Resting    == [at |-> "idle", json |-> <<>>]

NoResult  == [kind |-> "none"]
TimedOut  == [kind |-> "timed out"]
Threw     == [kind |-> "threw"]
Found(s)  == [kind |-> "found", entries |-> s]

(* No listener; one that was not called since it was added, when the client*)
(* remembered s; one that was last called with s.                          *)
Nobody     == [at |-> "nobody"]
Waiting(s) == [at |-> "waiting", entries |-> s]
Told(s)    == [at |-> "told", entries |-> s]

Init ==
  /\ protocols = <<>> /\ list = <<>>
  /\ stop = FALSE /\ starting = "none"
  /\ thread = Nowhere
  /\ owner = Resting
  /\ sock = [p \in Peer |-> Ready]
  /\ gaveUp = {}
  /\ result = [c \in Client |-> NoResult]
  /\ directory = [c \in Client |-> <<>>]
  /\ told = [c \in Client |-> Nobody]

-----------------------------------------------------------------------------
(* The owner.                                                              *)

(* The program of the server has not ended by an exception.                *)
Alive == starting # "threw"

OwnerMayAdd == LiveAdds \/ (thread = Nowhere /\ starting = "none")

(* addProtocol, up to the change of the map; updateCompleteList reads the  *)
(* map and then replaces the text.                                         *)
AddProtocol(e) ==
  /\ Alive /\ owner = Resting
  /\ OwnerMayAdd
  /\ protocols' \in Inserted(protocols, e)
  /\ owner' = [at |-> "changed", json |-> <<>>]
  /\ UNCHANGED <<list, stop, starting, thread, sock, clientVars>>

OwnerReadsMap ==
  /\ Alive /\ owner.at = "changed"
  /\ owner' = [at |-> "read", json |-> protocols]
  /\ UNCHANGED <<protocols, list, stop, starting, thread, sock, clientVars>>

OwnerReplacesList ==
  /\ Alive /\ owner.at = "read"
  /\ list' = owner.json
  /\ owner' = Resting
  /\ UNCHANGED <<protocols, stop, starting, thread, sock, clientVars>>

StartRunning ==
  /\ owner = Resting
  /\ starting = "none"
  /\ thread = Nowhere \/ (Restarts /\ stop)
  /\ starting' = "unbound"
  /\ UNCHANGED <<protocols, list, stop, thread, owner, sock, clientVars>>

StopRunning ==
  /\ Alive /\ owner = Resting
  /\ stop' = TRUE
  /\ UNCHANGED <<protocols, list, starting, thread, owner, sock, clientVars>>

-----------------------------------------------------------------------------
(* The thread.                                                             *)

Goto(t) ==
  /\ Alive
  /\ thread' = t
  /\ UNCHANGED <<stop, starting, owner, clientVars>>

Bind ==
  /\ starting = "unbound"
  /\ thread.at \in {"off", "ended"}
  /\ starting' = "none"
  /\ thread' = Running("check")
  /\ UNCHANGED <<protocols, list, stop, owner, sock, clientVars>>

(* The endpoint is taken by the thread that has not noticed the stop yet:  *)
(* bind throws, nobody catches it, and the program ends.                   *)
BindThrows ==
  /\ starting = "unbound"
  /\ thread.at \notin {"off", "ended"}
  /\ starting' = "threw"
  /\ UNCHANGED <<protocols, list, stop, thread, owner, sock, clientVars>>

(* The top of the loop: the list is published.                             *)
Publish ==
  /\ thread.at = "check"
  /\ ~stop
  /\ Goto(Running("receive"))
  /\ UNCHANGED <<protocols, list, sock>>

EndLoop ==
  /\ thread.at = "check"
  /\ stop
  /\ Goto(Running("ended"))
  /\ UNCHANGED <<protocols, list, sock>>

(* MUTANT: recv without rcvtimeo.                                          *)
ReceiveTimesOut_Never ==
  /\ thread.at = "nowhere"
  /\ Goto(Running("check"))
  /\ UNCHANGED <<protocols, list, sock>>

(* No request has come within the timeout, sent or not.                    *)
ReceiveTimesOut ==
  /\ thread.at = "receive"
  /\ Goto(Running("check"))
  /\ UNCHANGED <<protocols, list, sock>>

(* All frames of a request come together.                                  *)
Receive(p) ==
  /\ thread.at = "receive"
  /\ sock[p].at = "sent"
  /\ sock' = [sock EXCEPT ![p] = Taken(sock[p].request)]
  /\ Goto(Serving("handle", p, <<>>))
  /\ UNCHANGED <<protocols, list>>

Handles(p, kind) == thread = Serving("handle", p, <<>>) /\ sock[p].request.kind = kind

AnswerList(p) ==
  /\ Handles(p, "list")
  /\ sock' = [sock EXCEPT ![p] = Listing(list)]
  /\ Goto(Running("check"))
  /\ UNCHANGED <<protocols, list>>

(* MUTANT: no answer to what is not understood.                            *)
AnswerUnknown_Silent(p) ==
  /\ Handles(p, "unknown")
  /\ Goto(Running("check"))
  /\ UNCHANGED <<protocols, list, sock>>

AnswerUnknown(p) ==
  /\ Handles(p, "unknown")
  /\ sock' = [sock EXCEPT ![p] = Reply("refused")]
  /\ Goto(Running("check"))
  /\ UNCHANGED <<protocols, list>>

HandleAdd(p) ==
  /\ Handles(p, "add")
  /\ protocols' \in Inserted(protocols, sock[p].request.entry)
  /\ Goto(Serving("changed", p, <<>>))
  /\ UNCHANGED <<list, sock>>

(* MUTANT: the list is left as it is.                                      *)
HandleRemove_KeepsList(p) ==
  /\ Handles(p, "remove")
  /\ protocols' = Erased(protocols, sock[p].request.entry)
  /\ Goto(Serving("replaced", p, <<>>))
  /\ UNCHANGED <<list, sock>>

HandleRemove(p) ==
  /\ Handles(p, "remove")
  /\ protocols' = Erased(protocols, sock[p].request.entry)
  /\ Goto(Serving("changed", p, <<>>))
  /\ UNCHANGED <<list, sock>>

ReadMap ==
  /\ thread.at = "changed"
  /\ Goto(Serving("read", thread.peer, protocols))
  /\ UNCHANGED <<protocols, list, sock>>

ReplaceList ==
  /\ thread.at = "read"
  /\ list' = thread.json
  /\ Goto(Serving("replaced", thread.peer, <<>>))
  /\ UNCHANGED <<protocols, sock>>

(* MUTANT: another text than OK.                                           *)
Acknowledge_Other ==
  /\ thread.at = "replaced"
  /\ sock' = [sock EXCEPT ![thread.peer] = Reply("ok")]
  /\ Goto(Running("check"))
  /\ UNCHANGED <<protocols, list>>

Acknowledge ==
  /\ thread.at = "replaced"
  /\ sock' = [sock EXCEPT ![thread.peer] = Reply("OK")]
  /\ Goto(Running("check"))
  /\ UNCHANGED <<protocols, list>>

-----------------------------------------------------------------------------
(* The clients.                                                            *)

QueryProtocols(c) ==
  /\ sock[c] = Ready
  /\ sock' = [sock EXCEPT ![c] = Sent(ListRequest)]
  /\ UNCHANGED <<serverVars, clientVars>>

(* A REQ socket whose answer was never read refuses to send.               *)
QueryThrows(c) ==
  /\ c \in gaveUp
  /\ result' = [result EXCEPT ![c] = Threw]
  /\ UNCHANGED <<serverVars, sock, gaveUp, directory, told>>

QueryTimesOut(c) ==
  /\ Awaiting(c) /\ c \notin gaveUp
  /\ gaveUp' = gaveUp \cup {c}
  /\ result' = [result EXCEPT ![c] = TimedOut]
  /\ UNCHANGED <<serverVars, sock, directory, told>>

(* MUTANT: the listener is called before the directory is stored.          *)
UpdateDirectory_Swapped(c, s) ==
  IF s = directory[c] THEN UNCHANGED <<directory, told>>
  ELSE /\ directory' = [directory EXCEPT ![c] = s]
       /\ told' = IF told[c] = Nobody THEN told ELSE [told EXCEPT ![c] = Told(directory[c])]

(* MUTANT: the directory is not stored.                                    *)
UpdateDirectory_Forgets(c, s) ==
  IF s = directory[c] THEN UNCHANGED <<directory, told>>
  ELSE /\ directory' = directory
       /\ told' = IF told[c] = Nobody THEN told ELSE [told EXCEPT ![c] = Told(s)]

UpdateDirectory(c, s) ==
  IF s = directory[c] THEN UNCHANGED <<directory, told>>
  ELSE /\ directory' = [directory EXCEPT ![c] = s]
       /\ told' = IF told[c] = Nobody THEN told ELSE [told EXCEPT ![c] = Told(s)]

QueryReturns(c) ==
  /\ sock[c].at = "listing" /\ c \notin gaveUp
  /\ sock' = [sock EXCEPT ![c] = Ready]
  /\ result' = [result EXCEPT ![c] = Found(sock[c].entries)]
  /\ UpdateDirectory(c, sock[c].entries)
  /\ UNCHANGED <<serverVars, gaveUp>>

(* In place of the one before, if any; it is not called for what the client*)
(* remembers already.                                                      *)
AddChangeCallback(c) ==
  /\ told' = [told EXCEPT ![c] = Waiting(directory[c])]
  /\ UNCHANGED <<serverVars, sock, gaveUp, result, directory>>

(* The programs that register.                                             *)
Request(r, req) ==
  /\ sock[r] = Ready
  /\ sock' = [sock EXCEPT ![r] = Sent(req)]
  /\ UNCHANGED <<serverVars, clientVars>>

RequestReturns(r) ==
  /\ sock[r].at = "reply"
  /\ sock' = [sock EXCEPT ![r] = Ready]
  /\ UNCHANGED <<serverVars, clientVars>>

-----------------------------------------------------------------------------
OwnerStep ==
  \/ \E e \in Entry : AddProtocol(e)
  \/ OwnerReadsMap \/ OwnerReplacesList \/ StartRunning \/ StopRunning

ThreadStep ==
  \/ Bind \/ BindThrows \/ Publish \/ EndLoop \/ ReceiveTimesOut
  \/ \E p \in Peer : \/ Receive(p) \/ AnswerList(p) \/ AnswerUnknown(p)
                     \/ HandleAdd(p) \/ HandleRemove(p)
  \/ ReadMap \/ ReplaceList \/ Acknowledge

PeerStep ==
  \/ \E c \in Client : \/ QueryProtocols(c) \/ QueryThrows(c) \/ QueryTimesOut(c)
                       \/ QueryReturns(c) \/ AddChangeCallback(c)
  \/ \E r \in Registrar : RequestReturns(r) \/ \E req \in RegistrarRequest : Request(r, req)

Next == OwnerStep \/ ThreadStep \/ PeerStep

Spec == Init /\ [][Next]_vars

(* The thread is scheduled, and recv returns within its timeout; ZeroMQ    *)
(* delivers, and takes requests of several peers in turn.                  *)
Fairness ==
  /\ WF_vars(ThreadStep)
  /\ \A p \in Peer : SF_vars(Receive(p))

FairSpec == Spec /\ Fairness

-----------------------------------------------------------------------------
(* Properties.                                                             *)

Request_ == RegistrarRequest \cup {ListRequest}

(* The types of ProtocolDirectoryServer.hpp and ProtocolDirectoryClient.hpp*)
TypeOK ==
  /\ protocols \in Seq(Entry) /\ list \in Seq(Entry)
  /\ stop \in BOOLEAN /\ starting \in {"none", "unbound", "threw"}
  /\ \/ thread \in [at : {"off", "check", "receive", "ended"}]
     \/ thread \in [at : {"handle", "changed", "read", "replaced"},
                    peer : Peer, json : Seq(Entry)]
  /\ owner \in [at : {"idle", "changed", "read"}, json : Seq(Entry)]
  /\ sock \in [Peer -> {Ready} \cup [at : {"sent", "taken"}, request : Request_]
                       \cup [at : {"listing"}, entries : Seq(Entry)]
                       \cup [at : {"reply"}, text : {"OK", "refused"}]]
  /\ gaveUp \subseteq Client
  /\ result \in [Client -> {NoResult, TimedOut, Threw}
                           \cup [kind : {"found"}, entries : Seq(Entry)]]
  /\ directory \in [Client -> Seq(Entry)]
  /\ told \in [Client -> {Nobody} \cup [at : {"waiting", "told"}, entries : Seq(Entry)]]

(* While nobody is inside an add or a remove, the text that answers and    *)
(* publishes the directory is the text of the map: none of the changes     *)
(* reported as made is missing from it (addProtocol, updateCompleteList).  *)
Coherent ==
  owner = Resting /\ thread.at \notin {"changed", "read"} => list = protocols

(* What a query that was answered returned is what the client remembers;   *)
(* a listener that was called was last called with just that, and one that *)
(* was not has missed nothing: it is what was remembered when it was added *)
(* (updateDirectory, addChangeCallback).                                   *)
ListenerUpToDate ==
  \A c \in Client :
    /\ result[c].kind = "found" => result[c].entries = directory[c]
    /\ told[c] # Nobody => told[c].entries = directory[c]

(* The listener of a client that goes on asking knows the directory of the *)
(* server once that changes no more: it was last told of it, or it was the *)
(* one remembered when the listener was added (queryProtocols,             *)
(* updateDirectory).                                                       *)
ListenerCatchesUp ==
  \A c \in Client :
    []<><<QueryReturns(c)>>_vars /\ <>[][FALSE]_list
      => <>[](told[c] \in {Nobody, Waiting(list), Told(list)})

(* The publisher is kept alive: the thread that waits for requests is back *)
(* at the top of its loop in time (rcvtimeo in runRequestServer).          *)
PublisherKeptAlive == thread.at = "receive" ~> thread.at = "check"

(* A stopped thread ends, and every request sent is answered before, in    *)
(* particular those of peers that wait without a timeout.                  *)
StopEnds == stop /\ thread # Nowhere ~> thread.at = "ended"
RequestsAnswered ==
  \A p \in Peer :
    thread # Nowhere /\ sock[p].at = "sent" ~> sock[p].at \notin {"sent", "taken"} \/ stop

-----------------------------------------------------------------------------
(* The one table, and everyone's call.                                     *)

CallOf(p) ==
  IF p \in gaveUp THEN [at |-> "lost"]
  ELSE CASE sock[p].at = "ready"   -> [at |-> "idle"]
         [] sock[p].at = "listing" -> [at |-> "listed", entries |-> ToSet(sock[p].entries)]
         [] sock[p].at = "reply"   ->
              [at |-> IF sock[p].text = "OK" THEN "acknowledged" ELSE "refused"]
         [] sock[p].at = "taken" /\ thread = Serving("replaced", p, <<>>) ->
              [at |-> "acknowledged"]
         [] OTHER -> [at |-> "pending", request |-> sock[p].request]

Service == INSTANCE DirectoryService
  WITH entries <- ToSet(list), call <- [p \in Peer |-> CallOf(p)]

(* The directory is one table: a list holds every entry acknowledged before*)
(* it was asked for and none removed before, and entries are replaced by   *)
(* protocol and adapter (runRequestServer, addProtocol, queryProtocols).   *)
ServiceSpec == Service!Spec
=============================================================================
