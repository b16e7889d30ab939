---------------------------- MODULE CommandChannel ----------------------------
(***************************************************************************)
(* libs/services: commands from clients to a server and the replies.  A    *)
(* client sends a command as three frames on a REQ socket and waits for    *)
(* the two of the reply without a timeout.  For each call of               *)
(* startCommandHandler the server has a detached thread with a REP socket  *)
(* of its own that receives, calls the one handler and acknowledges, for   *)
(* as long as the process lives: _stop_source is never asked to stop, so   *)
(* the condition of the loop is always true.                               *)
(*                                                                         *)
(* ZeroMQ is modelled as REQ and REP sockets use it: the frames of a       *)
(* message arrive together, a reply goes to the socket the request came    *)
(* from, and is dropped if that is gone.                                   *)
(***************************************************************************)
EXTENDS Integers, Sequences

CONSTANTS
  Client,         \* ProtocolClient objects
  Endpoint,       \* command endpoints of the server
  Frame,          \* contents of frames
  Verb, Name,     \* command_verb and command_receiver, subsets of Frame
  Handler,        \* callbacks in use
  NoHandler,      \* the empty std::function
  Answers(_, _)   \* the replies a callback may give to a command

Command == [command_verb : Verb, command_receiver : Name, command_data : Frame]
CommandReply == [reply_verb : Verb, reply_data : Frame]

ASSUME FrameAssumption == Verb \subseteq Frame /\ Name \subseteq Frame
ASSUME HandlerAssumption == NoHandler \notin Handler
ASSUME AnswerAssumption ==
  \A h \in Handler : \A cmd \in Command : Answers(h, cmd) \subseteq CommandReply

VARIABLES
  careful,    \* how the owner uses the server, see the owner's actions
  alive,      \* the process of the server
  destroyed,  \* the ProtocolServer object has been destroyed
  handler,    \* _command_handler
  starting,   \* endpoints of threads that have not bound yet
  thread,     \* the thread that has bound each endpoint
  conn,       \* the endpoints each client is connected to
  sock,       \* the REQ socket of each client, and its message
  gone,       \* clients whose program has ended
  served,     \* history: how often a handler was given the last command of each client
  result      \* what the last sendCommand of each client returned

ownerVars  == <<careful, destroyed>>
serverVars == <<alive, handler, starting, thread>>
clientVars == <<conn, gone, result>>
vars == <<ownerVars, serverVars, clientVars, sock, served>>

-----------------------------------------------------------------------------
(* Frames.                                                                 *)

EncodeCommand(cmd) == <<cmd.command_verb, cmd.command_receiver, cmd.command_data>>
EncodeReply(r)     == <<r.reply_verb, r.reply_data>>

(* MUTANT: the receiver is read from the last frame.                       *)
DecodeCommand_Swapped(f) ==
  [command_verb |-> f[1], command_receiver |-> f[3], command_data |-> f[2]]

DecodeCommand(f) ==
  [command_verb |-> f[1], command_receiver |-> f[2], command_data |-> f[3]]

DecodeReply(f) == [reply_verb |-> f[1], reply_data |-> f[2]]

-----------------------------------------------------------------------------
(* The state of a socket and of a thread.                                  *)

Ready         == [at |-> "ready"]
Sent(e, f)    == [at |-> "sent", to |-> e, frames |-> f]
Taken         == [at |-> "taken"]
Replied(f)    == [at |-> "replied", frames |-> f]
Lost          == [at |-> "lost"]

Off                  == [at |-> "off"]
Receiving            == [at |-> "receive"]
Received(c, cmd)     == [at |-> "received", peer |-> c, command |-> cmd]
Handling(c, cmd, h)  == [at |-> "handling", peer |-> c, command |-> cmd, by |-> h]
Acknowledging(c, r)  == [at |-> "acknowledge", peer |-> c, reply |-> r]

NoReply == [kind |-> "none"]
Got(r)  == [kind |-> "reply", reply |-> r]

Init ==
  /\ careful \in BOOLEAN
  /\ alive = TRUE /\ destroyed = FALSE
  /\ handler = NoHandler
  /\ starting = {}
  /\ thread = [e \in Endpoint |-> Off]
  /\ conn = [c \in Client |-> {}]
  /\ sock = [c \in Client |-> Ready]
  /\ gone = {}
  /\ served = [c \in Client |-> 0]
  /\ result = [c \in Client |-> NoReply]

-----------------------------------------------------------------------------
(* The owner of the server.  A careful one, as the demo server, sets the   *)
(* callback once and before it starts a thread, gives every thread an      *)
(* endpoint of its own, has a callback that does not throw, and keeps the  *)
(* object for as long as the process lives.                                *)

Unstarted == starting = {} /\ \A e \in Endpoint : thread[e] = Off

(* The thread uses _command_handler, or is about to.                       *)
InUse(e) == thread[e].at \in {"received", "handling"}

(* An assignment to the std::function while a thread calls it is a data    *)
(* race: the call goes on with the old target, or the process dies.        *)
SetCommandCallback(h) ==
  /\ alive /\ ~destroyed
  /\ careful => Unstarted
  /\ handler' = h
  /\ alive' \in {TRUE, \A e \in Endpoint : ~InUse(e)}
  /\ UNCHANGED <<ownerVars, starting, thread, clientVars, sock, served>>

StartCommandHandler(e) ==
  /\ alive /\ ~destroyed
  /\ e \notin starting
  /\ careful => handler # NoHandler /\ thread[e] = Off
  /\ starting' = starting \cup {e}
  /\ UNCHANGED <<ownerVars, alive, handler, thread, clientVars, sock, served>>

(* The destructor leaves the detached threads running.                     *)
Destroy ==
  /\ alive /\ ~destroyed /\ ~careful
  /\ destroyed' = TRUE
  /\ UNCHANGED <<careful, serverVars, clientVars, sock, served>>

-----------------------------------------------------------------------------
(* The thread of startCommandHandler.                                      *)

Goto(e, t) ==
  /\ alive
  /\ thread' = [thread EXCEPT ![e] = t]
  /\ UNCHANGED <<ownerVars, alive, handler, clientVars>>

(* The process ends: an exception nobody catches, or undefined behaviour.  *)
Terminate ==
  /\ alive
  /\ alive' = FALSE
  /\ UNCHANGED <<ownerVars, handler, starting, thread, clientVars, sock, served>>

Bind(e) ==
  /\ e \in starting /\ thread[e] = Off
  /\ starting' = starting \ {e}
  /\ Goto(e, Receiving)
  /\ UNCHANGED <<sock, served>>

BindThrows(e) == e \in starting /\ thread[e] # Off /\ Terminate

Receive(e, c) ==
  /\ thread[e] = Receiving
  /\ sock[c].at = "sent" /\ sock[c].to = e
  /\ Goto(e, Received(c, DecodeCommand(sock[c].frames)))
  /\ sock' = [sock EXCEPT ![c] = Taken]
  /\ UNCHANGED <<starting, served>>

BeginHandle(e) ==
  /\ thread[e].at = "received"
  /\ handler # NoHandler
  /\ Goto(e, Handling(thread[e].peer, thread[e].command, handler))
  /\ served' = [served EXCEPT ![thread[e].peer] = @ + 1]
  /\ UNCHANGED <<starting, sock>>

(* std::bad_function_call.                                                 *)
HandlerMissing(e) == thread[e].at = "received" /\ handler = NoHandler /\ Terminate

(* MUTANT: a callback that fails is called again.                          *)
EndHandle_Retries(e) ==
  /\ thread[e].at = "handling"
  /\ \/ Goto(e, Received(thread[e].peer, thread[e].command))
     \/ \E r \in Answers(thread[e].by, thread[e].command) :
          Goto(e, Acknowledging(thread[e].peer, r))
  /\ UNCHANGED <<starting, sock, served>>

EndHandle(e) ==
  /\ thread[e].at = "handling"
  /\ \E r \in Answers(thread[e].by, thread[e].command) :
       Goto(e, Acknowledging(thread[e].peer, r))
  /\ UNCHANGED <<starting, sock, served>>

HandlerThrows(e) == thread[e].at = "handling" /\ ~careful /\ Terminate

(* A thread outlives the object whose members it uses.                     *)
UsesDestroyed(e) == destroyed /\ (e \in starting \/ InUse(e)) /\ Terminate

(* MUTANT: a reply that cannot be delivered throws.                        *)
Acknowledge_Throws(e) ==
  /\ thread[e].at = "acknowledge"
  /\ \/ /\ thread[e].peer \notin gone
        /\ Goto(e, Receiving)
        /\ sock' = [sock EXCEPT ![thread[e].peer] = Replied(EncodeReply(thread[e].reply))]
        /\ UNCHANGED <<starting, served>>
     \/ thread[e].peer \in gone /\ Terminate

(* MUTANT: one command, no loop.                                           *)
Acknowledge_Once(e) ==
  /\ thread[e].at = "acknowledge"
  /\ Goto(e, [at |-> "ended"])
  /\ sock' = [sock EXCEPT ![thread[e].peer] =
                IF thread[e].peer \in gone THEN Lost ELSE Replied(EncodeReply(thread[e].reply))]
  /\ UNCHANGED <<starting, served>>

Acknowledge(e) ==
  /\ thread[e].at = "acknowledge"
  /\ Goto(e, Receiving)
  /\ sock' = [sock EXCEPT ![thread[e].peer] =
                IF thread[e].peer \in gone THEN Lost ELSE Replied(EncodeReply(thread[e].reply))]
  /\ UNCHANGED <<starting, served>>

(* A new process at the same endpoints.  What the old one held is lost;    *)
(* of the messages under way those are that had left the sender.           *)
Restart ==
  /\ ~alive
  /\ alive' = TRUE /\ destroyed' = FALSE
  /\ handler' = NoHandler
  /\ starting' = {}
  /\ thread' = [e \in Endpoint |-> Off]
  /\ \E L \in SUBSET {c \in Client : sock[c].at \in {"sent", "replied"}} :
       sock' = [c \in Client |-> IF c \in L \/ sock[c] = Taken THEN Lost ELSE sock[c]]
  /\ UNCHANGED <<careful, clientVars, served>>

-----------------------------------------------------------------------------
(* The clients.                                                            *)

(* bind connects; no server need be there yet.                             *)
Connect(c, e) ==
  /\ c \notin gone /\ sock[c] = Ready
  /\ conn' = [conn EXCEPT ![c] = @ \cup {e}]
  /\ UNCHANGED <<ownerVars, serverVars, gone, result, sock, served>>

(* Of several connections ZeroMQ takes one after the other.                *)
SendCommand(c, cmd) ==
  /\ c \notin gone /\ sock[c] = Ready
  /\ \E e \in conn[c] : sock' = [sock EXCEPT ![c] = Sent(e, EncodeCommand(cmd))]
  /\ served' = [served EXCEPT ![c] = 0]
  /\ UNCHANGED <<ownerVars, serverVars, clientVars>>

SendReturns(c) ==
  /\ c \notin gone /\ sock[c].at = "replied"
  /\ sock' = [sock EXCEPT ![c] = Ready]
  /\ result' = [result EXCEPT ![c] = Got(DecodeReply(sock[c].frames))]
  /\ UNCHANGED <<ownerVars, serverVars, conn, gone, served>>

(* The program of a client ends, in a call or not.  A command that has not *)
(* been received may still be.                                             *)
Leave(c) ==
  /\ c \notin gone
  /\ gone' = gone \cup {c}
  /\ sock' \in {sock, [sock EXCEPT ![c] = IF @.at = "sent" THEN Lost ELSE @]}
  /\ UNCHANGED <<ownerVars, serverVars, conn, result, served>>

-----------------------------------------------------------------------------
OwnerStep ==
  \/ \E h \in Handler : SetCommandCallback(h)
  \/ \E e \in Endpoint : StartCommandHandler(e)
  \/ Destroy \/ Restart

ThreadStep(e) ==
  \/ Bind(e) \/ BindThrows(e)
  \/ \E c \in Client : Receive(e, c)
  \/ BeginHandle(e) \/ HandlerMissing(e) \/ EndHandle(e) \/ HandlerThrows(e)
  \/ UsesDestroyed(e) \/ Acknowledge(e)

ClientStep(c) ==
  \/ \E e \in Endpoint : Connect(c, e)
  \/ \E cmd \in Command : SendCommand(c, cmd)
  \/ SendReturns(c) \/ Leave(c)

Next ==
  \/ OwnerStep
  \/ \E e \in Endpoint : ThreadStep(e)
  \/ \E c \in Client : ClientStep(c)

Spec == Init /\ [][Next]_vars

(* Threads are scheduled, a callback returns, and ZeroMQ takes the requests*)
(* that wait at one socket in turn.  Nothing makes a client call or stay,  *)
(* an owner act, or a process start again.                                 *)
Fairness ==
  /\ \A e \in Endpoint : WF_vars(ThreadStep(e))
  /\ \A e \in Endpoint : \A c \in Client : SF_vars(Receive(e, c))
  /\ \A c \in Client : WF_vars(SendReturns(c))

FairSpec == Spec /\ Fairness

-----------------------------------------------------------------------------
(* Properties.                                                             *)

ThreadState ==
  {Off, Receiving}
  \cup [at : {"received"}, peer : Client, command : Command]
  \cup [at : {"handling"}, peer : Client, command : Command, by : Handler]
  \cup [at : {"acknowledge"}, peer : Client, reply : CommandReply]

SocketState ==
  {Ready, Taken, Lost}
  \cup [at : {"sent"}, to : Endpoint, frames : {EncodeCommand(cmd) : cmd \in Command}]
  \cup [at : {"replied"}, frames : {EncodeReply(r) : r \in CommandReply}]

(* The types of ProtocolServer.hpp, ProtocolClient.hpp, ProtocolMessages.hpp*)
TypeOK ==
  /\ careful \in BOOLEAN /\ alive \in BOOLEAN /\ destroyed \in BOOLEAN
  /\ handler \in Handler \cup {NoHandler}
  /\ starting \subseteq Endpoint
  /\ thread \in [Endpoint -> ThreadState]
  /\ conn \in [Client -> SUBSET Endpoint]
  /\ sock \in [Client -> SocketState]
  /\ gone \subseteq Client
  /\ served \in [Client -> Nat]
  /\ result \in [Client -> {NoReply} \cup [kind : {"reply"}, reply : CommandReply]]

(* A server used with care never dies, whatever clients do and whenever    *)
(* they leave: no thread meets a missing callback, an endpoint in use or a *)
(* destroyed member (startCommandHandler, setCommandCallback).             *)
StaysAlive == careful => alive

(* A command for a thread that is up is answered, also when other clients  *)
(* call all the time or leave in the middle of a call, unless its sender   *)
(* leaves (the loop of startCommandHandler, sendCommand).                  *)
CommandsAnswered ==
  \A c \in Client : \A e \in Endpoint :
    careful /\ thread[e] # Off /\ sock[c].at = "sent" /\ sock[c].to = e
      ~> sock[c] = Ready \/ c \in gone

(* The threads of a server that is no more come to an end.                 *)
HandlerStops == destroyed ~> \A e \in Endpoint : thread[e] = Off

-----------------------------------------------------------------------------
(* The call of each client.                                                *)

ServerOf(c) == CHOOSE e \in Endpoint : thread[e] \notin {Off, Receiving} /\ thread[e].peer = c

CallAt(t) ==
  CASE t.at = "received" -> [at |-> "pending", command |-> t.command]
    [] t.at = "handling" -> [at |-> "running", command |-> t.command, by |-> t.by]
    [] OTHER             -> [at |-> "done", reply |-> t.reply]

CallOf(c) ==
  CASE sock[c].at = "ready"   -> [at |-> "idle"]
    [] sock[c].at = "lost"    -> [at |-> "lost"]
    [] sock[c].at = "taken"   -> CallAt(thread[ServerOf(c)])
    [] sock[c].at = "sent"    ->
         [at |-> "pending",
          command |-> CHOOSE cmd \in Command : EncodeCommand(cmd) = sock[c].frames]
    [] sock[c].at = "replied" ->
         [at |-> "done",
          reply |-> CHOOSE r \in CommandReply : EncodeReply(r) = sock[c].frames]

Calls == INSTANCE RemoteCall WITH call <- [c \in Client |-> CallOf(c)]

(* Whatever the owner does, and across the death and the restart of the    *)
(* server: a callback is given every command at most once, as it was sent, *)
(* and a call returns what the callback replied to this very command       *)
(* (sendCommand, receive, acknowledge, startCommandHandler).               *)
CallsSpec == Calls!Spec
=============================================================================
