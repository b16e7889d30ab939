------------------------- MODULE CommandChannelProofs -------------------------
(***************************************************************************)
(* Proofs about CommandChannel, for any number of clients, endpoints and   *)
(* commands and any callbacks: its types, that the server of a careful     *)
(* owner stays alive and, for any owner, that it implements RemoteCall.    *)
(***************************************************************************)
EXTENDS CommandChannel, TLAPS

-----------------------------------------------------------------------------
(* Frames.                                                                 *)

(* What is read from the frames of a command or a reply is what was sent.  *)
LEMMA CommandRoundTrip == \A cmd \in Command : DecodeCommand(EncodeCommand(cmd)) = cmd
BY DEF Command, DecodeCommand, EncodeCommand

LEMMA ReplyRoundTrip == \A r \in CommandReply : DecodeReply(EncodeReply(r)) = r
BY DEF CommandReply, DecodeReply, EncodeReply

-----------------------------------------------------------------------------
(* Types.                                                                  *)

(* The fields that the steps of a thread read.                             *)
LEMMA ThreadFields ==
  ASSUME NEW t \in ThreadState
  PROVE  /\ t.at = "received" => t.peer \in Client /\ t.command \in Command
         /\ t.at = "handling" => t.peer \in Client /\ t.command \in Command /\ t.by \in Handler
         /\ t.at = "acknowledge" => t.peer \in Client /\ t.reply \in CommandReply
BY DEF ThreadState, Off, Receiving

LEMMA SocketFields ==
  ASSUME NEW s \in SocketState
  PROVE  /\ s.at = "sent" => DecodeCommand(s.frames) \in Command
         /\ s.at = "replied" => DecodeReply(s.frames) \in CommandReply
<1>1. CASE s \in [at : {"sent"}, to : Endpoint, frames : {EncodeCommand(cmd) : cmd \in Command}]
  <2>1. s.at = "sent" /\ \E cmd \in Command : s.frames = EncodeCommand(cmd)
    BY <1>1
  <2> QED BY <2>1, CommandRoundTrip
<1>2. CASE s \in [at : {"replied"}, frames : {EncodeReply(r) : r \in CommandReply}]
  <2>1. s.at = "replied" /\ \E r \in CommandReply : s.frames = EncodeReply(r)
    BY <1>2
  <2> QED BY <2>1, ReplyRoundTrip
<1>3. CASE s \in {Ready, Taken, Lost}
  BY <1>3 DEF Ready, Taken, Lost
<1> QED BY <1>1, <1>2, <1>3 DEF SocketState

LEMMA TypesKept == TypeOK /\ [Next]_vars => TypeOK'
<1> SUFFICES ASSUME TypeOK, [Next]_vars PROVE TypeOK'
  OBVIOUS
<1>1. ASSUME NEW h \in Handler, SetCommandCallback(h) PROVE TypeOK'
  BY <1>1 DEF SetCommandCallback, TypeOK, ownerVars, clientVars
<1>2. ASSUME NEW e \in Endpoint, StartCommandHandler(e) PROVE TypeOK'
  BY <1>2 DEF StartCommandHandler, TypeOK, ownerVars, clientVars
<1>3. CASE Destroy
  BY <1>3 DEF Destroy, TypeOK, serverVars, clientVars
<1>4. CASE Restart
  <2>1. sock' \in [Client -> SocketState]
    BY <1>4 DEF Restart, TypeOK, SocketState
  <2>2. thread' \in [Endpoint -> ThreadState]
    BY <1>4 DEF Restart, TypeOK, ThreadState
  <2> QED BY <1>4, <2>1, <2>2 DEF Restart, TypeOK, clientVars
<1>5. CASE Terminate
  BY <1>5 DEF Terminate, TypeOK, ownerVars, clientVars
<1>6. ASSUME NEW e \in Endpoint, NEW t \in ThreadState, Goto(e, t)
      PROVE  /\ thread' \in [Endpoint -> ThreadState]
             /\ careful' \in BOOLEAN /\ alive' \in BOOLEAN /\ destroyed' \in BOOLEAN
             /\ handler' \in Handler \cup {NoHandler}
             /\ conn' \in [Client -> SUBSET Endpoint]
             /\ gone' \subseteq Client
             /\ result' \in [Client -> {NoReply} \cup [kind : {"reply"}, reply : CommandReply]]
  BY <1>6 DEF Goto, TypeOK, ownerVars, clientVars
<1>7. ASSUME NEW e \in Endpoint, ThreadStep(e) PROVE TypeOK'
  <2>1. CASE Bind(e)
    <3>1. Receiving \in ThreadState
      BY DEF ThreadState
    <3> QED BY <2>1, <3>1, <1>6 DEF Bind, TypeOK
  <2>2. CASE BindThrows(e)
    BY <2>2, <1>5 DEF BindThrows
  <2>3. ASSUME NEW c \in Client, Receive(e, c) PROVE TypeOK'
    <3>1. Received(c, DecodeCommand(sock[c].frames)) \in ThreadState
      BY <2>3, SocketFields DEF Receive, TypeOK, ThreadState, Received
    <3>2. sock' \in [Client -> SocketState]
      BY <2>3 DEF Receive, TypeOK, SocketState
    <3> QED BY <2>3, <3>1, <3>2, <1>6 DEF Receive, TypeOK
  <2>4. CASE BeginHandle(e)
    <3>1. thread[e] \in ThreadState
      BY DEF TypeOK
    <3>2. Handling(thread[e].peer, thread[e].command, handler) \in ThreadState
      BY <2>4, <3>1, ThreadFields DEF BeginHandle, TypeOK, ThreadState, Handling
    <3>3. served' \in [Client -> Nat]
      BY <2>4, <3>1, ThreadFields DEF BeginHandle, TypeOK
    <3> QED BY <2>4, <3>2, <3>3, <1>6 DEF BeginHandle, TypeOK
  <2>5. CASE HandlerMissing(e)
    BY <2>5, <1>5 DEF HandlerMissing
  <2>6. CASE EndHandle(e)
    <3>1. thread[e] \in ThreadState
      BY DEF TypeOK
    <3>2. PICK r \in Answers(thread[e].by, thread[e].command) :
            Goto(e, Acknowledging(thread[e].peer, r))
      BY <2>6 DEF EndHandle
    <3>3. r \in CommandReply
      BY <2>6, <3>1, ThreadFields, AnswerAssumption DEF EndHandle
    <3>4. Acknowledging(thread[e].peer, r) \in ThreadState
      BY <2>6, <3>1, <3>3, ThreadFields DEF EndHandle, ThreadState, Acknowledging
    <3> QED BY <2>6, <3>2, <3>4, <1>6 DEF EndHandle, TypeOK
  <2>7. CASE HandlerThrows(e)
    BY <2>7, <1>5 DEF HandlerThrows
  <2>8. CASE UsesDestroyed(e)
    BY <2>8, <1>5 DEF UsesDestroyed
  <2>9. CASE Acknowledge(e)
    <3>1. thread[e] \in ThreadState /\ Receiving \in ThreadState
      BY DEF TypeOK, ThreadState
    <3>2. Lost \in SocketState /\ Replied(EncodeReply(thread[e].reply)) \in SocketState
      BY <2>9, <3>1, ThreadFields DEF Acknowledge, SocketState, Replied
    <3>3. sock' \in [Client -> SocketState]
      BY <2>9, <3>2 DEF Acknowledge, TypeOK
    <3> QED BY <2>9, <3>1, <3>3, <1>6 DEF Acknowledge, TypeOK
  <2> QED BY <1>7, <2>1, <2>2, <2>3, <2>4, <2>5, <2>6, <2>7, <2>8, <2>9 DEF ThreadStep
<1>8. ASSUME NEW c \in Client, ClientStep(c) PROVE TypeOK'
  <2>1. ASSUME NEW e \in Endpoint, Connect(c, e) PROVE TypeOK'
    BY <2>1 DEF Connect, TypeOK, ownerVars, serverVars
  <2>2. ASSUME NEW cmd \in Command, SendCommand(c, cmd) PROVE TypeOK'
    <3>1. PICK e \in conn[c] : sock' = [sock EXCEPT ![c] = Sent(e, EncodeCommand(cmd))]
      BY <2>2 DEF SendCommand
    <3>2. e \in Endpoint
      BY DEF TypeOK
    <3>3. Sent(e, EncodeCommand(cmd)) \in SocketState
      BY <3>2 DEF Sent, SocketState
    <3>4. sock' \in [Client -> SocketState]
      BY <3>1, <3>3 DEF TypeOK
    <3> QED BY <2>2, <3>4 DEF SendCommand, TypeOK, ownerVars, serverVars, clientVars
  <2>3. CASE SendReturns(c)
    <3>1. DecodeReply(sock[c].frames) \in CommandReply
      BY <2>3, SocketFields DEF SendReturns, TypeOK
    <3>2. sock' \in [Client -> SocketState]
      BY <2>3 DEF SendReturns, TypeOK, SocketState
    <3>3. result' \in [Client -> {NoReply} \cup [kind : {"reply"}, reply : CommandReply]]
      BY <2>3, <3>1 DEF SendReturns, TypeOK, Got
    <3> QED BY <2>3, <3>2, <3>3 DEF SendReturns, TypeOK, ownerVars, serverVars
  <2>4. CASE Leave(c)
    <3>1. sock' \in [Client -> SocketState]
      BY <2>4 DEF Leave, TypeOK, SocketState
    <3> QED BY <2>4, <3>1 DEF Leave, TypeOK, ownerVars, serverVars
  <2> QED BY <1>8, <2>1, <2>2, <2>3, <2>4 DEF ClientStep
<1>9. CASE UNCHANGED vars
  BY <1>9 DEF TypeOK, vars, ownerVars, serverVars, clientVars
<1> QED BY <1>1, <1>2, <1>3, <1>4, <1>7, <1>8, <1>9 DEF Next, OwnerStep

(* The state of the server and of the sockets has the types of the code.   *)
THEOREM Types == Spec => []TypeOK
<1>1. Init => TypeOK
  <2>1. Off \in ThreadState /\ Ready \in SocketState /\ 0 \in Nat
    BY DEF ThreadState, SocketState
  <2> QED BY <2>1 DEF Init, TypeOK
<1> QED BY <1>1, TypesKept, PTL DEF Spec

-----------------------------------------------------------------------------
(* The server of a careful owner.                                          *)

(* Nothing is missing that a thread could need: the callback is there from *)
(* before the first thread, each endpoint has one thread to bind it, and   *)
(* the object is there as long as the process.                             *)
Provided ==
  careful =>
    /\ alive /\ ~destroyed
    /\ handler = NoHandler => Unstarted
    /\ \A e \in starting : thread[e] = Off

LEMMA ProvidedKept == TypeOK /\ Provided /\ [Next]_vars => Provided'
<1> SUFFICES ASSUME TypeOK, Provided, [Next]_vars, careful' PROVE Provided'
  BY DEF Provided
<1>0. careful
  BY DEF Next, OwnerStep, ThreadStep, ClientStep, SetCommandCallback, StartCommandHandler, Destroy,
         Restart, Bind, BindThrows, Receive, BeginHandle, HandlerMissing, EndHandle, HandlerThrows,
         UsesDestroyed, Acknowledge, Goto, Terminate, Connect, SendCommand, SendReturns, Leave,
         vars, ownerVars
<1>1. ASSUME NEW h \in Handler, SetCommandCallback(h) PROVE Provided'
  <2>1. \A e \in Endpoint : ~InUse(e)
    BY <1>0, <1>1 DEF SetCommandCallback, Unstarted, InUse, Off
  <2>2. alive' /\ handler' # NoHandler
    BY <1>1, <2>1, HandlerAssumption DEF SetCommandCallback
  <2> QED BY <1>0, <1>1, <2>2 DEF SetCommandCallback, Provided, ownerVars
<1>2. ASSUME NEW e \in Endpoint, StartCommandHandler(e) PROVE Provided'
  BY <1>0, <1>2 DEF StartCommandHandler, Provided, ownerVars
<1>3. CASE Destroy \/ Restart
  BY <1>0, <1>3 DEF Destroy, Restart, Provided
<1>4. ASSUME NEW e \in Endpoint, ThreadStep(e) PROVE Provided'
  <2>1. ASSUME NEW t, Goto(e, t), thread[e] # Off, starting' = starting PROVE Provided'
    BY <1>0, <2>1 DEF Goto, Provided, Unstarted, TypeOK, ownerVars
  <2>2. CASE Bind(e)
    <3>1. handler # NoHandler
      BY <1>0, <2>2 DEF Bind, Provided, Unstarted
    <3> QED BY <1>0, <2>2, <3>1 DEF Bind, Goto, Provided, TypeOK, ownerVars
  <2>3. CASE BindThrows(e) \/ HandlerMissing(e) \/ HandlerThrows(e) \/ UsesDestroyed(e)
    BY <1>0, <2>3 DEF BindThrows, HandlerMissing, HandlerThrows, UsesDestroyed, Provided,
                      Unstarted, Off
  <2>4. CASE \E c \in Client : Receive(e, c)
    BY <2>1, <2>4 DEF Receive, Receiving, Off
  <2>5. CASE BeginHandle(e) \/ EndHandle(e) \/ Acknowledge(e)
    BY <2>1, <2>5 DEF BeginHandle, EndHandle, Acknowledge, Off
  <2> QED BY <1>4, <2>2, <2>3, <2>4, <2>5 DEF ThreadStep
<1>5. ASSUME NEW c \in Client, ClientStep(c) PROVE Provided'
  BY <1>5 DEF ClientStep, Connect, SendCommand, SendReturns, Leave, Provided, Unstarted,
              ownerVars, serverVars
<1>6. CASE UNCHANGED vars
  BY <1>6 DEF Provided, Unstarted, vars, ownerVars, serverVars
<1> QED BY <1>1, <1>2, <1>3, <1>4, <1>5, <1>6 DEF Next, OwnerStep

(* A server used with care never dies: whatever clients do, no thread      *)
(* meets a missing callback, an endpoint in use or a destroyed member.     *)
THEOREM ServerStaysAlive == Spec => []StaysAlive
<1>1. Init => Provided
  BY DEF Init, Provided, Unstarted
<1>2. Provided => StaysAlive
  BY DEF Provided, StaysAlive
<1> QED BY <1>1, <1>2, Types, ProvidedKept, PTL DEF Spec
-----------------------------------------------------------------------------
(* Which thread has the command of a client.                               *)

Busy(e) == thread[e].at \in {"received", "handling", "acknowledge"}

(* Every command that was taken off a socket is with one thread.           *)
Matched ==
  /\ \A e \in Endpoint : Busy(e) => sock[thread[e].peer] = Taken
  /\ \A e, f \in Endpoint : Busy(e) /\ Busy(f) /\ thread[e].peer = thread[f].peer => e = f
  /\ \A c \in Client : sock[c] = Taken => \E e \in Endpoint : Busy(e) /\ thread[e].peer = c

(* The states of threads and sockets are told apart by their first field.  *)
LEMMA ThreadKinds ==
  ASSUME NEW t \in ThreadState
  PROVE  /\ t.at \in {"off", "receive", "received", "handling", "acknowledge"}
         /\ t.at \in {"received", "handling", "acknowledge"} <=> t \notin {Off, Receiving}
         /\ t.at = "off" <=> t = Off
         /\ t.at = "receive" <=> t = Receiving
BY DEF ThreadState, Off, Receiving

LEMMA SocketKinds ==
  ASSUME NEW s \in SocketState
  PROVE  /\ s.at \in {"ready", "sent", "taken", "replied", "lost"}
         /\ s.at = "ready" <=> s = Ready
         /\ s.at = "taken" <=> s = Taken
         /\ s.at = "lost" <=> s = Lost
BY DEF SocketState, Ready, Taken, Lost

LEMMA MatchedInit == Init => Matched
BY DEF Init, Matched, Busy, Off, Ready, Taken

(* Nothing changes for Matched but what e and c are doing.                 *)
LEMMA MatchedUntouched ==
  ASSUME Matched, thread' = thread,
         \A c \in Client : sock'[c] = Taken <=> sock[c] = Taken,
         TypeOK
  PROVE  Matched'
<1>1. \A e \in Endpoint : Busy(e) => thread[e].peer \in Client
  BY ThreadFields DEF TypeOK, Busy
<1> QED BY <1>1 DEF Matched, Busy

LEMMA MatchedKept == TypeOK /\ Matched /\ [Next]_vars => Matched'
<1> SUFFICES ASSUME TypeOK, Matched, [Next]_vars PROVE Matched'
  OBVIOUS
<1>0. \A e \in Endpoint : Busy(e) => thread[e].peer \in Client
  BY ThreadFields DEF TypeOK, Busy
<1>1. CASE sock' = sock /\ thread' = thread
  BY <1>1, MatchedUntouched
<1>2. CASE Restart
  <2>1. \A e \in Endpoint : ~Busy(e)'
    BY <1>2 DEF Restart, Busy, Off
  <2>2. \A c \in Client : sock'[c] # Taken
    BY <1>2 DEF Restart, Lost, Taken
  <2> QED BY <2>1, <2>2 DEF Matched
<1>3. ASSUME NEW e \in Endpoint, ThreadStep(e) PROVE Matched'
  <2>1. CASE Terminate
    BY <2>1, <1>1 DEF Terminate
  <2>2. CASE Bind(e)
    <3>1. ~Busy(e) /\ ~Busy(e)'
      BY <2>2 DEF Bind, Goto, Busy, Off, Receiving, TypeOK
    <3>2. \A f \in Endpoint \ {e} : thread'[f] = thread[f]
      BY <2>2 DEF Bind, Goto, TypeOK
    <3>3. \A f \in Endpoint : (Busy(f)' <=> Busy(f)) /\ (Busy(f) => thread'[f] = thread[f])
      BY <3>1, <3>2 DEF Busy
    <3> QED BY <2>2, <3>3 DEF Bind, Matched
  <2>3. ASSUME NEW c \in Client, Receive(e, c) PROVE Matched'
    <3>1. ~Busy(e) /\ sock[c] # Taken
      BY <2>3 DEF Receive, Busy, Receiving, Taken
    <3>2. Busy(e)' /\ thread'[e].peer = c
      BY <2>3 DEF Receive, Goto, Received, Busy, TypeOK
    <3>3. \A f \in Endpoint \ {e} : thread'[f] = thread[f]
      BY <2>3 DEF Receive, Goto, TypeOK
    <3>4. sock'[c] = Taken /\ \A d \in Client \ {c} : sock'[d] = sock[d]
      BY <2>3 DEF Receive, TypeOK
    <3>5. \A f \in Endpoint \ {e} : /\ Busy(f)' <=> Busy(f)
                                    /\ thread'[f].peer = thread[f].peer
                                    /\ Busy(f) => thread[f].peer # c
      BY <3>1, <3>3 DEF Busy, Matched
    <3> QED BY <1>0, <3>1, <3>2, <3>4, <3>5 DEF Matched
  <2>4. CASE BeginHandle(e) \/ EndHandle(e)
    <3>1. Busy(e) /\ Busy(e)' /\ thread'[e].peer = thread[e].peer
      BY <2>4 DEF BeginHandle, EndHandle, Goto, Handling, Acknowledging, Busy, TypeOK
    <3>2. \A f \in Endpoint \ {e} : thread'[f] = thread[f]
      BY <2>4 DEF BeginHandle, EndHandle, Goto, TypeOK
    <3>3. \A f \in Endpoint : (Busy(f)' <=> Busy(f)) /\ thread'[f].peer = thread[f].peer
      BY <3>1, <3>2 DEF Busy
    <3>4. sock' = sock
      BY <2>4 DEF BeginHandle, EndHandle
    <3> QED BY <3>3, <3>4 DEF Matched
  <2>5. CASE Acknowledge(e)
    <3>1. Busy(e) /\ ~Busy(e)'
      BY <2>5 DEF Acknowledge, Goto, Busy, Receiving, TypeOK
    <3>2. \A f \in Endpoint \ {e} : thread'[f] = thread[f]
      BY <2>5 DEF Acknowledge, Goto, TypeOK
    <3>3. \A f \in Endpoint \ {e} : (Busy(f)' <=> Busy(f)) /\ thread'[f].peer = thread[f].peer
      BY <3>2 DEF Busy
    <3>4. /\ thread[e].peer \in Client
          /\ sock'[thread[e].peer] # Taken
          /\ \A d \in Client \ {thread[e].peer} : sock'[d] = sock[d]
      BY <1>0, <2>5, <3>1 DEF Acknowledge, TypeOK, Lost, Replied, Taken
    <3> QED BY <1>0, <3>1, <3>3, <3>4 DEF Matched
  <2> QED BY <1>3, <2>1, <2>2, <2>3, <2>4, <2>5
          DEF ThreadStep, BindThrows, HandlerMissing, HandlerThrows, UsesDestroyed
<1>4. ASSUME NEW c \in Client, ClientStep(c) PROVE Matched'
  <2>1. thread' = thread
    BY <1>4 DEF ClientStep, Connect, SendCommand, SendReturns, Leave, serverVars
  <2>2. \A d \in Client : sock'[d] = Taken <=> sock[d] = Taken
    BY <1>4 DEF ClientStep, Connect, SendCommand, SendReturns, Leave, TypeOK,
                Taken, Ready, Sent, Lost
  <2> QED BY <2>1, <2>2, MatchedUntouched
<1>5. CASE (\E h \in Handler : SetCommandCallback(h)) \/ (\E e \in Endpoint : StartCommandHandler(e))
           \/ Destroy \/ UNCHANGED vars
  BY <1>5, <1>1 DEF SetCommandCallback, StartCommandHandler, Destroy, vars, serverVars
<1> QED BY <1>2, <1>3, <1>4, <1>5 DEF Next, OwnerStep

-----------------------------------------------------------------------------
(* The call of a client, in each state of its socket.                      *)

LEMMA SentCommand ==
  ASSUME NEW s \in SocketState, s.at = "sent"
  PROVE  (CHOOSE cmd \in Command : EncodeCommand(cmd) = s.frames) = DecodeCommand(s.frames)
<1>1. PICK cmd \in Command : s.frames = EncodeCommand(cmd)
  BY DEF SocketState, Ready, Taken, Lost
<1>2. \A d \in Command : EncodeCommand(d) = s.frames <=> d = cmd
  BY <1>1, CommandRoundTrip
<1> QED BY <1>1, <1>2, CommandRoundTrip

LEMMA RepliedReply ==
  ASSUME NEW s \in SocketState, s.at = "replied"
  PROVE  (CHOOSE r \in CommandReply : EncodeReply(r) = s.frames) = DecodeReply(s.frames)
<1>1. PICK r \in CommandReply : s.frames = EncodeReply(r)
  BY DEF SocketState, Ready, Taken, Lost
<1>2. \A d \in CommandReply : EncodeReply(d) = s.frames <=> d = r
  BY <1>1, ReplyRoundTrip
<1> QED BY <1>1, <1>2, ReplyRoundTrip

TakenCall ==
  \A e \in Endpoint : Busy(e) => /\ thread[e].peer \in Client
                                 /\ sock[thread[e].peer] = Taken
                                 /\ CallOf(thread[e].peer) = CallAt(thread[e])

UntakenCall ==
  \A c \in Client :
    /\ sock[c].at = "ready" => CallOf(c) = [at |-> "idle"]
    /\ sock[c].at = "lost"  => CallOf(c) = [at |-> "lost"]
    /\ sock[c].at = "sent"  =>
         CallOf(c) = [at |-> "pending", command |-> DecodeCommand(sock[c].frames)]
    /\ sock[c].at = "replied" =>
         CallOf(c) = [at |-> "done", reply |-> DecodeReply(sock[c].frames)]

LEMMA Taking == TypeOK /\ Matched => TakenCall
<1> SUFFICES ASSUME TypeOK, Matched, NEW e \in Endpoint, Busy(e)
             PROVE  /\ thread[e].peer \in Client
                    /\ sock[thread[e].peer] = Taken
                    /\ CallOf(thread[e].peer) = CallAt(thread[e])
  BY DEF TakenCall
<1> DEFINE c == thread[e].peer
<1>1. \A f \in Endpoint : Busy(f) <=> thread[f] \notin {Off, Receiving}
  BY ThreadKinds DEF TypeOK, Busy
<1>2. c \in Client /\ sock[c] = Taken
  BY ThreadFields DEF TypeOK, Matched, Busy
<1>3. \A f \in Endpoint : thread[f] \notin {Off, Receiving} /\ thread[f].peer = c <=> f = e
  BY <1>1 DEF Matched
<1>4. ServerOf(c) = e
  BY <1>3 DEF ServerOf
<1> QED BY <1>2, <1>4 DEF CallOf, Taken

LEMMA NotTaking == TypeOK => UntakenCall
<1> SUFFICES ASSUME TypeOK, NEW c \in Client
             PROVE  /\ sock[c].at = "ready" => CallOf(c) = [at |-> "idle"]
                    /\ sock[c].at = "lost"  => CallOf(c) = [at |-> "lost"]
                    /\ sock[c].at = "sent"  =>
                         CallOf(c) = [at |-> "pending", command |-> DecodeCommand(sock[c].frames)]
                    /\ sock[c].at = "replied" =>
                         CallOf(c) = [at |-> "done", reply |-> DecodeReply(sock[c].frames)]
  BY DEF UntakenCall
<1>1. sock[c] \in SocketState
  BY DEF TypeOK
<1> QED BY <1>1, SentCommand, RepliedReply DEF CallOf

(* A client's call is what it was if neither its socket nor the thread     *)
(* that has its command does anything.                                     *)
LEMMA Untouched ==
  ASSUME TypeOK, Matched, TypeOK', Matched',
         NEW c \in Client, sock'[c] = sock[c],
         \A e \in Endpoint : Busy(e) /\ thread[e].peer = c => thread'[e] = thread[e]
  PROVE  CallOf(c)' = CallOf(c)
<1>1. TakenCall /\ TakenCall' /\ UntakenCall /\ UntakenCall'
  BY Taking, NotTaking, PTL
<1>2. sock[c] \in SocketState
  BY DEF TypeOK
<1>3. CASE sock[c] = Taken
  <2>1. PICK e \in Endpoint : Busy(e) /\ thread[e].peer = c
    BY <1>3 DEF Matched
  <2>2. Busy(e)' /\ thread'[e] = thread[e]
    BY <2>1 DEF Busy
  <2> QED BY <1>1, <2>1, <2>2 DEF TakenCall, CallAt
<1>4. CASE sock[c] # Taken
  BY <1>1, <1>2, <1>4, SocketKinds DEF UntakenCall, DecodeCommand, DecodeReply
<1> QED BY <1>3, <1>4

-----------------------------------------------------------------------------
(* Every step is one of RemoteCall or leaves all calls as they are.        *)

CallMap == [c \in Client |-> CallOf(c)]
callVars == <<handler, CallMap, served, result>>

(* One call goes on, the others stay.                                      *)
LEMMA OneCall ==
  ASSUME NEW c \in Client, NEW x, CallOf(c)' = x,
         \A d \in Client \ {c} : CallOf(d)' = CallOf(d)
  PROVE  CallMap' = [CallMap EXCEPT ![c] = x]
BY DEF CallMap

LEMMA NoCall ==
  ASSUME \A d \in Client : CallOf(d)' = CallOf(d)
  PROVE  CallMap' = CallMap
BY DEF CallMap

LEMMA ThreadStepRefines ==
  ASSUME TypeOK, Matched, TypeOK', Matched', NEW e \in Endpoint, ThreadStep(e)
  PROVE  [Calls!Next]_callVars
<1> USE DEF callVars
<1>1. TakenCall /\ TakenCall' /\ UntakenCall /\ UntakenCall'
  BY Taking, NotTaking, PTL
<1>2. \A c \in Client : sock'[c] = sock[c] /\ (Busy(e) => thread[e].peer # c)
                          /\ (\A f \in Endpoint \ {e} : thread'[f] = thread[f])
                       => CallOf(c)' = CallOf(c)
  BY Untouched
<1>3. CASE Terminate
  <2>1. thread' = thread /\ sock' = sock
    BY <1>3 DEF Terminate
  <2>2. CallMap' = CallMap
    BY <2>1, Untouched, NoCall
  <2> QED BY <1>3, <2>2 DEF Terminate, clientVars
<1>4. CASE Bind(e)
  <2>1. ~Busy(e) /\ sock' = sock /\ \A f \in Endpoint \ {e} : thread'[f] = thread[f]
    BY <1>4 DEF Bind, Goto, Busy, Off, TypeOK
  <2>2. CallMap' = CallMap
    BY <1>2, <2>1, NoCall
  <2> QED BY <1>4, <2>2 DEF Bind, Goto, clientVars
<1>5. ASSUME NEW c \in Client, Receive(e, c) PROVE [Calls!Next]_callVars
  <2> DEFINE cmd == DecodeCommand(sock[c].frames)
  <2>1. ~Busy(e) /\ \A f \in Endpoint \ {e} : thread'[f] = thread[f]
    BY <1>5 DEF Receive, Goto, Busy, Receiving, TypeOK
  <2>2. \A d \in Client \ {c} : CallOf(d)' = CallOf(d)
    BY <1>2, <1>5, <2>1 DEF Receive, TypeOK
  <2>3. thread'[e] = Received(c, cmd)
    BY <1>5 DEF Receive, Goto, TypeOK
  <2>4. CallOf(c)' = [at |-> "pending", command |-> cmd]
    <3>1. Busy(e)' /\ thread'[e].peer = c
      BY <2>3 DEF Busy, Received
    <3>2. CallAt(thread[e])' = [at |-> "pending", command |-> cmd]
      BY <2>3 DEF CallAt, Received
    <3> QED BY <1>1, <3>1, <3>2 DEF TakenCall
  <2>5. CallOf(c) = [at |-> "pending", command |-> cmd]
    BY <1>1, <1>5 DEF UntakenCall, Receive
  <2>6. CallMap' = CallMap
    BY <2>2, <2>4, <2>5, NoCall
  <2> QED BY <1>5, <2>6 DEF Receive, Goto, clientVars
<1>6. CASE BeginHandle(e)
  <2> PICK c, cmd : c = thread[e].peer /\ cmd = thread[e].command
    OBVIOUS
  <2>1. Busy(e) /\ c \in Client /\ CallOf(c) = [at |-> "pending", command |-> cmd]
    BY <1>1, <1>6 DEF BeginHandle, Busy, TakenCall, CallAt
  <2>2. thread' = [thread EXCEPT ![e] = Handling(c, cmd, handler)] /\ sock' = sock
    BY <1>6 DEF BeginHandle, Goto
  <2>3. \A d \in Client \ {c} : CallOf(d)' = CallOf(d)
    BY <1>2, <2>2 DEF TypeOK
  <2>4. CallOf(c)' = [at |-> "running", command |-> cmd, by |-> handler]
    <3>1. Busy(e)' /\ thread'[e].peer = c
      BY <2>2 DEF Busy, Handling, TypeOK
    <3>2. CallAt(thread[e])' = [at |-> "running", command |-> cmd, by |-> handler]
      BY <2>2 DEF CallAt, Handling, TypeOK
    <3> QED BY <1>1, <3>1, <3>2 DEF TakenCall
  <2>5. CallMap' = [CallMap EXCEPT ![c] = [at |-> "running", command |-> cmd, by |-> handler]]
    BY <2>1, <2>3, <2>4, OneCall
  <2>6. CallMap[c] = [at |-> "pending", command |-> cmd]
    BY <2>1 DEF CallMap
  <2>7. /\ handler # NoHandler
        /\ served' = [served EXCEPT ![c] = @ + 1]
        /\ UNCHANGED <<handler, result>>
    BY <1>6 DEF BeginHandle, Goto, clientVars
  <2>8. CallMap' = [CallMap EXCEPT ![c] = Calls!Running(CallMap[c].command, handler)]
    BY <2>5, <2>6 DEF Calls!Running
  <2>9. Calls!Begin(c)
    BY <2>6, <2>7, <2>8 DEF CallMap, Calls!Begin
  <2> QED BY <2>1, <2>9 DEF Calls!Next
<1>7. CASE EndHandle(e)
  <2> PICK c, cmd, h : c = thread[e].peer /\ cmd = thread[e].command /\ h = thread[e].by
    OBVIOUS
  <2>1. /\ Busy(e) /\ c \in Client
        /\ CallOf(c) = [at |-> "running", command |-> cmd, by |-> h]
    BY <1>1, <1>7 DEF EndHandle, Busy, TakenCall, CallAt
  <2>2. PICK r \in Answers(h, cmd) : Goto(e, Acknowledging(c, r))
    BY <1>7 DEF EndHandle
  <2>3. thread' = [thread EXCEPT ![e] = Acknowledging(c, r)] /\ sock' = sock
    BY <1>7, <2>2 DEF EndHandle, Goto
  <2>4. \A d \in Client \ {c} : CallOf(d)' = CallOf(d)
    BY <1>2, <2>3 DEF TypeOK
  <2>5. CallOf(c)' = [at |-> "done", reply |-> r]
    <3>1. Busy(e)' /\ thread'[e].peer = c
      BY <2>3 DEF Busy, Acknowledging, TypeOK
    <3>2. CallAt(thread[e])' = [at |-> "done", reply |-> r]
      BY <2>3 DEF CallAt, Acknowledging, TypeOK
    <3> QED BY <1>1, <3>1, <3>2 DEF TakenCall
  <2>6. CallMap' = [CallMap EXCEPT ![c] = [at |-> "done", reply |-> r]]
    BY <2>1, <2>4, <2>5, OneCall
  <2>7. CallMap[c] = [at |-> "running", command |-> cmd, by |-> h]
    BY <2>1 DEF CallMap
  <2>8. Calls!Finish(c)
    BY <1>7, <2>2, <2>6, <2>7 DEF CallMap, Calls!Finish, Calls!Done, EndHandle, Goto, clientVars
  <2> QED BY <2>1, <2>8 DEF Calls!Next
<1>8. CASE Acknowledge(e)
  <2> PICK c, r : c = thread[e].peer /\ r = thread[e].reply
    OBVIOUS
  <2>1. /\ Busy(e) /\ c \in Client
        /\ CallOf(c) = [at |-> "done", reply |-> r]
        /\ r \in CommandReply
    BY <1>1, <1>8, ThreadFields DEF Acknowledge, Busy, TakenCall, CallAt, TypeOK
  <2>2. /\ \A f \in Endpoint \ {e} : thread'[f] = thread[f]
        /\ \A d \in Client \ {c} : sock'[d] = sock[d]
        /\ sock'[c] = IF c \in gone THEN Lost ELSE Replied(EncodeReply(r))
    BY <1>8, <2>1 DEF Acknowledge, Goto, TypeOK
  <2>3. \A d \in Client \ {c} : CallOf(d)' = CallOf(d)
    BY <1>2, <2>2
  <2>4. CASE c \in gone
    <3>1. CallOf(c)' = [at |-> "lost"]
      BY <1>1, <2>1, <2>2, <2>4 DEF UntakenCall, Lost
    <3>2. CallMap' = [d \in Client |-> IF d \in {c} THEN [at |-> "lost"] ELSE CallMap[d]]
      BY <2>3, <3>1 DEF CallMap
    <3>3. CallMap[c] # [at |-> "idle"]
      BY <2>1 DEF CallMap
    <3>4. Calls!Lose({c})
      BY <1>8, <3>2, <3>3 DEF CallMap, Calls!Lose, Calls!Idle, Calls!Lost, Acknowledge, Goto, clientVars
    <3> QED BY <2>1, <3>4 DEF Calls!Next
  <2>5. CASE c \notin gone
    <3>1. CallOf(c)' = [at |-> "done", reply |-> r]
      BY <1>1, <2>1, <2>2, <2>5, ReplyRoundTrip DEF UntakenCall, Replied
    <3>2. CallMap' = CallMap
      BY <2>1, <2>3, <3>1, NoCall
    <3> QED BY <1>8, <3>2 DEF Acknowledge, Goto, clientVars
  <2> QED BY <2>4, <2>5
<1> QED BY <1>3, <1>4, <1>5, <1>6, <1>7, <1>8
        DEF ThreadStep, BindThrows, HandlerMissing, HandlerThrows, UsesDestroyed

LEMMA ClientStepRefines ==
  ASSUME TypeOK, Matched, TypeOK', Matched', NEW c \in Client, ClientStep(c)
  PROVE  [Calls!Next]_callVars
<1> USE DEF callVars
<1>1. TakenCall /\ TakenCall' /\ UntakenCall /\ UntakenCall'
  BY Taking, NotTaking, PTL
<1>2. thread' = thread /\ handler' = handler
  BY DEF ClientStep, Connect, SendCommand, SendReturns, Leave, serverVars
<1>3. \A d \in Client \ {c} : CallOf(d)' = CallOf(d)
  <2>1. \A d \in Client \ {c} : sock'[d] = sock[d]
    BY DEF ClientStep, Connect, SendCommand, SendReturns, Leave, TypeOK
  <2> QED BY <1>2, <2>1, Untouched
<1>4. sock' = sock => CallMap' = CallMap
  BY <1>2, Untouched, NoCall
<1>5. CASE \E e \in Endpoint : Connect(c, e)
  BY <1>2, <1>4, <1>5 DEF Connect
<1>6. ASSUME NEW cmd \in Command, SendCommand(c, cmd) PROVE [Calls!Next]_callVars
  <2>1. PICK e \in conn[c] : sock' = [sock EXCEPT ![c] = Sent(e, EncodeCommand(cmd))]
    BY <1>6 DEF SendCommand
  <2>2. CallOf(c)' = [at |-> "pending", command |-> cmd]
    BY <1>1, <2>1, CommandRoundTrip DEF UntakenCall, Sent, TypeOK
  <2>3. CallMap' = [CallMap EXCEPT ![c] = Calls!Pending(cmd)]
    BY <1>3, <2>2, OneCall DEF Calls!Pending
  <2>4. CallMap[c] = Calls!Idle
    BY <1>1, <1>6 DEF CallMap, Calls!Idle, UntakenCall, SendCommand, Ready
  <2>5. Calls!Call(c, cmd)
    BY <1>2, <1>6, <2>3, <2>4 DEF CallMap, Calls!Call, SendCommand, clientVars
  <2> QED BY <2>5 DEF Calls!Next
<1>7. CASE SendReturns(c)
  <2>1. PICK r : r = DecodeReply(sock[c].frames)
    OBVIOUS
  <2>2. CallMap[c].at = "done" /\ CallMap[c].reply = r
    BY <1>1, <1>7, <2>1 DEF CallMap, UntakenCall, SendReturns
  <2>3. CallOf(c)' = [at |-> "idle"]
    BY <1>1, <1>7 DEF UntakenCall, SendReturns, Ready, TypeOK
  <2>4. CallMap' = [CallMap EXCEPT ![c] = Calls!Idle]
    BY <1>3, <2>3, OneCall DEF Calls!Idle
  <2>5. result' = [result EXCEPT ![c] = Calls!Got(CallMap[c].reply)]
    BY <1>7, <2>1, <2>2 DEF SendReturns, Calls!Got, Got
  <2>6. UNCHANGED <<handler, served>>
    BY <1>2, <1>7 DEF SendReturns
  <2>7. Calls!Return(c)
    BY <2>2, <2>4, <2>5, <2>6 DEF CallMap, Calls!Return
  <2> QED BY <2>7 DEF Calls!Next
<1>8. CASE Leave(c)
  <2>1. UNCHANGED <<handler, served, result>>
    BY <1>2, <1>8 DEF Leave
  <2>2. CASE sock' = sock
    BY <1>4, <2>1, <2>2
  <2>3. CASE sock[c].at = "sent" /\ sock' = [sock EXCEPT ![c] = Lost]
    <3>1. CallOf(c)' = [at |-> "lost"]
      BY <1>1, <2>3 DEF UntakenCall, Lost, TypeOK
    <3>2. CallMap' = [d \in Client |-> IF d \in {c} THEN Calls!Lost ELSE CallMap[d]]
      BY <1>3, <3>1 DEF CallMap, Calls!Lost
    <3>3. CallMap[c] # Calls!Idle
      BY <1>1, <2>3 DEF CallMap, UntakenCall, Calls!Idle
    <3>4. Calls!Lose({c})
      BY <2>1, <3>2, <3>3 DEF CallMap, Calls!Lose
    <3> QED BY <3>4 DEF Calls!Next
  <2> QED BY <1>8, <2>2, <2>3 DEF Leave, TypeOK
<1> QED BY <1>5, <1>6, <1>7, <1>8 DEF ClientStep

LEMMA RestartRefines ==
  ASSUME TypeOK, Matched, TypeOK', Matched', Restart
  PROVE  [Calls!Next]_callVars
<1>1. UntakenCall /\ UntakenCall' /\ TakenCall
  BY Taking, NotTaking, PTL
<1>2. PICK L \in SUBSET {c \in Client : sock[c].at \in {"sent", "replied"}} :
        sock' = [c \in Client |-> IF c \in L \/ sock[c] = Taken THEN Lost ELSE sock[c]]
  BY DEF Restart
<1> DEFINE S == L \cup {c \in Client : sock[c] = Taken}
<1>3. \A c \in Client : c \in S => CallOf(c)' = Calls!Lost
  BY <1>1, <1>2 DEF UntakenCall, Lost, Calls!Lost
<1>4. \A c \in Client : c \notin S => CallOf(c)' = CallOf(c)
  <2> SUFFICES ASSUME NEW c \in Client, c \notin S PROVE CallOf(c)' = CallOf(c)
    OBVIOUS
  <2>1. sock'[c] = sock[c] /\ sock[c] # Taken /\ sock[c] \in SocketState
    BY <1>2 DEF TypeOK
  <2> QED BY <1>1, <2>1, SocketKinds DEF UntakenCall, DecodeCommand, DecodeReply
<1>5. CallMap' = [c \in Client |-> IF c \in S THEN Calls!Lost ELSE CallMap[c]]
  BY <1>3, <1>4 DEF CallMap
<1>6. \A c \in S : CallMap[c] # Calls!Idle
  <2> SUFFICES ASSUME NEW c \in S PROVE CallOf(c) # Calls!Idle
    BY <1>2 DEF CallMap
  <2>1. CASE c \in L
    BY <1>1, <1>2, <2>1 DEF UntakenCall, Calls!Idle
  <2>2. CASE c \in Client /\ sock[c] = Taken
    <3>1. PICK e \in Endpoint : Busy(e) /\ thread[e].peer = c
      BY <2>2 DEF Matched
    <3>2. CallOf(c) = CallAt(thread[e])
      BY <1>1, <3>1 DEF TakenCall
    <3>3. CallAt(thread[e]).at \in {"pending", "running", "done"}
      BY DEF CallAt
    <3> QED BY <3>2, <3>3 DEF Calls!Idle
  <2> QED BY <2>1, <2>2
<1>7. handler' = NoHandler /\ UNCHANGED <<served, result>>
  BY DEF Restart, clientVars
<1>8. Calls!Lose(S)
  BY <1>5, <1>6, <1>7 DEF CallMap, Calls!Lose
<1>9. S \in SUBSET Client
  BY <1>2
<1> QED BY <1>8, <1>9 DEF Calls!Next

LEMMA StepRefines ==
  TypeOK /\ Matched /\ TypeOK' /\ Matched' /\ [Next]_vars => [Calls!Next]_callVars
<1> SUFFICES ASSUME TypeOK, Matched, TypeOK', Matched', [Next]_vars
             PROVE  [Calls!Next]_callVars
  OBVIOUS
<1>1. sock' = sock /\ thread' = thread => CallMap' = CallMap
  BY Untouched, NoCall
<1>2. ASSUME NEW h \in Handler, SetCommandCallback(h) PROVE [Calls!Next]_callVars
  <2>1. CallMap' = CallMap
    BY <1>1, <1>2 DEF SetCommandCallback
  <2>2. Calls!SetHandler(h)
    BY <1>2, <2>1 DEF CallMap, Calls!SetHandler, SetCommandCallback, clientVars
  <2> QED BY <2>2 DEF Calls!Next
<1>3. CASE (\E e \in Endpoint : StartCommandHandler(e)) \/ Destroy \/ UNCHANGED vars
  BY <1>1, <1>3 DEF StartCommandHandler, Destroy, vars, serverVars, clientVars, callVars
<1> QED BY <1>2, <1>3, ThreadStepRefines, ClientStepRefines, RestartRefines DEF Next, OwnerStep

(* Whatever clients and the owner do, and across the death and the restart *)
(* of the server: a callback is given every command at most once, as it    *)
(* was sent, and a call returns what the callback replied to this command. *)
THEOREM CallsAreImplemented == Spec => CallsSpec
<1>1. Init => Calls!Init
  <2>1. Init => CallMap = [c \in Client |-> [at |-> "idle"]]
    BY DEF Init, CallMap, CallOf, Ready
  <2> QED BY <2>1 DEF Init, Calls!Init, CallMap, Calls!Idle, Calls!NoReply, NoReply
<1>2. Spec => []Matched
  BY Types, MatchedInit, MatchedKept, PTL DEF Spec
<1>3. TypeOK /\ Matched /\ TypeOK' /\ Matched' /\ [Next]_vars
      => [Calls!Next]_<<handler, [c \in Client |-> CallOf(c)], served, result>>
  BY StepRefines DEF callVars, CallMap
<1> QED BY <1>1, <1>2, <1>3, Types, PTL DEF Spec, CallsSpec, Calls!Spec
=============================================================================
