------------------------------ MODULE RemoteCall ------------------------------
(***************************************************************************)
(* What the command channel promises: a command is handed once, as it was  *)
(* sent, to the handler set at that time, and the reply that handler gave  *)
(* to it is what the call returns.  CommandChannel shows that the sockets  *)
(* and the threads implement it.                                           *)
(***************************************************************************)
EXTENDS Naturals

CONSTANTS
  Client,        \* those who call, one command at a time
  Command,       \* commands
  Handler,       \* handlers of commands
  NoHandler,     \* no handler is set
  Answers(_, _)  \* the replies a handler may give to a command

VARIABLES
  handler,  \* the handler in use
  call,     \* what everyone's call has come to
  served,   \* how often a handler was given the last command of each client
  result    \* what the last call of each client returned

Idle           == [at |-> "idle"]
Pending(cmd)   == [at |-> "pending", command |-> cmd]
Running(cmd, h) == [at |-> "running", command |-> cmd, by |-> h]
Done(r)        == [at |-> "done", reply |-> r]
Lost           == [at |-> "lost"]

NoReply == [kind |-> "none"]
Got(r)  == [kind |-> "reply", reply |-> r]

Init ==
  /\ handler = NoHandler
  /\ call = [c \in Client |-> Idle]
  /\ served = [c \in Client |-> 0]
  /\ result = [c \in Client |-> NoReply]

SetHandler(h) ==
  /\ handler' = h
  /\ UNCHANGED <<call, served, result>>

Call(c, cmd) ==
  /\ call[c] = Idle
  /\ call' = [call EXCEPT ![c] = Pending(cmd)]
  /\ served' = [served EXCEPT ![c] = 0]
  /\ UNCHANGED <<handler, result>>

Begin(c) ==
  /\ call[c].at = "pending"
  /\ handler # NoHandler
  /\ call' = [call EXCEPT ![c] = Running(call[c].command, handler)]
  /\ served' = [served EXCEPT ![c] = @ + 1]
  /\ UNCHANGED <<handler, result>>

Finish(c) ==
  /\ call[c].at = "running"
  /\ \E r \in Answers(call[c].by, call[c].command) : call' = [call EXCEPT ![c] = Done(r)]
  /\ UNCHANGED <<handler, served, result>>

Return(c) ==
  /\ call[c].at = "done"
  /\ call' = [call EXCEPT ![c] = Idle]
  /\ result' = [result EXCEPT ![c] = Got(call[c].reply)]
  /\ UNCHANGED <<handler, served>>

(* Calls whose messages are gone never return; the server that lost them   *)
(* may have begun anew without a handler.                                  *)
Lose(S) ==
  /\ \A c \in S : call[c] # Idle
  /\ call' = [c \in Client |-> IF c \in S THEN Lost ELSE call[c]]
  /\ handler' \in {handler, NoHandler}
  /\ UNCHANGED <<served, result>>

Next ==
  \/ \E h \in Handler : SetHandler(h)
  \/ \E c \in Client : \/ \E cmd \in Command : Call(c, cmd)
                       \/ Begin(c) \/ Finish(c) \/ Return(c)
  \/ \E S \in SUBSET Client : Lose(S)

Spec == Init /\ [][Next]_<<handler, call, served, result>>
=============================================================================
