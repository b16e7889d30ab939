--------------------------- MODULE DirectoryService ---------------------------
(***************************************************************************)
(* What the protocol directory promises: one table of protocols, on which  *)
(* every request takes effect at one moment between its call and its       *)
(* return.  ProtocolDirectory shows that the server thread with its second *)
(* copy of the table, the sockets and the clients implement it.            *)
(***************************************************************************)
EXTENDS FiniteSets

CONSTANTS
  Entry,      \* directory entries
  Client,     \* those who may give a call up
  Registrar   \* those who add and remove, and wait for the answer

VARIABLES
  entries,  \* the table, at most one entry per protocol and adapter
  call      \* what everyone's call has come to

ListRequest       == [kind |-> "list"]
AddRequest(e)     == [kind |-> "add", entry |-> e]
RemoveRequest(e)  == [kind |-> "remove", entry |-> e]
UnknownRequest    == [kind |-> "unknown"]

Idle          == [at |-> "idle"]
Pending(req)  == [at |-> "pending", request |-> req]
Listed(S)     == [at |-> "listed", entries |-> S]
Acknowledged  == [at |-> "acknowledged"]
Refused       == [at |-> "refused"]
Lost          == [at |-> "lost"]

Answered(p) == call[p].at \in {"listed", "acknowledged", "refused"}

SameProtocol(d, e) ==
  d.protocol_name = e.protocol_name /\ d.adapter_descriptor = e.adapter_descriptor

Without(e) == {d \in entries : ~SameProtocol(d, e)}

Init ==
  /\ entries = {}
  /\ call = [p \in Client \cup Registrar |-> Idle]

Call(p, req) ==
  /\ call[p] = Idle
  /\ call' = [call EXCEPT ![p] = Pending(req)]
  /\ UNCHANGED entries

(* The one moment a request takes effect and its answer is decided.        *)
List(p) ==
  /\ call[p] = Pending(ListRequest)
  /\ call' = [call EXCEPT ![p] = Listed(entries)]
  /\ UNCHANGED entries

Add(p, e) ==
  /\ call[p] = Pending(AddRequest(e))
  /\ call' = [call EXCEPT ![p] = Acknowledged]
  /\ entries' = Without(e) \cup {e}

Remove(p, e) ==
  /\ call[p] = Pending(RemoveRequest(e))
  /\ call' = [call EXCEPT ![p] = Acknowledged]
  /\ entries' = Without(e)

Refuse(p) ==
  /\ call[p] = Pending(UnknownRequest)
  /\ call' = [call EXCEPT ![p] = Refused]
  /\ UNCHANGED entries

Return(p) ==
  /\ Answered(p)
  /\ call' = [call EXCEPT ![p] = Idle]
  /\ UNCHANGED entries

(* A client that gave up never gets an answer again.                       *)
GiveUp(c) ==
  /\ call[c].at = "pending" \/ Answered(c)
  /\ call' = [call EXCEPT ![c] = Lost]
  /\ UNCHANGED entries

(* The owner adds without a request.                                       *)
AddDirectly(e) ==
  /\ entries' = Without(e) \cup {e}
  /\ UNCHANGED call

Next ==
  \/ \E c \in Client : Call(c, ListRequest) \/ List(c) \/ Return(c) \/ GiveUp(c)
  \/ \E r \in Registrar :
       \/ Call(r, UnknownRequest) \/ Refuse(r) \/ Return(r)
       \/ \E e \in Entry :
            Call(r, AddRequest(e)) \/ Call(r, RemoveRequest(e)) \/ Add(r, e) \/ Remove(r, e)
  \/ \E e \in Entry : AddDirectly(e)

Spec == Init /\ [][Next]_<<entries, call>>
=============================================================================
