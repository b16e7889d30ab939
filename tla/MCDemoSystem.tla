----------------------------- MODULE MCDemoSystem -----------------------------
(***************************************************************************)
(* DemoSystem for TLC.  The entry that the demo server registers has the   *)
(* wildcard of the endpoint it binds; another names the host instead.      *)
(***************************************************************************)
EXTENDS DemoSystem

CAN == <<67>>
USB == <<85>>

MCHeaderOf(p) == [protocol_name |-> CAN, source |-> CAN \o USB]
MCFrameOf(name) == "CAN"

DemoEntry ==
  [protocol_name |-> CAN, adapter_descriptor |-> USB \o CAN,
   publisher_endpoint |-> "tcp://127.0.0.1:41000", command_endpoint |-> "tcp://*:41001"]
HostEntry == [DemoEntry EXCEPT !.command_endpoint = "tcp://127.0.0.1:41001"]

AnyEntry == {DemoEntry, HostEntry}
OnlyDemoEntry == {DemoEntry}
=============================================================================
