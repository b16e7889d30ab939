------------------------- MODULE MCProtocolDirectory -------------------------
(***************************************************************************)
(* ProtocolDirectory for TLC: two protocols of one name, the first without *)
(* an adapter, and the second at two endpoints, so that an add may insert, *)
(* reorder or replace, and a remove may match one of two.                  *)
(***************************************************************************)
EXTENDS ProtocolDirectory

DirectoryEntry(name, adapter, endpoint) ==
  [protocol_name |-> name, adapter_descriptor |-> adapter, endpoint |-> endpoint]

Can   == DirectoryEntry(<<"a">>, <<>>, 1)
CanUsb   == DirectoryEntry(<<"a">>, <<"b">>, 1)
CanUsbMoved == DirectoryEntry(<<"a">>, <<"b">>, 2)

MCEntry == {Can, CanUsb, CanUsbMoved}
MCOneEntry == {CanUsb}
=============================================================================
