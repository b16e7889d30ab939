------------------------- MODULE MCPacketInterpreter -------------------------
(***************************************************************************)
(* PacketInterpreter for TLC: a named interpreter and one that has kept    *)
(* the default name, fields a and ab, the first in the one read as the     *)
(* second in the other; a field of two bytes and one of none.              *)
(***************************************************************************)
EXTENDS PacketInterpreter

A  == <<1>>
AB == <<1, 2>>

MCFieldName == {A, AB}
MCNameOf(i) == IF i = "named" THEN <<2>> ELSE <<>>
MCUnsupported == <<85>>

(* A mapper that gives a value two names.                                  *)
MCMap(m, x) == <<[name |-> A, value |-> x], [name |-> AB, value |-> x]>>

ALeaf(n, type, mapper) == [name |-> n, type |-> type, mapper |-> mapper]

MCInterpretations ==
  { [name |-> A, leaves |-> <<ALeaf(AB, "BOOL", NoMapper), ALeaf(A, "INTEGER", "split")>>],
    [name |-> AB, leaves |-> <<ALeaf(AB, "BOOL", NoMapper)>>] }

MCPackets == {<<[name |-> AB, value |-> <<>>], [name |-> A, value |-> <<2, 128>>]>>}

(* Both warn, which they do in the other's way; one throws.                *)
MCBehaviors(i) ==
  IF i = "named" THEN Reporting \cup {"EMPTY_STRING"}
                 ELSE {"SKIP", "SKIP_AND_WARN_ONCE", "DASH", "CALL_BACK"}
=============================================================================
