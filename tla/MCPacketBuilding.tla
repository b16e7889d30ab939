-------------------------- MODULE MCPacketBuilding --------------------------
(***************************************************************************)
(* PacketBuilding for TLC, with all kinds of templates in one run: some are*)
(* fed every stream of single bytes, some are given packets, and of some a *)
(* sender builds the packets.                                              *)
(***************************************************************************)
EXTENDS MCDissectorFeed, PacketBuilding

(* A field of make, and one that withValue gave a value of another length. *)
Made(n, s)      == [Plain(n, s) EXCEPT !.value = [k \in 1 .. s |-> 0]]
Valued(n, s, v) == [Plain(n, s) EXCEPT !.value = v]

(* Built by the sender: a fixed packet with a number of two bytes and a    *)
(* field that has no value yet, data with a length, data and check sum that*)
(* may be missing, the latter with a value too short, and a header.        *)
BuiltFixed == << Made("a", 2), Plain("b", 1) >>
BuiltCRC ==
  << Decides(Sizes(Made("a", 1), "b", 0), "c"), Made("b", 0), Valued("c", 2, <<1>>) >>
BuiltHeaded == << Header("d", <<1, 2>>), Sizes(Made("a", 1), "b", 1), Made("b", 0) >>
BuiltTemplates == {BuiltFixed, BuiltCRC, BuiltHeaded}

Int32(n) == <<n, 0, 0, 0>>

MCNumbersFor(t, n) ==
  CASE n = "a" -> {Int32(k) : k \in Byte}
    [] n = "c" -> {Int32(2)}
    [] OTHER   -> IF t = BuiltCRC THEN {Int32(1)} ELSE {<<2>>}

MCBytesFor(t, n) == IF n = "b" THEN {<<1>>, <<2, 0>>} ELSE {}

(* What else comes: bytes between packets that no header can be made of,   *)
(* and packets of no sender.                                               *)
MCChunksOf(t) ==
  CASE t = BuiltHeaded -> {<<1>>, <<0, 1>>}
    [] t \in PacketTemplates -> WholePackets(t)
    [] OTHER -> {}

MCDirectOf(t) == IF t \in AllTemplates THEN Byte ELSE {}

StreamTemplates == AllTemplates \cup PacketTemplates \cup BuiltTemplates

(* What the theorems suppose of owners and senders is so here.             *)
ASSUME ShortValues /\ OneWayIn /\ OnlyNoise
=============================================================================
