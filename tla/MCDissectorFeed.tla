-------------------------- MODULE MCDissectorFeed --------------------------
(***************************************************************************)
(* Instances of DissectorFeed.  The owner feeds single bytes, whole packets*)
(* (a ZeroMQ message each, as the tests and the applications do), or spans *)
(* that do not end with a packet.                                          *)
(***************************************************************************)
EXTENDS MCGenericDissector, DissectorFeed

Lengths(n) == [1 .. n -> Byte]
NoBytes(t) == {}

Fixed == << Plain("a", 1), Plain("b", 0), Plain("c", 2) >>
Dependent == << Sizes(Plain("a", 1), "b", 0), Plain("b", 0), Plain("c", 1) >>
Headed == << Header("a", <<1, 2>>), Sizes(Plain("b", 1), "c", 0), Plain("c", 0) >>
FixedHeaded == << Header("a", <<1, 2>>), Plain("b", 1) >>

(* One packet in every span; before a header there may be noise.           *)
PacketTemplates == {Fixed, Headed}
WholePackets(t) ==
  IF t = Fixed THEN Lengths(3)
  ELSE {noise \o <<1, 2, n>> \o data : noise \in {<<>>, <<1>>, <<2, 0>>},
                                       n \in {1}, data \in Lengths(1)}
       \cup {<<1, 2, 0>>}

(* Two packets of the same template in one span.                           *)
DependentTemplates == {Dependent}
TwoPackets(t) == {<<0, 1, 0, 1>>, <<1, 2, 1, 0, 2>>}

(* Packets of the right length, headers right and wrong.                   *)
FixedHeadedTemplates == {FixedHeaded}
AnyHeader(t) == Lengths(3)
=============================================================================
