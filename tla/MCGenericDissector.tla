------------------------- MODULE MCGenericDissector -------------------------
(***************************************************************************)
(* Instances of GenericDissector: the templates and the size callbacks of  *)
(* ProtocolDissectorTests.cpp, cut down to a few bytes, and combinations   *)
(* of rules that no test has.                                              *)
(***************************************************************************)
EXTENDS GenericDissector

CONSTANTS
  MaxBuffer,     \* the most bytes the callbacks are tried with
  NulTerminated  \* the callback that looks for a terminator, a member of Sizer

Plain(n, s) ==
  [name |-> n, size |-> s, value |-> <<>>, determinesSizeOf |-> NoName,
   sizeDeterminesExistenceOf |-> NoName, isHeaderValue |-> FALSE,
   sizeOffset |-> 0, sizer |-> NoSizer]

Header(n, v)    == [Plain(n, Len(v)) EXCEPT !.value = v, !.isHeaderValue = TRUE]
Sized(n, s, c)  == [Plain(n, s) EXCEPT !.sizer = c]
Sizes(f, n, o)  == [f EXCEPT !.determinesSizeOf = n, !.sizeOffset = o]
Decides(f, n)   == [f EXCEPT !.sizeDeterminesExistenceOf = n]

(* ProtocolDissectorTests.cpp:79-83 (the first byte is the length, itself  *)
(* included) and :104-117 (up to and with the first zero).                 *)
MCSizeCalc(s, bytes) ==
  IF s = NulTerminated
  THEN LET zeros == {k \in DOMAIN bytes : bytes[k] = 0} IN
       IF zeros = {} THEN [more |-> TRUE, size |-> 0, consumed |-> 0]
       ELSE [more |-> FALSE, size |-> Min(zeros), consumed |-> 0]
  ELSE [more |-> FALSE, size |-> (bytes[1] - 1) % 65536, consumed |-> 1]

LegalTemplates == {
  \* DependentSizePacket: a length, the data it measures, a fixed tail
  << Sizes(Plain("a", 1), "b", 0), Plain("b", 0), Plain("c", 1) >>,
  \* DependentSizeWithCRCPacket: no data, no check sum
  << Decides(Sizes(Plain("a", 1), "b", 0), "c"), Plain("b", 0), Plain("c", 1) >>,
  \* a header that overlaps itself, then data with one byte more than told
  << Header("a", <<1, 1, 2>>), Sizes(Plain("b", 1), "c", 1), Plain("c", 0) >>,
  \* a header in the middle, after a field that measures what follows it
  << Sizes(Plain("a", 1), "c", -1), Header("b", <<1, 2>>), Plain("c", 0) >>,
  \* two lengths for one field, the second of them removable
  << Sizes(Plain("a", 1), "d", 0), Decides(Plain("b", 1), "c"),
     Sizes(Plain("c", 1), "d", 1), Plain("d", 1) >>,
  \* a leading empty field, a two-byte length, two empty fields in a row
  << Plain("a", 0), Sizes(Plain("b", 2), "d", -1), Plain("c", 0), Plain("d", 0),
     Plain("e", 1) >>,
  \* one field that sizes and removes the same other
  << Decides(Sizes(Plain("a", 1), "b", 0), "b"), Plain("b", 0), Plain("c", 1),
     Decides(Plain("d", 1), "e"), Plain("e", 1) >>,
  \* a field that may vanish and had announced a size before
  << Decides(Plain("a", 1), "b"), Sizes(Decides(Plain("b", 1), "c"), "d", 0),
     Plain("c", 1), Plain("d", 1) >>,
  \* a removal and, behind it, a length
  << Decides(Plain("a", 1), "b"), Plain("b", 1), Sizes(Plain("c", 1), "d", 0),
     Plain("d", 0) >>,
  \* the two callbacks, one after the other
  << Plain("a", 1), Sized("b", 1, "lengthFirst"), Sized("c", 1, NulTerminated) >> }

(* Templates whose rules cannot be carried out.                            *)
IllegalTemplates == {
  << Sizes(Plain("a", 1), "x", 0), Plain("b", 1) >>,
  << Plain("b", 1), Sizes(Plain("a", 1), "b", 0), Plain("c", 1) >>,
  << Decides(Plain("a", 3), "b"), Plain("b", 1) >>,
  << Decides(Plain("a", 1), "c"), Decides(Plain("b", 1), "c"), Plain("c", 1) >>,
  << Sizes(Plain("a", 1), "b", 0), Sizes(Plain("b", 1), "c", 0), Plain("c", 0) >>,
  << Sizes(Plain("a", 1), "b", -2), Plain("b", 1), Plain("b", 2) >>,
  << Plain("a", 1), Sizes(Plain("a", 2), "c", 0), Plain("b", 0), Plain("c", 1) >>,
  << Plain("a", 0), Plain("b", 0), Plain("c", 1), Plain("d", 2) >> }

AllTemplates == LegalTemplates \cup IllegalTemplates

ASSUME \A t \in LegalTemplates :
  /\ WellFormed(t)
  /\ SizerContract(t, UNION {[1 .. n -> Byte] : n \in 0 .. MaxBuffer})
ASSUME \A t \in IllegalTemplates : ~WellFormed(t)
=============================================================================
