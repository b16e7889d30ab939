---------------------------- MODULE DissectorFeed ----------------------------
(***************************************************************************)
(* The public face of GenericDissector: addBytes over the state machine of *)
(* addByte, and matchesHeader.  The owner hands over chunks of bytes, one  *)
(* call after the other.  What was handed over and what came back is kept  *)
(* as history, to compare it with PacketFraming.                           *)
(***************************************************************************)
EXTENDS GenericDissector, SequencesExt

CONSTANTS
  ChunksOf(_),  \* the spans the owner passes to addBytes, by template
  DirectOf(_),  \* the bytes the owner passes to addByte itself, by template
  MaxFed        \* bound on the bytes handed over

ASSUME FeedAssumption ==
  \A t \in Templates : ChunksOf(t) \subseteq Seq(Byte) /\ DirectOf(t) \subseteq Byte

VARIABLES
  span,     \* bytes of the addBytes call under way that are still to be fed
  fed,      \* history: every byte handed over
  taken,    \* history: those of them that a packet was built from, or may be
  packets   \* history: every packet returned, from position to bytes

feedVars == <<template, cur, buffer, result, span, fed, taken, packets>>

FeedInit == Init /\ span = <<>> /\ fed = <<>> /\ taken = <<>> /\ packets = <<>>

(* isFixedSize: no field has a callback or a rule.                         *)
IsFixedSize(t) ==
  \A i \in DOMAIN t : /\ t[i].sizer = NoSizer
                      /\ t[i].determinesSizeOf = NoName
                      /\ t[i].sizeDeterminesExistenceOf = NoName

(* Where the fields end: current_data_index of addBytes after each.        *)
SizesOf(t) == [i \in DOMAIN t |-> t[i].size]

Ends(size) ==
  LET end[i \in 0 .. Len(size)] == IF i = 0 THEN 0 ELSE end[i - 1] + size[i] IN end

(* MUTANT: the slice ends one byte early.                                  *)
Slice_OffByOne(t, bytes, i) ==
  SubSeq(bytes, Ends(SizesOf(t))[i - 1] + 1, Ends(SizesOf(t))[i] - 1)

(* The slice of the span a field of a fixed packet is read from.           *)
Slice(t, bytes, i) ==
  SubSeq(bytes, Ends(SizesOf(t))[i - 1] + 1, Ends(SizesOf(t))[i])

(* MUTANT: the length is compared and the bytes are not.                   *)
MatchesHeader_Length(t, header) ==
  /\ Len(header) >= t[1].size
  /\ t[1].isHeaderValue

(* matchesHeader: the bytes begin with the header the template begins with.*)
MatchesHeader(t, header) ==
  /\ Len(header) >= t[1].size
  /\ t[1].isHeaderValue
  /\ SubSeq(header, 1, t[1].size) = t[1].value

CurrentPacket == [i \in cur'.done |-> cur'.value[i]]

-----------------------------------------------------------------------------
(* addBytes.                                                               *)

FixedSize(t) == Ends(SizesOf(t))[Len(t)]

(* A packet of fixed fields is sliced in one go: stack and buffer are not  *)
(* looked at, headers are not compared and the rest of the span is left.   *)
(* Reading past the end of the span is undefined: no step.                 *)
AddFixed(bytes) ==
  /\ span = <<>>
  /\ IsFixedSize(template)
  /\ FixedSize(template) <= Len(bytes)
  /\ fed' = fed \o bytes
  /\ taken' = taken \o SubSeq(bytes, 1, FixedSize(template))
  /\ packets' = Append(packets, [i \in DOMAIN template |-> Slice(template, bytes, i)])
  /\ UNCHANGED <<vars, span>>

(* Any other packet is fed byte by byte.                                   *)
BeginSpan(bytes) ==
  /\ span = <<>>
  /\ ~IsFixedSize(template)
  /\ span' = bytes
  /\ UNCHANGED <<vars, fed, taken, packets>>

(* The loop ends with the packet, or the exception, of a byte: what the    *)
(* span had behind it is dropped.                                          *)
FeedByte ==
  /\ span # <<>>
  /\ AddByte(Head(span))
  /\ IF result' = "none"
     THEN span' = Tail(span) /\ fed' = Append(fed, Head(span))
     ELSE span' = <<>> /\ fed' = fed \o span
  /\ taken' = Append(taken, Head(span))
  /\ packets' = IF result' = "packet" THEN Append(packets, CurrentPacket) ELSE packets

(* addByte called by the owner itself, as the tests do.                    *)
AddOneByte(b) ==
  /\ span = <<>>
  /\ AddByte(b)
  /\ fed' = Append(fed, b)
  /\ taken' = Append(taken, b)
  /\ packets' = IF result' = "packet" THEN Append(packets, CurrentPacket) ELSE packets
  /\ UNCHANGED span

FeedNext ==
  \/ \E b \in DirectOf(template) : Len(fed) < MaxFed /\ AddOneByte(b)
  \/ \E bytes \in ChunksOf(template) : Len(fed) + Len(bytes) <= MaxFed
                           /\ (AddFixed(bytes) \/ BeginSpan(bytes))
  \/ FeedByte

FeedSpec == FeedInit /\ [][FeedNext]_feedVars

-----------------------------------------------------------------------------
(* Properties.                                                             *)

(* What PacketFraming is shown: nothing of a template that makes no sense. *)
Framing == INSTANCE PacketFraming WITH
  stream  <- IF WellFormed(template) THEN taken ELSE <<>>,
  packets <- IF WellFormed(template) THEN packets ELSE <<>>

(* With a well-formed template the dissector frames the bytes it takes as  *)
(* PacketFraming does: the same fields, of the same bytes, the moment they *)
(* are there, and the state one packet leaves behind does not show in the  *)
(* next (addByte, and the fast path of addBytes).                          *)
FramingSpec == Framing!Spec

(* Between calls, the packets addBytes has returned are those of the bytes *)
(* it was given.                                                           *)
PacketsOfStream == span = <<>> => packets = Framing!PacketsOf(template, fed)
=============================================================================
