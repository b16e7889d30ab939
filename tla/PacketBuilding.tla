---------------------------- MODULE PacketBuilding ----------------------------
(***************************************************************************)
(* Both ends of a stream of packets.  A sender fills in the fields of a    *)
(* PacketDescriptor and writes them to a buffer (PacketHelper.hpp); the    *)
(* receiver passes every buffer to addBytes of a dissector that was made   *)
(* from the same descriptor.                                               *)
(*                                                                         *)
(* Sender and receiver share nothing but the buffer: the sender acts       *)
(* between two calls of addBytes, which loses no outcome.  A call that     *)
(* throws (an unknown field, a number too narrow, bytes of another length) *)
(* leaves the descriptor as it was and is no step.                         *)
(***************************************************************************)
EXTENDS DissectorFeed, Numbers

CONSTANTS
  Built,            \* templates that the sender builds packets of
  NumbersFor(_, _), \* numbers it sets in the field of a name, as objects
  BytesFor(_, _),   \* bytes it sets there
  MaxSent           \* bound on the packets it sends

VARIABLES
  draft,  \* the PacketDescriptor of the sender: size and value of each field
  sent    \* history: every packet written, from position to bytes

buildVars == <<feedVars, draft, sent>>

ASSUME BuiltAssumption ==
  /\ Built \subseteq Templates
  /\ \A t \in Built : \A n \in FieldName :
       NumbersFor(t, n) \subseteq Object \cap Seq(Byte) /\ BytesFor(t, n) \subseteq Seq(Byte)

(* A copy of the descriptor as it was made.  Size and value need not fit:  *)
(* make fills a field with zeros, but an aggregate without a value has     *)
(* none, and withValue takes any number of bytes.                          *)
NewDraft(t) ==
  [size |-> [i \in DOMAIN t |-> t[i].size], value |-> [i \in DOMAIN t |-> t[i].value]]

BuildInit == FeedInit /\ draft = NewDraft(template) /\ sent = <<>>

-----------------------------------------------------------------------------
(* The buffer.                                                             *)

(* The one field the rules of getFieldInStack and get find by this name.   *)
Get(n) == Min(Named(template, DOMAIN template, n))

(* What packetDescriptorToBuffer demands of the fields that are not empty. *)
Writable(d) ==
  \A i \in DOMAIN template : d.size[i] # 0 => Len(d.value[i]) = d.size[i]

(* The fields as they are on the wire; swap_endian turns each one round.   *)
OnWire(d, swap) ==
  [i \in DOMAIN template |->
     IF d.size[i] = 0 THEN <<>> ELSE IF swap THEN Reverse(d.value[i]) ELSE d.value[i]]

(* MUTANT: the fields are written in the order of the stack, last first.   *)
PacketDataToBuffer_Stack(p) ==
  FlattenSeq(Reverse([i \in DOMAIN template |-> IF i \in DOMAIN p THEN p[i] ELSE <<>>]))

(* packetDataToBuffer, of a packet that may lack fields.                   *)
PacketDataToBuffer(p) ==
  FlattenSeq([i \in DOMAIN template |-> IF i \in DOMAIN p THEN p[i] ELSE <<>>])

(* getPacketSize of a descriptor.                                          *)
PacketSize(d) == Ends(d.size)[Len(d.size)]

-----------------------------------------------------------------------------
(* The sender.                                                             *)

(* set, with a number: the field has its size and takes as many bytes.     *)
SetNumber(n, number) ==
  /\ Named(template, DOMAIN template, n) # {}
  /\ draft.size[Get(n)] <= Len(number)
  /\ draft' = [draft EXCEPT !.value[Get(n)] = ToBytes(number, draft.size[Get(n)])]
  /\ UNCHANGED <<feedVars, sent>>

(* MUTANT: the size is left as it is.                                      *)
SetBytes_KeepsSize(n, bytes) ==
  /\ Named(template, DOMAIN template, n) # {}
  /\ draft.size[Get(n)] \in {0, Len(bytes)}
  /\ draft' = [draft EXCEPT !.value[Get(n)] = bytes]
  /\ UNCHANGED <<feedVars, sent>>

(* set, with bytes: an empty field takes any number and has their size.    *)
SetBytes(n, bytes) ==
  /\ Named(template, DOMAIN template, n) # {}
  /\ draft.size[Get(n)] \in {0, Len(bytes)}
  /\ draft' = [draft EXCEPT !.value[Get(n)] = bytes,
                            !.size[Get(n)] = ToUInt16(Len(bytes))]
  /\ UNCHANGED <<feedVars, sent>>

(* The sender takes a new copy: a size once set can only be used again.    *)
Renew ==
  /\ draft' = NewDraft(template)
  /\ UNCHANGED <<feedVars, sent>>

(* The buffer of a packet goes to addBytes.                                *)
Hand(p) ==
  LET bytes == PacketDataToBuffer(p) IN
  /\ Len(fed) + Len(bytes) <= MaxFed
  /\ AddFixed(bytes) \/ BeginSpan(bytes)
  /\ sent' = Append(sent, p)
  /\ UNCHANGED draft

(* packetDescriptorToBuffer, and the buffer to addBytes.                   *)
Send(swap) == Writable(draft) /\ Hand(OnWire(draft, swap))

(* packetDescriptorToBufferExcluding: one field is left out, and nothing is*)
(* checked.                                                                *)
SendExcluding(n) ==
  /\ Named(template, DOMAIN template, n) # {}
  /\ Hand([i \in DOMAIN template \ Named(template, DOMAIN template, n) |->
             OnWire(draft, FALSE)[i]])

SenderStep ==
  \/ \E n \in FieldName : \/ \E x \in NumbersFor(template, n) : SetNumber(n, x)
                          \/ \E v \in BytesFor(template, n) : SetBytes(n, v)
                          \/ SendExcluding(n)
  \/ Renew
  \/ \E swap \in BOOLEAN : Send(swap)

BuildNext ==
  \/ FeedNext /\ UNCHANGED <<draft, sent>>
  \/ span = <<>> /\ template \in Built /\ Len(sent) < MaxSent /\ SenderStep

BuildSpec == BuildInit /\ [][BuildNext]_buildVars

-----------------------------------------------------------------------------
(* Properties.                                                             *)

(* A packet that keeps the rules of its template: it has the fields that   *)
(* are not announced to be missing, and each has the announced length.     *)
(* Nothing in the code demands it of a sender.                             *)
Agrees(t, p) ==
  /\ \A i \in DOMAIN t :
       i \in DOMAIN p <=> ~ \E k \in DOMAIN p : Removes(t, k, i) /\ Zero(p[k])
  /\ \A i \in DOMAIN p :
       /\ t[i].isHeaderValue => p[i] = t[i].value
       /\ Asked(t, [done |-> DOMAIN p, value |-> p], i, Len(p[i]))

AllAgree == \A k \in DOMAIN sent : Agrees(template, sent[k])

(* Of the packets sent, those before the first that breaks the rules are   *)
(* what the receiver is given, field by field, in their order: the sizes   *)
(* that set leaves in the descriptor, the fields that are skipped or left  *)
(* out and the bytes of numbers are what the dissector makes of them (set, *)
(* packetDescriptorToBuffer, addBytes).                                    *)
RoundTrip ==
  span = <<>> /\ WellFormed(template) =>
    \A n \in DOMAIN sent :
      (\A k \in 1 .. n : Agrees(template, sent[k])) =>
        SubSeq(packets, 1, n) = SubSeq(sent, 1, n)

AsMade(i) == draft.size[i] = template[i].size /\ draft.value[i] = template[i].value

(* packetDescriptorToBuffer throws for no other fields than those made with*)
(* a value that is not as long as their size, and not set since.  With none*)
(* of these, however the fields were set and in a descriptor that was used *)
(* before, every value set is written, and the buffer is as long as        *)
(* getPacketSize says (set, PacketHelper.hpp).                             *)
DraftWritable ==
  (\A i \in DOMAIN template : AsMade(i) => Len(draft.value[i]) = draft.size[i]) =>
    /\ Writable(draft)
    /\ PacketDataToBuffer(OnWire(draft, FALSE)) = PacketDataToBuffer(draft.value)
    /\ Len(PacketDataToBuffer(draft.value)) = PacketSize(draft)

(* What was read and not yet returned.                                     *)
Unfinished ==
  IF cur.stack = {} THEN <<>>
  ELSE PacketDataToBuffer([i \in cur.done |-> cur.value[i]]) \o buffer

Conserved(bytes) ==
  FlattenSeq([k \in DOMAIN packets |-> PacketDataToBuffer(packets[k])]) \o Unfinished = bytes

NoHeaders == \A i \in DOMAIN template : ~template[i].isHeaderValue
NoSizers  == \A i \in DOMAIN template : template[i].sizer = NoSizer

(* Every byte taken from a stream without headers to look for and without  *)
(* callbacks is in one field of one packet, or will be: packetDataToBuffer *)
(* makes the stream again of the packets, none lost, none twice (addByte,  *)
(* and the slices of addBytes).                                            *)
TakenConserved == WellFormed(template) /\ NoHeaders /\ NoSizers => Conserved(taken)

(* If the packets keep the rules, addBytes drops none of the bytes either. *)
BytesConserved == WellFormed(template) /\ NoHeaders /\ NoSizers /\ AllAgree => Conserved(fed)

(* Of a stream matchesHeader says yes to, the dissector skips no byte of   *)
(* the first packet: every one is in a field or in the buffer.             *)
HeaderAccepted ==
  /\ WellFormed(template) /\ NoSizers
  /\ \A i \in DOMAIN template : template[i].isHeaderValue => i = 1
  /\ MatchesHeader(template, fed)
  /\ packets = <<>> /\ cur.stack # {}
  => Unfinished = fed

-----------------------------------------------------------------------------
(* What owners and senders keep to, where a property depends on it. Nothing*)
(* in the code makes them.                                                 *)

(* set narrows the length of a vector to the sixteen bits of a size.       *)
ShortValues ==
  \A t \in Built : \A n \in FieldName : \A v \in BytesFor(t, n) : Len(v) <= 65535

(* Packets of fixed fields are for addByte, or for addBytes, not for both. *)
OneWayIn ==
  \A t \in Templates :
    IsFixedSize(t) /\ DirectOf(t) # {} => ChunksOf(t) = {} /\ t \notin Built

Sizerless(t) == \A i \in DOMAIN t : t[i].sizer = NoSizer

(* No byte of a header can be taken for the end of another one, nor can a  *)
(* byte of bytes: the last byte of the first header is in neither.         *)
Foreign(t, bytes) ==
  LET h == t[1].value IN
  /\ t[1].isHeaderValue
  /\ \A k \in 1 .. Len(bytes) : bytes[k] # h[Len(h)]
  /\ \A k \in 1 .. Len(h) - 1 : h[k] # h[Len(h)]

(* What else comes down a stream that packets are sent on: bytes that are  *)
(* not of a header, and none at all if a header is not looked for.         *)
OnlyNoise ==
  \A t \in Built : WellFormed(t) =>
    /\ Sizerless(t)
    /\ \A b \in DirectOf(t) : ~IsFixedSize(t) /\ Foreign(t, << b >>)
    /\ \A c \in ChunksOf(t) : ~IsFixedSize(t) /\ Foreign(t, c)
=============================================================================
