---------------------------- MODULE PacketFraming ----------------------------
(***************************************************************************)
(* What a dissector promises of a byte stream, as one who holds the whole  *)
(* stream would say it: where each field of each packet begins and ends.   *)
(* No stack, no buffer and no state between bytes.  DissectorFeed shows    *)
(* that GenericDissector implements it.                                    *)
(***************************************************************************)
EXTENDS Integers, Sequences, FiniteSetsExt

CONSTANTS NoName, NoSizer, SizeCalc(_, _)

VARIABLES
  template,  \* the packet template
  stream,    \* every byte received
  packets    \* every packet found, a function from field position to bytes

(* Little-endian, cut to the two bytes a size has.                         *)
Number(v) == v[1] + (IF Len(v) > 1 THEN 256 * v[2] ELSE 0)

(* Where field i lies in bytes, as {<<bytes before it, its length>>}; {}   *)
(* while that cannot be told.  A header is looked for, a callback is asked *)
(* about the shortest run of bytes it is willing to judge.                 *)
Extent(t, i, size, bytes) ==
  IF t[i].isHeaderValue THEN
    LET at == {k \in 0 .. Len(bytes) - size :
                 SubSeq(bytes, k + 1, k + size) = t[i].value}
    IN  IF at = {} THEN {} ELSE {<<Min(at), size>>}
  ELSE IF t[i].sizer # NoSizer THEN
    LET told == {k \in 1 .. Len(bytes) :
                   k >= size /\ ~SizeCalc(t[i].sizer, SubSeq(bytes, 1, k)).more}
        r == SizeCalc(t[i].sizer, SubSeq(bytes, 1, Min(told)))
    IN  IF told = {} THEN {} ELSE {<<r.consumed, r.size>>}
  ELSE {<<0, size>>}

(* The fields a rule that names n is about.                                *)
Called(t, n) == {j \in DOMAIN t : n # NoName /\ t[j].name = n}

(* What field i is taken from, what it makes of the sizes of the others,   *)
(* and which of them it removes.                                           *)
Bytes(known, at, length) == SubSeq(known.rest, at + 1, at + length)

Sized(t, size, i, value) ==
  [j \in DOMAIN t |-> IF j \in Called(t, t[i].determinesSizeOf)
                      THEN (Number(value) + t[i].sizeOffset) % 65536
                      ELSE size[j]]

Removed(t, i, value) ==
  IF \A k \in DOMAIN value : value[k] = 0
  THEN Called(t, t[i].sizeDeterminesExistenceOf) ELSE {}

With(fields, i, value) ==
  [j \in DOMAIN fields \cup {i} |-> IF j = i THEN value ELSE fields[j]]

(* What is known after field i, found behind the first `at' of the rest.   *)
Past(t, known, i, at, length) ==
  [fields |-> With(known.fields, i, Bytes(known, at, length)),
   size   |-> Sized(t, known.size, i, Bytes(known, at, length)),
   gone   |-> known.gone \cup Removed(t, i, Bytes(known, at, length)),
   rest   |-> SubSeq(known.rest, at + length + 1, Len(known.rest))]

(* One field further: what is known after fields 1 .. i-1 of a packet goes *)
(* to what is known after i, if the bytes of field i are there.            *)
ReadField(t, known, i) ==
  IF i \in known.gone THEN {known}
  ELSE {Past(t, known, i, e[1], e[2]) :
          e \in {x \in Extent(t, i, known.size[i], known.rest) :
                   x[1] + x[2] <= Len(known.rest)}}

Unread(t, bytes) ==
  [fields |-> [i \in {} |-> <<>>], size |-> [i \in DOMAIN t |-> t[i].size],
   gone |-> {}, rest |-> bytes]

(* What is known of the first packet of bytes after each field, {} where   *)
(* the bytes do not reach.                                                 *)
ReadUpTo(t, bytes) ==
  LET known[i \in 0 .. Len(t)] ==
        IF i = 0 THEN {Unread(t, bytes)}
        ELSE UNION {ReadField(t, k, i) : k \in known[i - 1]}
  IN  known

(* The first packet of bytes: {} while it is not complete.                 *)
Read(t, bytes) == ReadUpTo(t, bytes)[Len(t)]

(* A packet ends with the first byte that completes it.                    *)
AfterByte(t, so, b) ==
  LET open  == Append(so.open, b)
      first == Read(t, open)
  IN  IF first = {} THEN [open |-> open, packets |-> so.packets]
      ELSE [open |-> <<>>,
            packets |-> Append(so.packets, (CHOOSE x \in first : TRUE).fields)]

(* The packets found after each byte, and the bytes that are in none yet.  *)
Found(t, bytes) ==
  LET so[n \in 0 .. Len(bytes)] ==
        IF n = 0 THEN [open |-> <<>>, packets |-> <<>>]
        ELSE AfterByte(t, so[n - 1], bytes[n])
  IN  so

(* All packets of a stream, in order.                                      *)
PacketsOf(t, bytes) == Found(t, bytes)[Len(bytes)].packets

Init == stream = <<>> /\ packets = <<>>

Receive(bytes) ==
  /\ stream' = stream \o bytes
  /\ packets' = PacketsOf(template, stream')
  /\ UNCHANGED template

(* Some bytes come in, one or more; \E bytes \in Seq(Byte) : Receive(bytes). *)
Next ==
  /\ Len(stream') > Len(stream)
  /\ Receive(SubSeq(stream', Len(stream) + 1, Len(stream')))

Spec == Init /\ [][Next]_<<template, stream, packets>>
=============================================================================
