# A verification project for protoTools

protoTools is a small C++ library for byte-oriented protocols. One half cuts
byte streams into packets and interprets their fields (`libs/protos`); the
other half carries packages, commands and a directory of protocols between
processes over ZeroMQ (`libs/services`). The applications under `apps/` put the
two together. This directory holds TLA+ models of both halves, the TLC
configurations that check them on small instances, and TLAPS proofs of the
results that hold for all instances. `PROJECT.json` lists components, runs, the
line of code each definition stands for, hazards, theorems and disagreements
between code and documentation.

## Inventory

| Component | State it keeps | Operations | What is hard | What makes it correct |
|---|---|---|---|---|
| Packet dissector, `GenericDissector::addByte` | stack of the fields still expected (sizes and callbacks change as a packet is read), packet under construction, buffer | `addByte`, `newPacket`; size rules, existence rules, header search | rules of one field rewrite later ones; exceptions leave partial effects; `==` on the buffer length | packets are where the stream says; a sensible template never throws or wedges; one packet leaves nothing to the next |
| Feeding it, `addBytes`, `matchesHeader` | none | a fast path for fixed packets, else a loop over `addByte` | two ways in; spans that do not end with a packet | both agree with the framing of the stream |
| Packet interpretation, `GenericPacketInterpreter`, `FieldInterpreter`, `utils::once` | interpretations by name, behaviour for missing fields, the process-wide sets of keys | `addField`, `setBehaviors`, `interpretPacketData` | subfields, widths and signs, exceptions in mid-packet, sets shared by all interpreters | every field contributes once and in place; reports are made, and made once |
| Protocol directory server | `_protocols`, `_complete_list_json`, stop source | list, add, remove over REP; `addProtocol`; start, stop | the list is a second copy of the map; a detached thread shares both with the owner | one table; the thread publishes, answers and stops |
| Protocol directory client | last directory, REQ socket, listener | `queryProtocols` with a timeout, `addChangeCallback` | replies after the timeout; the socket is then unusable | what is returned, remembered and told agree |
| Command channel, `ProtocolServer`, `ProtocolCommandServer`, `ProtocolClient::sendCommand` | handler, stop source, detached threads, REQ and REP sockets | set the handler, start a thread, receive, acknowledge, send | peers that go, destruction and restart under running threads | at most once, the reply to its own call, a careful server stays up and answers |
| Package channel, `ProtocolPublisher`, `ProtocolClient::receiveSubscribed`, the proxy | PUB, SUB, XPUB, XSUB sockets, subscriptions | bind, publish, subscribe, receive | late and forgotten subscriptions, full pipes, the header `name\|source` | streams with gaps but without repetition, change or disorder |
| Building packets, `PacketDescriptor`, `PacketHelper`, `BitUtils` | a descriptor with sizes and values | `set`, `get`, write to a buffer, with a field left out or turned round | sizes that change with values and stay when the descriptor is used again | what is written is read back |
| Applications: `main` of demo server and client | the objects, their threads, what a client found | start, query, connect, subscribe, keys | programs start in any order; detached threads run beside `main` | calls come in an order the components bear; who finds a protocol receives it, the keyboard comes back |
| Values as text, serializer, `ProtoUtils`, build files | | | | |

How they interact: the owner of a dissector passes each packet to an
interpreter by a call. The directory, the command channel and the package
channel meet in the applications only: a server registers its two endpoints, a
client reads them from the directory and connects. Within a component the
interaction is by shared members and detached threads (directory server,
command threads), callbacks (size callbacks, command handler, change listener,
missing-field callback) and messages.

## Modules

| Module | Content |
|---|---|
| `GenericDissector` | `addByte`, whole |
| `DissectorFeed` | `addBytes` and `matchesHeader` over it |
| `PacketFraming` | abstract: the packets of a stream, told by one who has all of it |
| `Numbers` | numbers as bytes and back: `to_bytes`, `convert` |
| `PacketBuilding` | a sender that fills in descriptors and writes them, over `DissectorFeed` and `Numbers`: both ends of a stream |
| `PacketInterpreter` | interpreters side by side, and `utils::once` |
| `ProtocolDirectory` | server thread, owner, clients, registering programs |
| `DirectoryService` | abstract: one table, each request at one moment |
| `CommandChannel` | owner, threads, sockets, clients |
| `RemoteCall` | abstract: a command handed over once, a reply to it |
| `PackageChannel` | publishers, proxy, clients and the links between them |
| `PackageStreams` | abstract: a stream with gaps for each publisher and client |
| `DemoSystem` | the mains of demo server and client, composed of `ProtocolDirectory`, `CommandChannel` and `PackageChannel` |
| `MC...` | instances for TLC |
| `FlattenProofs` | lemmas about `FlattenSeq`: what it makes of sequences that are empty, extended, filled in or cut from one sequence |
| `...Proofs` | proofs about the module of that name |

`PROJECT.json` ("map") gives the lines of each definition. The definitions
whose names contain an underscore and a word (`SignPad_Int32`) are marked
MUTANT: plausible mistakes, not used by any specification; they are there to
see that a property notices when the definition they resemble is changed.

### GenericDissector, DissectorFeed, PacketFraming

`current_packet_stack` is filled in template order and only loses elements, and
`addByte` changes only the size and the callback of an element. So the model
keeps the positions still on the stack (`cur.stack`), their present `size`, the
positions whose callback is still set (`unsized`), the positions in
`current_packet` (`done`) with their `value`s, and the `buffer`. `result` is how
the last call ended. An action is one call of `addByte`, from `push_back` to
its return or throw:

| Action | End of the call in `GenericDissector.cpp` |
|---|---|
| `AwaitSize` | :52, :59 the callback cannot tell yet |
| `AwaitBytes` | :123 the field is not complete |
| `ResyncHeader` | :81 wrong header, first byte dropped |
| `SizeRuleFails` | throw out of :95 or :96 |
| `ExistenceRuleFails` | throw out of :101 or :103 |
| `CompleteField` | :121, :123 a field is read, rules applied, empty fields drained |

Undefined behaviour (the top of an empty deque, erasing more bytes than there
are) has no step; `NothingUndefined` says that no byte leads there. `WellFormed` says which templates the rules make sense for, and
every property of rules assumes it, for code throws on the others; the only
property of all templates is `InOrder`. `SizerContract` is what a size callback
promises; the two of the tests keep it, and TLC checks that.
`ExistenceHonoured` holds of either reading of the existence rule: code and
test leave a field whose deciding field is zero out of the packet, while the
comments (FieldDescriptor.hpp:38, GenericDissector.cpp:196) say that it stays,
with size 0. The property demands that no byte is read for it, and that it is
there with its value when the deciding field is not zero; which of the two is
meant is for the authors to settle.

`DissectorFeed` is fed in three ways: single bytes to `addByte` (`DirectOf`), or
spans to `addBytes` (`ChunksOf`), which slices fixed packets (`AddFixed`) and
loops over `addByte` for the others (`BeginSpan`, `FeedByte`). It keeps the
bytes handed over (`fed`), those a dissector has looked at (`taken`) and the
packets returned as history. `FramingSpec` says that it implements `PacketFraming` with
`stream <- taken`: `Extent` says where a field lies, `Read` reads a packet field by
field, `PacketsOf` all of them, a packet ending with the first byte that completes
it. Both are recursive functions over numbers, about which TLAPS can reason.
`TakenConserved` says that the packets returned and the one under construction,
written one behind the other, are the bytes taken; `BytesConserved` that they
are all the bytes handed over, if the packets keep their rules.

### PacketBuilding, Numbers

The sender has one descriptor (`draft`: size and value of each field), a copy
of the template as it was made: `make` fills a field with zeros, but an
aggregate without a value has none and `withValue` takes any number of bytes,
so size and value need not fit. `SetNumber` and `SetBytes` are the two overloads
of `set`, `Renew` is a new copy of the descriptor, `Send` and `SendExcluding` write the buffer and pass it to
`addBytes` of a dissector made from the same template. A call that throws leaves
the descriptor as it was and is no step. `RoundTrip` compares what was sent with
what the receiver was given, up to the first packet that breaks the rules of
its own template (`Agrees`): nothing in the code makes `set` change the length
field together with the data it measures, so that is the sender's business.
`DraftWritable` says that the helper's own size check throws for a field that was
made with a value of another length and not set since, and for no other: however
the rest was set, in a descriptor used before, every value set is written, and
the buffer is as long as `getPacketSize` says. `packetFromDescriptor`, which
changes nothing and which nothing calls, is left out.
`HeaderAccepted` compares the two places that look for a header: of a stream that
begins with bytes `matchesHeader` says yes to, `addByte` drops none before the
first packet.

A number is its object: one, two, four or eight bytes, lowest first. `ToBytes` cuts
it to the width of a field, `Integer` and `UnsignedInteger` are what the
interpreter makes of the field (`convert`).

### PacketInterpreter

`interpretPacketData` takes one step per field, because the steps of another
interpreter (one called from a callback, or the next call of the same owner)
share the sets of `once`: one for all warnings and one for all exceptions, since
the set is static in a template that either lambda instantiates. `InterpretField` is the loop of `handleSubFields` over the
leaves of an interpretation, `AsVariant` what `as_variant` may return. A number
is its bytes, widened to eight by `SignPad` or `ZeroPad`. `handleMissingField`
is one action per case of its switch; its callback and the mappers of
interpretations (`MapperThrows`) may throw, which ends the call with what was
reported so far kept in the sets. `DereferenceNull` is what a bool of an empty
field comes to. `told` is history. A callback or a mapper that calls the very
interpreter it was called from is not modelled.

### ProtocolDirectory, DirectoryService

The map is the sequence of its entries in iteration order, the text kept
beside it (`_complete_list_json`) the sequence it was written from. The thread
goes through `check`, `receive`, `handle`, `changed`, `read`, `replaced`; the
owner inside `addProtocol` through `changed` and `read`: between these points
the other may run, since there is no lock. `QueryTimesOut` leaves the socket
with a pending reply, and `QueryThrows` is the next query on it. `LiveAdds`
and `Restarts` say how the owner uses the server. `told` is history: whether the
listener of a client was called since it was added, and with what. One that is
added late is told nothing of what the client remembers already
(`addChangeCallback` stores it and no more), so `ListenerUpToDate` says of it that
it has missed nothing since, and `ListenerCatchesUp` that it ends up with the
directory of the server, or the one it was added to. Requests that
cannot be parsed, or an add or remove without its fields, end the process of the
server from its thread; no peer of the repository sends one, and they are left
out.

`DirectoryService` is one table on which every call takes effect at one moment.
The mapping takes `entries` from the list, since that answers requests, and
each call from the socket of its peer.

### CommandChannel, RemoteCall

Every `startCommandHandler` is a thread with a REP socket: `Bind`, `Receive`,
`BeginHandle`, `EndHandle`, `Acknowledge`, and their failures. `careful` owners
set the handler first, give every thread its own endpoint, have callbacks that
do not throw and never destroy the server (the demo server is one); others do
whatever the class lets them. What is undefined (a `std::function` assigned
while it is called, members used after the destructor) is a choice between
going on and the end of the process. `Restart` starts the process anew,
`Leave` ends a client in the middle of a call.

`RemoteCall` hands a command to the handler at most once and returns to a call
only the reply to it. `CallOf` finds the call of a client in its socket or in
the thread that has its command.

### PackageChannel, PackageStreams

A link is a connection of two sockets, with the topics its sender has learned
(`known`) and the packages its receiver has not read (`pipe`). `Learn` carries a
subscription one hop; the proxy asks its publishers for what it is asked
(`Wanted`). `Publish` puts the message once into every link where a topic is a
prefix of the header frame and the pipe has room. `Text` and `Split` are the
encoding of the header and its reading. `End` takes a node away, with the pipes
it receives from and what was known of its links. What it has sent is still read,
except that the last of it, on the way when the process ended, may not arrive
(`Lost`); it is taken to be read before what the node sends when it is started
again. After `Bind`, `Connect` or `StartProxy` subscriptions travel again.

`PackageStreams` lets packages be lost anywhere but not repeated, changed or
reordered, and lets a client receive only what matches a subscription. In the
mapping the stream of a publisher and a client is what is in the pipe behind
the proxy, then what is before it.

### DemoSystem

The three components are instances over variables of their own, and `main` of the
server is the list of its calls (`Program`) with a program counter; `main` of a
client is a place (`at`) with the rest of the loop it is in (`todo`). Each step
of a program is a conjunct on the program's variables and one action of a
component: the constants of the instances let owners do anything (`LiveAdds`,
`Restarts`, careless owners), so that it is the programs that decide.
`DirectoryUsedWithCare` and `CommandsUsedWithCare` then say that the steps of
the demo server are those of the owners for whom `Coherent` and `StaysAlive`
hold: with them the results proved about the components are results about the
demo server, and both are proved. What a socket can connect to is a constant (`Connectable`), since
the entry of the demo server names its command endpoint by a wildcard, which is
good only for binding; `Bind` connects, `BindThrows` ends the client.

Left out of the composition: proxies, a crash of the server (both are in the
components' own modules), and what the detached receiving thread of a client does
after its `main` has returned.

## Runs

| Run | Instance | Shows |
|---|---|---|
| `streams` | ten well-formed templates and eight that are not fed single bytes; templates given whole packets in spans; three templates whose packets a sender builds, two of them with a field made with a value that does not fit; 3 byte values, streams of 7 bytes | `NoThrow`, `NoOverrun`, `NothingUndefined`, `SizesHonoured`, `ExistenceHonoured`, `HeaderSound` of the well-formed ones, `InOrder` of all; `FramingSpec`; `HeaderAccepted`; `RoundTrip`, `DraftWritable`, `TakenConserved`, `BytesConserved` |
| `interpretation` | two interpreters, two fields, two interpretations | `MeansThePacket`, `ReportedAtMostOnce`, `MissingIsReported` |
| `directory` | a client, a registering program, three entries, restarts | `Coherent`, `ListenerUpToDate`, `ServiceSpec` |
| `directory_serving` | a client, two registering programs, fairness | `PublisherKeptAlive`, `StopEnds`, `RequestsAnswered`, `ListenerCatchesUp` |
| `commands` | two clients that send any number of commands, one endpoint, two handlers, fairness | `StaysAlive`, `CallsSpec`, `CommandsAnswered` |
| `packages` | a publisher behind the proxy and one beside it, a client of both, two contents, fairness | `StreamsSpec`, `KeepsReceiving` |
| `start_up` | the demo server and two clients, started in any order, a key pressed any number of times, fairness | `DirectoryUsedWithCare`, `CommandsUsedWithCare`, `FindsOrGetsNothing`, `FoundIsReceived`, `KeysComeBack` |
| `two_packets_in_span` | two packets in a span | violated: `addBytes` drops what follows a packet |
| `fixed_header` | fixed packets with headers | violated: the fast path does not compare headers |
| `directory_live_adds` | `addProtocol` on a running server | violated: the list may stay behind the map |
| `command_stop` | a destroyed server | violated: its threads never stop |
| `start_up_demo` | the entry that the demo server registers | violated: who finds it cannot connect and ends |

The last five are disagreements of the code with what its comments and tests
say; PROJECT.json quotes them. The runs of the directory are checked for
deadlock; the others end legitimately at their bound, or when every node has
gone, every program has ended or the process died. A dissector that is stuck on
a byte is not left to the deadlock check: `NothingUndefined` is about that.

### Bounds, and why they are enough

- Bytes 0, 1, 2: a zero and two others, for lengths, removals and headers that
  overlap themselves (`1 1 2`). `MaxFed` = 7 is at least two packets of all but
  the longest template: what one packet leaves to the next shows in the second.
  `MaxBuffer` = 7 is as much as the callbacks can be asked about. The proofs have
  no bound on any of these.
- Building: a fixed packet with a number of two bytes, data of its own length
  with a check sum that may be missing, and a header; numbers that fit and
  objects of one and four bytes; data of one and two bytes, so that the length
  set may agree with it or not; a field without a value and one with a value too
  short, which cannot be written until they are set; `MaxSent` = 2, the second
  from the same descriptor or a new one. Between packets come bytes that no header can be made of.
- Start-up: two clients, so that they compete for both REP sockets and one may
  find what the other misses. Commands are not bounded. One key (`Pressed`) is
  pressed again and again, since the server takes all commands alike; the proofs
  are of any keys. `Entry` has the entry of the demo server and one that names
  the host, or no client would connect to what it found.
- Interpretation: bytes 2 and 128 (neither is a bool, one is negative), a field
  of none and one of two bytes, all modes for missing fields between the two
  interpreters (both warn, one throws; `Behaviors`), an interpreter with the
  default empty name and one whose name makes `a` + name the key of field `ab`.
  Two interpreters, since a key collides between two.
- Directory: a name without an adapter and with one at two endpoints, so that
  an add inserts, reorders or replaces and a remove hits one of two. One client
  and one registering program race already; two of the latter compete for the
  thread in the liveness run, where one entry is enough.
- Commands: a client may send one command after the other (`served` counts from
  the last), and the second client competes with the first. Liveness with two endpoints takes too long for the
  checker, and `CallsAreImplemented` and `ServerStaysAlive` are proved for any
  number.
- Packages: protocols `C` and `CF`, one with a bar in its source and one with
  none; two contents, so that a change or a swap is seen. One publisher is behind
  the proxy and one beside it, so that both routes occur and compete for the
  client; one package before the proxy and two behind it, so that pipes overflow
  and order matters. A second client would have links of its own: publishers and
  the proxy write to each link without regard to the others. Publishers that
  share the pipe of a proxy, and any number of nodes, are left to the proofs.

### Fairness

- `ProtocolDirectory`: the thread runs (its `recv` has a timeout, so it is
  never blocked for good), and `SF` on taking the request of a peer, for ZeroMQ
  serves several peers of a REP socket in turn while the thread is not always
  receiving.
- `CommandChannel`: threads run and callbacks return, `SF` on receiving from
  each peer for the same reason, and a reply that arrived is returned. No
  client is made to call, no owner to act, no process to restart.
- `PackageChannel`: the loops of the demo server, the pusher, the proxy and the
  client do not end, and ZeroMQ carries a subscription while both ends are up.
  Nothing makes a node start or stay up: `KeepsReceiving` assumes a route that
  stays up from some moment on. It promises packages, not those of each
  publisher: in a proxy's pipe a busy publisher may leave a quiet one no room.
- `DemoSystem`: `main` of a server that was started goes on, the command thread,
  the steps of a client (a query ends by its timeout, so the directory's thread
  needs none), the receiver and the way of subscriptions, and `SF` on taking up
  the command of each client, as in `CommandChannel`. No program has to be
  started and no key pressed.

## Proofs

All by `tlapm` from the assumptions that the modules name. Constants are
otherwise arbitrary: any templates, callbacks, numbers of clients, links.

- `GenericDissectorProofs`. A lemma per operation on the record of stack and
  packet, a step per action.
  - `TypeCorrect`, `FieldsStayInOrder`: for all templates.
  - `RulesInvariant` and from it `NeverThrows`, `SizesAreHonoured`,
    `ExistenceIsHonoured`, `HeadersAreSound`. None of the four is inductive: that a
    lookup will not throw depends on a rule of a field that has not been read
    yet. `Consistent` adds that whatever a field still on the stack refers to is
    still on the stack, and that each size on the stack is the one the packet has
    asked for so far.
  - `NeverOverruns`, `NeverUndefined`. What is needed of the buffer is `Waiting`:
    it has fewer bytes than the top takes (`TooFew`), the callback of the top has
    refused every prefix of them, and an empty field is on top of a new stack
    only. Callbacks enter by `SizerContract` for a set `S` of byte strings, and
    `[]HandedFrom(S)` says that the stream hands them no others. `S = Seq(Byte)`
    is the case of callbacks that always keep their contract (then
    `HandedFrom(S)` is no restriction); a smaller `S` is needed for the callback
    of the tests that looks for a nul, whose answer is a `uint16_t`: it keeps the
    contract only if there is one in the first 65535 bytes. TLC evaluates the
    contract up to `MaxBuffer` bytes.
- `PacketBuildingProofs`, over the whole `BuildSpec`: a sender, `addBytes` and
  `addByte`.
  - `ReceiverIsDissector`: `BuildSpec => Spec`, so that all of the above holds of
    the dissector at the end of a stream.
  - `DraftIsWritable`. The invariant is that each field is as it was made or has a
    value as long as its size (`Settled`). It assumes `ShortValues`: `set` keeps the length of a vector in
    sixteen bits (PacketDescriptor.hpp:40), and a value of 65536 bytes would leave
    the size 0 and not be written.
  - `TakenIsConserved`. `ByteKept` is the heart: without callbacks, and unless a
    header has to be looked for, a call of `addByte` puts its byte behind those
    of the packet (`Open`), whatever rules it applies. That needs `Consistent`
    (fields behind the top hold nothing) and `NothingLeft` (no byte is in the
    buffer when a packet is complete). The fast path cuts slices that lie one
    behind the other (`EndsAddUp`, `FlattenSlices`). It assumes `BetweenPackets`:
    the fast path does not look at what `addByte` has in the buffer, so an owner
    that calls it in the middle of a packet gets packets out of order. The tests
    call both of one dissector, but between packets; `OneWayIsEnough` derives it
    for owners that keep to one of the two, as those of the TLC instance do.
  - `HeaderIsAccepted`. The invariant `NothingSkipped`: as long as the bytes that
    came agree with the header, as far as they go, all of them are in the packet
    or the buffer. A header that is looked for is then at the front, and what is
    held for it is all that came.
  - `RoundTripHolds`. The invariant `RoundInv` says that up to the last packet sent
    all that agree with their template are returned, and that the dissector is
    either between packets (`Idle`) or within the last one (`Busy`). Within a
    packet it is `Ready`: the fields read are those of the packet, and the bytes
    held with those ahead are the fields not read, written one behind the other
    (`Rest`), so that neither rules nor empty fields have to be looked at again.
    `Advanced` is the step, one call of `addByte`. It assumes `OnlyNoise`: what comes
    between packets has no byte its first header ends with, since the code drops
    bytes one by one until the header fits.
  - `BytesAreConserved`. A span ends with the byte its packet ends with, by `Ready`
    again, so `addBytes` has nothing to drop; with `TakenIsConserved` every byte
    handed over is in one field. It assumes `WholeSpans` of the templates it is
    about: a span is one packet that keeps the rules.
  - `StreamIsFramed`, the refinement of `PacketFraming`. The invariant `FramedInv`:
    of the bytes taken, those behind the last packet (`open`) are all the dissector
    has worked on, and it is `Half` through them. `PathTo` is what `ReadUpTo` knows
    after each field; `Half` says that it ends where the stack begins, with the
    same sizes, removals and values (`At`), and that the bytes behind are awaited
    there (`Awaiting`): too few for the field, not enough for its callback, or a
    header that has not been found at any place in them. The framing's answer for
    a field that was found stays what it is when bytes come behind it
    (`SizerContract`, and the first of several places for a header), so a call of
    `addByte` goes on along the path (`StepHalf`); what is read is complete exactly
    if the stack is empty (`HalfUnread`). The fast path has the path in one go
    (`FixedSeen`). The path is a recursive function and is reached by induction
    over a set of numbers. It assumes, besides the contract of callbacks as in
    `NeverOverruns`, `OneWayIn`: a dissector for fixed fields is not given both bytes
    and spans; and `HeadersInPlace`, a property of what the owner hands over: the
    fast path of `addBytes` compares no headers, so they have to be there. Run
    `fixed_header` shows what happens if they are not.
- `ProtocolDirectoryProofs`
  - `DirectoryTypes`: what is in a message depends on who handles it, so the type
    invariant needs `ServesTaken`: the request the thread handles is the one it
    took from the socket.
  - `ListIsCoherent`, for an owner that adds before it starts the thread
    (`~LiveAdds`). The invariant: no thread while the owner is in an add, and a
    list that was read and not stored is still that of the map.
  - `ListenersAreUpToDate`: for all owners and peers, and listeners added at any
    time.
  - `DirectoryIsOneTable`: the refinement of `DirectoryService`, every action a
    step of it or a stutter, for the owner of `ListIsCoherent`. It assumes
    `KeysTellApart`: the key of an entry, its name and adapter with a bar between
    them, is that of no other name and adapter, which names without a bar
    guarantee (`NamesWithoutBar`).
- `CommandChannelProofs`
  - `Types`, `ServerStaysAlive`. The invariant `Provided`: of a careful owner, the
    handler is set from before the first thread, a thread that has yet to bind
    has its endpoint to itself, the object lives.
  - `CallsAreImplemented`, the refinement of `RemoteCall`: the initial states map
    to initial states, every action to a step or a stutter. `Matched` is the
    invariant: a socket whose command was taken belongs to exactly one thread,
    and a thread with a command to a socket that waits for it or is lost;
    without it `CallOf` would not be well defined.
- `PackageChannelProofs`: `HeaderRoundTrip` (a header with a name free of bars
  is read as written, whatever is in its source) and from it `TypeCorrect`, that
  clients are given only headers publishers have. The invariant adds that a link
  over which a subscription is known is up at both ends (packages may be on
  theirs when the sender has ended).
  `ChannelIsStreams`, the refinement of `PackageStreams`: the stream of a publisher
  to a client is what is in the pipe behind the proxy (`Beyond`), before it
  (`Before`) and on a link of the two (`Straight`), so `Forward` leaves it as it is
  or thins it, `End` and `Lost` thin it, and `Receive` takes its head. The invariant `Asked` says that what
  is on its way to a client is from where the link begins and was asked for.
- `DemoSystemProofs`: `ProgramsInvariant`, and from it `FoundOrNothing`,
  `DirectoryIsUsedWithCare`, `CommandsAreUsedWithCare`, `ServerStaysUp`. The
  invariant says of each place in a program what was called before it: the table
  is filled in before the thread runs (`Filling`) and has the one entry ever
  after (`AnsweringLists`), the callback is set before the command thread starts
  (`HandlerIsSet`), a client subscribes to what it found and to nothing else
  (`FoundOnce`, `Loops`, `Subscriptions`). The two theorems on care are the
  premises of `ListIsCoherent`, `DirectoryIsOneTable` and `ServerStaysAlive`. From
  them and the components' theorems follow `ProgramsAreStreams`, `ProgramsCallOnce`
  and `ProgramsHaveOneTable`: the refinements hold of the programs. The proof
  modules of the components are instantiated with the state of the programs, and
  their assumptions on constants, names without a bar among them, are derived.
- `PacketInterpreterProofs`
  - `NoReportTwice`, `ReportsAreMade`. The invariant: each key in the sets was put
    there by exactly one report. The second is an action property and excepts
    keys that two pairs of names share: there the code does suppress the second
    pair's report.
  - `InterpreterTypes`, `FieldsMeanThePacket`. The invariant `SoFar`: the results
    are what the fields gone past may mean, leaf by leaf, in the configuration
    the packet was begun with (`Configured`). The recursive functions that say
    what a field means are reached by an induction over a set of numbers,
    `FromZero` in `FlattenProofs`. Of mappers it is assumed that they return
    results (`MapAssumption`).
  - `SignedSurvives`, `UnsignedSurvives`: a number that fits into a field is read
    as it was written, in all widths: what is cut off is what padding puts back.

Only model-checked:

- everything live (`PublisherKeptAlive`, `StopEnds`, `RequestsAnswered`,
  `CommandsAnswered`, `ListenerCatchesUp`, `KeepsReceiving`, `FoundIsReceived`, `KeysComeBack`), which
  is out of reach of the prover.

Every other invariant, action property and refinement of the passing runs is a
theorem.

## Not modelled

- Values as text (`variant_to_string`, `variant_from_string`, `format`), JSON
  text, logging: data without control.
- What the headers of `interpretation` have besides that nothing calls
  (`#ifdef EXTENDED_INTERPRETER`, templates of `GenericTypes.hpp`), and the
  other bit helpers of `BitUtils.hpp`. GenericTypes.hpp:16 speaks of filling
  odd widths with zeros; the code makes them 0, and so does `Integer`.
- The fast path of `addBytes` on a span shorter than the packet: it reads past the
  end, and any outcome would do.
- The serializer: its headers are not in the repository and nothing includes it.
- ZeroMQ, other than from how the code uses it. Peers that send other frames
  than the classes of the repository do.
- `ProtoUtils`, command line options and console output, build files.
- The destruction of a directory server under its thread, and two interpreters
  inside `once` on two threads: undefined behaviour nothing in the repository
  leads to.

## Plan

Done: the dissector, its feed and the sender of what it is fed, interpretation,
the directory, the command channel, the package channel, the programs that put
them together; the proofs above. The order was that of the weight of the
component's own logic.

Left: `WholeSpans` and `OneWayIn` are assumptions on owners, and the repository has
no owner but its tests; a program that feeds a dissector would have to be shown
to keep them, as `DemoSystemProofs` does for the channels.
