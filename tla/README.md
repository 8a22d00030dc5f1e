# Verification of avr-net-enc28j60

TLA+ models of the network library in `src/`, the TLC runs that check them and
the TLAPS proofs about them. The library is a TCP/UDP/ICMP/ARP/HTTP stack for
AVR controllers with an ENC28J60 Ethernet chip: one thread, no interrupts, no
dynamic memory, one packet buffer shared by everything that is sent or received.

## 1. The system

| part | state | operations | talks to |
|---|---|---|---|
| network (`network.c`) | the shared `buffer`, `connectPortRotaiting` | `NetInit`, `NetHandleNetwork`, `NetHandleIncomingPacket` | driver, ARP, ICMP, UDP, TCP |
| Ethernet (`ethernet.c`) | none | `EthWaitPacket`: poll the driver until a packet of the wanted type arrives, **handling every other packet meanwhile** | driver, network |
| driver (`enc28j60.c`) | `next_packet_ptr`, `Enc28j60Bank`; the chip's rings and registers | `enc28j60_init`, `enc28j60_packet_send`, `enc28j60_packet_receive` | chip over SPI |
| ARP (`arp.c`) | `arpCache` (mac, ip, use count) | `ArpWhoIs` (blocks), `ArpSendReply` | Ethernet wait |
| IP, ICMP (`ip.c`, `icmp.c`) | an identifier counter | headers, echo reply, unreachable | driver |
| UDP (`udp.c`) | none (shares `connectPortRotaiting`) | `UdpSendData*`, `UdpReceiveData` (blocks), `UdpHandleIncomingPacket` | ARP, Ethernet wait, application callback |
| TCP (`tcp.c`) | `connections[TCP_MAX_CONNECTIONS]` | `TcpConnect`, `TcpSendData`, `TcpReceiveData`, `TcpDisconnect` (all block), `TcpHandleIncomingPacket` | ARP, Ethernet wait, four application callbacks |
| HTTP (`http.c`) | one request parser, one response parser, one message buffer | `HttpSendRequest`, `HttpSendResponse` (block), the four TCP callbacks | TCP, one application callback |

What makes it hard is that there is no scheduler and yet there is concurrency.
Every blocking operation handles unrelated packets from inside its wait; a
handler may call the application, and a handler or the application may start
another blocking operation, which waits in turn. Calls therefore interleave
like threads, except that they end in stack order; a call that waits holds
pointers to a slot, to a cache line or to the shared buffer that the calls
nested in its wait also use. On top of this the network loses, repeats and
reorders packets, peers stop answering, and every timeout is a counter of a
fixed width.

What should hold, part by part:

* TCP: a slot is opened, closed and freed by one owner; callbacks come in the
  order the documentation promises; a call ends; data reaches the application
  once and in order; a successful send has been received.
* ARP: a lookup answers with the address of the host that was asked for, and the
  cache keeps what it learnt.
* Driver: the ring pointers of driver and chip agree whatever the chip receives
  meanwhile.
* HTTP: a request is recognised however it is cut into segments, it is answered
  once, and the listener becomes free again.

## 2. Plan

Done so far, most important first:

1. `Tcp` with the promise `TcpCallbacks` and `TcpProofs`: the connection table
   and the re-entrant calls.
2. `ArpCache`, with its proofs in `DatagramProofs`: the cache, late replies,
   lookups within lookups.
3. `TcpStream` with `TcpStreamProofs`: the numbers of one connection against a
   lossy network.
4. `Enc28j60` with the abstract `FrameQueue` and `Enc28j60Proofs`: the receive
   ring and the transmitter.
5. `Http` with the abstract `HttpListener`: listener and client above the
   connections of `Tcp`, with `HttpProofs`. `HttpParser` with
   `HttpParserProofs`: one message, cut into segments.
6. `TcpOpening`, with its proofs in `TcpStreamProofs`: the numbers of the handshake, and the
   stream that it opens.
7. `Datagram` with `DatagramProofs`: UDP and ICMP, nested like TCP's calls.
8. `EncRegisters` with `EncRegistersProofs`: banks, PHY access, initialisation.
9. `Packets` with `PacketsProofs`: every packet as it is made in the one buffer.

Next:

10. The text of HTTP messages.

## 3. The modules and the code

An MC module holds what only TLC needs (message sets, options, symmetry); a
module that needs none is run as it is. A definition
that begins with "mutant of" in its comment is a plausible wrong version of the
definition it names; no specification uses it.

### Tcp and TcpCallbacks (`tcp.c`, `network.c`, `ethernet.c`)

| model | code |
|---|---|
| `connections` | the table of `tcp.c:64`: state, peer (ip, remote port), local port and mac of each slot |
| `stack` | the C stack: one activation for each blocking operation, callback, and `TcpHandleIncomingPacket` that is to go on after `OnConnect`. The one on top runs; in pc "wait" it is inside `TcpWaitPacket` and any segment may come next |
| `buffer` | what the shared buffer's header may show to somebody who will read it again; `{}` if nobody will |
| `connectPortRotaiting` | the variable of that name |
| `TcpHandleIncomingPacket`, `Deliver`, `NewConnection`, `Confirm`, `HandleRest` | `TcpHandleIncomingPacket`, cut in two where `OnConnect` is called and the buffer is read again afterwards |
| `TcpWaitPacket`, `TcpWaitNothing`, `TcpWaitMissed` | one round of `TcpWaitPacket` and its caller's `waiting++` and test |
| `HandshakeTry`, `TcpCloseEnd`, `TcpConnectExpired`, `TcpConnectHit` | the loops of `TcpClose` and `TcpConnect` |
| `CallConnect`, `ArpReply`, `ArpFail`, `ArpPacket` | `TcpConnect` up to and including its `ArpWhoIs` |
| `TcpSendData*`, `TcpReceiveData*`, `TransferExpired`, `TcpDisconnect`, `NetHandleNetwork` | the operations of these names |

What is abstracted. Whether a segment carries the expected number, and whether
it acknowledges what is waited for, are inputs (`TcpStream` has the numbers);
`current` and `stale` keep what matters of them when calls nest. The verdict of
`OnNewConnection` is a choice within the step: the callback is documented as a
filter. Segments with a broadcast mac and a wrong checksum are segments that do
not arrive. RST is never looked at by the code. The size of a segment only
decides into how many parts a send is cut (`MaxParts`). A free slot keeps no
old contents, except for the mac of a slot that waits for ARP, where the old
one is used. Calls that return at once and change nothing are left out.

### ArpCache (`arp.c`, the wait of `ethernet.c`)

`arpCache` is the array of that name; `lookups` is the stack of calls of
`ArpWhoIs` that wait, with the `minUseCacheId` each of them keeps across its
wait. `replies` is the network: hosts that have been asked and may still
answer. `LookUp` is `ArpWhoIs` until it returns or waits, the scan with its
ageing; `ArpPacket` is the packet that ends the wait (a request for this station
ends it too, and fails it), `Timeout` the end without one. The mac of host h is written h. `Late` says
whether an answer may come after its lookup has ended.

### Datagram (`udp.c`, `icmp.c`, `network.c`, `ethernet.c`)

| model | code |
|---|---|
| `stack` | the C stack: the main loop, `UdpOnIncomingDatagram`, the `ArpWhoIs` of `UdpSendData`, `UdpReceiveData`. The last one runs; if it waits, any packet may come next |
| `buffer` | whose header and whose data the shared buffer shows: they part when a packet is made over the header of another |
| `connectPortRotaiting` | the variable of that name, which requests share with `TcpConnect` |
| `NetHandleIncomingPacket`, `UdpHandleIncomingPacket`, `IcmpSendReply`, `CallbackReturns` | dispatch, the callback with its copy of the addresses and its pointer into the buffer, the echo reply, and the rejection of a datagram whose callback returned 0 |
| `ArpWaits`, `ReceiveWaits`, `NoPacket`, `TimedOut` | the rounds of `EthWaitPacket` in `ArpWhoIs` and `UdpReceiveData`: a packet that is awaited ends them, another is handled within them |
| `UdpSendDataMac`, `UdpSendData`, `UdpSendDataTmpPort`, `UdpReceiveData`, `TcpConnect`, `NetHandleNetwork` | the operations of these names, from the main loop or from a callback |

`Network` is what may arrive at any time: any request a host has been sent may
be answered late, twice or never. `asked` is a history of these. Lengths are
those of the code, in bytes, with the 42 bytes of headers and the padding of
short frames; the length of the data in the callback comes from the UDP header
and that in `UdpReceiveData` from the frame. `UdpSendDataTmpPort` moves the
counter on and takes the port it shows then; `TcpConnect` takes the port it
shows, the one given last, and moves it on. `InPlace` names the functions the application gives received data
where it was received. An answer of the ARP cache is a lookup that ends at
once and is left out: `ArpCache` has it.

### Packets (all headers)

The buffer is a function from positions to words of two bytes, and a word is a
tuple that says what it is: a part of an address, a length, a sum of given
words. A packet is made by the operator named after the C function
(`arp_generate_packet`, `ip_generate_header`, `IcmpGeneratePacket`,
`UdpDatagram`, `TcpPacket`, ...), a composition of `Put`s in the order of the
code's assignments over whatever the buffer held; the positions `ETH_DST_MAC_P`
to `TCP_DATA_P` are those of the header files, halved. The formats of the first
section (`Arp`, `IpPacket`, `Icmp`, `Udp`, `Segment`) are the network's, external
code, and say what each packet should be: a property compares the two word by
word, checksums included. `state` and `maxSegmetSize` belong to one connection
with each host. `TcpGetOptionPosition` is the search for the segment size
among the options of a SYN. Numbers and nesting are the subject of `TcpStream`
and `Datagram`; the received checksum of IP, ICMP and UDP packets is not looked
at by the code, so packets are the ones the network delivers whole.
Options are as RFC 793 has them: they follow each other, at most one is the
size, and nothing follows the end (`OptionAssumption`). What is sent and
received fits the buffer (`FitAssumption`): the chip cuts off frames that do
not. `UdpSendDataMac` refuses data that count double beyond the buffer (`Fits`).
Data are copied upwards, as avr-libc's `memcpy` does: `memcpy` says what becomes
of data that are copied to a place within themselves (`Overlap`), as those of a
datagram are when TCP sends on more than 12 bytes of them. C leaves that
undefined; `Overlapping` says whether the application does it. An option of
length 0 is not well-formed; the search does not return from it
(tcp.c:265).

### TcpStream (`tcp.c`)

One established connection with its numbers. `calls` is the stack of blocking
calls on it (a callback in the wait of one may start another). `written` is a
history: for each sequence number that was used, the write it was used for.
`sent` and `acks` are the network: any segment ever sent and any acknowledgment
ever given may arrive at any time, any number of times, or never. The peer is a
correct one. `buffer` is the data that `TcpGetDataLength` would find in the
shared buffer: `TcpReceiveData` reads it only after `TcpHandleIncomingPacket`,
the callback and the waits within them, by when an acknowledgment, another
packet (`OtherCall`, `Foreign`) or a segment that `TcpClose` met may lie there.
`delivered` is what the callback was given, `received` what `TcpReceiveData`
returned, and acknowledged. The reuse of a slot is `Tcp`'s. Numbers do not wrap: the model is of connections that carry fewer than 2^32 bytes a way.
`FinWithData` says whether the peer's FIN may come with its last bytes.

### TcpOpening (`tcp.c`)

`TcpStream` from the first SYN on. `opening` and `numbers` are the slot until it
is established; `peer` is the other side, a client or a server that may try
again with another first number; `segments` are those of the handshake, each of
which may arrive at any time, any number of times, or never. `NewConnection` is
the part of `TcpGetConnectionId` and `TcpHandleIncomingPacket` for a SYN, which
finds the slot of an earlier attempt with its numbers; `Confirm` the first ACK
(tcp.c:598), after which the same segment goes on as `TcpStream`'s (it may carry
data or FIN, `PeerConfirms`); `TcpConnect`, `TcpConnectHit` and
`TcpConnectExpired` are `TcpConnect`'s loop. `OnConnect` calls nothing here
(`Tcp` has callbacks that do). From the handshake on `TcpStream` counts from 0;
`numbers` says what that 0 stands for on the side of the library, and
`peer.expects` and `peer.isn` what it stands for on the other. `StaleSpec` adds an
acknowledgment of an earlier connection.

### Enc28j60 and FrameQueue (`enc28j60.c`)

`pc` is where the driver is; each of its actions is one block or register
transfer, and the chip may receive or finish a transmission between any two.
`PacketReceive`, `ReadHeader`, `ReadData`, `Free`, `Decrement` are
`enc28j60_packet_receive`; `PacketSend`, `Request`, `CheckError` are
`enc28j60_packet_send`; `Init` is what `enc28j60_init` leaves. `ChipReceives`
and `ChipTransmits` are the chip, external code, as far as the driver relies on
it: next pointer, even addresses, the write limit ERXRDPT, the status vector
behind a transmitted frame. A memory cell is known by the frame and the byte it
belongs to, so that the model tells whether what is read is what was received.
`FrameQueue` is what a caller wants: a queue. `Queue` is the refinement mapping.
Registers and their banks are `EncRegisters`'.

### EncRegisters (`enc28j60.c`, `enc28j60.h`)

A program of the driver (`enc28j60_init`, `enc28j60_packet_receive`,
`enc28j60_packet_send`) is the sequence of the registers it reads and writes;
`at` is its next access. An access that needs another bank than
`Enc28j60Bank` remembers is preceded by the two bit operations of
`enc28j60SetBank`, `ClearBank` and `SetBank`. `bank`, `busy`, `rxen` and
`written` are the chip's; an access reaches the register of the bank the chip
has selected (`last`). The bits of an address beyond the five that are sent are
those of `enc28j60.h`, `"SPRD"` among them, which has `enc28j60ReadOp` skip the
dummy byte. `Restart` is a reset of the AVR at any moment: the chip keeps what
it has. A repeated `NetInit` is the other way round: the chip is reset, the
variable keeps what it has.

### Http and HttpListener (`http.c`)

`conn` is what `http.c` sees of the slots of `tcp.c`; `stack` again the C stack.
`incomingRequestConnectionId`, `incomingRequestState` and their response
counterparts are the variables of these names, with the states of the parser
folded into "PART". A segment is known by what the parser makes of it ("part",
"rest", "error"): `HttpParser` shows what that is. `url` says what the one
buffer `incomingRequest.url` holds, in which the rows of an answer are built
and from which they are sent again. `out` is what the listener sent to each
connection. A TCP call succeeds or fails as the connection's state allows; its
own details are `Tcp`'s. What `TcpReceiveData` returns to `HttpSendRequest` is
parsed as the response: there is none, as the callback has had the segment that
woke it, unless others have waited since and left something in the shared
buffer (`OthersWaited`), which may be a part of a response, the end of one
(`LeftIsParsed`, `from = 0`), or a fault that ends the loop (`LeftIsWrong`). The
build is the one in which HTTP takes all of TCP
(`HTTP_TCP_INCLUDED` 0). A polite peer waits for its answer before it sends
more. `HttpListener` is the promise of the listener.

### HttpParser (`http.c`, `ParseLong` of `util.c`)

`parser` is `incomingRequest` or `incomingResponse` with `incomingMessage`;
`Receive` is one call of `HttpTcpOnIncomingData` with a segment that ends
anywhere. Characters are classes (capital, other, key letter, digit, colon,
space, line ends). `Messages` are any that are well-formed (`WellFormed`): first
line, rows, empty line, and a body of the stated length where that can be kept.
`ParseLong` wraps at `LongSize` (2^32), `Number` does not: a stated length is
below `LongSize`, as the code would take a greater one for another; a status
code is below 65536, as those of HTTP are.

## 4. Runs

The twelve runs of PROJECT.json. A run marked with `!` finds a disagreement of
the code with its documentation; PROJECT.json quotes both under "findings".

| run | question and answer |
|---|---|
| `TcpLifecycle` | Does nobody free a slot that was given away (`OwnersNeverStale`)? How deep do handlers nest (`BoundedNesting`: one passive close for each slot)? Does every call end (`CallsReturn`)? Yes, with callbacks that do not call back and a timeout below 65535. |
| `TcpReentrant` | With callbacks that call every operation and wait in it: does the sequence of callbacks keep the documented order (`CallbacksPaired`, the refinement of `TcpCallbacks`)? Does a slot that is being closed have one `TcpClose` that works on it (`CloserOwnsSlot`), and is none half open back in the main loop (`IdleMeansSettled`)? Yes. |
| `ArpPunctual` | Are cached and returned addresses right (`Truthful`), with lookups that do not nest and answers in time? Yes. |
| `TcpStreamData` | Acknowledged data was delivered, once and in order (`AckedIsDelivered`), until a `TcpReceiveData` returns what lies in the buffer; the peer gets a beginning of what was written (`PeerGetsWhatWasWritten`); success means reception (`SuccessMeansReceived`); and both sides begin where the other expects it, whoever opens (`NumbersAgree`). Yes, over a network that loses, repeats and reorders. |
| `TcpStreamFin` ! | Data that comes with a FIN is lost, and its first byte acknowledged. |
| `EncRing` | Is the receive ring a queue (`IsQueue`) while it wraps, fills up and is written to? Are frames that were not read, and frames to be sent, left alone (`UnreadIntact`, `SentIntact`)? Is every frame read that the chip keeps (`EveryFrameRead`)? Yes, for frames below the limits and one transmission at a time, also when transmissions fail. |
| `HttpServer` | Does the listener become free again (`ListenerBound`, `HandledEnds`), is every connection somebody's (`NoOrphans`), is one answer sent (`OneAnswer`) from an intact buffer (`RowIntact`)? Is it an `HttpListener` (`IsListener`)? Yes, for polite clients and without client calls. |
| `HttpClient` | Does `HttpSendRequest` return nothing of another connection's response (`ResponseIsOwn`)? Yes, if it does not nest and its slot is not taken by another. What was left in the shared buffer may be taken for its response, though (`HttpReused`). |
| `HttpMessages` | Is a message read into its parts, or refused for its first fault, however it is cut (`WholeMessageRead`, `NothingReadEarly`), and the length found (`ValueOfRow`)? Yes. |
| `EncRegisters` | Does every access reach its register (`RightRegister`) whenever the AVR restarts? Is the chip enabled only when it is configured (`ReceivesConfigured`), is no PHY access disturbed (`PhyUndisturbed`), does every wait for the PHY end (`DriverReturns`)? Yes. |
| `Datagrams` | Does a request get its own answer (`ResponseIsOwn`), a rejected sender its rejection (`RejectsItsDatagram`)? Is what is sent what was meant (`SentIsMeant`), and its length right (`LengthsKept`)? Does every call end (`CallsReturn`)? Yes, for data of 18 to 255 bytes, sent where it was received by `UdpSendDataMac` only. |
| `Packets` | Is each packet the one it should be, whatever was in the buffer: answers made in the place of what they answer (`RepliesRight`), and what the library or the application sends (`SentRight`)? Is the application shown the data that came (`DataRight`), and the peer's segment size kept (`SegmentSizeKept`)? Yes, for segments whose options come with SYN only, and data that are not copied to a place within themselves. |

`TypeOK` is proved for `Tcp`, `TcpStream`, `Enc28j60`, `EncRegisters`,
`Datagram`, `Packets` and `Http`, and for `ArpCache` (`CacheTypeOK`) also checked
in its run, where counters of a byte make it more than a matter of form. For `HttpParser`
add it to the cfg of the run: it holds.

### Further configurations

These cfg files are kept beside the runs; each was run with TLC and settles one
more question.

| cfg (module) | property | outcome |
|---|---|---|
| `TcpLive` (MCTcp) | `CallsReturn` | holds also when peers open towards dynamic ports |
| `ArpLate` (MCArpCache) | `Truthful` | violated: a late reply answers, and is cached for, the next host (arp.c:215 does not look at its address) |
| `TcpForever` (MCTcp) | `CallsReturn` | violated: a timeout of 65535 never expires, `waiting` (tcp.c:408) wraps |
| `TcpSendForeign` (MCTcp) | `SendStaysWithConversation` | violated: a send that waits (tcp.c:497) goes on with another conversation in its slot; README.md:241 |
| `TcpReceive` (MCTcp) | `ReceivedNotPassedToCallback`, `ReceiveEndsWithData` | both violated (`-continue` shows both): tcp.c:377 hands the data to the callback first, which README.md:251 excludes; a bare ACK ends an infinite `TcpReceiveData` (tcp.c:528), README.md:247 |
| `TcpOpeningStale` (TcpOpening) | `NumbersAgree` | violated: an acknowledgment of an earlier connection is taken for the handshake's and sets the number to send next (tcp.c:600) |
| `TcpSimultaneousOpen` (MCTcp) | `CallbacksPaired` | violated: a SYN to a port in use by `TcpConnect` (tcp.c:594) makes `OnConnect` run twice |
| `TcpStreamReceive` (TcpStream) | `ReceiveReturnsData`, `ReceiveReturnsTheStream` | both violated (`-continue` shows both): `TcpReceiveData` woken by data returns none, README.md:248; or it acknowledges and returns what a wait within the callback, or the `TcpClose` of a FIN, has left in the buffer since (tcp.c:530) |
| `ArpForgets` (MCArpCache) | `KeepsWhileRoom` | violated: a second host replaces the first while all other lines are unused (arp.c:204); README.md:72 |
| `EncTruncates` (Enc28j60) | `ReturnedWhole` | violated: a frame of NET_BUFFER_SIZE bytes loses its last (enc28j60.c:419); README.md:61 |
| `EncSpills` (Enc28j60) | `UnreadIntact` | violated: sending a frame of that size overwrites received ones (enc28j60.c:341) |
| `EncBusy` (Enc28j60) | `SentIntact` | violated: a second send overwrites the first (enc28j60.c:337) |
| `EncAborts` (Enc28j60) | `OnlyFailedAborted` | violated: one failed transmission has every later one cancelled (enc28j60.c:364) |
| `DatagramLengths` (Datagram) | `LengthsKept` | violated twice (`-continue` shows both): with data of 4 bytes `UdpReceiveData` returns the padding of a short frame as data (udp.c:160), and a short echo is answered with it; with 300 the length of an echo is an `unsigned char` when its checksum is made (icmp.c:67); CHANGES.md:15 |
| `DatagramRefused` (Datagram) | `SendsWhatFits` | violated: the check counts the data twice (udp.c:98), and refuses 300 bytes for a buffer of 600; README.md:62 |
| `DatagramOverwrites` (Datagram) | `SentIsMeant`, `QuotesRejected` | both violated (`-continue` shows both): data in the buffer does not survive the ARP lookup of `UdpSendData` (udp.c:119); after other calls a rejection quotes what is in the buffer by then (udp.c:190) |
| `PacketsOptions` (MCPackets) | `DataRight`, `SentRight` | both violated (`-continue` shows both): with options in a segment the data is looked for where the acknowledgment's header, which has none, says (tcp.c:625); and data of a datagram that TCP sends on overlap the place they are copied to (tcp.c:493), which also happens without options |
| `HttpPipelined` (Http) | `OneAnswer` | violated: a client that goes on sending is answered within its answer (http.c:191) |
| `HttpReused` (Http) | `ListenerBound`, `ResponseCame` | both violated (`-continue` shows both): when the connection of a request ends while `TcpReceiveData` handles what woke it, what `TcpClose` leaves in the buffer is parsed as the response (http.c:566; so also with the constants of `HttpClient`); a listener's client that gets the slot of a client request in progress leaves the listener busy for ever (http.c:730, after http.c:726 has looked at the state only) |
| `HttpNested` (Http) | `ResponseIsOwn` | violated: a nested `HttpSendRequest` returns the outer call's response (http.c:504) |
| `HttpLookup` (MCHttpParser) | `ValueOfRow` | violated: a row whose name ends with the key is taken for the key's row (http.c:463) |

### Bounds, and why they are enough

* `Tcp`: two slots and two peers let a slot be closed, freed and given to
  another peer while a call waits; that nesting grows by one for each
  slot and not more is `NestingBounded`, for any number. Timeouts of 1 against a retry of 2 reach the
  first try, a later one, a copy and the end; `ShortMax` 3 stands for 65535 so
  that a counter can wrap. Two dynamic ports make the port rotation wrap.
  `MaxDepth` 3 lets a callback that waits be interrupted by a second callback
  that calls. No run of a temporal property uses symmetry.
* `ArpCache`: one line more than is needed to tell "the first", "the one with
  the largest count" and "an unused one" apart. Use counts end at 7 or 15
  instead of 255: both ends and the saturation are reached.
* `TcpStream`: writes of up to three bytes in parts of two (a full part and a
  rest), two writes within each other, two bytes of the peer (so that data may
  be cut, repeated in part and come early). What others leave in the buffer is
  one byte that is not of the stream (`MaxForeign`) or the data of a part that
  was sent; a receive that has returned any is the last (`MaxReceived`), as
  `AckedIsDelivered` says nothing of what follows.
* `TcpOpening`: two first numbers of the peer, so that an attempt and the one
  before it differ, and either side opens. Segments of the handshake are not
  kept once both sides are established: then none has an effect.
* `Enc28j60`: a ring of 42 bytes, which three frames of the shorter kind would
  fill to the last byte: the third is refused until one is read, and the one
  after it begins at 0 again. It wraps within four frames, one kind of them
  padded, one not. Sizes keep the proportions of the code (an even ring, a
  transmit area of NET_BUFFER_SIZE). Numbers of frames are bounded.
* `Http`: two clients on two slots (one knocks while the other is served or
  closes, and is served after it); two segments a request, two calls.
* `HttpParser`: each limit is 2, 3 or 9 and messages are shorter, just as long
  and longer; every cut of every message is tried. `LongSize` 100000 is above
  every number of theirs.
* `Datagram`: two hosts, so that an answer, a quotation or a reply can be the
  other's; two ports of the rotation and as many uses of it, so that it wraps
  and no port is given again while an answer to its first use is about (with
  more uses an answer to an old request is an answer to the new one, as the
  library keeps nothing that tells them apart). Lengths at both ends of what
  `LengthsKept` holds for. Four functions in progress: a callback in a wait
  of a callback that waits. A timeout of 1 below a counter of two bits.
* `EncRegisters`: three restarts; the theorem has any number.
* `Packets`: two hosts and every pair of a packet and what it is made over;
  data of one length, 12 bytes, the most that TCP can send on from where UDP has
  received them without an overlap; echoes of the least that is not padded, a
  buffer just long enough for a quotation. One host sends the segment size behind another
  option.

Deadlock is checked in the runs of `Tcp`, `ArpCache`, `TcpStream`, `Datagram`,
`EncRegisters` and `Packets`. In those
of `Enc28j60`, `Http` and `HttpParser` frames, connections or bytes run out by
their bound, and then nothing is left to happen: these say
`CHECK_DEADLOCK FALSE`.

### Fairness

`Tcp`: weak fairness of `Library`. There is one thread and it is the caller's:
inside a call it runs on, each wait returns with or without a packet, and the
application's callbacks return. Nothing is assumed of peers or of the
application's main loop. `Enc28j60`: weak fairness of the driver (the main loop
calls `NetHandleNetwork` for ever, as README.md asks) and of the chip's
transmitter. `Datagram`: weak fairness of
`Progress`, for the reasons of `Tcp`: polls take time and callbacks return.
`EncRegisters`: weak fairness of the driver, which runs on, and of the PHY,
which takes 10 us for a transaction. `Http`: weak fairness of `Library`, as every TCP call it makes has
a finite timeout (60 s, or the caller's) and the application's callback
returns.

## 5. Proofs

All by TLAPS, for every value of the constants that their assumptions allow.

`TcpProofs`: `TypeCorrect`, `ClosersOwnTheirSlots` (`CloserOwnsSlot`) and
`IdleSettled` (`IdleMeansSettled`). `CloserOwnsSlot` is not inductive:
`TcpConnect` frees its slot without looking at its state, which is right only
because no `TcpClose` below it on the stack has that slot. The invariant `Owned`
adds this, and that a slot in state NEW has a `TcpConnect`. `Owned` is a
predicate of a table and a stack; lemmas say how pushing, popping and changing
one activation, with the one slot it changes, keep it, and the actions are put
together from these.

Its other three theorems start from one lemma (`StepShape`) that says what a
step may be: nothing below the top of the stack changes but counters and waits,
one slot changes as a packet, a call or the end of a call has it, and the stack
grows or shrinks at its top. `OwnersFresh` (`OwnersNeverStale`): no `TcpClose`
or `TcpConnect` works on a slot that was given away; the invariant `Held` adds
to `CloserOwnsSlot` that each `TcpConnect` has a slot in state NEW to itself,
with a port of its own. `CallbacksKeepPromise` (`CallbacksPaired`): every shape
maps to the steps of `TcpCallbacks` that its callbacks are, or to none, by the
same invariant. Both assume `~SimultaneousOpen`, without which
`TcpSimultaneousOpen` refutes the second: a SYN for a port that `TcpConnect`
uses establishes its slot behind its back. `NestingBounded` (`BoundedNesting`),
for callbacks that do not call the library (`CallbackOps = {}`; with callbacks
that do, nothing bounds the stack but what the application does): the
activations of `TcpClose` have different slots, so there are at most
`TCP_MAX_CONNECTIONS` (a counting argument over finite sets), above the
application's call and below the callback and the packet it belongs to
(`Nested`).

Of `ArpCache`, whose lookups datagrams wait for, in `DatagramProofs`:
`CacheTypeCorrect`; `PunctualTruth` (`Truthful` if `~Late` and `MaxLookups = 1`),
with `Expected`: the only reply on its way is the one that the one lookup waits
for.

`TcpStreamProofs`: `TypeCorrect`; `AckedDelivered` (`AckedIsDelivered`, if
`~FinWithData`): data is acknowledged by `TcpHandleIncomingPacket`, which
delivers it, and by `TcpReceiveData`, which acknowledges what it finds in the
buffer and returns it, so the property is of connections whose receives have
returned none (`ReceivedGrows`; `ReceiveReturnsTheStream` is refuted for
others);
`PeerGetsTheWrites` (`PeerGetsWhatWasWritten`), with `SentAgrees`: each number
is used once, so every segment agrees with the record; `SuccessIsReception`
(`SuccessMeansReceived`), from both and from the fact that all numbers of a
write that returned 1 are at or below an acknowledgment.

Of `TcpOpening`, also in `TcpStreamProofs`: `OpensAStream` (`OpeningSpec`
implements `Spec` of `TcpStream`, so that the theorems above hold of a connection from its first SYN
on) and `BothSidesAgree` (`NumbersAgree`). What the library has sent stays true
of the slot (`SentIsTrue`): a SYN|ACK has the slot's numbers, which a repeated
SYN does not change, so a peer that has meanwhile begun again with another
first number is not established by it (`PeerKnows`).

`DatagramProofs`: `TypeCorrect`; `OwnResponses` (`ResponseIsOwn`, while no
local port is given twice); `Rejections` (`RejectsItsDatagram`); `MeantData`
(`SentIsMeant`, if only `UdpSendDataMac` is given data where it was received);
`PlainLengths` (`LengthsKept`, for data of 18 to 255 bytes, `Plain`:
`DatagramLengths` refutes it for others).
The invariant says that a function below the top of the stack makes nothing of
the buffer any more (`Calm`), that the one on top may only while the buffer is
as it was (`Faithful`), and that a request has the port that was given with its
number (`Numbered`), whence an answer to its port is an answer to it.

`Enc28j60Proofs`: `TypeCorrect`, for all frames the buffer can hold;
`FramesStay` (`UnreadIntact`), `FramesQueue` (`IsQueue`) and `SentInOrder`
(`SentIntact`). The frames that are kept are those from the read limit ERXRDPT
to ERXWRPT, and all distances are measured from the former (`Behind`), so that
the end of the ring is met only in the lemmas about `Behind` and `Ahead`.
`Chained` says that the frames follow each other there without coming around:
what the chip's own rule for free space leaves, since it never fills the ring.
`Stored` says that their bytes are in memory; `Located`, where the driver is in
the frame it reads, so that the pointer it follows (`next_packet_ptr`, read from
the ring) is the start of the next. A frame that arrives lengthens the chain,
freeing one shifts it, and a transmission writes behind the ring only. The last
needs `StatusFits`: a frame to be sent is at least 8 bytes shorter than NET_BUFFER_SIZE,
for the control byte before it and the status vector behind it; `EncSpills`
shows what happens otherwise. `FramesQueue` needs `Untruncated` as well, that
what arrives is shorter than NET_BUFFER_SIZE (`EncTruncates`). `SentInOrder`
assumes `PromptMedium` (`EncBusy`); its invariant is that what the transmitter
has is the last frame it was given, and that it was not sent before
(`LastGiven`).

`EncRegistersProofs`: `TypeCorrect` and `RightRegisters` (`RightRegister`), for
any number of restarts. `Coherent`: the chip's bank is the remembered one,
except between the two operations of a selection, when it is 0; before the
reset at the start of `enc28j60_init`; and before the first access after it,
which is to bank 0. That the reset comes first, and in no other program, is
what the lemmas about the driver's code establish. `ConfiguredFirst`
(`ReceivesConfigured`) and `PhyAlone` (`PhyUndisturbed`) have a second
invariant on top of it, `Full`: what the initialisation is past is written
(`Progress`), which is only so because each write reaches its register, and
while the PHY is busy the driver is at the poll that waits for it or before the
reset (`Waited`).

`HttpProofs`: `TypeCorrect`, for any calls of `HttpSendRequest` however they
nest. `OwnResponse` (`ResponseIsOwn`), for any number of calls, if nobody else
can get a call's slot (`OneUser`): there is one slot only, or nobody connects.
What it says is that nothing came in another's connection; what lies in the
shared buffer may still complete a response (`ResponseCame` is refuted).
Otherwise it is false: `HttpNested` returns the response of the outer call, and
the slot of a call whose connection has ended may be given to a client while a
callback above keeps the call from noticing. Under `OneUser` a call is on top of
the stack or has above it no more than the `TcpClose` of its own connection, and
all other slots are empty. `ListenerLives` (`ListenerBound`) and `NoneForgotten`
(`NoOrphans`), for clients of any kind, under `OneUser` or if the application
makes no calls (`MaxCalls = 0`); otherwise the code does leave the listener busy
for ever (`HttpReused`). From `Server`: no call can have the listener's slot, so
the end of its connection always resets it (`Served`), and a request is handled
only while its callback is on top of the stack, where nothing is received
(`Handling`). For an application without calls and clients that wait for their
answer (`Polite`; for others `HttpPipelined` refutes it) `AnsweredOnce`
(`OneAnswer`), `RowsIntact` (`RowIntact`) and `KeepsPromise` (`IsListener`),
from `Answered`: what was sent and what an answering function still has to send
are an answer; each connection has one such function at most; and it runs, or
has above it the `TcpClose` of its own connection and nothing else, so that
another client's row, in the one buffer, is built only when it has none to
repeat (`AnswersOK`, `Rows`).

`PacketsProofs`: `TypeCorrect`; `RepliesCorrect` (`RepliesRight`) and
`SizesCorrect` (`SegmentSizeKept`), whatever options segments have;
`SentCorrect` (`SentRight`) and `DataCorrect` (`DataRight`), if segments with
data have none, and the first if TCP copies no data to a place within themselves
(`~Overlapping`; `Apart`, `PartRead`): `PacketsOptions` refutes both
otherwise. The properties
compare sequences; the proofs speak of words at a place of the buffer (`At`), of
a known number (`Long`), and of what two buffers have in common (`Alike`). For
each format a lemma says what it is for it to stand in the buffer (`ArpAt`,
`IcmpAt`, `UdpAt`, `SegmentAt`), and for each function that makes a packet, that
it stands there afterwards (`ArpMade`, `EchoMade`, `UnreachableMade`, `UdpMade`,
`TcpMade`), write by write, as each `Put` leaves alone what is before and behind
it. That a checksum is right is that the words it covers are in place when it is
made (`Covers`). That a damaged segment is not taken for a whole one
(`DamageFound`) is that these words can be read off the sum: checksums of the
model do not collide, as those of the code may. The walk over the options is a
recursive function, which exists by an argument from the end of the options back
(`WalkExists`), and finds the size of any well-formed ones (`SizeFound`). The
invariant `IInv` adds to the properties that the data the application was given
are where it was told (`Pointed`), that a datagram it may refuse is there as it
came (`Quotable`), and that a connection that is being opened has its size
already (`Sized`).

`HttpParserProofs`: for any limits, messages of any length and any cut into
segments, `ParsedThroughout`, the inductive invariant `IInv`, and from it
`WholeMessageIsRead` (`WholeMessageRead`), `NothingIsReadEarly`
(`NothingReadEarly`) and `ValueIsOfRow` (`ValueOfRow`). `IInv` says what the
parser is when any number of bytes has been handled (`Parsed`): in the first
line, the part of it so far (`InMethod`, `InUrl`, `InCode`, ...); in the rows,
the bytes of them so far and, after a line end, the state that this end leads
to (`AtRows`, with the two halves of CR LF apart); in the body, its bytes so far
(`InBody`); or the message's fault was found (`Broken`), or all was read
(`AllRead`). One byte takes each of these to the next (`Scanned`), and so does
the loop over a segment, by induction over its bytes. That the rows are `Rows`
and their header ends where the empty line does is read off the place where
each part stands in the text (`Stands`, `Laid`). The three follow once the value that is found in
these rows is that of the row which is named (`ValueRead`): the only places
with the key are the beginnings of rows with that name. This is the hypothesis
`KeysApart`, that no other place of a row has the key: without it
`HttpLookup` refutes `ValueOfRow`, and a wrong length would end the body early
or never. Below `LongSize`, `ParseLong` is the number that the digits stand for
(`ParseLongIs`).

The recursive functions of these modules (the parser's loop, `ParseLong`, the
rows put together by the community modules, the options' walk) exist, and are
what the lemmas say, by induction over natural numbers, in the form of a set
with 0 and every successor (`Upwards`), which follows from a least element.

Only model-checked: liveness (`CallsReturn`, `EveryFrameRead`, `HandledEnds`,
`DriverReturns`), which needs fairness and ENABLED, out of the prover's reach.

## 6. Not modelled

The bits of an SPI transfer, and the reads of the chip's revision and of its
PHY, which nothing calls; the wrap of TCP's numbers, which are only added to
and compared for equality; a slot in SYN_RECEIVED whose peer never answers or
has begun again: it stays taken, as the code has no timeout for it and does not
look at RST, and no liveness can be stated; what a peer does whose SYN|ACK is
acknowledged once and the acknowledgment lost (tcp.c:614: a repeated SYN|ACK is
not answered); the text of HTTP answers and
requests and the formatting helpers of `util.c`; malformed HTTP messages beyond
what the limits refuse; the identifier of an IP header, which nobody reads; packets that are damaged on the way (the code looks
at the checksum of TCP only; of the others it relies on the frame's, which the
chip checks); the examples, which are applications of the library.
