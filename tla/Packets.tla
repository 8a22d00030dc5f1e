------------------------------ MODULE Packets ------------------------------
(***************************************************************************)
(* The packets of src/arp.c, ip.c, icmp.c, udp.c and tcp.c, as they are    *)
(* read and made in the one buffer, each over the remains of the last.     *)
(*                                                                         *)
(* The buffer is a function from positions to words; a word is two bytes,  *)
(* positions are those of the header files, halved.  A word is a tuple of  *)
(* what it holds, so a checksum is the words it was made of.  Bytes of     *)
(* data are even in number.                                                *)
(*                                                                         *)
(* Sequence numbers, the end of a connection and repetitions are the       *)
(* subject of TcpStream and Tcp: here each pair of stations has one number *)
(* for each direction.  Nested calls are Datagram's.                       *)
(***************************************************************************)
EXTENDS Naturals, Sequences

CONSTANTS
  Avr, Hosts,
  Broadcast,             \* the station all others hear
  Options(_),            \* the TCP options a host sends with SYN
  SegmentOptions,        \* and with other segments
  TCP_MAX_SEGMENT_SIZE,  \* in words, like
  Sizes,                 \* the lengths of the data of datagrams and segments,
  EchoSize,              \* and of echo requests,
  NET_BUFFER_SIZE,       \* and the buffer
  Overlapping            \* are data sent on by TCP to a place within themselves?

ASSUME StationAssumption == Avr \notin Hosts /\ Broadcast \notin Hosts \cup {Avr}
ASSUME SizeAssumption ==
  /\ {EchoSize, NET_BUFFER_SIZE} \subseteq Nat /\ {TCP_MAX_SEGMENT_SIZE} \cup Sizes \subseteq Nat \ {0}
  /\ EchoSize >= 9          \* frames are padded to 30 words
  /\ NET_BUFFER_SIZE >= 36  \* what is rejected is quoted up to word 35
  /\ Overlapping \in BOOLEAN

Sequence(words) == words \in Seq({words[k] : k \in DOMAIN words})

(* Options follow each other from where they start.  At most one is the    *)
(* size, and nothing follows the end.                                      *)
WellFormed(options) ==
  /\ Sequence(options)
  /\ \E starts \in SUBSET (1..Len(options)) :
       /\ options # <<>> => 1 \in starts
       /\ \A k \in starts :
            IF options[k][1] = "end" THEN \A j \in starts : j <= k
            ELSE /\ options[k][2] \in 1..(Len(options) + 1 - k)
                 /\ k + options[k][2] \in starts \cup {Len(options) + 1}
                 /\ \A j \in starts : j <= k \/ j >= k + options[k][2]
       /\ \A k \in starts : options[k][1] = "mss" =>
            /\ options[k][2] = 2 /\ options[k + 1][1] = "size" /\ options[k + 1][2] \in Nat
            /\ \A j \in starts : options[j][1] = "mss" => j = k
       /\ \A k \in 1..Len(options) :
            options[k][1] = "size" => k - 1 \in starts /\ options[k - 1][1] = "mss"

ASSUME OptionAssumption ==
  /\ \A h \in Hosts : WellFormed(Options(h))
  /\ Sequence(SegmentOptions)

(* What is sent and received fits.  (TCP_MAX_SEGMENT_SIZE is what a buffer *)
(* leaves for data; the chip cuts off what does not fit.)                  *)
ASSUME FitAssumption ==
  /\ \A n \in Sizes \cup {TCP_MAX_SEGMENT_SIZE} : 27 + n + Len(SegmentOptions) <= NET_BUFFER_SIZE
  /\ \A h \in Hosts : 27 + Len(Options(h)) <= NET_BUFFER_SIZE
  /\ 21 + EchoSize <= NET_BUFFER_SIZE

VARIABLES
  buffer,
  state,          \* of the connection with each host
  maxSegmetSize,  \* of the connection with each host
  given,          \* the data the application has a pointer to
  sent            \* the packet in the buffer that was sent last, and the one it was meant to be

vars == <<buffer, state, maxSegmetSize, given, sent>>

-----------------------------------------------------------------------------
(***************************************************************************)
(* Formats: what the stations of a network send each other                 *)
(***************************************************************************)
Mac(s) == [k \in 1..3 |-> IF s = Broadcast THEN <<"ones">> ELSE <<"mac", s, k>>]
Ip(s) == [k \in 1..2 |-> <<"ip", s, k>>]
Number(s, r) == [k \in 1..2 |-> <<"number", s, r, k>>]
Port(s) == <<"port", s>>
Length(n) == <<"length", n>>
Zeros(n) == [k \in 1..n |-> <<"zero">>]
Data(who, n) == [k \in 1..n |-> <<"data", who, k>>]
Sum(initial, words) == <<"sum", initial, words>>

Frame(from, to, type, words) == Mac(to) \o Mac(from) \o <<<<"type", type>>>> \o words

ArpHeader == <<<<"hardware", 1>>, <<"protocol", "ip">>, <<"sizes", 6, 4>>>>
Arp(opcode, from, to, toMac, toIp) ==
  Frame(from, to, "arp", ArpHeader \o <<<<"opcode", opcode>>>> \o Mac(from) \o Ip(from) \o toMac \o toIp)

IpHeader(from, to, protocol, length, sum) ==
  <<<<"version">>, Length(length), <<"id">>, <<"flags">>, <<"ttl", protocol>>, sum>> \o Ip(from) \o Ip(to)
IpPacket(from, to, protocol, words) ==
  LET Header(sum) == IpHeader(from, to, protocol, 10 + Len(words), sum) IN
  Frame(from, to, "ip", Header(Sum(<<>>, Header(<<"zero">>))) \o words)

Icmp(from, to, type, words) ==
  IpPacket(from, to, "icmp", <<type, Sum(<<>>, <<type, <<"zero">>>> \o words)>> \o words)

(* The checksum between head and tail covers the addresses, the protocol   *)
(* and the length as well.                                                 *)
Summed(from, to, protocol, head, tail) ==
  LET all == head \o <<<<"zero">>>> \o tail
  IN IpPacket(from, to, protocol,
              head \o <<Sum(<<protocol, Len(all)>>, Ip(from) \o Ip(to) \o all)>> \o tail)

Udp(from, to, data) ==
  Summed(from, to, "udp", <<Port(from), Port(to), Length(4 + Len(data))>>, data)

Offset(length, flags) == <<"offset", length, flags>>
Segment(from, to, flags, options, data) ==
  Summed(from, to, "tcp",
         <<Port(from), Port(to)>> \o Number(from, to) \o Number(to, from)
           \o <<Offset(10 + Len(options), flags), <<"window">>>>,
         <<<<"zero">>>> \o options \o data)

MaxSegmetSizeOption(n) == <<<<"mss", 2>>, <<"size", n>>>>

-----------------------------------------------------------------------------
(***************************************************************************)
(* The buffer                                                              *)
(***************************************************************************)
ETH_DST_MAC_P == 0
ETH_SRC_MAC_P == 3
ETH_TYPE_P == 6
ARP_P == 7
ARP_OPCODE_P == 10
ARP_SRC_MAC_P == 11
ARP_SRC_IP_P == 14
ARP_DST_MAC_P == 16
ARP_DST_IP_P == 19
IP_P == 7
IP_TOTLEN_P == 8
IP_PROTO_P == 11
IP_CHECKSUM_P == 12
IP_SRC_IP_P == 13
IP_DST_IP_P == 15
ICMP_TYPE_P == 17
ICMP_CHECKSUM_P == 18
ICMP_IDENTIFIER_P == 19
ICMP_DATA_P == 21
UDP_SRC_PORT_P == 17
UDP_LENGTH_P == 19
UDP_CHECKSUM_P == 20
UDP_DATA_P == 21
TCP_SRC_PORT_P == 17
TCP_SEQ_P == 19
TCP_HEADER_LEN_P == 23
TCP_WINDOWSIZE_P == 24
TCP_CHECKSUM_P == 25
TCP_OPTIONS_P == 27
TCP_DATA_P == 27

Put(b, p, words) ==
  LET place == p..(p + Len(words) - 1)
  IN [k \in DOMAIN b |-> IF k \in place THEN words[k - p + 1] ELSE b[k]]
Words(b, p, n) == [k \in 1..n |-> b[p + k - 1]]

(* What C passes a pointer to: words of the caller's, or a place in the buffer. *)
Own(words) == [words |-> words, at |-> 0]
InBuffer(p) == [words |-> <<>>, at |-> p]

(* memcpy, to `to': it copies upwards (avr-libc's does, C does not say), so *)
(* what it copies to a place within itself repeats what lies below there.  *)
Overlap(pointer, n, to) == pointer.at # 0 /\ pointer.at < to /\ to < pointer.at + n
memcpy(b, pointer, n, to) ==
  CASE pointer.at = 0 -> pointer.words
    [] Overlap(pointer, n, to) -> [k \in 1..n |-> b[pointer.at + ((k - 1) % (to - pointer.at))]]
    [] OTHER -> Words(b, pointer.at, n)

software_checksum(b, p, n, initial) == Sum(initial, Words(b, p, n))

eth_generate_header(b, type, destMac) ==
  Put(b, ETH_DST_MAC_P, destMac \o Mac(Avr) \o <<<<"type", type>>>>)

ip_generate_header(b, totalLength, protocol, destIp) ==
  LET b1 == Put(b, IP_P, IpHeader(Avr, Avr, protocol, totalLength, <<"zero">>))
      b2 == Put(b1, IP_DST_IP_P, destIp)
  IN Put(b2, IP_CHECKSUM_P, <<software_checksum(b2, IP_P, 10, <<>>)>>)

ip_packet_is_ip(b) == b[ETH_TYPE_P] = <<"type", "ip">> /\ Words(b, IP_DST_IP_P, 2) = Ip(Avr)
Protocol(b) == b[IP_PROTO_P][2]

-----------------------------------------------------------------------------
(* ARP *)
ArpPacketIsArp(b, opcode) ==
  b[ETH_TYPE_P] = <<"type", "arp">> /\ b[ARP_OPCODE_P] = <<"opcode", opcode>>
    /\ Words(b, ARP_DST_IP_P, 2) = Ip(Avr)

arp_generate_packet(b, destMac, destIp) ==
  LET b1 == Put(Put(Put(b, ARP_P, ArpHeader), ARP_DST_MAC_P, destMac), ARP_SRC_MAC_P, Mac(Avr))
      b2 == Put(b1, ARP_DST_IP_P, memcpy(b1, destIp, 2, ARP_DST_IP_P))
  IN Put(b2, ARP_SRC_IP_P, Ip(Avr))

arp_request(b, destIp) ==
  LET b1 == eth_generate_header(b, "arp", Mac(Broadcast))
  IN arp_generate_packet(Put(b1, ARP_OPCODE_P, <<<<"opcode", "request">>>>), Zeros(3), Own(destIp))

arp_reply(b, destMac) ==
  LET b1 == eth_generate_header(b, "arp", destMac)
  IN arp_generate_packet(Put(b1, ARP_OPCODE_P, <<<<"opcode", "reply">>>>), destMac, InBuffer(ARP_SRC_IP_P))

-----------------------------------------------------------------------------
(* ICMP *)
IcmpGeneratePacket(b, type, dataLength) ==
  LET b1 == Put(b, ICMP_TYPE_P, <<type, <<"zero">>>>)
  IN Put(b1, ICMP_CHECKSUM_P, <<software_checksum(b1, ICMP_TYPE_P, 4 + dataLength, <<>>)>>)

icmp_reply(b, length, destMac, destIp) ==
  LET b1 == ip_generate_header(eth_generate_header(b, "ip", destMac), length - 7, "icmp", destIp)
  IN IcmpGeneratePacket(b1, <<"echo", "reply">>, length - ICMP_DATA_P)

Quoted(ipTotalLength) == IF ipTotalLength > 14 THEN 14 ELSE ipTotalLength

HeadersFirst(b, remoteMac, remoteIp, quoted) ==  \* mutant of IcmpUnreachable
  LET b1 == ip_generate_header(eth_generate_header(b, "ip", remoteMac), 14 + quoted, "icmp", remoteIp)
  IN IcmpGeneratePacket(Put(b1, ICMP_DATA_P, Words(b1, IP_P, quoted)), <<"unreachable", 12>>, quoted)
IcmpUnreachable(b, remoteMac, remoteIp, quoted) ==
  LET b1 == Put(b, ICMP_DATA_P, Words(b, IP_P, quoted))
      b2 == IcmpGeneratePacket(b1, <<"unreachable", 12>>, quoted)
  IN ip_generate_header(eth_generate_header(b2, "ip", remoteMac), 14 + quoted, "icmp", remoteIp)

-----------------------------------------------------------------------------
(* UDP *)
UdpGenerateHeader(b, h, length) ==
  LET b1 == Put(b, UDP_SRC_PORT_P, <<Port(Avr), Port(h), Length(length), <<"zero">>>>)
  IN Put(b1, UDP_CHECKSUM_P, <<software_checksum(b1, IP_SRC_IP_P, length + 4, <<"udp", length>>)>>)

DataLast(b, h, data, n) ==  \* mutant of UdpDatagram
  LET b1 == ip_generate_header(eth_generate_header(b, "ip", Mac(h)), 14 + n, "udp", Ip(h))
      b2 == UdpGenerateHeader(b1, h, 4 + n)
  IN Put(b2, UDP_DATA_P, memcpy(b2, data, n, UDP_DATA_P))
UdpDatagram(b, h, data, n) ==
  LET b1 == ip_generate_header(eth_generate_header(b, "ip", Mac(h)), 14 + n, "udp", Ip(h))
      b2 == Put(b1, UDP_DATA_P, memcpy(b1, data, n, UDP_DATA_P))
  IN UdpGenerateHeader(b2, h, 4 + n)

-----------------------------------------------------------------------------
(* TCP *)
TcpGetHeaderLength(b) == b[TCP_HEADER_LEN_P][2]
TcpGetDataPosition(b) == TCP_SRC_PORT_P + TcpGetHeaderLength(b)
TcpGetDataLength(b) ==
  LET length == b[IP_TOTLEN_P][2] - 10 - TcpGetHeaderLength(b)
  IN IF b[IP_TOTLEN_P][2] <= 10 + TcpGetHeaderLength(b) THEN 0 ELSE length

TcpChecksum(b) ==
  LET length == TcpGetHeaderLength(b) + TcpGetDataLength(b)
  IN software_checksum(b, IP_SRC_IP_P, length + 4, <<"tcp", length>>)

TcpSetPort(b, destination, source) == Put(b, TCP_SRC_PORT_P, <<source, destination>>)
TcpSetSequence(b, seq, ack) == Put(b, TCP_SEQ_P, seq \o ack)

Unverified(b) == TRUE  \* mutant of TcpVerifyChecksum
TcpVerifyChecksum(b) == b[TCP_CHECKSUM_P] = TcpChecksum(Put(b, TCP_CHECKSUM_P, <<<<"zero">>>>))

HasSyn(flags) == flags \in {"SYN", "SYN|ACK"}
OptionLength(flags) == IF HasSyn(flags) THEN 2 ELSE 0

TcpPacket(b, h, flags, dlength) ==
  LET b1 == eth_generate_header(b, "ip", Mac(h))
      b2 == IF HasSyn(flags) THEN Put(b1, TCP_OPTIONS_P, MaxSegmetSizeOption(TCP_MAX_SEGMENT_SIZE)) ELSE b1
      b3 == ip_generate_header(b2, 20 + OptionLength(flags) + dlength, "tcp", Ip(h))
      b4 == TcpSetPort(TcpSetSequence(b3, Number(Avr, h), Number(h, Avr)), Port(h), Port(Avr))
      b5 == Put(b4, TCP_HEADER_LEN_P,
                <<Offset(IF HasSyn(flags) THEN 12 ELSE 10, flags), <<"window">>, <<"zero">>, <<"zero">>>>)
  IN Put(b5, TCP_CHECKSUM_P, <<TcpChecksum(b5)>>)

(* 0 if there is no such option.  (The code does not return from an option *)
(* of length 0, here 0 as well: none is WellFormed.)                       *)
FirstOnly(b) == IF b[TCP_OPTIONS_P][1] = "mss" THEN TCP_OPTIONS_P ELSE 0  \* mutant of TcpGetOptionPosition
TcpGetOptionPosition(b) ==
  LET From[i \in TCP_OPTIONS_P..TcpGetDataPosition(b)] ==
        IF i = TcpGetDataPosition(b) \/ b[i][1] = "end" THEN 0
        ELSE IF b[i][1] = "mss" THEN i
        ELSE IF b[i][2] \in 1..(TcpGetDataPosition(b) - i) THEN From[i + b[i][2]] ELSE 0
  IN From[TCP_OPTIONS_P]

SegmentSize(b) ==
  LET size == b[TcpGetOptionPosition(b) + 1][2] IN
  IF TcpGetOptionPosition(b) = 0 \/ size = 0 \/ size > TCP_MAX_SEGMENT_SIZE THEN TCP_MAX_SEGMENT_SIZE
                                                                            ELSE size

-----------------------------------------------------------------------------
Nothing == [kind |-> "nothing"]

Init ==
  /\ buffer = [k \in 0..(NET_BUFFER_SIZE - 1) |-> <<"zero">>]
  /\ state = [h \in Hosts |-> "NO_CONNECTION"]
  /\ maxSegmetSize = [h \in Hosts |-> 0]
  /\ given = Nothing /\ sent = Nothing

(* enc28j60_packet_send *)
Sends(kind, b, meant) ==
  /\ buffer' = b
  /\ sent' = [kind |-> kind, frame |-> Words(b, 0, Len(meant)), meant |-> meant]

Ignores(b) == buffer' = b /\ sent' = Nothing

-----------------------------------------------------------------------------
(***************************************************************************)
(* Handlers: the packet in b was sent as f by host h.                      *)
(***************************************************************************)
ArpSendReply(b, h) ==
  Sends("arp", arp_reply(b, Words(b, ETH_SRC_MAC_P, 3)), Arp("reply", Avr, h, Mac(h), Ip(h)))

icmp_send_reply(b, f, h) ==
  Sends("echo", icmp_reply(b, Len(f), Words(b, ETH_SRC_MAC_P, 3), Words(b, IP_SRC_IP_P, 2)),
        Icmp(Avr, h, <<"echo", "reply">>, SubSeq(f, ICMP_IDENTIFIER_P + 1, Len(f))))

(* The four bytes before the quotation are what they were. *)
IcmpSendUnreachable(b, f, h) ==
  LET quoted == Quoted(b[IP_TOTLEN_P][2]) IN
  Sends("unreachable", IcmpUnreachable(b, Mac(h), Ip(h), quoted),
        Icmp(Avr, h, <<"unreachable", 12>>,
             Words(b, ICMP_IDENTIFIER_P, 2) \o SubSeq(f, IP_P + 1, IP_P + quoted)))

(* The application is called, and has its pointer until it calls. *)
UdpHandleIncomingPacket(b, f, h, data) ==
  /\ Ignores(b)
  /\ given' = [kind |-> "udp", at |-> UDP_DATA_P, length |-> b[UDP_LENGTH_P][2] - 4,
                meant |-> data, of |-> f, host |-> h]
  /\ UNCHANGED <<state, maxSegmetSize>>

TcpSends(b, h, flags, data) ==
  Sends("segment", TcpPacket(b, h, flags, Len(data)),
        Segment(Avr, h, flags, IF HasSyn(flags) THEN MaxSegmetSizeOption(TCP_MAX_SEGMENT_SIZE) ELSE <<>>, data))

(* TcpGetConnectionId and the answer of the application. *)
NewConnection(b, f, h) ==
  \/ /\ state' = [state EXCEPT ![h] = "SYN_RECEIVED"]
     /\ maxSegmetSize' = [maxSegmetSize EXCEPT ![h] = SegmentSize(b)]
     /\ TcpSends(b, h, "SYN|ACK", <<>>)
  \/ Ignores(b) /\ UNCHANGED <<state, maxSegmetSize>>
  \/ IcmpSendUnreachable(b, f, h) /\ UNCHANGED <<state, maxSegmetSize>>

(* The data of a segment with the expected number is passed on after it    *)
(* was acknowledged, that of any other is only acknowledged.               *)
IncomingData(b, f, h, data) ==
  /\ TcpSends(b, h, "ACK", <<>>)
  /\ \/ given' = Nothing
     \/ given' = [kind |-> "tcp", at |-> TcpGetDataPosition(buffer'), length |-> TcpGetDataLength(b),
                  meant |-> data, of |-> f, host |-> h]

Keeps == given' = Nothing /\ UNCHANGED <<state, maxSegmetSize>>

TcpHandleIncomingPacket(b, f, h, data) ==
  LET valid == TcpVerifyChecksum(b)
      syn == b[TCP_HEADER_LEN_P][3] = "SYN" IN
  \/ /\ ~valid
     /\ Ignores(b) /\ Keeps
  \/ /\ valid /\ syn /\ state[h] = "NO_CONNECTION"
     /\ NewConnection(b, f, h) /\ given' = Nothing
  \/ /\ valid /\ syn /\ state[h] = "SYN_RECEIVED"
     /\ TcpSends(b, h, "SYN|ACK", <<>>) /\ Keeps
  \/ /\ valid /\ ~(syn /\ state[h] \in {"NO_CONNECTION", "SYN_RECEIVED"})
     /\ state' = IF ~syn /\ state[h] = "SYN_RECEIVED" THEN [state EXCEPT ![h] = "ESTABLISHED"] ELSE state
     /\ IF state'[h] = "ESTABLISHED" /\ TcpGetDataLength(b) # 0 THEN IncomingData(b, f, h, data)
                                                               ELSE Ignores(b) /\ given' = Nothing
     /\ UNCHANGED maxSegmetSize

(* TcpWaitPacket in TcpConnect, and what follows it *)
Awaited(b, h) == state[h] = "NEW" /\ b[TCP_HEADER_LEN_P][3] = "SYN|ACK" /\ TcpVerifyChecksum(b)

Connected(b, h) ==
  /\ state' = [state EXCEPT ![h] = "ESTABLISHED"]
  /\ maxSegmetSize' = [maxSegmetSize EXCEPT ![h] = SegmentSize(b)]
  /\ TcpSends(b, h, "ACK", <<>>)
  /\ given' = Nothing

IsEcho(b) == Protocol(b) = "icmp" /\ b[ICMP_TYPE_P] = <<"echo", "request">>

NetHandleIncomingPacket(b, f, h, data) ==
  CASE ArpPacketIsArp(b, "request") -> ArpSendReply(b, h) /\ Keeps
    [] ip_packet_is_ip(b) /\ IsEcho(b) -> icmp_send_reply(b, f, h) /\ Keeps
    [] ip_packet_is_ip(b) /\ Protocol(b) = "udp" -> UdpHandleIncomingPacket(b, f, h, data)
    [] ip_packet_is_ip(b) /\ Protocol(b) = "tcp" ->
         IF Awaited(b, h) THEN Connected(b, h) ELSE TcpHandleIncomingPacket(b, f, h, data)
    [] OTHER -> Ignores(b) /\ Keeps

-----------------------------------------------------------------------------
(***************************************************************************)
(* What host h may send: requests and replies, also those meant for others *)
(* and, of segments, damaged ones.  It answers a SYN as it opens itself,   *)
(* with its options, and does not open while it is being connected to.     *)
(***************************************************************************)
Packet(frame, data) == [frame |-> frame, data |-> data]
Datas(who) == {Data(who, n) : n \in Sizes}

ArpPackets(h) ==
  {Packet(Arp("request", h, s, Zeros(3), Ip(Avr)), <<>>) : s \in {Avr, Broadcast}}
  \cup {Packet(Arp("request", h, Broadcast, Zeros(3), Ip(h)), <<>>),
        Packet(Arp("reply", h, Avr, Mac(Avr), Ip(Avr)), <<>>)}
Echoes(h) == {Packet(Icmp(h, Avr, <<"echo", type>>, Data(h, 2 + EchoSize)), <<>>) : type \in {"request", "reply"}}
Datagrams(h) == {Packet(Udp(h, s, data), data) : s \in {Avr, h}, data \in Datas(h)}
Segments(h) == {Packet(Segment(h, Avr, "ACK", SegmentOptions, data), data) : data \in {<<>>} \cup Datas(h)}
DamagedSegments(h) ==
  {Packet([Segment(h, Avr, "ACK", SegmentOptions, data) EXCEPT ![TCP_DATA_P + 1] = <<"noise">>], data) :
     data \in Datas(h)}
Openings(h) ==
  {Packet(Segment(h, Avr, flags, Options(h), <<>>), <<>>) :
     flags \in {"SYN|ACK"} \cup (IF state[h] = "NEW" THEN {} ELSE {"SYN"})}

AtAnyTime ==
  [h \in Hosts |-> ArpPackets(h) \cup Echoes(h) \cup Datagrams(h) \cup Segments(h) \cup DamagedSegments(h)]
Network(h) == AtAnyTime[h] \cup Openings(h)

(* The chip has padded what it received. *)
enc28j60_packet_receive(b, f) == Put(b, 0, IF Len(f) < 30 THEN f \o Data("padding", 30 - Len(f)) ELSE f)

NetHandleNetwork ==
  \E h \in Hosts : \E p \in Network(h) :
    NetHandleIncomingPacket(enc28j60_packet_receive(buffer, p.frame), p.frame, h, p.data)

-----------------------------------------------------------------------------
(***************************************************************************)
(* The application                                                         *)
(***************************************************************************)
(* Data of its own, or what it was given, where it is. *)
Sources ==
  {[pointer |-> Own(data), meant |-> data] : data \in Datas("application")}
  \cup (IF given = Nothing THEN {} ELSE {[pointer |-> InBuffer(given.at), meant |-> given.meant]})

ArpWhoIs(h) == Sends("request", arp_request(buffer, Ip(h)), Arp("request", Avr, Broadcast, Zeros(3), Ip(h))) /\ Keeps

(* Data that are refused change nothing. *)
Fits(n) == (n + 21 + n) % 32768 <= NET_BUFFER_SIZE

UdpSendDataMac(h) ==
  /\ \E s \in Sources :
       Fits(Len(s.meant)) /\
       Sends("datagram", UdpDatagram(buffer, h, s.pointer, Len(s.meant)), Udp(Avr, h, s.meant))
  /\ Keeps

(* One part of the data. *)
PartLength(h, n) == IF n < maxSegmetSize[h] THEN n ELSE maxSegmetSize[h]

TcpSendData(h) ==
  /\ state[h] = "ESTABLISHED"
  /\ \E s \in Sources :
       LET n == PartLength(h, Len(s.meant)) IN
       /\ Overlapping \/ ~Overlap(s.pointer, n, TCP_DATA_P)
       /\ TcpSends(Put(buffer, TCP_DATA_P, SubSeq(memcpy(buffer, s.pointer, n, TCP_DATA_P), 1, n)),
                   h, "ACK", SubSeq(s.meant, 1, n))
  /\ Keeps

TcpConnect(h) ==
  /\ state[h] = "NO_CONNECTION"
  /\ state' = [state EXCEPT ![h] = "NEW"]
  /\ TcpSends(buffer, h, "SYN", <<>>)
  /\ given' = Nothing /\ UNCHANGED maxSegmetSize

TimedOut(h) ==
  /\ state[h] = "NEW"
  /\ state' = [state EXCEPT ![h] = "NO_CONNECTION"]
  /\ given' = Nothing
  /\ UNCHANGED <<buffer, maxSegmetSize, sent>>

(* The callback of a datagram refuses it. *)
Reject ==
  /\ given.kind = "udp"
  /\ IcmpSendUnreachable(buffer, given.of, given.host)
  /\ Keeps

Next ==
  \/ NetHandleNetwork \/ Reject
  \/ \E h \in Hosts : ArpWhoIs(h) \/ UdpSendDataMac(h) \/ TcpSendData(h) \/ TcpConnect(h) \/ TimedOut(h)

Spec == Init /\ [][Next]_vars
-----------------------------------------------------------------------------
(* Type invariant: no packet is longer than the buffer, and nothing is     *)
(* written beside it.                                                      *)
TypeOK ==
  /\ DOMAIN buffer = 0..(NET_BUFFER_SIZE - 1)
  /\ state \in [Hosts -> {"NO_CONNECTION", "NEW", "SYN_RECEIVED", "ESTABLISHED"}]
  /\ maxSegmetSize \in [Hosts -> 0..TCP_MAX_SEGMENT_SIZE]

(* What answers a packet in its place is the answer to it: an ARP reply,   *)
(* which goes to where the request came from (src/arp.c:165), an echo with *)
(* all the request held (src/icmp.c:114), a rejection that quotes its      *)
(* datagram as it had come.                                                *)
RepliesRight == sent.kind \in {"arp", "echo", "unreachable"} => sent.frame = sent.meant

(* What the library sends of its own, or for the application, is made      *)
(* right whatever the buffer held: the ARP request for an address, the     *)
(* datagram with its caller's data, the segment with the addresses, ports  *)
(* and numbers of its connection, all under checksums that are true.       *)
SentRight == sent.kind \in {"request", "datagram", "segment"} => sent.frame = sent.meant

(* The application finds the data of a packet where it is told to look,    *)
(* though the packet's acknowledgment was made over its headers.           *)
DataRight == given # Nothing => Words(buffer, given.at, given.length) = given.meant

(* Segments are no longer than their receiver has said it takes ("setup    *)
(* maximum segment size", src/tcp.c:169), wherever the option stood, and   *)
(* never than the buffer.                                                  *)
SegmentSizeKept ==
  \A h \in Hosts : state[h] = "ESTABLISHED" =>
    /\ maxSegmetSize[h] \in 1..TCP_MAX_SEGMENT_SIZE
    /\ \A k \in DOMAIN Options(h) :
         Options(h)[k][1] = "size" /\ Options(h)[k][2] # 0 => maxSegmetSize[h] <= Options(h)[k][2]
=============================================================================
