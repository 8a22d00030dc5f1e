------------------------------ MODULE Datagram ------------------------------
(***************************************************************************)
(* Datagrams: src/udp.c and src/icmp.c over the dispatch of src/network.c, *)
(* the wait of src/ethernet.c and the headers of src/ip.c, with the one    *)
(* buffer they all share.                                                  *)
(*                                                                         *)
(* As in Tcp, whatever waits handles the other packets, and the callback   *)
(* of a datagram may send and wait again: `stack' holds the functions in   *)
(* progress, the running one last, the application's main loop first.      *)
(*                                                                         *)
(* A datagram is its remote host (with its one remote port), its port here *)
(* and a tag: 0, or the number of the request it carries or answers.       *)
(* Hosts answer a request as often and as late as they like, or never.     *)
(***************************************************************************)
EXTENDS Integers, SequencesExt

CONSTANTS
  Hosts, NoHost,
  NET_MIN_DINAMIC_PORT, NET_MAX_PORT,
  FirstPort,     \* connectPortRotaiting when the run begins
  MAX_TX_BUFFER, \* NET_BUFFER_SIZE
  Lengths,       \* of the data of datagrams and echo requests
  Timeouts,      \* passed to UdpReceiveData
  ShortMax,      \* largest unsigned short (65535)
  Polls,         \* polls of the driver in a millisecond (10) or in the wait of ArpWhoIs
  MaxRotations,  \* local ports given to requests and to TcpConnect
  InPlace,       \* functions that are given data where it was received
  MaxCalls,      \* calls one callback makes before it returns
  MaxDepth       \* functions in progress

ServerPort == NET_MIN_DINAMIC_PORT - 1  \* stands for the ports the application listens on
Dynamic == NET_MIN_DINAMIC_PORT..NET_MAX_PORT

ASSUME HostAssumption == NoHost \notin Hosts
ASSUME PortAssumption ==
  /\ {NET_MIN_DINAMIC_PORT, NET_MAX_PORT} \subseteq Nat /\ NET_MIN_DINAMIC_PORT > 0
  /\ FirstPort \in Dynamic
ASSUME SizeAssumption ==
  /\ Lengths \subseteq 0..(MAX_TX_BUFFER - 42) /\ MAX_TX_BUFFER \in Nat
  /\ Timeouts \subseteq 0..ShortMax /\ ShortMax \in Nat
  /\ Polls \in Nat \ {0} /\ {MaxRotations, MaxCalls, MaxDepth} \subseteq Nat
  /\ InPlace \subseteq {"UdpSendDataMac", "UdpSendData"}

VARIABLES
  stack,                \* functions in progress
  buffer,               \* the datagram whose header, and whose data, is in the buffer
  connectPortRotaiting, \* the local port given last
  rotations,            \* how many were given
  asked,                \* requests that were sent
  last                  \* the datagram or echo the last step sent or returned

vars == <<stack, buffer, connectPortRotaiting, rotations, asked, last>>

Datagrams == [host : Hosts, port : ServerPort..NET_MAX_PORT, tag : 0..MaxRotations]
Nothing == [host |-> NoHost, port |-> ServerPort, tag |-> 0]
Datagram(h, p, k) == [host |-> h, port |-> p, tag |-> k]

(* Functions in progress: the application (main or callback), ArpWhoIs for *)
(* UdpSendData, and UdpReceiveData.                                        *)
(*   d        the callback's datagram, what is to be sent, or the request  *)
(*            whose answer is awaited                                      *)
(*   held     received data the application may use, or the data to send   *)
(*   request  the request the application has sent last                    *)
Function(fn, d, held, timeout) ==
  [fn |-> fn, d |-> d, held |-> held, request |-> Nothing, calls |-> 0,
   timeout |-> timeout, waiting |-> 0, polls |-> 0]

Functions == [fn : {"main", "UdpOnIncomingDatagram", "UdpSendData", "UdpReceiveData"},
              d : Datagrams \cup {Nothing}, held : Datagrams \cup {Nothing},
              request : Datagrams \cup {Nothing}, calls : 0..MaxCalls,
              timeout : Timeouts \cup {0}, waiting : 0..ShortMax, polls : 0..Polls]

Top == stack[Len(stack)]
Below == SubSeq(stack, 1, Len(stack) - 1)
Replaced(s, f) == [s EXCEPT ![Len(s)] = f]

Quiet == [kind |-> "nothing"]
Empty == [head |-> Nothing, data |-> Nothing]

(* NetInit *)
Init ==
  /\ stack = <<Function("main", Nothing, Nothing, 0)>>
  /\ buffer = Empty
  /\ connectPortRotaiting = FirstPort /\ rotations = 0
  /\ asked = {}
  /\ last = Quiet

-----------------------------------------------------------------------------
(***************************************************************************)
(* Lengths: 42 bytes of headers before the data, frames of 60 at least.    *)
(***************************************************************************)
Headers == 42
FrameLength(len) == IF len + Headers < 60 THEN 60 ELSE len + Headers
WithHeader(length) == length - 34  \* mutant of DataLength: the header of UDP or ICMP counts as data
DataLength(length) == length - Headers

(* dataLength + headers + dataLength, in the 16 bits of unsigned int *)
Fits(len) == (len + Headers + len) % 65536 <= MAX_TX_BUFFER

(* What goes into the checksum of an echo: an unsigned char of data. *)
Summed(length) == DataLength(length) % 256

-----------------------------------------------------------------------------
(***************************************************************************)
(* Received packets.  Handlers continue with the stack stk.                *)
(***************************************************************************)
Packet(kind, h) == [kind |-> kind, d |-> Datagram(h, ServerPort, 0)]

(* Unsolicited packets, answers to requests, packets for another ip.  What *)
(* answers an ARP request or a segment overwrites the buffer as well.      *)
Network ==
  {Packet(kind, h) : kind \in {"arpRequest", "arpReply", "echo", "udp", "tcp", "stray"}, h \in Hosts}
    \cup {[kind |-> "udp", d |-> d] : d \in asked}

(* The callback gets a copy of the addresses, but the data in the buffer. *)
UdpHandleIncomingPacket(d, stk) ==
  /\ Len(stk) < MaxDepth
  /\ stack' = Append(stk, Function("UdpOnIncomingDatagram", d, d, 0))
  /\ buffer' = [head |-> d, data |-> d]
  /\ last' = Quiet

IcmpSendReply(len) ==
  last' = [kind |-> "echo", len |-> len, told |-> DataLength(FrameLength(len)),
           summed |-> Summed(FrameLength(len))]

NetHandleIncomingPacket(p, stk) ==
  \/ p.kind = "udp" /\ UdpHandleIncomingPacket(p.d, stk)
  \/ /\ p.kind # "udp"
     /\ IF p.kind = "echo" THEN \E len \in Lengths : IcmpSendReply(len) ELSE last' = Quiet
     /\ buffer' = Empty
     /\ stack' = stk

(* The length comes from the frame, the data is in the buffer. *)
Returned(p, len) ==
  /\ stack' = Replaced(Below, [Below[Len(Below)] EXCEPT !.held = p.d])
  /\ buffer' = [head |-> p.d, data |-> p.d]
  /\ last' = [kind |-> "returned", asked |-> Top.d, got |-> p.d,
              len |-> len, told |-> DataLength(FrameLength(len))]

-----------------------------------------------------------------------------
(***************************************************************************)
(* Sending                                                                 *)
(***************************************************************************)
(* The data is the application's own (Nothing), or was received and is     *)
(* copied from `in', the buffer as it is by now.  Its caller, whose stack  *)
(* is stk, learns the port, by which an answer can be asked for.           *)
UdpSend(d, meant, in, stk) ==
  \/ /\ \E len \in Lengths : Fits(len)
     /\ stack' = IF d.tag = 0 THEN stk ELSE Replaced(stk, [stk[Len(stk)] EXCEPT !.request = d])
     /\ buffer' = [head |-> Nothing, data |-> IF meant = Nothing THEN Nothing ELSE in.data]
     /\ asked' = IF d.tag = 0 THEN asked ELSE asked \cup {d}
     /\ last' = [kind |-> "udp", d |-> d, data |-> buffer'.data, meant |-> meant]
  \/ \E len \in Lengths :
       /\ ~Fits(len)
       /\ stack' = stk
       /\ buffer' = in
       /\ last' = [kind |-> "refused", d |-> d, len |-> len]
       /\ UNCHANGED asked

(* The mac is in the cache, or asked for and waited for. *)
ArpWhoIs(d, data, stk) ==
  \/ UdpSend(d, data, buffer, stk)
  \/ /\ Len(stk) < MaxDepth
     /\ stack' = Append(stk, Function("UdpSendData", d, data, 0))
     /\ buffer' = [buffer EXCEPT !.head = Nothing]
     /\ last' = Quiet
     /\ UNCHANGED asked

-----------------------------------------------------------------------------
(***************************************************************************)
(* The application: the main loop, or a callback                           *)
(***************************************************************************)
MayCall == \/ Top.fn = "main"
           \/ Top.fn = "UdpOnIncomingDatagram" /\ Top.calls < MaxCalls

(* Its stack once it has called: data it held may be gone. *)
Called == Replaced(stack, [Top EXCEPT !.held = Nothing, !.request = Nothing,
                                      !.calls = IF Top.fn = "main" THEN 0 ELSE @ + 1])

(* Data of its own, or what it holds. *)
Sources(fn) == {Nothing} \cup (IF fn \in InPlace THEN {Top.held} ELSE {})

LookedUp ==  \* mutant of UdpSendDataMac: it looks for the mac it was given
  /\ MayCall
  /\ \E h \in Hosts, data \in Sources("UdpSendDataMac") :
       ArpWhoIs(Datagram(h, ServerPort, 0), data, Called)
  /\ UNCHANGED <<connectPortRotaiting, rotations>>

UdpSendDataMac ==
  /\ MayCall
  /\ \E h \in Hosts, data \in Sources("UdpSendDataMac") :
       UdpSend(Datagram(h, ServerPort, 0), data, buffer, Called)
  /\ UNCHANGED <<connectPortRotaiting, rotations>>

UdpSendData ==
  /\ MayCall
  /\ \E h \in Hosts, data \in Sources("UdpSendData") :
       ArpWhoIs(Datagram(h, ServerPort, 0), data, Called)
  /\ UNCHANGED <<connectPortRotaiting, rotations>>

Stuck(p) == IF p = NET_MAX_PORT THEN p ELSE p + 1 \* mutant of NextPort
NextPort(p) == IF p = NET_MAX_PORT THEN NET_MIN_DINAMIC_PORT ELSE p + 1

Rotate ==
  /\ MayCall /\ rotations < MaxRotations
  /\ rotations' = rotations + 1
  /\ connectPortRotaiting' = NextPort(connectPortRotaiting)

UdpSendDataTmpPort ==
  /\ Rotate
  /\ \E h \in Hosts : ArpWhoIs(Datagram(h, connectPortRotaiting', rotations'), Nothing, Called)

(* TcpConnect takes the port given last and gives another, without effect  *)
(* on datagrams but that the counter goes on (see Tcp for the rest).       *)
TcpConnect ==
  /\ Rotate
  /\ stack' = Called
  /\ buffer' = Empty
  /\ last' = Quiet
  /\ UNCHANGED asked

(* With the port that UdpSendDataTmpPort has just returned, or a port that *)
(* the application listens on anyway.                                      *)
UdpReceiveData ==
  /\ MayCall /\ Len(stack) < MaxDepth
  /\ \E t \in Timeouts,
        d \in IF Top.request # Nothing THEN {Top.request}
              ELSE {Datagram(h, ServerPort, 0) : h \in Hosts} :
       stack' = Append(Called, Function("UdpReceiveData", d, Nothing, t))
  /\ last' = Quiet
  /\ UNCHANGED <<buffer, connectPortRotaiting, rotations, asked>>

NetHandleNetwork ==
  /\ MayCall
  /\ \E p \in Network : NetHandleIncomingPacket(p, Called)
  /\ UNCHANGED <<connectPortRotaiting, rotations, asked>>

(* The address comes from the copy, what is quoted from the buffer. *)
FromBuffer(d) == [to |-> buffer.head.host, about |-> buffer.head]  \* mutant of Unreachable
Unreachable(d) == [to |-> d.host, about |-> buffer.head]

CallbackReturns ==
  /\ Top.fn = "UdpOnIncomingDatagram"
  /\ stack' = Below
  /\ \/ last' = Quiet /\ UNCHANGED buffer
     \/ /\ last' = [kind |-> "unreachable", of |-> Top.d, calls |-> Top.calls,
                    sent |-> Unreachable(Top.d)]
        /\ buffer' = Empty
  /\ UNCHANGED <<connectPortRotaiting, rotations, asked>>

-----------------------------------------------------------------------------
(***************************************************************************)
(* Waiting: EthWaitPacket in ArpWhoIs and in UdpReceiveData                *)
(***************************************************************************)
Expired == Top.waiting > Top.timeout
Polling(fn) == Top.fn = fn /\ Top.polls < Polls /\ ~Expired

(* A poll, and a round of UdpReceiveData's loop, that did not succeed. *)
Polled == Replaced(stack, [Top EXCEPT !.polls = @ + 1])
NotCounted == Replaced(stack, [Top EXCEPT !.polls = 0])  \* mutant of Missed
Missed == Replaced(stack, [Top EXCEPT !.polls = 0, !.waiting = (@ + 1) % (ShortMax + 1)])

IsArp(p) == p.kind \in {"arpRequest", "arpReply"}

(* A packet of the type waited for, sent to this station, ends the wait,   *)
(* also a request or a stray reply; a broadcast or any other is handled on *)
(* the spot.                                                               *)
ArpWaits ==
  /\ Polling("UdpSendData")
  /\ \E p \in Network :
       \/ p.kind = "arpReply" /\ UdpSend(Top.d, Top.held, Empty, Below)
       \/ p.kind \in {"arpRequest", "stray"} /\ NetHandleIncomingPacket(p, Below) /\ UNCHANGED asked
       \/ NetHandleIncomingPacket(p, Polled) /\ UNCHANGED asked
  /\ UNCHANGED <<connectPortRotaiting, rotations>>

Awaited(p) == p.kind = "udp" /\ p.d.host = Top.d.host /\ p.d.port = Top.d.port

ReceiveWaits ==
  /\ Polling("UdpReceiveData")
  /\ \E p \in Network :
       \/ Awaited(p) /\ \E len \in Lengths : Returned(p, len)
       \/ ~IsArp(p) /\ ~Awaited(p) /\ NetHandleIncomingPacket(p, Missed)
       \/ NetHandleIncomingPacket(p, Polled)
  /\ UNCHANGED <<connectPortRotaiting, rotations, asked>>

(* EthWaitPacket returns 0. *)
NoPacket ==
  /\ \/ Top.fn = "UdpSendData" /\ stack' = Below
     \/ Top.fn = "UdpReceiveData" /\ ~Expired /\ stack' = Missed
  /\ last' = Quiet
  /\ UNCHANGED <<buffer, connectPortRotaiting, rotations, asked>>

TimedOut ==
  /\ Top.fn = "UdpReceiveData" /\ Expired
  /\ stack' = Below
  /\ last' = Quiet
  /\ UNCHANGED <<buffer, connectPortRotaiting, rotations, asked>>

-----------------------------------------------------------------------------
Calls == \/ UdpSendDataMac \/ UdpSendData \/ UdpSendDataTmpPort \/ TcpConnect
         \/ UdpReceiveData \/ NetHandleNetwork
Progress == ArpWaits \/ ReceiveWaits \/ NoPacket \/ TimedOut \/ CallbackReturns

Next == Calls \/ Progress

Spec == Init /\ [][Next]_vars

(* Polls take their time, and a callback returns. *)
FairSpec == Spec /\ WF_vars(Progress)
-----------------------------------------------------------------------------
(***************************************************************************)
(* Properties                                                              *)
(***************************************************************************)
(* Type invariant: in particular the local port stays a dynamic one, and   *)
(* counters of waits stay within their width.                              *)
TypeOK ==
  /\ stack \in Seq(Functions) /\ Len(stack) \in 1..(MaxDepth + 1)
  /\ \A k \in DOMAIN stack : (stack[k].fn = "main") = (k = 1)
  /\ buffer \in [head : Datagrams \cup {Nothing}, data : Datagrams \cup {Nothing}]
  /\ connectPortRotaiting \in Dynamic /\ rotations \in 0..MaxRotations
  /\ asked \subseteq Datagrams

(* What UdpReceiveData returns answers the request that was sent from its  *)
(* port ("use UdpReceiveData for catch response with returned port value", *)
(* README.md:286), however requests nest and answers are late.             *)
ResponseIsOwn == last.kind = "returned" => last.got = last.asked

(* A callback that refuses its datagram has its sender told; the message   *)
(* quotes that datagram if the callback has called nothing                 *)
(* ("application code nothing do with datagram", README.md:194).           *)
RejectsItsDatagram ==
  last.kind = "unreachable" =>
    /\ last.sent.to = last.of.host
    /\ last.calls = 0 => last.sent.about = last.of

(* The same whatever the callback has called. *)
QuotesRejected == last.kind = "unreachable" => last.sent.about = last.of

(* A datagram carries the data the application gave, also when it was      *)
(* given where it had been received ("good in UdpOnIncomingDatagram if you *)
(* sending response as UDP server", README.md:265).                        *)
SentIsMeant == last.kind = "udp" => last.data = last.meant

(* The application is told the length of what was sent to it, and an echo  *)
(* is as long as its request and summed up as a whole ("before library not *)
(* response with same icmp length as was request", CHANGES.md:15).         *)
LengthsKept ==
  /\ last.kind \in {"returned", "echo"} => last.told = last.len
  /\ last.kind = "echo" => last.summed = last.told

(* Data that fits into the buffer is sent ("define maximum size of sended  *)
(* packet", README.md:62).                                                 *)
SendsWhatFits == last.kind # "refused"

(* Every function that waits returns, whatever arrives meanwhile: the main *)
(* loop is reached again and again.                                        *)
CallsReturn == []<>(Len(stack) = 1)
=============================================================================
