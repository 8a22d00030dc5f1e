----------------------------- MODULE TcpOpening -----------------------------
(***************************************************************************)
(* A connection of src/tcp.c from its first SYN on: the handshake, begun   *)
(* by either side over a network that loses, repeats and delays, and then  *)
(* the stream of TcpStream.                                                *)
(*                                                                         *)
(* Numbers are those of the segments here.  The 0 of TcpStream stands for  *)
(* the number that follows a SYN.                                          *)
(***************************************************************************)
EXTENDS TcpStream

CONSTANT Isns  \* the first numbers the peer chooses from, one for each attempt

ASSUME IsnAssumption == Isns \subseteq Nat

VARIABLES
  opening,  \* state of the slot until the connection is established
  numbers,  \* sendSequence and expectedSequence; later, what TcpStream's 0 stand for
  peer,     \* the peer's side: its state, first number and what it expects
  segments  \* of the handshake, each of which may still arrive; none is of
            \* any effect once both sides are established

handshake == <<opening, numbers, peer, segments>>

Segments == [from : {"avr", "peer"}, flags : {"SYN", "SYN|ACK", "ACK"}, seq : Nat, ack : Nat]
Sent(from, flags, seq, ack) ==
  segments' = segments \cup {[from |-> from, flags |-> flags, seq |-> seq, ack |-> ack]}
Arrives(s, from, flags) == s \in segments /\ s.from = from /\ s.flags = flags

(* The peer is a server, or a client. *)
OpeningInit ==
  /\ Init
  /\ opening = "NO_CONNECTION" /\ numbers = [send |-> 0, expected |-> 0]
  /\ peer \in [state : {"LISTEN", "CLOSED"}, isn : {0}, expects : {0}]
  /\ segments = {}

-----------------------------------------------------------------------------
(***************************************************************************)
(* The peer.  It may give up and try again, with another first number.     *)
(***************************************************************************)
MayChoose(n) == n = peer.isn \/ ~\E s \in segments : s.from = "peer" /\ s.seq = n

PeerConnects(n) ==
  /\ peer.state \in {"CLOSED", "SYN_SENT"} /\ MayChoose(n)
  /\ peer' = [state |-> "SYN_SENT", isn |-> n, expects |-> 0]
  /\ Sent("peer", "SYN", n, 0)
  /\ UNCHANGED <<opening, numbers, vars>>

PeerAccepts(s, n) ==
  /\ Arrives(s, "avr", "SYN") /\ peer.state \in {"LISTEN", "SYN_RECEIVED"} /\ MayChoose(n)
  /\ peer' = [state |-> "SYN_RECEIVED", isn |-> n, expects |-> s.seq + 1]
  /\ Sent("peer", "SYN|ACK", n, s.seq + 1)
  /\ UNCHANGED <<opening, numbers, vars>>

(* Its acknowledgment of a SYN|ACK is the one that TcpStream starts with.  *)
(* What data of the library acknowledges is what its ACK does, which may   *)
(* arrive just before.                                                     *)
PeerEstablished(s) ==
  /\ \/ Arrives(s, "avr", "SYN|ACK") /\ peer.state = "SYN_SENT"
     \/ Arrives(s, "avr", "ACK") /\ peer.state = "SYN_RECEIVED" /\ s.seq = peer.expects
  /\ s.ack = peer.isn + 1
  /\ peer' = [peer EXCEPT !.state = "ESTABLISHED",
                          !.expects = IF s.flags = "ACK" THEN s.seq ELSE s.seq + 1]
  /\ segments' = IF opening = "ESTABLISHED" THEN {} ELSE segments
  /\ UNCHANGED <<opening, numbers, vars>>

-----------------------------------------------------------------------------
(* A SYN finds a new slot, or the one of its predecessor, whose numbers are *)
(* kept, in TcpGetConnectionId, and is answered.                           *)
NewConnection(s) ==
  /\ Arrives(s, "peer", "SYN")
  /\ \/ opening = "NO_CONNECTION" /\ numbers' = [send |-> 2, expected |-> s.seq + 1]
     \/ opening = "SYN_RECEIVED" /\ UNCHANGED numbers
  /\ opening' = "SYN_RECEIVED"
  /\ Sent("avr", "SYN|ACK", numbers'.send, numbers'.expected)
  /\ UNCHANGED <<peer, vars>>

KeptNumber(ack) == numbers.send  \* mutant of Acknowledged
Acknowledged(ack) == ack

(* The first segment with ACK makes the connection, whatever it            *)
(* acknowledges (line 598).                                                *)
Confirm(ack) ==
  /\ opening = "SYN_RECEIVED"
  /\ opening' = "ESTABLISHED"
  /\ numbers' = [numbers EXCEPT !.send = Acknowledged(ack)]
  /\ UNCHANGED peer

(* The rest of TcpHandleIncomingPacket goes on with the same segment. *)
PeerConfirms(p) ==
  /\ peer.state = "ESTABLISHED"
  /\ Confirm(peer.expects + p.ack)
  /\ segments' = {}
  /\ NetHandleNetwork(p)

(* To a server, from a port that is not used again. *)
TcpConnect ==
  /\ opening = "NO_CONNECTION" /\ peer.state = "LISTEN" /\ segments = {}
  /\ opening' = "NEW"
  /\ numbers' = [send |-> 3, expected |-> 0]
  /\ Sent("avr", "SYN", 2, 0)
  /\ UNCHANGED <<peer, vars>>

TcpConnectHit(s) ==
  /\ Arrives(s, "peer", "SYN|ACK") /\ opening = "NEW" /\ s.ack = numbers.send
  /\ opening' = "ESTABLISHED"
  /\ numbers' = [numbers EXCEPT !.expected = s.seq + 1]
  /\ Sent("avr", "ACK", numbers.send, s.seq + 1)
  /\ UNCHANGED <<peer, vars>>

TcpConnectExpired ==
  /\ opening = "NEW" /\ opening' = "NO_CONNECTION"
  /\ UNCHANGED <<numbers, peer, segments, vars>>

-----------------------------------------------------------------------------
Stream ==
  /\ opening = "ESTABLISHED"
  /\ Calls \/ (peer.state = "ESTABLISHED" /\ Arrivals)
  /\ UNCHANGED handshake

OpeningNext ==
  \/ \E n \in Isns : PeerConnects(n) \/ \E s \in segments : PeerAccepts(s, n)
  \/ \E s \in segments : PeerEstablished(s) \/ NewConnection(s) \/ TcpConnectHit(s)
  \/ \E p \in FromPeer : PeerConfirms(p)
  \/ TcpConnect \/ TcpConnectExpired
  \/ Stream

OpeningSpec == OpeningInit /\ [][OpeningNext]_<<handshake, vars>>

(* The same where a segment of an earlier connection between the two ports *)
(* may still arrive.  Every connection of the library counts from 2; this  *)
(* one acknowledges the first byte.                                        *)
StaleConfirms == Confirm(4) /\ UNCHANGED <<segments, vars>>

StaleSpec == OpeningInit /\ [][OpeningNext \/ StaleConfirms]_<<handshake, vars>>

-----------------------------------------------------------------------------
(* When both sides take the connection for established, each expects what  *)
(* the other sends next, whatever was lost, repeated or given up on the    *)
(* way; otherwise all that is sent from then on is ignored.                *)
NumbersAgree ==
  opening = "ESTABLISHED" /\ peer.state = "ESTABLISHED" =>
    numbers = [send |-> peer.expects, expected |-> peer.isn + 1]
=============================================================================
