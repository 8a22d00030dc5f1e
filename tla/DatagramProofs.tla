--------------------------- MODULE DatagramProofs ---------------------------
(***************************************************************************)
(* Theorems about Datagram, for any hosts, ports, lengths and timeouts and *)
(* however callbacks nest.                                                 *)
(***************************************************************************)
EXTENDS Datagram, ArpCache, SequenceTheorems, TLAPS

(* No port is given twice while answers to its first use may arrive. *)
Unique == MaxRotations <= NET_MAX_PORT - NET_MIN_DINAMIC_PORT + 1

(* Received data is only sent where its mac is known. *)
Restrained == InPlace \subseteq {"UdpSendDataMac"}

(* Data that is not padded, and that an unsigned char can count. *)
Plain == Lengths \subseteq 18..255

(***************************************************************************)
(* The inductive invariant                                                 *)
(***************************************************************************)
(* The k-th local port. *)
PortOf(k) ==
  IF FirstPort + k > NET_MAX_PORT
  THEN FirstPort + k - (NET_MAX_PORT - NET_MIN_DINAMIC_PORT + 1)
  ELSE FirstPort + k

(* A request has the port that was given with its number, r at most. *)
Numbered(d, r) ==
  Unique => IF d.tag = 0 THEN d.port = ServerPort
            ELSE d.tag \in 1..r /\ d.port = PortOf(d.tag)

Contents == [head : Datagrams \cup {Nothing}, data : Datagrams \cup {Nothing}]

Waits(f) == f.fn \in {"UdpSendData", "UdpReceiveData"}

(* What waits was called by the main loop or by a callback. *)
Framed(s, r) ==
  /\ s \in Seq(Functions) /\ Len(s) \in 1..(MaxDepth + 1)
  /\ \A k \in 1..(Len(s) - 1) : Waits(s[k + 1]) => ~Waits(s[k])
  /\ \A k \in 1..Len(s) : /\ (s[k].fn = "main") = (k = 1)
                          /\ Numbered(s[k].d, r) /\ Numbered(s[k].request, r)

(* A function that called makes nothing of the buffer. *)
Calm(f) ==
  /\ f.fn = "UdpOnIncomingDatagram" => f.calls # 0
  /\ Restrained => f.held = Nothing

(* What a function may be put upon, or return to. *)
Ready(s, r) == Framed(s, r) /\ \A k \in 1..Len(s) : Calm(s[k])

(* The running function need not be calm if the buffer is as it was. *)
Faithful(f, b) ==
  /\ f.fn = "UdpOnIncomingDatagram" => f.calls # 0 \/ b.head = f.d
  /\ Restrained => f.held = Nothing \/ (~Waits(f) /\ b.data = f.held)

StackInv(s, b, r) ==
  /\ Framed(s, r)
  /\ \A k \in 1..(Len(s) - 1) : Calm(s[k])
  /\ Faithful(s[Len(s)], b)

AskedInv(a, r) == a \subseteq Datagrams /\ \A d \in a : d.tag # 0 /\ Numbered(d, r)

PortInv(p, r) ==
  /\ p \in Dynamic /\ r \in 0..MaxRotations
  /\ Unique => p = PortOf(r)

LastInv ==
  /\ Unique => ResponseIsOwn
  /\ RejectsItsDatagram
  /\ Restrained => SentIsMeant

IInv ==
  /\ StackInv(stack, buffer, rotations)
  /\ buffer \in Contents
  /\ PortInv(connectPortRotaiting, rotations)
  /\ AskedInv(asked, rotations)
  /\ LastInv

(***************************************************************************)
(* Ports                                                                   *)
(***************************************************************************)
(* Different numbers, different ports; none is the port of the server. *)
LEMMA PortsDiffer ==
  ASSUME Unique, NEW j \in 1..MaxRotations, NEW k \in 1..MaxRotations
  PROVE  /\ PortOf(j) \in Dynamic /\ PortOf(j) # ServerPort
         /\ PortOf(j) = PortOf(k) => j = k
  BY PortAssumption, SizeAssumption DEF Unique, PortOf, Dynamic, ServerPort

(* The rotation goes on with the next number's port. *)
LEMMA PortAdvances ==
  ASSUME NEW p, NEW r \in 0..MaxRotations, PortInv(p, r), r < MaxRotations
  PROVE  PortInv(NextPort(p), r + 1)
  BY PortAssumption, SizeAssumption DEF PortInv, Unique, PortOf, Dynamic, NextPort

(* What was numbered stays so. *)
LEMMA NumbersStay ==
  ASSUME NEW r \in 0..MaxRotations
  PROVE  /\ \A d : Numbered(d, r) => Numbered(d, r + 1)
         /\ \A s : Ready(s, r) => Ready(s, r + 1)
         /\ \A a : AskedInv(a, r) => AskedInv(a, r + 1)
<1>1. \A d : Numbered(d, r) => Numbered(d, r + 1)
  BY SizeAssumption DEF Numbered
<1> QED
  BY <1>1 DEF Ready, Framed, AskedInv

(* Nothing, and what is sent to or from a listening port, has no number. *)
LEMMA Unnumbered ==
  /\ \A r : Numbered(Nothing, r)
  /\ \A h, r : Numbered(Datagram(h, ServerPort, 0), r)
  BY DEF Numbered, Nothing, Datagram

LEMMA ServerDatagram ==
  ASSUME NEW h \in Hosts
  PROVE  Datagram(h, ServerPort, 0) \in Datagrams /\ Datagram(h, ServerPort, 0).tag = 0
  BY PortAssumption, SizeAssumption DEF Datagram, Datagrams, ServerPort, Dynamic

(***************************************************************************)
(* Stacks                                                                  *)
(***************************************************************************)
LEMMA ReplacedReady ==
  ASSUME NEW s, NEW b, NEW r, StackInv(s, b, r), NEW f \in Functions,
         f.fn = s[Len(s)].fn, Numbered(f.d, r), Numbered(f.request, r)
  PROVE  /\ Faithful(f, b) => StackInv(Replaced(s, f), b, r)
         /\ Calm(f) => Ready(Replaced(s, f), r)
         /\ Len(Replaced(s, f)) = Len(s) /\ Replaced(s, f)[Len(s)].fn = f.fn
<1>1. s \in Seq(Functions) /\ Len(s) \in 1..(MaxDepth + 1) /\ Len(s) \in 1..Len(s)
  BY SizeAssumption DEF StackInv, Framed
<1> DEFINE t == [s EXCEPT ![Len(s)] = f]
<1>2. /\ t \in Seq(Functions) /\ Len(t) = Len(s)
      /\ \A k \in 1..Len(s) : t[k] = IF k = Len(s) THEN f ELSE s[k]
  BY <1>1, ExceptSeq
<1> HIDE DEF t
<1>3. ASSUME NEW k \in 1..Len(t)
      PROVE  /\ (t[k].fn = "main") = (k = 1)
             /\ Numbered(t[k].d, r) /\ Numbered(t[k].request, r)
             /\ k # Len(s) \/ Calm(f) => Calm(t[k])
  <2>1. CASE k = Len(s)
    BY <1>1, <1>2, <2>1 DEF StackInv, Framed
  <2>2. CASE k # Len(s)
    <3>1. k \in 1..Len(s) /\ k \in 1..(Len(s) - 1) /\ t[k] = s[k]
      BY <1>1, <1>2, <2>2
    <3> QED
      BY <3>1 DEF StackInv, Framed
  <2> QED
    BY <2>1, <2>2
<1>4. \A k \in 1..(Len(t) - 1) : Waits(t[k + 1]) => ~Waits(t[k])
  <2> SUFFICES ASSUME NEW k \in 1..(Len(t) - 1) PROVE Waits(t[k + 1]) => ~Waits(t[k])
    OBVIOUS
  <2>1. k \in 1..(Len(s) - 1) /\ k \in 1..Len(s) /\ k + 1 \in 1..Len(s) /\ k # Len(s)
    BY <1>1, <1>2
  <2>2. t[k] = s[k] /\ t[k + 1].fn = s[k + 1].fn
    BY <1>2, <2>1
  <2>3. Waits(s[k + 1]) => ~Waits(s[k])
    BY <2>1 DEF StackInv, Framed
  <2> QED
    BY <2>2, <2>3 DEF Waits
<1>5. Framed(t, r)
  BY <1>1, <1>2, <1>3, <1>4 DEF Framed
<1>6. Calm(f) => Ready(t, r)
  BY <1>2, <1>3, <1>5 DEF Ready
<1>7. \A k \in 1..(Len(t) - 1) : k \in 1..Len(t) /\ k # Len(s)
  BY <1>1, <1>2
<1>8. Faithful(f, b) => StackInv(t, b, r)
  BY <1>1, <1>2, <1>3, <1>5, <1>7 DEF StackInv
<1> QED
  BY <1>1, <1>2, <1>6, <1>8 DEF Replaced, t

LEMMA TopFacts ==
  ASSUME IInv
  PROVE  /\ Len(stack) \in 1..(MaxDepth + 1)
         /\ Top \in Functions
         /\ (Top.fn = "main") = (Len(stack) = 1)
         /\ Numbered(Top.d, rotations) /\ Numbered(Top.request, rotations)
         /\ Faithful(Top, buffer)
<1>1. stack \in Seq(Functions) /\ Len(stack) \in 1..(MaxDepth + 1) /\ Len(stack) \in 1..Len(stack)
  BY SizeAssumption DEF IInv, StackInv, Framed
<1>2. Top \in Functions
  BY <1>1, ElementOfSeq DEF Top
<1> QED
  BY <1>1, <1>2 DEF IInv, StackInv, Framed, Top

LEMMA BelowReady ==
  ASSUME IInv, Top.fn # "main"
  PROVE  /\ Ready(Below, rotations)
         /\ Len(Below) = Len(stack) - 1
         /\ Len(Below) \in 1..MaxDepth
         /\ Waits(Top) => ~Waits(Below[Len(Below)])
<1> DEFINE n == Len(stack)
           t == SubSeq(stack, 1, n - 1)
<1>1. stack \in Seq(Functions) /\ n \in 1..(MaxDepth + 1) /\ n # 1
  BY TopFacts DEF IInv, StackInv, Framed
<1>2. n - 1 \in Int /\ 1 \in Int /\ n - 1 >= 1 /\ \A k \in 1..(n - 1) : stack[k] \in Functions
  <2>1. \A k \in 1..n : stack[k] \in Functions
    BY <1>1, ElementOfSeq
  <2> HIDE DEF n
  <2> QED
    BY <1>1, <2>1, SizeAssumption
<1>3. /\ t \in Seq(Functions)
      /\ Len(t) = IF 1 <= n - 1 THEN n - 1 - 1 + 1 ELSE 0
      /\ \A k \in 1..(n - 1 - 1 + 1) : t[k] = stack[1 + k - 1]
  <2>1. 1 \in Int /\ n - 1 \in Int /\ \A k \in 1..(n - 1) : stack[k] \in Functions
    BY <1>2
  <2> HIDE <1>2
  <2> QED
    BY <2>1, SubSeqProperties
<1>4. \A k \in 1..n : /\ (stack[k].fn = "main") = (k = 1)
                      /\ Numbered(stack[k].d, rotations) /\ Numbered(stack[k].request, rotations)
  BY DEF IInv, StackInv, Framed
<1>5. \A k \in 1..(n - 1) : Calm(stack[k])
  BY DEF IInv, StackInv
<1>9. \A k \in 1..(n - 1) : Waits(stack[k + 1]) => ~Waits(stack[k])
  BY DEF IInv, StackInv, Framed
<1> HIDE DEF n, t
<1>6. Len(t) = n - 1 /\ Len(t) \in 1..MaxDepth
  BY <1>1, <1>2, <1>3, SizeAssumption
<1>7. \A k \in 1..Len(t) : k \in 1..n /\ k \in 1..(n - 1) /\ t[k] = stack[k]
  <2> SUFFICES ASSUME NEW k \in 1..Len(t) PROVE k \in 1..n /\ k \in 1..(n - 1) /\ t[k] = stack[k]
    OBVIOUS
  <2>1. k \in 1..(n - 1 - 1 + 1) /\ 1 + k - 1 = k /\ k \in 1..n /\ k \in 1..(n - 1)
    BY <1>1, <1>6
  <2> QED
    BY <1>3, <2>1
<1>10. \A k \in 1..(Len(t) - 1) : Waits(t[k + 1]) => ~Waits(t[k])
  <2> SUFFICES ASSUME NEW k \in 1..(Len(t) - 1) PROVE Waits(t[k + 1]) => ~Waits(t[k])
    OBVIOUS
  <2>1. k \in 1..Len(t) /\ k + 1 \in 1..Len(t) /\ k \in 1..(n - 1)
    BY <1>6, SizeAssumption
  <2> QED
    BY <1>7, <1>9, <2>1
<1>8. Ready(t, rotations)
  BY <1>3, <1>4, <1>5, <1>6, <1>7, <1>10, SizeAssumption DEF Ready, Framed
<1>11. n - 1 \in 1..(n - 1) /\ n - 1 + 1 = n /\ n - 1 \in 1..Len(t)
  BY <1>1, <1>6, SizeAssumption
<1>12. Waits(stack[n]) => ~Waits(t[Len(t)])
  BY <1>6, <1>7, <1>9, <1>11
<1> QED
  BY <1>6, <1>8, <1>12 DEF Below, t, n, Top

(* A stack on which everything is calm keeps the invariant, whatever the   *)
(* buffer holds.                                                           *)
LEMMA ReadyIsInv ==
  ASSUME NEW s, NEW r, Ready(s, r), NEW b
  PROVE  StackInv(s, b, r)
<1>1. Len(s) \in 1..(MaxDepth + 1) /\ Len(s) \in 1..Len(s)
  BY SizeAssumption DEF Ready, Framed
<1>2. Calm(s[Len(s)]) /\ \A k \in 1..(Len(s) - 1) : Calm(s[k])
  BY <1>1 DEF Ready
<1> QED
  BY <1>2 DEF Ready, StackInv, Calm, Faithful

LEMMA AppendInv ==
  ASSUME NEW s, NEW r, Ready(s, r), Len(s) <= MaxDepth, NEW b,
         NEW f \in Functions, f.fn # "main", Waits(f) => ~Waits(s[Len(s)]),
         Numbered(f.d, r), Numbered(f.request, r), Faithful(f, b)
  PROVE  /\ StackInv(Append(s, f), b, r)
         /\ Calm(f) => Ready(Append(s, f), r)
<1> DEFINE t == Append(s, f)
<1>1. s \in Seq(Functions) /\ Len(s) \in 1..(MaxDepth + 1)
  BY DEF Ready, Framed
<1>2. /\ t \in Seq(Functions) /\ Len(t) = Len(s) + 1
      /\ \A k \in 1..Len(s) : t[k] = s[k]
      /\ t[Len(s) + 1] = f
  BY <1>1, AppendProperties
<1> HIDE DEF t
<1>3. \A k \in 1..Len(t) : k \in 1..Len(s) \/ k = Len(s) + 1
  BY <1>1, <1>2, SizeAssumption
<1>4. \A k \in 1..Len(s) : /\ (s[k].fn = "main") = (k = 1)
                           /\ Numbered(s[k].d, r) /\ Numbered(s[k].request, r) /\ Calm(s[k])
  BY DEF Ready, Framed
<1>5. Len(s) + 1 # 1 /\ Len(t) \in 1..(MaxDepth + 1) /\ Len(t) - 1 = Len(s)
  BY <1>1, <1>2, SizeAssumption
<1>10. \A k \in 1..(Len(t) - 1) : Waits(t[k + 1]) => ~Waits(t[k])
  <2> SUFFICES ASSUME NEW k \in 1..Len(s) PROVE Waits(t[k + 1]) => ~Waits(t[k])
    BY <1>5
  <2>1. CASE k = Len(s)
    BY <1>2, <2>1
  <2>2. CASE k # Len(s)
    <3>1. k \in 1..(Len(s) - 1) /\ k + 1 \in 1..Len(s)
      BY <1>1, <2>2
    <3> QED
      BY <1>2, <3>1 DEF Ready, Framed
  <2> QED
    BY <2>1, <2>2
<1>6. Framed(t, r)
  BY <1>2, <1>3, <1>4, <1>5, <1>10 DEF Framed
<1>7. \A k \in 1..(Len(t) - 1) : Calm(t[k])
  BY <1>2, <1>4, <1>5
<1>8. StackInv(t, b, r)
  BY <1>2, <1>6, <1>7 DEF StackInv
<1>9. Calm(f) => Ready(t, r)
  BY <1>2, <1>3, <1>4, <1>6 DEF Ready
<1> QED
  BY <1>8, <1>9 DEF t

(* The application has called; a wait goes on; a wait counts a miss. *)
LEMMA CalledReady ==
  ASSUME IInv, MayCall
  PROVE  Ready(Called, rotations) /\ Len(Called) = Len(stack) /\ ~Waits(Called[Len(Called)])
<1> DEFINE c == IF Top.fn = "main" THEN 0 ELSE Top.calls + 1
           f == [Top EXCEPT !.held = Nothing, !.request = Nothing, !.calls = c]
<1>1. Top \in Functions /\ Top.fn = stack[Len(stack)].fn /\ Numbered(Top.d, rotations)
  BY TopFacts DEF Top
<1>2. c \in 0..MaxCalls /\ (Top.fn # "main" => c # 0)
  BY <1>1, SizeAssumption DEF Functions, MayCall
<1>3. Called = Replaced(stack, f)
  BY DEF Called
<1> HIDE DEF c
<1>4. f \in Functions /\ f.fn = Top.fn /\ f.d = Top.d /\ f.request = Nothing /\ f.held = Nothing
      /\ f.calls = c
  BY <1>1, <1>2 DEF Functions
<1>5. Calm(f)
  BY <1>2, <1>4 DEF Calm
<1> HIDE DEF f
<1>6. ~Waits(f)
  BY <1>4 DEF Waits, MayCall
<1> QED
  BY <1>1, <1>3, <1>4, <1>5, <1>6, Unnumbered, ReplacedReady DEF IInv, Waits

LEMMA PolledReady ==
  ASSUME IInv, NEW fn \in {"UdpSendData", "UdpReceiveData"}, Polling(fn)
  PROVE  Ready(Polled, rotations)
<1> DEFINE f == [Top EXCEPT !.polls = Top.polls + 1]
<1>1. /\ Top \in Functions /\ Top.fn = stack[Len(stack)].fn /\ Calm(Top)
      /\ Numbered(Top.d, rotations) /\ Numbered(Top.request, rotations)
  BY TopFacts DEF Top, Polling, Calm, Faithful, Waits
<1>2. f \in Functions /\ f.fn = Top.fn /\ f.d = Top.d /\ f.request = Top.request
      /\ f.held = Top.held /\ f.calls = Top.calls
  <2>1. Top.polls + 1 \in 0..Polls
    BY <1>1, SizeAssumption DEF Functions, Polling
  <2> QED
    BY <1>1, <2>1 DEF Functions
<1>3. Calm(f)
  BY <1>1, <1>2 DEF Calm
<1>4. Polled = Replaced(stack, f)
  BY DEF Polled
<1> HIDE DEF f
<1> QED
  BY <1>1, <1>2, <1>3, <1>4, ReplacedReady DEF IInv

LEMMA Remainder ==
  ASSUME NEW n \in Nat, NEW m \in Nat
  PROVE  (n + 1) % (m + 1) \in 0..m
  OBVIOUS

LEMMA MissedReady ==
  ASSUME IInv, Top.fn = "UdpReceiveData"
  PROVE  Ready(Missed, rotations)
<1> DEFINE w == (Top.waiting + 1) % (ShortMax + 1)
           f == [Top EXCEPT !.polls = 0, !.waiting = w]
<1>1. /\ Top \in Functions /\ Top.fn = stack[Len(stack)].fn /\ Calm(Top)
      /\ Numbered(Top.d, rotations) /\ Numbered(Top.request, rotations)
  BY TopFacts DEF Top, Calm, Faithful, Waits
<1>2. w \in 0..ShortMax
  <2>1. Top.waiting \in Nat /\ ShortMax \in Nat
    BY <1>1, SizeAssumption DEF Functions
  <2> QED
    BY <2>1, Remainder
<1> HIDE DEF w
<1>3. f \in Functions /\ f.fn = Top.fn /\ f.d = Top.d /\ f.request = Top.request
      /\ f.held = Top.held /\ f.calls = Top.calls
  <2>1. 0 \in 0..Polls
    BY SizeAssumption
  <2> QED
    BY <1>1, <1>2, <2>1 DEF Functions
<1>4. Calm(f)
  BY <1>1, <1>3 DEF Calm
<1>5. Missed = Replaced(stack, f)
  BY DEF Missed, w
<1> HIDE DEF f
<1> QED
  BY <1>1, <1>3, <1>4, <1>5, ReplacedReady DEF IInv

(* Waiting functions are calm: their data, if restrained, is their own. *)
LEMMA NewFunction ==
  ASSUME NEW fn \in {"UdpOnIncomingDatagram", "UdpSendData", "UdpReceiveData"},
         NEW d \in Datagrams \cup {Nothing}, NEW h \in Datagrams \cup {Nothing},
         NEW t \in Timeouts \cup {0}
  PROVE  /\ Function(fn, d, h, t) \in Functions
         /\ Function(fn, d, h, t).fn = fn /\ Function(fn, d, h, t).d = d
         /\ Function(fn, d, h, t).held = h /\ Function(fn, d, h, t).request = Nothing
<1>1. 0 \in 0..MaxCalls /\ 0 \in 0..ShortMax /\ 0 \in 0..Polls
  BY SizeAssumption
<1> QED
  BY <1>1 DEF Function, Functions

(***************************************************************************)
(* Handling and sending                                                    *)
(***************************************************************************)
Kept(r) ==
  /\ StackInv(stack', buffer', r)
  /\ buffer' \in Contents
  /\ LastInv'

LEMMA QuietLast == last' = Quiet => LastInv'
  BY DEF Quiet, LastInv, ResponseIsOwn, RejectsItsDatagram, SentIsMeant

LEMMA UdpSendKeeps ==
  ASSUME NEW r \in 0..MaxRotations, NEW d \in Datagrams \cup {Nothing}, Numbered(d, r),
         NEW meant \in Datagrams \cup {Nothing}, NEW in \in Contents,
         NEW stk, Ready(stk, r), AskedInv(asked, r),
         Restrained => meant = Nothing \/ in.data = meant,
         UdpSend(d, meant, in, stk)
  PROVE  Kept(r) /\ Ready(stack', r) /\ AskedInv(asked', r)
<1> DEFINE f == [stk[Len(stk)] EXCEPT !.request = d]
<1>1. Ready(Replaced(stk, f), r)
  <2>1. stk \in Seq(Functions) /\ Len(stk) \in 1..Len(stk)
    BY SizeAssumption DEF Ready, Framed
  <2>2. /\ stk[Len(stk)] \in Functions
        /\ (stk[Len(stk)].fn = "main") = (Len(stk) = 1)
        /\ Numbered(stk[Len(stk)].d, r) /\ Calm(stk[Len(stk)])
    BY <2>1, ElementOfSeq DEF Ready, Framed
  <2>3. f \in Functions /\ f.fn = stk[Len(stk)].fn /\ f.d = stk[Len(stk)].d /\ f.request = d
        /\ f.held = stk[Len(stk)].held /\ f.calls = stk[Len(stk)].calls
    BY <2>2 DEF Functions
  <2>4. Calm(f)
    BY <2>2, <2>3 DEF Calm
  <2>5. StackInv(stk, buffer, r)
    BY ReadyIsInv
  <2> HIDE DEF f
  <2> QED
    BY <2>2, <2>3, <2>4, <2>5, ReplacedReady
<1>2. Nothing \in Datagrams \cup {Nothing} /\ in.data \in Datagrams \cup {Nothing}
  BY DEF Contents
<1>3. CASE \E len \in Lengths : ~Fits(len) /\ stack' = stk /\ buffer' = in
             /\ last' = [kind |-> "refused", d |-> d, len |-> len] /\ UNCHANGED asked
  <2>1. LastInv'
    BY <1>3 DEF LastInv, ResponseIsOwn, RejectsItsDatagram, SentIsMeant
  <2> QED
    BY <1>3, <2>1, ReadyIsInv DEF Kept
<1>4. CASE /\ stack' = IF d.tag = 0 THEN stk ELSE Replaced(stk, f)
           /\ buffer' = [head |-> Nothing, data |-> IF meant = Nothing THEN Nothing ELSE in.data]
           /\ asked' = IF d.tag = 0 THEN asked ELSE asked \cup {d}
           /\ last' = [kind |-> "udp", d |-> d, data |-> buffer'.data, meant |-> meant]
  <2>1. Ready(stack', r)
    BY <1>1, <1>4
  <2>2. buffer' \in Contents
    BY <1>2, <1>4 DEF Contents
  <2>3. AskedInv(asked', r)
    BY <1>4 DEF AskedInv, Nothing
  <2>4. Restrained => buffer'.data = meant
    BY <1>4
  <2>5. LastInv'
    BY <1>4, <2>4 DEF LastInv, ResponseIsOwn, RejectsItsDatagram, SentIsMeant
  <2> QED
    BY <2>1, <2>2, <2>3, <2>5, ReadyIsInv DEF Kept
<1> QED
  BY <1>3, <1>4 DEF UdpSend

LEMMA ArpWhoIsKeeps ==
  ASSUME IInv, NEW r \in 0..MaxRotations, NEW d \in Datagrams, Numbered(d, r),
         NEW data \in Datagrams \cup {Nothing}, NEW stk, Ready(stk, r), ~Waits(stk[Len(stk)]),
         AskedInv(asked, r), Restrained => data = Nothing,
         ArpWhoIs(d, data, stk)
  PROVE  Kept(r) /\ AskedInv(asked', r)
<1>1. buffer \in Contents
  BY DEF IInv
<1>2. CASE UdpSend(d, data, buffer, stk)
  BY <1>1, <1>2, UdpSendKeeps
<1>3. CASE /\ Len(stk) < MaxDepth
           /\ stack' = Append(stk, Function("UdpSendData", d, data, 0))
           /\ buffer' = [buffer EXCEPT !.head = Nothing]
           /\ last' = Quiet
           /\ UNCHANGED asked
  <2> DEFINE f == Function("UdpSendData", d, data, 0)
  <2>1. f \in Functions /\ f.fn = "UdpSendData" /\ f.d = d /\ f.held = data /\ f.request = Nothing
    BY NewFunction
  <2> HIDE DEF f
  <2>2. Faithful(f, buffer') /\ Len(stk) <= MaxDepth
    BY <1>3, <2>1, SizeAssumption DEF Faithful, Ready, Framed
  <2>3. StackInv(Append(stk, f), buffer', r)
    BY <2>1, <2>2, Unnumbered, AppendInv
  <2>4. buffer' \in Contents
    BY <1>1, <1>3 DEF Contents
  <2> QED
    BY <1>3, <2>3, <2>4, QuietLast DEF Kept, f
<1> QED
  BY <1>2, <1>3 DEF ArpWhoIs

LEMMA PacketFacts ==
  ASSUME NEW r, AskedInv(asked, r), NEW p \in Network
  PROVE  p.d \in Datagrams /\ Numbered(p.d, r)
<1>1. CASE \E kind \in {"arpRequest", "arpReply", "echo", "udp", "tcp", "stray"}, h \in Hosts :
             p = Packet(kind, h)
  BY <1>1, ServerDatagram, Unnumbered DEF Packet
<1>2. CASE \E d \in asked : p = [kind |-> "udp", d |-> d]
  BY <1>2 DEF AskedInv
<1> QED
  BY <1>1, <1>2 DEF Network

LEMMA HandleKeeps ==
  ASSUME NEW r, AskedInv(asked, r), NEW p \in Network, NEW stk, Ready(stk, r),
         NetHandleIncomingPacket(p, stk)
  PROVE  Kept(r)
<1>1. p.d \in Datagrams /\ Numbered(p.d, r)
  BY PacketFacts
<1>2. CASE UdpHandleIncomingPacket(p.d, stk)
  <2> DEFINE f == Function("UdpOnIncomingDatagram", p.d, p.d, 0)
  <2>1. f \in Functions /\ f.fn = "UdpOnIncomingDatagram" /\ f.d = p.d /\ f.held = p.d
        /\ f.request = Nothing
    BY <1>1, NewFunction
  <2> HIDE DEF f
  <2>2. buffer' = [head |-> p.d, data |-> p.d] /\ stack' = Append(stk, f) /\ last' = Quiet
    BY <1>2 DEF UdpHandleIncomingPacket, f
  <2>3. buffer' \in Contents /\ Faithful(f, buffer') /\ ~Waits(f)
    BY <1>1, <2>1, <2>2 DEF Contents, Faithful, Waits
  <2>4. Len(stk) <= MaxDepth
    BY <1>2, SizeAssumption DEF UdpHandleIncomingPacket, Ready, Framed
  <2>5. StackInv(Append(stk, f), buffer', r)
    BY <1>1, <2>1, <2>3, <2>4, Unnumbered, AppendInv
  <2> QED
    BY <2>2, <2>3, <2>5, QuietLast DEF Kept
<1>3. CASE /\ IF p.kind = "echo" THEN \E len \in Lengths : IcmpSendReply(len) ELSE last' = Quiet
           /\ buffer' = Empty
           /\ stack' = stk
  <2>1. LastInv'
    <3>1. CASE last' = Quiet
      BY <3>1, QuietLast
    <3>2. CASE \E len \in Lengths : IcmpSendReply(len)
      BY <3>2 DEF IcmpSendReply, LastInv, ResponseIsOwn, RejectsItsDatagram, SentIsMeant
    <3> QED
      BY <1>3, <3>1, <3>2
  <2>2. buffer' \in Contents
    BY <1>3 DEF Contents, Empty
  <2> QED
    BY <1>3, <2>1, <2>2, ReadyIsInv DEF Kept
<1> QED
  BY <1>2, <1>3 DEF NetHandleIncomingPacket

(***************************************************************************)
(* Actions                                                                 *)
(***************************************************************************)
(* An action that gives no port, and what a new port leaves to show. *)
LEMMA SamePorts ==
  ASSUME IInv, UNCHANGED <<connectPortRotaiting, rotations>>, Kept(rotations),
         AskedInv(asked', rotations)
  PROVE  IInv'
  BY DEF IInv, Kept

LEMMA NewPort ==
  ASSUME IInv, Rotate, Kept(rotations + 1), AskedInv(asked', rotations + 1)
  PROVE  IInv'
<1>1. rotations \in 0..MaxRotations /\ PortInv(connectPortRotaiting, rotations)
  BY DEF IInv, PortInv
<1>2. PortInv(connectPortRotaiting', rotations')
  BY <1>1, PortAdvances DEF Rotate
<1> QED
  BY <1>2 DEF IInv, Kept, Rotate

(* Data the application gives is its own, or in the buffer as it got it. *)
LEMMA SourceFacts ==
  ASSUME IInv, NEW fn \in {"UdpSendDataMac", "UdpSendData"}, NEW data \in Sources(fn), MayCall
  PROVE  /\ data \in Datagrams \cup {Nothing}
         /\ Restrained => data = Nothing \/ buffer.data = data
         /\ Restrained /\ fn = "UdpSendData" => data = Nothing
<1>1. Top.held \in Datagrams \cup {Nothing} /\ Faithful(Top, buffer)
  BY TopFacts DEF Functions
<1> QED
  BY <1>1 DEF Sources, Faithful, Restrained

LEMMA UdpSendDataMacKeeps == IInv /\ UdpSendDataMac => IInv'
<1> SUFFICES ASSUME IInv, UdpSendDataMac PROVE IInv'
  OBVIOUS
<1>1. PICK h \in Hosts, data \in Sources("UdpSendDataMac") :
        UdpSend(Datagram(h, ServerPort, 0), data, buffer, Called)
  BY DEF UdpSendDataMac
<1>2. Ready(Called, rotations) /\ MayCall
  BY CalledReady DEF UdpSendDataMac
<1>3. rotations \in 0..MaxRotations /\ buffer \in Contents /\ AskedInv(asked, rotations)
  BY DEF IInv, PortInv
<1>4. Kept(rotations) /\ AskedInv(asked', rotations)
  BY <1>1, <1>2, <1>3, SourceFacts, ServerDatagram, Unnumbered, UdpSendKeeps
<1> QED
  BY <1>4, SamePorts DEF UdpSendDataMac

LEMMA UdpSendDataKeeps == IInv /\ UdpSendData => IInv'
<1> SUFFICES ASSUME IInv, UdpSendData PROVE IInv'
  OBVIOUS
<1>1. PICK h \in Hosts, data \in Sources("UdpSendData") :
        ArpWhoIs(Datagram(h, ServerPort, 0), data, Called)
  BY DEF UdpSendData
<1>2. Ready(Called, rotations) /\ ~Waits(Called[Len(Called)]) /\ MayCall
  BY CalledReady DEF UdpSendData
<1>3. rotations \in 0..MaxRotations /\ AskedInv(asked, rotations)
  BY DEF IInv, PortInv
<1>4. Kept(rotations) /\ AskedInv(asked', rotations)
  BY <1>1, <1>2, <1>3, SourceFacts, ServerDatagram, Unnumbered, ArpWhoIsKeeps
<1> QED
  BY <1>4, SamePorts DEF UdpSendData

LEMMA UdpSendDataTmpPortKeeps == IInv /\ UdpSendDataTmpPort => IInv'
<1> SUFFICES ASSUME IInv, UdpSendDataTmpPort PROVE IInv'
  OBVIOUS
<1> DEFINE n == rotations + 1
           p == connectPortRotaiting'
<1>1. PICK h \in Hosts : ArpWhoIs(Datagram(h, p, rotations'), Nothing, Called)
  BY DEF UdpSendDataTmpPort
<1>2. Rotate /\ MayCall /\ rotations' = n /\ p = NextPort(connectPortRotaiting)
      /\ rotations \in 0..MaxRotations /\ n \in 1..MaxRotations /\ n \in 0..MaxRotations
  BY SizeAssumption DEF UdpSendDataTmpPort, Rotate, IInv, PortInv
<1>3. PortInv(p, n)
  <2>1. PortInv(connectPortRotaiting, rotations) /\ rotations < MaxRotations
    BY DEF IInv, UdpSendDataTmpPort, Rotate
  <2> QED
    BY <1>2, <2>1, PortAdvances
<1>4. Ready(Called, n) /\ ~Waits(Called[Len(Called)]) /\ AskedInv(asked, n)
  BY <1>2, CalledReady, NumbersStay DEF IInv
<1> HIDE DEF p, n
<1>5. Datagram(h, p, n) \in Datagrams /\ Numbered(Datagram(h, p, n), n)
  <2>1. p \in ServerPort..NET_MAX_PORT /\ n # 0 /\ n \in 1..n
    BY <1>2, <1>3, PortAssumption DEF PortInv, Dynamic, ServerPort
  <2>2. Unique => p = PortOf(n)
    BY <1>3 DEF PortInv
  <2> QED
    BY <1>2, <2>1, <2>2 DEF Datagram, Datagrams, Numbered
<1>6. Kept(n) /\ AskedInv(asked', n)
  BY <1>1, <1>2, <1>4, <1>5, ArpWhoIsKeeps
<1> QED
  BY <1>2, <1>6, NewPort DEF n

LEMMA TcpConnectKeeps == IInv /\ TcpConnect => IInv'
<1> SUFFICES ASSUME IInv, TcpConnect PROVE IInv'
  OBVIOUS
<1>1. Rotate /\ MayCall /\ rotations \in 0..MaxRotations
  BY DEF TcpConnect, Rotate, IInv, PortInv
<1>2. Ready(Called, rotations + 1) /\ AskedInv(asked, rotations + 1)
  BY <1>1, CalledReady, NumbersStay DEF IInv
<1>3. Kept(rotations + 1) /\ AskedInv(asked', rotations + 1)
  BY <1>2, ReadyIsInv, QuietLast DEF TcpConnect, Kept, Contents, Empty
<1> QED
  BY <1>1, <1>3, NewPort

LEMMA UdpReceiveDataKeeps == IInv /\ UdpReceiveData => IInv'
<1> SUFFICES ASSUME IInv, UdpReceiveData PROVE IInv'
  OBVIOUS
<1>1. PICK t \in Timeouts, d \in IF Top.request # Nothing THEN {Top.request}
                                 ELSE {Datagram(h, ServerPort, 0) : h \in Hosts} :
        stack' = Append(Called, Function("UdpReceiveData", d, Nothing, t))
  BY DEF UdpReceiveData
<1> DEFINE f == Function("UdpReceiveData", d, Nothing, t)
<1>2. d \in Datagrams \cup {Nothing} /\ Numbered(d, rotations)
  <2>1. CASE Top.request # Nothing
    BY <1>1, <2>1, TopFacts DEF Functions
  <2>2. CASE Top.request = Nothing
    BY <1>1, <2>2, ServerDatagram, Unnumbered
  <2> QED
    BY <2>1, <2>2
<1>3. f \in Functions /\ f.fn = "UdpReceiveData" /\ f.d = d /\ f.held = Nothing /\ f.request = Nothing
  <2>1. \A e \in Datagrams \cup {Nothing}, u \in Timeouts :
          LET g == Function("UdpReceiveData", e, Nothing, u)
          IN g \in Functions /\ g.fn = "UdpReceiveData" /\ g.d = e /\ g.held = Nothing /\ g.request = Nothing
    BY NewFunction
  <2> QED
    BY <1>2, <2>1
<1>4. Ready(Called, rotations) /\ ~Waits(Called[Len(Called)]) /\ Len(Called) <= MaxDepth
  <2>1. Len(Called) = Len(stack) /\ Len(stack) < MaxDepth
    BY CalledReady DEF UdpReceiveData
  <2> QED
    BY <2>1, CalledReady, TopFacts, SizeAssumption DEF UdpReceiveData
<1> HIDE DEF f
<1>5. StackInv(Append(Called, f), buffer, rotations)
  BY <1>2, <1>3, <1>4, Unnumbered, AppendInv DEF Faithful
<1>6. Kept(rotations) /\ AskedInv(asked', rotations)
  BY <1>1, <1>5, QuietLast DEF UdpReceiveData, Kept, IInv, f
<1> QED
  BY <1>6, SamePorts DEF UdpReceiveData

LEMMA NetHandleNetworkKeeps == IInv /\ NetHandleNetwork => IInv'
<1> SUFFICES ASSUME IInv, NetHandleNetwork PROVE IInv'
  OBVIOUS
<1>1. PICK p \in Network : NetHandleIncomingPacket(p, Called)
  BY DEF NetHandleNetwork
<1>2. Ready(Called, rotations) /\ AskedInv(asked, rotations)
  BY CalledReady DEF NetHandleNetwork, IInv
<1>3. Kept(rotations) /\ AskedInv(asked', rotations)
  BY <1>1, <1>2, HandleKeeps DEF NetHandleNetwork
<1> QED
  BY <1>3, SamePorts DEF NetHandleNetwork

(* What returns quietly. *)
LEMMA QuietKeeps ==
  ASSUME IInv, Ready(stack', rotations), last' = Quiet,
         UNCHANGED <<buffer, connectPortRotaiting, rotations, asked>>
  PROVE  IInv'
  BY ReadyIsInv, QuietLast, SamePorts DEF Kept, IInv

LEMMA CallbackReturnsKeeps == IInv /\ CallbackReturns => IInv'
<1> SUFFICES ASSUME IInv, CallbackReturns PROVE IInv'
  OBVIOUS
<1>1. Ready(stack', rotations) /\ UNCHANGED <<connectPortRotaiting, rotations, asked>>
  BY BelowReady DEF CallbackReturns
<1>2. CASE last' = Quiet /\ UNCHANGED buffer
  BY <1>1, <1>2, QuietKeeps
<1>3. CASE /\ last' = [kind |-> "unreachable", of |-> Top.d, calls |-> Top.calls,
                       sent |-> Unreachable(Top.d)]
           /\ buffer' = Empty
  <2>1. Top.calls = 0 => buffer.head = Top.d
    BY TopFacts DEF CallbackReturns, Faithful
  <2>2. LastInv'
    BY <1>3, <2>1 DEF LastInv, ResponseIsOwn, RejectsItsDatagram, SentIsMeant, Unreachable
  <2>3. Kept(rotations) /\ AskedInv(asked', rotations)
    BY <1>1, <1>3, <2>2, ReadyIsInv DEF Kept, Contents, Empty, IInv
  <2> QED
    BY <1>1, <2>3, SamePorts
<1> QED
  BY <1>2, <1>3 DEF CallbackReturns

LEMMA ArpWaitsKeeps == IInv /\ ArpWaits => IInv'
<1> SUFFICES ASSUME IInv, ArpWaits PROVE IInv'
  OBVIOUS
<1>1. PICK p \in Network :
        \/ p.kind = "arpReply" /\ UdpSend(Top.d, Top.held, Empty, Below)
        \/ NetHandleIncomingPacket(p, Below) /\ UNCHANGED asked
        \/ NetHandleIncomingPacket(p, Polled) /\ UNCHANGED asked
  BY DEF ArpWaits
<1>2. /\ Top.fn = "UdpSendData" /\ Polling("UdpSendData")
      /\ Ready(Below, rotations) /\ Ready(Polled, rotations)
  BY BelowReady, PolledReady DEF ArpWaits, Polling
<1>3. rotations \in 0..MaxRotations /\ AskedInv(asked, rotations)
  BY DEF IInv, PortInv
<1>4. CASE UdpSend(Top.d, Top.held, Empty, Below)
  <2>1. Top.held \in Datagrams \cup {Nothing} /\ Top.d \in Datagrams \cup {Nothing}
    BY TopFacts DEF Functions
  <2>2. Restrained => Top.held = Nothing
    BY <1>2, TopFacts DEF Faithful, Waits
  <2>3. Empty \in Contents
    BY DEF Empty, Contents
  <2>4. Kept(rotations) /\ AskedInv(asked', rotations)
    BY <1>2, <1>3, <1>4, <2>1, <2>2, <2>3, TopFacts, UdpSendKeeps
  <2> QED
    BY <2>4, SamePorts DEF ArpWaits
<1>5. CASE /\ NetHandleIncomingPacket(p, Below) \/ NetHandleIncomingPacket(p, Polled)
           /\ UNCHANGED asked
  BY <1>2, <1>3, <1>5, HandleKeeps, SamePorts DEF ArpWaits
<1> QED
  BY <1>1, <1>4, <1>5

(* What is returned answers the request: it has its port, so its number. *)
LEMMA ReturnedKeeps ==
  ASSUME IInv, NEW p \in Network, NEW len, Top.fn = "UdpReceiveData", Awaited(p), Returned(p, len),
         UNCHANGED <<connectPortRotaiting, rotations, asked>>
  PROVE  IInv'
<1> DEFINE s == Below
           f == [s[Len(s)] EXCEPT !.held = p.d]
<1>1. rotations \in 0..MaxRotations /\ AskedInv(asked, rotations)
  BY DEF IInv, PortInv
<1>2. p.d \in Datagrams /\ Numbered(p.d, rotations)
  BY <1>1, PacketFacts
<1>3. Top.d \in Datagrams \cup {Nothing} /\ Numbered(Top.d, rotations)
  BY TopFacts DEF Functions
<1>4. ASSUME Unique PROVE p.d = Top.d
  <2>1. p.d.host = Top.d.host /\ p.d.port = Top.d.port /\ p.d.host \in Hosts
    BY <1>2 DEF Awaited, Datagrams
  <2>2. Top.d \in Datagrams
    BY <1>3, <2>1, HostAssumption DEF Nothing
  <2>3. ASSUME NEW d \in Datagrams, Numbered(d, rotations), d.tag # 0
        PROVE  d.tag \in 1..MaxRotations /\ d.port = PortOf(d.tag)
    BY <1>1, <1>4, <2>3, SizeAssumption DEF Numbered
  <2>4. \A d \in Datagrams : Numbered(d, rotations) /\ d.tag = 0 => d.port = ServerPort
    BY <1>4 DEF Numbered
  <2>5. p.d.tag = Top.d.tag
    BY <1>2, <1>3, <1>4, <2>1, <2>2, <2>3, <2>4, PortsDiffer
  <2> QED
    BY <1>2, <2>1, <2>2, <2>5 DEF Datagrams
<1>5. LastInv'
  BY <1>4 DEF Returned, LastInv, ResponseIsOwn, RejectsItsDatagram, SentIsMeant
<1>6. /\ Ready(s, rotations) /\ Len(s) \in 1..Len(s) /\ ~Waits(s[Len(s)])
      /\ s \in Seq(Functions)
  <2>1. Ready(s, rotations) /\ Len(s) \in 1..MaxDepth /\ ~Waits(s[Len(s)])
    BY BelowReady DEF Waits
  <2> QED
    BY <2>1, SizeAssumption DEF Ready, Framed
<1>7. s[Len(s)] \in Functions
  BY <1>6, ElementOfSeq
<1>8. f \in Functions /\ f.fn = s[Len(s)].fn /\ f.d = s[Len(s)].d /\ f.held = p.d
      /\ f.request = s[Len(s)].request /\ f.calls = s[Len(s)].calls
  BY <1>2, <1>7 DEF Functions
<1>9. Numbered(f.d, rotations) /\ Numbered(f.request, rotations) /\ Calm(s[Len(s)])
  BY <1>6, <1>8 DEF Ready, Framed
<1>10. Faithful(f, buffer')
  BY <1>6, <1>8, <1>9 DEF Returned, Calm, Faithful, Waits
<1>11. StackInv(s, buffer', rotations)
  BY <1>6, ReadyIsInv
<1>12. stack' = Replaced(s, f) /\ buffer' \in Contents
  BY <1>2 DEF Returned, Contents
<1> HIDE DEF s, f
<1>13. StackInv(stack', buffer', rotations)
  BY <1>8, <1>9, <1>10, <1>11, <1>12, ReplacedReady
<1> QED
  BY <1>1, <1>5, <1>12, <1>13, SamePorts DEF Kept

LEMMA ReceiveWaitsKeeps == IInv /\ ReceiveWaits => IInv'
<1> SUFFICES ASSUME IInv, ReceiveWaits PROVE IInv'
  OBVIOUS
<1>1. PICK p \in Network :
        \/ Awaited(p) /\ \E len \in Lengths : Returned(p, len)
        \/ ~IsArp(p) /\ ~Awaited(p) /\ NetHandleIncomingPacket(p, Missed)
        \/ NetHandleIncomingPacket(p, Polled)
  BY DEF ReceiveWaits
<1>2. /\ Top.fn = "UdpReceiveData" /\ AskedInv(asked, rotations)
      /\ Ready(Polled, rotations) /\ Ready(Missed, rotations)
  BY PolledReady, MissedReady DEF ReceiveWaits, Polling, IInv
<1>3. CASE Awaited(p) /\ \E len \in Lengths : Returned(p, len)
  BY <1>2, <1>3, ReturnedKeeps DEF ReceiveWaits
<1>4. CASE NetHandleIncomingPacket(p, Missed) \/ NetHandleIncomingPacket(p, Polled)
  <2>1. Kept(rotations) /\ AskedInv(asked', rotations)
    BY <1>2, <1>4, HandleKeeps DEF ReceiveWaits
  <2> QED
    BY <2>1, SamePorts DEF ReceiveWaits
<1> QED
  BY <1>1, <1>3, <1>4

LEMMA NoPacketKeeps == IInv /\ NoPacket => IInv'
  BY BelowReady, MissedReady, QuietKeeps DEF NoPacket

LEMMA TimedOutKeeps == IInv /\ TimedOut => IInv'
  BY BelowReady, QuietKeeps DEF TimedOut

(***************************************************************************)
(* Theorems                                                                *)
(***************************************************************************)
LEMMA InitIInv == Init => IInv
<1> SUFFICES ASSUME Init PROVE IInv
  OBVIOUS
<1> DEFINE f == Function("main", Nothing, Nothing, 0)
<1>1. /\ f \in Functions /\ f.fn = "main" /\ f.d = Nothing /\ f.request = Nothing
      /\ f.held = Nothing
  <2>1. 0 \in 0..MaxCalls /\ 0 \in 0..ShortMax /\ 0 \in 0..Polls
    BY SizeAssumption
  <2> QED
    BY <2>1 DEF Function, Functions
<1> HIDE DEF f
<1>2. <<f>> \in Seq(Functions) /\ Len(<<f>>) = 1 /\ <<f>>[1] = f
  BY <1>1
<1>3. Framed(<<f>>, 0)
  BY <1>1, <1>2, Unnumbered, SizeAssumption DEF Framed
<1>4. StackInv(<<f>>, buffer, 0)
  BY <1>1, <1>2, <1>3 DEF StackInv, Faithful
<1>5. PortInv(connectPortRotaiting, rotations)
  BY PortAssumption, SizeAssumption DEF Init, PortInv, PortOf, Dynamic
<1>6. LastInv
  BY DEF Init, Quiet, LastInv, ResponseIsOwn, RejectsItsDatagram, SentIsMeant
<1> QED
  BY <1>4, <1>5, <1>6 DEF Init, IInv, Contents, Empty, AskedInv, f

LEMMA NextIInv == IInv /\ [Next]_vars => IInv'
<1>1. CASE Next
  BY <1>1, UdpSendDataMacKeeps, UdpSendDataKeeps, UdpSendDataTmpPortKeeps, TcpConnectKeeps,
     UdpReceiveDataKeeps, NetHandleNetworkKeeps, CallbackReturnsKeeps, ArpWaitsKeeps,
     ReceiveWaitsKeeps, NoPacketKeeps, TimedOutKeeps
     DEF Next, Calls, Progress
<1>2. CASE UNCHANGED vars
  BY <1>2 DEF vars, IInv, StackInv, Framed, Calm, Faithful, PortInv, AskedInv, Numbered,
     LastInv, ResponseIsOwn, RejectsItsDatagram, SentIsMeant
<1> QED
  BY <1>1, <1>2

LEMMA Invariance == Spec => []IInv
  BY InitIInv, NextIInv, PTL DEF Spec

(* The local port stays in the dynamic range and each function in progress *)
(* is the main loop, a callback or a wait, the main loop the first.        *)
THEOREM TypeCorrect == Spec => []TypeOK
<1>1. IInv => TypeOK
  BY DEF IInv, StackInv, Framed, PortInv, AskedInv, Contents, TypeOK
<1> QED
  BY <1>1, Invariance, PTL

(* What UdpReceiveData returns answers the request it was called for, in   *)
(* any nesting and however late answers are, while no port is given twice. *)
THEOREM OwnResponses ==
  ASSUME Unique
  PROVE  Spec => []ResponseIsOwn
<1>1. IInv => ResponseIsOwn
  BY DEF IInv, LastInv
<1> QED
  BY <1>1, Invariance, PTL

(* "Port unreachable" goes to the sender of the datagram the callback was  *)
(* given, and quotes that datagram if the callback called nothing.         *)
THEOREM Rejections == Spec => []RejectsItsDatagram
<1>1. IInv => RejectsItsDatagram
  BY DEF IInv, LastInv
<1> QED
  BY <1>1, Invariance, PTL

(* Received data that is sent on from where it was received arrives as it  *)
(* was, if that is done with UdpSendDataMac only.                          *)
THEOREM MeantData ==
  ASSUME Restrained
  PROVE  Spec => []SentIsMeant
<1>1. IInv => SentIsMeant
  BY DEF IInv, LastInv
<1> QED
  BY <1>1, Invariance, PTL

(* The length of data is found again from that of its frame. *)
LEMMA LengthFound ==
  ASSUME Plain, NEW len \in Lengths
  PROVE  DataLength(FrameLength(len)) = len /\ Summed(FrameLength(len)) = len
<1>1. len \in 18..255
  BY DEF Plain
<1>2. DataLength(FrameLength(len)) = len
  BY <1>1 DEF DataLength, FrameLength, Headers
<1>3. len % 256 = len
  BY <1>1
<1> QED
  BY <1>2, <1>3 DEF Summed

LEMMA HandleLengths ==
  ASSUME Plain, NEW p, NEW s, NetHandleIncomingPacket(p, s)
  PROVE  LengthsKept'
<1>1. CASE p.kind = "udp"
  BY <1>1 DEF NetHandleIncomingPacket, UdpHandleIncomingPacket, Quiet, LengthsKept
<1>2. CASE p.kind # "udp" /\ last' = Quiet
  BY <1>2 DEF Quiet, LengthsKept
<1>3. CASE \E len \in Lengths : IcmpSendReply(len)
  BY <1>3, LengthFound DEF IcmpSendReply, LengthsKept
<1> QED
  BY <1>1, <1>2, <1>3 DEF NetHandleIncomingPacket

LEMMA SendLengths ==
  ASSUME NEW d, NEW meant, NEW in, NEW s, UdpSend(d, meant, in, s) \/ ArpWhoIs(d, meant, s)
  PROVE  LengthsKept'
<1>1. \/ last'.kind \in {"udp", "refused"}
      \/ last' = Quiet
  BY DEF UdpSend, ArpWhoIs
<1> QED
  BY <1>1 DEF Quiet, LengthsKept

LEMMA NextLengths ==
  ASSUME Plain, LengthsKept, [Next]_vars
  PROVE  LengthsKept'
<1>1. CASE UdpSendDataMac \/ UdpSendData \/ UdpSendDataTmpPort
  BY <1>1, SendLengths DEF UdpSendDataMac, UdpSendData, UdpSendDataTmpPort
<1>2. CASE TcpConnect \/ UdpReceiveData \/ NoPacket \/ TimedOut
  BY <1>2 DEF TcpConnect, UdpReceiveData, NoPacket, TimedOut, Quiet, LengthsKept
<1>3. CASE NetHandleNetwork
  BY <1>3, HandleLengths DEF NetHandleNetwork
<1>4. CASE ArpWaits
  BY <1>4, HandleLengths, SendLengths DEF ArpWaits
<1>5. CASE ReceiveWaits
  <2>1. PICK p \in Network :
          \/ \E len \in Lengths : Returned(p, len)
          \/ NetHandleIncomingPacket(p, Missed) \/ NetHandleIncomingPacket(p, Polled)
    BY <1>5 DEF ReceiveWaits
  <2>2. CASE \E len \in Lengths : Returned(p, len)
    BY <2>2, LengthFound DEF Returned, LengthsKept
  <2> QED
    BY <2>1, <2>2, HandleLengths
<1>6. CASE CallbackReturns
  BY <1>6 DEF CallbackReturns, Quiet, LengthsKept
<1>7. CASE UNCHANGED vars
  BY <1>7 DEF vars, LengthsKept
<1> QED
  BY <1>1, <1>2, <1>3, <1>4, <1>5, <1>6, <1>7 DEF Next, Calls, Progress

(* The application is told the length of what was sent to it and an echo   *)
(* is as long as its request, for data of 18 to 255 bytes: less is padded  *)
(* to the shortest frame, and the checksum of an echo counts in one byte.  *)
THEOREM PlainLengths ==
  ASSUME Plain
  PROVE  Spec => []LengthsKept
<1>1. Init => LengthsKept
  BY DEF Init, Quiet, LengthsKept
<1>2. LengthsKept /\ [Next]_vars => LengthsKept'
  BY NextLengths
<1> QED
  BY <1>1, <1>2, PTL DEF Spec

-----------------------------------------------------------------------------
(***************************************************************************)
(* The lookups that datagrams wait for: theorems about ArpCache, for any   *)
(* number of lines, hosts and lookups within each other.                   *)
(***************************************************************************)

(* A lookup that is put on the stack, or taken off it, leaves the others   *)
(* as they are.                                                            *)
LEMMA AppendLookup ==
  ASSUME NEW s \in Seq(Lookup), NEW f \in Lookup
  PROVE  /\ Append(s, f) \in Seq(Lookup)
         /\ Len(Append(s, f)) = Len(s) + 1
         /\ \A k \in DOMAIN Append(s, f) : Append(s, f)[k] = f \/ (k \in DOMAIN s /\ Append(s, f)[k] = s[k])
<1> DEFINE t == Append(s, f)
           n == Len(s)
<1>1. /\ t \in Seq(Lookup) /\ Len(t) = n + 1
      /\ \A k \in 1..n : t[k] = s[k]
      /\ t[n + 1] = f
  BY AppendProperties
<1>2. n \in Nat /\ DOMAIN s = 1..n
  BY LenProperties
<1> HIDE DEF t
<1>3. DOMAIN t = 1..(n + 1)
  BY <1>1, LenProperties
<1> HIDE DEF n
<1>4. ASSUME NEW k \in DOMAIN t PROVE t[k] = f \/ (k \in DOMAIN s /\ t[k] = s[k])
  <2>1. k \in 1..n \/ k = n + 1
    BY <1>2, <1>3
  <2> QED
    BY <1>1, <1>2, <2>1
<1> QED
  BY <1>1, <1>4 DEF t, n

LEMMA EndLookup ==
  ASSUME NEW s \in Seq(Lookup), s # <<>>
  PROVE  /\ SubSeq(s, 1, Len(s) - 1) \in Seq(Lookup)
         /\ Len(SubSeq(s, 1, Len(s) - 1)) = Len(s) - 1
         /\ \A k \in DOMAIN SubSeq(s, 1, Len(s) - 1) :
              k \in DOMAIN s /\ SubSeq(s, 1, Len(s) - 1)[k] = s[k]
         /\ s[Len(s)] \in Lookup
         /\ Len(s) \in DOMAIN s
<1> DEFINE t == SubSeq(s, 1, Len(s) - 1)
           n == Len(s)
<1>1. n \in Nat /\ n >= 1 /\ DOMAIN s = 1..n
  BY EmptySeq, LenProperties
<1>2. \A k \in 1..n : s[k] \in Lookup
  BY ElementOfSeq
<1>3. /\ t \in Seq(Lookup)
      /\ Len(t) = IF 1 <= n - 1 THEN n - 1 - 1 + 1 ELSE 0
      /\ \A k \in 1..(n - 1 - 1 + 1) : t[k] = s[1 + k - 1]
  <2>1. 1 \in Int /\ n - 1 \in Int /\ \A k \in 1..(n - 1) : s[k] \in Lookup
    BY <1>1, <1>2
  <2> HIDE <1>2
  <2> QED
    BY <2>1, SubSeqProperties
<1>4. DOMAIN t = 1..Len(t)
  BY <1>3, LenProperties
<1> HIDE DEF t, n
<1>5. Len(t) = n - 1
  BY <1>1, <1>3
<1>6. ASSUME NEW k \in DOMAIN t PROVE k \in DOMAIN s /\ t[k] = s[k]
  <2>1. k \in 1..(n - 1) /\ k \in 1..(n - 1 - 1 + 1) /\ 1 + k - 1 = k
    BY <1>1, <1>4, <1>5
  <2> QED
    BY <1>1, <1>3, <2>1
<1> QED
  BY <1>1, <1>2, <1>3, <1>5, <1>6 DEF t, n

(* Ageing and renewing keep the use count within its width. *)
LEMMA ScanType ==
  ASSUME NEW c \in [Lines -> Line], NEW found
  PROVE  Scan(c, found) \in [Lines -> Line]
<1>1. \A n \in 0..MaxCount : Renew(n) \in 0..MaxCount /\ Age(n) \in 0..MaxCount
  BY CacheAssumption DEF Renew, Age
<1>2. ASSUME NEW i \in Lines PROVE Scan(c, found)[i] \in Line
  <2>1. c[i] \in Line
    OBVIOUS
  <2>2. c[i].count \in 0..MaxCount
    BY <2>1 DEF Line
  <2>3. Renew(c[i].count) \in 0..MaxCount /\ Age(c[i].count) \in 0..MaxCount
    BY <1>1, <2>2
  <2>4. Scan(c, found)[i] = [c[i] EXCEPT !.count = IF i \in found THEN Renew(c[i].count) ELSE Age(c[i].count)]
    BY DEF Scan
  <2> QED
    BY <2>1, <2>3, <2>4 DEF Line
<1> QED
  BY <1>2 DEF Scan

(* Only the host of a line can be found in it; ageing changes no host. *)
LEMMA ScanKeeps ==
  ASSUME NEW c \in [Lines -> Line], NEW found, NEW i \in Lines
  PROVE  /\ Scan(c, found)[i].ip = c[i].ip
         /\ Scan(c, found)[i].mac = c[i].mac
         /\ Scan(c, found)[i].count = IF i \in found THEN Renew(c[i].count) ELSE Age(c[i].count)
<1>1. c[i] \in Line
  OBVIOUS
<1> QED
  BY <1>1 DEF Scan, Line

(***************************************************************************)
(* Type invariant.                                                         *)
(***************************************************************************)
LEMMA CacheInitType == CacheInit => CacheTypeOK
<1> SUFFICES ASSUME CacheInit PROVE CacheTypeOK
  OBVIOUS
<1>1. arpCache \in [Lines -> Line]
  BY CacheAssumption DEF CacheInit, Line
<1> QED
  BY <1>1 DEF CacheInit, CacheTypeOK, Answer, Says

LEMMA CacheStepType == CacheTypeOK /\ [CacheNext]_cacheVars => CacheTypeOK'
<1> SUFFICES ASSUME CacheTypeOK, [CacheNext]_cacheVars PROVE CacheTypeOK'
  OBVIOUS
<1> USE DEF CacheTypeOK
<1>1. ASSUME NEW h \in Neighbours, LookUp(h) PROVE CacheTypeOK'
  <2> DEFINE found == FoundIn(arpCache, h)
             scanned == Scan(arpCache, found)
  <2>1. arpCache' \in [Lines -> Line]
    BY <1>1, ScanType DEF LookUp
  <2>2. lookups' \in Seq(Lookup)
    <3>1. CASE UNCHANGED lookups
      BY <3>1
    <3>2. CASE \E i \in MinUse(scanned) :
                 lookups' = Append(lookups, [ip |-> h, minUseCacheId |-> i])
      <4>1. PICK i \in MinUse(scanned) :
                 lookups' = Append(lookups, [ip |-> h, minUseCacheId |-> i])
        BY <3>2
      <4>2. [ip |-> h, minUseCacheId |-> i] \in Lookup
        BY <4>1 DEF MinUse, Lookup
      <4> QED
        BY <4>1, <4>2, AppendLookup
    <3> QED
      BY <1>1, <3>1, <3>2 DEF LookUp
  <2>3. replies' \subseteq Neighbours
    BY <1>1 DEF LookUp
  <2>4. answer' \in Answer
    <3>1. CASE UNCHANGED answer
      BY <3>1
    <3>2. CASE \E i \in found : answer' = Says(h, arpCache[i].mac)
      <4>1. PICK i \in Lines : answer' = Says(h, arpCache[i].mac)
        BY <3>2 DEF FoundIn
      <4>2. arpCache[i].mac \in Neighbours \cup {NoNeighbour}
        BY <4>1 DEF Line
      <4> QED
        BY <4>1, <4>2 DEF Says, Answer
    <3> QED
      BY <1>1, <3>1, <3>2 DEF LookUp
  <2> QED
    BY <2>1, <2>2, <2>3, <2>4
<1>2. ASSUME NEW h \in Neighbours, NEW opcode \in {"request", "reply"}, ArpPacket(h, opcode)
      PROVE  CacheTypeOK'
  <2>1. Current \in Lookup /\ lookups' \in Seq(Lookup)
    BY <1>2, EndLookup DEF ArpPacket, Waiting, Current, Ended
  <2>2. replies' \subseteq Neighbours
    BY <1>2 DEF ArpPacket, Outstanding
  <2>3. CASE UNCHANGED <<arpCache, answer>>
    BY <2>1, <2>2, <2>3
  <2>4. CASE /\ arpCache' = [arpCache EXCEPT ![Current.minUseCacheId] =
                 [ip |-> Current.ip, mac |-> h, count |-> IF Used(@) THEN @.count ELSE 2]]
             /\ answer' = Says(Current.ip, h)
    <3> DEFINE i == Current.minUseCacheId
               line == [ip |-> Current.ip, mac |-> h,
                        count |-> IF Used(arpCache[i]) THEN arpCache[i].count ELSE 2]
    <3>1. i \in Lines /\ Current.ip \in Neighbours
      BY <2>1 DEF Lookup
    <3>2. arpCache[i].count \in 0..MaxCount
      BY <3>1 DEF Line
    <3>3. line \in Line
      BY <3>1, <3>2, CacheAssumption DEF Line
    <3>4. arpCache' = [arpCache EXCEPT ![i] = line]
      BY <2>4
    <3>5. arpCache' \in [Lines -> Line]
      BY <3>3, <3>4
    <3>6. answer' \in Answer
      BY <2>4, <3>1 DEF Says, Answer
    <3> QED
      BY <2>1, <2>2, <3>5, <3>6
  <2> QED
    BY <1>2, <2>3, <2>4 DEF ArpPacket
<1>3. CASE Timeout
  <2>1. lookups' \in Seq(Lookup)
    BY <1>3, EndLookup DEF Timeout, Waiting, Ended
  <2> QED
    BY <1>3, <2>1 DEF Timeout, Outstanding
<1>4. CASE UNCHANGED cacheVars
  BY <1>4 DEF cacheVars
<1> QED
  BY <1>1, <1>2, <1>3, <1>4 DEF CacheNext

(* The cache, the waiting lookups and the answers keep their types; in     *)
(* particular no use count leaves its unsigned char.                       *)
THEOREM CacheTypeCorrect == CacheSpec => []CacheTypeOK
<1> QED
  BY CacheInitType, CacheStepType, PTL DEF CacheSpec

LEMMA UnusedStaysUnused ==
  ASSUME NEW c \in [Lines -> Line], NEW h, NEW i \in Lines, ~Used(c[i])
  PROVE  ~Used(Scan(c, FoundIn(c, h))[i])
<1>1. i \notin FoundIn(c, h)
  BY DEF FoundIn
<1> QED
  BY <1>1, ScanKeeps DEF Used, Age

(***************************************************************************)
(* Without late replies and without lookups within lookups the answers are *)
(* right: the one reply that can arrive is the one that was asked for.     *)
(***************************************************************************)
Expected ==
  /\ Len(lookups) <= 1
  /\ \A h \in replies : lookups # <<>> /\ h = Current.ip

LEMMA InitTruthful == CacheInit => Truthful /\ Expected
  BY DEF CacheInit, Truthful, Expected, Used, Says

LEMMA StepTruthful ==
  ASSUME ~Late, MaxLookups = 1
  PROVE  CacheTypeOK /\ Truthful /\ Expected /\ [CacheNext]_cacheVars => Truthful' /\ Expected'
<1> SUFFICES ASSUME CacheTypeOK, Truthful, Expected, [CacheNext]_cacheVars PROVE Truthful' /\ Expected'
  OBVIOUS
<1>0. Len(lookups) \in Nat /\ (lookups = <<>> <=> Len(lookups) = 0)
  BY EmptySeq, LenProperties DEF CacheTypeOK
<1>1. ASSUME NEW h \in Neighbours, LookUp(h) PROVE Truthful' /\ Expected'
  <2> DEFINE found == FoundIn(arpCache, h)
             scanned == Scan(arpCache, found)
  <2>1. lookups = <<>>
    BY <1>0, <1>1 DEF LookUp
  <2>2. replies = {}
    BY <2>1 DEF Expected
  <2>3. ASSUME NEW i \in Lines PROVE Used(scanned[i]) => scanned[i].ip = scanned[i].mac
    <3>1. i \in found => Used(arpCache[i])
      BY DEF FoundIn
    <3>2. ~Used(arpCache[i]) => ~Used(scanned[i])
      BY UnusedStaysUnused DEF CacheTypeOK
    <3> QED
      BY <3>1, <3>2, ScanKeeps DEF Truthful, CacheTypeOK
  <2>4. arpCache' = scanned
    BY <1>1 DEF LookUp
  <2>5. CASE /\ \E i \in found : answer' = Says(h, arpCache[i].mac)
             /\ UNCHANGED <<lookups, replies>>
    <3>1. PICK i \in found : answer' = Says(h, arpCache[i].mac)
      BY <2>5
    <3>2. i \in Lines /\ Used(arpCache[i]) /\ arpCache[i].ip = h
      BY <3>1 DEF FoundIn
    <3>3. answer'.ip = answer'.mac
      BY <3>1, <3>2 DEF Truthful, Says
    <3>4. Truthful'
      BY <2>3, <2>4, <3>3 DEF Truthful
    <3> QED
      BY <2>2, <2>5, <3>4 DEF Expected, Current
  <2>6. CASE /\ \E i \in MinUse(scanned) :
                   lookups' = Append(lookups, [ip |-> h, minUseCacheId |-> i])
             /\ replies' = replies \cup {h}
             /\ UNCHANGED answer
    <3>1. PICK i : lookups' = Append(lookups, [ip |-> h, minUseCacheId |-> i])
      BY <2>6
    <3>2. lookups' = <<[ip |-> h, minUseCacheId |-> i]>>
      BY <2>1, <3>1
    <3>3. Len(lookups') = 1 /\ lookups' # <<>> /\ Current'.ip = h
      BY <3>2 DEF Current
    <3>4. Truthful'
      BY <2>3, <2>4, <2>6 DEF Truthful
    <3> QED
      BY <2>2, <2>6, <3>3, <3>4 DEF Expected
  <2> QED
    BY <1>1, <2>5, <2>6 DEF LookUp
<1>2. ASSUME lookups # <<>>, lookups' = Ended PROVE lookups' = <<>>
  <2>1. Len(lookups) = 1
    BY <1>0, <1>2 DEF Expected
  <2>2. lookups' \in Seq(Lookup) /\ Len(lookups') = 0
    BY <1>2, <2>1, EndLookup DEF Ended, CacheTypeOK
  <2> QED
    BY <2>2, EmptySeq
<1>3. ASSUME NEW h \in Neighbours, NEW opcode \in {"request", "reply"}, ArpPacket(h, opcode)
      PROVE  Truthful' /\ Expected'
  <2>1. lookups' = <<>>
    BY <1>2, <1>3 DEF ArpPacket, Waiting
  <2>2. replies' = {}
    BY <1>3 DEF ArpPacket, Outstanding, Expected
  <2>3. Expected'
    BY <1>0, <2>1, <2>2 DEF Expected
  <2>4. CASE opcode = "reply"
    <3>1. h = Current.ip
      BY <1>3, <2>4 DEF ArpPacket, Expected
    <3>2. Current \in Lookup
      BY <1>3, EndLookup DEF ArpPacket, Waiting, Current, CacheTypeOK
    <3> DEFINE i == Current.minUseCacheId
    <3>3. /\ i \in Lines
          /\ arpCache' = [arpCache EXCEPT ![i] =
               [ip |-> h, mac |-> h, count |-> IF Used(arpCache[i]) THEN arpCache[i].count ELSE 2]]
          /\ answer' = Says(h, h)
      BY <1>3, <2>4, <3>1, <3>2 DEF ArpPacket, ArpPacketIsArp, Lookup
    <3> QED
      BY <2>3, <3>3 DEF Truthful, Says, CacheTypeOK
  <2>5. CASE opcode = "request"
    BY <1>3, <2>3, <2>5 DEF ArpPacket, ArpPacketIsArp, Truthful
  <2> QED
    BY <2>4, <2>5
<1>4. CASE Timeout
  <2>1. lookups' = <<>>
    BY <1>2, <1>4 DEF Timeout, Waiting
  <2>2. replies' = {}
    BY <1>4 DEF Timeout, Outstanding, Expected
  <2> QED
    BY <1>0, <1>4, <2>1, <2>2 DEF Timeout, Expected, Truthful
<1>5. CASE UNCHANGED cacheVars
  BY <1>5 DEF cacheVars, Truthful, Expected, Current
<1> QED
  BY <1>1, <1>3, <1>4, <1>5 DEF CacheNext

(* On a network where a reply arrives while its lookup waits or never, and *)
(* with callbacks that do not start lookups, cache and answers are right.  *)
THEOREM PunctualTruth ==
  ASSUME ~Late, MaxLookups = 1
  PROVE  CacheSpec => []Truthful
<1> QED
  BY CacheInitType, CacheStepType, InitTruthful, StepTruthful, PTL DEF CacheSpec
=============================================================================
