--------------------------- MODULE PacketsProofs ---------------------------
(***************************************************************************)
(* Theorems about Packets, for any number of hosts, options and sizes that *)
(* fit the buffer.                                                         *)
(***************************************************************************)
EXTENDS Packets, SequenceTheorems, WellFoundedInduction, TLAPS

(***************************************************************************)
(* Sequences of words                                                      *)
(***************************************************************************)
LEMMA SequenceIs == ASSUME NEW S, NEW s \in Seq(S) PROVE Sequence(s)
<1>1. s \in [1..Len(s) -> S] /\ Len(s) \in Nat
  OBVIOUS
<1>2. s \in [1..Len(s) -> {s[k] : k \in DOMAIN s}]
  BY <1>1
<1> QED BY <1>1, <1>2 DEF Sequence

LEMMA Elements == ASSUME NEW s, Sequence(s)
                  PROVE Len(s) \in Nat /\ DOMAIN s = 1..Len(s) /\ s = [k \in 1..Len(s) |-> s[k]]
  BY DEF Sequence

LEMMA Catenation ==
  ASSUME NEW s, NEW t, Sequence(s), Sequence(t)
  PROVE  /\ Sequence(s \o t) /\ Len(s \o t) = Len(s) + Len(t)
         /\ \A k \in 1..Len(s) : (s \o t)[k] = s[k]
         /\ \A k \in 1..Len(t) : (s \o t)[Len(s) + k] = t[k]
<1> DEFINE S == {s[k] : k \in DOMAIN s} \cup {t[k] : k \in DOMAIN t}
<1>1. s \in Seq(S) /\ t \in Seq(S)
  <2>1. s \in [1..Len(s) -> S] /\ t \in [1..Len(t) -> S] /\ Len(s) \in Nat /\ Len(t) \in Nat
    BY Elements
  <2> QED BY <2>1
<1> HIDE DEF S
<1>2. s \o t \in Seq(S) /\ Len(s \o t) = Len(s) + Len(t)
  BY <1>1
<1>3. ASSUME NEW k \in 1..Len(s) PROVE (s \o t)[k] = s[k]
  BY <1>1
<1>4. ASSUME NEW k \in 1..Len(t) PROVE (s \o t)[Len(s) + k] = t[k]
  BY <1>1
<1>5. Sequence(s \o t)
  BY <1>2, SequenceIs
<1> QED BY <1>2, <1>3, <1>4, <1>5

LEMMA SameWords ==
  ASSUME NEW s, NEW t, Sequence(s), Sequence(t), Len(s) = Len(t), \A k \in 1..Len(s) : s[k] = t[k]
  PROVE  s = t
  BY Elements

(* Words of a known number. *)
Long(s, n) == Sequence(s) /\ Len(s) = n

LEMMA Joined ==
  ASSUME NEW s, NEW t, NEW m \in Nat, NEW n \in Nat, Long(s, m), Long(t, n) PROVE Long(s \o t, m + n)
  BY Catenation DEF Long

LEMMA ArrayLong == ASSUME NEW n \in Nat, NEW f, f = [k \in 1..n |-> f[k]] PROVE Long(f, n)
<1>1. f \in [1..n -> {f[k] : k \in 1..n}]
  OBVIOUS
<1>2. f \in Seq({f[k] : k \in 1..n}) /\ Len(f) = n
  BY <1>1
<1> QED BY <1>2, SequenceIs DEF Long

(* The sequences that packets are made of. *)
LEMMA Parts ==
  /\ \A s : Long(Mac(s), 3)
  /\ \A s : Long(Ip(s), 2)
  /\ \A s, r : Long(Number(s, r), 2)
  /\ \A n \in Nat : Long(Zeros(n), n)
  /\ \A who : \A n \in Nat : Long(Data(who, n), n)
<1>1. ASSUME NEW s PROVE Long(Mac(s), 3)
  BY ArrayLong DEF Mac
<1>2. ASSUME NEW s PROVE Long(Ip(s), 2)
  BY ArrayLong DEF Ip
<1>3. ASSUME NEW s, NEW r PROVE Long(Number(s, r), 2)
  BY ArrayLong DEF Number
<1>4. ASSUME NEW n \in Nat PROVE Long(Zeros(n), n)
  BY ArrayLong DEF Zeros
<1>5. ASSUME NEW who, NEW n \in Nat PROVE Long(Data(who, n), n)
  BY ArrayLong DEF Data
<1> QED BY <1>1, <1>2, <1>3, <1>4, <1>5

LEMMA Tuples ==
  /\ Long(<<>>, 0)
  /\ \A a : Long(<<a>>, 1)
  /\ \A a, b : Long(<<a, b>>, 2)
  /\ \A a, b, c : Long(<<a, b, c>>, 3)
  /\ \A a, b, c, d : Long(<<a, b, c, d>>, 4)
  /\ \A a, b, c, d, e, f : Long(<<a, b, c, d, e, f>>, 6)
<1>1. Long(<<>>, 0)
  BY DEF Sequence, Long
<1>2. ASSUME NEW a PROVE Long(<<a>>, 1)
  <2>1. <<a>> \in Seq({a})
    OBVIOUS
  <2> QED BY <2>1, SequenceIs DEF Long
<1>3. ASSUME NEW a, NEW b PROVE Long(<<a, b>>, 2)
  <2>1. <<a, b>> \in Seq({a, b})
    OBVIOUS
  <2> QED BY <2>1, SequenceIs DEF Long
<1>4. ASSUME NEW a, NEW b, NEW c PROVE Long(<<a, b, c>>, 3)
  <2>1. <<a, b, c>> \in Seq({a, b, c})
    OBVIOUS
  <2> QED BY <2>1, SequenceIs DEF Long
<1>5. ASSUME NEW a, NEW b, NEW c, NEW d PROVE Long(<<a, b, c, d>>, 4)
  <2>1. <<a, b, c, d>> \in Seq({a, b, c, d})
    OBVIOUS
  <2> QED BY <2>1, SequenceIs DEF Long
<1>6. ASSUME NEW a, NEW b, NEW c, NEW d, NEW e, NEW f PROVE Long(<<a, b, c, d, e, f>>, 6)
  <2>1. <<a, b, c, d, e, f>> \in Seq({a, b, c, d, e, f})
    OBVIOUS
  <2> QED BY <2>1, SequenceIs DEF Long
<1> QED BY <1>1, <1>2, <1>3, <1>4, <1>5, <1>6

(***************************************************************************)
(* The buffer has words at a place.                                        *)
(***************************************************************************)
Buffer(b) == b = [k \in 0..(NET_BUFFER_SIZE - 1) |-> b[k]]
At(b, p, words) == \A k \in 1..Len(words) : b[p + k - 1] = words[k]

LEMMA AtCatenation ==
  ASSUME NEW b, NEW p \in Nat, NEW s, NEW t, Sequence(s), Sequence(t)
  PROVE  At(b, p, s \o t) <=> At(b, p, s) /\ At(b, p + Len(s), t)
<1>1. ASSUME At(b, p, s \o t) PROVE At(b, p, s)
  <2> SUFFICES ASSUME NEW k \in 1..Len(s) PROVE b[p + k - 1] = s[k]
    BY DEF At
  <2>1. k \in 1..Len(s \o t) /\ (s \o t)[k] = s[k]
    BY Catenation, Elements
  <2> QED BY <1>1, <2>1 DEF At
<1>2. ASSUME At(b, p, s \o t) PROVE At(b, p + Len(s), t)
  <2> SUFFICES ASSUME NEW k \in 1..Len(t) PROVE b[p + Len(s) + k - 1] = t[k]
    BY DEF At
  <2>1. Len(s) + k \in 1..Len(s \o t) /\ (s \o t)[Len(s) + k] = t[k]
    BY Catenation, Elements
  <2>2. b[p + (Len(s) + k) - 1] = t[k]
    BY <1>2, <2>1 DEF At
  <2>3. p + (Len(s) + k) - 1 = p + Len(s) + k - 1
    BY Elements
  <2> QED BY <2>2, <2>3
<1>3. ASSUME At(b, p, s), At(b, p + Len(s), t) PROVE At(b, p, s \o t)
  <2> SUFFICES ASSUME NEW k \in 1..Len(s \o t) PROVE b[p + k - 1] = (s \o t)[k]
    BY DEF At
  <2>1. CASE k <= Len(s)
    BY <1>3, <2>1, Catenation, Elements DEF At
  <2>2. CASE ~(k <= Len(s))
    <3>1. k - Len(s) \in 1..Len(t) /\ k = Len(s) + (k - Len(s)) /\ p + k - 1 = p + Len(s) + (k - Len(s)) - 1
      BY <2>2, Catenation, Elements
    <3>2. b[p + Len(s) + (k - Len(s)) - 1] = t[k - Len(s)]
      BY <1>3, <3>1 DEF At
    <3>3. (s \o t)[Len(s) + (k - Len(s))] = t[k - Len(s)]
      BY <3>1, Catenation
    <3> QED BY <3>1, <3>2, <3>3
  <2> QED BY <2>1, <2>2
<1> QED BY <1>1, <1>2, <1>3

LEMMA JoinedAt ==
  ASSUME NEW b, NEW p \in Nat, NEW q \in Nat, NEW s, NEW t, NEW m \in Nat, NEW n \in Nat,
         Long(s, m), Long(t, n), q = p + m
  PROVE  At(b, p, s \o t) <=> At(b, p, s) /\ At(b, q, t)
  BY AtCatenation DEF Long

(* Small tuples are given word by word. *)
LEMMA AtNone == ASSUME NEW b, NEW p PROVE At(b, p, <<>>)
  BY DEF At

LEMMA AtOne == ASSUME NEW b, NEW p \in Nat, NEW v
           PROVE  At(b, p, <<v>>) <=> b[p] = v
<1>1. At(b, p, <<v>>) <=> \A k \in 1..1 : b[p + k - 1] = <<v>>[k]
  BY DEF At
<1>2. /\ p + 1 - 1 = p /\ 1..1 = {1}
      /\ <<v>>[1] = v
  OBVIOUS
<1> QED BY <1>1, <1>2

LEMMA AtTwo == ASSUME NEW b, NEW p \in Nat, NEW v, NEW w
           PROVE  At(b, p, <<v, w>>) <=> b[p] = v /\ b[p + 1] = w
<1>1. At(b, p, <<v, w>>) <=> \A k \in 1..2 : b[p + k - 1] = <<v, w>>[k]
  BY DEF At
<1>2. /\ p + 1 - 1 = p /\ p + 2 - 1 = p + 1 /\ 1..2 = {1, 2}
      /\ <<v, w>>[1] = v /\ <<v, w>>[2] = w
  OBVIOUS
<1> QED BY <1>1, <1>2

LEMMA AtThree == ASSUME NEW b, NEW p \in Nat, NEW v, NEW w, NEW x
           PROVE  At(b, p, <<v, w, x>>) <=> b[p] = v /\ b[p + 1] = w /\ b[p + 2] = x
<1>1. At(b, p, <<v, w, x>>) <=> \A k \in 1..3 : b[p + k - 1] = <<v, w, x>>[k]
  BY DEF At
<1>2. /\ p + 1 - 1 = p /\ p + 2 - 1 = p + 1 /\ p + 3 - 1 = p + 2 /\ 1..3 = {1, 2, 3}
      /\ <<v, w, x>>[1] = v /\ <<v, w, x>>[2] = w /\ <<v, w, x>>[3] = x
  OBVIOUS
<1> QED BY <1>1, <1>2

LEMMA AtFour == ASSUME NEW b, NEW p \in Nat, NEW v, NEW w, NEW x, NEW y
           PROVE  At(b, p, <<v, w, x, y>>) <=> b[p] = v /\ b[p + 1] = w /\ b[p + 2] = x /\ b[p + 3] = y
<1>1. At(b, p, <<v, w, x, y>>) <=> \A k \in 1..4 : b[p + k - 1] = <<v, w, x, y>>[k]
  BY DEF At
<1>2. /\ p + 1 - 1 = p /\ p + 2 - 1 = p + 1 /\ p + 3 - 1 = p + 2 /\ p + 4 - 1 = p + 3 /\ 1..4 = {1, 2, 3, 4}
      /\ <<v, w, x, y>>[1] = v /\ <<v, w, x, y>>[2] = w /\ <<v, w, x, y>>[3] = x /\ <<v, w, x, y>>[4] = y
  OBVIOUS
<1> QED BY <1>1, <1>2

(* What two buffers have in common. *)
Alike(b, c, m, n) == \A k \in m..n : b[k] = c[k]

LEMMA AtAlike ==
  ASSUME NEW b, NEW c, NEW m \in Nat, NEW n \in Int, Alike(b, c, m, n),
         NEW p \in Nat, NEW l \in Nat, NEW words, Long(words, l), m <= p, p + l <= n + 1
  PROVE  At(b, p, words) <=> At(c, p, words)
<1>1. ASSUME NEW k \in 1..Len(words) PROVE p + k - 1 \in m..n
  BY Elements DEF Long
<1>2. ASSUME NEW k \in 1..Len(words) PROVE b[p + k - 1] = c[p + k - 1]
  BY <1>1 DEF Alike
<1> QED BY <1>2 DEF At

Last == NET_BUFFER_SIZE - 1

LEMMA LastIs == Last \in Nat /\ Last >= 35 /\ NET_BUFFER_SIZE = Last + 1
  BY SizeAssumption DEF Last

LEMMA PutBuffer == ASSUME NEW b, Buffer(b), NEW p, NEW words PROVE Buffer(Put(b, p, words))
  BY DEF Buffer, Put

(* Put writes words at a place and nothing else. *)
LEMMA PutIs ==
  ASSUME NEW b, Buffer(b), NEW p \in Nat, NEW n \in Nat, NEW words, Long(words, n), p + n <= Last + 1
  PROVE  /\ Buffer(Put(b, p, words)) /\ At(Put(b, p, words), p, words)
         /\ Alike(b, Put(b, p, words), 0, p - 1) /\ Alike(b, Put(b, p, words), p + n, Last)
<1>1. DOMAIN b = 0..(NET_BUFFER_SIZE - 1) /\ Len(words) = n /\ NET_BUFFER_SIZE = Last + 1 /\ Last \in Nat
  BY LastIs DEF Buffer, Long
<1>2. \A k \in 0..Last :
        Put(b, p, words)[k] = IF k >= p /\ k < p + n THEN words[k - p + 1] ELSE b[k]
  BY <1>1 DEF Put
<1>3. Buffer(Put(b, p, words))
  BY PutBuffer
<1>4. ASSUME NEW k \in 1..n PROVE Put(b, p, words)[p + k - 1] = words[k]
  <2>1. p + k - 1 \in 0..Last /\ p + k - 1 >= p /\ p + k - 1 < p + n /\ (p + k - 1) - p + 1 = k
    BY <1>1
  <2> QED BY <1>2, <2>1
<1>5. ASSUME NEW k \in 0..(p - 1) PROVE b[k] = Put(b, p, words)[k]
  <2>1. k \in 0..Last /\ ~(k >= p /\ k < p + n)
    BY <1>1
  <2> QED BY <1>2, <2>1
<1>6. ASSUME NEW k \in (p + n)..Last PROVE b[k] = Put(b, p, words)[k]
  <2>1. k \in 0..Last /\ ~(k >= p /\ k < p + n)
    BY <1>1
  <2> QED BY <1>2, <2>1
<1> QED BY <1>1, <1>3, <1>4, <1>5, <1>6 DEF At, Alike

LEMMA WordsAt ==
  ASSUME NEW b, NEW p \in Nat, NEW n \in Nat, NEW words, Long(words, n)
  PROVE  At(b, p, words) <=> Words(b, p, n) = words
<1>1. Len(words) = n /\ words = [k \in 1..n |-> words[k]]
  BY Elements DEF Long
<1>2. Words(b, p, n) = [k \in 1..n |-> b[p + k - 1]]
  BY DEF Words
<1>3. ASSUME At(b, p, words) PROVE Words(b, p, n) = words
  BY <1>1, <1>2, <1>3 DEF At
<1>4. ASSUME Words(b, p, n) = words PROVE At(b, p, words)
  <2>1. ASSUME NEW k \in 1..n PROVE Words(b, p, n)[k] = b[p + k - 1]
    BY <1>2
  <2> QED BY <1>1, <1>4, <2>1 DEF At
<1> QED BY <1>3, <1>4

(***************************************************************************)
(* Formats, place by place                                                 *)
(***************************************************************************)
FrameHeaderAt(b, from, to, type) == At(b, 0, Mac(to)) /\ At(b, 3, Mac(from)) /\ b[6] = <<"type", type>>

FrameHeader(from, to, type) == Mac(to) \o Mac(from) \o <<<<"type", type>>>>

LEMMA FrameHeaderIs ==
  ASSUME NEW from, NEW to, NEW type
  PROVE  /\ Long(FrameHeader(from, to, type), 7)
         /\ \A b : At(b, 0, FrameHeader(from, to, type)) <=> FrameHeaderAt(b, from, to, type)
<1> DEFINE addresses == Mac(to) \o Mac(from)
<1>1. Long(addresses, 6)
  BY Parts, Joined
<1>2. ASSUME NEW b PROVE At(b, 0, addresses) <=> At(b, 0, Mac(to)) /\ At(b, 3, Mac(from))
  BY Parts, JoinedAt
<1> HIDE DEF addresses
<1>3. Long(addresses \o <<<<"type", type>>>>, 7)
  BY <1>1, Tuples, Joined
<1>4. ASSUME NEW b
      PROVE  At(b, 0, addresses \o <<<<"type", type>>>>) <=> At(b, 0, addresses) /\ b[6] = <<"type", type>>
  <2>1. At(b, 0, addresses \o <<<<"type", type>>>>) <=> At(b, 0, addresses) /\ At(b, 6, <<<<"type", type>>>>)
    BY <1>1, Tuples, JoinedAt
  <2>2. At(b, 6, <<<<"type", type>>>>) <=> b[6] = <<"type", type>>
    BY AtOne
  <2> QED BY <2>1, <2>2
<1> QED BY <1>2, <1>3, <1>4 DEF FrameHeader, FrameHeaderAt, addresses

LEMMA FrameAt ==
  ASSUME NEW from, NEW to, NEW type, NEW n \in Nat, NEW words, Long(words, n)
  PROVE  /\ Long(Frame(from, to, type, words), 7 + n)
         /\ \A b : At(b, 0, Frame(from, to, type, words)) <=> FrameHeaderAt(b, from, to, type) /\ At(b, 7, words)
<1>1. Long(FrameHeader(from, to, type), 7)
  BY FrameHeaderIs
<1>2. Long(FrameHeader(from, to, type) \o words, 7 + n)
  BY <1>1, Joined
<1>3. ASSUME NEW b
      PROVE  At(b, 0, FrameHeader(from, to, type) \o words) <=> At(b, 0, FrameHeader(from, to, type)) /\ At(b, 7, words)
  BY <1>1, JoinedAt
<1>4. Frame(from, to, type, words) = FrameHeader(from, to, type) \o words
  BY DEF Frame, FrameHeader
<1> QED BY <1>2, <1>3, <1>4, FrameHeaderIs

Start(protocol, n, sum) == <<<<"version">>, Length(n), <<"id">>, <<"flags">>, <<"ttl", protocol>>, sum>>

LEMMA StartAt ==
  ASSUME NEW b, NEW protocol, NEW n, NEW sum
  PROVE  /\ Long(Start(protocol, n, sum), 6)
         /\ At(b, 7, Start(protocol, n, sum)) <=>
              /\ b[7] = <<"version">> /\ b[8] = Length(n) /\ b[9] = <<"id">> /\ b[10] = <<"flags">>
              /\ b[11] = <<"ttl", protocol>> /\ b[12] = sum
<1> DEFINE start == Start(protocol, n, sum)
<1>1. Long(start, 6)
  BY Tuples DEF Start
<1>2. /\ start[1] = <<"version">> /\ start[2] = Length(n) /\ start[3] = <<"id">>
      /\ start[4] = <<"flags">> /\ start[5] = <<"ttl", protocol>> /\ start[6] = sum
  BY DEF Start
<1> HIDE DEF start
<1>3. At(b, 7, start) <=> \A k \in 1..6 : b[7 + k - 1] = start[k]
  BY <1>1 DEF At, Long
<1>4. /\ 1..6 = {1, 2, 3, 4, 5, 6} /\ 7 + 1 - 1 = 7 /\ 7 + 2 - 1 = 8 /\ 7 + 3 - 1 = 9
      /\ 7 + 4 - 1 = 10 /\ 7 + 5 - 1 = 11 /\ 7 + 6 - 1 = 12
  OBVIOUS
<1>5. At(b, 7, start) <=> /\ b[7] = start[1] /\ b[8] = start[2] /\ b[9] = start[3]
                          /\ b[10] = start[4] /\ b[11] = start[5] /\ b[12] = start[6]
  BY <1>3, <1>4
<1> QED BY <1>1, <1>2, <1>5 DEF start

LEMMA IpHeaderIs ==
  ASSUME NEW from, NEW to, NEW protocol, NEW n, NEW sum
  PROVE  /\ IpHeader(from, to, protocol, n, sum) = (Start(protocol, n, sum) \o Ip(from)) \o Ip(to)
         /\ Long(Start(protocol, n, sum) \o Ip(from), 8)
         /\ Long(IpHeader(from, to, protocol, n, sum), 10)
<1>1. IpHeader(from, to, protocol, n, sum) = (Start(protocol, n, sum) \o Ip(from)) \o Ip(to)
  BY DEF IpHeader, Start
<1>2. Long(Start(protocol, n, sum), 6)
  BY StartAt
<1>3. Long(Start(protocol, n, sum) \o Ip(from), 8)
  BY <1>2, Parts, Joined
<1>4. Long((Start(protocol, n, sum) \o Ip(from)) \o Ip(to), 10)
  BY <1>3, Parts, Joined
<1> QED BY <1>1, <1>3, <1>4

LEMMA IpHeaderAt ==
  ASSUME NEW b, NEW from, NEW to, NEW protocol, NEW n, NEW sum
  PROVE  At(b, 7, IpHeader(from, to, protocol, n, sum)) <=>
           /\ b[7] = <<"version">> /\ b[8] = Length(n) /\ b[9] = <<"id">> /\ b[10] = <<"flags">>
           /\ b[11] = <<"ttl", protocol>> /\ b[12] = sum /\ At(b, 13, Ip(from)) /\ At(b, 15, Ip(to))
<1>1. At(b, 7, Start(protocol, n, sum) \o Ip(from)) <=> At(b, 7, Start(protocol, n, sum)) /\ At(b, 13, Ip(from))
  <2>1. Long(Start(protocol, n, sum), 6) /\ Long(Ip(from), 2)
    BY StartAt, Parts
  <2> QED BY <2>1, JoinedAt
<1>2. At(b, 7, IpHeader(from, to, protocol, n, sum)) <=>
        At(b, 7, Start(protocol, n, sum) \o Ip(from)) /\ At(b, 15, Ip(to))
  <2>1. /\ IpHeader(from, to, protocol, n, sum) = (Start(protocol, n, sum) \o Ip(from)) \o Ip(to)
        /\ Long(Start(protocol, n, sum) \o Ip(from), 8) /\ Long(Ip(to), 2)
    BY IpHeaderIs, Parts
  <2> QED BY <2>1, JoinedAt
<1> QED BY <1>1, <1>2, StartAt

IpSum(from, to, protocol, n) == Sum(<<>>, IpHeader(from, to, protocol, n, <<"zero">>))

(* The headers of an IP packet of length n. *)
HeadersAt(b, from, to, protocol, n) ==
  /\ FrameHeaderAt(b, from, to, "ip")
  /\ At(b, 7, IpHeader(from, to, protocol, n, IpSum(from, to, protocol, n)))

LEMMA IpAt ==
  ASSUME NEW from, NEW to, NEW protocol, NEW n \in Nat, NEW words, Long(words, n)
  PROVE  /\ Long(IpPacket(from, to, protocol, words), 17 + n)
         /\ \A b : At(b, 0, IpPacket(from, to, protocol, words)) <=>
                     HeadersAt(b, from, to, protocol, 10 + n) /\ At(b, 17, words)
<1> DEFINE header == IpHeader(from, to, protocol, 10 + n, IpSum(from, to, protocol, 10 + n))
<1>1. IpPacket(from, to, protocol, words) = Frame(from, to, "ip", header \o words)
  BY DEF IpPacket, IpSum, Long
<1>2. \A b : HeadersAt(b, from, to, protocol, 10 + n) <=> FrameHeaderAt(b, from, to, "ip") /\ At(b, 7, header)
  BY DEF HeadersAt
<1>3. Long(header, 10)
  BY IpHeaderIs
<1> HIDE DEF header
<1>4. Long(header \o words, 10 + n)
  BY <1>3, Joined
<1>5. /\ Long(Frame(from, to, "ip", header \o words), 7 + (10 + n))
      /\ \A b : At(b, 0, Frame(from, to, "ip", header \o words)) <=>
                  FrameHeaderAt(b, from, to, "ip") /\ At(b, 7, header \o words)
  <2>1. 10 + n \in Nat
    OBVIOUS
  <2> QED BY <1>4, <2>1, FrameAt
<1>6. ASSUME NEW b
      PROVE  At(b, 0, Frame(from, to, "ip", header \o words)) <=>
               FrameHeaderAt(b, from, to, "ip") /\ At(b, 7, header) /\ At(b, 17, words)
  <2>1. At(b, 7, header \o words) <=> At(b, 7, header) /\ At(b, 17, words)
    BY <1>3, JoinedAt
  <2> QED BY <1>5, <2>1
<1>7. 7 + (10 + n) = 17 + n
  OBVIOUS
<1> QED BY <1>1, <1>2, <1>5, <1>6, <1>7

LEMMA IcmpAt ==
  ASSUME NEW from, NEW to, NEW type, NEW n \in Nat, NEW words, Long(words, n)
  PROVE  /\ Long(Icmp(from, to, type, words), 19 + n)
         /\ \A b : At(b, 0, Icmp(from, to, type, words)) <=>
              /\ HeadersAt(b, from, to, "icmp", 12 + n)
              /\ b[17] = type /\ b[18] = Sum(<<>>, <<type, <<"zero">>>> \o words) /\ At(b, 19, words)
<1> DEFINE sum == Sum(<<>>, <<type, <<"zero">>>> \o words)
           all == <<type, sum>> \o words
<1>1. Icmp(from, to, type, words) = IpPacket(from, to, "icmp", all)
  BY DEF Icmp
<1> HIDE DEF sum
<1>2. Long(all, 2 + n)
  BY Tuples, Joined
<1>3. ASSUME NEW b PROVE At(b, 17, all) <=> b[17] = type /\ b[18] = sum /\ At(b, 19, words)
  <2>1. At(b, 17, all) <=> At(b, 17, <<type, sum>>) /\ At(b, 19, words)
    BY Tuples, JoinedAt
  <2>2. At(b, 17, <<type, sum>>) <=> b[17] = type /\ b[17 + 1] = sum
    BY AtTwo
  <2> QED BY <2>1, <2>2
<1> HIDE DEF all
<1>4. /\ Long(IpPacket(from, to, "icmp", all), 17 + (2 + n))
      /\ \A b : At(b, 0, IpPacket(from, to, "icmp", all)) <=>
                  HeadersAt(b, from, to, "icmp", 10 + (2 + n)) /\ At(b, 17, all)
  <2>1. 2 + n \in Nat
    OBVIOUS
  <2> QED BY <1>2, <2>1, IpAt
<1>5. 17 + (2 + n) = 19 + n /\ 10 + (2 + n) = 12 + n
  OBVIOUS
<1> QED BY <1>1, <1>3, <1>4, <1>5 DEF sum

(* The checksum that covers the addresses as well, of n words. *)
Checksum(from, to, protocol, n, head, tail) ==
  Sum(<<protocol, n>>, Ip(from) \o Ip(to) \o (head \o <<<<"zero">>>> \o tail))

ChecksumAt(b, p, from, to, protocol, n, head, tail) == b[p] = Checksum(from, to, protocol, n, head, tail)

LEMMA SummedAt ==
  ASSUME NEW from, NEW to, NEW protocol, NEW m \in Nat, NEW n \in Nat, NEW head, NEW tail,
         Long(head, m), Long(tail, n)
  PROVE  /\ Long(Summed(from, to, protocol, head, tail), 18 + m + n)
         /\ \A b : At(b, 0, Summed(from, to, protocol, head, tail)) <=>
              /\ HeadersAt(b, from, to, protocol, 11 + m + n)
              /\ At(b, 17, head) /\ At(b, 18 + m, tail)
              /\ ChecksumAt(b, 17 + m, from, to, protocol, m + 1 + n, head, tail)
<1> DEFINE sum == Checksum(from, to, protocol, m + 1 + n, head, tail)
           words == (head \o <<sum>>) \o tail
<1>1. Summed(from, to, protocol, head, tail) = IpPacket(from, to, protocol, words)
  <2>1. Long(head \o <<<<"zero">>>>, m + 1)
    BY Tuples, Joined
  <2>2. m + 1 \in Nat
    OBVIOUS
  <2>3. Long((head \o <<<<"zero">>>>) \o tail, m + 1 + n)
    BY <2>1, <2>2, Joined
  <2> QED BY <2>3 DEF Summed, Checksum, Long
<1> HIDE DEF sum
<1>2. Long(head \o <<sum>>, m + 1)
  BY Tuples, Joined
<1>3. m + 1 \in Nat /\ m + 1 + n \in Nat /\ 17 + m \in Nat /\ 18 + m \in Nat
  OBVIOUS
<1>4. Long(words, m + 1 + n)
  BY <1>2, <1>3, Joined
<1>5. ASSUME NEW b PROVE At(b, 17, words) <=> At(b, 17, head) /\ b[17 + m] = sum /\ At(b, 18 + m, tail)
  <2>1. At(b, 17, head \o <<sum>>) <=> At(b, 17, head) /\ At(b, 17 + m, <<sum>>)
    BY <1>3, Tuples, JoinedAt
  <2>2. At(b, 17 + m, <<sum>>) <=> b[17 + m] = sum
    BY <1>3, AtOne
  <2>3. 18 + m = 17 + (m + 1)
    OBVIOUS
  <2>4. At(b, 17, words) <=> At(b, 17, head \o <<sum>>) /\ At(b, 18 + m, tail)
    BY <1>2, <1>3, <2>3, JoinedAt
  <2> QED BY <2>1, <2>2, <2>4
<1> HIDE DEF words
<1>6. /\ Long(IpPacket(from, to, protocol, words), 17 + (m + 1 + n))
      /\ \A b : At(b, 0, IpPacket(from, to, protocol, words)) <=>
                  HeadersAt(b, from, to, protocol, 10 + (m + 1 + n)) /\ At(b, 17, words)
  BY <1>3, <1>4, IpAt
<1>7. 17 + (m + 1 + n) = 18 + m + n /\ 10 + (m + 1 + n) = 11 + m + n
  OBVIOUS
<1>8. \A b : b[17 + m] = sum <=> ChecksumAt(b, 17 + m, from, to, protocol, m + 1 + n, head, tail)
  BY DEF ChecksumAt, sum
<1> QED BY <1>1, <1>5, <1>6, <1>7, <1>8

(* The words it is made of, where they are. *)
Covers(b, n, from, to, head, tail) == Words(b, 13, n) = Ip(from) \o Ip(to) \o (head \o <<<<"zero">>>> \o tail)

LEMMA SummedWords ==
  ASSUME NEW from, NEW to, NEW m \in Nat, NEW n \in Nat, NEW head, NEW tail, Long(head, m), Long(tail, n), NEW b
  PROVE  (/\ At(b, 13, Ip(from)) /\ At(b, 15, Ip(to))
          /\ At(b, 17, head) /\ At(b, 17 + m, <<<<"zero">>>>) /\ At(b, 18 + m, tail))
         <=> Covers(b, m + 1 + n + 4, from, to, head, tail)
<1> DEFINE addresses == Ip(from) \o Ip(to)
           start == head \o <<<<"zero">>>>
           all == start \o tail
<1>1. Long(addresses, 4)
  BY Parts, Joined
<1>2. At(b, 13, addresses) <=> At(b, 13, Ip(from)) /\ At(b, 15, Ip(to))
  BY Parts, JoinedAt
<1>3. m + 1 \in Nat /\ m + 1 + n \in Nat /\ 17 + m \in Nat /\ 18 + m \in Nat /\ 18 + m = 17 + (m + 1)
  OBVIOUS
<1>4. Long(start, m + 1)
  BY Tuples, Joined
<1>5. At(b, 17, start) <=> At(b, 17, head) /\ At(b, 17 + m, <<<<"zero">>>>)
  BY <1>3, Tuples, JoinedAt
<1> HIDE DEF addresses, start
<1>6. Long(all, m + 1 + n)
  BY <1>3, <1>4, Joined
<1>7. At(b, 17, all) <=> At(b, 17, start) /\ At(b, 18 + m, tail)
  BY <1>3, <1>4, JoinedAt
<1> HIDE DEF all
<1>8. Long(addresses \o all, 4 + (m + 1 + n))
  BY <1>1, <1>3, <1>6, Joined
<1>9. At(b, 13, addresses \o all) <=> At(b, 13, addresses) /\ At(b, 17, all)
  BY <1>1, <1>3, <1>6, JoinedAt
<1>10. At(b, 13, addresses \o all) <=> Words(b, 13, m + 1 + n + 4) = addresses \o all
  <2> DEFINE number == m + 1 + n + 4
             words == addresses \o all
  <2>1. 4 + (m + 1 + n) = number /\ number \in Nat
    OBVIOUS
  <2>2. Long(words, number)
    BY <1>8, <2>1
  <2> HIDE DEF number, words
  <2>3. At(b, 13, words) <=> Words(b, 13, number) = words
    BY <2>1, <2>2, WordsAt
  <2> QED BY <2>3 DEF number, words
<1>11. Covers(b, m + 1 + n + 4, from, to, head, tail) <=> Words(b, 13, m + 1 + n + 4) = addresses \o all
  BY DEF Covers, addresses, all, start
<1> QED BY <1>2, <1>5, <1>7, <1>9, <1>10, <1>11

LEMMA ArpAt ==
  ASSUME NEW opcode, NEW from, NEW to, NEW toMac, NEW toIp, Long(toMac, 3), Long(toIp, 2)
  PROVE  /\ Long(Arp(opcode, from, to, toMac, toIp), 21)
         /\ \A b : At(b, 0, Arp(opcode, from, to, toMac, toIp)) <=>
              /\ FrameHeaderAt(b, from, to, "arp")
              /\ At(b, 7, ArpHeader) /\ b[10] = <<"opcode", opcode>>
              /\ At(b, 11, Mac(from)) /\ At(b, 14, Ip(from)) /\ At(b, 16, toMac) /\ At(b, 19, toIp)
<1> DEFINE w1 == ArpHeader \o <<<<"opcode", opcode>>>>
           w2 == w1 \o Mac(from)
           w3 == w2 \o Ip(from)
           w4 == w3 \o toMac
           w5 == w4 \o toIp
<1>1. Long(w1, 4) /\ \A b : At(b, 7, w1) <=> At(b, 7, ArpHeader) /\ b[10] = <<"opcode", opcode>>
  <2>1. Long(ArpHeader, 3)
    BY Tuples DEF ArpHeader
  <2>2. ASSUME NEW b PROVE At(b, 7, w1) <=> At(b, 7, ArpHeader) /\ At(b, 10, <<<<"opcode", opcode>>>>)
    BY <2>1, Tuples, JoinedAt
  <2>3. ASSUME NEW b PROVE At(b, 10, <<<<"opcode", opcode>>>>) <=> b[10] = <<"opcode", opcode>>
    BY AtOne
  <2>4. Long(w1, 4)
    BY <2>1, Tuples, Joined
  <2> QED BY <2>2, <2>3, <2>4
<1> HIDE DEF w1
<1>2. Long(w2, 7) /\ \A b : At(b, 7, w2) <=> At(b, 7, w1) /\ At(b, 11, Mac(from))
  BY <1>1, Parts, Joined, JoinedAt
<1> HIDE DEF w2
<1>3. Long(w3, 9) /\ \A b : At(b, 7, w3) <=> At(b, 7, w2) /\ At(b, 14, Ip(from))
  BY <1>2, Parts, Joined, JoinedAt
<1> HIDE DEF w3
<1>4. Long(w4, 12) /\ \A b : At(b, 7, w4) <=> At(b, 7, w3) /\ At(b, 16, toMac)
  BY <1>3, Joined, JoinedAt
<1> HIDE DEF w4
<1>5. Long(w5, 14) /\ \A b : At(b, 7, w5) <=> At(b, 7, w4) /\ At(b, 19, toIp)
  BY <1>4, Joined, JoinedAt
<1>6. Arp(opcode, from, to, toMac, toIp) = Frame(from, to, "arp", w5)
  BY DEF Arp, w1, w2, w3, w4
<1> HIDE DEF w5
<1>7. /\ Long(Frame(from, to, "arp", w5), 7 + 14)
      /\ \A b : At(b, 0, Frame(from, to, "arp", w5)) <=> FrameHeaderAt(b, from, to, "arp") /\ At(b, 7, w5)
  BY <1>5, FrameAt
<1> QED BY <1>1, <1>2, <1>3, <1>4, <1>5, <1>6, <1>7

(***************************************************************************)
(* How the library makes packets                                           *)
(***************************************************************************)
LEMMA AlikeParts ==
  ASSUME NEW b, NEW c, NEW m \in Int, NEW n \in Int, Alike(b, c, m, n)
  PROVE  /\ \A p \in Int, q \in Int : m <= p /\ q <= n => Alike(b, c, p, q)
         /\ \A d : Alike(c, d, m, n) => Alike(b, d, m, n)
  BY DEF Alike

LEMMA HeadersAlike ==
  ASSUME NEW b, NEW c, Alike(b, c, 0, 16), NEW from, NEW to, NEW protocol, NEW n, HeadersAt(b, from, to, protocol, n)
  PROVE  HeadersAt(c, from, to, protocol, n)
<1> DEFINE header == IpHeader(from, to, protocol, n, IpSum(from, to, protocol, n))
<1>1. FrameHeaderAt(b, from, to, "ip") /\ At(b, 7, header)
  BY DEF HeadersAt
<1>2. Long(header, 10)
  BY IpHeaderIs
<1> HIDE DEF header
<1>3. At(c, 7, header)
  BY <1>1, <1>2, AtAlike
<1>4. At(c, 0, Mac(to)) /\ At(c, 3, Mac(from))
  BY <1>1, Parts, AtAlike DEF FrameHeaderAt
<1>5. c[6] = b[6]
  BY DEF Alike
<1> QED BY <1>1, <1>3, <1>4, <1>5 DEF HeadersAt, FrameHeaderAt, header

(* What a reader of the headers finds. *)
LEMMA HeadersRead ==
  ASSUME NEW b, NEW from, NEW to, NEW protocol, NEW n, HeadersAt(b, from, to, protocol, n)
  PROVE  /\ b[6] = <<"type", "ip">> /\ b[8] = Length(n) /\ b[11] = <<"ttl", protocol>>
         /\ At(b, 3, Mac(from)) /\ At(b, 13, Ip(from)) /\ At(b, 15, Ip(to))
         /\ Words(b, 3, 3) = Mac(from) /\ Words(b, 13, 2) = Ip(from) /\ Words(b, 15, 2) = Ip(to)
<1> DEFINE sum == IpSum(from, to, protocol, n)
<1>1. FrameHeaderAt(b, from, to, "ip") /\ At(b, 7, IpHeader(from, to, protocol, n, sum))
  BY DEF HeadersAt
<1> HIDE DEF sum
<1>2. b[8] = Length(n) /\ b[11] = <<"ttl", protocol>> /\ At(b, 13, Ip(from)) /\ At(b, 15, Ip(to))
  BY <1>1, IpHeaderAt
<1>3. Words(b, 3, 3) = Mac(from)
  BY <1>1, Parts, WordsAt DEF FrameHeaderAt
<1>4. Words(b, 13, 2) = Ip(from)
  BY <1>2, Parts, WordsAt
<1>5. Words(b, 15, 2) = Ip(to)
  BY <1>2, Parts, WordsAt
<1> QED BY <1>1, <1>2, <1>3, <1>4, <1>5 DEF FrameHeaderAt

LEMMA EthMade ==
  ASSUME NEW b, Buffer(b), NEW type, NEW to
  PROVE  /\ Buffer(eth_generate_header(b, type, Mac(to)))
         /\ FrameHeaderAt(eth_generate_header(b, type, Mac(to)), Avr, to, type)
         /\ Alike(b, eth_generate_header(b, type, Mac(to)), 7, Last)
<1> DEFINE header == FrameHeader(Avr, to, type)
<1>1. eth_generate_header(b, type, Mac(to)) = Put(b, 0, header)
  <2>1. (Mac(to) \o Mac(Avr)) \o <<<<"type", type>>>> = header
    BY DEF FrameHeader
  <2>2. Mac(to) \o Mac(Avr) \o <<<<"type", type>>>> = header
    BY <2>1
  <2> QED BY <2>2 DEF eth_generate_header, ETH_DST_MAC_P
<1>2. Long(header, 7) /\ \A c : At(c, 0, header) <=> FrameHeaderAt(c, Avr, to, type)
  BY FrameHeaderIs
<1> HIDE DEF header
<1>3. Buffer(Put(b, 0, header)) /\ At(Put(b, 0, header), 0, header) /\ Alike(b, Put(b, 0, header), 7, Last)
  BY <1>2, LastIs, PutIs
<1> QED BY <1>1, <1>2, <1>3

LEMMA IpMade ==
  ASSUME NEW b, Buffer(b), NEW n, NEW protocol, NEW to, NEW c, c = ip_generate_header(b, n, protocol, Ip(to))
  PROVE  /\ Buffer(c)
         /\ At(c, 7, IpHeader(Avr, to, protocol, n, IpSum(Avr, to, protocol, n)))
         /\ Alike(b, c, 0, 6) /\ Alike(b, c, 17, Last)
<1> DEFINE header == IpHeader(Avr, Avr, protocol, n, <<"zero">>)
           b1 == Put(b, 7, header)
           b2 == Put(b1, 15, Ip(to))
           sum == <<Sum(<<>>, Words(b2, 7, 10))>>
<1>1. c = Put(b2, 12, sum)
  BY DEF ip_generate_header, IP_P, IP_DST_IP_P, IP_CHECKSUM_P, software_checksum
<1>2. Long(header, 10) /\ Long(Ip(to), 2) /\ Long(sum, 1)
  BY IpHeaderIs, Parts, Tuples
<1>3. Buffer(b1) /\ At(b1, 7, header) /\ Alike(b, b1, 0, 6) /\ Alike(b, b1, 17, Last)
  <2> HIDE DEF header
  <2> QED BY <1>2, LastIs, PutIs
<1> HIDE DEF b1
<1>4. Buffer(b2) /\ At(b2, 15, Ip(to)) /\ Alike(b1, b2, 0, 14) /\ Alike(b1, b2, 17, Last)
  BY <1>2, <1>3, LastIs, PutIs
<1> HIDE DEF b2
<1>5. Buffer(c) /\ At(c, 12, sum) /\ Alike(b2, c, 0, 11) /\ Alike(b2, c, 13, Last)
  <2> HIDE DEF sum
  <2> QED BY <1>1, <1>2, <1>4, LastIs, PutIs
<1>6. /\ b1[7] = <<"version">> /\ b1[8] = Length(n) /\ b1[9] = <<"id">> /\ b1[10] = <<"flags">>
      /\ b1[11] = <<"ttl", protocol>> /\ b1[12] = <<"zero">> /\ At(b1, 13, Ip(Avr))
  BY <1>3, IpHeaderAt
<1>7. At(b2, 13, Ip(Avr))
  BY <1>4, <1>6, Parts, AtAlike
<1>8. /\ b2[7] = <<"version">> /\ b2[8] = Length(n) /\ b2[9] = <<"id">> /\ b2[10] = <<"flags">>
      /\ b2[11] = <<"ttl", protocol>> /\ b2[12] = <<"zero">>
  BY <1>4, <1>6 DEF Alike
<1>9. At(b2, 7, IpHeader(Avr, to, protocol, n, <<"zero">>))
  BY <1>4, <1>7, <1>8, IpHeaderAt
<1>10. Words(b2, 7, 10) = IpHeader(Avr, to, protocol, n, <<"zero">>)
  BY <1>9, IpHeaderIs, WordsAt
<1>11. c[12] = IpSum(Avr, to, protocol, n)
  <2>1. c[12] = Sum(<<>>, Words(b2, 7, 10))
    BY <1>5, AtOne
  <2> QED BY <1>10, <2>1 DEF IpSum
<1>12. At(c, 13, Ip(Avr)) /\ At(c, 15, Ip(to))
  BY <1>4, <1>5, <1>7, LastIs, Parts, AtAlike
<1>13. /\ c[7] = <<"version">> /\ c[8] = Length(n) /\ c[9] = <<"id">> /\ c[10] = <<"flags">>
       /\ c[11] = <<"ttl", protocol>>
  BY <1>5, <1>8 DEF Alike
<1>14. At(c, 7, IpHeader(Avr, to, protocol, n, IpSum(Avr, to, protocol, n)))
  BY <1>11, <1>12, <1>13, IpHeaderAt
<1>15. Alike(b, c, 0, 6)
  BY <1>3, <1>4, <1>5 DEF Alike
<1>16. Alike(b, c, 17, Last)
  BY <1>3, <1>4, <1>5, LastIs DEF Alike
<1> QED BY <1>5, <1>14, <1>15, <1>16

LEMMA HeadersOnFrame ==
  ASSUME NEW b, Buffer(b), NEW to, FrameHeaderAt(b, Avr, to, "ip"), NEW n, NEW protocol, NEW c,
         c = ip_generate_header(b, n, protocol, Ip(to))
  PROVE  Buffer(c) /\ HeadersAt(c, Avr, to, protocol, n) /\ Alike(b, c, 17, Last)
<1>1. /\ Buffer(c) /\ At(c, 7, IpHeader(Avr, to, protocol, n, IpSum(Avr, to, protocol, n)))
      /\ Alike(b, c, 0, 6) /\ Alike(b, c, 17, Last)
  BY IpMade
<1>2. FrameHeaderAt(c, Avr, to, "ip")
  <2>1. At(c, 0, Mac(to)) /\ At(c, 3, Mac(Avr))
    BY <1>1, Parts, AtAlike DEF FrameHeaderAt
  <2>2. c[6] = b[6]
    BY <1>1 DEF Alike
  <2> QED BY <2>1, <2>2 DEF FrameHeaderAt
<1> QED BY <1>1, <1>2 DEF HeadersAt

LEMMA HeadersMade ==
  ASSUME NEW b, Buffer(b), NEW n, NEW protocol, NEW to, NEW c,
         c = ip_generate_header(eth_generate_header(b, "ip", Mac(to)), n, protocol, Ip(to))
  PROVE  Buffer(c) /\ HeadersAt(c, Avr, to, protocol, n) /\ Alike(b, c, 17, Last)
<1> DEFINE b1 == eth_generate_header(b, "ip", Mac(to))
<1>1. Buffer(b1) /\ FrameHeaderAt(b1, Avr, to, "ip") /\ Alike(b, b1, 7, Last)
  BY EthMade
<1>2. c = ip_generate_header(b1, n, protocol, Ip(to))
  OBVIOUS
<1> HIDE DEF b1
<1>3. Buffer(c) /\ HeadersAt(c, Avr, to, protocol, n) /\ Alike(b1, c, 17, Last)
  BY <1>1, <1>2, HeadersOnFrame
<1>4. Alike(b, c, 17, Last)
  BY <1>1, <1>3, LastIs DEF Alike
<1> QED BY <1>3, <1>4

LEMMA ReadOwn == ASSUME NEW b, NEW words, NEW n, NEW to PROVE memcpy(b, Own(words), n, to) = words
<1>1. Own(words).at = 0 /\ Own(words).words = words
  BY DEF Own
<1>2. ~Overlap(Own(words), n, to)
  BY <1>1 DEF Overlap
<1> QED BY <1>1, <1>2 DEF memcpy

(* What does not lie where it is copied to is copied as it is. *)
LEMMA ReadBuffer ==
  ASSUME NEW b, NEW n \in Nat, NEW p \in Nat \ {0}, NEW words, Long(words, n), At(b, p, words),
         NEW to, ~Overlap(InBuffer(p), n, to)
  PROVE  memcpy(b, InBuffer(p), n, to) = words
<1>1. InBuffer(p).at = p /\ p # 0
  BY DEF InBuffer
<1>2. memcpy(b, InBuffer(p), n, to) = Words(b, p, n)
  BY <1>1 DEF memcpy
<1> QED BY <1>2, WordsAt

LEMMA Apart ==
  ASSUME NEW p \in Nat, NEW n \in Nat, NEW to \in Nat, to <= p \/ p + n <= to
  PROVE  ~Overlap(InBuffer(p), n, to)
BY DEF Overlap, InBuffer

LEMMA ArpMade ==
  ASSUME NEW b, Buffer(b), NEW opcode, NEW to, FrameHeaderAt(b, Avr, to, "arp"), b[10] = <<"opcode", opcode>>,
         NEW toMac, Long(toMac, 3), NEW toIp, Long(toIp, 2), NEW pointer,
         pointer = Own(toIp) \/ (pointer = InBuffer(14) /\ At(b, 14, toIp)),
         NEW c, c = arp_generate_packet(b, toMac, pointer)
  PROVE  Buffer(c) /\ At(c, 0, Arp(opcode, Avr, to, toMac, toIp))
<1> DEFINE b1 == Put(b, 7, ArpHeader)
           b2 == Put(b1, 16, toMac)
           b3 == Put(b2, 11, Mac(Avr))
           b4 == Put(b3, 19, memcpy(b3, pointer, 2, 19))
<1>0. Long(ArpHeader, 3) /\ Long(Mac(Avr), 3) /\ Long(Ip(Avr), 2)
  BY Tuples, Parts DEF ArpHeader
<1>1. Buffer(b1) /\ At(b1, 7, ArpHeader) /\ Alike(b, b1, 0, 6) /\ Alike(b, b1, 10, Last)
  BY <1>0, LastIs, PutIs
<1> HIDE DEF b1
<1>2. Buffer(b2) /\ At(b2, 16, toMac) /\ Alike(b1, b2, 0, 15) /\ Alike(b1, b2, 19, Last)
  <2>1. 16 + 3 <= Last + 1 /\ 16 - 1 = 15 /\ 16 + 3 = 19
    BY LastIs
  <2> QED BY <1>0, <1>1, <2>1, PutIs
<1> HIDE DEF b2
<1>3. Buffer(b3) /\ At(b3, 11, Mac(Avr)) /\ Alike(b2, b3, 0, 10) /\ Alike(b2, b3, 14, Last)
  <2>1. 11 + 3 <= Last + 1 /\ 11 - 1 = 10 /\ 11 + 3 = 14
    BY LastIs
  <2> QED BY <1>0, <1>2, <2>1, PutIs
<1> HIDE DEF b3
<1>4. memcpy(b3, pointer, 2, 19) = toIp
  <2>1. CASE pointer = Own(toIp)
    BY <2>1, ReadOwn
  <2>2. CASE pointer = InBuffer(14) /\ At(b, 14, toIp)
    <3>1. Alike(b, b3, 14, 15)
      BY <1>1, <1>2, <1>3, LastIs DEF Alike
    <3>2. At(b3, 14, toIp)
      BY <2>2, <3>1, AtAlike
    <3>3. ~Overlap(InBuffer(14), 2, 19)
      BY Apart
    <3> QED BY <2>2, <3>2, <3>3, ReadBuffer
  <2> QED BY <2>1, <2>2
<1>5. Buffer(b4) /\ At(b4, 19, toIp) /\ Alike(b3, b4, 0, 18) /\ Alike(b3, b4, 21, Last)
  <2>1. 19 + 2 <= Last + 1 /\ 19 - 1 = 18 /\ 19 + 2 = 21
    BY LastIs
  <2>2. b4 = Put(b3, 19, toIp)
    BY <1>4
  <2> HIDE DEF b4
  <2> QED BY <1>0, <1>3, <2>1, <2>2, PutIs
<1>6. c = Put(b4, 14, Ip(Avr))
  BY DEF arp_generate_packet, ARP_P, ARP_DST_MAC_P, ARP_SRC_MAC_P, ARP_DST_IP_P, ARP_SRC_IP_P, b1, b2, b3
<1> HIDE DEF b4
<1>7. Buffer(c) /\ At(c, 14, Ip(Avr)) /\ Alike(b4, c, 0, 13) /\ Alike(b4, c, 16, Last)
  BY <1>0, <1>5, <1>6, LastIs, PutIs
<1>8. /\ Alike(b, c, 0, 6) /\ Alike(b1, c, 7, 9) /\ c[10] = b[10] /\ Alike(b3, c, 11, 13)
      /\ Alike(b2, c, 16, 18) /\ Alike(b4, c, 19, 20)
  BY <1>1, <1>2, <1>3, <1>5, <1>7, LastIs DEF Alike
<1>9. At(c, 7, ArpHeader) /\ At(c, 11, Mac(Avr)) /\ At(c, 16, toMac) /\ At(c, 19, toIp)
  BY <1>0, <1>1, <1>2, <1>3, <1>5, <1>8, AtAlike
<1>10. FrameHeaderAt(c, Avr, to, "arp")
  <2>1. Alike(b, c, 0, 6) /\ At(b, 0, Mac(to)) /\ At(b, 3, Mac(Avr)) /\ Long(Mac(to), 3)
    BY <1>8, Parts DEF FrameHeaderAt
  <2>2. Long(Mac(Avr), 3) /\ 0 <= 0 /\ 0 + 3 <= 6 + 1 /\ 0 <= 3 /\ 3 + 3 <= 6 + 1
    BY Parts
  <2>3. At(c, 0, Mac(to))
    BY <2>1, <2>2, AtAlike
  <2>4. At(c, 3, Mac(Avr))
    BY <2>1, <2>2, AtAlike
  <2> QED BY <1>8, <2>3, <2>4 DEF FrameHeaderAt, Alike
<1> QED BY <1>7, <1>8, <1>9, <1>10, ArpAt

LEMMA ArpRequestMade ==
  ASSUME NEW b, Buffer(b), NEW h, NEW c, c = arp_request(b, Ip(h))
  PROVE  Buffer(c) /\ At(c, 0, Arp("request", Avr, Broadcast, Zeros(3), Ip(h)))
<1> DEFINE b1 == eth_generate_header(b, "arp", Mac(Broadcast))
           b2 == Put(b1, 10, <<<<"opcode", "request">>>>)
<1>1. Buffer(b1) /\ FrameHeaderAt(b1, Avr, Broadcast, "arp")
  BY EthMade
<1> HIDE DEF b1
<1>2. Buffer(b2) /\ At(b2, 10, <<<<"opcode", "request">>>>) /\ Alike(b1, b2, 0, 9)
  <2>1. 10 + 1 <= Last + 1 /\ 10 - 1 = 9 /\ Long(<<<<"opcode", "request">>>>, 1)
    BY LastIs, Tuples
  <2> QED BY <1>1, <2>1, PutIs
<1> HIDE DEF b2
<1>3. b2[10] = <<"opcode", "request">>
  BY <1>2, AtOne
<1>4. FrameHeaderAt(b2, Avr, Broadcast, "arp")
  <2>1. At(b2, 0, Mac(Broadcast)) /\ At(b2, 3, Mac(Avr))
    BY <1>1, <1>2, Parts, AtAlike DEF FrameHeaderAt
  <2> QED BY <1>1, <1>2, <2>1 DEF FrameHeaderAt, Alike
<1>5. c = arp_generate_packet(b2, Zeros(3), Own(Ip(h)))
  BY DEF arp_request, ARP_OPCODE_P, b1, b2
<1>6. Long(Zeros(3), 3) /\ Long(Ip(h), 2)
  BY Parts
<1> QED BY <1>2, <1>3, <1>4, <1>5, <1>6, ArpMade

LEMMA ArpReplyMade ==
  ASSUME NEW b, Buffer(b), NEW h, At(b, 14, Ip(h)), NEW c, c = arp_reply(b, Mac(h))
  PROVE  Buffer(c) /\ At(c, 0, Arp("reply", Avr, h, Mac(h), Ip(h)))
<1> DEFINE b1 == eth_generate_header(b, "arp", Mac(h))
           b2 == Put(b1, 10, <<<<"opcode", "reply">>>>)
<1>1. Buffer(b1) /\ FrameHeaderAt(b1, Avr, h, "arp") /\ Alike(b, b1, 7, Last)
  BY EthMade
<1> HIDE DEF b1
<1>2. Buffer(b2) /\ At(b2, 10, <<<<"opcode", "reply">>>>) /\ Alike(b1, b2, 0, 9) /\ Alike(b1, b2, 11, Last)
  <2>1. 10 + 1 <= Last + 1 /\ 10 - 1 = 9 /\ 10 + 1 = 11
    BY LastIs
  <2> QED BY <1>1, <2>1, Tuples, PutIs
<1> HIDE DEF b2
<1>3. b2[10] = <<"opcode", "reply">>
  BY <1>2, AtOne
<1>4. FrameHeaderAt(b2, Avr, h, "arp")
  <2>1. At(b2, 0, Mac(h)) /\ At(b2, 3, Mac(Avr))
    BY <1>1, <1>2, Parts, AtAlike DEF FrameHeaderAt
  <2> QED BY <1>1, <1>2, <2>1 DEF FrameHeaderAt, Alike
<1>5. c = arp_generate_packet(b2, Mac(h), InBuffer(14))
  BY DEF arp_reply, ARP_OPCODE_P, ARP_SRC_IP_P, b1, b2
<1>6. Long(Mac(h), 3) /\ Long(Ip(h), 2)
  BY Parts
<1>7. At(b2, 14, Ip(h))
  <2>1. Alike(b, b2, 14, 15)
    BY <1>1, <1>2, LastIs DEF Alike
  <2> QED BY <1>6, <2>1, AtAlike
<1> QED BY <1>2, <1>3, <1>4, <1>5, <1>6, <1>7, ArpMade

LEMMA IcmpMade ==
  ASSUME NEW b, Buffer(b), NEW n \in Nat, 20 + n <= Last, NEW words, Long(words, 2 + n), At(b, 19, words),
         NEW type, NEW c, c = IcmpGeneratePacket(b, type, n)
  PROVE  /\ Buffer(c) /\ Alike(b, c, 0, 16) /\ Alike(b, c, 19, Last) /\ At(c, 19, words)
         /\ c[17] = type /\ c[18] = Sum(<<>>, <<type, <<"zero">>>> \o words)
<1> DEFINE start == <<type, <<"zero">>>>
           b1 == Put(b, 17, start)
           sum == <<Sum(<<>>, Words(b1, 17, 4 + n))>>
<1>1. c = Put(b1, 18, sum)
  BY DEF IcmpGeneratePacket, ICMP_TYPE_P, ICMP_CHECKSUM_P, software_checksum
<1>2. Long(start, 2) /\ Long(sum, 1)
  BY Tuples
<1>3. \A d : At(d, 17, start) <=> d[17] = type /\ d[18] = <<"zero">>
  <2>1. ASSUME NEW d PROVE At(d, 17, start) <=> d[17] = type /\ d[17 + 1] = <<"zero">>
    BY AtTwo
  <2> QED BY <2>1
<1> HIDE DEF start
<1>4. Buffer(b1) /\ At(b1, 17, start) /\ Alike(b, b1, 0, 16) /\ Alike(b, b1, 19, Last)
  BY <1>2, LastIs, PutIs
<1> HIDE DEF b1
<1>5. At(b1, 19, words)
  <2>1. 2 + n \in Nat /\ 19 + (2 + n) <= Last + 1
    BY LastIs
  <2> QED BY <1>4, <2>1, LastIs, AtAlike
<1>6. Words(b1, 17, 4 + n) = start \o words
  <2> DEFINE all == start \o words
             number == 4 + n
  <2>1. 2 + n \in Nat /\ 2 + (2 + n) = number /\ number \in Nat
    OBVIOUS
  <2>2. Long(all, number) /\ At(b1, 17, all)
    BY <1>2, <1>4, <1>5, <2>1, Joined, JoinedAt
  <2> HIDE DEF all, number
  <2>3. Words(b1, 17, number) = all
    BY <2>1, <2>2, WordsAt
  <2> QED BY <2>3 DEF all, number
<1>7. sum = <<Sum(<<>>, start \o words)>>
  BY <1>6
<1> HIDE DEF sum
<1>8. Buffer(c) /\ At(c, 18, sum) /\ Alike(b1, c, 0, 17) /\ Alike(b1, c, 19, Last)
  BY <1>1, <1>2, <1>4, LastIs, PutIs
<1>9. c[18] = Sum(<<>>, start \o words)
  BY <1>7, <1>8, AtOne
<1>10. c[17] = type
  BY <1>3, <1>4, <1>8 DEF Alike
<1>11. Alike(b, c, 0, 16) /\ Alike(b, c, 19, Last)
  BY <1>4, <1>8, LastIs DEF Alike
<1>12. At(c, 19, words)
  <2>1. 2 + n \in Nat /\ 19 + (2 + n) <= Last + 1
    BY LastIs
  <2> QED BY <1>5, <1>8, <2>1, LastIs, AtAlike
<1> QED BY <1>8, <1>9, <1>10, <1>11, <1>12 DEF start

LEMMA EchoMade ==
  ASSUME NEW b, Buffer(b), NEW n \in Nat, 20 + n <= Last, NEW words, Long(words, 2 + n), At(b, 19, words),
         NEW h, NEW c, c = icmp_reply(b, 21 + n, Mac(h), Ip(h))
  PROVE  Buffer(c) /\ At(c, 0, Icmp(Avr, h, <<"echo", "reply">>, words))
<1> DEFINE b1 == ip_generate_header(eth_generate_header(b, "ip", Mac(h)), 14 + n, "icmp", Ip(h))
<1>1. Buffer(b1) /\ HeadersAt(b1, Avr, h, "icmp", 14 + n) /\ Alike(b, b1, 17, Last)
  BY HeadersMade
<1>2. c = IcmpGeneratePacket(b1, <<"echo", "reply">>, n)
  <2>1. (21 + n) - 7 = 14 + n /\ (21 + n) - 21 = n
    OBVIOUS
  <2> QED BY <2>1 DEF icmp_reply, ICMP_DATA_P
<1> HIDE DEF b1
<1>3. 2 + n \in Nat /\ 19 + (2 + n) <= Last + 1
  BY LastIs
<1>4. At(b1, 19, words)
  BY <1>1, <1>3, LastIs, AtAlike
<1> DEFINE type == <<"echo", "reply">>
<1>5. /\ Buffer(c) /\ Alike(b1, c, 0, 16) /\ At(c, 19, words)
      /\ c[17] = type /\ c[18] = Sum(<<>>, <<type, <<"zero">>>> \o words)
  <2> HIDE DEF type
  <2> QED BY <1>1, <1>2, <1>4, IcmpMade DEF type
<1>6. HeadersAt(c, Avr, h, "icmp", 14 + n)
  BY <1>1, <1>5, HeadersAlike
<1>7. 12 + (2 + n) = 14 + n
  OBVIOUS
<1>8. \A d : At(d, 0, Icmp(Avr, h, type, words)) <=>
               /\ HeadersAt(d, Avr, h, "icmp", 12 + (2 + n))
               /\ d[17] = type /\ d[18] = Sum(<<>>, <<type, <<"zero">>>> \o words) /\ At(d, 19, words)
  <2> HIDE DEF type
  <2>1. PICK m \in Nat : m = 2 + n
    BY <1>3
  <2>2. Long(words, m)
    BY <2>1
  <2>3. \A d : At(d, 0, Icmp(Avr, h, type, words)) <=>
               /\ HeadersAt(d, Avr, h, "icmp", 12 + m)
               /\ d[17] = type /\ d[18] = Sum(<<>>, <<type, <<"zero">>>> \o words) /\ At(d, 19, words)
    BY <2>2, IcmpAt
  <2> QED BY <2>1, <2>3
<1> HIDE DEF type
<1>9. At(c, 0, Icmp(Avr, h, type, words))
  BY <1>5, <1>6, <1>7, <1>8
<1> QED BY <1>5, <1>9 DEF type

(* What is quoted is read before the headers are made over it. *)
LEMMA UnreachableMade ==
  ASSUME NEW b, Buffer(b), NEW quotation, Long(quotation, 14), At(b, 7, quotation),
         NEW h, NEW c, c = IcmpUnreachable(b, Mac(h), Ip(h), 14)
  PROVE  Buffer(c) /\ At(c, 0, Icmp(Avr, h, <<"unreachable", 12>>, Words(b, 19, 2) \o quotation))
<1> DEFINE type == <<"unreachable", 12>>
           old == Words(b, 19, 2)
           words == old \o quotation
           b1 == Put(b, 21, Words(b, 7, 14))
           b2 == IcmpGeneratePacket(b1, type, 14)
<1>1. c = ip_generate_header(eth_generate_header(b2, "ip", Mac(h)), 28, "icmp", Ip(h))
  <2>1. 14 + 14 = 28
    OBVIOUS
  <2> QED BY <2>1 DEF IcmpUnreachable, ICMP_DATA_P, IP_P
<1>2. Long(old, 2) /\ At(b, 19, old)
  <2>1. old = [k \in 1..2 |-> old[k]]
    BY DEF Words
  <2>2. Long(old, 2)
    BY <2>1, ArrayLong
  <2> HIDE DEF old
  <2>3. At(b, 19, old)
    BY <2>2, WordsAt DEF old
  <2> QED BY <2>2, <2>3
<1> HIDE DEF old
<1>3. Words(b, 7, 14) = quotation
  BY WordsAt
<1>4. Buffer(b1) /\ At(b1, 21, quotation) /\ Alike(b, b1, 0, 20)
  <2>1. 21 + 14 <= Last + 1 /\ 21 - 1 = 20
    BY LastIs
  <2> QED BY <1>3, <2>1, PutIs
<1> HIDE DEF b1
<1>5. Long(words, 16) /\ At(b1, 19, words)
  <2>1. At(b1, 19, old)
    BY <1>2, <1>4, AtAlike
  <2> QED BY <1>2, <1>4, <2>1, Joined, JoinedAt
<1> HIDE DEF words
<1>6. /\ Buffer(b2) /\ At(b2, 19, words)
      /\ b2[17] = type /\ b2[18] = Sum(<<>>, <<type, <<"zero">>>> \o words)
  <2> HIDE DEF type
  <2>1. 20 + 14 <= Last /\ Long(words, 2 + 14)
    BY <1>5, LastIs
  <2> QED BY <1>4, <1>5, <2>1, IcmpMade
<1> HIDE DEF b2
<1>7. Buffer(c) /\ HeadersAt(c, Avr, h, "icmp", 28) /\ Alike(b2, c, 17, Last)
  BY <1>1, <1>6, HeadersMade
<1>8. c[17] = b2[17] /\ c[18] = b2[18]
  BY <1>7, LastIs DEF Alike
<1>9. At(c, 19, words)
  <2>1. 19 + 16 <= Last + 1
    BY LastIs
  <2> QED BY <1>5, <1>6, <1>7, <2>1, LastIs, AtAlike
<1> HIDE DEF type
<1>10. PICK n \in Nat : n = 16
  OBVIOUS
<1>11. At(c, 0, Icmp(Avr, h, type, words))
  <2>1. Long(words, n) /\ 12 + n = 28
    BY <1>5, <1>10
  <2>2. \A d : At(d, 0, Icmp(Avr, h, type, words)) <=>
               /\ HeadersAt(d, Avr, h, "icmp", 12 + n)
               /\ d[17] = type /\ d[18] = Sum(<<>>, <<type, <<"zero">>>> \o words) /\ At(d, 19, words)
    BY <2>1, IcmpAt
  <2> QED BY <1>6, <1>7, <1>8, <1>9, <2>1, <2>2
<1> QED BY <1>7, <1>11 DEF type, words, old

UdpHead(from, to, n) == <<Port(from), Port(to), Length(4 + n)>>

LEMMA UdpAt ==
  ASSUME NEW from, NEW to, NEW n \in Nat, NEW data, Long(data, n)
  PROVE  /\ Long(Udp(from, to, data), 21 + n)
         /\ \A b : At(b, 0, Udp(from, to, data)) <=>
              /\ HeadersAt(b, from, to, "udp", 14 + n)
              /\ At(b, 17, UdpHead(from, to, n)) /\ At(b, 21, data)
              /\ ChecksumAt(b, 20, from, to, "udp", 4 + n, UdpHead(from, to, n), data)
<1> DEFINE head == UdpHead(from, to, n)
<1>1. Udp(from, to, data) = Summed(from, to, "udp", head, data)
  BY DEF Udp, UdpHead, Long
<1>2. Long(head, 3)
  BY Tuples DEF UdpHead
<1> HIDE DEF head
<1>3. PICK m \in Nat : m = 3
  OBVIOUS
<1>4. 18 + m + n = 21 + n /\ 11 + m + n = 14 + n /\ m + 1 + n = 4 + n /\ 18 + m = 21 /\ 17 + m = 20
      /\ Long(head, m)
  BY <1>2, <1>3
<1>5. /\ Long(Summed(from, to, "udp", head, data), 18 + m + n)
      /\ \A b : At(b, 0, Summed(from, to, "udp", head, data)) <=>
              /\ HeadersAt(b, from, to, "udp", 11 + m + n)
              /\ At(b, 17, head) /\ At(b, 18 + m, data)
              /\ ChecksumAt(b, 17 + m, from, to, "udp", m + 1 + n, head, data)
  <2>1. m \in Nat /\ Long(head, m)
    BY <1>4
  <2> QED BY <2>1, SummedAt
<1> QED BY <1>1, <1>4, <1>5 DEF head

(* The data may be the caller's or in the buffer behind the headers. *)
Points(b, pointer, data) ==
  \/ pointer = Own(data)
  \/ \E p \in 21..Last : pointer = InBuffer(p) /\ At(b, p, data) /\ p + Len(data) <= Last + 1

LEMMA DataRead ==
  ASSUME NEW b, NEW c, Alike(b, c, 17, Last), NEW pointer, NEW n \in Nat, NEW data, Long(data, n), Points(b, pointer, data),
         NEW to, ~Overlap(pointer, n, to)
  PROVE  memcpy(c, pointer, n, to) = data
<1>1. CASE pointer = Own(data)
  BY <1>1, ReadOwn
<1>2. ASSUME NEW p \in 21..Last, pointer = InBuffer(p), At(b, p, data), p + Len(data) <= Last + 1
      PROVE  memcpy(c, pointer, n, to) = data
  <2>1. p \in Nat \ {0} /\ 17 <= p /\ p + n <= Last + 1 /\ Last \in Int
    BY <1>2, LastIs DEF Long
  <2>2. At(c, p, data)
    BY <1>2, <2>1, AtAlike
  <2> QED BY <1>2, <2>1, <2>2, ReadBuffer
<1> QED BY <1>1, <1>2 DEF Points

LEMMA UdpMade ==
  ASSUME NEW b, Buffer(b), NEW h, NEW n \in Nat, NEW data, Long(data, n), 20 + n <= Last,
         NEW pointer, Points(b, pointer, data), ~Overlap(pointer, n, 21), NEW c, c = UdpDatagram(b, h, pointer, n)
  PROVE  Buffer(c) /\ At(c, 0, Udp(Avr, h, data))
<1> DEFINE b1 == ip_generate_header(eth_generate_header(b, "ip", Mac(h)), 14 + n, "udp", Ip(h))
           b2 == Put(b1, 21, data)
           ports == <<Port(Avr), Port(h), Length(4 + n), <<"zero">>>>
           b3 == Put(b2, 17, ports)
           head == UdpHead(Avr, h, n)
           sum == <<Sum(<<"udp", 4 + n>>, Words(b3, 13, 4 + n + 4))>>
<1>1. Buffer(b1) /\ HeadersAt(b1, Avr, h, "udp", 14 + n) /\ Alike(b, b1, 17, Last)
  BY HeadersMade
<1>2. memcpy(b1, pointer, n, 21) = data
  BY <1>1, DataRead
<1>3. c = Put(b3, 20, sum)
  BY <1>2 DEF UdpDatagram, UdpGenerateHeader, UDP_DATA_P, UDP_SRC_PORT_P, UDP_CHECKSUM_P, IP_SRC_IP_P, software_checksum
<1> HIDE DEF b1
<1>4. Buffer(b2) /\ At(b2, 21, data) /\ Alike(b1, b2, 0, 20)
  <2>1. 21 + n <= Last + 1 /\ 21 - 1 = 20
    BY LastIs
  <2> QED BY <1>1, <2>1, PutIs
<1> HIDE DEF b2
<1>5. Long(ports, 4) /\ Long(sum, 1) /\ Long(head, 3)
  BY Tuples DEF UdpHead
<1>6. \A d : At(d, 17, ports) <=> At(d, 17, head) /\ d[20] = <<"zero">>
  <2>1. ASSUME NEW d PROVE At(d, 17, ports) <=> d[17] = Port(Avr) /\ d[17 + 1] = Port(h) /\ d[17 + 2] = Length(4 + n) /\ d[17 + 3] = <<"zero">>
    BY AtFour
  <2>2. ASSUME NEW d PROVE At(d, 17, head) <=> d[17] = Port(Avr) /\ d[17 + 1] = Port(h) /\ d[17 + 2] = Length(4 + n)
    BY AtThree DEF UdpHead
  <2> QED BY <2>1, <2>2
<1> HIDE DEF ports, head
<1>7. Buffer(b3) /\ At(b3, 17, head) /\ b3[20] = <<"zero">> /\ Alike(b2, b3, 0, 16) /\ Alike(b2, b3, 21, Last)
  <2>1. 17 + 4 <= Last + 1 /\ 17 - 1 = 16 /\ 17 + 4 = 21
    BY LastIs
  <2> QED BY <1>4, <1>5, <1>6, <2>1, PutIs
<1> HIDE DEF b3
<1>8. HeadersAt(b3, Avr, h, "udp", 14 + n)
  <2>1. Alike(b1, b3, 0, 16)
    BY <1>4, <1>7 DEF Alike
  <2> QED BY <1>1, <2>1, HeadersAlike
<1>9. 21 + n <= Last + 1 /\ Last \in Nat
  BY LastIs
<1>10. At(b3, 21, data)
  BY <1>4, <1>7, <1>9, AtAlike
<1>11. Covers(b3, 4 + n + 4, Avr, h, head, data)
  <2>1. At(b3, 13, Ip(Avr)) /\ At(b3, 15, Ip(h))
    BY <1>8, HeadersRead
  <2>2. PICK m \in Nat : m = 3
    OBVIOUS
  <2>3. 17 + m = 20 /\ 18 + m = 21 /\ m + 1 + n + 4 = 4 + n + 4 /\ Long(head, m)
    BY <1>5, <2>2
  <2>4. At(b3, 20, <<<<"zero">>>>)
    BY <1>7, AtOne
  <2>5. m \in Nat /\ Long(head, m) /\ At(b3, 17, head) /\ At(b3, 17 + m, <<<<"zero">>>>) /\ At(b3, 18 + m, data)
    BY <1>7, <1>10, <2>3, <2>4
  <2>6. Covers(b3, m + 1 + n + 4, Avr, h, head, data)
    BY <2>1, <2>5, SummedWords
  <2> QED BY <2>3, <2>6
<1>12. sum = <<Checksum(Avr, h, "udp", 4 + n, head, data)>>
  BY <1>11 DEF Checksum, Covers
<1> HIDE DEF sum
<1>13. Buffer(c) /\ At(c, 20, sum) /\ Alike(b3, c, 0, 19) /\ Alike(b3, c, 21, Last)
  <2>1. 20 + 1 <= Last + 1 /\ 20 - 1 = 19 /\ 20 + 1 = 21
    BY LastIs
  <2> QED BY <1>3, <1>5, <1>7, <2>1, PutIs
<1>14. ChecksumAt(c, 20, Avr, h, "udp", 4 + n, head, data)
  <2>1. At(c, 20, <<Checksum(Avr, h, "udp", 4 + n, head, data)>>)
    BY <1>12, <1>13
  <2> QED BY <2>1, AtOne DEF ChecksumAt
<1>15. At(c, 17, head)
  <2>1. 0 <= 17 /\ 17 + 3 <= 19 + 1
    OBVIOUS
  <2>2. Long(head, 3) /\ At(b3, 17, head) /\ Alike(b3, c, 0, 19)
    BY <1>5, <1>7, <1>13
  <2> QED BY <2>1, <2>2, AtAlike
<1>16. At(c, 21, data)
  BY <1>9, <1>10, <1>13, AtAlike
<1>17. HeadersAt(c, Avr, h, "udp", 14 + n)
  <2>1. Alike(b3, c, 0, 16)
    BY <1>13 DEF Alike
  <2> QED BY <1>8, <2>1, HeadersAlike
<1> QED BY <1>13, <1>14, <1>15, <1>16, <1>17, UdpAt DEF head

SegmentHead(from, to, length, flags) ==
  <<Port(from), Port(to)>> \o Number(from, to) \o Number(to, from) \o <<Offset(length, flags), <<"window">>>>
SegmentTail(options, data) == <<<<"zero">>>> \o options \o data

SegmentHeadIs(b, from, to, length, flags) ==
  /\ At(b, 17, <<Port(from), Port(to)>>) /\ At(b, 19, Number(from, to)) /\ At(b, 21, Number(to, from))
  /\ b[23] = Offset(length, flags) /\ b[24] = <<"window">>

LEMMA SegmentHeadAt ==
  ASSUME NEW from, NEW to, NEW length, NEW flags
  PROVE  /\ Long(SegmentHead(from, to, length, flags), 8)
         /\ \A b : At(b, 17, SegmentHead(from, to, length, flags)) <=> SegmentHeadIs(b, from, to, length, flags)
<1> DEFINE w1 == <<Port(from), Port(to)>>
           w2 == w1 \o Number(from, to)
           w3 == w2 \o Number(to, from)
           w4 == <<Offset(length, flags), <<"window">>>>
<1>1. Long(w1, 2) /\ Long(w4, 2)
  BY Tuples
<1>2. ASSUME NEW b PROVE At(b, 23, w4) <=> b[23] = Offset(length, flags) /\ b[24] = <<"window">>
  <2>1. At(b, 23, w4) <=> b[23] = Offset(length, flags) /\ b[23 + 1] = <<"window">>
    BY AtTwo
  <2> QED BY <2>1
<1> HIDE DEF w1, w4
<1>3. Long(w2, 4) /\ \A b : At(b, 17, w2) <=> At(b, 17, w1) /\ At(b, 19, Number(from, to))
  BY <1>1, Parts, Joined, JoinedAt
<1> HIDE DEF w2
<1>4. Long(w3, 6) /\ \A b : At(b, 17, w3) <=> At(b, 17, w2) /\ At(b, 21, Number(to, from))
  BY <1>3, Parts, Joined, JoinedAt
<1> HIDE DEF w3
<1>5. Long(w3 \o w4, 8) /\ \A b : At(b, 17, w3 \o w4) <=> At(b, 17, w3) /\ At(b, 23, w4)
  BY <1>1, <1>4, Joined, JoinedAt
<1>6. SegmentHead(from, to, length, flags) = w3 \o w4
  BY DEF SegmentHead, w1, w2, w3, w4
<1>7. ASSUME NEW b PROVE At(b, 17, w3 \o w4) <=> SegmentHeadIs(b, from, to, length, flags)
  BY <1>2, <1>3, <1>4, <1>5 DEF SegmentHeadIs, w1
<1> QED BY <1>5, <1>6, <1>7

LEMMA SegmentTailAt ==
  ASSUME NEW o \in Nat, NEW n \in Nat, NEW options, NEW data, Long(options, o), Long(data, n)
  PROVE  /\ Long(SegmentTail(options, data), 1 + o + n)
         /\ \A b : At(b, 26, SegmentTail(options, data)) <=>
              b[26] = <<"zero">> /\ At(b, 27, options) /\ At(b, 27 + o, data)
<1> DEFINE w1 == <<<<"zero">>>> \o options
<1>0. 1 + o \in Nat /\ 27 + o \in Nat /\ 27 + o = 26 + (1 + o)
  OBVIOUS
<1>1. Long(w1, 1 + o)
  BY Tuples, Joined
<1>2. ASSUME NEW b PROVE At(b, 26, w1) <=> b[26] = <<"zero">> /\ At(b, 27, options)
  <2>1. At(b, 26, w1) <=> At(b, 26, <<<<"zero">>>>) /\ At(b, 27, options)
    BY Tuples, JoinedAt
  <2> QED BY <2>1, AtOne
<1> HIDE DEF w1
<1>3. Long(w1 \o data, 1 + o + n)
  BY <1>0, <1>1, Joined
<1>4. ASSUME NEW b PROVE At(b, 26, w1 \o data) <=> At(b, 26, w1) /\ At(b, 27 + o, data)
  BY <1>0, <1>1, JoinedAt
<1> QED BY <1>2, <1>3, <1>4 DEF SegmentTail, w1

LEMMA SegmentAt ==
  ASSUME NEW from, NEW to, NEW flags, NEW o \in Nat, NEW n \in Nat, NEW options, NEW data,
         Long(options, o), Long(data, n)
  PROVE  /\ Long(Segment(from, to, flags, options, data), 27 + o + n)
         /\ \A b : At(b, 0, Segment(from, to, flags, options, data)) <=>
              /\ HeadersAt(b, from, to, "tcp", 20 + o + n)
              /\ At(b, 17, SegmentHead(from, to, 10 + o, flags)) /\ At(b, 26, SegmentTail(options, data))
              /\ ChecksumAt(b, 25, from, to, "tcp", 10 + o + n, SegmentHead(from, to, 10 + o, flags),
                            SegmentTail(options, data))
<1> DEFINE head == SegmentHead(from, to, 10 + o, flags)
           tail == SegmentTail(options, data)
<1>1. Segment(from, to, flags, options, data) = Summed(from, to, "tcp", head, tail)
  BY DEF Segment, SegmentHead, SegmentTail, Long
<1>2. Long(head, 8) /\ Long(tail, 1 + o + n)
  BY SegmentHeadAt, SegmentTailAt
<1> HIDE DEF head, tail
<1>3. PICK m \in Nat : m = 8
  OBVIOUS
<1>4. PICK l \in Nat : l = 1 + o + n
  OBVIOUS
<1>5. /\ 18 + m + l = 27 + o + n /\ 11 + m + l = 20 + o + n /\ 17 + m = 25 /\ 18 + m = 26
      /\ m + 1 + l = 10 + o + n
  BY <1>3, <1>4
<1>6. Long(head, m) /\ Long(tail, l)
  BY <1>2, <1>3, <1>4
<1>7. /\ Long(Summed(from, to, "tcp", head, tail), 18 + m + l)
      /\ \A b : At(b, 0, Summed(from, to, "tcp", head, tail)) <=>
              /\ HeadersAt(b, from, to, "tcp", 11 + m + l)
              /\ At(b, 17, head) /\ At(b, 18 + m, tail)
              /\ ChecksumAt(b, 17 + m, from, to, "tcp", m + 1 + l, head, tail)
  BY <1>6, SummedAt
<1> QED BY <1>1, <1>5, <1>7 DEF head, tail

(* Where a segment stands, so do its options and its data. *)
LEMMA OptionsStand ==
  ASSUME NEW from, NEW to, NEW flags, NEW o \in Nat, NEW n \in Nat, NEW options, NEW data,
         Long(options, o), Long(data, n), NEW b, At(b, 0, Segment(from, to, flags, options, data))
  PROVE  At(b, 27, options) /\ At(b, 27 + o, data)
<1>1. At(b, 26, SegmentTail(options, data))
  BY SegmentAt
<1> QED BY <1>1, SegmentTailAt

(* The words that the checksum of a segment is made of. *)
LEMMA SegmentCovered ==
  ASSUME NEW from, NEW to, NEW length, NEW flags, NEW o \in Nat, NEW n \in Nat, NEW options, NEW data,
         Long(options, o), Long(data, n), NEW b
  PROVE  (/\ At(b, 13, Ip(from)) /\ At(b, 15, Ip(to)) /\ At(b, 17, SegmentHead(from, to, length, flags))
          /\ At(b, 25, <<<<"zero">>>>) /\ At(b, 26, SegmentTail(options, data)))
         <=> Covers(b, 10 + o + n + 4, from, to, SegmentHead(from, to, length, flags), SegmentTail(options, data))
<1> DEFINE head == SegmentHead(from, to, length, flags)
           tail == SegmentTail(options, data)
<1>1. Long(head, 8) /\ Long(tail, 1 + o + n)
  BY SegmentHeadAt, SegmentTailAt
<1> HIDE DEF head, tail
<1>2. PICK m \in Nat : m = 8
  OBVIOUS
<1>3. PICK l \in Nat : l = 1 + o + n
  OBVIOUS
<1>4. 17 + m = 25 /\ 18 + m = 26 /\ m + 1 + l + 4 = 10 + o + n + 4
  BY <1>2, <1>3
<1>5. Long(head, m) /\ Long(tail, l)
  BY <1>1, <1>2, <1>3
<1>6. (/\ At(b, 13, Ip(from)) /\ At(b, 15, Ip(to))
       /\ At(b, 17, head) /\ At(b, 17 + m, <<<<"zero">>>>) /\ At(b, 18 + m, tail))
      <=> Covers(b, m + 1 + l + 4, from, to, head, tail)
  BY <1>5, SummedWords
<1> QED BY <1>4, <1>6 DEF head, tail

Summing(b, length) == TcpChecksum(b) = Sum(<<"tcp", length>>, Words(b, 13, length + 4))

(* What a reader of the lengths of a segment finds. *)
LEMMA LengthsRead ==
  ASSUME NEW b, NEW o \in Nat, NEW n \in Nat, NEW flags, b[8] = Length(20 + o + n), b[23] = Offset(10 + o, flags)
  PROVE  /\ TcpGetDataPosition(b) = 27 + o /\ TcpGetDataLength(b) = n /\ b[23][3] = flags
         /\ Summing(b, 10 + o + n)
<1>1. b[8][2] = 20 + o + n /\ b[23][2] = 10 + o /\ b[23][3] = flags
  BY DEF Length, Offset
<1>2. TcpGetHeaderLength(b) = 10 + o
  BY <1>1 DEF TcpGetHeaderLength, TCP_HEADER_LEN_P
<1>3. TcpGetDataPosition(b) = 27 + o
  BY <1>2 DEF TcpGetDataPosition, TCP_SRC_PORT_P
<1>4. TcpGetDataLength(b) = n
  BY <1>1, <1>2 DEF TcpGetDataLength, IP_TOTLEN_P
<1>5. TcpGetHeaderLength(b) + TcpGetDataLength(b) = 10 + o + n
  BY <1>2, <1>4
<1>6. Summing(b, 10 + o + n)
  <2> DEFINE length == 10 + o + n
  <2>1. TcpGetHeaderLength(b) + TcpGetDataLength(b) = length
    BY <1>5
  <2> HIDE DEF length
  <2>2. TcpChecksum(b) = Sum(<<"tcp", length>>, Words(b, 13, length + 4))
    BY <2>1 DEF TcpChecksum, software_checksum, IP_SRC_IP_P
  <2>3. Summing(b, length)
    BY <2>2 DEF Summing
  <2> QED BY <2>3 DEF length
<1> QED BY <1>1, <1>3, <1>4, <1>6

OptionsOf(flags) == IF HasSyn(flags) THEN MaxSegmetSizeOption(TCP_MAX_SEGMENT_SIZE) ELSE <<>>

LEMMA TcpMade ==
  ASSUME NEW b, Buffer(b), NEW h, NEW flags, NEW n \in Nat, NEW data, Long(data, n), 26 + n <= Last,
         HasSyn(flags) => n = 0, At(b, 27, data), NEW c, c = TcpPacket(b, h, flags, n)
  PROVE  /\ Buffer(c) /\ At(c, 0, Segment(Avr, h, flags, OptionsOf(flags), data))
         /\ ~HasSyn(flags) => Alike(b, c, 27, Last)
<1> DEFINE o == OptionLength(flags)
           options == OptionsOf(flags)
           b1 == eth_generate_header(b, "ip", Mac(h))
           b2 == IF HasSyn(flags) THEN Put(b1, 27, options) ELSE b1
           b3 == ip_generate_header(b2, 20 + o + n, "tcp", Ip(h))
           numbers == Number(Avr, h) \o Number(h, Avr)
           ports == <<Port(Avr), Port(h)>>
           s1 == Put(b3, 19, numbers)
           b4 == Put(s1, 17, ports)
           last == <<Offset(10 + o, flags), <<"window">>, <<"zero">>, <<"zero">>>>
           b5 == Put(b4, 23, last)
           head == SegmentHead(Avr, h, 10 + o, flags)
           tail == SegmentTail(options, data)
<1>1. c = Put(b5, 25, <<TcpChecksum(b5)>>)
  <2>1. options = MaxSegmetSizeOption(TCP_MAX_SEGMENT_SIZE) \/ ~HasSyn(flags)
    BY DEF OptionsOf
  <2>2. (IF HasSyn(flags) THEN 12 ELSE 10) = 10 + o
    BY DEF OptionLength
  <2>3. b2 = IF HasSyn(flags) THEN Put(b1, 27, MaxSegmetSizeOption(TCP_MAX_SEGMENT_SIZE)) ELSE b1
    BY <2>1
  <2> QED BY <2>2, <2>3 DEF TcpPacket, TCP_OPTIONS_P, TcpSetSequence, TcpSetPort, TCP_SEQ_P, TCP_SRC_PORT_P,
                            TCP_HEADER_LEN_P, TCP_CHECKSUM_P
<1>2. o \in Nat /\ Long(options, o) /\ o <= 2 /\ (HasSyn(flags) => o = 2) /\ (~HasSyn(flags) => o = 0)
  <2>1. CASE HasSyn(flags)
    BY <2>1, Tuples DEF OptionLength, OptionsOf, MaxSegmetSizeOption
  <2>2. CASE ~HasSyn(flags)
    BY <2>2, Tuples DEF OptionLength, OptionsOf
  <2> QED BY <2>1, <2>2
<1>3. Buffer(b1) /\ FrameHeaderAt(b1, Avr, h, "ip") /\ Alike(b, b1, 7, Last)
  BY EthMade
<1> HIDE DEF o, options, b1
<1>4. /\ Buffer(b2) /\ FrameHeaderAt(b2, Avr, h, "ip") /\ At(b2, 27, options) /\ At(b2, 27 + o, data)
      /\ ~HasSyn(flags) => Alike(b, b2, 27, Last)
  <2>1. CASE HasSyn(flags)
    <3>0. b2 = Put(b1, 27, options) /\ Long(options, 2) /\ 27 + 2 <= Last + 1 /\ 27 - 1 = 26
      BY <1>2, <2>1, LastIs
    <3> HIDE DEF b2
    <3>1. Buffer(b2) /\ At(b2, 27, options) /\ Alike(b1, b2, 0, 26)
      BY <1>3, <3>0, PutIs
    <3>2. At(b2, 0, Mac(h)) /\ At(b2, 3, Mac(Avr)) /\ b2[6] = b1[6]
      <4>1. At(b2, 0, Mac(h)) /\ At(b2, 3, Mac(Avr))
        BY <1>3, <3>1, Parts, AtAlike DEF FrameHeaderAt
      <4> QED BY <3>1, <4>1 DEF Alike
    <3>3. At(b2, 27 + o, data)
      BY <2>1, Elements DEF At, Long
    <3> QED BY <1>3, <2>1, <3>1, <3>2, <3>3 DEF FrameHeaderAt
  <2>2. CASE ~HasSyn(flags)
    <3>1. b2 = b1 /\ 27 + o = 27
      BY <1>2, <2>2
    <3> HIDE DEF b2
    <3>2. 27 + n <= Last + 1 /\ 7 <= 27 /\ Last \in Int
      BY LastIs
    <3>3. At(b1, 27, data)
      BY <1>3, <3>2, AtAlike
    <3>4. options = <<>>
      BY <2>2 DEF options, OptionsOf
    <3>5. At(b1, 27, options)
      BY <3>4, AtNone
    <3>6. Alike(b, b1, 27, Last)
      BY <1>3, LastIs DEF Alike
    <3> QED BY <1>3, <3>1, <3>3, <3>5, <3>6
  <2> QED BY <2>1, <2>2
<1> HIDE DEF b2
<1>5. Buffer(b3) /\ HeadersAt(b3, Avr, h, "tcp", 20 + o + n) /\ Alike(b2, b3, 17, Last)
  BY <1>4, HeadersOnFrame
<1> HIDE DEF b3
<1>6. Long(numbers, 4) /\ Long(ports, 2) /\ Long(last, 4)
  BY Parts, Tuples, Joined
<1>7. \A d : At(d, 19, numbers) <=> At(d, 19, Number(Avr, h)) /\ At(d, 21, Number(h, Avr))
  BY Parts, JoinedAt
<1>8. \A d : At(d, 23, last) <=> d[23] = Offset(10 + o, flags) /\ d[24] = <<"window">>
                                   /\ d[25] = <<"zero">> /\ d[26] = <<"zero">>
  <2>1. ASSUME NEW d PROVE At(d, 23, last) <=> d[23] = Offset(10 + o, flags) /\ d[23 + 1] = <<"window">>
                                   /\ d[23 + 2] = <<"zero">> /\ d[23 + 3] = <<"zero">>
    BY AtFour
  <2> QED BY <2>1
<1> HIDE DEF numbers, ports, last
<1>9. Buffer(s1) /\ At(s1, 19, numbers) /\ Alike(b3, s1, 0, 18) /\ Alike(b3, s1, 23, Last)
  <2>1. 19 + 4 <= Last + 1 /\ 19 - 1 = 18 /\ 19 + 4 = 23
    BY LastIs
  <2> QED BY <1>5, <1>6, <2>1, PutIs
<1> HIDE DEF s1
<1>10. Buffer(b4) /\ At(b4, 17, ports) /\ Alike(s1, b4, 0, 16) /\ Alike(s1, b4, 19, Last)
  <2>1. 17 + 2 <= Last + 1 /\ 17 - 1 = 16 /\ 17 + 2 = 19
    BY LastIs
  <2> QED BY <1>6, <1>9, <2>1, PutIs
<1> HIDE DEF b4
<1>11. Buffer(b5) /\ At(b5, 23, last) /\ Alike(b4, b5, 0, 22) /\ Alike(b4, b5, 27, Last)
  <2>1. 23 + 4 <= Last + 1 /\ 23 - 1 = 22 /\ 23 + 4 = 27
    BY LastIs
  <2> QED BY <1>6, <1>10, <2>1, PutIs
<1> HIDE DEF b5
<1>12. Alike(b3, b5, 0, 16) /\ Alike(b4, b5, 17, 18) /\ Alike(s1, b5, 19, 22) /\ Alike(b2, b5, 27, Last)
  BY <1>5, <1>9, <1>10, <1>11, LastIs DEF Alike
<1>13. HeadersAt(b5, Avr, h, "tcp", 20 + o + n)
  BY <1>5, <1>12, HeadersAlike
<1>14. At(b5, 17, head)
  <2>1. At(b5, 17, ports) /\ At(b5, 19, numbers)
    BY <1>6, <1>9, <1>10, <1>12, AtAlike
  <2>2. b5[23] = Offset(10 + o, flags) /\ b5[24] = <<"window">>
    BY <1>8, <1>11
  <2>3. SegmentHeadIs(b5, Avr, h, 10 + o, flags)
    BY <1>7, <2>1, <2>2 DEF SegmentHeadIs, ports
  <2> QED BY <2>3, SegmentHeadAt
<1>15. At(b5, 26, tail)
  <2>1. 27 + o \in Nat /\ 27 + o <= Last + 1 /\ 27 + o + n <= Last + 1 /\ Last \in Int /\ 27 <= 27 + o
    BY <1>2, LastIs
  <2>2. At(b5, 27, options)
    BY <1>2, <1>4, <1>12, <2>1, AtAlike
  <2>3. At(b5, 27 + o, data)
    BY <1>4, <1>12, <2>1, AtAlike
  <2> QED BY <1>2, <1>8, <1>11, <2>2, <2>3, SegmentTailAt
<1> HIDE DEF head, tail
<1>16. Summing(b5, 10 + o + n)
  <2>1. b5[8] = Length(20 + o + n) /\ b5[23] = Offset(10 + o, flags)
    BY <1>8, <1>11, <1>13, HeadersRead
  <2> QED BY <1>2, <2>1, LengthsRead
<1>17. Covers(b5, 10 + o + n + 4, Avr, h, head, tail)
  <2>1. At(b5, 13, Ip(Avr)) /\ At(b5, 15, Ip(h))
    BY <1>13, HeadersRead
  <2>2. At(b5, 25, <<<<"zero">>>>)
    BY <1>8, <1>11, AtOne
  <2> QED BY <1>2, <1>14, <1>15, <2>1, <2>2, SegmentCovered DEF head, tail
<1>18. TcpChecksum(b5) = Checksum(Avr, h, "tcp", 10 + o + n, head, tail)
  <2>1. PICK l : l = 10 + o + n
    OBVIOUS
  <2>2. Summing(b5, l) /\ Covers(b5, l + 4, Avr, h, head, tail)
    BY <1>16, <1>17, <2>1
  <2>3. TcpChecksum(b5) = Checksum(Avr, h, "tcp", l, head, tail)
    BY <2>2 DEF Summing, Covers, Checksum
  <2> QED BY <2>1, <2>3
<1>19. /\ Buffer(c) /\ At(c, 25, <<TcpChecksum(b5)>>)
       /\ Alike(b5, c, 0, 24) /\ Alike(b5, c, 26, Last)
  <2>1. 25 + 1 <= Last + 1 /\ 25 - 1 = 24 /\ 25 + 1 = 26
    BY LastIs
  <2>2. Long(<<TcpChecksum(b5)>>, 1)
    BY Tuples
  <2> QED BY <1>1, <1>11, <2>1, <2>2, PutIs
<1>20. HeadersAt(c, Avr, h, "tcp", 20 + o + n)
  <2>1. Alike(b5, c, 0, 16)
    BY <1>19 DEF Alike
  <2> QED BY <1>13, <2>1, HeadersAlike
<1>21. At(c, 17, head)
  <2>1. Long(head, 8)
    BY <1>2, SegmentHeadAt DEF head
  <2>2. 17 + 8 <= 24 + 1 /\ 0 <= 17 /\ 17 \in Nat /\ 8 \in Nat /\ 24 \in Int
    OBVIOUS
  <2> QED BY <1>14, <1>19, <2>1, <2>2, AtAlike
<1>22. At(c, 26, tail)
  <2>1. Long(tail, 1 + o + n) /\ 1 + o + n \in Nat /\ 26 + (1 + o + n) <= Last + 1 /\ Last \in Int
    BY <1>2, SegmentTailAt, LastIs DEF tail
  <2> QED BY <1>15, <1>19, <2>1, AtAlike
<1>23. ChecksumAt(c, 25, Avr, h, "tcp", 10 + o + n, head, tail)
  BY <1>18, <1>19, AtOne DEF ChecksumAt
<1>24. ~HasSyn(flags) => Alike(b, c, 27, Last)
  BY <1>4, <1>12, <1>19, LastIs DEF Alike
<1>25. At(c, 0, Segment(Avr, h, flags, options, data))
  BY <1>2, <1>20, <1>21, <1>22, <1>23, SegmentAt DEF head, tail
<1> QED BY <1>19, <1>24, <1>25 DEF options

(***************************************************************************)
(* The walk over the options of a segment                                  *)
(***************************************************************************)
LEMMA Upwards == ASSUME NEW S, 0 \in S, \A j \in Nat : j \in S => j + 1 \in S PROVE \A j \in Nat : j \in S
<1> DEFINE T == {j \in Nat : j \notin S}
<1> SUFFICES ASSUME T # {} PROVE FALSE
  OBVIOUS
<1>1. PICK x \in T : \A y \in T : ~(<<y, x>> \in OpToRel(<, Nat))
  BY NatLessThanWellFounded, WFMin
<1>2. \A y \in T : ~(y < x)
  BY <1>1 DEF OpToRel
<1>3. x \in Nat /\ x # 0 /\ x - 1 \in Nat /\ (x - 1) + 1 = x
  OBVIOUS
<1>4. x - 1 \in S
  BY <1>2, <1>3
<1> QED BY <1>3, <1>4

From(b, limit, walk, i) ==
  IF i = limit \/ b[i][1] = "end" THEN 0
  ELSE IF b[i][1] = "mss" THEN i
  ELSE IF b[i][2] \in 1..(limit - i) THEN walk[i + b[i][2]] ELSE 0

LEMMA FromReads ==
  ASSUME NEW b, NEW limit \in Int, NEW i \in Int, i <= limit,
         NEW f, NEW g, \A k \in (i + 1)..limit : f[k] = g[k]
  PROVE  From(b, limit, f, i) = From(b, limit, g, i)
<1>1. CASE b[i][2] \in 1..(limit - i)
  <2>1. i + b[i][2] \in (i + 1)..limit
    BY <1>1
  <2> QED BY <2>1 DEF From
<1>2. CASE ~(b[i][2] \in 1..(limit - i))
  BY <1>2 DEF From
<1> QED BY <1>1, <1>2

LEMMA WalkExists ==
  ASSUME NEW b, NEW limit \in Nat, limit >= 27
  PROVE  \E f : f = [i \in 27..limit |-> From(b, limit, f, i)]
<1> DEFINE Walks(f, m) == f = [i \in m..limit |-> From(b, limit, f, i)]
           S == {j \in Nat : \E f : Walks(f, limit - j)}
<1>1. 0 \in S
  <2> DEFINE f == [i \in limit..limit |-> 0]
  <2>1. \A i \in limit..limit : From(b, limit, f, i) = 0
    BY DEF From
  <2>2. Walks(f, limit - 0)
    BY <2>1
  <2> QED BY <2>2
<1>2. ASSUME NEW j \in Nat, j \in S PROVE j + 1 \in S
  <2>1. PICK f : Walks(f, limit - j)
    BY <1>2
  <2>2. PICK p \in Int : p = limit - (j + 1)
    OBVIOUS
  <2>3. limit - j = p + 1 /\ p <= limit
    BY <2>2
  <2> DEFINE g == [i \in p..limit |-> IF i = p THEN From(b, limit, f, p) ELSE f[i]]
  <2>4. \A k \in (p + 1)..limit : f[k] = g[k]
    OBVIOUS
  <2>5. ASSUME NEW i \in p..limit PROVE g[i] = From(b, limit, g, i)
    <3>1. From(b, limit, f, i) = From(b, limit, g, i)
      <4>1. \A k \in (i + 1)..limit : f[k] = g[k]
        BY <2>4
      <4>2. i \in Int /\ i <= limit
        OBVIOUS
      <4> HIDE DEF g
      <4> QED BY <4>1, <4>2, FromReads
    <3>2. g[i] = From(b, limit, f, i)
      <4>1. CASE i = p
        BY <4>1
      <4>2. CASE i # p
        <5>1. i \in (p + 1)..limit
          BY <4>2
        <5>2. f = [k \in (p + 1)..limit |-> From(b, limit, f, k)]
          BY <2>1, <2>3
        <5>3. f[i] = From(b, limit, f, i)
          BY <5>1, <5>2
        <5> QED BY <4>2, <5>3
      <4> QED BY <4>1, <4>2
    <3> QED BY <3>1, <3>2
  <2>6. g = [i \in p..limit |-> g[i]]
    OBVIOUS
  <2> HIDE DEF g
  <2>7. Walks(g, p)
    BY <2>5, <2>6
  <2> QED BY <2>2, <2>7
<1> HIDE DEF S
<1>3. \A j \in Nat : j \in S
  BY <1>1, <1>2, Upwards
<1>4. limit - 27 \in Nat /\ limit - (limit - 27) = 27
  OBVIOUS
<1>5. limit - 27 \in S
  BY <1>3, <1>4
<1>6. PICK f : Walks(f, 27)
  BY <1>4, <1>5 DEF S
<1> QED BY <1>6

(* The position of the option is what a function that reads on says of the *)
(* first position.                                                         *)
LEMMA WalkIs ==
  ASSUME NEW b, NEW limit \in Nat, limit >= 27, TcpGetDataPosition(b) = limit
  PROVE  \E f : /\ \A i \in 27..limit : f[i] = From(b, limit, f, i)
                /\ TcpGetOptionPosition(b) = f[27]
<1> DEFINE f == CHOOSE f : f = [i \in 27..limit |-> From(b, limit, f, i)]
<1>1. f = [i \in 27..limit |-> From(b, limit, f, i)]
  BY WalkExists, Zenon
<1>2. TcpGetOptionPosition(b) = f[27]
  BY DEF TcpGetOptionPosition, TCP_OPTIONS_P, From
<1> HIDE DEF f
<1>3. \A i \in 27..limit : f[i] = From(b, limit, f, i)
  BY <1>1
<1> QED BY <1>2, <1>3

Reached(options, starts, k, position) ==
  \/ position = 0 /\ \A m \in starts : m >= k => options[m][1] # "mss"
  \/ \E m \in starts : m >= k /\ options[m][1] = "mss" /\ position = 26 + m

SizeRespected(options, size) ==
  /\ size \in 1..TCP_MAX_SEGMENT_SIZE
  /\ \A k \in DOMAIN options : options[k][1] = "size" /\ options[k][2] # 0 => size <= options[k][2]

(* The walk finds the size among options that follow each other, wherever  *)
(* it stands.                                                              *)
LEMMA SizeFound ==
  ASSUME NEW options, WellFormed(options), NEW o \in Nat, Long(options, o),
         NEW b, At(b, 27, options), TcpGetDataPosition(b) = 27 + o
  PROVE  SizeRespected(options, SegmentSize(b))
<1>1. PICK f : /\ \A i \in 27..(27 + o) : f[i] = From(b, 27 + o, f, i)
               /\ TcpGetOptionPosition(b) = f[27]
  <2>1. 27 + o \in Nat /\ 27 + o >= 27
    OBVIOUS
  <2> QED BY <2>1, WalkIs
<1>2. Len(options) = o /\ DOMAIN options = 1..o
  BY Elements DEF Long
<1>3. PICK starts \in SUBSET (1..o) :
       /\ options # <<>> => 1 \in starts
       /\ \A k \in starts :
            IF options[k][1] = "end" THEN \A j \in starts : j <= k
            ELSE /\ options[k][2] \in 1..(o + 1 - k)
                 /\ k + options[k][2] \in starts \cup {o + 1}
                 /\ \A j \in starts : j <= k \/ j >= k + options[k][2]
       /\ \A k \in starts : options[k][1] = "mss" =>
            /\ options[k][2] = 2 /\ options[k + 1][1] = "size" /\ options[k + 1][2] \in Nat
            /\ \A j \in starts : options[j][1] = "mss" => j = k
       /\ \A k \in 1..o :
            options[k][1] = "size" => k - 1 \in starts /\ options[k - 1][1] = "mss"
  BY <1>2 DEF WellFormed
<1>4. \A k \in 1..o : b[26 + k] = options[k]
  BY <1>2 DEF At
<1> DEFINE Good(k) == k \in starts \cup {o + 1} => Reached(options, starts, k, f[26 + k])
           S == {j \in Nat : \A k \in 1..(o + 1) : k >= o + 1 - j => Good(k)}
<1>5. Good(o + 1)
  <2>1. f[27 + o] = From(b, 27 + o, f, 27 + o)
    BY <1>1
  <2>2. From(b, 27 + o, f, 27 + o) = 0
    BY DEF From
  <2>3. \A m \in starts : ~(m >= o + 1)
    OBVIOUS
  <2> QED BY <2>1, <2>2, <2>3 DEF Reached
<1>6. ASSUME NEW k \in 1..o, \A j \in (k + 1)..(o + 1) : Good(j) PROVE Good(k)
  <2> SUFFICES ASSUME k \in starts PROVE Reached(options, starts, k, f[26 + k])
    OBVIOUS
  <2>1. 26 + k \in 27..(27 + o) /\ 26 + k # 27 + o /\ 27 + o - (26 + k) = o + 1 - k
    OBVIOUS
  <2>2. f[26 + k] = From(b, 27 + o, f, 26 + k) /\ b[26 + k] = options[k]
    BY <1>1, <1>4, <2>1
  <2>3. f[26 + k] = IF options[k][1] = "end" THEN 0
                    ELSE IF options[k][1] = "mss" THEN 26 + k
                    ELSE IF options[k][2] \in 1..(o + 1 - k) THEN f[26 + k + options[k][2]] ELSE 0
    BY <2>1, <2>2 DEF From
  <2>4. CASE options[k][1] = "end"
    <3>1. \A m \in starts : m >= k => m = k
      BY <1>3, <2>4
    <3> QED BY <2>3, <2>4, <3>1 DEF Reached
  <2>5. CASE options[k][1] = "mss"
    BY <2>3, <2>5 DEF Reached
  <2>6. CASE options[k][1] # "end" /\ options[k][1] # "mss"
    <3>1. PICK l : l = k + options[k][2]
      OBVIOUS
    <3>2. options[k][2] \in 1..(o + 1 - k) /\ l \in starts \cup {o + 1} /\ \A j \in starts : j <= k \/ j >= l
      BY <1>3, <2>6, <3>1
    <3>3. l \in (k + 1)..(o + 1) /\ 26 + k + options[k][2] = 26 + l
      BY <3>1, <3>2
    <3>4. f[26 + k] = f[26 + l]
      BY <2>3, <2>6, <3>2, <3>3
    <3>5. Reached(options, starts, l, f[26 + l])
      BY <1>6, <3>2, <3>3
    <3>6. \A m \in starts : m >= k /\ options[m][1] = "mss" => m >= l
      <4>1. ASSUME NEW m \in starts, m >= k, options[m][1] = "mss" PROVE m >= l
        BY <2>6, <3>2, <4>1
      <4> QED BY <4>1
    <3>7. \A m \in starts : m >= l => m >= k
      BY <3>3
    <3> QED BY <3>4, <3>5, <3>6, <3>7 DEF Reached
  <2> QED BY <2>4, <2>5, <2>6
<1>7. 0 \in S
  BY <1>5
<1>8. ASSUME NEW j \in Nat, j \in S PROVE j + 1 \in S
  <2>1. ASSUME NEW k \in 1..(o + 1), k >= o + 1 - (j + 1) PROVE Good(k)
    <3>1. CASE k >= o + 1 - j
      BY <1>8, <3>1
    <3>2. CASE ~(k >= o + 1 - j)
      <4>1. k \in 1..o /\ \A i \in (k + 1)..(o + 1) : i \in 1..(o + 1) /\ i >= o + 1 - j
        BY <2>1, <3>2
      <4>2. \A i \in (k + 1)..(o + 1) : Good(i)
        BY <1>8, <4>1
      <4> HIDE DEF Good
      <4> QED BY <1>6, <4>1, <4>2
    <3> QED BY <3>1, <3>2
  <2> QED BY <2>1
<1>9. Good(1)
  <2> HIDE DEF S
  <2>1. \A j \in Nat : j \in S
    BY <1>7, <1>8, Upwards
  <2>2. o \in S
    BY <2>1
  <2>3. 1 \in 1..(o + 1) /\ 1 >= o + 1 - o
    OBVIOUS
  <2> HIDE DEF Good
  <2> QED BY <2>2, <2>3 DEF S
<1>10. 1 \in starts \cup {o + 1}
  <2>1. CASE o = 0
    BY <2>1
  <2>2. CASE o # 0
    BY <1>2, <1>3, <2>2
  <2> QED BY <2>1, <2>2
<1>11. Reached(options, starts, 1, TcpGetOptionPosition(b))
  BY <1>1, <1>9, <1>10
<1> HIDE DEF Good, S
<1>12. TCP_MAX_SEGMENT_SIZE \in Nat /\ TCP_MAX_SEGMENT_SIZE >= 1
  BY SizeAssumption
<1>13. CASE TcpGetOptionPosition(b) = 0
  <2>1. SegmentSize(b) = TCP_MAX_SEGMENT_SIZE
    BY <1>13 DEF SegmentSize
  <2>2. \A m \in starts : options[m][1] # "mss"
    BY <1>11, <1>13 DEF Reached
  <2>3. \A k \in 1..o : options[k][1] # "size"
    BY <1>3, <2>2
  <2> QED BY <1>2, <1>12, <2>1, <2>3 DEF SizeRespected
<1>14. CASE TcpGetOptionPosition(b) # 0
  <2>1. PICK m \in starts : options[m][1] = "mss" /\ TcpGetOptionPosition(b) = 26 + m
    BY <1>11, <1>14 DEF Reached
  <2>2. options[m][2] = 2 /\ options[m + 1][1] = "size" /\ options[m + 1][2] \in Nat
        /\ \A j \in starts : options[j][1] = "mss" => j = m
    BY <1>3, <2>1
  <2>3. m \in 1..o /\ 2 \in 1..(o + 1 - m)
    BY <1>3, <2>1, <2>2
  <2>4. m + 1 \in 1..o /\ TcpGetOptionPosition(b) + 1 = 26 + (m + 1)
    BY <2>1, <2>3
  <2>5. b[TcpGetOptionPosition(b) + 1] = options[m + 1]
    BY <1>4, <2>4
  <2>6. PICK size \in Nat : size = options[m + 1][2]
    BY <2>2
  <2>7. SegmentSize(b) = IF size = 0 \/ size > TCP_MAX_SEGMENT_SIZE THEN TCP_MAX_SEGMENT_SIZE ELSE size
    BY <1>14, <2>5, <2>6 DEF SegmentSize
  <2>8. ASSUME NEW k \in 1..o, options[k][1] = "size" PROVE k = m + 1
    BY <1>3, <2>2, <2>8
  <2>9. \A k \in 1..o : options[k][1] = "size" => options[k][2] = size
    BY <2>6, <2>8
  <2> QED BY <1>2, <1>12, <2>7, <2>9 DEF SizeRespected
<1> QED BY <1>13, <1>14

(***************************************************************************)
(* What is received and what is sent                                       *)
(***************************************************************************)
LEMMA ReceivedAt ==
  ASSUME NEW b, Buffer(b), NEW n \in Nat, NEW f, Long(f, n), n <= Last + 1,
         NEW c, c = enc28j60_packet_receive(b, f)
  PROVE  Buffer(c) /\ At(c, 0, f)
<1> DEFINE padded == f \o Data("padding", 30 - n)
<1>1. CASE n < 30
  <2>1. c = Put(b, 0, padded)
    BY <1>1 DEF enc28j60_packet_receive, Long
  <2>2. 30 - n \in Nat /\ n + (30 - n) = 30 /\ 0 + 30 <= Last + 1 /\ n = 0 + n
    BY <1>1, LastIs
  <2>3. Long(Data("padding", 30 - n), 30 - n)
    <3>1. PICK m \in Nat : m = 30 - n
      BY <2>2
    <3>2. Long(Data("padding", m), m)
      BY Parts
    <3> QED BY <3>1, <3>2
  <2>4. Long(padded, 30)
    BY <2>2, <2>3, Joined
  <2>5. At(c, 0, padded) <=> At(c, 0, f) /\ At(c, n, Data("padding", 30 - n))
    BY <2>2, <2>3, JoinedAt
  <2> HIDE DEF padded
  <2> QED BY <2>1, <2>2, <2>4, <2>5, PutIs
<1>2. CASE ~(n < 30)
  <2>1. c = Put(b, 0, f)
    BY <1>2 DEF enc28j60_packet_receive, Long
  <2> QED BY <2>1, PutIs
<1> QED BY <1>1, <1>2

LEMMA SentIs ==
  ASSUME NEW b, NEW n \in Nat, NEW meant, Long(meant, n), At(b, 0, meant)
  PROVE  Words(b, 0, Len(meant)) = meant
<1>1. Len(meant) = n
  BY DEF Long
<1> QED BY <1>1, WordsAt

LEMMA PartAt ==
  ASSUME NEW n \in Nat, NEW f, Long(f, n), NEW p \in Nat, NEW m \in Nat, p + m <= n
  PROVE  /\ Long(SubSeq(f, p + 1, p + m), m)
         /\ \A b : \A q \in Nat : At(b, q, f) => At(b, q + p, SubSeq(f, p + 1, p + m))
<1> DEFINE S == {f[k] : k \in DOMAIN f}
           part == SubSeq(f, p + 1, p + m)
<1>1. f \in Seq(S) /\ Len(f) = n
  BY DEF Long, Sequence
<1>2. p + 1 \in 1..(n + 1) /\ p + m \in (p + 1 - 1)..n /\ p + m - (p + 1) + 1 = m
  OBVIOUS
<1> HIDE DEF S
<1>3. part \in Seq(S) /\ Len(part) = m /\ \A i \in 1..m : part[i] = f[p + i]
  <2>1. /\ part \in Seq(S)
        /\ Len(part) = IF p + 1 <= p + m THEN p + m - (p + 1) + 1 ELSE 0
        /\ \A i \in 1..(p + m - (p + 1) + 1) : part[i] = f[p + 1 + i - 1]
    BY <1>1, <1>2, SubSeqProperties
  <2>2. \A i \in Int : p + 1 + i - 1 = p + i
    OBVIOUS
  <2> HIDE DEF part
  <2>3. \A i \in 1..m : part[i] = f[p + i]
    BY <1>2, <2>1, <2>2
  <2>4. Len(part) = m
    BY <1>2, <2>1
  <2> QED BY <2>1, <2>3, <2>4
<1> HIDE DEF part
<1>4. Long(part, m)
  BY <1>3, SequenceIs DEF Long
<1>5. ASSUME NEW b, NEW q \in Nat, At(b, q, f) PROVE At(b, q + p, part)
  <2>1. ASSUME NEW i \in 1..m PROVE b[q + p + i - 1] = part[i]
    <3>1. p + i \in 1..n /\ q + (p + i) - 1 = q + p + i - 1
      OBVIOUS
    <3>2. b[q + (p + i) - 1] = f[p + i]
      BY <1>1, <1>5, <3>1 DEF At
    <3> QED BY <1>3, <3>1, <3>2
  <2> QED BY <1>3, <2>1 DEF At
<1> QED BY <1>4, <1>5 DEF part

LEMMA Damaged ==
  ASSUME NEW n \in Nat, n >= 28, NEW f, Long(f, n), NEW v
  PROVE  /\ Long([f EXCEPT ![28] = v], n)
         /\ \A b : Buffer(b) /\ At(b, 0, [f EXCEPT ![28] = v]) =>
              /\ b[27] = v
              /\ \E c : Alike(b, c, 0, 26) /\ At(c, 0, f)
<1> DEFINE g == [f EXCEPT ![28] = v]
<1>1. f \in Seq({f[k] : k \in DOMAIN f} \cup {v}) /\ Len(f) = n
  BY Elements DEF Long, Sequence
<1>2. g \in Seq({f[k] : k \in DOMAIN f} \cup {v}) /\ Len(g) = n
  BY <1>1, ExceptSeq
<1>3. \A k \in 1..n : g[k] = IF k = 28 THEN v ELSE f[k]
  BY <1>1
<1> HIDE DEF g
<1>4. Long(g, n)
  BY <1>2, SequenceIs DEF Long
<1>5. ASSUME NEW b, Buffer(b), At(b, 0, g) PROVE b[27] = v /\ \E c : Alike(b, c, 0, 26) /\ At(c, 0, f)
  <2>1. \A k \in 1..n : b[0 + k - 1] = g[k]
    BY <1>2, <1>5 DEF At
  <2>2. 28 \in 1..n /\ 0 + 28 - 1 = 27
    OBVIOUS
  <2>3. b[27] = v
    BY <1>3, <2>1, <2>2
  <2> DEFINE c == [k \in 0..n |-> IF k = 27 THEN f[28] ELSE b[k]]
  <2>4. Alike(b, c, 0, 26)
    BY DEF Alike
  <2>5. ASSUME NEW k \in 1..n PROVE c[0 + k - 1] = f[k]
    BY <1>3, <2>1
  <2>6. At(c, 0, f)
    BY <1>1, <2>5 DEF At
  <2> QED BY <2>3, <2>4, <2>6
<1> QED BY <1>4, <1>5 DEF g

LEMMA FlagsRead ==
  ASSUME NEW from, NEW to, NEW length, NEW flags, NEW b, At(b, 17, SegmentHead(from, to, length, flags))
  PROVE  b[23] = Offset(length, flags)
<1>1. SegmentHeadIs(b, from, to, length, flags)
  BY SegmentHeadAt
<1> QED BY <1>1 DEF SegmentHeadIs

Known(b, from, to, flags, o, n) ==
  HeadersAt(b, from, to, "tcp", 20 + o + n) /\ b[8] = Length(20 + o + n) /\ b[23] = Offset(10 + o, flags)

LEMMA SegmentRead ==
  ASSUME NEW from, NEW to, NEW flags, NEW o \in Nat, NEW n \in Nat, NEW options, NEW data,
         Long(options, o), Long(data, n),
         NEW b, NEW c, Alike(b, c, 0, 26), At(c, 0, Segment(from, to, flags, options, data))
  PROVE  /\ Known(b, from, to, flags, o, n)
         /\ At(b, 17, SegmentHead(from, to, 10 + o, flags))
         /\ ChecksumAt(b, 25, from, to, "tcp", 10 + o + n, SegmentHead(from, to, 10 + o, flags),
                       SegmentTail(options, data))
<1> DEFINE head == SegmentHead(from, to, 10 + o, flags)
<1>1. /\ HeadersAt(c, from, to, "tcp", 20 + o + n)
      /\ At(c, 17, head)
      /\ ChecksumAt(c, 25, from, to, "tcp", 10 + o + n, head, SegmentTail(options, data))
  BY SegmentAt
<1>2. Alike(c, b, 0, 26) /\ Alike(c, b, 0, 16) /\ b[25] = c[25]
  BY DEF Alike
<1>3. HeadersAt(b, from, to, "tcp", 20 + o + n)
  BY <1>1, <1>2, HeadersAlike
<1>4. At(b, 17, head)
  <2>1. Long(head, 8)
    BY SegmentHeadAt
  <2>2. 17 + 8 <= 26 + 1 /\ 0 <= 17
    OBVIOUS
  <2> HIDE DEF head
  <2> QED BY <1>1, <1>2, <2>1, <2>2, AtAlike
<1>5. b[23] = Offset(10 + o, flags)
  <2>1. PICK l : l = 10 + o
    OBVIOUS
  <2>2. At(b, 17, SegmentHead(from, to, l, flags))
    BY <1>4, <2>1
  <2>3. b[23] = Offset(l, flags)
    BY <2>2, FlagsRead
  <2> QED BY <2>1, <2>3
<1>6. ChecksumAt(b, 25, from, to, "tcp", 10 + o + n, head, SegmentTail(options, data))
  BY <1>1, <1>2 DEF ChecksumAt
<1>7. b[8] = Length(20 + o + n)
  BY <1>3, HeadersRead
<1>8. Known(b, from, to, flags, o, n)
  BY <1>3, <1>5, <1>7 DEF Known
<1> QED BY <1>4, <1>6, <1>8

(* A segment whose data was damaged is recognised. *)
LEMMA DamageFound ==
  ASSUME NEW h, NEW n \in Nat, n >= 1, NEW b, Buffer(b), 27 + n <= Last + 1,
         NEW g, g = [Segment(h, Avr, "ACK", <<>>, Data(h, n)) EXCEPT ![28] = <<"noise">>], At(b, 0, g)
  PROVE  ~TcpVerifyChecksum(b)
<1>0. PICK o \in Nat : o = 0
  OBVIOUS
<1> DEFINE data == Data(h, n)
           f == Segment(h, Avr, "ACK", <<>>, data)
           head == SegmentHead(h, Avr, 10 + o, "ACK")
           tail == SegmentTail(<<>>, data)
           zero == <<<<"zero">>>>
           c == Put(b, 25, zero)
<1>1. Long(data, n) /\ Long(<<>>, o) /\ Long(zero, 1) /\ data[1] = <<"data", h, 1>>
  <2>1. Long(data, n) /\ Long(zero, 1)
    BY Parts, Tuples
  <2>2. Long(<<>>, o)
    BY <1>0, Tuples
  <2>3. data[1] = <<"data", h, 1>>
    BY DEF Data
  <2> QED BY <2>1, <2>2, <2>3
<1> HIDE DEF data, zero
<1>2. Long(f, 27 + n) /\ 27 + n \in Nat /\ 27 + n >= 28
  <2>1. Long(f, 27 + o + n)
    BY <1>1, SegmentAt
  <2> QED BY <1>0, <2>1
<1> HIDE DEF f
<1>3. b[27] = <<"noise">> /\ \E d : Alike(b, d, 0, 26) /\ At(d, 0, f)
  <2>1. At(b, 0, [f EXCEPT ![28] = <<"noise">>])
    BY DEF f, data
  <2> QED BY <1>2, <2>1, Damaged
<1>4. /\ b[8] = Length(20 + o + n) /\ At(b, 17, head) /\ b[23] = Offset(10 + o, "ACK")
      /\ HeadersAt(b, h, Avr, "tcp", 20 + o + n)
      /\ ChecksumAt(b, 25, h, Avr, "tcp", 10 + o + n, head, tail)
  <2>1. Known(b, h, Avr, "ACK", o, n) /\ At(b, 17, head)
        /\ ChecksumAt(b, 25, h, Avr, "tcp", 10 + o + n, head, tail)
    BY <1>1, <1>3, SegmentRead DEF f
  <2> QED BY <2>1 DEF Known
<1>5. Long(head, 8) /\ Long(tail, 1 + o + n)
  BY <1>1, SegmentHeadAt, SegmentTailAt
<1> HIDE DEF head, tail
<1>6. /\ Buffer(c) /\ At(c, 25, zero) /\ Alike(b, c, 0, 24) /\ Alike(b, c, 26, Last)
  <2>1. 25 + 1 <= Last + 1 /\ 25 - 1 = 24 /\ 25 + 1 = 26
    BY LastIs
  <2> QED BY <1>1, <2>1, PutIs
<1> HIDE DEF c
<1>7. c[8] = Length(20 + o + n) /\ c[23] = Offset(10 + o, "ACK") /\ c[27] = b[27]
  BY <1>4, <1>6, LastIs DEF Alike
<1>8. Summing(c, 10 + o + n)
  BY <1>7, LengthsRead
<1> SUFFICES ASSUME TcpVerifyChecksum(b) PROVE FALSE
  OBVIOUS
<1>9. b[25] = TcpChecksum(c)
  BY DEF TcpVerifyChecksum, TCP_CHECKSUM_P, c, zero
<1>10. Covers(c, 10 + o + n + 4, h, Avr, head, tail)
  <2>1. PICK l : l = 10 + o + n
    OBVIOUS
  <2>2. Checksum(h, Avr, "tcp", l, head, tail) = Sum(<<"tcp", l>>, Words(c, 13, l + 4))
    BY <1>4, <1>8, <1>9, <2>1 DEF ChecksumAt, Summing
  <2>3. Covers(c, l + 4, h, Avr, head, tail)
    BY <2>2 DEF Checksum, Sum, Covers
  <2> QED BY <2>1, <2>3
<1>11. At(c, 26, tail)
  BY <1>1, <1>10, SegmentCovered DEF head, tail
<1>12. At(c, 27, data)
  <2>1. At(c, 27 + o, data)
    BY <1>1, <1>11, SegmentTailAt DEF tail
  <2> QED BY <1>0, <2>1
<1>13. c[27] = data[1]
  <2>1. Len(data) = n /\ 1 \in 1..n
    BY <1>1 DEF Long
  <2>2. c[27 + 1 - 1] = data[1]
    BY <1>12, <2>1 DEF At
  <2> QED BY <2>2
<1> QED BY <1>1, <1>3, <1>7, <1>13

(***************************************************************************)
(* Steps                                                                   *)
(***************************************************************************)
Truly(s) == s = Nothing \/ s.frame = s.meant

LEMMA Sending ==
  ASSUME NEW b, Buffer(b), NEW n \in Nat, NEW meant, Long(meant, n), At(b, 0, meant), NEW kind, Sends(kind, b, meant)
  PROVE  buffer' = b /\ Buffer(buffer') /\ Truly(sent') /\ sent'.kind = kind
<1>1. Words(b, 0, Len(meant)) = meant
  BY SentIs
<1> QED BY <1>1 DEF Sends, Truly

LEMMA Ignoring == ASSUME NEW b, Buffer(b), Ignores(b) PROVE buffer' = b /\ Buffer(buffer') /\ Truly(sent') /\ sent' = Nothing
  BY DEF Ignores, Truly

LEMMA Dispatched ==
  ASSUME NEW b, NEW f, NEW h, NEW data, NetHandleIncomingPacket(b, f, h, data)
  PROVE  \/ b[6] = <<"type", "arp">> /\ ArpSendReply(b, h) /\ Keeps
         \/ b[6] = <<"type", "ip">> /\ b[11][2] = "icmp" /\ icmp_send_reply(b, f, h) /\ Keeps
         \/ b[6] = <<"type", "ip">> /\ b[11][2] = "udp" /\ UdpHandleIncomingPacket(b, f, h, data)
         \/ b[6] = <<"type", "ip">> /\ b[11][2] = "tcp" /\ Awaited(b, h) /\ Connected(b, h)
         \/ b[6] = <<"type", "ip">> /\ b[11][2] = "tcp" /\ TcpHandleIncomingPacket(b, f, h, data)
         \/ Ignores(b) /\ Keeps
<1>1. ArpPacketIsArp(b, "request") => b[6] = <<"type", "arp">>
  BY DEF ArpPacketIsArp, ETH_TYPE_P
<1>2. ip_packet_is_ip(b) => b[6] = <<"type", "ip">>
  BY DEF ip_packet_is_ip, ETH_TYPE_P
<1>3. IsEcho(b) => b[11][2] = "icmp"
  BY DEF IsEcho, Protocol, IP_PROTO_P
<1>4. Protocol(b) = b[11][2]
  BY DEF Protocol, IP_PROTO_P
<1> DEFINE arp == ArpPacketIsArp(b, "request")
           echo == ip_packet_is_ip(b) /\ IsEcho(b)
           udp == ip_packet_is_ip(b) /\ Protocol(b) = "udp"
           tcp == ip_packet_is_ip(b) /\ Protocol(b) = "tcp"
<1>5. \/ arp /\ ArpSendReply(b, h) /\ Keeps
      \/ echo /\ icmp_send_reply(b, f, h) /\ Keeps
      \/ udp /\ UdpHandleIncomingPacket(b, f, h, data)
      \/ tcp /\ IF Awaited(b, h) THEN Connected(b, h) ELSE TcpHandleIncomingPacket(b, f, h, data)
      \/ Ignores(b) /\ Keeps
  BY DEF NetHandleIncomingPacket
<1> QED BY <1>1, <1>2, <1>3, <1>4, <1>5

LEMMA ArpStep ==
  ASSUME NEW b, Buffer(b), NEW h, NEW opcode, NEW to, NEW toMac, NEW toIp, Long(toMac, 3), Long(toIp, 2),
         NEW f, f = Arp(opcode, h, to, toMac, toIp), At(b, 0, f), NEW data, NetHandleIncomingPacket(b, f, h, data)
  PROVE  Buffer(buffer') /\ Truly(sent') /\ Keeps
<1>1. FrameHeaderAt(b, h, to, "arp") /\ At(b, 14, Ip(h))
  BY ArpAt
<1>2. b[6] = <<"type", "arp">> /\ At(b, 3, Mac(h))
  BY <1>1 DEF FrameHeaderAt
<1>3. CASE Ignores(b) /\ Keeps
  BY <1>3, Ignoring
<1>4. CASE ArpSendReply(b, h) /\ Keeps
  <2> DEFINE c == arp_reply(b, Mac(h))
             meant == Arp("reply", Avr, h, Mac(h), Ip(h))
  <2>1. Words(b, 3, 3) = Mac(h)
    BY <1>2, Parts, WordsAt
  <2>2. Sends("arp", c, meant)
    BY <1>4, <2>1 DEF ArpSendReply, ETH_SRC_MAC_P
  <2>3. Buffer(c) /\ At(c, 0, meant)
    BY <1>1, ArpReplyMade
  <2>4. Long(meant, 21)
    BY Parts, ArpAt
  <2> HIDE DEF c, meant
  <2>5. Buffer(buffer') /\ Truly(sent')
    BY <2>2, <2>3, <2>4, Sending
  <2> QED BY <1>4, <2>5
<1>5. b[6] # <<"type", "ip">>
  BY <1>2
<1> QED BY <1>3, <1>4, <1>5, Dispatched

LEMMA EchoStep ==
  ASSUME NEW b, Buffer(b), NEW h, NEW type, NEW n \in Nat, 20 + n <= Last, NEW words, Long(words, 2 + n),
         NEW f, f = Icmp(h, Avr, type, words), At(b, 0, f), NEW data, NetHandleIncomingPacket(b, f, h, data)
  PROVE  Buffer(buffer') /\ Truly(sent') /\ Keeps
<1>1. PICK m \in Nat : m = 2 + n
  OBVIOUS
<1>2. Long(words, m) /\ 19 + m = 21 + n
  BY <1>1
<1>3. Long(f, 19 + m) /\ HeadersAt(b, h, Avr, "icmp", 12 + m) /\ At(b, 19, words)
  BY <1>2, IcmpAt
<1>4. b[6] = <<"type", "ip">> /\ b[11] = <<"ttl", "icmp">> /\ Words(b, 3, 3) = Mac(h) /\ Words(b, 13, 2) = Ip(h)
  BY <1>3, HeadersRead
<1>5. b[6] # <<"type", "arp">> /\ b[11][2] # "udp" /\ b[11][2] # "tcp"
  BY <1>4
<1>6. CASE Ignores(b) /\ Keeps
  BY <1>6, Ignoring
<1>7. CASE icmp_send_reply(b, f, h) /\ Keeps
  <2> DEFINE c == icmp_reply(b, 21 + n, Mac(h), Ip(h))
             part == SubSeq(f, 20, 21 + n)
             meant == Icmp(Avr, h, <<"echo", "reply">>, part)
  <2>1. Len(f) = 21 + n
    BY <1>2, <1>3 DEF Long
  <2>2. Sends("echo", c, meant)
    BY <1>4, <1>7, <2>1 DEF icmp_send_reply, ETH_SRC_MAC_P, IP_SRC_IP_P, ICMP_IDENTIFIER_P
  <2>3. Long(part, m) /\ At(b, 19, part)
    <3>1. 19 + 1 = 20 /\ 19 + m = 21 + n /\ 0 + 19 = 19 /\ 19 + m \in Nat
      BY <1>1
    <3>2. PICK p \in Nat, l \in Nat : p = 19 /\ l = 19 + m
      BY <3>1
    <3>3. p + m <= l /\ Long(f, l) /\ p + 1 = 20 /\ p + m = 21 + n /\ 0 + p = 19
      BY <1>3, <3>1, <3>2
    <3>4. Long(SubSeq(f, p + 1, p + m), m) /\ At(b, 0 + p, SubSeq(f, p + 1, p + m))
      BY <3>3, PartAt
    <3> QED BY <3>3, <3>4
  <2> HIDE DEF part
  <2>4. Long(part, 2 + n)
    BY <1>1, <2>3
  <2>5. Buffer(c) /\ At(c, 0, meant)
    BY <2>3, <2>4, EchoMade
  <2>6. Long(meant, 19 + m)
    BY <2>3, IcmpAt
  <2> HIDE DEF c, meant
  <2>7. Buffer(buffer') /\ Truly(sent')
    BY <2>2, <2>5, <2>6, Sending
  <2> QED BY <1>7, <2>7
<1> QED BY <1>5, <1>6, <1>7, Dispatched

(* Any packet with that much can be quoted. *)
Quotable(b, f) ==
  \E n \in Nat, l \in Nat : n >= 21 /\ Long(f, n) /\ At(b, 0, f) /\ l >= 14 /\ b[8] = Length(l)

LEMMA UnreachableStep ==
  ASSUME NEW b, Buffer(b), NEW h, NEW f, Quotable(b, f), IcmpSendUnreachable(b, f, h)
  PROVE  Buffer(buffer') /\ Truly(sent')
<1>1. PICK n \in Nat, l \in Nat : n >= 21 /\ Long(f, n) /\ At(b, 0, f) /\ l >= 14 /\ b[8] = Length(l)
  BY DEF Quotable
<1>2. Quoted(b[8][2]) = 14
  BY <1>1 DEF Quoted, Length
<1> DEFINE part == SubSeq(f, 8, 21)
           rest == Words(b, 19, 2)
           c == IcmpUnreachable(b, Mac(h), Ip(h), 14)
           meant == Icmp(Avr, h, <<"unreachable", 12>>, rest \o part)
<1>3. Sends("unreachable", c, meant)
  BY <1>2 DEF IcmpSendUnreachable, IP_TOTLEN_P, ICMP_IDENTIFIER_P, IP_P
<1>4. Long(part, 14) /\ At(b, 7, part)
  <2>1. PICK m \in Nat : m = 14
    OBVIOUS
  <2>2. 7 + 1 = 8 /\ 7 + m = 21 /\ 0 + 7 = 7 /\ 7 + m <= n
    BY <1>1, <2>1
  <2>3. Long(SubSeq(f, 7 + 1, 7 + m), m) /\ At(b, 0 + 7, SubSeq(f, 7 + 1, 7 + m))
    BY <1>1, <2>2, PartAt
  <2> QED BY <2>1, <2>2, <2>3
<1>5. Long(rest, 2)
  BY ArrayLong DEF Words
<1> HIDE DEF part
<1>6. Buffer(c) /\ At(c, 0, meant)
  BY <1>4, UnreachableMade
<1> HIDE DEF rest, c
<1>7. \E k \in Nat : Long(meant, k)
  <2>1. PICK m \in Nat : m = 2 + 14
    OBVIOUS
  <2>2. Long(rest \o part, m)
    BY <1>4, <1>5, <2>1, Joined
  <2>3. Long(meant, 19 + m)
    BY <2>2, IcmpAt
  <2> QED BY <2>3
<1> HIDE DEF meant
<1> QED BY <1>3, <1>6, <1>7, Sending

LEMMA TcpSending ==
  ASSUME NEW b, Buffer(b), NEW h, NEW flags, NEW n \in Nat, NEW data, Long(data, n), 26 + n <= Last,
         HasSyn(flags) => n = 0, At(b, 27, data), TcpSends(b, h, flags, data)
  PROVE  /\ Buffer(buffer') /\ Truly(sent')
         /\ At(buffer', 0, Segment(Avr, h, flags, OptionsOf(flags), data))
         /\ ~HasSyn(flags) => Alike(b, buffer', 27, Last)
<1> DEFINE c == TcpPacket(b, h, flags, n)
           meant == Segment(Avr, h, flags, OptionsOf(flags), data)
<1>1. Sends("segment", c, meant)
  BY DEF TcpSends, OptionsOf, Long
<1>2. Buffer(c) /\ At(c, 0, meant) /\ (~HasSyn(flags) => Alike(b, c, 27, Last))
  BY TcpMade
<1>3. \E l \in Nat : Long(meant, l)
  <2>1. PICK o \in Nat : Long(OptionsOf(flags), o)
    BY Tuples DEF OptionsOf, MaxSegmetSizeOption
  <2>2. Long(meant, 27 + o + n)
    BY <2>1, SegmentAt
  <2> QED BY <2>2
<1> HIDE DEF c
<1>4. buffer' = c /\ Buffer(buffer') /\ Truly(sent')
  <2> HIDE DEF meant
  <2> QED BY <1>1, <1>2, <1>3, Sending
<1> QED BY <1>2, <1>4

(* Segments without data, which most are. *)
LEMMA TcpAnswer ==
  ASSUME NEW b, Buffer(b), NEW h, NEW flags, TcpSends(b, h, flags, <<>>)
  PROVE  /\ Buffer(buffer') /\ Truly(sent')
         /\ At(buffer', 0, Segment(Avr, h, flags, OptionsOf(flags), <<>>))
         /\ ~HasSyn(flags) => Alike(b, buffer', 27, Last)
<1>1. PICK n \in Nat : n = 0
  OBVIOUS
<1>2. Long(<<>>, n) /\ 26 + n <= Last /\ (HasSyn(flags) => n = 0) /\ At(b, 27, <<>>)
  BY <1>1, Tuples, LastIs, AtNone
<1> QED BY <1>2, TcpSending

(* Where the data of a packet are that the application was called for. *)
Pointed(g, b) ==
  g = Nothing \/ \E n \in Sizes : /\ g.at \in 21..Last /\ g.at + n <= Last + 1
                                  /\ g.length = n /\ Long(g.meant, n) /\ At(b, g.at, g.meant)

LEMMA SizesFit ==
  ASSUME NEW n \in Sizes \cup {TCP_MAX_SEGMENT_SIZE}
  PROVE  n \in Nat /\ n >= 1 /\ Len(SegmentOptions) \in Nat /\ 27 + n + Len(SegmentOptions) <= Last + 1 /\ 27 + n <= Last + 1
<1>1. n \in Nat /\ n >= 1 /\ Len(SegmentOptions) \in Nat
  BY SizeAssumption, OptionAssumption, Elements
<1>2. 27 + n + Len(SegmentOptions) <= NET_BUFFER_SIZE
  BY FitAssumption
<1> QED BY <1>1, <1>2, LastIs

LEMMA UdpStep ==
  ASSUME NEW b, Buffer(b), NEW h, NEW to, NEW n \in Sizes, NEW data, Long(data, n),
         NEW f, f = Udp(h, to, data), At(b, 0, f), NetHandleIncomingPacket(b, f, h, data)
  PROVE  /\ Buffer(buffer') /\ sent' = Nothing /\ UNCHANGED <<state, maxSegmetSize>>
         /\ Pointed(given', buffer')
         /\ given' = Nothing \/ (given'.kind = "udp" /\ given'.of = f /\ Quotable(buffer', f))
<1>0. n \in Nat /\ n >= 1 /\ 27 + n <= Last + 1
  BY SizesFit
<1>1. /\ Long(f, 21 + n) /\ HeadersAt(b, h, to, "udp", 14 + n) /\ At(b, 17, UdpHead(h, to, n)) /\ At(b, 21, data)
  BY <1>0, UdpAt
<1>2. b[6] = <<"type", "ip">> /\ b[11] = <<"ttl", "udp">> /\ b[8] = Length(14 + n)
  BY <1>1, HeadersRead
<1>3. b[6] # <<"type", "arp">> /\ b[11][2] # "icmp" /\ b[11][2] # "tcp"
  BY <1>2
<1>4. CASE Ignores(b) /\ Keeps
  BY <1>4, Ignoring DEF Keeps, Pointed
<1>5. CASE UdpHandleIncomingPacket(b, f, h, data)
  <2>1. buffer' = b /\ sent' = Nothing /\ Buffer(buffer') /\ UNCHANGED <<state, maxSegmetSize>>
    BY <1>5, Ignoring DEF UdpHandleIncomingPacket
  <2>2. b[19][2] - 4 = n
    <3>1. At(b, 17, <<Port(h), Port(to), Length(4 + n)>>)
      BY <1>1 DEF UdpHead
    <3>2. b[17 + 2] = Length(4 + n)
      BY <3>1, AtThree
    <3> QED BY <1>0, <3>2 DEF Length
  <2>3. given' = [kind |-> "udp", at |-> 21, length |-> n, meant |-> data, of |-> f, host |-> h]
    BY <1>5, <2>2 DEF UdpHandleIncomingPacket, UDP_DATA_P, UDP_LENGTH_P
  <2>4. 21 \in 21..Last /\ 21 + n <= Last + 1
    BY <1>0, LastIs
  <2>5. Pointed(given', buffer')
    BY <1>1, <2>1, <2>3, <2>4 DEF Pointed
  <2>6. Quotable(b, f)
    <3>1. 21 + n \in Nat /\ 21 + n >= 21 /\ 14 + n \in Nat /\ 14 + n >= 14
      BY <1>0
    <3> QED BY <1>1, <1>2, <3>1 DEF Quotable
  <2> QED BY <2>1, <2>3, <2>5, <2>6
<1> QED BY <1>3, <1>4, <1>5, Dispatched

States == {"NO_CONNECTION", "NEW", "SYN_RECEIVED", "ESTABLISHED"}

(* A connection has been given its size before it can be established. *)
Sized ==
  /\ state \in [Hosts -> States] /\ maxSegmetSize \in [Hosts -> 0..TCP_MAX_SEGMENT_SIZE]
  /\ \A h \in Hosts : state[h] \in {"SYN_RECEIVED", "ESTABLISHED"} => SizeRespected(Options(h), maxSegmetSize[h])

LEMMA SizedStep ==
  ASSUME Sized, NEW h \in Hosts, NEW s \in States, state' = [state EXCEPT ![h] = s],
         \/ /\ UNCHANGED maxSegmetSize
            /\ s \in {"SYN_RECEIVED", "ESTABLISHED"} => state[h] \in {"SYN_RECEIVED", "ESTABLISHED"}
         \/ \E z : maxSegmetSize' = [maxSegmetSize EXCEPT ![h] = z] /\ SizeRespected(Options(h), z)
  PROVE  Sized'
<1>1. state' \in [Hosts -> States] /\ state'[h] = s /\ \A g \in Hosts \ {h} : state'[g] = state[g]
  BY DEF Sized
<1>2. CASE /\ UNCHANGED maxSegmetSize
           /\ s \in {"SYN_RECEIVED", "ESTABLISHED"} => state[h] \in {"SYN_RECEIVED", "ESTABLISHED"}
  <2>1. ASSUME NEW g \in Hosts, state'[g] \in {"SYN_RECEIVED", "ESTABLISHED"}
        PROVE  SizeRespected(Options(g), maxSegmetSize[g])
    <3>1. state[g] \in {"SYN_RECEIVED", "ESTABLISHED"}
      BY <1>1, <1>2, <2>1
    <3> QED BY <3>1 DEF Sized
  <2> QED BY <1>1, <1>2, <2>1 DEF Sized
<1>3. ASSUME NEW z, maxSegmetSize' = [maxSegmetSize EXCEPT ![h] = z], SizeRespected(Options(h), z) PROVE Sized'
  <2>1. z \in 0..TCP_MAX_SEGMENT_SIZE
    BY <1>3, SizeAssumption DEF SizeRespected
  <2>2. /\ maxSegmetSize' \in [Hosts -> 0..TCP_MAX_SEGMENT_SIZE] /\ maxSegmetSize'[h] = z
        /\ \A g \in Hosts \ {h} : maxSegmetSize'[g] = maxSegmetSize[g]
    BY <1>3, <2>1 DEF Sized
  <2>3. ASSUME NEW g \in Hosts, state'[g] \in {"SYN_RECEIVED", "ESTABLISHED"}
        PROVE  SizeRespected(Options(g), maxSegmetSize'[g])
    <3>1. CASE g = h
      BY <1>3, <2>2, <3>1
    <3>2. CASE g # h
      BY <1>1, <2>2, <2>3, <3>2 DEF Sized
    <3> QED BY <3>1, <3>2
  <2> QED BY <1>1, <2>2, <2>3 DEF Sized
<1> QED BY <1>2, <1>3

LEMMA SizedStays == ASSUME Sized, UNCHANGED <<state, maxSegmetSize>> PROVE Sized'
  BY DEF Sized

LEMMA TcpStep ==
  ASSUME NEW h \in Hosts, NEW b, Buffer(b), Sized, NEW flags \in {"ACK", "SYN", "SYN|ACK"},
         NEW o \in Nat, NEW n \in Nat, NEW options, NEW data, Long(options, o), Long(data, n),
         NEW c, Alike(b, c, 0, 26), At(c, 0, Segment(h, Avr, flags, options, data)), NEW f, Quotable(b, f),
         flags # "ACK" => n = 0 /\ SizeRespected(Options(h), SegmentSize(b)),
         flags = "ACK" /\ n # 0 /\ SegmentOptions = <<>> /\ TcpVerifyChecksum(b) => n \in Sizes /\ At(b, 27, data),
         NetHandleIncomingPacket(b, f, h, data)
  PROVE  /\ Buffer(buffer') /\ Truly(sent') /\ Sized'
         /\ given' = Nothing \/ given'.kind = "tcp"
         /\ SegmentOptions = <<>> => Pointed(given', buffer')
<1>1. HeadersAt(b, h, Avr, "tcp", 20 + o + n) /\ b[8] = Length(20 + o + n) /\ b[23] = Offset(10 + o, flags)
  <2>1. Known(b, h, Avr, flags, o, n)
    BY SegmentRead
  <2> QED BY <2>1 DEF Known
<1>2. b[6] = <<"type", "ip">> /\ b[11] = <<"ttl", "tcp">>
  BY <1>1, HeadersRead
<1>3. b[6] # <<"type", "arp">> /\ b[11][2] # "icmp" /\ b[11][2] # "udp"
  BY <1>2
<1>4. b[23][3] = flags /\ TcpGetDataLength(b) = n
  BY <1>1, LengthsRead
<1> DEFINE Goal == /\ Buffer(buffer') /\ Truly(sent') /\ Sized'
                   /\ given' = Nothing \/ given'.kind = "tcp"
                   /\ SegmentOptions = <<>> => Pointed(given', buffer')
<1>5. given' = Nothing => Pointed(given', buffer')
  BY DEF Pointed
<1>6. ASSUME Ignores(b) /\ Keeps PROVE Goal
  BY <1>5, <1>6, Ignoring, SizedStays DEF Keeps
<1>7. ASSUME Awaited(b, h), Connected(b, h) PROVE Goal
  <2>1. flags # "ACK"
    BY <1>4, <1>7 DEF Awaited, TCP_HEADER_LEN_P
  <2>2. SizeRespected(Options(h), SegmentSize(b))
    BY <2>1
  <2>3. Sized'
    <3>1. state' = [state EXCEPT ![h] = "ESTABLISHED"] /\ maxSegmetSize' = [maxSegmetSize EXCEPT ![h] = SegmentSize(b)]
      BY <1>7 DEF Connected
    <3>2. "ESTABLISHED" \in States
      BY DEF States
    <3> QED BY <2>2, <3>1, <3>2, SizedStep
  <2>4. Buffer(buffer') /\ Truly(sent') /\ given' = Nothing
    BY <1>7, TcpAnswer DEF Connected
  <2> QED BY <1>5, <2>3, <2>4
<1>8. ASSUME TcpHandleIncomingPacket(b, f, h, data) PROVE Goal
  <2> DEFINE syn == b[TCP_HEADER_LEN_P][3] = "SYN"
  <2>1. syn <=> flags = "SYN"
    BY <1>4 DEF TCP_HEADER_LEN_P
  <2> HIDE DEF syn
  <2>2. CASE Ignores(b) /\ Keeps
    BY <1>6, <2>2
  <2>3. ASSUME syn, state[h] = "NO_CONNECTION", NewConnection(b, f, h), given' = Nothing PROVE Goal
    <3>1. SizeRespected(Options(h), SegmentSize(b))
      BY <2>1, <2>3
    <3>2. CASE /\ state' = [state EXCEPT ![h] = "SYN_RECEIVED"]
               /\ maxSegmetSize' = [maxSegmetSize EXCEPT ![h] = SegmentSize(b)]
               /\ TcpSends(b, h, "SYN|ACK", <<>>)
      <4>1. "SYN_RECEIVED" \in States
        BY DEF States
      <4>2. Sized'
        BY <3>1, <3>2, <4>1, SizedStep
      <4>3. Buffer(buffer') /\ Truly(sent')
        BY <3>2, TcpAnswer
      <4> QED BY <1>5, <2>3, <4>2, <4>3
    <3>3. CASE Ignores(b) /\ UNCHANGED <<state, maxSegmetSize>>
      BY <1>6, <2>3, <3>3 DEF Keeps
    <3>4. CASE IcmpSendUnreachable(b, f, h) /\ UNCHANGED <<state, maxSegmetSize>>
      BY <1>5, <2>3, <3>4, UnreachableStep, SizedStays
    <3> QED BY <2>3, <3>2, <3>3, <3>4 DEF NewConnection
  <2>4. ASSUME TcpSends(b, h, "SYN|ACK", <<>>), Keeps PROVE Goal
    <3>1. Buffer(buffer') /\ Truly(sent')
      BY <2>4, TcpAnswer
    <3> QED BY <1>5, <2>4, <3>1, SizedStays DEF Keeps
  <2>5. ASSUME TcpVerifyChecksum(b), ~(syn /\ state[h] \in {"NO_CONNECTION", "SYN_RECEIVED"}),
               state' = IF ~syn /\ state[h] = "SYN_RECEIVED" THEN [state EXCEPT ![h] = "ESTABLISHED"] ELSE state,
               UNCHANGED maxSegmetSize,
               IF state'[h] = "ESTABLISHED" /\ TcpGetDataLength(b) # 0 THEN IncomingData(b, f, h, data)
                                                               ELSE Ignores(b) /\ given' = Nothing
        PROVE  Goal
    <3>1. Sized'
      <4>1. "ESTABLISHED" \in States
        BY DEF States
      <4>2. CASE ~syn /\ state[h] = "SYN_RECEIVED"
        BY <2>5, <4>1, <4>2, SizedStep
      <4>3. CASE ~(~syn /\ state[h] = "SYN_RECEIVED")
        BY <2>5, <4>3, SizedStays
      <4> QED BY <4>2, <4>3
    <3>2. CASE Ignores(b) /\ given' = Nothing
      BY <1>5, <3>1, <3>2, Ignoring
    <3>3. ASSUME n # 0, IncomingData(b, f, h, data) PROVE Goal
      <4>1. flags = "ACK"
        BY <3>3
      <4>2. TcpSends(b, h, "ACK", <<>>)
        BY <3>3 DEF IncomingData
      <4>3. /\ Buffer(buffer') /\ Truly(sent') /\ Alike(b, buffer', 27, Last)
            /\ At(buffer', 0, Segment(Avr, h, "ACK", OptionsOf("ACK"), <<>>))
        BY <4>2, TcpAnswer DEF HasSyn
      <4>4. CASE given' = Nothing
        BY <1>5, <3>1, <4>3, <4>4
      <4>5. CASE given' = [kind |-> "tcp", at |-> TcpGetDataPosition(buffer'), length |-> TcpGetDataLength(b),
                           meant |-> data, of |-> f, host |-> h]
        <5>1. TcpGetDataPosition(buffer') = 27
          <6>1. PICK z \in Nat : z = 0
            OBVIOUS
          <6>2. OptionsOf("ACK") = <<>> /\ Long(<<>>, z)
            BY <6>1, Tuples DEF OptionsOf, HasSyn
          <6>3. Alike(buffer', buffer', 0, 26)
            BY DEF Alike
          <6>4. buffer'[8] = Length(20 + z + z) /\ buffer'[23] = Offset(10 + z, "ACK")
            <7>1. Known(buffer', Avr, h, "ACK", z, z)
              BY <4>3, <6>2, <6>3, SegmentRead
            <7> QED BY <7>1 DEF Known
          <6>5. TcpGetDataPosition(buffer') = 27 + z
            BY <6>4, LengthsRead
          <6> QED BY <6>1, <6>5
        <5>2. given' = [kind |-> "tcp", at |-> 27, length |-> n, meant |-> data, of |-> f, host |-> h]
          BY <1>4, <4>5, <5>1
        <5>3. ASSUME SegmentOptions = <<>> PROVE Pointed(given', buffer')
          <6>1. n \in Sizes /\ At(b, 27, data)
            BY <2>5, <3>3, <4>1, <5>3
          <6>2. 27 + n <= Last + 1 /\ 27 \in 21..Last /\ Last \in Int /\ 27 <= 27
            BY <6>1, SizesFit, LastIs
          <6>3. At(buffer', 27, data)
            BY <4>3, <6>1, <6>2, AtAlike
          <6> QED BY <5>2, <6>1, <6>2, <6>3 DEF Pointed
        <5>4. given'.kind = "tcp"
          BY <5>2
        <5> QED BY <3>1, <4>3, <5>3, <5>4
      <4> QED BY <3>3, <4>4, <4>5 DEF IncomingData
    <3> QED BY <1>4, <2>5, <3>2, <3>3
  <2> QED BY <1>8, <2>2, <2>3, <2>4, <2>5 DEF TcpHandleIncomingPacket, syn
<1> QED BY <1>3, <1>6, <1>7, <1>8, Dispatched

(***************************************************************************)
(* The inductive invariant                                                 *)
(***************************************************************************)
IInv ==
  /\ Buffer(buffer) /\ Sized
  /\ given.kind = "udp" => Quotable(buffer, given.of)
  /\ RepliesRight
  /\ SegmentOptions = <<>> => Pointed(given, buffer)
  /\ SegmentOptions = <<>> /\ ~Overlapping => Truly(sent)

LEMMA InvAfter ==
  ASSUME Buffer(buffer'), Sized', Truly(sent'), given' = Nothing \/ given'.kind = "tcp",
         SegmentOptions = <<>> => Pointed(given', buffer')
  PROVE  IInv'
<1>1. given'.kind # "udp"
  BY DEF Nothing
<1>2. RepliesRight'
  BY DEF RepliesRight, Truly, Nothing
<1> QED BY <1>1, <1>2 DEF IInv

LEMMA InvKept == ASSUME IInv, Buffer(buffer'), Truly(sent'), Keeps PROVE IInv'
<1>1. Sized'
  BY SizedStays DEF IInv, Keeps
<1>2. given' = Nothing /\ Pointed(given', buffer')
  BY DEF Keeps, Pointed
<1> QED BY <1>1, <1>2, InvAfter

LEMMA InitInv == Init => IInv
<1> SUFFICES ASSUME Init PROVE IInv
  OBVIOUS
<1>1. Buffer(buffer)
  BY DEF Init, Buffer
<1>2. Sized
  <2>1. TCP_MAX_SEGMENT_SIZE \in Nat
    BY SizeAssumption
  <2>2. state = [h \in Hosts |-> "NO_CONNECTION"] /\ maxSegmetSize = [h \in Hosts |-> 0] /\ 0 \in 0..TCP_MAX_SEGMENT_SIZE
    BY <2>1 DEF Init
  <2>3. /\ state \in [Hosts -> States] /\ maxSegmetSize \in [Hosts -> 0..TCP_MAX_SEGMENT_SIZE]
        /\ \A h \in Hosts : state[h] = "NO_CONNECTION"
    BY <2>2 DEF States
  <2> QED BY <2>3 DEF Sized
<1>3. given = Nothing /\ sent = Nothing /\ Nothing.kind = "nothing"
  BY DEF Init, Nothing
<1>4. Pointed(given, buffer) /\ Truly(sent) /\ RepliesRight
  BY <1>3 DEF Pointed, Truly, RepliesRight
<1> QED BY <1>1, <1>2, <1>3, <1>4 DEF IInv

LEMMA Lengths ==
  /\ \A h \in Hosts : /\ Len(Options(h)) \in Nat /\ Long(Options(h), Len(Options(h)))
                      /\ 27 + Len(Options(h)) <= Last + 1 /\ WellFormed(Options(h))
  /\ Len(SegmentOptions) \in Nat /\ Long(SegmentOptions, Len(SegmentOptions))
  /\ EchoSize \in Nat /\ 21 + EchoSize <= Last + 1
  /\ 27 + Len(SegmentOptions) <= Last + 1
<1>1. ASSUME NEW h \in Hosts
      PROVE  /\ Len(Options(h)) \in Nat /\ Long(Options(h), Len(Options(h)))
             /\ 27 + Len(Options(h)) <= Last + 1 /\ WellFormed(Options(h))
  <2>1. WellFormed(Options(h)) /\ 27 + Len(Options(h)) <= NET_BUFFER_SIZE
    BY OptionAssumption, FitAssumption
  <2>2. Sequence(Options(h))
    BY <2>1 DEF WellFormed
  <2>3. Len(Options(h)) \in Nat
    BY <2>2, Elements
  <2> QED BY <2>1, <2>2, <2>3, LastIs DEF Long
<1>2. Len(SegmentOptions) \in Nat /\ Long(SegmentOptions, Len(SegmentOptions))
  BY OptionAssumption, Elements DEF Long
<1>3. EchoSize \in Nat /\ 21 + EchoSize <= Last + 1
  BY SizeAssumption, FitAssumption, LastIs
<1>4. 27 + Len(SegmentOptions) <= Last + 1
  <2>1. PICK n \in Nat : n = TCP_MAX_SEGMENT_SIZE
    BY SizesFit
  <2>2. 27 + n + Len(SegmentOptions) <= Last + 1
    BY <2>1, SizesFit
  <2> QED BY <1>2, <2>2, LastIs
<1> QED BY <1>1, <1>2, <1>3, <1>4

IsArp(p, h) ==
  \E opcode, s, m, i : p = Packet(Arp(opcode, h, s, m, i), <<>>) /\ Long(m, 3) /\ Long(i, 2)
IsIcmp(p, h) == \E type : p = Packet(Icmp(h, Avr, type, Data(h, 2 + EchoSize)), <<>>)
IsDatagram(p, h) == \E n \in Sizes : \E to : p = Packet(Udp(h, to, Data(h, n)), Data(h, n))
IsAck(p, h) == \/ p = Packet(Segment(h, Avr, "ACK", SegmentOptions, <<>>), <<>>)
               \/ \E n \in Sizes : p = Packet(Segment(h, Avr, "ACK", SegmentOptions, Data(h, n)), Data(h, n))
IsDamaged(p, h) ==
  \E n \in Sizes :
    p = Packet([Segment(h, Avr, "ACK", SegmentOptions, Data(h, n)) EXCEPT ![28] = <<"noise">>], Data(h, n))
IsOpening(p, h) == \E flags \in {"SYN", "SYN|ACK"} : p = Packet(Segment(h, Avr, flags, Options(h), <<>>), <<>>)

LEMMA NetworkIs ==
  ASSUME NEW h \in Hosts, NEW p \in Network(h)
  PROVE  \/ IsArp(p, h) \/ IsIcmp(p, h) \/ IsDatagram(p, h) \/ IsAck(p, h) \/ IsDamaged(p, h) \/ IsOpening(p, h)
<1>1. Long(Zeros(3), 3) /\ (\A s : Long(Mac(s), 3)) /\ (\A s : Long(Ip(s), 2))
  BY Parts
<1>2. CASE p \in ArpPackets(h)
  <2>1. CASE \E s \in {Avr, Broadcast} : p = Packet(Arp("request", h, s, Zeros(3), Ip(Avr)), <<>>)
    BY <1>1, <2>1 DEF IsArp
  <2>2. CASE p = Packet(Arp("request", h, Broadcast, Zeros(3), Ip(h)), <<>>)
    BY <1>1, <2>2 DEF IsArp
  <2>3. CASE p = Packet(Arp("reply", h, Avr, Mac(Avr), Ip(Avr)), <<>>)
    BY <1>1, <2>3 DEF IsArp
  <2> QED BY <1>2, <2>1, <2>2, <2>3 DEF ArpPackets
<1>5. CASE p \in Echoes(h)
  BY <1>5 DEF IsIcmp, Echoes
<1>6. CASE p \in Datagrams(h)
  <2>1. PICK s \in {Avr, h}, data \in Datas(h) : p = Packet(Udp(h, s, data), data)
    BY <1>6 DEF Datagrams
  <2>2. PICK n \in Sizes : data = Data(h, n)
    BY DEF Datas
  <2> QED BY <2>1, <2>2 DEF IsDatagram
<1>7. CASE p \in Segments(h)
  <2>1. PICK data \in {<<>>} \cup Datas(h) : p = Packet(Segment(h, Avr, "ACK", SegmentOptions, data), data)
    BY <1>7 DEF Segments
  <2>2. data = <<>> \/ \E n \in Sizes : data = Data(h, n)
    BY DEF Datas
  <2> QED BY <2>1, <2>2 DEF IsAck
<1>8. CASE p \in DamagedSegments(h)
  <2>1. TCP_DATA_P + 1 = 28
    BY DEF TCP_DATA_P
  <2>2. PICK data \in Datas(h) :
          p = Packet([Segment(h, Avr, "ACK", SegmentOptions, data) EXCEPT ![28] = <<"noise">>], data)
    BY <1>8, <2>1 DEF DamagedSegments
  <2>3. PICK n \in Sizes : data = Data(h, n)
    BY DEF Datas
  <2> QED BY <2>2, <2>3 DEF IsDamaged
<1>9. CASE p \in Openings(h)
  BY <1>9 DEF IsOpening, Openings
<1>10. p \in ArpPackets(h) \cup Echoes(h) \cup Datagrams(h) \cup Segments(h) \cup DamagedSegments(h) \cup Openings(h)
  BY DEF Network, AtAnyTime
<1> QED BY <1>2, <1>5, <1>6, <1>7, <1>8, <1>9, <1>10

(* The segments of a host, damaged or not, as the chip delivers them. *)
LEMMA SegmentArrives ==
  ASSUME IInv, NEW h \in Hosts, NEW flags \in {"ACK", "SYN", "SYN|ACK"},
         NEW o \in Nat, NEW n \in Nat, NEW options, NEW data, Long(options, o), Long(data, n), 27 + o + n <= Last + 1,
         flags # "ACK" => n = 0 /\ options = Options(h),
         NEW f, \/ f = Segment(h, Avr, flags, options, data) /\ (n # 0 => n \in Sizes /\ options = SegmentOptions)
                \/ /\ f = [Segment(h, Avr, "ACK", options, data) EXCEPT ![28] = <<"noise">>]
                   /\ flags = "ACK" /\ n >= 1 /\ data = Data(h, n) /\ options = SegmentOptions,
         NEW b, b = enc28j60_packet_receive(buffer, f), NetHandleIncomingPacket(b, f, h, data)
  PROVE  IInv'
<1> DEFINE whole == Segment(h, Avr, flags, options, data)
<1>0. PICK l \in Nat : l = 27 + o + n
  OBVIOUS
<1>1. Long(whole, l)
  <2>1. Long(whole, 27 + o + n)
    BY SegmentAt
  <2> QED BY <1>0, <2>1
<1> DEFINE damaged == [whole EXCEPT ![28] = <<"noise">>]
<1>2. \/ f = whole /\ (n # 0 => n \in Sizes /\ options = SegmentOptions)
      \/ f = damaged /\ flags = "ACK" /\ n >= 1 /\ data = Data(h, n) /\ options = SegmentOptions
  OBVIOUS
<1>3. n >= 1 => l >= 28
  BY <1>0
<1> HIDE DEF whole
<1>4. Long(f, l)
  BY <1>1, <1>2, <1>3, Damaged
<1> HIDE DEF damaged
<1>5. Buffer(b) /\ At(b, 0, f)
  BY <1>0, <1>4, ReceivedAt DEF IInv
<1>6. \E c : Alike(b, c, 0, 26) /\ At(c, 0, whole)
  <2>1. CASE f = whole
    <3>1. Alike(b, b, 0, 26)
      BY DEF Alike
    <3> QED BY <1>5, <2>1, <3>1
  <2>2. CASE f = damaged /\ n >= 1
    BY <1>1, <1>3, <1>5, <2>2, Damaged DEF damaged
  <2> QED BY <1>2, <2>1, <2>2
<1>7. PICK c : Alike(b, c, 0, 26) /\ At(c, 0, Segment(h, Avr, flags, options, data))
  BY <1>6 DEF whole
<1>8. b[8] = Length(20 + o + n) /\ b[23] = Offset(10 + o, flags)
  <2>1. Known(b, h, Avr, flags, o, n)
    BY <1>7, SegmentRead
  <2> QED BY <2>1 DEF Known
<1>9. Quotable(b, f)
  <2>1. l >= 21 /\ 20 + o + n \in Nat /\ 20 + o + n >= 14
    BY <1>0
  <2> QED BY <1>4, <1>5, <1>8, <2>1 DEF Quotable
<1>10. f = whole => At(b, 27, options) /\ At(b, 27 + o, data)
  <2> SUFFICES ASSUME f = whole PROVE At(b, 27, options) /\ At(b, 27 + o, data)
    OBVIOUS
  <2>1. At(b, 0, Segment(h, Avr, flags, options, data))
    BY <1>5 DEF whole
  <2> QED BY <2>1, OptionsStand
<1>11. ASSUME flags # "ACK" PROVE n = 0 /\ SizeRespected(Options(h), SegmentSize(b))
  <2>1. n = 0 /\ options = Options(h) /\ f = whole
    BY <1>2, <1>11
  <2>2. TcpGetDataPosition(b) = 27 + o
    BY <1>8, LengthsRead
  <2>3. WellFormed(options)
    BY <2>1, Lengths
  <2>4. SizeRespected(options, SegmentSize(b))
    BY <1>10, <2>1, <2>2, <2>3, SizeFound
  <2> QED BY <2>1, <2>4
<1>12. ASSUME flags = "ACK", n # 0, SegmentOptions = <<>>, TcpVerifyChecksum(b)
       PROVE  n \in Sizes /\ At(b, 27, data)
  <2>1. options = <<>>
    BY <1>2, <1>12
  <2>2. o = 0 /\ 27 + o = 27 /\ 27 + n <= Last + 1
    <3>1. Len(options) = 0
      BY <2>1
    <3>2. o = 0
      BY <3>1 DEF Long
    <3> QED BY <3>2
  <2>3. ASSUME f = damaged, n >= 1, data = Data(h, n) PROVE FALSE
    <3>1. f = [Segment(h, Avr, "ACK", <<>>, Data(h, n)) EXCEPT ![28] = <<"noise">>]
      BY <1>12, <2>1, <2>3 DEF damaged, whole
    <3>2. ~TcpVerifyChecksum(b)
      BY <1>5, <2>2, <2>3, <3>1, DamageFound
    <3> QED BY <1>12, <3>2
  <2>4. f = whole /\ n \in Sizes
    BY <1>2, <1>12, <2>3
  <2>5. At(b, 27 + o, data)
    BY <1>10, <2>4
  <2> QED BY <2>2, <2>4, <2>5
<1>13. Sized
  BY DEF IInv
<1>14. /\ Buffer(buffer') /\ Truly(sent') /\ Sized'
       /\ given' = Nothing \/ given'.kind = "tcp"
       /\ SegmentOptions = <<>> => Pointed(given', buffer')
  BY <1>5, <1>7, <1>9, <1>11, <1>12, <1>13, TcpStep
<1> QED BY <1>14, InvAfter

LEMMA NetworkInv == ASSUME IInv, NetHandleNetwork PROVE IInv'
<1>0. PICK h \in Hosts : \E p \in Network(h) :
        NetHandleIncomingPacket(enc28j60_packet_receive(buffer, p.frame), p.frame, h, p.data)
  BY DEF NetHandleNetwork
<1>1. PICK p \in Network(h) : NetHandleIncomingPacket(enc28j60_packet_receive(buffer, p.frame), p.frame, h, p.data)
  BY <1>0
<1>2. PICK f, data, b : /\ f = p.frame /\ data = p.data /\ b = enc28j60_packet_receive(buffer, f)
  OBVIOUS
<1>3. NetHandleIncomingPacket(b, f, h, data)
  BY <1>1, <1>2
<1>4. Buffer(buffer) /\ Sized
  BY DEF IInv
<1>5. CASE IsArp(p, h)
  <2>1. PICK opcode, s, m, i : p = Packet(Arp(opcode, h, s, m, i), <<>>) /\ Long(m, 3) /\ Long(i, 2)
    BY <1>5 DEF IsArp
  <2>2. f = Arp(opcode, h, s, m, i)
    BY <1>2, <2>1 DEF Packet
  <2>3. Long(f, 21) /\ 21 <= Last + 1
    BY <2>1, <2>2, ArpAt, LastIs
  <2>4. Buffer(b) /\ At(b, 0, f)
    BY <1>2, <1>4, <2>3, ReceivedAt
  <2>5. Buffer(buffer') /\ Truly(sent') /\ Keeps
    BY <1>3, <2>1, <2>2, <2>4, ArpStep
  <2> QED BY <2>5, InvKept
<1>6. CASE IsIcmp(p, h)
  <2>1. PICK type : p = Packet(Icmp(h, Avr, type, Data(h, 2 + EchoSize)), <<>>)
    BY <1>6 DEF IsIcmp
  <2>2. PICK n \in Nat, m \in Nat : n = EchoSize /\ m = 2 + n /\ 21 + n <= Last + 1 /\ 20 + n <= Last
    BY Lengths, LastIs
  <2>3. f = Icmp(h, Avr, type, Data(h, m)) /\ Long(Data(h, m), m)
    BY <1>2, <2>1, <2>2, Parts DEF Packet
  <2>4. Long(f, 19 + m) /\ 19 + m <= Last + 1 /\ 19 + m \in Nat /\ Long(Data(h, m), 2 + n)
    <3>1. Long(f, 19 + m)
      BY <2>3, IcmpAt
    <3> QED BY <2>2, <2>3, <3>1, LastIs
  <2>5. Buffer(b) /\ At(b, 0, f)
    BY <1>2, <1>4, <2>4, ReceivedAt
  <2>6. Buffer(buffer') /\ Truly(sent') /\ Keeps
    BY <1>3, <2>2, <2>3, <2>4, <2>5, EchoStep
  <2> QED BY <2>6, InvKept
<1>7. CASE IsDatagram(p, h)
  <2>1. PICK n \in Sizes : \E to : p = Packet(Udp(h, to, Data(h, n)), Data(h, n))
    BY <1>7 DEF IsDatagram
  <2>2. PICK to : p = Packet(Udp(h, to, Data(h, n)), Data(h, n))
    BY <2>1
  <2>3. n \in Nat /\ 27 + n <= Last + 1
    BY SizesFit
  <2>4. f = Udp(h, to, data) /\ Long(data, n)
    BY <1>2, <2>2, <2>3, Parts DEF Packet
  <2>5. Long(f, 21 + n) /\ 21 + n <= Last + 1 /\ 21 + n \in Nat
    <3>1. Long(f, 21 + n)
      BY <2>3, <2>4, UdpAt
    <3> QED BY <2>3, <3>1, LastIs
  <2>6. Buffer(b) /\ At(b, 0, f)
    BY <1>2, <1>4, <2>5, ReceivedAt
  <2>7. /\ Buffer(buffer') /\ sent' = Nothing /\ UNCHANGED <<state, maxSegmetSize>>
        /\ Pointed(given', buffer')
        /\ given' = Nothing \/ (given'.kind = "udp" /\ given'.of = f /\ Quotable(buffer', f))
    BY <1>3, <2>4, <2>6, UdpStep
  <2>8. given'.kind = "udp" => Quotable(buffer', given'.of)
    BY <2>7 DEF Nothing
  <2>9. RepliesRight' /\ Truly(sent')
    BY <2>7 DEF RepliesRight, Nothing, Truly
  <2> QED BY <1>4, <2>7, <2>8, <2>9, SizedStays DEF IInv
<1>8. PICK k \in Nat : k = 0
  OBVIOUS
<1>9. Long(<<>>, k)
  BY <1>8, Tuples
<1>10. PICK o \in Nat : Long(SegmentOptions, o) /\ o = Len(SegmentOptions) /\ 27 + o <= Last + 1
  BY Lengths
<1>11. CASE IsAck(p, h)
  <2>1. CASE p = Packet(Segment(h, Avr, "ACK", SegmentOptions, <<>>), <<>>)
    <3>1. f = Segment(h, Avr, "ACK", SegmentOptions, <<>>) /\ data = <<>>
      BY <1>2, <2>1 DEF Packet
    <3>2. 27 + o + k <= Last + 1 /\ ~(k # 0)
      BY <1>8, <1>10
    <3> QED BY <1>2, <1>3, <1>9, <1>10, <3>1, <3>2, SegmentArrives
  <2>2. CASE \E n \in Sizes : p = Packet(Segment(h, Avr, "ACK", SegmentOptions, Data(h, n)), Data(h, n))
    <3>1. PICK n \in Sizes : p = Packet(Segment(h, Avr, "ACK", SegmentOptions, Data(h, n)), Data(h, n))
      BY <2>2
    <3>2. n \in Nat /\ 27 + n + o <= Last + 1
      BY <1>10, SizesFit
    <3>3. f = Segment(h, Avr, "ACK", SegmentOptions, data) /\ Long(data, n) /\ 27 + o + n <= Last + 1
      BY <1>2, <3>1, <3>2, Parts DEF Packet
    <3> QED BY <1>2, <1>3, <1>10, <3>2, <3>3, SegmentArrives
  <2> QED BY <1>11, <2>1, <2>2 DEF IsAck
<1>12. CASE IsDamaged(p, h)
  <2>1. PICK n \in Sizes :
          p = Packet([Segment(h, Avr, "ACK", SegmentOptions, Data(h, n)) EXCEPT ![28] = <<"noise">>], Data(h, n))
    BY <1>12 DEF IsDamaged
  <2>2. n \in Nat /\ n >= 1 /\ 27 + n + o <= Last + 1
    BY <1>10, SizesFit
  <2>3. f = [Segment(h, Avr, "ACK", SegmentOptions, data) EXCEPT ![28] = <<"noise">>] /\ data = Data(h, n)
    BY <1>2, <2>1 DEF Packet
  <2>4. Long(data, n) /\ 27 + o + n <= Last + 1
    BY <2>2, <2>3, Parts
  <2> QED BY <1>2, <1>3, <1>10, <2>2, <2>3, <2>4, SegmentArrives
<1>13. CASE IsOpening(p, h)
  <2>1. PICK flags \in {"SYN", "SYN|ACK"} : p = Packet(Segment(h, Avr, flags, Options(h), <<>>), <<>>)
    BY <1>13 DEF IsOpening
  <2>2. PICK n \in Nat : Long(Options(h), n) /\ 27 + n <= Last + 1
    BY Lengths
  <2>3. f = Segment(h, Avr, flags, Options(h), <<>>) /\ data = <<>>
    BY <1>2, <2>1 DEF Packet
  <2>4. 27 + n + k <= Last + 1 /\ k = 0
    BY <1>8, <2>2
  <2> QED BY <1>2, <1>3, <1>9, <2>2, <2>3, <2>4, SegmentArrives
<1> QED BY <1>5, <1>6, <1>7, <1>11, <1>12, <1>13, NetworkIs

(***************************************************************************)
(* The application                                                         *)
(***************************************************************************)
LEMMA HeaderBuffer ==
  ASSUME NEW b, Buffer(b), NEW to, NEW n, NEW protocol, NEW ip
  PROVE  /\ Buffer(eth_generate_header(b, "ip", to))
         /\ Buffer(ip_generate_header(b, n, protocol, ip))
<1>1. Buffer(eth_generate_header(b, "ip", to))
  BY PutBuffer DEF eth_generate_header
<1>2. Buffer(ip_generate_header(b, n, protocol, ip))
  BY PutBuffer DEF ip_generate_header
<1> QED BY <1>1, <1>2

LEMMA UdpBuffer == ASSUME NEW b, Buffer(b), NEW h, NEW pointer, NEW n PROVE Buffer(UdpDatagram(b, h, pointer, n))
<1> DEFINE b1 == ip_generate_header(eth_generate_header(b, "ip", Mac(h)), 14 + n, "udp", Ip(h))
           b2 == Put(b1, UDP_DATA_P, memcpy(b1, pointer, n, UDP_DATA_P))
<1>1. Buffer(b1)
  BY HeaderBuffer
<1> HIDE DEF b1
<1>2. Buffer(b2)
  BY <1>1, PutBuffer
<1>3. UdpDatagram(b, h, pointer, n) = UdpGenerateHeader(b2, h, 4 + n)
  BY DEF UdpDatagram, b1
<1> HIDE DEF b2
<1> QED BY <1>2, <1>3, PutBuffer DEF UdpGenerateHeader

LEMMA TcpBuffer == ASSUME NEW b, Buffer(b), NEW h, NEW flags, NEW n PROVE Buffer(TcpPacket(b, h, flags, n))
<1> DEFINE b1 == eth_generate_header(b, "ip", Mac(h))
           b2 == IF HasSyn(flags) THEN Put(b1, TCP_OPTIONS_P, MaxSegmetSizeOption(TCP_MAX_SEGMENT_SIZE)) ELSE b1
           b3 == ip_generate_header(b2, 20 + OptionLength(flags) + n, "tcp", Ip(h))
           b4 == TcpSetPort(TcpSetSequence(b3, Number(Avr, h), Number(h, Avr)), Port(h), Port(Avr))
           b5 == Put(b4, TCP_HEADER_LEN_P,
                     <<Offset(IF HasSyn(flags) THEN 12 ELSE 10, flags), <<"window">>, <<"zero">>, <<"zero">>>>)
<1>0. TcpPacket(b, h, flags, n) = Put(b5, TCP_CHECKSUM_P, <<TcpChecksum(b5)>>)
  BY DEF TcpPacket
<1>1. Buffer(b1)
  BY HeaderBuffer
<1> HIDE DEF b1
<1>2. Buffer(b2)
  BY <1>1, PutBuffer
<1> HIDE DEF b2
<1>3. Buffer(b3)
  BY <1>2, HeaderBuffer
<1> HIDE DEF b3
<1>4. Buffer(b4)
  BY <1>3, PutBuffer DEF TcpSetPort, TcpSetSequence
<1> HIDE DEF b4
<1>5. Buffer(b5)
  BY <1>4, PutBuffer
<1> HIDE DEF b5
<1> QED BY <1>0, <1>5, PutBuffer

(* The data the application sends: its own, or what it was given. *)
Meant(s, n) == Long(s.meant, n) /\ (SegmentOptions = <<>> => Points(buffer, s.pointer, s.meant))

LEMMA SourcesAre ==
  ASSUME IInv, NEW s \in Sources, given = Nothing \/ SegmentOptions = <<>>
  PROVE  \E n \in Sizes : Meant(s, n)
<1>1. CASE \E data \in Datas("application") : s = [pointer |-> Own(data), meant |-> data]
  <2>1. PICK data \in Datas("application") : s = [pointer |-> Own(data), meant |-> data]
    BY <1>1
  <2>2. PICK n \in Sizes : data = Data("application", n)
    BY DEF Datas
  <2>3. n \in Nat
    BY SizesFit
  <2>4. Long(data, n)
    BY <2>2, <2>3, Parts
  <2> QED BY <2>1, <2>4 DEF Meant, Points
<1>2. CASE given # Nothing /\ s = [pointer |-> InBuffer(given.at), meant |-> given.meant]
  <2>1. SegmentOptions = <<>> /\ Pointed(given, buffer)
    BY <1>2 DEF IInv
  <2>2. PICK n \in Sizes : /\ given.at \in 21..Last /\ given.at + n <= Last + 1
                           /\ Long(given.meant, n) /\ At(buffer, given.at, given.meant)
    BY <1>2, <2>1 DEF Pointed
  <2>3. Len(given.meant) = n
    BY <2>2 DEF Long
  <2>4. Points(buffer, s.pointer, s.meant)
    BY <1>2, <2>2, <2>3 DEF Points
  <2> QED BY <1>2, <2>2, <2>4 DEF Meant
<1> QED BY <1>1, <1>2 DEF Sources

(* What an application may send may be wrong if segments have options. *)
LEMMA InvSent ==
  ASSUME IInv, Buffer(buffer'), sent'.kind \in {"datagram", "segment"}, Keeps,
         SegmentOptions = <<>> /\ ~Overlapping => Truly(sent')
  PROVE  IInv'
<1>1. Sized'
  BY SizedStays DEF IInv, Keeps
<1>2. given' = Nothing /\ Pointed(given', buffer')
  BY DEF Keeps, Pointed
<1>3. given'.kind # "udp"
  BY <1>2 DEF Nothing
<1>4. RepliesRight'
  BY DEF RepliesRight
<1> QED BY <1>1, <1>2, <1>3, <1>4 DEF IInv

LEMMA UdpSendInv == ASSUME IInv, NEW h \in Hosts, UdpSendDataMac(h) PROVE IInv'
<1>1. PICK s \in Sources : Sends("datagram", UdpDatagram(buffer, h, s.pointer, Len(s.meant)), Udp(Avr, h, s.meant))
  BY DEF UdpSendDataMac
<1>2. Keeps /\ Buffer(buffer)
  BY DEF UdpSendDataMac, IInv
<1>3. sent'.kind = "datagram" /\ buffer' = UdpDatagram(buffer, h, s.pointer, Len(s.meant))
  BY <1>1 DEF Sends
<1>4. Buffer(buffer')
  BY <1>2, <1>3, UdpBuffer
<1>5. ASSUME SegmentOptions = <<>> PROVE Truly(sent')
  <2>1. PICK n \in Sizes : Meant(s, n)
    BY <1>5, SourcesAre
  <2>2. n \in Nat /\ 27 + n <= Last + 1
    BY SizesFit
  <2>3. PICK data, pointer : data = s.meant /\ pointer = s.pointer
    OBVIOUS
  <2>4. Long(data, n) /\ Len(data) = n /\ Points(buffer, pointer, data)
    BY <1>5, <2>1, <2>3 DEF Meant, Long
  <2>5. PICK c : c = UdpDatagram(buffer, h, pointer, n)
    OBVIOUS
  <2>6. Sends("datagram", c, Udp(Avr, h, data))
    BY <1>1, <2>3, <2>4, <2>5
  <2>7. 20 + n <= Last
    BY <2>2, LastIs
  <2>10. ~Overlap(pointer, n, 21)
    <3>1. CASE pointer = Own(data)
      BY <3>1 DEF Overlap, Own
    <3>2. ASSUME NEW p \in 21..Last, pointer = InBuffer(p) PROVE ~Overlap(pointer, n, 21)
      <4>1. p \in Nat /\ 21 <= p
        BY LastIs
      <4> QED BY <2>2, <3>2, <4>1, Apart
    <3> QED BY <2>4, <3>1, <3>2 DEF Points
  <2>8. Buffer(c) /\ At(c, 0, Udp(Avr, h, data))
    BY <1>2, <2>2, <2>4, <2>5, <2>7, <2>10, UdpMade
  <2>9. \E l \in Nat : Long(Udp(Avr, h, data), l)
    <3>1. Long(Udp(Avr, h, data), 21 + n)
      BY <2>2, <2>4, UdpAt
    <3> QED BY <2>2, <3>1
  <2> QED BY <2>6, <2>8, <2>9, Sending
<1> QED BY <1>2, <1>3, <1>4, <1>5, InvSent

LEMMA WholePart == ASSUME NEW n \in Nat, NEW s, Long(s, n) PROVE SubSeq(s, 1, n) = s
<1> DEFINE S == {s[k] : k \in DOMAIN s}
<1>1. s \in Seq(S) /\ Len(s) = n
  BY DEF Long, Sequence
<1>2. \A i \in 1..n : s[i] \in S
  BY <1>1
<1> HIDE DEF S
<1>3. /\ SubSeq(s, 1, n) \in Seq(S)
      /\ Len(SubSeq(s, 1, n)) = n
      /\ \A i \in 1..n : SubSeq(s, 1, n)[i] = s[i]
  <2>1. /\ SubSeq(s, 1, n) \in Seq(S)
        /\ Len(SubSeq(s, 1, n)) = IF 1 <= n THEN n - 1 + 1 ELSE 0
        /\ \A i \in 1..(n - 1 + 1) : SubSeq(s, 1, n)[i] = s[1 + i - 1]
    BY <1>2, SubSeqProperties
  <2>2. n - 1 + 1 = n /\ (~(1 <= n) => n = 0) /\ \A i \in Int : 1 + i - 1 = i
    OBVIOUS
  <2> QED BY <2>1, <2>2
<1> QED BY <1>1, <1>3, SequenceIs, SameWords DEF Long

(* The first words of what a pointer points to. *)
LEMMA PartRead ==
  ASSUME NEW b, NEW pointer, NEW m \in Nat, NEW n \in Nat, n <= m, NEW data, Long(data, m), Points(b, pointer, data),
         NEW to, ~Overlap(pointer, n, to)
  PROVE  SubSeq(memcpy(b, pointer, n, to), 1, n) = SubSeq(data, 1, n) /\ Long(SubSeq(data, 1, n), n)
<1> DEFINE part == SubSeq(data, 1, n)
<1>1. PICK p \in Nat : p = 0
  OBVIOUS
<1>2. p + 1 = 1 /\ p + n = n /\ p + n <= m
  BY <1>1
<1>3. /\ Long(SubSeq(data, p + 1, p + n), n)
      /\ \A c : \A q \in Nat : At(c, q, data) => At(c, q + p, SubSeq(data, p + 1, p + n))
  BY <1>2, PartAt
<1>4. Long(part, n) /\ \A q \in Nat : At(b, q, data) => At(b, q, part)
  BY <1>1, <1>2, <1>3
<1>5. CASE pointer = Own(data)
  BY <1>4, <1>5, ReadOwn
<1>6. ASSUME NEW q \in 21..Last, pointer = InBuffer(q), At(b, q, data) PROVE SubSeq(memcpy(b, pointer, n, to), 1, n) = part
  <2>1. q \in Nat \ {0}
    BY LastIs
  <2> HIDE DEF part
  <2>2. memcpy(b, pointer, n, to) = part
    BY <1>4, <1>6, <2>1, ReadBuffer
  <2> QED BY <1>4, <2>2, WholePart
<1> QED BY <1>4, <1>5, <1>6 DEF Points

LEMMA TcpSendInv == ASSUME IInv, NEW h \in Hosts, TcpSendData(h) PROVE IInv'
<1>1. PICK s \in Sources :
        /\ TcpSends(Put(buffer, 27, SubSeq(memcpy(buffer, s.pointer, PartLength(h, Len(s.meant)), 27), 1, PartLength(h, Len(s.meant)))),
                    h, "ACK", SubSeq(s.meant, 1, PartLength(h, Len(s.meant))))
        /\ Overlapping \/ ~Overlap(s.pointer, PartLength(h, Len(s.meant)), 27)
  BY DEF TcpSendData, TCP_DATA_P
<1>2. Keeps /\ Buffer(buffer) /\ state[h] = "ESTABLISHED" /\ Sized
  BY DEF TcpSendData, IInv
<1>3. PICK data, pointer, n : data = s.meant /\ pointer = s.pointer /\ n = PartLength(h, Len(data))
  OBVIOUS
<1>4. PICK b, part : b = Put(buffer, 27, SubSeq(memcpy(buffer, pointer, n, 27), 1, n)) /\ part = SubSeq(data, 1, n)
  OBVIOUS
<1>5. Buffer(b) /\ TcpSends(b, h, "ACK", part)
  BY <1>1, <1>2, <1>3, <1>4, PutBuffer
<1>6. sent'.kind = "segment" /\ Buffer(buffer')
  BY <1>5, TcpBuffer DEF TcpSends, Sends
<1>7. ASSUME SegmentOptions = <<>>, ~Overlapping PROVE Truly(sent')
  <2>1. PICK m \in Sizes : Meant(s, m)
    BY <1>7, SourcesAre
  <2>2. m \in Nat /\ 27 + m <= Last + 1
    BY SizesFit
  <2>3. Long(data, m) /\ Len(data) = m /\ Points(buffer, pointer, data)
    BY <1>3, <1>7, <2>1 DEF Meant, Long
  <2>4. maxSegmetSize[h] \in Nat
    BY <1>2, SizeAssumption DEF Sized
  <2>5. n \in Nat /\ n <= m
    BY <1>3, <2>2, <2>3, <2>4 DEF PartLength
  <2>6. SubSeq(memcpy(buffer, pointer, n, 27), 1, n) = part /\ Long(part, n)
    <3>1. ~Overlap(pointer, n, 27)
      BY <1>1, <1>3, <1>7
    <3>2. m \in Nat /\ Long(data, m) /\ Points(buffer, pointer, data)
      BY <2>2, <2>3
    <3>3. SubSeq(memcpy(buffer, pointer, n, 27), 1, n) = SubSeq(data, 1, n) /\ Long(SubSeq(data, 1, n), n)
      BY <2>5, <3>1, <3>2, PartRead
    <3> QED BY <1>4, <3>3
  <2>7. 27 + n <= Last + 1 /\ 26 + n <= Last
    BY <2>2, <2>5, LastIs
  <2>8. At(b, 27, part)
    BY <1>2, <1>4, <2>5, <2>6, <2>7, PutIs
  <2>9. ~HasSyn("ACK")
    BY DEF HasSyn
  <2> QED BY <1>5, <2>5, <2>6, <2>7, <2>8, <2>9, TcpSending
<1> QED BY <1>2, <1>6, <1>7, InvSent

LEMMA NextInv == IInv /\ [Next]_vars => IInv'
<1> SUFFICES ASSUME IInv, [Next]_vars PROVE IInv'
  OBVIOUS
<1>0. Buffer(buffer) /\ Sized
  BY DEF IInv
<1>1. CASE NetHandleNetwork
  BY <1>1, NetworkInv
<1>2. CASE Reject
  <2>1. Quotable(buffer, given.of) /\ IcmpSendUnreachable(buffer, given.of, given.host) /\ Keeps
    BY <1>2 DEF Reject, IInv
  <2>2. Buffer(buffer') /\ Truly(sent')
    BY <1>0, <2>1, UnreachableStep
  <2> QED BY <2>1, <2>2, InvKept
<1>3. ASSUME NEW h \in Hosts, ArpWhoIs(h) PROVE IInv'
  <2> DEFINE c == arp_request(buffer, Ip(h))
             meant == Arp("request", Avr, Broadcast, Zeros(3), Ip(h))
  <2>1. Sends("request", c, meant) /\ Keeps
    BY <1>3 DEF ArpWhoIs
  <2>2. Buffer(c) /\ At(c, 0, meant)
    BY <1>0, ArpRequestMade
  <2>3. Long(meant, 21)
    BY Parts, ArpAt
  <2> HIDE DEF c, meant
  <2>4. Buffer(buffer') /\ Truly(sent')
    BY <2>1, <2>2, <2>3, Sending
  <2> QED BY <2>1, <2>4, InvKept
<1>4. ASSUME NEW h \in Hosts, UdpSendDataMac(h) PROVE IInv'
  BY <1>4, UdpSendInv
<1>5. ASSUME NEW h \in Hosts, TcpSendData(h) PROVE IInv'
  BY <1>5, TcpSendInv
<1>6. ASSUME NEW h \in Hosts, TcpConnect(h) PROVE IInv'
  <2>1. Buffer(buffer') /\ Truly(sent')
    BY <1>0, <1>6, TcpAnswer DEF TcpConnect
  <2>2. "NEW" \in States
    BY DEF States
  <2>3. Sized'
    BY <1>0, <1>6, <2>2, SizedStep DEF TcpConnect
  <2> QED BY <1>6, <2>1, <2>3, InvAfter DEF TcpConnect, Pointed
<1>7. ASSUME NEW h \in Hosts, TimedOut(h) PROVE IInv'
  <2>1. Buffer(buffer') /\ RepliesRight' /\ (SegmentOptions = <<>> /\ ~Overlapping => Truly(sent'))
    BY <1>0, <1>7 DEF TimedOut, RepliesRight, IInv
  <2>2. "NO_CONNECTION" \in States
    BY DEF States
  <2>3. Sized'
    BY <1>0, <1>7, <2>2, SizedStep DEF TimedOut
  <2>4. given'.kind # "udp" /\ Pointed(given', buffer')
    BY <1>7 DEF TimedOut, Pointed, Nothing
  <2> QED BY <2>1, <2>3, <2>4 DEF IInv
<1>8. CASE UNCHANGED vars
  <2>1. RepliesRight'
    BY <1>8 DEF IInv, RepliesRight, vars
  <2>2. Sized'
    BY <1>0, <1>8, SizedStays DEF vars
  <2> QED BY <1>8, <2>1, <2>2 DEF IInv, vars
<1> QED BY <1>1, <1>2, <1>3, <1>4, <1>5, <1>6, <1>7, <1>8 DEF Next

LEMMA Invariance == Spec => []IInv
  BY InitInv, NextInv, PTL DEF Spec

(***************************************************************************)
(* Theorems                                                                *)
(***************************************************************************)
(* The buffer keeps its extent: no packet is written beside it.            *)
THEOREM TypeCorrect == Spec => []TypeOK
<1>1. IInv => TypeOK
  BY LastIs DEF IInv, Buffer, Sized, States, TypeOK
<1> QED BY <1>1, Invariance, PTL

(* What answers a packet in its place is the answer to it, with all that   *)
(* the packet held, whatever options its segments have.                    *)
THEOREM RepliesCorrect == Spec => []RepliesRight
<1>1. IInv => RepliesRight
  BY DEF IInv
<1> QED BY <1>1, Invariance, PTL

(* No segment is longer than its receiver takes, nor than the buffer; of   *)
(* options, only that they follow each other and that there is at most one *)
(* size is assumed.                                                        *)
THEOREM SizesCorrect == Spec => []SegmentSizeKept
<1>1. IInv => SegmentSizeKept
  BY DEF IInv, Sized, SizeRespected, SegmentSizeKept
<1> QED BY <1>1, Invariance, PTL

(* If segments with data have no options (otherwise the application is     *)
(* told to look where the acknowledgment would have had its data, and what *)
(* it passes on is not what it was given), and if TCP copies no data to a  *)
(* place within themselves, all that is sent is made right; and the        *)
(* application finds the data of a packet where it is told.                *)
THEOREM SentCorrect == ASSUME SegmentOptions = <<>>, ~Overlapping PROVE Spec => []SentRight
<1>1. IInv => SentRight
  BY DEF IInv, Truly, SentRight, Nothing
<1> QED BY <1>1, Invariance, PTL

(* See SentCorrect. *)
THEOREM DataCorrect == ASSUME SegmentOptions = <<>> PROVE Spec => []DataRight
<1>1. IInv => DataRight
  <2> SUFFICES ASSUME IInv, given # Nothing PROVE Words(buffer, given.at, given.length) = given.meant
    BY DEF DataRight
  <2>1. PICK n \in Sizes : /\ given.at \in 21..Last /\ given.length = n
                           /\ Long(given.meant, n) /\ At(buffer, given.at, given.meant)
    BY DEF IInv, Pointed
  <2>2. n \in Nat /\ given.at \in Nat
    BY <2>1, SizesFit, LastIs
  <2> QED BY <2>1, <2>2, WordsAt
<1> QED BY <1>1, Invariance, PTL
=============================================================================
