-------------------------- MODULE Enc28j60Proofs --------------------------
(***************************************************************************)
(* Proofs about Enc28j60, for any size of the chip's memory and of the     *)
(* buffer, and any number and lengths of frames.                           *)
(***************************************************************************)
EXTENDS Enc28j60, SequenceTheorems, TLAPS

-----------------------------------------------------------------------------
(***************************************************************************)
(* The inductive invariant                                                 *)
(***************************************************************************)
Bytes == [frame : 0..MaxReceived, at : Nat]
Records == [start : Ring, next : Ring, length : RxLengths, ok : BOOLEAN]
Views == [frame : 0..MaxReceived, length : 0..(NetBufferSize - 1), ok : BOOLEAN]

Sent == [frame : 0..MaxSent, length : 0..NetBufferSize]

Reading == pc \in {"header", "data", "free", "decrement"}

(* The chip and the driver agree on how many frames are to be read. *)
Counted ==
  /\ Len(frames) <= MaxReceived /\ EPKTCNT = Len(frames) - read
  /\ Reading => EPKTCNT >= 1
  /\ \A a \in DOMAIN mem : mem[a].frame <= Len(frames)
  /\ Len(given) <= MaxSent

(* How far address a lies behind address p, and the address k behind p. *)
Behind(p, a) == (a + RingSize - p) % RingSize
Ahead(p, k) == (p + k) % RingSize

(* Where the f-th frame starts, or the next frame to arrive would. *)
StartOf(f) == IF f \in 1..Len(frames) THEN frames[f].start ELSE ERXWRPT
Size(f) == Total(frames[f].length)

(* The frames from this one on are not given back to the chip. *)
FirstKept == IF pc = "decrement" THEN read + 2 ELSE read + 1

(* They lie behind the read limit, one after the other, and end where the  *)
(* chip writes: none reaches around the ring into another.                 *)
Chained ==
  /\ StartOf(FirstKept) = ERXRDPT
  /\ \A f \in FirstKept..Len(frames) :
       /\ frames[f].next = StartOf(f + 1)
       /\ Behind(ERXRDPT, StartOf(f)) + Size(f) = Behind(ERXRDPT, StartOf(f + 1))
       /\ \A g \in (f + 1)..(Len(frames) + 1) :
            Behind(ERXRDPT, StartOf(f + 1)) <= Behind(ERXRDPT, StartOf(g))

Stored ==
  \A f \in FirstKept..Len(frames) : \A k \in 0..(Size(f) - 1) :
    mem[Ahead(StartOf(f), k)] = Cell(f, k)

(* Where the driver is in the frame it reads. *)
Located ==
  /\ pc \in {"idle", "header", "request", "check"} => next_packet_ptr = StartOf(read + 1)
  /\ pc \in {"data", "free", "decrement"} =>
       /\ next_packet_ptr = StartOf(read + 2)
       /\ reading = [frame |-> read + 1, length |-> Truncated(frames[read + 1].length),
                     ok |-> frames[read + 1].ok]
  /\ pc = "header" => ERDPT = StartOf(read + 1)
  /\ pc = "data" => ERDPT = Ahead(StartOf(read + 1), HeaderSize)

(* The chip transmits frames of lengths the driver sends. *)
LengthKnown == tx.busy \/ pc = "request" => tx.length \in TxLengths

TypeInv == TypeOK /\ Counted /\ LengthKnown
RingInv == TypeInv /\ Chained /\ Stored /\ Located

(* What is being sent is the last frame given, which was not sent before. *)
LastGiven ==
  tx.busy \/ pc = "request" =>
    /\ given # <<>> /\ tx.length = given[Len(given)]
    /\ pc = "request" => ~tx.busy
    /\ tx.busy => tx.frame = Len(given)
    /\ \A k \in DOMAIN wire : wire[k].frame < Len(given)

SendInv == SentIntact /\ LastGiven

-----------------------------------------------------------------------------
(***************************************************************************)
(* Addresses in the ring                                                   *)
(***************************************************************************)
LEMMA Remainder ==
  ASSUME NEW n \in Nat \ {0}, NEW a \in Int
  PROVE  /\ a % n \in 0..(n - 1)
         /\ 0 <= a /\ a < n => a % n = a
         /\ n <= a /\ a < n + n => a % n = a - n
<1>1. n \in Nat /\ n > 0
  OBVIOUS
<1>2. a % n \in 0..(n - 1)
  BY <1>1, SMTT(30)
<1>3. ASSUME 0 <= a, a < n PROVE a % n = a
  BY <1>1, <1>3, SMTT(30)
<1>4. ASSUME n <= a, a < n + n PROVE a % n = a - n
  <2> DEFINE b == a - n
  <2>1. b \in Int /\ 0 <= b /\ b < n /\ a = b + n
    BY <1>1, <1>4
  <2> HIDE DEF b
  <2>2. (b + n) % n = b
    BY <1>1, <2>1, SMTT(30)
  <2>3. a % n = b
    BY <2>1, <2>2
  <2> QED BY <2>1, <2>3
<1> QED BY <1>2, <1>3, <1>4

LEMMA Sizes ==
  /\ RingSize \in Nat \ {0} /\ Ring = 0..(RingSize - 1)
  /\ RamSize \in Nat /\ NetBufferSize \in Nat \ {0} /\ RamSize = RingSize + NetBufferSize
  /\ TXSTART_INIT = RingSize
  /\ MaxReceived \in Nat /\ MaxSent \in Nat
  /\ RxLengths \subseteq 1..NetBufferSize /\ TxLengths \subseteq 1..NetBufferSize
  /\ Ring \subseteq 0..(RamSize - 1)
  BY MemoryAssumption DEF RingSize, Ring, TXSTART_INIT

LEMMA TotalFacts ==
  ASSUME NEW len \in Nat
  PROVE  Total(len) \in Nat /\ HeaderSize + len + CrcSize <= Total(len)
<1>1. (HeaderSize + len + CrcSize) % 2 \in 0..1
  BY Remainder DEF HeaderSize, CrcSize
<1> QED BY <1>1 DEF Total, HeaderSize, CrcSize

LEMMA BehindIs ==
  ASSUME NEW p \in Ring, NEW a \in Ring
  PROVE  Behind(p, a) \in Ring /\ Behind(p, a) = IF p <= a THEN a - p ELSE a + RingSize - p
<1>1. /\ a + RingSize - p \in Int /\ RingSize \in Nat \ {0}
      /\ p <= a => RingSize <= a + RingSize - p /\ a + RingSize - p < RingSize + RingSize
      /\ ~(p <= a) => 0 <= a + RingSize - p /\ a + RingSize - p < RingSize
  BY Sizes
<1> DEFINE x == a + RingSize - p
<1>2. Behind(p, a) = x % RingSize
  BY DEF Behind
<1>3. /\ x \in Int /\ RingSize \in Nat \ {0}
      /\ p <= a => RingSize <= x /\ x < RingSize + RingSize
      /\ ~(p <= a) => 0 <= x /\ x < RingSize
  BY <1>1
<1>4. Behind(p, a) = IF p <= a THEN x - RingSize ELSE x
  <2> HIDE DEF x
  <2>1. /\ 0 <= x /\ x < RingSize => x % RingSize = x
        /\ RingSize <= x /\ x < RingSize + RingSize => x % RingSize = x - RingSize
    BY <1>3, Remainder
  <2> QED BY <1>2, <1>3, <2>1, Zenon
<1> QED BY <1>1, <1>4, Sizes

LEMMA AheadIs ==
  ASSUME NEW p \in Ring, NEW k \in Ring
  PROVE  Ahead(p, k) \in Ring /\ Ahead(p, k) = IF p + k < RingSize THEN p + k ELSE p + k - RingSize
<1>1. /\ p + k \in Int /\ RingSize \in Nat \ {0} /\ 0 <= p + k /\ p + k < RingSize + RingSize
  BY Sizes
<1> DEFINE x == p + k
<1>2. Ahead(p, k) = x % RingSize
  BY DEF Ahead
<1>3. /\ x < RingSize => Ahead(p, k) = x
      /\ RingSize <= x => Ahead(p, k) = x - RingSize
  <2>1. x \in Int /\ RingSize \in Nat \ {0} /\ 0 <= x /\ x < RingSize + RingSize
    BY <1>1
  <2> HIDE DEF x
  <2>2. /\ 0 <= x /\ x < RingSize => x % RingSize = x
        /\ RingSize <= x /\ x < RingSize + RingSize => x % RingSize = x - RingSize
    BY <2>1, Remainder
  <2> QED BY <1>2, <2>1, <2>2, Zenon
<1> QED BY <1>1, <1>3, Sizes

(* Going ahead and looking back. *)
LEMMA AheadBehind ==
  ASSUME NEW p \in Ring, NEW a \in Ring, NEW k \in Ring
  PROVE  /\ Behind(p, p) = 0
         /\ Behind(p, Ahead(p, k)) = k
         /\ Ahead(p, Behind(p, a)) = a
         /\ Behind(p, a) + k < RingSize => Behind(p, Ahead(a, k)) = Behind(p, a) + k
<1>1. \A x, y \in Ring : /\ Behind(x, y) \in Ring
                           /\ Behind(x, y) = IF x <= y THEN y - x ELSE y + RingSize - x
  BY BehindIs
<1>2. \A x, y \in Ring : /\ Ahead(x, y) \in Ring
                           /\ Ahead(x, y) = IF x + y < RingSize THEN x + y ELSE x + y - RingSize
  BY AheadIs
<1>3. Behind(p, p) = 0
  BY <1>1, Sizes
<1>4. Behind(p, Ahead(p, k)) = k
  <2> DEFINE x == Ahead(p, k)
  <2>1. x \in Ring /\ x = IF p + k < RingSize THEN p + k ELSE p + k - RingSize
    BY <1>2
  <2> HIDE DEF x
  <2>2. Behind(p, x) = IF p <= x THEN x - p ELSE x + RingSize - p
    BY <1>1, <2>1
  <2>3. Behind(p, x) = k
    BY <2>1, <2>2, Sizes
  <2> QED BY <2>3 DEF x
<1>5. /\ Ahead(p, Behind(p, a)) = a
      /\ Behind(p, a) + k < RingSize => Behind(p, Ahead(a, k)) = Behind(p, a) + k
  <2> DEFINE d == Behind(p, a)
             x == Ahead(a, k)
  <2>1. d \in Ring /\ d = IF p <= a THEN a - p ELSE a + RingSize - p
    BY <1>1
  <2>2. x \in Ring /\ x = IF a + k < RingSize THEN a + k ELSE a + k - RingSize
    BY <1>2
  <2> HIDE DEF d, x
  <2>3. /\ Ahead(p, d) = IF p + d < RingSize THEN p + d ELSE p + d - RingSize
        /\ Behind(p, x) = IF p <= x THEN x - p ELSE x + RingSize - p
    BY <1>1, <1>2, <2>1, <2>2
  <2>4. Ahead(p, d) = a
    BY <2>1, <2>3, Sizes
  <2>5. d + k < RingSize => Behind(p, x) = d + k
    BY <2>1, <2>2, <2>3, Sizes
  <2> QED BY <2>4, <2>5 DEF d, x
<1> QED BY <1>3, <1>4, <1>5

(* The same address, seen from further on. *)
LEMMA SeenFrom ==
  ASSUME NEW p \in Ring, NEW q \in Ring, NEW a \in Ring
  PROVE  Behind(q, a) = IF Behind(p, q) <= Behind(p, a) THEN Behind(p, a) - Behind(p, q)
                        ELSE Behind(p, a) - Behind(p, q) + RingSize
<1> DEFINE b == Behind(p, q)
           c == Behind(p, a)
           d == Behind(q, a)
<1>1. /\ b = IF p <= q THEN q - p ELSE q + RingSize - p
      /\ c = IF p <= a THEN a - p ELSE a + RingSize - p
      /\ d = IF q <= a THEN a - q ELSE a + RingSize - q
  BY BehindIs
<1> HIDE DEF b, c, d
<1>2. d = IF b <= c THEN c - b ELSE c - b + RingSize
  BY <1>1, Sizes
<1> QED BY <1>2 DEF b, c, d

LEMMA AheadTwice ==
  ASSUME NEW p \in Ring, NEW k \in Nat, NEW i \in Nat, k + i < RingSize
  PROVE  Ahead(Ahead(p, k), i) = Ahead(p, k + i) /\ Ahead(p, 0) = p
<1> DEFINE q == Ahead(p, k)
           j == k + i
<1>1. k \in Ring /\ i \in Ring /\ j \in Ring /\ 0 \in Ring
  BY Sizes
<1>2. q \in Ring /\ q = IF p + k < RingSize THEN p + k ELSE p + k - RingSize
  BY <1>1, AheadIs
<1> HIDE DEF q
<1>3. /\ Ahead(q, i) = IF q + i < RingSize THEN q + i ELSE q + i - RingSize
      /\ Ahead(p, 0) = IF p + 0 < RingSize THEN p + 0 ELSE p + 0 - RingSize
  BY <1>1, <1>2, AheadIs
<1>4. Ahead(p, j) = IF p + j < RingSize THEN p + j ELSE p + j - RingSize
  <2> HIDE DEF j
  <2> QED BY <1>1, AheadIs
<1> QED BY <1>1, <1>2, <1>3, <1>4, Sizes DEF q

(* What the transmitter's part of the memory holds is not in the ring. *)
LEMMA OutsideRing ==
  ASSUME mem \in [0..(RamSize - 1) -> Bytes],
         NEW a \in RingSize..(RamSize - 1), NEW n \in Nat, a + n <= RamSize
  PROVE  \A b \in Ring : Overwritten(a, n)[b] = mem[b]
<1> SUFFICES ASSUME NEW b \in Ring PROVE ~((b + 2 * RamSize - a) % RamSize < n)
  BY Sizes DEF Overwritten
<1> DEFINE x == b + 2 * RamSize - a
<1>1. RamSize \in Nat \ {0} /\ n \in Nat
  BY Sizes
<1>2. x \in Int /\ x < RamSize + RamSize /\ RamSize <= x /\ n <= x - RamSize
  BY Sizes
<1> HIDE DEF x
<1>3. x % RamSize = x - RamSize
  BY <1>1, <1>2, Remainder
<1>4. ~(x % RamSize < n)
  BY <1>1, <1>2, <1>3
<1> QED BY <1>4 DEF x

-----------------------------------------------------------------------------
(***************************************************************************)
(* Type correctness                                                        *)
(***************************************************************************)
LEMMA Typed ==
  ASSUME TypeOK
  PROVE  /\ next_packet_ptr \in Ring /\ ERDPT \in Ring /\ ERXRDPT \in Ring /\ ERXWRPT \in Ring
         /\ mem \in [0..(RamSize - 1) -> Bytes] /\ DOMAIN mem = 0..(RamSize - 1)
         /\ frames \in Seq(Records) /\ Len(frames) \in Nat /\ DOMAIN frames = 1..Len(frames)
         /\ \A f \in 1..Len(frames) : frames[f] \in Records
         /\ reading \in Views /\ returned \in Seq(Views)
         /\ read \in Nat /\ EPKTCNT \in Nat
         /\ given \in Seq(TxLengths) /\ Len(given) \in Nat /\ DOMAIN given = 1..Len(given)
<1>1. /\ frames \in Seq(Records) /\ given \in Seq(TxLengths)
      /\ reading \in Views /\ returned \in Seq(Views) /\ mem \in [0..(RamSize - 1) -> Bytes]
      /\ next_packet_ptr \in Ring /\ ERDPT \in Ring /\ ERXRDPT \in Ring /\ ERXWRPT \in Ring
      /\ EPKTCNT \in 0..MaxReceived /\ read \in 0..MaxReceived
  BY DEF TypeOK, Bytes, Records, Views
<1>2. /\ Len(frames) \in Nat /\ DOMAIN frames = 1..Len(frames)
      /\ Len(given) \in Nat /\ DOMAIN given = 1..Len(given)
  BY <1>1, LenProperties
<1>3. \A f \in 1..Len(frames) : frames[f] \in Records
  BY <1>1, ElementOfSeq
<1> QED BY <1>1, <1>2, <1>3, Sizes

(* The conjuncts of TypeOK, for a proof that goes through them. *)
LEMMA TypeParts ==
  /\ pc \in {"idle", "header", "data", "free", "decrement", "request", "check"}
  /\ next_packet_ptr \in Ring /\ ERDPT \in Ring /\ ERXRDPT \in Ring /\ ERXWRPT \in Ring
  /\ EPKTCNT \in 0..MaxReceived /\ read \in 0..MaxReceived
  /\ mem \in [0..(RamSize - 1) -> Bytes] /\ frames \in Seq(Records)
  /\ reading \in Views /\ returned \in Seq(Views)
  /\ tx \in [busy : BOOLEAN, frame : 0..MaxSent, length : 0..NetBufferSize, error : BOOLEAN]
  /\ given \in Seq(TxLengths) /\ wire \in Seq([frame : 0..MaxSent, length : 0..NetBufferSize])
  /\ failed \subseteq 0..MaxSent /\ aborted \subseteq 0..MaxSent
  <=> TypeOK
  BY DEF TypeOK, Bytes, Records, Views

LEMMA OverwrittenTyped ==
  ASSUME mem \in [0..(RamSize - 1) -> Bytes], NEW a, NEW n
  PROVE  /\ Overwritten(a, n) \in [0..(RamSize - 1) -> Bytes]
         /\ \A b \in 0..(RamSize - 1) : Overwritten(a, n)[b] \in {Other, mem[b]}
<1>1. Other \in Bytes
  BY Sizes DEF Other, Cell, Bytes
<1> QED BY <1>1 DEF Overwritten

LEMMA OverwrittenCounted ==
  ASSUME TypeOK, Counted, NEW a, NEW n, mem' = Overwritten(a, n)
  PROVE  \A b \in DOMAIN mem' : mem'[b].frame <= Len(frames)
<1>1. DOMAIN mem' = 0..(RamSize - 1)
  BY Typed, OverwrittenTyped
<1>2. TAKE b \in DOMAIN mem'
<1>3. mem'[b] \in {Other, mem[b]}
  BY <1>1, <1>2, Typed, OverwrittenTyped
<1>4. Other.frame = 0
  BY DEF Other, Cell
<1> QED BY <1>1, <1>2, <1>3, <1>4, Typed DEF Counted

LEMMA InitTyped == Init => TypeInv
<1> SUFFICES ASSUME Init PROVE TypeInv
  OBVIOUS
<1>1. 0 \in Ring /\ 0 \in 0..MaxReceived /\ 0 \in 0..(NetBufferSize - 1) /\ 0 \in 0..NetBufferSize /\ 0 \in 0..MaxSent
  BY Sizes
<1>2. Other \in Bytes /\ Other.frame = 0
  BY <1>1 DEF Other, Cell, Bytes
<1>3. <<>> \in Seq(Records) /\ <<>> \in Seq(Views) /\ <<>> \in Seq(TxLengths)
      /\ <<>> \in Seq([frame : 0..MaxSent, length : 0..NetBufferSize])
  BY EmptySeq
<1>4. mem \in [0..(RamSize - 1) -> Bytes] /\ \A a \in DOMAIN mem : mem[a] = Other
  BY <1>2 DEF Init
<1>5. reading \in Views
  BY <1>1 DEF Init, Views
<1>6. tx \in [busy : BOOLEAN, frame : 0..MaxSent, length : 0..NetBufferSize, error : BOOLEAN] /\ ~tx.busy
  BY <1>1 DEF Init
<1>7. TypeOK
  BY <1>1, <1>3, <1>4, <1>5, <1>6, TypeParts DEF Init
<1>8. Len(<<>>) = 0
  BY EmptySeq
<1>9. Counted
  BY <1>1, <1>2, <1>4, <1>8, Sizes DEF Counted, Init, Reading
<1> QED BY <1>6, <1>7, <1>9 DEF TypeInv, LengthKnown, Init

(* The frame that arrives, and what memory holds then. *)
LEMMA Arrival ==
  ASSUME TypeInv, NEW len \in RxLengths, NEW ok \in BOOLEAN, ChipReceives(len, ok)
  PROVE  LET n == Len(frames) IN
         /\ Total(len) \in Nat /\ 1 <= len /\ HeaderSize + len + CrcSize <= Total(len)
         /\ frames' \in Seq(Records) /\ Len(frames') = n + 1 /\ n + 1 <= MaxReceived
         /\ \A f \in 1..n : frames'[f] = frames[f]
         /\ frames'[n + 1] = [start |-> ERXWRPT, next |-> Ahead(ERXWRPT, Total(len)), length |-> len, ok |-> ok]
         /\ ERXWRPT' = Ahead(ERXWRPT, Total(len)) /\ ERXWRPT' \in Ring
         /\ mem' \in [0..(RamSize - 1) -> Bytes]
         /\ \A a \in Ring : mem'[a] = IF Behind(ERXWRPT, a) < Total(len) THEN Cell(n + 1, Behind(ERXWRPT, a)) ELSE mem[a]
         /\ \A a \in 0..(RamSize - 1) : a \notin Ring => mem'[a] = mem[a]
<1> DEFINE n == Len(frames)
           next == Ahead(ERXWRPT, Total(len))
           r == [start |-> ERXWRPT, next |-> next, length |-> len, ok |-> ok]
<1>0. TypeOK
  BY DEF TypeInv
<1>1. len \in Nat /\ 1 <= len
  BY Sizes
<1>2. Total(len) \in Nat /\ HeaderSize + len + CrcSize <= Total(len)
  BY <1>1, TotalFacts
<1>3. ERXWRPT \in Ring /\ n \in Nat /\ frames \in Seq(Records) /\ mem \in [0..(RamSize - 1) -> Bytes]
  BY <1>0, Typed
<1>4. next \in Ring
  <2>1. ERXWRPT + Total(len) \in Int
    BY <1>2, <1>3, Sizes
  <2>2. (ERXWRPT + Total(len)) % RingSize \in 0..(RingSize - 1)
    BY <2>1, Remainder, Sizes
  <2> QED BY <2>2, Sizes DEF Ahead
<1>5. r \in Records
  BY <1>3, <1>4 DEF Records
<1>6. frames' = Append(frames, r) /\ ERXWRPT' = next
  BY DEF ChipReceives, Ahead
<1> HIDE DEF r
<1>7. frames' \in Seq(Records) /\ Len(frames') = n + 1 /\ (\A f \in 1..n : frames'[f] = frames[f]) /\ frames'[n + 1] = r
  BY <1>3, <1>5, <1>6, AppendProperties
<1>8. n + 1 <= MaxReceived
  BY <1>3, Sizes DEF ChipReceives
<1>9. mem' = [a \in 0..(RamSize - 1) |-> IF a \in Ring /\ Behind(ERXWRPT, a) < Total(len)
                                        THEN Cell(n + 1, Behind(ERXWRPT, a)) ELSE mem[a]]
  BY <1>3 DEF ChipReceives, Behind
<1>10. \A a \in Ring : Behind(ERXWRPT, a) \in Nat
  <2>1. TAKE a \in Ring
  <2>2. Behind(ERXWRPT, a) \in Ring
    BY <1>3, <2>1, BehindIs
  <2> QED BY <2>2, Sizes
<1>11. \A a \in Ring : Cell(n + 1, Behind(ERXWRPT, a)) \in Bytes
  BY <1>3, <1>8, <1>10 DEF Cell, Bytes
<1>12. mem' \in [0..(RamSize - 1) -> Bytes]
  BY <1>3, <1>9, <1>11
<1> QED BY <1>1, <1>2, <1>4, <1>6, <1>7, <1>8, <1>9, <1>12, Sizes DEF r

LEMMA ReceiveTyped ==
  ASSUME TypeInv, NEW len \in RxLengths, NEW ok \in BOOLEAN, ChipReceives(len, ok)
  PROVE  TypeInv'
<1> DEFINE n == Len(frames)
<1>1. TypeOK /\ Counted /\ LengthKnown
  BY DEF TypeInv
<1>2. /\ frames' \in Seq(Records) /\ Len(frames') = n + 1 /\ n + 1 <= MaxReceived
      /\ ERXWRPT' \in Ring /\ mem' \in [0..(RamSize - 1) -> Bytes]
      /\ \A a \in Ring : mem'[a] = IF Behind(ERXWRPT, a) < Total(len) THEN Cell(n + 1, Behind(ERXWRPT, a)) ELSE mem[a]
      /\ \A a \in 0..(RamSize - 1) : a \notin Ring => mem'[a] = mem[a]
  BY Arrival
<1>3. n \in Nat /\ read \in 0..MaxReceived /\ EPKTCNT \in 0..MaxReceived /\ EPKTCNT = n - read
  BY <1>1, Typed, TypeParts DEF Counted
<1>4. EPKTCNT' = n + 1 - read /\ EPKTCNT' \in 0..MaxReceived
  BY <1>2, <1>3, Sizes DEF ChipReceives
<1>5. TypeOK'
  <2>1. UNCHANGED <<pc, next_packet_ptr, ERDPT, ERXRDPT, reading, returned, read, tx, given, wire, failed, aborted>>
    BY DEF ChipReceives, sender
  <2> QED BY <1>1, <1>2, <1>4, <2>1, TypeParts DEF TypeOK, Bytes, Records, Views
<1>6. \A a \in DOMAIN mem' : mem'[a].frame <= n + 1
  <2>1. DOMAIN mem' = 0..(RamSize - 1) /\ DOMAIN mem = 0..(RamSize - 1)
    BY <1>1, <1>2, Typed
  <2>2. TAKE a \in DOMAIN mem'
  <2>3. mem[a].frame <= n /\ mem[a].frame \in Nat
    BY <1>1, <2>1, <2>2, Typed DEF Counted, Bytes
  <2>4. \A k : Cell(n + 1, k).frame = n + 1
    BY DEF Cell
  <2>5. mem'[a] = mem[a] \/ mem'[a].frame = n + 1
    BY <1>2, <2>1, <2>2, <2>4
  <2> QED BY <1>3, <2>3, <2>5
<1>7. Counted'
  <2>1. pc' = pc /\ read' = read /\ given' = given
    BY DEF ChipReceives, sender
  <2>2. Reading => EPKTCNT >= 1
    BY <1>1 DEF Counted
  <2>3. Reading => n + 1 - read >= 1
    BY <1>3, <2>2
  <2> QED BY <1>1, <1>2, <1>3, <1>4, <1>6, <2>1, <2>3 DEF Counted, Reading
<1> QED BY <1>1, <1>5, <1>7 DEF TypeInv, LengthKnown, ChipReceives, sender

(* The header that is read, and the memory it is read from. *)
LEMMA HeaderTyped ==
  ASSUME TypeInv, ReadHeader
  PROVE  TypeInv'
<1> DEFINE f == FrameAt(0, HeaderSize)
<1>1. TypeOK /\ Counted /\ LengthKnown
  BY DEF TypeInv
<1>2. f # 0 => f \in 1..Len(frames)
  <2>1. ERDPT \in 0..(RamSize - 1)
    BY <1>1, Typed, Sizes
  <2>2. mem[ERDPT].frame \in Nat /\ mem[ERDPT].frame <= Len(frames)
    BY <1>1, <2>1, Typed DEF Counted, Bytes
  <2>3. f \in {0, mem[ERDPT].frame}
    BY DEF FrameAt
  <2> HIDE DEF f
  <2> QED BY <1>1, <2>2, <2>3, Typed
<1>3. \A l \in RxLengths : Truncated(l) \in 0..(NetBufferSize - 1)
  BY Sizes DEF Truncated
<1>4. next_packet_ptr' \in Ring /\ reading' \in Views
  <2>1. CASE f # 0
    <3>1. f \in 1..Len(frames) /\ f \in 0..MaxReceived
      BY <1>1, <1>2, <2>1, Typed, Sizes, SMTT(30) DEF Counted
    <3>2. frames[f] \in Records
      BY <1>1, <3>1, Typed
    <3>3. /\ next_packet_ptr' = frames[f].next
          /\ reading' = [frame |-> f, length |-> Truncated(frames[f].length), ok |-> frames[f].ok]
      BY <2>1 DEF ReadHeader
    <3> HIDE DEF f
    <3>4. frames[f].next \in Ring /\ frames[f].length \in RxLengths /\ frames[f].ok \in BOOLEAN
      BY <3>2 DEF Records
    <3> QED BY <1>3, <3>1, <3>3, <3>4 DEF Views
  <2>2. CASE f = 0
    <3>1. next_packet_ptr' \in Ring /\ reading' \in [frame : {0}, length : 0..(NetBufferSize - 1), ok : BOOLEAN]
      BY <2>2 DEF ReadHeader
    <3> QED BY <3>1, Sizes DEF Views
  <2> QED BY <2>1, <2>2
<1>5. ERDPT' \in Ring
  <2>1. ERDPT + HeaderSize \in Int
    BY <1>1, Typed, Sizes DEF HeaderSize
  <2>2. (ERDPT + HeaderSize) % RingSize \in 0..(RingSize - 1)
    BY <2>1, Remainder, Sizes
  <2> QED BY <2>2, Sizes DEF ReadHeader
<1>6. /\ pc = "header" /\ pc' = "data"
      /\ UNCHANGED <<mem, ERXRDPT, ERXWRPT, EPKTCNT, frames, returned, read, tx, given, wire, failed, aborted>>
  BY DEF ReadHeader, sender
<1>7. TypeOK'
  BY <1>1, <1>4, <1>5, <1>6, TypeParts DEF TypeOK, Views
<1>8. Counted' /\ LengthKnown'
  BY <1>1, <1>6 DEF Counted, LengthKnown, Reading
<1> QED BY <1>7, <1>8 DEF TypeInv

LEMMA DataTyped ==
  ASSUME TypeInv, ReadData
  PROVE  TypeInv'
<1>1. TypeOK /\ Counted /\ LengthKnown
  BY DEF TypeInv
<1>2. reading \in Views
  BY <1>1, Typed
<1>3. reading' \in Views
  <2>1. reading' = reading \/ \E g \in {0, reading.frame} : reading' = [reading EXCEPT !.frame = g]
    BY DEF ReadData
  <2>2. 0 \in 0..MaxReceived
    BY Sizes
  <2> QED BY <1>2, <2>1, <2>2 DEF Views
<1>4. /\ pc = "data" /\ pc' = "free"
      /\ UNCHANGED <<mem, next_packet_ptr, ERDPT, ERXRDPT, ERXWRPT, EPKTCNT, frames, returned, read,
                     tx, given, wire, failed, aborted>>
  BY DEF ReadData, sender
<1>5. TypeOK'
  BY <1>1, <1>3, <1>4, TypeParts DEF TypeOK, Views
<1>6. Counted' /\ LengthKnown'
  BY <1>1, <1>4 DEF Counted, LengthKnown, Reading
<1> QED BY <1>5, <1>6 DEF TypeInv

LEMMA DecrementTyped ==
  ASSUME TypeInv, Decrement
  PROVE  TypeInv'
<1>1. TypeOK /\ Counted /\ LengthKnown
  BY DEF TypeInv
<1>2. /\ reading \in Views /\ returned \in Seq(Views) /\ Len(frames) \in Nat
      /\ read \in 0..MaxReceived /\ EPKTCNT \in 0..MaxReceived
  BY <1>1, Typed, TypeParts
<1>3. EPKTCNT = Len(frames) - read /\ EPKTCNT >= 1 /\ Len(frames) <= MaxReceived
  BY <1>1 DEF Counted, Decrement, Reading
<1>4. /\ pc = "decrement" /\ pc' = "idle" /\ EPKTCNT' = EPKTCNT - 1 /\ read' = read + 1
      /\ returned' \in {returned, Append(returned, reading)}
      /\ UNCHANGED <<mem, next_packet_ptr, ERDPT, ERXRDPT, ERXWRPT, frames, reading,
                     tx, given, wire, failed, aborted>>
  BY DEF Decrement, sender
<1>5. returned' \in Seq(Views)
  BY <1>2, <1>4, AppendProperties
<1>6. EPKTCNT' \in 0..MaxReceived /\ read' \in 0..MaxReceived /\ EPKTCNT' = Len(frames') - read'
  BY <1>2, <1>3, <1>4, Sizes
<1>7. TypeOK'
  BY <1>1, <1>4, <1>5, <1>6, TypeParts DEF TypeOK, Views
<1>8. Counted' /\ LengthKnown'
  BY <1>1, <1>4, <1>6 DEF Counted, LengthKnown, Reading
<1> QED BY <1>7, <1>8 DEF TypeInv

(* The steps that only move pointers and the driver. *)
LEMMA PointersTyped ==
  ASSUME TypeInv, PacketReceive \/ Free
  PROVE  TypeInv'
<1>1. TypeOK /\ Counted /\ LengthKnown
  BY DEF TypeInv
<1>2. ERDPT' \in Ring /\ ERXRDPT' \in Ring
  BY <1>1, Typed DEF PacketReceive, Free, Freed
<1>3. EPKTCNT \in Nat
  BY <1>1, Typed
<1>4. /\ pc' \in {"header", "decrement"} /\ ((pc = "idle" /\ EPKTCNT # 0) \/ pc = "free")
      /\ UNCHANGED <<mem, next_packet_ptr, ERXWRPT, EPKTCNT, frames, reading, returned, read,
                     tx, given, wire, failed, aborted>>
  BY DEF PacketReceive, PacketWaiting, Free, sender
<1>5. TypeOK'
  BY <1>1, <1>2, <1>4, TypeParts DEF TypeOK
<1>6. EPKTCNT >= 1
  BY <1>1, <1>3, <1>4 DEF Counted, Reading
<1>7. Counted' /\ LengthKnown'
  BY <1>1, <1>4, <1>6 DEF Counted, LengthKnown, Reading
<1> QED BY <1>5, <1>7 DEF TypeInv

LEMMA SendTyped ==
  ASSUME TypeInv, NEW len \in TxLengths, PacketSend(len)
  PROVE  TypeInv'
<1>1. TypeOK /\ Counted /\ LengthKnown
  BY DEF TypeInv
<1>2. given \in Seq(TxLengths) /\ Len(given) \in Nat /\ mem \in [0..(RamSize - 1) -> Bytes]
  BY <1>1, Typed
<1>3. /\ pc = "idle" /\ pc' = "request" /\ Len(given) < MaxSent
      /\ given' = Append(given, len) /\ mem' = Overwritten(TXSTART_INIT, len + 1)
      /\ tx' = [tx EXCEPT !.length = len, !.frame = IF tx.busy THEN 0 ELSE @]
      /\ UNCHANGED <<next_packet_ptr, ERDPT, ERXRDPT, ERXWRPT, EPKTCNT, frames, reading, returned, read,
                     wire, failed, aborted>>
  BY DEF PacketSend, SentLength, receiver
<1>4. given' \in Seq(TxLengths) /\ Len(given') = Len(given) + 1
  BY <1>2, <1>3, AppendProperties
<1>5. Len(given') <= MaxSent
  BY <1>2, <1>3, <1>4, Sizes
<1>6. mem' \in [0..(RamSize - 1) -> Bytes]
  BY <1>2, <1>3, OverwrittenTyped
<1>7. tx \in [busy : BOOLEAN, frame : 0..MaxSent, length : 0..NetBufferSize, error : BOOLEAN]
  BY <1>1, TypeParts
<1>8. /\ tx' \in [busy : BOOLEAN, frame : 0..MaxSent, length : 0..NetBufferSize, error : BOOLEAN]
      /\ tx'.length = len
  <2>1. len \in 0..NetBufferSize /\ 0 \in 0..MaxSent
    BY Sizes
  <2> QED BY <1>3, <1>7, <2>1
<1>9. TypeOK'
  BY <1>1, <1>3, <1>4, <1>6, <1>8, TypeParts DEF TypeOK, Bytes
<1>10. \A a \in DOMAIN mem' : mem'[a].frame <= Len(frames)
  BY <1>1, <1>3, OverwrittenCounted
<1>11. Counted'
  BY <1>1, <1>3, <1>5, <1>10 DEF Counted, Reading
<1> QED BY <1>8, <1>9, <1>11 DEF TypeInv, LengthKnown

LEMMA RequestTyped ==
  ASSUME TypeInv, Request \/ CheckError
  PROVE  TypeInv'
<1>1. TypeOK /\ Counted /\ LengthKnown
  BY DEF TypeInv
<1>2. /\ tx \in [busy : BOOLEAN, frame : 0..MaxSent, length : 0..NetBufferSize, error : BOOLEAN]
      /\ aborted \subseteq 0..MaxSent /\ Len(given) \in Nat
  BY <1>1, Typed, TypeParts
<1>3. Len(given) \in 0..MaxSent
  BY <1>1, <1>2, Sizes DEF Counted
<1>4. /\ tx' \in [busy : BOOLEAN, frame : 0..MaxSent, length : 0..NetBufferSize, error : BOOLEAN]
      /\ tx'.length = tx.length
      /\ aborted' \subseteq 0..MaxSent
      /\ tx'.busy => tx.busy \/ pc = "request"
  <2>1. CASE Request
    BY <1>2, <1>3, <2>1 DEF Request
  <2>2. CASE CheckError
    BY <1>2, <2>2 DEF CheckError
  <2> QED BY <2>1, <2>2
<1>5. /\ pc \in {"request", "check"} /\ pc' \in {"check", "idle"}
      /\ UNCHANGED <<mem, next_packet_ptr, ERDPT, ERXRDPT, ERXWRPT, EPKTCNT, frames, reading, returned, read,
                     given, wire, failed>>
  BY DEF Request, CheckError, receiver
<1>6. TypeOK'
  BY <1>1, <1>4, <1>5, TypeParts DEF TypeOK
<1>7. Counted' /\ LengthKnown'
  BY <1>1, <1>4, <1>5 DEF Counted, LengthKnown, Reading
<1> QED BY <1>6, <1>7 DEF TypeInv

LEMMA TransmitTyped ==
  ASSUME TypeInv, ChipTransmits
  PROVE  TypeInv'
<1>1. TypeOK /\ Counted /\ LengthKnown
  BY DEF TypeInv
<1> DEFINE sent == [frame |-> tx.frame, length |-> tx.length]
<1>2. /\ tx \in [busy : BOOLEAN, frame : 0..MaxSent, length : 0..NetBufferSize, error : BOOLEAN]
      /\ wire \in Seq([frame : 0..MaxSent, length : 0..NetBufferSize]) /\ failed \subseteq 0..MaxSent
      /\ mem \in [0..(RamSize - 1) -> Bytes]
  BY <1>1, TypeParts
<1>3. sent \in [frame : 0..MaxSent, length : 0..NetBufferSize]
  BY <1>2
<1>4. /\ mem' = Overwritten(TXSTART_INIT + tx.length + 1, StatusSize)
      /\ wire' \in {wire, Append(wire, sent)} /\ failed' \in {failed, failed \cup {tx.frame}}
      /\ tx' \in {[tx EXCEPT !.busy = FALSE], [tx EXCEPT !.busy = FALSE, !.error = TRUE]}
      /\ UNCHANGED <<pc, next_packet_ptr, ERDPT, ERXRDPT, ERXWRPT, EPKTCNT, frames, reading, returned, read,
                     given, aborted>>
  BY DEF ChipTransmits, receiver
<1> HIDE DEF sent
<1>5. wire' \in Seq(Sent)
  <2>1. wire \in Seq(Sent) /\ sent \in Sent
    BY <1>2, <1>3 DEF Sent
  <2>2. Append(wire, sent) \in Seq(Sent)
    BY <2>1, AppendProperties
  <2> QED BY <1>4, <2>1, <2>2
<1>6. /\ tx' \in [busy : BOOLEAN, frame : 0..MaxSent, length : 0..NetBufferSize, error : BOOLEAN]
      /\ tx'.length = tx.length
      /\ failed' \subseteq 0..MaxSent
  BY <1>2, <1>4
<1>7. mem' \in [0..(RamSize - 1) -> Bytes] /\ \A a \in DOMAIN mem' : mem'[a].frame <= Len(frames)
  BY <1>1, <1>2, <1>4, OverwrittenTyped, OverwrittenCounted
<1>8. TypeOK'
  BY <1>1, <1>4, <1>5, <1>6, <1>7, TypeParts DEF TypeOK, Bytes, Sent
<1>9. Counted' /\ LengthKnown'
  BY <1>1, <1>4, <1>6, <1>7 DEF Counted, LengthKnown, Reading, ChipTransmits
<1> QED BY <1>8, <1>9 DEF TypeInv

LEMMA NextTyped == TypeInv /\ [Next]_vars => TypeInv'
<1> SUFFICES ASSUME TypeInv, [Next]_vars PROVE TypeInv'
  OBVIOUS
<1>1. CASE \E len \in RxLengths, ok \in BOOLEAN : ChipReceives(len, ok)
  BY <1>1, ReceiveTyped
<1>2. CASE \E len \in TxLengths : PacketSend(len)
  BY <1>2, SendTyped
<1>3. CASE Driver
  BY <1>3, PointersTyped, HeaderTyped, DataTyped, DecrementTyped, RequestTyped DEF Driver
<1>4. CASE ChipTransmits
  BY <1>4, TransmitTyped
<1>5. CASE UNCHANGED vars
  BY <1>5, TypeParts DEF TypeInv, TypeOK, Counted, LengthKnown, Reading, vars, receiver, sender
<1> QED BY <1>1, <1>2, <1>3, <1>4, <1>5 DEF Next

(* The state keeps its types; the frames the driver reads never exceed     *)
(* those that the chip has kept, so EPKTCNT does not wrap around at zero.  *)
THEOREM TypeCorrect == Spec => []TypeOK
<1>1. TypeInv => TypeOK
  BY DEF TypeInv
<1> QED BY InitTyped, NextTyped, <1>1, PTL DEF Spec

-----------------------------------------------------------------------------
(***************************************************************************)
(* The frames that were not read stay in memory                            *)
(***************************************************************************)

(* The frame and the status vector behind it fit the transmitter's part of *)
(* the memory.                                                             *)
StatusFits == \A len \in TxLengths : len + 1 + StatusSize <= NetBufferSize

(* What the invariant says of the frames that are kept. *)
LEMMA Kept ==
  ASSUME TypeInv, Chained
  PROVE  LET n == Len(frames)
             At(f) == Behind(ERXRDPT, StartOf(f)) IN
         /\ n \in Nat /\ read \in 0..n /\ FirstKept \in 1..(n + 1)
         /\ Reading => read + 1 \in 1..n
         /\ \A f \in 1..(n + 1) : StartOf(f) \in Ring /\ At(f) \in Ring
         /\ StartOf(n + 1) = ERXWRPT
         /\ \A f \in 1..n : Size(f) \in Nat /\ HeaderSize + frames[f].length + CrcSize <= Size(f)
         /\ \A f \in FirstKept..n :
              /\ At(f) + Size(f) = At(f + 1) /\ At(f + 1) <= At(n + 1)
              /\ Size(f) < RingSize
<1> DEFINE n == Len(frames)
           At(f) == Behind(ERXRDPT, StartOf(f))
<1>1. TypeOK /\ Counted
  BY DEF TypeInv
<1>2. /\ n \in Nat /\ ERXRDPT \in Ring /\ ERXWRPT \in Ring /\ read \in Nat /\ EPKTCNT \in Nat
      /\ \A f \in 1..n : frames[f] \in Records
  BY <1>1, Typed
<1>3. EPKTCNT = n - read /\ (Reading => EPKTCNT >= 1)
  BY <1>1 DEF Counted
<1>4. read \in 0..n /\ (Reading => read + 1 \in 1..n)
  BY <1>2, <1>3
<1>5. FirstKept \in 1..(n + 1)
  BY <1>2, <1>4 DEF FirstKept, Reading
<1>6. \A f \in 1..(n + 1) : StartOf(f) \in Ring /\ At(f) \in Ring
  <2>1. \A f \in 1..n : frames[f].start \in Ring
    BY <1>2 DEF Records
  <2>2. \A f \in 1..(n + 1) : StartOf(f) \in Ring
    BY <1>2, <2>1 DEF StartOf
  <2> QED BY <1>2, <2>2, BehindIs
<1>7. StartOf(n + 1) = ERXWRPT
  BY <1>2 DEF StartOf
<1>8. \A f \in 1..n : Size(f) \in Nat /\ HeaderSize + frames[f].length + CrcSize <= Size(f)
  <2>1. TAKE f \in 1..n
  <2>2. frames[f].length \in RxLengths
    BY <1>2, <2>1 DEF Records
  <2>3. \A l \in RxLengths : l \in Nat
    BY Sizes
  <2>4. frames[f].length \in Nat
    BY <2>2, <2>3
  <2> QED BY <2>4, TotalFacts DEF Size
<1>9. ASSUME NEW f \in FirstKept..n
      PROVE  At(f) + Size(f) = At(f + 1) /\ At(f + 1) <= At(n + 1) /\ Size(f) < RingSize
  <2>1. f \in 1..n /\ f + 1 \in 1..(n + 1) /\ n + 1 \in (f + 1)..(n + 1)
    BY <1>2, <1>5
  <2>2. At(f) + Size(f) = At(f + 1) /\ At(f + 1) <= At(n + 1)
    BY <2>1 DEF Chained
  <2>3. At(f) \in Ring /\ At(f + 1) \in Ring /\ Size(f) \in Nat
    BY <1>6, <1>8, <2>1
  <2> HIDE DEF At
  <2>4. Size(f) < RingSize
    BY <2>2, <2>3, Sizes
  <2> QED BY <2>2, <2>4
<1> HIDE DEF n
<1> QED BY <1>2, <1>4, <1>5, <1>6, <1>7, <1>8, <1>9 DEF n

(* The bytes of a kept frame lie before the place where the chip writes. *)
LEMMA KeptBytes ==
  ASSUME TypeInv, Chained, NEW f \in FirstKept..Len(frames), NEW k \in 0..(Size(f) - 1)
  PROVE  LET a == Ahead(StartOf(f), k) IN
         /\ a \in Ring /\ k \in Ring
         /\ Behind(ERXRDPT, a) < Behind(ERXRDPT, ERXWRPT)
<1> DEFINE n == Len(frames)
           p == ERXRDPT
           s == StartOf(f)
           a == Ahead(s, k)
           b == Behind(p, s)
<1>1. /\ n \in Nat /\ f \in FirstKept..n /\ FirstKept \in 1..(n + 1)
      /\ \A g \in 1..(n + 1) : StartOf(g) \in Ring /\ Behind(p, StartOf(g)) \in Ring
      /\ StartOf(n + 1) = ERXWRPT
      /\ \A g \in 1..n : Size(g) \in Nat
      /\ \A g \in FirstKept..n : /\ Behind(p, StartOf(g)) + Size(g) = Behind(p, StartOf(g + 1))
                                 /\ Behind(p, StartOf(g + 1)) <= Behind(p, StartOf(n + 1))
                                 /\ Size(g) < RingSize
  BY Kept
<1>2. f \in 1..n /\ f \in 1..(n + 1) /\ f + 1 \in 1..(n + 1) /\ n + 1 \in 1..(n + 1)
  BY <1>1
<1>3. /\ s \in Ring /\ b \in Ring /\ Size(f) \in Nat /\ Size(f) < RingSize
      /\ Behind(p, ERXWRPT) \in Ring /\ b + Size(f) <= Behind(p, ERXWRPT)
  BY <1>1, <1>2
<1>4. p \in Ring
  BY Typed DEF TypeInv
<1> HIDE DEF p, s
<1>5. k \in Ring
  BY <1>3, Sizes
<1>6. a \in Ring
  BY <1>3, <1>5, AheadIs
<1>7. b + k < RingSize => Behind(p, a) = b + k
  BY <1>3, <1>4, <1>5, AheadBehind
<1> HIDE DEF a, b
<1>8. Behind(p, a) < Behind(p, ERXWRPT)
  BY <1>3, <1>5, <1>7, Sizes
<1> QED BY <1>5, <1>6, <1>8 DEF a, s, p

LEMMA SpaceIs ==
  ASSUME TypeInv
  PROVE  Space = RingSize - 1 - Behind(ERXRDPT, ERXWRPT)
<1>1. ERXRDPT \in Ring /\ ERXWRPT \in Ring
  BY Typed DEF TypeInv
<1>2. Behind(ERXRDPT, ERXWRPT) =
        IF ERXRDPT <= ERXWRPT THEN ERXWRPT - ERXRDPT ELSE ERXWRPT + RingSize - ERXRDPT
  BY <1>1, BehindIs
<1>3. CASE ERXWRPT > ERXRDPT
  <2>1. Space = (RingSize - 1) - (ERXWRPT - ERXRDPT)
    BY <1>1, <1>3, Sizes DEF Space
  <2> QED BY <1>1, <1>2, <1>3, <2>1, Sizes
<1>4. CASE ERXWRPT = ERXRDPT
  <2>1. Space = RingSize - 1
    BY <1>1, <1>4, Sizes DEF Space
  <2> QED BY <1>1, <1>2, <1>4, <2>1, Sizes
<1>5. CASE ERXWRPT < ERXRDPT
  <2>1. Space = ERXRDPT - ERXWRPT - 1
    BY <1>1, <1>5, Sizes DEF Space
  <2> QED BY <1>1, <1>2, <1>5, <2>1, Sizes
<1> QED BY <1>1, <1>3, <1>4, <1>5, Sizes

(* A step that does not touch the ring leaves the frames where they are. *)
LEMMA RingUntouched ==
  ASSUME TypeInv, Chained, Stored, TypeInv',
         frames' = frames, ERXWRPT' = ERXWRPT, ERXRDPT' = ERXRDPT,
         FirstKept' = FirstKept, \A a \in Ring : mem'[a] = mem[a]
  PROVE  /\ \A f : StartOf(f)' = StartOf(f) /\ Size(f)' = Size(f)
         /\ Chained' /\ Stored'
<1>1. \A f : StartOf(f)' = StartOf(f) /\ Size(f)' = Size(f)
  BY DEF StartOf, Size
<1>2. Chained'
  BY <1>1 DEF Chained
<1>3. Stored'
  <2> SUFFICES ASSUME NEW f \in FirstKept..Len(frames), NEW k \in 0..(Size(f) - 1)
               PROVE  mem'[Ahead(StartOf(f), k)] = Cell(f, k)
    BY <1>1 DEF Stored
  <2>1. Ahead(StartOf(f), k) \in Ring
    BY KeptBytes
  <2> QED BY <2>1 DEF Stored
<1> QED BY <1>1, <1>2, <1>3

LEMMA InitRing == Init => RingInv
<1> SUFFICES ASSUME Init PROVE RingInv
  OBVIOUS
<1>1. TypeInv
  BY InitTyped
<1>2. pc = "idle" /\ Len(frames) = 0 /\ read = 0 /\ ERXWRPT = 0 /\ ERXRDPT = 0 /\ next_packet_ptr = 0
  BY EmptySeq DEF Init
<1>3. FirstKept = 1 /\ 1..0 = {} /\ StartOf(1) = 0
  BY <1>2 DEF FirstKept, StartOf
<1>4. Chained /\ Stored
  BY <1>2, <1>3 DEF Chained, Stored
<1>5. Located
  BY <1>2, <1>3 DEF Located
<1> QED BY <1>1, <1>4, <1>5 DEF RingInv

LEMMA ReceiveRing ==
  ASSUME RingInv, NEW len \in RxLengths, NEW ok \in BOOLEAN, ChipReceives(len, ok)
  PROVE  RingInv'
<1>n. PICK n \in Nat : n = Len(frames)
  BY Typed DEF RingInv, TypeInv
<1> DEFINE p == ERXRDPT
           w == ERXWRPT
           d == Behind(p, w)
           T == Total(len)
           v == Ahead(w, T)
<1>1. TypeInv /\ Chained /\ Stored /\ Located /\ TypeOK
  BY DEF RingInv, TypeInv
<1>2. TypeInv'
  BY <1>1, ReceiveTyped
<1>3. /\ T \in Nat /\ 1 <= T
      /\ Len(frames') = n + 1 /\ (\A f \in 1..n : frames'[f] = frames[f])
      /\ frames'[n + 1] = [start |-> w, next |-> v, length |-> len, ok |-> ok]
      /\ ERXWRPT' = v /\ v \in Ring
      /\ \A a \in Ring : mem'[a] = IF Behind(w, a) < T THEN Cell(n + 1, Behind(w, a)) ELSE mem[a]
  <2>1. /\ T \in Nat /\ 1 <= len /\ HeaderSize + len + CrcSize <= T
        /\ Len(frames') = n + 1 /\ (\A f \in 1..n : frames'[f] = frames[f])
        /\ frames'[n + 1] = [start |-> w, next |-> v, length |-> len, ok |-> ok]
        /\ ERXWRPT' = v /\ v \in Ring
        /\ \A a \in Ring : mem'[a] = IF Behind(w, a) < T THEN Cell(n + 1, Behind(w, a)) ELSE mem[a]
    BY <1>1, <1>n, Arrival
  <2>2. len \in Nat
    BY Sizes
  <2> HIDE DEF T, v
  <2>3. 1 <= T
    BY <2>1, <2>2 DEF HeaderSize, CrcSize
  <2> QED BY <2>1, <2>3
<1>4. /\ UNCHANGED <<pc, next_packet_ptr, ERDPT, ERXRDPT, reading, returned, read>>
      /\ T <= Space
  BY DEF ChipReceives
<1>5. FirstKept' = FirstKept
  BY <1>4 DEF FirstKept
<1>6. /\ n \in Nat /\ read \in 0..n /\ FirstKept \in 1..(n + 1) /\ (Reading => read + 1 \in 1..n)
      /\ \A f \in 1..(n + 1) : StartOf(f) \in Ring /\ Behind(p, StartOf(f)) \in Ring
      /\ StartOf(n + 1) = w
      /\ \A f \in FirstKept..n : Behind(p, StartOf(f + 1)) <= d
  BY <1>1, <1>n, Kept
<1>7. p \in Ring /\ w \in Ring /\ d \in Ring
  <2>1. p \in Ring /\ w \in Ring
    BY <1>1, Typed
  <2> QED BY <2>1, BehindIs
<1>8. T <= RingSize - 1 - d
  BY <1>1, <1>4, SpaceIs
<1>9. T \in Ring /\ d + T < RingSize
  <2> HIDE DEF T, d
  <2> QED BY <1>3, <1>7, <1>8, Sizes
<1>10. Behind(p, v) = d + T
  BY <1>7, <1>9, AheadBehind
<1>11. /\ \A f \in 1..(n + 1) : StartOf(f)' = StartOf(f)
       /\ StartOf(n + 2)' = v
       /\ \A f \in 1..n : Size(f)' = Size(f)
       /\ Size(n + 1)' = T
  <2> HIDE DEF T, v
  <2>1. \A f \in 1..n : StartOf(f)' = StartOf(f)
    BY <1>3, <1>6, <1>n DEF StartOf
  <2>2. StartOf(n + 1)' = w
    BY <1>3, <1>6, <1>n DEF StartOf
  <2>3. StartOf(n + 2)' = v
    BY <1>3, <1>6, <1>n DEF StartOf
  <2>4. \A f \in 1..(n + 1) : f \in 1..n \/ f = n + 1
    BY <1>6
  <2>5. \A f \in 1..n : Size(f)' = Size(f)
    BY <1>3 DEF Size
  <2>6. Size(n + 1)' = T
    BY <1>3 DEF Size, T
  <2> QED BY <1>6, <2>1, <2>2, <2>3, <2>4, <2>5, <2>6
<1>12. Chained'
  <2> DEFINE At(f) == Behind(p, StartOf(f))
             New(f) == Behind(p, StartOf(f)')
  <2>1. \A f \in 1..(n + 1) : New(f) = At(f) /\ At(f) \in Nat
    BY <1>6, <1>11, Sizes
  <2>2. New(n + 2) = d + T /\ At(n + 1) = d /\ New(n + 1) = d /\ d \in Nat
    BY <1>6, <1>7, <1>10, <1>11, <2>1, Sizes
  <2>3. StartOf(FirstKept)' = ERXRDPT'
    BY <1>1, <1>4, <1>5, <1>6, <1>11 DEF Chained
  <2>4. ASSUME NEW f \in FirstKept..(n + 1)
        PROVE  /\ frames'[f].next = StartOf(f + 1)'
               /\ New(f) + Size(f)' = New(f + 1)
               /\ \A g \in (f + 1)..(n + 2) : New(f + 1) <= New(g)
    <3>1. CASE f \in 1..n
      <4>1. f + 1 \in 1..(n + 1) /\ f \in 1..(n + 1) /\ f \in FirstKept..n
        BY <1>6, <2>4, <3>1
      <4>2. frames[f].next = StartOf(f + 1) /\ At(f) + Size(f) = At(f + 1)
            /\ \A g \in (f + 1)..(n + 1) : At(f + 1) <= At(g)
        BY <1>1, <1>n, <4>1 DEF Chained
      <4>3. At(f + 1) <= d
        BY <1>6, <4>1
      <4> HIDE DEF At, New, T, d
      <4>4. \A g \in (f + 1)..(n + 2) : New(f + 1) <= New(g)
        <5>1. TAKE g \in (f + 1)..(n + 2)
        <5>2. g \in (f + 1)..(n + 1) \/ g = n + 2
          BY <1>6, <4>1, <5>1
        <5>3. New(f + 1) = At(f + 1) /\ At(f + 1) \in Nat
          BY <2>1, <4>1
        <5>4. CASE g \in (f + 1)..(n + 1)
          <6>1. g \in 1..(n + 1)
            BY <1>6, <4>1, <5>4
          <6> QED BY <2>1, <4>2, <5>3, <5>4, <6>1
        <5>5. CASE g = n + 2
          BY <1>3, <2>2, <4>3, <5>3, <5>5
        <5> QED BY <5>2, <5>4, <5>5
      <4> QED BY <1>3, <1>11, <2>1, <3>1, <4>1, <4>2, <4>4
    <3>2. CASE f = n + 1
      <4>1. frames'[f].next = v
        BY <1>3, <3>2
      <4> HIDE DEF At, New, T, d, v
      <4>2. f + 1 = n + 2 /\ (\A g \in (f + 1)..(n + 2) : g = n + 2) /\ d + T \in Nat
        BY <1>3, <1>6, <2>2, <3>2
      <4> QED BY <1>11, <2>2, <3>2, <4>1, <4>2
    <3>3. f \in 1..n \/ f = n + 1
      BY <1>6, <2>4
    <3> QED BY <3>1, <3>2, <3>3
  <2>5. Len(frames') = n + 1 /\ n + 1 + 1 = n + 2
    BY <1>3, <1>6
  <2> QED BY <1>4, <1>5, <2>3, <2>4, <2>5 DEF Chained
<1>13. Stored'
  <2> SUFFICES ASSUME NEW f \in FirstKept..(n + 1), NEW k \in 0..(Size(f)' - 1)
               PROVE  mem'[Ahead(StartOf(f)', k)] = Cell(f, k)
    BY <1>3, <1>5 DEF Stored
  <2>1. f \in 1..n \/ f = n + 1
    BY <1>6
  <2>2. CASE f \in 1..n
    <3> DEFINE a == Ahead(StartOf(f), k)
    <3>1. f \in FirstKept..n /\ f \in 1..(n + 1)
      BY <1>6, <2>2
    <3>2. k \in 0..(Size(f) - 1) /\ StartOf(f)' = StartOf(f)
      BY <1>11, <2>2, <3>1
    <3>3. a \in Ring /\ Behind(p, a) < d
      BY <1>1, <1>n, <3>1, <3>2, KeptBytes
    <3>4. mem[a] = Cell(f, k)
      BY <1>1, <1>n, <3>1, <3>2 DEF Stored
    <3>5. Behind(p, a) \in Ring
      BY <1>7, <3>3, BehindIs
    <3>6. Behind(w, a) = IF d <= Behind(p, a) THEN Behind(p, a) - d ELSE Behind(p, a) - d + RingSize
      BY <1>7, <3>3, SeenFrom
    <3>7. ~(Behind(w, a) < T)
      <4> DEFINE x == Behind(p, a)
                 y == Behind(w, a)
      <4>1. x \in Ring /\ x < d /\ y = IF d <= x THEN x - d ELSE x - d + RingSize
        BY <3>3, <3>5, <3>6
      <4> HIDE DEF x, y, d, T
      <4>2. ~(y < T)
        BY <1>3, <1>7, <1>9, <4>1, Sizes
      <4> QED BY <4>2 DEF y
    <3> HIDE DEF a
    <3>8. mem'[a] = mem[a]
      BY <1>3, <3>3, <3>7
    <3> QED BY <3>2, <3>4, <3>8 DEF a
  <2>3. CASE f = n + 1
    <3> DEFINE a == Ahead(w, k)
    <3>1. StartOf(f)' = w /\ k \in 0..(T - 1)
      <4>1. n + 1 \in 1..(n + 1)
        BY <1>6
      <4> QED BY <1>6, <1>11, <2>3, <4>1
    <3>2. k \in Ring /\ k < T
      <4> HIDE DEF T
      <4> QED BY <1>3, <1>9, <3>1, Sizes
    <3>3. a \in Ring /\ Behind(w, a) = k
      BY <1>7, <3>2, AheadIs, AheadBehind
    <3>4. mem'[a] = Cell(n + 1, k)
      <4> HIDE DEF a, T
      <4> QED BY <1>3, <3>2, <3>3
    <3> QED BY <2>3, <3>1, <3>4
  <2> QED BY <2>1, <2>2, <2>3
<1>14. Located'
  <2>1. PICK r : r = read
    OBVIOUS
  <2>2. read' = r /\ r \in 0..n /\ (Reading => r + 1 \in 1..n)
    BY <1>4, <1>6, <2>1
  <2>3. StartOf(r + 1)' = StartOf(r + 1)
    BY <1>6, <1>11, <2>2
  <2>4. ASSUME Reading PROVE StartOf(r + 2)' = StartOf(r + 2) /\ frames'[r + 1] = frames[r + 1]
    <3>1. r + 2 \in 1..(n + 1) /\ r + 1 \in 1..n
      BY <2>2, <2>4
    <3> QED BY <1>3, <1>11, <3>1
  <2> QED BY <1>1, <1>4, <2>1, <2>2, <2>3, <2>4 DEF Located, Reading
<1> QED BY <1>2, <1>12, <1>13, <1>14 DEF RingInv

(* What the driver reads of a frame that is in memory. *)
LEMMA FrameFound ==
  ASSUME TypeInv, Chained, Stored, pc \in {"header", "data"},
         NEW k \in Nat, NEW m \in Nat, ERDPT = Ahead(StartOf(read + 1), k),
         k < Size(read + 1), k + m <= Size(read + 1)
  PROVE  FrameAt(k, m) = read + 1
<1> DEFINE f == read + 1
           s == StartOf(f)
<1>1. /\ read \in Nat /\ f \in 1..Len(frames) /\ f \in FirstKept..Len(frames) /\ FirstKept = f
      /\ s \in Ring /\ Size(f) \in Nat /\ Size(f) < RingSize
  BY Kept DEF FirstKept, Reading
<1>2. \A i \in 0..(Size(f) - 1) : mem[Ahead(s, i)] = Cell(f, i)
  BY <1>1 DEF Stored
<1> HIDE DEF f, s
<1>3. ERDPT = Ahead(s, k) /\ k < Size(f) /\ k + m <= Size(f) /\ f # 0
  BY <1>1 DEF f, s
<1>4. mem[ERDPT].frame = f
  <2>1. k \in 0..(Size(f) - 1)
    BY <1>1, <1>3
  <2>2. mem[ERDPT] = Cell(f, k)
    BY <1>2, <1>3, <2>1
  <2> QED BY <2>2 DEF Cell
<1>5. ASSUME NEW i \in 0..(m - 1) PROVE mem[(ERDPT + i) % RingSize] = Cell(f, k + i)
  <2>1. i \in Nat /\ k + i < RingSize /\ k + i \in 0..(Size(f) - 1)
    BY <1>1, <1>3, <1>5, Sizes
  <2>2. Ahead(ERDPT, i) = Ahead(s, k + i)
    BY <1>1, <1>3, <2>1, AheadTwice
  <2>3. mem[Ahead(ERDPT, i)] = Cell(f, k + i)
    BY <1>2, <2>1, <2>2
  <2> QED BY <2>3 DEF Ahead
<1>6. FrameAt(k, m) = f
  BY <1>3, <1>4, <1>5 DEF FrameAt
<1> QED BY <1>6 DEF f

LEMMA PacketReceiveRing ==
  ASSUME RingInv, PacketReceive
  PROVE  RingInv'
<1>1. TypeInv /\ Chained /\ Stored /\ Located
  BY DEF RingInv
<1>2. /\ pc = "idle" /\ pc' = "header" /\ ERDPT' = next_packet_ptr
      /\ UNCHANGED <<mem, next_packet_ptr, ERXRDPT, ERXWRPT, frames, reading, read>>
  BY DEF PacketReceive
<1>3. TypeInv' /\ FirstKept' = FirstKept
  BY <1>1, <1>2, PointersTyped DEF FirstKept
<1>4. (\A f : StartOf(f)' = StartOf(f)) /\ Chained' /\ Stored'
  BY <1>1, <1>2, <1>3, RingUntouched
<1>5. PICK r : r = read
  OBVIOUS
<1>6. Located'
  BY <1>1, <1>2, <1>4, <1>5 DEF Located
<1> QED BY <1>3, <1>4, <1>6 DEF RingInv

LEMMA HeaderRing ==
  ASSUME RingInv, ReadHeader
  PROVE  RingInv'
<1>1. TypeInv /\ Chained /\ Stored /\ Located
  BY DEF RingInv
<1>2. /\ pc = "header" /\ pc' = "data" /\ ERDPT' = Ahead(ERDPT, HeaderSize)
      /\ UNCHANGED <<mem, ERXRDPT, ERXWRPT, frames, read>>
  BY DEF ReadHeader, Ahead
<1>3. TypeInv' /\ FirstKept' = FirstKept
  BY <1>1, <1>2, HeaderTyped DEF FirstKept
<1>4. (\A f : StartOf(f)' = StartOf(f)) /\ Chained' /\ Stored'
  BY <1>1, <1>2, <1>3, RingUntouched
<1>5. PICK r : r = read
  OBVIOUS
<1>6. /\ r \in Nat /\ r + 1 \in 1..Len(frames) /\ FirstKept = r + 1 /\ StartOf(r + 1) \in Ring
      /\ frames[r + 1].next = StartOf(r + 2)
      /\ Size(r + 1) \in Nat /\ HeaderSize + frames[r + 1].length + CrcSize <= Size(r + 1)
  <2>1. /\ r \in Nat /\ r + 1 \in 1..Len(frames) /\ StartOf(r + 1) \in Ring
        /\ Size(r + 1) \in Nat /\ HeaderSize + frames[r + 1].length + CrcSize <= Size(r + 1)
    BY <1>1, <1>2, <1>5, Kept DEF Reading
  <2>2. FirstKept = r + 1
    BY <1>2, <1>5 DEF FirstKept
  <2>3. frames[r + 1].next = StartOf(r + 1 + 1) /\ r + 1 + 1 = r + 2
    BY <1>1, <2>1, <2>2 DEF Chained
  <2> QED BY <2>1, <2>2, <2>3
<1>7. frames[r + 1].length \in Nat
  <2>1. frames[r + 1] \in Records
    BY <1>1, <1>6, Typed DEF TypeInv
  <2>2. frames[r + 1].length \in RxLengths
    BY <2>1 DEF Records
  <2>3. \A l \in RxLengths : l \in Nat
    BY Sizes
  <2> QED BY <2>2, <2>3
<1>8. FrameAt(0, HeaderSize) = r + 1
  <2>1. 0 \in Nat /\ HeaderSize \in Nat /\ 0 < Size(r + 1) /\ 0 + HeaderSize <= Size(r + 1)
    BY <1>6, <1>7 DEF HeaderSize, CrcSize
  <2>2. ERDPT = Ahead(StartOf(r + 1), 0)
    <3>1. 0 + 0 < RingSize /\ 0 \in Nat
      BY Sizes
    <3> QED BY <1>1, <1>2, <1>5, <1>6, <3>1, AheadTwice DEF Located
  <2> QED BY <1>1, <1>2, <1>5, <2>1, <2>2, FrameFound
<1>9. r + 1 # 0
  BY <1>6
<1>10. /\ next_packet_ptr' = StartOf(r + 2)
       /\ reading' = [frame |-> r + 1, length |-> Truncated(frames[r + 1].length), ok |-> frames[r + 1].ok]
  BY <1>6, <1>8, <1>9 DEF ReadHeader
<1>11. Located'
  <2>1. StartOf(r + 1)' = StartOf(r + 1) /\ StartOf(r + 2)' = StartOf(r + 2)
    BY <1>4
  <2>2. ERDPT' = Ahead(StartOf(r + 1), HeaderSize)
    BY <1>1, <1>2, <1>5 DEF Located
  <2> QED BY <1>2, <1>5, <1>10, <2>1, <2>2 DEF Located
<1> QED BY <1>3, <1>4, <1>11 DEF RingInv

LEMMA DataFound ==
  ASSUME RingInv, pc = "data"
  PROVE  FrameAt(HeaderSize, reading.length) = reading.frame
<1>1. TypeInv /\ Chained /\ Stored /\ Located
  BY DEF RingInv
<1>2. /\ reading = [frame |-> read + 1, length |-> Truncated(frames[read + 1].length),
                     ok |-> frames[read + 1].ok]
      /\ ERDPT = Ahead(StartOf(read + 1), HeaderSize)
  BY <1>1 DEF Located
<1>3. /\ read + 1 \in 1..Len(frames) /\ Size(read + 1) \in Nat
      /\ HeaderSize + frames[read + 1].length + CrcSize <= Size(read + 1)
  BY <1>1, Kept DEF Reading
<1>4. frames[read + 1].length \in Nat
  <2>1. frames[read + 1].length \in RxLengths
    BY <1>1, <1>3, Typed DEF TypeInv, Records
  <2>2. \A l \in RxLengths : l \in Nat
    BY Sizes
  <2> QED BY <2>1, <2>2
<1>5. reading.length \in Nat /\ reading.length <= frames[read + 1].length
  <2> DEFINE l == frames[read + 1].length
  <2>1. reading.length = Truncated(l)
    BY <1>2
  <2> HIDE DEF l
  <2>2. l \in Nat
    BY <1>4 DEF l
  <2>3. Truncated(l) \in Nat /\ Truncated(l) <= l
    BY <2>2, Sizes DEF Truncated
  <2> QED BY <2>1, <2>3 DEF l
<1>6. /\ HeaderSize \in Nat /\ HeaderSize < Size(read + 1)
      /\ HeaderSize + reading.length <= Size(read + 1)
  BY <1>3, <1>4, <1>5 DEF HeaderSize, CrcSize
<1>7. FrameAt(HeaderSize, reading.length) = read + 1
  BY <1>1, <1>2, <1>5, <1>6, FrameFound
<1> QED BY <1>2, <1>7

LEMMA DataRing ==
  ASSUME RingInv, ReadData
  PROVE  RingInv'
<1>1. TypeInv /\ Chained /\ Stored /\ Located
  BY DEF RingInv
<1>2. /\ pc = "data" /\ pc' = "free"
      /\ UNCHANGED <<mem, next_packet_ptr, ERXRDPT, ERXWRPT, frames, read>>
  BY DEF ReadData
<1>3. TypeInv' /\ FirstKept' = FirstKept
  BY <1>1, <1>2, DataTyped DEF FirstKept
<1>4. (\A f : StartOf(f)' = StartOf(f)) /\ Chained' /\ Stored'
  BY <1>1, <1>2, <1>3, RingUntouched
<1>5. reading' = reading
  <2>1. reading.frame = FrameAt(HeaderSize, reading.length)
    BY <1>2, DataFound
  <2>2. reading \in Views
    BY <1>1, Typed DEF TypeInv
  <2>3. [reading EXCEPT !.frame = reading.frame] = reading
    BY <2>2 DEF Views
  <2> QED BY <2>1, <2>3 DEF ReadData
<1>6. PICK r : r = read
  OBVIOUS
<1>7. Located'
  <2>1. StartOf(r + 2)' = StartOf(r + 2)
    BY <1>4
  <2> QED BY <1>1, <1>2, <1>5, <1>6, <2>1 DEF Located
<1> QED BY <1>3, <1>4, <1>7 DEF RingInv

(* Freeing a frame moves the read limit to the next one. *)
LEMMA FreeRing ==
  ASSUME RingInv, Free
  PROVE  RingInv'
<1>1. TypeInv /\ Chained /\ Stored /\ Located
  BY DEF RingInv
<1>2. /\ pc = "free" /\ pc' = "decrement" /\ ERXRDPT' = next_packet_ptr
      /\ UNCHANGED <<mem, next_packet_ptr, ERXWRPT, frames, reading, read>>
  BY DEF Free, Freed
<1>3. TypeInv'
  BY <1>1, PointersTyped
<1>4. PICK r \in Nat, n \in Nat : r = read /\ n = Len(frames)
  BY <1>1, Typed DEF TypeInv
<1> DEFINE p == ERXRDPT
           q == StartOf(r + 2)
           At(f) == Behind(p, StartOf(f))
<1>5. FirstKept = r + 1 /\ FirstKept' = r + 2 /\ r + 1 \in 1..n /\ next_packet_ptr = q
  BY <1>1, <1>2, <1>4, Kept DEF FirstKept, Reading, Located
<1>6. /\ \A f \in 1..(n + 1) : StartOf(f) \in Ring /\ At(f) \in Ring
      /\ q \in Ring /\ p \in Ring
  <2>1. \A f \in 1..(n + 1) : StartOf(f) \in Ring /\ At(f) \in Ring
    BY <1>1, <1>4, Kept
  <2>2. r + 2 \in 1..(n + 1)
    BY <1>4, <1>5
  <2> QED BY <1>1, <2>1, <2>2, Typed DEF TypeInv
<1>7. \A f : StartOf(f)' = StartOf(f) /\ Size(f)' = Size(f)
  BY <1>2 DEF StartOf, Size
<1>8. \A f \in (r + 2)..(n + 1) : At(r + 2) <= At(f)
  <2>1. \A g \in (r + 1 + 1)..(n + 1) : At(r + 1 + 1) <= At(g)
    BY <1>1, <1>4, <1>5 DEF Chained
  <2>2. r + 1 + 1 = r + 2
    BY <1>4
  <2> HIDE DEF At
  <2> QED BY <2>1, <2>2
<1>9. \A f \in (r + 2)..(n + 1) : /\ Behind(q, StartOf(f)) = At(f) - At(r + 2)
                                  /\ At(f) \in Nat /\ At(r + 2) \in Nat
  <2>1. TAKE f \in (r + 2)..(n + 1)
  <2>2. f \in 1..(n + 1) /\ r + 2 \in 1..(n + 1)
    BY <1>4, <1>5, <2>1
  <2>3. StartOf(f) \in Ring /\ At(f) \in Ring /\ At(r + 2) \in Ring /\ At(r + 2) <= At(f)
    BY <1>6, <1>8, <2>1, <2>2
  <2>4. Behind(q, StartOf(f)) = IF At(r + 2) <= At(f) THEN At(f) - At(r + 2) ELSE At(f) - At(r + 2) + RingSize
    BY <1>6, <2>3, SeenFrom
  <2> QED BY <2>3, <2>4, Sizes
<1>10. Chained'
  <2>1. ASSUME NEW f \in (r + 2)..n
        PROVE  /\ frames[f].next = StartOf(f + 1)
               /\ Behind(q, StartOf(f)) + Size(f) = Behind(q, StartOf(f + 1))
               /\ \A g \in (f + 1)..(n + 1) : Behind(q, StartOf(f + 1)) <= Behind(q, StartOf(g))
    <3>1. f \in (r + 1)..n /\ f \in (r + 2)..(n + 1) /\ f + 1 \in (r + 2)..(n + 1) /\ f \in 1..n
      BY <1>4, <2>1
    <3>2. /\ frames[f].next = StartOf(f + 1) /\ At(f) + Size(f) = At(f + 1)
          /\ \A g \in (f + 1)..(n + 1) : At(f + 1) <= At(g)
      BY <1>1, <1>4, <1>5, <3>1 DEF Chained
    <3>3. Size(f) \in Nat
      BY <1>1, <1>4, <3>1, Kept
    <3>4. \A g \in (f + 1)..(n + 1) : g \in (r + 2)..(n + 1)
      BY <1>4, <3>1
    <3> DEFINE New(g) == Behind(q, StartOf(g))
    <3>5. /\ New(f) = At(f) - At(r + 2) /\ New(f + 1) = At(f + 1) - At(r + 2)
          /\ At(f) \in Nat /\ At(f + 1) \in Nat /\ At(r + 2) \in Nat
          /\ \A g \in (f + 1)..(n + 1) : New(g) = At(g) - At(r + 2) /\ At(g) \in Nat
      BY <1>9, <3>1, <3>4
    <3> HIDE DEF At, New
    <3>6. New(f) + Size(f) = New(f + 1) /\ \A g \in (f + 1)..(n + 1) : New(f + 1) <= New(g)
      BY <3>2, <3>3, <3>5
    <3> QED BY <3>2, <3>6 DEF New
  <2>2. StartOf(r + 2)' = ERXRDPT'
    BY <1>2, <1>5, <1>7
  <2> HIDE DEF q
  <2>3. ERXRDPT' = q /\ Len(frames') = n
    BY <1>2, <1>4, <1>5
  <2> QED BY <1>2, <1>5, <1>7, <2>1, <2>2, <2>3 DEF Chained
<1>11. Stored'
  <2> SUFFICES ASSUME NEW f \in (r + 2)..n, NEW k \in 0..(Size(f) - 1)
               PROVE  mem[Ahead(StartOf(f), k)] = Cell(f, k)
    BY <1>2, <1>4, <1>5, <1>7 DEF Stored
  <2>1. f \in (r + 1)..n
    BY <1>4
  <2> QED BY <1>1, <1>4, <1>5, <2>1 DEF Stored
<1>12. Located'
  <2>1. StartOf(r + 2)' = StartOf(r + 2)
    BY <1>7
  <2> QED BY <1>1, <1>2, <1>4, <2>1 DEF Located
<1> QED BY <1>3, <1>10, <1>11, <1>12 DEF RingInv

LEMMA DecrementRing ==
  ASSUME RingInv, Decrement
  PROVE  RingInv'
<1>1. TypeInv /\ Chained /\ Stored /\ Located
  BY DEF RingInv
<1>2. /\ pc = "decrement" /\ pc' = "idle" /\ read' = read + 1
      /\ UNCHANGED <<mem, next_packet_ptr, ERXRDPT, ERXWRPT, frames>>
  BY DEF Decrement
<1>3. PICK r \in Nat : r = read
  BY <1>1, Typed DEF TypeInv
<1>4. FirstKept = r + 2 /\ FirstKept' = r + 2
  BY <1>2, <1>3 DEF FirstKept
<1>5. TypeInv'
  BY <1>1, DecrementTyped
<1>6. (\A f : StartOf(f)' = StartOf(f)) /\ Chained' /\ Stored'
  BY <1>1, <1>2, <1>4, <1>5, RingUntouched
<1>7. Located'
  <2>1. StartOf(r + 2)' = StartOf(r + 2) /\ read' + 1 = r + 2
    BY <1>2, <1>3, <1>6
  <2>2. next_packet_ptr' = StartOf(r + 2)
    BY <1>1, <1>2, <1>3 DEF Located
  <2> QED BY <1>2, <2>1, <2>2 DEF Located
<1> QED BY <1>5, <1>6, <1>7 DEF RingInv

(* The transmitter's steps write behind the ring only. *)
LEMMA TransmitterRing ==
  ASSUME StatusFits, RingInv,
         \/ \E len \in TxLengths : PacketSend(len)
         \/ Request \/ CheckError \/ ChipTransmits
  PROVE  RingInv'
<1>1. TypeInv /\ Chained /\ Stored /\ Located
  BY DEF RingInv
<1>2. TypeInv'
  BY <1>1, SendTyped, RequestTyped, TransmitTyped
<1>3. UNCHANGED <<next_packet_ptr, ERDPT, ERXRDPT, ERXWRPT, frames, reading, read>>
  BY DEF PacketSend, Request, CheckError, ChipTransmits, receiver
<1>4. /\ pc \in {"idle", "request", "check"} => pc' \in {"idle", "request", "check"}
      /\ pc \notin {"idle", "request", "check"} => pc' = pc
  BY DEF PacketSend, Request, CheckError, ChipTransmits
<1>5. FirstKept' = FirstKept
  BY <1>3, <1>4 DEF FirstKept
<1>6. \A len \in TxLengths : len \in Nat /\ len + 1 + StatusSize <= NetBufferSize
  BY Sizes DEF StatusFits
<1>7. mem \in [0..(RamSize - 1) -> Bytes]
  BY <1>1, Typed DEF TypeInv
<1>8. \A a \in Ring : mem'[a] = mem[a]
  <2>1. CASE \E len \in TxLengths : PacketSend(len)
    <3>1. PICK len \in TxLengths : mem' = Overwritten(RingSize, len + 1)
      BY <2>1, Sizes DEF PacketSend
    <3>2. RingSize \in RingSize..(RamSize - 1) /\ len + 1 \in Nat /\ RingSize + (len + 1) <= RamSize
      BY <1>6, Sizes DEF StatusSize
    <3> QED BY <1>7, <3>1, <3>2, OutsideRing
  <2>2. CASE Request \/ CheckError
    BY <2>2 DEF Request, CheckError
  <2>3. CASE ChipTransmits
    <3>0. PICK len \in TxLengths : len = tx.length
      BY <1>1, <2>3 DEF ChipTransmits, TypeInv, LengthKnown
    <3> DEFINE a == RingSize + len + 1
    <3>1. mem' = Overwritten(a, StatusSize)
      BY <2>3, <3>0, Sizes DEF ChipTransmits
    <3>2. a \in RingSize..(RamSize - 1) /\ StatusSize \in Nat /\ a + StatusSize <= RamSize
      BY <1>6, Sizes DEF StatusSize
    <3> HIDE DEF a
    <3> QED BY <1>7, <3>1, <3>2, OutsideRing
  <2> QED BY <2>1, <2>2, <2>3
<1>9. (\A f : StartOf(f)' = StartOf(f)) /\ Chained' /\ Stored'
  BY <1>1, <1>2, <1>3, <1>5, <1>8, RingUntouched
<1>10. PICK r : r = read
  OBVIOUS
<1>11. Located'
  <2>1. StartOf(r + 1)' = StartOf(r + 1) /\ StartOf(r + 2)' = StartOf(r + 2)
    BY <1>9
  <2> QED BY <1>1, <1>3, <1>4, <1>10, <2>1 DEF Located
<1> QED BY <1>2, <1>9, <1>11 DEF RingInv

LEMMA NextRing == StatusFits /\ RingInv /\ [Next]_vars => RingInv'
<1> SUFFICES ASSUME StatusFits, RingInv, [Next]_vars PROVE RingInv'
  OBVIOUS
<1>1. CASE \E len \in RxLengths, ok \in BOOLEAN : ChipReceives(len, ok)
  BY <1>1, ReceiveRing
<1>2. CASE PacketReceive \/ ReadHeader \/ ReadData \/ Free \/ Decrement
  BY <1>2, PacketReceiveRing, HeaderRing, DataRing, FreeRing, DecrementRing
<1>3. CASE (\E len \in TxLengths : PacketSend(len)) \/ Request \/ CheckError \/ ChipTransmits
  BY <1>3, TransmitterRing
<1>4. CASE UNCHANGED vars
  <2>1. TypeInv /\ Chained /\ Stored /\ Located
    BY DEF RingInv
  <2>2. TypeInv'
    BY <1>4, <2>1, NextTyped
  <2>3. UNCHANGED <<pc, mem, next_packet_ptr, ERDPT, ERXRDPT, ERXWRPT, frames, reading, read>>
    BY <1>4 DEF vars, receiver
  <2>4. FirstKept' = FirstKept
    BY <2>3 DEF FirstKept
  <2>5. (\A f : StartOf(f)' = StartOf(f)) /\ Chained' /\ Stored'
    BY <2>1, <2>2, <2>3, <2>4, RingUntouched
  <2>6. PICK r : r = read
    OBVIOUS
  <2>7. StartOf(r + 1)' = StartOf(r + 1) /\ StartOf(r + 2)' = StartOf(r + 2)
    BY <2>5
  <2>8. Located'
    BY <2>1, <2>3, <2>6, <2>7 DEF Located
  <2> QED BY <2>2, <2>5, <2>8 DEF RingInv
<1> QED BY <1>1, <1>2, <1>3, <1>4 DEF Next, Driver

(* A frame that was not read is in memory, whatever is received, sent or   *)
(* freed meanwhile, if what is sent leaves room for the status vector:     *)
(* ERXRDPT and ERXWRPT keep the chip out of the frames, for any sizes.     *)
THEOREM FramesStay ==
  ASSUME StatusFits
  PROVE  Spec => []UnreadIntact
<1>1. RingInv => UnreadIntact
  <2> SUFFICES ASSUME RingInv, NEW f \in (read + 1)..Len(frames), pc \notin {"free", "decrement"} \/ f > read + 1,
                      NEW k \in 0..(Total(frames[f].length) - 1)
               PROVE  mem[(frames[f].start + k) % RingSize] = Cell(f, k)
    BY DEF UnreadIntact
  <2>1. read \in Nat /\ Len(frames) \in Nat
    BY Typed DEF RingInv, TypeInv
  <2>2. f \in FirstKept..Len(frames) /\ f \in 1..Len(frames)
    BY <2>1 DEF FirstKept
  <2>3. mem[Ahead(StartOf(f), k)] = Cell(f, k)
    BY <2>2 DEF RingInv, Stored, Size
  <2> QED BY <2>2, <2>3 DEF Ahead, StartOf
<1>2. RingInv /\ [Next]_vars => RingInv'
  BY NextRing
<1> QED BY InitRing, <1>1, <1>2, PTL DEF Spec

-----------------------------------------------------------------------------
(***************************************************************************)
(* The driver and the chip are a queue of frames                           *)
(***************************************************************************)

(* No frame that arrives is longer than the caller's buffer. *)
Untruncated == RxLengths \subseteq 1..(NetBufferSize - 1)

Pending == [k \in 1..(Len(frames) - read) |-> Described(read + k)]
Whole == [frame : 1..MaxReceived, length : RxLengths, ok : BOOLEAN]

(* The queue holds the frames that were kept and not read. *)
PendingFrames ==
  /\ Len(frames) \in Nat /\ read \in 0..Len(frames)
  /\ \A f \in 1..Len(frames) : Described(f) \in Whole
  /\ Pending \in Seq(Whole) /\ Len(Pending) = Len(frames) - read
  /\ \A f \in (read + 1)..Len(frames) : Pending[f - read] = Described(f)

LEMMA PendingIs == TypeInv => PendingFrames
<1> SUFFICES ASSUME TypeInv PROVE PendingFrames
  OBVIOUS
<1> DEFINE m == Len(frames) - read
<1>1. TypeOK /\ Counted
  BY DEF TypeInv
<1>2. /\ Len(frames) \in Nat /\ read \in Nat /\ EPKTCNT \in Nat
      /\ \A f \in 1..Len(frames) : frames[f] \in Records
  BY <1>1, Typed
<1>3. Len(frames) <= MaxReceived /\ EPKTCNT = Len(frames) - read
  BY <1>1 DEF Counted
<1>4. m \in Nat /\ read \in 0..Len(frames)
  BY <1>2, <1>3
<1>5. \A f \in 1..Len(frames) : Described(f) \in Whole
  <2>1. TAKE f \in 1..Len(frames)
  <2>2. f \in 1..MaxReceived
    BY <1>2, <1>3, <2>1, Sizes
  <2>3. frames[f].length \in RxLengths /\ frames[f].ok \in BOOLEAN
    BY <1>2, <2>1 DEF Records
  <2> QED BY <2>2, <2>3 DEF Described, Whole
<1>6. \A k \in 1..m : Described(read + k) \in Whole
  <2>1. TAKE k \in 1..m
  <2>2. read + k \in 1..Len(frames)
    BY <1>2, <1>4, <2>1
  <2> QED BY <1>5, <2>2
<1> HIDE DEF m
<1>7. Pending = [k \in 1..m |-> Described(read + k)]
  BY DEF Pending, m
<1>8. Pending \in [1..m -> Whole] /\ DOMAIN Pending = 1..m
  BY <1>6, <1>7
<1>9. Pending \in Seq(Whole)
  BY <1>4, <1>8, SeqDef
<1>10. Len(Pending) = m
  <2>1. DOMAIN Pending = 1..Len(Pending) /\ Len(Pending) \in Nat
    BY <1>9, LenProperties
  <2> QED BY <1>4, <1>8, <2>1
<1>11. \A f \in (read + 1)..Len(frames) : Pending[f - read] = Described(f)
  <2>1. TAKE f \in (read + 1)..Len(frames)
  <2>2. f - read \in 1..m /\ read + (f - read) = f
    BY <1>2, <2>1 DEF m
  <2> QED BY <1>7, <2>2
<1> QED BY <1>2, <1>4, <1>5, <1>9, <1>10, <1>11 DEF m, PendingFrames

LEMMA PendingNext == TypeInv' => PendingFrames'
  BY PendingIs, PTL

(* The same frames, one of them read. *)
LEMMA PendingUnchanged ==
  ASSUME frames' = frames, read' = read
  PROVE  Pending' = Pending
<1>1. \A f : Described(f)' = Described(f)
  BY DEF Described
<1>2. PICK r : r = read
  OBVIOUS
<1>3. Pending' = [k \in 1..(Len(frames) - r) |-> Described(r + k)']
  BY <1>2 DEF Pending
<1> QED BY <1>1, <1>2, <1>3 DEF Pending

LEMMA ReceiveKeeps ==
  ASSUME RingInv, NEW len \in RxLengths, NEW ok \in BOOLEAN, ChipReceives(len, ok)
  PROVE  \E f \in Whole : Pending' = Append(Pending, f) /\ returned' = returned
<1>1. TypeInv /\ TypeInv'
  BY ReceiveTyped DEF RingInv
<1>2. PICK n, r : n = Len(frames) /\ r = read
  OBVIOUS
<1>3. /\ Len(frames') = n + 1 /\ (\A f \in 1..n : frames'[f] = frames[f])
      /\ read' = r /\ returned' = returned
  BY <1>1, <1>2, Arrival DEF ChipReceives
<1>4. n \in Nat /\ r \in 0..n
  BY <1>1, <1>2, PendingIs DEF PendingFrames
<1>5. /\ Pending \in Seq(Whole) /\ Len(Pending) = n - r
      /\ \A f \in (r + 1)..n : Pending[f - r] = Described(f)
  BY <1>1, <1>2, PendingIs DEF PendingFrames
<1>6. /\ Pending' \in Seq(Whole) /\ Len(Pending') = n + 1 - r
      /\ (\A f \in (r + 1)..(n + 1) : Pending'[f - r] = Described(f)')
      /\ \A f \in 1..(n + 1) : Described(f)' \in Whole
  <2>1. /\ \A f \in 1..Len(frames') : Described(f)' \in Whole
        /\ Pending' \in Seq(Whole) /\ Len(Pending') = Len(frames') - read'
        /\ \A f \in (read' + 1)..Len(frames') : Pending'[f - read'] = Described(f)'
    BY <1>1, PendingNext DEF PendingFrames
  <2>2. Len(frames') = n + 1 /\ read' = r
    BY <1>3
  <2>3. \A f \in 1..(n + 1) : Described(f)' \in Whole
    BY <2>1, <2>2
  <2>4. \A f \in (r + 1)..(n + 1) : Pending'[f - r] = Described(f)'
    BY <2>1, <2>2
  <2>5. Pending' \in Seq(Whole) /\ Len(Pending') = n + 1 - r
    <3>1. Pending' \in Seq(Whole) /\ Len(Pending') = Len(frames') - read'
      BY <2>1
    <3> QED BY <1>4, <2>2, <3>1
  <2> QED BY <2>3, <2>4, <2>5
<1>7. PICK e : e = Described(n + 1)'
  OBVIOUS
<1>8. e \in Whole
  BY <1>4, <1>6, <1>7
<1>9. \A f \in 1..n : Described(f)' = Described(f)
  BY <1>3 DEF Described
<1>10. /\ Append(Pending, e) \in Seq(Whole) /\ Len(Append(Pending, e)) = n - r + 1
       /\ (\A k \in 1..(n - r) : Append(Pending, e)[k] = Pending[k])
       /\ Append(Pending, e)[n - r + 1] = e
  BY <1>5, <1>8, AppendProperties
<1>11. \A k \in 1..(n + 1 - r) : Pending'[k] = Append(Pending, e)[k]
  <2>1. TAKE k \in 1..(n + 1 - r)
  <2> DEFINE f == r + k
  <2>2. f \in (r + 1)..(n + 1) /\ f - r = k /\ (f \in (r + 1)..n \/ f = n + 1)
    BY <1>4, <2>1
  <2> HIDE DEF f
  <2>3. Pending'[k] = Described(f)'
    BY <1>6, <2>2
  <2>4. CASE f \in (r + 1)..n
    <3>1. k \in 1..(n - r) /\ f \in 1..n
      BY <1>4, <2>4 DEF f
    <3> QED BY <1>5, <1>9, <1>10, <2>2, <2>3, <2>4, <3>1
  <2>5. CASE f = n + 1
    <3>1. k = n - r + 1
      BY <1>4, <2>5 DEF f
    <3> QED BY <1>7, <1>10, <2>3, <2>5, <3>1
  <2> QED BY <2>2, <2>4, <2>5
<1>12. Len(Pending') = Len(Append(Pending, e))
  BY <1>4, <1>6, <1>10
<1>13. \A k \in 1..Len(Pending') : Pending'[k] = Append(Pending, e)[k]
  BY <1>6, <1>11
<1>14. Pending' = Append(Pending, e)
  BY <1>6, <1>10, <1>12, <1>13, SeqEqual
<1> QED BY <1>3, <1>8, <1>14

LEMMA DecrementTakes ==
  ASSUME Untruncated, RingInv, Decrement
  PROVE  /\ Pending # <<>> /\ Pending' = Tail(Pending)
         /\ returned' = IF Head(Pending).ok THEN Append(returned, Head(Pending)) ELSE returned
<1>1. TypeInv /\ TypeInv' /\ Located
  BY DecrementTyped DEF RingInv
<1>2. PICK n, r : n = Len(frames) /\ r = read
  OBVIOUS
<1>3. /\ pc = "decrement" /\ frames' = frames /\ read' = r + 1
      /\ returned' = IF reading.ok /\ reading.length # 0 THEN Append(returned, reading) ELSE returned
  BY <1>2 DEF Decrement
<1>4. n \in Nat /\ r \in 0..n /\ r + 1 \in 1..n
  <2>1. n \in Nat /\ r \in 0..n /\ EPKTCNT = n - r /\ EPKTCNT >= 1
    BY <1>1, <1>2, <1>3, PendingIs DEF PendingFrames, TypeInv, Counted, Reading
  <2> QED BY <2>1
<1>5. /\ Pending \in Seq(Whole) /\ Len(Pending) = n - r
      /\ \A f \in (r + 1)..n : Pending[f - r] = Described(f)
  BY <1>1, <1>2, PendingIs DEF PendingFrames
<1>6. /\ Pending' \in Seq(Whole) /\ Len(Pending') = n - (r + 1)
      /\ \A f \in (r + 1 + 1)..n : Pending'[f - (r + 1)] = Described(f)'
  <2>1. /\ Pending' \in Seq(Whole) /\ Len(Pending') = Len(frames') - read'
        /\ \A f \in (read' + 1)..Len(frames') : Pending'[f - read'] = Described(f)'
    BY <1>1, PendingNext DEF PendingFrames
  <2> QED BY <1>2, <1>3, <2>1
<1>7. \A f : Described(f)' = Described(f)
  BY <1>3 DEF Described
<1>8. Pending # <<>>
  <2>1. Len(Pending) # 0
    BY <1>4, <1>5
  <2> QED BY <2>1, EmptySeq
<1>9. Head(Pending) = Described(r + 1)
  <2>1. Head(Pending) = Pending[1]
    BY <1>5, <1>8
  <2>2. PICK f \in (r + 1)..n : f = r + 1 /\ f - r = 1
    BY <1>4
  <2>3. Pending[1] = Described(f)
    BY <1>5, <2>2
  <2> QED BY <2>1, <2>2, <2>3
<1>10. /\ Tail(Pending) \in Seq(Whole) /\ Len(Tail(Pending)) = n - r - 1
       /\ \A k \in 1..Len(Tail(Pending)) : Tail(Pending)[k] = Pending[k + 1]
  BY <1>5, <1>8, HeadTailProperties
<1>11. \A k \in 1..Len(Pending') : Pending'[k] = Tail(Pending)[k]
  <2>1. TAKE k \in 1..Len(Pending')
  <2> DEFINE f == r + 1 + k
  <2>2. /\ f \in (r + 1 + 1)..n /\ f \in (r + 1)..n /\ f - (r + 1) = k /\ f - r = k + 1
        /\ k \in 1..Len(Tail(Pending))
    BY <1>4, <1>6, <1>10, <2>1
  <2> HIDE DEF f
  <2>3. Pending'[k] = Described(f)
    BY <1>6, <1>7, <2>2
  <2>4. Tail(Pending)[k] = Described(f)
    BY <1>5, <1>10, <2>2
  <2> QED BY <2>3, <2>4
<1>12. Pending' = Tail(Pending)
  <2>1. Len(Pending') = Len(Tail(Pending))
    BY <1>4, <1>6, <1>10
  <2> QED BY <1>6, <1>10, <1>11, <2>1, SeqEqual
<1>13. /\ reading = Described(r + 1) /\ reading.length # 0
  <2>1. reading = [frame |-> r + 1, length |-> Truncated(frames[r + 1].length), ok |-> frames[r + 1].ok]
    BY <1>1, <1>2, <1>3 DEF Located
  <2>2. frames[r + 1].length \in RxLengths
    BY <1>1, <1>2, <1>4, Typed DEF TypeInv, Records
  <2>3. \A l \in RxLengths : Truncated(l) = l /\ l # 0
    BY Sizes DEF Untruncated, Truncated
  <2> QED BY <2>1, <2>2, <2>3 DEF Described
<1> QED BY <1>3, <1>8, <1>9, <1>12, <1>13 DEF Described

(* Between the chip and the caller of enc28j60_packet_receive the frames   *)
(* form a queue: what is kept is returned once, whole and in order, unless *)
(* its status is bad; for any sizes of memory, buffer and frames that      *)
(* leave room for the status vector and fit the caller's buffer.           *)
THEOREM FramesQueue ==
  ASSUME StatusFits, Untruncated
  PROVE  Spec => IsQueue
<1> DEFINE queue == [k \in 1..(Len(frames) - read) |-> Described(read + k)]
<1>1. queue = Pending
  BY DEF Pending
<1>2. queue' = Pending'
  BY DEF Pending
<1>3. Init => Queue!Init
  <2> SUFFICES ASSUME Init PROVE queue = <<>> /\ returned = <<>>
    BY DEF Queue!Init
  <2>1. Len(frames) - read = 0 /\ returned = <<>>
    BY EmptySeq DEF Init
  <2>2. Pending \in Seq(Whole) /\ Len(Pending) = 0
    BY <2>1, InitTyped, PendingIs DEF PendingFrames
  <2> QED BY <1>1, <2>1, <2>2, EmptySeq
<1>4. RingInv /\ [Next]_vars => [Queue!Next]_<<queue, returned>>
  <2> SUFFICES ASSUME RingInv, [Next]_vars PROVE [Queue!Next]_<<queue, returned>>
    OBVIOUS
  <2> HIDE DEF queue
  <2>1. CASE \E len \in RxLengths, ok \in BOOLEAN : ChipReceives(len, ok)
    <3>1. PICK f \in Whole : queue' = Append(queue, f) /\ returned' = returned
      BY <1>1, <1>2, <2>1, ReceiveKeeps
    <3> QED BY <3>1 DEF Queue!Next, Queue!Keep, Whole, queue
  <2>2. CASE Decrement
    <3>1. /\ queue # <<>> /\ queue' = Tail(queue)
          /\ returned' = IF Head(queue).ok THEN Append(returned, Head(queue)) ELSE returned
      BY <1>1, <1>2, <2>2, DecrementTakes
    <3> QED BY <3>1 DEF Queue!Next, Queue!Take, queue
  <2>3. CASE UNCHANGED <<frames, read, returned>>
    BY <1>1, <1>2, <2>3, PendingUnchanged
  <2>4. \/ \E len \in RxLengths, ok \in BOOLEAN : ChipReceives(len, ok)
        \/ Decrement
        \/ UNCHANGED <<frames, read, returned>>
    BY DEF Next, Driver, vars, receiver, PacketReceive, ReadHeader, ReadData, Free, PacketSend, Request,
           CheckError, ChipTransmits
  <2> QED BY <2>1, <2>2, <2>3, <2>4
<1>5. RingInv /\ [Next]_vars => RingInv'
  BY NextRing
<1> QED BY InitRing, <1>3, <1>4, <1>5, PTL DEF Spec, IsQueue, Queue!Spec

-----------------------------------------------------------------------------
(***************************************************************************)
(* What is transmitted                                                     *)
(***************************************************************************)
LEMMA NextSent ==
  ASSUME PromptMedium, TypeInv, SendInv, [Next]_vars
  PROVE  SendInv'
<1>1. /\ SentIntact /\ LastGiven
      /\ given \in Seq(TxLengths) /\ Len(given) \in Nat /\ DOMAIN given = 1..Len(given)
      /\ wire \in Seq(Sent) /\ tx \in [busy : BOOLEAN, frame : 0..MaxSent, length : 0..NetBufferSize, error : BOOLEAN]
  BY Typed, TypeParts DEF SendInv, TypeInv, Sent
<1>2. Len(wire) \in Nat /\ DOMAIN wire = 1..Len(wire)
  BY <1>1, LenProperties
<1>3. \A k \in DOMAIN wire : wire[k].frame \in 1..Len(given)
  BY <1>1 DEF SentIntact
<1>4. CASE \E len \in TxLengths : PacketSend(len)
  <2>1. PICK len \in TxLengths : PacketSend(len)
    BY <1>4
  <2>2. /\ ~tx.busy /\ given' = Append(given, len) /\ pc' = "request" /\ wire' = wire
        /\ tx' = [tx EXCEPT !.length = len, !.frame = IF tx.busy THEN 0 ELSE @]
    BY <2>1 DEF PacketSend, SentLength
  <2>3. /\ given' \in Seq(TxLengths) /\ Len(given') = Len(given) + 1
        /\ (\A j \in 1..Len(given) : given'[j] = given[j]) /\ given'[Len(given) + 1] = len
    BY <1>1, <2>2, AppendProperties
  <2>4. DOMAIN given' = 1..(Len(given) + 1) /\ given' # <<>>
    BY <1>1, <2>3, LenProperties, EmptySeq
  <2>5. tx'.length = len /\ ~tx'.busy
    BY <1>1, <2>2
  <2>6. SentIntact'
    BY <1>1, <1>3, <2>2, <2>3, <2>4 DEF SentIntact
  <2>7. \A k \in DOMAIN wire : wire[k].frame < Len(given')
    BY <1>1, <1>3, <2>3
  <2>8. LastGiven'
    BY <2>2, <2>3, <2>4, <2>5, <2>7 DEF LastGiven
  <2> QED BY <2>6, <2>8 DEF SendInv
<1>5. CASE Request
  <2>1. /\ pc = "request" /\ pc' = "check" /\ given' = given /\ wire' = wire /\ ~tx.busy
        /\ tx' = [tx EXCEPT !.busy = TRUE, !.frame = IF tx.busy THEN @ ELSE Len(given)]
    BY <1>1, <1>5 DEF Request, LastGiven
  <2>2. tx'.busy /\ tx'.frame = Len(given) /\ tx'.length = tx.length
    BY <1>1, <2>1
  <2> QED BY <1>1, <2>1, <2>2 DEF SendInv, SentIntact, LastGiven
<1>6. CASE CheckError
  <2>1. pc' = "idle" /\ given' = given /\ wire' = wire
    BY <1>6 DEF CheckError
  <2>2. tx' = tx \/ ~tx'.busy
    BY <1>1, <1>6 DEF CheckError
  <2> QED BY <1>1, <2>1, <2>2 DEF SendInv, SentIntact, LastGiven
<1>7. CASE ChipTransmits
  <2> DEFINE e == [frame |-> tx.frame, length |-> tx.length]
             n == Len(wire)
  <2>1. /\ tx.busy /\ pc' = pc /\ given' = given
        /\ wire' = wire \/ wire' = Append(wire, e)
    BY <1>7 DEF ChipTransmits
  <2>2. ~tx'.busy /\ tx'.length = tx.length
    BY <1>1, <1>7 DEF ChipTransmits
  <2>3. /\ given # <<>> /\ tx.length = given[Len(given)] /\ tx.frame = Len(given) /\ pc # "request"
        /\ \A k \in DOMAIN wire : wire[k].frame < Len(given)
    BY <1>1, <2>1 DEF LastGiven
  <2>4. LastGiven'
    BY <2>1, <2>2, <2>3 DEF LastGiven
  <2>5. CASE wire' = wire
    BY <1>1, <2>1, <2>4, <2>5 DEF SendInv, SentIntact
  <2>6. CASE wire' = Append(wire, e)
    <3>1. e \in Sent /\ e.frame = Len(given) /\ e.length = given[Len(given)]
      BY <1>1, <2>3 DEF Sent
    <3> HIDE DEF e
    <3>2. /\ wire' \in Seq(Sent) /\ Len(wire') = n + 1
          /\ (\A k \in 1..n : wire'[k] = wire[k]) /\ wire'[n + 1] = e
      BY <1>1, <2>6, <3>1, AppendProperties
    <3>3. DOMAIN wire' = 1..(n + 1) /\ Len(given) \in 1..Len(given)
      <4>1. Len(given) # 0
        BY <1>1, <2>3, EmptySeq
      <4> QED BY <1>1, <3>2, <4>1, LenProperties
    <3> HIDE DEF n
    <3>4. ASSUME NEW k \in 1..(n + 1)
          PROVE  /\ wire'[k].frame \in DOMAIN given /\ wire'[k].length = given[wire'[k].frame]
                 /\ \A j \in 1..(k - 1) : wire'[j].frame < wire'[k].frame
      <4>1. n \in Nat /\ DOMAIN wire = 1..n
        BY <1>2 DEF n
      <4>2. CASE k \in 1..n
        <5>1. \A j \in 1..(k - 1) : j \in 1..n
          BY <4>1, <4>2
        <5> QED BY <1>1, <3>2, <4>1, <4>2, <5>1 DEF SentIntact
      <4>3. CASE k = n + 1
        <5>1. \A j \in 1..(k - 1) : j \in 1..n
          BY <4>1, <4>3
        <5> QED BY <1>1, <2>3, <3>1, <3>2, <3>3, <4>1, <4>3, <5>1
      <4>4. k \in 1..n \/ k = n + 1
        BY <3>4, <4>1
      <4> QED BY <4>2, <4>3, <4>4
    <3>5. SentIntact'
      BY <2>1, <3>3, <3>4 DEF SentIntact
    <3> QED BY <2>4, <3>5 DEF SendInv
  <2> QED BY <2>1, <2>5, <2>6
<1>8. CASE UNCHANGED <<tx, given, wire>> /\ (pc' = "request" => pc = "request")
  BY <1>1, <1>8 DEF SendInv, SentIntact, LastGiven
<1>9. \/ \E len \in TxLengths : PacketSend(len)
      \/ Request \/ CheckError \/ ChipTransmits
      \/ UNCHANGED <<tx, given, wire>> /\ (pc' = "request" => pc = "request")
  BY DEF Next, Driver, vars, receiver, sender, ChipReceives, PacketReceive, ReadHeader, ReadData, Free, Decrement
<1> QED BY <1>4, <1>5, <1>6, <1>7, <1>8, <1>9

(* What the chip transmits are frames it was given, each once, in order    *)
(* and as it was given, for any sizes, if each leaves before the next is   *)
(* sent: enc28j60_packet_send does not wait for that.                      *)
THEOREM SentInOrder ==
  ASSUME PromptMedium
  PROVE  Spec => []SentIntact
<1>1. Init => SendInv
  BY EmptySeq DEF Init, SendInv, SentIntact, LastGiven
<1>2. SendInv => SentIntact
  BY DEF SendInv
<1>3. TypeInv /\ SendInv /\ [Next]_vars => TypeInv' /\ SendInv'
  BY NextTyped, NextSent
<1> QED BY InitTyped, <1>1, <1>2, <1>3, PTL DEF Spec

=============================================================================
