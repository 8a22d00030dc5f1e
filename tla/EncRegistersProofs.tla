------------------------- MODULE EncRegistersProofs -------------------------
(***************************************************************************)
(* That every access of the driver reaches its register, for any number of *)
(* restarts.  The bank is what the driver remembers, except while it is    *)
(* being selected, before the chip is reset at the start of enc28j60_init, *)
(* and before the first access after that, which is to bank 0, the one the *)
(* reset selects.  And that the chip is enabled only when it has been      *)
(* configured, and its PHY left alone while it is busy: the second         *)
(* invariant says what enc28j60_init has written so far, and that a busy   *)
(* PHY is being waited for, unless the chip is about to be reset.          *)
(***************************************************************************)
EXTENDS EncRegisters, SequenceTheorems, TLAPS

Operations == {"write", "read", "poll", "select", "INTIE", "RXEN", "TXRTS", "PKTDEC"}
Registers ==
  Bank1 \cup Bank2 \cup Bank3 \cup Common
    \cup {"ERXST", "ERXRDPT", "ERXND", "ETXST", "ETXND", "ERDPT", "EWRPT"}
Accesses == [op : Operations, reg : Registers]

Coherent ==
  /\ cleared => NeedsBank /\ bank = {}
  /\ ~cleared => \/ bank = Enc28j60Bank
                 \/ program = "init" /\ at = 1
                 \/ program = "init" /\ at = 2 /\ bank = {}

IInv == TypeOK /\ Coherent /\ RightRegister

-----------------------------------------------------------------------------
(* j is the sequence s followed by t. *)
IsJoin(j, s, t, S) ==
  /\ j \in Seq(S) /\ Len(j) = Len(s) + Len(t)
  /\ \A k \in 1..(Len(s) + Len(t)) : j[k] = IF k <= Len(s) THEN s[k] ELSE t[k - Len(s)]

LEMMA Joined ==
  ASSUME NEW S, NEW s \in Seq(S), NEW t \in Seq(S), NEW j, j = s \o t
  PROVE  IsJoin(j, s, t, S)
<1>1. IsJoin(s \o t, s, t, S)
  BY ConcatProperties, Zenon DEF IsJoin
<1> QED BY <1>1, Zenon

LEMMA WritesAreAccesses ==
  ASSUME NEW regs \in Seq(Registers)
  PROVE  /\ Writes(regs) \in Seq(Accesses) /\ Len(Writes(regs)) = Len(regs)
         /\ \A k \in 1..Len(regs) : Writes(regs)[k] = Write(regs[k])
<1>1. /\ DOMAIN regs = 1..Len(regs) /\ Len(regs) \in Nat
      /\ \A k \in 1..Len(regs) : regs[k] \in Registers
  BY LenProperties, ElementOfSeq
<1>2. \A k \in 1..Len(regs) : Write(regs[k]) \in Accesses
  BY <1>1 DEF Write, Accesses, Operations
<1>3. Writes(regs) \in [1..Len(regs) -> Accesses]
  BY <1>1, <1>2 DEF Writes
<1>4. Writes(regs) \in Seq(Accesses)
  BY <1>1, <1>3, SeqDef
<1>5. Len(Writes(regs)) = Len(regs)
  BY <1>1, <1>3, <1>4, LenProperties
<1> QED BY <1>1, <1>4, <1>5 DEF Writes

(* What Configure does, in its order. *)
Rings == <<"ERXST", "ERXRDPT", "ERXND", "ETXST", "ETXND",
           "MACON1", "MACON3", "MACON4", "MACLCON2", "MAIPG", "MAMXFL", "MAADR">>
Filters == <<"ERXFCON", "EPMM", "EPMCS", "MABBIPG">>
Ends == <<Select("ECON1"), Set("INTIE", "EIE")>>

LEMMA ConfigureRows ==
  /\ Configure \in Seq(Accesses) /\ Len(Configure) = 24
  /\ \A k \in 1..12 : Configure[k] = Write(Rings[k])
  /\ \A k \in 13..15 : Configure[k] = enc28j60PhyWrite[k - 12]
  /\ \A k \in 16..18 : Configure[k] = enc28j60PhyWrite[k - 15]
  /\ \A k \in 19..22 : Configure[k] = Write(Filters[k - 18])
  /\ \A k \in 23..24 : Configure[k] = Ends[k - 22]
<1>1. Rings \in Seq(Registers) /\ Len(Rings) = 12
  BY DEF Rings, Registers, Bank1, Bank2, Bank3
<1>2. Filters \in Seq(Registers) /\ Len(Filters) = 4
  BY DEF Filters, Registers, Bank1, Bank2, Bank3
<1>3. enc28j60PhyWrite \in Seq(Accesses) /\ Len(enc28j60PhyWrite) = 3
  <2>1. {Write("MIREGADR"), Write("MIWR"), [op |-> "poll", reg |-> "MISTAT"]} \subseteq Accesses
    BY DEF Write, Accesses, Operations, Registers, Bank2, Bank3
  <2> HIDE DEF Accesses
  <2> QED BY <2>1 DEF enc28j60PhyWrite
<1>4. Ends \in Seq(Accesses) /\ Len(Ends) = 2
  <2>1. {Select("ECON1"), Set("INTIE", "EIE")} \subseteq Accesses
    BY DEF Select, Set, Accesses, Operations, Registers, Common
  <2> HIDE DEF Accesses
  <2> QED BY <2>1 DEF Ends
<1> DEFINE one == Writes(Rings)
           two == one \o enc28j60PhyWrite
           three == two \o enc28j60PhyWrite
           filters == Writes(Filters)
           four == three \o filters
<1> HIDE DEF Accesses
<1>5. /\ one \in Seq(Accesses) /\ Len(one) = 12
      /\ \A k \in 1..12 : one[k] = Write(Rings[k])
  BY <1>1, WritesAreAccesses
<1>6. /\ filters \in Seq(Accesses) /\ Len(filters) = 4
      /\ \A k \in 1..4 : filters[k] = Write(Filters[k])
  BY <1>2, WritesAreAccesses
<1>0. /\ two = one \o enc28j60PhyWrite /\ three = two \o enc28j60PhyWrite /\ four = three \o filters
      /\ Configure = four \o Ends
  BY DEF Configure, Rings, Filters, Ends
<1> HIDE DEF one, filters, two, three, four
<1>7. /\ two \in Seq(Accesses) /\ Len(two) = 15
      /\ \A k \in 1..15 : two[k] = IF k <= 12 THEN one[k] ELSE enc28j60PhyWrite[k - 12]
  <2>1. IsJoin(two, one, enc28j60PhyWrite, Accesses)
    BY <1>0, <1>3, <1>5, Joined, Zenon
  <2> QED BY <2>1, <1>3, <1>5 DEF IsJoin
<1>8. /\ three \in Seq(Accesses) /\ Len(three) = 18
      /\ \A k \in 1..18 : three[k] = IF k <= 15 THEN two[k] ELSE enc28j60PhyWrite[k - 15]
  <2>1. IsJoin(three, two, enc28j60PhyWrite, Accesses)
    BY <1>0, <1>3, <1>7, Joined, Zenon
  <2> QED BY <2>1, <1>3, <1>7 DEF IsJoin
<1>9. /\ four \in Seq(Accesses) /\ Len(four) = 22
      /\ \A k \in 1..22 : four[k] = IF k <= 18 THEN three[k] ELSE filters[k - 18]
  <2>1. IsJoin(four, three, filters, Accesses)
    BY <1>0, <1>6, <1>8, Joined, Zenon
  <2> QED BY <2>1, <1>6, <1>8 DEF IsJoin
<1>11. /\ Configure \in Seq(Accesses) /\ Len(Configure) = 24
      /\ \A k \in 1..24 : Configure[k] = IF k <= 22 THEN four[k] ELSE Ends[k - 22]
  <2>1. IsJoin(Configure, four, Ends, Accesses)
    BY <1>0, <1>4, <1>9, Joined, Zenon
  <2> QED BY <2>1, <1>4, <1>9 DEF IsJoin
<1>12. Configure \in Seq(Accesses) /\ Len(Configure) = 24
  BY <1>11
<1>13. ASSUME NEW k \in 1..12 PROVE Configure[k] = Write(Rings[k])
  <2>1. k \in 1..15 /\ k \in 1..18 /\ k \in 1..22 /\ k \in 1..24 /\ k <= 12 /\ k <= 15 /\ k <= 18 /\ k <= 22
    OBVIOUS
  <2> QED BY <2>1, <1>5, <1>7, <1>8, <1>9, <1>11, ZenonT(30)
<1>14. ASSUME NEW k \in 13..15 PROVE Configure[k] = enc28j60PhyWrite[k - 12]
  <2>1. k \in 1..15 /\ k \in 1..18 /\ k \in 1..22 /\ k \in 1..24 /\ ~(k <= 12) /\ k <= 15 /\ k <= 18 /\ k <= 22
    OBVIOUS
  <2> QED BY <2>1, <1>7, <1>8, <1>9, <1>11, ZenonT(30)
<1>15. ASSUME NEW k \in 16..18 PROVE Configure[k] = enc28j60PhyWrite[k - 15]
  <2>1. k \in 1..18 /\ k \in 1..22 /\ k \in 1..24 /\ ~(k <= 15) /\ k <= 18 /\ k <= 22
    OBVIOUS
  <2> QED BY <2>1, <1>8, <1>9, <1>11, Zenon
<1>16. ASSUME NEW k \in 19..22 PROVE Configure[k] = Write(Filters[k - 18])
  <2>1. k \in 1..22 /\ k \in 1..24 /\ ~(k <= 18) /\ k <= 22 /\ k - 18 \in 1..4
    OBVIOUS
  <2> QED BY <2>1, <1>6, <1>9, <1>11, Zenon
<1>17. ASSUME NEW k \in 23..24 PROVE Configure[k] = Ends[k - 22]
  <2>1. k \in 1..24 /\ ~(k <= 22)
    OBVIOUS
  <2> QED BY <2>1, <1>11, Zenon
<1> QED BY <1>12, <1>13, <1>14, <1>15, <1>16, <1>17, Zenon

(* enc28j60_init: the reset, what Configure does, and then the enabling. *)
LEMMA InitRows ==
  /\ DOMAIN enc28j60_init = 1..26 /\ Len(enc28j60_init) = 26
  /\ enc28j60_init[1] = Reset /\ enc28j60_init[26] = Set("RXEN", "ECON1")
  /\ \A k \in 2..25 : enc28j60_init[k] = Configure[k - 1] /\ enc28j60_init[k] \in Accesses
<1> DEFINE All == Accesses \cup {Reset}
           enabled == <<Set("RXEN", "ECON1")>>
           reset == <<Reset>>
           start == reset \o Configure
<1>1. Set("RXEN", "ECON1") \in Accesses
  BY DEF Set, Accesses, Operations, Registers, Common
<1>2. Configure \in Seq(All) /\ Len(Configure) = 24
  <2> HIDE DEF Accesses
  <2> QED BY ConfigureRows, ElementOfSeq, LenProperties, SeqDef
<1>3. reset \in Seq(All) /\ enabled \in Seq(All) /\ Len(reset) = 1 /\ Len(enabled) = 1
  <2> HIDE DEF Accesses
  <2> QED BY <1>1
<1>4. reset[1] = Reset /\ enabled[1] = Set("RXEN", "ECON1")
  OBVIOUS
<1>0. start = reset \o Configure /\ enc28j60_init = start \o enabled
  BY DEF enc28j60_init
<1> HIDE DEF All, enabled, reset, start
<1>5. /\ start \in Seq(All) /\ Len(start) = 25
      /\ \A k \in 1..25 : start[k] = IF k <= 1 THEN reset[k] ELSE Configure[k - 1]
  <2>1. IsJoin(start, reset, Configure, All)
    BY <1>0, <1>2, <1>3, Joined, Zenon
  <2> QED BY <2>1, <1>2, <1>3 DEF IsJoin
<1>6. /\ enc28j60_init \in Seq(All) /\ Len(enc28j60_init) = 26
      /\ \A k \in 1..26 : enc28j60_init[k] = IF k <= 25 THEN start[k] ELSE enabled[k - 25]
  <2>1. IsJoin(enc28j60_init, start, enabled, All)
    BY <1>0, <1>3, <1>5, Joined, Zenon
  <2> QED BY <2>1, <1>3, <1>5 DEF IsJoin
<1>7. \A k \in 1..24 : Configure[k] \in Accesses
  <2> HIDE DEF Accesses
  <2> QED BY ConfigureRows, ElementOfSeq
<1>8. DOMAIN enc28j60_init = 1..26
  BY <1>6, LenProperties
<1>9. enc28j60_init[1] = Reset
  <2>1. start[1] = reset[1]
    BY <1>5
  <2> QED BY <2>1, <1>6, <1>4, SMTT(30)
<1>10. enc28j60_init[26] = Set("RXEN", "ECON1")
  BY <1>6, <1>4
<1>11. ASSUME NEW k \in 2..25
       PROVE  enc28j60_init[k] = Configure[k - 1] /\ enc28j60_init[k] \in Accesses
  <2>1. k \in 1..25 /\ ~(k <= 1) /\ k - 1 \in 1..24 /\ k \in 1..26 /\ k <= 25
    OBVIOUS
  <2>2. start[k] = Configure[k - 1]
    BY <1>5, <2>1, Zenon
  <2>3. enc28j60_init[k] = start[k]
    BY <1>6, <2>1, Zenon
  <2> QED BY <1>7, <2>1, <2>2, <2>3, Zenon
<1> QED BY <1>6, <1>8, <1>9, <1>10, <1>11

(* The chip is reset by the first access of enc28j60_init, and by no other. *)
LEMMA ResetFirst ==
  ASSUME NEW k \in DOMAIN enc28j60_init
  PROVE  /\ k = 1 => enc28j60_init[k] = Reset
         /\ k = 2 => enc28j60_init[k] = Write("ERXST")
         /\ k # 1 => enc28j60_init[k] \in Accesses
<1>1. Set("RXEN", "ECON1") \in Accesses
  BY DEF Set, Accesses, Operations, Registers, Common
<1>2. Configure[1] = Write("ERXST")
  <2>1. Rings[1] = "ERXST"
    BY DEF Rings
  <2> QED BY <2>1, ConfigureRows, SMTT(30)
<1> HIDE DEF Accesses
<1> QED BY <1>1, <1>2, InitRows

LEMMA InitCode ==
  DOMAIN enc28j60_init = 1..Len(enc28j60_init) /\ Len(enc28j60_init) \in Nat /\ Len(enc28j60_init) > 2
BY InitRows

LEMMA CodeFacts ==
  ASSUME NEW p \in DOMAIN Code, NEW k \in DOMAIN Code[p]
  PROVE  /\ Code[p][k].op = "reset" <=> p = "init" /\ k = 1
         /\ p = "init" /\ k = 2 => Code[p][k] = Write("ERXST")
         /\ Code[p] = IF p = "init" THEN enc28j60_init
                      ELSE IF p = "receive" THEN enc28j60_packet_receive ELSE enc28j60_packet_send
         /\ DOMAIN Code[p] = 1..Len(Code[p]) /\ Len(Code[p]) \in Nat
<1>1. p \in {"init", "receive", "send"}
  BY DEF Code
<1>2. CASE p = "init"
  <2>1. Code[p] = enc28j60_init
    BY <1>2 DEF Code
  <2>2. \A a \in Accesses : a.op # "reset"
    BY DEF Accesses, Operations
  <2>3. Reset.op = "reset"
    BY DEF Reset
  <2> HIDE DEF Accesses
  <2> QED BY <1>2, <2>1, <2>2, <2>3, ResetFirst, InitCode
<1>3. CASE p = "receive"
  <2>1. Code[p] = enc28j60_packet_receive
    BY <1>3 DEF Code
  <2>2. k \in 1..4
    BY <2>1 DEF enc28j60_packet_receive
  <2>3. Code[p][k].op \in {"read", "write", "PKTDEC"}
    BY <2>1, <2>2 DEF enc28j60_packet_receive, Read, Write, Set
  <2> QED BY <1>3, <2>1, <2>2, <2>3 DEF enc28j60_packet_receive
<1>4. CASE p = "send"
  <2>1. Code[p] = enc28j60_packet_send
    BY <1>4 DEF Code
  <2>2. k \in 1..4
    BY <2>1 DEF enc28j60_packet_send
  <2>3. Code[p][k].op \in {"read", "write", "TXRTS"}
    BY <2>1, <2>2 DEF enc28j60_packet_send, Read, Write, Set
  <2> QED BY <1>4, <2>1, <2>2, <2>3 DEF enc28j60_packet_send
<1> QED BY <1>1, <1>2, <1>3, <1>4

LEMMA BankOfSubset == ASSUME NEW r PROVE BankOf(r) \subseteq {"BSEL0", "BSEL1"}
BY DEF BankOf

-----------------------------------------------------------------------------
LEMMA InitHolds == Init => IInv
<1> SUFFICES ASSUME Init PROVE IInv
  OBVIOUS
<1>1. 1 \in DOMAIN Code["init"] /\ "init" \in DOMAIN Code
  <2>1. Code["init"] = enc28j60_init /\ "init" \in DOMAIN Code
    BY DEF Code
  <2> QED BY <2>1, InitCode
<1>2. program \in DOMAIN Code /\ at \in DOMAIN Code[program]
  BY <1>1 DEF Init
<1>3. /\ {Enc28j60Bank, bank} \subseteq SUBSET {"BSEL0", "BSEL1"}
      /\ {cleared, busy, rxen} \subseteq BOOLEAN
  BY DEF Init
<1>4. restarts \in 0..MaxRestarts
  BY RestartAssumption DEF Init
<1>5. TypeOK
  BY <1>2, <1>3, <1>4 DEF TypeOK
<1> QED BY <1>5 DEF Init, IInv, Coherent, RightRegister, Quiet

LEMMA DoneTypes ==
  ASSUME TypeOK, ~Idle, Done
  PROVE  /\ Idle' \/ (program' \in DOMAIN Code /\ at' \in DOMAIN Code[program'])
         /\ Idle' \/ (program' = program /\ at' = at + 1)
<1>1. program \in DOMAIN Code /\ at \in DOMAIN Code[program]
  BY DEF TypeOK
<1>2. DOMAIN Code[program] = 1..Len(Code[program]) /\ Len(Code[program]) \in Nat
  BY <1>1, CodeFacts
<1>3. CASE at = Len(Code[program])
  BY <1>3 DEF Done, Idle
<1>4. CASE at # Len(Code[program])
  <2>1. program' = program /\ at' = at + 1
    BY <1>4 DEF Done
  <2>2. at + 1 \in 1..Len(Code[program])
    BY <1>1, <1>2, <1>4
  <2> QED BY <1>1, <1>2, <2>1, <2>2
<1> QED BY <1>3, <1>4

(* What is reached when the bank has been selected. *)
LEMMA ReadyReaches ==
  ASSUME IInv, Ready, NeedsBank, NEW r, r = Access.reg
  PROVE  Went(r).reached = Went(r).meant
<1>1. ~Idle /\ ~cleared /\ Enc28j60Bank = BankOf(r)
  BY DEF Ready, Selected
<1>2. program \in DOMAIN Code /\ at \in DOMAIN Code[program]
  BY <1>1 DEF IInv, TypeOK
<1>3. Access.op # "reset"
  BY DEF NeedsBank
<1>4. ~(program = "init" /\ at = 1)
  BY <1>2, <1>3, CodeFacts DEF Access
<1>5. CASE bank = Enc28j60Bank
  BY <1>1, <1>5 DEF Went
<1>6. CASE program = "init" /\ at = 2 /\ bank = {}
  <2>1. r = "ERXST"
    BY <1>2, <1>6, CodeFacts DEF Access, Write
  <2>2. BankOf(r) = {}
    BY <2>1 DEF BankOf, AddressBits, Bank1, Bank2, Bank3
  <2> QED BY <1>6, <2>2 DEF Went
<1> QED BY <1>1, <1>4, <1>5, <1>6 DEF IInv, Coherent

LEMMA Settled ==
  ASSUME IInv, Ready, Access.op # "reset",
         NeedsBank \/ ~(program = "init" /\ at = 2)
  PROVE  bank = Enc28j60Bank
<1>1. program \in DOMAIN Code /\ at \in DOMAIN Code[program] /\ ~cleared
  BY DEF Ready, IInv, TypeOK
<1>2. ~(program = "init" /\ at = 1)
  BY <1>1, CodeFacts DEF Access
<1>3. CASE program = "init" /\ at = 2 /\ bank = {}
  <2>1. Access = Write("ERXST")
    BY <1>1, <1>3, CodeFacts DEF Access
  <2>2. Enc28j60Bank = BankOf("ERXST")
    BY <1>3, <2>1 DEF Ready, Selected, Write
  <2>3. BankOf("ERXST") = {}
    BY DEF BankOf, AddressBits, Bank1, Bank2, Bank3
  <2> QED BY <1>3, <2>2, <2>3
<1> QED BY <1>1, <1>2, <1>3 DEF IInv, Coherent

LEMMA ClearBankStep == ASSUME IInv, ClearBank PROVE IInv'
<1>1. program' = program /\ at' = at /\ NeedsBank /\ cleared' = TRUE /\ bank' = {}
  BY DEF ClearBank
<1>2. TypeOK'
  BY <1>1 DEF ClearBank, IInv, TypeOK, Idle
<1>3. NeedsBank'
  BY <1>1 DEF NeedsBank, Idle, Access
<1> QED BY <1>1, <1>2, <1>3 DEF ClearBank, IInv, Coherent, RightRegister, Quiet

LEMMA SetBankStep == ASSUME IInv, SetBank PROVE IInv'
<1>1. program' = program /\ at' = at /\ cleared' = FALSE /\ cleared /\ NeedsBank
  BY DEF SetBank
<1>2. bank = {}
  BY <1>1 DEF IInv, Coherent
<1>3. bank' = Enc28j60Bank'
  BY <1>2 DEF SetBank
<1>4. Enc28j60Bank' \in SUBSET {"BSEL0", "BSEL1"}
  BY BankOfSubset DEF SetBank
<1>5. TypeOK'
  BY <1>1, <1>3, <1>4 DEF SetBank, IInv, TypeOK, Idle
<1> QED BY <1>1, <1>3, <1>5 DEF SetBank, IInv, Coherent, RightRegister, Quiet

(* An access that needs no new bank is done: the program goes on or ends. *)
LEMMA AccessStep ==
  ASSUME IInv, Ready, Access.op # "reset", NeedsBank \/ ~(program = "init" /\ at = 2),
         Done \/ program' = "idle" \/ UNCHANGED <<program, at>>,
         UNCHANGED <<Enc28j60Bank, cleared, bank, restarts>>,
         busy' \in BOOLEAN, rxen' \in BOOLEAN, last'.reached = last'.meant
  PROVE  IInv'
<1>1. bank = Enc28j60Bank /\ ~cleared
  BY Settled DEF Ready
<1>2. Coherent'
  BY <1>1 DEF Coherent
<1>3. Idle' \/ (program' \in DOMAIN Code /\ at' \in DOMAIN Code[program'])
  <2>1. CASE Done
    BY <2>1, DoneTypes DEF IInv, Ready
  <2>2. CASE program' = "idle"
    BY <2>2 DEF Idle
  <2>3. CASE UNCHANGED <<program, at>>
    BY <2>3 DEF IInv, TypeOK, Ready
  <2> QED BY <2>1, <2>2, <2>3
<1>4. TypeOK'
  BY <1>3 DEF IInv, TypeOK
<1> QED BY <1>2, <1>4 DEF IInv, RightRegister

LEMMA WriteStep == ASSUME IInv, enc28j60Write PROVE IInv'
<1>1. Ready /\ Access.op = "write" /\ NeedsBank
  BY DEF enc28j60Write, Ready, NeedsBank
<1>2. last'.reached = last'.meant
  BY <1>1, ReadyReaches DEF enc28j60Write
<1>3. busy' \in BOOLEAN /\ rxen' \in BOOLEAN
  BY DEF enc28j60Write, IInv, TypeOK
<1> QED BY <1>1, <1>2, <1>3, AccessStep DEF enc28j60Write

LEMMA ReadStep == ASSUME IInv, enc28j60Read PROVE IInv'
<1>1. Ready /\ Access.op = "read" /\ NeedsBank
  BY DEF enc28j60Read, Ready, NeedsBank
<1>2. last'.reached = last'.meant
  BY <1>1, ReadyReaches DEF enc28j60Read
<1>3. busy' \in BOOLEAN /\ rxen' \in BOOLEAN
  BY DEF enc28j60Read, chip, IInv, TypeOK
<1> QED BY <1>1, <1>2, <1>3, AccessStep DEF enc28j60Read, chip

LEMMA PollStep == ASSUME IInv, Poll PROVE IInv'
<1>1. Ready /\ Access.op = "poll" /\ NeedsBank
  BY DEF Poll, Ready, NeedsBank
<1>2. last'.reached = last'.meant
  BY <1>1, ReadyReaches DEF Poll
<1>3. busy' \in BOOLEAN /\ rxen' \in BOOLEAN
  BY DEF Poll, chip, IInv, TypeOK
<1> QED BY <1>1, <1>2, <1>3, AccessStep DEF Poll, chip

LEMMA WriteOpStep == ASSUME IInv, enc28j60WriteOp PROVE IInv'
<1>1. Ready /\ Access.op \in {"INTIE", "RXEN", "TXRTS", "PKTDEC", "select"}
  BY DEF enc28j60WriteOp
<1>2. Access.op # "write" /\ Access.op # "reset"
  BY <1>1
<1>3. ~(program = "init" /\ at = 2)
  <2>1. program \in DOMAIN Code /\ at \in DOMAIN Code[program]
    BY <1>1 DEF Ready, IInv, TypeOK
  <2> QED BY <1>2, <2>1, CodeFacts DEF Access, Write
<1>4. last'.reached = last'.meant
  BY DEF enc28j60WriteOp, Quiet
<1>5. busy' \in BOOLEAN /\ rxen' \in BOOLEAN
  BY DEF enc28j60WriteOp, IInv, TypeOK
<1> QED BY <1>1, <1>2, <1>3, <1>4, <1>5, AccessStep DEF enc28j60WriteOp

(* The reset leaves bank 0, and the access after it is the write to ERXST. *)
LEMMA SoftResetStep == ASSUME IInv, SoftReset PROVE IInv'
<1>1. Ready /\ Access.op = "reset" /\ ~Idle /\ ~cleared
  BY DEF SoftReset, Ready
<1>2. program \in DOMAIN Code /\ at \in DOMAIN Code[program]
  BY <1>1 DEF IInv, TypeOK
<1>3. program = "init" /\ at = 1
  BY <1>1, <1>2, CodeFacts DEF Access
<1>4. Code["init"] = enc28j60_init
  BY DEF Code
<1>5. at # Len(Code[program])
  BY <1>3, <1>4, InitCode
<1>6. program' = "init" /\ at' = 2
  BY <1>3, <1>5 DEF SoftReset, Done
<1>7. program' \in DOMAIN Code /\ at' \in DOMAIN Code[program']
  BY <1>2, <1>3, <1>4, <1>6, InitCode
<1>8. TypeOK'
  BY <1>7 DEF SoftReset, IInv, TypeOK
<1> QED BY <1>1, <1>6, <1>8 DEF SoftReset, IInv, Coherent, RightRegister, Quiet

(* The other steps either leave driver and bank alone or begin a program.  *)
LEMMA OtherSteps ==
  ASSUME IInv, MiiDone \/ Restart \/ (\E p \in {"init", "receive", "send"} : Call(p))
  PROVE  IInv'
<1>1. CASE MiiDone
  <2>1. TypeOK'
    BY <1>1 DEF MiiDone, driver, IInv, TypeOK, Idle
  <2>2. Coherent'
    BY <1>1 DEF MiiDone, driver, IInv, Coherent, NeedsBank, Idle, Access
  <2> QED BY <1>1, <2>1, <2>2 DEF MiiDone, IInv, RightRegister, Quiet
<1>2. \A p \in {"init", "receive", "send"} : p \in DOMAIN Code /\ 1 \in DOMAIN Code[p]
  <2>1. Code["init"] = enc28j60_init /\ {"init", "receive", "send"} \subseteq DOMAIN Code
    BY DEF Code
  <2>2. 1 \in DOMAIN Code["receive"] /\ 1 \in DOMAIN Code["send"]
    BY DEF Code, enc28j60_packet_receive, enc28j60_packet_send
  <2> QED BY <2>1, <2>2, InitCode
<1>3. CASE Restart
  <2>1. program' \in DOMAIN Code /\ at' \in DOMAIN Code[program']
    BY <1>2, <1>3 DEF Restart
  <2>2. restarts' \in 0..MaxRestarts
    BY <1>3, RestartAssumption DEF Restart, IInv, TypeOK
  <2>3. TypeOK'
    BY <1>3, <2>1, <2>2 DEF Restart, chip, IInv, TypeOK
  <2> QED BY <1>3, <2>3 DEF Restart, IInv, Coherent, RightRegister, Quiet
<1>4. ASSUME NEW p \in {"init", "receive", "send"}, Call(p) PROVE IInv'
  <2>1. ~cleared /\ bank = Enc28j60Bank
    BY <1>4 DEF Call, IInv, Coherent, NeedsBank, Idle
  <2>2. program' \in DOMAIN Code /\ at' \in DOMAIN Code[program']
    BY <1>2, <1>4 DEF Call
  <2>3. TypeOK'
    BY <1>4, <2>2 DEF Call, chip, IInv, TypeOK
  <2> QED BY <1>4, <2>1, <2>3 DEF Call, chip, IInv, Coherent, RightRegister, Quiet
<1> QED BY <1>1, <1>3, <1>4

LEMMA StepKeeps == IInv /\ [Next]_vars => IInv'
<1> SUFFICES ASSUME IInv, [Next]_vars PROVE IInv'
  OBVIOUS
<1>1. CASE UNCHANGED vars
  <2>1. TypeOK'
    BY <1>1 DEF vars, driver, chip, IInv, TypeOK, Idle
  <2>2. Coherent'
    BY <1>1 DEF vars, driver, chip, IInv, Coherent, NeedsBank, Idle, Access
  <2> QED BY <1>1, <2>1, <2>2 DEF vars, IInv, RightRegister
<1>2. CASE Driver
  BY <1>2, ClearBankStep, SetBankStep, WriteStep, ReadStep, PollStep, WriteOpStep, SoftResetStep
     DEF Driver
<1> QED BY <1>1, <1>2, OtherSteps DEF Next

-----------------------------------------------------------------------------
(* The driver stays within its programs, and knows the banks there are.    *)
THEOREM TypeCorrect == Spec => []TypeOK
<1>1. IInv => TypeOK
  BY DEF IInv
<1> QED BY InitHolds, StepKeeps, <1>1, PTL DEF Spec

(* Every access reaches the register it is meant for, although             *)
(* enc28j60SetBank trusts what it remembers: after any number of restarts  *)
(* of the AVR, within any access, and of calls of NetInit.                 *)
THEOREM RightRegisters == Spec => []RightRegister
<1>1. IInv => RightRegister
  BY DEF IInv
<1> QED BY InitHolds, StepKeeps, <1>1, PTL DEF Spec
-----------------------------------------------------------------------------
(* What is configured so far, and that the PHY is waited for.              *)
Needed == {"ERXST", "ERXND", "ERXRDPT", "MACON1", "MAMXFL", "MAADR", "ERXFCON", "EPMM", "EPMCS"}

Progress ==
  program = "init" /\ at > 1 =>
    \A j \in 2..(at - 1) : enc28j60_init[j].op = "write" => enc28j60_init[j].reg \in written

Waited == busy => program = "init" /\ (at = 1 \/ Access.op = "poll")

Full == IInv /\ Progress /\ ReceivesConfigured /\ Waited /\ PhyUndisturbed

LEMMA PhyRows ==
  /\ Configure[13] = enc28j60PhyWrite[1] /\ Configure[14] = enc28j60PhyWrite[2]
  /\ Configure[15] = enc28j60PhyWrite[3] /\ Configure[16] = enc28j60PhyWrite[1]
  /\ Configure[17] = enc28j60PhyWrite[2] /\ Configure[18] = enc28j60PhyWrite[3]
  /\ Configure[23] = Ends[1] /\ Configure[24] = Ends[2]
<1>1. /\ 13 \in 13..15 /\ 14 \in 13..15 /\ 15 \in 13..15 /\ 16 \in 16..18 /\ 17 \in 16..18 /\ 18 \in 16..18
      /\ 23 \in 23..24 /\ 24 \in 23..24
      /\ 13 - 12 = 1 /\ 14 - 12 = 2 /\ 15 - 12 = 3 /\ 16 - 15 = 1 /\ 17 - 15 = 2 /\ 18 - 15 = 3
      /\ 23 - 22 = 1 /\ 24 - 22 = 2
  OBVIOUS
<1>2. /\ Configure[13] = enc28j60PhyWrite[13 - 12] /\ Configure[14] = enc28j60PhyWrite[14 - 12]
      /\ Configure[15] = enc28j60PhyWrite[15 - 12] /\ Configure[16] = enc28j60PhyWrite[16 - 15]
      /\ Configure[17] = enc28j60PhyWrite[17 - 15] /\ Configure[18] = enc28j60PhyWrite[18 - 15]
      /\ Configure[23] = Ends[23 - 22] /\ Configure[24] = Ends[24 - 22]
  BY <1>1, ConfigureRows, Zenon
<1> QED BY <1>1, <1>2, Zenon

(* The wait for the PHY follows each write to MIWR, and nothing in         *)
(* Configure enables reception.                                            *)
LEMMA ConfigureOrder ==
  ASSUME NEW k \in 1..24
  PROVE  /\ Configure[k].op # "RXEN"
         /\ Configure[k].op = "poll" => Configure[k].reg = "MISTAT"
         /\ Configure[k].op = "write" /\ Configure[k].reg = "MIWR" =>
              k + 1 \in 1..24 /\ Configure[k + 1].op = "poll"
<1>1. /\ \A j \in 1..12 : Rings[j] # "MIWR"
      /\ \A j \in 1..4 : Filters[j] # "MIWR"
  BY DEF Rings, Filters
<1>2. /\ enc28j60PhyWrite[1] = Write("MIREGADR") /\ enc28j60PhyWrite[2] = Write("MIWR")
      /\ enc28j60PhyWrite[3] = [op |-> "poll", reg |-> "MISTAT"]
  BY DEF enc28j60PhyWrite
<1>3. Ends[1] = Select("ECON1") /\ Ends[2] = Set("INTIE", "EIE")
  BY DEF Ends
<1>4. CASE k <= 12 \/ k \in 19..22
  <2>1. PICK r : Configure[k] = Write(r) /\ r # "MIWR"
    <3>1. CASE k <= 12
      <4>1. k \in 1..12
        BY <3>1
      <4> QED BY <1>1, <4>1, ConfigureRows, Zenon
    <3>2. CASE k \in 19..22
      <4>1. Configure[k] = Write(Filters[k - 18])
        BY <3>2, ConfigureRows, Zenon
      <4>2. k - 18 \in 1..4
        BY <3>2
      <4> QED BY <1>1, <4>1, <4>2
    <3> QED BY <1>4, <3>1, <3>2
  <2> QED BY <2>1 DEF Write
<1>5. CASE k \in {13, 16}
  <2>1. Configure[k] = enc28j60PhyWrite[1]
    BY <1>5, PhyRows
  <2> QED BY <1>2, <2>1 DEF Write
<1>6. CASE k \in {14, 17}
  <2>1. Configure[k] = enc28j60PhyWrite[2] /\ Configure[k + 1] = enc28j60PhyWrite[3]
    BY <1>6, PhyRows
  <2> QED BY <1>2, <1>6, <2>1 DEF Write
<1>7. CASE k \in {15, 18}
  <2>1. Configure[k] = enc28j60PhyWrite[3]
    BY <1>7, PhyRows
  <2> QED BY <1>2, <2>1
<1>8. CASE k \in {23, 24}
  <2>1. Configure[k] = Ends[1] \/ Configure[k] = Ends[2]
    BY <1>8, PhyRows
  <2> QED BY <1>3, <2>1 DEF Select, Set
<1> QED BY <1>4, <1>5, <1>6, <1>7, <1>8

(* Every register that reception needs is written on the way. *)
LEMMA NeededWritten ==
  ASSUME NEW r \in Needed PROVE \E k \in 2..25 : enc28j60_init[k] = Write(r)
<1>1. \/ \E j \in 1..12 : Rings[j] = r
      \/ \E j \in 1..4 : Filters[j] = r
  <2>1. \A j \in 1..12 : Rings[j] = <<"ERXST", "ERXRDPT", "ERXND", "ETXST", "ETXND", "MACON1", "MACON3",
                                      "MACON4", "MACLCON2", "MAIPG", "MAMXFL", "MAADR">>[j]
    BY DEF Rings
  <2>2. /\ Rings[1] = "ERXST" /\ Rings[2] = "ERXRDPT" /\ Rings[3] = "ERXND"
        /\ Rings[6] = "MACON1" /\ Rings[11] = "MAMXFL" /\ Rings[12] = "MAADR"
    BY DEF Rings
  <2>3. Filters[1] = "ERXFCON" /\ Filters[2] = "EPMM" /\ Filters[3] = "EPMCS"
    BY DEF Filters
  <2>4. {1, 2, 3, 6, 11, 12} \subseteq 1..12 /\ {1, 2, 3} \subseteq 1..4
    OBVIOUS
  <2> QED BY <2>2, <2>3, <2>4, Zenon DEF Needed
<1>2. ASSUME NEW j \in 1..12, Rings[j] = r PROVE \E k \in 2..25 : enc28j60_init[k] = Write(r)
  <2>1. Configure[j] = Write(r)
    BY <1>2, ConfigureRows
  <2>2. j + 1 \in 2..25 /\ (j + 1) - 1 = j
    OBVIOUS
  <2> QED BY <2>1, <2>2, InitRows
<1>3. ASSUME NEW j \in 1..4, Filters[j] = r PROVE \E k \in 2..25 : enc28j60_init[k] = Write(r)
  <2>1. Configure[j + 18] = Write(Filters[(j + 18) - 18])
    <3>1. j + 18 \in 19..22
      OBVIOUS
    <3> QED BY <3>1, ConfigureRows, Zenon
  <2>2. j + 19 \in 2..25 /\ (j + 19) - 1 = j + 18 /\ (j + 18) - 18 = j
    OBVIOUS
  <2> QED BY <1>3, <2>1, <2>2, InitRows
<1> QED BY <1>1, <1>2, <1>3

(* What the driver's programs do with the chip. *)
LEMMA ChipFacts ==
  ASSUME NEW p \in DOMAIN Code, NEW k \in DOMAIN Code[p]
  PROVE  /\ Code[p][k].op = "RXEN" => p = "init" /\ k = 26
         /\ Code[p][k].op = "poll" => p = "init" /\ Code[p][k].reg = "MISTAT"
         /\ Code[p][k].op = "write" /\ Code[p][k].reg = "MIWR" =>
              p = "init" /\ k + 1 \in 2..25 /\ Code[p][k + 1].op = "poll"
         /\ Code[p][k].op = "read" => Code[p][k].reg \notin {"MIREGADR", "MIWR"}
<1>1. p \in {"init", "receive", "send"}
  BY DEF Code
<1>2. CASE p = "init"
  <2>1. Code[p] = enc28j60_init /\ k \in 1..26
    BY <1>2, InitRows DEF Code
  <2>2. CASE k = 1
    BY <1>2, <2>1, <2>2, InitRows DEF Reset
  <2>3. CASE k = 26
    BY <1>2, <2>1, <2>3, InitRows DEF Set
  <2>4. CASE k \in 2..25
    <3>1. k - 1 \in 1..24 /\ enc28j60_init[k] = Configure[k - 1]
      BY <2>4, InitRows
    <3>2. Configure[k - 1].op = "write" /\ Configure[k - 1].reg = "MIWR" =>
            k + 1 \in 2..25 /\ enc28j60_init[k + 1].op = "poll"
      <4>1. (k - 1) + 1 \in 1..24 => k + 1 \in 2..25 /\ (k - 1) + 1 = (k + 1) - 1
        BY <2>4
      <4> QED BY <3>1, <4>1, ConfigureOrder, InitRows
    <3>3. Configure[k - 1].op # "read"
      <4>1. Configure[k - 1].op \in {"write", "poll", "select", "INTIE"}
        <5>1. \A j \in 1..3 : enc28j60PhyWrite[j].op \in {"write", "poll"}
          BY DEF enc28j60PhyWrite, Write
        <5>2. \A j \in 1..2 : Ends[j].op \in {"select", "INTIE"}
          BY DEF Ends, Select, Set
        <5>3. \A q : Write(q).op = "write"
          BY DEF Write
        <5>4. CASE k - 1 \in 1..12 \/ k - 1 \in 19..22
          BY <5>3, <5>4, ConfigureRows, ZenonT(30)
        <5>5. CASE k - 1 \in 13..15
          <6>1. (k - 1) - 12 \in 1..3
            BY <5>5
          <6> QED BY <5>1, <5>5, <6>1, ConfigureRows, Zenon
        <5>6. CASE k - 1 \in 16..18
          <6>1. (k - 1) - 15 \in 1..3
            BY <5>6
          <6> QED BY <5>1, <5>6, <6>1, ConfigureRows, Zenon
        <5>7. CASE k - 1 \in 23..24
          <6>1. (k - 1) - 22 \in 1..2
            BY <5>7
          <6> QED BY <5>2, <5>7, <6>1, ConfigureRows, Zenon
        <5> QED BY <3>1, <5>4, <5>5, <5>6, <5>7
      <4> QED BY <4>1
    <3> QED BY <1>2, <2>1, <3>1, <3>2, <3>3, ConfigureOrder
  <2> QED BY <2>1, <2>2, <2>3, <2>4
<1>3. CASE p = "receive"
  <2>1. Code[p] = enc28j60_packet_receive
    BY <1>3 DEF Code
  <2> QED BY <2>1 DEF enc28j60_packet_receive, Read, Write, Set
<1>4. CASE p = "send"
  <2>1. Code[p] = enc28j60_packet_send
    BY <1>4 DEF Code
  <2> QED BY <2>1 DEF enc28j60_packet_send, Read, Write, Set
<1> QED BY <1>1, <1>2, <1>3, <1>4

LEMMA FullInit == Init => Full
<1> SUFFICES ASSUME Init PROVE Full
  OBVIOUS
<1>1. ~(at > 1) /\ ~rxen /\ ~busy /\ ~last.disturbs
  BY DEF Init, Quiet
<1> QED BY <1>1, InitHolds DEF Full, Progress, ReceivesConfigured, Waited, PhyUndisturbed

LEMMA Running ==
  ASSUME TypeOK, ~Idle
  PROVE  program \in DOMAIN Code /\ at \in DOMAIN Code[program] /\ at \in Nat /\ at > 0
<1>1. program \in DOMAIN Code /\ at \in DOMAIN Code[program]
  BY DEF TypeOK
<1> QED BY <1>1, CodeFacts

LEMMA NotBusy ==
  ASSUME Full, Ready, Access.op \notin {"reset", "poll"} PROVE busy = FALSE
<1>1. program \in DOMAIN Code /\ at \in DOMAIN Code[program]
  BY Running DEF Full, IInv, Ready
<1>2. ~(program = "init" /\ at = 1)
  BY <1>1, CodeFacts DEF Access
<1> QED BY <1>2 DEF Full, Waited, IInv, TypeOK

(* A program that goes on has done what it is past. *)
LEMMA ProgressKept ==
  ASSUME Full, Ready, Done \/ program' = "idle" \/ UNCHANGED <<program, at>>,
         written \subseteq written', Access.op = "write" => Access.reg \in written'
  PROVE  Progress'
<1>1. program \in DOMAIN Code /\ at \in DOMAIN Code[program] /\ at \in Nat /\ at > 0
  BY Running DEF Full, IInv, Ready
<1>2. CASE UNCHANGED <<program, at>>
  BY <1>2 DEF Full, Progress
<1>3. CASE program' = "idle"
  BY <1>3 DEF Progress
<1>4. CASE Done
  <2>1. Idle' \/ (program' = program /\ at' = at + 1)
    BY <1>4, DoneTypes DEF Full, IInv, Ready
  <2>2. ASSUME program' = "init", program' = program, at' = at + 1, NEW j \in 2..(at' - 1),
               enc28j60_init[j].op = "write"
        PROVE  enc28j60_init[j].reg \in written'
    <3>1. CASE j = at
      <4>1. Access = enc28j60_init[j]
        BY <2>2, <3>1 DEF Access, Code
      <4> QED BY <2>2, <4>1
    <3>2. CASE j # at
      <4>1. at > 1 /\ j \in 2..(at - 1)
        BY <1>1, <2>2, <3>2
      <4> QED BY <2>2, <4>1 DEF Full, Progress
    <3> QED BY <3>1, <3>2
  <2> QED BY <2>1, <2>2 DEF Progress, Idle
<1> QED BY <1>2, <1>3, <1>4

LEMMA WriteFull ==
  ASSUME Full, enc28j60Write PROVE Progress' /\ ReceivesConfigured' /\ Waited' /\ PhyUndisturbed'
<1> DEFINE r == Access.reg
<1>1. Ready /\ Access.op = "write" /\ NeedsBank /\ Done /\ ~Idle
  BY DEF enc28j60Write, Ready, NeedsBank
<1>2. program \in DOMAIN Code /\ at \in DOMAIN Code[program] /\ at \in Nat
  BY <1>1, Running DEF Full, IInv
<1>3. Hit(r)
  <2>1. Went(r).reached = Went(r).meant
    BY <1>1, ReadyReaches DEF Full
  <2> QED BY <2>1 DEF Hit, Went
<1>4. busy = FALSE
  BY <1>1, NotBusy
<1>5. written' = written \cup {r} /\ busy' = (r = "MIWR") /\ last' = Went(r) /\ rxen' = rxen
  BY <1>3, <1>4 DEF enc28j60Write
<1>6. Progress'
  BY <1>1, <1>5, ProgressKept
<1>7. ReceivesConfigured'
  BY <1>5 DEF Full, ReceivesConfigured
<1>8. PhyUndisturbed'
  BY <1>4, <1>5 DEF PhyUndisturbed, Went
<1>9. Waited'
  <2> SUFFICES ASSUME busy' PROVE program' = "init" /\ Access'.op = "poll"
    BY DEF Waited
  <2>1. program = "init" /\ at + 1 \in 2..25 /\ Code[program][at + 1].op = "poll"
    BY <1>1, <1>2, <1>5, ChipFacts DEF Access
  <2>2. Len(Code[program]) = 26
    BY <2>1, InitRows DEF Code
  <2>3. program' = program /\ at' = at + 1
    BY <1>1, <1>2, <2>1, <2>2 DEF Done
  <2> QED BY <2>1, <2>3 DEF Access
<1> QED BY <1>6, <1>7, <1>8, <1>9

LEMMA ReadFull ==
  ASSUME Full, enc28j60Read PROVE Progress' /\ ReceivesConfigured' /\ Waited' /\ PhyUndisturbed'
<1>1. /\ Ready /\ Access.op = "read" /\ ~Idle /\ UNCHANGED chip /\ last' = Went(Access.reg)
      /\ Done \/ program' = "idle"
  BY DEF enc28j60Read, Ready
<1>2. busy = FALSE
  BY <1>1, NotBusy
<1>3. busy' = FALSE /\ rxen' = rxen /\ written' = written
  BY <1>1, <1>2 DEF chip
<1>4. Progress'
  BY <1>1, <1>3, ProgressKept
<1>5. ReceivesConfigured' /\ Waited'
  BY <1>3 DEF Full, ReceivesConfigured, Waited
<1>6. PhyUndisturbed'
  BY <1>1, <1>2 DEF PhyUndisturbed, Went
<1> QED BY <1>4, <1>5, <1>6

(* The wait ends when the PHY has finished: MISTAT is a register that      *)
(* sends a dummy byte, and its address has the bit that says so.           *)
LEMMA PollFull ==
  ASSUME Full, Poll PROVE Progress' /\ ReceivesConfigured' /\ Waited' /\ PhyUndisturbed'
<1>1. Ready /\ Access.op = "poll" /\ NeedsBank /\ ~Idle /\ UNCHANGED chip /\ last' = Went(Access.reg)
  BY DEF Poll, Ready, NeedsBank
<1>2. program \in DOMAIN Code /\ at \in DOMAIN Code[program]
  BY <1>1, Running DEF Full, IInv
<1>3. Access.reg = "MISTAT"
  BY <1>1, <1>2, ChipFacts DEF Access
<1>4. Hit("MISTAT")
  <2>1. Went("MISTAT").reached = Went("MISTAT").meant
    BY <1>1, <1>3, ReadyReaches DEF Full
  <2> QED BY <2>1 DEF Hit, Went
<1>5. "SPRD" \in AddressBits("MISTAT") /\ SendsDummy("MISTAT")
  BY DEF AddressBits, SendsDummy, Bank1, Bank2, Bank3
<1>6. enc28j60ReadOp(Access.reg) = {busy}
  BY <1>3, <1>4, <1>5 DEF enc28j60ReadOp
<1>7. UNCHANGED <<program, at>> \/ (busy = FALSE /\ Done)
  BY <1>6 DEF Poll
<1>8. busy' = busy /\ rxen' = rxen /\ written' = written
  BY <1>1 DEF chip
<1>9. Progress'
  BY <1>1, <1>7, <1>8, ProgressKept
<1>10. ReceivesConfigured'
  BY <1>8 DEF Full, ReceivesConfigured
<1>11. Waited'
  <2>1. CASE busy = FALSE
    BY <1>8, <2>1 DEF Waited
  <2>2. CASE UNCHANGED <<program, at>>
    BY <1>8, <2>2 DEF Full, Waited, Access
  <2> QED BY <1>7, <2>1, <2>2
<1>12. PhyUndisturbed'
  BY <1>1, <1>3 DEF PhyUndisturbed, Went
<1> QED BY <1>9, <1>10, <1>11, <1>12

(* Reception is enabled at the end of enc28j60_init, past all the writes.  *)
LEMMA WriteOpFull ==
  ASSUME Full, enc28j60WriteOp PROVE Progress' /\ ReceivesConfigured' /\ Waited' /\ PhyUndisturbed'
<1>1. /\ Ready /\ Access.op \in {"INTIE", "RXEN", "TXRTS", "PKTDEC", "select"} /\ ~Idle /\ Done
      /\ busy' = busy /\ written' = written /\ last' = Quiet /\ rxen' = (rxen \/ Access.op = "RXEN")
  BY DEF enc28j60WriteOp, Ready
<1>2. Access.op \notin {"write", "reset", "poll"}
  BY <1>1
<1>3. program \in DOMAIN Code /\ at \in DOMAIN Code[program]
  BY <1>1, Running DEF Full, IInv
<1>4. Progress'
  BY <1>1, <1>2, ProgressKept
<1>5. ReceivesConfigured'
  <2>1. CASE Access.op = "RXEN"
    <3>1. program = "init" /\ at = 26
      BY <1>3, <2>1, ChipFacts DEF Access
    <3>2. ASSUME NEW q \in Needed PROVE q \in written
      <4>1. PICK k \in 2..25 : enc28j60_init[k] = Write(q)
        BY NeededWritten
      <4>2. enc28j60_init[k].op = "write" /\ enc28j60_init[k].reg = q
        BY <4>1 DEF Write
      <4>3. k \in 2..(at - 1) /\ at > 1
        BY <3>1
      <4> QED BY <3>1, <4>2, <4>3 DEF Full, Progress
    <3> QED BY <1>1, <3>2 DEF ReceivesConfigured, Needed
  <2>2. CASE Access.op # "RXEN"
    BY <1>1, <2>2 DEF Full, ReceivesConfigured
  <2> QED BY <2>1, <2>2
<1>6. Waited'
  BY <1>1, <1>2, NotBusy DEF Waited
<1>7. PhyUndisturbed'
  BY <1>1 DEF PhyUndisturbed, Quiet
<1> QED BY <1>4, <1>5, <1>6, <1>7

LEMMA SoftResetFull ==
  ASSUME Full, SoftReset PROVE Progress' /\ ReceivesConfigured' /\ Waited' /\ PhyUndisturbed'
<1>1. Ready /\ Access.op = "reset" /\ ~Idle /\ Done
  BY DEF SoftReset, Ready
<1>2. program \in DOMAIN Code /\ at \in DOMAIN Code[program]
  BY <1>1, Running DEF Full, IInv
<1>3. program = "init" /\ at = 1
  BY <1>1, <1>2, CodeFacts DEF Access
<1>4. at' = 2
  <2>1. Len(Code[program]) = 26
    BY <1>3, InitRows DEF Code
  <2> QED BY <1>1, <1>3, <2>1 DEF Done
<1>5. busy' = FALSE /\ rxen' = FALSE /\ last' = Quiet
  BY DEF SoftReset
<1> QED BY <1>4, <1>5 DEF Progress, ReceivesConfigured, Waited, PhyUndisturbed, Quiet

(* The steps that write no register. *)
LEMMA OtherFull ==
  ASSUME Full, ClearBank \/ SetBank \/ MiiDone \/ Restart \/ (\E p \in {"init", "receive", "send"} : Call(p))
  PROVE  Progress' /\ ReceivesConfigured' /\ Waited' /\ PhyUndisturbed'
<1>1. rxen' = rxen /\ written' = written /\ last' = Quiet
  BY DEF ClearBank, SetBank, MiiDone, Restart, Call, chip
<1>2. ReceivesConfigured' /\ PhyUndisturbed'
  BY <1>1 DEF Full, ReceivesConfigured, PhyUndisturbed, Quiet
<1>3. CASE ClearBank \/ SetBank \/ MiiDone
  <2>1. program' = program /\ at' = at /\ (busy' => busy)
    BY <1>3 DEF ClearBank, SetBank, MiiDone, driver
  <2>2. Progress' /\ Waited'
    BY <1>1, <2>1 DEF Full, Progress, Waited, Access
  <2> QED BY <1>2, <2>2
<1>4. CASE Restart \/ \E p \in {"init", "receive", "send"} : Call(p)
  <2>1. at' = 1 /\ busy' = busy /\ (program' = "init" \/ busy = FALSE)
    BY <1>4 DEF Restart, Call, chip, Full, Waited, Idle, IInv, TypeOK
  <2>2. Progress' /\ Waited'
    BY <2>1 DEF Progress, Waited
  <2> QED BY <1>2, <2>2
<1> QED BY <1>3, <1>4

LEMMA FullStep == Full /\ [Next]_vars => Full'
<1> SUFFICES ASSUME Full, [Next]_vars PROVE Full'
  OBVIOUS
<1>1. IInv'
  BY StepKeeps DEF Full
<1>2. CASE UNCHANGED vars
  BY <1>1, <1>2 DEF vars, driver, chip, Full, Progress, ReceivesConfigured, Waited, PhyUndisturbed, Access
<1>3. CASE Next
  BY <1>1, <1>3, WriteFull, ReadFull, PollFull, WriteOpFull, SoftResetFull, OtherFull DEF Next, Driver, Full
<1> QED BY <1>2, <1>3

(* The chip receives only while the bounds of its memory, its address and  *)
(* its filters are set, whenever the AVR restarts and NetInit is called.   *)
THEOREM ConfiguredFirst == Spec => []ReceivesConfigured
<1>1. Full => ReceivesConfigured
  BY DEF Full
<1> QED BY FullInit, FullStep, <1>1, PTL DEF Spec

(* No access to the PHY begins while another goes on: enc28j60PhyWrite     *)
(* waits behind each, and after a restart the chip is reset first.         *)
THEOREM PhyAlone == Spec => []PhyUndisturbed
<1>1. Full => PhyUndisturbed
  BY DEF Full
<1> QED BY FullInit, FullStep, <1>1, PTL DEF Spec
=============================================================================
