---------------------------- MODULE EncRegisters ----------------------------
(***************************************************************************)
(* The registers of the ENC28J60 as src/enc28j60.c reaches them over SPI.  *)
(*                                                                         *)
(* The chip has four banks of registers, ECON1.BSEL says which of them an  *)
(* address means; the driver remembers what it selected (Enc28j60Bank) and *)
(* saves selecting it again.  The two part when the chip is reset and when *)
(* the AVR restarts without the chip, at any moment.                       *)
(*                                                                         *)
(* A program is a function of the driver as the accesses it makes; the     *)
(* bytes of a register that has two are one access.                        *)
(***************************************************************************)
EXTENDS Naturals, Sequences

CONSTANT MaxRestarts  \* restarts of the AVR, by its watchdog or its supply

ASSUME RestartAssumption == MaxRestarts \in Nat

VARIABLES
  Enc28j60Bank, \* the bank the driver takes for selected
  program, at,  \* what the driver runs, and its next access
  cleared,      \* is SetBank between its two operations?
  bank,         \* the chip: bits of BSEL that are set
  busy,         \* MISTAT.BUSY
  rxen,         \* ECON1.RXEN
  written,      \* registers written since the chip was reset
  restarts,
  last          \* what the last access was meant for, and where it went

driver == <<Enc28j60Bank, program, at, cleared>>
chip == <<bank, busy, rxen, written>>
vars == <<driver, chip, restarts, last>>

-----------------------------------------------------------------------------
(* Registers by their bank; the chip has the common ones in all of them.   *)
Bank1 == {"EPMM", "EPMCS", "ERXFCON", "EPKTCNT"}
Bank2 == {"MACON1", "MACON3", "MACON4", "MABBIPG", "MAIPG", "MACLCON2", "MAMXFL", "MIREGADR", "MIWR"}
Bank3 == {"MAADR", "MISTAT"}
Common == {"EIE", "EIR", "ECON1", "ECON2"}

(* The bits of a register's address beyond the five the chip is sent.      *)
AddressBits(r) ==
  CASE r \in Bank1 -> {"BSEL0"} [] r \in Bank2 -> {"BSEL1", "SPRD"}
    [] r \in Bank3 -> {"BSEL0", "BSEL1", "SPRD"} [] OTHER -> {}

BankOf(r) == AddressBits(r) \cap {"BSEL0", "BSEL1"}

(* Registers of the MAC and of the PHY interface send a dummy byte first. *)
SendsDummy(r) == r \in Bank2 \cup Bank3

Write(r) == [op |-> "write", reg |-> r]
Read(r) == [op |-> "read", reg |-> r]
Set(bit, r) == [op |-> bit, reg |-> r]
Reset == [op |-> "reset", reg |-> "ECON1"]
Select(r) == [op |-> "select", reg |-> r]
Writes(regs) == [k \in DOMAIN regs |-> Write(regs[k])]

Hasty == <<Write("MIREGADR"), Write("MIWR")>>  \* mutant of enc28j60PhyWrite
enc28j60PhyWrite == <<Write("MIREGADR"), Write("MIWR"), [op |-> "poll", reg |-> "MISTAT"]>>

Configure ==
  Writes(<<"ERXST", "ERXRDPT", "ERXND", "ETXST", "ETXND",
           "MACON1", "MACON3", "MACON4", "MACLCON2", "MAIPG", "MAMXFL", "MAADR">>)
    \o enc28j60PhyWrite \o enc28j60PhyWrite
    \o Writes(<<"ERXFCON", "EPMM", "EPMCS", "MABBIPG">>)
    \o <<Select("ECON1"), Set("INTIE", "EIE")>>

NoReset == Configure \o <<Set("RXEN", "ECON1")>>                        \* mutants
EnableFirst == <<Reset, Set("RXEN", "ECON1")>> \o Configure             \* of enc28j60_init
enc28j60_init == <<Reset>> \o Configure \o <<Set("RXEN", "ECON1")>>

enc28j60_packet_receive ==
  <<Read("EPKTCNT"), Write("ERDPT"), Write("ERXRDPT"), Set("PKTDEC", "ECON2")>>
enc28j60_packet_send == <<Write("EWRPT"), Write("ETXND"), Set("TXRTS", "ECON1"), Read("EIR")>>

Code == [init |-> enc28j60_init, receive |-> enc28j60_packet_receive, send |-> enc28j60_packet_send]

Idle == program = "idle"
Access == Code[program][at]

Quiet == [meant |-> {}, reached |-> {}, disturbs |-> FALSE]

-----------------------------------------------------------------------------
(* AVR and chip have been switched on. *)
Init ==
  /\ Enc28j60Bank = {} /\ program = "init" /\ at = 1 /\ cleared = FALSE
  /\ bank = {} /\ busy = FALSE /\ rxen = FALSE /\ written = {}
  /\ restarts = 0 /\ last = Quiet

(* The main loop: NetInit may be called again. *)
Call(p) ==
  /\ Idle
  /\ program' = p /\ at' = 1
  /\ last' = Quiet
  /\ UNCHANGED <<Enc28j60Bank, cleared, chip, restarts>>

Done == IF at = Len(Code[program]) THEN program' = "idle" /\ at' = 0
                                   ELSE at' = at + 1 /\ UNCHANGED program

-----------------------------------------------------------------------------
(* enc28j60SetBank *)
NeedsBank == ~Idle /\ Access.op \in {"write", "read", "poll", "select"}

Selected == Enc28j60Bank = BankOf(Access.reg)

ClearBank ==
  /\ NeedsBank /\ ~Selected /\ ~cleared
  /\ bank' = {}
  /\ cleared' = TRUE
  /\ last' = Quiet
  /\ UNCHANGED <<Enc28j60Bank, program, at, busy, rxen, written, restarts>>

(* Setting bits leaves those that are set. *)
SetBank ==
  /\ NeedsBank /\ cleared
  /\ bank' = bank \cup BankOf(Access.reg)
  /\ Enc28j60Bank' = BankOf(Access.reg)
  /\ cleared' = FALSE
  /\ last' = Quiet
  /\ UNCHANGED <<program, at, busy, rxen, written, restarts>>

Ready == ~Idle /\ ~cleared /\ (NeedsBank => Selected)

(* Where an access of register r goes. *)
Went(r) == [meant |-> BankOf(r), reached |-> IF r \in Common THEN BankOf(r) ELSE bank,
            disturbs |-> r \in {"MIREGADR", "MIWR"} /\ busy]
Hit(r) == Went(r).reached = BankOf(r)

enc28j60Write ==
  /\ Ready /\ Access.op = "write"
  /\ LET r == Access.reg IN
     /\ last' = Went(r)
     /\ written' = IF Hit(r) THEN written \cup {r} ELSE written
     /\ busy' = (busy \/ (r = "MIWR" /\ Hit(r)))
  /\ Done
  /\ UNCHANGED <<Enc28j60Bank, cleared, bank, rxen, restarts>>

(* enc28j60_packet_receive goes on if EPKTCNT is not 0, the others always. *)
enc28j60Read ==
  /\ Ready /\ Access.op = "read"
  /\ last' = Went(Access.reg)
  /\ Done \/ (Access.reg = "EPKTCNT" /\ program' = "idle" /\ at' = 0)
  /\ UNCHANGED <<Enc28j60Bank, cleared, chip, restarts>>

(* What a read of MISTAT says of BUSY: "SPRD" has the dummy byte skipped. *)
Unskipped(r) == IF SendsDummy(r) THEN {TRUE} ELSE {busy}  \* mutant, of a line that is pulled up
enc28j60ReadOp(r) == IF Hit(r) /\ ("SPRD" \in AddressBits(r) <=> SendsDummy(r)) THEN {busy} ELSE BOOLEAN

Poll ==
  /\ Ready /\ Access.op = "poll"
  /\ last' = Went(Access.reg)
  /\ \/ TRUE \in enc28j60ReadOp(Access.reg) /\ UNCHANGED <<program, at>>
     \/ FALSE \in enc28j60ReadOp(Access.reg) /\ Done
  /\ UNCHANGED <<Enc28j60Bank, cleared, chip, restarts>>

(* Bits of a common register, which need no bank; or the bank alone. *)
enc28j60WriteOp ==
  /\ Ready /\ Access.op \in {"INTIE", "RXEN", "TXRTS", "PKTDEC", "select"}
  /\ rxen' = (rxen \/ Access.op = "RXEN")
  /\ Done
  /\ last' = Quiet
  /\ UNCHANGED <<Enc28j60Bank, cleared, bank, busy, written, restarts>>

(* Its pin and the soft reset put the chip into its initial state; the     *)
(* driver goes on with what it remembers.                                  *)
SoftReset ==
  /\ Ready /\ Access.op = "reset"
  /\ bank' = {} /\ busy' = FALSE /\ rxen' = FALSE /\ written' = {}
  /\ Done
  /\ last' = Quiet
  /\ UNCHANGED <<Enc28j60Bank, cleared, restarts>>

-----------------------------------------------------------------------------
(* The chip has finished a transaction with its PHY. *)
MiiDone ==
  /\ busy /\ busy' = FALSE
  /\ last' = Quiet
  /\ UNCHANGED <<driver, bank, rxen, written, restarts>>

(* The AVR starts anew, with its variables cleared; the chip does not. *)
Restart ==
  /\ restarts < MaxRestarts /\ restarts' = restarts + 1
  /\ Enc28j60Bank' = {} /\ program' = "init" /\ at' = 1 /\ cleared' = FALSE
  /\ last' = Quiet
  /\ UNCHANGED chip

Driver == ClearBank \/ SetBank \/ enc28j60Write \/ enc28j60Read \/ Poll \/ enc28j60WriteOp \/ SoftReset

Next == Driver \/ MiiDone \/ Restart \/ \E p \in {"init", "receive", "send"} : Call(p)

Spec == Init /\ [][Next]_vars

(* The driver runs on, and the PHY takes its 10 us. *)
FairSpec == Spec /\ WF_vars(Driver) /\ WF_vars(MiiDone)
-----------------------------------------------------------------------------
(* Type invariant. *)
TypeOK ==
  /\ {Enc28j60Bank, bank} \subseteq SUBSET {"BSEL0", "BSEL1"}
  /\ {cleared, busy, rxen} \subseteq BOOLEAN
  /\ Idle \/ (program \in DOMAIN Code /\ at \in DOMAIN Code[program])
  /\ restarts \in 0..MaxRestarts

(* Every access reaches the register it is meant for, although the bank is *)
(* selected only "if needed" (src/enc28j60.c:88), after a restart of the   *)
(* AVR within any access and after a repeated NetInit as well.             *)
RightRegister == last.reached = last.meant

(* The chip receives only while the bounds of its memory, its address and  *)
(* its filters are set: what it puts into its memory before that is not    *)
(* where, and not what, the driver will read.                              *)
ReceivesConfigured ==
  rxen => {"ERXST", "ERXND", "ERXRDPT", "MACON1", "MAMXFL", "MAADR", "ERXFCON", "EPMM", "EPMCS"}
            \subseteq written

(* No access to the PHY is begun while another is going on. *)
PhyUndisturbed == ~last.disturbs

(* What the driver begins it ends: each wait for the PHY is for one that   *)
(* was begun.                                                              *)
DriverReturns == ~Idle ~> Idle
=============================================================================
