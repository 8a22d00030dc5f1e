----------------------------- MODULE Enc28j60 -----------------------------
(***************************************************************************)
(* src/enc28j60.c and the chip it drives.  The chip's memory holds a ring  *)
(* of received frames, from 0 to RXSTOP_INIT, and behind it one frame to   *)
(* be transmitted.  The chip receives and transmits while the driver talks *)
(* to it, one register or block transfer at a time.                        *)
(*                                                                         *)
(* A byte of memory is known by what it belongs to: byte "at" of the       *)
(* frame-th frame that was received, its header of 6 bytes included.  The  *)
(* chip stores a frame as header (next pointer, length, status), data, CRC *)
(* and a byte of padding where the next address would be odd.              *)
(***************************************************************************)
EXTENDS Integers, Sequences

CONSTANTS
  RamSize,        \* bytes of the chip's memory (8192)
  NetBufferSize,  \* NET_BUFFER_SIZE
  RxLengths,      \* lengths of the frames that arrive, without CRC
  TxLengths,      \* lengths of the frames that are sent
  MaxReceived,    \* frames that arrive
  MaxSent,        \* frames that are sent
  PromptMedium,   \* is a frame transmitted before the next is sent?
  MayFail         \* can a transmission fail?

ASSUME MemoryAssumption ==
  /\ NetBufferSize \in Nat \ {0} /\ RamSize \in Nat
  /\ NetBufferSize < RamSize /\ (RamSize - NetBufferSize) % 2 = 0
  /\ RxLengths \subseteq 1..NetBufferSize  \* MAMXFL: the chip keeps no longer ones
  /\ TxLengths \subseteq 1..NetBufferSize
  /\ MaxReceived \in Nat /\ MaxSent \in Nat
  /\ PromptMedium \in BOOLEAN /\ MayFail \in BOOLEAN

VARIABLES
  pc,               \* where the driver is
  next_packet_ptr,  \* the driver's pointer to the next frame
  ERDPT, ERXRDPT,   \* the chip's read pointer; the end of what it may write
  ERXWRPT, EPKTCNT, \* where it writes; frames it holds
  mem,              \* its memory
  frames,           \* frames it has kept, as it described them
  reading,          \* the frame that is being read, as the driver sees it
  returned,         \* frames returned by enc28j60_packet_receive
  read,             \* how many frames were done with
  tx,               \* its transmitter
  given,            \* lengths of the frames given to enc28j60_packet_send
  wire,             \* frames transmitted
  failed, aborted   \* transmissions that failed, or were given up by the driver

receiver == <<next_packet_ptr, ERDPT, ERXRDPT, ERXWRPT, EPKTCNT, frames, reading,
              returned, read>>
sender == <<tx, given, wire, failed, aborted>>
vars == <<pc, mem, receiver, sender>>

RingSize == RamSize - NetBufferSize  \* RXSTOP_INIT + 1
InsideRing == RamSize - NetBufferSize - 1  \* mutant of TXSTART_INIT
TXSTART_INIT == RamSize - NetBufferSize
Ring == 0..(RingSize - 1)

HeaderSize == 6
CrcSize == 4
StatusSize == 7

Cell(f, k) == [frame |-> f, at |-> k]
Other == Cell(0, 0)  \* nothing of a received frame

(* What enc28j60_init leaves behind. *)
Init ==
  /\ pc = "idle"
  /\ next_packet_ptr = 0 /\ ERDPT = 0 /\ ERXRDPT = 0
  /\ ERXWRPT = 0 /\ EPKTCNT = 0
  /\ mem = [a \in 0..(RamSize - 1) |-> Other]
  /\ frames = <<>> /\ returned = <<>> /\ read = 0
  /\ reading = [frame |-> 0, length |-> 0, ok |-> FALSE]
  /\ tx = [busy |-> FALSE, frame |-> 0, length |-> 0, error |-> FALSE]
  /\ given = <<>> /\ wire = <<>> /\ failed = {} /\ aborted = {}

-----------------------------------------------------------------------------
(* The chip receives. *)

Total(len) == LET n == HeaderSize + len + CrcSize IN n + (n % 2)

(* It never writes the byte ERXRDPT points to. *)
Space ==
  CASE ERXWRPT > ERXRDPT -> (RingSize - 1) - (ERXWRPT - ERXRDPT)
    [] ERXWRPT = ERXRDPT -> RingSize - 1
    [] ERXWRPT < ERXRDPT -> ERXRDPT - ERXWRPT - 1

(* A frame is kept if there is space for it.  If not it is lost. *)
ChipReceives(len, ok) ==
  /\ Len(frames) < MaxReceived /\ Total(len) <= Space
  /\ LET f == Len(frames) + 1
         next == (ERXWRPT + Total(len)) % RingSize
     IN /\ frames' = Append(frames, [start |-> ERXWRPT, next |-> next, length |-> len, ok |-> ok])
        /\ mem' = [a \in DOMAIN mem |->
                     LET k == (a + RingSize - ERXWRPT) % RingSize IN
                     IF a \in Ring /\ k < Total(len) THEN Cell(f, k) ELSE mem[a]]
        /\ ERXWRPT' = next
  /\ EPKTCNT' = EPKTCNT + 1
  /\ UNCHANGED <<pc, next_packet_ptr, ERDPT, ERXRDPT, reading, returned, read, sender>>

-----------------------------------------------------------------------------
(***************************************************************************)
(* enc28j60_packet_receive                                                 *)
(***************************************************************************)
MoreThanOne == EPKTCNT > 1  \* mutant of PacketWaiting
PacketWaiting == EPKTCNT # 0

PacketReceive ==
  /\ pc = "idle" /\ PacketWaiting
  /\ pc' = "header"
  /\ ERDPT' = next_packet_ptr
  /\ UNCHANGED <<mem, next_packet_ptr, ERXRDPT, ERXWRPT, EPKTCNT, frames, reading,
                 returned, read, sender>>

(* The n bytes at ERDPT, if they are bytes k, k + 1, ... of one frame. *)
FrameAt(k, n) ==
  LET f == mem[ERDPT].frame IN
  IF f # 0 /\ \A i \in 0..(n - 1) : mem[(ERDPT + i) % RingSize] = Cell(f, k + i) THEN f ELSE 0

Truncated(len) == IF len > NetBufferSize - 1 THEN NetBufferSize - 1 ELSE len

ReadHeaderAndFree ==  \* mutant of ReadHeader: the frame is freed before its data is read
  /\ pc = "header"
  /\ LET f == FrameAt(0, HeaderSize) IN
     /\ f # 0
     /\ next_packet_ptr' = frames[f].next /\ ERXRDPT' = frames[f].next
     /\ reading' = [frame |-> f, length |-> Truncated(frames[f].length), ok |-> frames[f].ok]
  /\ ERDPT' = (ERDPT + HeaderSize) % RingSize
  /\ pc' = "data"
  /\ UNCHANGED <<mem, ERXWRPT, EPKTCNT, frames, returned, read, sender>>

(* Next pointer, length and status, or whatever stands in their place. *)
ReadHeader ==
  /\ pc = "header"
  /\ LET f == FrameAt(0, HeaderSize) IN
     \/ /\ f # 0
        /\ next_packet_ptr' = frames[f].next
        /\ reading' = [frame |-> f, length |-> Truncated(frames[f].length), ok |-> frames[f].ok]
     \/ /\ f = 0
        /\ next_packet_ptr' \in Ring
        /\ reading' \in [frame : {0}, length : 0..(NetBufferSize - 1), ok : BOOLEAN]
  /\ ERDPT' = (ERDPT + HeaderSize) % RingSize
  /\ pc' = "data"
  /\ UNCHANGED <<mem, ERXRDPT, ERXWRPT, EPKTCNT, frames, returned, read, sender>>

(* The data is copied unless the status is bad. *)
ReadData ==
  /\ pc = "data"
  /\ IF reading.ok
     THEN reading' = [reading EXCEPT
            !.frame = IF @ = FrameAt(HeaderSize, reading.length) THEN @ ELSE 0]
     ELSE UNCHANGED reading
  /\ pc' = "free"
  /\ UNCHANGED <<mem, next_packet_ptr, ERDPT, ERXRDPT, ERXWRPT, EPKTCNT, frames,
                 returned, read, sender>>

Freed == next_packet_ptr

(* The memory is given back to the chip ... *)
Free ==
  /\ pc = "free"
  /\ ERXRDPT' = Freed
  /\ pc' = "decrement"
  /\ UNCHANGED <<mem, next_packet_ptr, ERDPT, ERXWRPT, EPKTCNT, frames, reading,
                 returned, read, sender>>

(* ... and the frame is done with. *)
Decrement ==
  /\ pc = "decrement"
  /\ EPKTCNT' = EPKTCNT - 1
  /\ read' = read + 1
  /\ returned' = IF reading.ok /\ reading.length # 0 THEN Append(returned, reading) ELSE returned
  /\ pc' = "idle"
  /\ UNCHANGED <<mem, next_packet_ptr, ERDPT, ERXRDPT, ERXWRPT, frames, reading, sender>>

-----------------------------------------------------------------------------
(***************************************************************************)
(* enc28j60_packet_send                                                    *)
(***************************************************************************)

(* Memory after n bytes that start at address a; the write pointer and the *)
(* chip go on at 0 behind the end of the memory.                           *)
Overwritten(a, n) ==
  [b \in DOMAIN mem |-> IF (b + 2 * RamSize - a) % RamSize < n THEN Other ELSE mem[b]]

OneShort(len) == len - 1  \* mutant of SentLength
SentLength(len) == len    \* from behind the control byte to ETXND

(* A control byte and the frame are written, whatever the chip is doing:   *)
(* if it is still transmitting, neither frame leaves it as it was.         *)
PacketSend(len) ==
  /\ pc = "idle" /\ Len(given) < MaxSent
  /\ PromptMedium => ~tx.busy
  /\ given' = Append(given, len)
  /\ tx' = [tx EXCEPT !.length = SentLength(len), !.frame = IF tx.busy THEN 0 ELSE @]
  /\ mem' = Overwritten(TXSTART_INIT, len + 1)
  /\ pc' = "request"
  /\ UNCHANGED <<receiver, wire, failed, aborted>>

(* TXRTS is set. *)
Request ==
  /\ pc = "request"
  /\ tx' = [tx EXCEPT !.busy = TRUE, !.frame = IF tx.busy THEN @ ELSE Len(given)]
  /\ pc' = "check"
  /\ UNCHANGED <<mem, receiver, given, wire, failed, aborted>>

(* TXRTS is cleared if there has ever been an error: TXERIF stays set. *)
CheckError ==
  /\ pc = "check"
  /\ IF tx.error
     THEN /\ tx' = [tx EXCEPT !.busy = FALSE]
          /\ aborted' = IF tx.busy THEN aborted \cup {tx.frame} ELSE aborted
     ELSE UNCHANGED <<tx, aborted>>
  /\ pc' = "idle"
  /\ UNCHANGED <<mem, receiver, given, wire, failed>>

(* The chip is done with a frame and writes a status vector behind it. *)
ChipTransmits ==
  /\ tx.busy
  /\ mem' = Overwritten(TXSTART_INIT + tx.length + 1, StatusSize)
  /\ \/ /\ wire' = Append(wire, [frame |-> tx.frame, length |-> tx.length])
        /\ tx' = [tx EXCEPT !.busy = FALSE]
        /\ UNCHANGED failed
     \/ /\ MayFail
        /\ failed' = failed \cup {tx.frame}
        /\ tx' = [tx EXCEPT !.busy = FALSE, !.error = TRUE]
        /\ UNCHANGED wire
  /\ UNCHANGED <<pc, receiver, given, aborted>>

-----------------------------------------------------------------------------
Driver == PacketReceive \/ ReadHeader \/ ReadData \/ Free \/ Decrement \/ Request \/ CheckError

Next ==
  \/ \E len \in RxLengths, ok \in BOOLEAN : ChipReceives(len, ok)
  \/ \E len \in TxLengths : PacketSend(len)
  \/ Driver
  \/ ChipTransmits

Spec == Init /\ [][Next]_vars

(* The main loop calls NetHandleNetwork for ever; the chip transmits what  *)
(* it is asked to.                                                         *)
FairSpec == Spec /\ WF_vars(Driver) /\ WF_vars(ChipTransmits)

-----------------------------------------------------------------------------
(***************************************************************************)
(* Properties                                                              *)
(***************************************************************************)
TypeOK ==
  /\ pc \in {"idle", "header", "data", "free", "decrement", "request", "check"}
  /\ {next_packet_ptr, ERDPT, ERXRDPT, ERXWRPT} \subseteq Ring
  /\ EPKTCNT \in 0..MaxReceived /\ read \in 0..MaxReceived
  /\ mem \in [0..(RamSize - 1) -> [frame : 0..MaxReceived, at : Nat]]
  /\ frames \in Seq([start : Ring, next : Ring, length : RxLengths, ok : BOOLEAN])
  /\ reading \in [frame : 0..MaxReceived, length : 0..(NetBufferSize - 1), ok : BOOLEAN]
  /\ returned \in Seq([frame : 0..MaxReceived, length : 0..(NetBufferSize - 1), ok : BOOLEAN])
  /\ tx \in [busy : BOOLEAN, frame : 0..MaxSent, length : 0..NetBufferSize, error : BOOLEAN]
  /\ given \in Seq(TxLengths)
  /\ wire \in Seq([frame : 0..MaxSent, length : 0..NetBufferSize])
  /\ failed \subseteq 0..MaxSent /\ aborted \subseteq 0..MaxSent

(* A frame that was not read is in memory, whatever is received, sent or   *)
(* freed meanwhile ("buffer boundaries applied to internal 8K ram",        *)
(* enc28j60.h:261).                                                        *)
UnreadIntact ==
  \A f \in (read + 1)..Len(frames) : pc \notin {"free", "decrement"} \/ f > read + 1 =>
    \A k \in 0..(Total(frames[f].length) - 1) :
      mem[(frames[f].start + k) % RingSize] = Cell(f, k)

(* A frame that fits the buffer is returned whole ("define maximum size of *)
(* incoming packet", README.md:61).                                        *)
ReturnedWhole ==
  \A k \in DOMAIN returned :
    returned[k].frame # 0 => returned[k].length = frames[returned[k].frame].length

(* What the chip transmits are frames it was given, each once, in order    *)
(* and as it was given ("Send packet to network", enc28j60.c:331).         *)
SentIntact ==
  \A k \in DOMAIN wire :
    /\ wire[k].frame \in DOMAIN given /\ wire[k].length = given[wire[k].frame]
    /\ \A j \in 1..(k - 1) : wire[j].frame < wire[k].frame

(* No transmission is given up that the chip has not reported as failed    *)
(* ("Reset the transmit logic problem", enc28j60.c:363).                   *)
OnlyFailedAborted == aborted \subseteq failed

(* Every frame the chip keeps is read. *)
EveryFrameRead == \A n \in 1..MaxReceived : Len(frames) >= n ~> read >= n

(* Between the chip and the caller of enc28j60_packet_receive the frames   *)
(* form a queue: each that the chip kept is returned once, whole and in    *)
(* the order of arrival, unless its status is bad.                         *)
Described(f) == [frame |-> f, length |-> frames[f].length, ok |-> frames[f].ok]
Queue == INSTANCE FrameQueue WITH
  Frames <- [frame : 1..MaxReceived, length : RxLengths, ok : BOOLEAN],
  queue <- [k \in 1..(Len(frames) - read) |-> Described(read + k)],
  taken <- returned
IsQueue == Queue!Spec
=============================================================================
