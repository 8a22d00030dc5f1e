------------------------------ MODULE ArpCache ------------------------------
(***************************************************************************)
(* The address cache of src/arp.c and the lookups that wait for a reply.   *)
(*                                                                         *)
(* While ArpWhoIs waits, EthWaitPacket handles every other packet; the     *)
(* callback of one of them may send to another host and so start a lookup  *)
(* within the lookup.  `lookups' is the stack of lookups that wait, the    *)
(* running one last.  A lookup keeps, across its wait, the cache line it   *)
(* will overwrite.                                                         *)
(*                                                                         *)
(* A host is its ip; the mac of host h is h as well, so that a line is     *)
(* right when its ip and its mac are the same host.                        *)
(***************************************************************************)
EXTENDS Naturals, SequencesExt

CONSTANTS
  NET_ARP_CACHE_SIZE,
  Neighbours,   \* hosts of the local network
  NoNeighbour,  \* content of a line that was never written
  MaxCount,     \* the largest use count (255)
  MaxLookups,   \* lookups that may be within each other
  Late          \* may a reply arrive after its lookup has ended?

ASSUME CacheAssumption ==
  /\ NET_ARP_CACHE_SIZE \in Nat \ {0}
  /\ MaxCount \in Nat /\ MaxCount >= 2
  /\ MaxLookups \in Nat \ {0}
ASSUME NeighbourAssumption == NoNeighbour \notin Neighbours
ASSUME LateAssumption == Late \in BOOLEAN

Lines == 0..(NET_ARP_CACHE_SIZE - 1)

VARIABLES
  arpCache, \* arpCache[i]: ip, mac and use count of line i
  lookups,  \* lookups in progress: the ip asked for and minUseCacheId
  replies,  \* hosts whose reply to an earlier request may yet arrive
  answer    \* what the last lookup that succeeded was asked and said

cacheVars == <<arpCache, lookups, replies, answer>>

Line == [ip : Neighbours \cup {NoNeighbour}, mac : Neighbours \cup {NoNeighbour},
         count : 0..MaxCount]
Lookup == [ip : Neighbours, minUseCacheId : Lines]
Answer == [ip : Neighbours \cup {NoNeighbour}, mac : Neighbours \cup {NoNeighbour}]

Says(h, mac) == [ip |-> h, mac |-> mac]

CacheInit ==
  /\ arpCache = [i \in Lines |-> [ip |-> NoNeighbour, mac |-> NoNeighbour, count |-> 0]]
  /\ lookups = <<>>
  /\ replies = {}
  /\ answer = Says(NoNeighbour, NoNeighbour)

-----------------------------------------------------------------------------
(* The scan of ArpWhoIs over the cache. *)
Used(line) == line.count # 0

(* The line that answers: the first one in use for this ip. *)
FoundIn(c, h) ==
  {i \in Lines : /\ Used(c[i]) /\ c[i].ip = h
                 /\ \A j \in 0..(i - 1) : ~(Used(c[j]) /\ c[j].ip = h)}

Overflows(n) == n + 2  \* mutant of Renew
Renew(n) == IF MaxCount - n >= 2 THEN n + 2 ELSE MaxCount
Age(n) == IF n # 0 THEN n - 1 ELSE 0

(* The line found is used twice more, every other line ages. *)
Scan(c, found) ==
  [i \in Lines |-> [c[i] EXCEPT !.count = IF i \in found THEN Renew(@) ELSE Age(@)]]

(* minUseCacheId after a scan that found nothing: the comparison of line   *)
(* 204 moves it to a line with a larger count.                             *)
MinUse(c) ==
  {i \in Lines : \A j \in Lines : IF j < i THEN c[j].count < c[i].count
                                           ELSE c[j].count <= c[i].count}

-----------------------------------------------------------------------------
(* ArpWhoIs until it returns or waits.  The application starts lookups in  *)
(* the main loop, or from a callback within the wait of another lookup.    *)
LookUp(h) ==
  /\ Len(lookups) < MaxLookups
  /\ LET found == FoundIn(arpCache, h)
         scanned == Scan(arpCache, found)
     IN /\ arpCache' = scanned
        /\ \/ /\ found # {}
              /\ \E i \in found : answer' = Says(h, arpCache[i].mac)
              /\ UNCHANGED <<lookups, replies>>
           \/ /\ found = {}
              /\ \E i \in MinUse(scanned) :
                   lookups' = Append(lookups, [ip |-> h, minUseCacheId |-> i])
              /\ replies' = replies \cup {h}  \* h will answer, or the answer gets lost
              /\ UNCHANGED answer

Waiting == lookups # <<>>
Current == lookups[Len(lookups)]
Ended == SubSeq(lookups, 1, Len(lookups) - 1)

(* On a punctual network an answer that has not arrived yet never will. *)
Outstanding(S) == IF Late THEN S ELSE S \ {Current.ip}

AnyOpcode(opcode, wanted) == TRUE  \* mutant of ArpPacketIsArp
ArpPacketIsArp(opcode, wanted) == opcode = wanted

(* The first ARP packet for this station ends the wait of the running      *)
(* lookup.  A reply is taken for the one asked for: nothing compares the   *)
(* ip that replied with the ip of the lookup.                              *)
ArpPacket(h, opcode) ==
  /\ Waiting
  /\ opcode = "reply" => h \in replies
  /\ IF ArpPacketIsArp(opcode, "reply")
     THEN /\ arpCache' = [arpCache EXCEPT ![Current.minUseCacheId] =
               [ip |-> Current.ip, mac |-> h, count |-> IF Used(@) THEN @.count ELSE 2]]
          /\ answer' = Says(Current.ip, h)
     ELSE UNCHANGED <<arpCache, answer>>
  /\ lookups' = Ended
  /\ replies' = Outstanding(IF opcode = "reply" THEN replies \ {h} ELSE replies)

Timeout ==
  /\ Waiting
  /\ lookups' = Ended
  /\ replies' = Outstanding(replies)
  /\ UNCHANGED <<arpCache, answer>>

CacheNext ==
  \/ \E h \in Neighbours : LookUp(h)
  \/ \E h \in Neighbours, opcode \in {"request", "reply"} : ArpPacket(h, opcode)
  \/ Timeout

CacheSpec == CacheInit /\ [][CacheNext]_cacheVars

-----------------------------------------------------------------------------
(* Type invariant; the use count stays within an unsigned char. *)
CacheTypeOK ==
  /\ arpCache \in [Lines -> Line]
  /\ lookups \in Seq(Lookup)
  /\ replies \subseteq Neighbours
  /\ answer \in Answer

(* A line in use holds the mac of the host it is filed under, and so does  *)
(* what ArpWhoIs answers: "send arp request to destination ip, and save    *)
(* destination mac to dest_mac" (src/arp.c:185).                           *)
Truthful ==
  /\ \A i \in Lines : Used(arpCache[i]) => arpCache[i].ip = arpCache[i].mac
  /\ answer.ip = answer.mac

(* A learnt address is not given up while there is an unused line: "bigger *)
(* value allow save more ip in cache" (README.md:72).                      *)
KeepsWhileRoom ==
  [][\A i \in Lines :
       Used(arpCache[i]) /\ Used(arpCache'[i]) /\ (\E j \in Lines : ~Used(arpCache[j]))
       => arpCache'[i].ip = arpCache[i].ip]_cacheVars
=============================================================================
