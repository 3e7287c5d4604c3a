------------------------------ MODULE PhysMem -------------------------------
(***************************************************************************)
(* system/memory/physical.c: the bitmap of physical sectors, a byte for    *)
(* eight of them, and the four calls on it.  Calls do not overlap: no      *)
(* interrupt handler makes one.                                            *)
(***************************************************************************)
EXTENDS Integers

CONSTANTS
  PMM_SECTORS,
  WORD,          (* addresses and sizes are 32-bit: arithmetic modulo WORD *)
  Memories,      (* the values mb2_get_memory may return                   *)
  Requests,      (* the num_sectors callers ask for                        *)
  Offsets,       (* where in a sector the address points that is freed     *)
  KernelBytes,   (* the size of the kernel's image                         *)
  MaxOps         (* bound on the calls that are modelled                   *)

PMM_SECTOR_SIZE == 8192
PMM_START == 1048576      (* kernel.c:134                                  *)
KERNEL_BASE == 1048576    (* linker.ld:5                                   *)
NULL == 0

ASSUME PhysMemAssumption ==
  /\ PMM_SECTORS \in Nat \ {0} /\ PMM_SECTORS % 8 = 0
  /\ WORD \in Nat /\ WORD >= PMM_START + PMM_SECTOR_SIZE * PMM_SECTORS
  /\ Memories \subseteq Nat /\ Requests \subseteq Nat
  /\ Offsets \subseteq 0..PMM_SECTOR_SIZE-1
  /\ KernelBytes \in Nat \ {0} /\ MaxOps \in Nat

VARIABLES
  mem_phys_map,        (* per byte: the bits that are set, a free sector each *)
  mem_phys_start, mem_phys_sectors,
  given,               (* the sectors the last call gave out               *)
  result,              (* the address it returned                          *)
  owned,               (* the sectors callers hold                         *)
  ops                  (* calls so far                                     *)

vars == <<mem_phys_map, mem_phys_start, mem_phys_sectors, given, result, owned, ops>>

Bytes   == 0..(PMM_SECTORS \div 8)-1
Bits    == 0..7
Sectors == 0..PMM_SECTORS-1

Sector(i, b) == i * 8 + b
Addr(s)      == mem_phys_start + PMM_SECTOR_SIZE * s
IsFree(s)    == s % 8 \in mem_phys_map[s \div 8]

Init ==
  /\ mem_phys_map = [i \in Bytes |-> {}]
  /\ mem_phys_start = NULL /\ mem_phys_sectors = 0
  /\ given = {} /\ result = NULL /\ owned = {} /\ ops = 0

Counted == ops < MaxOps /\ ops' = ops + 1

Return(addr, sectors) ==
  result' = addr /\ given' = sectors /\ owned' = owned \cup sectors

\* Mutant of MemInit: the subtraction does not wrap.
MemInitSigned(total) ==
  /\ mem_phys_start = NULL
  /\ mem_phys_start' = PMM_START
  /\ mem_phys_sectors' = (total - PMM_START) \div PMM_SECTOR_SIZE
  /\ mem_phys_map' = [i \in Bytes |-> Bits]
  /\ Return(NULL, {})
  /\ UNCHANGED ops

\* kernel_entry calls it once, with the memory above PMM_START; the
\* subtraction wraps when the boot loader reported less.
MemInit(total) ==
  /\ mem_phys_start = NULL
  /\ mem_phys_start' = PMM_START
  /\ mem_phys_sectors' = ((total - PMM_START) % WORD) \div PMM_SECTOR_SIZE
  /\ mem_phys_map' = [i \in Bytes |-> Bits]
  /\ Return(NULL, {})
  /\ UNCHANGED ops

\* Mutant of AllocFound: the highest bit of the first byte.
AllocFoundHigh(i, b) ==
  /\ b \in mem_phys_map[i]
  /\ \A k \in 0..i-1 : mem_phys_map[k] = {}
  /\ \A m \in b+1..7 : m \notin mem_phys_map[i]
  /\ mem_phys_map' = [mem_phys_map EXCEPT ![i] = @ \ {b}]
  /\ Return(Addr(Sector(i, b)), {Sector(i, b)})

\* mem_phys_alloc: the first byte that is not 0, its lowest bit.  It does not
\* look at mem_phys_sectors.
AllocFound(i, b) ==
  /\ b \in mem_phys_map[i]
  /\ \A k \in 0..i-1 : mem_phys_map[k] = {}
  /\ \A m \in 0..b-1 : m \notin mem_phys_map[i]
  /\ mem_phys_map' = [mem_phys_map EXCEPT ![i] = @ \ {b}]
  /\ Return(Addr(Sector(i, b)), {Sector(i, b)})

AllocNone ==
  /\ \A i \in Bytes : mem_phys_map[i] = {}
  /\ Return(NULL, {})
  /\ UNCHANGED mem_phys_map

Alloc ==
  /\ AllocNone \/ \E i \in Bytes, b \in Bits : AllocFound(i, b)
  /\ Counted
  /\ UNCHANGED <<mem_phys_start, mem_phys_sectors>>

\* mem_phys_alloc_sectors.  The search runs to mem_phys_sectors, which may be
\* past the map: the bits it finds there are those of other variables (stray).
Stray == SUBSET (PMM_SECTORS..mem_phys_sectors-1)
Run(i, n) == i..i+n-1
Found(i, n, stray) ==
  \A s \in Run(i, n) : IF s < PMM_SECTORS THEN IsFree(s) ELSE s \in stray
StartsOffByOne(n) == 0..mem_phys_sectors-n-1
Starts(n) == 0..mem_phys_sectors-n

ClearRunOffByOne(i, n) ==
  mem_phys_map' = [y \in Bytes |-> {b \in mem_phys_map[y] : Sector(y, b) \notin Run(i, n - 1)}]

ClearRun(i, n) ==
  mem_phys_map' = [y \in Bytes |-> {b \in mem_phys_map[y] : Sector(y, b) \notin Run(i, n)}]

AllocRunFound(n, i, stray) ==
  /\ n # 0 /\ i \in Starts(n)
  /\ Found(i, n, stray)
  /\ \A k \in 0..i-1 : ~Found(k, n, stray)
  /\ ClearRun(i, n)
  /\ Return(Addr(i), Run(i, n))

AllocRunNone(n, stray) ==
  /\ n = 0 \/ n > mem_phys_sectors \/ \A i \in Starts(n) : ~Found(i, n, stray)
  /\ Return(NULL, {})
  /\ UNCHANGED mem_phys_map

AllocSectors(n) ==
  /\ \E stray \in Stray :
       \/ AllocRunNone(n, stray)
       \/ \E i \in Starts(n) : AllocRunFound(n, i, stray)
  /\ Counted
  /\ UNCHANGED <<mem_phys_start, mem_phys_sectors>>

\* mem_phys_free frees the sector that addr points into, one sector whatever
\* was allocated.  A caller frees what it holds.
SectorOfUp(addr) ==
  ((addr + PMM_SECTOR_SIZE - 1 - mem_phys_start) % WORD) \div PMM_SECTOR_SIZE
SectorOf(addr) == ((addr - mem_phys_start) % WORD) \div PMM_SECTOR_SIZE

Free(s, off) ==
  /\ s \in owned
  /\ LET i == SectorOf(Addr(s) + off) IN
       mem_phys_map' = [y \in Bytes |->
         IF y = i \div 8 THEN mem_phys_map[y] \cup {i % 8} ELSE mem_phys_map[y]]
  /\ owned' = owned \ {s} /\ given' = {} /\ result' = NULL
  /\ Counted
  /\ UNCHANGED <<mem_phys_start, mem_phys_sectors>>

Next ==
  \/ \E total \in Memories : MemInit(total)
  \/ Alloc
  \/ \E n \in Requests : AllocSectors(n)
  \/ \E s \in owned, off \in Offsets : Free(s, off)

Spec == Init /\ [][Next]_vars
-----------------------------------------------------------------------------
TypeOK ==
  /\ mem_phys_map \in [Bytes -> SUBSET Bits]
  /\ mem_phys_start \in {NULL, PMM_START} /\ mem_phys_sectors \in Nat
  /\ given \subseteq Nat /\ owned \subseteq Nat /\ result \in Nat
  /\ ops \in 0..MaxOps

\* The boot code does not check it: the map covers the memory there is.
Covered == mem_phys_start # NULL /\ mem_phys_sectors <= PMM_SECTORS

(* The map and the callers agree: a sector is marked free exactly when     *)
(* nobody holds it.  One call works with byte and bit, another with sector *)
(* numbers and the third with an address.                                  *)
BooksBalance == Covered => owned = {s \in Sectors : ~IsFree(s)}

(* No call gives out a sector that somebody holds.                         *)
NoDoubleAllocation == [][Covered => given' \cap owned = {}]_vars

(* mem_phys_alloc returns the lowest sector nobody holds, and 0 only when  *)
(* all are held.                                                           *)
LowestSector ==
  [][Covered /\ Alloc =>
       IF owned = Sectors
         THEN result' = NULL
         ELSE \E s \in Sectors \ owned :
                result' = Addr(s) /\ \A t \in Sectors \ owned : s <= t]_vars

(* mem_phys_alloc_sectors returns 0 for a possible request only when no    *)
(* run of that many sectors is left, and otherwise the lowest run.         *)
LowestRun ==
  [][\A n \in Requests \ {0} : Covered /\ AllocSectors(n) =>
       LET runs == {i \in 0..mem_phys_sectors-n : Run(i, n) \cap owned = {}} IN
       IF runs = {}
         THEN result' = NULL
         ELSE \E i \in runs : result' = Addr(i) /\ \A k \in runs : i <= k]_vars

(* kernel.c:132 starts the map above 1 MB to avoid kernel code and data:   *)
(* no sector given out lies in the kernel's image.                         *)
AvoidsKernel ==
  \A s \in given : Addr(s) >= KERNEL_BASE + KernelBytes \/ Addr(s) + PMM_SECTOR_SIZE <= KERNEL_BASE
=============================================================================
