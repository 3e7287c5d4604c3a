--------------------------- MODULE PhysMemProofs ----------------------------
(***************************************************************************)
(* What holds of PhysMem for every number of sectors, every amount of      *)
(* memory and every sequence of calls, and of Memory for every boot loader.*)
(***************************************************************************)
EXTENDS Memory, FiniteSetTheorems, TLAPS

(* Before mem_phys_init the map gives nothing out.                         *)
NothingBeforeInit ==
  mem_phys_start = NULL =>
    owned = {} /\ mem_phys_sectors = 0 /\ \A i \in Bytes : mem_phys_map[i] = {}

IInv == TypeOK /\ NothingBeforeInit /\ BooksBalance
-----------------------------------------------------------------------------
(* Division of integers.                                                   *)
LEMMA ModIsNat ==
  ASSUME NEW a \in Int, NEW n \in Nat \ {0}
  PROVE  a % n \in Nat
  BY SMT

LEMMA DivIsNat ==
  ASSUME NEW a \in Nat, NEW n \in Nat \ {0}
  PROVE  a \div n \in Nat
  BY SMT

LEMMA DivOfMultiple ==
  ASSUME NEW s \in Nat, NEW n \in Nat \ {0}, NEW off \in 0..n-1
  PROVE  (n * s + off) \div n = s
  BY SMT

LEMMA SizesArePositive ==
  PMM_SECTOR_SIZE \in Nat \ {0} /\ PMM_START \in Nat \ {0} /\ WORD \in Nat \ {0}
  BY PhysMemAssumption, SMT DEF PMM_SECTOR_SIZE, PMM_START

(* A sector number and its byte and bit determine each other.              *)
LEMMA SectorBit ==
  ASSUME NEW s \in Sectors
  PROVE  s \div 8 \in Bytes /\ s % 8 \in Bits /\ Sector(s \div 8, s % 8) = s
  BY PhysMemAssumption DEF Sectors, Bytes, Bits, Sector

LEMMA BitSector ==
  ASSUME NEW i \in Bytes, NEW b \in Bits
  PROVE  /\ Sector(i, b) \in Sectors
         /\ Sector(i, b) \div 8 = i /\ Sector(i, b) % 8 = b
  BY PhysMemAssumption DEF Sectors, Bytes, Bits, Sector

(* Any address in a sector leads back to the sector.                       *)
LEMMA SectorOfAddr ==
  ASSUME mem_phys_start = PMM_START, NEW s \in Sectors,
         NEW off \in 0..PMM_SECTOR_SIZE-1
  PROVE  SectorOf(Addr(s) + off) = s
  <1> DEFINE d == PMM_SECTOR_SIZE * s + off
  <1>1. d \in Nat /\ d < PMM_SECTOR_SIZE * PMM_SECTORS /\ d < WORD /\ WORD \in Nat
    BY PhysMemAssumption, SMT DEF Sectors, PMM_SECTOR_SIZE, PMM_START
  <1>2. (Addr(s) + off) - mem_phys_start = d
    BY SMT DEF Addr, Sectors, PMM_SECTOR_SIZE, PMM_START
  <1>3. d % WORD = d
    <2> HIDE DEF d
    <2> QED  BY <1>1
  <1>4. d \div PMM_SECTOR_SIZE = s
    BY DivOfMultiple, SizesArePositive DEF Sectors
  <1> QED  BY <1>2, <1>3, <1>4 DEF SectorOf

LEMMA InitIInv == Init => IInv
  BY PhysMemAssumption DEF Init, IInv, TypeOK, NothingBeforeInit, BooksBalance, Covered, NULL
-----------------------------------------------------------------------------
LEMMA MemInitIInv ==
  ASSUME IInv, NEW total \in Nat, MemInit(total)
  PROVE  IInv'
  <1> USE DEF IInv, NothingBeforeInit
  <1>1. owned = {} /\ owned' = {} /\ mem_phys_map' = [i \in Bytes |-> Bits]
    BY DEF MemInit, Return
  <1>2. TypeOK'
    <2>1. (total - PMM_START) % WORD \in Nat
      BY PhysMemAssumption, SizesArePositive, ModIsNat
    <2>2. mem_phys_sectors' \in Nat
      BY <2>1, DivIsNat, SizesArePositive DEF MemInit
    <2>3. mem_phys_map' \in [Bytes -> SUBSET Bits]
      BY <1>1
    <2> QED  BY <1>1, <2>2, <2>3 DEF TypeOK, MemInit, Return, NULL
  <1>3. NothingBeforeInit'
    BY SMT DEF MemInit, NULL, PMM_START
  <1>4. \A s \in Sectors : IsFree(s)'
    BY <1>1, SectorBit DEF IsFree
  <1>5. BooksBalance'
    BY <1>1, <1>4 DEF BooksBalance
  <1> QED  BY <1>2, <1>3, <1>5

LEMMA AllocFoundIInv ==
  ASSUME IInv, NEW i \in Bytes, NEW b \in Bits, AllocFound(i, b), Counted,
         UNCHANGED <<mem_phys_start, mem_phys_sectors>>
  PROVE  IInv' /\ (Covered => given' \cap owned = {})
  <1> DEFINE f == Sector(i, b)
  <1> USE DEF IInv
  <1>1. f \in Sectors /\ f \div 8 = i /\ f % 8 = b
    BY BitSector
  <1>2. /\ mem_phys_map' = [mem_phys_map EXCEPT ![i] = @ \ {b}]
        /\ owned' = owned \cup {f} /\ given' = {f} /\ result' = Addr(f)
        /\ b \in mem_phys_map[i]
    BY DEF AllocFound, Return
  <1>3. mem_phys_start = PMM_START
    BY <1>2 DEF NothingBeforeInit, TypeOK
  <1> HIDE DEF f
  <1>4. TypeOK'
    <2>1. mem_phys_map' \in [Bytes -> SUBSET Bits]
      BY <1>2 DEF TypeOK
    <2>2. Addr(f) \in Nat /\ f \in Nat
      BY <1>1, <1>3, SMT DEF Addr, Sectors, PMM_SECTOR_SIZE, PMM_START
    <2>3. ops' \in 0..MaxOps
      BY PhysMemAssumption DEF Counted, TypeOK
    <2> QED  BY <1>2, <2>1, <2>2, <2>3 DEF TypeOK
  <1>5. ASSUME NEW s \in Sectors
        PROVE  IsFree(s)' <=> IsFree(s) /\ s # f
    <2>1. s \div 8 \in Bytes /\ s % 8 \in Bits /\ Sector(s \div 8, s % 8) = s
      BY SectorBit
    <2>2. s = f <=> s \div 8 = i /\ s % 8 = b
      BY <1>1, <2>1 DEF f
    <2> QED  BY <1>2, <2>1, <2>2 DEF IsFree, TypeOK
  <1>6. NothingBeforeInit'
    BY <1>3, SMT DEF NothingBeforeInit, PMM_START, NULL
  <1>7. IsFree(f)
    BY <1>1, <1>2 DEF IsFree
  <1>8. Covered' <=> Covered
    BY DEF Covered
  <1>9. BooksBalance'
    BY <1>1, <1>2, <1>5, <1>7, <1>8 DEF BooksBalance
  <1>10. Covered => given' \cap owned = {}
    BY <1>2, <1>7 DEF BooksBalance
  <1> QED  BY <1>4, <1>6, <1>9, <1>10

LEMMA NoneIInv ==
  ASSUME IInv, Return(NULL, {}), Counted,
         UNCHANGED <<mem_phys_map, mem_phys_start, mem_phys_sectors>>
  PROVE  IInv' /\ given' = {}
  <1>1. owned' = owned /\ given' = {} /\ result' = 0 /\ ops' \in 0..MaxOps
    BY PhysMemAssumption DEF Return, NULL, Counted, IInv, TypeOK
  <1> QED  BY <1>1 DEF IInv, TypeOK, NothingBeforeInit, BooksBalance, Covered, IsFree

LEMMA AllocRunIInv ==
  ASSUME IInv, NEW n \in Requests, NEW stray \in Stray, NEW i \in Starts(n),
         AllocRunFound(n, i, stray), Counted,
         UNCHANGED <<mem_phys_start, mem_phys_sectors>>
  PROVE  IInv' /\ (Covered => given' \cap owned = {})
  <1> USE DEF IInv
  <1>1. /\ n \in Nat \ {0} /\ i \in Nat /\ i + n <= mem_phys_sectors
        /\ mem_phys_sectors \in Nat
    BY PhysMemAssumption DEF AllocRunFound, Starts, TypeOK
  <1>2. /\ owned' = owned \cup Run(i, n) /\ given' = Run(i, n) /\ result' = Addr(i)
        /\ mem_phys_map' = [y \in Bytes |->
             {b \in mem_phys_map[y] : Sector(y, b) \notin Run(i, n)}]
    BY DEF AllocRunFound, Return, ClearRun
  <1>3. mem_phys_start = PMM_START
    BY <1>1 DEF NothingBeforeInit, TypeOK
  <1>4. Run(i, n) \subseteq Nat
    BY <1>1 DEF Run
  <1>5. TypeOK'
    <2>1. mem_phys_map' \in [Bytes -> SUBSET Bits]
      BY <1>2 DEF TypeOK
    <2>2. Addr(i) \in Nat
      BY <1>1, <1>3, SMT DEF Addr, PMM_SECTOR_SIZE, PMM_START
    <2>3. ops' \in 0..MaxOps
      BY PhysMemAssumption DEF Counted, TypeOK
    <2> QED  BY <1>2, <1>4, <2>1, <2>2, <2>3 DEF TypeOK
  <1>6. ASSUME NEW s \in Sectors
        PROVE  IsFree(s)' <=> IsFree(s) /\ s \notin Run(i, n)
    BY <1>2, SectorBit DEF IsFree, TypeOK
  <1>7. NothingBeforeInit'
    BY <1>3, SMT DEF NothingBeforeInit, PMM_START, NULL
  <1>8. ASSUME Covered
        PROVE  Run(i, n) \subseteq Sectors /\ \A s \in Run(i, n) : IsFree(s)
    <2>1. Run(i, n) \subseteq Sectors
      BY <1>1, <1>8, PhysMemAssumption DEF Covered, Run, Sectors
    <2>2. \A s \in Run(i, n) : s < PMM_SECTORS
      BY <2>1, PhysMemAssumption DEF Sectors
    <2> QED  BY <2>1, <2>2 DEF AllocRunFound, Found
  <1>9. Covered' <=> Covered
    BY DEF Covered
  <1>10. BooksBalance'
    BY <1>2, <1>6, <1>8, <1>9 DEF BooksBalance
  <1>11. Covered => given' \cap owned = {}
    BY <1>2, <1>8 DEF BooksBalance
  <1> QED  BY <1>5, <1>7, <1>10, <1>11

LEMMA FreeIInv ==
  ASSUME IInv, NEW s \in owned, NEW off \in Offsets, Free(s, off)
  PROVE  IInv' /\ given' = {}
  <1> DEFINE i == SectorOf(Addr(s) + off)
  <1> USE DEF IInv
  <1>1. /\ owned' = owned \ {s} /\ given' = {} /\ result' = 0
        /\ mem_phys_map' = [y \in Bytes |->
             IF y = i \div 8 THEN mem_phys_map[y] \cup {i % 8} ELSE mem_phys_map[y]]
        /\ UNCHANGED <<mem_phys_start, mem_phys_sectors>>
    BY DEF Free, NULL
  <1>2. mem_phys_start = PMM_START
    BY DEF NothingBeforeInit, TypeOK
  <1>3. i % 8 \in Bits
    <2>1. (Addr(s) + off) - mem_phys_start \in Int
      BY <1>2, PhysMemAssumption, SMT DEF Addr, TypeOK, PMM_SECTOR_SIZE, PMM_START
    <2>2. ((Addr(s) + off) - mem_phys_start) % WORD \in Nat
      BY <2>1, SizesArePositive, ModIsNat
    <2>3. (((Addr(s) + off) - mem_phys_start) % WORD) \div PMM_SECTOR_SIZE \in Nat
      BY <2>2, SizesArePositive, DivIsNat
    <2>4. i \in Nat
      BY <2>3 DEF SectorOf
    <2> HIDE DEF i
    <2> QED  BY <2>4, SMT DEF Bits
  <1> HIDE DEF i
  <1>4. TypeOK'
    <2>1. mem_phys_map' \in [Bytes -> SUBSET Bits]
      BY <1>1, <1>3 DEF TypeOK
    <2>2. ops' \in 0..MaxOps
      BY PhysMemAssumption DEF Free, Counted, TypeOK
    <2> QED  BY <1>1, <2>1, <2>2 DEF TypeOK
  <1>5. NothingBeforeInit'
    BY <1>1, <1>2, SMT DEF NothingBeforeInit, PMM_START, NULL
  <1>6. ASSUME Covered, NEW t \in Sectors
        PROVE  s \in Sectors /\ (IsFree(t)' <=> IsFree(t) \/ t = s)
    <2>1. s \in Sectors
      BY <1>6 DEF BooksBalance
    <2>2. i = s
      BY <1>2, <2>1, SectorOfAddr, PhysMemAssumption DEF i
    <2>3. /\ t \div 8 \in Bytes /\ Sector(t \div 8, t % 8) = t
          /\ Sector(s \div 8, s % 8) = s
      BY <2>1, SectorBit
    <2>4. t = s <=> t \div 8 = s \div 8 /\ t % 8 = s % 8
      BY <2>3
    <2> QED  BY <1>1, <2>1, <2>2, <2>3, <2>4 DEF IsFree
  <1>7. Covered' <=> Covered
    BY <1>1 DEF Covered
  <1>8. BooksBalance'
    BY <1>1, <1>6, <1>7 DEF BooksBalance
  <1> QED  BY <1>1, <1>4, <1>5, <1>8
-----------------------------------------------------------------------------
\* The calls, whatever amount of memory mem_phys_init is given.
Calls ==
  \/ \E total \in Nat : MemInit(total)
  \/ Alloc
  \/ \E n \in Requests : AllocSectors(n)
  \/ \E s \in owned, off \in Offsets : Free(s, off)

LEMMA NextCalls == [Next]_vars => [Calls]_vars
  BY PhysMemAssumption DEF Next, Calls

LEMMA StepIInv ==
  ASSUME IInv, [Calls]_vars
  PROVE  IInv' /\ [Covered => given' \cap owned = {}]_vars
  <1>1. CASE \E total \in Nat : MemInit(total)
    <2>1. given' = {}
      BY <1>1 DEF MemInit, Return
    <2> QED  BY <1>1, <2>1, MemInitIInv
  <1>2. CASE Alloc
    <2>1. CASE AllocNone
      BY <1>2, <2>1, NoneIInv DEF Alloc, AllocNone
    <2>2. CASE \E i \in Bytes, b \in Bits : AllocFound(i, b)
      BY <1>2, <2>2, AllocFoundIInv DEF Alloc
    <2> QED  BY <1>2, <2>1, <2>2 DEF Alloc
  <1>3. CASE \E n \in Requests : AllocSectors(n)
    <2>1. PICK n \in Requests : AllocSectors(n)
      BY <1>3
    <2>2. PICK stray \in Stray :
            AllocRunNone(n, stray) \/ \E i \in Starts(n) : AllocRunFound(n, i, stray)
      BY <2>1 DEF AllocSectors
    <2>3. Counted /\ UNCHANGED <<mem_phys_start, mem_phys_sectors>>
      BY <2>1 DEF AllocSectors
    <2>4. CASE AllocRunNone(n, stray)
      BY <2>3, <2>4, NoneIInv DEF AllocRunNone
    <2>5. CASE \E i \in Starts(n) : AllocRunFound(n, i, stray)
      BY <2>3, <2>5, AllocRunIInv
    <2> QED  BY <2>2, <2>4, <2>5
  <1>4. CASE \E s \in owned, off \in Offsets : Free(s, off)
    BY <1>4, FreeIInv
  <1>5. CASE UNCHANGED vars
    BY <1>5 DEF vars, IInv, TypeOK, NothingBeforeInit, BooksBalance, Covered, IsFree
  <1> QED  BY <1>1, <1>2, <1>3, <1>4, <1>5 DEF Calls
-----------------------------------------------------------------------------
(* The allocators return the lowest sector, or run of sectors, that nobody *)
(* holds.                                                                  *)
LEMMA AllocIsLowest ==
  ASSUME IInv, Covered, Alloc
  PROVE  IF owned = Sectors
           THEN result' = NULL
           ELSE \E s \in Sectors \ owned :
                  result' = Addr(s) /\ \A t \in Sectors \ owned : s <= t
  <1>1. ASSUME NEW t \in Sectors
        PROVE  t \in owned <=> t % 8 \notin mem_phys_map[t \div 8]
    BY DEF IInv, BooksBalance, IsFree
  <1>2. owned \subseteq Sectors
    BY DEF IInv, BooksBalance
  <1>3. CASE AllocNone
    <2>1. owned = Sectors
      BY <1>1, <1>2, <1>3, SectorBit DEF AllocNone
    <2> QED  BY <1>3, <2>1 DEF AllocNone, Return
  <1>4. ASSUME NEW i \in Bytes, NEW b \in Bits, AllocFound(i, b)
        PROVE  \E s \in Sectors \ owned :
                 result' = Addr(s) /\ \A t \in Sectors \ owned : s <= t
    <2> DEFINE f == Sector(i, b)
    <2>1. f \in Sectors /\ f \div 8 = i /\ f % 8 = b
      BY BitSector
    <2>2. f \notin owned /\ result' = Addr(f)
      BY <1>1, <1>4, <2>1 DEF AllocFound, Return
    <2>3. ASSUME NEW t \in Sectors \ owned
          PROVE  f <= t
      <3>1. /\ t \div 8 \in Bytes /\ t % 8 \in Bits
            /\ t = (t \div 8) * 8 + (t % 8)
        BY SectorBit DEF Sector
      <3>2. t % 8 \in mem_phys_map[t \div 8]
        BY <1>1
      <3>3. t \div 8 \notin 0..i-1
        BY <1>4, <3>2 DEF AllocFound
      <3>4. t \div 8 = i => t % 8 \notin 0..b-1
        BY <1>4, <3>2 DEF AllocFound
      <3> DEFINE y == t \div 8
                 m == t % 8
      <3>5. /\ y \in Nat /\ i \in Nat /\ m \in 0..7 /\ b \in 0..7
            /\ t = y * 8 + m /\ y >= i /\ (y = i => m >= b)
        BY <3>1, <3>3, <3>4, PhysMemAssumption DEF Bytes, Bits
      <3> HIDE DEF y, m
      <3> QED  BY <3>5 DEF Sector
    <2> QED  BY <2>1, <2>2, <2>3
  <1>5. ASSUME NEW i \in Bytes, NEW b \in Bits, AllocFound(i, b)
        PROVE  owned # Sectors
    BY <1>4, <1>5
  <1> QED  BY <1>3, <1>4, <1>5 DEF Alloc

LEMMA AllocSectorsIsLowest ==
  ASSUME IInv, Covered, NEW n \in Requests \ {0}, AllocSectors(n)
  PROVE  LET runs == {i \in 0..mem_phys_sectors-n : Run(i, n) \cap owned = {}} IN
         IF runs = {}
           THEN result' = NULL
           ELSE \E i \in runs : result' = Addr(i) /\ \A k \in runs : i <= k
  <1> DEFINE runs == {i \in 0..mem_phys_sectors-n : Run(i, n) \cap owned = {}}
  <1>1. PICK stray \in Stray :
          AllocRunNone(n, stray) \/ \E i \in Starts(n) : AllocRunFound(n, i, stray)
    BY DEF AllocSectors
  <1>2. n \in Nat \ {0} /\ mem_phys_sectors \in Nat /\ mem_phys_sectors <= PMM_SECTORS
    BY PhysMemAssumption DEF Covered, IInv, TypeOK
  <1>3. ASSUME NEW i \in Starts(n)
        PROVE  Found(i, n, stray) <=> i \in runs
    <2>1. Run(i, n) \subseteq Sectors
      BY <1>2, PhysMemAssumption DEF Starts, Run, Sectors
    <2>2. \A s \in Run(i, n) : s < PMM_SECTORS /\ (IsFree(s) <=> s \notin owned)
      BY <2>1, PhysMemAssumption DEF IInv, BooksBalance, Sectors
    <2> QED  BY <2>2 DEF Found, Starts
  <1>4. CASE AllocRunNone(n, stray)
    <2>1. runs = {}
      <3>1. CASE n > mem_phys_sectors
        BY <1>2, <3>1
      <3>2. CASE \A i \in Starts(n) : ~Found(i, n, stray)
        BY <1>3, <3>2 DEF Starts
      <3> QED  BY <1>2, <1>4, <3>1, <3>2 DEF AllocRunNone
    <2> QED  BY <1>4, <2>1 DEF AllocRunNone, Return
  <1>5. ASSUME NEW i \in Starts(n), AllocRunFound(n, i, stray)
        PROVE  i \in runs /\ result' = Addr(i) /\ \A k \in runs : i <= k
    <2>1. i \in runs /\ result' = Addr(i)
      BY <1>3, <1>5 DEF AllocRunFound, Return
    <2>2. ASSUME NEW k \in runs, k < i
          PROVE  FALSE
      <3>1. k \in Starts(n) /\ k \in 0..i-1
        BY <1>2, <2>2 DEF Starts
      <3>2. ~Found(k, n, stray)
        BY <1>5, <3>1 DEF AllocRunFound
      <3> QED  BY <1>3, <2>2, <3>1, <3>2
    <2>3. \A k \in runs : k \in Int /\ i \in Int
      BY <1>2 DEF Starts
    <2> QED  BY <2>1, <2>2, <2>3
  <1> HIDE DEF runs
  <1>6. IF runs = {} THEN result' = NULL
          ELSE \E i \in runs : result' = Addr(i) /\ \A k \in runs : i <= k
    <2>1. CASE AllocRunNone(n, stray)
      <3>1. runs = {} /\ result' = NULL
        BY <1>2, <1>3, <1>4, <2>1 DEF AllocRunNone, Return, Starts, runs
      <3> QED  BY <3>1
    <2>2. CASE \E i \in Starts(n) : AllocRunFound(n, i, stray)
      BY <1>5, <2>2
    <2> QED  BY <1>1, <2>1, <2>2
  <1> QED  BY <1>6 DEF runs
-----------------------------------------------------------------------------
(* Every state of the allocator has its type: the calls keep within the    *)
(* map.                                                                    *)
THEOREM PhysMemType == Spec => []TypeOK
  <1>1. IInv => TypeOK
    BY DEF IInv
  <1> QED  BY InitIInv, NextCalls, StepIInv, <1>1, PTL DEF Spec

(* A sector is marked free exactly when nobody holds it, provided the map  *)
(* covers the memory.                                                      *)
THEOREM PhysMemBooks == Spec => []BooksBalance
  <1>1. IInv => BooksBalance
    BY DEF IInv
  <1> QED  BY InitIInv, NextCalls, StepIInv, <1>1, PTL DEF Spec

(* No call of mem_phys_alloc or mem_phys_alloc_sectors gives out a sector  *)
(* that somebody holds.                                                    *)
THEOREM PhysMemNoDoubleAllocation == Spec => NoDoubleAllocation
  BY InitIInv, NextCalls, StepIInv, PTL DEF Spec, NoDoubleAllocation

(* mem_phys_alloc returns the lowest sector nobody holds, 0 if there is    *)
(* none.                                                                   *)
THEOREM PhysMemLowestSector == Spec => LowestSector
  BY InitIInv, NextCalls, StepIInv, AllocIsLowest, PTL DEF Spec, LowestSector

(* mem_phys_alloc_sectors returns the lowest run of sectors nobody holds,  *)
(* 0 if there is none.                                                     *)
THEOREM PhysMemLowestRun == Spec => LowestRun
  <1>1. ASSUME IInv
        PROVE  \A n \in Requests \ {0} : Covered /\ AllocSectors(n) =>
                 LET runs == {i \in 0..mem_phys_sectors-n : Run(i, n) \cap owned = {}} IN
                 IF runs = {}
                   THEN result' = NULL
                   ELSE \E i \in runs : result' = Addr(i) /\ \A k \in runs : i <= k
    BY <1>1, AllocSectorsIsLowest
  <1> QED  BY InitIInv, NextCalls, StepIInv, <1>1, PTL DEF Spec, LowestRun
-----------------------------------------------------------------------------
(* What is summed up: the least number of a set, and running sums.         *)
LEMMA LeastNumber ==
  ASSUME NEW S, S \subseteq Nat, S # {}
  PROVE  \E m \in S : \A k \in S : m <= k
  <1> DEFINE R == {ss \in Nat \X Nat : ss[1] < ss[2]}
  <1>1. R = OpToRel(<, Nat)
    BY DEF OpToRel
  <1>2. IsWellFoundedOn(R, Nat)
    BY <1>1, NatLessThanWellFounded
  <1>3. PICK m \in S : \A k \in S : ~ (<<k, m>> \in R)
    <2> HIDE DEF R
    <2> QED  BY <1>2, WFMin
  <1>4. \A k \in S : m <= k
    <2>1. SUFFICES ASSUME NEW k \in S, k < m PROVE FALSE
      BY SMT
    <2>2. <<k, m>> \in R
      BY <2>1
    <2> QED  BY <1>3, <2>2
  <1> QED  BY <1>4

\* f[i] is c and what w has from m + 1 to i.
IsSum(f, m, n, c, w) == \A i \in m..n : f[i] = IF i = m THEN c ELSE f[i - 1] + w[i]
Adds(w, m, n) == \A i \in m+1..n : w[i] \in Nat

LEMMA RunningSum ==
  ASSUME NEW m \in Nat, NEW n \in Nat, NEW c \in Nat, NEW w, Adds(w, m, n)
  PROVE  \E f \in [m..n -> Nat] : IsSum(f, m, n, c, w)
  <1> USE DEF IsSum, Adds
  <1> DEFINE Is(f, p) == f \in [m..p -> Nat] /\ IsSum(f, m, p, c, w)
             S == {p \in 0..n : ~ \E f : Is(f, p)}
  <1>1. ASSUME S # {} PROVE FALSE
    <2>1. S \subseteq Nat
      OBVIOUS
    <2> HIDE DEF S
    <2>2. PICK p \in S : \A k \in S : p <= k
      BY <1>1, <2>1, LeastNumber
    <2> USE DEF S
    <2>3. p \in Nat /\ p <= n /\ ~ \E f : Is(f, p)
      BY <2>2
    <2>4. CASE p < m
      <3>1. Is([i \in m..p |-> c], p)
        BY <2>3, <2>4
      <3> QED  BY <2>3, <3>1
    <2>5. CASE p = m
      <3>1. Is([i \in m..p |-> c], p)
        BY <2>3, <2>5
      <3> QED  BY <2>3, <3>1
    <2>6. CASE p > m
      <3>1. p - 1 \in 0..n /\ p - 1 \notin S
        <4>1. p - 1 \in 0..n /\ ~ (p <= p - 1)
          BY <2>3, <2>6
        <4> HIDE DEF S
        <4> QED  BY <2>2, <4>1
      <3>2. PICK f : Is(f, p - 1)
        BY <3>1
      <3> DEFINE g == [i \in m..p |-> IF i = p THEN f[p - 1] + w[p] ELSE f[i]]
      <3>3. p - 1 \in m..p-1 /\ p \in m+1..n
        BY <2>3, <2>6
      <3>4. f[p - 1] + w[p] \in Nat
        BY <3>2, <3>3
      <3>5. g \in [m..p -> Nat]
        BY <2>3, <3>2, <3>4
      <3>6. ASSUME NEW i \in m..p
            PROVE  g[i] = IF i = m THEN c ELSE g[i - 1] + w[i]
        <4>1. CASE i = p
          <5>1. i # m /\ i - 1 \in m..p /\ i - 1 # p
            BY <2>3, <2>6, <4>1
          <5> QED  BY <4>1, <5>1
        <4>2. CASE i # p
          <5>1. i \in m..p-1 /\ (i # m => i - 1 \in m..p /\ i - 1 # p)
            BY <2>3, <4>2
          <5>2. f[i] = IF i = m THEN c ELSE f[i - 1] + w[i]
            BY <3>2, <5>1
          <5> QED  BY <4>2, <5>1, <5>2
        <4> QED  BY <4>1, <4>2
      <3> HIDE DEF g
      <3>7. Is(g, p)
        BY <3>5, <3>6
      <3> QED  BY <2>3, <3>7
    <2> QED  BY <2>3, <2>4, <2>5, <2>6
  <1>2. n \notin S
    BY <1>1
  <1>3. PICK f : Is(f, n)
    BY <1>2
  <1> QED  BY <1>3

LEMMA SumIsNat ==
  ASSUME NEW m \in Nat, NEW n \in Nat, NEW c \in Nat, NEW w, Adds(w, m, n),
         NEW f, IsSum(f, m, n, c, w), NEW j \in m..n
  PROVE  f[j] \in Nat
  <1> USE DEF IsSum, Adds
  <1> DEFINE S == {k \in m..n : f[k] \notin Nat}
  <1>1. ASSUME S # {} PROVE FALSE
    <2>1. S \subseteq Nat
      OBVIOUS
    <2> HIDE DEF S
    <2>2. PICK p \in S : \A k \in S : p <= k
      BY <1>1, <2>1, LeastNumber
    <2> USE DEF S
    <2>3. p \in m..n /\ f[p] \notin Nat /\ p # m
      BY <2>2
    <2>4. p - 1 \in m..n /\ p - 1 \notin S
      <3>1. p - 1 \in m..n /\ ~ (p <= p - 1)
        BY <2>3
      <3> HIDE DEF S
      <3> QED  BY <2>2, <3>1
    <2>5. f[p - 1] \in Nat /\ w[p] \in Nat /\ f[p] = f[p - 1] + w[p]
      BY <2>3, <2>4
    <2> QED  BY <2>3, <2>5
  <1> QED  BY <1>1

LEMMA Increasing ==
  ASSUME NEW n \in Nat, NEW f \in [1..n -> Nat],
         \A i \in 2..n : f[i - 1] < f[i],
         NEW i \in 1..n, NEW j \in 1..n, i < j
  PROVE  f[i] < f[j]
  <1> DEFINE S == {k \in i+1..n : ~ (f[i] < f[k])}
  <1>1. ASSUME S # {} PROVE FALSE
    <2>1. S \subseteq Nat
      OBVIOUS
    <2> HIDE DEF S
    <2>2. PICK p \in S : \A k \in S : p <= k
      BY <1>1, <2>1, LeastNumber
    <2> USE DEF S
    <2>3. p \in i+1..n /\ ~ (f[i] < f[p])
      BY <2>2
    <2>4. p - 1 = i \/ (p - 1 \in i+1..n /\ p - 1 \notin S)
      BY <2>2, <2>3
    <2>5. p - 1 \in 1..n /\ p \in 2..n
      BY <2>3
    <2>6. f[i] <= f[p - 1]
      BY <2>4, <2>5
    <2>7. f[p - 1] < f[p]
      BY <2>5
    <2>8. f[i] \in Nat /\ f[p - 1] \in Nat /\ f[p] \in Nat
      BY <2>3, <2>5
    <2> QED  BY <2>3, <2>6, <2>7, <2>8
  <1>2. j \in i+1..n /\ j \notin S
    <2>1. j \in i+1..n
      OBVIOUS
    <2> HIDE DEF S
    <2> QED  BY <1>1, <2>1
  <1> QED  BY <1>2

(* The tags' addresses and the map's sums follow the definitions: what     *)
(* they recur to exists.                                                   *)
LEMMA AddrOfStep ==
  ASSUME info \in Infos
  PROVE  /\ AddrOf \in [1..Len(tags) -> Nat]
         /\ \A i \in 1..Len(tags) :
              AddrOf[i] = IF i = 1 THEN TAGS ELSE AddrOf[i - 1] + Up(tags[i - 1].size)
  <1> DEFINE n == Len(tags)
             w == [i \in 1..n |-> Up(tags[i - 1].size)]
             Fun(f) == [i \in 1..n |-> IF i = 1 THEN TAGS ELSE f[i - 1] + Up(tags[i - 1].size)]
  <1>1. WellFormed(tags)
    BY MemoryAssumption DEF tags
  <1>2. n \in Nat /\ n > 0 /\ tags \in Seq(TagType)
    BY <1>1 DEF WellFormed
  <1>3. \A i \in 2..n : w[i] \in Nat /\ w[i] = Up(tags[i - 1].size)
    <2>1. ASSUME NEW i \in 2..n
          PROVE  w[i] \in Nat /\ w[i] = Up(tags[i - 1].size)
      <3>1. tags[i - 1] \in TagType
        BY <1>2, <2>1
      <3>2. tags[i - 1].size \in Nat
        BY <3>1 DEF TagType
      <3>3. Up(tags[i - 1].size) \in Nat
        BY <3>2 DEF Up
      <3>4. i \in 1..n
        BY <1>2, <2>1
      <3> QED  BY <3>3, <3>4
    <2> HIDE DEF w
    <2> QED  BY <2>1
  <1> HIDE DEF n, w
  <1>4. Adds(w, 1, n) /\ TAGS \in Nat
    BY <1>3 DEF Adds, TAGS
  <1>5. PICK f \in [1..n -> Nat] : IsSum(f, 1, n, TAGS, w)
    BY <1>2, <1>4, RunningSum
  <1>6. f = Fun(f)
    <2>1. \A i \in 1..n : f[i] = Fun(f)[i]
      BY <1>2, <1>3, <1>5 DEF IsSum
    <2> QED  BY <1>5, <2>1
  <1>7. AddrOf = CHOOSE g : g = Fun(g)
    BY DEF AddrOf, n
  <1>8. AddrOf = Fun(AddrOf)
    <2> HIDE DEF Fun
    <2> QED  BY <1>6, <1>7
  <1>9. \A i \in 1..n : AddrOf[i] = IF i = 1 THEN TAGS ELSE AddrOf[i - 1] + Up(tags[i - 1].size)
    BY <1>8
  <1>10. IsSum(AddrOf, 1, n, TAGS, w)
    BY <1>2, <1>3, <1>9 DEF IsSum
  <1>11. \A i \in 1..n : AddrOf[i] \in Nat
    BY <1>2, <1>4, <1>10, SumIsNat
  <1>12. AddrOf \in [1..n -> Nat]
    BY <1>8, <1>11
  <1> QED  BY <1>9, <1>12 DEF n

LEMMA MapIsSeq ==
  ASSUME info \in Infos
  PROVE  Map \in Seq(Region)
  <1>1. WellFormed(tags)
    BY MemoryAssumption DEF tags
  <1>2. CASE Maps = {}
    BY <1>2 DEF Map
  <1>3. CASE Maps # {}
    <2>1. Maps \subseteq Nat
      BY <1>1 DEF Maps, WellFormed
    <2>2. \E i \in Maps : \A j \in Maps : i <= j
      BY <1>3, <2>1, LeastNumber
    <2>3. PICK i \in Maps : Map = tags[i].entries
      BY <1>3, <2>2 DEF Map
    <2>4. tags[i] \in TagType /\ tags[i].type = MULTIBOOT_TAG_TYPE_MMAP
      BY <1>1, <2>3 DEF Maps, WellFormed
    <2> QED  BY <2>3, <2>4 DEF TagType
  <1> QED  BY <1>2, <1>3

LEMMA SumStep ==
  ASSUME info \in Infos
  PROVE  /\ Sum \in [0..Len(Map) -> Nat]
         /\ Sum[0] = 0
         /\ \A k \in 1..Len(Map) :
              Sum[k] = Sum[k - 1] + IF k \in Ram THEN Map[k].len ELSE 0
  <1> DEFINE n == Len(Map)
             w == [k \in 1..n |-> IF k \in Ram THEN Map[k].len ELSE 0]
             Fun(f) == [k \in 0..n |->
               IF k = 0 THEN 0 ELSE f[k - 1] + IF k \in Ram THEN Map[k].len ELSE 0]
  <1>1. Map \in Seq(Region) /\ n \in Nat
    BY MapIsSeq
  <1>2. \A k \in 1..n : w[k] \in Nat /\ w[k] = IF k \in Ram THEN Map[k].len ELSE 0
    <2>1. ASSUME NEW k \in 1..n
          PROVE  w[k] \in Nat
      <3>1. Map[k] \in Region
        BY <1>1
      <3> QED  BY <3>1 DEF Region
    <2> QED  BY <2>1
  <1> HIDE DEF n, w
  <1>3. Adds(w, 0, n) /\ 0 \in Nat
    BY <1>2 DEF Adds
  <1>4. PICK f \in [0..n -> Nat] : IsSum(f, 0, n, 0, w)
    BY <1>1, <1>3, RunningSum
  <1>5. f = Fun(f)
    <2>1. \A k \in 0..n : f[k] = Fun(f)[k]
      BY <1>1, <1>2, <1>4 DEF IsSum
    <2> QED  BY <1>4, <2>1
  <1>6. Sum = CHOOSE g : g = Fun(g)
    BY DEF Sum, n
  <1>7. Sum = Fun(Sum)
    <2> HIDE DEF Fun
    <2> QED  BY <1>5, <1>6
  <1>8. \A k \in 0..n :
          Sum[k] = IF k = 0 THEN 0 ELSE Sum[k - 1] + IF k \in Ram THEN Map[k].len ELSE 0
    BY <1>7
  <1>9. IsSum(Sum, 0, n, 0, w)
    BY <1>1, <1>2, <1>8 DEF IsSum
  <1>10. \A k \in 0..n : Sum[k] \in Nat
    BY <1>1, <1>3, <1>9, SumIsNat
  <1>11. Sum \in [0..n -> Nat]
    BY <1>7, <1>10
  <1> QED  BY <1>1, <1>8, <1>11 DEF n

-----------------------------------------------------------------------------
(* The walk over the boot loader's tags: it is at one of them, with no     *)
(* memory map before it, and an entry is read only where the memory map    *)
(* has one, so that what is added up are the lengths of its regions.       *)
AtTag(i) ==
  /\ i \in 1..Len(tags) /\ tag = AddrOf[i]
  /\ \A j \in 1..i-1 : tags[j].type # MULTIBOOT_TAG_TYPE_MMAP
AtEntry ==
  /\ Tag.type = MULTIBOOT_TAG_TYPE_MMAP
  /\ \E k \in 0..Len(Tag.entries) :
       entry_ptr = tag + MMAP_HEADER + k * Tag.entry_size /\ available_memory = Sum[k]
WalkInv ==
  /\ info \in Infos /\ walk \in {"start", "tags", "entries", "done"}
  /\ tag \in Nat /\ entry_ptr \in Nat /\ available_memory \in Nat
  /\ walk \in {"tags", "entries"} => Info(info).magic /\ \E i \in 1..Len(tags) : AtTag(i)
  /\ walk \in {"start", "tags"} => available_memory = 0
  /\ walk = "entries" => AtEntry
  /\ TotalIsAvailable

(* mem_phys_init was given the sum.                                        *)
SectorsInv ==
  mem_phys_start # NULL =>
    /\ walk = "done"
    /\ mem_phys_sectors = ((available_memory - PMM_START) % WORD) \div PMM_SECTOR_SIZE

MInv == IInv /\ WalkInv /\ SectorsInv

LEMMA AddrOfIncreases ==
  ASSUME info \in Infos, NEW i \in 1..Len(tags), NEW j \in 1..Len(tags), i < j
  PROVE  AddrOf[i] < AddrOf[j]
  <1> DEFINE n == Len(tags)
  <1>1. WellFormed(tags) /\ n \in Nat
    <2>1. WellFormed(tags)
      BY MemoryAssumption DEF tags
    <2> QED  BY <2>1 DEF WellFormed
  <1>2. /\ AddrOf \in [1..n -> Nat]
        /\ \A k \in 2..n : AddrOf[k] = AddrOf[k - 1] + Up(tags[k - 1].size)
    BY <1>1, AddrOfStep
  <1>3. ASSUME NEW k \in 2..n
        PROVE  AddrOf[k - 1] < AddrOf[k]
    <2>1. k - 1 \in 1..n-1 /\ k - 1 \in 1..n
      BY <1>1
    <2>2. tags[k - 1] \in TagType /\ tags[k - 1].size >= 8
      BY <1>1, <2>1 DEF WellFormed
    <2>3. tags[k - 1].size \in Nat
      BY <2>2 DEF TagType
    <2>4. Up(tags[k - 1].size) \in Nat \ {0}
      BY <2>2, <2>3 DEF Up
    <2>5. AddrOf[k - 1] \in Nat /\ AddrOf[k] = AddrOf[k - 1] + Up(tags[k - 1].size)
      BY <1>2, <2>1
    <2> QED  BY <2>4, <2>5
  <1> HIDE DEF n
  <1>4. i \in 1..n /\ j \in 1..n
    BY DEF n
  <1> QED  BY <1>1, <1>2, <1>3, <1>4, Increasing

LEMMA TagIsThere ==
  ASSUME info \in Infos, NEW i \in 1..Len(tags), AtTag(i)
  PROVE  IsTag(tag) /\ Tag = tags[i]
  <1>1. IsTag(tag)
    BY DEF IsTag, AtTag
  <1>2. Len(tags) \in Nat /\ AddrOf \in [1..Len(tags) -> Nat]
    BY MemoryAssumption, AddrOfStep DEF tags, WellFormed
  <1>3. ASSUME NEW j \in 1..Len(tags), AddrOf[j] = tag
        PROVE  j = i
    <2>1. ~ (i < j) /\ ~ (j < i)
      <3>1. AddrOf[i] = AddrOf[j] /\ AddrOf[i] \in Nat
        BY <1>2, <1>3 DEF AtTag
      <3>2. ~ (AddrOf[i] < AddrOf[j]) /\ ~ (AddrOf[j] < AddrOf[i])
        BY <3>1
      <3> QED  BY <3>2, AddrOfIncreases
    <2> QED  BY <1>2, <2>1
  <1>4. TagAt(tag) = tags[i]
    BY <1>3 DEF TagAt, AtTag
  <1> QED  BY <1>1, <1>4 DEF Tag

LEMMA MapIsHere ==
  ASSUME info \in Infos, NEW i \in 1..Len(tags), AtTag(i), tags[i].type = MULTIBOOT_TAG_TYPE_MMAP
  PROVE  Map = tags[i].entries
  <1>1. Len(tags) \in Nat
    BY MemoryAssumption DEF tags, WellFormed
  <1>2. i \in Maps /\ \A j \in Maps : i <= j
    BY <1>1 DEF Maps, AtTag
  <1>3. \A j \in Maps : (\A k \in Maps : j <= k) => j = i
    BY <1>1, <1>2 DEF Maps
  <1> QED  BY <1>2, <1>3 DEF Map

LEMMA MmapType ==
  ASSUME info \in Infos, Tag.type = MULTIBOOT_TAG_TYPE_MMAP
  PROVE  /\ Tag.entry_size \in Nat \ {0} /\ Tag.entries \in Seq(Region)
         /\ Tag.size = MMAP_HEADER + Len(Tag.entries) * Tag.entry_size
  <1>1. WellFormed(tags)
    BY MemoryAssumption DEF tags
  <1>2. IsTag(tag) /\ Tag = TagAt(tag)
    BY DEF Tag, MULTIBOOT_TAG_TYPE_MMAP, MULTIBOOT_TAG_TYPE_END
  <1>3. PICK i \in 1..Len(tags) : Tag = tags[i]
    BY <1>2 DEF IsTag, TagAt
  <1>4. tags \in Seq(TagType) /\ Len(tags) \in Nat /\ tags[Len(tags)].type = MULTIBOOT_TAG_TYPE_END
    BY <1>1 DEF WellFormed
  <1>5. i \in 1..Len(tags)-1 /\ tags[i] \in TagType
    BY <1>3, <1>4 DEF MULTIBOOT_TAG_TYPE_MMAP, MULTIBOOT_TAG_TYPE_END
  <1>6. tags[i].entry_size # 0 /\ tags[i].size = MMAP_HEADER + Len(tags[i].entries) * tags[i].entry_size
    BY <1>1, <1>3, <1>5 DEF WellFormed
  <1>7. tags[i].entry_size \in Nat /\ tags[i].entries \in Seq(Region)
    BY <1>3, <1>5 DEF TagType
  <1> QED  BY <1>3, <1>6, <1>7

LEMMA OtherType ==
  ASSUME info \in Infos, Tag.type \notin {MULTIBOOT_TAG_TYPE_END, MULTIBOOT_TAG_TYPE_MMAP}
  PROVE  Tag.size \in Nat
  <1>1. tags \in Seq(TagType)
    BY MemoryAssumption DEF tags, WellFormed
  <1>2. IsTag(tag) /\ Tag = TagAt(tag)
    BY DEF Tag
  <1>3. PICK i \in 1..Len(tags) : Tag = tags[i]
    BY <1>2 DEF IsTag, TagAt
  <1> QED  BY <1>1, <1>3 DEF TagType

\* Multiplication keeps its order, for the steps of the entry pointer.
LEMMA FewerFit ==
  ASSUME NEW k \in Nat, NEW n \in Nat, NEW size \in Nat \ {0}, k * size < n * size
  PROVE  k < n
  <1>1. SUFFICES ASSUME n <= k PROVE FALSE
    OBVIOUS
  <1>2. n * size <= k * size
    BY <1>1
  <1> QED  BY <1>2

LEMMA EntryIsThere ==
  ASSUME WalkInv, walk = "entries", entry_ptr < tag + Tag.size
  PROVE  /\ Entry \in Region
         /\ \E k \in 1..Len(Tag.entries) :
              /\ entry_ptr + Tag.entry_size = tag + MMAP_HEADER + k * Tag.entry_size
              /\ Sum[k] = available_memory
                   + IF Entry.type = MULTIBOOT_MEMORY_AVAILABLE THEN Entry.len ELSE 0
  <1> DEFINE size == Tag.entry_size
             n == Len(Tag.entries)
  <1>1. Tag.type = MULTIBOOT_TAG_TYPE_MMAP
    BY DEF WalkInv, AtEntry
  <1>2. /\ size \in Nat \ {0} /\ Tag.entries \in Seq(Region) /\ n \in Nat
        /\ Tag.size = MMAP_HEADER + n * size
    BY <1>1, MmapType DEF WalkInv
  <1>3. PICK k \in 0..n : entry_ptr = tag + MMAP_HEADER + k * size /\ available_memory = Sum[k]
    BY DEF WalkInv, AtEntry
  <1> HIDE DEF size, n
  <1>4. k \in Nat /\ k * size \in Nat /\ n * size \in Nat /\ tag \in Nat /\ MMAP_HEADER \in Nat
    BY <1>2, <1>3 DEF WalkInv, MMAP_HEADER
  <1>5. k * size < n * size
    <2> DEFINE x == k * size
               y == n * size
    <2>1. /\ x \in Nat /\ y \in Nat /\ tag \in Nat /\ MMAP_HEADER \in Nat
          /\ tag + MMAP_HEADER + x < tag + (MMAP_HEADER + y)
      BY <1>2, <1>3, <1>4
    <2> HIDE DEF x, y
    <2>2. x < y
      BY <2>1
    <2> QED  BY <2>2 DEF x, y
  <1>6. k < n
    BY <1>2, <1>4, <1>5, FewerFit
  <1>7. (entry_ptr - tag - MMAP_HEADER) \div size = k
    <2> DEFINE x == k * size
    <2>1. entry_ptr - tag - MMAP_HEADER = x
      <3>1. x \in Nat /\ tag \in Nat /\ MMAP_HEADER \in Nat /\ entry_ptr = tag + MMAP_HEADER + x
        BY <1>3, <1>4
      <3> HIDE DEF x
      <3> QED  BY <3>1
    <2>2. x \div size = k
      <3>1. (size * k + 0) \div size = k
        BY <1>2, <1>4, DivOfMultiple
      <3>2. size * k + 0 = x
        BY <1>2, <1>4
      <3> QED  BY <3>1, <3>2
    <2> QED  BY <2>1, <2>2
  <1>8. Entry = Tag.entries[k + 1]
    BY <1>7 DEF Entry, size
  <1>9. k + 1 \in 1..n
    BY <1>2, <1>4, <1>6
  <1>10. Entry \in Region
    BY <1>2, <1>8, <1>9 DEF n
  <1>11. entry_ptr + size = tag + MMAP_HEADER + (k + 1) * size
    <2> DEFINE x == k * size
    <2>1. (k + 1) * size = x + size
      BY <1>2, <1>4
    <2>2. x \in Nat /\ size \in Nat /\ entry_ptr = tag + MMAP_HEADER + x
      BY <1>2, <1>3, <1>4
    <2> HIDE DEF x
    <2> QED  BY <1>4, <2>1, <2>2
  <1>12. Sum[k + 1] = available_memory
                 + IF Entry.type = MULTIBOOT_MEMORY_AVAILABLE THEN Entry.len ELSE 0
    <2>1. PICK i \in 1..Len(tags) : AtTag(i)
      BY DEF WalkInv
    <2>2. Map = Tag.entries
      BY <1>1, <2>1, TagIsThere, MapIsHere DEF WalkInv
    <2>3. (k + 1) - 1 = k /\ k + 1 \in 1..Len(Map)
      BY <1>4, <1>9, <2>2 DEF n
    <2>4. Sum[k + 1] = Sum[k] + IF k + 1 \in Ram THEN Map[k + 1].len ELSE 0
      BY <2>3, SumStep DEF WalkInv
    <2>5. k + 1 \in Ram <=> Entry.type = MULTIBOOT_MEMORY_AVAILABLE
      BY <1>8, <2>2, <2>3 DEF Ram
    <2> QED  BY <1>3, <1>8, <2>2, <2>4, <2>5
  <1> QED  BY <1>9, <1>10, <1>11, <1>12 DEF n, size

LEMMA BadMagicInv ==
  ASSUME WalkInv, BadMagic
  PROVE  WalkInv'
  <1>1. /\ walk = "start" /\ walk' = "done" /\ ~Info(info).magic /\ info' = info
        /\ UNCHANGED <<tag, entry_ptr, available_memory>>
    BY DEF BadMagic, Walk
  <1>2. TotalIsAvailable'
    BY <1>1 DEF TotalIsAvailable, WalkInv
  <1> QED  BY <1>1, <1>2 DEF WalkInv

LEMMA FirstTagInv ==
  ASSUME WalkInv, FirstTag
  PROVE  WalkInv'
  <1>1. /\ walk = "start" /\ walk' = "tags" /\ Info(info).magic /\ info' = info
        /\ tag' = TAGS /\ UNCHANGED <<entry_ptr, available_memory>>
    BY DEF FirstTag, Walk
  <1>2. tags' = tags /\ AddrOf' = AddrOf
    BY <1>1 DEF tags, AddrOf
  <1>3. 1 \in 1..Len(tags) /\ 1..1-1 = {}
    BY MemoryAssumption DEF tags, WellFormed, WalkInv
  <1>4. AddrOf[1] = TAGS
    BY <1>3, AddrOfStep DEF WalkInv
  <1>5. AtTag(1)'
    BY <1>1, <1>2, <1>3, <1>4 DEF AtTag
  <1>6. (\E i \in 1..Len(tags) : AtTag(i))'
    BY <1>2, <1>3, <1>5
  <1> QED  BY <1>1, <1>6 DEF WalkInv, TotalIsAvailable, TAGS

LEMMA EndTagInv ==
  ASSUME WalkInv, EndTag
  PROVE  WalkInv'
  <1>1. /\ walk = "tags" /\ walk' = "done" /\ info' = info /\ Tag.type = MULTIBOOT_TAG_TYPE_END
        /\ UNCHANGED <<tag, entry_ptr, available_memory>>
    BY DEF EndTag, Walk
  <1>2. PICK i \in 1..Len(tags) : AtTag(i)
    BY <1>1 DEF WalkInv
  <1>3. tags[i].type = MULTIBOOT_TAG_TYPE_END
    BY <1>1, <1>2, TagIsThere DEF WalkInv
  <1>4. WellFormed(tags) /\ Len(tags) \in Nat
    BY MemoryAssumption DEF tags, WellFormed, WalkInv
  <1>5. i = Len(tags)
    BY <1>3, <1>4 DEF WellFormed
  <1>6. Maps = {}
    <2>1. \A j \in 1..Len(tags) : tags[j].type # MULTIBOOT_TAG_TYPE_MMAP
      BY <1>2, <1>3, <1>4, <1>5 DEF AtTag, MULTIBOOT_TAG_TYPE_MMAP, MULTIBOOT_TAG_TYPE_END
    <2> QED  BY <2>1 DEF Maps
  <1>7. Map = <<>> /\ Sum[Len(Map)] = 0
    <2>1. Map = <<>>
      BY <1>6 DEF Map
    <2> QED  BY <2>1, SumStep DEF WalkInv
  <1>8. Sum' = Sum /\ Map' = Map
    BY <1>1 DEF Sum, Ram, Map, Maps, tags
  <1>9. TotalIsAvailable'
    BY <1>1, <1>7, <1>8 DEF TotalIsAvailable, WalkInv
  <1> QED  BY <1>1, <1>9 DEF WalkInv

LEMMA MmapTagInv ==
  ASSUME WalkInv, MmapTag
  PROVE  WalkInv'
  <1>1. /\ walk = "tags" /\ walk' = "entries" /\ info' = info
        /\ entry_ptr' = tag + MMAP_HEADER
        /\ UNCHANGED <<tag, available_memory>> /\ Tag.type = MULTIBOOT_TAG_TYPE_MMAP
    BY DEF MmapTag, Walk
  <1>2. Tag' = Tag /\ tags' = tags /\ AddrOf' = AddrOf /\ Sum' = Sum
    BY <1>1 DEF Tag, IsTag, TagAt, AddrOf, tags, Sum, Ram, Map, Maps
  <1>3. /\ Tag.entry_size \in Nat \ {0} /\ Tag.entries \in Seq(Region)
    BY <1>1, MmapType DEF WalkInv
  <1>4. /\ 0 \in 0..Len(Tag.entries) /\ MMAP_HEADER \in Nat
        /\ tag + MMAP_HEADER = tag + MMAP_HEADER + 0 * Tag.entry_size
    BY <1>3 DEF WalkInv, MMAP_HEADER
  <1>5. available_memory = Sum[0]
    BY <1>1, SumStep DEF WalkInv
  <1>6. AtEntry'
    BY <1>1, <1>2, <1>4, <1>5 DEF AtEntry
  <1>7. entry_ptr' \in Nat
    BY <1>1, <1>4 DEF WalkInv
  <1>8. (\E i \in 1..Len(tags) : AtTag(i))'
    BY <1>1, <1>2 DEF WalkInv, AtTag
  <1> QED  BY <1>1, <1>6, <1>7, <1>8 DEF WalkInv, TotalIsAvailable

LEMMA OtherTagInv ==
  ASSUME WalkInv, OtherTag
  PROVE  WalkInv'
  <1>1. /\ walk = "tags" /\ info' = info /\ tag' = tag + Step(Tag.size)
        /\ UNCHANGED <<walk, entry_ptr, available_memory>>
        /\ Tag.type \notin {MULTIBOOT_TAG_TYPE_END, MULTIBOOT_TAG_TYPE_MMAP}
    BY DEF OtherTag, Walk
  <1>2. PICK i \in 1..Len(tags) : AtTag(i)
    BY <1>1 DEF WalkInv
  <1>3. Tag = tags[i]
    BY <1>2, TagIsThere DEF WalkInv
  <1>4. WellFormed(tags) /\ Len(tags) \in Nat
    BY MemoryAssumption DEF tags, WellFormed, WalkInv
  <1>5. i + 1 \in 1..Len(tags) /\ i + 1 # 1 /\ (i + 1) - 1 = i
    BY <1>1, <1>3, <1>4 DEF WellFormed
  <1>6. AddrOf[i + 1] = AddrOf[i] + Up(tags[i].size)
    <2>1. AddrOf[i + 1] = IF i + 1 = 1 THEN TAGS ELSE AddrOf[(i + 1) - 1] + Up(tags[(i + 1) - 1].size)
      BY <1>5, AddrOfStep DEF WalkInv
    <2> QED  BY <1>5, <2>1
  <1>7. tags' = tags /\ AddrOf' = AddrOf
    BY <1>1 DEF tags, AddrOf
  <1>8. AtTag(i + 1)'
    <2>1. tag' = AddrOf[i + 1]
      BY <1>1, <1>2, <1>3, <1>6 DEF AtTag, Step
    <2>2. \A j \in 1..(i + 1)-1 : tags[j].type # MULTIBOOT_TAG_TYPE_MMAP
      BY <1>1, <1>2, <1>3, <1>5 DEF AtTag
    <2> QED  BY <1>5, <1>7, <2>1, <2>2 DEF AtTag
  <1>9. tag' \in Nat
    BY <1>5, <1>7, <1>8, AddrOfStep DEF AtTag, WalkInv
  <1>10. (\E k \in 1..Len(tags) : AtTag(k))'
    BY <1>5, <1>7, <1>8
  <1> QED  BY <1>1, <1>9, <1>10 DEF WalkInv, TotalIsAvailable

LEMMA MmapEntryInv ==
  ASSUME WalkInv, MmapEntry
  PROVE  WalkInv'
  <1>1. /\ walk = "entries" /\ entry_ptr < tag + Tag.size /\ walk' = walk /\ tag' = tag
        /\ entry_ptr' = entry_ptr + Tag.entry_size /\ info' = info
        /\ available_memory' =
              available_memory + IF Entry.type = MULTIBOOT_MEMORY_AVAILABLE THEN Entry.len ELSE 0
    BY DEF MmapEntry, InEntries, Walk, AddEntry
  <1>2. Tag' = Tag /\ tags' = tags /\ AddrOf' = AddrOf /\ Sum' = Sum
    BY <1>1 DEF Tag, IsTag, TagAt, AddrOf, tags, Sum, Ram, Map, Maps
  <1>3. PICK k \in 1..Len(Tag.entries) :
          /\ entry_ptr' = tag + MMAP_HEADER + k * Tag.entry_size
          /\ available_memory' = Sum[k]
    BY <1>1, EntryIsThere
  <1>4. Tag.type = MULTIBOOT_TAG_TYPE_MMAP
    BY <1>1 DEF WalkInv, AtEntry
  <1>5. Tag.entry_size \in Nat \ {0} /\ Tag.entries \in Seq(Region)
    BY <1>4, MmapType DEF WalkInv
  <1>6. AtEntry'
    <2>1. k \in 0..Len(Tag.entries)
      BY <1>5
    <2> QED  BY <1>1, <1>2, <1>3, <1>4, <2>1 DEF AtEntry
  <1>7. available_memory' \in Nat
    <2>1. Entry.len \in Nat
      BY <1>1, EntryIsThere DEF Region
    <2> QED  BY <1>1, <2>1 DEF WalkInv
  <1>8. entry_ptr' \in Nat
    BY <1>1, <1>5 DEF WalkInv
  <1>9. (\E i \in 1..Len(tags) : AtTag(i))'
    BY <1>1, <1>2 DEF WalkInv, AtTag
  <1> QED  BY <1>1, <1>6, <1>7, <1>8, <1>9 DEF WalkInv, TotalIsAvailable

LEMMA EndOfMapInv ==
  ASSUME WalkInv, EndOfMap
  PROVE  WalkInv'
  <1> DEFINE size == Tag.entry_size
             n == Len(Tag.entries)
  <1>1. /\ walk = "entries" /\ entry_ptr >= tag + Tag.size /\ walk' = "done" /\ info' = info
        /\ UNCHANGED <<tag, entry_ptr, available_memory>>
    BY DEF EndOfMap, Walk
  <1>2. Tag.type = MULTIBOOT_TAG_TYPE_MMAP
    BY <1>1 DEF WalkInv, AtEntry
  <1>3. /\ size \in Nat \ {0} /\ Tag.entries \in Seq(Region) /\ n \in Nat
        /\ Tag.size = MMAP_HEADER + n * size
    BY <1>2, MmapType DEF WalkInv
  <1>4. PICK k \in 0..n : entry_ptr = tag + MMAP_HEADER + k * size /\ available_memory = Sum[k]
    BY <1>1 DEF WalkInv, AtEntry
  <1> HIDE DEF size, n
  <1>5. k = n
    <2>1. k * size >= n * size
      <3> DEFINE x == k * size
                 y == n * size
      <3>1. /\ x \in Nat /\ y \in Nat /\ tag \in Nat /\ MMAP_HEADER \in Nat
            /\ tag + MMAP_HEADER + x >= tag + (MMAP_HEADER + y)
        BY <1>1, <1>3, <1>4 DEF WalkInv, MMAP_HEADER
      <3> HIDE DEF x, y
      <3>2. x >= y
        BY <3>1
      <3> QED  BY <3>2 DEF x, y
    <2>2. ASSUME k < n PROVE FALSE
      <3>1. k + 1 <= n /\ k \in Nat
        BY <1>3, <2>2
      <3>2. (k + 1) * size <= n * size
        BY <1>3, <3>1
      <3>3. (k + 1) * size = k * size + size
        BY <1>3, <3>1
      <3>4. k * size \in Nat /\ n * size \in Nat
        BY <1>3, <3>1
      <3> QED  BY <1>3, <2>1, <3>2, <3>3, <3>4
    <2> QED  BY <1>3, <2>2
  <1>6. PICK i \in 1..Len(tags) : AtTag(i)
    BY <1>1 DEF WalkInv
  <1>7. Map = Tag.entries
    BY <1>2, <1>6, TagIsThere, MapIsHere DEF WalkInv
  <1>8. Sum' = Sum /\ Map' = Map
    BY <1>1 DEF Sum, Ram, Map, Maps, tags
  <1>9. TotalIsAvailable'
    BY <1>1, <1>4, <1>5, <1>7, <1>8 DEF TotalIsAvailable, WalkInv, n
  <1> QED  BY <1>1, <1>9 DEF WalkInv

LEMMA GetMemoryInv ==
  ASSUME MInv, GetMemory
  PROVE  WalkInv' /\ SectorsInv' /\ UNCHANGED vars
  <1>1. UNCHANGED <<vars, info>> /\ walk # "done"
    BY DEF GetMemory, BadMagic, FirstTag, EndTag, MmapTag, OtherTag, MmapEntry, InEntries, EndOfMap, Walk
  <1>2. mem_phys_start' = NULL
    BY <1>1 DEF MInv, SectorsInv, vars
  <1> QED  BY <1>1, <1>2, BadMagicInv, FirstTagInv, EndTagInv, MmapTagInv, OtherTagInv, MmapEntryInv,
              EndOfMapInv DEF GetMemory, MInv, SectorsInv

LEMMA WalkInvKept ==
  ASSUME WalkInv, UNCHANGED <<info, walk, tag, entry_ptr, available_memory>>
  PROVE  WalkInv'
  <1>1. Tag' = Tag /\ tags' = tags /\ AddrOf' = AddrOf
    BY DEF Tag, IsTag, TagAt, AddrOf, tags
  <1>2. Sum' = Sum /\ Map' = Map
    BY DEF Sum, Ram, Map, Maps, tags
  <1>3. AtEntry' <=> AtEntry
    BY <1>1, <1>2 DEF AtEntry
  <1>4. (\E i \in 1..Len(tags) : AtTag(i))' <=> \E i \in 1..Len(tags) : AtTag(i)
    BY <1>1 DEF AtTag
  <1>5. TotalIsAvailable' <=> TotalIsAvailable
    BY <1>2 DEF TotalIsAvailable
  <1> QED  BY <1>3, <1>4, <1>5 DEF WalkInv

LEMMA MInitInv == MInit => MInv
  <1> SUFFICES ASSUME MInit PROVE MInv
    OBVIOUS
  <1>1. WalkInv
    BY DEF MInit, WalkInv, TotalIsAvailable
  <1>2. SectorsInv
    BY DEF MInit, Init, SectorsInv
  <1> QED  BY <1>1, <1>2, InitIInv DEF MInit, MInv

LEMMA MNextInv ==
  ASSUME MInv, [MNext]_mvars
  PROVE  MInv' /\ [Calls]_vars
  <1>1. IInv /\ WalkInv /\ SectorsInv
    BY DEF MInv
  <1>2. CASE GetMemory
    BY <1>1, <1>2, GetMemoryInv, StepIInv DEF MInv
  <1>3. CASE PhysInit \/ Use
    <2>1. Calls
      BY <1>1, <1>3 DEF PhysInit, Use, Calls, WalkInv
    <2>2. UNCHANGED <<info, walk, tag, entry_ptr, available_memory>>
      BY <1>3 DEF PhysInit, Use, wvars
    <2>3. WalkInv'
      BY <1>1, <2>2, WalkInvKept
    <2>4. SectorsInv'
      <3>1. CASE PhysInit
        BY <2>2, <3>1 DEF PhysInit, MemInit, SectorsInv
      <3>2. CASE Use
        <4>1. UNCHANGED <<mem_phys_start, mem_phys_sectors>>
          BY <3>2 DEF Use, Alloc, AllocSectors, Free
        <4> QED  BY <1>1, <2>2, <4>1 DEF SectorsInv
      <3> QED  BY <1>3, <3>1, <3>2
    <2> QED  BY <1>1, <2>1, <2>3, <2>4, StepIInv DEF MInv
  <1>4. CASE UNCHANGED mvars
    <2>1. UNCHANGED vars /\ UNCHANGED <<info, walk, tag, entry_ptr, available_memory>>
      BY <1>4 DEF mvars, wvars
    <2>2. WalkInv'
      BY <1>1, <2>1, WalkInvKept
    <2>3. SectorsInv'
      BY <1>1, <2>1 DEF SectorsInv, vars
    <2> QED  BY <1>1, <2>1, <2>2, <2>3, StepIInv DEF MInv
  <1> QED  BY <1>2, <1>3, <1>4 DEF MNext

-----------------------------------------------------------------------------
(* If the regions of available memory are disjoint and one of them ends    *)
(* the memory, they add up to no more than the address where it ends.      *)
Ends(i) == Map[i].addr + Map[i].len

LEMMA RamIsRegions ==
  ASSUME info \in Infos, NEW i \in Ram
  PROVE  /\ i \in 1..Len(Map) /\ Map[i].addr \in Nat /\ Map[i].len \in Nat
         /\ Ends(i) = Map[i].addr + Map[i].len
  <1>1. Map \in Seq(Region) /\ i \in 1..Len(Map)
    BY MapIsSeq DEF Ram
  <1>2. Map[i] \in Region
    BY <1>1
  <1> QED  BY <1>1, <1>2 DEF Region, Ends

LEMMA StretchEnds ==
  ASSUME info \in Infos, OneStretch
  PROVE  \E i \in Ram : Map[i].addr = PMM_START /\ \A j \in Ram : Ends(j) <= Ends(i)
  <1>1. PMM_START \in Nat
    BY SizesArePositive
  <1>2. PICK i \in Ram : Map[i].addr = PMM_START
    BY DEF OneStretch
  <1>3. CASE \E j \in Ram : Map[j].addr = PMM_START /\ Map[j].len > 0
    <2>1. PICK j \in Ram : Map[j].addr = PMM_START /\ Map[j].len > 0
      BY <1>3
    <2>2. ASSUME NEW k \in Ram, k # j
          PROVE  Ends(k) <= Ends(j)
      <3>1. /\ Map[k].addr = PMM_START \/ Ends(k) <= PMM_START
            /\ Ends(j) <= Map[k].addr \/ Ends(k) <= Map[j].addr
        BY <2>2 DEF OneStretch, Ends
      <3>2. /\ Map[k].addr \in Nat /\ Map[k].len \in Nat /\ Ends(k) = Map[k].addr + Map[k].len
            /\ Map[j].addr \in Nat /\ Map[j].len \in Nat /\ Ends(j) = Map[j].addr + Map[j].len
        BY RamIsRegions
      <3> QED  BY <1>1, <2>1, <3>1, <3>2
    <2>3. Ends(j) <= Ends(j)
      <3>1. Ends(j) = Map[j].addr + Map[j].len /\ Map[j].addr \in Nat /\ Map[j].len \in Nat
        BY RamIsRegions
      <3> QED  BY <3>1
    <2> QED  BY <2>1, <2>2, <2>3
  <1>4. CASE \A j \in Ram : Map[j].addr = PMM_START => ~ (Map[j].len > 0)
    <2>1. ASSUME NEW k \in Ram
          PROVE  Ends(k) <= Ends(i)
      <3>1. /\ Map[k].addr = PMM_START \/ Ends(k) <= PMM_START
            /\ Map[k].addr = PMM_START => ~ (Map[k].len > 0)
        BY <1>4, <2>1 DEF OneStretch, Ends
      <3>2. /\ Map[k].addr \in Nat /\ Map[k].len \in Nat /\ Ends(k) = Map[k].addr + Map[k].len
            /\ Map[i].addr \in Nat /\ Map[i].len \in Nat /\ Ends(i) = Map[i].addr + Map[i].len
        BY RamIsRegions
      <3> QED  BY <1>1, <1>2, <3>1, <3>2
    <2> QED  BY <1>2, <2>1
  <1> QED  BY <1>3, <1>4

LEMMA DisjointRegions ==
  ASSUME info \in Infos, NEW B \in Nat, \A i \in Ram : Ends(i) <= B,
         \A i, j \in Ram : i # j => Ends(i) <= Map[j].addr \/ Ends(j) <= Map[i].addr
  PROVE  Sum[Len(Map)] <= B
  <1> DEFINE n == Len(Map)
             In(a, i) == i \in Ram /\ Map[i].addr <= a /\ a < Ends(i)
             Cells(k) == {a \in 0..B-1 : \E i \in 1..k : In(a, i)}
             S == {k \in 0..n : Sum[k] # Cardinality(Cells(k))}
  <1>1. /\ n \in Nat /\ Sum \in [0..n -> Nat] /\ Sum[0] = 0
        /\ \A k \in 1..n : Sum[k] = Sum[k - 1] + IF k \in Ram THEN Map[k].len ELSE 0
    BY MapIsSeq, SumStep
  <1>2. IsFiniteSet(0..B-1) /\ Cardinality(0..B-1) = B
    <2>1. 0 \in Int /\ B - 1 \in Int
      OBVIOUS
    <2>2. IsFiniteSet(0..B-1) /\ Cardinality(0..B-1) = IF 0 > B - 1 THEN 0 ELSE (B - 1) - 0 + 1
      BY <2>1, FS_Interval
    <2> QED  BY <2>2
  <1>3. \A k : IsFiniteSet(Cells(k)) /\ Cardinality(Cells(k)) <= B
    <2>1. \A k : Cells(k) \in SUBSET (0..B-1)
      OBVIOUS
    <2> HIDE DEF Cells
    <2> QED  BY <1>2, <2>1, FS_Subset
  <1>4. ASSUME NEW k \in 1..n, Sum[k - 1] = Cardinality(Cells(k - 1))
        PROVE  Sum[k] = Cardinality(Cells(k))
    <2> DEFINE I == {a \in 0..B-1 : In(a, k)}
    <2>1. Cells(k) = Cells(k - 1) \cup I
      BY <1>1
    <2>2. CASE k \in Ram
      <3>1. /\ Map[k].addr \in Nat /\ Map[k].len \in Nat
            /\ Ends(k) = Map[k].addr + Map[k].len /\ Ends(k) <= B
        BY <2>2, RamIsRegions
      <3>2. I = Map[k].addr..Ends(k)-1
        BY <2>2, <3>1
      <3>3. IsFiniteSet(I) /\ Cardinality(I) = Map[k].len
        <4>1. Map[k].addr \in Int /\ Ends(k) - 1 \in Int
          BY <3>1
        <4>2. /\ IsFiniteSet(Map[k].addr..Ends(k)-1)
              /\ Cardinality(Map[k].addr..Ends(k)-1) =
                   IF Map[k].addr > Ends(k) - 1 THEN 0 ELSE (Ends(k) - 1) - Map[k].addr + 1
          BY <4>1, FS_Interval
        <4>3. (IF Map[k].addr > Ends(k) - 1 THEN 0 ELSE (Ends(k) - 1) - Map[k].addr + 1) = Map[k].len
          BY <3>1
        <4> HIDE DEF I
        <4> QED  BY <3>2, <4>2, <4>3
      <3>4. Cells(k - 1) \cap I = {}
        <4>1. SUFFICES ASSUME NEW a \in 0..B-1, NEW i \in 1..k-1, In(a, i), In(a, k)
                       PROVE  FALSE
          OBVIOUS
        <4>2. i # k /\ i \in Ram
          BY <1>1, <4>1
        <4>3. Ends(i) <= Map[k].addr \/ Ends(k) <= Map[i].addr
          BY <2>2, <4>2
        <4>4. Map[i].addr \in Nat /\ Map[i].len \in Nat /\ Ends(i) = Map[i].addr + Map[i].len
          BY <4>2, RamIsRegions
        <4>5. a \in Nat /\ Map[i].addr <= a /\ a < Ends(i) /\ Map[k].addr <= a /\ a < Ends(k)
          BY <4>1
        <4> HIDE DEF Cells, I, In, n
        <4>6. Ends(i) \in Nat /\ Ends(k) \in Nat
          BY <3>1, <4>4
        <4>7. ~ (Ends(i) <= Map[k].addr)
          BY <3>1, <4>5, <4>6
        <4>8. ~ (Ends(k) <= Map[i].addr)
          BY <4>4, <4>5, <4>6
        <4> QED  BY <4>3, <4>7, <4>8
      <3>5. Sum[k] = Sum[k - 1] + Map[k].len
        BY <1>1, <2>2
      <3> HIDE DEF Cells, I
      <3>6. Cardinality(Cells(k - 1) \cup I) = Cardinality(Cells(k - 1)) + Cardinality(I)
        <4>1. Cardinality(Cells(k - 1) \cup I)
                = Cardinality(Cells(k - 1)) + Cardinality(I) - Cardinality(Cells(k - 1) \cap I)
          BY <1>3, <3>3, FS_Union
        <4>2. Cardinality(Cells(k - 1) \cap I) = 0
          BY <3>4, FS_EmptySet
        <4>3. Cardinality(Cells(k - 1)) \in Nat /\ Cardinality(I) \in Nat
          BY <1>3, <3>3, FS_CardinalityType
        <4> QED  BY <4>1, <4>2, <4>3
      <3> QED  BY <1>4, <2>1, <3>3, <3>5, <3>6
    <2>3. CASE k \notin Ram
      <3>1. I = {}
        BY <2>3
      <3>2. Sum[k] = Sum[k - 1] + 0 /\ Sum[k - 1] \in Nat
        BY <1>1, <2>3
      <3>3. Cells(k) = Cells(k - 1)
        BY <2>1, <3>1
      <3> HIDE DEF Cells
      <3> QED  BY <1>4, <3>2, <3>3
    <2> QED  BY <2>2, <2>3
  <1>5. Sum[0] = Cardinality(Cells(0))
    <2>1. Cells(0) = {}
      OBVIOUS
    <2> HIDE DEF Cells
    <2> QED  BY <1>1, <2>1, FS_EmptySet
  <1> HIDE DEF Cells
  <1>6. ASSUME S # {} PROVE FALSE
    <2>1. S \subseteq Nat
      OBVIOUS
    <2> HIDE DEF S
    <2>2. PICK k \in S : \A p \in S : k <= p
      BY <1>6, <2>1, LeastNumber
    <2>3. k \in 0..n /\ Sum[k] # Cardinality(Cells(k))
      BY <2>2 DEF S
    <2>4. k \in 1..n
      BY <1>1, <1>5, <2>3
    <2>5. k - 1 \in 0..n /\ ~ (k <= k - 1)
      BY <1>1, <2>4
    <2>6. Sum[k - 1] = Cardinality(Cells(k - 1))
      BY <2>2, <2>5 DEF S
    <2> QED  BY <1>4, <2>3, <2>4, <2>6
  <1>7. n \in 0..n /\ Sum[n] = Cardinality(Cells(n))
    BY <1>1, <1>6
  <1> QED  BY <1>3, <1>7

\* Fewer sectors fit than there are bytes for.
LEMMA SectorsFit ==
  ASSUME NEW d \in Nat, NEW n \in Nat \ {0}, NEW s \in Nat, s + 1 <= d \div n
  PROVE  n * (s + 1) <= d
  <1>1. d \div n \in Nat /\ n * (d \div n) <= d
    BY SMT
  <1>2. n * (s + 1) <= n * (d \div n)
    <2>1. s + 1 \in Nat /\ n \in Nat
      OBVIOUS
    <2> QED  BY <1>1, <2>1
  <1>3. n * (s + 1) \in Nat /\ n * (d \div n) \in Nat
    BY <1>1
  <1> QED  BY <1>1, <1>2, <1>3

LEMMA GivenIsRam ==
  ASSUME MInv, Trusted, NEW n \in Requests, AllocSectors(n), NEW s \in given'
  PROVE  IsRam(s)
  <1>1. PICK stray \in Stray, i \in Starts(n) : AllocRunFound(n, i, stray)
    BY DEF AllocSectors, AllocRunNone, Return
  <1>2. /\ n \in Nat \ {0} /\ i \in Nat /\ i + n <= mem_phys_sectors /\ mem_phys_sectors \in Nat
        /\ s \in i..i+n-1
    BY <1>1, PhysMemAssumption DEF AllocRunFound, Starts, Return, Run, MInv, IInv, TypeOK
  <1>3. s \in Nat /\ s + 1 <= mem_phys_sectors
    BY <1>2
  <1>4. mem_phys_start = PMM_START /\ mem_phys_start # NULL
    BY <1>2, SizesArePositive DEF MInv, IInv, NothingBeforeInit, TypeOK, NULL
  <1> DEFINE d == available_memory - PMM_START
  <1>5. d \in Nat /\ d < WORD /\ PMM_START \in Nat /\ available_memory \in Nat
        /\ available_memory = PMM_START + d
    BY SizesArePositive DEF Trusted
  <1>6. mem_phys_sectors = d \div PMM_SECTOR_SIZE
    <2>1. d % WORD = d
      <3> HIDE DEF d
      <3> QED  BY <1>5, SizesArePositive
    <2> QED  BY <1>4, <2>1 DEF MInv, SectorsInv
  <1>7. PMM_SECTOR_SIZE * (s + 1) <= d
    <2> HIDE DEF d
    <2> QED  BY <1>3, <1>5, <1>6, SectorsFit, SizesArePositive
  <1>8. info \in Infos /\ OneStretch /\ available_memory = Sum[Len(Map)]
    BY <1>4 DEF MInv, WalkInv, SectorsInv, TotalIsAvailable, Trusted
  <1>9. PICK r \in Ram : Map[r].addr = PMM_START /\ \A j \in Ram : Ends(j) <= Ends(r)
    BY <1>8, StretchEnds
  <1>10. Ends(r) = PMM_START + Map[r].len /\ Map[r].len \in Nat /\ Ends(r) \in Nat
    <2>1. Ends(r) = Map[r].addr + Map[r].len /\ Map[r].len \in Nat
      BY <1>8, RamIsRegions
    <2> QED  BY <1>5, <1>9, <2>1
  <1>11. Sum[Len(Map)] <= Ends(r)
    <2>1. \A i1, j \in Ram : i1 # j => Ends(i1) <= Map[j].addr \/ Ends(j) <= Map[i1].addr
      BY <1>8 DEF OneStretch, Ends
    <2> QED  BY <1>8, <1>9, <1>10, <2>1, DisjointRegions
  <1>12. /\ Addr(s) = PMM_START + PMM_SECTOR_SIZE * s
         /\ Addr(s) + PMM_SECTOR_SIZE = PMM_START + PMM_SECTOR_SIZE * (s + 1)
         /\ PMM_SECTOR_SIZE * s \in Nat /\ PMM_SECTOR_SIZE * (s + 1) \in Nat
    BY <1>3, <1>4, SMT DEF Addr, PMM_SECTOR_SIZE, PMM_START
  <1>13. PMM_START <= Addr(s) /\ Addr(s) + PMM_SECTOR_SIZE <= PMM_START + Map[r].len
    <2> DEFINE x == PMM_SECTOR_SIZE * s
               y == PMM_SECTOR_SIZE * (s + 1)
    <2>1. /\ x \in Nat /\ y \in Nat /\ y <= d /\ Addr(s) = PMM_START + x
          /\ Addr(s) + PMM_SECTOR_SIZE = PMM_START + y /\ PMM_START + d <= PMM_START + Map[r].len
      BY <1>5, <1>7, <1>8, <1>10, <1>11, <1>12
    <2> HIDE DEF x, y, d
    <2> QED  BY <1>5, <1>10, <2>1
  <1> QED  BY <1>9, <1>13 DEF IsRam
-----------------------------------------------------------------------------
(* multiboot.c:22-33: whatever tags the boot loader leaves, the walk is at *)
(* one of them, reads no entry that the memory map does not have, and the  *)
(* number it returns is one that mem_phys_init can take.                   *)
THEOREM MemoryMapIsWalked ==
  MSpec => [](/\ walk \in {"tags", "entries"} => IsTag(tag)
              /\ walk = "entries" /\ entry_ptr < tag + Tag.size => Entry \in Region
              /\ available_memory \in Nat)
  <1>1. ASSUME MInv
        PROVE  /\ walk \in {"tags", "entries"} => IsTag(tag)
               /\ walk = "entries" /\ entry_ptr < tag + Tag.size => Entry \in Region
               /\ available_memory \in Nat
    BY <1>1, EntryIsThere, TagIsThere DEF MInv, WalkInv
  <1> QED  BY <1>1, MInitInv, MNextInv, PTL DEF MSpec

(* multiboot.c:10-42: the number that mb2_get_memory returns is the sum of *)
(* the available regions of the first memory map, for all tags and sizes.  *)
THEOREM MemoryIsTheSum == MSpec => []TotalIsAvailable
  <1>1. MInv => TotalIsAvailable
    BY DEF MInv, WalkInv
  <1> QED  BY <1>1, MInitInv, MNextInv, PTL DEF MSpec

(* kernel.c:127-136: with the memory that the boot loader's tags add up    *)
(* to, map and callers agree, nothing is given out twice, and the          *)
(* allocators return what is lowest.                                       *)
THEOREM MemoryBooks == MSpec => [](TypeOK /\ BooksBalance)
  <1>1. MInv => TypeOK /\ BooksBalance
    BY DEF MInv, IInv
  <1> QED  BY <1>1, MInitInv, MNextInv, PTL DEF MSpec

(* kernel.c:127-136: the same of what the calls give out.                  *)
THEOREM MemoryAllocates == MSpec => NoDoubleAllocation /\ LowestSector /\ LowestRun
  <1>1. ASSUME MInv, [Calls]_vars
        PROVE  [Covered => given' \cap owned = {}]_vars
    BY <1>1, StepIInv DEF MInv
  <1>2. ASSUME MInv
        PROVE  Covered /\ Alloc =>
                 IF owned = Sectors
                   THEN result' = NULL
                   ELSE \E s \in Sectors \ owned :
                          result' = Addr(s) /\ \A t \in Sectors \ owned : s <= t
    BY <1>2, AllocIsLowest DEF MInv
  <1>3. ASSUME MInv
        PROVE  \A n \in Requests \ {0} : Covered /\ AllocSectors(n) =>
                 LET runs == {i \in 0..mem_phys_sectors-n : Run(i, n) \cap owned = {}} IN
                 IF runs = {}
                   THEN result' = NULL
                   ELSE \E i \in runs : result' = Addr(i) /\ \A k \in runs : i <= k
    BY <1>3, AllocSectorsIsLowest DEF MInv
  <1> QED  BY <1>1, <1>2, <1>3, MInitInv, MNextInv, PTL
           DEF MSpec, NoDoubleAllocation, LowestSector, LowestRun

(* kernel.c:127-136: with the memory of one stretch from 1 MB on and what  *)
(* lies below, mem_phys_alloc_sectors gives out no sector that is not in   *)
(* that stretch, however many regions the boot loader splits it into below *)
(* 1 MB.                                                                   *)
THEOREM MemoryIsGiven == MSpec => RunsAreMemory
  <1>1. ASSUME MInv
        PROVE  given' # {} /\ Trusted /\ (\E s \in given' : ~IsRam(s))
                 => \A n \in Requests : ~AllocSectors(n)
    BY <1>1, GivenIsRam
  <1> QED  BY <1>1, MInitInv, MNextInv, PTL DEF MSpec, RunsAreMemory
=============================================================================
