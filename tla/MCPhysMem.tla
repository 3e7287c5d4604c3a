----------------------------- MODULE MCPhysMem -----------------------------
(* Instance of Memory and PhysMem for TLC: boot loaders that report no      *)
(* memory, less than the map covers, as much and more.                      *)
EXTENDS Memory
MCWord == PMM_START + PMM_SECTOR_SIZE * 19

End == [type |-> 0, size |-> 8]
Name(n) == [type |-> 2, size |-> 8 + n]
MmapOf(size, entries) ==
  [type |-> 6, size |-> 16 + Len(entries) * size, entry_size |-> size, entries |-> entries]
R(addr, len, type) == [addr |-> addr, len |-> len, type |-> type]
High(n) == R(PMM_START, PMM_SECTOR_SIZE * n, 1)
Low == R(0, PMM_START, 1)
Top(n) == R(PMM_START + PMM_SECTOR_SIZE * n, PMM_SECTOR_SIZE, 2)
Conventional == R(0, 655360, 1)

MCInfos == 0..8
MCInfo(n) ==
  [magic |-> n # 0,
   tags |->
     CASE n = 0 -> <<MmapOf(24, <<Low, High(10)>>), End>>
       [] n = 1 -> <<Name(5), End>>
       [] n = 2 -> <<Name(5), Name(8), MmapOf(24, <<Low, High(10), Top(10)>>), End>>
       [] n = 3 -> <<Name(1), MmapOf(40, <<Low, Top(16), High(16)>>), Name(3), End>>
       [] n = 4 -> <<MmapOf(24, <<High(17), Low>>), MmapOf(24, <<High(9)>>), End>>
       [] n = 5 -> <<MmapOf(24, <<Conventional, High(60)>>), Name(7), End>>
       [] n = 6 -> <<MmapOf(24, <<Low>>), End>>
       [] n = 7 -> <<Name(9), MmapOf(28, <<Low, High(3), R(2097152, 16384, 2), R(4194304, 57344, 1)>>), End>>
       [] n = 8 -> <<MmapOf(24, <<Low, High(19), R(4194304, 8192 * 136, 1)>>), End>>]

MCMemories == {0} \cup {PMM_START + PMM_SECTOR_SIZE * n : n \in {0, 10, 12, 16, 17, 155}}
=============================================================================
