------------------------------- MODULE Memory -------------------------------
(***************************************************************************)
(* Where PhysMem's memory comes from: mb2_get_memory of boot/multiboot.c   *)
(* walks over the boot loader's tags, a tag or an entry of the memory map  *)
(* per step, and kernel_entry hands its sum to mem_phys_init.              *)
(***************************************************************************)
EXTENDS PhysMem, Sequences

CONSTANTS
  Info(_),        (* what a boot loader left: the magic number, and a      *)
                  (* sequence of tags [type, size, entry_size, entries]    *)
  Infos           (* the numbers of those that are modelled                *)

MULTIBOOT_TAG_TYPE_END == 0
MULTIBOOT_TAG_TYPE_MMAP == 6
MULTIBOOT_MEMORY_AVAILABLE == 1
TAGS == 8                    (* sizeof the header before the first tag     *)
MMAP_HEADER == 16            (* sizeof(multiboot_tag_mmap_t)               *)

\* The next multiple of 8.
Up(n) == ((n + 7) \div 8) * 8

Region == [addr : Nat, len : Nat, type : Nat]
TagType ==
  [type : Nat \ {MULTIBOOT_TAG_TYPE_MMAP}, size : Nat]
    \cup [type : {MULTIBOOT_TAG_TYPE_MMAP}, size : Nat, entry_size : Nat, entries : Seq(Region)]

\* What the boot loader promises: the last tag, and only that, has type END; a
\* memory map's size counts its header and its entries.
WellFormed(tags) ==
  /\ tags \in Seq(TagType) /\ tags # <<>>
  /\ tags[Len(tags)].type = MULTIBOOT_TAG_TYPE_END
  /\ \A i \in 1..Len(tags)-1 :
       /\ tags[i].type # MULTIBOOT_TAG_TYPE_END /\ tags[i].size >= 8
       /\ tags[i].type = MULTIBOOT_TAG_TYPE_MMAP =>
            /\ tags[i].entry_size # 0
            /\ tags[i].size = MMAP_HEADER + Len(tags[i].entries) * tags[i].entry_size

ASSUME MemoryAssumption == \A i \in Infos : WellFormed(Info(i).tags)

VARIABLES
  info,              (* which of them it is                                *)
  walk,              (* "start", "tags", "entries" or "done"               *)
  tag, entry_ptr,    (* addresses, from the start of the information       *)
  available_memory

wvars == <<walk, tag, entry_ptr, available_memory>>
mvars == <<vars, info, wvars>>

\* Tags follow each other at addresses divisible by 8, entries at once.
tags == Info(info).tags
AddrOf[i \in 1..Len(tags)] == IF i = 1 THEN TAGS ELSE AddrOf[i - 1] + Up(tags[i - 1].size)
IsTag(a) == \E i \in 1..Len(tags) : AddrOf[i] = a
TagAt(a) == tags[CHOOSE i \in 1..Len(tags) : AddrOf[i] = a]
Tag == IF IsTag(tag) THEN TagAt(tag) ELSE [type |-> MULTIBOOT_TAG_TYPE_END]
Entry == Tag.entries[((entry_ptr - tag - MMAP_HEADER) \div Tag.entry_size) + 1]

MInit ==
  /\ Init
  /\ info \in Infos
  /\ walk = "start" /\ tag = 0 /\ entry_ptr = 0 /\ available_memory = 0

Walk == walk # "done" /\ UNCHANGED <<vars, info>>

BadMagic ==
  /\ Walk /\ walk = "start" /\ ~Info(info).magic
  /\ walk' = "done" /\ UNCHANGED <<tag, entry_ptr, available_memory>>

FirstTag ==
  /\ Walk /\ walk = "start" /\ Info(info).magic
  /\ walk' = "tags" /\ tag' = TAGS /\ UNCHANGED <<entry_ptr, available_memory>>

EndTag ==
  /\ Walk /\ walk = "tags" /\ Tag.type = MULTIBOOT_TAG_TYPE_END
  /\ walk' = "done" /\ UNCHANGED <<tag, entry_ptr, available_memory>>

MmapTag ==
  /\ Walk /\ walk = "tags" /\ Tag.type = MULTIBOOT_TAG_TYPE_MMAP
  /\ walk' = "entries" /\ entry_ptr' = tag + MMAP_HEADER
  /\ UNCHANGED <<tag, available_memory>>

\* Mutant of Step: a tag's size is taken for the distance to the next.
StepUnaligned(size) == size
Step(size) == Up(size)

OtherTag ==
  /\ Walk /\ walk = "tags"
  /\ Tag.type \notin {MULTIBOOT_TAG_TYPE_END, MULTIBOOT_TAG_TYPE_MMAP}
  /\ tag' = tag + Step(Tag.size) /\ UNCHANGED <<walk, entry_ptr, available_memory>>

InEntries == Walk /\ walk = "entries" /\ entry_ptr < tag + Tag.size

\* Mutant of AddEntry: memory that is reserved is added as well.
AddEntryAny == available_memory' = available_memory + Entry.len
AddEntry ==
  available_memory' =
    available_memory + IF Entry.type = MULTIBOOT_MEMORY_AVAILABLE THEN Entry.len ELSE 0

MmapEntry ==
  /\ InEntries
  /\ AddEntry
  /\ entry_ptr' = entry_ptr + Tag.entry_size /\ UNCHANGED <<walk, tag>>

\* No tag after the memory map is looked at.
EndOfMap ==
  /\ Walk /\ walk = "entries" /\ entry_ptr >= tag + Tag.size
  /\ walk' = "done" /\ UNCHANGED <<tag, entry_ptr, available_memory>>

GetMemory ==
  BadMagic \/ FirstTag \/ EndTag \/ MmapTag \/ OtherTag \/ MmapEntry \/ EndOfMap

PhysInit ==
  /\ walk = "done" /\ MemInit(available_memory)
  /\ UNCHANGED <<info, wvars>>

Use ==
  /\ \/ Alloc
     \/ \E n \in Requests : AllocSectors(n)
     \/ \E s \in owned, off \in Offsets : Free(s, off)
  /\ mem_phys_start # NULL
  /\ UNCHANGED <<info, wvars>>

MNext == GetMemory \/ PhysInit \/ Use

MSpec == MInit /\ [][MNext]_mvars
-----------------------------------------------------------------------------
(* What the map says, from the boot loader's side.                         *)
Maps == {i \in 1..Len(tags) : tags[i].type = MULTIBOOT_TAG_TYPE_MMAP}
Map == IF Maps = {} THEN <<>> ELSE tags[CHOOSE i \in Maps : \A j \in Maps : i <= j].entries
Ram == {i \in 1..Len(Map) : Map[i].type = MULTIBOOT_MEMORY_AVAILABLE}
\* The memory in the first k regions.
Sum[k \in 0..Len(Map)] == IF k = 0 THEN 0 ELSE Sum[k - 1] + IF k \in Ram THEN Map[k].len ELSE 0

\* One stretch of memory from PMM_START on, and the rest of it lies below.
OneStretch ==
  /\ \E i \in Ram : Map[i].addr = PMM_START
  /\ \A i \in Ram : Map[i].addr = PMM_START \/ Map[i].addr + Map[i].len <= PMM_START
  /\ \A i, j \in Ram : i # j => Map[i].addr + Map[i].len <= Map[j].addr
                                  \/ Map[j].addr + Map[j].len <= Map[i].addr
IsRam(s) ==
  \E i \in Ram : Map[i].addr <= Addr(s) /\ Addr(s) + PMM_SECTOR_SIZE <= Map[i].addr + Map[i].len

(* multiboot.c:10-42: the number found is the sum of the available regions *)
(* of the first memory map, wherever it is among the tags and however long *)
(* its entries are; without the magic number or a memory map it is 0.      *)
TotalIsAvailable ==
  walk = "done" => available_memory = IF Info(info).magic THEN Sum[Len(Map)] ELSE 0

(* kernel.c:127-136: the memory below 1 MB counts too, but no more than    *)
(* 1 MB is taken off for it.  If there is one stretch of memory from 1 MB  *)
(* on, mem_phys_alloc_sectors gives out nothing but that.                  *)
Trusted == OneStretch /\ Info(info).magic /\ available_memory \in PMM_START..WORD-1
RunsAreMemory ==
  [][given' # {} /\ Trusted /\ (\E s \in given' : ~IsRam(s))
       => \A n \in Requests : ~AllocSectors(n)]_mvars
=============================================================================
