------------------------------- MODULE Loader -------------------------------
(***************************************************************************)
(* How the program gets into memory: ext2_mount, the lookup of a name in   *)
(* the root directory and of its inode, and um_setup_env, which reads the  *)
(* file to USER_CODE_BASE.  The metadata of the image are records, as      *)
(* genext2fs lays them out; the contents of files are bytes of memory.     *)
(***************************************************************************)
EXTENDS Ext2File, Sequences

CONSTANTS
  MIN_BLOCK,        (* 1024, the smallest block size                       *)
  UNIT,             (* 512, the unit of i_blocks                           *)
  INODE_SIZE,       (* sizeof(ext2_inode_t)                                *)
  USER_CODE_BASE,
  Image(_),         (* an image: magic, blocks, blocks_per_group and       *)
                    (* inodes_per_group of the superblock; per group the   *)
                    (* block of its inode table; the inodes from number 1; *)
                    (* per directory block its entries by their offset     *)
  Images,           (* the numbers of the images that are modelled         *)
  OtherImages,      (* bound: those of which other callers read            *)
  Program           (* the name of the program                             *)

EXT2_ROOT_INO == 2

\* genext2fs makes as many groups as the blocks need; their inode tables are
\* apart from each other and together hold the inodes.
TablesHold(im) ==
  /\ im.blocks + im.blocks_per_group <= WORD
  /\ (Len(im.tables) - 1) * im.blocks_per_group < im.blocks
  /\ Len(im.inodes) <= Len(im.tables) * im.inodes_per_group
  /\ \A g, h \in 1..Len(im.tables) : g < h =>
       im.tables[g] * BLOCK_SIZE + im.inodes_per_group * INODE_SIZE <= im.tables[h] * BLOCK_SIZE

\* The entries of a directory block lie one behind the other, up to its end or
\* to one without a length.
Tiled(entries, inodes) ==
  /\ 0 \in DOMAIN entries /\ DOMAIN entries \subseteq 0..BLOCK_SIZE-1
  /\ \A x \in DOMAIN entries : LET next == x + entries[x].rec_len IN
       /\ entries[x].inode \in 0..inodes /\ entries[x].rec_len \in Nat
       /\ next \in DOMAIN entries \cup {BLOCK_SIZE}
       /\ \A y \in DOMAIN entries : y > x => entries[x].rec_len # 0 /\ y >= next

WellFormed(im) ==
  /\ im.magic \in BOOLEAN
  /\ {im.blocks, im.blocks_per_group, im.inodes_per_group} \subseteq Nat
  /\ im.tables \in Seq(Nat) /\ im.inodes \in Seq(Inodes) /\ Len(im.inodes) >= EXT2_ROOT_INO
  /\ im.blocks_per_group # 0 /\ im.inodes_per_group # 0 => TablesHold(im)
  /\ \A k \in Direct : LET n == im.inodes[EXT2_ROOT_INO].i_block[k] IN
       n # 0 => Tiled(im.entries[n], Len(im.inodes))

ASSUME LoaderAssumption ==
  /\ {MIN_BLOCK, UNIT, INODE_SIZE} \subseteq Nat \ {0}
  /\ BLOCK_SIZE >= MIN_BLOCK /\ BLOCK_SIZE % UNIT = 0 /\ BLOCK_SIZE % INODE_SIZE = 0
  /\ USER_CODE_BASE \in OutBufs \ {NULL}
  /\ \A d \in Images : WellFormed(Image(d))

VARIABLES
  pc,               (* where kernel_entry and um_setup_env are             *)
  image,            (* which image is linked into the kernel               *)
  bgdt,             (* fs->bgdt: per group the block of its inode table    *)
  dir,              (* the inode of the root directory                     *)
  blk, at,          (* ext2_read_dir's b and offset                        *)
  listed,           (* the entries print_dir_cb was called with            *)
  found,            (* ctx.found_inode                                     *)
  reported          (* what um_setup_env complained of                     *)

walk  == <<blk, at, listed, found>>
lvars == <<fvars, pc, image, bgdt, dir, walk, reported>>

disk == Image(image)

\* An image as genext2fs makes it: where inode n is, and what is at an address.
Home(n) ==
  disk.tables[(n - 1) \div disk.inodes_per_group + 1] * BLOCK_SIZE
    + ((n - 1) % disk.inodes_per_group) * INODE_SIZE
InodeAt(addr) ==
  IF \E n \in 1..Len(disk.inodes) : Home(n) = addr
    THEN disk.inodes[CHOOSE n \in 1..Len(disk.inodes) : Home(n) = addr]
    ELSE NoFile
\* The descriptors follow the superblock's block, which is number 1 if blocks
\* are as small as can be and part of number 0 otherwise.
TableAt(block, g) ==
  IF block = (IF BLOCK_SIZE > MIN_BLOCK THEN 1 ELSE 2) /\ g < Len(disk.tables)
    THEN disk.tables[g + 1] ELSE 0
-----------------------------------------------------------------------------
Groups ==
  ((disk.blocks + disk.blocks_per_group - 1) % WORD) \div disk.blocks_per_group

DescriptorBlock == IF BLOCK_SIZE = MIN_BLOCK THEN 2 ELSE 1

\* ext2_mount: no magic number, or no memory for the descriptors, and there is
\* no file system.
MountFails ==
  /\ pc = "mount"
  /\ disk.magic => disk.blocks_per_group # 0
  /\ pc' = "unmounted"
  /\ UNCHANGED <<fvars, image, bgdt, dir, walk, reported>>

Mount ==
  /\ pc = "mount" /\ disk.magic /\ disk.blocks_per_group # 0
  /\ bgdt' = [g \in 0..Groups-1 |-> TableAt(DescriptorBlock, g)]
  /\ pc' = "setup"
  /\ UNCHANGED <<fvars, image, dir, walk, reported>>

\* Divisions by what the superblock says.
DivideError ==
  /\ \/ pc = "mount" /\ disk.magic /\ disk.blocks_per_group = 0
     \/ pc = "setup" /\ disk.inodes_per_group = 0
  /\ pc' = "fault"
  /\ UNCHANGED <<fvars, image, bgdt, dir, walk, reported>>

\* Mutant of InodeAddr: inode numbers are taken to start at 0.
InodeAddrFromZero(no) ==
  LET index == no % disk.inodes_per_group
      inodes_per_block == BLOCK_SIZE \div INODE_SIZE
  IN  (bgdt[no \div disk.inodes_per_group] + index \div inodes_per_block) * BLOCK_SIZE
        + (index % inodes_per_block) * INODE_SIZE

\* ext2_read_inode
InodeAddr(no) ==
  LET index == (no - 1) % disk.inodes_per_group
      inodes_per_block == BLOCK_SIZE \div INODE_SIZE
  IN  (bgdt[(no - 1) \div disk.inodes_per_group] + index \div inodes_per_block) * BLOCK_SIZE
        + (index % inodes_per_block) * INODE_SIZE

\* um_setup_env without a free process slot: the program is not looked for.
NoProcess ==
  /\ pc = "setup"
  /\ reported' = "no process" /\ pc' = "switch"
  /\ UNCHANGED <<fvars, image, bgdt, dir, walk>>

OpenRoot ==
  /\ pc = "setup" /\ disk.inodes_per_group # 0
  /\ dir' = InodeAt(InodeAddr(EXT2_ROOT_INO))
  /\ pc' = "list"
  /\ UNCHANGED <<fvars, image, bgdt, walk, reported>>
-----------------------------------------------------------------------------
(* ext2_read_dir, called first with print_dir_cb and then with             *)
(* find_file_callback.                                                     *)

blk_count == dir.i_blocks \div (BLOCK_SIZE \div UNIT)
InDir == pc \in {"list", "find"} /\ blk < DIRECT /\ blk < blk_count
Entry == disk.entries[dir.i_block[blk]][at]

NextBlock == blk' = blk + 1 /\ at' = 0

SkipHole ==
  /\ InDir /\ dir.i_block[blk] = 0
  /\ NextBlock
  /\ UNCHANGED <<fvars, pc, image, bgdt, dir, listed, found, reported>>

EndOfBlock ==
  /\ InDir /\ dir.i_block[blk] # 0 /\ at >= BLOCK_SIZE
  /\ NextBlock
  /\ UNCHANGED <<fvars, pc, image, bgdt, dir, listed, found, reported>>

AtEntry == InDir /\ dir.i_block[blk] # 0 /\ at < BLOCK_SIZE

\* Mutant of NextEntry: an entry without a length is passed over for ever.
NextEntryStuck == at' = at + Entry.rec_len /\ UNCHANGED blk

NextEntry ==
  IF Entry.rec_len = 0 THEN NextBlock ELSE at' = at + Entry.rec_len /\ UNCHANGED blk

List ==
  /\ pc = "list" /\ AtEntry
  /\ listed' = IF Entry.inode # 0 THEN Append(listed, <<blk, at>>) ELSE listed
  /\ NextEntry
  /\ UNCHANGED <<fvars, pc, image, bgdt, dir, found, reported>>

\* Mutant of Matches: a deleted entry matches.
MatchesDeleted == Entry.name = Program
Matches == Entry.inode # 0 /\ Entry.name = Program

Pass ==
  /\ pc = "find" /\ AtEntry /\ ~Matches
  /\ NextEntry
  /\ UNCHANGED <<fvars, pc, image, bgdt, dir, listed, found, reported>>

\* The callback stores the number and stops the walk.
Found ==
  /\ pc = "find" /\ AtEntry /\ Matches
  /\ found' = Entry.inode
  /\ pc' = "open"
  /\ UNCHANGED <<fvars, image, bgdt, dir, blk, at, listed, reported>>

EndOfDir ==
  /\ pc \in {"list", "find"} /\ ~InDir
  /\ pc' = IF pc = "list" THEN "find" ELSE "open"
  /\ blk' = 0 /\ at' = 0
  /\ UNCHANGED <<fvars, image, bgdt, dir, listed, found, reported>>
-----------------------------------------------------------------------------
(* The rest of um_setup_env.  kernel_entry calls um_switch when it         *)
(* returns, whatever it reported.                                          *)

NotFound ==
  /\ pc = "open" /\ found = 0
  /\ reported' = "not found" /\ pc' = "switch"
  /\ UNCHANGED <<fvars, image, bgdt, dir, walk>>

OpenProgram ==
  /\ pc = "open" /\ found # 0
  /\ LET program == InodeAt(InodeAddr(found)) IN
       Call(program, USER_CODE_BASE, program.i_size_lo, 0)
  /\ pc' = "load"
  /\ UNCHANGED <<image, bgdt, dir, walk, reported>>

Load ==
  /\ pc \in {"load", "other"} /\ ReadFileStep
  /\ UNCHANGED <<pc, image, bgdt, dir, walk, reported>>

\* Mutant of Outcome: a short read is taken for the whole file.
OutcomeAlwaysWhole == "loaded"

Outcome == IF bytes_read = inode.i_size_lo THEN "loaded" ELSE "short"

Loaded ==
  /\ pc = "load" /\ op = "done"
  /\ reported' = Outcome
  /\ pc' = "switch"
  /\ UNCHANGED <<fvars, image, bgdt, dir, walk>>

\* Any other call of ext2_read_file that its header allows.
OtherCaller ==
  /\ pc = "setup" /\ image \in OtherImages
  /\ \E i \in Inodes, out \in OutBufs, n \in Lens, off \in Offsets : Call(i, out, n, off)
  /\ pc' = "other"
  /\ UNCHANGED <<image, bgdt, dir, walk, reported>>

LInit ==
  /\ FInit
  /\ pc = "mount" /\ image \in Images
  /\ bgdt = <<>> /\ dir = NoFile
  /\ blk = 0 /\ at = 0 /\ listed = <<>> /\ found = 0 /\ reported = "nothing"

LNext ==
  \/ MountFails \/ Mount \/ DivideError \/ NoProcess \/ OpenRoot
  \/ SkipHole \/ EndOfBlock \/ List \/ Pass \/ Found \/ EndOfDir
  \/ NotFound \/ OpenProgram \/ Load \/ Loaded \/ OtherCaller

\* The kernel runs; which call is made or which memory there is, is open.
LSpec == LInit /\ [][LNext]_lvars /\ WF_lvars(LNext)
-----------------------------------------------------------------------------
(* What the image holds, from its layout: the live entries of the root     *)
(* directory in their order, and the number that the program's name has.   *)
Root == disk.inodes[EXT2_ROOT_INO]
EntryAt(p) == disk.entries[Root.i_block[p[1]]][p[2]]
Live ==
  UNION {{<<k, o>> : o \in {x \in DOMAIN disk.entries[Root.i_block[k]] :
                              disk.entries[Root.i_block[k]][x].inode # 0}} :
         k \in {x \in Direct : Root.i_block[x] # 0}}
Before(p, q) == p[1] < q[1] \/ (p[1] = q[1] /\ p[2] < q[2])
Named == {p \in Live : EntryAt(p).name = Program}
Target ==
  IF Named = {} THEN 0
  ELSE EntryAt(CHOOSE p \in Named : \A q \in Named \ {p} : Before(p, q)).inode

\* i_blocks does not count holes: a directory has none before its last block.
NoHoles ==
  \A k \in Direct : Root.i_block[k] # 0 => k < Root.i_blocks \div (BLOCK_SIZE \div UNIT)

Mounted == pc \notin {"mount", "unmounted", "fault"}
Searched == pc \in {"open", "load"} \/ (pc = "switch" /\ reported # "no process")

LTypeOK ==
  /\ FTypeOK
  /\ pc \in {"mount", "setup", "list", "find", "open", "load", "other", "switch",
             "unmounted", "fault"}
  /\ image \in Images /\ \A g \in DOMAIN bgdt : bgdt[g] \in Nat
  /\ dir \in Inode
  /\ blk \in 0..DIRECT /\ at \in 0..BLOCK_SIZE
  /\ listed \in Seq(Direct \X Nat) /\ found \in Nat
  /\ reported \in {"nothing", "no process", "not found", "short", "loaded"}

(* ext2.c:47-89: for every inode number of the image, the group, the index *)
(* in its table, the block and the offset in that block, computed from the *)
(* copied descriptors, lead to where the image holds that inode, also in a *)
(* last group that is not full.                                            *)
InodesFound ==
  Mounted /\ disk.inodes_per_group # 0 =>
    \A n \in 1..Len(disk.inodes) : InodeAt(InodeAddr(n)) = disk.inodes[n]

(* ext2.h:109 "invoke callback for each entry": the listing shows all live *)
(* entries once and in order, and the search, which walks the directory    *)
(* again and stops early, gives the number of the first with the name.     *)
DirectoryIsRead ==
  Searched /\ NoHoles =>
    /\ {listed[i] : i \in 1..Len(listed)} = Live
    /\ \A i \in 1..Len(listed)-1 : Before(listed[i], listed[i + 1])
    /\ found = Target

(* usermode.c:25-40: what um_setup_env complains of is so, and when it     *)
(* does not complain the whole file of that name is at USER_CODE_BASE, if  *)
(* the load has not overwritten the image it was reading.                  *)
ReportIsTrue ==
  pc = "switch" /\ NoHoles /\ reported # "no process" =>
    /\ reported = "not found" <=> Target = 0
    /\ reported = "short" => disk.inodes[Target].i_size_lo > DIRECT * BLOCK_SIZE
    /\ reported = "loaded" /\ NoWrap /\ Apart =>
         /\ inode = disk.inodes[Target] /\ inode.i_size_lo <= DIRECT * BLOCK_SIZE
         /\ \A k \in 0..inode.i_size_lo-1 : mem[USER_CODE_BASE + k] = FileByte(k)

(* The walks over directories and blocks end, on every well-formed image:  *)
(* the kernel gets to um_switch, to its idle loop or to an exception.      *)
LoadEnds == pc = "mount" ~> pc \in {"switch", "unmounted", "fault", "other"}
=============================================================================
