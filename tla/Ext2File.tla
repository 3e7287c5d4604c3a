------------------------------ MODULE Ext2File ------------------------------
(***************************************************************************)
(* ext2_read_file of system/filesystem/ext2/ext2.c.  The disk image and    *)
(* the caller's buffer are parts of the same memory: nothing in the kernel *)
(* keeps them apart.  A step is the entry of a call, an iteration of its   *)
(* loop, or its return.                                                    *)
(***************************************************************************)
EXTENDS Integers

CONSTANTS
  Byte, ZERO,       (* what memory holds; the byte 0                       *)
  MEM,              (* the size of memory                                  *)
  WORD,             (* sizes and offsets are 32-bit                        *)
  BLOCK_SIZE,       (* fs->block_size                                      *)
  DIRECT,           (* the direct pointers of an inode, 12                 *)
  IMAGE,            (* fs->image                                           *)
  Contents,         (* what memory may hold at first                       *)
  Inodes,           (* the inodes callers pass                             *)
  OutBufs,          (* the buffers they pass, NULL among them              *)
  Lens, Offsets     (* buf_len and offset                                  *)

NULL == 0
Addrs == 0..MEM-1
Direct == 0..DIRECT-1
Inode == [i_size_lo : Nat, i_blocks : Nat, i_block : [Direct -> Nat]]

ASSUME Ext2FileAssumption ==
  /\ {MEM, BLOCK_SIZE, DIRECT} \subseteq Nat \ {0}
  /\ WORD \in Nat /\ IMAGE \in Nat /\ ZERO \in Byte
  /\ Contents \subseteq [Addrs -> Byte]
  /\ (DIRECT + 1) * BLOCK_SIZE < WORD
  /\ Inodes \subseteq Inode
  /\ \A i \in Inodes, k \in Direct : IMAGE + i.i_block[k] * BLOCK_SIZE + BLOCK_SIZE <= MEM
  /\ OutBufs \subseteq Nat /\ \A o \in OutBufs : o + DIRECT * BLOCK_SIZE <= MEM
  /\ Lens \subseteq Nat /\ Offsets \subseteq Nat

VARIABLES
  mem,
  op,                             (* "idle", "read" or "done"              *)
  inode, out_buf, asked, offset,  (* the arguments                         *)
  buf_len,                        (* the third one, after it was limited   *)
  b, bytes_read                   (* the loop's variables                  *)

args  == <<inode, out_buf, asked, offset>>
fvars == <<mem, op, args, buf_len, b, bytes_read>>

\* Mutant of Limited: the offset is forgotten.
LimitedBySize(i, n, off) ==
  IF (off + n) % WORD > i.i_size_lo THEN i.i_size_lo ELSE n

\* buf_len, limited to what the file has left.
Limited(i, n, off) ==
  IF (off + n) % WORD > i.i_size_lo THEN i.i_size_lo - off ELSE n

\* Mutant of NothingToRead: an offset beyond the end is not noticed.
OnlyNull(i, out, off) == out = NULL

NothingToRead(i, out, off) == out = NULL \/ off >= i.i_size_lo

Call(i, out, n, off) ==
  /\ op # "read"
  /\ inode' = i /\ out_buf' = out /\ asked' = n /\ offset' = off
  /\ buf_len' = IF NothingToRead(i, out, off) THEN n ELSE Limited(i, n, off)
  /\ b' = off \div BLOCK_SIZE
  /\ bytes_read' = 0
  /\ op' = IF NothingToRead(i, out, off) THEN "done" ELSE "read"
  /\ UNCHANGED mem

blocks_to_read == ((offset + buf_len + BLOCK_SIZE - 1) % WORD) \div BLOCK_SIZE

More == b < DIRECT /\ b < blocks_to_read /\ bytes_read < buf_len

\* Mutant of Skip: every block is read from start_offset on.
SkipAlways == offset % BLOCK_SIZE

\* What is skipped at the front of this block, and how much of it is taken.
Skip  == IF b = offset \div BLOCK_SIZE THEN offset % BLOCK_SIZE ELSE 0
Chunk ==
  IF bytes_read + BLOCK_SIZE - Skip > buf_len THEN buf_len - bytes_read
                                              ELSE BLOCK_SIZE - Skip
Dest == out_buf + bytes_read
Proceed ==
  /\ bytes_read' = bytes_read + Chunk
  /\ b' = b + 1
  /\ UNCHANGED <<op, args, buf_len>>

\* A hole in the file reads as zeros.
FillHole ==
  /\ op = "read" /\ More
  /\ inode.i_block[b] = 0
  /\ mem' = [a \in Addrs |-> IF a \in Dest..Dest+Chunk-1 THEN ZERO ELSE mem[a]]
  /\ Proceed

\* kpmemcpy, one byte after the other from the lowest: if src lies less than n
\* below dst, the bytes in between are repeated.
Copied(dst, src, n) ==
  [a \in Addrs |->
    IF a \notin dst..dst+n-1 THEN mem[a]
    ELSE IF src < dst THEN mem[src + ((a - dst) % (dst - src))]
                      ELSE mem[src + a - dst]]

CopyBlock ==
  /\ op = "read" /\ More
  /\ inode.i_block[b] # 0
  /\ mem' = Copied(Dest, IMAGE + inode.i_block[b] * BLOCK_SIZE + Skip, Chunk)
  /\ Proceed

ReadFileReturn ==
  /\ op = "read" /\ ~More
  /\ op' = "done"
  /\ UNCHANGED <<mem, args, buf_len, b, bytes_read>>

ReadFileStep == FillHole \/ CopyBlock \/ ReadFileReturn

NoFile == [i_size_lo |-> 0, i_blocks |-> 0, i_block |-> [k \in Direct |-> 0]]

FInit ==
  /\ mem \in Contents
  /\ op = "idle" /\ inode = NoFile /\ out_buf = NULL /\ asked = 0 /\ offset = 0
  /\ buf_len = 0 /\ b = 0 /\ bytes_read = 0

FNext ==
  \/ \E i \in Inodes, out \in OutBufs, n \in Lens, off \in Offsets : Call(i, out, n, off)
  \/ ReadFileStep

FSpec == FInit /\ [][FNext]_fvars
-----------------------------------------------------------------------------
(* What the file holds at position k, and how much of it a call that has   *)
(* these arguments can deliver: the direct blocks are all that is read.    *)
Lesser(x, y) == IF x < y THEN x ELSE y

FileByte(k) ==
  IF inode.i_block[k \div BLOCK_SIZE] = 0
    THEN ZERO
    ELSE mem[IMAGE + inode.i_block[k \div BLOCK_SIZE] * BLOCK_SIZE + (k % BLOCK_SIZE)]

Deliverable ==
  LET end == Lesser(Lesser(offset + asked, inode.i_size_lo), DIRECT * BLOCK_SIZE) IN
  IF out_buf # NULL /\ offset < end THEN end - offset ELSE 0

\* The sums in the code do not wrap.
NoWrap == offset + asked < WORD /\ inode.i_size_lo + BLOCK_SIZE <= WORD

\* No block of the file lies in the part of the buffer that is filled.
Apart ==
  \A k \in Direct : inode.i_block[k] # 0 =>
    LET first == IMAGE + inode.i_block[k] * BLOCK_SIZE IN
    first + BLOCK_SIZE <= out_buf \/ out_buf + Deliverable <= first

FTypeOK ==
  /\ mem \in [Addrs -> Byte]
  /\ op \in {"idle", "read", "done"}
  /\ inode \in Inode /\ out_buf \in Nat
  /\ asked \in Nat /\ offset \in Nat /\ buf_len \in Nat
  /\ b \in Nat /\ bytes_read \in Nat

(* ext2.h:115 "reads up to buf_len bytes from offset into out_buf": when   *)
(* the call returns, the buffer holds the file from offset on, holes as    *)
(* zeros, and the result is as much as there is of it in direct blocks.    *)
ReadsTheFile ==
  op = "done" /\ NoWrap /\ Apart =>
    /\ bytes_read = Deliverable
    /\ \A k \in 0..bytes_read-1 : mem[out_buf + k] = FileByte(offset + k)

(* Nothing outside the part of the buffer that is to be filled is stored   *)
(* to, whatever the image and the buffer have in common: neither the end   *)
(* of the last block nor what follows a caller's smaller buffer.           *)
StaysInBuffer ==
  [][mem' # mem /\ NoWrap =>
       \A a \in Addrs \ (out_buf..out_buf+Deliverable-1) : mem'[a] = mem[a]]_fvars
=============================================================================
