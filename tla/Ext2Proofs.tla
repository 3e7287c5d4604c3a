----------------------------- MODULE Ext2Proofs -----------------------------
(***************************************************************************)
(* What holds of ext2_read_file for every block size, every memory and     *)
(* every sequence of calls.                                                *)
(***************************************************************************)
EXTENDS Ext2File, TLAPS

Q == offset \div BLOCK_SIZE

(* Before the first block nothing was read; after block b-1 everything up  *)
(* to its end, or up to the end of what was asked for.                     *)
Progress ==
  \/ b = Q /\ bytes_read = 0
  \/ b > Q /\ b <= DIRECT /\ bytes_read = Lesser(b * BLOCK_SIZE - offset, buf_len)

Filled == \A k \in 0..bytes_read-1 : mem[out_buf + k] = FileByte(offset + k)

Started ==
  /\ inode \in Inodes /\ out_buf \in OutBufs /\ out_buf # NULL
  /\ offset < inode.i_size_lo /\ buf_len = Limited(inode, asked, offset)

\* As much as there is was read, also when it was not kept apart.
ReadsEnough == op = "done" /\ NoWrap => bytes_read = Deliverable

FInv ==
  /\ FTypeOK
  /\ op = "read" => Started
  /\ op = "read" /\ NoWrap => Progress
  /\ op = "read" /\ NoWrap /\ Apart => Filled
  /\ ReadsEnough
  /\ ReadsTheFile
-----------------------------------------------------------------------------
(* Arithmetic.                                                             *)
LEMMA DivMod ==
  ASSUME NEW a \in Nat, NEW n \in Nat \ {0}
  PROVE  /\ a \div n \in Nat /\ a % n \in 0..n-1
         /\ a = (a \div n) * n + (a % n)
  BY SMT

LEMMA DivModUnique ==
  ASSUME NEW q \in Nat, NEW n \in Nat \ {0}, NEW r \in 0..n-1
  PROVE  (q * n + r) \div n = q /\ (q * n + r) % n = r
  BY SMT

LEMMA ModSmall ==
  ASSUME NEW a \in Nat, NEW n \in Nat, a < n
  PROVE  a % n = a
  BY SMT

LEMMA ModAtMost ==
  ASSUME NEW a \in Nat, NEW n \in Nat \ {0}
  PROVE  a % n \in Nat /\ a % n <= a
  BY SMT

LEMMA Monotone ==
  ASSUME NEW p \in Nat, NEW q \in Nat, NEW n \in Nat, p <= q
  PROVE  p * n <= q * n /\ p * n \in Nat /\ q * n \in Nat
  BY SMT
-----------------------------------------------------------------------------
LEMMA SizesAreNatural ==
  /\ BLOCK_SIZE \in Nat \ {0} /\ DIRECT \in Nat \ {0} /\ MEM \in Nat \ {0}
  /\ WORD \in Nat \ {0} /\ IMAGE \in Nat
  <1>1. DIRECT * BLOCK_SIZE \in Nat
    BY Ext2FileAssumption, SMT
  <1>2. (DIRECT + 1) * BLOCK_SIZE = DIRECT * BLOCK_SIZE + BLOCK_SIZE
    BY Ext2FileAssumption, SMT
  <1> QED  BY <1>1, <1>2, Ext2FileAssumption, SMT

LEMMA InodeFields ==
  ASSUME NEW i \in Inode
  PROVE  i.i_size_lo \in Nat /\ \A k \in Direct : i.i_block[k] \in Nat
  BY DEF Inode

(* With sums that do not wrap, buf_len is the smaller of what was asked    *)
(* for and what the file has left.                                         *)
LEMMA LimitedIs ==
  ASSUME FTypeOK, Started, NoWrap
  PROVE  /\ buf_len <= asked /\ offset + buf_len <= inode.i_size_lo
         /\ buf_len = asked \/ offset + buf_len = inode.i_size_lo
         /\ buf_len \in Nat
  <1>1. (offset + asked) % WORD = offset + asked
    BY ModSmall, SizesAreNatural DEF FTypeOK, NoWrap
  <1>2. inode.i_size_lo \in Nat
    BY InodeFields DEF FTypeOK
  <1> QED  BY <1>1, <1>2 DEF FTypeOK, Started, Limited

LEMMA DeliverableIs ==
  ASSUME FTypeOK, Started, NoWrap
  PROVE  LET end == Lesser(offset + buf_len, DIRECT * BLOCK_SIZE) IN
         Deliverable = IF offset < end THEN end - offset ELSE 0
  <1>1. inode.i_size_lo \in Nat /\ DIRECT * BLOCK_SIZE \in Nat
    BY InodeFields, SizesAreNatural, Monotone DEF FTypeOK
  <1> QED  BY <1>1, LimitedIs DEF FTypeOK, Started, Deliverable, Lesser

(* An iteration, whatever wraps: the part of the block that is taken.      *)
LEMMA PartOfBlock ==
  ASSUME FTypeOK, More
  PROVE  Skip \in 0..BLOCK_SIZE-1 /\ Chunk \in 1..BLOCK_SIZE-Skip /\ b \in Direct
  <1>1. Skip \in 0..BLOCK_SIZE-1
    BY DivMod, SizesAreNatural DEF FTypeOK, Skip
  <1>2. Chunk \in 1..BLOCK_SIZE-Skip
    BY <1>1, SizesAreNatural DEF FTypeOK, More, Chunk
  <1> QED  BY <1>1, <1>2, SizesAreNatural DEF FTypeOK, More, Direct

(* An iteration reads on where the last one ended.                         *)
LEMMA NextPart ==
  ASSUME FTypeOK, Started, NoWrap, Progress, More
  PROVE  /\ offset + bytes_read = b * BLOCK_SIZE + Skip
         /\ bytes_read + Chunk = Lesser((b + 1) * BLOCK_SIZE - offset, buf_len)
         /\ bytes_read + Chunk <= Deliverable
         /\ b >= Q
  <1>1. Q \in Nat /\ offset % BLOCK_SIZE \in 0..BLOCK_SIZE-1
        /\ offset = Q * BLOCK_SIZE + (offset % BLOCK_SIZE)
    BY DivMod, SizesAreNatural DEF FTypeOK, Q
  <1>2. Skip = IF b = Q THEN offset % BLOCK_SIZE ELSE 0
    BY DEF Skip, Q
  <1>3. (b + 1) * BLOCK_SIZE = b * BLOCK_SIZE + BLOCK_SIZE
        /\ b * BLOCK_SIZE \in Nat /\ Q * BLOCK_SIZE \in Nat
    BY <1>1, SizesAreNatural, Monotone DEF FTypeOK
  <1>4. (b + 1) * BLOCK_SIZE <= DIRECT * BLOCK_SIZE /\ DIRECT * BLOCK_SIZE \in Nat
    <2>1. b + 1 \in Nat /\ b + 1 <= DIRECT
      BY SizesAreNatural DEF FTypeOK, More
    <2> QED  BY <2>1, SizesAreNatural, Monotone
  <1> DEFINE here == b * BLOCK_SIZE
             rest == offset % BLOCK_SIZE
             first == Q * BLOCK_SIZE
             all == DIRECT * BLOCK_SIZE
             after == (b + 1) * BLOCK_SIZE
  <1>5. here \in Nat /\ rest \in 0..BLOCK_SIZE-1 /\ offset = first + rest /\ first \in Nat
        /\ after = here + BLOCK_SIZE /\ after <= all /\ all \in Nat
    BY <1>1, <1>3, <1>4
  <1>6. b = Q => here = first
    OBVIOUS
  <1>7. Deliverable = IF offset < Lesser(offset + buf_len, all)
                        THEN Lesser(offset + buf_len, all) - offset ELSE 0
    BY DeliverableIs
  <1>8. bytes_read < buf_len /\ buf_len \in Nat /\ bytes_read \in Nat /\ offset \in Nat
    BY LimitedIs DEF FTypeOK, More
  <1>9. Progress => \/ b = Q /\ bytes_read = 0
                    \/ b > Q /\ bytes_read = Lesser(here - offset, buf_len)
    BY DEF Progress
  <1> HIDE DEF here, rest, first, all, after
  <1>10. offset + bytes_read = here + Skip
    BY <1>2, <1>5, <1>6, <1>8, <1>9, SizesAreNatural DEF Lesser, rest
  <1>11. bytes_read + Chunk = Lesser(after - offset, buf_len)
    BY <1>10, <1>5, <1>8, PartOfBlock, SizesAreNatural DEF Lesser, Chunk
  <1>12. bytes_read + Chunk <= Deliverable
    BY <1>11, <1>5, <1>7, <1>8, PartOfBlock, SizesAreNatural DEF Lesser
  <1>13. b >= Q
    BY <1>1, <1>9 DEF FTypeOK
  <1> QED  BY <1>10, <1>11, <1>12, <1>13 DEF here, after

(* The j-th byte of what is taken is in block b, Skip + j bytes from its   *)
(* start.                                                                  *)
LEMMA PlaceInFile ==
  ASSUME FTypeOK, Started, NoWrap, Progress, More, NEW j \in 0..Chunk-1
  PROVE  /\ (offset + bytes_read + j) \div BLOCK_SIZE = b
         /\ (offset + bytes_read + j) % BLOCK_SIZE = Skip + j
  <1>1. Skip + j \in 0..BLOCK_SIZE-1
    BY PartOfBlock, SizesAreNatural
  <1>2. offset + bytes_read + j = b * BLOCK_SIZE + (Skip + j)
    <2>1. b * BLOCK_SIZE \in Nat
      BY Monotone, SizesAreNatural DEF FTypeOK
    <2> QED  BY <2>1, NextPart, PartOfBlock, SizesAreNatural DEF FTypeOK
  <1>3. /\ (b * BLOCK_SIZE + (Skip + j)) \div BLOCK_SIZE = b
        /\ (b * BLOCK_SIZE + (Skip + j)) % BLOCK_SIZE = Skip + j
    BY <1>1, DivModUnique, SizesAreNatural DEF FTypeOK
  <1> QED  BY <1>2, <1>3

LEMMA BelowDirect ==
  ASSUME NEW p \in Nat, p < DIRECT * BLOCK_SIZE
  PROVE  p \div BLOCK_SIZE \in Direct
  <1> DEFINE d == p \div BLOCK_SIZE
  <1>1. d \in Nat /\ p % BLOCK_SIZE \in 0..BLOCK_SIZE-1 /\ p = d * BLOCK_SIZE + (p % BLOCK_SIZE)
    BY DivMod, SizesAreNatural
  <1> HIDE DEF d
  <1>2. d >= DIRECT => DIRECT * BLOCK_SIZE <= d * BLOCK_SIZE /\ d * BLOCK_SIZE \in Nat
    BY <1>1, Monotone, SizesAreNatural
  <1>3. DIRECT * BLOCK_SIZE \in Nat
    BY Monotone, SizesAreNatural
  <1> DEFINE below == d * BLOCK_SIZE
             all == DIRECT * BLOCK_SIZE
             rest == p % BLOCK_SIZE
  <1>4. /\ d >= DIRECT => all <= below /\ below \in Nat
        /\ rest \in Nat /\ p = below + rest /\ p < all /\ all \in Nat
    BY <1>1, <1>2, <1>3, SizesAreNatural
  <1> HIDE DEF below, all, rest
  <1>5. d < DIRECT
    BY <1>1, <1>4, SizesAreNatural
  <1> QED  BY <1>1, <1>5, SizesAreNatural DEF Direct, d

(* The buffer has room for all that can be delivered.                      *)
LEMMA BufferInMemory ==
  ASSUME FTypeOK, Started, NoWrap
  PROVE  /\ Deliverable \in Nat
         /\ \/ Deliverable = 0
            \/ /\ out_buf + Deliverable <= MEM
               /\ offset + Deliverable <= Lesser(offset + buf_len, DIRECT * BLOCK_SIZE)
  <1>1. DIRECT * BLOCK_SIZE \in Nat
    BY Monotone, SizesAreNatural
  <1>2. out_buf + DIRECT * BLOCK_SIZE <= MEM
    BY Ext2FileAssumption DEF Started
  <1> DEFINE all == DIRECT * BLOCK_SIZE
  <1>3. all \in Nat /\ out_buf + all <= MEM
        /\ Deliverable = IF offset < Lesser(offset + buf_len, all)
                           THEN Lesser(offset + buf_len, all) - offset ELSE 0
    BY <1>1, <1>2, DeliverableIs
  <1> HIDE DEF all
  <1>4. /\ Deliverable \in Nat
        /\ \/ Deliverable = 0
           \/ out_buf + Deliverable <= MEM /\ offset + Deliverable <= Lesser(offset + buf_len, all)
    BY <1>3, SizesAreNatural DEF FTypeOK, Lesser
  <1> QED  BY <1>4 DEF all
-----------------------------------------------------------------------------
(* What the two iterations have in common.                                 *)
Outside == \A a \in Addrs \ (Dest..Dest+Chunk-1) : mem'[a] = mem[a]

(* An iteration stores to the part of the buffer that is to be filled.     *)
LEMMA DestInBuffer ==
  ASSUME FTypeOK, Started, NoWrap, Progress, More
  PROVE  /\ Dest..Dest+Chunk-1 \subseteq out_buf..out_buf+Deliverable-1
         /\ Dest..Dest+Chunk-1 \subseteq Addrs
         /\ out_buf + Deliverable <= MEM /\ Deliverable \in Nat
         /\ offset + Deliverable <= DIRECT * BLOCK_SIZE
         /\ Dest \in Nat
  <1> DEFINE all == DIRECT * BLOCK_SIZE
  <1>1. all \in Nat
    BY Monotone, SizesAreNatural
  <1>2. Chunk \in Nat \ {0} /\ Dest \in Nat /\ Dest + Chunk <= out_buf + Deliverable
        /\ Deliverable \in Nat /\ Deliverable # 0
    BY PartOfBlock, NextPart, BufferInMemory, SizesAreNatural DEF FTypeOK, Dest
  <1>3. out_buf + Deliverable <= MEM /\ offset + Deliverable <= Lesser(offset + buf_len, all)
    BY <1>2, BufferInMemory
  <1> HIDE DEF all
  <1>4. offset + Deliverable <= all
    BY <1>1, <1>2, <1>3 DEF Lesser, FTypeOK
  <1>5. out_buf \in Nat /\ out_buf <= Dest
    BY DEF FTypeOK, Dest
  <1> QED  BY <1>2, <1>3, <1>4, <1>5, SizesAreNatural DEF Addrs, all

(* Where block b is read from.                                             *)
Source == IMAGE + inode.i_block[b] * BLOCK_SIZE + Skip

LEMMA SourceInMemory ==
  ASSUME FTypeOK, Started, More, NEW j \in 0..Chunk-1
  PROVE  Source \in Nat /\ Source + j \in Addrs
  <1>1. b \in Direct /\ inode.i_block[b] \in Nat
    BY PartOfBlock, InodeFields DEF FTypeOK
  <1>2. inode.i_block[b] * BLOCK_SIZE \in Nat
    BY <1>1, Monotone, SizesAreNatural
  <1>3. IMAGE + inode.i_block[b] * BLOCK_SIZE + BLOCK_SIZE <= MEM
    BY <1>1, Ext2FileAssumption DEF Started
  <1> DEFINE first == inode.i_block[b] * BLOCK_SIZE
  <1>4. first \in Nat /\ IMAGE + first + BLOCK_SIZE <= MEM /\ Source = IMAGE + first + Skip
    BY <1>2, <1>3 DEF Source
  <1> HIDE DEF first
  <1> QED  BY <1>4, PartOfBlock, SizesAreNatural DEF Addrs

(* The file's own bytes stay while the buffer is filled, if they are apart. *)
LEMMA FileStays ==
  ASSUME FTypeOK, Started, NoWrap, Progress, More, Apart, Outside, inode' = inode,
         NEW p \in Nat, p \div BLOCK_SIZE \in Direct
  PROVE  FileByte(p)' = FileByte(p)
  <1> DEFINE k == p \div BLOCK_SIZE
             rest == p % BLOCK_SIZE
             first == inode.i_block[k] * BLOCK_SIZE
             at == IMAGE + first + rest
  <1>1. k \in Direct /\ rest \in 0..BLOCK_SIZE-1
    BY DivMod, SizesAreNatural
  <1>2. inode.i_block[k] \in Nat /\ first \in Nat
    <2>1. inode.i_block[k] \in Nat
      BY <1>1, InodeFields DEF FTypeOK
    <2> QED  BY <2>1, Monotone, SizesAreNatural
  <1>3. IMAGE + first + BLOCK_SIZE <= MEM
    BY <1>1, Ext2FileAssumption DEF Started
  <1>4. inode.i_block[k] # 0 =>
          IMAGE + first + BLOCK_SIZE <= out_buf \/ out_buf + Deliverable <= IMAGE + first
    BY <1>1 DEF Apart
  <1>5. /\ FileByte(p) = IF inode.i_block[k] = 0 THEN ZERO ELSE mem[at]
        /\ FileByte(p)' = IF inode.i_block[k] = 0 THEN ZERO ELSE mem'[at]
    BY DEF FileByte
  <1> HIDE DEF k, rest, first
  <1>6. at \in Addrs
    BY <1>1, <1>2, <1>3, SizesAreNatural DEF Addrs
  <1>7. inode.i_block[k] # 0 => at \notin out_buf..out_buf+Deliverable-1
    BY <1>1, <1>2, <1>4, DestInBuffer, SizesAreNatural DEF FTypeOK
  <1> HIDE DEF at
  <1>8. inode.i_block[k] # 0 => mem'[at] = mem[at]
    BY <1>6, <1>7, DestInBuffer DEF Outside
  <1> QED  BY <1>5, <1>8
-----------------------------------------------------------------------------
(* The bytes an iteration has to deliver.                                  *)
Delivered == \A j \in 0..Chunk-1 : mem'[Dest + j] = FileByte(offset + bytes_read + j)

LEMMA HoleDelivers ==
  ASSUME FTypeOK, Started, NoWrap, Progress, FillHole
  PROVE  Outside /\ Delivered
  <1>1. More /\ inode.i_block[b] = 0
        /\ mem' = [a \in Addrs |-> IF a \in Dest..Dest+Chunk-1 THEN ZERO ELSE mem[a]]
    BY DEF FillHole
  <1>2. Outside
    BY <1>1 DEF Outside
  <1>3. ASSUME NEW j \in 0..Chunk-1
        PROVE  mem'[Dest + j] = FileByte(offset + bytes_read + j)
    <2>1. FileByte(offset + bytes_read + j) = ZERO
      BY <1>1, PlaceInFile DEF FileByte
    <2>2. Dest + j \in Dest..Dest+Chunk-1 /\ Dest + j \in Addrs
      BY <1>1, DestInBuffer, PartOfBlock, SizesAreNatural
    <2> QED  BY <1>1, <2>1, <2>2
  <1> QED  BY <1>2, <1>3 DEF Delivered

LEMMA CopyOutside ==
  ASSUME CopyBlock
  PROVE  Outside
  BY DEF CopyBlock, Copied, Outside

LEMMA CopyDelivers ==
  ASSUME FTypeOK, Started, NoWrap, Progress, Apart, CopyBlock
  PROVE  Delivered
  <1>1. More /\ inode.i_block[b] # 0 /\ mem' = Copied(Dest, Source, Chunk)
    BY DEF CopyBlock, Source
  <1>2. SUFFICES ASSUME NEW j \in 0..Chunk-1
                 PROVE  mem'[Dest + j] = FileByte(offset + bytes_read + j)
    BY DEF Delivered
  <1> DEFINE first == inode.i_block[b] * BLOCK_SIZE
  <1>3. FileByte(offset + bytes_read + j) = mem[IMAGE + first + (Skip + j)]
    BY <1>1, PlaceInFile DEF FileByte
  <1>4. b \in Direct /\ Skip \in 0..BLOCK_SIZE-1 /\ Chunk \in 1..BLOCK_SIZE-Skip
    BY <1>1, PartOfBlock
  <1>5. inode.i_block[b] \in Nat /\ first \in Nat
    <2>1. inode.i_block[b] \in Nat
      BY <1>4, InodeFields DEF FTypeOK
    <2> QED  BY <2>1, Monotone, SizesAreNatural
  <1>6. IMAGE + first + BLOCK_SIZE <= out_buf \/ out_buf + Deliverable <= IMAGE + first
    BY <1>1, <1>4 DEF Apart
  <1>7. Source = IMAGE + first + Skip
    BY DEF Source
  <1> HIDE DEF first
  <1>8. Source + j = IMAGE + first + (Skip + j)
    BY <1>4, <1>5, <1>7, SizesAreNatural
  <1>9. Dest + j \in Dest..Dest+Chunk-1 /\ Dest + j \in Addrs /\ Dest \in Nat
        /\ out_buf <= Dest /\ Dest + Chunk <= out_buf + Deliverable
    <2>1. out_buf <= Dest /\ Dest \in Nat
      BY <1>1, DestInBuffer DEF Dest, FTypeOK
    <2>2. Dest + Chunk <= out_buf + Deliverable
      BY <1>1, NextPart, PartOfBlock, DestInBuffer, SizesAreNatural DEF Dest, FTypeOK
    <2> QED  BY <1>1, <1>4, <2>1, <2>2, DestInBuffer, SizesAreNatural
  <1>10. Source \in Nat
    BY <1>1, SourceInMemory
  <1>11. Source < Dest => (Dest + j - Dest) % (Dest - Source) = j
    <2>1. SUFFICES ASSUME Source < Dest
                   PROVE  (Dest + j - Dest) % (Dest - Source) = j
      OBVIOUS
    <2>2. out_buf \in Nat /\ Deliverable \in Nat /\ Dest \in Nat /\ Source \in Nat
          /\ first \in Nat /\ Skip \in Nat /\ Chunk \in Nat /\ Chunk <= BLOCK_SIZE - Skip
          /\ Chunk # 0
      BY <1>1, <1>4, <1>5, <1>9, <1>10, DestInBuffer, SizesAreNatural DEF FTypeOK
    <2>3. IMAGE + first + BLOCK_SIZE <= out_buf
      BY <2>1, <2>2, <1>6, <1>7, <1>9, SizesAreNatural
    <2>4. Dest - Source \in Nat /\ Chunk <= Dest - Source
      BY <2>1, <2>2, <2>3, <1>7, <1>9, SizesAreNatural
    <2>5. Dest + j - Dest = j /\ j \in Nat /\ j < Dest - Source
      BY <2>2, <2>4
    <2> QED  BY <2>4, <2>5, ModSmall
  <1>12. mem'[Dest + j] = IF Source < Dest THEN mem[Source + ((Dest + j - Dest) % (Dest - Source))]
                                           ELSE mem[Source + (Dest + j) - Dest]
    BY <1>1, <1>9 DEF Copied
  <1>13. Source + (Dest + j) - Dest = Source + j
    BY <1>4, <1>9, <1>10
  <1> QED  BY <1>3, <1>8, <1>11, <1>12, <1>13

(* Types: what is copied comes from memory.                                *)
LEMMA CopyTypes ==
  ASSUME FTypeOK, Started, CopyBlock
  PROVE  mem' \in [Addrs -> Byte]
  <1>1. More /\ mem' = Copied(Dest, Source, Chunk)
    BY DEF CopyBlock, Source
  <1>2. Dest \in Nat /\ Source \in Nat /\ Chunk \in Nat
    <2>1. Skip \in 0..BLOCK_SIZE-1 /\ Chunk \in 1..BLOCK_SIZE-Skip
      BY <1>1, PartOfBlock
    <2>2. Chunk \in Nat /\ 0 \in 0..Chunk-1
      BY <2>1, SizesAreNatural
    <2> QED  BY <1>1, <2>2, SourceInMemory DEF Dest, FTypeOK
  <1>3. ASSUME NEW a \in Addrs, a \in Dest..Dest+Chunk-1
        PROVE  Source + a - Dest \in Addrs
               /\ (Source < Dest => Source + ((a - Dest) % (Dest - Source)) \in Addrs)
    <2>1. a - Dest \in 0..Chunk-1 /\ Source + a - Dest = Source + (a - Dest)
      BY <1>2, <1>3
    <2>2. ASSUME Source < Dest
          PROVE  Source + ((a - Dest) % (Dest - Source)) \in Addrs
      <3>1. Dest - Source \in Nat \ {0} /\ a - Dest \in Nat
        BY <1>2, <2>1, <2>2
      <3>2. (a - Dest) % (Dest - Source) \in Nat /\ (a - Dest) % (Dest - Source) <= a - Dest
        BY <3>1, ModAtMost
      <3>3. (a - Dest) % (Dest - Source) \in 0..Chunk-1
        BY <3>1, <3>2, <2>1, <1>2
      <3> QED  BY <1>1, <3>3, SourceInMemory
    <2> QED  BY <1>1, <2>1, <2>2, SourceInMemory
  <1>4. ASSUME NEW a \in Addrs
        PROVE  mem'[a] \in Byte
    BY <1>1, <1>3, <1>4 DEF Copied, FTypeOK
  <1> QED  BY <1>1, <1>4 DEF Copied
-----------------------------------------------------------------------------
(* Every action keeps the invariant, a call with any length and offset.    *)
LEMMA CallKeeps ==
  ASSUME FInv, NEW i \in Inode, i \in Inodes \/ i.i_size_lo = 0,
         NEW out \in OutBufs, NEW n \in Nat, NEW off \in Nat, Call(i, out, n, off)
  PROVE  FInv'
  <1>1. i \in Inode /\ i.i_size_lo \in Nat /\ out \in Nat /\ n \in Nat /\ off \in Nat
    BY Ext2FileAssumption, InodeFields
  <1>2. inode' = i /\ out_buf' = out /\ asked' = n /\ offset' = off /\ mem' = mem
        /\ bytes_read' = 0 /\ b' = off \div BLOCK_SIZE /\ op' \in {"read", "done"}
        /\ buf_len' = (IF NothingToRead(i, out, off) THEN n ELSE Limited(i, n, off))
        /\ (op' = "read" <=> ~ NothingToRead(i, out, off))
    BY DEF Call
  <1>3. FTypeOK'
    <2>1. ~ NothingToRead(i, out, off) => Limited(i, n, off) \in Nat
      BY <1>1 DEF NothingToRead, Limited
    <2>2. off \div BLOCK_SIZE \in Nat
      BY <1>1, DivMod, SizesAreNatural
    <2> QED  BY <1>1, <1>2, <2>1, <2>2 DEF FInv, FTypeOK
  <1>4. (op = "read" => Started)'
    BY <1>1, <1>2 DEF Started, NothingToRead
  <1>5. Progress'
    BY <1>2 DEF Progress, Q
  <1>6. Filled'
    BY <1>2 DEF Filled
  <1>7. ReadsTheFile' /\ ReadsEnough'
    <2>1. SUFFICES ASSUME op' = "done"
                   PROVE  bytes_read' = Deliverable'
      BY <1>6 DEF ReadsTheFile, ReadsEnough, Filled
    <2>2. out = NULL \/ off >= i.i_size_lo
      BY <2>1, <1>2 DEF NothingToRead
    <2>3. DIRECT * BLOCK_SIZE \in Nat
      BY Monotone, SizesAreNatural
    <2>4. Deliverable' = 0
      BY <1>1, <1>2, <2>2, <2>3 DEF Deliverable, Lesser
    <2> QED  BY <2>4, <1>2
  <1> QED  BY <1>3, <1>4, <1>5, <1>6, <1>7 DEF FInv

(* The two iterations, once it is known what they store.                   *)
LEMMA ProceedKeeps ==
  ASSUME FInv, op = "read", More, Proceed, mem' \in [Addrs -> Byte],
         NoWrap /\ Progress => Outside,
         NoWrap /\ Progress /\ Apart => Delivered
  PROVE  FInv'
  <1>1. FTypeOK /\ Started
    BY DEF FInv
  <1>2. op' = op /\ inode' = inode /\ out_buf' = out_buf /\ asked' = asked
        /\ offset' = offset /\ buf_len' = buf_len
        /\ bytes_read' = bytes_read + Chunk /\ b' = b + 1
    BY DEF Proceed, args
  <1>3. Chunk \in Nat \ {0} /\ b \in Direct
    BY <1>1, PartOfBlock, SizesAreNatural
  <1>4. FTypeOK'
    BY <1>1, <1>2, <1>3 DEF FTypeOK, Direct
  <1>5. Started'
    BY <1>1, <1>2 DEF Started
  <1>6. (NoWrap' <=> NoWrap) /\ (Apart' <=> Apart) /\ Deliverable' = Deliverable /\ Q' = Q
    BY <1>2 DEF NoWrap, Apart, Deliverable, Q
  <1>7. ASSUME NoWrap PROVE Progress'
    <2>1. Progress
      BY <1>7 DEF FInv
    <2>2. bytes_read + Chunk = Lesser((b + 1) * BLOCK_SIZE - offset, buf_len) /\ b >= Q
      BY <1>1, <1>7, <2>1, NextPart
    <2>3. Q \in Nat /\ b + 1 > Q /\ b + 1 <= DIRECT
      <3>1. Q \in Nat
        BY <1>1, DivMod, SizesAreNatural DEF Q, FTypeOK
      <3> QED  BY <3>1, <1>3, <2>2, SizesAreNatural DEF Direct
    <2> QED  BY <1>2, <2>2, <2>3, <1>6 DEF Progress
  <1>8. ASSUME NoWrap, Apart PROVE Filled'
    <2>1. Progress /\ Filled /\ Outside /\ Delivered
      BY <1>8 DEF FInv
    <2>2. SUFFICES ASSUME NEW k \in 0..bytes_read'-1
                   PROVE  (mem[out_buf + k] = FileByte(offset + k))'
      BY DEF Filled
    <2>3. offset + bytes_read + Chunk <= DIRECT * BLOCK_SIZE
      <3> DEFINE all == DIRECT * BLOCK_SIZE
      <3>1. all \in Nat /\ bytes_read + Chunk <= Deliverable /\ offset + Deliverable <= all
            /\ Deliverable \in Nat
        BY <1>1, <1>8, <2>1, NextPart, DestInBuffer, Monotone, SizesAreNatural
      <3> HIDE DEF all
      <3>2. offset + bytes_read + Chunk <= all
        BY <1>1, <1>3, <3>1 DEF FTypeOK
      <3> QED  BY <3>2 DEF all
    <2>4. offset + k \in Nat /\ (offset + k) \div BLOCK_SIZE \in Direct
      <3> DEFINE all == DIRECT * BLOCK_SIZE
      <3>1. all \in Nat /\ offset + bytes_read + Chunk <= all
        BY <2>3, Monotone, SizesAreNatural
      <3> HIDE DEF all
      <3>2. offset + k \in Nat /\ offset + k < all
        BY <3>1, <1>1, <1>2, <1>3 DEF FTypeOK
      <3> QED  BY <3>2, BelowDirect DEF all
    <2>5. FileByte(offset + k)' = FileByte(offset + k)
      <3>1. FileByte(offset + k)' = (LET p == offset + k IN
              IF inode'.i_block[p \div BLOCK_SIZE] = 0 THEN ZERO
              ELSE mem'[IMAGE + inode'.i_block[p \div BLOCK_SIZE] * BLOCK_SIZE + (p % BLOCK_SIZE)])
        BY <1>2 DEF FileByte
      <3>2. PICK p \in Nat : p = offset + k
        BY <2>4
      <3>3. FileByte(p)' = FileByte(p)
        BY <1>1, <1>2, <1>8, <2>1, <2>4, <3>2, FileStays
      <3> QED  BY <3>1, <3>2, <3>3 DEF FileByte
    <2>6. CASE k < bytes_read
      <3>1. k \in 0..bytes_read-1
        BY <2>6, <1>1, <1>2, <1>3 DEF FTypeOK
      <3>2. mem[out_buf + k] = FileByte(offset + k)
        BY <3>1, <2>1 DEF Filled
      <3>3. out_buf + k \in Addrs /\ out_buf + k \notin Dest..Dest+Chunk-1
        <4>1. bytes_read + Chunk <= Deliverable /\ out_buf + Deliverable <= MEM /\ Deliverable \in Nat
          BY <1>1, <1>8, <2>1, NextPart, DestInBuffer
        <4>2. out_buf \in Nat /\ bytes_read \in Nat /\ Dest = out_buf + bytes_read
          BY <1>1 DEF FTypeOK, Dest
        <4> QED  BY <4>1, <4>2, <1>3, <3>1, SizesAreNatural DEF Addrs
      <3>4. mem'[out_buf + k] = mem[out_buf + k]
        BY <2>1, <3>3 DEF Outside
      <3> QED  BY <1>2, <3>2, <3>4, <2>5
    <2>7. CASE k >= bytes_read
      <3>1. k - bytes_read \in 0..Chunk-1 /\ Dest + (k - bytes_read) = out_buf + k
            /\ offset + bytes_read + (k - bytes_read) = offset + k
        BY <2>7, <1>1, <1>2, <1>3 DEF FTypeOK, Dest
      <3>2. mem'[Dest + (k - bytes_read)] = FileByte(offset + bytes_read + (k - bytes_read))
        BY <2>1, <3>1 DEF Delivered
      <3> QED  BY <1>2, <3>1, <3>2, <2>5
    <2> QED  BY <2>6, <2>7, <1>1, <1>2, <1>3 DEF FTypeOK
  <1>9. ReadsTheFile' /\ ReadsEnough'
    BY <1>2 DEF ReadsTheFile, ReadsEnough
  <1> QED  BY <1>4, <1>5, <1>6, <1>7, <1>8, <1>9 DEF FInv
LEMMA FillHoleKeeps ==
  ASSUME FInv, FillHole
  PROVE  FInv'
  <1>1. FTypeOK /\ Started /\ op = "read" /\ More /\ Proceed
    BY DEF FInv, FillHole
  <1>2. mem' \in [Addrs -> Byte]
    BY <1>1, Ext2FileAssumption DEF FillHole, FTypeOK
  <1>3. NoWrap /\ Progress => Outside /\ Delivered
    BY <1>1, HoleDelivers
  <1> QED  BY <1>1, <1>2, <1>3, ProceedKeeps

LEMMA CopyBlockKeeps ==
  ASSUME FInv, CopyBlock
  PROVE  FInv'
  <1>1. FTypeOK /\ Started /\ op = "read" /\ More /\ Proceed
    BY DEF FInv, CopyBlock
  <1>2. mem' \in [Addrs -> Byte]
    BY <1>1, CopyTypes
  <1>3. NoWrap /\ Progress => Outside
    BY CopyOutside
  <1>4. NoWrap /\ Progress /\ Apart => Delivered
    BY <1>1, CopyDelivers
  <1> QED  BY <1>1, <1>2, <1>3, <1>4, ProceedKeeps

(* The three reasons to stop: enough was read, the direct blocks or the    *)
(* blocks of the file are at an end.                                       *)
LEMMA StopsAtTheEnd ==
  ASSUME FTypeOK, Started, NoWrap, Progress, ~ More
  PROVE  bytes_read = Deliverable
  <1> DEFINE rest == offset % BLOCK_SIZE
             first == Q * BLOCK_SIZE
             all == DIRECT * BLOCK_SIZE
             here == b * BLOCK_SIZE
             last == offset + buf_len + BLOCK_SIZE - 1
             N == last \div BLOCK_SIZE
             end == N * BLOCK_SIZE
             over == last % BLOCK_SIZE
  <1>1. /\ buf_len \in Nat /\ offset \in Nat /\ b \in Nat /\ bytes_read \in Nat
        /\ offset + buf_len <= inode.i_size_lo /\ inode.i_size_lo \in Nat
        /\ inode.i_size_lo + BLOCK_SIZE <= WORD
    BY LimitedIs, InodeFields DEF FTypeOK, NoWrap
  <1>2. Q \in Nat /\ rest \in 0..BLOCK_SIZE-1 /\ offset = first + rest
        /\ first \in Nat /\ all \in Nat /\ here \in Nat
    <2>1. Q \in Nat /\ rest \in 0..BLOCK_SIZE-1 /\ offset = first + rest
      BY <1>1, DivMod, SizesAreNatural DEF Q
    <2> QED  BY <2>1, <1>1, Monotone, SizesAreNatural
  <1>3. last \in Nat /\ last < WORD /\ blocks_to_read = N
    <2>1. last \in Nat /\ last < WORD
      BY <1>1, SizesAreNatural
    <2>2. last % WORD = last
      BY <2>1, ModSmall, SizesAreNatural
    <2> QED  BY <2>1, <2>2 DEF blocks_to_read
  <1>4. N \in Nat /\ over \in 0..BLOCK_SIZE-1 /\ last = end + over /\ end \in Nat
    <2> HIDE DEF last
    <2>1. N \in Nat /\ over \in 0..BLOCK_SIZE-1 /\ last = end + over
      BY <1>3, DivMod, SizesAreNatural
    <2> QED  BY <2>1, Monotone, SizesAreNatural
  <1>5. Deliverable = IF offset < Lesser(offset + buf_len, all)
                        THEN Lesser(offset + buf_len, all) - offset ELSE 0
    BY DeliverableIs
  <1>6. \/ b = Q /\ bytes_read = 0
        \/ b > Q /\ b <= DIRECT /\ bytes_read = Lesser(here - offset, buf_len)
    BY DEF Progress
  <1>7. b >= DIRECT \/ b >= N \/ bytes_read >= buf_len
    BY <1>1, <1>3, <1>4, SizesAreNatural DEF More
  <1>8. /\ b >= DIRECT => all <= here
        /\ b <= DIRECT => here <= all
        /\ b >= N => end <= here
        /\ b = Q => here = first
    BY <1>1, <1>2, <1>4, Monotone, SizesAreNatural
  <1>9. b > Q => first + BLOCK_SIZE <= here
    <2>1. (Q + 1) * BLOCK_SIZE = first + BLOCK_SIZE
      BY <1>2, SizesAreNatural
    <2>2. b > Q => (Q + 1) * BLOCK_SIZE <= b * BLOCK_SIZE
      BY <1>1, <1>2, Monotone, SizesAreNatural
    <2> QED  BY <2>1, <2>2
  <1>10. last = offset + buf_len + BLOCK_SIZE - 1
    OBVIOUS
  <1> HIDE DEF rest, first, all, here, last, N, end, over
  <1>11. CASE b = Q /\ bytes_read = 0
    <2>1. b >= DIRECT => Deliverable = 0
      BY <1>1, <1>2, <1>5, <1>8, <1>11, SizesAreNatural DEF Lesser
    <2>2. b >= N => buf_len = 0
      BY <1>1, <1>2, <1>4, <1>8, <1>10, <1>11, SizesAreNatural
    <2>3. bytes_read >= buf_len => buf_len = 0
      BY <1>1, <1>11
    <2>4. buf_len = 0 => Deliverable = 0
      BY <1>1, <1>2, <1>5 DEF Lesser
    <2> QED  BY <1>7, <1>11, <2>1, <2>2, <2>3, <2>4
  <1>12. CASE b > Q /\ b <= DIRECT /\ bytes_read = Lesser(here - offset, buf_len)
    <2>1. here <= all /\ offset < here
      BY <1>1, <1>2, <1>8, <1>9, <1>12, SizesAreNatural
    <2>2. b >= DIRECT => bytes_read = Deliverable
      BY <1>1, <1>2, <1>5, <1>8, <1>12, <2>1 DEF Lesser
    <2>3. b >= N => bytes_read = buf_len
      BY <1>1, <1>2, <1>4, <1>8, <1>10, <1>12, SizesAreNatural DEF Lesser
    <2>4. bytes_read >= buf_len => bytes_read = buf_len
      BY <1>1, <1>2, <1>12 DEF Lesser
    <2>5. bytes_read = buf_len => bytes_read = Deliverable
      BY <1>1, <1>2, <1>5, <1>12, <2>1 DEF Lesser
    <2> QED  BY <1>7, <2>2, <2>3, <2>4, <2>5
  <1> QED  BY <1>6, <1>11, <1>12

LEMMA ReturnKeeps ==
  ASSUME FInv, ReadFileReturn
  PROVE  FInv'
  <1>1. op = "read" /\ ~ More /\ op' = "done" /\ mem' = mem /\ inode' = inode
        /\ out_buf' = out_buf /\ asked' = asked /\ offset' = offset /\ buf_len' = buf_len
        /\ b' = b /\ bytes_read' = bytes_read
    BY DEF ReadFileReturn, args
  <1>2. FTypeOK'
    BY <1>1 DEF FInv, FTypeOK
  <1>3. ReadsTheFile' /\ ReadsEnough'
    <2>1. (NoWrap' <=> NoWrap) /\ (Apart' <=> Apart) /\ Deliverable' = Deliverable
      BY <1>1 DEF NoWrap, Apart, Deliverable
    <2>2. NoWrap => bytes_read = Deliverable
      BY <1>1, StopsAtTheEnd DEF FInv
    <2>3. NoWrap /\ Apart => Filled
      BY <1>1 DEF FInv
    <2>4. Filled => Filled'
      BY <1>1 DEF Filled, FileByte
    <2> QED  BY <2>1, <2>2, <2>3, <2>4, <1>1 DEF ReadsTheFile, ReadsEnough, Filled
  <1> QED  BY <1>1, <1>2, <1>3 DEF FInv

LEMMA StutterKeeps ==
  ASSUME FInv, UNCHANGED fvars
  PROVE  FInv'
  <1>1. op' = op /\ mem' = mem /\ inode' = inode
        /\ out_buf' = out_buf /\ asked' = asked /\ offset' = offset /\ buf_len' = buf_len
        /\ b' = b /\ bytes_read' = bytes_read
    BY DEF fvars, args
  <1> QED
    BY <1>1 DEF FInv, FTypeOK, Started, NoWrap, Progress, Q, Apart, Deliverable, Filled,
                FileByte, ReadsTheFile, ReadsEnough
-----------------------------------------------------------------------------
(* The invariant of the loop of ext2_read_file (ext2.c:137-174): it holds   *)
(* before the first call, is kept by every step, and so holds always.      *)
THEOREM FInitInv == FInit => FInv
  <1>1. NoFile \in Inode
    BY DEF NoFile, Inode
  <1> QED  BY <1>1, Ext2FileAssumption DEF FInit, FInv, FTypeOK, ReadsTheFile, ReadsEnough, NULL

\* Calls, both kinds of blocks and the return keep it.
THEOREM FNextInv == FInv /\ [FNext]_fvars => FInv'
  <1>1. SUFFICES ASSUME FInv, [FNext]_fvars PROVE FInv'
    OBVIOUS
  <1>2. CASE \E i \in Inodes, out \in OutBufs, n \in Lens, off \in Offsets : Call(i, out, n, off)
    BY <1>1, <1>2, CallKeeps, Ext2FileAssumption
  <1>3. CASE FillHole
    BY <1>1, <1>3, FillHoleKeeps
  <1>4. CASE CopyBlock
    BY <1>1, <1>4, CopyBlockKeeps
  <1>5. CASE ReadFileReturn
    BY <1>1, <1>5, ReturnKeeps
  <1>6. CASE UNCHANGED fvars
    BY <1>1, <1>6, StutterKeeps
  <1> QED  BY <1>1, <1>2, <1>3, <1>4, <1>5, <1>6 DEF FNext, ReadFileStep

\* And it holds in every reachable state.
THEOREM FInvariance == FSpec => []FInv
  BY FInitInv, FNextInv, PTL DEF FSpec

(* Every variable of ext2_read_file keeps its type: what is copied lies in *)
(* memory, and the unsigned difference in ext2.c:131-133 is not negative.  *)
THEOREM ReadFileTypes == FSpec => []FTypeOK
  <1>1. FInv => FTypeOK
    BY DEF FInv
  <1> QED  BY <1>1, FInvariance, PTL

(* ext2_read_file (ext2.c:127-174) delivers the file, for every size of    *)
(* block, every image, offset and length, where no sum wraps and no block  *)
(* of the file lies in the buffer.                                         *)
THEOREM FileIsRead == FSpec => []ReadsTheFile
  <1>1. FInv => ReadsTheFile
    BY DEF FInv
  <1> QED  BY <1>1, FInvariance, PTL

(* And where no sum wraps it stores to nothing but the part of the buffer  *)
(* it is to fill.                                                          *)
THEOREM StoresStayInBuffer == FSpec => StaysInBuffer
  <1> DEFINE Keeps == mem' # mem /\ NoWrap =>
                        \A a \in Addrs \ (out_buf..out_buf+Deliverable-1) : mem'[a] = mem[a]
  <1>1. FInv /\ [FNext]_fvars => [Keeps]_fvars
    <2>1. SUFFICES ASSUME FInv, FNext, mem' # mem, NoWrap
                   PROVE  \A a \in Addrs \ (out_buf..out_buf+Deliverable-1) : mem'[a] = mem[a]
      OBVIOUS
    <2>2. FillHole \/ CopyBlock
      BY <2>1 DEF FNext, ReadFileStep, Call, ReadFileReturn
    <2>3. op = "read" /\ More
      BY <2>2 DEF FillHole, CopyBlock
    <2>4. FTypeOK /\ Started /\ Progress
      BY <2>1, <2>3 DEF FInv
    <2>5. Outside
      BY <2>1, <2>2, <2>4, HoleDelivers, CopyOutside
    <2> QED  BY <2>1, <2>3, <2>4, <2>5, DestInBuffer DEF Outside
  <1>2. FSpec => [][Keeps]_fvars
    BY <1>1, FInvariance, PTL DEF FSpec
  <1> QED  BY <1>2 DEF StaysInBuffer
=============================================================================
