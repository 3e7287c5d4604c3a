---------------------------- MODULE LoaderProofs ----------------------------
(***************************************************************************)
(* What holds of the way to the program, from ext2_mount to um_switch, for *)
(* every image that is laid out as genext2fs does, every size of blocks    *)
(* and inodes, and wherever the program is loaded.                         *)
(***************************************************************************)
EXTENDS Loader, Ext2Proofs

here == <<blk, at>>
Count == Root.i_blocks \div (BLOCK_SIZE \div UNIT)

(* The live entries in the blocks that the walk comes to.                  *)
Visible == {p \in Live : p[1] < Count}

(* Where the walk may be: at an entry or behind the last one.              *)
AtPlace ==
  /\ blk \in 0..DIRECT /\ at \in 0..BLOCK_SIZE
  /\ blk \in Direct /\ Root.i_block[blk] # 0 =>
       at \in DOMAIN disk.entries[Root.i_block[blk]] \cup {BLOCK_SIZE}

(* print_dir_cb was called with the entries in S, in their order.          *)
Listed(S) ==
  /\ listed \in Seq(Direct \X Nat)
  /\ {listed[i] : i \in 1..Len(listed)} = S
  /\ \A i \in 1..Len(listed)-1 : Before(listed[i], listed[i + 1])

IsProgram(p) == EntryAt(p).name = Program

(* What find_file_callback has, when it is asked no more.                  *)
SearchDone ==
  \/ found = 0 /\ \A p \in Visible : ~ IsProgram(p)
  \/ \E p \in Visible :
       /\ IsProgram(p) /\ found = EntryAt(p).inode
       /\ \A q \in Visible \ {p} : IsProgram(q) => Before(p, q)

(* The program's inode, and the call that reads it to USER_CODE_BASE.      *)
Opened ==
  /\ found # 0 /\ inode = disk.inodes[found]
  /\ out_buf = USER_CODE_BASE /\ offset = 0 /\ asked = inode.i_size_lo

\* What has been mounted and opened.
MountInv ==
  /\ Mounted =>
       /\ disk.magic /\ disk.blocks_per_group # 0
       /\ bgdt = [g \in 0..Groups-1 |-> TableAt(DescriptorBlock, g)]
  /\ pc \in {"list", "find", "open"} => disk.inodes_per_group # 0 /\ dir = Root

\* How far the directory has been walked through, for the list and for the name.
WalkInv ==
  /\ pc \in {"mount", "setup"} => blk = 0 /\ at = 0 /\ listed = <<>> /\ found = 0
  /\ pc \in {"list", "find"} => AtPlace /\ found = 0
  /\ pc = "list" => Listed({p \in Visible : Before(p, here)})
  /\ pc = "find" => Listed(Visible) /\ \A p \in Visible : Before(p, here) => ~ IsProgram(p)
  /\ Searched => Listed(Visible) /\ SearchDone

LoadInv ==
  /\ pc = "load" => Opened
  /\ pc = "switch" /\ reported # "no process" =>
       \/ reported = "not found" /\ found = 0
       \/ op = "done" /\ Opened /\ reported = Outcome

LInv == FInv /\ LTypeOK /\ MountInv /\ WalkInv /\ LoadInv
-----------------------------------------------------------------------------
(* Arithmetic of groups, blocks and inodes.                                *)
LEMMA QuotientAtLeast ==
  ASSUME NEW a \in Nat, NEW q \in Nat, NEW n \in Nat \ {0}, q * n <= a
  PROVE  q <= a \div n
  <1> DEFINE d == a \div n
             r == a % n
  <1>1. d \in Nat /\ r \in 0..n-1 /\ a = d * n + r
    BY DivMod
  <1> HIDE DEF d, r
  <1>2. SUFFICES ASSUME d < q PROVE FALSE
    BY <1>1 DEF d
  <1>3. (d + 1) * n <= q * n
    BY <1>1, <1>2, Monotone
  <1>4. (d + 1) * n = d * n + n
    BY <1>1
  <1> DEFINE dn == d * n
             qn == q * n
  <1>5. dn \in Nat /\ qn \in Nat
    BY <1>1, Monotone
  <1>6. dn + n <= qn /\ a = dn + r /\ qn <= a
    BY <1>1, <1>3, <1>4
  <1> HIDE DEF dn, qn
  <1> QED  BY <1>1, <1>5, <1>6

LEMMA QuotientBelow ==
  ASSUME NEW a \in Nat, NEW q \in Nat, NEW n \in Nat \ {0}, a < q * n
  PROVE  a \div n < q
  <1> DEFINE d == a \div n
             r == a % n
             dn == d * n
             qn == q * n
  <1>1. d \in Nat /\ r \in 0..n-1 /\ a = dn + r
    BY DivMod
  <1> HIDE DEF d, r
  <1>2. SUFFICES ASSUME q <= d PROVE FALSE
    BY <1>1 DEF d
  <1>3. qn <= dn /\ dn \in Nat /\ qn \in Nat /\ a < qn
    BY <1>1, <1>2, Monotone
  <1> HIDE DEF dn, qn
  <1> QED  BY <1>1, <1>3

LEMMA ProductIsNat ==
  ASSUME NEW a \in Nat, NEW n \in Nat
  PROVE  a * n \in Nat
  BY SMT

(* The index in an inode table, as block and place in the block.           *)
LEMMA InodeOffset ==
  ASSUME NEW t \in Nat, NEW u \in Nat, NEW v \in Nat, NEW m \in Nat, NEW s \in Nat
  PROVE  (t + u) * (m * s) + v * s = t * (m * s) + (u * m + v) * s
  BY SMT

LEMMA LoaderSizes ==
  /\ BLOCK_SIZE \in Nat \ {0} /\ DIRECT \in Nat \ {0} /\ INODE_SIZE \in Nat \ {0} /\ UNIT \in Nat \ {0}
  /\ BLOCK_SIZE \div INODE_SIZE \in Nat \ {0}
  /\ BLOCK_SIZE = (BLOCK_SIZE \div INODE_SIZE) * INODE_SIZE
  /\ BLOCK_SIZE \div UNIT \in Nat \ {0}
  /\ DescriptorBlock = (IF BLOCK_SIZE > MIN_BLOCK THEN 1 ELSE 2)
  <1>1. \A n \in {UNIT, INODE_SIZE} :
          BLOCK_SIZE % n = 0 => BLOCK_SIZE \div n \in Nat \ {0} /\ BLOCK_SIZE = (BLOCK_SIZE \div n) * n
    <2> SUFFICES ASSUME NEW n \in Nat \ {0}, BLOCK_SIZE % n = 0
                 PROVE  BLOCK_SIZE \div n \in Nat \ {0} /\ BLOCK_SIZE = (BLOCK_SIZE \div n) * n
      BY LoaderAssumption
    <2> DEFINE d == BLOCK_SIZE \div n
    <2>1. d \in Nat /\ BLOCK_SIZE = d * n + (BLOCK_SIZE % n)
      BY DivMod, SizesAreNatural
    <2> HIDE DEF d
    <2>2. d * n \in Nat
      BY <2>1, Monotone
    <2>3. d # 0
      BY <2>1, SizesAreNatural
    <2> QED  BY <2>1, <2>2, <2>3 DEF d
  <1>2. BLOCK_SIZE >= MIN_BLOCK /\ MIN_BLOCK \in Nat
    BY LoaderAssumption
  <1> QED  BY <1>1, <1>2, LoaderAssumption, SizesAreNatural DEF DescriptorBlock

LEMMA DiskIsWellFormed ==
  ASSUME image \in Images
  PROVE  /\ disk.blocks \in Nat /\ disk.blocks_per_group \in Nat /\ disk.inodes_per_group \in Nat
         /\ disk.tables \in Seq(Nat) /\ disk.inodes \in Seq(Inodes) /\ Len(disk.inodes) >= 2
         /\ disk.blocks_per_group # 0 /\ disk.inodes_per_group # 0 => TablesHold(disk)
         /\ \A k \in Direct : Root.i_block[k] # 0 =>
              Tiled(disk.entries[Root.i_block[k]], Len(disk.inodes))
         /\ Root \in Inodes /\ Root \in Inode
  <1>1. WellFormed(disk)
    BY LoaderAssumption DEF disk
  <1>2. disk.inodes \in Seq(Inodes) /\ Len(disk.inodes) >= 2
    BY <1>1 DEF WellFormed, EXT2_ROOT_INO
  <1>3. Root \in Inodes
    BY <1>2 DEF Root, EXT2_ROOT_INO
  <1>4. Root \in Inode
    BY <1>3, Ext2FileAssumption
  <1> QED  BY <1>1, <1>2, <1>3, <1>4 DEF WellFormed, Root

(* ext2_mount copies the descriptors of all groups.                        *)
LEMMA GroupsAreMounted ==
  ASSUME image \in Images, disk.blocks_per_group # 0, disk.inodes_per_group # 0
  PROVE  Groups \in Nat /\ Len(disk.tables) <= Groups
  <1> DEFINE p == disk.blocks_per_group
             n == Len(disk.tables)
             B == disk.blocks
  <1>1. p \in Nat \ {0} /\ B \in Nat /\ n \in Nat
        /\ B + p <= WORD /\ (n - 1) * p < B
    BY DiskIsWellFormed DEF TablesHold
  <1>2. Groups = ((B + p - 1) % WORD) \div p
    BY DEF Groups
  <1> HIDE DEF p, n, B
  <1>3. (B + p - 1) % WORD = B + p - 1 /\ B + p - 1 \in Nat
    <2>1. B + p - 1 \in Nat /\ B + p - 1 < WORD
      BY <1>1, SizesAreNatural
    <2> QED  BY <2>1, ModSmall, SizesAreNatural
  <1>4. n * p <= B + p - 1
    <2>1. (n - 1) * p = n * p - p /\ n * p \in Nat
      BY <1>1, Monotone
    <2> QED  BY <1>1, <2>1
  <1>5. n <= (B + p - 1) \div p
    BY <1>1, <1>3, <1>4, QuotientAtLeast
  <1>6. (B + p - 1) \div p \in Nat
    BY <1>1, <1>3, DivMod
  <1> QED  BY <1>2, <1>3, <1>5, <1>6 DEF n

(* The number of an inode, as group and index in it.                       *)
LEMMA GroupOf ==
  ASSUME image \in Images, disk.blocks_per_group # 0, disk.inodes_per_group # 0,
         NEW n \in 1..Len(disk.inodes)
  PROVE  LET g == (n - 1) \div disk.inodes_per_group
             x == (n - 1) % disk.inodes_per_group IN
         /\ g \in 0..Len(disk.tables)-1 /\ x \in 0..disk.inodes_per_group-1
         /\ n - 1 = g * disk.inodes_per_group + x
         /\ disk.tables[g + 1] \in Nat
         /\ Home(n) = disk.tables[g + 1] * BLOCK_SIZE + x * INODE_SIZE
  <1> DEFINE I == disk.inodes_per_group
             N == Len(disk.tables)
             g == (n - 1) \div I
             x == (n - 1) % I
  <1>1. I \in Nat \ {0} /\ N \in Nat /\ Len(disk.inodes) \in Nat /\ Len(disk.inodes) <= N * I
        /\ disk.tables \in Seq(Nat)
    BY DiskIsWellFormed DEF TablesHold
  <1>2. N * I \in Nat
    BY <1>1, Monotone
  <1>3. n - 1 \in Nat /\ n - 1 < N * I
    BY <1>1, <1>2
  <1>4. g \in Nat /\ x \in 0..I-1 /\ n - 1 = g * I + x
    BY <1>1, <1>3, DivMod
  <1>5. g < N
    BY <1>1, <1>3, QuotientBelow
  <1>6. Home(n) = disk.tables[g + 1] * BLOCK_SIZE + x * INODE_SIZE
    BY DEF Home
  <1>7. disk.tables[g + 1] \in Nat
    <2>1. g + 1 \in 1..N
      <3> HIDE DEF g, N
      <3> QED  BY <1>1, <1>4, <1>5
    <2> QED  BY <1>1, <2>1
  <1>8. g \in 0..N-1
    <2> HIDE DEF g, N
    <2> QED  BY <1>1, <1>4, <1>5
  <1> QED  BY <1>4, <1>6, <1>7, <1>8

(* ext2_read_inode goes to where the image has the inode.                  *)
LEMMA AddrIsHome ==
  ASSUME image \in Images, disk.blocks_per_group # 0, disk.inodes_per_group # 0,
         bgdt = [g \in 0..Groups-1 |-> TableAt(DescriptorBlock, g)],
         NEW n \in 1..Len(disk.inodes)
  PROVE  InodeAddr(n) = Home(n)
  <1> DEFINE g == (n - 1) \div disk.inodes_per_group
             x == (n - 1) % disk.inodes_per_group
             t == disk.tables[g + 1]
             m == BLOCK_SIZE \div INODE_SIZE
             u == x \div m
             v == x % m
  <1>1. g \in 0..Len(disk.tables)-1 /\ x \in Nat /\ t \in Nat
        /\ Home(n) = t * BLOCK_SIZE + x * INODE_SIZE
    <2>1. x \in 0..disk.inodes_per_group-1 /\ disk.inodes_per_group \in Nat
      BY GroupOf, DiskIsWellFormed
    <2>2. x \in Nat
      <3> HIDE DEF x
      <3> QED  BY <2>1
    <2> QED  BY <2>2, GroupOf
  <1>2. bgdt[g] = t
    <2>1. g \in Nat /\ g < Len(disk.tables) /\ g \in 0..Groups-1
      <3>1. Len(disk.tables) \in Nat
        BY DiskIsWellFormed
      <3> HIDE DEF g
      <3> QED  BY <1>1, <3>1, GroupsAreMounted
    <2>2. bgdt[g] = TableAt(DescriptorBlock, g)
      <3> HIDE DEF g
      <3> QED  BY <2>1
    <2> HIDE DEF g
    <2> QED  BY <2>1, <2>2, LoaderSizes DEF TableAt, t
  <1>3. InodeAddr(n) = (t + u) * BLOCK_SIZE + v * INODE_SIZE
    BY <1>2 DEF InodeAddr
  <1>4. m \in Nat \ {0} /\ BLOCK_SIZE = m * INODE_SIZE /\ INODE_SIZE \in Nat
    BY LoaderSizes
  <1> HIDE DEF x, t, g, m
  <1>5. u \in Nat /\ v \in Nat /\ x = u * m + v
    <2>1. u \in Nat /\ v \in 0..m-1 /\ x = u * m + v
      BY <1>1, <1>4, DivMod
    <2> HIDE DEF v
    <2> QED  BY <1>4, <2>1
  <1> HIDE DEF u, v
  <1>6. (t + u) * (m * INODE_SIZE) + v * INODE_SIZE = t * (m * INODE_SIZE) + (u * m + v) * INODE_SIZE
    BY <1>1, <1>4, <1>5, InodeOffset
  <1> QED  BY <1>1, <1>3, <1>4, <1>5, <1>6

(* Two inodes are never at the same place: tables of different groups are  *)
(* apart.                                                                  *)
LEMMA HomesAreApart ==
  ASSUME image \in Images, disk.blocks_per_group # 0, disk.inodes_per_group # 0,
         NEW n \in 1..Len(disk.inodes), NEW o \in 1..Len(disk.inodes), Home(n) = Home(o)
  PROVE  n = o
  <1> DEFINE I == disk.inodes_per_group
             g(k) == (k - 1) \div I
             x(k) == (k - 1) % I
             table(k) == disk.tables[g(k) + 1] * BLOCK_SIZE
             place(k) == x(k) * INODE_SIZE
             size == I * INODE_SIZE
  <1>1. I \in Nat \ {0} /\ Len(disk.tables) \in Nat /\ size \in Nat /\ INODE_SIZE \in Nat \ {0}
        /\ Len(disk.inodes) \in Nat
    <2>1. I \in Nat \ {0} /\ Len(disk.tables) \in Nat /\ Len(disk.inodes) \in Nat
      BY DiskIsWellFormed
    <2> QED  BY <2>1, LoaderSizes, Monotone
  <1>2. ASSUME NEW k \in 1..Len(disk.inodes)
        PROVE  /\ g(k) \in Nat /\ g(k) \in 0..Len(disk.tables)-1 /\ x(k) \in Nat /\ k - 1 = g(k) * I + x(k)
               /\ table(k) \in Nat /\ place(k) \in Nat
               /\ place(k) + INODE_SIZE <= size /\ Home(k) = table(k) + place(k)
    <2>1. g(k) \in 0..Len(disk.tables)-1 /\ x(k) \in 0..I-1 /\ k - 1 = g(k) * I + x(k)
          /\ disk.tables[g(k) + 1] \in Nat /\ Home(k) = table(k) + place(k)
      BY GroupOf
    <2> HIDE DEF g, x, I
    <2>2. g(k) \in Nat /\ x(k) \in Nat /\ x(k) + 1 <= I
      BY <1>1, <2>1
    <2>3. table(k) \in Nat /\ place(k) \in Nat
      BY <2>1, <2>2, LoaderSizes, ProductIsNat
    <2>4. (x(k) + 1) * INODE_SIZE <= I * INODE_SIZE
      BY <1>1, <2>2, Monotone
    <2>5. (x(k) + 1) * INODE_SIZE = place(k) + INODE_SIZE
      BY <1>1, <2>2
    <2> QED  BY <2>1, <2>2, <2>3, <2>4, <2>5
  <1>3. ASSUME NEW k \in 1..Len(disk.inodes), NEW l \in 1..Len(disk.inodes), g(k) < g(l)
        PROVE  Home(k) # Home(l)
    <2>1. g(k) + 1 \in 1..Len(disk.tables) /\ g(l) + 1 \in 1..Len(disk.tables) /\ g(k) + 1 < g(l) + 1
      <3>1. g(k) \in Nat /\ g(k) \in 0..Len(disk.tables)-1 /\ g(l) \in Nat /\ g(l) \in 0..Len(disk.tables)-1
        BY <1>2
      <3> DEFINE a == g(k)
                 c == g(l)
                 N == Len(disk.tables)
      <3>2. a \in Nat /\ a \in 0..N-1 /\ c \in Nat /\ c \in 0..N-1 /\ a < c /\ N \in Nat
        BY <1>1, <1>3, <3>1
      <3> HIDE DEF a, c, N
      <3>3. a + 1 \in 1..N /\ c + 1 \in 1..N /\ a + 1 < c + 1
        BY <3>2
      <3> QED  BY <3>3 DEF a, c, N
    <2>2. table(k) + size <= table(l)
      <3>1. \A i, j \in 1..Len(disk.tables) : i < j =>
              disk.tables[i] * BLOCK_SIZE + disk.inodes_per_group * INODE_SIZE <= disk.tables[j] * BLOCK_SIZE
        BY DiskIsWellFormed DEF TablesHold
      <3> HIDE DEF g
      <3> QED  BY <2>1, <3>1
    <2>3. /\ table(k) \in Nat /\ place(k) \in Nat /\ table(l) \in Nat /\ place(l) \in Nat
          /\ place(k) + INODE_SIZE <= size
          /\ Home(k) = table(k) + place(k) /\ Home(l) = table(l) + place(l)
      BY <1>2
    <2> HIDE DEF table, place, size
    <2> QED  BY <1>1, <2>2, <2>3
  <1>4. ~ (g(n) < g(o)) /\ ~ (g(o) < g(n))
    BY <1>3
  <1>5. g(n) = g(o)
    <2>1. g(n) \in Nat /\ g(o) \in Nat
      BY <1>2
    <2> HIDE DEF g
    <2> QED  BY <1>4, <2>1
  <1>6. place(n) = place(o)
    <2>1. table(n) = table(o)
      <3> HIDE DEF g
      <3> QED  BY <1>5
    <2>2. table(n) \in Nat /\ place(n) \in Nat /\ place(o) \in Nat
          /\ Home(n) = table(n) + place(n) /\ Home(o) = table(o) + place(o)
      BY <1>2
    <2>3. \A t, p, q \in Nat : t + p = t + q => p = q
      OBVIOUS
    <2> HIDE DEF table, place
    <2> QED  BY <2>1, <2>2, <2>3
  <1>7. x(n) = x(o)
    <2>1. x(n) \in Nat /\ x(o) \in Nat
      BY <1>2
    <2> HIDE DEF x
    <2>2. \A a, b1 \in Nat, s \in Nat \ {0} : a * s = b1 * s => a = b1
      <3>1. ASSUME NEW a \in Nat, NEW c \in Nat, NEW s \in Nat \ {0}, a < c PROVE a * s < c * s
        <4>1. (a + 1) * s <= c * s /\ (a + 1) * s = a * s + s /\ a * s \in Nat /\ c * s \in Nat
          BY <3>1, Monotone
        <4> DEFINE as == a * s
                   cs == c * s
        <4>2. as + s <= cs /\ as \in Nat /\ cs \in Nat
          BY <4>1
        <4> HIDE DEF as, cs
        <4>3. as < cs
          <5>1. \A i, j \in Nat, k \in Nat \ {0} : i + k <= j => i < j
            OBVIOUS
          <5> QED  BY <4>2, <5>1
        <4> QED  BY <4>3 DEF as, cs
      <3>2. \A a, c \in Nat, s \in Nat : a * s \in Nat /\ c * s \in Nat
        BY Monotone
      <3> QED  BY <3>1, <3>2
    <2> QED  BY <1>1, <1>6, <2>1, <2>2
  <1>8. n - 1 = o - 1
    <2>1. n - 1 = g(n) * I + x(n) /\ o - 1 = g(o) * I + x(o)
      BY <1>2
    <2> HIDE DEF g, x, I
    <2> QED  BY <1>5, <1>7, <2>1
  <1> QED  BY <1>1, <1>8

LEMMA InodeIsFound ==
  ASSUME image \in Images, disk.blocks_per_group # 0, disk.inodes_per_group # 0,
         bgdt = [g \in 0..Groups-1 |-> TableAt(DescriptorBlock, g)],
         NEW n \in 1..Len(disk.inodes)
  PROVE  InodeAt(InodeAddr(n)) = disk.inodes[n]
  <1>1. InodeAddr(n) = Home(n)
    BY AddrIsHome
  <1>2. \A o \in 1..Len(disk.inodes) : Home(o) = Home(n) => o = n
    BY HomesAreApart
  <1> HIDE DEF Home
  <1>3. (CHOOSE o \in 1..Len(disk.inodes) : Home(o) = Home(n)) = n
    BY <1>2
  <1> QED  BY <1>1, <1>3 DEF InodeAt
-----------------------------------------------------------------------------
(* The entries the walk comes to, and their order.                         *)
Entries(k) == disk.entries[Root.i_block[k]]

IsEntry(k, o) ==
  /\ k \in Direct /\ Root.i_block[k] # 0 /\ k < Count
  /\ o \in DOMAIN Entries(k) /\ Entries(k)[o].inode # 0

LEMMA VisibleIs ==
  \A p : p \in Visible <=> \E k, o : p = <<k, o>> /\ IsEntry(k, o)
  <1>1. \A p : p \in Live <=>
          \E k \in Direct : Root.i_block[k] # 0 /\
            \E o \in DOMAIN Entries(k) : Entries(k)[o].inode # 0 /\ p = <<k, o>>
    BY DEF Live, Entries
  <1> QED  BY <1>1 DEF Visible, IsEntry

LEMMA EntryIs ==
  ASSUME image \in Images, NEW k, NEW o, IsEntry(k, o)
  PROVE  /\ k \in Nat /\ k < DIRECT /\ o \in Nat /\ o < BLOCK_SIZE
         /\ EntryAt(<<k, o>>) = Entries(k)[o]
         /\ Entries(k)[o].inode \in 1..Len(disk.inodes)
  <1>1. Tiled(Entries(k), Len(disk.inodes)) /\ Len(disk.inodes) \in Nat
    BY DiskIsWellFormed DEF IsEntry, Entries
  <1>2. k \in Nat /\ k < DIRECT
    BY SizesAreNatural DEF IsEntry, Direct
  <1>3. o \in 0..BLOCK_SIZE-1 /\ Entries(k)[o].inode \in 0..Len(disk.inodes)
    BY <1>1 DEF IsEntry, Tiled
  <1>4. Entries(k)[o].inode \in 1..Len(disk.inodes)
    <2> DEFINE i == Entries(k)[o].inode
               n == Len(disk.inodes)
    <2>1. i \in 0..n /\ i # 0 /\ n \in Nat
      BY <1>1, <1>3 DEF IsEntry
    <2> HIDE DEF i, n
    <2>2. i \in 1..n
      BY <2>1
    <2> QED  BY <2>2 DEF i, n
  <1>5. EntryAt(<<k, o>>) = Entries(k)[o]
    BY DEF EntryAt, Entries
  <1> QED  BY <1>2, <1>3, <1>4, <1>5, SizesAreNatural

\* All that is in front of the next position is what was and what is here.
Moved(passed) ==
  \A p \in Visible : Before(p, here') <=> Before(p, here) \/ p \in passed

LEMMA Compare ==
  ASSUME NEW k, NEW o, NEW l, NEW m
  PROVE  Before(<<k, o>>, <<l, m>>) <=> k < l \/ (k = l /\ o < m)
  BY DEF Before

LEMMA PlaceIsInt ==
  ASSUME image \in Images, AtPlace
  PROVE  blk \in Nat /\ at \in Nat /\ BLOCK_SIZE \in Nat \ {0} /\ DIRECT \in Nat \ {0}
  BY SizesAreNatural DEF AtPlace

(* A block that is a hole or has been walked through.                      *)
LEMMA OverBlock ==
  ASSUME image \in Images, AtPlace, NextBlock, image' = image, blk \in Direct,
         Root.i_block[blk] = 0 \/ at >= BLOCK_SIZE
  PROVE  AtPlace' /\ Moved({})
  <1>1. blk \in Nat /\ at \in Nat /\ blk < DIRECT /\ blk' = blk + 1 /\ at' = 0
        /\ BLOCK_SIZE \in Nat \ {0} /\ DIRECT \in Nat \ {0}
    BY PlaceIsInt DEF NextBlock, Direct
  <1>2. disk' = disk /\ Root' = Root
    BY DEF disk, Root
  <1>3. AtPlace'
    <2>1. blk' \in 0..DIRECT /\ at' \in 0..BLOCK_SIZE
      BY <1>1
    <2>2. \A k \in Direct : Root.i_block[k] # 0 => 0 \in DOMAIN disk.entries[Root.i_block[k]]
      BY DiskIsWellFormed DEF Tiled
    <2> QED  BY <1>1, <1>2, <2>1, <2>2 DEF AtPlace
  <1>4. ASSUME NEW k, NEW o, IsEntry(k, o)
        PROVE  Before(<<k, o>>, here') <=> Before(<<k, o>>, here)
    <2>1. k \in Nat /\ o \in Nat /\ o < BLOCK_SIZE
      BY <1>4, EntryIs
    <2>2. k = blk => o < at
      BY <1>1, <1>4, <2>1 DEF IsEntry
    <2>3. /\ Before(<<k, o>>, here) <=> k < blk \/ (k = blk /\ o < at)
          /\ Before(<<k, o>>, here') <=> k < blk + 1 \/ (k = blk + 1 /\ o < 0)
      BY <1>1, Compare DEF here
    <2> QED  BY <1>1, <2>1, <2>2, <2>3
  <1>5. \A p \in Visible : Before(p, here') <=> Before(p, here)
    BY <1>4, VisibleIs
  <1> QED  BY <1>3, <1>5 DEF Moved

(* The next entry of the block, or the next block.                         *)
LEMMA OverEntry ==
  ASSUME image \in Images, AtPlace, NextEntry, image' = image,
         blk \in Direct, Root.i_block[blk] # 0, at < BLOCK_SIZE, dir = Root
  PROVE  /\ at \in DOMAIN Entries(blk) /\ Entry = Entries(blk)[at]
         /\ AtPlace' /\ Moved({here})
  <1>1. blk \in Nat /\ at \in Nat /\ blk < DIRECT
        /\ BLOCK_SIZE \in Nat \ {0} /\ DIRECT \in Nat \ {0}
    BY PlaceIsInt DEF Direct
  <1>2. disk' = disk /\ Root' = Root
    BY DEF disk, Root
  <1>3. at \in DOMAIN Entries(blk)
    BY <1>1 DEF AtPlace, Entries
  <1>4. Entry = Entries(blk)[at]
    BY DEF Entry, Entries
  <1> DEFINE len == Entries(blk)[at].rec_len
  <1>5. /\ len \in Nat /\ at + len \in DOMAIN Entries(blk) \cup {BLOCK_SIZE}
        /\ \A y \in DOMAIN Entries(blk) : y > at => len # 0 /\ y >= at + len
        /\ DOMAIN Entries(blk) \subseteq 0..BLOCK_SIZE-1
    BY <1>3, DiskIsWellFormed DEF Tiled, Entries
  <1>6. \/ len = 0 /\ blk' = blk + 1 /\ at' = 0
        \/ len # 0 /\ blk' = blk /\ at' = at + len
    BY <1>4 DEF NextEntry, NextBlock
  <1> HIDE DEF len
  <1>7. AtPlace'
    <2>1. CASE len = 0
      <3>1. blk' \in 0..DIRECT /\ at' \in 0..BLOCK_SIZE
        BY <1>1, <1>6, <2>1
      <3>2. \A k \in Direct : Root.i_block[k] # 0 => 0 \in DOMAIN disk.entries[Root.i_block[k]]
        BY DiskIsWellFormed DEF Tiled
      <3> QED  BY <1>2, <1>6, <2>1, <3>1, <3>2 DEF AtPlace
    <2>2. CASE len # 0
      <3>1. blk' = blk /\ at' = at + len
        BY <1>6, <2>2
      <3>2. at' \in DOMAIN Entries(blk) \cup {BLOCK_SIZE}
        BY <1>5, <3>1
      <3>3. at' \in 0..BLOCK_SIZE
        BY <1>1, <1>5, <3>2
      <3> QED  BY <1>2, <3>1, <3>2, <3>3 DEF AtPlace, Entries
    <2> QED  BY <2>1, <2>2
  <1>8. ASSUME NEW k, NEW o, IsEntry(k, o)
        PROVE  Before(<<k, o>>, here') <=> Before(<<k, o>>, here) \/ <<k, o>> \in {here}
    <2>1. k \in Nat /\ o \in Nat /\ o < BLOCK_SIZE
      BY <1>8, EntryIs
    <2>2. k = blk => o \in DOMAIN Entries(blk)
      BY <1>8 DEF IsEntry
    <2>3. k = blk /\ o > at => len # 0 /\ o >= at + len
      BY <1>5, <2>2
    <2>4. /\ Before(<<k, o>>, here) <=> k < blk \/ (k = blk /\ o < at)
          /\ <<k, o>> \in {here} <=> k = blk /\ o = at
      BY Compare DEF here
    <2>5. CASE len = 0
      <3>1. Before(<<k, o>>, here') <=> k < blk + 1 \/ (k = blk + 1 /\ o < 0)
        BY <1>6, <2>5, Compare DEF here
      <3> QED  BY ONLY <1>1, <2>1, <2>3, <2>4, <2>5, <3>1
    <2>6. CASE len # 0
      <3>1. Before(<<k, o>>, here') <=> k < blk \/ (k = blk /\ o < at + len)
        BY <1>6, <2>6, Compare DEF here
      <3> QED  BY ONLY <1>1, <1>5, <2>1, <2>3, <2>4, <2>6, <3>1
    <2> QED  BY <2>5, <2>6
  <1>9. \A p \in Visible : Before(p, here') <=> Before(p, here) \/ p \in {here}
    BY <1>8, VisibleIs
  <1> QED  BY <1>3, <1>4, <1>7, <1>9 DEF Moved

(* When the walk is through, all entries are in front of it.               *)
LEMMA AllPassed ==
  ASSUME image \in Images, AtPlace, ~ (blk < DIRECT /\ blk < Count)
  PROVE  \A p \in Visible : Before(p, here)
  <1>1. ASSUME NEW k, NEW o, IsEntry(k, o)
        PROVE  Before(<<k, o>>, here)
    <2>1. Count \in Int
      <3>1. Root.i_blocks \in Nat
        BY DiskIsWellFormed DEF Inode
      <3>2. Root.i_blocks \div (BLOCK_SIZE \div UNIT) \in Nat
        BY <3>1, LoaderSizes, DivMod
      <3> QED  BY <3>2 DEF Count
    <2>2. k \in Nat /\ o \in Nat /\ k < DIRECT /\ k < Count
      BY <1>1, EntryIs DEF IsEntry
    <2>3. k < blk
      BY <2>1, <2>2, PlaceIsInt
    <2> QED  BY <2>3, Compare DEF here
  <1> QED  BY <1>1, VisibleIs

\* Both walks begin at the first entry.
LEMMA FirstPlace ==
  ASSUME image \in Images, image' = image, blk' = 0, at' = 0
  PROVE  AtPlace' /\ \A p \in Visible : ~ Before(p, here')
  <1>1. disk' = disk /\ Root' = Root
    BY DEF disk, Root
  <1>2. \A k \in Direct : Root.i_block[k] # 0 => 0 \in DOMAIN disk.entries[Root.i_block[k]]
    BY DiskIsWellFormed DEF Tiled
  <1>3. AtPlace'
    BY <1>1, <1>2, SizesAreNatural DEF AtPlace
  <1>4. ASSUME NEW k, NEW o, IsEntry(k, o)
        PROVE  ~ Before(<<k, o>>, here')
    <2>1. k \in Nat /\ o \in Nat
      BY <1>4, EntryIs
    <2>2. Before(<<k, o>>, here') <=> k < 0 \/ (k = 0 /\ o < 0)
      BY Compare DEF here
    <2> QED  BY <2>1, <2>2
  <1> QED  BY <1>3, <1>4, VisibleIs

(* print_dir_cb goes on with the list.                                     *)
LEMMA ListGrows ==
  ASSUME image \in Images, NEW S, Listed(S), \A p \in S : Before(p, here), here \in Visible,
         listed' = Append(listed, here)
  PROVE  /\ listed' \in Seq(Direct \X Nat)
         /\ {listed'[i] : i \in 1..Len(listed')} = S \cup {here}
         /\ \A i \in 1..Len(listed')-1 : Before(listed'[i], listed'[i + 1])
  <1> DEFINE n == Len(listed)
  <1>1. listed \in Seq(Direct \X Nat) /\ n \in Nat
        /\ {listed[i] : i \in 1..n} = S
        /\ \A i \in 1..n-1 : Before(listed[i], listed[i + 1])
    <2>1. /\ listed \in Seq(Direct \X Nat) /\ {listed[i] : i \in 1..Len(listed)} = S
          /\ \A i \in 1..Len(listed)-1 : Before(listed[i], listed[i + 1])
      BY Zenon DEF Listed
    <2>2. Len(listed) \in Nat
      BY <2>1
    <2> QED  BY <2>1, <2>2, Zenon
  <1>2. here \in Direct \X Nat
    <2>1. PICK k, o : here = <<k, o>> /\ IsEntry(k, o)
      BY VisibleIs
    <2> QED  BY <2>1, EntryIs DEF IsEntry
  <1>3. /\ listed' \in Seq(Direct \X Nat) /\ Len(listed') = n + 1 /\ listed'[n + 1] = here
        /\ \A i \in 1..n : listed'[i] = listed[i]
    BY <1>1, <1>2
  <1>4. 1..(n + 1) = (1..n) \cup {n + 1}
    BY <1>1
  <1> HIDE DEF n
  <1>5. ASSUME NEW p
        PROVE  (\E i \in 1..Len(listed') : p = listed'[i]) <=> p = here \/ \E i \in 1..n : p = listed[i]
    <2>1. n + 1 \in 1..(n + 1) /\ 1..n \subseteq 1..(n + 1)
      BY <1>1
    <2> QED  BY <1>3, <1>4, <2>1
  <1>6. ASSUME NEW i \in 1..Len(listed')-1
        PROVE  Before(listed'[i], listed'[i + 1])
    <2>1. i \in 1..n
      BY <1>1, <1>3
    <2>2. CASE i = n
      <3>1. listed[n] \in S
        BY <1>1, <2>1, <2>2
      <3> QED  BY <1>3, <2>1, <2>2, <3>1
    <2>3. CASE i # n
      <3>1. i \in 1..n-1 /\ i + 1 \in 1..n
        BY <1>1, <2>1, <2>3
      <3> QED  BY <1>1, <1>3, <3>1, <2>1
    <2> QED  BY <2>2, <2>3
  <1>7. {listed'[i] : i \in 1..Len(listed')} = S \cup {here}
    BY <1>1, <1>5
  <1> QED  BY <1>3, <1>6, <1>7
-----------------------------------------------------------------------------
(* The image stays the same, and with it what it holds.                    *)
LEMMA SameImage ==
  ASSUME image' = image
  PROVE  /\ disk' = disk /\ Root' = Root /\ Visible' = Visible /\ Groups' = Groups
         /\ \A p : EntryAt(p)' = EntryAt(p) /\ (IsProgram(p)' <=> IsProgram(p))
         /\ \A g : TableAt(DescriptorBlock, g)' = TableAt(DescriptorBlock, g)
  <1>1. disk' = disk
    BY DEF disk
  <1>2. Root' = Root /\ Count' = Count /\ Live' = Live /\ Groups' = Groups
    BY <1>1 DEF Root, Count, Live, Groups
  <1>3. \A p : EntryAt(p)' = EntryAt(p)
    BY <1>1, <1>2 DEF EntryAt
  <1>4. \A g : TableAt(DescriptorBlock, g)' = TableAt(DescriptorBlock, g)
    BY <1>1 DEF TableAt, DescriptorBlock
  <1> QED  BY <1>1, <1>2, <1>3, <1>4 DEF Visible, IsProgram

LEMMA ImageStays ==
  ASSUME [LNext]_lvars
  PROVE  image' = image
  BY DEF LNext, lvars, MountFails, Mount, DivideError, NoProcess, OpenRoot, SkipHole, EndOfBlock, List, Pass,
         Found, EndOfDir, NotFound, OpenProgram, Load, Loaded, OtherCaller

LEMMA ListedStays ==
  ASSUME NEW S, Listed(S), listed' = listed
  PROVE  Listed(S)'
  BY DEF Listed

LEMMA SearchStays ==
  ASSUME SearchDone, image' = image, found' = found
  PROVE  SearchDone'
  BY SameImage DEF SearchDone

LEMMA FoundIsInode ==
  ASSUME image \in Images, SearchDone, found # 0
  PROVE  found \in 1..Len(disk.inodes)
  <1>1. PICK p \in Visible : found = EntryAt(p).inode
    BY DEF SearchDone
  <1>2. PICK k, o : p = <<k, o>> /\ IsEntry(k, o)
    BY <1>1, VisibleIs
  <1> QED  BY <1>1, <1>2, EntryIs

\* The inode that um_setup_env passes to ext2_read_file.
LEMMA ProgramInode ==
  ASSUME LInv, pc = "open", found # 0
  PROVE  /\ InodeAt(InodeAddr(found)) = disk.inodes[found]
         /\ disk.inodes[found] \in Inodes
  <1>1. image \in Images /\ disk.blocks_per_group # 0 /\ disk.inodes_per_group # 0 /\ SearchDone
        /\ bgdt = [g \in 0..Groups-1 |-> TableAt(DescriptorBlock, g)]
    BY DEF LInv, LTypeOK, MountInv, WalkInv, Mounted, Searched
  <1>2. found \in 1..Len(disk.inodes)
    BY <1>1, FoundIsInode
  <1> QED  BY <1>1, <1>2, InodeIsFound, DiskIsWellFormed

(* All steps are calls and iterations of ext2_read_file, or leave its      *)
(* variables alone.                                                        *)
LEMMA ReadKeeps ==
  ASSUME LInv, [LNext]_lvars
  PROVE  FInv'
  <1>1. FInv
    BY DEF LInv
  <1>2. CASE OpenProgram
    <2> DEFINE program == InodeAt(InodeAddr(found))
    <2>1. pc = "open" /\ found # 0 /\ Call(program, USER_CODE_BASE, program.i_size_lo, 0)
      BY <1>2 DEF OpenProgram
    <2>2. program \in Inodes
      BY <2>1, ProgramInode
    <2> HIDE DEF program
    <2>3. program \in Inode /\ program.i_size_lo \in Nat
      BY <2>2, Ext2FileAssumption, InodeFields
    <2>4. USER_CODE_BASE \in OutBufs /\ 0 \in Nat
      BY LoaderAssumption
    <2> QED  BY <1>1, <2>1, <2>2, <2>3, <2>4, CallKeeps
  <1>3. CASE Load
    BY <1>1, <1>3, FillHoleKeeps, CopyBlockKeeps, ReturnKeeps DEF Load, ReadFileStep
  <1>4. CASE OtherCaller
    <2>1. PICK i \in Inodes, out \in OutBufs, n \in Lens, off \in Offsets : Call(i, out, n, off)
      BY <1>4 DEF OtherCaller
    <2>2. i \in Inode /\ n \in Nat /\ off \in Nat
      BY Ext2FileAssumption
    <2> QED  BY <1>1, <2>1, <2>2, CallKeeps
  <1>5. CASE UNCHANGED fvars
    BY <1>1, <1>5, StutterKeeps
  <1>6. CASE UNCHANGED lvars
    BY <1>5, <1>6 DEF lvars
  <1>7. CASE \/ MountFails \/ Mount \/ DivideError \/ NoProcess \/ OpenRoot
             \/ SkipHole \/ EndOfBlock \/ List \/ Pass \/ Found \/ EndOfDir \/ NotFound \/ Loaded
    BY <1>5, <1>7 DEF MountFails, Mount, DivideError, NoProcess, OpenRoot, SkipHole, EndOfBlock, List, Pass,
                      Found, EndOfDir, NotFound, Loaded
  <1> QED  BY <1>2, <1>3, <1>4, <1>6, <1>7 DEF LNext
-----------------------------------------------------------------------------
(* Every step keeps the rest of the invariant.                             *)
Preparing == MountFails \/ Mount \/ DivideError \/ NoProcess

LEMMA PreparingKeeps ==
  ASSUME LInv, FInv', Preparing, image' = image
  PROVE  LInv'
  <1>1. UNCHANGED <<fvars, image, dir, walk>>
        /\ \/ pc' \in {"unmounted", "fault"} /\ bgdt' = bgdt /\ reported' = reported
           \/ /\ pc = "mount" /\ pc' = "setup" /\ reported' = reported
              /\ disk.magic /\ disk.blocks_per_group # 0
              /\ bgdt' = [g \in 0..Groups-1 |-> TableAt(DescriptorBlock, g)]
           \/ pc = "setup" /\ pc' = "switch" /\ bgdt' = bgdt /\ reported' = "no process"
    BY DEF Preparing, MountFails, Mount, DivideError, NoProcess
  <1>2. blk' = blk /\ at' = at /\ listed' = listed /\ found' = found /\ dir' = dir
    BY <1>1 DEF walk
  <1>3. \A g : TableAt(DescriptorBlock, g) \in Nat \/ ~ (g \in Nat)
    <2>1. disk.tables \in Seq(Nat)
      BY DiskIsWellFormed DEF LInv, LTypeOK
    <2>2. ASSUME NEW g \in Nat, g < Len(disk.tables) PROVE disk.tables[g + 1] \in Nat
      <3>1. Len(disk.tables) \in Nat /\ g + 1 \in 1..Len(disk.tables)
        BY <2>1, <2>2
      <3> QED  BY <2>1, <3>1
    <2> QED  BY <2>2 DEF TableAt
  <1>4. \A g \in DOMAIN bgdt' : bgdt'[g] \in Nat
    <2>1. CASE bgdt' = bgdt
      BY <2>1 DEF LInv, LTypeOK
    <2>2. CASE bgdt' = [g \in 0..Groups-1 |-> TableAt(DescriptorBlock, g)]
      <3>1. ASSUME NEW g \in 0..Groups-1 PROVE g \in Nat
        <4> HIDE DEF Groups
        <4> QED  BY <3>1
      <3> HIDE DEF TableAt, Groups
      <3> QED  BY <1>3, <2>2, <3>1
    <2> QED  BY <1>1, <2>1, <2>2
  <1>5. LTypeOK'
    BY <1>1, <1>2, <1>4 DEF LInv, LTypeOK, FInv
  <1>6. MountInv'
    BY <1>1, <1>2, SameImage DEF LInv, MountInv, Mounted
  <1>7. WalkInv' /\ LoadInv'
    BY <1>1, <1>2 DEF LInv, WalkInv, LoadInv, Searched
  <1> QED  BY <1>5, <1>6, <1>7 DEF LInv

LEMMA OpenRootKeeps ==
  ASSUME LInv, FInv', OpenRoot, image' = image
  PROVE  LInv'
  <1>1. /\ pc = "setup" /\ pc' = "list" /\ disk.inodes_per_group # 0
        /\ dir' = InodeAt(InodeAddr(2)) /\ bgdt' = bgdt /\ reported' = reported
        /\ blk' = blk /\ at' = at /\ listed' = listed /\ found' = found
    BY DEF OpenRoot, walk, EXT2_ROOT_INO
  <1>2. image \in Images /\ disk.magic /\ disk.blocks_per_group # 0
        /\ bgdt = [g \in 0..Groups-1 |-> TableAt(DescriptorBlock, g)]
        /\ blk = 0 /\ at = 0 /\ listed = <<>> /\ found = 0
    BY <1>1 DEF LInv, LTypeOK, MountInv, WalkInv, Mounted
  <1>3. 2 \in 1..Len(disk.inodes)
    <2>1. Len(disk.inodes) \in Nat /\ Len(disk.inodes) >= 2
      BY <1>2, DiskIsWellFormed
    <2> QED  BY <2>1
  <1>4. dir' = Root /\ Root \in Inode
    BY <1>1, <1>2, <1>3, InodeIsFound, DiskIsWellFormed DEF Root, EXT2_ROOT_INO
  <1>5. LTypeOK'
    BY <1>1, <1>2, <1>4 DEF LInv, LTypeOK, FInv
  <1>6. MountInv'
    BY <1>1, <1>2, <1>4, SameImage DEF MountInv, Mounted
  <1>7. AtPlace' /\ \A p \in Visible' : ~ Before(p, here')
    BY <1>1, <1>2, FirstPlace, SameImage
  <1>8. Listed({p \in Visible : Before(p, here)})'
    <2>1. {p \in Visible' : Before(p, here')} = {}
      BY <1>7
    <2>2. listed' \in Seq(Direct \X Nat) /\ {listed'[i] : i \in 1..Len(listed')} = {} /\ Len(listed') = 0
      BY <1>1, <1>2
    <2> QED  BY <2>1, <2>2 DEF Listed
  <1>9. WalkInv'
    BY <1>1, <1>2, <1>7, <1>8 DEF WalkInv, Searched
  <1>10. LoadInv'
    BY <1>1 DEF LoadInv
  <1> QED  BY <1>5, <1>6, <1>9, <1>10 DEF LInv
-----------------------------------------------------------------------------
(* The walk through the directory.                                         *)
LEMMA Walking ==
  ASSUME LInv, pc \in {"list", "find"}
  PROVE  /\ image \in Images /\ AtPlace /\ dir = Root /\ blk_count = Count
         /\ InDir => blk \in Direct
  <1>1. image \in Images /\ AtPlace /\ dir = Root
    BY DEF LInv, LTypeOK, MountInv, WalkInv
  <1>2. blk_count = Count
    BY <1>1 DEF blk_count, Count
  <1>3. InDir => blk \in Direct
    BY <1>1, PlaceIsInt DEF InDir, Direct
  <1> QED  BY <1>1, <1>2, <1>3

\* The entry that is read is one of those that are visible, if it is live.
LEMMA EntryHere ==
  ASSUME LInv, pc \in {"list", "find"}, AtEntry, NextEntry, image' = image
  PROVE  /\ AtPlace' /\ Moved({here})
         /\ here \in Visible <=> Entry.inode # 0
         /\ here \in Visible => EntryAt(here) = Entry
  <1>1. image \in Images /\ AtPlace /\ dir = Root /\ blk_count = Count /\ blk \in Direct
        /\ blk < Count /\ Root.i_block[blk] # 0 /\ at < BLOCK_SIZE
    BY Walking DEF AtEntry, InDir
  <1>2. at \in DOMAIN Entries(blk) /\ Entry = Entries(blk)[at] /\ AtPlace' /\ Moved({here})
    BY <1>1, OverEntry
  <1>3. here \in Visible <=> IsEntry(blk, at)
    BY VisibleIs DEF here
  <1>4. IsEntry(blk, at) <=> Entry.inode # 0
    BY <1>1, <1>2 DEF IsEntry
  <1>5. EntryAt(here) = Entry
    BY <1>2 DEF EntryAt, Entries, here
  <1> QED  BY <1>2, <1>3, <1>4, <1>5

LEMMA ListIsUpToHere ==
  ASSUME image' = image, NEW S, listed' \in Seq(Direct \X Nat),
         {listed'[i] : i \in 1..Len(listed')} = S,
         \A i \in 1..Len(listed')-1 : Before(listed'[i], listed'[i + 1]),
         \A p : p \in S <=> p \in Visible /\ Before(p, here')
  PROVE  Listed({p \in Visible : Before(p, here)})'
  <1>1. S = {p \in Visible' : Before(p, here')}
    BY SameImage
  <1> QED  BY <1>1 DEF Listed, Before

\* What is left to show of a step of the walk.
LEMMA WalkGoesOn ==
  ASSUME LInv, FInv', image' = image, pc \in {"list", "find"}, pc' = pc, AtPlace',
         bgdt' = bgdt, dir' = dir, found' = found, reported' = reported,
         pc = "list" => Listed({p \in Visible : Before(p, here)})',
         pc = "find" => /\ listed' = listed
                        /\ \A p \in Visible : Before(p, here') => ~ IsProgram(p)
  PROVE  LInv'
  <1>1. listed' \in Seq(Direct \X Nat)
    BY DEF LInv, LTypeOK, Listed
  <1>2. LTypeOK'
    BY <1>1 DEF LInv, LTypeOK, FInv, AtPlace
  <1>3. MountInv'
    BY SameImage DEF LInv, MountInv, Mounted
  <1>4. pc = "find" => Listed(Visible)'
    BY SameImage DEF LInv, WalkInv, Listed
  <1>5. WalkInv'
    BY <1>4, SameImage DEF LInv, WalkInv, Searched
  <1>6. LoadInv'
    BY DEF LoadInv
  <1> QED  BY <1>2, <1>3, <1>5, <1>6 DEF LInv

LEMMA BlockPassedKeeps ==
  ASSUME LInv, FInv', SkipHole \/ EndOfBlock, image' = image
  PROVE  LInv'
  <1>1. pc \in {"list", "find"} /\ pc' = pc /\ InDir /\ NextBlock
        /\ (dir.i_block[blk] = 0 \/ at >= BLOCK_SIZE)
        /\ bgdt' = bgdt /\ dir' = dir /\ found' = found /\ reported' = reported /\ listed' = listed
    BY DEF SkipHole, EndOfBlock, InDir
  <1>2. AtPlace' /\ Moved({})
    BY <1>1, Walking, OverBlock
  <1>3. \A p \in Visible : Before(p, here') <=> Before(p, here)
    BY <1>2 DEF Moved
  <1>4. ASSUME pc = "list" PROVE Listed({p \in Visible : Before(p, here)})'
    <2> DEFINE S == {p \in Visible : Before(p, here)}
    <2>1. Listed(S)
      BY <1>4 DEF LInv, WalkInv
    <2>2. \A p : p \in S <=> p \in Visible /\ Before(p, here')
      BY <1>3
    <2> HIDE DEF S
    <2>3. /\ listed' \in Seq(Direct \X Nat) /\ {listed'[i] : i \in 1..Len(listed')} = S
          /\ \A i \in 1..Len(listed')-1 : Before(listed'[i], listed'[i + 1])
      BY <1>1, <2>1 DEF Listed
    <2> QED  BY <2>2, <2>3, ListIsUpToHere
  <1>5. pc = "find" => \A p \in Visible : Before(p, here') => ~ IsProgram(p)
    BY <1>3 DEF LInv, WalkInv
  <1> QED  BY <1>1, <1>2, <1>4, <1>5, WalkGoesOn

LEMMA ListKeeps ==
  ASSUME LInv, FInv', List, image' = image
  PROVE  LInv'
  <1> DEFINE S == {p \in Visible : Before(p, here)}
  <1>1. pc = "list" /\ pc' = pc /\ AtEntry /\ NextEntry
        /\ listed' = (IF Entry.inode # 0 THEN Append(listed, here) ELSE listed)
        /\ bgdt' = bgdt /\ dir' = dir /\ found' = found /\ reported' = reported
    BY DEF List, here
  <1>2. image \in Images /\ AtPlace' /\ Moved({here}) /\ (here \in Visible <=> Entry.inode # 0)
    BY <1>1, EntryHere, Walking
  <1>3. Listed(S) /\ \A p \in S : Before(p, here)
    BY <1>1 DEF LInv, WalkInv
  <1>4. \A p : p \in S \/ (p = here /\ here \in Visible) <=> p \in Visible /\ Before(p, here')
    BY <1>2 DEF Moved
  <1> HIDE DEF S
  <1>5. CASE Entry.inode # 0
    <2>1. /\ listed' \in Seq(Direct \X Nat)
          /\ {listed'[i] : i \in 1..Len(listed')} = S \cup {here}
          /\ \A i \in 1..Len(listed')-1 : Before(listed'[i], listed'[i + 1])
      BY <1>1, <1>2, <1>3, <1>5, ListGrows
    <2>2. \A p : p \in S \cup {here} <=> p \in Visible /\ Before(p, here')
      BY <1>2, <1>4, <1>5
    <2>3. Listed({p \in Visible : Before(p, here)})'
      BY <2>1, <2>2, ListIsUpToHere
    <2> QED  BY <1>1, <1>2, <2>3, WalkGoesOn
  <1>6. CASE Entry.inode = 0
    <2>1. /\ listed' \in Seq(Direct \X Nat) /\ {listed'[i] : i \in 1..Len(listed')} = S
          /\ \A i \in 1..Len(listed')-1 : Before(listed'[i], listed'[i + 1])
      BY <1>1, <1>3, <1>6 DEF Listed
    <2>2. \A p : p \in S <=> p \in Visible /\ Before(p, here')
      BY <1>2, <1>4, <1>6
    <2>3. Listed({p \in Visible : Before(p, here)})'
      BY <2>1, <2>2, ListIsUpToHere
    <2> QED  BY <1>1, <1>2, <2>3, WalkGoesOn
  <1> QED  BY <1>5, <1>6

LEMMA PassKeeps ==
  ASSUME LInv, FInv', Pass, image' = image
  PROVE  LInv'
  <1>1. pc = "find" /\ pc' = pc /\ AtEntry /\ NextEntry /\ ~ Matches /\ listed' = listed
        /\ bgdt' = bgdt /\ dir' = dir /\ found' = found /\ reported' = reported
    BY DEF Pass
  <1>2. AtPlace' /\ Moved({here}) /\ (here \in Visible <=> Entry.inode # 0)
        /\ (here \in Visible => EntryAt(here) = Entry)
    BY <1>1, EntryHere
  <1>3. here \in Visible => ~ IsProgram(here)
    BY <1>1, <1>2 DEF Matches, IsProgram
  <1>4. \A p \in Visible : Before(p, here) => ~ IsProgram(p)
    BY <1>1 DEF LInv, WalkInv
  <1>5. \A p \in Visible : Before(p, here') => ~ IsProgram(p)
    BY <1>2, <1>3, <1>4 DEF Moved
  <1> QED  BY <1>1, <1>2, <1>5, WalkGoesOn
(* find_file_callback has seen the name for the first time.                *)
LEMMA FoundKeeps ==
  ASSUME LInv, FInv', Found, image' = image
  PROVE  LInv'
  <1>1. /\ pc = "find" /\ pc' = "open" /\ AtEntry /\ Matches /\ found' = Entry.inode
        /\ bgdt' = bgdt /\ dir' = dir /\ reported' = reported
        /\ blk' = blk /\ at' = at /\ listed' = listed
    BY DEF Found
  <1>2. image \in Images /\ AtPlace /\ dir = Root /\ blk_count = Count /\ blk \in Direct
        /\ blk < Count /\ Root.i_block[blk] # 0 /\ at < BLOCK_SIZE
    BY <1>1, Walking DEF AtEntry, InDir
  <1>3. blk \in Nat /\ at \in Nat /\ at \in DOMAIN Entries(blk) /\ Entry = Entries(blk)[at]
    BY <1>2, PlaceIsInt DEF AtPlace, Entries, Entry
  <1>4. IsEntry(blk, at) /\ here \in Visible /\ EntryAt(here) = Entry /\ IsProgram(here)
    <2>1. IsEntry(blk, at)
      BY <1>1, <1>2, <1>3 DEF IsEntry, Matches
    <2>2. here \in Visible
      BY <2>1, VisibleIs DEF here
    <2>3. EntryAt(here) = Entry
      BY <1>2, <1>3, <2>1, EntryIs DEF here
    <2> QED  BY <1>1, <2>1, <2>2, <2>3 DEF IsProgram, Matches
  <1>5. found' \in Nat
    <2>1. Entries(blk)[at].inode \in 1..Len(disk.inodes)
      BY <1>2, <1>4, EntryIs
    <2>2. Len(disk.inodes) \in Nat
      BY <1>2, DiskIsWellFormed
    <2> QED  BY <1>1, <1>3, <2>1, <2>2
  <1>6. \A q \in Visible \ {here} : IsProgram(q) => Before(here, q)
    <2>1. SUFFICES ASSUME NEW k, NEW o, IsEntry(k, o), <<k, o>> # here, IsProgram(<<k, o>>)
                   PROVE  Before(here, <<k, o>>)
      BY VisibleIs
    <2>2. ~ Before(<<k, o>>, here)
      <3>1. <<k, o>> \in Visible
        BY <2>1, VisibleIs
      <3> QED  BY <1>1, <2>1, <3>1 DEF LInv, WalkInv
    <2>3. k \in Nat /\ o \in Nat
      BY <1>2, <2>1, EntryIs
    <2>4. k # blk \/ o # at
      BY <2>1 DEF here
    <2>5. ~ (k < blk \/ (k = blk /\ o < at))
      BY <2>2, Compare DEF here
    <2>6. blk < k \/ (blk = k /\ at < o)
      BY <1>3, <2>3, <2>4, <2>5
    <2> QED  BY <2>6, Compare DEF here
  <1>7. SearchDone'
    <2>1. \A p : EntryAt(p)' = EntryAt(p) /\ (IsProgram(p)' <=> IsProgram(p))
      BY SameImage
    <2> QED  BY <1>1, <1>4, <1>6, <2>1, SameImage DEF SearchDone
  <1>8. Listed(Visible)'
    BY <1>1, SameImage DEF LInv, WalkInv, Listed
  <1>9. LTypeOK'
    BY <1>1, <1>5 DEF LInv, LTypeOK, FInv
  <1>10. MountInv'
    BY <1>1, SameImage DEF LInv, MountInv, Mounted
  <1>11. WalkInv'
    BY <1>1, <1>7, <1>8 DEF WalkInv, Searched
  <1>12. LoadInv'
    BY <1>1 DEF LoadInv
  <1> QED  BY <1>9, <1>10, <1>11, <1>12 DEF LInv

(* The list is complete; or the name was not there.                        *)
LEMMA EndOfDirKeeps ==
  ASSUME LInv, FInv', EndOfDir, image' = image
  PROVE  LInv'
  <1>1. /\ pc \in {"list", "find"} /\ ~ InDir
        /\ pc' = (IF pc = "list" THEN "find" ELSE "open") /\ blk' = 0 /\ at' = 0
        /\ bgdt' = bgdt /\ dir' = dir /\ reported' = reported /\ listed' = listed /\ found' = found
    BY DEF EndOfDir
  <1>2. image \in Images /\ AtPlace /\ blk_count = Count
    BY <1>1, Walking
  <1>3. \A p \in Visible : Before(p, here)
    <2>1. ~ (blk < DIRECT /\ blk < Count)
      BY <1>1, <1>2 DEF InDir
    <2> QED  BY <1>2, <2>1, AllPassed
  <1>4. AtPlace' /\ \A p \in Visible : ~ Before(p, here')
    BY <1>1, <1>2, FirstPlace
  <1>5. Listed(Visible) /\ found = 0
    <2>1. {p \in Visible : Before(p, here)} = Visible
      BY <1>3
    <2> QED  BY <1>1, <2>1 DEF LInv, WalkInv
  <1>6. Listed(Visible)'
    BY <1>1, <1>5, SameImage DEF Listed
  <1>7. pc = "find" => SearchDone'
    <2>1. pc = "find" => \A p \in Visible : ~ IsProgram(p)
      BY <1>3 DEF LInv, WalkInv
    <2> QED  BY <1>1, <1>5, <2>1, SameImage DEF SearchDone
  <1>8. LTypeOK'
    BY <1>1, <1>4 DEF LInv, LTypeOK, FInv, AtPlace
  <1>9. MountInv'
    BY <1>1, SameImage DEF LInv, MountInv, Mounted
  <1>10. WalkInv'
    BY <1>1, <1>4, <1>5, <1>6, <1>7, SameImage DEF WalkInv, Searched
  <1>11. LoadInv'
    BY <1>1 DEF LoadInv
  <1> QED  BY <1>8, <1>9, <1>10, <1>11 DEF LInv
-----------------------------------------------------------------------------
(* The program is read, or another caller's file.                          *)
LEMMA NotFoundKeeps ==
  ASSUME LInv, FInv', NotFound, image' = image
  PROVE  LInv'
  <1>1. /\ pc = "open" /\ found = 0 /\ reported' = "not found" /\ pc' = "switch"
        /\ bgdt' = bgdt /\ dir' = dir /\ blk' = blk /\ at' = at /\ listed' = listed /\ found' = found
    BY DEF NotFound, walk
  <1>2. Listed(Visible) /\ SearchDone
    BY <1>1 DEF LInv, WalkInv, Searched
  <1>3. Listed(Visible)' /\ SearchDone'
    BY <1>1, <1>2, SearchStays, SameImage DEF Listed
  <1>4. LTypeOK'
    BY <1>1 DEF LInv, LTypeOK, FInv
  <1>5. MountInv'
    BY <1>1, SameImage DEF LInv, MountInv, Mounted
  <1>6. WalkInv' /\ LoadInv'
    BY <1>1, <1>3 DEF WalkInv, LoadInv
  <1> QED  BY <1>4, <1>5, <1>6 DEF LInv

LEMMA OpenProgramKeeps ==
  ASSUME LInv, FInv', OpenProgram, image' = image
  PROVE  LInv'
  <1> DEFINE program == InodeAt(InodeAddr(found))
  <1>1. /\ pc = "open" /\ found # 0 /\ pc' = "load" /\ Call(program, USER_CODE_BASE, program.i_size_lo, 0)
        /\ bgdt' = bgdt /\ dir' = dir /\ blk' = blk /\ at' = at /\ listed' = listed /\ found' = found
        /\ reported' = reported
    BY DEF OpenProgram, walk
  <1>2. program = disk.inodes[found]
    BY <1>1, ProgramInode
  <1> HIDE DEF program
  <1>3. Opened'
    BY <1>1, <1>2, SameImage DEF Opened, Call
  <1>4. Listed(Visible) /\ SearchDone
    BY <1>1 DEF LInv, WalkInv, Searched
  <1>5. Listed(Visible)' /\ SearchDone'
    BY <1>1, <1>4, SearchStays, SameImage DEF Listed
  <1>6. LTypeOK'
    BY <1>1 DEF LInv, LTypeOK, FInv
  <1>7. MountInv'
    BY <1>1, SameImage DEF LInv, MountInv, Mounted
  <1>8. WalkInv' /\ LoadInv'
    BY <1>1, <1>3, <1>5 DEF WalkInv, LoadInv
  <1> QED  BY <1>6, <1>7, <1>8 DEF LInv

LEMMA LoadKeeps ==
  ASSUME LInv, FInv', Load, image' = image
  PROVE  LInv'
  <1>1. /\ pc \in {"load", "other"} /\ pc' = pc
        /\ bgdt' = bgdt /\ dir' = dir /\ blk' = blk /\ at' = at /\ listed' = listed /\ found' = found
        /\ reported' = reported
        /\ inode' = inode /\ out_buf' = out_buf /\ asked' = asked /\ offset' = offset
    BY DEF Load, walk, ReadFileStep, FillHole, CopyBlock, ReadFileReturn, Proceed, args
  <1>2. pc = "load" => Opened'
    BY <1>1, SameImage DEF LInv, LoadInv, Opened
  <1>3. pc = "load" => Listed(Visible)' /\ SearchDone'
    <2>1. pc = "load" => Listed(Visible) /\ SearchDone
      BY DEF LInv, WalkInv, Searched
    <2> QED  BY <1>1, <2>1, SearchStays, SameImage DEF Listed
  <1>4. LTypeOK'
    BY <1>1 DEF LInv, LTypeOK, FInv
  <1>5. MountInv'
    BY <1>1, SameImage DEF LInv, MountInv, Mounted
  <1>6. WalkInv' /\ LoadInv'
    BY <1>1, <1>2, <1>3 DEF WalkInv, LoadInv, Searched
  <1> QED  BY <1>4, <1>5, <1>6 DEF LInv

LEMMA LoadedKeeps ==
  ASSUME LInv, FInv', Loaded, image' = image
  PROVE  LInv'
  <1>1. /\ pc = "load" /\ op = "done" /\ reported' = Outcome /\ pc' = "switch"
        /\ bgdt' = bgdt /\ dir' = dir /\ blk' = blk /\ at' = at /\ listed' = listed /\ found' = found
        /\ op' = op /\ inode' = inode /\ out_buf' = out_buf /\ asked' = asked /\ offset' = offset
        /\ bytes_read' = bytes_read
    BY DEF Loaded, walk, fvars, args
  <1>2. reported' \in {"loaded", "short"} /\ reported' = Outcome'
    BY <1>1 DEF Outcome
  <1>3. Opened'
    BY <1>1, SameImage DEF LInv, LoadInv, Opened
  <1>4. Listed(Visible) /\ SearchDone
    BY <1>1 DEF LInv, WalkInv, Searched
  <1>5. Listed(Visible)' /\ SearchDone'
    BY <1>1, <1>4, SearchStays, SameImage DEF Listed
  <1>6. LTypeOK'
    BY <1>1, <1>2 DEF LInv, LTypeOK, FInv
  <1>7. MountInv'
    BY <1>1, SameImage DEF LInv, MountInv, Mounted
  <1>8. WalkInv' /\ LoadInv'
    BY <1>1, <1>2, <1>3, <1>5 DEF WalkInv, LoadInv
  <1> QED  BY <1>6, <1>7, <1>8 DEF LInv

LEMMA OtherCallerKeeps ==
  ASSUME LInv, FInv', OtherCaller, image' = image
  PROVE  LInv'
  <1>1. /\ pc = "setup" /\ pc' = "other"
        /\ bgdt' = bgdt /\ dir' = dir /\ blk' = blk /\ at' = at /\ listed' = listed /\ found' = found
        /\ reported' = reported
    BY DEF OtherCaller, walk
  <1>2. LTypeOK'
    BY <1>1 DEF LInv, LTypeOK, FInv
  <1>3. MountInv'
    BY <1>1, SameImage DEF LInv, MountInv, Mounted
  <1>4. WalkInv' /\ LoadInv'
    BY <1>1 DEF WalkInv, LoadInv, Searched
  <1> QED  BY <1>2, <1>3, <1>4 DEF LInv

LEMMA LStutterKeeps ==
  ASSUME LInv, FInv', UNCHANGED lvars
  PROVE  LInv'
  <1>1. /\ pc' = pc /\ image' = image /\ bgdt' = bgdt /\ dir' = dir /\ blk' = blk /\ at' = at
        /\ listed' = listed /\ found' = found /\ reported' = reported
        /\ op' = op /\ inode' = inode /\ out_buf' = out_buf /\ asked' = asked /\ offset' = offset
        /\ bytes_read' = bytes_read
    BY DEF lvars, walk, fvars, args
  <1>2. LTypeOK'
    BY <1>1 DEF LInv, LTypeOK, FInv
  <1>3. MountInv'
    BY <1>1, SameImage DEF LInv, MountInv, Mounted
  <1>4. Opened' <=> Opened
    BY <1>1, SameImage DEF Opened
  <1>5. LoadInv'
    BY <1>1, <1>4 DEF LInv, LoadInv, Outcome
  <1>6. here' = here /\ (AtPlace' <=> AtPlace) /\ (SearchDone => SearchDone')
    BY <1>1, SearchStays, SameImage DEF here, AtPlace
  <1>7. {p \in Visible : Before(p, here)}' = {p \in Visible : Before(p, here)}
    <2>1. here' = here /\ Visible' = Visible
      BY <1>1, <1>6, SameImage
    <2>2. {p \in Visible' : Before(p, here')} = {p \in Visible : Before(p, here)}
      BY <2>1
    <2> QED  BY <2>2 DEF Before
  <1>8. Listed({p \in Visible : Before(p, here)})' <=> Listed({p \in Visible : Before(p, here)})
    BY <1>1, <1>7 DEF Listed
  <1>9. Listed(Visible)' <=> Listed(Visible)
    BY <1>1, SameImage DEF Listed
  <1>10. ASSUME pc = "find", NEW p \in Visible', Before(p, here')
         PROVE  ~ IsProgram(p)'
    <2>1. p \in Visible /\ Before(p, here) /\ (IsProgram(p)' <=> IsProgram(p))
      BY <1>1, <1>6, <1>10, SameImage
    <2> QED  BY <1>10, <2>1 DEF LInv, WalkInv
  <1>11. pc' = "find" => \A p \in Visible' : Before(p, here') => ~ IsProgram(p)'
    BY <1>1, <1>10
  <1>12. WalkInv'
    BY <1>1, <1>6, <1>8, <1>9, <1>11, SameImage DEF LInv, WalkInv, Searched
  <1> QED  BY <1>2, <1>3, <1>5, <1>12 DEF LInv
-----------------------------------------------------------------------------
(* The invariant of the way to the program (ext2.c and usermode.c:8-51).   *)
THEOREM LInitInv == LInit => LInv
  <1> SUFFICES ASSUME LInit PROVE LInv
    OBVIOUS
  <1>1. FInv
    BY FInitInv DEF LInit
  <1>2. NoFile \in Inode
    BY DEF NoFile, Inode
  <1>3. LTypeOK
    BY <1>1, <1>2, SizesAreNatural DEF LInit, LTypeOK, FInv
  <1>4. MountInv /\ WalkInv /\ LoadInv
    BY DEF LInit, MountInv, WalkInv, LoadInv, Mounted, Searched
  <1> QED  BY <1>1, <1>3, <1>4 DEF LInv

\* Every step of the boot and of a reader keeps it.
THEOREM LNextInv == LInv /\ [LNext]_lvars => LInv'
  <1> SUFFICES ASSUME LInv, [LNext]_lvars PROVE LInv'
    OBVIOUS
  <1>1. FInv' /\ image' = image
    BY ReadKeeps, ImageStays
  <1>2. CASE MountFails \/ Mount \/ DivideError \/ NoProcess
    BY <1>1, <1>2, PreparingKeeps DEF Preparing
  <1>3. CASE OpenRoot
    BY <1>1, <1>3, OpenRootKeeps
  <1>4. CASE SkipHole \/ EndOfBlock
    BY <1>1, <1>4, BlockPassedKeeps
  <1>5. CASE List
    BY <1>1, <1>5, ListKeeps
  <1>6. CASE Pass
    BY <1>1, <1>6, PassKeeps
  <1>7. CASE Found
    BY <1>1, <1>7, FoundKeeps
  <1>8. CASE EndOfDir
    BY <1>1, <1>8, EndOfDirKeeps
  <1>9. CASE NotFound
    BY <1>1, <1>9, NotFoundKeeps
  <1>10. CASE OpenProgram
    BY <1>1, <1>10, OpenProgramKeeps
  <1>11. CASE Load
    BY <1>1, <1>11, LoadKeeps
  <1>12. CASE Loaded
    BY <1>1, <1>12, LoadedKeeps
  <1>13. CASE OtherCaller
    BY <1>1, <1>13, OtherCallerKeeps
  <1>14. CASE UNCHANGED lvars
    BY <1>1, <1>14, LStutterKeeps
  <1> QED
    BY <1>2, <1>3, <1>4, <1>5, <1>6, <1>7, <1>8, <1>9, <1>10, <1>11, <1>12, <1>13, <1>14 DEF LNext

\* And so it holds always.
THEOREM LInvariance == LSpec => []LInv
  BY LInitInv, LNextInv, PTL DEF LSpec
(* Every variable keeps its type: the walk never leaves the pointers of    *)
(* the directory and its blocks (ext2.c:91-125).                           *)
THEOREM LoaderTyped == LSpec => []LTypeOK
  <1>1. LInv => LTypeOK
    BY DEF LInv
  <1> QED  BY <1>1, LInvariance, PTL

(* ext2_read_inode (ext2.c:67-89) finds every inode of every image, in     *)
(* whichever group it is.                                                  *)
THEOREM LoaderFindsInodes == LSpec => []InodesFound
  <1>1. LInv => InodesFound
    <2> SUFFICES ASSUME LInv, Mounted, disk.inodes_per_group # 0, NEW n \in 1..Len(disk.inodes)
                 PROVE  InodeAt(InodeAddr(n)) = disk.inodes[n]
      BY DEF InodesFound
    <2>1. image \in Images /\ disk.blocks_per_group # 0
          /\ bgdt = [g \in 0..Groups-1 |-> TableAt(DescriptorBlock, g)]
      BY DEF LInv, LTypeOK, MountInv
    <2> QED  BY <2>1, InodeIsFound
  <1> QED  BY <1>1, LInvariance, PTL

\* If no block is behind a hole, the walk sees the whole directory.
LEMMA AllIsVisible ==
  ASSUME NoHoles
  PROVE  Visible = Live
  <1>1. ASSUME NEW p \in Live PROVE p[1] < Count
    <2>1. PICK k \in Direct : Root.i_block[k] # 0
            /\ \E o \in DOMAIN Entries(k) : p = <<k, o>>
      BY <1>1 DEF Live, Entries
    <2> QED  BY <2>1 DEF NoHoles, Count
  <1> QED  BY <1>1 DEF Visible

\* Of two entries not both are in front of the other.
LEMMA BeforeIsStrict ==
  ASSUME image \in Images, NEW p \in Visible, NEW q \in Visible, Before(p, q), Before(q, p)
  PROVE  FALSE
  <1>1. PICK k, o : p = <<k, o>> /\ IsEntry(k, o)
    BY VisibleIs
  <1>2. PICK l, m : q = <<l, m>> /\ IsEntry(l, m)
    BY VisibleIs
  <1>3. k \in Nat /\ o \in Nat /\ l \in Nat /\ m \in Nat
    BY <1>1, <1>2, EntryIs
  <1>4. (k < l \/ (k = l /\ o < m)) /\ (l < k \/ (l = k /\ m < o))
    BY <1>1, <1>2, Compare
  <1> QED  BY <1>3, <1>4

First == CHOOSE p \in Named : \A q \in Named \ {p} : Before(p, q)

LEMMA TargetIs ==
  Target = IF Named = {} THEN 0 ELSE EntryAt(First).inode
  BY DEF Target, First

\* The search has the number of the first entry with the name.
LEMMA FoundIsTarget ==
  ASSUME image \in Images, SearchDone, NoHoles
  PROVE  found = Target
  <1>1. Visible = Live
    BY AllIsVisible
  <1>2. Named = {p \in Visible : IsProgram(p)}
    BY <1>1 DEF Named, IsProgram
  <1>3. CASE found = 0 /\ \A p \in Visible : ~ IsProgram(p)
    <2>1. Named = {}
      BY <1>2, <1>3
    <2> QED  BY <1>3, <2>1, TargetIs
  <1>4. ASSUME NEW p \in Visible, IsProgram(p), found = EntryAt(p).inode,
               \A q \in Visible \ {p} : IsProgram(q) => Before(p, q)
        PROVE  found = Target
    <2>1. p \in Named /\ \A q \in Named \ {p} : Before(p, q)
      BY <1>2, <1>4
    <2>2. \A r \in Named : (\A q \in Named \ {r} : Before(r, q)) => r = p
      <3>1. SUFFICES ASSUME NEW r \in Named, \A q \in Named \ {r} : Before(r, q), r # p
                     PROVE  FALSE
        OBVIOUS
      <3>2. Before(r, p) /\ Before(p, r)
        BY <2>1, <3>1
      <3>3. r \in Visible
        BY <1>2
      <3> QED  BY <3>2, <3>3, <1>4, BeforeIsStrict
    <2>3. First = p
      BY <2>1, <2>2 DEF First
    <2> QED  BY <1>4, <2>1, <2>3, TargetIs
  <1> QED  BY <1>3, <1>4 DEF SearchDone

(* ext2_read_dir (ext2.c:91-125) calls the callback with every live entry  *)
(* once and in order, and the search with find_file_callback gives the     *)
(* first one with the name.                                                *)
THEOREM DirectoryIsWalked == LSpec => []DirectoryIsRead
  <1>1. LInv => DirectoryIsRead
    <2> SUFFICES ASSUME LInv, Searched, NoHoles
                 PROVE  /\ {listed[i] : i \in 1..Len(listed)} = Live
                        /\ \A i \in 1..Len(listed)-1 : Before(listed[i], listed[i + 1])
                        /\ found = Target
      BY DEF DirectoryIsRead
    <2>1. image \in Images /\ Listed(Visible) /\ SearchDone
      BY DEF LInv, LTypeOK, WalkInv
    <2> QED  BY <2>1, AllIsVisible, FoundIsTarget DEF Listed
  <1> QED  BY <1>1, LInvariance, PTL

\* A file that the direct blocks can hold is read as a whole.
LEMMA WholeFile ==
  ASSUME FInv, op = "done", Opened, inode.i_size_lo <= DIRECT * BLOCK_SIZE
  PROVE  bytes_read = inode.i_size_lo
  <1> DEFINE size == inode.i_size_lo
             all == DIRECT * BLOCK_SIZE
  <1>1. size \in Nat /\ all \in Nat /\ size <= all
    BY InodeFields, Monotone, SizesAreNatural DEF FInv, FTypeOK
  <1>2. all + BLOCK_SIZE < WORD
    <2>1. (DIRECT + 1) * BLOCK_SIZE = all + BLOCK_SIZE
      BY SizesAreNatural
    <2> QED  BY <2>1, Ext2FileAssumption
  <1>3. offset = 0 /\ asked = size /\ out_buf # NULL
    BY LoaderAssumption DEF Opened
  <1>4. Deliverable = (IF 0 < Lesser(Lesser(0 + size, size), all)
                         THEN Lesser(Lesser(0 + size, size), all) - 0 ELSE 0)
    BY <1>3 DEF Deliverable
  <1>5. NoWrap <=> 0 + size < WORD /\ size + BLOCK_SIZE <= WORD
    BY <1>3 DEF NoWrap
  <1>6. bytes_read \in Nat /\ (NoWrap => bytes_read = Deliverable)
    BY DEF FInv, FTypeOK, ReadsEnough
  <1> HIDE DEF size, all
  <1>7. bytes_read = size
    BY <1>1, <1>2, <1>4, <1>5, <1>6, SizesAreNatural DEF Lesser
  <1> QED  BY <1>7 DEF size

(* um_setup_env (usermode.c:25-40), on an image whose directories have no  *)
(* holes: it is right in what it complains of, and if it does not complain *)
(* the program lies at USER_CODE_BASE, provided that the load wraps no sum *)
(* and overwrites no block it still has to read.                           *)
THEOREM ReportsAreTrue == LSpec => []ReportIsTrue
  <1>1. LInv => ReportIsTrue
    <2> SUFFICES ASSUME LInv, pc = "switch", NoHoles, reported # "no process"
                 PROVE  /\ reported = "not found" <=> Target = 0
                        /\ reported = "short" => disk.inodes[Target].i_size_lo > DIRECT * BLOCK_SIZE
                        /\ reported = "loaded" /\ NoWrap /\ Apart =>
                             /\ inode = disk.inodes[Target] /\ inode.i_size_lo <= DIRECT * BLOCK_SIZE
                             /\ \A k \in 0..inode.i_size_lo-1 : mem[USER_CODE_BASE + k] = FileByte(k)
      BY DEF ReportIsTrue
    <2>1. image \in Images /\ SearchDone /\ FInv
      BY DEF LInv, LTypeOK, WalkInv, Searched
    <2>2. found = Target
      BY <2>1, FoundIsTarget
    <2>3. CASE reported = "not found" /\ found = 0
      BY <2>2, <2>3
    <2>4. CASE op = "done" /\ Opened /\ reported = Outcome
      <3> DEFINE size == inode.i_size_lo
                 all == DIRECT * BLOCK_SIZE
      <3>1. found # 0 /\ inode = disk.inodes[found] /\ out_buf = USER_CODE_BASE /\ offset = 0
        BY <2>4 DEF Opened
      <3>2. reported \in {"loaded", "short"} /\ (reported = "loaded" <=> bytes_read = size)
        BY <2>4 DEF Outcome
      <3>3. size \in Nat /\ all \in Nat
        <4>1. inode \in Inode
          BY <2>1 DEF FInv, FTypeOK
        <4>2. size \in Nat
          BY <4>1, InodeFields
        <4>3. all \in Nat
          BY ONLY ProductIsNat, SizesAreNatural
        <4> QED  BY <4>2, <4>3
      <3>4. ASSUME reported = "short" PROVE size > all
        <4>1. ~ (size <= all)
          BY <2>1, <2>4, <3>2, <3>4, WholeFile
        <4> HIDE DEF size, all
        <4> QED  BY ONLY <3>3, <4>1
      <3>5. ASSUME reported = "loaded", NoWrap, Apart
            PROVE  size <= all /\ \A k \in 0..size-1 : mem[USER_CODE_BASE + k] = FileByte(k)
        <4>1. bytes_read = size /\ bytes_read = Deliverable
              /\ \A k \in 0..bytes_read-1 : mem[out_buf + k] = FileByte(offset + k)
          BY <2>1, <2>4, <3>2, <3>5 DEF FInv, ReadsTheFile
        <4>2. Deliverable <= all
          <5>1. Deliverable = (LET end == Lesser(Lesser(0 + asked, size), all) IN
                               IF out_buf # NULL /\ 0 < end THEN end - 0 ELSE 0)
            BY <3>1 DEF Deliverable
          <5>2. asked \in Nat
            BY <2>1 DEF FInv, FTypeOK
          <5> HIDE DEF size, all
          <5> QED  BY ONLY <3>3, <5>1, <5>2 DEF Lesser
        <4>3. ASSUME NEW k \in 0..size-1 PROVE mem[USER_CODE_BASE + k] = FileByte(k)
          <5>1. mem[USER_CODE_BASE + k] = FileByte(0 + k)
            BY <3>1, <4>1
          <5>2. 0 + k = k
            <6> HIDE DEF size
            <6> QED  BY ONLY <3>3, <4>3
          <5> QED  BY <5>1, <5>2
        <4> QED  BY <4>1, <4>2, <4>3
      <3> QED  BY <2>2, <3>1, <3>2, <3>4, <3>5
    <2> QED  BY <2>3, <2>4 DEF LInv, LoadInv
  <1> QED  BY <1>1, LInvariance, PTL

(* What the calls of a booting kernel read is the file, too, where no sum  *)
(* wraps and no block of the file lies in the buffer.                      *)
THEOREM LoaderReadsTheFile == LSpec => []ReadsTheFile
  <1>1. LInv => ReadsTheFile
    BY DEF LInv, FInv
  <1> QED  BY <1>1, LInvariance, PTL

(* And nothing of the way to the program stores outside of the buffer that *)
(* is filled, where no sum wraps.                                          *)
THEOREM LoaderStaysInBuffer == LSpec => StaysInBuffer
  <1> DEFINE Keeps == mem' # mem /\ NoWrap =>
                        \A a \in Addrs \ (out_buf..out_buf+Deliverable-1) : mem'[a] = mem[a]
  <1>1. LInv /\ [LNext]_lvars => [Keeps]_fvars
    <2> SUFFICES ASSUME LInv, [LNext]_lvars, mem' # mem, NoWrap
                 PROVE  \A a \in Addrs \ (out_buf..out_buf+Deliverable-1) : mem'[a] = mem[a]
      OBVIOUS
    <2>1. FillHole \/ CopyBlock
      BY DEF LNext, lvars, fvars, MountFails, Mount, DivideError, NoProcess, OpenRoot, SkipHole, EndOfBlock,
             List, Pass, Found, EndOfDir, NotFound, OpenProgram, Load, Loaded, OtherCaller, Call, ReadFileStep,
             ReadFileReturn
    <2>2. op = "read" /\ More /\ FInv
      BY <2>1 DEF FillHole, CopyBlock, LInv
    <2>3. FTypeOK /\ Started /\ Progress
      BY <2>2 DEF FInv
    <2>4. Outside
      BY <2>1, <2>2, <2>3, HoleDelivers, CopyOutside
    <2> QED  BY <2>2, <2>3, <2>4, DestInBuffer DEF Outside
  <1>2. LSpec => [][Keeps]_fvars
    BY <1>1, LInvariance, PTL DEF LSpec
  <1> QED  BY <1>2 DEF StaysInBuffer
=============================================================================
