------------------------------ MODULE MCLoader ------------------------------
(* Instance of Loader for TLC.  Blocks of 4 bytes: the superblock is number *)
(* 1, the descriptors 2, the inode tables 3-4 and 5-6, the directory 7 and  *)
(* 8, files from 9 on; the program is loaded over blocks 11 to 13.          *)
EXTENDS Loader, TLC
CONSTANT Other

MCByte == 0..59
MCContents == {[a \in Addrs |-> (a % 59) + 1]}

File(size, blocks, p) ==
  [i_size_lo |-> size, i_blocks |-> 2 * blocks, i_block |-> [k \in 0..2 |-> p[k + 1]]]
None == File(0, 0, <<0, 0, 0>>)
Dirs == <<File(8, 2, <<7, 8, 0>>), File(4, 1, <<7, 0, 0>>),
          File(4, 3, <<7, 0, 8>>), File(4, 1, <<7, 0, 8>>)>>
Sizes == <<0, 1, 4, 7, 12, 14>>
Blocks == <<0, 9, 11, 12>>
FileNo(n) ==
  File(Sizes[(n % 6) + 1], 3, <<Blocks[((n \div 6) % 4) + 1], Blocks[((n \div 24) % 4) + 1], 10 * (n \div 96)>>)
MCInodes == {FileNo(n) : n \in 0..191} \cup {Dirs[d] : d \in 1..4}
              \cup {None, File(7, 3, <<9, 10, 0>>), File(5, 3, <<10, 9, 0>>)}

E(n, len, name) == [inode |-> n, rec_len |-> len, name |-> name]
Ids == <<<<0, Program>>, <<3, Program>>, <<5, Program>>, <<4, Other>>>>
Id(n, len) == E(Ids[(n % 4) + 1][1], len, Ids[(n % 4) + 1][2])
\* One entry, two, or one and the rest of the block blank.
DirBlock(n) ==
  CASE n < 4  -> 0 :> Id(n, 4)
    [] n < 20 -> (0 :> Id(n, 1)) @@ (1 :> Id(n \div 4, 3))
    [] OTHER  -> (0 :> Id(n, 2)) @@ (2 :> E(0, 0, Other))

MakeImage(blocks, tables, inodes, b7, b8) ==
  [magic |-> TRUE, blocks |-> blocks, blocks_per_group |-> 8, inodes_per_group |-> 3,
   tables |-> tables, inodes |-> inodes, entries |-> (7 :> b7) @@ (8 :> b8)]
OneEntry(n) == 0 :> E(n, 4, Program)
Plain ==
  MakeImage(14, <<3, 5>>, <<None, Dirs[2], File(7, 3, <<9, 10, 0>>)>>, OneEntry(3), OneEntry(0))

\* Directories; programs; a group that is not full; images of no use.
MCImages == 0..964
MCOtherImages == {960}
MCImage(n) ==
  CASE n < 768 ->
         MakeImage(14, <<3, 5>>,
           <<None, Dirs[(n % 4) + 1], File(7, 3, <<9, 10, 0>>), None, File(5, 3, <<10, 9, 0>>)>>,
           DirBlock((n \div 4) % 24), DirBlock(n \div 96))
    [] n \in 768..959 ->
         MakeImage(14, <<3, 5>>, <<None, Dirs[2], None, None, None, FileNo(n - 768)>>,
           OneEntry(6), OneEntry(0))
    [] n = 960 -> Plain
    [] n = 961 -> MakeImage(9, <<3>>, Plain.inodes, OneEntry(3), OneEntry(0))
    [] n = 962 -> [Plain EXCEPT !.magic = FALSE]
    [] n = 963 -> [Plain EXCEPT !.blocks_per_group = 0]
    [] n = 964 -> [Plain EXCEPT !.inodes_per_group = 0]
=============================================================================
