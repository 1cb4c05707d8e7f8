------------------------------ MODULE MCFileSys ------------------------------
(* A small image: a directory, the RTC, a file that ends inside its second   *)
(* block, one that fills two blocks, with blocks of two bytes, and an entry  *)
(* of a type that open does not know.                                        *)
EXTENDS FileSys, TLC

MCDentries ==
  << [fname |-> ".",   ftype |-> 1, inode_num |-> 0],
     [fname |-> "rtc", ftype |-> 0, inode_num |-> 0],
     [fname |-> "a",   ftype |-> 2, inode_num |-> 1],
     [fname |-> "b",   ftype |-> 2, inode_num |-> 2],
     [fname |-> "odd", ftype |-> 3, inode_num |-> 0] >>

Blocks(s) == [i \in 0 .. 4 |-> IF i < Len(s) THEN s[i + 1] ELSE 0]

MCInodes ==
  0 :> [length |-> 0, data_blocks |-> Blocks(<< >>)]
  @@ 1 :> [length |-> 3, data_blocks |-> Blocks(<<2, 0>>)]
  @@ 2 :> [length |-> 4, data_blocks |-> Blocks(<<1, 3>>)]
=============================================================================
