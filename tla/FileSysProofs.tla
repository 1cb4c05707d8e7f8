---------------------------- MODULE FileSysProofs ----------------------------
(***************************************************************************)
(* Proofs about the file system and the descriptors of a process, for any  *)
(* well-formed image, any block size, number of descriptors, names and     *)
(* sizes asked for.                                                        *)
(*                                                                         *)
(* What the loop of read_data leaves in the buffer is shown by looking at  *)
(* the least turn that would break its loop invariant; that the recursive  *)
(* function of its turns exists is shown in the same way.                  *)
(***************************************************************************)
EXTENDS FileSys, SequenceTheorems, WellFoundedInduction, NaturalsInduction,
        TLAPS

-----------------------------------------------------------------------------
(* Numbers *)

\* A non-empty set of naturals has a least element.
LEMMA LeastNat ==
  ASSUME NEW S \in SUBSET Nat, S # {}
  PROVE  \E i \in S : \A j \in S : i <= j
<1>1. IsWellFoundedOn(OpToRel(<, Nat), Nat)
  BY NatLessThanWellFounded
<1>2. PICK i \in S : \A j \in S : ~(<<j, i>> \in OpToRel(<, Nat))
  BY <1>1, WFMin, Zenon
<1>3. \A j \in S : ~(j < i)
  BY <1>2 DEF OpToRel
<1> QED
  BY <1>3

\* Quotient and remainder.
LEMMA DivMod ==
  ASSUME NEW x \in Nat, NEW b \in Nat \ {0}
  PROVE  x % b \in 0 .. b - 1 /\ x \div b \in Nat
<1>1. x % b \in 0 .. b - 1
  OBVIOUS
<1>2. x \div b \in Int
  OBVIOUS
<1>3. x \div b >= 0
  OBVIOUS
<1> QED
  BY <1>1, <1>2, <1>3

\* A number is its quotient times the divisor, and the remainder.
LEMMA DivModSum ==
  ASSUME NEW x \in Int, NEW b \in Int, b > 0,
         NEW q \in Int, q = x \div b, NEW r \in Int, r = x % b
  PROVE  x = b * q + r
OBVIOUS

\* No other quotient and remainder do.
LEMMA DivModUnique ==
  ASSUME NEW b \in Nat \ {0}, NEW q \in Nat, NEW r \in 0 .. b - 1
  PROVE  (b * q + r) \div b = q /\ (b * q + r) % b = r
OBVIOUS

\* The place after the last one of a block is the first one of the next block,
\* any other place is followed by one in its block.
LEMMA NextPlace ==
  ASSUME NEW x \in Nat, NEW b \in Nat \ {0}
  PROVE  /\ (x % b) + 1 = b => /\ (x + 1) % b = 0
                               /\ (x + 1) \div b = (x \div b) + 1
         /\ (x % b) + 1 # b => /\ (x + 1) % b = (x % b) + 1
                               /\ (x + 1) \div b = x \div b
<1>1. ASSUME (x % b) + 1 = b
      PROVE  (x + 1) % b = 0 /\ (x + 1) \div b = (x \div b) + 1
  <2> DEFINE q == x \div b
  <2>1. q \in Nat /\ x = b * q + (b - 1)
    <3>1. q \in Nat
      BY DivMod
    <3>2. x % b \in 0 .. b - 1
      BY DivMod
    <3>3. x % b = b - 1
      BY <1>1, <3>2
    <3>4. q = x \div b
      OBVIOUS
    <3> HIDE DEF q
    <3> QED
      BY <3>1, <3>3, <3>4, DivModSum
  <2> HIDE DEF q
  <2>2. b * (q + 1) = b * q + b
    BY <2>1
  <2>3. q + 1 \in Nat /\ x + 1 = b * (q + 1) + 0 /\ 0 \in 0 .. b - 1
    BY <2>1, <2>2
  <2>4. (b * (q + 1) + 0) \div b = q + 1 /\ (b * (q + 1) + 0) % b = 0
    BY <2>3, DivModUnique
  <2> QED
    BY <2>3, <2>4 DEF q
<1>2. ASSUME (x % b) + 1 # b
      PROVE  (x + 1) % b = (x % b) + 1 /\ (x + 1) \div b = x \div b
  BY <1>2
<1> QED
  BY <1>1, <1>2

\* The count of bytes taken from a block shows that it is used up.
LEMMA BlockEnd ==
  ASSUME NEW b \in Nat \ {0}, NEW r \in 1 .. b
  PROVE  r % b = 0 <=> r = b
OBVIOUS

-----------------------------------------------------------------------------
(* read_data *)

\* Byte j of a file, by its place in the image.
Byte(ino, j) ==
  <<Inodes[ino].data_blocks[j \div BLOCK_SIZE], j % BLOCK_SIZE>>

\* What reads can return: names and bytes.
Item == {Dentries[i].fname : i \in DOMAIN Dentries}
        \cup {Byte(ino, j) : ino \in DOMAIN Inodes, j \in Nat}

Turns(f, ino, offset, m) ==
  f = [i \in 0 .. m |->
         IF i = 0 THEN LoopInit(offset) ELSE Turn(ino, offset, f[i - 1])]

\* The function that lists the states of the loop exists.
LEMMA TurnsExist ==
  ASSUME NEW ino, NEW offset, NEW m \in Nat
  PROVE  \E f : Turns(f, ino, offset, m)
<1> DEFINE Bad == {k \in Nat : ~\E f : Turns(f, ino, offset, k)}
<1> SUFFICES ASSUME Bad # {} PROVE FALSE
  OBVIOUS
<1>1. PICK k \in Bad : \A j \in Bad : k <= j
  BY LeastNat
<1>2. CASE k = 0
  <2> DEFINE f == [i \in 0 .. 0 |-> LoopInit(offset)]
  <2>1. Turns(f, ino, offset, 0)
    BY DEF Turns
  <2> QED
    BY <1>1, <1>2, <2>1
<1>3. CASE k # 0
  <2>1. k - 1 \in Nat /\ k - 1 \notin Bad
    BY <1>1, <1>3
  <2>2. PICK f : Turns(f, ino, offset, k - 1)
    BY <2>1
  <2> DEFINE g == [i \in 0 .. k |-> IF i < k THEN f[i]
                                    ELSE Turn(ino, offset, f[k - 1])]
  <2>3. ASSUME NEW i \in 0 .. k
        PROVE  g[i] = IF i = 0 THEN LoopInit(offset) ELSE Turn(ino, offset, g[i - 1])
    <3>1. CASE i = 0
      <4>1. f[0] = LoopInit(offset)
        BY <2>1, <2>2 DEF Turns
      <4> QED
        BY <1>3, <3>1, <4>1
    <3>2. CASE i # 0 /\ i < k
      <4>1. i \in 0 .. k - 1 /\ i - 1 \in 0 .. k /\ i - 1 < k
        BY <3>2
      <4>2. f[i] = Turn(ino, offset, f[i - 1])
        BY <2>2, <3>2, <4>1 DEF Turns
      <4> QED
        BY <3>2, <4>1, <4>2
    <3>3. CASE i = k
      <4>1. k - 1 \in 0 .. k /\ k - 1 < k
        BY <2>1
      <4> QED
        BY <1>3, <3>3, <4>1
    <3> QED
      BY <3>1, <3>2, <3>3
  <2>4. g = [i \in 0 .. k |-> g[i]]
    OBVIOUS
  <2> HIDE DEF g
  <2>5. Turns(g, ino, offset, k)
    BY <2>3, <2>4 DEF Turns
  <2> QED
    BY <1>1, <2>5
<1> QED
  BY <1>2, <1>3

\* The loop invariant: n bytes are in the buffer, the ones from offset on, and
\* index and byte stand behind the last one copied, which has the file's length
\* as its place at most.
LoopInv(ino, offset, s) ==
  /\ s \in [n : Nat, index : Nat, byte : Nat, buf : Seq(Item), stop : BOOLEAN]
  /\ Len(s.buf) = s.n
  /\ \A k \in 1 .. s.n : s.buf[k] = Byte(ino, offset + (k - 1))
  /\ IF s.n = 0
     THEN /\ s.index = offset \div BLOCK_SIZE
          /\ s.byte = offset % BLOCK_SIZE
     ELSE /\ s.index = (offset + (s.n - 1)) \div BLOCK_SIZE
          /\ s.byte = ((offset + (s.n - 1)) % BLOCK_SIZE) + 1
          /\ offset + s.n <= Inodes[ino].length + 1

\* A turn keeps it.
LEMMA TurnKeeps ==
  ASSUME NEW ino \in DOMAIN Inodes, NEW offset \in Nat, NEW s,
         LoopInv(ino, offset, s)
  PROVE  LoopInv(ino, offset, Turn(ino, offset, s))
<1>0. BLOCK_SIZE \in Nat \ {0} /\ Inodes[ino].length \in Nat
  BY FileSysAssumption
<1>1. CASE s.stop \/ AtEnd(ino, offset, s)
  <2>1. Turn(ino, offset, s) = [s EXCEPT !.stop = TRUE]
    BY <1>1 DEF Turn
  <2> QED
    BY <2>1 DEF LoopInv
<1>2. CASE ~s.stop /\ ~AtEnd(ino, offset, s)
  <2> DEFINE idx  == IF NextBlock(s) THEN s.index + 1 ELSE s.index
             byte == IF NextBlock(s) THEN 0 ELSE s.byte
             new  == <<Inodes[ino].data_blocks[idx], byte>>
             x    == offset + s.n
  <2>1. Turn(ino, offset, s) =
          [n |-> s.n + 1, index |-> idx, byte |-> byte + 1,
           buf |-> Append(s.buf, new), stop |-> FALSE]
    BY <1>2 DEF Turn, CopyByte
  <2>2. /\ s.n \in Nat /\ s.index \in Nat /\ s.byte \in Nat /\ x \in Nat
        /\ s.buf \in Seq(Item) /\ Len(s.buf) = s.n
    BY DEF LoopInv
  <2>3. idx = x \div BLOCK_SIZE /\ byte = x % BLOCK_SIZE
    <3>1. CASE s.n = 0
      BY <2>2, <3>1 DEF LoopInv, NextBlock
    <3>2. CASE s.n # 0
      <4> DEFINE y == offset + (s.n - 1)
      <4>1. y \in Nat /\ y + 1 = x
        BY <2>2, <3>2
      <4>2. s.index = y \div BLOCK_SIZE /\ s.byte = (y % BLOCK_SIZE) + 1
        BY <3>2 DEF LoopInv
      <4> HIDE DEF y, x
      <4>3. y % BLOCK_SIZE \in 0 .. BLOCK_SIZE - 1
        BY <1>0, <4>1, DivMod
      <4>4. s.byte \in 1 .. BLOCK_SIZE
        BY <1>0, <4>2, <4>3
      <4>5. NextBlock(s) <=> (y % BLOCK_SIZE) + 1 = BLOCK_SIZE
        BY <1>0, <2>2, <3>2, <4>2, <4>4, BlockEnd DEF NextBlock
      <4>6. /\ (y % BLOCK_SIZE) + 1 = BLOCK_SIZE =>
                 /\ (y + 1) % BLOCK_SIZE = 0
                 /\ (y + 1) \div BLOCK_SIZE = (y \div BLOCK_SIZE) + 1
            /\ (y % BLOCK_SIZE) + 1 # BLOCK_SIZE =>
                 /\ (y + 1) % BLOCK_SIZE = (y % BLOCK_SIZE) + 1
                 /\ (y + 1) \div BLOCK_SIZE = y \div BLOCK_SIZE
        BY <1>0, <4>1, NextPlace
      <4> QED
        BY <4>1, <4>2, <4>5, <4>6
    <3> QED
      BY <3>1, <3>2
  <2>4. new = Byte(ino, x) /\ new \in Item
    <3>1. new = Byte(ino, x)
      BY <2>3 DEF Byte
    <3> QED
      BY <2>2, <3>1 DEF Item
  <2>5. idx \in Nat /\ byte \in Nat
    BY <2>2
  <2>6. x + 1 <= Inodes[ino].length + 1
    BY <1>0, <1>2, <2>2 DEF AtEnd
  <2> DEFINE buf == Append(s.buf, new)
  <2>7. /\ buf \in Seq(Item) /\ Len(buf) = s.n + 1 /\ buf[s.n + 1] = new
        /\ \A k \in 1 .. s.n : buf[k] = s.buf[k]
    <3> HIDE DEF new
    <3> QED
      BY <2>2, <2>4
  <2> HIDE DEF idx, byte, new, buf
  <2>8. \A k \in 1 .. s.n + 1 : buf[k] = Byte(ino, offset + (k - 1))
    <3> TAKE k \in 1 .. s.n + 1
    <3>1. CASE k = s.n + 1
      BY <2>2, <2>4, <2>7, <3>1
    <3>2. CASE k # s.n + 1
      <4>1. k \in 1 .. s.n
        BY <2>2, <3>2
      <4>2. s.buf[k] = Byte(ino, offset + (k - 1))
        BY <4>1 DEF LoopInv
      <4> QED
        BY <2>7, <4>1, <4>2
    <3> QED
      BY <3>1, <3>2
  <2> DEFINE r == Turn(ino, offset, s)
  <2>9. /\ r.n = s.n + 1 /\ r.index = idx /\ r.byte = byte + 1
        /\ r.buf = buf
        /\ r \in [n : Nat, index : Nat, byte : Nat, buf : Seq(Item), stop : BOOLEAN]
    BY <2>1, <2>2, <2>5, <2>7 DEF buf
  <2>10. r.n # 0 /\ offset + (r.n - 1) = x /\ offset + r.n = x + 1
    BY <2>2, <2>9
  <2> HIDE DEF r
  <2>11. LoopInv(ino, offset, r)
    BY <2>2, <2>3, <2>6, <2>7, <2>8, <2>9, <2>10 DEF LoopInv
  <2> QED
    BY <2>11 DEF r
<1> QED
  BY <1>1, <1>2

\* read_data returns the bytes of the file from offset on, without gaps, and at
\* most one byte more than the file has, across any blocks.
LEMMA ReadDataBytes ==
  ASSUME NEW ino \in DOMAIN Inodes, NEW offset \in Nat, NEW length \in Nat
  PROVE  LET buf == read_data(ino, offset, length)
         IN  /\ buf \in Seq(Item)
             /\ \A k \in 1 .. Len(buf) : buf[k] = Byte(ino, offset + (k - 1))
             /\ Len(buf) > 0 => offset + Len(buf) <= Inodes[ino].length + 1
<1> DEFINE it == CHOOSE f : f = [i \in 0 .. length |->
                   IF i = 0 THEN LoopInit(offset) ELSE Turn(ino, offset, f[i - 1])]
<1>1. read_data(ino, offset, length) = it[length].buf
  BY DEF read_data
<1>2. Turns(it, ino, offset, length)
  <2>1. \E f : f = [i \in 0 .. length |->
                 IF i = 0 THEN LoopInit(offset) ELSE Turn(ino, offset, f[i - 1])]
    <3>1. \E f : Turns(f, ino, offset, length)
      BY TurnsExist
    <3> QED
      BY <3>1, Zenon DEF Turns
  <2> QED
    BY <2>1, Zenon DEF Turns
<1> HIDE DEF it
<1> DEFINE Bad == {i \in 0 .. length : ~LoopInv(ino, offset, it[i])}
<1>3. Bad = {}
  <2> SUFFICES ASSUME Bad # {} PROVE FALSE
    OBVIOUS
  <2>1. Bad \in SUBSET Nat
    OBVIOUS
  <2>2. PICK i \in Bad : \A j \in Bad : i <= j
    BY <2>1, LeastNat
  <2>3. CASE i = 0
    <3>1. it[0] = LoopInit(offset)
      BY <1>2 DEF Turns
    <3>2. LoopInv(ino, offset, LoopInit(offset))
      <4>1. offset \div BLOCK_SIZE \in Nat /\ offset % BLOCK_SIZE \in Nat
        <5>1. BLOCK_SIZE \in Nat \ {0}
          BY FileSysAssumption
        <5>2. offset % BLOCK_SIZE \in 0 .. BLOCK_SIZE - 1
              /\ offset \div BLOCK_SIZE \in Nat
          BY <5>1, DivMod
        <5> QED
          BY <5>1, <5>2
      <4>2. <<>> \in Seq(Item) /\ Len(<<>>) = 0 /\ 1 .. 0 = {}
        OBVIOUS
      <4> QED
        BY <4>1, <4>2 DEF LoopInv, LoopInit
    <3> QED
      BY <2>2, <2>3, <3>1, <3>2
  <2>4. CASE i # 0
    <3>1. i - 1 \in 0 .. length /\ i - 1 \notin Bad
      BY <2>2, <2>4
    <3>2. LoopInv(ino, offset, it[i - 1])
      BY <3>1
    <3>3. it[i] = Turn(ino, offset, it[i - 1])
      BY <1>2, <2>2, <2>4 DEF Turns
    <3> QED
      BY <2>2, <3>2, <3>3, TurnKeeps
  <2> QED
    BY <2>3, <2>4
<1>4. LoopInv(ino, offset, it[length])
  BY <1>3
<1> QED
  BY <1>1, <1>4 DEF LoopInv

-----------------------------------------------------------------------------
(* The descriptors *)

FdRec == [in_use : BOOLEAN, optbl : Optbl, inode : Nat, pos : Nat]

\* Descriptor record f and what has been read through it, g, fit together: for
\* a file, g is its beginning and f.pos the count; for a directory, g is the
\* run of entries that ends at f.pos.
FdOK(f, g) ==
  /\ f \in FdRec /\ g \in Seq(Item)
  /\ f.in_use /\ f.optbl = "file" =>
       /\ f.inode \in DOMAIN Inodes
       /\ f.pos = Len(g) /\ Len(g) <= Inodes[f.inode].length + 1
       /\ \A k \in 1 .. Len(g) : g[k] = Byte(f.inode, k - 1)
  /\ f.in_use /\ f.optbl = "dir" =>
       LET to == IF f.pos < Len(Dentries) THEN f.pos ELSE Len(Dentries)
       IN  g = [i \in 1 .. Len(g) |-> Dentries[to - Len(g) + i].fname]

\* The inductive invariant.
FdInv ==
  /\ file_array \in [Fd -> FdRec] /\ got \in [Fd -> Seq(Item)]
  /\ \A fd \in Fd : FdOK(file_array[fd], got[fd])
  /\ StdioOpen

\* What the last call has returned.
LastType ==
  /\ args \in Nat
  /\ last.fd \in Fd \cup {-1} /\ last.ret \in Nat \cup {-1}

\* A call that changes one descriptor keeps the invariant if that descriptor
\* fits.
LEMMA OneFd ==
  ASSUME FdInv, NEW fd \in Fd, NEW f, NEW g, FdOK(f, g),
         fd \in Stdio => f.in_use /\ f.optbl = "stdio",
         file_array' = [file_array EXCEPT ![fd] = f],
         got' = [got EXCEPT ![fd] = g]
  PROVE  FdInv'
<1>1. f \in FdRec /\ g \in Seq(Item)
  BY DEF FdOK
<1>2. file_array' \in [Fd -> FdRec] /\ got' \in [Fd -> Seq(Item)]
  BY <1>1 DEF FdInv
<1>3. file_array'[fd] = f /\ got'[fd] = g
      /\ \A h \in Fd : h # fd => file_array'[h] = file_array[h] /\ got'[h] = got[h]
  BY DEF FdInv
<1>4. \A h \in Fd : FdOK(file_array'[h], got'[h])
  BY <1>3, Zenon DEF FdInv
<1>5. StdioOpen'
  <2>1. Stdio \subseteq Fd
    BY FileSysAssumption DEF Stdio, Fd
  <2> QED
    BY <1>3, <2>1 DEF FdInv, StdioOpen, Opened
<1> QED
  BY <1>2, <1>4, <1>5 DEF FdInv

\* So does a call that changes none.
LEMMA NoFd ==
  ASSUME FdInv, UNCHANGED <<file_array, got>>
  PROVE  FdInv'
<1>1. file_array' = file_array /\ got' = got
  OBVIOUS
<1> QED
  BY <1>1, Zenon DEF FdInv, StdioOpen, Opened

\* A call that fails changes no descriptor.
LEMMA FailKeeps ==
  ASSUME FdInv, LastType, NEW op, NEW fd \in Fd \cup {-1}, Fail(op, fd)
  PROVE  FdInv' /\ LastType'
<1>1. FdInv'
  BY NoFd DEF Fail
<1> QED
  BY <1>1 DEF Fail, Call, LastType

\* The descriptors of a new process.
LEMMA FreshFds ==
  LET fresh == [fd \in Fd |-> IF fd \in Stdio THEN Stdin ELSE Free]
  IN  /\ fresh \in [Fd -> FdRec]
      /\ \A fd \in Fd : FdOK(fresh[fd], <<>>)
      /\ \A fd \in Stdio : fresh[fd].in_use /\ fresh[fd].optbl = "stdio"
<1>1. Free \in FdRec /\ ~Free.in_use
  BY DEF Free, FdRec, Optbl
<1>2. Stdin \in FdRec /\ Stdin.in_use /\ Stdin.optbl = "stdio"
  BY DEF Stdin, Free, FdRec, Optbl
<1>3. FdOK(Free, <<>>) /\ FdOK(Stdin, <<>>)
  BY <1>1, <1>2 DEF FdOK
<1>4. Stdio \subseteq Fd
  BY FileSysAssumption DEF Stdio, Fd
<1> QED
  BY <1>1, <1>2, <1>3, <1>4

\* get_free_fd finds a free descriptor that is not the terminal's.
LEMMA LeastFree ==
  ASSUME FreeFd # {}
  PROVE  Least(FreeFd) \in FreeFd
<1>1. FreeFd \in SUBSET Nat
  BY FileSysAssumption DEF FreeFd, Fd
<1>2. \E i \in FreeFd : \A j \in FreeFd : i <= j
  BY <1>1, LeastNat
<1> QED
  BY <1>2, Zenon DEF Least

\* read_dentry_by_name finds an entry of the directory.
LEMMA FoundDentry ==
  ASSUME NEW name, HasName(name)
  PROVE  \E i \in DOMAIN Dentries : read_dentry_by_name(name) = Dentries[i]
<1> DEFINE Hits == {i \in DOMAIN Dentries : Dentries[i].fname = name}
           First(i) == /\ Dentries[i].fname = name
                       /\ \A j \in 1 .. i - 1 : Dentries[j].fname # name
<1>1. DOMAIN Dentries = 1 .. Len(Dentries) /\ Len(Dentries) \in Nat
  BY FileSysAssumption
<1>2. Hits \in SUBSET Nat /\ Hits # {}
  BY <1>1 DEF HasName
<1>3. PICK i \in Hits : \A j \in Hits : i <= j
  BY <1>2, LeastNat
<1>4. First(i)
  BY <1>1, <1>3
<1>5. (CHOOSE k \in DOMAIN Dentries : First(k)) \in DOMAIN Dentries
  BY <1>3, <1>4, Zenon
<1> QED
  BY <1>5 DEF read_dentry_by_name

\* open
LEMMA OpenKeeps ==
  ASSUME FdInv, LastType, NEW name, Open(name)
  PROVE  FdInv' /\ LastType'
<1>1. CASE CanOpen(name)
  <2> DEFINE d  == read_dentry_by_name(name)
             fd == Least(FreeFd)
             f  == CASE d.ftype = FtypeRtc ->
                          [file_array[fd] EXCEPT !.in_use = TRUE, !.optbl = "rtc"]
                     [] d.ftype = FtypeDir ->
                          [file_array[fd] EXCEPT !.in_use = TRUE, !.optbl = "dir"]
                     [] OTHER ->
                          [in_use |-> TRUE, optbl |-> "file",
                           inode |-> d.inode_num, pos |-> 0]
  <2>1. /\ file_array' = [file_array EXCEPT ![fd] = f]
        /\ last' = Call("open", fd, fd) /\ got' = [got EXCEPT ![fd] = <<>>]
        /\ UNCHANGED args
    BY <1>1, Zenon DEF Open
  <2>2. fd \in FreeFd
    BY <1>1, LeastFree DEF CanOpen
  <2>3. fd \in Fd /\ fd \in Nat /\ fd \notin Stdio
    BY <2>2, FileSysAssumption DEF FreeFd, Fd
  <2>4. d.inode_num \in DOMAIN Inodes /\ d.inode_num \in Nat
        /\ Inodes[d.inode_num].length \in Nat
    BY <1>1, FoundDentry, FileSysAssumption DEF CanOpen
  <2>5. file_array[fd] \in FdRec
    BY <2>3 DEF FdInv
  <2> HIDE DEF d, fd
  <2>6. <<>> \in Seq(Item) /\ Len(<<>>) = 0 /\ 1 .. 0 = {}
    OBVIOUS
  <2>7. FdOK(f, <<>>)
    <3>1. CASE d.ftype = FtypeRtc
      <4>1. f = [file_array[fd] EXCEPT !.in_use = TRUE, !.optbl = "rtc"]
        BY <3>1 DEF FtypeRtc, FtypeDir
      <4> HIDE DEF f
      <4>2. f \in FdRec /\ f.optbl = "rtc"
        BY <2>5, <4>1 DEF FdRec, Optbl
      <4> QED
        BY <2>6, <4>2 DEF FdOK
    <3>2. CASE d.ftype = FtypeDir
      <4>1. f = [file_array[fd] EXCEPT !.in_use = TRUE, !.optbl = "dir"]
        BY <3>2 DEF FtypeRtc, FtypeDir
      <4> HIDE DEF f
      <4>2. f \in FdRec /\ f.optbl = "dir"
        BY <2>5, <4>1 DEF FdRec, Optbl
      <4>3. \A to : <<>> = [i \in 1 .. 0 |-> Dentries[to - 0 + i].fname]
        OBVIOUS
      <4> QED
        BY <2>6, <4>2, <4>3 DEF FdOK
    <3>3. CASE d.ftype \notin {FtypeRtc, FtypeDir}
      <4>1. f = [in_use |-> TRUE, optbl |-> "file", inode |-> d.inode_num,
                 pos |-> 0]
        BY <3>3
      <4> HIDE DEF f
      <4>2. f \in FdRec /\ f.optbl = "file" /\ f.inode = d.inode_num /\ f.pos = 0
        BY <2>4, <4>1 DEF FdRec, Optbl
      <4> QED
        BY <2>4, <2>6, <4>2 DEF FdOK
    <3> QED
      BY <3>1, <3>2, <3>3
  <2> HIDE DEF f
  <2>8. FdInv'
    BY <2>1, <2>3, <2>7, OneFd
  <2> QED
    BY <2>1, <2>3, <2>8 DEF LastType, Call
<1>2. CASE ~CanOpen(name)
  <2>1. Fail("open", -1)
    BY <1>2 DEF Open
  <2> QED
    BY <2>1, FailKeeps
<1> QED
  BY <1>1, <1>2

\* file_read
LEMMA ReadFileKeeps ==
  ASSUME FdInv, LastType, NEW fd \in Fd, NEW n \in Nat, Opened(fd, "file"),
         ReadFile(fd, n)
  PROVE  FdInv' /\ LastType'
<1> DEFINE f   == file_array[fd]
           g   == got[fd]
           ino == f.inode
           buf == read_data(ino, f.pos, n)
           f2  == [f EXCEPT !.pos = f.pos + Len(buf)]
           g2  == g \o buf
<1>1. FdOK(f, g) /\ f \in FdRec /\ f.in_use /\ f.optbl = "file" /\ g \in Seq(Item)
  BY DEF FdInv, Opened
<1>2. /\ ino \in DOMAIN Inodes /\ f.pos \in Nat /\ f.pos = Len(g)
      /\ Len(g) <= Inodes[ino].length + 1
      /\ \A k \in 1 .. Len(g) : g[k] = Byte(ino, k - 1)
  BY <1>1 DEF FdOK, FdRec
<1>3. /\ buf \in Seq(Item)
      /\ \A k \in 1 .. Len(buf) : buf[k] = Byte(ino, f.pos + (k - 1))
      /\ Len(buf) > 0 => f.pos + Len(buf) <= Inodes[ino].length + 1
  BY <1>2, ReadDataBytes
<1>4. /\ file_array' = [file_array EXCEPT ![fd] = f2]
      /\ last' = Call("read", fd, Len(buf)) /\ got' = [got EXCEPT ![fd] = g2]
      /\ UNCHANGED args
  BY DEF ReadFile, Advance, FdInv
<1>5. fd \notin Stdio
  BY <1>1 DEF FdInv, StdioOpen, Opened
<1> HIDE DEF buf
<1>6. Inodes[ino].length \in Nat /\ Len(buf) \in Nat
  BY <1>2, <1>3, FileSysAssumption
<1>7. f2 \in FdRec /\ f2.pos = f.pos + Len(buf) /\ f2.inode = ino
      /\ f2.optbl = "file"
  <2> DEFINE p == f.pos + Len(buf)
  <2>1. p \in Nat
    BY <1>2, <1>6
  <2>2. f2 = [f EXCEPT !.pos = p]
    OBVIOUS
  <2> HIDE DEF f, p, f2
  <2>3. f2 \in FdRec /\ f2.pos = p /\ f2.inode = f.inode /\ f2.optbl = "file"
    BY <1>1, <2>1, <2>2 DEF FdRec
  <2> QED
    BY <2>3 DEF p
<1>8. /\ g2 \in Seq(Item) /\ Len(g2) = Len(g) + Len(buf)
      /\ \A k \in 1 .. Len(g) : g2[k] = g[k]
      /\ \A k \in Len(g) + 1 .. Len(g2) : g2[k] = buf[k - Len(g)]
  <2> HIDE DEF g
  <2> QED
    BY <1>1, <1>3
<1> HIDE DEF f, g, ino, f2, g2
<1>9. \A k \in 1 .. Len(g2) : g2[k] = Byte(ino, k - 1)
  <2> TAKE k \in 1 .. Len(g2)
  <2>1. CASE k <= Len(g)
    BY <1>2, <1>8, <2>1
  <2>2. CASE k > Len(g)
    <3>1. k - Len(g) \in 1 .. Len(buf) /\ k \in Len(g) + 1 .. Len(g2)
      BY <1>2, <1>6, <1>8, <2>2
    <3>2. f.pos + ((k - Len(g)) - 1) = k - 1
      BY <1>2
    <3> QED
      BY <1>3, <1>8, <3>1, <3>2
  <2> QED
    BY <1>2, <1>6, <1>8, <2>1, <2>2
<1>10. Len(g2) <= Inodes[ino].length + 1
  BY <1>2, <1>3, <1>6, <1>8
<1>11. FdOK(f2, g2)
  BY <1>2, <1>7, <1>8, <1>9, <1>10 DEF FdOK
<1>12. FdInv'
  BY <1>4, <1>5, <1>11, OneFd
<1> QED
  BY <1>4, <1>6, <1>12 DEF LastType, Call

\* dir_read
LEMMA ReadDirKeeps ==
  ASSUME FdInv, LastType, NEW fd \in Fd, Opened(fd, "dir"), ReadDir(fd)
  PROVE  FdInv' /\ LastType'
<1> DEFINE f == file_array[fd]
           g == got[fd]
           N == Len(Dentries)
           name == read_dentry_by_index(f.pos).fname
           f2 == [f EXCEPT !.pos = f.pos + 1]
           g2 == IF name = NoName THEN g ELSE Append(g, name)
<1>1. FdOK(f, g) /\ f \in FdRec /\ f.in_use /\ f.optbl = "dir" /\ g \in Seq(Item)
      /\ f.pos \in Nat /\ Len(g) \in Nat
  BY DEF FdInv, Opened, FdRec
<1>2. CASE f.pos > N
  <2>1. last' = Call("read", fd, 0) /\ UNCHANGED <<file_array, args, got>>
    BY <1>2 DEF ReadDir
  <2>2. FdInv'
    BY <2>1, NoFd
  <2> QED
    BY <2>1, <2>2 DEF LastType, Call
<1>3. CASE ~(f.pos > N)
  <2>1. /\ file_array' = [file_array EXCEPT ![fd] = f2]
        /\ got' = [got EXCEPT ![fd] = g2]
        /\ last' = Call("read", fd, IF name = NoName THEN 0 ELSE 1)
        /\ UNCHANGED args
    BY <1>3 DEF ReadDir, FdInv
  <2>2. fd \notin Stdio
    BY <1>1 DEF FdInv, StdioOpen, Opened
  <2>3. N \in Nat /\ DOMAIN Dentries = 1 .. N
    BY FileSysAssumption
  <2>4. f2 \in FdRec /\ f2.pos = f.pos + 1 /\ f2.optbl = "dir" /\ f2.in_use
    BY <1>1 DEF FdRec
  <2> HIDE DEF N
  <2>5. g = [i \in 1 .. Len(g) |->
               Dentries[(IF f.pos < N THEN f.pos ELSE N) - Len(g) + i].fname]
    BY <1>1 DEF FdOK, N
  <2> HIDE DEF f, g, f2
  <2>6. CASE f.pos = N
    <3>1. name = NoName
      <4>1. f.pos + 1 \notin DOMAIN Dentries
        BY <2>3, <2>6
      <4> QED
        BY <4>1 DEF read_dentry_by_index, NoDentry
    <3>2. g2 = g
      BY <3>1
    <3>3. (IF f2.pos < N THEN f2.pos ELSE N) = (IF f.pos < N THEN f.pos ELSE N)
      BY <1>1, <2>3, <2>4, <2>6
    <3>4. FdOK(f2, g)
      BY <1>1, <2>4, <2>5, <3>3 DEF FdOK, N
    <3>5. FdInv'
      BY <2>1, <2>2, <3>2, <3>4, OneFd
    <3> QED
      BY <2>1, <3>1, <3>5 DEF LastType, Call
  <2>7. CASE f.pos < N
    <3>1. f.pos + 1 \in DOMAIN Dentries
      BY <1>1, <2>3, <2>7
    <3>2. name = Dentries[f.pos + 1].fname
      BY <3>1 DEF read_dentry_by_index
    <3>3. name # NoName
      BY <3>1, <3>2, FileSysAssumption
    <3>4. name \in Item
      BY <3>1, <3>2 DEF Item
    <3> HIDE DEF name
    <3> DEFINE h == Append(g, name)
    <3>5. g2 = h
      BY <3>3
    <3>6. /\ h \in Seq(Item) /\ Len(h) = Len(g) + 1 /\ h[Len(g) + 1] = name
          /\ \A i \in 1 .. Len(g) : h[i] = g[i]
      BY <1>1, <3>4
    <3>7. ASSUME NEW i \in 1 .. Len(h)
          PROVE  h[i] = Dentries[(f.pos + 1) - Len(h) + i].fname
      <4>1. CASE i = Len(g) + 1
        <5>1. (f.pos + 1) - Len(h) + i = f.pos + 1
          BY <1>1, <3>6, <4>1
        <5> QED
          BY <3>2, <3>6, <4>1, <5>1
      <4>2. CASE i # Len(g) + 1
        <5>1. i \in 1 .. Len(g) /\ (f.pos + 1) - Len(h) + i = f.pos - Len(g) + i
          BY <1>1, <3>6, <4>2
        <5>2. g[i] = Dentries[f.pos - Len(g) + i].fname
          BY <2>5, <2>7, <5>1
        <5> QED
          BY <3>6, <5>1, <5>2
      <4> QED
        BY <4>1, <4>2
    <3> HIDE DEF h
    <3>8. h = [i \in 1 .. Len(h) |-> h[i]]
      BY <3>6
    <3>9. h = [i \in 1 .. Len(h) |-> Dentries[(f.pos + 1) - Len(h) + i].fname]
      BY <3>7, <3>8
    <3>10. (IF f2.pos < N THEN f2.pos ELSE N) = f.pos + 1
      BY <1>1, <2>3, <2>4, <2>7
    <3>11. FdOK(f2, h)
      BY <2>4, <3>6, <3>9, <3>10 DEF FdOK, N
    <3>12. FdInv'
      BY <2>1, <2>2, <3>5, <3>11, OneFd
    <3> QED
      BY <2>1, <3>12 DEF LastType, Call
  <2> QED
    BY <1>1, <1>3, <2>3, <2>6, <2>7 DEF f, N
<1> QED
  BY <1>2, <1>3

\* read, for every kind of descriptor
LEMMA ReadKeeps ==
  ASSUME FdInv, LastType, NEW fd \in Fd, NEW n \in Sizes, Read(fd, n)
  PROVE  FdInv' /\ LastType'
<1>0. n \in Nat
  BY FileSysAssumption
<1>1. CASE ~file_array[fd].in_use
  <2>1. Fail("read", fd)
    BY <1>1 DEF Read
  <2> QED
    BY <2>1, FailKeeps
<1>2. CASE Opened(fd, "file")
  <2>1. ReadFile(fd, n)
    BY <1>2 DEF Read, Opened
  <2> QED
    BY <1>0, <1>2, <2>1, ReadFileKeeps
<1>3. CASE Opened(fd, "dir")
  <2>1. ReadDir(fd)
    BY <1>3 DEF Read, Opened
  <2> QED
    BY <1>3, <2>1, ReadDirKeeps
<1>4. CASE file_array[fd].in_use /\ file_array[fd].optbl \notin {"file", "dir"}
  <2>1. ReadDevice(fd)
    BY <1>4 DEF Read
  <2>2. FdInv'
    BY <2>1, NoFd DEF ReadDevice
  <2> QED
    BY <2>1, <2>2 DEF ReadDevice, LastType, Call
<1> QED
  BY <1>1, <1>2, <1>3, <1>4 DEF Opened

\* write
LEMMA WriteKeeps ==
  ASSUME FdInv, LastType, NEW fd \in Fd, NEW n \in Sizes, Write(fd, n)
  PROVE  FdInv' /\ LastType'
<1>1. n \in Nat
  BY FileSysAssumption
<1> DEFINE takes == /\ file_array[fd].in_use
                    /\ \/ file_array[fd].optbl = "stdio"
                       \/ file_array[fd].optbl = "rtc" /\ n = 4
<1>2. CASE takes
  <2>1. last' = Call("write", fd, n) /\ UNCHANGED <<file_array, args, got>>
    BY <1>2 DEF Write
  <2>2. FdInv'
    BY <2>1, NoFd
  <2> QED
    BY <1>1, <2>1, <2>2 DEF LastType, Call
<1>3. CASE ~takes
  <2>1. Fail("write", fd)
    BY <1>3 DEF Write
  <2> QED
    BY <2>1, FailKeeps
<1> QED
  BY <1>2, <1>3

\* close
LEMMA CloseKeeps ==
  ASSUME FdInv, LastType, NEW fd \in Fd, Close(fd)
  PROVE  FdInv' /\ LastType'
<1>1. CASE Closable(fd)
  <2> DEFINE f2 == [file_array[fd] EXCEPT !.in_use = FALSE]
  <2>1. /\ file_array' = [file_array EXCEPT ![fd] = f2]
        /\ last' = Call("close", fd, 0) /\ got' = [got EXCEPT ![fd] = <<>>]
        /\ UNCHANGED args
    BY <1>1, Zenon DEF Close
  <2>2. file_array[fd] \in FdRec
    BY DEF FdInv
  <2>3. f2 \in FdRec /\ ~f2.in_use
    BY <2>2 DEF FdRec
  <2> HIDE DEF f2
  <2>4. FdOK(f2, <<>>)
    BY <2>3 DEF FdOK
  <2>5. FdInv'
    BY <1>1, <2>1, <2>4, OneFd DEF Closable
  <2> QED
    BY <2>1, <2>5 DEF LastType, Call
<1>2. CASE ~Closable(fd)
  <2>1. Fail("close", fd)
    BY <1>2 DEF Close
  <2> QED
    BY <2>1, FailKeeps
<1> QED
  BY <1>1, <1>2

\* getargs
LEMMA GetArgsKeeps ==
  ASSUME FdInv, LastType, NEW n, GetArgs(n)
  PROVE  FdInv' /\ LastType'
<1> DEFINE fits == n # 0 /\ args # 0 /\ n >= args
<1>1. CASE fits
  <2>1. last' = Call("getargs", -1, 0) /\ UNCHANGED <<file_array, args, got>>
    BY <1>1, Zenon DEF GetArgs
  <2>2. FdInv'
    BY <2>1, NoFd
  <2> QED
    BY <2>1, <2>2 DEF LastType, Call
<1>2. CASE ~fits
  <2>1. Fail("getargs", -1)
    BY <1>2, Zenon DEF GetArgs
  <2> QED
    BY <2>1, FailKeeps
<1> QED
  BY <1>1, <1>2

\* The descriptors of a process fit what it has read, whatever it calls.
LEMMA FdInvariance == Spec => [](FdInv /\ LastType)
<1> DEFINE fresh == [fd \in Fd |-> IF fd \in Stdio THEN Stdin ELSE Free]
<1>1. Init => FdInv /\ LastType
  <2> SUFFICES ASSUME Init PROVE FdInv /\ LastType
    OBVIOUS
  <2>1. file_array = fresh /\ got = [fd \in Fd |-> <<>>]
    BY Zenon DEF Init
  <2> HIDE DEF fresh
  <2>2. /\ fresh \in [Fd -> FdRec]
        /\ \A fd \in Fd : FdOK(fresh[fd], <<>>)
        /\ \A fd \in Stdio : fresh[fd].in_use /\ fresh[fd].optbl = "stdio"
    BY FreshFds, Zenon DEF fresh
  <2>3. FdInv
    <3>1. got \in [Fd -> Seq(Item)] /\ \A fd \in Fd : got[fd] = <<>>
      BY <2>1
    <3> QED
      BY <2>1, <2>2, <3>1, Zenon DEF FdInv, StdioOpen, Opened
  <2>4. args \in ArgLengths /\ last = Call("execute", -1, 0)
    BY DEF Init
  <2>5. LastType
    BY <2>4, FileSysAssumption DEF LastType, Call
  <2> QED
    BY <2>3, <2>5
<1>2. FdInv /\ LastType /\ [Next]_vars => FdInv' /\ LastType'
  <2> SUFFICES ASSUME FdInv, LastType, [Next]_vars PROVE FdInv' /\ LastType'
    OBVIOUS
  <2>1. ASSUME NEW name \in Names, Open(name) PROVE FdInv' /\ LastType'
    BY <2>1, OpenKeeps
  <2>2. ASSUME NEW fd \in Fd, NEW n \in Sizes, Read(fd, n)
        PROVE  FdInv' /\ LastType'
    BY <2>2, ReadKeeps
  <2>3. ASSUME NEW fd \in Fd, NEW n \in Sizes, Write(fd, n)
        PROVE  FdInv' /\ LastType'
    BY <2>3, WriteKeeps
  <2>4. ASSUME NEW fd \in Fd, Close(fd) PROVE FdInv' /\ LastType'
    BY <2>4, CloseKeeps
  <2>5. ASSUME NEW n \in Sizes, GetArgs(n) PROVE FdInv' /\ LastType'
    BY <2>5, GetArgsKeeps
  <2>6. ASSUME HaltAndExecute PROVE FdInv' /\ LastType'
    <3>1. file_array' = fresh /\ got' = [fd \in Fd |-> <<>>]
      BY <2>6, Zenon DEF HaltAndExecute
    <3> HIDE DEF fresh
    <3>2. /\ fresh \in [Fd -> FdRec]
          /\ \A fd \in Fd : FdOK(fresh[fd], <<>>)
          /\ \A fd \in Stdio : fresh[fd].in_use /\ fresh[fd].optbl = "stdio"
      BY FreshFds, Zenon DEF fresh
    <3>3. FdInv'
      <4>1. got' \in [Fd -> Seq(Item)] /\ \A fd \in Fd : got'[fd] = <<>>
        BY <3>1
      <4> QED
        BY <3>1, <3>2, <4>1, Zenon DEF FdInv, StdioOpen, Opened
    <3>4. args' \in ArgLengths /\ last' = Call("execute", -1, 0)
      BY <2>6 DEF HaltAndExecute
    <3>5. LastType'
      BY <3>4, FileSysAssumption DEF LastType, Call
    <3> QED
      BY <3>3, <3>5
  <2>7. ASSUME UNCHANGED vars PROVE FdInv' /\ LastType'
    <3>1. FdInv'
      BY <2>7, NoFd DEF vars
    <3> QED
      BY <2>7, <3>1 DEF vars, LastType
  <2> QED
    BY <2>1, <2>2, <2>3, <2>4, <2>5, <2>6, <2>7 DEF Next
<1> QED
  BY <1>1, <1>2, PTL DEF Spec

-----------------------------------------------------------------------------
(* What programs rely on *)

\* A sequence whose elements are those of the beginning of another one is its
\* beginning.
LEMMA PrefixByElements ==
  ASSUME NEW s \in Seq(Item), NEW t \in Seq(Item), Len(s) <= Len(t),
         \A k \in 1 .. Len(s) : s[k] = t[k]
  PROVE  SubSeq(t, 1, Len(s)) = s
<1> DEFINE u == SubSeq(t, 1, Len(s))
<1>1. u \in Seq(Item) /\ Len(u) = Len(s) /\ \A k \in 1 .. Len(s) : u[k] = t[k]
  OBVIOUS
<1> HIDE DEF u
<1>2. u = s
  BY <1>1
<1> QED
  BY <1>2 DEF u

\* However a program cuts a file into reads, it gets the file from its start,
\* in order and without gaps, and at most one byte more; the position counts
\* what it got, and the terminal stays open (open, file_read, read_data, close).
THEOREM FilesCorrect == Spec => []FilesAsRead
<1>1. FdInv /\ LastType => FilesAsRead
  <2> SUFFICES ASSUME FdInv, LastType PROVE FilesAsRead
    OBVIOUS
  <2>1. TypeOK
    BY DEF TypeOK, FdInv, LastType, FdRec
  <2>2. PosIsCount
    BY DEF PosIsCount, FdInv, FdOK, Opened
  <2>3. ReadsInOrder
    <3> SUFFICES ASSUME NEW fd \in Fd, Opened(fd, "file")
                 PROVE  LET c == Contents(file_array[fd].inode)
                        IN  \/ IsPrefix(got[fd], c)
                            \/ Len(got[fd]) = Len(c) + 1 /\ IsPrefix(c, got[fd])
      BY DEF ReadsInOrder
    <3> DEFINE ino == file_array[fd].inode
               g   == got[fd]
               c   == Contents(ino)
               N   == Inodes[ino].length
    <3>1. /\ ino \in DOMAIN Inodes /\ g \in Seq(Item) /\ Len(g) <= N + 1
          /\ \A k \in 1 .. Len(g) : g[k] = Byte(ino, k - 1)
      BY DEF FdInv, FdOK, Opened
    <3>2. N \in Nat /\ Len(g) \in Nat
      BY <3>1, FileSysAssumption
    <3>3. c = [k \in 1 .. N |-> Byte(ino, k - 1)]
      BY DEF Contents, Byte
    <3> HIDE DEF g, N, c, ino
    <3>4. \A k \in Nat : Byte(ino, k) \in Item
      BY <3>1 DEF Item
    <3>5. c \in Seq(Item) /\ Len(c) = N
      BY <3>2, <3>3, <3>4
    <3>6. CASE Len(g) <= N
      <4>1. SubSeq(c, 1, Len(g)) = g
        BY <3>1, <3>2, <3>3, <3>5, <3>6, PrefixByElements
      <4> QED
        BY <3>5, <3>6, <4>1 DEF IsPrefix, g, c, ino
    <3>7. CASE Len(g) = N + 1
      <4>1. SubSeq(g, 1, Len(c)) = c
        BY <3>1, <3>2, <3>3, <3>5, <3>7, PrefixByElements
      <4> QED
        BY <3>2, <3>5, <3>7, <4>1 DEF IsPrefix, g, c, ino
    <3> QED
      BY <3>1, <3>2, <3>6, <3>7
  <2> QED
    BY <2>1, <2>2, <2>3 DEF FilesAsRead, FdInv
<1> QED
  BY <1>1, FdInvariance, PTL

\* What an open directory has returned is a run of consecutive entries that
\* ends where its position stands, although open leaves the position of the
\* descriptor's last user in place (dir_open, dir_read).
THEOREM DirCorrect == Spec => []DirInOrder
<1>1. FdInv => DirInOrder
  BY DEF FdInv, FdOK, DirInOrder, Opened
<1> QED
  BY <1>1, FdInvariance, PTL

\* A call on one descriptor leaves every other one as it is, with what was read
\* through it, and open hands out none that is in use (get_free_fd).
THEOREM FdsIndependent == Spec => OtherFdsUntouched
<1> DEFINE Keep ==
      \A h \in Fd :
        /\ file_array[h].in_use /\ last'.op # "execute"
        /\ last'.op = "open" \/ h # last'.fd
        => file_array'[h] = file_array[h] /\ got'[h] = got[h]
<1>1. FdInv /\ [Next]_vars => [Keep]_vars
  <2> SUFFICES ASSUME FdInv, Next PROVE Keep
    OBVIOUS
  <2>1. file_array \in [Fd -> FdRec] /\ got \in [Fd -> Seq(Item)]
    BY DEF FdInv
  <2>2. ASSUME UNCHANGED <<file_array, got>> PROVE Keep
    BY <2>2
  <2>3. ASSUME NEW fd, NEW f, NEW g, NEW op, NEW ret,
               file_array' = [file_array EXCEPT ![fd] = f],
               got' = [got EXCEPT ![fd] = g],
               last' = Call(op, fd, ret), op # "open"
        PROVE  Keep
    <3>1. last'.fd = fd /\ last'.op # "open"
      BY <2>3 DEF Call
    <3>2. \A h \in Fd : h # fd => file_array'[h] = file_array[h] /\ got'[h] = got[h]
      BY <2>1, <2>3
    <3> QED
      BY <3>1, <3>2
  <2>4. ASSUME NEW name \in Names, Open(name) PROVE Keep
    <3>1. CASE CanOpen(name)
      <4>1. PICK f : file_array' = [file_array EXCEPT ![Least(FreeFd)] = f]
        BY <2>4, <3>1, Zenon DEF Open
      <4>2. got' = [got EXCEPT ![Least(FreeFd)] = <<>>]
        BY <2>4, <3>1, Zenon DEF Open
      <4>3. Least(FreeFd) \in Fd /\ ~file_array[Least(FreeFd)].in_use
        BY <3>1, LeastFree DEF CanOpen, FreeFd
      <4>4. \A h \in Fd : file_array[h].in_use => h # Least(FreeFd)
        BY <4>3
      <4> QED
        BY <2>1, <4>1, <4>2, <4>4
    <3>2. CASE ~CanOpen(name)
      BY <2>2, <2>4, <3>2 DEF Open, Fail
    <3> QED
      BY <3>1, <3>2
  <2>5. ASSUME NEW fd \in Fd, NEW n \in Sizes, Read(fd, n) PROVE Keep
    <3>1. CASE Opened(fd, "file")
      <4>1. ReadFile(fd, n)
        BY <2>5, <3>1 DEF Read, Opened
      <4>2. PICK f, g, ret : /\ file_array' = [file_array EXCEPT ![fd] = f]
                             /\ got' = [got EXCEPT ![fd] = g]
                             /\ last' = Call("read", fd, ret)
        BY <4>1, Zenon DEF ReadFile
      <4> HIDE DEF Keep
      <4> QED
        BY <2>3, <4>2, Zenon
    <3>2. CASE Opened(fd, "dir")
      <4>1. ReadDir(fd)
        BY <2>5, <3>2 DEF Read, Opened
      <4> DEFINE One(f, g, ret) == /\ file_array' = [file_array EXCEPT ![fd] = f]
                                   /\ got' = [got EXCEPT ![fd] = g]
                                   /\ last' = Call("read", fd, ret)
      <4>2. UNCHANGED <<file_array, got>> \/ \E f, g, ret : One(f, g, ret)
        BY <4>1, Zenon DEF ReadDir
      <4>3. ASSUME NEW f, NEW g, NEW ret, One(f, g, ret) PROVE Keep
        <5> HIDE DEF Keep
        <5> QED
          BY <2>3, <4>3, Zenon
      <4> HIDE DEF Keep, One
      <4> QED
        BY <2>2, <4>2, <4>3, Zenon
    <3>3. CASE ~Opened(fd, "file") /\ ~Opened(fd, "dir")
      <4>1. Fail("read", fd) \/ ReadDevice(fd)
        BY <2>5, <3>3 DEF Read, Opened
      <4> QED
        BY <2>2, <4>1 DEF Fail, ReadDevice
    <3> QED
      BY <3>1, <3>2, <3>3
  <2>6. ASSUME NEW fd \in Fd, NEW n \in Sizes, Write(fd, n) PROVE Keep
    BY <2>2, <2>6 DEF Write, Fail
  <2>7. ASSUME NEW fd \in Fd, Close(fd) PROVE Keep
    <3>1. CASE Closable(fd)
      <4>1. /\ \E f : file_array' = [file_array EXCEPT ![fd] = f]
            /\ got' = [got EXCEPT ![fd] = <<>>]
            /\ last' = Call("close", fd, 0)
        BY <2>7, <3>1, Zenon DEF Close
      <4> QED
        BY <2>3, <4>1, Zenon
    <3>2. CASE ~Closable(fd)
      BY <2>2, <2>7, <3>2 DEF Close, Fail
    <3> QED
      BY <3>1, <3>2
  <2>8. ASSUME NEW n \in Sizes, GetArgs(n) PROVE Keep
    BY <2>2, <2>8, Zenon DEF GetArgs, Fail
  <2>9. ASSUME HaltAndExecute PROVE Keep
    BY <2>9 DEF HaltAndExecute, Call
  <2> QED
    BY <2>4, <2>5, <2>6, <2>7, <2>8, <2>9 DEF Next
<1>2. FdInv /\ [Next]_vars =>
        [\A fd \in Fd :
           /\ file_array[fd].in_use /\ last'.op # "execute"
           /\ last'.op = "open" \/ fd # last'.fd
           => file_array'[fd] = file_array[fd] /\ got'[fd] = got[fd]]_vars
  BY <1>1
<1> QED
  BY <1>2, FdInvariance, PTL DEF Spec, OtherFdsUntouched

=============================================================================
