------------------------------- MODULE FileSys -------------------------------
(***************************************************************************)
(* The read-only file system of the mp3 kernel and the file descriptors of *)
(* one process (filesys.c, and open, read, write, close of syscall.c).     *)
(* A process runs its calls one after the other and nobody else touches    *)
(* its descriptors, so every system call is one action.  Programs use the  *)
(* descriptors that there are: syscall_getfdptr does not check the number. *)
(*                                                                         *)
(* A byte is identified by the place in the image it is read from, a pair  *)
(* of a data block and an offset in it.                                    *)
(***************************************************************************)
EXTENDS Integers, Sequences, FiniteSets

CONSTANTS
  NUM_FDS,         \* descriptors of a process; 0 and 1 are the terminal
  BLOCK_SIZE,      \* bytes in a data block
  Dentries,        \* the directory: a sequence of [fname, ftype, inode_num]
  Inodes,          \* Inodes[n]: [length, data_blocks], data_blocks from index 0
  NumDataBlocks,   \* the count in the boot block
  Names,           \* names that programs ask for
  Sizes,           \* byte counts that programs ask for
  ArgLengths       \* lengths of the argument strings (0: none)

VARIABLES
  file_array,   \* file_array[fd]: [in_use, optbl, inode, pos] of the process
  args,         \* length of the argument string in the PCB
  last,         \* the last system call and what it returned
  got           \* got[fd]: what the reads of open descriptor fd have returned

vars == <<file_array, args, last, got>>

\* The empty string, which is no file's name.
NoName == ""

\* The image is well formed: every entry has a name and names an inode.
ASSUME FileSysAssumption ==
  /\ NUM_FDS \in Nat /\ NUM_FDS > 2
  /\ BLOCK_SIZE \in Nat \ {0}
  /\ NumDataBlocks \in Nat
  /\ Sizes \subseteq Nat /\ ArgLengths \subseteq Nat
  /\ DOMAIN Dentries = 1 .. Len(Dentries) /\ Len(Dentries) \in Nat
  /\ \A i \in DOMAIN Dentries : Dentries[i].inode_num \in DOMAIN Inodes
  /\ \A i \in DOMAIN Dentries : Dentries[i].fname # NoName
  /\ DOMAIN Inodes \subseteq Nat
  /\ \A ino \in DOMAIN Inodes : Inodes[ino].length \in Nat

Fd    == 0 .. NUM_FDS - 1
Stdio == {0, 1}
Optbl == {"none", "stdio", "rtc", "dir", "file"}
Free  == [in_use |-> FALSE, optbl |-> "none", inode |-> 0, pos |-> 0]

FtypeRtc == 0
FtypeDir == 1
FtypeFile == 2

Call(op, fd, ret) == [op |-> op, fd |-> fd, ret |-> ret]

TypeOK ==
  /\ file_array \in [Fd -> [in_use : BOOLEAN, optbl : Optbl, inode : Nat, pos : Nat]]
  /\ args \in Nat
  /\ last.fd \in Fd \cup {-1} /\ last.ret \in Nat \cup {-1}
  /\ DOMAIN got = Fd

-----------------------------------------------------------------------------
(* The image *)

\* read_dentry_by_name: the first entry with the name.
HasName(name) == \E i \in DOMAIN Dentries : Dentries[i].fname = name
read_dentry_by_name(name) ==
  Dentries[CHOOSE i \in DOMAIN Dentries :
             /\ Dentries[i].fname = name
             /\ \A j \in 1 .. i - 1 : Dentries[j].fname # name]

NoDentry == [fname |-> NoName, ftype |-> 0, inode_num |-> 0]

\* Mutant: the first entry is never returned.
read_dentry_by_index_skip(idx) ==
  IF idx + 2 \in DOMAIN Dentries THEN Dentries[idx + 2] ELSE NoDentry

\* read_dentry_by_index lets the index one past the last entry through; the
\* image is zero there.
read_dentry_by_index(idx) ==
  IF idx + 1 \in DOMAIN Dentries THEN Dentries[idx + 1] ELSE NoDentry

\* Mutant: the next block is taken one byte late.
NextBlock_late(s) == s.byte > BLOCK_SIZE

\* The end of a data block has been reached in this call.
NextBlock(s) == s.byte % BLOCK_SIZE = 0 /\ s.n > 0

\* The two tests that end the loop of read_data early.
AtEnd(ino, offset, s) ==
  \/ s.n + offset > Inodes[ino].length
  \/ Inodes[ino].data_blocks[s.index] > NumDataBlocks

\* The loop of read_data: its state at the start, and a turn that copies a
\* byte.
LoopInit(offset) ==
  [n |-> 0, index |-> offset \div BLOCK_SIZE, byte |-> offset % BLOCK_SIZE,
   buf |-> <<>>, stop |-> FALSE]

CopyByte(ino, s) ==
  LET idx  == IF NextBlock(s) THEN s.index + 1 ELSE s.index
      byte == IF NextBlock(s) THEN 0 ELSE s.byte
  IN  [n |-> s.n + 1, index |-> idx, byte |-> byte + 1,
       buf |-> Append(s.buf, <<Inodes[ino].data_blocks[idx], byte>>),
       stop |-> FALSE]

Turn(ino, offset, s) ==
  IF s.stop \/ AtEnd(ino, offset, s) THEN [s EXCEPT !.stop = TRUE]
  ELSE CopyByte(ino, s)

\* read_data: the bytes it puts into the buffer.  iter[i] is the state of its
\* loop after i turns.
read_data(ino, offset, length) ==
  LET iter[i \in 0 .. length] ==
        IF i = 0 THEN LoopInit(offset) ELSE Turn(ino, offset, iter[i - 1])
  IN  iter[length].buf

-----------------------------------------------------------------------------
(* The process starts with what execute puts into its PCB. *)

Stdin == [Free EXCEPT !.in_use = TRUE, !.optbl = "stdio"]

Init ==
  /\ file_array = [fd \in Fd |-> IF fd \in Stdio THEN Stdin ELSE Free]
  /\ args \in ArgLengths
  /\ last = Call("execute", -1, 0)
  /\ got = [fd \in Fd |-> <<>>]

\* get_free_fd takes the least of these.
FreeFd == {fd \in Fd \ Stdio : ~file_array[fd].in_use}

Least(S) == CHOOSE x \in S : \A y \in S : x <= y

Fail(op, fd) ==
  /\ last' = Call(op, fd, -1)
  /\ UNCHANGED <<file_array, args, got>>

\* The file exists and has a type that open knows, and a descriptor is free.
CanOpen(name) ==
  /\ HasName(name)
  /\ read_dentry_by_name(name).ftype \in {FtypeRtc, FtypeDir, FtypeFile}
  /\ FreeFd # {}

\* open, with rtc_open, dir_open and file_open: only file_open sets inode and
\* pos of the descriptor.
Open(name) ==
  IF CanOpen(name)
  THEN LET d  == read_dentry_by_name(name)
           fd == Least(FreeFd)
       IN  /\ file_array' =
                [file_array EXCEPT ![fd] =
                   CASE d.ftype = FtypeRtc ->
                          [@ EXCEPT !.in_use = TRUE, !.optbl = "rtc"]
                     [] d.ftype = FtypeDir ->
                          [@ EXCEPT !.in_use = TRUE, !.optbl = "dir"]
                     [] OTHER ->
                          [in_use |-> TRUE, optbl |-> "file",
                           inode |-> d.inode_num, pos |-> 0]]
           /\ last' = Call("open", fd, fd)
           /\ got' = [got EXCEPT ![fd] = <<>>]
           /\ UNCHANGED args
  ELSE Fail("open", -1)

\* file_read adds what read_data returned to the position.
Advance(pos, buf, n) == pos + Len(buf)

\* Mutant: descriptors of the same file share a position.
ReadFile_shared(fd, n) ==
  LET f   == file_array[fd]
      buf == read_data(f.inode, f.pos, n)
  IN  /\ file_array' = [g \in Fd |->
           IF file_array[g].inode = f.inode
           THEN [file_array[g] EXCEPT !.pos = f.pos + Len(buf)]
           ELSE file_array[g]]
      /\ last' = Call("read", fd, Len(buf))
      /\ got' = [got EXCEPT ![fd] = @ \o buf]
      /\ UNCHANGED args

ReadFile(fd, n) ==
  LET f   == file_array[fd]
      buf == read_data(f.inode, f.pos, n)
  IN  /\ file_array' = [file_array EXCEPT ![fd].pos = Advance(@, buf, n)]
      /\ last' = Call("read", fd, Len(buf))
      /\ got' = [got EXCEPT ![fd] = @ \o buf]
      /\ UNCHANGED args

\* dir_read returns the length of the name, which is 0 only for no name.
ReadDir(fd) ==
  LET pos  == file_array[fd].pos
      name == read_dentry_by_index(pos).fname
  IN  IF pos > Len(Dentries)
      THEN /\ last' = Call("read", fd, 0)
           /\ UNCHANGED <<file_array, args, got>>
      ELSE /\ file_array' = [file_array EXCEPT ![fd].pos = @ + 1]
           /\ last' = Call("read", fd, IF name = NoName THEN 0 ELSE 1)
           /\ got' = [got EXCEPT ![fd] =
                        IF name = NoName THEN @ ELSE Append(@, name)]
           /\ UNCHANGED args

\* The terminal and the RTC leave the descriptor alone.
ReadDevice(fd) ==
  /\ last' = Call("read", fd, 0)
  /\ UNCHANGED <<file_array, args, got>>

Read(fd, n) ==
  CASE ~file_array[fd].in_use -> Fail("read", fd)
    [] file_array[fd].in_use /\ file_array[fd].optbl = "file" -> ReadFile(fd, n)
    [] file_array[fd].in_use /\ file_array[fd].optbl = "dir" -> ReadDir(fd)
    [] OTHER -> ReadDevice(fd)

\* write: files and directories refuse, the terminal takes everything, the RTC
\* a rate, which has four bytes.
Write(fd, n) ==
  IF /\ file_array[fd].in_use
     /\ \/ file_array[fd].optbl = "stdio"
        \/ file_array[fd].optbl = "rtc" /\ n = 4
  THEN /\ last' = Call("write", fd, n)
       /\ UNCHANGED <<file_array, args, got>>
  ELSE Fail("write", fd)

\* close: what the four close functions allow.
Closable(fd) == file_array[fd].in_use /\ fd \notin Stdio

Close(fd) ==
  IF Closable(fd)
  THEN /\ file_array' = [file_array EXCEPT ![fd].in_use = FALSE]
       /\ last' = Call("close", fd, 0)
       /\ got' = [got EXCEPT ![fd] = <<>>]
       /\ UNCHANGED args
  ELSE Fail("close", fd)

\* getargs copies the argument string only if there is one and it fits.
GetArgs(n) ==
  IF n # 0 /\ args # 0 /\ n >= args
  THEN /\ last' = Call("getargs", -1, 0)
       /\ UNCHANGED <<file_array, args, got>>
  ELSE Fail("getargs", -1)

\* halt clears all descriptors, and a later execute that gets the same PCB
\* sets up the terminal and the arguments and nothing else.
HaltAndExecute ==
  /\ file_array' = [fd \in Fd |-> IF fd \in Stdio THEN Stdin ELSE Free]
  /\ args' \in ArgLengths
  /\ last' = Call("execute", -1, 0)
  /\ got' = [fd \in Fd |-> <<>>]

Next ==
  \/ \E name \in Names : Open(name)
  \/ \E fd \in Fd, n \in Sizes : Read(fd, n)
  \/ \E fd \in Fd, n \in Sizes : Write(fd, n)
  \/ \E fd \in Fd : Close(fd)
  \/ \E n \in Sizes : GetArgs(n)
  \/ HaltAndExecute

Spec == Init /\ [][Next]_vars

-----------------------------------------------------------------------------
(* Properties *)

Contents(ino) ==
  [k \in 1 .. Inodes[ino].length |->
     <<Inodes[ino].data_blocks[(k - 1) \div BLOCK_SIZE], (k - 1) % BLOCK_SIZE>>]

IsPrefix(s, t) == Len(s) <= Len(t) /\ SubSeq(t, 1, Len(s)) = s

Opened(fd, op) == file_array[fd].in_use /\ file_array[fd].optbl = op

\* However a program cuts a file into reads, across block boundaries, what it
\* gets is the file from the start, in order and without gaps, and at most one
\* byte more (read_data, file_read).
ReadsInOrder ==
  \A fd \in Fd : Opened(fd, "file") =>
    LET c == Contents(file_array[fd].inode)
    IN  \/ IsPrefix(got[fd], c)
        \/ Len(got[fd]) = Len(c) + 1 /\ IsPrefix(c, got[fd])

\* The position of an open file is the number of bytes that its reads have
\* returned, so a read that returns 0 can only mean the end or a count of 0.
PosIsCount ==
  \A fd \in Fd : Opened(fd, "file") => file_array[fd].pos = Len(got[fd])

\* A call on one descriptor leaves the others as they are, and open leaves every
\* descriptor in use as it is, which it could not if it had no free one and did
\* not notice (get_free_fd).
OtherFdsUntouched ==
  [][\A fd \in Fd :
       /\ file_array[fd].in_use /\ last'.op # "execute"
       /\ last'.op = "open" \/ fd # last'.fd
       => file_array'[fd] = file_array[fd] /\ got'[fd] = got[fd]]_vars

\* The terminal stays open through every sequence of calls (stdio close).
StdioOpen == \A fd \in Stdio : Opened(fd, "stdio")

\* "reads the files contents until end of file is reached": no read returns
\* more bytes than the file has.
StopsAtEndOfFile ==
  \A fd \in Fd : Opened(fd, "file") =>
    Len(got[fd]) <= Inodes[file_array[fd].inode].length

\* "successive calls read next directory entry name until no more exist": what
\* an open directory has returned so far is the beginning of the directory.
ListsDirectory ==
  \A fd \in Fd : Opened(fd, "dir") =>
    IsPrefix(got[fd], [i \in DOMAIN Dentries |-> Dentries[i].fname])

\* What an open directory has returned is a run of consecutive entries that
\* ends where its position stands (dir_read, read_dentry_by_index).
DirInOrder ==
  \A fd \in Fd : Opened(fd, "dir") =>
    LET to == IF file_array[fd].pos < Len(Dentries) THEN file_array[fd].pos
              ELSE Len(Dentries)
    IN  got[fd] = [i \in 1 .. Len(got[fd]) |->
                     Dentries[to - Len(got[fd]) + i].fname]

\* What programs get of files is right, in all its parts: bytes in order, a
\* position that counts them, and the terminal's descriptors still in place,
\* through every sequence of calls that runs out of descriptors and reuses them.
FilesAsRead == TypeOK /\ StdioOpen /\ PosIsCount /\ ReadsInOrder

=============================================================================
