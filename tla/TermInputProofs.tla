--------------------------- MODULE TermInputProofs ---------------------------
(***************************************************************************)
(* Proofs about reading lines: for any terminals, characters, lengths and  *)
(* size of kbuf.  As in the run, the timer does not interrupt the echo of  *)
(* a key, and no read asks for a single byte, for which the handler's test *)
(* for a full line never succeeds.                                         *)
(***************************************************************************)
EXTENDS TermInput, SequenceTheorems, TLAPS

\* The hypotheses of the theorems: an echo that is not interrupted, reads of
\* two bytes at least.
Undisturbed == ~EchoTicks /\ \A n \in Lens : n >= 2

\* A read asks for a number of bytes that kbuf has room for.
LEMMA LensNat == Lens \subseteq Nat /\ \A n \in Lens : n < KBUF_LEN
<1>1. Lens \subseteq 1 .. KBUF_LEN - 1 /\ KBUF_LEN \in Nat
  BY TermAssumption, Zenon
<1> QED
  BY <1>1

-----------------------------------------------------------------------------
(* The handler on a record and its buffer. *)

Cell == Chars \cup {NUL, LF, "stack"}

USE DEF Index, Input, Key

\* A key leaves the record a record.
LEMMA AfterType ==
  ASSUME NEW in \in Input, NEW k \in Key
  PROVE  After(in, k) \in Input
<1>1. AfterEnter(in) \in Input
  BY DEF AfterEnter
<1>2. AfterBackspace(in) \in Input
  BY DEF AfterBackspace
<1>3. AfterChar(in) \in Input
  <2>1. [in EXCEPT !.next = @ + 1] \in Input
    OBVIOUS
  <2>2. [in EXCEPT !.complete = TRUE] \in Input
    OBVIOUS
  <2> QED
    BY <2>1, <2>2, Zenon DEF AfterChar
<1> QED
  BY <1>1, <1>2, <1>3 DEF After

\* A store leaves the buffer a buffer.
LEMMA StoreType ==
  ASSUME NEW b \in [Index -> Cell], NEW i, NEW c \in Cell
  PROVE  Store(b, i, c) \in [Index -> Cell]
BY DEF Store

\* A key leaves the buffer a buffer.
LEMMA StoresType ==
  ASSUME NEW in \in Input, NEW b \in [Index -> Cell], NEW k \in Key
  PROVE  Stores(in, b, k) \in [Index -> Cell]
<1>1. \A i : EndLine(b, i) \in [Index -> Cell]
  BY StoreType DEF EndLine, Cell
<1>2. EnterStores(in, b) \in [Index -> Cell]
  BY <1>1 DEF EnterStores
<1>3. k \in Chars => CharStores(in, b, k) \in [Index -> Cell]
  BY <1>1, StoreType DEF CharStores, Cell
<1> QED
  BY <1>2, <1>3 DEF Stores

\* The record of a read of n bytes has room for the newline and the
\* terminator.
Room(in, n) == in.buffer_length = n /\ in.next + 2 <= n

\* A key never takes that room: the test for a full line comes in time.
LEMMA RoomKept ==
  ASSUME NEW in \in Input, NEW n \in Nat, NEW k \in Key, Room(in, n)
  PROVE  Room(After(in, k), n)
<1>1. Room(AfterEnter(in), n)
  BY DEF Room, AfterEnter
<1>2. Room(AfterBackspace(in), n)
  BY DEF Room, AfterBackspace
<1>3. Room(AfterChar(in), n)
  BY DEF Room, AfterChar, Full
<1> QED
  BY <1>1, <1>2, <1>3 DEF After

-----------------------------------------------------------------------------
(* Type correctness. *)

\* What a key changes in the line that the user sees.
LEMMA TypedType ==
  ASSUME NEW t \in Term, NEW k \in Key,
         line \in [Term -> [text : Seq(Chars), open : BOOLEAN]]
  PROVE  Typed(t, k) \in [text : Seq(Chars), open : BOOLEAN]
<1> DEFINE ln == line[t]
<1>1. ln \in [text : Seq(Chars), open : BOOLEAN]
  OBVIOUS
<1>2. [ln EXCEPT !.open = FALSE] \in [text : Seq(Chars), open : BOOLEAN]
  BY <1>1
<1>3. \A s \in Seq(Chars) :
        [ln EXCEPT !.text = s] \in [text : Seq(Chars), open : BOOLEAN]
  BY <1>1
<1>4. SubSeq(ln.text, 1, Len(ln.text) - 1) \in Seq(Chars)
  <2> DEFINE s == ln.text
             m == Len(s) - 1
  <2>1. s \in Seq(Chars) /\ m \in Int /\ \A i \in 1 .. m : s[i] \in Chars
    BY <1>1
  <2> HIDE DEF m, s
  <2>2. SubSeq(s, 1, m) \in Seq(Chars)
    BY <2>1, SubSeqProperties
  <2> QED
    BY <2>2 DEF m, s
<1>5. k \notin {LF, BS} => Append(ln.text, k) \in Seq(Chars)
  BY <1>1
<1> HIDE DEF ln
<1>6. Typed(t, k) =
        IF ~ln.open THEN ln
        ELSE CASE k = LF -> [ln EXCEPT !.open = FALSE]
               [] k = BS -> [ln EXCEPT !.text = SubSeq(@, 1, Len(@) - 1)]
               [] OTHER  -> IF Len(ln.text) = nbytes[t] - 2
                            THEN [ln EXCEPT !.open = FALSE]
                            ELSE [ln EXCEPT !.text = Append(@, k)]
  BY DEF Typed, ln
<1>7. CASE ~ln.open
  BY <1>1, <1>6, <1>7
<1>8. CASE ln.open /\ k = LF
  BY <1>2, <1>6, <1>8 DEF LF, BS
<1>9. CASE ln.open /\ k # LF /\ k = BS
  BY <1>3, <1>4, <1>6, <1>9
<1>10. CASE ln.open /\ k \notin {LF, BS}
  BY <1>2, <1>3, <1>5, <1>6, <1>10
<1> QED
  BY <1>7, <1>8, <1>9, <1>10

\* Types, for every action and whatever interrupts the echo.
LEMMA TypeInvariance == Spec => []TypeOK
<1>1. Init => TypeOK
  <2> SUFFICES ASSUME Init PROVE TypeOK
    OBVIOUS
  <2>1. NoInput \in Input
    BY DEF NoInput
  <2>2. isr \in [on : BOOLEAN, host : Term, key : Key, copy : Input]
    BY <2>1 DEF Init, Idle
  <2>3. (CHOOSE n \in Lens : TRUE) \in Lens
    BY TermAssumption
  <2>4. [text |-> <<>>, open |-> FALSE] \in [text : Seq(Chars), open : BOOLEAN]
    OBVIOUS
  <2>5. fault \in BOOLEAN /\ rpc \in [Term -> {"user", "length", "next",
                                              "complete", "poll"}]
    BY DEF Init
  <2>6. kbuf \in [Term -> [Index -> Chars \cup {NUL, LF, "stack"}]]
    BY DEF Init
  <2>7. /\ nbytes \in [Term -> Lens] /\ input \in [Term -> Input]
        /\ line \in [Term -> [text : Seq(Chars), open : BOOLEAN]]
    BY <2>1, <2>3, <2>4, Zenon DEF Init
  <2> QED
    BY <2>2, <2>5, <2>6, <2>7, Zenon DEF Init, TypeOK
<1>2. ASSUME TypeOK, [Next]_vars
      PROVE  TypeOK'
  <2> USE <1>2 DEF TypeOK
  <2>0. \A t \in Term : nbytes[t] \in Nat
    BY LensNat
  <2>1. ASSUME NEW t \in Term, NEW n \in Lens, ReadStart(t, n) PROVE TypeOK'
    <3>1. input' \in [Term -> Input]
      BY <2>1 DEF ReadStart
    <3>2. kbuf' \in [Term -> [Index -> Chars \cup {NUL, LF, "stack"}]]
      BY <2>1 DEF ReadStart
    <3> QED
      BY <2>1, <3>1, <3>2 DEF ReadStart, Runs
  <2>2. ASSUME NEW t \in Term, SetLength(t) PROVE TypeOK'
    BY <2>0, <2>2 DEF SetLength, Runs
  <2>3. ASSUME NEW t \in Term, SetNext(t) PROVE TypeOK'
    BY <2>3 DEF SetNext, Runs
  <2>4. ASSUME NEW t \in Term, ClearComplete(t) PROVE TypeOK'
    <3>1. line' \in [Term -> [text : Seq(Chars), open : BOOLEAN]]
      <4>1. [text |-> <<>>, open |-> TRUE] \in [text : Seq(Chars), open : BOOLEAN]
        OBVIOUS
      <4> QED
        BY <2>4, <4>1, Zenon DEF ClearComplete
    <3>2. input' \in [Term -> Input]
      BY <2>4 DEF ClearComplete
    <3> QED
      BY <2>4, <3>1, <3>2 DEF ClearComplete, Runs
  <2>5. ASSUME NEW t \in Term, ReadReturn(t) PROVE TypeOK'
    <3>1. kbuf' \in [Term -> [Index -> Chars \cup {NUL, LF, "stack"}]]
      BY <2>5 DEF ReadReturn
    <3> QED
      BY <2>5, <3>1 DEF ReadReturn, Runs
  <2>6. ASSUME NEW k \in Key, KeyStart(k) PROVE TypeOK'
    <3>1. line' \in [Term -> [text : Seq(Chars), open : BOOLEAN]]
      BY <2>6, TypedType DEF KeyStart
    <3>2. isr' \in [on : BOOLEAN, host : Term, key : Key, copy : Input]
      BY <2>6 DEF KeyStart
    <3> QED
      BY <2>6, <3>1, <3>2 DEF KeyStart
  <2>7. CASE KeyEnd
    <3>1. CASE fault' = TRUE /\ UNCHANGED <<kbuf, input, isr>>
      BY <2>7, <3>1 DEF KeyEnd
    <3>2. CASE /\ kbuf' = [kbuf EXCEPT ![console] =
                             Stores(isr.copy, kbuf[console], isr.key)]
               /\ input' = [input EXCEPT ![console] = After(isr.copy, isr.key)]
               /\ isr' = Idle
               /\ UNCHANGED fault
      <4>1. kbuf' \in [Term -> [Index -> Chars \cup {NUL, LF, "stack"}]]
        BY <3>2, StoresType DEF Cell
      <4>2. input' \in [Term -> Input]
        BY <3>2, AfterType
      <4>3. isr' \in [on : BOOLEAN, host : Term, key : Key, copy : Input]
        <5>1. NoInput \in Input
          BY DEF NoInput
        <5> QED
          BY <3>2, <5>1 DEF Idle
      <4> QED
        BY <2>7, <3>2, <4>1, <4>2, <4>3 DEF KeyEnd
    <3> QED
      BY <2>7, <3>1, <3>2 DEF KeyEnd
  <2>8. ASSUME NEW t \in Term, SwapConsole(t) PROVE TypeOK'
    BY <2>8 DEF SwapConsole
  <2>9. ASSUME NEW t \in Term, Switch(t) PROVE TypeOK'
    BY <2>9 DEF Switch
  <2>10. CASE UNCHANGED vars
    BY <2>10 DEF vars
  <2> QED
    BY <2>1, <2>2, <2>3, <2>4, <2>5, <2>6, <2>7, <2>8, <2>9, <2>10
    DEF Next, ReadStep
<1> QED
  BY <1>1, <1>2, PTL DEF Spec

-----------------------------------------------------------------------------
(* The buffer. *)

\* The handler works on a copy that is still the record: nothing else runs
\* between its two halves.
CopyIsFresh == isr.on => running = isr.host /\ isr.copy = input[console]

\* From the assignment of buffer_length on, the record is that of this read;
\* from the assignment of next on, it has room.
RoomInv ==
  \A t \in Term :
    /\ rpc[t] \in {"next", "complete", "poll"}
         => input[t].buffer_length = nbytes[t]
    /\ rpc[t] \in {"complete", "poll"} => input[t].next + 2 <= nbytes[t]

\* The inductive invariant.
BufferInv == CopyIsFresh /\ RoomInv

\* Each step keeps the copy fresh and the room.
LEMMA BufferStep ==
  ASSUME Undisturbed, TypeOK, BufferInv, [Next]_vars
  PROVE  BufferInv'
<1> USE DEF BufferInv, CopyIsFresh, RoomInv, TypeOK
<1>0. \A t \in Term : nbytes[t] \in Nat /\ nbytes[t] >= 2
  BY LensNat DEF Undisturbed
<1>1. ASSUME NEW t \in Term, NEW n \in Lens, ReadStart(t, n) PROVE BufferInv'
  BY <1>1 DEF ReadStart, Runs
<1>2. ASSUME NEW t \in Term, SetLength(t) PROVE BufferInv'
  BY <1>2 DEF SetLength, Runs
<1>3. ASSUME NEW t \in Term, SetNext(t) PROVE BufferInv'
  BY <1>0, <1>3 DEF SetNext, Runs
<1>4. ASSUME NEW t \in Term, ClearComplete(t) PROVE BufferInv'
  BY <1>4 DEF ClearComplete, Runs
<1>5. ASSUME NEW t \in Term, ReadReturn(t) PROVE BufferInv'
  BY <1>5 DEF ReadReturn, Runs
<1>6. ASSUME NEW k \in Key, KeyStart(k) PROVE BufferInv'
  BY <1>6 DEF KeyStart
<1>7. CASE KeyEnd
  <2>1. CASE fault' = TRUE /\ UNCHANGED <<kbuf, input, isr>>
    BY <1>7, <2>1 DEF KeyEnd
  <2>2. CASE /\ input' = [input EXCEPT ![console] = After(isr.copy, isr.key)]
             /\ isr' = Idle
    <3> DEFINE in == input[console]
               out == After(in, isr.key)
    <3>1. /\ UNCHANGED <<running, rpc, nbytes, console>>
          /\ in \in Input /\ isr.key \in Key /\ isr.copy = in
      BY <1>7 DEF KeyEnd
    <3>2. ~isr'.on
      BY <2>2 DEF Idle
    <3>3. in.buffer_length = nbytes[console] => out.buffer_length = nbytes[console]
      <4> HIDE DEF in
      <4> QED
        BY <3>1 DEF After, AfterEnter, AfterBackspace, AfterChar
    <3>4. Room(in, nbytes[console]) => Room(out, nbytes[console])
      BY <1>0, <3>1, RoomKept
    <3> HIDE DEF in, out
    <3>5. input' = [input EXCEPT ![console] = out]
      BY <2>2, <3>1 DEF out
    <3> QED
      BY <3>1, <3>2, <3>3, <3>4, <3>5 DEF Room, in
  <2> QED
    BY <1>7, <2>1, <2>2 DEF KeyEnd
<1>8. ASSUME NEW t \in Term, SwapConsole(t) PROVE BufferInv'
  BY <1>8 DEF SwapConsole
<1>9. ASSUME NEW t \in Term, Switch(t) PROVE BufferInv'
  BY <1>9 DEF Switch, Undisturbed
<1>10. CASE UNCHANGED vars
  BY <1>10 DEF vars
<1> QED
  BY <1>1, <1>2, <1>3, <1>4, <1>5, <1>6, <1>7, <1>8, <1>9, <1>10
  DEF Next, ReadStep

\* No key is ever stored outside the buffer of its read, whichever assignment
\* of console_getinput it comes after, even before a terminal's first read.
THEOREM BufferCorrect == ASSUME Undisturbed PROVE Spec => []BufferSafe
<1>1. Init => BufferInv
  BY DEF Init, BufferInv, CopyIsFresh, RoomInv, Idle
<1>2. TypeOK /\ BufferInv /\ [Next]_vars => BufferInv'
  BY BufferStep
<1>3. TypeOK /\ BufferInv => BufferSafe
  BY DEF BufferSafe, BufferInv, RoomInv, InBounds
<1> QED
  BY <1>1, <1>2, <1>3, TypeInvariance, PTL DEF Spec

-----------------------------------------------------------------------------
(* The line. *)

\* Record "in" and buffer b hold the line ln, of a read of n bytes: its
\* characters, and once it is ended a newline behind them.
Agree(in, b, ln, n) ==
  /\ in.buffer /\ Room(in, n)
  /\ in.next = Len(ln.text) /\ (in.complete <=> ~ln.open)
  /\ \A i \in 0 .. in.next - 1 : b[i] = ln.text[i + 1]
  /\ ~ln.open => b[in.next] = LF

\* The end of a line is stored inside the buffer and behind the characters.
LEMMA EndLineStores ==
  ASSUME NEW b \in [Index -> Cell], NEW i \in Nat, i + 2 < KBUF_LEN,
         KBUF_LEN \in Nat
  PROVE  /\ EndLine(b, i)[i] = LF
         /\ \A j \in 0 .. i - 1 : EndLine(b, i)[j] = b[j]
<1>1. i \in Index /\ i + 1 \in Index
  OBVIOUS
<1> QED
  BY <1>1 DEF EndLine, Store

\* What the user expects of a key is what the handler does.
LEMMA KeyAgrees ==
  ASSUME NEW in \in Input, NEW b \in [Index -> Cell], NEW k \in Key,
         NEW t \in Term,
         line \in [Term -> [text : Seq(Chars), open : BOOLEAN]],
         nbytes[t] \in Nat, nbytes[t] >= 2, nbytes[t] < KBUF_LEN,
         Agree(in, b, line[t], nbytes[t])
  PROVE  Agree(After(in, k), Stores(in, b, k), Typed(t, k), nbytes[t])
<1> DEFINE n == nbytes[t]
           ln == line[t]
<1>1. /\ ln \in [text : Seq(Chars), open : BOOLEAN]
      /\ ln.text \in Seq(Chars) /\ Len(ln.text) \in Nat
      /\ n \in Nat /\ n >= 2 /\ n < KBUF_LEN
      /\ Agree(in, b, ln, n)
  OBVIOUS
<1>2. KBUF_LEN \in Nat
  BY TermAssumption, Zenon
<1>3. Typed(t, k) =
        IF ~ln.open THEN ln
        ELSE CASE k = LF -> [ln EXCEPT !.open = FALSE]
               [] k = BS -> [ln EXCEPT !.text = SubSeq(@, 1, Len(@) - 1)]
               [] OTHER  -> IF Len(ln.text) = n - 2
                            THEN [ln EXCEPT !.open = FALSE]
                            ELSE [ln EXCEPT !.text = Append(@, k)]
  BY DEF Typed
<1> HIDE DEF n, ln
<1>4. /\ in.next \in Nat /\ in.buffer_length = n /\ in.next + 2 <= n
      /\ in.next = Len(ln.text)
  BY <1>1 DEF Agree, Room
<1>5. EndLine(b, in.next)[in.next] = LF
      /\ \A j \in 0 .. in.next - 1 : EndLine(b, in.next)[j] = b[j]
  <2>1. in.next \in Nat /\ in.next + 2 < KBUF_LEN
    BY <1>1, <1>2, <1>4
  <2> QED
    BY <1>2, <2>1, EndLineStores
<1>6. LF # BS /\ LF \notin Chars /\ BS \notin Chars
  BY TermAssumption, Zenon DEF LF, BS
<1>7. CASE k = LF
  <2>1. Stores(in, b, k) = EndLine(b, in.next)
    BY <1>4, <1>1, <1>6, <1>7 DEF Stores, EnterStores
  <2>2. After(in, k) = [in EXCEPT !.complete = TRUE]
    BY <1>6, <1>7 DEF After, AfterEnter
  <2>3. Typed(t, k) = [ln EXCEPT !.open = FALSE]
    BY <1>1, <1>3, <1>6, <1>7
  <2>4. Room(After(in, k), n)
    BY <1>4, <2>2 DEF Room
  <2>5. /\ After(in, k).next = in.next /\ After(in, k).complete
        /\ After(in, k).buffer
    BY <1>1, <2>2 DEF Agree
  <2>6. Typed(t, k).text = ln.text /\ ~Typed(t, k).open
    BY <1>1, <2>3
  <2>7. \A i \in 0 .. in.next - 1 : EndLine(b, in.next)[i] = ln.text[i + 1]
    BY <1>1, <1>5 DEF Agree
  <2> QED
    BY <1>4, <1>5, <2>1, <2>4, <2>5, <2>6, <2>7 DEF Agree, n
<1>8. CASE k # LF /\ ~ln.open
  <2>1. in.complete
    BY <1>1, <1>8 DEF Agree
  <2>2. Stores(in, b, k) = b /\ After(in, k) = in /\ Typed(t, k) = ln
    BY <1>3, <1>8, <2>1 DEF Stores, CharStores, After, AfterBackspace, AfterChar
  <2> QED
    BY <1>1, <2>2 DEF n
<1>9. CASE k = BS /\ ln.open
  <2> DEFINE s == ln.text
             m == Len(s) - 1
             short == SubSeq(s, 1, m)
  <2>1. /\ ~in.complete /\ Stores(in, b, k) = b
        /\ Typed(t, k) = [ln EXCEPT !.text = short]
    BY <1>1, <1>3, <1>6, <1>9 DEF Agree, Stores
  <2>2. m \in Int /\ \A i \in 1 .. m : s[i] \in Chars
    BY <1>1
  <2>3. /\ short \in Seq(Chars)
        /\ Len(short) = IF 1 <= m THEN m - 1 + 1 ELSE 0
        /\ \A i \in 1 .. m - 1 + 1 : short[i] = s[1 + i - 1]
    <3> HIDE DEF m, s
    <3> QED
      BY <2>2, SubSeqProperties
  <2>4. \A i \in 0 .. in.next - 1 : b[i] = s[i + 1]
    BY <1>1 DEF Agree
  <2> HIDE DEF short
  <2>5. Typed(t, k).text = short /\ Typed(t, k).open
    BY <1>1, <1>9, <2>1
  <2>6. CASE in.next > 0
    <3>1. After(in, k) = [in EXCEPT !.next = @ - 1]
      BY <1>6, <1>9, <2>1, <2>6 DEF After, AfterBackspace
    <3>2. Room(After(in, k), n)
      BY <1>4, <3>1 DEF Room
    <3>3. Len(short) = in.next - 1
      BY <1>4, <2>3, <2>6
    <3>4. \A i \in 0 .. in.next - 2 : b[i] = short[i + 1]
      <4> TAKE i \in 0 .. in.next - 2
      <4>1. i + 1 \in 1 .. m - 1 + 1 /\ i \in 0 .. in.next - 1
        BY <1>4
      <4>2. short[i + 1] = s[i + 1]
        BY <2>3, <4>1
      <4> QED
        BY <2>4, <4>1, <4>2
    <3>5. After(in, k).next = in.next - 1 /\ ~After(in, k).complete
          /\ After(in, k).buffer
      BY <1>1, <2>1, <3>1 DEF Agree
    <3> QED
      BY <1>4, <2>1, <2>5, <3>2, <3>3, <3>4, <3>5 DEF Agree, n
  <2>7. CASE in.next = 0
    <3>1. After(in, k) = in
      BY <1>6, <1>9, <2>1, <2>7 DEF After, AfterBackspace
    <3>2. Len(short) = 0
      BY <1>4, <2>3, <2>7
    <3> QED
      BY <1>1, <1>4, <2>1, <2>5, <2>7, <3>1, <3>2 DEF Agree, n
  <2> QED
    BY <1>4, <2>6, <2>7
<1>10. CASE k \in Chars /\ ln.open
  <2>1. k # LF /\ k # BS /\ ~in.complete /\ in.buffer
    BY <1>1, <1>6, <1>10 DEF Agree
  <2>2. Full(in) <=> Len(ln.text) = n - 2
    BY <1>4 DEF Full
  <2>3. CASE Full(in)
    <3>1. Stores(in, b, k) = EndLine(b, in.next)
      BY <1>1, <1>4, <2>1, <2>3 DEF Stores, CharStores
    <3>2. After(in, k) = [in EXCEPT !.complete = TRUE]
      BY <2>1, <2>3 DEF After, AfterChar
    <3>3. Typed(t, k) = [ln EXCEPT !.open = FALSE]
      BY <1>3, <1>10, <2>1, <2>2, <2>3
    <3>4. Room(After(in, k), n)
      BY <1>4, <3>2 DEF Room
    <3>5. /\ After(in, k).next = in.next /\ After(in, k).complete
          /\ After(in, k).buffer
      BY <1>1, <3>2 DEF Agree
    <3>6. Typed(t, k).text = ln.text /\ ~Typed(t, k).open
      BY <1>1, <3>3
    <3>7. \A i \in 0 .. in.next - 1 : EndLine(b, in.next)[i] = ln.text[i + 1]
      BY <1>1, <1>5 DEF Agree
    <3> QED
      BY <1>4, <1>5, <3>1, <3>4, <3>5, <3>6, <3>7 DEF Agree, n
  <2>4. CASE ~Full(in)
    <3>1. Stores(in, b, k) = [b EXCEPT ![in.next] = k]
      <4>1. in.next \in Index
        BY <1>1, <1>2, <1>4
      <4> QED
        BY <2>1, <2>4, <4>1 DEF Stores, CharStores, Store
    <3>2. After(in, k) = [in EXCEPT !.next = @ + 1]
      BY <2>1, <2>4 DEF After, AfterChar
    <3> DEFINE long == Append(ln.text, k)
    <3>3. Typed(t, k) = [ln EXCEPT !.text = long]
      BY <1>3, <1>10, <2>1, <2>2, <2>4
    <3>4. /\ long \in Seq(Chars) /\ Len(long) = in.next + 1
          /\ long[in.next + 1] = k
          /\ \A i \in 1 .. in.next : long[i] = ln.text[i]
      BY <1>1, <1>4, <1>10, AppendProperties
    <3>5. Room(After(in, k), n)
      BY <1>4, <2>4, <3>2 DEF Room, Full
    <3> HIDE DEF long
    <3>6. \A i \in 0 .. in.next : Stores(in, b, k)[i] = long[i + 1]
      <4> TAKE i \in 0 .. in.next
      <4>1. i \in Index
        BY <1>1, <1>2, <1>4
      <4>2. CASE i = in.next
        BY <3>1, <3>4, <4>1, <4>2
      <4>3. CASE i < in.next
        <5>1. b[i] = ln.text[i + 1]
          BY <1>1, <1>4, <4>3 DEF Agree
        <5>2. Stores(in, b, k)[i] = b[i]
          BY <1>4, <3>1, <4>1, <4>3
        <5>3. i + 1 \in 1 .. in.next
          BY <1>4, <4>3
        <5> QED
          BY <3>4, <5>1, <5>2, <5>3
      <4> QED
        BY <1>4, <4>2, <4>3
    <3>7. /\ After(in, k).next = in.next + 1
          /\ ~After(in, k).complete /\ After(in, k).buffer
      BY <2>1, <3>2
    <3>8. Typed(t, k).text = long /\ Typed(t, k).open
      BY <1>1, <1>10, <3>3
    <3> QED
      BY <1>4, <3>4, <3>5, <3>6, <3>7, <3>8 DEF Agree, n
  <2> QED
    BY <2>3, <2>4
<1> QED
  BY <1>7, <1>8, <1>9, <1>10, <1>1

\* The inductive invariant, when keys are typed on a terminal only while a read
\* polls or its last line is still complete: between SetNext and the first poll
\* nothing is stored, and from then on record, buffer and line agree, if a key
\* is being handled then as the handler will leave them.
LineInv ==
  /\ isr.on => rpc[console] = "poll" \/ input[console].complete
  /\ \A t \in Term :
       /\ rpc[t] # "user" => input[t].buffer
       /\ rpc[t] = "complete" => input[t].next = 0
       /\ rpc[t] = "poll" =>
            IF isr.on /\ console = t
            THEN Agree(After(isr.copy, isr.key),
                       Stores(isr.copy, kbuf[t], isr.key), line[t], nbytes[t])
            ELSE Agree(input[t], kbuf[t], line[t], nbytes[t])

\* Each step keeps the line.
LEMMA LineStep ==
  ASSUME Undisturbed, ~EarlyKeys, TypeOK, BufferInv, LineInv, [Next]_vars
  PROVE  LineInv'
<1> USE DEF TypeOK
<1>0. \A t \in Term : nbytes[t] \in Nat /\ nbytes[t] >= 2 /\ nbytes[t] < KBUF_LEN
  BY LensNat DEF Undisturbed
<1>1. ASSUME NEW t \in Term, NEW n \in Lens, ReadStart(t, n) PROVE LineInv'
  <2>1. ~isr.on /\ ~isr'.on
    BY <1>1 DEF ReadStart, Runs, BufferInv, CopyIsFresh
  <2>2. /\ rpc' = [rpc EXCEPT ![t] = "length"]
        /\ input' = [input EXCEPT ![t].buffer = TRUE]
        /\ \A u \in Term : u # t => kbuf'[u] = kbuf[u] /\ nbytes'[u] = nbytes[u]
        /\ UNCHANGED line
    BY <1>1 DEF ReadStart, Runs
  <2>3. \A u \in Term : rpc'[u] # "user" => input'[u].buffer
    BY <2>2 DEF LineInv
  <2>4. ASSUME NEW u \in Term, rpc'[u] \in {"complete", "poll"}
        PROVE  /\ u # t /\ rpc'[u] = rpc[u] /\ input'[u] = input[u]
               /\ kbuf'[u] = kbuf[u] /\ nbytes'[u] = nbytes[u]
    BY <2>2, <2>4
  <2>5. ASSUME NEW u \in Term, rpc'[u] = "complete"
        PROVE  input'[u].next = 0
    <3>1. rpc[u] = "complete" /\ input'[u] = input[u]
      BY <2>4, <2>5
    <3>2. input[u].next = 0
      BY <3>1 DEF LineInv
    <3> QED
      BY <3>1, <3>2
  <2>6. ASSUME NEW u \in Term, rpc'[u] = "poll"
        PROVE  Agree(input'[u], kbuf'[u], line'[u], nbytes'[u])
    <3>1. /\ rpc[u] = "poll" /\ input'[u] = input[u] /\ line'[u] = line[u]
          /\ kbuf'[u] = kbuf[u] /\ nbytes'[u] = nbytes[u]
      BY <2>2, <2>4, <2>6
    <3>2. Agree(input[u], kbuf[u], line[u], nbytes[u])
      BY <2>1, <3>1 DEF LineInv
    <3> QED
      BY <3>1, <3>2
  <2> QED
    BY <2>1, <2>3, <2>5, <2>6 DEF LineInv
<1>2. ASSUME NEW t \in Term, SetLength(t) PROVE LineInv'
  <2>1. ~isr.on /\ ~isr'.on
    BY <1>2 DEF SetLength, Runs, BufferInv, CopyIsFresh
  <2>2. /\ rpc[t] = "length" /\ rpc' = [rpc EXCEPT ![t] = "next"]
        /\ input' = [input EXCEPT ![t].buffer_length = nbytes[t]]
        /\ UNCHANGED <<line, kbuf, nbytes>>
    BY <1>2 DEF SetLength, Runs
  <2> QED
    BY <2>1, <2>2 DEF LineInv
<1>3. ASSUME NEW t \in Term, SetNext(t) PROVE LineInv'
  <2>1. ~isr.on /\ ~isr'.on
    BY <1>3 DEF SetNext, Runs, BufferInv, CopyIsFresh
  <2>2. /\ rpc[t] = "next" /\ rpc' = [rpc EXCEPT ![t] = "complete"]
        /\ input' = [input EXCEPT ![t].next = 0]
        /\ UNCHANGED <<line, kbuf, nbytes>>
    BY <1>3 DEF SetNext, Runs
  <2> QED
    BY <2>1, <2>2 DEF LineInv
<1>4. ASSUME NEW t \in Term, ClearComplete(t) PROVE LineInv'
  <2>1. ~isr.on /\ ~isr'.on
    BY <1>4 DEF ClearComplete, Runs, BufferInv, CopyIsFresh
  <2>2. /\ rpc[t] = "complete" /\ rpc' = [rpc EXCEPT ![t] = "poll"]
        /\ input' = [input EXCEPT ![t].complete = FALSE]
        /\ line' = [line EXCEPT ![t] = [text |-> <<>>, open |-> TRUE]]
        /\ UNCHANGED <<kbuf, nbytes>>
    BY <1>4 DEF ClearComplete, Runs
  <2>3. input[t].buffer /\ input[t].next = 0 /\ input[t].buffer_length = nbytes[t]
    BY <2>2 DEF LineInv, BufferInv, RoomInv
  <2>4. Agree(input'[t], kbuf'[t], line'[t], nbytes'[t])
    <3>1. /\ input'[t].buffer /\ input'[t].next = 0 /\ ~input'[t].complete
          /\ input'[t].buffer_length = nbytes[t]
      BY <2>2, <2>3
    <3>2. line'[t].text = <<>> /\ line'[t].open /\ Len(<<>>) = 0
      BY <2>2
    <3>3. Room(input'[t], nbytes'[t])
      <4>1. nbytes'[t] = nbytes[t] /\ nbytes[t] >= 2 /\ nbytes[t] \in Nat
        BY <1>0, <2>2
      <4> QED
        BY <3>1, <4>1 DEF Room
    <3>4. 0 .. 0 - 1 = {}
      OBVIOUS
    <3> QED
      BY <3>1, <3>2, <3>3, <3>4 DEF Agree
  <2>5. \A u \in Term : u # t => input'[u] = input[u] /\ line'[u] = line[u]
    BY <2>2
  <2> QED
    BY <2>1, <2>2, <2>4, <2>5 DEF LineInv
<1>5. ASSUME NEW t \in Term, ReadReturn(t) PROVE LineInv'
  <2>1. ~isr.on /\ ~isr'.on
    BY <1>5 DEF ReadReturn, Runs, BufferInv, CopyIsFresh
  <2>2. /\ rpc' = [rpc EXCEPT ![t] = "user"]
        /\ \A u \in Term : u # t => kbuf'[u] = kbuf[u]
        /\ UNCHANGED <<input, line, nbytes>>
    BY <1>5 DEF ReadReturn, Runs
  <2> QED
    BY <2>1, <2>2 DEF LineInv
<1>6. ASSUME NEW k \in Key, KeyStart(k) PROVE LineInv'
  <2>1. /\ ~isr.on /\ (rpc[console] = "poll" \/ input[console].complete)
        /\ isr'.on /\ isr'.key = k /\ isr'.copy = input[console]
        /\ line' = [line EXCEPT ![console] = Typed(console, k)]
        /\ UNCHANGED <<rpc, nbytes, input, kbuf, console>>
    BY <1>6 DEF KeyStart
  <2>2. rpc[console] = "poll" =>
          Agree(After(input[console], k), Stores(input[console], kbuf[console], k),
                Typed(console, k), nbytes[console])
    <3> SUFFICES ASSUME rpc[console] = "poll"
                 PROVE  Agree(After(input[console], k),
                              Stores(input[console], kbuf[console], k),
                              Typed(console, k), nbytes[console])
      OBVIOUS
    <3>1. Agree(input[console], kbuf[console], line[console], nbytes[console])
      BY <2>1 DEF LineInv
    <3>2. input[console] \in Input /\ kbuf[console] \in [Index -> Cell]
      BY DEF Cell
    <3> QED
      BY <1>0, <3>1, <3>2, KeyAgrees
  <2>3. line'[console] = Typed(console, k)
        /\ \A u \in Term : u # console => line'[u] = line[u]
    BY <2>1
  <2> QED
    BY <2>1, <2>2, <2>3 DEF LineInv
<1>7. CASE KeyEnd
  <2>1. isr.on /\ isr.copy = input[console]
    BY <1>7 DEF KeyEnd, BufferInv, CopyIsFresh
  <2>2. CASE fault' = TRUE /\ UNCHANGED <<kbuf, input, isr>>
    BY <1>7, <2>2 DEF KeyEnd, LineInv
  <2>3. CASE /\ kbuf' = [kbuf EXCEPT ![console] =
                           Stores(isr.copy, kbuf[console], isr.key)]
             /\ input' = [input EXCEPT ![console] = After(isr.copy, isr.key)]
             /\ isr' = Idle
    <3>1. ~isr'.on /\ UNCHANGED <<rpc, nbytes, console, line>>
      BY <1>7, <2>3 DEF KeyEnd, Idle
    <3>2. /\ kbuf'[console] = Stores(isr.copy, kbuf[console], isr.key)
          /\ input'[console] = After(isr.copy, isr.key)
          /\ \A u \in Term : u # console => kbuf'[u] = kbuf[u] /\ input'[u] = input[u]
      BY <2>3
    <3>3. isr.copy.buffer => After(isr.copy, isr.key).buffer
      BY <2>1 DEF After, AfterEnter, AfterBackspace, AfterChar
    <3>4. isr.copy.complete => After(isr.copy, isr.key).next = isr.copy.next
      BY <2>1 DEF After, AfterEnter, AfterBackspace, AfterChar
    <3>5. ASSUME NEW u \in Term
          PROVE  /\ rpc'[u] # "user" => input'[u].buffer
                 /\ rpc'[u] = "complete" => input'[u].next = 0
                 /\ rpc'[u] = "poll" =>
                      Agree(input'[u], kbuf'[u], line'[u], nbytes'[u])
      <4>1. CASE u = console
        <5>1. rpc[u] = "complete" => isr.copy.complete /\ isr.copy.next = 0
          BY <2>1, <4>1 DEF LineInv
        <5>2. rpc[u] # "user" => isr.copy.buffer
          BY <2>1, <4>1 DEF LineInv
        <5>3. rpc[u] = "poll" => Agree(After(isr.copy, isr.key),
                Stores(isr.copy, kbuf[u], isr.key), line[u], nbytes[u])
          BY <2>1, <4>1 DEF LineInv
        <5> QED
          BY <3>1, <3>2, <3>3, <3>4, <4>1, <5>1, <5>2, <5>3
      <4>2. CASE u # console
        BY <3>1, <3>2, <4>2 DEF LineInv
      <4> QED
        BY <4>1, <4>2
    <3> QED
      BY <3>1, <3>5 DEF LineInv
  <2> QED
    BY <1>7, <2>2, <2>3 DEF KeyEnd
<1>8. ASSUME NEW t \in Term, SwapConsole(t) PROVE LineInv'
  BY <1>8 DEF SwapConsole, LineInv
<1>9. ASSUME NEW t \in Term, Switch(t) PROVE LineInv'
  BY <1>9 DEF Switch, LineInv
<1>10. CASE UNCHANGED vars
  BY <1>10 DEF vars, LineInv
<1> QED
  BY <1>1, <1>2, <1>3, <1>4, <1>5, <1>6, <1>7, <1>8, <1>9, <1>10
  DEF Next, ReadStep

\* A read that returns has the line in its buffer.
LEMMA ReturnsLine ==
  ASSUME Undisturbed, TypeOK, BufferInv, LineInv, NEW t \in Term, ReadReturn(t)
  PROVE  Returned(t) = Append(line[t].text, LF)
<1> USE DEF TypeOK
<1> DEFINE n == nbytes[t]
           in == input[t]
           s == line[t].text
           b == kbuf[t]
<1>1. n \in Nat /\ n >= 2 /\ n < KBUF_LEN
  BY LensNat DEF Undisturbed
<1>2. ~isr.on /\ rpc[t] = "poll" /\ in.complete
  BY DEF ReadReturn, Runs, BufferInv, CopyIsFresh
<1>3. Agree(in, b, line[t], n)
  BY <1>2 DEF LineInv
<1>4. /\ in.next \in Nat /\ in.buffer_length = n /\ in.next + 2 <= n
      /\ in.next = Len(s) /\ b[in.next] = LF /\ s \in Seq(Chars)
      /\ \A i \in 0 .. in.next - 1 : b[i] = s[i + 1]
  BY <1>2, <1>3 DEF Agree, Room
<1>5. KBUF_LEN \in Nat
  BY TermAssumption, Zenon
<1> DEFINE last == [b EXCEPT ![n - 1] = NUL]
           r == Append(s, LF)
           m == in.next
<1>6. Returned(t) = [i \in 1 .. m + 1 |-> last[i - 1]]
  BY <1>4 DEF Returned
<1>7. b \in [Index -> Cell] /\ m \in Nat /\ m + 2 <= n
      /\ b[m] = LF /\ s \in Seq(Chars) /\ Len(s) = m
      /\ \A i \in 0 .. m - 1 : b[i] = s[i + 1]
  BY <1>4 DEF Cell
<1> HIDE DEF TypeOK, n, s, b, m
<1>8. \A i \in 0 .. m : last[i] = b[i]
  <2> TAKE i \in 0 .. m
  <2>1. i \in Index
    BY <1>1, <1>5, <1>7
  <2>2. i # n - 1
    BY <1>1, <1>7
  <2> QED
    BY <1>7, <2>1, <2>2
<1>9. /\ r \in Seq(Chars \cup {LF}) /\ Len(r) = m + 1
      /\ \A i \in 1 .. m : r[i] = s[i]
      /\ r[m + 1] = LF
  <2>1. s \in Seq(Chars \cup {LF}) /\ Len(s) = m /\ LF \in Chars \cup {LF}
    BY <1>7
  <2>2. r \in Seq(Chars \cup {LF}) /\ Len(r) = m + 1
    BY <2>1
  <2>3. \A i \in 1 .. m : r[i] = s[i]
    BY <1>7, <2>1
  <2>4. r[m + 1] = LF
    BY <1>7, <2>1
  <2> QED
    BY <2>2, <2>3, <2>4, Zenon
<1> HIDE DEF last, r
<1>10. \A i \in 1 .. m + 1 : last[i - 1] = r[i]
  <2> TAKE i \in 1 .. m + 1
  <2>1. CASE i = m + 1
    <3>1. i - 1 = m /\ m \in 0 .. m
      BY <1>7, <2>1
    <3> QED
      BY <1>7, <1>8, <1>9, <2>1, <3>1
  <2>2. CASE i # m + 1
    <3>1. /\ i - 1 \in 0 .. m - 1 /\ i - 1 \in 0 .. m /\ (i - 1) + 1 = i
          /\ i \in 1 .. m
      BY <1>7, <2>2
    <3>2. last[i - 1] = b[i - 1] /\ r[i] = s[i]
      BY <1>8, <1>9, <3>1
    <3>3. b[i - 1] = s[i]
      BY <1>7, <3>1
    <3> QED
      BY <3>2, <3>3
  <2> QED
    BY <2>1, <2>2
<1>11. r = [i \in 1 .. m + 1 |-> r[i]]
  BY <1>9
<1>12. [i \in 1 .. m + 1 |-> last[i - 1]] = [i \in 1 .. m + 1 |-> r[i]]
  BY <1>10
<1> QED
  BY <1>6, <1>11, <1>12 DEF r, s

\* Every read returns the line that was typed since it began to poll, for any
\* number of terminals and whatever is typed on the others
\* (console_readline_w, console_inputhandler).
THEOREM LineCorrect ==
  ASSUME Undisturbed, ~EarlyKeys PROVE Spec => LineAsTyped
<1>1. Init => BufferInv /\ LineInv
  BY DEF Init, BufferInv, CopyIsFresh, RoomInv, LineInv, Idle
<1>2. TypeOK /\ BufferInv /\ LineInv /\ [Next]_vars => (BufferInv /\ LineInv)'
  BY BufferStep, LineStep
<1>3. ASSUME TypeOK, BufferInv, LineInv, [Next]_vars
      PROVE  [\A t \in Term : rpc[t] = "poll" /\ rpc'[t] = "user"
                => Returned(t) = Append(line[t].text, LF)]_vars
  <2> SUFFICES ASSUME NEW t \in Term, Next, rpc[t] = "poll", rpc'[t] = "user"
               PROVE  ReadReturn(t)
    BY <1>3, ReturnsLine
  <2> USE <1>3 DEF TypeOK
  <2>1. rpc' # rpc
    OBVIOUS
  <2>2. ~KeyEnd /\ (\A k \in Key : ~KeyStart(k))
        /\ \A u \in Term : ~SwapConsole(u) /\ ~Switch(u)
    BY <2>1 DEF KeyEnd, KeyStart, SwapConsole, Switch
  <2>3. \A u \in Term : /\ \A n \in Lens : ~ReadStart(u, n)
                        /\ ~SetLength(u) /\ ~SetNext(u) /\ ~ClearComplete(u)
    <3>1. \A u \in Term : \A n \in Lens : ~ReadStart(u, n)
      BY DEF ReadStart, Runs
    <3>2. \A u \in Term : ~SetLength(u) /\ ~SetNext(u)
      BY DEF SetLength, SetNext, Runs
    <3>3. \A u \in Term : ~ClearComplete(u)
      BY DEF ClearComplete, Runs
    <3> QED
      BY <3>1, <3>2, <3>3
  <2>4. \A u \in Term : ReadReturn(u) => u = t
    BY DEF ReadReturn, Runs
  <2> QED
    BY <2>2, <2>3, <2>4 DEF Next, ReadStep
<1> QED
  BY <1>1, <1>2, <1>3, TypeInvariance, PTL DEF Spec, LineAsTyped

=============================================================================
