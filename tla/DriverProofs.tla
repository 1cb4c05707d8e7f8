--------------------------- MODULE DriverProofs ---------------------------
(***************************************************************************)
(* Proofs about the two drivers that interrupts feed: the Tux controller's *)
(* line discipline of mp2 and, at the end, the RTC driver of the kernel.   *)
(*                                                                         *)
(* The line discipline, for every size of the rings, of the callback and   *)
(* of the serial driver's buffer.  The model's bounds are any numbers at   *)
(* all: bytes, chunks, losses and reopenings may be as many as one likes.  *)
(*                                                                         *)
(*   - A ring is what Contents says: to put a byte in appends to it, to    *)
(*     take bytes out drops its front, across the wrap of both indices.    *)
(*   - SendInv, for the way out: the four places where a byte may be are   *)
(*     each in order and follow each other, and together with the lost     *)
(*     bytes they are all that put accepted.                               *)
(*   - RecvInv, for the way in: from the first waiting byte on nothing is  *)
(*     missing but what is gone, every packet handled lies before the      *)
(*     waiting bytes, and every whole packet is handled or waits.          *)
(***************************************************************************)
EXTENDS TuxLdisc, Rtc, FiniteSetTheorems, SequenceTheorems,
        WellFoundedInduction, NaturalsInduction, TLAPS

\* The number of cells of a ring.
Size == TUXCTL_BUFSIZE

\* The sizes of the rings and of the line.
LEMMA Sizes == Size \in Nat /\ Size > 1 /\ ROOM \in Nat /\ ROOM > 0 /\ PACKETS \in Nat /\ PACKETS > 2
  BY SizeAssumption DEF Size

\* The smaller of two numbers, as the code's loops find it.
LEMMA MinPair ==
  ASSUME NEW a \in Int, NEW b \in Int
  PROVE  Min({a, b}) = IF a <= b THEN a ELSE b
<1>1. \E x \in {a, b} : \A y \in {a, b} : x <= y
  OBVIOUS
<1>2. PICK m : m = Min({a, b})
  OBVIOUS
<1>3. m \in {a, b} /\ \A y \in {a, b} : m <= y
  BY <1>1, <1>2 DEF Min
<1> QED
  BY <1>2, <1>3

\* An index that has passed the end of the ring at most once.
LEMMA Wrap ==
  ASSUME NEW x \in Nat, x < 2 * Size
  PROVE  x % Size = IF x < Size THEN x ELSE x - Size
<1>1. Size \in Nat /\ Size > 1
  BY Sizes
<1>2. CASE x < Size
  BY <1>1, <1>2
<1>3. CASE x >= Size
  BY <1>1, <1>3
<1> QED
  BY <1>1, <1>2, <1>3

\* The rings that the driver's buffers can be.
Ring == [buf : [0 .. Size - 1 -> Int], start : 0 .. Size - 1, end : 0 .. Size - 1]

\* A ring as tuxctl_ldisc_open makes it has nothing in it.
LEMMA EmptyRing == Empty \in Ring /\ Contents(Empty) = <<>>
<1>1. Empty \in Ring
  BY Sizes DEF Empty, Ring, Size
<1>2. buf_used(Empty) = 0
  BY DEF Empty, buf_used
<1>3. Contents(Empty) = [k \in 1 .. 0 |-> Empty.buf[(Empty.start + k - 1) % TUXCTL_BUFSIZE]]
  BY <1>2 DEF Contents
<1>4. Contents(Empty) = <<>>
  BY <1>3
<1> QED
  BY <1>1, <1>4

\* Byte k of a ring is in the cell k - 1 after the start, counted round.
LEMMA ContentsSeq ==
  ASSUME NEW r \in Ring
  PROVE  /\ buf_used(r) \in 0 .. Size - 1
         /\ Contents(r) \in Seq(Int) /\ Len(Contents(r)) = buf_used(r)
         /\ \A k \in 1 .. buf_used(r) :
              Contents(r)[k] = r.buf[IF r.start + k - 1 < Size THEN r.start + k - 1
                                     ELSE r.start + k - 1 - Size]
<1>1. buf_used(r) \in 0 .. Size - 1
  BY Sizes DEF buf_used, Ring, Size
<1>2. ASSUME NEW k \in 1 .. buf_used(r)
      PROVE  /\ (r.start + k - 1) % TUXCTL_BUFSIZE
                  = IF r.start + k - 1 < Size THEN r.start + k - 1 ELSE r.start + k - 1 - Size
             /\ (r.start + k - 1) % TUXCTL_BUFSIZE \in 0 .. Size - 1
  <2>0. r.start \in Nat /\ k \in Nat
    BY <1>1, Sizes DEF Ring
  <2>1. r.start + k - 1 \in Nat /\ r.start + k - 1 < 2 * Size
    BY <1>1, Sizes DEF Ring
  <2>2. (r.start + k - 1) % Size = IF r.start + k - 1 < Size THEN r.start + k - 1 ELSE r.start + k - 1 - Size
    <3> DEFINE x == r.start + k - 1
    <3>1. x \in Nat /\ x < 2 * Size
      BY <2>1
    <3> HIDE DEF x
    <3>2. x % Size = IF x < Size THEN x ELSE x - Size
      BY <3>1, Wrap
    <3> QED
      BY <1>1, <2>0, <3>2, Sizes DEF x
  <2> QED
    BY <2>1, <2>2, Sizes DEF Size
<1>3. r.buf \in [0 .. Size - 1 -> Int]
  BY DEF Ring
<1>4. \A k \in 1 .. buf_used(r) : r.buf[(r.start + k - 1) % TUXCTL_BUFSIZE] \in Int
  BY <1>2, <1>3
<1>5. Contents(r) \in [1 .. buf_used(r) -> Int]
  BY <1>4 DEF Contents
<1>6. Contents(r) \in Seq(Int) /\ Len(Contents(r)) = buf_used(r)
  BY <1>1, <1>5
<1>7. \A k \in 1 .. buf_used(r) :
        Contents(r)[k] = r.buf[(r.start + k - 1) % TUXCTL_BUFSIZE]
  BY DEF Contents
<1> QED
  BY <1>1, <1>2, <1>6, <1>7

\* The places of a ring with one byte more.
LEMMA PushPlaces ==
  ASSUME NEW s \in Nat, NEW a \in 0 .. s - 1, NEW z \in 0 .. s - 1,
         NEW u \in Int, u = (IF a <= z THEN z - a ELSE s + z - a), u < s - 1,
         NEW e \in Int, e = (IF z + 1 < s THEN z + 1 ELSE z + 1 - s)
  PROVE  /\ (IF a <= e THEN e - a ELSE s + e - a) = u + 1
         /\ \A k \in 1 .. u + 1 :
              LET x == IF a + k - 1 < s THEN a + k - 1 ELSE a + k - 1 - s
              IN x \in 0 .. s - 1 /\ (x = z <=> k = u + 1)
  OBVIOUS

\* A byte put into a ring that is not full comes after all the others; a full
\* ring has Size - 1 bytes.
LEMMA PushAppends ==
  ASSUME NEW r \in Ring, NEW b \in Int
  PROVE  /\ Push(r, b) \in Ring
         /\ buf_used(r) = Size - 1 => Push(r, b) = r
         /\ buf_used(r) < Size - 1 => Contents(Push(r, b)) = Append(Contents(r), b)
<1>1. /\ r.start \in 0 .. Size - 1 /\ r.end \in 0 .. Size - 1 /\ r.buf \in [0 .. Size - 1 -> Int]
      /\ Size \in Nat /\ Size > 1
  BY Sizes DEF Ring
<1>0. buf_used(r) = IF r.start <= r.end THEN r.end - r.start ELSE Size + r.end - r.start
  BY DEF buf_used, Size
<1>2. buf_incidx(r.end) = IF r.end + 1 < Size THEN r.end + 1 ELSE r.end + 1 - Size
  <2> DEFINE x == r.end + 1
  <2>1. x \in Nat /\ x < 2 * Size
    BY <1>1
  <2> HIDE DEF x
  <2>2. x % Size = IF x < Size THEN x ELSE x - Size
    BY <2>1, Wrap
  <2> QED
    BY <1>1, <2>2 DEF buf_incidx, Size, x
<1>3. buf_full(r) <=> buf_used(r) = Size - 1
  BY <1>1, <1>2 DEF buf_full, buf_used, Size
<1>4. buf_used(r) \in 0 .. Size - 1
  BY ContentsSeq
<1>5. CASE buf_used(r) = Size - 1
  BY <1>3, <1>4, <1>5 DEF Push
<1>6. CASE buf_used(r) < Size - 1
  <2> DEFINE buf == [r.buf EXCEPT ![r.end] = b]
             e == buf_incidx(r.end)
             q == Push(r, b)
  <2>1. q = [buf |-> buf, start |-> r.start, end |-> e]
    <3>1. q = [r EXCEPT !.buf = [@ EXCEPT ![r.end] = b], !.end = buf_incidx(@)]
      BY <1>1, <1>3, <1>4, <1>6 DEF Push
    <3> HIDE DEF q
    <3> QED
      BY <3>1 DEF Ring
  <2>2. buf \in [0 .. Size - 1 -> Int]
    BY <1>1
  <2>e. e \in 0 .. Size - 1 /\ e \in Int
    BY <1>1, <1>2
  <2>u. buf_used(r) \in Int /\ r.start \in 0 .. Size - 1 /\ r.end \in 0 .. Size - 1 /\ Size \in Nat
    BY <1>1, <1>4
  <2>3. q \in Ring /\ q.buf = buf /\ q.start = r.start /\ q.end = e
    BY <1>1, <2>1, <2>2, <2>e DEF Ring
  <2>4. buf_used(q) = buf_used(r) + 1
    <3>1. e = IF r.end + 1 < Size THEN r.end + 1 ELSE r.end + 1 - Size
      BY <1>2 DEF e
    <3> HIDE DEF e
    <3>2. buf_used(q) = IF r.start <= e THEN e - r.start ELSE Size + e - r.start
      BY <2>3 DEF buf_used, Size
    <3> HIDE DEF q
    <3>3. (IF r.start <= e THEN e - r.start ELSE Size + e - r.start) = buf_used(r) + 1
      BY <1>0, <1>6, <2>e, <2>u, <3>1, PushPlaces
    <3> QED
      BY <3>2, <3>3
  <2>5. ASSUME NEW k \in 1 .. buf_used(q)
        PROVE  Contents(q)[k] = IF k = buf_used(r) + 1 THEN b ELSE Contents(r)[k]
    <3> DEFINE x == IF r.start + k - 1 < Size THEN r.start + k - 1 ELSE r.start + k - 1 - Size
    <3>1. Contents(q)[k] = buf[x]
      BY <2>3, ContentsSeq
    <3>2. k <= buf_used(r) => Contents(r)[k] = r.buf[x]
      BY <2>4, <1>4, ContentsSeq
    <3>3. x \in 0 .. Size - 1 /\ (x = r.end <=> k = buf_used(r) + 1)
      <4>1. e = IF r.end + 1 < Size THEN r.end + 1 ELSE r.end + 1 - Size
        BY <1>2 DEF e
      <4> HIDE DEF q, e
      <4> QED
        BY <1>0, <1>6, <2>e, <2>u, <2>4, <4>1, PushPlaces
    <3> QED
      <4> HIDE DEF q, x
      <4> QED
        BY <1>1, <1>4, <2>4, <3>1, <3>2, <3>3
  <2>6. Contents(q) \in Seq(Int) /\ Len(Contents(q)) = buf_used(r) + 1
    BY <2>3, <2>4, ContentsSeq
  <2>7. Contents(r) \in Seq(Int) /\ Len(Contents(r)) = buf_used(r)
    BY ContentsSeq
  <2>8. Contents(q) = Append(Contents(r), b)
    <3> DEFINE c == Contents(q)
               d == Contents(r)
               n == buf_used(r)
    <3>1. /\ c \in Seq(Int) /\ d \in Seq(Int) /\ Len(c) = n + 1 /\ Len(d) = n /\ n \in Nat
          /\ \A k \in 1 .. n + 1 : c[k] = IF k = n + 1 THEN b ELSE d[k]
      BY <1>4, <2>4, <2>5, <2>6, <2>7
    <3> HIDE DEF c, d, n
    <3>2. c = Append(d, b)
      BY <3>1
    <3> QED
      BY <3>2 DEF c, d
  <2> HIDE DEF buf, e
  <2>9. buf_used(r) # Size - 1
    BY <1>1, <1>4, <1>6
  <2> QED
    BY <2>3, <2>8, <2>9, Zenon
<1>7. buf_used(r) = Size - 1 \/ buf_used(r) < Size - 1
  BY <1>1, <1>4
<1> QED
  BY <1>5, <1>6, <1>7, Zenon

-----------------------------------------------------------------------------
(* Sequences of bytes *)

\* The bytes of two sequences in a row.
LEMMA ConcatRange ==
  ASSUME NEW a \in Seq(Int), NEW b \in Seq(Int)
  PROVE  /\ a \o b \in Seq(Int) /\ Len(a \o b) = Len(a) + Len(b)
         /\ Range(a \o b) = Range(a) \cup Range(b)
<1> DEFINE c == a \o b
<1>1. /\ c \in Seq(Int) /\ Len(c) = Len(a) + Len(b) /\ Len(a) \in Nat /\ Len(b) \in Nat
      /\ \A i \in 1 .. Len(a) : c[i] = a[i]
      /\ \A i \in 1 .. Len(b) : c[Len(a) + i] = b[i]
      /\ DOMAIN a = 1 .. Len(a) /\ DOMAIN b = 1 .. Len(b) /\ DOMAIN c = 1 .. Len(c)
  OBVIOUS
<1> HIDE DEF c
<1>2. ASSUME NEW x \in Range(c) PROVE x \in Range(a) \cup Range(b)
  <2>1. PICK i \in 1 .. Len(c) : x = c[i]
    BY <1>1 DEF Range
  <2>2. CASE i <= Len(a)
    <3>1. i \in 1 .. Len(a)
      BY <1>1, <2>1, <2>2
    <3>2. x = a[i]
      BY <1>1, <2>1, <3>1
    <3> QED
      BY <1>1, <3>1, <3>2 DEF Range
  <2>3. CASE i > Len(a)
    <3>1. i - Len(a) \in 1 .. Len(b) /\ Len(a) + (i - Len(a)) = i
      BY <1>1, <2>3
    <3>2. x = b[i - Len(a)]
      BY <1>1, <2>1, <3>1
    <3> QED
      BY <1>1, <3>1, <3>2 DEF Range
  <2> QED
    BY <1>1, <2>2, <2>3
<1>3. ASSUME NEW x \in Range(a) PROVE x \in Range(c)
  BY <1>1 DEF Range
<1>4. ASSUME NEW x \in Range(b) PROVE x \in Range(c)
  <2>1. PICK i \in 1 .. Len(b) : x = b[i]
    BY <1>1 DEF Range
  <2>2. Len(a) + i \in 1 .. Len(c) /\ c[Len(a) + i] = x
    BY <1>1, <2>1
  <2> QED
    BY <1>1, <2>2 DEF Range
<1>5. Range(c) = Range(a) \cup Range(b)
  BY <1>2, <1>3, <1>4
<1> QED
  BY <1>1, <1>5 DEF c

\* All bytes of A precede all bytes of B.
Before(A, B) == \A x \in A, y \in B : x < y

\* Two sequences in a row are in order when the first precedes the second.
LEMMA IncreasingConcat ==
  ASSUME NEW a \in Seq(Int), NEW b \in Seq(Int)
  PROVE  Increasing(a \o b) <=>
           /\ Increasing(a) /\ Increasing(b) /\ Before(Range(a), Range(b))
<1> DEFINE c == a \o b
<1>1. /\ c \in Seq(Int) /\ Len(c) = Len(a) + Len(b) /\ Len(a) \in Nat /\ Len(b) \in Nat
      /\ \A i \in 1 .. Len(a) : c[i] = a[i]
      /\ \A i \in 1 .. Len(b) : c[Len(a) + i] = b[i]
      /\ DOMAIN a = 1 .. Len(a) /\ DOMAIN b = 1 .. Len(b) /\ DOMAIN c = 1 .. Len(c)
  OBVIOUS
<1>k. /\ Len(a) \in Nat /\ Len(b) \in Nat
      /\ DOMAIN a = 1 .. Len(a) /\ DOMAIN b = 1 .. Len(b) /\ DOMAIN c = 1 .. Len(a) + Len(b)
  BY <1>1
<1> HIDE DEF c
<1>2. ASSUME Increasing(c) PROVE Increasing(a) /\ Increasing(b) /\ Before(Range(a), Range(b))
  <2>1. Increasing(a)
    BY <1>1, <1>2 DEF Increasing
  <2>2. ASSUME NEW i \in 1 .. Len(b), NEW j \in 1 .. Len(b), i < j PROVE b[i] < b[j]
    <3>1. Len(a) + i \in DOMAIN c /\ Len(a) + j \in DOMAIN c /\ Len(a) + i < Len(a) + j
      <4>1. \A k \in 1 .. Len(b) : Len(a) + k \in 1 .. Len(a) + Len(b)
        BY <1>k
      <4>2. Len(a) + i \in DOMAIN c /\ Len(a) + j \in DOMAIN c
        BY <1>k, <4>1, Zenon
      <4> QED
        BY <1>k, <2>2, <4>2
    <3>2. c[Len(a) + i] < c[Len(a) + j]
      BY <1>2, <3>1 DEF Increasing
    <3> QED
      BY <1>1, <3>2
  <2>3. ASSUME NEW i \in 1 .. Len(a), NEW j \in 1 .. Len(b) PROVE a[i] < b[j]
    <3>1. i \in DOMAIN c /\ Len(a) + j \in DOMAIN c /\ i < Len(a) + j
      <4>1. \A k \in 1 .. Len(b) : Len(a) + k \in 1 .. Len(a) + Len(b)
        BY <1>k
      <4>2. i \in 1 .. Len(a) + Len(b) /\ i < Len(a) + j
        BY <1>k
      <4> QED
        BY <1>k, <4>1, <4>2, Zenon
    <3>2. c[i] < c[Len(a) + j]
      BY <1>2, <3>1 DEF Increasing
    <3> QED
      BY <1>1, <3>2
  <2>4. Increasing(b)
    BY <1>k, <2>2, Zenon DEF Increasing
  <2>5. Before(Range(a), Range(b))
    BY <1>k, <2>3, Zenon DEF Before, Range
  <2> QED
    BY <2>1, <2>4, <2>5
<1>3. ASSUME Increasing(a), Increasing(b), Before(Range(a), Range(b)) PROVE Increasing(c)
  <2> SUFFICES ASSUME NEW i \in 1 .. Len(c), NEW j \in 1 .. Len(c), i < j PROVE c[i] < c[j]
    BY <1>1 DEF Increasing
  <2>1. CASE j <= Len(a)
    <3>1. i \in 1 .. Len(a) /\ j \in 1 .. Len(a)
      BY <1>1, <2>1
    <3>2. c[i] = a[i] /\ c[j] = a[j]
      BY <1>1, <3>1
    <3> QED
      BY <1>1, <1>3, <3>1, <3>2 DEF Increasing
  <2>2. CASE i <= Len(a) /\ j > Len(a)
    <3>1. j - Len(a) \in 1 .. Len(b) /\ Len(a) + (j - Len(a)) = j /\ i \in 1 .. Len(a)
      BY <1>1, <2>2
    <3>2. c[i] = a[i] /\ c[j] = b[j - Len(a)]
      BY <1>1, <3>1
    <3>3. a[i] \in Range(a) /\ b[j - Len(a)] \in Range(b)
      BY <1>1, <3>1 DEF Range
    <3> QED
      BY <1>3, <3>2, <3>3 DEF Before
  <2>3. CASE i > Len(a)
    <3>1. /\ j - Len(a) \in 1 .. Len(b) /\ Len(a) + (j - Len(a)) = j
          /\ i - Len(a) \in 1 .. Len(b) /\ Len(a) + (i - Len(a)) = i
          /\ i - Len(a) < j - Len(a)
      BY <1>1, <2>3
    <3>2. c[i] = b[i - Len(a)] /\ c[j] = b[j - Len(a)]
      BY <1>1, <3>1
    <3> QED
      BY <1>1, <1>3, <3>1, <3>2 DEF Increasing
  <2> QED
    BY <1>1, <2>1, <2>2, <2>3
<1> QED
  BY <1>2, <1>3 DEF c

\* A sequence cut in two.
LEMMA Parts ==
  ASSUME NEW s \in Seq(Int), NEW n \in 0 .. Len(s)
  PROVE  /\ SubSeq(s, 1, n) \in Seq(Int) /\ Len(SubSeq(s, 1, n)) = n
         /\ SubSeq(s, n + 1, Len(s)) \in Seq(Int)
         /\ Len(SubSeq(s, n + 1, Len(s))) = Len(s) - n
         /\ s = SubSeq(s, 1, n) \o SubSeq(s, n + 1, Len(s))
<1>0. n \in Nat /\ Len(s) \in Nat /\ 1 \in 1 .. Len(s) + 1 /\ n \in 1 - 1 .. Len(s)
      /\ Len(s) \in n .. Len(s)
  OBVIOUS
<1>1. SubSeq(s, 1, n) \o SubSeq(s, n + 1, Len(s)) = SubSeq(s, 1, Len(s))
  BY <1>0, ConcatAdjacentSubSeq
<1>2. SubSeq(s, 1, Len(s)) = s
  BY SubSeqFull
<1>3. SubSeq(s, 1, n) \in Seq(Int) /\ Len(SubSeq(s, 1, n)) = n
  BY <1>0
<1>4. /\ SubSeq(s, n + 1, Len(s)) \in Seq(Int)
      /\ Len(SubSeq(s, n + 1, Len(s))) = Len(s) - n
  BY <1>0
<1> QED
  BY <1>1, <1>2, <1>3, <1>4

\* Three runs of bytes, joined either way.
LEMMA Associative ==
  ASSUME NEW a \in Seq(Int), NEW b \in Seq(Int), NEW c \in Seq(Int)
  PROVE  (a \o b) \o c = a \o (b \o c)
  BY SMTT(30)

\* One byte more, then the rest.
LEMMA AppendConcat ==
  ASSUME NEW a \in Seq(Int), NEW b \in Seq(Int), NEW x \in Int
  PROVE  Append(a \o b, x) = a \o (b \o <<x>>)
<1>1. <<x>> \in Seq(Int) /\ a \o b \in Seq(Int)
  OBVIOUS
<1>2. Append(a \o b, x) = (a \o b) \o <<x>>
  BY <1>1, AppendIsConcat
<1>3. (a \o b) \o <<x>> = a \o (b \o <<x>>)
  BY <1>1, Associative
<1> QED
  BY <1>2, <1>3

\* The empty run of bytes.
LEMMA NoBytes == <<>> \in Seq(Int) /\ Range(<<>>) = {} /\ Increasing(<<>>)
  BY DEF Range, Increasing

\* Both parts of a sequence in order are, and one precedes the other.
LEMMA PartsRange ==
  ASSUME NEW s \in Seq(Int), NEW n \in 0 .. Len(s)
  PROVE  /\ Range(s) = Range(SubSeq(s, 1, n)) \cup Range(SubSeq(s, n + 1, Len(s)))
         /\ Increasing(s) <=> /\ Increasing(SubSeq(s, 1, n))
                              /\ Increasing(SubSeq(s, n + 1, Len(s)))
                              /\ Before(Range(SubSeq(s, 1, n)),
                                        Range(SubSeq(s, n + 1, Len(s))))
<1> DEFINE a == SubSeq(s, 1, n)
           b == SubSeq(s, n + 1, Len(s))
<1>1. a \in Seq(Int) /\ b \in Seq(Int) /\ s = a \o b
  BY Parts
<1> HIDE DEF a, b
<1>2. Range(s) = Range(a) \cup Range(b)
  BY <1>1, ConcatRange
<1>3. Increasing(s) <=> Increasing(a) /\ Increasing(b) /\ Before(Range(a), Range(b))
  BY <1>1, IncreasingConcat
<1> QED
  BY <1>2, <1>3 DEF a, b

-----------------------------------------------------------------------------
(* Filling and emptying a ring *)

\* Induction over the lengths, as a least counterexample.
LEMMA LeastNat ==
  ASSUME NEW A \in SUBSET Nat, A # {}
  PROVE  \E i \in A : \A j \in A : i <= j
<1>1. IsWellFoundedOn(OpToRel(<, Nat), Nat)
  BY NatLessThanWellFounded
<1>2. PICK i \in A : \A j \in A : ~(<<j, i>> \in OpToRel(<, Nat))
  BY <1>1, WFMin, Zenon
<1>3. \A j \in A : ~(j < i)
  BY <1>2 DEF OpToRel
<1> QED
  BY <1>3

\* f is the recursive function of Fill, for the first m bytes.
Fills(f, r, bytes, m) ==
  f = [n \in 0 .. m |-> IF n = 0 THEN r ELSE Push(f[n - 1], bytes[n])]

\* There is such a function.
LEMMA FillsExist ==
  ASSUME NEW r, NEW bytes, NEW m \in Nat
  PROVE  \E f : Fills(f, r, bytes, m)
<1> DEFINE Bad == {k \in Nat : ~\E f : Fills(f, r, bytes, k)}
<1> SUFFICES ASSUME Bad # {} PROVE FALSE
  OBVIOUS
<1>1. PICK k \in Bad : \A j \in Bad : k <= j
  BY LeastNat
<1>2. CASE k = 0
  <2> DEFINE f == [n \in 0 .. 0 |-> r]
  <2>1. Fills(f, r, bytes, 0)
    BY DEF Fills
  <2> QED
    BY <1>1, <1>2, <2>1
<1>3. CASE k # 0
  <2>1. k - 1 \in Nat /\ k - 1 \notin Bad
    BY <1>1, <1>3
  <2>2. PICK f : Fills(f, r, bytes, k - 1)
    BY <2>1
  <2> DEFINE g == [n \in 0 .. k |-> IF n < k THEN f[n] ELSE Push(f[k - 1], bytes[k])]
  <2>3. ASSUME NEW n \in 0 .. k
        PROVE  g[n] = IF n = 0 THEN r ELSE Push(g[n - 1], bytes[n])
    <3>1. CASE n = 0
      <4>1. f[0] = r
        BY <2>1, <2>2 DEF Fills
      <4> QED
        BY <1>3, <3>1, <4>1
    <3>2. CASE n # 0 /\ n < k
      <4>1. n \in 0 .. k - 1 /\ n - 1 \in 0 .. k /\ n - 1 < k
        BY <3>2
      <4>2. f[n] = Push(f[n - 1], bytes[n])
        BY <2>2, <3>2, <4>1 DEF Fills
      <4> QED
        BY <3>2, <4>1, <4>2
    <3>3. CASE n = k
      <4>1. k - 1 \in 0 .. k /\ k - 1 < k
        BY <2>1
      <4> QED
        BY <1>3, <3>3, <4>1
    <3> QED
      BY <3>1, <3>2, <3>3
  <2>4. g = [n \in 0 .. k |-> g[n]]
    OBVIOUS
  <2> HIDE DEF g
  <2>5. Fills(g, r, bytes, k)
    BY <2>3, <2>4 DEF Fills
  <2> QED
    BY <1>1, <2>5
<1> QED
  BY <1>2, <1>3

\* How many of n bytes a ring has room for.
Fits(r, n) == IF n <= Size - 1 - buf_used(r) THEN n ELSE Size - 1 - buf_used(r)

\* Of n bytes those that fit have come after what was there.
Filled(q, r, bytes, n) ==
  /\ q \in Ring
  /\ Contents(q) = Contents(r) \o SubSeq(bytes, 1, Fits(r, n))

\* One step of Fill.
LEMMA PushFills ==
  ASSUME NEW r \in Ring, NEW bytes \in Seq(Int), NEW n \in 1 .. Len(bytes),
         NEW q, Filled(q, r, bytes, n - 1)
  PROVE  Filled(Push(q, bytes[n]), r, bytes, n)
<1> DEFINE u == buf_used(r)
           b == bytes[n]
           c == Contents(r)
<1>1. u \in 0 .. Size - 1 /\ c \in Seq(Int) /\ Len(c) = u
  BY ContentsSeq
<1>2. b \in Int /\ n \in Nat /\ Len(bytes) \in Nat /\ Size \in Nat
  BY Sizes
<1>3. q \in Ring /\ Contents(q) = c \o SubSeq(bytes, 1, Fits(r, n - 1))
  BY DEF Filled
<1>4. buf_used(q) = Len(Contents(q))
  BY <1>3, ContentsSeq
<1>5. CASE n <= Size - 1 - u
  <2>1. Fits(r, n - 1) = n - 1 /\ Fits(r, n) = n
    BY <1>1, <1>2, <1>5 DEF Fits
  <2> DEFINE a == SubSeq(bytes, 1, n - 1)
  <2>2. a \in Seq(Int) /\ Len(a) = n - 1
    BY <1>2
  <2>3. SubSeq(bytes, 1, n) = a \o <<b>>
    <3>1. 1 \in 1 .. Len(bytes) /\ n \in 1 .. Len(bytes)
      BY <1>2
    <3> QED
      BY <3>1, SubSeqRecursiveSecond
  <2> HIDE DEF a, c, u, b
  <2>4. Contents(q) = c \o a
    BY <1>3, <2>1 DEF a
  <2>5. buf_used(q) < Size - 1
    BY <1>1, <1>2, <1>4, <1>5, <2>2, <2>4
  <2>6. Push(q, b) \in Ring /\ Contents(Push(q, b)) = Append(Contents(q), b)
    BY <1>2, <1>3, <2>5, PushAppends
  <2>7. Append(c \o a, b) = c \o (a \o <<b>>)
    BY <1>1, <1>2, <2>2, AppendConcat
  <2> QED
    BY <2>1, <2>3, <2>4, <2>6, <2>7 DEF Filled, c, b
<1>6. CASE n > Size - 1 - u
  <2>1. Fits(r, n - 1) = Size - 1 - u /\ Fits(r, n) = Size - 1 - u
    BY <1>1, <1>2, <1>6 DEF Fits
  <2> DEFINE a == SubSeq(bytes, 1, Size - 1 - u)
  <2>2. a \in Seq(Int) /\ Len(a) = Size - 1 - u
    <3>1. Size - 1 - u \in 0 .. Len(bytes)
      BY <1>1, <1>2, <1>6
    <3> HIDE DEF u
    <3> QED
      BY <3>1, Parts
  <2> HIDE DEF a, c, u, b
  <2>4. Contents(q) = c \o a
    BY <1>3, <2>1 DEF a
  <2>5. buf_used(q) = Size - 1
    <3>1. Len(c \o a) = Len(c) + Len(a)
      BY <1>1, <2>2, ConcatRange
    <3> QED
      BY <1>1, <1>2, <1>4, <2>2, <2>4, <3>1
  <2>6. Push(q, b) = q
    BY <1>2, <1>3, <2>5, PushAppends
  <2> QED
    BY <1>3, <2>1, <2>6 DEF Filled, b, c
<1> QED
  BY <1>1, <1>2, <1>5, <1>6

\* Fill appends as many bytes as fit and forgets the others.
LEMMA FillAppends ==
  ASSUME NEW r \in Ring, NEW bytes \in Seq(Int)
  PROVE  /\ Fill(r, bytes) \in Ring
         /\ Fits(r, Len(bytes)) \in 0 .. Len(bytes)
         /\ Contents(Fill(r, bytes)) = Contents(r) \o SubSeq(bytes, 1, Fits(r, Len(bytes)))
<1> DEFINE it == CHOOSE f : f = [n \in 0 .. Len(bytes) |->
                              IF n = 0 THEN r ELSE Push(f[n - 1], bytes[n])]
<1>0. Len(bytes) \in Nat /\ buf_used(r) \in 0 .. Size - 1 /\ Size \in Nat
  BY Sizes, ContentsSeq
<1>1. Fill(r, bytes) = it[Len(bytes)]
  BY DEF Fill
<1>2. Fills(it, r, bytes, Len(bytes))
  <2>1. \E f : Fills(f, r, bytes, Len(bytes))
    BY <1>0, FillsExist
  <2>2. \E f : f = [n \in 0 .. Len(bytes) |->
                      IF n = 0 THEN r ELSE Push(f[n - 1], bytes[n])]
    BY <2>1, Zenon DEF Fills
  <2> QED
    BY <2>2, Zenon DEF Fills
<1> HIDE DEF it
<1> DEFINE Bad == {n \in 0 .. Len(bytes) : ~Filled(it[n], r, bytes, n)}
<1>3. Bad = {}
  <2> SUFFICES ASSUME Bad # {} PROVE FALSE
    OBVIOUS
  <2>1. Bad \in SUBSET Nat
    OBVIOUS
  <2>2. PICK n \in Bad : \A j \in Bad : n <= j
    BY <2>1, LeastNat
  <2>3. CASE n = 0
    <3>1. it[0] = r
      BY <1>0, <1>2 DEF Fills
    <3>2. Fits(r, 0) = 0
      BY <1>0 DEF Fits
    <3>3. SubSeq(bytes, 1, 0) = <<>>
      BY SubSeqEmpty
    <3>4. Contents(r) \o <<>> = Contents(r)
      BY ContentsSeq, ConcatEmptySeq
    <3>5. Filled(r, r, bytes, 0)
      BY <3>2, <3>3, <3>4 DEF Filled
    <3> QED
      BY <2>2, <2>3, <3>1, <3>5
  <2>4. CASE n # 0
    <3>1. n - 1 \in 0 .. Len(bytes) /\ n - 1 \notin Bad /\ n \in 1 .. Len(bytes)
      BY <2>2, <2>4
    <3>2. Filled(it[n - 1], r, bytes, n - 1)
      BY <3>1
    <3>3. it[n] = Push(it[n - 1], bytes[n])
      BY <1>2, <2>4, <3>1 DEF Fills
    <3>4. Filled(it[n], r, bytes, n)
      BY <3>1, <3>2, <3>3, PushFills
    <3> QED
      BY <2>2, <3>4
  <2> QED
    BY <2>3, <2>4
<1>4. Filled(it[Len(bytes)], r, bytes, Len(bytes))
  BY <1>0, <1>3
<1>5. Fits(r, Len(bytes)) \in 0 .. Len(bytes)
  BY <1>0 DEF Fits
<1> QED
  BY <1>1, <1>4, <1>5 DEF Filled

\* The places of a ring with k bytes less.
LEMMA RestPlaces ==
  ASSUME NEW s \in Nat, NEW a \in 0 .. s - 1, NEW z \in 0 .. s - 1,
         NEW u \in Int, u = (IF a <= z THEN z - a ELSE s + z - a),
         NEW k \in 0 .. u,
         NEW e \in Int, e = (IF a + k < s THEN a + k ELSE a + k - s)
  PROVE  /\ (IF e <= z THEN z - e ELSE s + z - e) = u - k
         /\ \A i \in 1 .. u - k :
              (IF e + i - 1 < s THEN e + i - 1 ELSE e + i - 1 - s)
                = (IF a + (k + i) - 1 < s THEN a + (k + i) - 1 ELSE a + (k + i) - 1 - s)
  OBVIOUS

\* Taken and Rest cut the contents of a ring in two.
LEMMA RestDrops ==
  ASSUME NEW r \in Ring, NEW n \in Nat
  PROVE  LET c == Contents(r)
             k == IF n <= Len(c) THEN n ELSE Len(c)
         IN  /\ k \in 0 .. Len(c)
             /\ Taken(r, n) = SubSeq(c, 1, k)
             /\ Rest(r, n) \in Ring
             /\ Contents(Rest(r, n)) = SubSeq(c, k + 1, Len(c))
<1> DEFINE c == Contents(r)
           u == buf_used(r)
           k == IF n <= Len(c) THEN n ELSE Len(c)
           q == Rest(r, n)
<1>1. /\ u \in 0 .. Size - 1 /\ c \in Seq(Int) /\ Len(c) = u /\ Size \in Nat /\ Size > 1
      /\ \A i \in 1 .. u : c[i] = r.buf[IF r.start + i - 1 < Size THEN r.start + i - 1
                                        ELSE r.start + i - 1 - Size]
  BY ContentsSeq, Sizes
<1>2. /\ r.start \in 0 .. Size - 1 /\ r.end \in 0 .. Size - 1 /\ r.buf \in [0 .. Size - 1 -> Int]
  BY DEF Ring
<1>3. Min({n, u}) = k /\ k \in 0 .. u
  <2>1. Min({n, u}) = IF n <= u THEN n ELSE u
    BY <1>1, MinPair
  <2> QED
    BY <1>1, <2>1
<1>4. Taken(r, n) = SubSeq(c, 1, k)
  BY <1>3 DEF Taken
<1> HIDE DEF k
<1>t. /\ Size \in Nat /\ Size > 1 /\ u \in 0 .. Size - 1 /\ k \in 0 .. u
      /\ r.start \in 0 .. Size - 1 /\ r.end \in 0 .. Size - 1
  BY <1>1, <1>2, <1>3
<1> DEFINE a == IF r.start + k < Size THEN r.start + k ELSE r.start + k - Size
<1>5. (r.start + k) % Size = a /\ a \in 0 .. Size - 1
  <2> DEFINE x == r.start + k
  <2>1. x \in Nat /\ x < 2 * Size
    BY <1>1, <1>2, <1>3
  <2> HIDE DEF x
  <2>2. x % Size = IF x < Size THEN x ELSE x - Size
    BY <2>1, Wrap
  <2> QED
    BY <1>t, <2>2 DEF x, a
<1> HIDE DEF a
<1>6. q = [buf |-> r.buf, start |-> a, end |-> r.end]
  <2>1. q = [r EXCEPT !.start = (@ + k) % Size]
    BY <1>3 DEF Rest, Size
  <2> HIDE DEF q
  <2> QED
    BY <1>5, <2>1 DEF Ring
<1>7. q \in Ring /\ q.buf = r.buf /\ q.start = a /\ q.end = r.end
  BY <1>2, <1>5, <1>6 DEF Ring
<1> HIDE DEF q, c, u
<1>8. /\ buf_used(q) \in 0 .. Size - 1 /\ Contents(q) \in Seq(Int) /\ Len(Contents(q)) = buf_used(q)
      /\ \A i \in 1 .. buf_used(q) : Contents(q)[i] = r.buf[IF a + i - 1 < Size THEN a + i - 1
                                                            ELSE a + i - 1 - Size]
  BY <1>7, ContentsSeq
<1>9. /\ u = IF r.start <= r.end THEN r.end - r.start ELSE Size + r.end - r.start
      /\ buf_used(q) = IF a <= r.end THEN r.end - a ELSE Size + r.end - a
  BY <1>7 DEF buf_used, Size, u
<1>10. buf_used(q) = u - k
  BY <1>t, <1>9, RestPlaces DEF a
<1>11. ASSUME NEW i \in 1 .. u - k
       PROVE  Contents(q)[i] = c[k + i]
  <2> DEFINE y == k + i
             x == IF a + i - 1 < Size THEN a + i - 1 ELSE a + i - 1 - Size
  <2>1. y \in 1 .. u /\ i \in 1 .. buf_used(q)
    BY <1>t, <1>10
  <2>2. x = IF r.start + y - 1 < Size THEN r.start + y - 1 ELSE r.start + y - 1 - Size
    BY <1>t, <1>9, RestPlaces DEF a
  <2>3. c[y] = r.buf[IF r.start + y - 1 < Size THEN r.start + y - 1 ELSE r.start + y - 1 - Size]
    <3> HIDE DEF y
    <3> QED
      BY <1>1, <2>1
  <2>4. Contents(q)[i] = r.buf[x]
    BY <1>8, <2>1
  <2> HIDE DEF x
  <2> QED
    BY <2>2, <2>3, <2>4
<1> DEFINE d == SubSeq(c, k + 1, Len(c))
<1>12. d \in Seq(Int) /\ Len(d) = u - k /\ \A i \in 1 .. u - k : d[i] = c[k + i]
  <2>1. c \in Seq(Int) /\ Len(c) = u /\ u \in Nat /\ k \in 0 .. u
    BY <1>1, <1>3
  <2> QED
    BY <2>1
<1> HIDE DEF d
<1>13. Contents(q) = d
  <2> DEFINE w == Contents(q)
  <2>1. w \in Seq(Int) /\ Len(w) = u - k /\ u - k \in Nat
    BY <1>t, <1>8, <1>10
  <2>2. \A i \in 1 .. u - k : w[i] = d[i]
    BY <1>11, <1>12
  <2> HIDE DEF w
  <2>3. w = d
    BY <1>12, <2>1, <2>2
  <2> QED
    BY <2>3 DEF w
<1> QED
  BY <1>1, <1>3, <1>4, <1>7, <1>13 DEF c, d, k, q, u

-----------------------------------------------------------------------------
(* The order of the bytes on their way out: sent, in the driver, in the      *)
(* hands of the process and in the ring.                                     *)

\* In each place the bytes are in order, and the places follow each other.
Ordered(w, d, p, c) ==
  /\ Increasing(w) /\ Increasing(d) /\ Increasing(p) /\ Increasing(c)
  /\ Before(Range(w), Range(d)) /\ Before(Range(w), Range(p)) /\ Before(Range(w), Range(c))
  /\ Before(Range(d), Range(p)) /\ Before(Range(d), Range(c)) /\ Before(Range(p), Range(c))

\* The bytes in the four places.
AllOf(w, d, p, c) == Range(w) \cup Range(d) \cup Range(p) \cup Range(c)

\* Then all of them in a row are in order.
LEMMA OrderedOut ==
  ASSUME NEW w \in Seq(Int), NEW d \in Seq(Int), NEW p \in Seq(Int), NEW c \in Seq(Int)
  PROVE  /\ Ordered(w, d, p, c) => Increasing(w \o d \o p \o c)
         /\ Range(w \o d \o p \o c) = AllOf(w, d, p, c)
<1> DEFINE x == w \o d
           y == x \o p
           z == y \o c
<1>1. /\ x \in Seq(Int) /\ Range(x) = Range(w) \cup Range(d)
      /\ Increasing(x) <=> Increasing(w) /\ Increasing(d) /\ Before(Range(w), Range(d))
  BY ConcatRange, IncreasingConcat
<1> HIDE DEF x
<1>2. /\ y \in Seq(Int) /\ Range(y) = Range(x) \cup Range(p)
      /\ Increasing(y) <=> Increasing(x) /\ Increasing(p) /\ Before(Range(x), Range(p))
  BY <1>1, ConcatRange, IncreasingConcat
<1> HIDE DEF y
<1>3. /\ z \in Seq(Int) /\ Range(z) = Range(y) \cup Range(c)
      /\ Increasing(z) <=> Increasing(y) /\ Increasing(c) /\ Before(Range(y), Range(c))
  BY <1>2, ConcatRange, IncreasingConcat
<1> HIDE DEF z
<1>4. Ordered(w, d, p, c) => Increasing(z)
  BY <1>1, <1>2, <1>3 DEF Ordered, Before
<1>5. Range(z) = AllOf(w, d, p, c)
  BY <1>1, <1>2, <1>3 DEF AllOf
<1> QED
  BY <1>4, <1>5 DEF x, y, z

\* Bytes after all others come into the ring.
LEMMA OrderedPut ==
  ASSUME NEW w \in Seq(Int), NEW d \in Seq(Int), NEW p \in Seq(Int), NEW c \in Seq(Int),
         NEW a \in Seq(Int), Increasing(a), Before(AllOf(w, d, p, c), Range(a))
  PROVE  /\ Ordered(w, d, p, c) => Ordered(w, d, p, c \o a)
         /\ AllOf(w, d, p, c \o a) = AllOf(w, d, p, c) \cup Range(a)
<1> DEFINE x == c \o a
<1>1. /\ x \in Seq(Int) /\ Range(x) = Range(c) \cup Range(a)
      /\ Increasing(x) <=> Increasing(c) /\ Increasing(a) /\ Before(Range(c), Range(a))
  BY ConcatRange, IncreasingConcat
<1> HIDE DEF x
<1>2. Ordered(w, d, p, c) => Ordered(w, d, p, x)
  BY <1>1 DEF Ordered, Before, AllOf
<1>3. AllOf(w, d, p, x) = AllOf(w, d, p, c) \cup Range(a)
  BY <1>1 DEF AllOf
<1> QED
  BY <1>2, <1>3 DEF x

\* A process takes the front of the ring.
LEMMA OrderedTake ==
  ASSUME NEW w \in Seq(Int), NEW d \in Seq(Int), NEW c \in Seq(Int), NEW k \in 0 .. Len(c)
  PROVE  LET a == SubSeq(c, 1, k)
             b == SubSeq(c, k + 1, Len(c))
         IN  /\ Ordered(w, d, <<>>, c) => Ordered(w, d, a, b)
             /\ AllOf(w, d, <<>>, c) = AllOf(w, d, a, b)
<1> DEFINE a == SubSeq(c, 1, k)
           b == SubSeq(c, k + 1, Len(c))
<1>1. /\ Range(c) = Range(a) \cup Range(b)
      /\ Increasing(c) <=> Increasing(a) /\ Increasing(b) /\ Before(Range(a), Range(b))
  BY PartsRange
<1> HIDE DEF a, b
<1>2. Ordered(w, d, <<>>, c) => Ordered(w, d, a, b)
  BY <1>1 DEF Ordered, Before
<1>3. AllOf(w, d, <<>>, c) = AllOf(w, d, a, b)
  BY <1>1, NoBytes DEF AllOf
<1> QED
  BY <1>2, <1>3 DEF a, b

\* A process gives the driver a front part, and the rest of it is lost.
LEMMA OrderedWrite ==
  ASSUME NEW w \in Seq(Int), NEW d \in Seq(Int), NEW p \in Seq(Int), NEW c \in Seq(Int),
         NEW n \in 0 .. Len(p)
  PROVE  LET e == d \o SubSeq(p, 1, n)
         IN  /\ e \in Seq(Int) /\ Len(e) = Len(d) + n
             /\ Ordered(w, d, p, c) => Ordered(w, e, <<>>, c)
             /\ AllOf(w, d, p, c)
                  = AllOf(w, e, <<>>, c) \cup Range(SubSeq(p, n + 1, Len(p)))
<1> DEFINE a == SubSeq(p, 1, n)
           b == SubSeq(p, n + 1, Len(p))
           e == d \o a
<1>1. /\ Range(p) = Range(a) \cup Range(b)
      /\ Increasing(p) <=> Increasing(a) /\ Increasing(b) /\ Before(Range(a), Range(b))
  BY PartsRange
<1>2. a \in Seq(Int) /\ Len(a) = n
  BY Parts
<1> HIDE DEF a, b
<1>3. /\ e \in Seq(Int) /\ Range(e) = Range(d) \cup Range(a) /\ Len(e) = Len(d) + n
      /\ Increasing(e) <=> Increasing(d) /\ Increasing(a) /\ Before(Range(d), Range(a))
  BY <1>2, ConcatRange, IncreasingConcat
<1> HIDE DEF e
<1>4. Ordered(w, d, p, c) => Ordered(w, e, <<>>, c)
  BY <1>1, <1>3, NoBytes DEF Ordered, Before
<1>5. AllOf(w, d, p, c) = AllOf(w, e, <<>>, c) \cup Range(b)
  BY <1>1, <1>3, NoBytes DEF AllOf
<1> QED
  BY <1>3, <1>4, <1>5 DEF a, b, e

\* The driver sends its first byte.
LEMMA OrderedSend ==
  ASSUME NEW w \in Seq(Int), NEW d \in Seq(Int), NEW p \in Seq(Int), NEW c \in Seq(Int),
         d # <<>>
  PROVE  LET v == Append(w, Head(d))
         IN  /\ v \in Seq(Int) /\ Tail(d) \in Seq(Int) /\ Len(Tail(d)) = Len(d) - 1
             /\ Ordered(w, d, p, c) => Ordered(v, Tail(d), p, c)
             /\ AllOf(v, Tail(d), p, c) = AllOf(w, d, p, c)
<1> DEFINE a == SubSeq(d, 1, 1)
           b == SubSeq(d, 1 + 1, Len(d))
           v == w \o a
<1>1. 1 \in 0 .. Len(d)
  OBVIOUS
<1>2. /\ Range(d) = Range(a) \cup Range(b)
      /\ Increasing(d) <=> Increasing(a) /\ Increasing(b) /\ Before(Range(a), Range(b))
  BY <1>1, PartsRange
<1>3. a \in Seq(Int) /\ Len(a) = 1 /\ b \in Seq(Int) /\ Len(b) = Len(d) - 1
  BY <1>1, Parts
<1>4. Tail(d) = b
  BY TailIsSubSeq
<1>5. Append(w, Head(d)) = v
  <2>1. Head(d) \in Int /\ a = <<Head(d)>>
    <3>1. Head(d) \in Int /\ Head(d) = d[1]
      OBVIOUS
    <3>2. a[1] = d[1]
      BY <1>1
    <3> HIDE DEF a
    <3> QED
      BY <1>3, <3>1, <3>2
  <2> HIDE DEF a
  <2> QED
    BY <2>1, AppendIsConcat
<1> HIDE DEF a, b
<1>6. /\ v \in Seq(Int) /\ Range(v) = Range(w) \cup Range(a)
      /\ Increasing(v) <=> Increasing(w) /\ Increasing(a) /\ Before(Range(w), Range(a))
  BY <1>3, ConcatRange, IncreasingConcat
<1> HIDE DEF v
<1>7. Ordered(w, d, p, c) => Ordered(v, b, p, c)
  BY <1>2, <1>6 DEF Ordered, Before
<1>8. AllOf(w, d, p, c) = AllOf(v, b, p, c)
  BY <1>2, <1>6 DEF AllOf
<1> QED
  BY <1>3, <1>4, <1>5, <1>6, <1>7, <1>8

\* A closed ring has nothing in it.
LEMMA OrderedClose ==
  ASSUME NEW w \in Seq(Int), NEW d \in Seq(Int), NEW p \in Seq(Int), NEW c \in Seq(Int)
  PROVE  /\ Ordered(w, d, p, c) => Ordered(w, d, p, <<>>)
         /\ AllOf(w, d, p, c) = AllOf(w, d, p, <<>>) \cup Range(c)
<1>1. Ordered(w, d, p, c) => Ordered(w, d, p, <<>>)
  BY NoBytes DEF Ordered, Before
<1>2. AllOf(w, d, p, c) = AllOf(w, d, p, <<>>) \cup Range(c)
  BY NoBytes DEF AllOf
<1> QED
  BY <1>1, <1>2

-----------------------------------------------------------------------------
(* Sending *)

\* A process in tuxctl_ldisc_put.
ProcType == [at : {"idle", "room", "take", "write"}, room : 0 .. ROOM, buf : Seq(Int)]

\* The types on the way out, with what the proofs need of proc: it holds bytes
\* only before its write, and at most one more than the room it was told of.
TxTypes ==
  /\ tx \in Ring /\ wire \in Seq(Int) /\ drv \in Seq(Int) /\ Len(drv) <= ROOM
  /\ put \in Nat
  /\ proc \in ProcType
  /\ proc.at # "write" => proc.buf = <<>>
  /\ Len(proc.buf) <= proc.room + 1

\* PutAccounted, place by place.
Kept == 0 .. put - 1 = lost \cup AllOf(wire, drv, proc.buf, Contents(tx))

\* OutInOrder, place by place.
InOrder == ~overtaken => Ordered(wire, drv, proc.buf, Contents(tx))

\* While the discipline is closed nothing is queued and no process is inside.
ClosedEmpty == ~open => tx = Empty /\ proc.at = "idle"

\* The inductive invariant of the way out.
SendInv == TxTypes /\ Kept /\ InOrder /\ ClosedEmpty

\* A driver process with nothing to do.
LEMMA IdleType == Idle \in ProcType /\ Idle.at = "idle" /\ Idle.buf = <<>> /\ Idle.room = 0
  BY Sizes DEF Idle, ProcType

\* Nothing has been written in the beginning.
LEMMA SendInit == ASSUME Init PROVE SendInv
<1>1. /\ tx = Empty /\ put = 0 /\ proc = Idle /\ drv = <<>> /\ wire = <<>> /\ lost = {}
  BY DEF Init
<1>2. TxTypes
  <2>1. Len(<<>>) = 0 /\ <<>> \in Seq(Int)
    OBVIOUS
  <2> QED
    BY <1>1, <2>1, EmptyRing, IdleType, Sizes DEF TxTypes
<1>3. Ordered(<<>>, <<>>, <<>>, <<>>) /\ AllOf(<<>>, <<>>, <<>>, <<>>) = {}
  BY NoBytes DEF Ordered, Before, AllOf
<1>4. 0 .. 0 - 1 = {}
  OBVIOUS
<1>5. Kept
  BY <1>1, <1>3, <1>4, IdleType, EmptyRing DEF Kept
<1>6. InOrder /\ ClosedEmpty
  BY <1>1, <1>3, IdleType, EmptyRing DEF InOrder, ClosedEmpty
<1> QED
  BY <1>2, <1>5, <1>6 DEF SendInv

\* Steps that leave the way out alone.
LEMMA SendSame ==
  ASSUME SendInv, UNCHANGED <<open, txvars>>
  PROVE  SendInv'
<1>1. /\ open' = open /\ tx' = tx /\ put' = put /\ proc' = proc /\ drv' = drv
      /\ wire' = wire /\ lost' = lost /\ overtaken' = overtaken
  BY DEF txvars
<1>2. TxTypes'
  BY <1>1 DEF SendInv, TxTypes
<1>3. Contents(tx)' = Contents(tx)
  BY <1>1 DEF Contents, buf_used
<1>4. Kept' /\ InOrder'
  BY <1>1, <1>3, Zenon DEF SendInv, Kept, InOrder, AllOf, Ordered
<1>5. ClosedEmpty'
  BY <1>1 DEF SendInv, ClosedEmpty
<1> QED
  BY <1>2, <1>4, <1>5 DEF SendInv

\* Bytes put - 1, put, ... in a row.
LEMMA RowRange ==
  ASSUME NEW p \in Nat, NEW n \in Nat, NEW k \in 0 .. n
  PROVE  LET b == [i \in 1 .. n |-> p + i - 1]
             a == SubSeq(b, 1, k)
         IN  /\ b \in Seq(Int) /\ Len(b) = n
             /\ a \in Seq(Int) /\ Increasing(a) /\ Range(a) = p .. p + k - 1
<1> DEFINE b == [i \in 1 .. n |-> p + i - 1]
           a == SubSeq(b, 1, k)
<1>1. b \in Seq(Int) /\ Len(b) = n /\ \A i \in 1 .. n : b[i] = p + i - 1
  OBVIOUS
<1> HIDE DEF b
<1>2. a \in Seq(Int) /\ Len(a) = k /\ DOMAIN a = 1 .. k
  BY <1>1
<1>3. \A i \in 1 .. k : a[i] = p + i - 1
  BY <1>1
<1> HIDE DEF a
<1>4. Increasing(a)
  BY <1>2, <1>3 DEF Increasing
<1>5. ASSUME NEW x \in Range(a) PROVE x \in p .. p + k - 1
  <2>1. PICK i \in 1 .. k : x = a[i]
    BY <1>2 DEF Range
  <2> QED
    BY <1>3, <2>1
<1>6. ASSUME NEW x \in p .. p + k - 1 PROVE x \in Range(a)
  <2>1. x - p + 1 \in 1 .. k /\ a[x - p + 1] = x
    BY <1>3
  <2> QED
    BY <1>2, <2>1 DEF Range
<1>7. Range(a) = p .. p + k - 1
  BY <1>5, <1>6
<1> QED
  BY <1>1, <1>2, <1>4, <1>7 DEF a, b

\* The steps of the way out keep SendInv, one by one.
LEMMA SendPut == ASSUME SendInv, tuxctl_ldisc_put PROVE SendInv'
<1>1. PICK n \in 1 .. MaxPut :
        LET bytes == [i \in 1 .. n |-> put + i - 1]
            k == Min({n, TUXCTL_BUFSIZE - 1 - buf_used(tx)})
        IN tx' = Fill(tx, bytes) /\ put' = put + k
  BY DEF tuxctl_ldisc_put
<1>2. /\ open /\ proc.at = "idle" /\ proc' = [Idle EXCEPT !.at = "room"]
      /\ open' = open /\ drv' = drv /\ wire' = wire /\ lost' = lost /\ overtaken' = overtaken
  BY DEF tuxctl_ldisc_put
<1>3. /\ tx \in Ring /\ wire \in Seq(Int) /\ drv \in Seq(Int) /\ Len(drv) <= ROOM
      /\ put \in Nat /\ proc.buf \in Seq(Int)
  BY DEF SendInv, TxTypes, ProcType
<1>b. proc.buf = <<>>
  BY <1>2 DEF SendInv, TxTypes
<1> DEFINE c == Contents(tx)
           k == Fits(tx, n)
           bytes == [i \in 1 .. n |-> put + i - 1]
           a == SubSeq(bytes, 1, k)
<1>4. c \in Seq(Int) /\ buf_used(tx) \in 0 .. Size - 1 /\ Size \in Nat /\ n \in Nat
  BY <1>3, ContentsSeq, Sizes, SizeAssumption
<1>5. k \in 0 .. n
  BY <1>4 DEF Fits
<1>6. Min({n, TUXCTL_BUFSIZE - 1 - buf_used(tx)}) = k
  <2> DEFINE m == TUXCTL_BUFSIZE - 1 - buf_used(tx)
  <2>1. m \in Int /\ m = Size - 1 - buf_used(tx)
    BY <1>4 DEF Size
  <2> HIDE DEF m
  <2>2. Min({n, m}) = IF n <= m THEN n ELSE m
    BY <1>4, <2>1, MinPair
  <2> QED
    BY <2>1, <2>2 DEF m, Fits
<1>7. /\ bytes \in Seq(Int) /\ Len(bytes) = n
      /\ a \in Seq(Int) /\ Increasing(a) /\ Range(a) = put .. put + k - 1
  <2> HIDE DEF k
  <2> QED
    BY <1>3, <1>4, <1>5, RowRange
<1>8. tx' = Fill(tx, bytes) /\ put' = put + k
  BY <1>1, <1>6
<1> HIDE DEF bytes, a
<1>9. tx' \in Ring /\ Contents(tx') = c \o a
  BY <1>3, <1>7, <1>8, FillAppends DEF a
<1>10. proc' \in ProcType /\ proc'.at = "room" /\ proc'.buf = <<>> /\ proc'.room = 0
  BY <1>2, IdleType DEF ProcType
<1> HIDE DEF c, k
<1>11. TxTypes'
  <2>1. put' \in Nat
    BY <1>3, <1>5, <1>8
  <2>2. Len(<<>>) = 0
    OBVIOUS
  <2> QED
    BY <1>2, <1>3, <1>9, <1>10, <2>1, <2>2 DEF TxTypes
<1>12. 0 .. put - 1 = lost \cup AllOf(wire, drv, proc.buf, c)
  BY <1>3 DEF SendInv, Kept, c
<1>13. Before(AllOf(wire, drv, proc.buf, c), Range(a))
  <2>1. \A x \in AllOf(wire, drv, proc.buf, c) : x \in 0 .. put - 1
    BY <1>12
  <2>2. \A y \in Range(a) : y \in put .. put + k - 1
    BY <1>7
  <2> QED
    BY <1>3, <1>5, <2>1, <2>2 DEF Before
<1>14. /\ Ordered(wire, drv, proc.buf, c) => Ordered(wire, drv, proc.buf, c \o a)
       /\ AllOf(wire, drv, proc.buf, c \o a) = AllOf(wire, drv, proc.buf, c) \cup Range(a)
  <2>1. c \in Seq(Int) /\ a \in Seq(Int) /\ Increasing(a)
    BY <1>4, <1>7
  <2> QED
    BY <1>3, <1>13, <2>1, OrderedPut
<1>15. 0 .. put + k - 1 = 0 .. put - 1 \cup put .. put + k - 1
  BY <1>3, <1>5
<1>16. Kept'
  <2>1. 0 .. put' - 1 = lost \cup AllOf(wire, drv, proc.buf, c \o a)
    <3>1. put' - 1 = put + k - 1
      BY <1>3, <1>5, <1>8
    <3> QED
      BY <1>7, <1>12, <1>14, <1>15, <3>1
  <2> QED
    BY <1>2, <1>b, <1>9, <1>10, <2>1 DEF Kept
<1>17. InOrder'
  <2>1. ~overtaken => Ordered(wire, drv, proc.buf, c)
    BY <1>3, Zenon DEF SendInv, InOrder, c
  <2>2. ~overtaken' => Ordered(wire, drv, proc.buf, c \o a)
    BY <1>2, <1>14, <2>1, Zenon
  <2> QED
    BY <1>2, <1>b, <1>9, <1>10, <2>2, Zenon DEF InOrder
<1>18. ClosedEmpty'
  BY <1>2 DEF ClosedEmpty
<1> QED
  BY <1>11, <1>16, <1>17, <1>18 DEF SendInv

\* Asking the driver below for its room takes no byte.
LEMMA SendAsk == ASSUME SendInv, AskRoom PROVE SendInv'
<1>1. /\ proc.at = "room" /\ proc' = [proc EXCEPT !.at = "take", !.room = ROOM - Len(drv)]
      /\ open' = open /\ tx' = tx /\ put' = put /\ drv' = drv /\ wire' = wire
      /\ lost' = lost /\ overtaken' = overtaken
  BY DEF AskRoom
<1>2. /\ tx \in Ring /\ wire \in Seq(Int) /\ drv \in Seq(Int) /\ Len(drv) <= ROOM
      /\ put \in Nat /\ proc.buf = <<>> /\ proc \in ProcType
  BY <1>1 DEF SendInv, TxTypes
<1>3. ROOM - Len(drv) \in 0 .. ROOM
  BY <1>2, Sizes
<1>4. proc' \in ProcType /\ proc'.at = "take" /\ proc'.buf = <<>> /\ proc'.room = ROOM - Len(drv)
  BY <1>1, <1>2, <1>3 DEF ProcType
<1>5. Len(<<>>) <= ROOM - Len(drv) + 1
  BY <1>3
<1>6. TxTypes'
  BY <1>1, <1>2, <1>4, <1>5 DEF TxTypes
<1>7. Contents(tx)' = Contents(tx) /\ proc'.buf = proc.buf
  BY <1>1, <1>2, <1>4 DEF Contents, buf_used
<1>8. Kept' /\ InOrder'
  BY <1>1, <1>7, Zenon DEF SendInv, Kept, InOrder, AllOf, Ordered
<1>9. ClosedEmpty'
  BY <1>1 DEF SendInv, ClosedEmpty
<1> QED
  BY <1>6, <1>8, <1>9 DEF SendInv

\* What a wake-up takes is the front of the ring.
LEMMA TakeFront ==
  ASSUME tx \in Ring, NEW room \in 0 .. ROOM
  PROVE  \E k \in 0 .. Len(Contents(tx)) :
           /\ k <= room + 1
           /\ Take(room) = SubSeq(Contents(tx), 1, k)
           /\ Rest(tx, Len(Take(room))) \in Ring
           /\ Contents(Rest(tx, Len(Take(room)))) = SubSeq(Contents(tx), k + 1, Len(Contents(tx)))
<1> DEFINE c == Contents(tx)
           k == IF room + 1 <= Len(c) THEN room + 1 ELSE Len(c)
<1>1. c \in Seq(Int) /\ Len(c) \in Nat /\ room + 1 \in Nat
  BY ContentsSeq, Sizes
<1>2. k \in 0 .. Len(c) /\ k <= room + 1 /\ k \in Nat
  BY <1>1
<1>3. Taken(tx, room + 1) = SubSeq(c, 1, k)
  BY <1>1, RestDrops
<1> HIDE DEF k
<1>4. Take(room) = SubSeq(c, 1, k) /\ Len(Take(room)) = k
  <2>1. Len(SubSeq(c, 1, k)) = k
    BY <1>1, <1>2, Parts
  <2> QED
    BY <1>3, <2>1 DEF Take
<1>5. (IF k <= Len(c) THEN k ELSE Len(c)) = k
  BY <1>1, <1>2
<1>6. Rest(tx, k) \in Ring /\ Contents(Rest(tx, k)) = SubSeq(c, k + 1, Len(c))
  BY <1>2, <1>5, RestDrops
<1> QED
  BY <1>2, <1>4, <1>6

\* The bytes taken off the ring are in the process's hands.
LEMMA SendTake == ASSUME SendInv, TakeBytes PROVE SendInv'
<1>1. /\ proc.at = "take" /\ proc' = [proc EXCEPT !.at = "write", !.buf = Take(proc.room)]
      /\ tx' = Rest(tx, Len(Take(proc.room)))
      /\ open' = open /\ put' = put /\ drv' = drv /\ wire' = wire
      /\ lost' = lost /\ overtaken' = overtaken
  BY DEF TakeBytes
<1>2. /\ tx \in Ring /\ wire \in Seq(Int) /\ drv \in Seq(Int) /\ Len(drv) <= ROOM
      /\ put \in Nat /\ proc.buf = <<>> /\ proc \in ProcType /\ proc.room \in 0 .. ROOM
  BY <1>1 DEF SendInv, TxTypes, ProcType
<1> DEFINE c == Contents(tx)
<1>3. PICK k \in 0 .. Len(c) :
           /\ k <= proc.room + 1
           /\ Take(proc.room) = SubSeq(c, 1, k)
           /\ tx' \in Ring
           /\ Contents(tx') = SubSeq(c, k + 1, Len(c))
  BY <1>1, <1>2, TakeFront
<1>4. c \in Seq(Int)
  BY <1>2, ContentsSeq
<1> DEFINE a == SubSeq(c, 1, k)
           b == SubSeq(c, k + 1, Len(c))
<1>5. a \in Seq(Int) /\ Len(a) = k
  BY <1>4, Parts
<1>6. /\ Ordered(wire, drv, <<>>, c) => Ordered(wire, drv, a, b)
      /\ AllOf(wire, drv, <<>>, c) = AllOf(wire, drv, a, b)
  BY <1>2, <1>4, OrderedTake
<1>7. Take(proc.room) = a /\ Contents(tx') = b /\ k <= proc.room + 1 /\ tx' \in Ring
  BY <1>3
<1>c. 0 .. put - 1 = lost \cup AllOf(wire, drv, <<>>, c)
  BY <1>2 DEF SendInv, Kept
<1>o. ~overtaken => Ordered(wire, drv, <<>>, c)
  BY <1>2, Zenon DEF SendInv, InOrder
<1> HIDE DEF a, b, c
<1>8. proc' \in ProcType /\ proc'.at = "write" /\ proc'.buf = a /\ proc'.room = proc.room
  BY <1>1, <1>2, <1>5, <1>7 DEF ProcType
<1>9. TxTypes'
  BY <1>1, <1>2, <1>5, <1>7, <1>8 DEF TxTypes
<1>10. Kept'
  BY <1>1, <1>6, <1>7, <1>8, <1>c DEF Kept
<1>11. InOrder'
  BY <1>1, <1>6, <1>7, <1>8, <1>o, Zenon DEF InOrder
<1>12. ClosedEmpty'
  BY <1>1 DEF SendInv, ClosedEmpty
<1> QED
  BY <1>9, <1>10, <1>11, <1>12 DEF SendInv

\* What the driver takes of some bytes, and what of them is lost.
LEMMA WriteSplits ==
  ASSUME NEW bytes \in Seq(Int), drv \in Seq(Int), Len(drv) <= ROOM, Write(bytes)
  PROVE  \E n \in 0 .. Len(bytes) :
           /\ drv' = drv \o SubSeq(bytes, 1, n) /\ Len(drv) + n <= ROOM
           /\ lost' = lost \cup Range(SubSeq(bytes, n + 1, Len(bytes)))
           /\ (n = Len(bytes) \/ n = ROOM - Len(drv))
<1> DEFINE m == ROOM - Len(drv)
           n == IF Len(bytes) <= m THEN Len(bytes) ELSE m
<1>1. m \in Nat /\ Len(bytes) \in Nat /\ Len(drv) \in Nat /\ ROOM \in Nat
  BY Sizes
<1>2. Min({Len(bytes), m}) = n
  <2> HIDE DEF m
  <2> QED
    BY <1>1, MinPair
<1>3. n \in 0 .. Len(bytes) /\ Len(drv) + n <= ROOM /\ (n = Len(bytes) \/ n = ROOM - Len(drv))
  BY <1>1
<1>4. /\ drv' = drv \o SubSeq(bytes, 1, n)
      /\ lost' = lost \cup Range(SubSeq(bytes, n + 1, Len(bytes)))
  BY <1>2 DEF Write
<1> QED
  BY <1>3, <1>4

\* The bytes handed over are the ones that the driver below accepts.
LEMMA SendWrite == ASSUME SendInv, WriteBytes PROVE SendInv'
<1>1. /\ proc.at = "write" /\ proc' = Idle /\ Write(proc.buf)
      /\ open' = open /\ tx' = tx /\ put' = put /\ wire' = wire /\ overtaken' = overtaken
  BY DEF WriteBytes
<1>2. /\ tx \in Ring /\ wire \in Seq(Int) /\ drv \in Seq(Int) /\ Len(drv) <= ROOM
      /\ put \in Nat /\ proc.buf \in Seq(Int)
  BY DEF SendInv, TxTypes, ProcType
<1>3. PICK n \in 0 .. Len(proc.buf) :
        /\ drv' = drv \o SubSeq(proc.buf, 1, n) /\ Len(drv) + n <= ROOM
        /\ lost' = lost \cup Range(SubSeq(proc.buf, n + 1, Len(proc.buf)))
  BY <1>1, <1>2, WriteSplits
<1> DEFINE c == Contents(tx)
           b == SubSeq(proc.buf, n + 1, Len(proc.buf))
<1>4. c \in Seq(Int)
  BY <1>2, ContentsSeq
<1>5. /\ drv' \in Seq(Int) /\ Len(drv') = Len(drv) + n
      /\ Ordered(wire, drv, proc.buf, c) => Ordered(wire, drv', <<>>, c)
      /\ AllOf(wire, drv, proc.buf, c) = AllOf(wire, drv', <<>>, c) \cup Range(b)
  BY <1>2, <1>3, <1>4, OrderedWrite
<1>6. lost' = lost \cup Range(b)
  BY <1>3
<1>c. 0 .. put - 1 = lost \cup AllOf(wire, drv, proc.buf, c)
  BY DEF SendInv, Kept
<1>o. ~overtaken => Ordered(wire, drv, proc.buf, c)
  BY Zenon DEF SendInv, InOrder
<1>7. Contents(tx') = c
  BY <1>1
<1> HIDE DEF b, c
<1>8. proc' \in ProcType /\ proc'.at = "idle" /\ proc'.buf = <<>> /\ proc'.room = 0
  BY <1>1, IdleType
<1>9. TxTypes'
  <2>1. Len(<<>>) = 0 /\ Len(drv') <= ROOM
    BY <1>3, <1>5
  <2> QED
    BY <1>1, <1>2, <1>5, <1>8, <2>1 DEF TxTypes
<1>10. Kept'
  <2>1. 0 .. put - 1 = lost' \cup AllOf(wire, drv', <<>>, c)
    BY <1>5, <1>6, <1>c
  <2> QED
    BY <1>1, <1>7, <1>8, <2>1 DEF Kept
<1>11. InOrder'
  BY <1>1, <1>5, <1>7, <1>8, <1>o, Zenon DEF InOrder
<1>12. ClosedEmpty'
  BY <1>1, <1>8 DEF SendInv, ClosedEmpty
<1> QED
  BY <1>9, <1>10, <1>11, <1>12 DEF SendInv

\* A wakeup sends again what is left.
LEMMA SendWake == ASSUME SendInv, tuxctl_ldisc_write_wakeup PROVE SendInv'
<1> DEFINE bytes == Take(ROOM - Len(drv))
           c == Contents(tx)
<1>1. /\ open /\ tx' = Rest(tx, Len(bytes)) /\ Write(bytes)
      /\ overtaken' = (overtaken \/ (bytes # <<>> /\ proc.buf # <<>>))
      /\ open' = open /\ put' = put /\ proc' = proc /\ wire' = wire
  BY DEF tuxctl_ldisc_write_wakeup
<1>2. /\ tx \in Ring /\ wire \in Seq(Int) /\ drv \in Seq(Int) /\ Len(drv) <= ROOM
      /\ put \in Nat /\ proc.buf \in Seq(Int)
  BY DEF SendInv, TxTypes, ProcType
<1>3. ROOM - Len(drv) \in 0 .. ROOM
  BY <1>2, Sizes
<1>4. PICK k \in 0 .. Len(c) :
           /\ bytes = SubSeq(c, 1, k)
           /\ tx' \in Ring
           /\ Contents(tx') = SubSeq(c, k + 1, Len(c))
  BY <1>1, <1>2, <1>3, TakeFront
<1>5. c \in Seq(Int)
  BY <1>2, ContentsSeq
<1>6. bytes \in Seq(Int) /\ Len(bytes) = k
  BY <1>4, <1>5, Parts
<1>7. PICK n \in 0 .. Len(bytes) :
        /\ drv' = drv \o SubSeq(bytes, 1, n) /\ Len(drv) + n <= ROOM
        /\ lost' = lost \cup Range(SubSeq(bytes, n + 1, Len(bytes)))
  BY <1>1, <1>2, <1>6, WriteSplits
<1> DEFINE r == SubSeq(c, k + 1, Len(c))
           b == SubSeq(bytes, n + 1, Len(bytes))
<1>8. r \in Seq(Int) /\ Contents(tx') = r
  BY <1>4, <1>5, Parts
<1>9. /\ Ordered(wire, drv, <<>>, c) => Ordered(wire, drv, bytes, r)
      /\ AllOf(wire, drv, <<>>, c) = AllOf(wire, drv, bytes, r)
  <2>1. /\ Ordered(wire, drv, <<>>, c) => Ordered(wire, drv, SubSeq(c, 1, k), r)
        /\ AllOf(wire, drv, <<>>, c) = AllOf(wire, drv, SubSeq(c, 1, k), r)
    <3> HIDE DEF c, bytes
    <3> QED
      BY <1>2, <1>5, OrderedTake
  <2> QED
    BY <1>4, <2>1, Zenon
<1>c. 0 .. put - 1 = lost \cup AllOf(wire, drv, proc.buf, c)
  BY DEF SendInv, Kept
<1>o. ~overtaken => Ordered(wire, drv, proc.buf, c)
  BY Zenon DEF SendInv, InOrder
<1> HIDE DEF bytes, r, c
<1>10. /\ drv' \in Seq(Int) /\ Len(drv') = Len(drv) + n
       /\ Ordered(wire, drv, bytes, r) => Ordered(wire, drv', <<>>, r)
       /\ AllOf(wire, drv, bytes, r) = AllOf(wire, drv', <<>>, r) \cup Range(b)
  <2> DEFINE e == drv \o SubSeq(bytes, 1, n)
  <2>1. /\ e \in Seq(Int) /\ Len(e) = Len(drv) + n
        /\ Ordered(wire, drv, bytes, r) => Ordered(wire, e, <<>>, r)
        /\ AllOf(wire, drv, bytes, r) = AllOf(wire, e, <<>>, r) \cup Range(b)
    <3>1. /\ wire \in Seq(Int) /\ drv \in Seq(Int) /\ bytes \in Seq(Int) /\ r \in Seq(Int)
          /\ n \in 0 .. Len(bytes)
      BY <1>2, <1>6, <1>8
    <3> QED
      BY <3>1, OrderedWrite
  <2>2. drv' = e
    BY <1>7
  <2> HIDE DEF e
  <2> QED
    BY <2>1, <2>2
<1>11. lost' = lost \cup Range(b)
  BY <1>7
<1>e. bytes = <<>> => r = c
  <2> SUFFICES ASSUME bytes = <<>> PROVE r = c
    OBVIOUS
  <2>1. k = 0
    BY <1>6
  <2>2. SubSeq(c, 0 + 1, Len(c)) = c
    BY <1>5, SubSeqFull
  <2> QED
    BY <2>1, <2>2 DEF r
<1>f. bytes = <<>> => drv' = drv
  <2> SUFFICES ASSUME bytes = <<>> PROVE drv' = drv
    OBVIOUS
  <2>1. n = 0
    BY <1>6
  <2>2. SubSeq(bytes, 1, 0) = <<>>
    BY SubSeqEmpty
  <2>3. drv \o <<>> = drv
    BY <1>2, ConcatEmptySeq
  <2> QED
    BY <1>7, <2>1, <2>2, <2>3
<1> HIDE DEF b
<1>12. TxTypes'
  <2>1. Len(drv') <= ROOM
    BY <1>7, <1>10
  <2> QED
    BY <1>1, <1>2, <1>4, <1>10, <2>1 DEF SendInv, TxTypes
<1>13. Kept'
  <2>1. AllOf(wire, drv, proc.buf, c) = AllOf(wire, drv', proc.buf, r) \cup Range(b)
    <3>1. Range(drv) \cup Range(c) = Range(drv') \cup Range(r) \cup Range(b)
      <4>1. Range(<<>>) = {}
        BY NoBytes
      <4>2. /\ Range(c) = Range(bytes) \cup Range(r)
            /\ Range(bytes) = Range(SubSeq(bytes, 1, n)) \cup Range(b)
            /\ Range(drv') = Range(drv) \cup Range(SubSeq(bytes, 1, n))
        <5>1. Range(c) = Range(bytes) \cup Range(r)
          BY <1>4, <1>5, PartsRange DEF r
        <5>2. Range(bytes) = Range(SubSeq(bytes, 1, n)) \cup Range(b)
          BY <1>6, PartsRange DEF b
        <5>3. SubSeq(bytes, 1, n) \in Seq(Int)
          BY <1>6, Parts
        <5>4. Range(drv') = Range(drv) \cup Range(SubSeq(bytes, 1, n))
          BY <1>2, <1>7, <5>3, ConcatRange
        <5> QED
          BY <5>1, <5>2, <5>4
      <4> QED
        BY <4>2
    <3> QED
      BY <3>1 DEF AllOf
  <2>2. 0 .. put - 1 = lost' \cup AllOf(wire, drv', proc.buf, r)
    BY <1>11, <1>c, <2>1
  <2> QED
    BY <1>1, <1>8, <2>2 DEF Kept
<1>14. InOrder'
  <2> SUFFICES ASSUME ~overtaken' PROVE Ordered(wire, drv', proc.buf, r)
    BY <1>1, <1>8, Zenon DEF InOrder
  <2>1. ~overtaken /\ (bytes = <<>> \/ proc.buf = <<>>)
    BY <1>1, Zenon
  <2>2. Ordered(wire, drv, proc.buf, c)
    BY <1>o, <2>1, Zenon
  <2>3. CASE bytes = <<>>
    BY <1>e, <1>f, <2>2, <2>3, Zenon
  <2>4. CASE proc.buf = <<>>
    BY <1>9, <1>10, <2>2, <2>4, Zenon
  <2> QED
    BY <2>1, <2>3, <2>4, Zenon
<1>15. ClosedEmpty'
  BY <1>1 DEF ClosedEmpty
<1> QED
  BY <1>12, <1>13, <1>14, <1>15 DEF SendInv

\* The line sends the oldest byte of the driver below.
LEMMA SendSend == ASSUME SendInv, SendByte PROVE SendInv'
<1>1. /\ drv # <<>> /\ wire' = Append(wire, Head(drv)) /\ drv' = Tail(drv)
      /\ open' = open /\ tx' = tx /\ put' = put /\ proc' = proc /\ lost' = lost
      /\ overtaken' = overtaken
  BY DEF SendByte
<1>2. /\ tx \in Ring /\ wire \in Seq(Int) /\ drv \in Seq(Int) /\ Len(drv) <= ROOM
      /\ put \in Nat /\ proc.buf \in Seq(Int) /\ ROOM \in Nat
  BY Sizes DEF SendInv, TxTypes, ProcType
<1> DEFINE c == Contents(tx)
<1>3. c \in Seq(Int) /\ Contents(tx') = c
  BY <1>1, <1>2, ContentsSeq
<1>c. 0 .. put - 1 = lost \cup AllOf(wire, drv, proc.buf, c)
  BY DEF SendInv, Kept
<1>o. ~overtaken => Ordered(wire, drv, proc.buf, c)
  BY Zenon DEF SendInv, InOrder
<1> HIDE DEF c
<1>4. /\ wire' \in Seq(Int) /\ drv' \in Seq(Int) /\ Len(drv') = Len(drv) - 1
      /\ Ordered(wire, drv, proc.buf, c) => Ordered(wire', drv', proc.buf, c)
      /\ AllOf(wire', drv', proc.buf, c) = AllOf(wire, drv, proc.buf, c)
  <2> DEFINE v == Append(wire, Head(drv))
             u == Tail(drv)
  <2>1. /\ v \in Seq(Int) /\ u \in Seq(Int) /\ Len(u) = Len(drv) - 1
        /\ Ordered(wire, drv, proc.buf, c) => Ordered(v, u, proc.buf, c)
        /\ AllOf(v, u, proc.buf, c) = AllOf(wire, drv, proc.buf, c)
    BY <1>1, <1>2, <1>3, OrderedSend
  <2>2. wire' = v /\ drv' = u
    BY <1>1
  <2> HIDE DEF v, u
  <2> QED
    BY <2>1, <2>2
<1>5. TxTypes'
  <2>1. Len(drv') <= ROOM
    BY <1>2, <1>4
  <2> QED
    BY <1>1, <1>2, <1>4, <2>1 DEF SendInv, TxTypes
<1>6. Kept'
  BY <1>1, <1>3, <1>4, <1>c, Zenon DEF Kept
<1>7. InOrder'
  BY <1>1, <1>3, <1>4, <1>o, Zenon DEF InOrder
<1>8. ClosedEmpty'
  BY <1>1 DEF SendInv, ClosedEmpty
<1> QED
  BY <1>5, <1>6, <1>7, <1>8 DEF SendInv

\* Opening begins with an empty ring.
LEMMA SendOpen == ASSUME SendInv, tuxctl_ldisc_open PROVE SendInv'
<1>1. /\ ~open /\ open' = TRUE /\ tx' = Empty
      /\ put' = put /\ proc' = proc /\ drv' = drv /\ wire' = wire /\ lost' = lost
      /\ overtaken' = overtaken
  BY DEF tuxctl_ldisc_open
<1>2. tx = Empty
  BY <1>1 DEF SendInv, ClosedEmpty
<1>3. TxTypes'
  BY <1>1, <1>2 DEF SendInv, TxTypes
<1>4. Contents(tx') = Contents(tx)
  BY <1>1, <1>2
<1>5. Kept'
  BY <1>1, <1>4, Zenon DEF SendInv, Kept
<1>6. InOrder'
  BY <1>1, <1>4, Zenon DEF SendInv, InOrder
<1>7. ClosedEmpty'
  BY <1>1 DEF ClosedEmpty
<1> QED
  BY <1>3, <1>5, <1>6, <1>7 DEF SendInv

\* Closing loses the bytes left in the ring, and they are counted as lost.
LEMMA SendClose == ASSUME SendInv, tuxctl_ldisc_close PROVE SendInv'
<1>1. /\ proc.at = "idle" /\ open' = FALSE /\ tx' = Empty
      /\ lost' = lost \cup Range(Contents(tx))
      /\ put' = put /\ proc' = proc /\ drv' = drv /\ wire' = wire
      /\ overtaken' = overtaken
  BY DEF tuxctl_ldisc_close
<1>2. /\ tx \in Ring /\ wire \in Seq(Int) /\ drv \in Seq(Int) /\ proc.buf \in Seq(Int)
  BY DEF SendInv, TxTypes, ProcType
<1>3. TxTypes'
  BY <1>1, EmptyRing DEF SendInv, TxTypes
<1> DEFINE c == Contents(tx)
<1>4. c \in Seq(Int) /\ Contents(tx') = <<>>
  BY <1>1, <1>2, ContentsSeq, EmptyRing
<1>c. 0 .. put - 1 = lost \cup AllOf(wire, drv, proc.buf, c)
  BY DEF SendInv, Kept
<1>o. ~overtaken => Ordered(wire, drv, proc.buf, c)
  BY Zenon DEF SendInv, InOrder
<1>d. lost' = lost \cup Range(c)
  BY <1>1
<1> HIDE DEF c
<1>5. /\ Ordered(wire, drv, proc.buf, c) => Ordered(wire, drv, proc.buf, <<>>)
      /\ AllOf(wire, drv, proc.buf, c) = AllOf(wire, drv, proc.buf, <<>>) \cup Range(c)
  BY <1>2, <1>4, OrderedClose
<1>6. Kept'
  <2>1. 0 .. put - 1 = lost' \cup AllOf(wire, drv, proc.buf, <<>>)
    BY <1>5, <1>c, <1>d
  <2> QED
    BY <1>1, <1>4, <2>1 DEF Kept
<1>7. InOrder'
  BY <1>1, <1>4, <1>5, <1>o, Zenon DEF InOrder
<1>8. ClosedEmpty'
  BY <1>1 DEF ClosedEmpty
<1> QED
  BY <1>3, <1>6, <1>7, <1>8 DEF SendInv

\* SendInv is inductive.
LEMMA SendStep == ASSUME SendInv, [Next]_vars PROVE SendInv'
<1>1. CASE tuxctl_ldisc_rcv_buf
  <2>1. UNCHANGED <<open, opens, txvars>>
    BY <1>1 DEF tuxctl_ldisc_rcv_buf
  <2> QED
    BY <2>1, SendSame
<1>2. CASE UNCHANGED vars
  BY <1>2, SendSame DEF vars
<1> QED
  BY <1>1, <1>2, SendOpen, SendClose, SendPut, SendAsk, SendTake, SendWrite, SendWake, SendSend
  DEF Next

\* The invariant is strong enough.
LEMMA SendKeeps == SendInv => BytesKept
<1> SUFFICES ASSUME SendInv PROVE BytesKept
  OBVIOUS
<1>1. /\ tx \in Ring /\ wire \in Seq(Int) /\ drv \in Seq(Int) /\ proc.buf \in Seq(Int)
  BY DEF SendInv, TxTypes, ProcType
<1> DEFINE c == Contents(tx)
           d == IF open THEN Contents(tx) ELSE <<>>
<1>2. c \in Seq(Int)
  BY <1>1, ContentsSeq
<1>3. d = c
  BY EmptyRing DEF SendInv, ClosedEmpty
<1>o. ~overtaken => Ordered(wire, drv, proc.buf, c)
  BY Zenon DEF SendInv, InOrder
<1>c. 0 .. put - 1 = lost \cup AllOf(wire, drv, proc.buf, c)
  BY DEF SendInv, Kept
<1> HIDE DEF c
<1>4. /\ Ordered(wire, drv, proc.buf, c) => Increasing(wire \o drv \o proc.buf \o c)
      /\ Range(wire \o drv \o proc.buf \o c) = AllOf(wire, drv, proc.buf, c)
  BY <1>1, <1>2, OrderedOut
<1>5. PutAccounted
  BY <1>4, <1>c, Zenon DEF PutAccounted, c
<1>6. ~overtaken => Increasing(wire \o drv \o proc.buf \o d)
  BY <1>3, <1>4, <1>o, Zenon
<1>7. OutInOrder
  BY <1>6, Zenon DEF OutInOrder, d
<1> QED
  BY <1>5, <1>7 DEF BytesKept

\* Every byte that tuxctl_ldisc_put accepted is in the ring, with the process,
\* in the driver, sent or known to be lost, and the bytes leave in their order
\* unless an interrupt's tuxctl_ldisc_write_wakeup has overtaken a process.
THEOREM BytesAreKept == Spec => []BytesKept
<1>1. Init => SendInv
  BY SendInit
<1>2. SendInv /\ [Next]_vars => SendInv'
  BY SendStep
<1> QED
  BY <1>1, <1>2, SendKeeps, PTL DEF Spec

\* A write of at most one byte more than there is room loses at most one byte.
LEMMA WriteLoses ==
  ASSUME NEW bytes \in Seq(Int), drv \in Seq(Int), Len(drv) <= ROOM, Write(bytes),
         Len(bytes) <= ROOM - Len(drv) + 1, IsFiniteSet(lost)
  PROVE  Cardinality(lost') <= Cardinality(lost) + 1
<1>1. PICK n \in 0 .. Len(bytes) :
           /\ lost' = lost \cup Range(SubSeq(bytes, n + 1, Len(bytes)))
           /\ (n = Len(bytes) \/ n = ROOM - Len(drv))
  BY WriteSplits
<1> DEFINE b == SubSeq(bytes, n + 1, Len(bytes))
<1>2. b \in Seq(Int) /\ Len(b) = Len(bytes) - n
  BY Parts
<1>3. Len(b) <= 1 /\ Len(b) \in Nat /\ DOMAIN b = 1 .. Len(b)
  BY <1>1, <1>2, Sizes
<1>4. lost' = lost \cup Range(b)
  BY <1>1
<1> HIDE DEF b
<1>5. lost' = lost \/ lost' = lost \cup {b[1]}
  <2>1. CASE Len(b) = 0
    BY <1>3, <1>4, <2>1 DEF Range
  <2>2. CASE Len(b) = 1
    <3>1. Range(b) = {b[1]}
      BY <1>3, <2>2 DEF Range
    <3> QED
      BY <1>4, <3>1
  <2> QED
    BY <1>3, <2>1, <2>2
<1>6. Cardinality(lost) \in Nat
  BY FS_CardinalityType
<1> DEFINE x == b[1]
<1>7. Cardinality(lost \cup {x}) <= Cardinality(lost) + 1
  <2> HIDE DEF x
  <2>1. Cardinality(lost \cup {x}) =
          IF x \in lost THEN Cardinality(lost) ELSE Cardinality(lost) + 1
    BY FS_AddElement
  <2> QED
    BY <1>6, <2>1
<1> HIDE DEF x
<1>8. lost' = lost \/ lost' = lost \cup {x}
  BY <1>5 DEF x
<1>9. Cardinality(lost) <= Cardinality(lost) + 1
  BY <1>6
<1> QED
  BY <1>7, <1>8, <1>9, Zenon

\* A wake-up of tuxctl_ldisc_write_wakeup loses at most one byte, unless the room
\* that a process was told of has been used up: its loop, n <= room, takes one
\* byte too many and never more.
THEOREM LossIsOne == Spec => LosesAtMostOne
<1>1. Init => SendInv
  BY SendInit
<1>2. SendInv /\ [Next]_vars => SendInv'
  BY SendStep
<1> DEFINE A == (open' /\ ((proc.at = "write" /\ proc'.at = "idle")
                              => proc.room <= ROOM - Len(drv)))
                => Cardinality(lost') <= Cardinality(lost) + 1
<1>3. ASSUME SendInv, Next PROVE A
  <2>0. IsFiniteSet(lost)
    <3>1. lost \subseteq 0 .. put - 1 /\ put \in Nat
      BY <1>3 DEF SendInv, Kept, TxTypes
    <3>2. IsFiniteSet(0 .. put - 1)
      BY <3>1, FS_Interval
    <3> QED
      BY <3>1, <3>2, FS_Subset
  <2>1. CASE lost' = lost
    <3>1. Cardinality(lost) \in Nat
      BY <2>0, FS_CardinalityType
    <3>2. Cardinality(lost') <= Cardinality(lost) + 1
      BY <2>1, <3>1
    <3> QED
      BY <3>2
  <2>2. CASE tuxctl_ldisc_close
    BY <2>2 DEF tuxctl_ldisc_close
  <2>3. CASE WriteBytes
    <3> SUFFICES ASSUME proc.room <= ROOM - Len(drv)
                 PROVE  Cardinality(lost') <= Cardinality(lost) + 1
      BY <2>3, IdleType DEF WriteBytes
    <3>1. /\ drv \in Seq(Int) /\ Len(drv) <= ROOM /\ proc.buf \in Seq(Int)
          /\ Len(proc.buf) <= proc.room + 1 /\ proc.room \in Nat
      BY <1>3, Sizes DEF SendInv, TxTypes, ProcType
    <3>2. Len(proc.buf) <= ROOM - Len(drv) + 1
      BY <3>1, Sizes
    <3>3. Write(proc.buf)
      BY <2>3 DEF WriteBytes
    <3> QED
      BY <2>0, <3>1, <3>2, <3>3, WriteLoses
  <2>4. CASE tuxctl_ldisc_write_wakeup
    <3> DEFINE bytes == Take(ROOM - Len(drv))
    <3>1. tx \in Ring /\ drv \in Seq(Int) /\ Len(drv) <= ROOM
      BY <1>3 DEF SendInv, TxTypes
    <3>2. ROOM - Len(drv) \in 0 .. ROOM
      BY <3>1, Sizes
    <3>3. PICK k \in 0 .. Len(Contents(tx)) :
            k <= ROOM - Len(drv) + 1 /\ bytes = SubSeq(Contents(tx), 1, k)
      BY <3>1, <3>2, TakeFront
    <3>4. bytes \in Seq(Int) /\ Len(bytes) = k
      <4> DEFINE c == Contents(tx)
      <4>1. c \in Seq(Int) /\ k \in 0 .. Len(c) /\ bytes = SubSeq(c, 1, k)
        BY <3>1, <3>3, ContentsSeq
      <4> HIDE DEF c, bytes
      <4> QED
        BY <4>1, Parts
    <3>5. Write(bytes)
      BY <2>4 DEF tuxctl_ldisc_write_wakeup
    <3> HIDE DEF bytes
    <3>6. Cardinality(lost') <= Cardinality(lost) + 1
      BY <2>0, <3>1, <3>3, <3>4, <3>5, WriteLoses
    <3> QED
      BY <3>6
  <2> QED
    BY <1>3, <2>1, <2>2, <2>3, <2>4
    DEF Next, tuxctl_ldisc_open, tuxctl_ldisc_rcv_buf, tuxctl_ldisc_put, AskRoom,
        TakeBytes, SendByte, txvars
<1>4. SendInv /\ [Next]_vars => [A]_vars
  BY <1>3
<1> QED
  BY <1>1, <1>2, <1>4, PTL DEF Spec, LosesAtMostOne

-----------------------------------------------------------------------------
(* The scan for packets *)

\* One entry of the recursive function of Scan, given the later ones, and the
\* function from lo on.
ScanAt(f, p, i) ==
  IF i > Len(p) - 2 THEN [found |-> <<>>, stop |-> i]
  ELSE IF Framed(p, i)
       THEN [f[i + 3] EXCEPT !.found = <<SubSeq(p, i, i + 2)>> \o @]
  ELSE f[i + 1]

Scans(f, p, lo) == f = [i \in lo .. Len(p) + 1 |-> ScanAt(f, p, i)]

\* The scan at i depends on nothing but what it makes of the bytes behind i.
LEMMA ScanAtSame ==
  ASSUME NEW f, NEW g, NEW p, NEW i, i > Len(p) - 2 \/ (f[i + 1] = g[i + 1] /\ f[i + 3] = g[i + 3])
  PROVE  ScanAt(f, p, i) = ScanAt(g, p, i)
  BY Zenon DEF ScanAt

\* There is such a function; it is built from the end.
LEMMA ScansExist ==
  ASSUME NEW p \in Seq(Int)
  PROVE  \E f : Scans(f, p, 1)
<1> DEFINE N == Len(p) + 1
           Bad == {k \in 0 .. N - 1 : ~\E f : Scans(f, p, N - k)}
<1>0. N \in Nat /\ N > 0 /\ Len(p) \in Nat /\ Len(p) = N - 1
  OBVIOUS
<1> HIDE DEF N
<1>a. \A f, lo : Scans(f, p, lo) <=> f = [i \in lo .. N |-> ScanAt(f, p, i)]
  BY DEF Scans, N
<1>b. Bad = {}
  <2> SUFFICES ASSUME Bad # {} PROVE FALSE
    OBVIOUS
  <2>0. Bad \in SUBSET Nat
    BY <1>0
  <2>1. PICK k \in Bad : \A j \in Bad : k <= j
    BY <2>0, LeastNat
  <2>2. CASE k = 0
    <3> DEFINE f == [i \in N .. N |-> ScanAt(<<>>, p, i)]
    <3>1. ASSUME NEW i \in N .. N PROVE ScanAt(<<>>, p, i) = ScanAt(f, p, i)
      <4>1. i > Len(p) - 2
        BY <1>0
      <4> HIDE DEF f
      <4> QED
        BY <4>1, ScanAtSame
    <3>2. [i \in N .. N |-> ScanAt(<<>>, p, i)] = [i \in N .. N |-> ScanAt(f, p, i)]
      <4> HIDE DEF f
      <4> QED
        BY <3>1
    <3>3. f = [i \in N .. N |-> ScanAt(f, p, i)]
      BY <3>2
    <3>4. N - k = N
      BY <1>0, <2>2
    <3> HIDE DEF f
    <3>5. Scans(f, p, N - k)
      BY <1>a, <3>3, <3>4
    <3> QED
      BY <2>1, <3>5
  <2>3. CASE k # 0
    <3> DEFINE lo == N - k
    <3>1. k - 1 \in 0 .. N - 1 /\ k - 1 \notin Bad /\ lo \in Nat /\ N - (k - 1) = lo + 1 /\ lo < N
      <4>1. k \in 0 .. N - 1
        OBVIOUS
      <4>2. k - 1 \in Nat /\ ~(k <= k - 1)
        BY <1>0, <2>3, <4>1
      <4>3. k - 1 \notin Bad
        <5> HIDE DEF Bad
        <5> QED
          BY <2>1, <4>2
      <4> QED
        BY <1>0, <2>3, <4>1, <4>3
    <3>2. PICK f : Scans(f, p, lo + 1)
      BY <3>1
    <3>3. f = [i \in lo + 1 .. N |-> ScanAt(f, p, i)]
      BY <1>a, <3>2
    <3> DEFINE g == [i \in lo .. N |-> ScanAt(f, p, i)]
    <3> HIDE DEF lo
    <3>4. \A i \in lo + 1 .. N : g[i] = f[i]
      <4> TAKE i \in lo + 1 .. N
      <4>1. i \in lo .. N
        BY <1>0, <3>1
      <4>2. f[i] = ScanAt(f, p, i)
        BY <3>3, Zenon
      <4> QED
        BY <4>1, <4>2
    <3> HIDE DEF g
    <3>5. \A i \in lo .. N : ScanAt(f, p, i) = ScanAt(g, p, i)
      <4> TAKE i \in lo .. N
      <4>1. CASE i > Len(p) - 2
        BY <4>1, ScanAtSame
      <4>2. CASE i <= Len(p) - 2
        <5>1. i + 1 \in lo + 1 .. N /\ i + 3 \in lo + 1 .. N
          BY <1>0, <3>1, <4>2
        <5>2. f[i + 1] = g[i + 1] /\ f[i + 3] = g[i + 3]
          BY <3>4, <5>1
        <5> QED
          BY <5>2, ScanAtSame
      <4> QED
        BY <1>0, <3>1, <4>1, <4>2
    <3>6. g = [i \in lo .. N |-> ScanAt(g, p, i)]
      <4>1. g = [i \in lo .. N |-> ScanAt(f, p, i)]
        BY DEF g
      <4> QED
        BY <3>5, <4>1
    <3>7. Scans(g, p, lo)
      BY <1>a, <3>6
    <3> QED
      BY <2>1, <3>7 DEF lo
  <2> QED
    BY <2>2, <2>3
<1>1. N - 1 \in 0 .. N - 1 /\ N - (N - 1) = 1
  BY <1>0
<1> QED
  BY <1>b, <1>1

\* Three bytes in a row.
LEMMA Triple ==
  ASSUME NEW p \in Seq(Int), NEW j \in 1 .. Len(p) - 2
  PROVE  LET h == SubSeq(p, j, j + 2)
         IN  h \in Seq(Int) /\ Len(h) = 3 /\ h[1] = p[j] /\ h[2] = p[j + 1] /\ h[3] = p[j + 2]
<1> DEFINE h == SubSeq(p, j, j + 2)
<1>1. j \in Int /\ j + 2 \in Int /\ \A i \in j .. j + 2 : p[i] \in Int
  OBVIOUS
<1>2. /\ h \in Seq(Int) /\ Len(h) = (IF j <= j + 2 THEN (j + 2) - j + 1 ELSE 0)
      /\ \A i \in 1 .. (j + 2) - j + 1 : h[i] = p[j + i - 1]
  BY <1>1, SubSeqProperties
<1> HIDE DEF h
<1>3. Len(h) = 3
  BY <1>1, <1>2
<1>4. h[1] = p[j + 1 - 1] /\ h[2] = p[j + 2 - 1] /\ h[3] = p[j + 3 - 1]
  BY <1>1, <1>2
<1>5. j + 1 - 1 = j /\ j + 2 - 1 = j + 1 /\ j + 3 - 1 = j + 2
  BY <1>1
<1>6. h[1] = p[j] /\ h[2] = p[j + 1] /\ h[3] = p[j + 2]
  BY <1>4, <1>5
<1> QED
  BY <1>2, <1>3, <1>6 DEF h

\* What the scan has found and passed over from index i on.
Scanned(s, p, i) ==
  /\ s \in [found : Seq(Seq(Int)), stop : Int]
  /\ s.stop \in i .. Len(p) + 1 /\ s.stop > Len(p) - 2
  /\ \A f \in 1 .. Len(s.found) :
       \E j \in i .. s.stop - 3 : Framed(p, j) /\ s.found[f] = SubSeq(p, j, j + 2)
  /\ \A f, g \in 1 .. Len(s.found) : f < g => s.found[f][3] < s.found[g][1]
  /\ \A j \in i .. s.stop - 1 :
       p[j] % 3 = 0 =>
         /\ j + 2 <= Len(p)
         /\ Framed(p, j) => \E f \in 1 .. Len(s.found) : s.found[f] = SubSeq(p, j, j + 2)

\* The three cases of the scan: the end, a byte passed over, a packet.
LEMMA ScannedEnd ==
  ASSUME NEW p \in Seq(Int), NEW i \in 1 .. Len(p) + 1, i > Len(p) - 2
  PROVE  Scanned([found |-> <<>>, stop |-> i], p, i)
<1> DEFINE nil == <<>>
           s == [found |-> nil, stop |-> i]
<1>1. nil \in Seq(Seq(Int)) /\ Len(nil) = 0
  OBVIOUS
<1> HIDE DEF nil
<1>2. s \in [found : Seq(Seq(Int)), stop : Int] /\ s.found = nil /\ s.stop = i
  BY <1>1
<1> HIDE DEF s
<1>3. Scanned(s, p, i)
  BY <1>1, <1>2 DEF Scanned
<1> QED
  BY <1>3 DEF s, nil

\* A byte that begins no packet is passed over.
LEMMA ScannedSkip ==
  ASSUME NEW p \in Seq(Int), NEW i \in 1 .. Len(p) - 2, ~Framed(p, i),
         NEW s, Scanned(s, p, i + 1)
  PROVE  Scanned(s, p, i)
<1>0. i \in Nat /\ i + 2 <= Len(p) /\ Len(p) \in Nat
  OBVIOUS
<1>1. /\ s \in [found : Seq(Seq(Int)), stop : Int] /\ s.stop \in Int
      /\ s.stop \in i + 1 .. Len(p) + 1 /\ s.stop > Len(p) - 2
      /\ \A f, g \in 1 .. Len(s.found) : f < g => s.found[f][3] < s.found[g][1]
  BY DEF Scanned
<1>2. \A f \in 1 .. Len(s.found) :
        \E j \in i .. s.stop - 3 : Framed(p, j) /\ s.found[f] = SubSeq(p, j, j + 2)
  <2> TAKE f \in 1 .. Len(s.found)
  <2>1. PICK j \in i + 1 .. s.stop - 3 : Framed(p, j) /\ s.found[f] = SubSeq(p, j, j + 2)
    BY DEF Scanned
  <2>2. j \in i .. s.stop - 3
    BY <1>0, <1>1
  <2> QED
    BY <2>1, <2>2
<1>3. ASSUME NEW j \in i .. s.stop - 1, p[j] % 3 = 0
      PROVE  /\ j + 2 <= Len(p)
             /\ Framed(p, j) => \E f \in 1 .. Len(s.found) : s.found[f] = SubSeq(p, j, j + 2)
  <2>1. CASE j = i
    BY <1>0, <2>1
  <2>2. CASE j # i
    <3>1. j \in i + 1 .. s.stop - 1
      BY <1>0, <1>1, <2>2
    <3> QED
      BY <1>3, <3>1 DEF Scanned
  <2> QED
    BY <2>1, <2>2
<1>4. s.stop \in i .. Len(p) + 1
  BY <1>0, <1>1
<1> QED
  BY <1>1, <1>2, <1>3, <1>4 DEF Scanned

\* A packet joined in front of the others.
LEMMA ConcatTriples ==
  ASSUME NEW o \in Seq(Seq(Int)), NEW t \in Seq(Seq(Int))
  PROVE  /\ o \o t \in Seq(Seq(Int)) /\ Len(o \o t) = Len(o) + Len(t)
         /\ \A k \in 1 .. Len(o) + Len(t) :
              (o \o t)[k] = IF k <= Len(o) THEN o[k] ELSE t[k - Len(o)]
  BY ConcatProperties, SMT

\* A packet found is handled and the scan goes on behind it.
LEMMA ScannedFound ==
  ASSUME NEW p \in Seq(Int), Increasing(p), NEW i \in 1 .. Len(p) - 2, Framed(p, i),
         NEW s, Scanned(s, p, i + 3)
  PROVE  Scanned([s EXCEPT !.found = <<SubSeq(p, i, i + 2)>> \o @], p, i)
<1> DEFINE h == SubSeq(p, i, i + 2)
           w == <<h>> \o s.found
           z == [s EXCEPT !.found = <<SubSeq(p, i, i + 2)>> \o @]
           m == Len(s.found)
<1>0. i \in Nat /\ i >= 1 /\ i + 2 <= Len(p) /\ Len(p) \in Nat /\ DOMAIN p = 1 .. Len(p)
  OBVIOUS
<1>1. /\ s \in [found : Seq(Seq(Int)), stop : Int] /\ s.stop \in Int
      /\ s.stop \in i + 3 .. Len(p) + 1 /\ s.stop > Len(p) - 2
      /\ s.found \in Seq(Seq(Int)) /\ m \in Nat
  BY DEF Scanned
<1>2. h \in Seq(Int) /\ h[1] = p[i] /\ h[2] = p[i + 1] /\ h[3] = p[i + 2]
  BY Triple
<1>z. z = [found |-> w, stop |-> s.stop]
  <2> HIDE DEF z, w
  <2>1. z = [s EXCEPT !.found = w]
    BY DEF z, w
  <2> QED
    BY <1>1, <2>1
<1> HIDE DEF h, z
<1>3. /\ w \in Seq(Seq(Int)) /\ Len(w) = m + 1 /\ w[1] = h
      /\ \A k \in 1 .. m : w[k + 1] = s.found[k]
  <2> DEFINE o == <<h>>
  <2>1. o \in Seq(Seq(Int)) /\ Len(o) = 1 /\ o[1] = h
    BY <1>2
  <2> HIDE DEF o
  <2>2. /\ o \o s.found \in Seq(Seq(Int)) /\ Len(o \o s.found) = 1 + m
        /\ \A k \in 1 .. 1 + m : (o \o s.found)[k] = IF k <= 1 THEN o[k] ELSE s.found[k - 1]
    <3> DEFINE t == s.found
    <3>1. t \in Seq(Seq(Int)) /\ Len(t) = m
      BY <1>1
    <3> HIDE DEF t
    <3>2. /\ o \o t \in Seq(Seq(Int)) /\ Len(o \o t) = Len(o) + Len(t)
          /\ \A k \in 1 .. Len(o) + Len(t) :
               (o \o t)[k] = IF k <= Len(o) THEN o[k] ELSE t[k - Len(o)]
      <4>1. o \in Seq(Seq(Int)) /\ t \in Seq(Seq(Int))
        BY <2>1, <3>1
      <4> QED
        BY <4>1, ConcatTriples
    <3> QED
      BY <2>1, <3>1, <3>2 DEF t
  <2> DEFINE v == o \o s.found
  <2>3. v \in Seq(Seq(Int)) /\ Len(v) = m + 1 /\ v[1] = h
        /\ \A k \in 1 .. m : v[k + 1] = s.found[k]
    <3>1. /\ v \in Seq(Seq(Int)) /\ Len(v) = 1 + m
          /\ \A k \in 1 .. 1 + m : v[k] = IF k <= 1 THEN o[k] ELSE s.found[k - 1]
      BY <2>2
    <3> HIDE DEF v, m
    <3>2. Len(v) = m + 1 /\ v[1] = h
      BY <1>1, <2>1, <3>1
    <3>3. ASSUME NEW k \in 1 .. m PROVE v[k + 1] = s.found[k]
      <4>1. k + 1 \in 1 .. 1 + m /\ ~(k + 1 <= 1) /\ k + 1 - 1 = k
        BY <1>1
      <4> QED
        BY <3>1, <4>1
    <3> QED
      BY <3>1, <3>2, <3>3
  <2> QED
    BY <2>3 DEF o
<1> HIDE DEF w
<1>4. z \in [found : Seq(Seq(Int)), stop : Int] /\ z.found = w /\ z.stop = s.stop
  BY <1>1, <1>3, <1>z
<1> HIDE DEF m
<1>5. \A f \in 1 .. m :
        \E j \in i + 3 .. s.stop - 3 : Framed(p, j) /\ s.found[f] = SubSeq(p, j, j + 2)
  BY DEF Scanned, m
<1>6. \A f \in 1 .. Len(w) :
        \E j \in i .. s.stop - 3 : Framed(p, j) /\ w[f] = SubSeq(p, j, j + 2)
  <2> TAKE f \in 1 .. Len(w)
  <2>1. CASE f = 1
    <3>1. i \in i .. s.stop - 3
      BY <1>0, <1>1
    <3> QED
      BY <1>3, <2>1, <3>1 DEF h
  <2>2. CASE f # 1
    <3>1. f - 1 \in 1 .. m /\ f - 1 + 1 = f
      BY <1>1, <1>3, <2>2
    <3>2. PICK j \in i + 3 .. s.stop - 3 :
            Framed(p, j) /\ s.found[f - 1] = SubSeq(p, j, j + 2)
      BY <1>5, <3>1
    <3>3. w[f] = s.found[f - 1]
      BY <1>3, <3>1
    <3>4. j \in i .. s.stop - 3
      BY <1>0, <1>1
    <3> QED
      BY <3>2, <3>3, <3>4
  <2> QED
    BY <2>1, <2>2
<1>7. ASSUME NEW f \in 1 .. Len(w), NEW g \in 1 .. Len(w), f < g
      PROVE  w[f][3] < w[g][1]
  <2>1. g - 1 \in 1 .. m /\ g - 1 + 1 = g
    BY <1>1, <1>3, <1>7
  <2>2. w[g] = s.found[g - 1]
    BY <1>3, <2>1
  <2>3. CASE f = 1
    <3>1. PICK j \in i + 3 .. s.stop - 3 :
            Framed(p, j) /\ s.found[g - 1] = SubSeq(p, j, j + 2)
      BY <1>5, <2>1
    <3>2. j \in 1 .. Len(p) - 2 /\ i + 2 < j /\ i + 2 \in 1 .. Len(p) /\ j \in 1 .. Len(p)
      <4>1. s.stop \in Int /\ s.stop <= Len(p) + 1
        BY <1>0, <1>1
      <4>2. j \in Int /\ i + 3 <= j /\ j <= s.stop - 3
        BY <1>0, <4>1
      <4>3. i \in Int /\ i >= 1 /\ Len(p) \in Int
        BY <1>0
      <4>4. \A st, l, ii, jj \in Int :
              (st <= l + 1 /\ ii >= 1 /\ ii + 3 <= jj /\ jj <= st - 3)
                => jj <= l - 2 /\ jj >= 1 /\ ii + 2 < jj /\ ii + 2 <= l
        OBVIOUS
      <4>5. j <= Len(p) - 2 /\ j >= 1 /\ i + 2 < j /\ i + 2 <= Len(p)
        BY <4>1, <4>2, <4>3, <4>4, Zenon
      <4> QED
        BY <4>2, <4>3, <4>5
    <3>3. s.found[g - 1][1] = p[j]
      BY <3>1, <3>2, Triple
    <3>4. p[i + 2] < p[j]
      BY <1>0, <3>2 DEF Increasing
    <3> QED
      BY <1>2, <1>3, <2>2, <2>3, <3>3, <3>4
  <2>4. CASE f # 1
    <3>1. f - 1 \in 1 .. m /\ f - 1 + 1 = f /\ f - 1 < g - 1
      BY <1>1, <1>3, <1>7, <2>4
    <3>2. w[f] = s.found[f - 1]
      BY <1>3, <3>1
    <3>3. s.found[f - 1][3] < s.found[g - 1][1]
      BY <2>1, <3>1 DEF Scanned, m
    <3> QED
      BY <2>2, <3>2, <3>3
  <2> QED
    BY <2>3, <2>4
<1>8. ASSUME NEW j \in i .. s.stop - 1, p[j] % 3 = 0
      PROVE  /\ j + 2 <= Len(p)
             /\ Framed(p, j) => \E f \in 1 .. Len(w) : w[f] = SubSeq(p, j, j + 2)
  <2>1. CASE j = i
    <3>1. 1 \in 1 .. Len(w)
      BY <1>1, <1>3
    <3> QED
      BY <1>0, <1>3, <2>1, <3>1 DEF h
  <2>2. CASE j = i + 1 \/ j = i + 2
    BY <1>8, <2>2 DEF Framed
  <2>3. CASE j # i /\ j # i + 1 /\ j # i + 2
    <3>1. j \in i + 3 .. s.stop - 1
      BY <1>0, <1>1, <2>3
    <3>2. /\ j + 2 <= Len(p)
          /\ Framed(p, j) => \E f \in 1 .. m : s.found[f] = SubSeq(p, j, j + 2)
      BY <1>8, <3>1 DEF Scanned, m
    <3>3. ASSUME Framed(p, j) PROVE \E f \in 1 .. Len(w) : w[f] = SubSeq(p, j, j + 2)
      <4>1. PICK f \in 1 .. m : s.found[f] = SubSeq(p, j, j + 2)
        BY <3>2, <3>3
      <4>2. f + 1 \in 1 .. Len(w) /\ w[f + 1] = s.found[f]
        BY <1>1, <1>3
      <4> QED
        BY <4>1, <4>2
    <3> QED
      BY <3>2, <3>3
  <2> QED
    BY <2>1, <2>2, <2>3
<1>9. z.stop \in i .. Len(p) + 1 /\ z.stop > Len(p) - 2
  BY <1>0, <1>1, <1>4
<1>10. Scanned(z, p, i)
  BY <1>4, <1>6, <1>7, <1>8, <1>9 DEF Scanned
<1> QED
  BY <1>10 DEF z

\* What Scan returns is what Scanned says.
LEMMA ScanIsRight ==
  ASSUME NEW p \in Seq(Int), Increasing(p)
  PROVE  Scanned(Scan(p), p, 1)
<1> DEFINE it == CHOOSE f : f = [i \in 1 .. Len(p) + 1 |->
                   IF i > Len(p) - 2 THEN [found |-> <<>>, stop |-> i]
                   ELSE IF Framed(p, i)
                        THEN [f[i + 3] EXCEPT !.found = <<SubSeq(p, i, i + 2)>> \o @]
                   ELSE f[i + 1]]
           N == Len(p) + 1
<1>0. N \in Nat /\ N > 0 /\ Len(p) \in Nat /\ Len(p) = N - 1
  OBVIOUS
<1>1. Scan(p) = it[1]
  BY DEF Scan
<1>2. Scans(it, p, 1)
  <2>1. \E f : Scans(f, p, 1)
    BY ScansExist
  <2>2. \E f : f = [i \in 1 .. Len(p) + 1 |->
                   IF i > Len(p) - 2 THEN [found |-> <<>>, stop |-> i]
                   ELSE IF Framed(p, i)
                        THEN [f[i + 3] EXCEPT !.found = <<SubSeq(p, i, i + 2)>> \o @]
                   ELSE f[i + 1]]
    BY <2>1, Zenon DEF Scans, ScanAt
  <2> QED
    BY <2>2, Zenon DEF Scans, ScanAt
<1> HIDE DEF it
<1>3. \A i \in 1 .. N : it[i] = ScanAt(it, p, i)
  BY <1>2, Zenon DEF Scans
<1> HIDE DEF N
<1> DEFINE Bad == {k \in 0 .. N - 1 : ~Scanned(it[N - k], p, N - k)}
<1>4. Bad = {}
  <2> SUFFICES ASSUME Bad # {} PROVE FALSE
    OBVIOUS
  <2>0. Bad \in SUBSET Nat
    BY <1>0
  <2>1. PICK k \in Bad : \A j \in Bad : k <= j
    BY <2>0, LeastNat
  <2> DEFINE i == N - k
  <2>2. i \in 1 .. N /\ k \in 0 .. N - 1
    BY <1>0
  <2>n. ~Scanned(it[i], p, i)
    BY <2>1
  <2>3. \A j \in i + 1 .. N : Scanned(it[j], p, j)
    <3> TAKE j \in i + 1 .. N
    <3>1. N - j \in 0 .. N - 1 /\ N - j < k /\ N - (N - j) = j
      BY <1>0, <2>2
    <3>2. N - j \notin Bad
      <4>1. ~(k <= N - j)
        BY <1>0, <2>2, <3>1
      <4> HIDE DEF Bad
      <4> QED
        BY <2>1, <4>1
    <3> QED
      BY <3>1, <3>2
  <2> HIDE DEF i
  <2>4. it[i] = ScanAt(it, p, i)
    BY <1>3, <2>2
  <2>5. CASE i > Len(p) - 2
    <3>1. it[i] = [found |-> <<>>, stop |-> i]
      BY <2>4, <2>5, Zenon DEF ScanAt
    <3>2. i \in 1 .. Len(p) + 1
      BY <1>0, <2>2
    <3>3. Scanned([found |-> <<>>, stop |-> i], p, i)
      BY <2>5, <3>2, ScannedEnd, Zenon
    <3> QED
      BY <2>n, <3>1, <3>3, Zenon
  <2>6. CASE ~(i > Len(p) - 2) /\ Framed(p, i)
    <3>1. it[i] = [it[i + 3] EXCEPT !.found = <<SubSeq(p, i, i + 2)>> \o @]
      BY <2>4, <2>6, Zenon DEF ScanAt
    <3>2. i \in 1 .. Len(p) - 2 /\ i + 3 \in i + 1 .. N
      BY <1>0, <2>2, <2>6
    <3>3. Scanned(it[i + 3], p, i + 3)
      BY <2>3, <3>2
    <3>4. Scanned([it[i + 3] EXCEPT !.found = <<SubSeq(p, i, i + 2)>> \o @], p, i)
      BY <2>6, <3>2, <3>3, ScannedFound, Zenon
    <3> QED
      BY <2>n, <3>1, <3>4, Zenon
  <2>7. CASE ~(i > Len(p) - 2) /\ ~Framed(p, i)
    <3>1. it[i] = it[i + 1]
      BY <2>4, <2>7, Zenon DEF ScanAt
    <3>2. i \in 1 .. Len(p) - 2 /\ i + 1 \in i + 1 .. N
      BY <1>0, <2>2, <2>7
    <3>3. Scanned(it[i + 1], p, i + 1)
      BY <2>3, <3>2
    <3> QED
      BY <2>7, <2>n, <3>1, <3>2, <3>3, ScannedSkip, Zenon
  <2> QED
    BY <2>5, <2>6, <2>7, Zenon
<1>5. N - 1 \in 0 .. N - 1 /\ N - (N - 1) = 1
  BY <1>0
<1>6. Scanned(it[1], p, 1)
  BY <1>4, <1>5
<1> QED
  BY <1>1, <1>6

-----------------------------------------------------------------------------
(* Receiving: P are the bytes that wait, saved and then in the ring, N is the *)
(* number of the next byte, G the bytes that are gone, H the packets handled. *)

\* From the first waiting byte on nothing is missing but what is gone.
Complete(P, N, G) ==
  \A k \in 0 .. N - 1 : (k \notin G /\ \E x \in P : x < k) => k \in P

\* A packet of the stream, or two bytes from within it are gone.
Genuine(h, G) ==
  \/ h = Packet(h[1] \div 3)
  \/ \E x, y \in G : x # y /\ x \in h[1] .. h[3] /\ y \in h[1] .. h[3]

\* The packets handled are genuine and in order, before all bytes that wait.
HandledOK(H, P, N, G) ==
  /\ H \in Seq(Seq(Int))
  /\ \A f \in 1 .. Len(H) :
       /\ H[f][1] \in Int /\ H[f][3] \in Int /\ H[f][3] < N
       /\ \A x \in P : H[f][3] < x
       /\ Genuine(H[f], G)
  /\ \A f, g \in 1 .. Len(H) : f < g => H[f][3] < H[g][1]

\* A packet of which nothing is gone is handled or begins with a waiting byte.
Whole(H, P, N, G) ==
  \A q \in Nat : (3 * q < N /\ Range(Packet(q)) \cap G = {}) =>
    (Packet(q) \in Range(H) \/ 3 * q \in P)

\* The three bytes of packet q, by their numbers.
LEMMA PacketRange ==
  ASSUME NEW q
  PROVE  Range(Packet(q)) = {3 * q, 3 * q + 1, 3 * q + 2}
<1> DEFINE h == Packet(q)
<1>1. h = <<3 * q, 3 * q + 1, 3 * q + 2>>
  BY DEF Packet
<1>2. DOMAIN h = 1 .. 3 /\ h[1] = 3 * q /\ h[2] = 3 * q + 1 /\ h[3] = 3 * q + 2
  BY <1>1
<1> HIDE DEF h
<1>3. 1 .. 3 = {1, 2, 3}
  OBVIOUS
<1>4. Range(h) = {h[1], h[2], h[3]}
  BY <1>2, <1>3 DEF Range
<1> QED
  BY <1>2, <1>4 DEF h

\* The byte after p[x], if it is there at all, is p[x + 1].
LEMMA NextInLine ==
  ASSUME NEW p \in Seq(Int), Increasing(p), NEW x \in 1 .. Len(p) - 1, NEW v \in Range(p),
         p[x] < v, v <= p[x + 1]
  PROVE  v = p[x + 1]
<1>1. PICK y \in 1 .. Len(p) : v = p[y]
  BY DEF Range
<1>2. Len(p) \in Nat /\ x \in Nat /\ x + 1 \in 1 .. Len(p) /\ x \in 1 .. Len(p) /\ DOMAIN p = 1 .. Len(p)
  OBVIOUS
<1>3. p[x] \in Int /\ p[x + 1] \in Int /\ p[y] \in Int
  BY <1>2
<1>4. ~(y <= x)
  <2> SUFFICES ASSUME y <= x PROVE FALSE
    OBVIOUS
  <2>1. y = x \/ y < x
    BY <1>2
  <2>2. y < x => p[y] < p[x]
    BY <1>2 DEF Increasing
  <2> QED
    BY <1>1, <1>3, <2>1, <2>2
<1>5. ~(y > x + 1)
  <2> SUFFICES ASSUME y > x + 1 PROVE FALSE
    OBVIOUS
  <2>1. p[x + 1] < p[y]
    BY <1>2 DEF Increasing
  <2> QED
    BY <1>1, <1>3, <2>1
<1>6. y = x + 1
  BY <1>2, <1>4, <1>5
<1> QED
  BY <1>1, <1>6

\* The bytes of p are the first of the waiting bytes P.
InLine(p, P, N, G) ==
  /\ Increasing(p)
  /\ Range(p) \subseteq P /\ \A v \in P : v \in Range(p) \/ Before(Range(p), {v})
  /\ P \subseteq 0 .. N - 1 /\ Complete(P, N, G)

\* A number between two waiting bytes that follow each other is gone.
LEMMA Missing ==
  ASSUME NEW p \in Seq(Int), Increasing(p), NEW P, NEW N \in Nat, NEW G,
         Range(p) \subseteq P, \A v \in P : v \in Range(p) \/ Before(Range(p), {v}),
         P \subseteq 0 .. N - 1, Complete(P, N, G),
         NEW x \in 1 .. Len(p) - 1, NEW v \in Int, p[x] < v, v <= p[x + 1], v # p[x + 1]
  PROVE  v \in G
<1>1. /\ p[x] \in Range(p) /\ p[x + 1] \in Range(p)
      /\ p[x] \in Int /\ p[x + 1] \in Int
  <2>1. x \in DOMAIN p /\ x + 1 \in DOMAIN p
    OBVIOUS
  <2> QED
    BY <2>1 DEF Range
<1>2. p[x] \in 0 .. N - 1 /\ p[x + 1] \in 0 .. N - 1 /\ p[x] \in P
  BY <1>1
<1>3. v \in 0 .. N - 1
  BY <1>2
<1>4. v \notin Range(p)
  BY NextInLine
<1>5. ~Before(Range(p), {v})
  <2> SUFFICES ASSUME Before(Range(p), {v}) PROVE FALSE
    OBVIOUS
  <2>1. p[x + 1] < v
    BY <1>1 DEF Before
  <2> QED
    BY <1>1, <2>1
<1>6. v \notin P
  BY <1>4, <1>5
<1> QED
  BY <1>2, <1>3, <1>6 DEF Complete

\* What the framing bits let pass is a packet, or two bytes in it are gone.
LEMMA FramedGenuine ==
  ASSUME NEW p \in Seq(Int), Increasing(p), NEW P, NEW N \in Nat, NEW G,
         Range(p) \subseteq P, \A v \in P : v \in Range(p) \/ Before(Range(p), {v}),
         P \subseteq 0 .. N - 1, Complete(P, N, G),
         NEW j \in 1 .. Len(p) - 2, Framed(p, j)
  PROVE  Genuine(SubSeq(p, j, j + 2), G)
<1> DEFINE h == SubSeq(p, j, j + 2)
           a == p[j]
           b == p[j + 1]
           c == p[j + 2]
<1>1. h \in Seq(Int) /\ Len(h) = 3 /\ h[1] = a /\ h[2] = b /\ h[3] = c
  BY Triple
<1>2. /\ j \in 1 .. Len(p) - 1 /\ j + 1 \in 1 .. Len(p) - 1 /\ j + 1 + 1 = j + 2
      /\ {j, j + 1, j + 2} \subseteq DOMAIN p /\ j < j + 1 /\ j + 1 < j + 2
  OBVIOUS
<1>3. a \in Int /\ b \in Int /\ c \in Int /\ a < b /\ b < c
  BY <1>2 DEF Increasing
<1>4. a % 3 = 0 /\ b % 3 # 0 /\ c % 3 # 0
  BY DEF Framed
<1>5. \A v \in Int : (a < v /\ v <= b /\ v # b) => v \in G
  <2> TAKE v \in Int
  <2> HAVE a < v /\ v <= b /\ v # b
  <2> QED
    BY <1>2, Missing
<1>6. \A v \in Int : (b < v /\ v <= c /\ v # c) => v \in G
  <2> TAKE v \in Int
  <2> HAVE b < v /\ v <= c /\ v # c
  <2> DEFINE x == j + 1
  <2>1. x \in 1 .. Len(p) - 1 /\ p[x] = b /\ p[x + 1] = c
    BY <1>2
  <2> HIDE DEF x
  <2>2. p[x] < v /\ v <= p[x + 1] /\ v # p[x + 1]
    BY <2>1
  <2> QED
    BY <2>1, <2>2, Missing
<1> HIDE DEF a, b, c, h
<1>7. \A v \in Int : (a < v /\ v < c /\ v # b) => v \in G
  BY <1>3, <1>5, <1>6
<1>8. CASE c = a + 2
  <2>1. b = a + 1 /\ 3 * (a \div 3) = a
    BY <1>3, <1>4, <1>8
  <2>2. h = <<h[1], h[2], h[3]>>
    BY <1>1
  <2>3. h = Packet(h[1] \div 3)
    BY <1>1, <1>8, <2>1, <2>2 DEF Packet
  <2> QED
    BY <2>3 DEF Genuine, h
<1>9. CASE c # a + 2
  <2>1. c > a + 3
    BY <1>3, <1>4, <1>9
  <2>2. \E x, y \in G : x # y /\ x \in a .. c /\ y \in a .. c
    <3>1. CASE b = a + 1
      <4>1. a + 2 \in G /\ a + 3 \in G
        BY <1>3, <1>7, <2>1, <3>1
      <4>2. a + 2 # a + 3 /\ a + 2 \in a .. c /\ a + 3 \in a .. c
        BY <1>3, <2>1
      <4> QED
        BY <4>1, <4>2
    <3>2. CASE b = a + 2
      <4>1. a + 1 \in G /\ a + 3 \in G
        BY <1>3, <1>7, <2>1, <3>2
      <4> QED
        BY <1>3, <2>1, <4>1
    <3>3. CASE b # a + 1 /\ b # a + 2
      <4>1. a + 1 \in G /\ a + 2 \in G
        BY <1>3, <1>7, <2>1, <3>3
      <4> QED
        BY <1>3, <2>1, <4>1
    <3> QED
      BY <3>1, <3>2, <3>3
  <2> QED
    BY <1>1, <2>2 DEF Genuine, h
<1> QED
  BY <1>8, <1>9

\* The bytes before an index of a sequence in order.
LEMMA PrefixRange ==
  ASSUME NEW p \in Seq(Int), NEW n \in 0 .. Len(p)
  PROVE  LET X == SubSeq(p, 1, n)
         IN  /\ \A i \in 1 .. n : p[i] \in Range(X)
             /\ \A v \in Range(X) : \E i \in 1 .. n : v = p[i]
<1> DEFINE X == SubSeq(p, 1, n)
<1>1. X \in Seq(Int) /\ Len(X) = n /\ DOMAIN X = 1 .. n /\ \A i \in 1 .. n : X[i] = p[i]
  OBVIOUS
<1> HIDE DEF X
<1>2. (\A i \in 1 .. n : p[i] \in Range(X)) /\ (\A v \in Range(X) : \E i \in 1 .. n : v = p[i])
  BY <1>1 DEF Range
<1> QED
  BY <1>2 DEF X

\* A whole packet whose first byte is among those scanned is found.
LEMMA WholeFramed ==
  ASSUME NEW p \in Seq(Int), NEW P, NEW N \in Nat, NEW G, InLine(p, P, N, G)
  PROVE  \A x \in 1 .. Len(p) - 2, q \in Nat :
           (p[x] = 3 * q /\ 3 * q + 1 \notin G /\ 3 * q + 2 \notin G)
             => Framed(p, x) /\ SubSeq(p, x, x + 2) = Packet(q)
<1> USE DEF InLine
<1> SUFFICES ASSUME NEW x \in 1 .. Len(p) - 2, NEW q \in Nat, p[x] = 3 * q,
                    3 * q + 1 \notin G, 3 * q + 2 \notin G
             PROVE  Framed(p, x) /\ SubSeq(p, x, x + 2) = Packet(q)
  OBVIOUS
<1> DEFINE h == SubSeq(p, x, x + 2)
           y == x + 1
<1>1. h \in Seq(Int) /\ Len(h) = 3 /\ h[1] = p[x] /\ h[2] = p[x + 1] /\ h[3] = p[x + 2]
  BY Triple
<1>2. /\ x \in 1 .. Len(p) - 1 /\ y \in 1 .. Len(p) - 1 /\ y + 1 = x + 2
      /\ {x, x + 1, x + 2} \subseteq DOMAIN p /\ x < x + 1 /\ x + 1 < x + 2
  OBVIOUS
<1>3. p[x] \in Int /\ p[x + 1] \in Int /\ p[x + 2] \in Int /\ p[x] < p[x + 1] /\ p[x + 1] < p[x + 2]
  BY <1>2 DEF Increasing
<1>4. p[x + 1] = 3 * q + 1
  <2> SUFFICES ASSUME p[x + 1] # 3 * q + 1 PROVE FALSE
    OBVIOUS
  <2> DEFINE v == 3 * q + 1
  <2>1. v \in Int /\ p[x] < v /\ v <= p[x + 1] /\ v # p[x + 1]
    BY <1>3
  <2> HIDE DEF v
  <2>2. v \in G
    BY <1>2, <2>1, Missing
  <2> QED
    BY <2>2 DEF v
<1>5. p[x + 2] = 3 * q + 2
  <2> SUFFICES ASSUME p[x + 2] # 3 * q + 2 PROVE FALSE
    OBVIOUS
  <2> DEFINE v == 3 * q + 2
  <2>1. v \in Int /\ p[y] < v /\ v <= p[y + 1] /\ v # p[y + 1]
    BY <1>2, <1>3, <1>4
  <2> HIDE DEF v, y
  <2>2. v \in G
    BY <1>2, <2>1, Missing
  <2> QED
    BY <2>2 DEF v
<1>6. Framed(p, x)
  <2>1. (3 * q) % 3 = 0 /\ (3 * q + 1) % 3 # 0 /\ (3 * q + 2) % 3 # 0
    OBVIOUS
  <2> QED
    BY <1>4, <1>5, <2>1 DEF Framed
<1> HIDE DEF h
<1>7. h = <<h[1], h[2], h[3]>>
  BY <1>1
<1>8. h = Packet(q)
  BY <1>1, <1>4, <1>5, <1>7 DEF Packet
<1> QED
  BY <1>6, <1>8 DEF h

\* The callback's scan of the first waiting bytes p keeps all of this: R is what
\* stays in the ring, s what the scan returns.
LEMMA CallbackKeeps ==
  ASSUME NEW p \in Seq(Int), NEW R \in Seq(Int), Increasing(p), Increasing(R),
         Before(Range(p), Range(R)), NEW P, P = Range(p) \cup Range(R),
         NEW N \in Nat, NEW G, NEW H,
         P \subseteq 0 .. N - 1, Complete(P, N, G), HandledOK(H, P, N, G), Whole(H, P, N, G),
         NEW s, Scanned(s, p, 1)
  PROVE  LET Y == SubSeq(p, s.stop, Len(p))
             Q == Range(Y) \cup Range(R)
         IN  /\ Y \in Seq(Int) /\ Len(Y) <= 2 /\ Increasing(Y) /\ Before(Range(Y), Range(R))
             /\ Q \subseteq P /\ Complete(Q, N, G)
             /\ HandledOK(H \o s.found, Q, N, G) /\ Whole(H \o s.found, Q, N, G)
<1> DEFINE n == s.stop - 1
           X == SubSeq(p, 1, n)
           Y == SubSeq(p, n + 1, Len(p))
           Q == Range(Y) \cup Range(R)
           F == s.found
           K == H \o F
<1>1. /\ s.stop \in 1 .. Len(p) + 1 /\ s.stop > Len(p) - 2
      /\ F \in Seq(Seq(Int)) /\ Len(F) \in Nat /\ Len(p) \in Nat
  BY DEF Scanned
<1>2. n \in 0 .. Len(p) /\ n + 1 = s.stop /\ Len(p) - n <= 2 /\ n \in Nat
  BY <1>1
<1>3. Y \in Seq(Int) /\ Len(Y) = Len(p) - n
  <2> HIDE DEF n
  <2> QED
    BY <1>2, Parts
<1>4. /\ Range(p) = Range(X) \cup Range(Y) /\ Increasing(Y) /\ Before(Range(X), Range(Y))
  <2> HIDE DEF n
  <2> QED
    BY <1>2, PartsRange
<1>5. /\ \A i \in 1 .. n : p[i] \in Range(X)
      /\ \A v \in Range(X) : \E i \in 1 .. n : v = p[i]
  <2> HIDE DEF n
  <2> QED
    BY <1>2, PrefixRange
<1>f. \A f \in 1 .. Len(F) :
        \E j \in 1 .. s.stop - 3 : Framed(p, j) /\ F[f] = SubSeq(p, j, j + 2)
  BY DEF Scanned
<1>g. \A f, g \in 1 .. Len(F) : f < g => F[f][3] < F[g][1]
  BY DEF Scanned
<1>c. \A j \in 1 .. s.stop - 1 :
        p[j] % 3 = 0 =>
          /\ j + 2 <= Len(p)
          /\ Framed(p, j) => \E f \in 1 .. Len(F) : F[f] = SubSeq(p, j, j + 2)
  BY DEF Scanned
<1>h. /\ H \in Seq(Seq(Int)) /\ Len(H) \in Nat
      /\ \A f \in 1 .. Len(H) :
           /\ H[f][1] \in Int /\ H[f][3] \in Int /\ H[f][3] < N
           /\ \A x \in P : H[f][3] < x
           /\ Genuine(H[f], G)
      /\ \A f, g \in 1 .. Len(H) : f < g => H[f][3] < H[g][1]
  BY DEF HandledOK
<1> HIDE DEF X, Y, n, F
<1>6. Q \subseteq P /\ P = Range(X) \cup Q /\ Before(Range(X), Q)
  BY <1>4 DEF Before
<1>i. Range(p) \subseteq Int /\ Range(R) \subseteq Int
  BY DEF Range
<1>p. Range(p) \subseteq P /\ \A v \in P : v \in Range(p) \/ Before(Range(p), {v})
  BY DEF Before
<1>w. \A x \in 1 .. Len(p) - 2, q \in Nat :
        (p[x] = 3 * q /\ 3 * q + 1 \notin G /\ 3 * q + 2 \notin G)
          => Framed(p, x) /\ SubSeq(p, x, x + 2) = Packet(q)
  <2>1. InLine(p, P, N, G)
    BY <1>p DEF InLine
  <2> QED
    BY <2>1, WholeFramed
<1> HIDE DEF Q
<1>7. Complete(Q, N, G)
  <2> SUFFICES ASSUME NEW k \in 0 .. N - 1, k \notin G, NEW x \in Q, x < k PROVE k \in Q
    BY DEF Complete
  <2>1. x \in P
    BY <1>6
  <2>2. k \in P
    BY <2>1 DEF Complete
  <2>3. x \in Int
    BY <2>1
  <2>4. k \notin Range(X)
    <3> SUFFICES ASSUME k \in Range(X) PROVE FALSE
      OBVIOUS
    <3>1. k < x
      BY <1>6 DEF Before
    <3> QED
      BY <2>3, <3>1
  <2> QED
    BY <1>6, <2>2, <2>4
<1>8. ASSUME NEW f \in 1 .. Len(F)
      PROVE  /\ F[f][1] \in P /\ F[f][3] \in P /\ \A x \in Q : F[f][3] < x
             /\ Genuine(F[f], G)
  <2>1. PICK j \in 1 .. s.stop - 3 : Framed(p, j) /\ F[f] = SubSeq(p, j, j + 2)
    BY <1>f
  <2>2. j \in 1 .. Len(p) - 2 /\ j \in 1 .. n /\ j + 2 \in 1 .. n
    <3>1. j \in Int /\ 1 <= j /\ j <= n - 2 /\ n \in Int /\ Len(p) \in Int /\ n <= Len(p)
      <4>1. s.stop - 3 = n - 2 /\ n \in Int
        BY <1>1, <1>2
      <4>2. j \in 1 .. n - 2
        BY <4>1
      <4> QED
        BY <1>2, <4>1, <4>2
    <3> QED
      BY <3>1
  <2>3. F[f][1] = p[j] /\ F[f][3] = p[j + 2]
    BY <2>1, <2>2, Triple
  <2>4. p[j] \in Range(X) /\ p[j + 2] \in Range(X)
    BY <1>5, <2>2
  <2>5. \A x \in Q : p[j + 2] < x
    BY <1>6, <2>4 DEF Before
  <2>6. Genuine(SubSeq(p, j, j + 2), G)
    BY <1>p, <2>1, <2>2, FramedGenuine
  <2> QED
    BY <1>6, <2>1, <2>3, <2>4, <2>5, <2>6
<1>9. /\ K \in Seq(Seq(Int)) /\ Len(K) = Len(H) + Len(F)
      /\ \A k \in 1 .. Len(H) + Len(F) : K[k] = IF k <= Len(H) THEN H[k] ELSE F[k - Len(H)]
  BY <1>1, <1>h, ConcatTriples
<1> HIDE DEF K
<1>10. ASSUME NEW k \in 1 .. Len(K)
       PROVE  /\ K[k][1] \in Int /\ K[k][3] \in Int /\ K[k][3] < N
              /\ \A x \in Q : K[k][3] < x
              /\ Genuine(K[k], G)
  <2>1. CASE k <= Len(H)
    <3>0. Len(H) \in Nat /\ k \in 1 .. Len(H) + Len(F)
      BY <1>9, <1>h
    <3>1. k \in 1 .. Len(H) /\ K[k] = H[k]
      BY <1>9, <2>1, <3>0
    <3> QED
      BY <1>6, <1>h, <3>1
  <2>2. CASE ~(k <= Len(H))
    <3> DEFINE f == k - Len(H)
    <3>1. f \in 1 .. Len(F) /\ K[k] = F[f]
      BY <1>1, <1>9, <1>h, <2>2
    <3> HIDE DEF f
    <3>2. F[f][1] \in 0 .. N - 1 /\ F[f][3] \in 0 .. N - 1
      BY <1>8, <3>1
    <3>3. F[f][1] \in Int /\ F[f][3] \in Int /\ F[f][3] < N
      BY <3>2
    <3> QED
      BY <1>8, <3>1, <3>3
  <2> QED
    BY <2>1, <2>2
<1>11. ASSUME NEW k \in 1 .. Len(K), NEW l \in 1 .. Len(K), k < l
       PROVE  K[k][3] < K[l][1]
  <2>1. CASE l <= Len(H)
    <3>1. k \in 1 .. Len(H) /\ l \in 1 .. Len(H) /\ K[k] = H[k] /\ K[l] = H[l]
      BY <1>1, <1>9, <1>h, <1>11, <2>1
    <3> QED
      BY <1>h, <1>11, <3>1
  <2>2. CASE k <= Len(H) /\ ~(l <= Len(H))
    <3> DEFINE f == l - Len(H)
    <3>1. k \in 1 .. Len(H) /\ K[k] = H[k] /\ f \in 1 .. Len(F) /\ K[l] = F[f]
      BY <1>1, <1>9, <1>h, <2>2
    <3> HIDE DEF f
    <3>2. F[f][1] \in P
      BY <1>8, <3>1
    <3> QED
      BY <1>h, <3>1, <3>2
  <2>3. CASE ~(k <= Len(H))
    <3> DEFINE f == k - Len(H)
               g == l - Len(H)
    <3>1. /\ f \in 1 .. Len(F) /\ K[k] = F[f] /\ g \in 1 .. Len(F) /\ K[l] = F[g] /\ f < g
      <4>1. Len(H) \in Nat /\ Len(F) \in Nat /\ k \in 1 .. Len(H) + Len(F)
            /\ l \in 1 .. Len(H) + Len(F)
        BY <1>1, <1>9, <1>h
      <4>2. f \in 1 .. Len(F) /\ g \in 1 .. Len(F) /\ f < g /\ ~(l <= Len(H))
        BY <1>11, <2>3, <4>1
      <4>3. K[k] = F[f] /\ K[l] = F[g]
        BY <1>9, <2>3, <4>1, <4>2
      <4> QED
        BY <4>2, <4>3
    <3> HIDE DEF f, g
    <3> QED
      BY <1>g, <3>1
  <2> QED
    BY <2>1, <2>2, <2>3
<1>12. HandledOK(K, Q, N, G)
  BY <1>9, <1>10, <1>11 DEF HandledOK
<1>13. ASSUME NEW f \in 1 .. Len(F) PROVE F[f] \in Range(K)
  <2>1. Len(H) + f \in 1 .. Len(K) /\ K[Len(H) + f] = F[f] /\ DOMAIN K = 1 .. Len(K)
    <3>1. Len(H) + f \in 1 .. Len(H) + Len(F) /\ ~(Len(H) + f <= Len(H)) /\ Len(H) + f - Len(H) = f
      BY <1>1, <1>h
    <3>2. DOMAIN K = 1 .. Len(K) /\ Len(K) = Len(H) + Len(F)
      BY <1>9
    <3>3. K[Len(H) + f] = F[Len(H) + f - Len(H)]
      BY <1>9, <3>1
    <3> QED
      BY <3>1, <3>2, <3>3, Zenon
  <2> QED
    BY <2>1 DEF Range
<1>14. Range(H) \subseteq Range(K)
  <2> SUFFICES ASSUME NEW v \in Range(H) PROVE v \in Range(K)
    OBVIOUS
  <2>1. PICK f \in 1 .. Len(H) : v = H[f]
    BY <1>h DEF Range
  <2>2. f \in 1 .. Len(K) /\ K[f] = H[f] /\ DOMAIN K = 1 .. Len(K)
    <3>1. f \in 1 .. Len(H) + Len(F) /\ f <= Len(H)
      BY <1>1, <1>h
    <3> QED
      BY <1>9, <3>1
  <2> QED
    BY <2>1, <2>2 DEF Range
<1>15. Whole(K, Q, N, G)
  <2> SUFFICES ASSUME NEW q \in Nat, 3 * q < N, Range(Packet(q)) \cap G = {}, 3 * q \notin Q
               PROVE  Packet(q) \in Range(K)
    BY DEF Whole
  <2>1. Packet(q) \in Range(H) \/ 3 * q \in P
    BY DEF Whole
  <2>2. CASE 3 * q \in P
    <3>1. 3 * q \in Range(X)
      BY <1>6, <2>2
    <3>2. PICK x \in 1 .. n : 3 * q = p[x]
      BY <1>5, <3>1
    <3>3. p[x] % 3 = 0 /\ x \in 1 .. s.stop - 1
      <4>1. (3 * q) % 3 = 0
        OBVIOUS
      <4>2. s.stop - 1 = n
        BY <1>1, <1>2
      <4> QED
        BY <3>2, <4>1, <4>2, Zenon
    <3>4. x \in 1 .. Len(p) - 2
      BY <1>1, <1>c, <3>3
    <3>5. 3 * q + 1 \notin G /\ 3 * q + 2 \notin G
      BY PacketRange
    <3>6. Framed(p, x) /\ SubSeq(p, x, x + 2) = Packet(q)
      <4>2. p[x] = 3 * q
        BY <3>2
      <4> QED
        BY <1>w, <3>4, <3>5, <4>2, Zenon
    <3>7. \E f \in 1 .. Len(F) : F[f] = Packet(q)
      BY <1>c, <3>3, <3>6
    <3> QED
      BY <1>13, <3>7
  <2> QED
    BY <1>14, <2>1, <2>2
<1>16. Len(Y) <= 2
  BY <1>2, <1>3
<1>17. Before(Range(Y), Range(R))
  BY <1>4 DEF Before
<1>18. SubSeq(p, s.stop, Len(p)) = Y
  BY <1>2 DEF Y
<1> QED
  BY <1>3, <1>4, <1>6, <1>7, <1>12, <1>15, <1>16, <1>17, <1>18 DEF Q, K, F

\* A packet handled in error stays explained when more bytes are lost.
LEMMA GenuineMore ==
  ASSUME NEW h, NEW G, NEW E, Genuine(h, G), G \subseteq E
  PROVE  Genuine(h, E)
  BY DEF Genuine

\* Bytes N .. M - 1 come in, B of them wait and the others are gone.
LEMMA ArriveKeeps ==
  ASSUME NEW P, NEW B, NEW N \in Nat, NEW M \in Nat, N <= M, NEW G, NEW E, G \subseteq E, NEW H,
         P \subseteq 0 .. N - 1, B \subseteq N .. M - 1, \A k \in N .. M - 1 : k \in B \/ k \in E,
         Complete(P, N, G), HandledOK(H, P, N, G), Whole(H, P, N, G)
  PROVE  /\ P \cup B \subseteq 0 .. M - 1
         /\ Complete(P \cup B, M, E) /\ HandledOK(H, P \cup B, M, E) /\ Whole(H, P \cup B, M, E)
<1>1. P \cup B \subseteq 0 .. M - 1
  OBVIOUS
<1>2. Complete(P \cup B, M, E)
  <2> SUFFICES ASSUME NEW k \in 0 .. M - 1, k \notin E, NEW x \in P \cup B, x < k
               PROVE  k \in P \cup B
    BY DEF Complete
  <2>1. CASE k >= N
    <3>1. k \in N .. M - 1
      BY <2>1
    <3> QED
      BY <3>1
  <2>2. CASE k < N
    <3>1. k \in 0 .. N - 1 /\ k \notin G
      BY <2>2
    <3>2. x \notin B
      BY <2>2
    <3>3. x \in P
      BY <3>2
    <3> QED
      BY <3>1, <3>3 DEF Complete
  <2> QED
    BY <2>1, <2>2
<1>3. HandledOK(H, P \cup B, M, E)
  <2>1. ASSUME NEW f \in 1 .. Len(H)
        PROVE  /\ H[f][1] \in Int /\ H[f][3] \in Int /\ H[f][3] < M
               /\ \A x \in P \cup B : H[f][3] < x
               /\ Genuine(H[f], E)
    <3>1. /\ H[f][1] \in Int /\ H[f][3] \in Int /\ H[f][3] < N
          /\ \A x \in P : H[f][3] < x
          /\ Genuine(H[f], G)
      BY DEF HandledOK
    <3>2. \A x \in B : x \in Int /\ N <= x
      OBVIOUS
    <3>3. Genuine(H[f], E)
      BY <3>1, GenuineMore
    <3> QED
      BY <3>1, <3>2, <3>3
  <2> QED
    BY <2>1 DEF HandledOK
<1>4. Whole(H, P \cup B, M, E)
  <2> SUFFICES ASSUME NEW q \in Nat, 3 * q < M, Range(Packet(q)) \cap E = {}
               PROVE  Packet(q) \in Range(H) \/ 3 * q \in P \cup B
    BY DEF Whole
  <2>1. 3 * q \notin E
    BY PacketRange
  <2>2. CASE 3 * q < N
    <3>1. Range(Packet(q)) \cap G = {}
      OBVIOUS
    <3> QED
      BY <2>2, <3>1 DEF Whole
  <2>3. CASE 3 * q >= N
    <3>1. 3 * q \in N .. M - 1
      BY <2>3
    <3> QED
      BY <2>1, <3>1
  <2> QED
    BY <2>2, <2>3
<1> QED
  BY <1>1, <1>2, <1>3, <1>4

\* Some of the waiting bytes are lost.
LEMMA LoseKeeps ==
  ASSUME NEW P, NEW B, NEW N \in Nat, NEW G, NEW H,
         Complete(P \cup B, N, G), HandledOK(H, P \cup B, N, G), Whole(H, P \cup B, N, G)
  PROVE  Complete(P, N, G \cup B) /\ HandledOK(H, P, N, G \cup B) /\ Whole(H, P, N, G \cup B)
<1>1. Complete(P, N, G \cup B)
  BY DEF Complete
<1>2. HandledOK(H, P, N, G \cup B)
  <2>1. ASSUME NEW f \in 1 .. Len(H)
        PROVE  /\ H[f][1] \in Int /\ H[f][3] \in Int /\ H[f][3] < N
               /\ \A x \in P : H[f][3] < x
               /\ Genuine(H[f], G \cup B)
    <3>1. /\ H[f][1] \in Int /\ H[f][3] \in Int /\ H[f][3] < N
          /\ \A x \in P : H[f][3] < x
          /\ Genuine(H[f], G)
      BY DEF HandledOK
    <3>3. Genuine(H[f], G \cup B)
      BY <3>1, GenuineMore
    <3> QED
      BY <3>1, <3>3
  <2> QED
    BY <2>1 DEF HandledOK
<1>3. Whole(H, P, N, G \cup B)
  <2> SUFFICES ASSUME NEW q \in Nat, 3 * q < N, Range(Packet(q)) \cap (G \cup B) = {}
               PROVE  Packet(q) \in Range(H) \/ 3 * q \in P
    BY DEF Whole
  <2>1. 3 * q \notin B
    BY PacketRange
  <2>2. Range(Packet(q)) \cap G = {}
    OBVIOUS
  <2> QED
    BY <2>1, <2>2 DEF Whole
<1> QED
  BY <1>1, <1>2, <1>3

\* The controller's bytes that wait.
Waiting == Range(saved) \cup Range(Contents(rx))

\* The types on the way in.
RxTypes ==
  /\ rx \in Ring /\ saved \in Seq(Int) /\ Len(saved) <= 2 /\ next \in Nat
  /\ Increasing(saved) /\ Increasing(Contents(rx))
  /\ Before(Range(saved), Range(Contents(rx)))

\* What holds of the waiting bytes and the packets handled.
RecvOK ==
  /\ Waiting \subseteq 0 .. next - 1
  /\ Complete(Waiting, next, gone)
  /\ HandledOK(handled, Waiting, next, gone)
  /\ Whole(handled, Waiting, next, gone)

\* The inductive invariant of the way in.
RecvInv == RxTypes /\ RecvOK /\ (~open => rx = Empty)

\* Nothing has been received in the beginning.
LEMMA RecvInit == ASSUME Init PROVE RecvInv
<1>1. rx = Empty /\ saved = <<>> /\ next = 0 /\ handled = <<>> /\ gone = {}
  BY DEF Init
<1>2. Contents(rx) = <<>> /\ rx \in Ring
  BY <1>1, EmptyRing
<1>3. Waiting = {}
  BY <1>1, <1>2, NoBytes DEF Waiting
<1>4. Len(<<>>) = 0 /\ <<>> \in Seq(Int) /\ <<>> \in Seq(Seq(Int))
  OBVIOUS
<1>5. RxTypes
  BY <1>1, <1>2, <1>4, NoBytes DEF RxTypes, Before
<1>6. HandledOK(<<>>, {}, 0, {})
  <2>1. 1 .. Len(<<>>) = {}
    OBVIOUS
  <2> QED
    BY <1>4, <2>1 DEF HandledOK
<1>7. Complete({}, 0, {}) /\ Whole(<<>>, {}, 0, {})
  BY DEF Complete, Whole
<1>8. RecvOK
  BY <1>1, <1>3, <1>6, <1>7 DEF RecvOK
<1> QED
  BY <1>1, <1>5, <1>8 DEF RecvInv

\* Steps that leave the way in alone.
LEMMA RecvSame ==
  ASSUME RecvInv, rx' = rx, saved' = saved, next' = next, handled' = handled, gone' = gone,
         ~open' => ~open
  PROVE  RecvInv'
<1>1. Contents(rx') = Contents(rx)
  OBVIOUS
<1>2. RxTypes'
  BY <1>1 DEF RecvInv, RxTypes
<1>3. Waiting' = Waiting
  BY <1>1 DEF Waiting
<1>4. RecvOK'
  BY <1>3 DEF RecvInv, RecvOK
<1>5. ~open' => rx' = Empty
  BY DEF RecvInv
<1> QED
  BY <1>2, <1>4, <1>5 DEF RecvInv

\* tuxctl_ldisc_open empties a ring that is empty already; tuxctl_ldisc_close
\* loses what is in it.
LEMMA RecvOpen == ASSUME RecvInv, tuxctl_ldisc_open PROVE RecvInv'
<1>1. /\ ~open /\ open' = TRUE /\ rx' = Empty
      /\ saved' = saved /\ next' = next /\ handled' = handled /\ gone' = gone
  BY DEF tuxctl_ldisc_open
<1>2. rx' = rx
  BY <1>1 DEF RecvInv
<1> QED
  BY <1>1, <1>2, RecvSame

\* Closing loses the bytes in the ring and keeps what has been handled.
LEMMA RecvClose == ASSUME RecvInv, tuxctl_ldisc_close PROVE RecvInv'
<1>1. /\ open' = FALSE /\ rx' = Empty /\ gone' = gone \cup Range(Contents(rx))
      /\ saved' = saved /\ next' = next /\ handled' = handled
  BY DEF tuxctl_ldisc_close
<1>2. RxTypes /\ RecvOK
  BY DEF RecvInv
<1>3. Contents(rx') = <<>> /\ rx' \in Ring
  BY <1>1, EmptyRing
<1>4. RxTypes'
  BY <1>1, <1>2, <1>3, NoBytes DEF RxTypes, Before
<1> DEFINE P == Range(saved)
           B == Range(Contents(rx))
<1>5. Waiting = P \cup B /\ Waiting' = P
  <2>1. Waiting' = Range(saved) \cup {}
    BY <1>1, <1>3, NoBytes DEF Waiting
  <2> QED
    BY <2>1 DEF Waiting
<1>6. next \in Nat
  BY <1>2 DEF RxTypes
<1>g. gone' = gone \cup B
  BY <1>1
<1> HIDE DEF P, B
<1>7. Complete(P \cup B, next, gone) /\ HandledOK(handled, P \cup B, next, gone)
      /\ Whole(handled, P \cup B, next, gone) /\ P \subseteq 0 .. next - 1
  BY <1>2, <1>5 DEF RecvOK
<1>8. Complete(P, next, gone') /\ HandledOK(handled, P, next, gone') /\ Whole(handled, P, next, gone')
  BY <1>6, <1>7, <1>g, LoseKeeps
<1>9. RecvOK'
  BY <1>1, <1>5, <1>7, <1>8 DEF RecvOK
<1> QED
  BY <1>1, <1>4, <1>9 DEF RecvInv

\* The bytes of an interrupt are in order and among those sent.
LEMMA ArrivedBytes ==
  ASSUME NEW N \in Nat, NEW count \in 1 .. MaxChunk, NEW s \in Arrivals[count],
         NEW cp, cp = [k \in 1 .. Len(s) |-> N + s[k]]
  PROVE  /\ cp \in Seq(Int) /\ Len(cp) = Len(s) /\ Increasing(cp)
         /\ Range(cp) \subseteq N .. N + count - 1
<1>1. s \in UNION {{t \in [1 .. n -> 0 .. count - 1] : Increasing(t)} : n \in 1 .. count}
  BY DEF Arrivals
<1>2. PICK n \in 1 .. count : s \in [1 .. n -> 0 .. count - 1] /\ Increasing(s)
  BY <1>1
<1>3. count \in Nat /\ n \in Nat
  BY SizeAssumption
<1>4. s \in Seq(Int) /\ Len(s) = n /\ \A k \in 1 .. n : s[k] \in 0 .. count - 1
  BY <1>2, <1>3
<1>5. cp \in Seq(Int) /\ Len(cp) = n /\ DOMAIN cp = 1 .. n /\ \A k \in 1 .. n : cp[k] = N + s[k]
  <2> DEFINE d == [k \in 1 .. Len(s) |-> N + s[k]]
  <2>1. d \in Seq(Int) /\ Len(d) = n /\ DOMAIN d = 1 .. n /\ \A k \in 1 .. n : d[k] = N + s[k]
    BY <1>3, <1>4
  <2>2. cp = d
    OBVIOUS
  <2> HIDE DEF d
  <2> QED
    BY <2>1, <2>2
<1>6. Increasing(cp)
  <2> SUFFICES ASSUME NEW i \in 1 .. n, NEW j \in 1 .. n, i < j PROVE cp[i] < cp[j]
    BY <1>5 DEF Increasing
  <2>1. s[i] < s[j] /\ s[i] \in Int /\ s[j] \in Int
    BY <1>2, <1>4 DEF Increasing
  <2> QED
    BY <1>5, <2>1
<1>7. Range(cp) \subseteq N .. N + count - 1
  <2> SUFFICES ASSUME NEW k \in DOMAIN cp PROVE cp[k] \in N .. N + count - 1
    BY DEF Range
  <2>1. k \in 1 .. n
    BY <1>5
  <2>2. s[k] \in 0 .. count - 1 /\ cp[k] = N + s[k]
    BY <1>4, <1>5, <2>1
  <2> QED
    BY <1>3, <2>2
<1> QED
  BY <1>4, <1>5, <1>6, <1>7

\* The callback on a ring that rcv_buf has filled.
LEMMA CallbackStep ==
  ASSUME NEW r \in Ring, saved \in Seq(Int), Len(saved) <= 2, Increasing(saved),
         Increasing(Contents(r)), Before(Range(saved), Range(Contents(r))),
         NEW P, P = Range(saved) \cup Range(Contents(r)), NEW N \in Nat, NEW G,
         P \subseteq 0 .. N - 1, Complete(P, N, G), HandledOK(handled, P, N, G),
         Whole(handled, P, N, G),
         tuxctl_ldisc_data_callback(r), next' = N, gone' = G
  PROVE  RxTypes' /\ RecvOK'
<1> DEFINE n == PACKETS - Len(saved)
           C == Contents(r)
           T == Taken(r, n)
           p == saved \o T
           R == Contents(Rest(r, n))
           sc == Scan(p)
<1>1. /\ handled' = handled \o sc.found /\ saved' = SubSeq(p, sc.stop, Len(p))
      /\ rx' = Rest(r, n)
  BY DEF tuxctl_ldisc_data_callback, tuxctl_ldisc_get
<1>2. n \in Nat
  BY Sizes
<1>3. C \in Seq(Int)
  BY ContentsSeq
<1> HIDE DEF n
<1> DEFINE k == IF n <= Len(C) THEN n ELSE Len(C)
<1>4. k \in 0 .. Len(C) /\ T = SubSeq(C, 1, k) /\ Rest(r, n) \in Ring /\ R = SubSeq(C, k + 1, Len(C))
  BY <1>2, RestDrops
<1> HIDE DEF k, C, T, R
<1>5. /\ T \in Seq(Int) /\ R \in Seq(Int)
      /\ Range(C) = Range(T) \cup Range(R)
      /\ Increasing(T) /\ Increasing(R) /\ Before(Range(T), Range(R))
  <2>1. T \in Seq(Int) /\ R \in Seq(Int)
    BY <1>3, <1>4, Parts
  <2>2. Increasing(C)
    BY DEF C
  <2>3. /\ Range(C) = Range(SubSeq(C, 1, k)) \cup Range(SubSeq(C, k + 1, Len(C)))
        /\ Increasing(SubSeq(C, 1, k)) /\ Increasing(SubSeq(C, k + 1, Len(C)))
        /\ Before(Range(SubSeq(C, 1, k)), Range(SubSeq(C, k + 1, Len(C))))
    BY <1>3, <1>4, <2>2, PartsRange
  <2> QED
    BY <1>4, <2>1, <2>3, Zenon
<1>6. P = Range(saved) \cup Range(C) /\ Before(Range(saved), Range(C))
  BY DEF C
<1>7. /\ p \in Seq(Int) /\ Range(p) = Range(saved) \cup Range(T) /\ Increasing(p)
  <2>1. Before(Range(saved), Range(T))
    BY <1>5, <1>6 DEF Before
  <2> QED
    BY <1>5, <2>1, ConcatRange, IncreasingConcat
<1>8. Scanned(sc, p, 1)
  <2> HIDE DEF p
  <2> QED
    BY <1>7, ScanIsRight
<1> HIDE DEF p, sc
<1>9. Before(Range(p), Range(R)) /\ P = Range(p) \cup Range(R)
  BY <1>5, <1>6, <1>7 DEF Before
<1> DEFINE Y == SubSeq(p, sc.stop, Len(p))
           Q == Range(Y) \cup Range(R)
<1>10. /\ Y \in Seq(Int) /\ Len(Y) <= 2 /\ Increasing(Y) /\ Before(Range(Y), Range(R))
       /\ Q \subseteq P /\ Complete(Q, N, G)
       /\ HandledOK(handled \o sc.found, Q, N, G) /\ Whole(handled \o sc.found, Q, N, G)
  BY <1>5, <1>7, <1>8, <1>9, CallbackKeeps
<1>11. saved' = Y /\ Contents(rx') = R /\ rx' \in Ring
  BY <1>1, <1>4 DEF R
<1> HIDE DEF Y
<1>12. RxTypes'
  BY <1>5, <1>10, <1>11 DEF RxTypes
<1>13. Waiting' = Q
  BY <1>11 DEF Waiting
<1> HIDE DEF Q
<1>14. RecvOK'
  BY <1>1, <1>10, <1>13 DEF RecvOK
<1> QED
  BY <1>12, <1>14

\* An interrupt, with the discipline closed and open.
LEMMA RecvBuf == ASSUME RecvInv, tuxctl_ldisc_rcv_buf PROVE RecvInv'
<1>0. next \in Nat /\ rx \in Ring /\ saved \in Seq(Int) /\ RxTypes /\ RecvOK
  BY DEF RecvInv, RxTypes
<1>a. PICK count \in 1 .. MaxChunk : \E s \in Arrivals[count] :
    LET cp == [k \in 1 .. Len(s) |-> next + s[k]]
        drop == (next .. next + count - 1) \ Range(cp)
        fits == Min({Len(cp), TUXCTL_BUFSIZE - 1 - buf_used(rx)})
    IN /\ next' = next + count
       /\ IF open
          THEN /\ tuxctl_ldisc_data_callback(Fill(rx, cp))
               /\ gone' = gone \cup drop
                          \cup Range(SubSeq(cp, fits + 1, Len(cp)))
          ELSE gone' = gone \cup (next .. next + count - 1)
               /\ UNCHANGED <<rx, saved, handled>>
       /\ UNCHANGED <<open, opens, txvars>>
  BY DEF tuxctl_ldisc_rcv_buf
<1>1. PICK s \in Arrivals[count] :
    LET cp == [k \in 1 .. Len(s) |-> next + s[k]]
        drop == (next .. next + count - 1) \ Range(cp)
        fits == Min({Len(cp), TUXCTL_BUFSIZE - 1 - buf_used(rx)})
    IN /\ next' = next + count
       /\ IF open
          THEN /\ tuxctl_ldisc_data_callback(Fill(rx, cp))
               /\ gone' = gone \cup drop
                          \cup Range(SubSeq(cp, fits + 1, Len(cp)))
          ELSE gone' = gone \cup (next .. next + count - 1)
               /\ UNCHANGED <<rx, saved, handled>>
       /\ UNCHANGED <<open, opens, txvars>>
  BY <1>a
<1> DEFINE cp == [k \in 1 .. Len(s) |-> next + s[k]]
           drop == (next .. next + count - 1) \ Range(cp)
           fits == Min({Len(cp), TUXCTL_BUFSIZE - 1 - buf_used(rx)})
           N == next + count
<1>b. cp = [k \in 1 .. Len(s) |-> next + s[k]]
  OBVIOUS
<1>c. next + count - 1 = N - 1
  BY <1>0, SizeAssumption
<1>2. /\ cp \in Seq(Int) /\ Increasing(cp) /\ Range(cp) \subseteq next .. N - 1
  <2> HIDE DEF cp, N
  <2>1. Range(cp) \subseteq next .. next + count - 1 /\ cp \in Seq(Int) /\ Increasing(cp)
    BY <1>0, <1>b, ArrivedBytes, Zenon
  <2> QED
    BY <1>c, <2>1, Zenon
<1>3. N \in Nat /\ next <= N /\ next' = N /\ open' = open
  BY <1>0, <1>1, SizeAssumption
<1>4. CASE ~open
  <2>1. gone' = gone \cup (next .. N - 1) /\ rx' = rx /\ saved' = saved /\ handled' = handled
    <3>1. gone' = gone \cup (next .. next + count - 1) /\ UNCHANGED <<rx, saved, handled>>
      BY <1>1, <1>4, Zenon
    <3> HIDE DEF N
    <3> QED
      BY <1>c, <3>1, Zenon
  <2>2. Waiting' = Waiting
    BY <2>1 DEF Waiting
  <2>3. RxTypes'
    BY <1>0, <1>3, <2>1 DEF RxTypes
  <2> DEFINE B == {}
             G == gone \cup (next .. N - 1)
  <2> HIDE DEF N
  <2>4. gone \subseteq G /\ B \subseteq next .. N - 1 /\ \A k \in next .. N - 1 : k \in B \/ k \in G
    OBVIOUS
  <2> HIDE DEF B, G
  <2>5. /\ Waiting \cup B \subseteq 0 .. N - 1
        /\ Complete(Waiting \cup B, N, G) /\ HandledOK(handled, Waiting \cup B, N, G)
        /\ Whole(handled, Waiting \cup B, N, G)
    BY <1>0, <1>3, <2>4, ArriveKeeps DEF RecvOK
  <2>6. Waiting \cup B = Waiting /\ gone' = G
    BY <2>1 DEF B, G
  <2>7. RecvOK'
    BY <1>3, <2>1, <2>2, <2>5, <2>6 DEF RecvOK
  <2> QED
    BY <1>3, <1>4, <2>1, <2>3, <2>7 DEF RecvInv
<1>5. CASE open
  <2> DEFINE r == Fill(rx, cp)
             f == Fits(rx, Len(cp))
             A == SubSeq(cp, 1, f)
             Z == SubSeq(cp, f + 1, Len(cp))
             C == Contents(rx)
  <2>1. fits = f
    <3> DEFINE m == TUXCTL_BUFSIZE - 1 - buf_used(rx)
    <3> HIDE DEF cp
    <3>1. m \in Int /\ m = Size - 1 - buf_used(rx) /\ Len(cp) \in Int
      BY <1>0, <1>2, Sizes, ContentsSeq DEF Size
    <3> HIDE DEF m
    <3>2. Min({Len(cp), m}) = IF Len(cp) <= m THEN Len(cp) ELSE m
      BY <3>1, MinPair
    <3> QED
      BY <3>1, <3>2 DEF m, Fits
  <2>2. tuxctl_ldisc_data_callback(r) /\ gone' = gone \cup drop \cup Range(Z)
    BY <1>1, <1>5, <2>1
  <2> HIDE DEF cp, fits
  <2>3. r \in Ring /\ f \in 0 .. Len(cp) /\ Contents(r) = C \o A
    BY <1>0, <1>2, FillAppends
  <2> HIDE DEF r, f
  <2>4. A \in Seq(Int) /\ Range(cp) = Range(A) \cup Range(Z) /\ Increasing(A)
    BY <1>2, <2>3, Parts, PartsRange
  <2> HIDE DEF A, Z, C
  <2>5. C \in Seq(Int) /\ Increasing(C) /\ Before(Range(saved), Range(C)) /\ Waiting = Range(saved) \cup Range(C)
    BY <1>0, ContentsSeq DEF RxTypes, C, Waiting
  <2>6. Before(Waiting, Range(A))
    <3>1. \A x \in Waiting : x \in 0 .. next - 1
      BY <1>0 DEF RecvOK
    <3>2. \A y \in Range(A) : y \in next .. N - 1
      BY <1>2, <2>4
    <3> HIDE DEF N
    <3> QED
      BY <1>0, <1>3, <3>1, <3>2 DEF Before
  <2>7. Range(Contents(r)) = Range(C) \cup Range(A) /\ Increasing(Contents(r))
    <3>1. Before(Range(C), Range(A))
      BY <2>5, <2>6 DEF Before
    <3> QED
      BY <2>3, <2>4, <2>5, <3>1, ConcatRange, IncreasingConcat
  <2>8. Before(Range(saved), Range(Contents(r)))
    BY <2>5, <2>6, <2>7 DEF Before
  <2> DEFINE B == Range(A)
             P == Waiting \cup B
             G == gone \cup drop \cup Range(Z)
  <2>9. gone \subseteq G /\ B \subseteq next .. N - 1 /\ \A k \in next .. N - 1 : k \in B \/ k \in G
    <3> HIDE DEF N
    <3>1. drop = (next .. N - 1) \ Range(cp)
      BY <1>c, Zenon
    <3> HIDE DEF drop
    <3> QED
      BY <1>2, <2>4, <3>1, Zenon
  <2>10. gone' = G /\ P = Range(saved) \cup Range(Contents(r))
    BY <2>2, <2>5, <2>7
  <2> HIDE DEF B, G, N
  <2>11. /\ P \subseteq 0 .. N - 1 /\ Complete(P, N, G) /\ HandledOK(handled, P, N, G)
         /\ Whole(handled, P, N, G)
    BY <1>0, <1>3, <2>9, ArriveKeeps DEF RecvOK
  <2> HIDE DEF P
  <2>12. Len(saved) <= 2 /\ Increasing(saved)
    BY <1>0 DEF RxTypes
  <2>13. RxTypes' /\ RecvOK'
    BY <1>0, <1>3, <2>2, <2>3, <2>7, <2>8, <2>10, <2>11, <2>12, CallbackStep
  <2> QED
    BY <1>3, <1>5, <2>13 DEF RecvInv
<1> QED
  BY <1>4, <1>5

\* RecvInv is inductive.
LEMMA RecvStep == ASSUME RecvInv, [Next]_vars PROVE RecvInv'
<1>1. CASE \/ tuxctl_ldisc_put \/ AskRoom \/ TakeBytes \/ WriteBytes
           \/ tuxctl_ldisc_write_wakeup \/ SendByte \/ UNCHANGED vars
  <2>1. UNCHANGED <<open, rx, saved, next, handled, gone>>
    BY <1>1 DEF tuxctl_ldisc_put, AskRoom, TakeBytes, WriteBytes, tuxctl_ldisc_write_wakeup,
                SendByte, vars, rxvars
  <2> QED
    BY <2>1, RecvSame
<1> QED
  BY <1>1, RecvOpen, RecvClose, RecvBuf DEF Next

\* What TypeOK says of the bounds.
Bounds == open \in BOOLEAN /\ opens \in 0 .. MaxOpens /\ Within(next, put)

\* The bounds hold in the beginning.
LEMMA BoundsInit == ASSUME Init PROVE Bounds
<1>1. open = FALSE /\ opens = MaxOpens /\ next = 0 /\ put = 0
  BY DEF Init
<1>2. opens \in 0 .. MaxOpens /\ Within(next, put)
  BY <1>1, SizeAssumption DEF Within
<1> QED
  BY <1>1, <1>2 DEF Bounds

\* The bounds are inductive, given both invariants.
LEMMA BoundsStep == ASSUME Bounds, SendInv, RecvInv, [Next]_vars PROVE Bounds'
<1>0. next \in Nat /\ put \in Nat /\ opens \in 0 .. MaxOpens /\ Within(next, put) /\ MaxOpens \in Nat
  BY SizeAssumption DEF SendInv, TxTypes, RecvInv, RxTypes, Bounds
<1>1. open' \in BOOLEAN
  BY DEF Bounds, Next, tuxctl_ldisc_open, tuxctl_ldisc_close, tuxctl_ldisc_rcv_buf, tuxctl_ldisc_put,
         AskRoom, TakeBytes, WriteBytes, tuxctl_ldisc_write_wakeup, SendByte, vars
<1>2. opens' \in 0 .. MaxOpens
  <2>1. CASE tuxctl_ldisc_open
    <3>1. opens > 0 /\ opens' = opens - 1
      BY <2>1 DEF tuxctl_ldisc_open
    <3> QED
      BY <1>0, <3>1
  <2>2. CASE opens' = opens
    BY <1>0, <2>2
  <2> QED
    BY <2>1, <2>2
    DEF Next, tuxctl_ldisc_close, tuxctl_ldisc_rcv_buf, tuxctl_ldisc_put,
        AskRoom, TakeBytes, WriteBytes, tuxctl_ldisc_write_wakeup, SendByte, vars
<1>3. Within(next, put)'
  <2>1. CASE tuxctl_ldisc_rcv_buf
    <3>1. PICK count \in 1 .. MaxChunk :
            Within(next + count, put) /\ next' = next + count
      BY <2>1 DEF tuxctl_ldisc_rcv_buf
    <3>2. put' = put
      BY <2>1 DEF tuxctl_ldisc_rcv_buf, txvars
    <3> QED
      BY <3>1, <3>2 DEF Within
  <2>2. CASE tuxctl_ldisc_put
    <3>1. PICK n \in 1 .. MaxPut :
            /\ Within(next, put + n)
            /\ put' = put + Min({n, TUXCTL_BUFSIZE - 1 - buf_used(tx)})
      BY <2>2 DEF tuxctl_ldisc_put
    <3>2. next' = next
      BY <2>2 DEF tuxctl_ldisc_put, rxvars
    <3> DEFINE m == TUXCTL_BUFSIZE - 1 - buf_used(tx)
    <3>3. m \in Int /\ n \in Int /\ MaxBytes \in Int
      <4>1. buf_used(tx) \in 0 .. Size - 1
        BY ContentsSeq DEF SendInv, TxTypes
      <4> QED
        BY <4>1, Sizes, SizeAssumption DEF Size
    <3> HIDE DEF m
    <3>4. Min({n, m}) = IF n <= m THEN n ELSE m
      BY <3>3, MinPair
    <3>5. put' = put + Min({n, m})
      BY <3>1 DEF m
    <3>6. put' <= put + n /\ put' \in Int
      BY <1>0, <3>3, <3>4, <3>5
    <3>7. next + 2 * (put + n) <= MaxBytes
      BY <3>1 DEF Within
    <3>8. next' + 2 * put' <= MaxBytes
      <4>1. \A nx, pt, np, nn, mb \in Int :
              (np <= pt + nn /\ nx + 2 * (pt + nn) <= mb) => nx + 2 * np <= mb
        OBVIOUS
      <4>2. next \in Int /\ put \in Int
        BY <1>0
      <4>3. next + 2 * put' <= MaxBytes
        BY <3>3, <3>6, <3>7, <4>1, <4>2
      <4> QED
        BY <3>2, <4>3
    <3> QED
      BY <3>8 DEF Within
  <2>3. CASE next' = next /\ put' = put
    BY <1>0, <2>3 DEF Within
  <2> QED
    BY <2>1, <2>2, <2>3
    DEF Next, tuxctl_ldisc_open, tuxctl_ldisc_close,
        AskRoom, TakeBytes, WriteBytes, tuxctl_ldisc_write_wakeup, SendByte, vars, rxvars, txvars
<1> QED
  BY <1>1, <1>2, <1>3 DEF Bounds

\* The invariants give the three parts of PacketsCorrect.
LEMMA TypesHold == ASSUME Bounds, SendInv, RecvInv PROVE TypeOK
<1>1. \A r \in {rx, tx} : {r.start, r.end} \subseteq 0 .. TUXCTL_BUFSIZE - 1
  BY DEF SendInv, TxTypes, RecvInv, RxTypes, Ring, Size
<1>2. Len(saved) <= 2 /\ Len(drv) <= ROOM
  BY DEF SendInv, TxTypes, RecvInv, RxTypes
<1>3. proc.at \in {"idle", "room", "take", "write"}
  BY DEF SendInv, TxTypes, ProcType
<1>4. open \in BOOLEAN /\ opens \in 0 .. MaxOpens /\ Within(next, put)
  BY DEF Bounds
<1> QED
  BY <1>1, <1>2, <1>3, <1>4, Zenon DEF TypeOK

\* A packet without a lost byte has been handled, or part of it still waits.
LEMMA WholeHolds == ASSUME RecvInv PROVE WholePacketsHandled
<1>1. /\ saved \in Seq(Int) /\ Contents(rx) \in Seq(Int) /\ next \in Nat
      /\ HandledOK(handled, Waiting, next, gone) /\ Whole(handled, Waiting, next, gone)
  BY ContentsSeq DEF RecvInv, RxTypes, RecvOK
<1>2. Range(saved \o Contents(rx)) = Waiting
  BY <1>1, ConcatRange DEF Waiting
<1>3. ASSUME NEW q \in 0 .. next \div 3 - 1, Range(Packet(q)) \cap gone = {}
      PROVE  \/ Packet(q) \in Range(handled)
             \/ Range(Packet(q)) \cap Range(saved \o Contents(rx)) # {}
  <2>1. q \in Nat /\ 3 * q < next
    BY <1>1
  <2>2. Packet(q) \in Range(handled) \/ 3 * q \in Waiting
    BY <1>1, <1>3, <2>1 DEF Whole
  <2>3. 3 * q \in Range(Packet(q))
    BY PacketRange
  <2> QED
    BY <1>2, <2>2, <2>3
<1>4. DOMAIN handled = 1 .. Len(handled) /\
      \A f, g \in 1 .. Len(handled) : f < g => handled[f][3] < handled[g][1]
  BY <1>1 DEF HandledOK
<1> QED
  BY <1>3, <1>4 DEF WholePacketsHandled

\* Three bytes handled as a packet that are none have lost two bytes between them.
LEMMA SingleHolds == ASSUME RecvInv PROVE SingleLossDetected
<1>1. HandledOK(handled, Waiting, next, gone)
  BY DEF RecvInv, RecvOK
<1>2. DOMAIN handled = 1 .. Len(handled)
  BY <1>1 DEF HandledOK
<1> SUFFICES ASSUME NEW i \in 1 .. Len(handled)
             PROVE  \/ handled[i] = Packet(handled[i][1] \div 3)
                    \/ Cardinality((handled[i][1] .. handled[i][3]) \cap gone) >= 2
  BY <1>2 DEF SingleLossDetected
<1>3. Genuine(handled[i], gone) /\ handled[i][1] \in Int /\ handled[i][3] \in Int
  BY <1>1 DEF HandledOK
<1> DEFINE a == handled[i][1]
           c == handled[i][3]
           W == (a .. c) \cap gone
<1>4. ASSUME NEW x \in W, NEW y \in W, x # y PROVE Cardinality(W) >= 2
  <2>1. IsFiniteSet(a .. c)
    BY <1>3, FS_Interval
  <2>2. IsFiniteSet(W)
    BY <2>1, FS_Subset
  <2>3. {x, y} \subseteq W
    OBVIOUS
  <2> HIDE DEF W
  <2>4. Cardinality({x, y}) <= Cardinality(W) /\ Cardinality(W) \in Nat
    BY <2>2, <2>3, FS_Subset, FS_CardinalityType
  <2>5. Cardinality({x, y}) = 2
    <3>1. IsFiniteSet({x}) /\ Cardinality({x}) = 1
      BY FS_Singleton
    <3>2. {x} \cup {y} = {x, y} /\ y \notin {x}
      BY <1>4
    <3>3. Cardinality({x} \cup {y}) = Cardinality({x}) + 1
      BY <3>1, <3>2, FS_AddElement
    <3>4. Cardinality({x, y}) = 1 + 1
      BY <3>1, <3>2, <3>3, Zenon
    <3> QED
      BY <3>4
  <2> QED
    BY <2>4, <2>5
<1> QED
  BY <1>3, <1>4 DEF Genuine

\* tuxctl_ldisc_data_callback gives every packet of which no byte was lost to
\* tuxctl_handle_packet, once and in order, and takes nothing for a packet from
\* within which fewer than two bytes were lost, however rcv_buf is called, for
\* every size of the ring and every number of bytes a callback looks at.
THEOREM PacketsAreCorrect == Spec => []PacketsCorrect
<1> DEFINE I == SendInv /\ RecvInv /\ Bounds
<1>1. Init => I
  BY SendInit, RecvInit, BoundsInit
<1>2. I /\ [Next]_vars => I'
  BY SendStep, RecvStep, BoundsStep
<1>3. I => PacketsCorrect
  BY TypesHold, WholeHolds, SingleHolds DEF PacketsCorrect
<1> QED
  BY <1>1, <1>2, <1>3, PTL DEF Spec

-----------------------------------------------------------------------------
(***************************************************************************)
(* The RTC driver of the kernel, for any number of processes, any number   *)
(* of readers among them and any frequencies written.                      *)
(*                                                                         *)
(* DeviceAsSet is proved for one process that sets the rate.  The driver   *)
(* keeps no lock around rtc_open, so with two the data port can be         *)
(* redirected between a selection and an access.                           *)
(***************************************************************************)

\* At most one process opens and writes the device.
OneSetter == \A p, q \in Setters : p = q

\* Where a process in rtc_open is, the device is as its earlier port accesses
\* left it, because the masked line keeps rtc_interrupt from the index.
OpenProgress ==
  \A p \in Proc :
    /\ pc[p] \in OpenPc => p \in Setters
    /\ pc[p] = "mask" => ~masked /\ regA.rs = reported
    /\ pc[p] \in {"select", "load", "reselect", "store", "unmask"} => masked
    /\ pc[p] \in {"load", "store"} => index = "A"
    /\ pc[p] \in {"reselect", "store"} => prev_data[p] = "div"
    /\ pc[p] = "unmask" => regA.rs = Default

\* The inductive invariant.
Inv == DeviceAsSet /\ OpenProgress

USE DEF OpenPc, Upper

\* The device is as the driver believes it to be, and rtc_open works on the
\* register that it has selected, for every number of processes and readers.
THEOREM DeviceCorrect == ASSUME OneSetter PROVE RtcSpec => []DeviceAsSet
<1>1. RtcInit => Inv
  <2> SUFFICES ASSUME RtcInit PROVE Inv
    OBVIOUS
  <2>1. RtcTypeOK
    <3>1. regA \in [hi : Upper, rs : Settable] /\ reported \in Nat
      BY DEF RtcInit, Settable
    <3>2. rtc_interrupt_flag \in BOOLEAN /\ masked \in BOOLEAN
      BY DEF RtcInit
    <3>3. /\ pc \in [Proc -> {"user", "spin"} \cup OpenPc]
          /\ prev_data \in [Proc -> Upper]
          /\ seen \in [Proc -> BOOLEAN]
      BY DEF RtcInit
    <3> QED
      BY <3>1, <3>2, <3>3 DEF RtcInit, RtcTypeOK
  <2>2. DividerIntact /\ RateAsReported /\ NotLeftMasked /\ OpenProgress
    BY DEF RtcInit, DividerIntact, RateAsReported, NotLeftMasked, OpenProgress
  <2> QED
    BY <2>1, <2>2 DEF Inv, DeviceAsSet
<1>2. ASSUME Inv, [RtcNext]_rtc_vars
      PROVE  Inv'
  <2> USE <1>2, OneSetter DEF Inv, DeviceAsSet, RtcTypeOK, DividerIntact,
          RateAsReported, NotLeftMasked, OpenProgress, Quiet, OneSetter, device
  <2>1. CASE Interrupt
    BY <2>1 DEF Interrupt, ClearFlag
  <2>2. ASSUME NEW p \in Proc, Switch(p) PROVE Inv'
    BY <2>2 DEF Switch
  <2>3. ASSUME NEW p \in Proc, OpenStart(p) PROVE Inv'
    <3>1. Quiet
      BY <2>3 DEF OpenStart, Goto
    <3> QED
      BY <2>3, <3>1 DEF OpenStart, Goto
  <2>4. ASSUME NEW p \in Proc, OpenMask(p) PROVE Inv'
    <3>1. \A q \in Proc : q # p => pc[q] \notin OpenPc
      BY <2>4 DEF OpenMask, Goto
    <3> QED
      BY <2>4, <3>1 DEF OpenMask, Goto, disable_irq
  <2>5. ASSUME NEW p \in Proc, OpenSelect(p) PROVE Inv'
    BY <2>5 DEF OpenSelect, Goto
  <2>6. ASSUME NEW p \in Proc, OpenLoad(p) PROVE Inv'
    BY <2>6 DEF OpenLoad, Goto
  <2>7. ASSUME NEW p \in Proc, OpenStore(p) PROVE Inv'
    BY <2>7 DEF OpenStore, Goto, Default, Settable
  <2>8. ASSUME NEW p \in Proc, OpenUnmask(p) PROVE Inv'
    <3>1. \A q \in Proc : q # p => pc[q] \notin OpenPc
      BY <2>8 DEF OpenUnmask, Goto
    <3>2. /\ pc[p] = "unmask" /\ pc' = [pc EXCEPT ![p] = "user"]
          /\ masked' = FALSE /\ reported' = Default
          /\ UNCHANGED <<running, prev_data, rtc_interrupt_flag, index, regA, seen>>
      BY <2>8, Zenon DEF OpenUnmask, Goto, enable_irq
    <3>3. regA.rs = Default
      BY <3>2
    <3>4. \A q \in Proc : pc'[q] \notin OpenPc
      BY <3>1, <3>2
    <3>5. Default \in Nat
      BY DEF Default
    <3>6. pc' \in [Proc -> {"user", "spin"} \cup OpenPc] /\ masked' \in BOOLEAN
      BY <3>2
    <3>7. RtcTypeOK'
      BY <3>2, <3>5, <3>6, Zenon
    <3>8. OpenProgress'
      BY <3>4
    <3> QED
      BY <3>2, <3>3, <3>7, <3>8
  <2>9. ASSUME NEW p \in Proc, NEW f \in Freqs, WriteSet(p, f) PROVE Inv'
    <3>1. Quiet
      BY <2>9 DEF WriteSet
    <3>2. f \in Nat
      BY <2>9 DEF WriteSet, Settable
    <3> QED
      BY <2>9, <3>1, <3>2 DEF WriteSet, enable_irq
  <2>10. ASSUME NEW p \in Proc, ReadStart(p) PROVE Inv'
    BY <2>10 DEF ReadStart, Goto, SetFlag
  <2>11. ASSUME NEW p \in Proc, ReadReturn(p) PROVE Inv'
    BY <2>11 DEF ReadReturn, Goto
  <2>12. CASE UNCHANGED rtc_vars
    BY <2>12 DEF rtc_vars
  <2> QED
    BY <2>1, <2>2, <2>3, <2>4, <2>5, <2>6, <2>7, <2>8, <2>9, <2>10, <2>11,
       <2>12
    DEF RtcNext, OpenStep
<1>3. Inv => DeviceAsSet
  BY DEF Inv
<1> QED
  BY <1>1, <1>2, <1>3, PTL DEF RtcSpec


\* A process that waits with the flag clear has had its interrupt: a new
\* reader sets the flag again, it never clears it for the others.
ClearMeansSeen ==
  /\ pc \in [Proc -> {"user", "spin"} \cup OpenPc]
  /\ seen \in [Proc -> BOOLEAN]
  /\ \A p \in Proc : pc[p] = "spin" /\ ~rtc_interrupt_flag => seen[p]

\* rtc_read never returns before the interrupt it waits for, however many
\* processes share the flag and however many set the rate meanwhile.
THEOREM ReadWaits == RtcSpec => NoEarlyReturn
<1>1. RtcInit => ClearMeansSeen
  BY DEF RtcInit, ClearMeansSeen
<1>2. ASSUME ClearMeansSeen, [RtcNext]_rtc_vars
      PROVE  ClearMeansSeen'
  <2> USE <1>2 DEF ClearMeansSeen, device
  <2>1. CASE Interrupt
    BY <2>1 DEF Interrupt, ClearFlag
  <2>2. ASSUME NEW p \in Proc, Switch(p) PROVE ClearMeansSeen'
    BY <2>2 DEF Switch
  <2>3. ASSUME NEW p \in Proc, OpenStart(p) PROVE ClearMeansSeen'
    BY <2>3 DEF OpenStart, Goto
  <2>4. ASSUME NEW p \in Proc, OpenStep(p) PROVE ClearMeansSeen'
    BY <2>4 DEF OpenStep, OpenMask, OpenSelect, OpenLoad, OpenStore,
                OpenUnmask, Goto
  <2>5. ASSUME NEW p \in Proc, NEW f \in Freqs, WriteSet(p, f)
        PROVE  ClearMeansSeen'
    BY <2>5 DEF WriteSet
  <2>6. ASSUME NEW p \in Proc, ReadStart(p) PROVE ClearMeansSeen'
    BY <2>6 DEF ReadStart, Goto, SetFlag
  <2>7. ASSUME NEW p \in Proc, ReadReturn(p) PROVE ClearMeansSeen'
    BY <2>7 DEF ReadReturn, Goto
  <2>8. CASE UNCHANGED rtc_vars
    BY <2>8 DEF rtc_vars
  <2> QED
    BY <2>1, <2>2, <2>3, <2>4, <2>5, <2>6, <2>7, <2>8 DEF RtcNext
<1>3. ASSUME ClearMeansSeen, [RtcNext]_rtc_vars
      PROVE  [\A p \in Proc : pc[p] = "spin" /\ pc'[p] = "user" => seen[p]]_rtc_vars
  <2> SUFFICES ASSUME NEW p \in Proc, RtcNext, pc[p] = "spin", pc'[p] = "user"
               PROVE  ~rtc_interrupt_flag
    BY <1>3 DEF ClearMeansSeen
  <2> QED
    BY <1>3 DEF ClearMeansSeen, RtcNext, Interrupt, Switch, OpenStart, OpenStep,
                OpenMask, OpenSelect, OpenLoad, OpenStore, OpenUnmask,
                WriteSet, ReadStart, ReadReturn, Goto, device
<1> QED
  BY <1>1, <1>2, <1>3, PTL DEF RtcSpec, NoEarlyReturn

=============================================================================
