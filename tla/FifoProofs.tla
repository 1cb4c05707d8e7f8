----------------------------- MODULE FifoProofs -----------------------------
(***************************************************************************)
(* The circuit of fifo.sv implements FifoSpec, for every capacity and every *)
(* set of words.  TypeOK is inductive by itself: a word is written only    *)
(* when the pointers do not say full, and read only when they do not say   *)
(* empty.  FrontIsOldest is inductive given TypeOK.  The refinement uses   *)
(* TypeOK to know that no cell is in use twice.                            *)
(***************************************************************************)
EXTENDS Fifo, SequenceTheorems, TLAPS

\* The positive edges that move data, told apart by what they do.
LEMMA ClockCases ==
  ASSUME NEW v \in BOOLEAN, NEW y \in BOOLEAN, NEW d \in word_t, Clock(v, y, d)
  PROVE  \/ ready_o /\ Enqueue(d)
         \/ valid_o /\ Dequeue
         \/ ready_o /\ valid_o /\ DequeueEnqueue(d)
         \/ UNCHANGED vars
  BY DEF Clock

\* What the flags say in terms of the number of words between the pointers.
LEMMA FlagsCount ==
  ASSUME TypeOK
  PROVE  /\ Count \in 0 .. cap_p
         /\ valid_o <=> Count # 0
         /\ ready_o <=> Count # cap_p
  BY CapAssumption DEF TypeOK, Count, valid_o, ready_o, empty, full, Index, Sign, ptr_t

\* How the pointers' distance changes with each kind of edge.
LEMMA CountStep ==
  ASSUME TypeOK
  PROVE  /\ \A d \in word_t : ready_o /\ Enqueue(d) => Count' = Count + 1
         /\ valid_o /\ Dequeue => Count' = Count - 1
         /\ \A d \in word_t : ready_o /\ valid_o /\ DequeueEnqueue(d) => Count' = Count
  <1>1. ASSUME NEW d \in word_t, ready_o, Enqueue(d) PROVE Count' = Count + 1
    BY <1>1, CapAssumption, FlagsCount DEF TypeOK, Enqueue, Count, Succ, ptr_t
  <1>2. ASSUME valid_o, Dequeue PROVE Count' = Count - 1
    BY <1>2, CapAssumption, FlagsCount DEF TypeOK, Dequeue, Count, Succ, ptr_t
  <1>3. ASSUME NEW d \in word_t, ready_o, valid_o, DequeueEnqueue(d) PROVE Count' = Count
    BY <1>3, CapAssumption, FlagsCount DEF TypeOK, DequeueEnqueue, Count, Succ, ptr_t
  <1> QED BY <1>1, <1>2, <1>3

\* An index names a cell, and the successor of a pointer is a pointer.
LEMMA PointerTypes ==
  ASSUME NEW p \in ptr_t
  PROVE  /\ Index(p) \in 0 .. cap_p - 1
         /\ Succ(p) \in ptr_t
  BY CapAssumption DEF ptr_t, Index, Succ

\* An empty queue is well-formed.
LEMMA InitTypeOK == Init => TypeOK
  BY CapAssumption DEF Init, TypeOK, Count, ptr_t

\* TypeOK is inductive by itself.
LEMMA NextTypeOK == TypeOK /\ [Next]_vars => TypeOK'
  <1> SUFFICES ASSUME TypeOK, [Next]_vars PROVE TypeOK'
    OBVIOUS
  <1>r. /\ Index(read_ptr) \in 0 .. cap_p - 1 /\ Succ(read_ptr) \in ptr_t
        /\ Index(Succ(read_ptr)) \in 0 .. cap_p - 1
        /\ Index(write_ptr) \in 0 .. cap_p - 1 /\ Succ(write_ptr) \in ptr_t
    BY PointerTypes DEF TypeOK
  <1>1. CASE Reset
    BY <1>1, CapAssumption DEF Reset, TypeOK, Count, ptr_t
  <1>2. ASSUME NEW d \in word_t, ready_o, Enqueue(d) PROVE TypeOK'
    <2>1. Count' <= cap_p
      BY <1>2, CountStep, FlagsCount, CapAssumption
    <2> QED BY <2>1, <1>2, <1>r DEF Enqueue, TypeOK
  <1>3. ASSUME valid_o, Dequeue PROVE TypeOK'
    <2>1. Count' <= cap_p
      BY <1>3, CountStep, FlagsCount, CapAssumption
    <2> QED BY <2>1, <1>3, <1>r DEF Dequeue, TypeOK
  <1>4. ASSUME NEW d \in word_t, ready_o, valid_o, DequeueEnqueue(d) PROVE TypeOK'
    <2>1. Count' <= cap_p
      BY <1>4, CountStep, FlagsCount, CapAssumption
    <2> QED BY <2>1, <1>4, <1>r DEF DequeueEnqueue, TypeOK
  <1>5. CASE UNCHANGED vars
    BY <1>5 DEF vars, TypeOK, Count
  <1> QED BY <1>1, <1>2, <1>3, <1>4, <1>5, ClockCases DEF Next

\* The registers keep their types and the pointers never drift further apart
\* than the memory is large, whatever arrives on the inputs.
THEOREM TypeCorrect == Spec => []TypeOK
  BY InitTypeOK, NextTypeOK, PTL DEF Spec
-----------------------------------------------------------------------------
\* FrontIsOldest is inductive, given TypeOK.
LEMMA NextFront == TypeOK /\ FrontIsOldest /\ [Next]_vars => FrontIsOldest'
  <1> SUFFICES ASSUME TypeOK, FrontIsOldest, [Next]_vars PROVE FrontIsOldest'
    OBVIOUS
  <1>r. /\ Index(read_ptr) \in 0 .. cap_p - 1 /\ Index(write_ptr) \in 0 .. cap_p - 1
        /\ Index(Succ(read_ptr)) \in 0 .. cap_p - 1
    BY PointerTypes DEF TypeOK
  <1>1. CASE Reset
    BY <1>1 DEF Reset, FrontIsOldest, valid_o, empty
  <1>2. ASSUME NEW d \in word_t, ready_o, Enqueue(d) PROVE FrontIsOldest'
    <2>1. CASE empty
      BY <2>1, <1>2, <1>r DEF Enqueue, TypeOK, FrontIsOldest, data_o, empty, Index
    <2>2. CASE ~empty
      <3>1. Index(read_ptr) # Index(write_ptr)
        BY <2>2, <1>2 DEF ready_o, full, empty
      <3> QED BY <2>2, <3>1, <1>2, <1>r DEF Enqueue, TypeOK, FrontIsOldest, valid_o, data_o, Index
    <2> QED BY <2>1, <2>2
  <1>3. ASSUME valid_o, Dequeue PROVE FrontIsOldest'
    BY <1>3 DEF Dequeue, FrontIsOldest, data_o, Index
  <1>4. ASSUME NEW d \in word_t, ready_o, valid_o, DequeueEnqueue(d) PROVE FrontIsOldest'
    BY <1>4, <1>r DEF DequeueEnqueue, TypeOK, FrontIsOldest, data_o, Index
  <1>5. CASE UNCHANGED vars
    BY <1>5 DEF vars, FrontIsOldest, valid_o, data_o, empty, Index, Sign
  <1> QED BY <1>1, <1>2, <1>3, <1>4, <1>5, ClockCases DEF Next

\* While valid_o is up, data_o is the oldest word in the queue: the register
\* that is loaded one edge ahead never shows a stale or a skipped word.
THEOREM FrontCorrect == Spec => []FrontIsOldest
  <1>1. Init => FrontIsOldest
    BY DEF Init, FrontIsOldest, valid_o, empty
  <1> QED BY <1>1, NextFront, TypeCorrect, PTL DEF Spec
-----------------------------------------------------------------------------
Memory == [0 .. cap_p - 1 -> word_t]

\* The cell of the k-th word, counted from the read pointer or from the next one.
LEMMA SlotFacts ==
  ASSUME NEW r \in ptr_t, NEW k \in 0 .. cap_p
  PROVE  /\ k < cap_p => Slot(r, k) \in 0 .. cap_p - 1
         /\ k > 0 => Slot(Succ(r), k - 1) = Slot(r, k)
  BY CapAssumption DEF Slot, Succ, Index, ptr_t

\* Two words in the queue have two cells.
LEMMA SlotDistinct ==
  ASSUME NEW r \in ptr_t, NEW j \in 0 .. cap_p - 1, NEW k \in 0 .. cap_p - 1, j # k
  PROVE  Slot(r, j) # Slot(r, k)
  BY CapAssumption DEF Slot, Index, ptr_t

\* The words in the queue are a sequence of words.
LEMMA WordsSeq ==
  ASSUME NEW q \in Memory, NEW r \in ptr_t, NEW n \in 0 .. cap_p
  PROVE  /\ Words(q, r, n) \in Seq(word_t)
         /\ Len(Words(q, r, n)) = n
         /\ \A i \in 1 .. n : Words(q, r, n)[i] = q[Slot(r, i - 1)]
  <1>1. \A i \in 1 .. n : q[Slot(r, i - 1)] \in word_t
    <2> SUFFICES ASSUME NEW i \in 1 .. n PROVE q[Slot(r, i - 1)] \in word_t
      OBVIOUS
    <2>1. i - 1 \in 0 .. cap_p /\ i - 1 < cap_p
      BY CapAssumption
    <2> QED BY <2>1, SlotFacts DEF Memory
  <1>2. n \in Nat
    BY CapAssumption
  <1> QED BY <1>1, <1>2 DEF Words

\* A word written behind the last one is appended.
LEMMA WordsAppend ==
  ASSUME NEW q \in Memory, NEW r \in ptr_t, NEW n \in 0 .. cap_p, n < cap_p, NEW d \in word_t
  PROVE  Words([q EXCEPT ![Slot(r, n)] = d], r, n + 1) = Append(Words(q, r, n), d)
  <1> DEFINE q2 == [q EXCEPT ![Slot(r, n)] = d]
             s == Words(q, r, n)
             t == Words(q2, r, n + 1)
  <1>1. Slot(r, n) \in 0 .. cap_p - 1 /\ q2 \in Memory
    BY SlotFacts DEF Memory
  <1>2. n + 1 \in 0 .. cap_p /\ n \in Nat
    BY CapAssumption
  <1>3. s \in Seq(word_t) /\ Len(s) = n /\ \A i \in 1 .. n : s[i] = q[Slot(r, i - 1)]
    BY WordsSeq
  <1>4. t \in Seq(word_t) /\ Len(t) = n + 1 /\ \A i \in 1 .. n + 1 : t[i] = q2[Slot(r, i - 1)]
    BY <1>1, <1>2, WordsSeq
  <1>5. ASSUME NEW i \in 1 .. n + 1 PROVE t[i] = Append(s, d)[i]
    <2>1. CASE i = n + 1
      <3>1. t[i] = q2[Slot(r, n)]
        <4>1. i - 1 = n
          BY <2>1, <1>2
        <4> QED BY <4>1, <1>4
      <3>2. t[i] = d
        BY <3>1, <1>1 DEF Memory
      <3> HIDE DEF s
      <3> QED BY <3>2, <2>1, <1>2, <1>3
    <2>2. CASE i # n + 1
      <3>1. /\ i \in 1 .. n /\ i - 1 \in 0 .. cap_p - 1 /\ i - 1 # n /\ n \in 0 .. cap_p - 1
            /\ i - 1 \in 0 .. cap_p /\ i - 1 < cap_p
        BY <2>2, <1>2, CapAssumption
      <3>2. Slot(r, i - 1) # Slot(r, n)
        BY <3>1, SlotDistinct
      <3>5. Slot(r, i - 1) \in 0 .. cap_p - 1
        BY <3>1, SlotFacts
      <3>3. t[i] = q[Slot(r, i - 1)]
        BY <3>2, <3>5, <1>4 DEF Memory
      <3>4. Append(s, d)[i] = s[i]
        <4> HIDE DEF s
        <4> QED BY <3>1, <1>2, <1>3
      <3> QED BY <3>1, <3>3, <3>4, <1>3
    <2> QED BY <2>1, <2>2
  <1>6. Append(s, d) \in Seq(word_t) /\ Len(Append(s, d)) = n + 1
    <2> HIDE DEF s
    <2> QED BY <1>3, <1>2
  <1> HIDE DEF s, t
  <1>7. t = Append(s, d)
    BY <1>4, <1>5, <1>6, SeqEqual
  <1> QED BY <1>7 DEF s, t

\* Moving the read pointer takes the oldest word off.
LEMMA WordsTail ==
  ASSUME NEW q \in Memory, NEW r \in ptr_t, NEW n \in 0 .. cap_p, n > 0
  PROVE  Words(q, Succ(r), n - 1) = Tail(Words(q, r, n))
  <1> DEFINE s == Words(q, r, n)
             t == Words(q, Succ(r), n - 1)
  <1>1. Succ(r) \in ptr_t /\ n - 1 \in 0 .. cap_p /\ n \in Nat
    BY PointerTypes, CapAssumption
  <1>2. s \in Seq(word_t) /\ Len(s) = n /\ \A i \in 1 .. n : s[i] = q[Slot(r, i - 1)]
    BY WordsSeq
  <1>3. t \in Seq(word_t) /\ Len(t) = n - 1 /\ \A i \in 1 .. n - 1 : t[i] = q[Slot(Succ(r), i - 1)]
    BY <1>1, WordsSeq
  <1>4. ASSUME NEW i \in 1 .. n - 1 PROVE t[i] = s[i + 1]
    <2>1. i \in 0 .. cap_p /\ i > 0 /\ i + 1 \in 1 .. n /\ (i + 1) - 1 = i
      BY <1>1, CapAssumption
    <2> QED BY <2>1, <1>2, <1>3, SlotFacts
  <1> HIDE DEF s, t
  <1>5. s # << >> /\ Tail(s) \in Seq(word_t) /\ Len(Tail(s)) = n - 1
    BY <1>1, <1>2
  <1>6. \A i \in 1 .. n - 1 : Tail(s)[i] = s[i + 1]
    BY <1>2, <1>5
  <1>7. t = Tail(s)
    BY <1>3, <1>4, <1>5, <1>6, SeqEqual
  <1> QED BY <1>7 DEF s, t

\* The write pointer names the cell behind the last word.
LEMMA WriteSlot ==
  ASSUME TypeOK
  PROVE  Index(write_ptr) = Slot(read_ptr, Count) \/ Count = cap_p
  BY CapAssumption DEF TypeOK, Count, Slot, Index, ptr_t

\* Every edge of the clock and every reset is a step of the abstract queue.
LEMMA StepRefines == TypeOK /\ TypeOK' /\ [Next]_vars => [Abstract!Next]_Items
  <1> SUFFICES ASSUME TypeOK, TypeOK', [Next]_vars PROVE [Abstract!Next]_Items
    OBVIOUS
  <1>t. queue \in Memory /\ read_ptr \in ptr_t /\ Count \in 0 .. cap_p
    BY FlagsCount DEF TypeOK, Memory
  <1>l. Items \in Seq(word_t) /\ Len(Items) = Count
    BY <1>t, WordsSeq DEF Items
  <1>n. Count # 0 => Items # << >>
    BY <1>l
  <1>1. CASE Reset
    <2>1. Count' = 0
      BY <1>1, CapAssumption DEF Reset, Count
    <2>2. Items' = << >>
      BY <2>1 DEF Items, Words
    <2> QED BY <2>2 DEF Abstract!Next, Abstract!Clear
  <1>2. ASSUME NEW d \in word_t, ready_o, Enqueue(d) PROVE Abstract!Next
    <2>1. Count < cap_p /\ Count' = Count + 1
      BY <1>2, <1>t, FlagsCount, CountStep, CapAssumption
    <2>2. queue' = [queue EXCEPT ![Slot(read_ptr, Count)] = d] /\ read_ptr' = read_ptr
      <3>1. Index(write_ptr) = Slot(read_ptr, Count)
        BY <2>1, <1>t, WriteSlot, CapAssumption
      <3> QED BY <3>1, <1>2 DEF Enqueue
    <2>3. Items' = Words(queue', read_ptr', Count')
      BY DEF Items, Words, Slot, Index
    <2>4. Items' = Append(Items, d)
      BY <2>1, <2>2, <2>3, <1>t, WordsAppend DEF Items
    <2>5. Abstract!Put(d)
      BY <2>1, <2>4, <1>l DEF Abstract!Put, Abstract!Room
    <2> QED BY <2>5 DEF Abstract!Next
  <1>3. ASSUME valid_o, Dequeue PROVE Abstract!Next
    <2>1. Count > 0 /\ Count' = Count - 1
      BY <1>3, <1>t, FlagsCount, CountStep, CapAssumption
    <2>2. Items' = Words(queue, Succ(read_ptr), Count - 1)
      BY <2>1, <1>3 DEF Items, Words, Slot, Index, Dequeue
    <2>3. Items' = Tail(Items)
      BY <2>1, <2>2, <1>t, WordsTail DEF Items
    <2> QED BY <2>1, <2>3, <1>n DEF Abstract!Next, Abstract!Get
  <1>4. ASSUME NEW d \in word_t, ready_o, valid_o, DequeueEnqueue(d) PROVE Abstract!Next
    <2>1. Count < cap_p /\ Count > 0 /\ Count' = Count
      BY <1>4, <1>t, FlagsCount, CountStep, CapAssumption
    <2>2. /\ Succ(read_ptr) \in ptr_t /\ Count - 1 \in 0 .. cap_p /\ Count - 1 < cap_p
          /\ (Count - 1) + 1 = Count
      BY <2>1, <1>t, PointerTypes, CapAssumption
    <2>3. Index(write_ptr) = Slot(Succ(read_ptr), Count - 1)
      BY <2>1, <1>t, WriteSlot, SlotFacts, CapAssumption
    <2>4. Items' = Words([queue EXCEPT ![Slot(Succ(read_ptr), Count - 1)] = d],
                         Succ(read_ptr), (Count - 1) + 1)
      BY <2>1, <2>2, <2>3, <1>4 DEF Items, Words, Slot, Index, DequeueEnqueue
    <2>5. Items' = Append(Words(queue, Succ(read_ptr), Count - 1), d)
      BY <2>2, <2>4, <1>t, WordsAppend
    <2>6. Words(queue, Succ(read_ptr), Count - 1) = Tail(Items)
      BY <2>1, <1>t, WordsTail DEF Items
    <2>7. Items' = Append(Tail(Items), d)
      BY <2>5, <2>6
    <2>8. Abstract!PutGet(d)
      BY <2>1, <2>7, <1>l, <1>n DEF Abstract!PutGet, Abstract!Room
    <2> QED BY <2>8 DEF Abstract!Next
  <1>5. CASE UNCHANGED vars
    BY <1>5 DEF vars, Items, Words, Slot, Index, Count
  <1> QED BY <1>1, <1>2, <1>3, <1>4, <1>5, ClockCases DEF Next

\* The circuit implements the bounded first-in first-out queue: no word is
\* lost, repeated or reordered by the wrapping pointers, by an edge that both
\* takes and gives up a word, or by a reset.
THEOREM Implements == Spec => Refines
  <1>1. Init => Abstract!Init
    <2> SUFFICES ASSUME Init PROVE Items = << >>
      BY DEF Abstract!Init
    <2>1. Count = 0
      BY DEF Init, Count
    <2> QED BY <2>1 DEF Items, Words
  <1> QED BY <1>1, StepRefines, TypeCorrect, PTL DEF Spec, Refines, Abstract!Spec
=============================================================================
