-------------------------------- MODULE Fifo --------------------------------
(***************************************************************************)
(* ECE411/mp0/fifo/hdl/fifo.sv: a synchronous queue with one read and one  *)
(* write port.  A step is a positive clock edge with the inputs sampled on *)
(* it, or the falling edge of the reset.  A pointer has one bit more than  *)
(* an index, so that a full queue and an empty one differ; both pointers   *)
(* run through 0 .. 2 * cap_p - 1 and wrap by themselves.                  *)
(***************************************************************************)
EXTENDS Naturals, Sequences

CONSTANTS cap_p,  \* words in the queue, a power of two in the code
          word_t  \* the words

ASSUME CapAssumption == cap_p \in Nat /\ cap_p > 1
ASSUME WordAssumption == word_t # {}

VARIABLES queue, read_ptr, write_ptr, output_buffer_r
vars == <<queue, read_ptr, write_ptr, output_buffer_r>>

ptr_t == 0 .. (2 * cap_p - 1)

\* The low bits of a pointer, and its top bit.
Index(p) == IF p < cap_p THEN p ELSE p - cap_p
Sign(p) == p >= cap_p

Succ(p) == IF p = 2 * cap_p - 1 THEN 0 ELSE p + 1

empty == Index(read_ptr) = Index(write_ptr) /\ Sign(read_ptr) = Sign(write_ptr)
\* As if the write pointer were always ahead.
full_ahead == Index(read_ptr) = Index(write_ptr) /\ Sign(write_ptr) /\ ~Sign(read_ptr)

full == Index(read_ptr) = Index(write_ptr) /\ Sign(read_ptr) # Sign(write_ptr)
ready_o == ~full
valid_o == ~empty
data_o == output_buffer_r

\* After the power-up reset; memory and buffer hold whatever they powered up with.
Init ==
  /\ queue \in [0 .. cap_p - 1 -> word_t]
  /\ output_buffer_r \in word_t
  /\ read_ptr = 0
  /\ write_ptr = 0

Reset ==
  /\ read_ptr' = 0
  /\ write_ptr' = 0
  /\ UNCHANGED <<queue, output_buffer_r>>

Dequeue ==
  /\ output_buffer_r' = queue[Index(Succ(read_ptr))]
  /\ read_ptr' = Succ(read_ptr)
  /\ UNCHANGED <<queue, write_ptr>>

Enqueue(data_i) ==
  /\ queue' = [queue EXCEPT ![Index(write_ptr)] = data_i]
  /\ write_ptr' = Succ(write_ptr)
  /\ output_buffer_r' = IF empty THEN data_i ELSE output_buffer_r
  /\ UNCHANGED read_ptr

\* Looks in the memory for a word that arrives on this edge.
DequeueEnqueue_memory(data_i) ==
  /\ output_buffer_r' = queue[Index(Succ(read_ptr))]
  /\ read_ptr' = Succ(read_ptr)
  /\ queue' = [queue EXCEPT ![Index(write_ptr)] = data_i]
  /\ write_ptr' = Succ(write_ptr)

\* With one word in the queue the next front is the word arriving now, which
\* the memory does not hold yet.
DequeueEnqueue(data_i) ==
  /\ output_buffer_r' = IF Index(Succ(read_ptr)) = Index(write_ptr)
                          THEN data_i ELSE queue[Index(Succ(read_ptr))]
  /\ read_ptr' = Succ(read_ptr)
  /\ queue' = [queue EXCEPT ![Index(write_ptr)] = data_i]
  /\ write_ptr' = Succ(write_ptr)

\* Takes a word whenever one is offered together with a yumi.
Clock_through(valid_i, yumi_i, data_i) ==
  LET dequeue == valid_o /\ yumi_i
      enqueue == valid_i /\ (ready_o \/ dequeue)
  IN  \/ enqueue /\ ~dequeue /\ Enqueue(data_i)
      \/ ~enqueue /\ dequeue /\ Dequeue
      \/ enqueue /\ dequeue /\ DequeueEnqueue(data_i)
      \/ ~enqueue /\ ~dequeue /\ UNCHANGED vars

\* One positive edge with these inputs.
Clock(valid_i, yumi_i, data_i) ==
  LET enqueue == ready_o /\ valid_i
      dequeue == valid_o /\ yumi_i
  IN  \/ enqueue /\ ~dequeue /\ Enqueue(data_i)
      \/ ~enqueue /\ dequeue /\ Dequeue
      \/ enqueue /\ dequeue /\ DequeueEnqueue(data_i)
      \/ ~enqueue /\ ~dequeue /\ UNCHANGED vars

Next ==
  \/ Reset
  \/ \E valid_i, yumi_i \in BOOLEAN, data_i \in word_t : Clock(valid_i, yumi_i, data_i)

Spec == Init /\ [][Next]_vars
-----------------------------------------------------------------------------
(* How many words lie between the pointers, and which. *)

Count == IF write_ptr >= read_ptr THEN write_ptr - read_ptr
                                  ELSE 2 * cap_p + write_ptr - read_ptr

\* The cell k places after the one that pointer r names.
Slot(r, k) == IF Index(r) + k < cap_p THEN Index(r) + k ELSE Index(r) + k - cap_p

\* The n words of memory q from pointer r on.
Words(q, r, n) == [i \in 1 .. n |-> q[Slot(r, i - 1)]]

Items == Words(queue, read_ptr, Count)

\* The registers have their types and the pointers are never further apart than
\* the memory has cells: a word is not overwritten before it is read.
TypeOK ==
  /\ queue \in [0 .. cap_p - 1 -> word_t]
  /\ read_ptr \in ptr_t
  /\ write_ptr \in ptr_t
  /\ output_buffer_r \in word_t
  /\ Count <= cap_p

\* What data_o shows while valid_o is up is the oldest word taken and not yet
\* given up, although it comes from a register that is loaded one edge ahead
\* (by the dequeue before, or past the memory when the queue holds one word).
FrontIsOldest == valid_o => data_o = queue[Index(read_ptr)]

\* The circuit is a bounded first-in first-out queue: every edge of clock or
\* reset is a step of FifoSpec on the words between the pointers.
Abstract == INSTANCE FifoSpec WITH Word <- word_t, Capacity <- cap_p, items <- Items
Refines == Abstract!Spec
=============================================================================
