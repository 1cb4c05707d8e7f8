------------------------------ MODULE FifoSpec ------------------------------
(***************************************************************************)
(* What a user of ECE411/mp0/fifo is promised: a bounded first-in          *)
(* first-out queue.  On a clock edge it may take a word, give up its       *)
(* oldest word, or do both; a reset empties it.  Both is not Put after Get *)
(* or Get after Put: a full queue takes no word even if it gives one up on *)
(* the same edge, and an empty one hands nothing straight through.         *)
(***************************************************************************)
EXTENDS Naturals, Sequences

CONSTANTS Word, Capacity

VARIABLE items

Room == Len(items) < Capacity

Init == items = << >>

Put(d) == Room /\ items' = Append(items, d)

Get == items # << >> /\ items' = Tail(items)

PutGet(d) == Room /\ items # << >> /\ items' = Append(Tail(items), d)

Clear == items' = << >>

Next == (\E d \in Word : Put(d) \/ PutGet(d)) \/ Get \/ Clear

Spec == Init /\ [][Next]_items
=============================================================================
