------------------------------ MODULE TaskQueue ------------------------------
(***************************************************************************)
(* The run queue of the mp3 kernel (student-distrib/scheduling.c) and the  *)
(* operations on it, as functions from a queue to a queue.  The array has  *)
(* QUEUE_SIZE cells but every loop stops at MAX_PROCESS, so the queue is a *)
(* function on 0 .. MAX_PROCESS-1.  A cell is empty when its pcb is NULL.  *)
(***************************************************************************)
EXTENDS Integers, FiniteSets

CONSTANT MAX_PROCESS       \* paging.h: page directories, PCBs, queue cells

\* pit_interrupt and execute read task_queue[2] unconditionally.
ASSUME MaxProcessAssumption == MAX_PROCESS \in Nat /\ MAX_PROCESS >= 3

Pid   == 0 .. MAX_PROCESS - 1
NULL  == -1                \* a null pcb_t pointer
PcbOrNull == Pid \cup {NULL}

Cell == 0 .. MAX_PROCESS - 1

\* A cell holds the fields of task_t that the kernel reads back; "esp" is any
\* description of the saved stack pointer.  ebp travels with esp, and state
\* and terminal_num are written and never read.
Occupied(q, i) == q[i].pcb # NULL

\* Where the scan of task_push stops.
FirstFree(q, i) == ~Occupied(q, i) /\ \A j \in Cell : j < i => Occupied(q, j)

\* Mutant: the scan stops one cell early.
task_push_short(q, t) ==
  [i \in Cell |-> IF FirstFree(q, i) /\ i < MAX_PROCESS - 1 THEN t ELSE q[i]]

\* task_push: into the first empty cell; a full queue drops the task.
task_push(q, t) == [i \in Cell |-> IF FirstFree(q, i) THEN t ELSE q[i]]

\* Mutant: the shift reads the array cell after the queue.
task_pop_over(q, p) ==
  [i \in Cell |-> IF i + 1 \in Cell THEN q[i + 1]
                  ELSE [q[i] EXCEPT !.pcb = MAX_PROCESS]]

\* task_pop: cells at and after the match move down one; the last cell loses
\* its pcb and keeps its other fields.
AtOrAfter(q, p, i) == \E j \in Cell : j <= i /\ q[j].pcb = p

task_pop(q, p) ==
  [i \in Cell |->
     IF ~AtOrAfter(q, p, i) THEN q[i]
     ELSE IF i = MAX_PROCESS - 1 THEN [q[i] EXCEPT !.pcb = NULL]
     ELSE q[i + 1]]

InQueue(q, p) == \E i \in Cell : q[i].pcb = p

\* Mutant: the parent is put back into the queue still asleep.
task_grab_asleep(q, p, unset) ==
  [pcb |-> p, enabled |-> FALSE, esp |-> unset]

\* task_grab, with the enabled flag that halt then sets.  It leaves the
\* caller's pcb NULL, and its stack pointer unset, when no cell matches.
task_grab(q, p, unset) ==
  IF InQueue(q, p)
  THEN LET k == CHOOSE i \in Cell :
                   q[i].pcb = p /\ \A j \in Cell : j < i => q[j].pcb # p
       IN  [pcb |-> p, enabled |-> TRUE, esp |-> q[k].esp]
  ELSE [pcb |-> NULL, enabled |-> TRUE, esp |-> unset]

\* Mutant: the first two tasks change places.
Rotate_swap(q) == [q EXCEPT ![0] = q[1], ![1] = q[0]]

\* One turn of the do-while loop in pit_interrupt.
Rotate(q) == task_push(task_pop(q, q[0].pcb), q[0])

=============================================================================
