------------------------------ MODULE Scheduling -----------------------------
(***************************************************************************)
(* Processes of the mp3 kernel: execute, halt and vidmap (filesys.c,       *)
(* syscall.c), the page directories they allocate (paging.c) and the timer *)
(* interrupt that switches between processes (scheduling.c).               *)
(*                                                                         *)
(* There is one CPU.  System calls enter through a trap gate, so the timer *)
(* may interrupt them wherever the code has not executed cli(): a system   *)
(* call is cut into one action per stretch between the points where an     *)
(* interrupt makes a difference, and "cpu.pc" names the next stretch.      *)
(* Interrupt handlers enter through interrupt gates and are not            *)
(* interrupted unless they execute sti().                                  *)
(*                                                                         *)
(* A process is identified by its pid: PCB p, page directory p and kernel  *)
(* stack p are at addresses computed from it.                              *)
(***************************************************************************)
EXTENDS TaskQueue, Sequences

CONSTANTS
  PreemptAt,       \* the stretches of execute and halt the timer may interrupt
  Mappers,         \* the processes whose programs call vidmap
  MaxSpawns        \* bound on the shells that the timer interrupt starts

VARIABLES
  task_queue,   \* task_queue[i]: [pcb, enabled, esp]
  cur_pcb,      \* global pointer to the running process's PCB
  pcb,          \* pcb[p]: [parent_pid, con, vidmap_check]
  pde,          \* pde[p]: process_pdir_table[p].pde[USER_IDX] - USER_BITS
  cr3,          \* whose page directory is loaded (NULL: the boot page_dir)
  esp0,         \* tss.esp0: whose kernel stack a trap from user mode enters
  kstack,       \* kstack[s]: the entry frames live on kernel stack s
  cpu,          \* the code being executed and its local variables
  con_ovr,      \* [idx, flag]: console the next process is to be put on
  con_idx,      \* static counter of pit_interrupt
  image,        \* image[p]: the process whose executable page p holds
  vmem_table2   \* vmem_table2[p]: video memory is mapped at entry p

vars == <<task_queue, cur_pcb, pcb, pde, cr3, esp0, kstack, cpu, con_ovr,
          con_idx, image, vmem_table2>>

MAX_VTERMS == 3               \* console.h

Boot  == NULL                 \* the stack entry() runs on
Stack == Pid \cup {Boot}

\* A saved stack pointer names a stack and the frame it points to; frame 0
\* stands for the stack pointer of a task_t whose esp was never assigned.
Esp    == [stk : Stack, lvl : Nat]
NoEsp  == [stk |-> Boot, lvl |-> 0]
Task   == [pcb : PcbOrNull, enabled : BOOLEAN, esp : Esp]
NoTask == [pcb |-> NULL, enabled |-> TRUE, esp |-> NoEsp]

KernelPc == {"exec_enter", "exec_load", "exec_copy", "exec_fill",
             "exec_queue", "halt_paging", "halt_switch", "halt_queue"}

ASSUME SchedAssumption ==
  /\ PreemptAt \subseteq KernelPc
  /\ Mappers \subseteq Pid
  /\ MaxSpawns \in Nat

\* "stk" is the kernel stack in use; "regs" is the process whose user
\* registers are in the CPU; parent, temp_cur and child are locals of execute
\* and file_to_mem (parent, temp_cur, process_num).
Cpu == [pc : KernelPc \cup {"hlt", "user", "read", "pit_rotate", "pit_switch",
                         "fault"},
        stk : Stack, regs : PcbOrNull, parent : PcbOrNull,
        temp_cur : Task, child : PcbOrNull]

Frame == [kind : {"syscall", "isr"}, cpu : Cpu]

At(pc, s) == [pc |-> pc, stk |-> s, regs |-> NULL, parent |-> NULL,
              temp_cur |-> NoTask, child |-> NULL]
InUser(p) == [At("user", Boot) EXCEPT !.regs = p]

TypeOK ==
  /\ task_queue \in [Cell -> Task]
  /\ cur_pcb \in PcbOrNull
  /\ pcb \in [Pid -> [parent_pid : PcbOrNull, con : Nat, vidmap_check : BOOLEAN]]
  /\ pde \in [Pid -> Int]
  /\ cr3 \in PcbOrNull
  /\ esp0 \in Stack
  /\ kstack \in [Stack -> Seq(Frame)]
  /\ cpu \in Cpu
  /\ con_ovr \in [idx : Nat, flag : BOOLEAN]
  /\ con_idx \in Nat
  /\ image \in [Pid -> PcbOrNull]
  /\ vmem_table2 \in [Pid -> BOOLEAN]

-----------------------------------------------------------------------------
\* entry() has run init_paging and init_schedule and sits in its hlt loop.
Init ==
  /\ task_queue = [i \in Cell |-> NoTask]
  /\ cur_pcb = NULL
  /\ pcb = [p \in Pid |-> [parent_pid |-> 0, con |-> 0, vidmap_check |-> FALSE]]
  /\ pde = [p \in Pid |-> 0]
  /\ cr3 = NULL
  /\ esp0 = Boot
  /\ kstack = [s \in Stack |-> <<>>]
  /\ cpu = At("hlt", Boot)
  /\ con_ovr = [idx |-> 0, flag |-> FALSE]
  /\ con_idx = 0
  /\ image = [p \in Pid |-> NULL]
  /\ vmem_table2 = [p \in Pid |-> FALSE]

Present(p) == pde[p] % 2 = 1       \* bit 0 of the entry; USER_BITS is even

\* Mutant: looks one cell too far and starts a fourth shell.
Starting_late == cur_pcb = NULL \/ task_queue[3].pcb = NULL

\* The test by which both pit_interrupt and execute tell start-up from normal
\* operation.
Starting == cur_pcb = NULL \/ task_queue[2].pcb = NULL

\* An int 0x80 from user mode starts the kernel stack afresh at tss.esp0.
EnterSyscall == [kstack EXCEPT ![esp0] = <<[kind |-> "syscall", cpu |-> cpu]>>]

\* Unwind to the frame that stack pointer e names and go back to what the
\* frame interrupted.
Resume(e) ==
  /\ cpu' = kstack[e.stk][e.lvl].cpu
  /\ kstack' = [kstack EXCEPT ![e.stk] = SubSeq(@, 1, e.lvl - 1)]

Innermost(s) == [stk |-> s, lvl |-> Len(kstack[s])]

Fault == cpu' = At("fault", Boot)    \* every exception handler spins forever

-----------------------------------------------------------------------------
(* pit_interrupt *)

\* Mutants: interrupts are enabled again in the middle of execute or of halt.
Interruptible_copy == cpu.pc \in {"hlt", "user", "read", "exec_copy"}
Interruptible_halt == cpu.pc \in {"hlt", "user", "read", "halt_queue"}

Interruptible ==
  \/ cpu.pc \in {"hlt", "user", "read"}
  \/ cpu.pc \in PreemptAt

\* The stack the interrupt's frame goes to, and that stack with the frame.
IntStack == IF cpu.pc = "user" THEN esp0 ELSE cpu.stk
IntFrames ==
  Append(IF cpu.pc = "user" THEN <<>> ELSE kstack[IntStack],
         [kind |-> "isr", cpu |-> cpu])

SaveContext ==
  /\ kstack' = [kstack EXCEPT ![IntStack] = IntFrames]
  /\ task_queue' = [task_queue EXCEPT
                      ![0].esp = [stk |-> IntStack, lvl |-> Len(IntFrames)]]

\* Fewer than three tasks: start another shell, on the next console, on top
\* of whatever was interrupted.
PitSpawn ==
  /\ Interruptible
  /\ Starting
  /\ con_idx < MaxSpawns
  /\ SaveContext
  /\ con_ovr' = [idx |-> con_idx, flag |-> TRUE]
  /\ con_idx' = con_idx + 1
  /\ cpu' = At("exec_enter", IntStack)
  /\ UNCHANGED <<cur_pcb, pcb, pde, cr3, esp0, image, vmem_table2>>

PitPreempt ==
  /\ Interruptible
  /\ ~Starting
  /\ SaveContext
  /\ cpu' = At("pit_rotate", IntStack)
  /\ UNCHANGED <<cur_pcb, pcb, pde, cr3, esp0, con_ovr, con_idx, image,
                 vmem_table2>>

PitRotate ==
  /\ cpu.pc = "pit_rotate"
  /\ task_queue' = Rotate(task_queue)
  /\ cpu' = [cpu EXCEPT !.pc = IF task_queue'[0].enabled
                               THEN "pit_switch" ELSE "pit_rotate"]
  /\ UNCHANGED <<cur_pcb, pcb, pde, cr3, esp0, kstack, con_ovr, con_idx, image,
                 vmem_table2>>

\* The saved stack pointer leads back to an interrupt frame only if that frame
\* is still on its stack.
Resumable(e) ==
  /\ e.lvl \in DOMAIN kstack[e.stk]
  /\ kstack[e.stk][e.lvl].kind = "isr"

PitSwitch ==
  /\ cpu.pc = "pit_switch"
  /\ LET next == task_queue[0]
     IN  /\ esp0' = next.pcb
         /\ cr3' = next.pcb
         /\ cur_pcb' = next.pcb
         /\ IF next.pcb # NULL /\ Resumable(next.esp)
            THEN Resume(next.esp)
            ELSE Fault /\ UNCHANGED kstack
  /\ UNCHANGED <<task_queue, pcb, pde, con_ovr, con_idx, image, vmem_table2>>

-----------------------------------------------------------------------------
(* execute *)

SysExecute ==
  /\ cpu.pc = "user"
  /\ kstack' = EnterSyscall
  /\ cpu' = At("exec_enter", esp0)
  /\ UNCHANGED <<task_queue, cur_pcb, pcb, pde, cr3, esp0, con_ovr, con_idx,
                 image, vmem_table2>>

\* Up to the cli(): parent and the current task are copied into locals.
ExecEnter ==
  /\ cpu.pc = "exec_enter"
  /\ cpu' = [cpu EXCEPT !.pc = "exec_load",
                        !.parent = IF Starting THEN NULL ELSE cur_pcb,
                        !.temp_cur = task_queue[0]]
  /\ UNCHANGED <<task_queue, cur_pcb, pcb, pde, cr3, esp0, kstack, con_ovr,
                 con_idx, image, vmem_table2>>

\* new_process_ptable: the first page directory whose user page is not present.
FreePid(p) == ~Present(p) /\ \A q \in Pid : q < p => Present(q)

\* file_to_mem fails: the file does not exist or is not an executable, or all
\* page directories are taken.  The file system image contains "shell", the
\* file that pit_interrupt asks for.
ExecFail ==
  /\ cpu.pc = "exec_load"
  /\ LET caller == kstack[cpu.stk][Len(kstack[cpu.stk])]
     IN  caller.kind = "syscall" \/ \A p \in Pid : Present(p)
  /\ Resume(Innermost(cpu.stk))
  /\ UNCHANGED <<task_queue, cur_pcb, pcb, pde, cr3, esp0, con_ovr, con_idx,
                 image, vmem_table2>>

\* file_to_mem up to its sti(), which also ends the cli() of execute.
ExecLoad ==
  /\ cpu.pc = "exec_load"
  /\ \E n \in Pid :
       /\ FreePid(n)
       /\ pde' = [pde EXCEPT ![n] = @ + 1]
       /\ cr3' = n
       /\ cur_pcb' = n
       /\ pcb' = [pcb EXCEPT
            ![n].parent_pid = n - 1,
            ![n].con = IF n = 0 THEN 0
                       ELSE IF con_ovr.flag THEN con_ovr.idx
                       ELSE IF cur_pcb # NULL THEN pcb[cur_pcb].con
                       ELSE 0]
       /\ con_ovr' = [con_ovr EXCEPT !.flag = @ /\ n = 0]
       /\ cpu' = [cpu EXCEPT !.pc = "exec_copy", !.child = n]
  /\ UNCHANGED <<task_queue, esp0, kstack, con_idx, image, vmem_table2>>

\* The executable is copied to LOAD_LOC in whatever address space is loaded.
ExecCopy ==
  /\ cpu.pc = "exec_copy"
  /\ cr3 # NULL
  /\ image' = [image EXCEPT ![cr3] = cpu.child]
  /\ cpu' = [cpu EXCEPT !.pc = "exec_fill"]
  /\ UNCHANGED <<task_queue, cur_pcb, pcb, pde, cr3, esp0, kstack, con_ovr,
                 con_idx, vmem_table2>>

ExecFill ==
  /\ cpu.pc = "exec_fill"
  /\ cur_pcb # NULL
  /\ pcb' = [pcb EXCEPT ![cur_pcb].vidmap_check = FALSE,
                        ![cur_pcb].parent_pid = cpu.parent]
  /\ cpu' = [cpu EXCEPT !.pc = "exec_queue"]
  /\ UNCHANGED <<task_queue, cur_pcb, pde, cr3, esp0, kstack, con_ovr, con_idx,
                 image, vmem_table2>>

\* The parent's task goes to the back of the queue, asleep unless the new
\* process has no parent; the new process takes cell 0 and starts in user mode.
ExecQueue ==
  /\ cpu.pc = "exec_queue"
  /\ cur_pcb # NULL
  /\ LET old == [cpu.temp_cur EXCEPT
                   !.enabled = @ /\ pcb[cur_pcb].parent_pid = NULL]
         new == [pcb |-> cur_pcb, enabled |-> TRUE, esp |-> NoEsp]
         q   == IF cur_pcb # 0 THEN task_push(task_queue, old) ELSE task_queue
     IN  task_queue' = [q EXCEPT ![0] = new]
  /\ esp0' = cur_pcb
  /\ cpu' = InUser(cur_pcb)
  /\ UNCHANGED <<cur_pcb, pcb, pde, cr3, kstack, con_ovr, con_idx, image,
                 vmem_table2>>

-----------------------------------------------------------------------------
(* halt *)

IsBase(p) == pcb[p].parent_pid = NULL \/ p = 0

\* A process without parent is not ended: it starts again from its entry
\* point, keeping its PCB.
HaltRestart ==
  /\ cpu.pc = "user"
  /\ cur_pcb # NULL
  /\ IsBase(cur_pcb)
  /\ cpu' = InUser(cur_pcb)
  /\ UNCHANGED <<task_queue, cur_pcb, pcb, pde, cr3, esp0, kstack, con_ovr,
                 con_idx, image, vmem_table2>>

HaltClear ==
  /\ cpu.pc = "user"
  /\ cur_pcb # NULL
  /\ ~IsBase(cur_pcb)
  /\ kstack' = EnterSyscall
  /\ vmem_table2' = [vmem_table2 EXCEPT ![0] = FALSE]
  /\ pcb' = [pcb EXCEPT ![cur_pcb].vidmap_check = FALSE]
  /\ cpu' = At("halt_paging", esp0)
  /\ UNCHANGED <<task_queue, cur_pcb, pde, cr3, esp0, con_ovr, con_idx, image>>

\* return_parent_paging.  A PCB without parent would index directory -1.
HaltPaging ==
  /\ cpu.pc = "halt_paging"
  /\ cur_pcb # NULL
  /\ IF pcb[cur_pcb].parent_pid = NULL
     THEN Fault /\ UNCHANGED <<cr3, pde>>
     ELSE /\ cr3' = pcb[cur_pcb].parent_pid
          /\ pde' = [pde EXCEPT ![cur_pcb] = @ - 1]
          /\ cpu' = [cpu EXCEPT !.pc = "halt_switch"]
  /\ UNCHANGED <<task_queue, cur_pcb, pcb, esp0, kstack, con_ovr, con_idx,
                 image, vmem_table2>>

HaltSwitch ==
  /\ cpu.pc = "halt_switch"
  /\ cur_pcb # NULL
  /\ cur_pcb' = pcb[cur_pcb].parent_pid
  /\ esp0' = cur_pcb'
  /\ cpu' = [cpu EXCEPT !.pc = "halt_queue"]
  /\ UNCHANGED <<task_queue, pcb, pde, cr3, kstack, con_ovr, con_idx, image,
                 vmem_table2>>

\* exec_ret loads the constant 0x7FFFBE into esp, the slot of a system call's
\* return address on the kernel stack of process 0, and returns through it:
\* the registers of process 0's system call are restored, and a stack entered
\* by an interrupt has something else in that slot.
ExecRet ==
  IF kstack[0] # <<>> /\ kstack[0][1].kind = "syscall"
  THEN cpu' = kstack[0][1].cpu
  ELSE Fault

HaltQueue ==
  /\ cpu.pc = "halt_queue"
  /\ LET parent == task_grab(task_queue, cur_pcb, NoEsp)
     IN  task_queue' = [task_pop(task_queue, parent.pcb) EXCEPT ![0] = parent]
  /\ ExecRet
  /\ UNCHANGED <<cur_pcb, pcb, pde, cr3, esp0, kstack, con_ovr, con_idx, image,
                 vmem_table2>>

-----------------------------------------------------------------------------
(* vidmap: maps the page before it looks at vidmap_check. *)

Vidmap ==
  /\ cpu.pc = "user"
  /\ cur_pcb \in Mappers
  /\ vmem_table2' = [vmem_table2 EXCEPT ![cur_pcb] = TRUE]
  /\ pcb' = [pcb EXCEPT ![cur_pcb].vidmap_check = TRUE]
  /\ UNCHANGED <<task_queue, cur_pcb, pde, cr3, esp0, kstack, cpu, con_ovr,
                 con_idx, image>>

-----------------------------------------------------------------------------
(* A system call that waits for a device, spinning with interrupts enabled:  *)
(* console_getinput and rtc_read.  What it waits for is in other modules.    *)

SysRead ==
  /\ cpu.pc = "user"
  /\ kstack' = EnterSyscall
  /\ cpu' = At("read", esp0)
  /\ UNCHANGED <<task_queue, cur_pcb, pcb, pde, cr3, esp0, con_ovr, con_idx,
                 image, vmem_table2>>

ReadReturn ==
  /\ cpu.pc = "read"
  /\ Resume(Innermost(cpu.stk))
  /\ UNCHANGED <<task_queue, cur_pcb, pcb, pde, cr3, esp0, con_ovr, con_idx,
                 image, vmem_table2>>

\* A faulted machine stays in the exception handler's loop.
Spin == cpu.pc = "fault" /\ UNCHANGED vars

Execute == SysExecute \/ ExecEnter \/ ExecFail \/ ExecLoad \/ ExecCopy
             \/ ExecFill \/ ExecQueue
Halt == HaltRestart \/ HaltClear \/ HaltPaging \/ HaltSwitch \/ HaltQueue
Pit == PitSpawn \/ PitPreempt \/ PitRotate \/ PitSwitch

Next == Execute \/ Halt \/ Pit \/ Vidmap \/ SysRead \/ ReadReturn \/ Spin

Spec == Init /\ [][Next]_vars

-----------------------------------------------------------------------------
(* Fairness: the CPU goes on executing kernel code, and a timer tick that   *)
(* comes while interrupts are off stays pending in the interrupt controller *)
(* until they are on again.                                                 *)

KernelSteps == ExecEnter \/ ExecFail \/ ExecLoad \/ ExecCopy \/ ExecFill \/ ExecQueue
                 \/ HaltPaging \/ HaltSwitch \/ HaltQueue \/ PitRotate \/ PitSwitch

Fairness == WF_vars(KernelSteps) /\ SF_vars(PitSpawn \/ PitPreempt)

FairSpec == Spec /\ Fairness

-----------------------------------------------------------------------------
(* Properties *)

\* The points before execute or halt has written anything shared.
SafePoints == {"exec_enter", "exec_load", "halt_paging"}

Settled == cpu.pc \in {"user", "read"}
EnabledTask(p) == \E i \in Cell : task_queue[i].pcb = p /\ task_queue[i].enabled
Children(p) == {q \in Pid : Present(q) /\ pcb[q].parent_pid = p}

\* While a process runs, everything that says which process it is agrees: the
\* PCB pointer, the loaded page directory, the stack for its next trap and
\* the front of the queue, which is not asleep (pit_interrupt, execute, halt).
Coherent ==
  Settled =>
    /\ cur_pcb \in Pid /\ Present(cur_pcb)
    /\ cr3 = cur_pcb /\ esp0 = cur_pcb
    /\ task_queue[0].pcb = cur_pcb /\ task_queue[0].enabled

\* The occupied cells of the queue are the first ones and hold different
\* processes, through every push, pop and rotation.
NoDuplicates ==
  \A i, j \in Cell : i < j /\ Occupied(task_queue, j) =>
    Occupied(task_queue, i) /\ task_queue[i].pcb # task_queue[j].pcb

\* While a process runs, the processes that own a page directory are exactly
\* those in the queue: task_push never finds it full and no pid leaks.
NothingLost == Settled => \A p \in Pid : Present(p) <=> InQueue(task_queue, p)

\* The queue is exact: no push, pop, grab or rotation, of whichever process and
\* with ticks in between, doubles a task, leaves a hole or loses one.
QueueExact == NoDuplicates /\ NothingLost

\* While a process runs, a process sleeps exactly when it waits for a child,
\* and it never has two (execute puts the parent to sleep, halt wakes it).
SleepsForChild ==
  Settled =>
    \A p \in Pid : Present(p) =>
      Cardinality(Children(p)) = (IF EnabledTask(p) THEN 0 ELSE 1)

\* While a process runs, every live process's page holds that process's own
\* executable: file_to_mem copied it into the address space it allocated.
Isolation == Settled => \A p \in Pid : Present(p) => image[p] = p

\* No step changes the parent or the console of a live process other than
\* the one that the running execute is creating.
PcbStable ==
  [][\A p \in Pid : Present(p) /\ Present(p)' /\ p # cpu.child =>
       pcb'[p].parent_pid = pcb[p].parent_pid /\ pcb'[p].con = pcb[p].con]_vars

\* Every live process is on one of the virtual terminals: pit_interrupt hands
\* out consoles 0, 1 and 2 ("do this 3 times") and children inherit theirs.
ConsoleInRange == \A p \in Pid : Present(p) => pcb[p].con < MAX_VTERMS

\* Every task that is not asleep gets the CPU again, however the others use
\* their system calls (the rotation in pit_interrupt), unless the machine has
\* faulted.
NoStarvation ==
  \A p \in Pid : (Settled /\ EnabledTask(p))
                   ~> (cpu.pc = "fault" \/ (Settled /\ cur_pcb = p))

\* file_to_mem copies "the executable into the new user page": whatever ticks
\* come between its sti() and the copy, the page directory that is loaded at
\* the copy is that of the process which an execute system call creates.
CopiesToNewPage == cpu.pc = "exec_copy" /\ cpu.parent # NULL => cr3 = cpu.child

\* A process in user mode has its own registers: halt's return path gives the
\* parent back the registers of the parent's execute call.
OwnRegisters == cpu.pc = "user" => cpu.regs = cr3

\* While a process runs, video memory is mapped only for live processes: halt
\* removes the mapping of the process that ends.
MappedOnlyIfAlive == Settled => \A p \in Pid : vmem_table2[p] => Present(p)
-----------------------------------------------------------------------------
\* Code that runs on a kernel stack and leaves it by returning.
OnStack == KernelPc \cup {"read"}

\* What kernel code finds at depth i of stack s when it returns there.
FrameOK(f, s, i) ==
  /\ f.kind = "syscall" => f.cpu.pc = "user"
  /\ f.cpu.pc \in {"hlt", "user", "read"} \cup PreemptAt
  /\ f.cpu.pc \in OnStack => f.cpu.stk = s /\ i > 1
  /\ f.cpu.pc = "hlt" => f.cpu.stk = s /\ s = Boot

\* Part of the inductive invariants of the proofs: kernel code that will return
\* has a frame to return through, and every frame leads back to user mode, to
\* the idle loop or to code on the same stack at a point where a tick is
\* possible.
FramesOK ==
  /\ cpu.pc \in OnStack => kstack[cpu.stk] # <<>>
  /\ cpu.pc = "hlt" => cpu.stk = Boot
  /\ \A s \in Stack : \A i \in 1 .. Len(kstack[s]) : FrameOK(kstack[s][i], s, i)

=============================================================================
