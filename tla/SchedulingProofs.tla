--------------------------- MODULE SchedulingProofs --------------------------
(***************************************************************************)
(* Proofs about Scheduling for every MAX_PROCESS: first that its state is  *)
(* well typed, the stack of frames included, then that the kernel's idea   *)
(* of which process runs stays coherent, as long as the timer interrupts   *)
(* execute and halt only before they have written anything shared.         *)
(***************************************************************************)
EXTENDS Scheduling, TLAPS, FiniteSetTheorems, NaturalsInduction,
        WellFoundedInduction, SequenceTheorems

-----------------------------------------------------------------------------
(* The operations of the run queue *)

\* A non-empty set of cells has a least element (the cell a scan stops at).
LEMMA LeastCell ==
  ASSUME NEW T \in SUBSET Cell, T # {}
  PROVE  \E i \in T : \A j \in T : i <= j
<1>1. IsWellFoundedOn(OpToRel(<, Nat), Nat)
  BY NatLessThanWellFounded
<1>2. T \subseteq Nat
  BY MaxProcessAssumption DEF Cell
<1>3. PICK i \in T : \A j \in T : ~(<<j, i>> \in OpToRel(<, Nat))
  BY <1>1, <1>2, WFMin, Zenon
<1>4. \A j \in T : ~(j < i)
  BY <1>2, <1>3 DEF OpToRel
<1>. QED  BY <1>2, <1>4

\* task_push, task_pop and Rotate map a queue of tasks to a queue of tasks.
LEMMA PushType ==
  ASSUME NEW q \in [Cell -> Task], NEW t \in Task
  PROVE  task_push(q, t) \in [Cell -> Task]
BY DEF task_push

\* task_pop leaves a queue of tasks.
LEMMA PopType ==
  ASSUME NEW q \in [Cell -> Task], NEW p
  PROVE  task_pop(q, p) \in [Cell -> Task]
<1>1. \A i \in Cell : i # MAX_PROCESS - 1 => i + 1 \in Cell
  BY MaxProcessAssumption DEF Cell
<1>2. \A i \in Cell : [q[i] EXCEPT !.pcb = NULL] \in Task
  BY DEF Task, PcbOrNull
<1>. QED  BY <1>1, <1>2 DEF task_pop

\* task_grab returns a task, whichever process it is asked for.
LEMMA GrabType ==
  ASSUME NEW q \in [Cell -> Task], NEW p \in PcbOrNull
  PROVE  task_grab(q, p, NoEsp) \in Task
<1>1. NoEsp \in Esp
  BY DEF NoEsp, Esp, Stack
<1>2. CASE InQueue(q, p)
  <2>. DEFINE Hit == {i \in Cell : q[i].pcb = p}
              First(i) == q[i].pcb = p /\ \A j \in Cell : j < i => q[j].pcb # p
              k == CHOOSE i \in Cell : First(i)
  <2>1. Hit \in SUBSET Cell /\ Hit # {}
    BY <1>2 DEF InQueue
  <2>2. PICK i \in Hit : \A j \in Hit : i <= j
    BY <2>1, LeastCell
  <2>3. First(i)
    BY <2>2, MaxProcessAssumption DEF Cell
  <2>4. k \in Cell
    BY <2>2, <2>3
  <2>5. q[k].esp \in Esp
    BY <2>4 DEF Task
  <2>. QED  BY <1>2, <2>5 DEF task_grab, Task
<1>3. CASE ~InQueue(q, p)
  BY <1>1, <1>3 DEF task_grab, Task, PcbOrNull
<1>. QED  BY <1>2, <1>3

-----------------------------------------------------------------------------
(* Type correctness, at every set of preemption points *)

TypeInv == TypeOK /\ FramesOK

\* What the constants give: pids and stacks are integers, cell 0 is a cell.
LEMMA Constants ==
  /\ 0 \in Pid /\ 0 \in Cell /\ 2 \in Cell
  /\ NULL \in PcbOrNull /\ Pid \subseteq PcbOrNull /\ Stack = PcbOrNull
  /\ NoEsp \in Esp /\ NoTask \in Task
  /\ \A p \in Pid : p - 1 \in PcbOrNull
BY MaxProcessAssumption
   DEF Pid, Cell, PcbOrNull, Stack, Boot, NULL, NoEsp, Esp, NoTask, Task

\* The two ways of building a CPU state from scratch.
LEMMA AtType ==
  ASSUME NEW s \in Stack,
         NEW pc \in KernelPc \cup {"hlt", "user", "read", "pit_rotate",
                                   "pit_switch", "fault"}
  PROVE  At(pc, s) \in Cpu /\ At(pc, s).pc = pc /\ At(pc, s).stk = s
BY Constants DEF At, Cpu

\* The processor in user mode is well-typed.
LEMMA InUserType ==
  ASSUME NEW p \in PcbOrNull
  PROVE  InUser(p) \in Cpu /\ InUser(p).pc = "user"
BY Constants DEF InUser, At, Cpu, Boot

\* Entering the kernel from user mode by a system call.
LEMMA TrapOK ==
  ASSUME TypeInv, cpu.pc = "user", kstack' = EnterSyscall,
         NEW pc \in KernelPc \cup {"read"}, cpu' = At(pc, esp0)
  PROVE  cpu' \in Cpu /\ kstack' \in [Stack -> Seq(Frame)] /\ FramesOK'
<1>. DEFINE f == [kind |-> "syscall", cpu |-> cpu]
<1>1. f \in Frame /\ esp0 \in Stack /\ kstack \in [Stack -> Seq(Frame)]
  BY DEF TypeInv, TypeOK, Frame
<1>2. kstack' = [kstack EXCEPT ![esp0] = <<f>>]
  BY DEF EnterSyscall
<1>3. <<f>> \in Seq(Frame) /\ Len(<<f>>) = 1 /\ <<f>>[1] = f /\ <<f>> # <<>>
  BY <1>1
<1>4. kstack' \in [Stack -> Seq(Frame)]
  BY <1>1, <1>2, <1>3
<1>5. cpu' \in Cpu /\ cpu'.pc = pc /\ cpu'.stk = esp0
  BY <1>1, AtType
<1>6. FrameOK(f, esp0, 1)
  BY DEF FrameOK, OnStack, KernelPc
<1>7. ASSUME NEW s \in Stack, NEW i \in 1 .. Len(kstack'[s])
      PROVE  FrameOK(kstack'[s][i], s, i)
  <2>1. CASE s = esp0
    <3>1. kstack'[s] = <<f>>
      BY <1>1, <1>2, <2>1
    <3>2. i = 1
      BY <1>3, <3>1
    <3>. QED  BY <1>3, <1>6, <2>1, <3>1, <3>2
  <2>2. CASE s # esp0
    BY <1>1, <1>2, <2>2 DEF TypeInv, FramesOK
  <2>. QED  BY <2>1, <2>2
<1>8. kstack'[cpu'.stk] # <<>> /\ cpu'.pc # "hlt"
  BY <1>1, <1>2, <1>3, <1>5 DEF KernelPc
<1>. QED  BY <1>4, <1>5, <1>7, <1>8 DEF FramesOK, FrameOK

\* Returning through a frame that is on its stack.
LEMMA ResumeOK ==
  ASSUME TypeInv, NEW e \in Esp, e.lvl \in 1 .. Len(kstack[e.stk]), Resume(e)
  PROVE  cpu' \in Cpu /\ kstack' \in [Stack -> Seq(Frame)] /\ FramesOK'
<1>. DEFINE ks == kstack[e.stk]
            f  == ks[e.lvl]
            cut == SubSeq(ks, 1, e.lvl - 1)
<1>1. e.stk \in Stack /\ e.lvl \in Nat /\ kstack \in [Stack -> Seq(Frame)]
  BY DEF TypeInv, TypeOK, Esp
<1>2. ks \in Seq(Frame)
  BY <1>1
<1>3. f \in Frame /\ FrameOK(f, e.stk, e.lvl)
  BY <1>1, <1>2 DEF TypeInv, FramesOK
<1>4. /\ cut \in Seq(Frame)
      /\ Len(cut) = e.lvl - 1
      /\ \A i \in 1 .. e.lvl - 1 : cut[i] = ks[i]
  BY <1>1, <1>2
<1>5. cpu' = f.cpu /\ kstack' = [kstack EXCEPT ![e.stk] = cut]
  BY DEF Resume
<1>6. cpu' \in Cpu /\ kstack' \in [Stack -> Seq(Frame)]
  BY <1>1, <1>3, <1>4, <1>5 DEF Frame
<1>7. ASSUME NEW s \in Stack, NEW i \in 1 .. Len(kstack'[s])
      PROVE  FrameOK(kstack'[s][i], s, i)
  <2>1. CASE s = e.stk
    <3>1. kstack'[s] = cut
      BY <1>1, <1>5, <2>1
    <3>2. i \in 1 .. e.lvl - 1 /\ i \in 1 .. Len(ks)
      BY <1>1, <1>2, <1>4, <3>1
    <3>. QED  BY <1>1, <1>4, <2>1, <3>1, <3>2 DEF TypeInv, FramesOK
  <2>2. CASE s # e.stk
    BY <1>1, <1>5, <2>2 DEF TypeInv, FramesOK
  <2>. QED  BY <2>1, <2>2
<1>8. cpu'.pc \in OnStack => kstack'[cpu'.stk] # <<>>
  <2>. SUFFICES ASSUME cpu'.pc \in OnStack
                PROVE  kstack'[cpu'.stk] # <<>>
    OBVIOUS
  <2>1. cpu'.stk = e.stk /\ e.lvl > 1
    BY <1>3, <1>5 DEF FrameOK
  <2>2. kstack'[cpu'.stk] = cut /\ Len(cut) > 0
    BY <1>1, <1>4, <1>5, <2>1
  <2>. QED  BY <2>2
<1>9. cpu'.pc = "hlt" => cpu'.stk = Boot
  BY <1>3, <1>5 DEF FrameOK
<1>. QED  BY <1>6, <1>7, <1>8, <1>9 DEF FramesOK, FrameOK

\* The innermost frame of the stack that kernel code runs on.
LEMMA InnermostOK ==
  ASSUME TypeInv, cpu.pc \in OnStack
  PROVE  /\ Innermost(cpu.stk) \in Esp
         /\ Innermost(cpu.stk).lvl \in 1 .. Len(kstack[Innermost(cpu.stk).stk])
<1>1. cpu.stk \in Stack /\ kstack[cpu.stk] \in Seq(Frame)
  BY DEF TypeInv, TypeOK, Cpu
<1>2. kstack[cpu.stk] # <<>>
  BY DEF TypeInv, FramesOK
<1>3. Len(kstack[cpu.stk]) \in Nat /\ Len(kstack[cpu.stk]) > 0
  BY <1>1, <1>2
<1>. QED  BY <1>1, <1>3 DEF Innermost, Esp

\* The entry of the timer interrupt, which pushes a frame and continues with
\* kernel code on the same stack.
LEMMA TickOK ==
  ASSUME TypeInv, Interruptible, SaveContext,
         NEW pc \in {"exec_enter", "pit_rotate"}, cpu' = At(pc, IntStack)
  PROVE  /\ cpu' \in Cpu /\ kstack' \in [Stack -> Seq(Frame)] /\ FramesOK'
         /\ task_queue' \in [Cell -> Task]
<1>. DEFINE f == [kind |-> "isr", cpu |-> cpu]
            below == IF cpu.pc = "user" THEN <<>> ELSE kstack[IntStack]
<1>1. f \in Frame /\ IntStack \in Stack /\ kstack \in [Stack -> Seq(Frame)]
  BY DEF TypeInv, TypeOK, Frame, IntStack, Cpu
<1>2. below \in Seq(Frame)
  BY <1>1
<1>3. /\ IntFrames \in Seq(Frame)
      /\ Len(IntFrames) = Len(below) + 1
      /\ IntFrames[Len(below) + 1] = f
      /\ \A i \in 1 .. Len(below) : IntFrames[i] = below[i]
      /\ Len(below) \in Nat
  BY <1>1, <1>2 DEF IntFrames
<1>4. kstack' = [kstack EXCEPT ![IntStack] = IntFrames]
  BY DEF SaveContext
<1>5. kstack' \in [Stack -> Seq(Frame)]
  BY <1>1, <1>3, <1>4
<1>6. cpu' \in Cpu /\ cpu'.pc = pc /\ cpu'.stk = IntStack
  BY <1>1, AtType DEF KernelPc
<1>7. FrameOK(f, IntStack, Len(below) + 1)
  <2>1. cpu.pc \in {"hlt", "user", "read"} \cup PreemptAt
    BY DEF Interruptible
  <2>2. cpu.pc \in OnStack => cpu.stk = IntStack /\ Len(below) + 1 > 1
    <3>. SUFFICES ASSUME cpu.pc \in OnStack
                  PROVE  cpu.stk = IntStack /\ Len(below) + 1 > 1
      OBVIOUS
    <3>1. cpu.pc # "user"
      BY DEF OnStack, KernelPc
    <3>2. cpu.stk = IntStack /\ below = kstack[cpu.stk]
      BY <3>1 DEF IntStack
    <3>3. below # <<>>
      BY <3>2 DEF TypeInv, FramesOK
    <3>. QED  BY <1>2, <3>2, <3>3
  <2>3. cpu.pc = "hlt" => cpu.stk = IntStack /\ IntStack = Boot
    BY DEF TypeInv, FramesOK, IntStack
  <2>. QED  BY <2>1, <2>2, <2>3 DEF FrameOK
<1>8. ASSUME NEW s \in Stack, NEW i \in 1 .. Len(kstack'[s])
      PROVE  FrameOK(kstack'[s][i], s, i)
  <2>1. CASE s = IntStack
    <3>1. kstack'[s] = IntFrames
      BY <1>1, <1>4, <2>1
    <3>2. CASE i = Len(below) + 1
      BY <1>3, <1>7, <2>1, <3>1, <3>2
    <3>3. CASE i # Len(below) + 1
      <4>. HIDE DEF below
      <4>0. i \in 1 .. Len(IntFrames)
        BY <3>1
      <4>1. i \in 1 .. Len(below)
        BY <1>3, <3>3, <4>0
      <4>2. below = kstack[s]
        BY <1>2, <2>1, <4>1 DEF below
      <4>. QED  BY <1>3, <3>1, <4>1, <4>2 DEF TypeInv, FramesOK
    <3>. QED  BY <3>2, <3>3
  <2>2. CASE s # IntStack
    BY <1>1, <1>4, <2>2 DEF TypeInv, FramesOK
  <2>. QED  BY <2>1, <2>2
<1>9. kstack'[cpu'.stk] # <<>> /\ cpu'.pc # "hlt"
  BY <1>1, <1>3, <1>4, <1>6
<1>10. FramesOK'
  BY <1>8, <1>9 DEF FramesOK, FrameOK
<1>11. task_queue' \in [Cell -> Task]
  <2>1. [stk |-> IntStack, lvl |-> Len(IntFrames)] \in Esp
    BY <1>1, <1>3 DEF Esp
  <2>. QED  BY <2>1, Constants DEF SaveContext, TypeInv, TypeOK, Task
<1>. QED  BY <1>5, <1>6, <1>10, <1>11

\* One rotation keeps the queue a queue of tasks.
LEMMA RotateType ==
  ASSUME NEW q \in [Cell -> Task]
  PROVE  Rotate(q) \in [Cell -> Task]
BY PopType, PushType, Constants DEF Rotate

\* TypeOK together with FramesOK is an invariant of every instance, whatever
\* the set of preemption points.
LEMMA TypeInvariance == Spec => []TypeInv
<1>1. Init => TypeInv
  <2>. SUFFICES ASSUME Init PROVE TypeInv
    OBVIOUS
  <2>1. At("hlt", Boot) \in Cpu /\ At("hlt", Boot).pc = "hlt"
        /\ At("hlt", Boot).stk = Boot
    BY AtType, Constants DEF Boot
  <2>2. [s \in Stack |-> <<>>] \in [Stack -> Seq(Frame)]
    OBVIOUS
  <2>3. TypeOK
    BY <2>1, <2>2, Constants DEF Init, TypeOK, Boot
  <2>4. FramesOK
    BY <2>1 DEF Init, FramesOK, OnStack, KernelPc
  <2>. QED  BY <2>3, <2>4 DEF TypeInv
<1>2. TypeInv /\ [Next]_vars => TypeInv'
  <2>. SUFFICES ASSUME TypeInv, [Next]_vars PROVE TypeInv'
    OBVIOUS
  <2>. USE DEF TypeInv
  <2>1. CASE PitSpawn
    <3>1. /\ cpu' \in Cpu /\ kstack' \in [Stack -> Seq(Frame)] /\ FramesOK'
          /\ task_queue' \in [Cell -> Task]
      BY <2>1, TickOK DEF PitSpawn
    <3>. QED  BY <2>1, <3>1 DEF PitSpawn, TypeOK
  <2>2. CASE PitPreempt
    <3>1. /\ cpu' \in Cpu /\ kstack' \in [Stack -> Seq(Frame)] /\ FramesOK'
          /\ task_queue' \in [Cell -> Task]
      BY <2>2, TickOK DEF PitPreempt
    <3>. QED  BY <2>2, <3>1 DEF PitPreempt, TypeOK
  <2>3. CASE PitRotate
    <3>1. task_queue' \in [Cell -> Task]
      BY <2>3, RotateType DEF PitRotate, TypeOK
    <3>2. cpu' \in Cpu /\ cpu'.pc \in {"pit_rotate", "pit_switch"}
      BY <2>3 DEF PitRotate, TypeOK, Cpu
    <3>3. TypeOK'
      BY <2>3, <3>1, <3>2 DEF PitRotate, TypeOK
    <3>4. FramesOK'
      BY <2>3, <3>2 DEF PitRotate, FramesOK, FrameOK, OnStack, KernelPc
    <3>. QED  BY <3>3, <3>4
  <2>4. CASE PitSwitch
    <3>. DEFINE next == task_queue[0]
    <3>1. next \in Task /\ next.pcb \in PcbOrNull /\ next.esp \in Esp
      BY Constants DEF TypeOK, Task
    <3>2. cpu' \in Cpu /\ kstack' \in [Stack -> Seq(Frame)] /\ FramesOK'
      <4>1. CASE next.pcb # NULL /\ Resumable(next.esp)
        <5>1. next.esp.lvl \in 1 .. Len(kstack[next.esp.stk])
          BY <3>1, <4>1 DEF Resumable, TypeOK, Esp
        <5>. QED  BY <2>4, <3>1, <4>1, <5>1, ResumeOK DEF PitSwitch
      <4>2. CASE ~(next.pcb # NULL /\ Resumable(next.esp))
        <5>1. cpu' = At("fault", Boot) /\ kstack' = kstack
          BY <2>4, <4>2 DEF PitSwitch, Fault
        <5>2. cpu' \in Cpu /\ cpu'.pc = "fault"
          BY <5>1, AtType, Constants DEF Boot
        <5>. QED  BY <5>1, <5>2 DEF TypeOK, FramesOK, FrameOK, OnStack, KernelPc
      <4>. QED  BY <4>1, <4>2
    <3>. QED  BY <2>4, <3>1, <3>2, Constants DEF PitSwitch, TypeOK
  <2>5. CASE SysExecute
    <3>1. cpu' \in Cpu /\ kstack' \in [Stack -> Seq(Frame)] /\ FramesOK'
      BY <2>5, TrapOK DEF SysExecute, KernelPc
    <3>. QED  BY <2>5, <3>1 DEF SysExecute, TypeOK
  <2>6. CASE ExecEnter
    <3>1. /\ cpu' \in Cpu /\ cpu'.pc = "exec_load" /\ cpu'.stk = cpu.stk
      BY <2>6, Constants DEF ExecEnter, TypeOK, Cpu, KernelPc
    <3>2. cpu.pc \in OnStack
      BY <2>6 DEF ExecEnter, OnStack, KernelPc
    <3>3. FramesOK'
      BY <2>6, <3>1, <3>2 DEF ExecEnter, FramesOK, FrameOK
    <3>. QED  BY <2>6, <3>1, <3>3 DEF ExecEnter, TypeOK
  <2>7. CASE ExecFail
    <3>1. cpu.pc \in OnStack
      BY <2>7 DEF ExecFail, OnStack, KernelPc
    <3>2. cpu' \in Cpu /\ kstack' \in [Stack -> Seq(Frame)] /\ FramesOK'
      BY <2>7, <3>1, InnermostOK, ResumeOK DEF ExecFail
    <3>. QED  BY <2>7, <3>2 DEF ExecFail, TypeOK
  <2>8. CASE ExecLoad
    <3>1. PICK n \in Pid :
            /\ pde' = [pde EXCEPT ![n] = @ + 1]
            /\ cr3' = n
            /\ cur_pcb' = n
            /\ pcb' = [pcb EXCEPT
                 ![n].parent_pid = n - 1,
                 ![n].con = IF n = 0 THEN 0
                            ELSE IF con_ovr.flag THEN con_ovr.idx
                            ELSE IF cur_pcb # NULL THEN pcb[cur_pcb].con
                            ELSE 0]
            /\ con_ovr' = [con_ovr EXCEPT !.flag = @ /\ n = 0]
            /\ cpu' = [cpu EXCEPT !.pc = "exec_copy", !.child = n]
      BY <2>8 DEF ExecLoad
    <3>2. cpu' \in Cpu /\ cpu'.pc = "exec_copy" /\ cpu'.stk = cpu.stk
      BY <3>1, Constants DEF TypeOK, Cpu, KernelPc
    <3>3. FramesOK'
      BY <2>8, <3>2 DEF ExecLoad, FramesOK, FrameOK, OnStack, KernelPc
    <3>4. pde' \in [Pid -> Int]
      BY <3>1 DEF TypeOK
    <3>5. pcb' \in [Pid -> [parent_pid : PcbOrNull, con : Nat,
                            vidmap_check : BOOLEAN]]
      <4>. DEFINE c == IF n = 0 THEN 0
                       ELSE IF con_ovr.flag THEN con_ovr.idx
                       ELSE IF cur_pcb # NULL THEN pcb[cur_pcb].con
                       ELSE 0
                  new == [pcb[n] EXCEPT !.parent_pid = n - 1, !.con = c]
      <4>1. (cur_pcb # NULL) => cur_pcb \in Pid
        BY DEF TypeOK, PcbOrNull
      <4>2. c \in Nat /\ n - 1 \in PcbOrNull
        BY <4>1, Constants DEF TypeOK
      <4>3. pcb' = [pcb EXCEPT ![n] = new]
        BY <3>1
      <4>. HIDE DEF c
      <4>4. new \in [parent_pid : PcbOrNull, con : Nat, vidmap_check : BOOLEAN]
        BY <4>2 DEF TypeOK
      <4>. QED  BY <4>3, <4>4 DEF TypeOK
    <3>6. con_ovr' \in [idx : Nat, flag : BOOLEAN]
      BY <3>1 DEF TypeOK
    <3>. QED  BY <2>8, <3>1, <3>2, <3>3, <3>4, <3>5, <3>6, Constants
              DEF ExecLoad, TypeOK
  <2>9. CASE ExecCopy
    <3>1. cpu' \in Cpu /\ cpu'.pc = "exec_fill" /\ cpu'.stk = cpu.stk
      BY <2>9 DEF ExecCopy, TypeOK, Cpu, KernelPc
    <3>2. FramesOK'
      BY <2>9, <3>1 DEF ExecCopy, FramesOK, FrameOK, OnStack, KernelPc
    <3>. QED  BY <2>9, <3>1, <3>2 DEF ExecCopy, TypeOK, Cpu
  <2>10. CASE ExecFill
    <3>1. cpu' \in Cpu /\ cpu'.pc = "exec_queue" /\ cpu'.stk = cpu.stk
      BY <2>10 DEF ExecFill, TypeOK, Cpu, KernelPc
    <3>2. FramesOK'
      BY <2>10, <3>1 DEF ExecFill, FramesOK, FrameOK, OnStack, KernelPc
    <3>3. pcb' \in [Pid -> [parent_pid : PcbOrNull, con : Nat,
                            vidmap_check : BOOLEAN]]
      <4>. DEFINE new == [pcb[cur_pcb] EXCEPT !.vidmap_check = FALSE,
                                              !.parent_pid = cpu.parent]
      <4>1. cur_pcb \in Pid /\ cpu.parent \in PcbOrNull
        BY <2>10 DEF ExecFill, TypeOK, PcbOrNull, Cpu
      <4>2. pcb' = [pcb EXCEPT ![cur_pcb] = new]
        BY <2>10, <4>1 DEF ExecFill, TypeOK
      <4>3. new \in [parent_pid : PcbOrNull, con : Nat, vidmap_check : BOOLEAN]
        BY <4>1 DEF TypeOK
      <4>. HIDE DEF new
      <4>. QED  BY <4>1, <4>2, <4>3 DEF TypeOK
    <3>. QED  BY <2>10, <3>1, <3>2, <3>3 DEF ExecFill, TypeOK
  <2>11. CASE ExecQueue
    <3>1. cpu' \in Cpu /\ cpu'.pc = "user"
      BY <2>11, InUserType DEF ExecQueue, TypeOK
    <3>2. FramesOK'
      BY <2>11, <3>1 DEF ExecQueue, FramesOK, FrameOK, OnStack, KernelPc
    <3>3. task_queue' \in [Cell -> Task]
      <4>. DEFINE old == [cpu.temp_cur EXCEPT
                            !.enabled = @ /\ pcb[cur_pcb].parent_pid = NULL]
                  new == [pcb |-> cur_pcb, enabled |-> TRUE, esp |-> NoEsp]
                  q == IF cur_pcb # 0 THEN task_push(task_queue, old)
                       ELSE task_queue
      <4>1. old \in Task
        BY DEF TypeOK, Cpu, Task
      <4>2. new \in Task
        BY Constants DEF TypeOK, Task
      <4>3. q \in [Cell -> Task]
        BY <4>1, PushType DEF TypeOK
      <4>4. task_queue' = [q EXCEPT ![0] = new]
        BY <2>11 DEF ExecQueue
      <4>. QED  BY <4>2, <4>3, <4>4
    <3>. QED  BY <2>11, <3>1, <3>2, <3>3, Constants DEF ExecQueue, TypeOK
  <2>12. CASE HaltRestart
    <3>1. cpu' \in Cpu /\ cpu'.pc = "user"
      BY <2>12, InUserType DEF HaltRestart, TypeOK
    <3>2. FramesOK'
      BY <2>12, <3>1 DEF HaltRestart, FramesOK, FrameOK, OnStack, KernelPc
    <3>. QED  BY <2>12, <3>1, <3>2 DEF HaltRestart, TypeOK
  <2>13. CASE HaltClear
    <3>1. cpu' \in Cpu /\ kstack' \in [Stack -> Seq(Frame)] /\ FramesOK'
      BY <2>13, TrapOK DEF HaltClear, KernelPc
    <3>. QED  BY <2>13, <3>1 DEF HaltClear, TypeOK
  <2>14. CASE HaltPaging
    <3>1. CASE pcb[cur_pcb].parent_pid = NULL
      <4>1. cpu' \in Cpu /\ cpu'.pc = "fault"
        BY <2>14, <3>1, AtType, Constants DEF HaltPaging, Fault, Boot
      <4>2. FramesOK'
        BY <2>14, <4>1 DEF HaltPaging, FramesOK, FrameOK, OnStack, KernelPc
      <4>. QED  BY <2>14, <3>1, <4>1, <4>2 DEF HaltPaging, TypeOK
    <3>2. CASE pcb[cur_pcb].parent_pid # NULL
      <4>1. cpu' \in Cpu /\ cpu'.pc = "halt_switch" /\ cpu'.stk = cpu.stk
        BY <2>14, <3>2 DEF HaltPaging, TypeOK, Cpu, KernelPc
      <4>2. FramesOK'
        BY <2>14, <4>1 DEF HaltPaging, FramesOK, FrameOK, OnStack, KernelPc
      <4>3. cur_pcb \in Pid
        BY <2>14 DEF HaltPaging, TypeOK, PcbOrNull
      <4>4. cr3' \in PcbOrNull /\ pde' \in [Pid -> Int]
        BY <2>14, <3>2, <4>3 DEF HaltPaging, TypeOK
      <4>. QED  BY <2>14, <4>1, <4>2, <4>4 DEF HaltPaging, TypeOK
    <3>. QED  BY <3>1, <3>2
  <2>15. CASE HaltSwitch
    <3>1. cpu' \in Cpu /\ cpu'.pc = "halt_queue" /\ cpu'.stk = cpu.stk
      BY <2>15 DEF HaltSwitch, TypeOK, Cpu, KernelPc
    <3>2. FramesOK'
      BY <2>15, <3>1 DEF HaltSwitch, FramesOK, FrameOK, OnStack, KernelPc
    <3>3. cur_pcb \in Pid
      BY <2>15 DEF HaltSwitch, TypeOK, PcbOrNull
    <3>. QED  BY <2>15, <3>1, <3>2, <3>3, Constants DEF HaltSwitch, TypeOK
  <2>16. CASE HaltQueue
    <3>1. task_queue' \in [Cell -> Task]
      <4>. DEFINE parent == task_grab(task_queue, cur_pcb, NoEsp)
      <4>1. parent \in Task
        BY GrabType DEF TypeOK
      <4>2. task_pop(task_queue, parent.pcb) \in [Cell -> Task]
        BY PopType DEF TypeOK
      <4>3. task_queue' = [task_pop(task_queue, parent.pcb) EXCEPT ![0] = parent]
        BY <2>16 DEF HaltQueue
      <4>. QED  BY <4>1, <4>2, <4>3
    <3>2. cpu' \in Cpu /\ cpu'.pc \in {"user", "fault"}
      <4>1. CASE kstack[0] # <<>> /\ kstack[0][1].kind = "syscall"
        <5>1. kstack[0] \in Seq(Frame) /\ 0 \in Stack
          BY Constants DEF TypeOK
        <5>2. 1 \in 1 .. Len(kstack[0]) /\ kstack[0][1] \in Frame
          BY <4>1, <5>1
        <5>3. FrameOK(kstack[0][1], 0, 1)
          BY <5>1, <5>2 DEF FramesOK
        <5>. QED  BY <2>16, <4>1, <5>2, <5>3
                  DEF HaltQueue, ExecRet, FrameOK, Frame
      <4>2. CASE ~(kstack[0] # <<>> /\ kstack[0][1].kind = "syscall")
        BY <2>16, <4>2, AtType, Constants DEF HaltQueue, ExecRet, Fault, Boot
      <4>. QED  BY <4>1, <4>2
    <3>3. FramesOK'
      BY <2>16, <3>2 DEF HaltQueue, FramesOK, FrameOK, OnStack, KernelPc
    <3>. QED  BY <2>16, <3>1, <3>2, <3>3 DEF HaltQueue, TypeOK
  <2>17. CASE Vidmap
    <3>1. FramesOK'
      BY <2>17 DEF Vidmap, FramesOK, FrameOK
    <3>. QED  BY <2>17, <3>1 DEF Vidmap, TypeOK
  <2>18. CASE SysRead
    <3>1. cpu' \in Cpu /\ kstack' \in [Stack -> Seq(Frame)] /\ FramesOK'
      BY <2>18, TrapOK DEF SysRead
    <3>. QED  BY <2>18, <3>1 DEF SysRead, TypeOK
  <2>19. CASE ReadReturn
    <3>1. cpu.pc \in OnStack
      BY <2>19 DEF ReadReturn, OnStack
    <3>2. cpu' \in Cpu /\ kstack' \in [Stack -> Seq(Frame)] /\ FramesOK'
      BY <2>19, <3>1, InnermostOK, ResumeOK DEF ReadReturn
    <3>. QED  BY <2>19, <3>2 DEF ReadReturn, TypeOK
  <2>20. CASE UNCHANGED vars
    BY <2>20 DEF vars, TypeOK, FramesOK, FrameOK
  <2>. QED
    BY <2>1, <2>2, <2>3, <2>4, <2>5, <2>6, <2>7, <2>8, <2>9, <2>10, <2>11,
       <2>12, <2>13, <2>14, <2>15, <2>16, <2>17, <2>18, <2>19, <2>20
       DEF Next, Execute, Halt, Pit, Spin
<1>. QED  BY <1>1, <1>2, PTL DEF Spec

\* Every variable of the kernel model keeps its type: no operation of the
\* queue, no PCB access and no page-directory index leaves its table.
THEOREM TypeCorrect == Spec => []TypeOK
BY TypeInvariance, PTL DEF TypeInv

-----------------------------------------------------------------------------
(* The contents of a queue *)

\* The occupied cells come first and hold different processes.
Packed(q) ==
  \A i, j \in Cell : i < j /\ Occupied(q, j) =>
    Occupied(q, i) /\ q[i].pcb # q[j].pcb

Tasks(q) == {q[i] : i \in {j \in Cell : Occupied(q, j)}}

\* The first cell is the least one.
LEMMA Cells ==
  /\ Cell \subseteq Nat /\ 0 \in Cell /\ MAX_PROCESS - 1 \in Cell
  /\ \A i \in Cell : i <= MAX_PROCESS - 1 /\ (i # MAX_PROCESS - 1 => i + 1 \in Cell)
  /\ \A i \in Cell : i # 0 => i - 1 \in Cell
  /\ Pid = Cell /\ NULL \notin Pid /\ NULL = Boot
BY MaxProcessAssumption DEF Cell, Pid, NULL, Boot

\* A queue with an empty cell has a first one, and it is the only one at which
\* a push stops.
LEMMA FirstFreeExists ==
  ASSUME NEW q, NEW e \in Cell, ~Occupied(q, e)
  PROVE  \E k \in Cell : FirstFree(q, k)
<1> DEFINE E == {i \in Cell : ~Occupied(q, i)}
<1>1. E \in SUBSET Cell /\ E # {}
  OBVIOUS
<1>2. PICK k \in E : \A j \in E : k <= j
  BY <1>1, LeastCell
<1>3. \A j \in Cell : j < k => Occupied(q, j)
  BY <1>2, Cells
<1> QED
  BY <1>2, <1>3 DEF FirstFree

\* task_push adds its task and keeps the queue packed.
LEMMA PushContents ==
  ASSUME NEW q \in [Cell -> Task], Packed(q), NEW t \in Task, t.pcb # NULL,
         ~InQueue(q, t.pcb), NEW k \in Cell, FirstFree(q, k)
  PROVE  /\ Packed(task_push(q, t))
         /\ Tasks(task_push(q, t)) = Tasks(q) \cup {t}
         /\ Occupied(q, 0) => task_push(q, t)[0] = q[0]
<1> DEFINE r == task_push(q, t)
<1>1. \A i \in Cell : Occupied(q, i) <=> i < k
  BY Cells DEF FirstFree, Packed
<1>2. \A i \in Cell : FirstFree(q, i) <=> i = k
  BY <1>1, Cells DEF FirstFree
<1>3. r = [i \in Cell |-> IF i = k THEN t ELSE q[i]]
  BY <1>2 DEF task_push
<1> HIDE DEF r
<1>4. r[k] = t /\ \A i \in Cell : i # k => r[i] = q[i]
  BY <1>3
<1>5. \A i \in Cell : Occupied(r, i) <=> i <= k
  BY <1>1, <1>4, Cells DEF Occupied
<1>6. \A i \in Cell : q[i].pcb # t.pcb
  BY DEF InQueue
<1>7. Packed(r)
  <2> SUFFICES ASSUME NEW i \in Cell, NEW j \in Cell, i < j, Occupied(r, j)
               PROVE  Occupied(r, i) /\ r[i].pcb # r[j].pcb
    BY DEF Packed
  <2>1. i \in Nat /\ j \in Nat /\ k \in Nat
    BY Cells
  <2>2. j <= k /\ i < k
    BY <1>5, <2>1
  <2>3. Occupied(r, i) /\ r[i] = q[i]
    BY <1>4, <1>5, <2>1, <2>2
  <2>4. CASE j = k
    BY <1>4, <1>6, <2>3, <2>4
  <2>5. CASE j # k
    <3>1. Occupied(q, j) /\ r[j] = q[j]
      BY <1>1, <1>4, <2>1, <2>2, <2>5
    <3> QED
      BY <2>3, <3>1 DEF Packed
  <2> QED
    BY <2>4, <2>5
<1>8. Tasks(r) = Tasks(q) \cup {t}
  <2>1. ASSUME NEW u \in Tasks(r) PROVE u \in Tasks(q) \cup {t}
    <3>1. PICK i \in Cell : Occupied(r, i) /\ u = r[i]
      BY DEF Tasks
    <3>2. i # k => Occupied(q, i) /\ u = q[i]
      BY <1>1, <1>4, <1>5, <3>1, Cells
    <3> QED
      BY <1>4, <3>1, <3>2 DEF Tasks
  <2>2. t \in Tasks(r)
    BY <1>4, <1>5, Cells DEF Tasks
  <2>3. ASSUME NEW u \in Tasks(q) PROVE u \in Tasks(r)
    <3>1. PICK i \in Cell : Occupied(q, i) /\ u = q[i]
      BY DEF Tasks
    <3>2. i # k /\ i <= k
      BY <1>1, <3>1, Cells
    <3>3. Occupied(r, i) /\ r[i] = u
      BY <1>4, <1>5, <3>1, <3>2
    <3> QED
      BY <3>3 DEF Tasks
  <2> QED
    BY <2>1, <2>2, <2>3
<1>9. Occupied(q, 0) => r[0] = q[0]
  BY <1>1, <1>4, Cells
<1> QED
  BY <1>7, <1>8, <1>9 DEF r

\* task_pop removes the task of one process and leaves no hole.
LEMMA PopContents ==
  ASSUME NEW q \in [Cell -> Task], Packed(q), NEW k \in Cell, Occupied(q, k)
  PROVE  LET r == task_pop(q, q[k].pcb)
         IN  /\ Packed(r)
             /\ Tasks(r) = {u \in Tasks(q) : u.pcb # q[k].pcb}
             /\ ~Occupied(r, MAX_PROCESS - 1)
             /\ k # 0 => r[0] = q[0]
<1> DEFINE p == q[k].pcb
           r == task_pop(q, p)
           last == MAX_PROCESS - 1
<1>1. \A i \in Cell : q[i].pcb = p <=> i = k
  BY Cells DEF Packed, Occupied
<1>2. \A i \in Cell : AtOrAfter(q, p, i) <=> k <= i
  BY <1>1 DEF AtOrAfter
<1>3. /\ \A i \in Cell : i < k => r[i] = q[i]
      /\ \A i \in Cell : k <= i /\ i # last => r[i] = q[i + 1]
      /\ r[last] = IF k <= last THEN [q[last] EXCEPT !.pcb = NULL] ELSE q[last]
  BY <1>2, Cells DEF task_pop
<1>4. k <= last /\ k \in Nat /\ last \in Nat
  BY Cells
<1>5. ~Occupied(r, last)
  BY <1>3, <1>4, Cells DEF Occupied, Task
<1> HIDE DEF p, r, last
<1>6. \A i \in Cell : i # last => i + 1 \in Cell /\ i < last
  <2>1. \A i \in Cell : i \in Nat /\ i <= last /\ (i # last => i + 1 \in Cell)
    BY Cells DEF last
  <2> QED
    BY <1>4, <2>1
<1>7. Packed(r)
  <2> SUFFICES ASSUME NEW i \in Cell, NEW j \in Cell, i < j, Occupied(r, j)
               PROVE  Occupied(r, i) /\ r[i].pcb # r[j].pcb
    BY DEF Packed
  <2>1. i \in Nat /\ j \in Nat
    BY Cells
  <2>2. i # last /\ j # last
    BY <1>5, <1>6, <2>1, <1>4
  <2> DEFINE Src(m) == IF m < k THEN m ELSE m + 1
  <2>3. Src(i) \in Cell /\ Src(j) \in Cell /\ Src(i) < Src(j)
    BY <1>4, <1>6, <2>1, <2>2
  <2>4. r[i] = q[Src(i)] /\ r[j] = q[Src(j)]
    BY <1>3, <1>4, <2>1, <2>2
  <2> HIDE DEF Src
  <2> QED
    BY <2>3, <2>4 DEF Packed, Occupied
<1>8. Tasks(r) = {u \in Tasks(q) : u.pcb # p}
  <2>1. ASSUME NEW u \in Tasks(r) PROVE u \in Tasks(q) /\ u.pcb # p
    <3>1. PICK i \in Cell : Occupied(r, i) /\ u = r[i]
      BY DEF Tasks
    <3>2. i # last /\ i \in Nat
      BY <1>5, <3>1, Cells
    <3> DEFINE m == IF i < k THEN i ELSE i + 1
    <3>3. m \in Cell /\ m # k /\ r[i] = q[m]
      BY <1>3, <1>4, <1>6, <3>2
    <3> HIDE DEF m
    <3> QED
      BY <1>1, <3>1, <3>3 DEF Tasks, Occupied
  <2>2. ASSUME NEW u \in Tasks(q), u.pcb # p PROVE u \in Tasks(r)
    <3>1. PICK i \in Cell : Occupied(q, i) /\ u = q[i]
      BY DEF Tasks
    <3>2. i # k /\ i \in Nat /\ i <= last
      BY <1>1, <2>2, <3>1, Cells DEF last
    <3>3. CASE i < k
      BY <1>3, <3>1, <3>3 DEF Tasks, Occupied
    <3>4. CASE i > k
      <4>1. i - 1 \in Cell /\ k <= i - 1 /\ i - 1 # last /\ (i - 1) + 1 = i
        BY <1>4, <3>2, <3>4, Cells
      <4>2. r[i - 1] = q[i]
        BY <1>3, <4>1
      <4> QED
        BY <3>1, <4>1, <4>2 DEF Tasks, Occupied
    <3> QED
      BY <1>4, <3>2, <3>3, <3>4
  <2> QED
    BY <2>1, <2>2
<1>9. k # 0 => r[0] = q[0]
  BY <1>3, <1>4, Cells
<1> QED
  BY <1>5, <1>7, <1>8, <1>9 DEF p, r, last

\* One turn of the loop in pit_interrupt loses nobody.
LEMMA RotateContents ==
  ASSUME NEW q \in [Cell -> Task], Packed(q), Occupied(q, 0)
  PROVE  /\ Packed(Rotate(q)) /\ Tasks(Rotate(q)) = Tasks(q)
         /\ Occupied(Rotate(q), 0)
<1> DEFINE t == q[0]
           r == task_pop(q, t.pcb)
           s == task_push(r, t)
<1>1. 0 \in Cell /\ MAX_PROCESS - 1 \in Cell
  BY Cells
<1>2. t \in Task /\ t.pcb # NULL /\ t \in Tasks(q) /\ r \in [Cell -> Task]
  BY <1>1, PopType DEF Occupied, Tasks
<1>3. /\ Packed(r) /\ Tasks(r) = {u \in Tasks(q) : u.pcb # t.pcb}
      /\ ~Occupied(r, MAX_PROCESS - 1)
  BY <1>1, PopContents
<1> HIDE DEF r
<1>4. ~InQueue(r, t.pcb)
  BY <1>2, <1>3 DEF InQueue, Tasks, Occupied
<1>5. PICK k \in Cell : FirstFree(r, k)
  BY <1>1, <1>3, FirstFreeExists
<1>6. Packed(s) /\ Tasks(s) = Tasks(r) \cup {t}
  BY <1>2, <1>3, <1>4, <1>5, PushContents
<1>7. ASSUME NEW u \in Tasks(q), u.pcb = t.pcb PROVE u = t
  <2>1. PICK i \in Cell : u = q[i] /\ Occupied(q, i)
    BY DEF Tasks
  <2>2. i = 0
    BY <1>1, <1>7, <2>1, Cells DEF Packed
  <2> QED
    BY <2>1, <2>2
<1>8. Tasks(s) = Tasks(q)
  BY <1>2, <1>3, <1>6, <1>7
<1> HIDE DEF s
<1>9. Occupied(s, 0)
  <2>1. PICK i \in Cell : Occupied(s, i)
    BY <1>2, <1>8 DEF Tasks
  <2> QED
    BY <1>1, <1>6, <2>1, Cells DEF Packed
<1> QED
  BY <1>6, <1>8, <1>9 DEF Rotate, r, s

\* A packed queue without process n has an empty cell: task_push finds it.
LEMMA RoomFor ==
  ASSUME NEW q \in [Cell -> Task], Packed(q), NEW n \in Pid, ~InQueue(q, n)
  PROVE  \E k \in Cell : FirstFree(q, k)
<1>1. \E e \in Cell : ~Occupied(q, e)
  <2> SUFFICES ASSUME \A e \in Cell : Occupied(q, e) PROVE FALSE
    OBVIOUS
  <2> DEFINE f == [i \in Cell |-> q[i].pcb]
             T == Pid \ {n}
  <2>1. f \in [Cell -> T]
    BY DEF Occupied, InQueue, Task, PcbOrNull
  <2>2. IsFiniteSet(Cell) /\ IsFiniteSet(Pid)
        /\ Cardinality(Cell) = MAX_PROCESS /\ Cardinality(Pid) = MAX_PROCESS
    BY FS_Interval, MaxProcessAssumption DEF Cell, Pid
  <2>3. IsFiniteSet(T) /\ Cardinality(T) = MAX_PROCESS - 1
    BY <2>2, FS_RemoveElement
  <2>4. Cardinality(T) < Cardinality(Cell)
    BY <2>2, <2>3, MaxProcessAssumption
  <2> HIDE DEF f, T
  <2>5. PICK i, j \in Cell : i # j /\ f[i] = f[j]
    BY <2>1, <2>2, <2>3, <2>4, FS_PigeonHole
  <2>6. q[i].pcb = q[j].pcb
    BY <2>5 DEF f
  <2>7. i < j \/ j < i
    BY <2>5, Cells
  <2> QED
    BY <2>6, <2>7 DEF Packed
<1> QED
  BY <1>1, FirstFreeExists

\* Putting a task of a process that is not in the queue into cell 0.
LEMMA ReplaceFront ==
  ASSUME NEW q \in [Cell -> Task], Packed(q), NEW h \in Task, h.pcb # NULL,
         ~InQueue(q, h.pcb)
  PROVE  LET r == [q EXCEPT ![0] = h]
         IN  /\ Packed(r) /\ r \in [Cell -> Task] /\ r[0] = h
             /\ Tasks(r) = {u \in Tasks(q) : u.pcb # q[0].pcb} \cup {h}
             /\ \A i \in Cell : i # 0 => r[i] = q[i]
<1> DEFINE r == [q EXCEPT ![0] = h]
<1>1. 0 \in Cell /\ \A i \in Cell : i # 0 => 0 < i
  BY Cells
<1>2. r \in [Cell -> Task] /\ r[0] = h /\ \A i \in Cell : i # 0 => r[i] = q[i]
  BY <1>1
<1>3. \A i \in Cell : q[i].pcb # h.pcb
  BY DEF InQueue
<1> HIDE DEF r
<1>4. Packed(r)
  <2> SUFFICES ASSUME NEW i \in Cell, NEW j \in Cell, i < j, Occupied(r, j)
               PROVE  Occupied(r, i) /\ r[i].pcb # r[j].pcb
    BY DEF Packed
  <2>1. j # 0
    BY Cells
  <2>2. r[j] = q[j] /\ Occupied(q, j)
    BY <1>2, <2>1 DEF Occupied
  <2>3. CASE i = 0
    BY <1>2, <1>3, <2>2, <2>3 DEF Occupied
  <2>4. CASE i # 0
    BY <1>2, <2>2, <2>4 DEF Packed, Occupied
  <2> QED
    BY <2>3, <2>4
<1>5. \A i \in Cell : i # 0 /\ Occupied(q, i) => q[i].pcb # q[0].pcb
  BY <1>1 DEF Packed
<1>6. Tasks(r) = {u \in Tasks(q) : u.pcb # q[0].pcb} \cup {h}
  <2>1. ASSUME NEW u \in Tasks(r) PROVE u = h \/ (u \in Tasks(q) /\ u.pcb # q[0].pcb)
    <3>1. PICK i \in Cell : Occupied(r, i) /\ u = r[i]
      BY DEF Tasks
    <3>2. i = 0 => u = h
      BY <1>2, <3>1
    <3>3. i # 0 => Occupied(q, i) /\ u = q[i]
      BY <1>2, <3>1 DEF Occupied
    <3> QED
      BY <1>5, <3>2, <3>3 DEF Tasks
  <2>2. h \in Tasks(r)
    BY <1>1, <1>2 DEF Tasks, Occupied
  <2>3. ASSUME NEW u \in Tasks(q), u.pcb # q[0].pcb PROVE u \in Tasks(r)
    <3>1. PICK i \in Cell : Occupied(q, i) /\ u = q[i]
      BY DEF Tasks
    <3>2. i # 0
      BY <2>3, <3>1
    <3> QED
      BY <1>2, <3>1, <3>2 DEF Tasks, Occupied
  <2> QED
    BY <2>1, <2>2, <2>3
<1> QED
  BY <1>2, <1>4, <1>6 DEF r

\* A process is in a queue if and only if one of its tasks is that process's.
LEMMA InTasks ==
  ASSUME NEW q, NEW p, p # NULL
  PROVE  InQueue(q, p) <=> \E u \in Tasks(q) : u.pcb = p
BY DEF InQueue, Tasks, Occupied

\* execute writes the new task into cell 0 after it has pushed the old one;
\* the order does not matter.
LEMMA PushThenReplace ==
  ASSUME NEW q \in [Cell -> Task], Occupied(q, 0), NEW h \in Task, h.pcb # NULL,
         NEW t \in Task
  PROVE  [task_push(q, t) EXCEPT ![0] = h] = task_push([q EXCEPT ![0] = h], t)
<1> DEFINE r == [q EXCEPT ![0] = h]
<1>1. 0 \in Cell
  BY Cells
<1>2. r[0] = h /\ r \in [Cell -> Task] /\ \A i \in Cell : i # 0 => r[i] = q[i]
  BY <1>1
<1> HIDE DEF r
<1>3. \A i \in Cell : Occupied(r, i) <=> Occupied(q, i)
  BY <1>2 DEF Occupied
<1>4. \A i \in Cell : FirstFree(r, i) <=> FirstFree(q, i)
  BY <1>3 DEF FirstFree
<1>5. ~FirstFree(q, 0)
  BY DEF FirstFree
<1>6. \A i \in Cell : [task_push(q, t) EXCEPT ![0] = h][i] = task_push(r, t)[i]
  BY <1>1, <1>2, <1>4, <1>5 DEF task_push
<1> QED
  BY <1>6 DEF task_push, r

-----------------------------------------------------------------------------
(* The inductive invariant *)

Queued == {t.pcb : t \in Tasks(task_queue)}
Asleep == {t.pcb : t \in {u \in Tasks(task_queue) : ~u.enabled}}
Alive  == {p \in Pid : Present(p)}
Front  == task_queue[0]

\* The kernel's shared state is as between two system calls; execute is
\* creating a process; halt is ending one; pit_interrupt is switching.
QuietPc == {"hlt", "user", "read"} \cup SafePoints
BirthPc == {"exec_copy", "exec_fill", "exec_queue"}
EndPc   == {"halt_switch", "halt_queue"}
PitPc   == {"pit_rotate", "pit_switch"}

\* A saved stack pointer is on the process's own stack or was never assigned.
EspFits(t) == t.esp.stk = t.pcb \/ t.esp.lvl = 0

\* The locals of an execute that runs on the stack of process s.
LocalsFit(c, s) ==
  /\ c.temp_cur.pcb = s /\ c.temp_cur.enabled
  /\ s # NULL => EspFits(c.temp_cur)
  /\ c.parent \in {NULL, s}

\* The CPU, or a frame with its registers, belongs to process s.
CpuOf(c, s) ==
  /\ c.pc \in QuietPc
  /\ c.pc \in OnStack => c.stk = s
  /\ c.pc = "hlt" => s = NULL
  /\ c.pc \in {"user", "read", "halt_paging"} => s # NULL
  /\ c.pc = "exec_load" => LocalsFit(c, s)

\* Every frame on the stack of a process belongs to that process.
FramesInv ==
  \A s \in Stack : \A i \in 1 .. Len(kstack[s]) : CpuOf(kstack[s][i].cpu, s)

\* A process sleeps if and only if it has a child; it has one at most; the
\* parent of a process is there; process 0 is there as soon as anyone is, and
\* has no parent.
Family ==
  /\ \A p \in Queued : p \in Asleep <=> \E c \in Queued : pcb[c].parent_pid = p
  /\ \A p \in Queued : pcb[p].parent_pid \in {NULL} \cup (Queued \ {p})
  /\ \A p, q \in Queued : pcb[p].parent_pid = pcb[q].parent_pid =>
       pcb[p].parent_pid = NULL \/ p = q
  /\ Queued # {} => 0 \in Queued /\ pcb[0].parent_pid = NULL

DataInv ==
  /\ pde \in [Pid -> {0, 1}]
  /\ \A t \in Tasks(task_queue) : EspFits(t)
  /\ \A p \in Queued : image[p] = p
  /\ Family

QuietInv ==
  /\ cur_pcb = Front.pcb /\ cr3 = Front.pcb /\ esp0 = Front.pcb
  /\ Front.enabled
  /\ Alive = Queued
  /\ CpuOf(cpu, Front.pcb)

PitInv ==
  /\ Front.pcb # NULL
  /\ cpu.pc = "pit_switch" => Front.enabled
  /\ Alive = Queued

BirthInv ==
  /\ cpu.child \in Pid /\ cpu.child \notin Queued
  /\ Alive = Queued \cup {cpu.child}
  /\ cur_pcb = cpu.child /\ cr3 = cpu.child
  /\ cpu.child = 0 <=> Front.pcb = NULL
  /\ Front.enabled /\ LocalsFit(cpu, Front.pcb)
  /\ cpu.pc \in {"exec_fill", "exec_queue"} => image[cpu.child] = cpu.child
  /\ cpu.pc = "exec_queue" => pcb[cpu.child].parent_pid = cpu.parent

EndInv ==
  /\ Front.pcb # NULL /\ Front.enabled
  /\ Alive = Queued \ {Front.pcb}
  /\ cr3 = pcb[Front.pcb].parent_pid /\ cr3 # NULL
  /\ cpu.pc = "halt_switch" => cur_pcb = Front.pcb
  /\ cpu.pc = "halt_queue" => cur_pcb = cr3 /\ esp0 = cr3

PhaseInv ==
  /\ cpu.pc \in QuietPc => QuietInv
  /\ cpu.pc \in PitPc => PitInv
  /\ cpu.pc \in BirthPc => BirthInv
  /\ cpu.pc \in EndPc => EndInv

KernelInv ==
  /\ Packed(task_queue)
  /\ cpu.pc # "fault" => FramesInv /\ DataInv /\ PhaseInv

-----------------------------------------------------------------------------
(* Consequences of the parts *)

\* The phases are different program points.
LEMMA Phases ==
  /\ "fault" \notin QuietPc \cup BirthPc \cup EndPc \cup PitPc
  /\ QuietPc \cap (BirthPc \cup EndPc \cup PitPc) = {}
  /\ BirthPc \cap (EndPc \cup PitPc) = {} /\ EndPc \cap PitPc = {}
BY DEF QuietPc, BirthPc, EndPc, PitPc, SafePoints

\* The front of a packed queue.
LEMMA FrontFacts ==
  ASSUME TypeInv, Packed(task_queue)
  PROVE  /\ Front \in Task /\ Front.pcb \in PcbOrNull /\ Queued \subseteq Pid
         /\ Front.pcb = NULL => Queued = {}
         /\ Front.pcb # NULL => /\ Front \in Tasks(task_queue)
                                /\ Front.pcb \in Queued /\ Front.pcb \in Pid
         /\ Front.pcb # NULL /\ Front.enabled => Front.pcb \notin Asleep
<1>1. task_queue \in [Cell -> Task] /\ 0 \in Cell
  BY Cells DEF TypeInv, TypeOK
<1>2. Front \in Task /\ Front.pcb \in PcbOrNull
  BY <1>1 DEF Front, Task
<1>3. Queued \subseteq Pid
  BY <1>1 DEF Queued, Tasks, Task, Occupied, PcbOrNull
<1>4. Front.pcb = NULL => Queued = {}
  <2>1. \A j \in Cell : j # 0 => 0 < j
    BY Cells
  <2> QED
    BY <1>1, <2>1 DEF Front, Queued, Tasks, Packed, Occupied
<1>5. Front.pcb # NULL => Front \in Tasks(task_queue)
  BY <1>1 DEF Front, Tasks, Occupied
<1>6. Front.pcb # NULL /\ Front.enabled => Front.pcb \notin Asleep
  <2> SUFFICES ASSUME Front.pcb # NULL, Front.pcb \in Asleep
               PROVE  ~Front.enabled
    OBVIOUS
  <2>1. PICK u \in Tasks(task_queue) : ~u.enabled /\ u.pcb = Front.pcb
    BY DEF Asleep
  <2>2. PICK i \in Cell : Occupied(task_queue, i) /\ u = task_queue[i]
    BY <2>1 DEF Tasks
  <2>3. i = 0
    BY <1>1, <2>1, <2>2, Cells DEF Packed, Front
  <2> QED
    BY <2>1, <2>2, <2>3 DEF Front
<1> QED
  BY <1>2, <1>3, <1>4, <1>5, <1>6 DEF Queued, PcbOrNull

\* A page directory is in use if its entry is 1.
LEMMA PresentIs ==
  ASSUME pde \in [Pid -> {0, 1}], NEW p \in Pid
  PROVE  Present(p) <=> pde[p] = 1
<1>1. pde[p] \in {0, 1}
  OBVIOUS
<1>2. CASE pde[p] = 0
  BY <1>2 DEF Present
<1>3. CASE pde[p] = 1
  BY <1>3 DEF Present
<1> QED
  BY <1>1, <1>2, <1>3

\* What a step leaves alone.
LEMMA DataKept ==
  ASSUME DataInv, Queued' = Queued, Asleep' = Asleep, pde' \in [Pid -> {0, 1}],
         \A t \in Tasks(task_queue)' : EspFits(t),
         \A p \in Queued : pcb'[p].parent_pid = pcb[p].parent_pid,
         \A p \in Queued : image'[p] = image[p]
  PROVE  DataInv'
<1>1. Family'
  <2>1. 0 \in Queued => pcb'[0].parent_pid = pcb[0].parent_pid
    OBVIOUS
  <2> QED
    BY <2>1 DEF DataInv, Family
<1> QED
  BY <1>1 DEF DataInv, EspFits

\* The same for a step that does not write the queue.
LEMMA QueueKept ==
  ASSUME DataInv, task_queue' = task_queue, pde' \in [Pid -> {0, 1}],
         \A p \in Queued : pcb'[p].parent_pid = pcb[p].parent_pid,
         \A p \in Queued : image'[p] = image[p]
  PROVE  DataInv' /\ Queued' = Queued /\ Asleep' = Asleep /\ Front' = Front
<1>1. Tasks(task_queue)' = Tasks(task_queue)
  BY DEF Tasks, Occupied
<1>2. Queued' = Queued /\ Asleep' = Asleep /\ Front' = Front
  BY <1>1 DEF Queued, Asleep, Front
<1> QED
  BY <1>1, <1>2, DataKept DEF DataInv

-----------------------------------------------------------------------------
(* Frames *)

\* A return through a frame of the stack of process s gives the CPU to s.
LEMMA ResumeQuiet ==
  ASSUME TypeInv, FramesInv, NEW e \in Esp,
         e.lvl \in 1 .. Len(kstack[e.stk]), Resume(e)
  PROVE  CpuOf(cpu', e.stk) /\ FramesInv'
<1> DEFINE ks  == kstack[e.stk]
           cut == SubSeq(ks, 1, e.lvl - 1)
<1>1. e.stk \in Stack /\ e.lvl \in Nat /\ kstack \in [Stack -> Seq(Frame)]
  BY DEF TypeInv, TypeOK, Esp
<1>2. ks \in Seq(Frame)
  BY <1>1
<1>3. CpuOf(ks[e.lvl].cpu, e.stk)
  BY <1>1 DEF FramesInv
<1>4. Len(cut) = e.lvl - 1 /\ \A i \in 1 .. e.lvl - 1 : cut[i] = ks[i]
  BY <1>1, <1>2
<1>5. cpu' = ks[e.lvl].cpu /\ kstack' = [kstack EXCEPT ![e.stk] = cut]
  BY DEF Resume
<1>6. ASSUME NEW s \in Stack, NEW i \in 1 .. Len(kstack'[s])
      PROVE  CpuOf(kstack'[s][i].cpu, s)
  <2>1. CASE s = e.stk
    <3>1. kstack'[s] = cut
      BY <1>1, <1>5, <2>1
    <3>2. i \in 1 .. e.lvl - 1 /\ i \in 1 .. Len(ks)
      BY <1>1, <1>2, <1>4, <3>1
    <3> QED
      BY <1>1, <1>4, <2>1, <3>1, <3>2 DEF FramesInv
  <2>2. CASE s # e.stk
    BY <1>1, <1>5, <2>2 DEF FramesInv
  <2> QED
    BY <2>1, <2>2
<1>7. FramesInv'
  BY <1>6 DEF FramesInv, CpuOf, LocalsFit, EspFits
<1> QED
  BY <1>3, <1>5, <1>7

\* Replacing the frames of one stack by frames of its own process.
LEMMA FramesPushed ==
  ASSUME TypeInv, FramesInv, NEW s \in Stack, NEW fs \in Seq(Frame),
         kstack' = [kstack EXCEPT ![s] = fs],
         \A i \in 1 .. Len(fs) : CpuOf(fs[i].cpu, s)
  PROVE  FramesInv'
<1>1. kstack \in [Stack -> Seq(Frame)]
  BY DEF TypeInv, TypeOK
<1>2. kstack'[s] = fs /\ \A r \in Stack : r # s => kstack'[r] = kstack[r]
  BY <1>1
<1>3. \A r \in Stack : \A i \in 1 .. Len(kstack'[r]) : CpuOf(kstack'[r][i].cpu, r)
  <2> TAKE r \in Stack
  <2>1. CASE r = s
    BY <1>2, <2>1
  <2>2. CASE r # s
    BY <1>2, <2>2 DEF FramesInv
  <2> QED
    BY <2>1, <2>2
<1> QED
  BY <1>3 DEF FramesInv, CpuOf, LocalsFit, EspFits

\* A system call leaves a frame of the running process.
LEMMA TrapQuiet ==
  ASSUME TypeInv, FramesInv, cpu.pc = "user", esp0 # NULL, kstack' = EnterSyscall
  PROVE  FramesInv'
<1> DEFINE f == [kind |-> "syscall", cpu |-> cpu]
<1>1. f \in Frame /\ esp0 \in Stack
  BY DEF TypeInv, TypeOK, Frame
<1>2. <<f>> \in Seq(Frame) /\ Len(<<f>>) = 1 /\ <<f>>[1] = f
  BY <1>1
<1>3. CpuOf(f.cpu, esp0)
  BY DEF CpuOf, QuietPc, OnStack, KernelPc
<1>4. kstack' = [kstack EXCEPT ![esp0] = <<f>>]
  BY DEF EnterSyscall
<1> HIDE DEF f
<1>5. \A i \in 1 .. Len(<<f>>) : CpuOf(<<f>>[i].cpu, esp0)
  BY <1>2, <1>3
<1> QED
  BY <1>1, <1>2, <1>4, <1>5, FramesPushed

\* A tick leaves a frame of the running process and saves where it is.
LEMMA TickQuiet ==
  ASSUME TypeInv, Packed(task_queue), FramesInv, DataInv, QuietInv, SaveContext
  PROVE  /\ IntStack = Front.pcb /\ FramesInv'
         /\ Packed(task_queue') /\ Queued' = Queued /\ Asleep' = Asleep
         /\ \A t \in Tasks(task_queue)' : EspFits(t)
         /\ Front'.pcb = Front.pcb /\ Front'.enabled = Front.enabled
<1> DEFINE e == [stk |-> IntStack, lvl |-> Len(IntFrames)]
<1>1. IntStack = Front.pcb
  <2>1. cpu.pc = "hlt" => cpu.stk = NULL
    BY DEF TypeInv, FramesOK, Boot
  <2>2. cpu.pc \in QuietPc
    BY DEF QuietInv, CpuOf
  <2>3. cpu.pc = "user" \/ cpu.pc = "hlt" \/ cpu.pc \in OnStack
    BY <2>2 DEF QuietPc, SafePoints, OnStack, KernelPc
  <2> QED
    BY <2>1, <2>3 DEF QuietInv, CpuOf, IntStack
<1>2. task_queue \in [Cell -> Task] /\ 0 \in Cell
  BY Cells DEF TypeInv, TypeOK
<1>3. FramesInv'
  <2> DEFINE f == [kind |-> "isr", cpu |-> cpu]
             below == IF cpu.pc = "user" THEN <<>> ELSE kstack[IntStack]
  <2>1. f \in Frame /\ IntStack \in Stack /\ kstack \in [Stack -> Seq(Frame)]
    BY DEF TypeInv, TypeOK, Frame, IntStack, Cpu
  <2>2. below \in Seq(Frame) /\ IntFrames = Append(below, f)
    BY <2>1 DEF IntFrames
  <2>3. f.cpu = cpu
    OBVIOUS
  <2>4. \A i \in 1 .. Len(below) : CpuOf(below[i].cpu, IntStack)
    <3>1. CASE cpu.pc = "user"
      BY <3>1
    <3>2. CASE cpu.pc # "user"
      BY <2>1, <3>2 DEF FramesInv
    <3> QED
      BY <3>1, <3>2
  <2> HIDE DEF f, below
  <2>5. /\ IntFrames \in Seq(Frame) /\ Len(IntFrames) = Len(below) + 1
        /\ IntFrames[Len(below) + 1] = f /\ Len(below) \in Nat
        /\ \A i \in 1 .. Len(below) : IntFrames[i] = below[i]
    BY <2>1, <2>2
  <2>6. CpuOf(cpu, IntStack)
    BY <1>1 DEF QuietInv
  <2>7. \A i \in 1 .. Len(IntFrames) : CpuOf(IntFrames[i].cpu, IntStack)
    <3> TAKE i \in 1 .. Len(IntFrames)
    <3>1. i \in 1 .. Len(below) \/ i = Len(below) + 1
      BY <2>5
    <3> QED
      BY <2>3, <2>4, <2>5, <2>6, <3>1
  <2>8. kstack' = [kstack EXCEPT ![IntStack] = IntFrames]
    BY DEF SaveContext
  <2> QED
    BY <2>1, <2>5, <2>7, <2>8, FramesPushed
<1>4. task_queue' = [task_queue EXCEPT ![0] = [Front EXCEPT !.esp = e]]
  BY <1>2 DEF SaveContext, Front
<1> DEFINE h == [Front EXCEPT !.esp = e]
<1>5. h.pcb = Front.pcb /\ h.enabled = Front.enabled /\ h.esp = e
  BY <1>2 DEF Front, Task
<1>6. EspFits(h)
  BY <1>1, <1>5 DEF EspFits
<1> HIDE DEF h, e
<1>7. task_queue'[0] = h /\ \A i \in Cell : i # 0 => task_queue'[i] = task_queue[i]
  BY <1>2, <1>4 DEF h
<1>8. \A i \in Cell : /\ task_queue'[i].pcb = task_queue[i].pcb
                      /\ task_queue'[i].enabled = task_queue[i].enabled
  BY <1>5, <1>7 DEF Front
<1>9. Packed(task_queue')
  BY <1>8 DEF Packed, Occupied
<1>10. Queued' = Queued /\ Asleep' = Asleep
  BY <1>8 DEF Queued, Asleep, Tasks, Occupied
<1>11. \A t \in Tasks(task_queue)' : EspFits(t)
  <2> TAKE t \in Tasks(task_queue)'
  <2>1. PICK i \in Cell : task_queue'[i].pcb # NULL /\ t = task_queue'[i]
    BY DEF Tasks, Occupied
  <2>2. CASE i = 0
    BY <1>6, <1>7, <2>1, <2>2
  <2>3. CASE i # 0
    BY <1>7, <2>1, <2>3 DEF DataInv, Tasks, Occupied
  <2> QED
    BY <2>2, <2>3
<1>12. Front'.pcb = Front.pcb /\ Front'.enabled = Front.enabled
  BY <1>5, <1>7 DEF Front
<1> QED
  BY <1>1, <1>3, <1>9, <1>10, <1>11, <1>12

-----------------------------------------------------------------------------
(* The steps *)

\* One phase at a time is enough.
LEMMA ToQuiet ==
  ASSUME Packed(task_queue'), FramesInv', DataInv', QuietInv'
  PROVE  KernelInv'
<1>1. cpu'.pc \in QuietPc
  BY DEF QuietInv, CpuOf
<1> QED
  BY <1>1, Phases DEF KernelInv, PhaseInv, Packed, Occupied

\* What a step into the phase of the timer's handler has to establish.
LEMMA ToPit ==
  ASSUME Packed(task_queue'), FramesInv', DataInv', cpu'.pc \in PitPc, PitInv'
  PROVE  KernelInv'
BY Phases DEF KernelInv, PhaseInv, Packed, Occupied

\* The same for the phase in which a process is created.
LEMMA ToBirth ==
  ASSUME Packed(task_queue'), FramesInv', DataInv', cpu'.pc \in BirthPc, BirthInv'
  PROVE  KernelInv'
BY Phases DEF KernelInv, PhaseInv, Packed, Occupied

\* The same for the phase in which a process ends.
LEMMA ToEnd ==
  ASSUME Packed(task_queue'), FramesInv', DataInv', cpu'.pc \in EndPc, EndInv'
  PROVE  KernelInv'
BY Phases DEF KernelInv, PhaseInv, Packed, Occupied

\* The same for a fault, where the machine stops.
LEMMA ToFault ==
  ASSUME Packed(task_queue'), Fault
  PROVE  KernelInv'
BY DEF KernelInv, Fault, At, Packed, Occupied

\* The timer interrupts only quiet states.
LEMMA TickFrom ==
  ASSUME KernelInv, Interruptible, PreemptAt \subseteq SafePoints
  PROVE  Packed(task_queue) /\ FramesInv /\ DataInv /\ QuietInv
<1>1. cpu.pc \in QuietPc
  BY DEF Interruptible, QuietPc
<1> QED
  BY <1>1, Phases DEF KernelInv, PhaseInv

\* pit_interrupt starts a shell.
LEMMA SpawnKeeps ==
  ASSUME TypeInv, KernelInv, PreemptAt \subseteq SafePoints, PitSpawn
  PROVE  KernelInv'
<1>1. Packed(task_queue) /\ FramesInv /\ DataInv /\ QuietInv
  BY TickFrom DEF PitSpawn
<1>2. /\ IntStack = Front.pcb /\ FramesInv'
      /\ Packed(task_queue') /\ Queued' = Queued /\ Asleep' = Asleep
      /\ \A t \in Tasks(task_queue)' : EspFits(t)
      /\ Front'.pcb = Front.pcb /\ Front'.enabled = Front.enabled
  BY <1>1, TickQuiet DEF PitSpawn
<1>3. UNCHANGED <<cur_pcb, pcb, pde, cr3, esp0, image>> /\ cpu' = At("exec_enter", IntStack)
  BY DEF PitSpawn
<1>4. DataInv'
  BY <1>1, <1>2, <1>3, DataKept DEF DataInv
<1>5. CpuOf(cpu', Front.pcb)
  BY <1>2, <1>3 DEF CpuOf, At, QuietPc, SafePoints
<1>6. Alive' = Alive
  BY <1>3 DEF Alive, Present
<1>7. QuietInv'
  BY <1>1, <1>2, <1>3, <1>5, <1>6 DEF QuietInv, CpuOf, LocalsFit, EspFits
<1> QED
  BY <1>2, <1>4, <1>7, ToQuiet

\* pit_interrupt begins to switch.
LEMMA PreemptKeeps ==
  ASSUME TypeInv, KernelInv, PreemptAt \subseteq SafePoints, PitPreempt
  PROVE  KernelInv'
<1>1. Packed(task_queue) /\ FramesInv /\ DataInv /\ QuietInv
  BY TickFrom DEF PitPreempt
<1>2. /\ FramesInv'
      /\ Packed(task_queue') /\ Queued' = Queued /\ Asleep' = Asleep
      /\ \A t \in Tasks(task_queue)' : EspFits(t)
      /\ Front'.pcb = Front.pcb /\ Front'.enabled = Front.enabled
  BY <1>1, TickQuiet DEF PitPreempt
<1>3. UNCHANGED <<cur_pcb, pcb, pde, cr3, esp0, image>> /\ cpu'.pc = "pit_rotate"
  BY DEF PitPreempt, At
<1>4. DataInv'
  BY <1>1, <1>2, <1>3, DataKept DEF DataInv
<1>5. Alive' = Alive
  BY <1>3 DEF Alive, Present
<1>6. Front.pcb # NULL
  BY <1>1 DEF PitPreempt, Starting, QuietInv
<1>7. PitInv'
  BY <1>1, <1>2, <1>3, <1>5, <1>6 DEF PitInv, QuietInv
<1> QED
  BY <1>2, <1>3, <1>4, <1>7, ToPit DEF PitPc

\* pit_interrupt turns the queue.
LEMMA RotateKeeps ==
  ASSUME TypeInv, KernelInv, PitRotate
  PROVE  KernelInv'
<1>1. Packed(task_queue) /\ FramesInv /\ DataInv /\ PitInv
  BY Phases DEF KernelInv, PhaseInv, PitRotate, PitPc
<1>2. task_queue \in [Cell -> Task] /\ Occupied(task_queue, 0)
  BY <1>1 DEF TypeInv, TypeOK, PitInv, Front, Occupied
<1>3. task_queue' = Rotate(task_queue)
  BY DEF PitRotate
<1>4. /\ Packed(task_queue') /\ Tasks(task_queue)' = Tasks(task_queue)
      /\ task_queue'[0].pcb # NULL
  <2>1. /\ Packed(Rotate(task_queue)) /\ Tasks(Rotate(task_queue)) = Tasks(task_queue)
        /\ Occupied(Rotate(task_queue), 0)
    BY <1>1, <1>2, RotateContents
  <2> HIDE DEF Rotate
  <2> QED
    BY <1>3, <2>1 DEF Tasks, Occupied
<1>5. Queued' = Queued /\ Asleep' = Asleep
  BY <1>4 DEF Queued, Asleep
<1>6. UNCHANGED <<pcb, pde, kstack, image>>
  BY DEF PitRotate
<1>7. DataInv'
  BY <1>1, <1>4, <1>5, <1>6, DataKept DEF DataInv
<1>8. FramesInv' /\ Alive' = Alive
  BY <1>1, <1>6 DEF FramesInv, CpuOf, LocalsFit, EspFits, Alive, Present
<1>9. cpu'.pc = IF task_queue'[0].enabled THEN "pit_switch" ELSE "pit_rotate"
  BY DEF PitRotate, TypeInv, TypeOK, Cpu
<1>10. PitInv'
  BY <1>1, <1>4, <1>5, <1>8, <1>9 DEF PitInv, Front
<1> QED
  BY <1>4, <1>7, <1>8, <1>9, <1>10, ToPit DEF PitPc

\* pit_interrupt returns into the process at the front.
LEMMA SwitchKeeps ==
  ASSUME TypeInv, KernelInv, PitSwitch
  PROVE  KernelInv'
<1>1. Packed(task_queue) /\ FramesInv /\ DataInv /\ PitInv /\ Front.enabled
  BY Phases DEF KernelInv, PhaseInv, PitSwitch, PitPc, PitInv
<1>2. UNCHANGED <<task_queue, pcb, pde, image>>
  BY DEF PitSwitch
<1>3. /\ esp0' = Front.pcb /\ cr3' = Front.pcb /\ cur_pcb' = Front.pcb
  BY DEF PitSwitch, Front
<1>4. Packed(task_queue')
  BY <1>1, <1>2
<1>5. CASE Resumable(Front.esp)
  <2> DEFINE e == Front.esp
  <2>1. Resume(e)
    BY <1>1, <1>5 DEF PitSwitch, Front, PitInv
  <2>2. Front \in Task /\ Front \in Tasks(task_queue) /\ e \in Esp
    BY <1>1, FrontFacts DEF PitInv, Task
  <2>3. e.stk \in Stack /\ kstack[e.stk] \in Seq(Frame)
    BY <2>2 DEF Esp, TypeInv, TypeOK
  <2>4. e.lvl \in 1 .. Len(kstack[e.stk])
    BY <1>5, <2>3 DEF Resumable
  <2>5. e.stk = Front.pcb
    BY <1>1, <2>2, <2>4 DEF DataInv, EspFits
  <2>6. CpuOf(cpu', Front.pcb) /\ FramesInv'
    BY <1>1, <2>1, <2>2, <2>4, <2>5, ResumeQuiet
  <2>7. DataInv' /\ Queued' = Queued /\ Front' = Front
    BY <1>1, <1>2, QueueKept DEF DataInv
  <2>8. Alive' = Alive
    BY <1>2 DEF Alive, Present
  <2>9. QuietInv'
    BY <1>1, <1>3, <2>6, <2>7, <2>8 DEF QuietInv, PitInv, CpuOf, LocalsFit, EspFits
  <2> QED
    BY <1>4, <2>6, <2>7, <2>9, ToQuiet
<1>6. CASE ~Resumable(Front.esp)
  <2>1. Fault
    BY <1>6 DEF PitSwitch, Front
  <2> QED
    BY <1>4, <2>1, ToFault
<1> QED
  BY <1>5, <1>6

\* Steps that only move the running process on.
LEMMA QuietFrom ==
  ASSUME KernelInv, cpu.pc \in QuietPc
  PROVE  Packed(task_queue) /\ FramesInv /\ DataInv /\ QuietInv
BY Phases DEF KernelInv, PhaseInv

\* Steps between quiet places that leave the queue and the address space alone.
LEMMA QuietStays ==
  ASSUME TypeInv, KernelInv, cpu.pc \in QuietPc,
         UNCHANGED <<task_queue, cur_pcb, pde, cr3, esp0, image>>,
         \A p \in Pid : pcb'[p].parent_pid = pcb[p].parent_pid,
         CpuOf(cpu', Front.pcb), FramesInv'
  PROVE  KernelInv'
<1>1. Packed(task_queue) /\ FramesInv /\ DataInv /\ QuietInv
  BY QuietFrom
<1>2. Queued \subseteq Pid
  BY <1>1, FrontFacts
<1>3. DataInv' /\ Queued' = Queued /\ Front' = Front
  BY <1>1, <1>2, QueueKept DEF DataInv
<1>4. Alive' = Alive
  BY DEF Alive, Present
<1>5. QuietInv'
  BY <1>1, <1>3, <1>4 DEF QuietInv, CpuOf, LocalsFit, EspFits
<1> QED
  BY <1>1, <1>3, <1>5, ToQuiet

\* Steps that leave the kernel stacks alone.
LEMMA FramesKept ==
  ASSUME FramesInv, kstack' = kstack
  PROVE  FramesInv'
BY DEF FramesInv, CpuOf, LocalsFit, EspFits

\* The system calls execute and read enter the kernel.
LEMMA SyscallKeeps ==
  ASSUME TypeInv, KernelInv, SysExecute \/ SysRead
  PROVE  KernelInv'
<1>1. cpu.pc = "user" /\ kstack' = EnterSyscall
      /\ UNCHANGED <<task_queue, cur_pcb, pcb, pde, cr3, esp0, image>>
      /\ (cpu' = At("exec_enter", esp0) \/ cpu' = At("read", esp0))
  BY DEF SysExecute, SysRead
<1>2. cpu.pc \in QuietPc
  BY <1>1 DEF QuietPc
<1>3. FramesInv /\ QuietInv
  BY <1>2, QuietFrom
<1>4. esp0 = Front.pcb /\ Front.pcb # NULL
  BY <1>1, <1>3 DEF QuietInv, CpuOf
<1>5. FramesInv'
  BY <1>1, <1>3, <1>4, TrapQuiet
<1>6. CpuOf(cpu', Front.pcb)
  BY <1>1, <1>4 DEF CpuOf, At, QuietPc, SafePoints
<1> QED
  BY <1>1, <1>2, <1>5, <1>6, QuietStays

\* execute reads the global state into its locals.
LEMMA EnterKeeps ==
  ASSUME TypeInv, KernelInv, ExecEnter
  PROVE  KernelInv'
<1>1. cpu.pc = "exec_enter" /\ cpu.pc \in QuietPc
      /\ UNCHANGED <<task_queue, cur_pcb, pcb, pde, cr3, esp0, kstack, image>>
  BY DEF ExecEnter, QuietPc, SafePoints
<1>2. Packed(task_queue) /\ FramesInv /\ DataInv /\ QuietInv
  BY <1>1, QuietFrom
<1>3. cpu \in Cpu
  BY DEF TypeInv, TypeOK
<1>4. /\ cpu'.pc = "exec_load" /\ cpu'.stk = cpu.stk
      /\ cpu'.parent = IF Starting THEN NULL ELSE cur_pcb
      /\ cpu'.temp_cur = Front
  BY <1>3 DEF ExecEnter, Cpu, Front
<1>5. Front.pcb # NULL => EspFits(Front)
  BY <1>2, FrontFacts DEF DataInv
<1>6. LocalsFit(cpu', Front.pcb)
  BY <1>2, <1>4, <1>5 DEF LocalsFit, QuietInv
<1>7. cpu.stk = Front.pcb
  BY <1>1, <1>2 DEF QuietInv, CpuOf, OnStack, KernelPc
<1>8. CpuOf(cpu', Front.pcb)
  BY <1>4, <1>6, <1>7 DEF CpuOf, QuietPc, SafePoints
<1>9. FramesInv'
  BY <1>1, <1>2, FramesKept
<1> QED
  BY <1>1, <1>8, <1>9, QuietStays

\* execute that fails, and read, return to their caller.
LEMMA ReturnKeeps ==
  ASSUME TypeInv, KernelInv, ExecFail \/ ReadReturn
  PROVE  KernelInv'
<1>1. cpu.pc \in QuietPc /\ cpu.pc \in OnStack /\ Resume(Innermost(cpu.stk))
      /\ UNCHANGED <<task_queue, cur_pcb, pcb, pde, cr3, esp0, image>>
  BY DEF ExecFail, ReadReturn, QuietPc, SafePoints, OnStack, KernelPc
<1>2. FramesInv /\ QuietInv
  BY <1>1, QuietFrom
<1>3. cpu.stk = Front.pcb
  BY <1>1, <1>2 DEF QuietInv, CpuOf
<1> DEFINE e == Innermost(cpu.stk)
<1>4. e \in Esp /\ e.lvl \in 1 .. Len(kstack[e.stk]) /\ e.stk = cpu.stk
  BY <1>1, InnermostOK DEF Innermost
<1> HIDE DEF e
<1>5. Resume(e)
  BY <1>1 DEF e
<1>6. CpuOf(cpu', Front.pcb) /\ FramesInv'
  BY <1>2, <1>3, <1>4, <1>5, ResumeQuiet
<1> QED
  BY <1>1, <1>6, QuietStays

\* halt of a process without parent, and vidmap.
LEMMA UserKeeps ==
  ASSUME TypeInv, KernelInv, HaltRestart \/ Vidmap
  PROVE  KernelInv'
<1>1. cpu.pc = "user" /\ kstack' = kstack
      /\ UNCHANGED <<task_queue, cur_pcb, pde, cr3, esp0, image>>
  BY DEF HaltRestart, Vidmap
<1>2. cpu.pc \in QuietPc
  BY <1>1 DEF QuietPc
<1>3. FramesInv /\ QuietInv
  BY <1>2, QuietFrom
<1>4. Front.pcb # NULL
  BY <1>1, <1>3 DEF QuietInv, CpuOf
<1>5. cpu'.pc = "user"
  <2>1. CASE HaltRestart
    BY <2>1 DEF HaltRestart, InUser, At
  <2>2. CASE Vidmap
    BY <1>1, <2>2 DEF Vidmap
  <2> QED
    BY <2>1, <2>2
<1>6. CpuOf(cpu', Front.pcb)
  BY <1>4, <1>5 DEF CpuOf, QuietPc, OnStack, KernelPc
<1>7. \A p \in Pid : pcb'[p].parent_pid = pcb[p].parent_pid
  <2>1. CASE HaltRestart
    BY <2>1 DEF HaltRestart
  <2>2. CASE Vidmap
    <3>1. pcb' = [pcb EXCEPT ![cur_pcb].vidmap_check = TRUE]
      BY <2>2 DEF Vidmap
    <3> QED
      BY <3>1 DEF TypeInv, TypeOK
  <2> QED
    BY <2>1, <2>2
<1>8. FramesInv'
  BY <1>1, <1>3, FramesKept
<1> QED
  BY <1>1, <1>2, <1>6, <1>7, <1>8, QuietStays

\* halt begins.
LEMMA ClearKeeps ==
  ASSUME TypeInv, KernelInv, HaltClear
  PROVE  KernelInv'
<1>1. cpu.pc = "user" /\ kstack' = EnterSyscall /\ cpu' = At("halt_paging", esp0)
      /\ UNCHANGED <<task_queue, cur_pcb, pde, cr3, esp0, image>>
  BY DEF HaltClear
<1>2. cpu.pc \in QuietPc
  BY <1>1 DEF QuietPc
<1>3. FramesInv /\ QuietInv
  BY <1>2, QuietFrom
<1>4. esp0 = Front.pcb /\ Front.pcb # NULL
  BY <1>1, <1>3 DEF QuietInv, CpuOf
<1>5. FramesInv'
  BY <1>1, <1>3, <1>4, TrapQuiet
<1>6. CpuOf(cpu', Front.pcb)
  BY <1>1, <1>4 DEF CpuOf, At, QuietPc, SafePoints
<1>7. \A p \in Pid : pcb'[p].parent_pid = pcb[p].parent_pid
  BY DEF HaltClear, TypeInv, TypeOK
<1> QED
  BY <1>1, <1>2, <1>5, <1>6, <1>7, QuietStays

\* Steps of execute between the choice of a pid and the queue.
LEMMA BirthFrom ==
  ASSUME KernelInv, cpu.pc \in BirthPc
  PROVE  Packed(task_queue) /\ FramesInv /\ DataInv /\ BirthInv
BY Phases DEF KernelInv, PhaseInv

\* file_to_mem takes the first free pid.
LEMMA LoadFacts ==
  ASSUME ExecLoad
  PROVE  \E n \in Pid :
           /\ FreePid(n) /\ pde' = [pde EXCEPT ![n] = @ + 1]
           /\ cr3' = n /\ cur_pcb' = n
           /\ \E c : pcb' = [pcb EXCEPT ![n].parent_pid = n - 1, ![n].con = c]
           /\ cpu' = [cpu EXCEPT !.pc = "exec_copy", !.child = n]
BY Zenon DEF ExecLoad

\* Loading a program takes a free process number and the page that goes with it.
LEMMA LoadKeeps ==
  ASSUME TypeInv, KernelInv, ExecLoad
  PROVE  KernelInv'
<1>1. cpu.pc = "exec_load" /\ UNCHANGED <<task_queue, kstack, image>>
  BY DEF ExecLoad
<1>2. cpu.pc \in QuietPc
  BY <1>1 DEF QuietPc, SafePoints
<1>3. Packed(task_queue) /\ FramesInv /\ DataInv /\ QuietInv
  BY <1>2, QuietFrom
<1>4. PICK n \in Pid :
        /\ FreePid(n) /\ pde' = [pde EXCEPT ![n] = @ + 1]
        /\ cr3' = n /\ cur_pcb' = n
        /\ \E c : pcb' = [pcb EXCEPT ![n].parent_pid = n - 1, ![n].con = c]
        /\ cpu' = [cpu EXCEPT !.pc = "exec_copy", !.child = n]
  BY LoadFacts
<1>5. pde \in [Pid -> {0, 1}] /\ pde[n] = 0 /\ n \notin Queued
  BY <1>3, <1>4, PresentIs DEF DataInv, FreePid, QuietInv, Alive
<1>6. pde' \in [Pid -> {0, 1}] /\ pde'[n] = 1
      /\ \A p \in Pid : p # n => pde'[p] = pde[p]
  BY <1>4, <1>5
<1>7. Alive' = Alive \cup {n}
  <2>1. \A p \in Pid : p # n => (Present(p)' <=> Present(p))
    BY <1>6 DEF Present
  <2>2. Present(n)'
    BY <1>6 DEF Present
  <2> QED
    BY <2>1, <2>2 DEF Alive
<1>8. \A p \in Queued : pcb'[p].parent_pid = pcb[p].parent_pid
  <2>1. \A p \in Pid : p # n => pcb'[p] = pcb[p]
    BY <1>4 DEF TypeInv, TypeOK
  <2> QED
    BY <1>3, <1>5, <2>1, FrontFacts
<1>9. DataInv' /\ Queued' = Queued /\ Front' = Front
  BY <1>1, <1>3, <1>6, <1>8, QueueKept
<1>10. /\ cpu'.pc = "exec_copy" /\ cpu'.child = n /\ cpu'.parent = cpu.parent
       /\ cpu'.temp_cur = cpu.temp_cur
  BY <1>4 DEF TypeInv, TypeOK, Cpu
<1>11. LocalsFit(cpu', Front.pcb)
  BY <1>1, <1>3, <1>10 DEF QuietInv, CpuOf, LocalsFit
<1>12. n = 0 <=> Front.pcb = NULL
  <2>1. ASSUME n = 0 PROVE Front.pcb = NULL
    BY <1>3, <1>5, <2>1, FrontFacts DEF DataInv, Family
  <2>2. ASSUME Front.pcb = NULL PROVE n = 0
    <3>1. Queued = {} /\ \A p \in Pid : ~Present(p)
      BY <1>3, <2>2, FrontFacts DEF QuietInv, Alive
    <3> QED
      BY <1>4, <3>1, Cells DEF FreePid
  <2> QED
    BY <2>1, <2>2
<1>13. BirthInv'
  BY <1>3, <1>4, <1>5, <1>7, <1>9, <1>10, <1>11, <1>12
     DEF BirthInv, QuietInv, LocalsFit, EspFits
<1>14. FramesInv'
  BY <1>1, <1>3, FramesKept
<1> QED
  BY <1>1, <1>3, <1>9, <1>10, <1>13, <1>14, ToBirth DEF BirthPc

\* file_to_mem copies the executable into the new address space.
LEMMA CopyKeeps ==
  ASSUME TypeInv, KernelInv, ExecCopy
  PROVE  KernelInv'
<1>1. cpu.pc = "exec_copy" /\ cpu.pc \in BirthPc
      /\ UNCHANGED <<task_queue, cur_pcb, pcb, pde, cr3, kstack>>
  BY DEF ExecCopy, BirthPc
<1>2. Packed(task_queue) /\ FramesInv /\ DataInv /\ BirthInv
  BY <1>1, BirthFrom
<1>3. image' = [image EXCEPT ![cpu.child] = cpu.child] /\ cpu.child \in Pid
  BY <1>2 DEF ExecCopy, BirthInv
<1>4. image'[cpu.child] = cpu.child /\ \A p \in Queued : image'[p] = image[p]
  BY <1>2, <1>3 DEF BirthInv, TypeInv, TypeOK
<1>5. DataInv' /\ Queued' = Queued /\ Front' = Front
  BY <1>1, <1>2, <1>4, QueueKept DEF DataInv
<1>6. /\ cpu'.pc = "exec_fill" /\ cpu'.child = cpu.child
      /\ cpu'.parent = cpu.parent /\ cpu'.temp_cur = cpu.temp_cur
  BY DEF ExecCopy, TypeInv, TypeOK, Cpu
<1>7. Alive' = Alive
  BY <1>1 DEF Alive, Present
<1>8. BirthInv'
  BY <1>1, <1>2, <1>4, <1>5, <1>6, <1>7 DEF BirthInv, LocalsFit, EspFits
<1>9. FramesInv'
  BY <1>1, <1>2, FramesKept
<1> QED
  BY <1>1, <1>2, <1>5, <1>6, <1>8, <1>9, ToBirth DEF BirthPc

\* execute fills in the PCB.
LEMMA FillKeeps ==
  ASSUME TypeInv, KernelInv, ExecFill
  PROVE  KernelInv'
<1>1. cpu.pc = "exec_fill" /\ cpu.pc \in BirthPc
      /\ UNCHANGED <<task_queue, cur_pcb, pde, cr3, kstack, image>>
  BY DEF ExecFill, BirthPc
<1>2. Packed(task_queue) /\ FramesInv /\ DataInv /\ BirthInv
  BY <1>1, BirthFrom
<1> DEFINE n == cpu.child
<1>3. n \in Pid /\ cur_pcb = n /\ n \notin Queued
  BY <1>2 DEF BirthInv
<1>4. pcb'[n].parent_pid = cpu.parent /\ \A p \in Pid : p # n => pcb'[p] = pcb[p]
  BY <1>3 DEF ExecFill, TypeInv, TypeOK
<1>5. \A p \in Queued : pcb'[p].parent_pid = pcb[p].parent_pid
  BY <1>2, <1>3, <1>4, FrontFacts
<1>6. DataInv' /\ Queued' = Queued /\ Front' = Front
  BY <1>1, <1>2, <1>5, QueueKept DEF DataInv
<1>7. /\ cpu'.pc = "exec_queue" /\ cpu'.child = n
      /\ cpu'.parent = cpu.parent /\ cpu'.temp_cur = cpu.temp_cur
  BY DEF ExecFill, TypeInv, TypeOK, Cpu
<1>8. Alive' = Alive
  BY <1>1 DEF Alive, Present
<1>9. BirthInv'
  BY <1>1, <1>2, <1>4, <1>6, <1>7, <1>8 DEF BirthInv, LocalsFit, EspFits
<1>10. FramesInv'
  BY <1>1, <1>2, FramesKept
<1> QED
  BY <1>1, <1>2, <1>6, <1>7, <1>9, <1>10, ToBirth DEF BirthPc

\* return_parent_paging gives the pid back.
LEMMA PagingKeeps ==
  ASSUME TypeInv, KernelInv, HaltPaging
  PROVE  KernelInv'
<1>1. cpu.pc = "halt_paging" /\ cpu.pc \in QuietPc
      /\ UNCHANGED <<task_queue, cur_pcb, pcb, kstack, image>>
  BY DEF HaltPaging, QuietPc, SafePoints
<1>2. Packed(task_queue) /\ FramesInv /\ DataInv /\ QuietInv
  BY <1>1, QuietFrom
<1> DEFINE q == Front.pcb
<1>3. q # NULL /\ q \in Queued /\ q \in Pid /\ cur_pcb = q
  BY <1>1, <1>2, FrontFacts DEF QuietInv, CpuOf
<1>4. CASE pcb[q].parent_pid = NULL
  <2>1. Fault
    BY <1>3, <1>4 DEF HaltPaging
  <2> QED
    BY <1>1, <1>2, <2>1, ToFault
<1>5. CASE pcb[q].parent_pid # NULL
  <2>1. /\ cr3' = pcb[q].parent_pid /\ pde' = [pde EXCEPT ![q] = @ - 1]
        /\ cpu'.pc = "halt_switch"
    BY <1>3, <1>5 DEF HaltPaging, TypeInv, TypeOK, Cpu
  <2>2. pde \in [Pid -> {0, 1}] /\ pde[q] = 1
    BY <1>2, <1>3, PresentIs DEF DataInv, QuietInv, Alive
  <2>3. pde' \in [Pid -> {0, 1}] /\ pde'[q] = 0
        /\ \A p \in Pid : p # q => pde'[p] = pde[p]
    <3> HIDE DEF q
    <3> QED
      BY <1>3, <2>1, <2>2
  <2>4. Alive' = Alive \ {q}
    <3>1. \A p \in Pid : p # q => (Present(p)' <=> Present(p))
      BY <2>3 DEF Present
    <3>2. pde'[q] % 2 # 1
      BY <2>3
    <3> HIDE DEF q
    <3> QED
      BY <3>1, <3>2 DEF Alive, Present
  <2>5. DataInv' /\ Queued' = Queued /\ Front' = Front
    BY <1>1, <1>2, <2>3, QueueKept
  <2>6. EndInv'
    BY <1>1, <1>2, <1>3, <1>5, <2>1, <2>4, <2>5 DEF EndInv, QuietInv
  <2>7. FramesInv'
    BY <1>1, <1>2, FramesKept
  <2> QED
    BY <1>1, <1>2, <2>1, <2>5, <2>6, <2>7, ToEnd DEF EndPc
<1> QED
  BY <1>4, <1>5

\* halt makes the parent the current process.
LEMMA HaltSwitchKeeps ==
  ASSUME TypeInv, KernelInv, HaltSwitch
  PROVE  KernelInv'
<1>1. cpu.pc = "halt_switch" /\ cpu.pc \in EndPc
      /\ UNCHANGED <<task_queue, pcb, pde, cr3, kstack, image>>
  BY DEF HaltSwitch, EndPc
<1>2. Packed(task_queue) /\ FramesInv /\ DataInv /\ EndInv
  BY <1>1, Phases DEF KernelInv, PhaseInv
<1>3. DataInv' /\ Queued' = Queued /\ Front' = Front
  BY <1>1, <1>2, QueueKept DEF DataInv
<1>4. cur_pcb' = cr3 /\ esp0' = cr3
  BY <1>1, <1>2 DEF EndInv, HaltSwitch
<1>5. cpu'.pc = "halt_queue"
  BY DEF HaltSwitch, TypeInv, TypeOK, Cpu
<1>6. Alive' = Alive
  BY <1>1 DEF Alive, Present
<1>7. EndInv'
  BY <1>1, <1>2, <1>3, <1>4, <1>5, <1>6 DEF EndInv
<1>8. FramesInv'
  BY <1>1, <1>2, FramesKept
<1> QED
  BY <1>1, <1>2, <1>3, <1>5, <1>7, <1>8, ToEnd DEF EndPc

\* The family after a birth: n joins, as a child of the running process o,
\* which falls asleep, or of nobody.
LEMMA BirthFamily ==
  ASSUME Family, NEW n, n \notin Queued, n # NULL, NEW o, o \notin Asleep,
         o # NULL => o \in Queued, o = NULL => Queued = {} /\ n = 0,
         pcb[n].parent_pid \in {NULL, o}, UNCHANGED pcb,
         Queued' = Queued \cup {n}, n \notin Asleep,
         Asleep' = IF pcb[n].parent_pid = NULL THEN Asleep ELSE Asleep \cup {o}
  PROVE  Family'
<1> DEFINE par(p) == pcb[p].parent_pid
<1>1. /\ \A p \in Queued : p \in Asleep <=> \E c \in Queued : par(c) = p
      /\ \A p \in Queued : par(p) \in {NULL} \cup (Queued \ {p})
      /\ \A p, q \in Queued : par(p) = par(q) => par(p) = NULL \/ p = q
      /\ Queued # {} => 0 \in Queued /\ par(0) = NULL
  BY DEF Family
<1>2. par(n) \in {NULL, o} /\ (par(n) # NULL => o # NULL)
  OBVIOUS
<1> HIDE DEF par
<1>3. \A c \in Queued : par(c) # n /\ (o # NULL => par(c) # o)
  BY <1>1
<1>4. n # o
  OBVIOUS
<1>5. Asleep' = IF par(n) = NULL THEN Asleep ELSE Asleep \cup {o}
  BY DEF par
<1>6. \A p \in Queued' : p \in Asleep' <=> \E c \in Queued' : par(c) = p
  <2> TAKE p \in Queued'
  <2>1. CASE p = n
    BY <1>2, <1>3, <1>4, <1>5, <2>1
  <2>2. CASE p # n /\ p = o /\ o # NULL
    BY <1>2, <1>3, <1>5, <2>2
  <2>3. CASE p # n /\ p # o
    <3>1. p \in Queued
      BY <2>3
    <3>2. p \in Asleep' <=> p \in Asleep
      BY <1>5, <2>3
    <3>3. CASE p = NULL
      BY <1>1, <1>2, <1>5, <2>3, <3>1, <3>2, <3>3
    <3>4. CASE p # NULL
      BY <1>1, <1>2, <2>3, <3>1, <3>2, <3>4
    <3> QED
      BY <3>3, <3>4
  <2> QED
    BY <2>1, <2>2, <2>3
<1>7. \A p \in Queued' : par(p) \in {NULL} \cup (Queued' \ {p})
  BY <1>1, <1>2, <1>4
<1>8. \A p, q \in Queued' : par(p) = par(q) => par(p) = NULL \/ p = q
  BY <1>1, <1>2, <1>3
<1>9. 0 \in Queued' /\ par(0) = NULL
  BY <1>1, <1>2
<1>10. \A p : par(p) = pcb'[p].parent_pid
  BY DEF par
<1> QED
  BY <1>6, <1>7, <1>8, <1>9, <1>10 DEF Family

\* The family after an end: q leaves, and its parent o wakes up.
LEMMA EndFamily ==
  ASSUME Family, NEW q \in Queued, q \notin Asleep,
         NEW o, o = pcb[q].parent_pid, o # NULL, UNCHANGED pcb,
         Queued' = Queued \ {q}, Asleep' = Asleep \ {o}
  PROVE  Family'
<1> DEFINE par(p) == pcb[p].parent_pid
<1>1. /\ \A p \in Queued : p \in Asleep <=> \E c \in Queued : par(c) = p
      /\ \A p \in Queued : par(p) \in {NULL} \cup (Queued \ {p})
      /\ \A p, r \in Queued : par(p) = par(r) => par(p) = NULL \/ p = r
      /\ Queued # {} => 0 \in Queued /\ par(0) = NULL
  BY DEF Family
<1>2. par(q) = o
  OBVIOUS
<1>3. \A p : par(p) = pcb'[p].parent_pid
  OBVIOUS
<1> HIDE DEF par
<1>4. \A c \in Queued : par(c) # q /\ (par(c) = o => c = q)
  BY <1>1, <1>2
<1>5. \A p \in Queued' : p \in Asleep' <=> \E c \in Queued' : par(c) = p
  BY <1>1, <1>2, <1>4
<1>6. \A p \in Queued' : par(p) \in {NULL} \cup (Queued' \ {p})
  BY <1>1, <1>4
<1>7. \A p, r \in Queued' : par(p) = par(r) => par(p) = NULL \/ p = r
  BY <1>1
<1>8. Queued' # {} => 0 \in Queued' /\ par(0) = NULL
  BY <1>1, <1>2
<1> QED
  BY <1>3, <1>5, <1>6, <1>7, <1>8 DEF Family

\* The queue after a birth.
LEMMA BirthQueue ==
  ASSUME TypeInv, Packed(task_queue), BirthInv, cpu.pc = "exec_queue", ExecQueue
  PROVE  LET n   == cpu.child
             o   == Front.pcb
             par == pcb[n].parent_pid
             old == [cpu.temp_cur EXCEPT !.enabled = @ /\ par = NULL]
             new == [pcb |-> n, enabled |-> TRUE, esp |-> NoEsp]
         IN  /\ Packed(task_queue') /\ Front' = new
             /\ Tasks(task_queue') =
                  {u \in Tasks(task_queue) : u.pcb # o} \cup {new}
                    \cup (IF n = 0 THEN {} ELSE {old})
<1> DEFINE n   == cpu.child
           o   == Front.pcb
           par == pcb[n].parent_pid
           old == [cpu.temp_cur EXCEPT !.enabled = @ /\ par = NULL]
           new == [pcb |-> n, enabled |-> TRUE, esp |-> NoEsp]
           q0  == [task_queue EXCEPT ![0] = new]
<1>1. /\ n \in Pid /\ n # NULL /\ n \notin Queued /\ cur_pcb = n
      /\ (n = 0 <=> o = NULL) /\ cpu.temp_cur.pcb = o
  BY Cells DEF BirthInv, LocalsFit
<1>2. task_queue \in [Cell -> Task] /\ cpu.temp_cur \in Task
  BY DEF TypeInv, TypeOK, Cpu
<1>3. old \in Task /\ old.pcb = o
  <2>1. cpu.temp_cur.enabled \in BOOLEAN
    BY <1>2 DEF Task
  <2>2. (cpu.temp_cur.enabled /\ par = NULL) \in BOOLEAN
    BY <2>1, Zenon
  <2> DEFINE b == cpu.temp_cur.enabled /\ par = NULL
  <2>3. old = [cpu.temp_cur EXCEPT !.enabled = b]
    OBVIOUS
  <2>4. b \in BOOLEAN
    BY <2>2
  <2> HIDE DEF b, par, old, o
  <2> QED
    BY <1>1, <1>2, <2>3, <2>4 DEF Task
<1>4. new \in Task /\ new.pcb = n
  BY <1>1, Constants DEF Task
<1>5. task_queue' = IF n # 0 THEN [task_push(task_queue, old) EXCEPT ![0] = new]
                    ELSE q0
  BY <1>1, Zenon DEF ExecQueue
<1>6. ~InQueue(task_queue, n)
  BY <1>1, InTasks DEF Queued
<1> HIDE DEF old, new, q0, n, o
<1>7. /\ Packed(q0) /\ q0 \in [Cell -> Task] /\ q0[0] = new
      /\ Tasks(q0) = {u \in Tasks(task_queue) : u.pcb # o} \cup {new}
  BY <1>1, <1>2, <1>4, <1>6, ReplaceFront DEF q0, o, Front
<1>8. CASE n = 0
  BY <1>5, <1>7, <1>8 DEF Front, n, o, new, old
<1>9. CASE n # 0
  <2>1. o # NULL /\ o \in Pid /\ Occupied(task_queue, 0)
    BY <1>1, <1>9, FrontFacts DEF o, Front, Occupied
  <2>2. task_queue' = task_push(q0, old)
    BY <1>1, <1>2, <1>3, <1>4, <1>5, <1>9, <2>1, PushThenReplace DEF q0
  <2>3. o # n
    BY <1>1, <2>1, FrontFacts DEF o
  <2>4. ~InQueue(q0, o)
    BY <1>4, <1>7, <2>1, <2>3, InTasks
  <2>5. PICK k \in Cell : FirstFree(q0, k)
    BY <1>7, <2>1, <2>4, RoomFor
  <2>6. Occupied(q0, 0)
    BY <1>1, <1>4, <1>7 DEF Occupied
  <2>7. /\ Packed(task_push(q0, old))
        /\ Tasks(task_push(q0, old)) = Tasks(q0) \cup {old}
        /\ task_push(q0, old)[0] = q0[0]
    BY <1>3, <1>7, <2>1, <2>4, <2>5, <2>6, PushContents
  <2> QED
    BY <1>7, <1>9, <2>2, <2>7 DEF Front, n, o, new, old
<1> QED
  BY <1>8, <1>9

\* execute puts the new process to the front and starts it.
LEMMA QueueKeeps ==
  ASSUME TypeInv, KernelInv, ExecQueue
  PROVE  KernelInv'
<1>1. cpu.pc = "exec_queue" /\ cpu.pc \in BirthPc
      /\ UNCHANGED <<cur_pcb, pcb, pde, cr3, kstack, image>>
      /\ esp0' = cur_pcb /\ cpu' = InUser(cur_pcb)
  BY DEF ExecQueue, BirthPc
<1>2. Packed(task_queue) /\ FramesInv /\ DataInv /\ BirthInv
  BY <1>1, BirthFrom
<1> DEFINE n   == cpu.child
           o   == Front.pcb
           par == pcb[n].parent_pid
           old == [cpu.temp_cur EXCEPT !.enabled = @ /\ par = NULL]
           new == [pcb |-> n, enabled |-> TRUE, esp |-> NoEsp]
           T   == Tasks(task_queue)
           T2  == Tasks(task_queue')
<1>3. /\ Packed(task_queue') /\ Front' = new
      /\ T2 = {u \in T : u.pcb # o} \cup {new} \cup (IF n = 0 THEN {} ELSE {old})
  BY <1>1, <1>2, BirthQueue
<1>4. /\ n \in Pid /\ n # NULL /\ n \notin Queued /\ cur_pcb = n /\ cr3 = n
      /\ n = 0 <=> o = NULL
      /\ image[n] = n /\ par \in {NULL, o} /\ Alive = Queued \cup {n}
  BY <1>1, <1>2, Cells DEF BirthInv, LocalsFit
<1>5. cpu.temp_cur \in Task /\ cpu.temp_cur.enabled /\ cpu.temp_cur.pcb = o
      /\ (o # NULL => EspFits(cpu.temp_cur))
  BY <1>2 DEF TypeInv, TypeOK, Cpu, BirthInv, LocalsFit
<1>6. old.pcb = o /\ old.esp = cpu.temp_cur.esp /\ (old.enabled <=> par = NULL)
  BY <1>5 DEF Task
<1>7. new.pcb = n /\ new.enabled /\ new.esp.lvl = 0
  BY DEF NoEsp
<1>8. /\ o # NULL => o \in Queued /\ o \notin Asleep
      /\ o = NULL => Queued = {} /\ n = 0
      /\ Queued \subseteq Pid
  BY <1>2, <1>4, FrontFacts DEF BirthInv
<1>9. Asleep \subseteq Queued
  BY DEF Asleep, Queued
<1>10. o \notin Asleep
  BY <1>8, <1>9
<1>11. Queued = {u.pcb : u \in T} /\ Queued' = {u.pcb : u \in T2}
       /\ Asleep = {u.pcb : u \in {v \in T : ~v.enabled}}
       /\ Asleep' = {u.pcb : u \in {v \in T2 : ~v.enabled}}
  BY DEF Queued, Asleep, Tasks, Occupied
<1>12. T2 = Tasks(task_queue)'
  BY DEF Tasks, Occupied
<1>13. UNCHANGED pcb /\ Alive' = Alive
  BY <1>1 DEF Alive, Present
<1> HIDE DEF old, new, T, T2, n, o, par
<1>14. Queued' = Queued \cup {n}
  BY <1>3, <1>4, <1>6, <1>7, <1>8, <1>11
<1>15. Asleep' = IF par = NULL THEN Asleep ELSE Asleep \cup {o}
  <2>1. CASE n = 0
    <3>1. par = NULL /\ Queued = {}
      BY <1>4, <1>8, <2>1
    <3>2. T = {}
      BY <1>11, <3>1
    <3>3. T2 = {new}
      BY <1>3, <2>1, <3>2
    <3> QED
      BY <1>7, <1>11, <3>1, <3>2, <3>3
  <2>2. CASE n # 0
    <3>1. T2 = {u \in T : u.pcb # o} \cup {new, old}
      BY <1>3, <2>2
    <3>2. \A v \in T : ~v.enabled => v.pcb # o
      BY <1>10, <1>11
    <3>3. CASE par = NULL
      <4>1. {v \in T2 : ~v.enabled} = {v \in T : ~v.enabled}
        BY <1>6, <1>7, <3>1, <3>2, <3>3
      <4> QED
        BY <1>11, <3>3, <4>1
    <3>4. CASE par # NULL
      <4>1. {v \in T2 : ~v.enabled} = {v \in T : ~v.enabled} \cup {old}
        BY <1>6, <1>7, <3>1, <3>2, <3>4
      <4> QED
        BY <1>6, <1>11, <3>4, <4>1
    <3> QED
      BY <3>3, <3>4
  <2> QED
    BY <2>1, <2>2
<1>16. Family'
  <2>1. n \notin Asleep
    BY <1>4, <1>9
  <2>2. par = pcb[n].parent_pid
    BY DEF par
  <2>3. Family
    BY <1>2 DEF DataInv
  <2> QED
    BY <1>4, <1>8, <1>10, <1>13, <1>14, <1>15, <2>1, <2>2, <2>3, BirthFamily
<1>17. \A u \in T2 : EspFits(u)
  <2>1. EspFits(new)
    BY <1>7 DEF EspFits
  <2>2. n # 0 => EspFits(old)
    BY <1>4, <1>5, <1>6 DEF EspFits
  <2>3. \A u \in T : EspFits(u)
    BY <1>2 DEF DataInv, T
  <2> QED
    BY <1>3, <2>1, <2>2, <2>3
<1>18. \A p \in Queued' : image'[p] = p
  BY <1>1, <1>2, <1>4, <1>14 DEF DataInv
<1>19. pde' \in [Pid -> {0, 1}]
  BY <1>1, <1>2 DEF DataInv
<1>20. DataInv'
  BY <1>12, <1>16, <1>17, <1>18, <1>19 DEF DataInv, EspFits
<1>21. FramesInv'
  BY <1>1, <1>2, FramesKept
<1>22. Front'.pcb = n /\ Front'.enabled
  BY <1>3, <1>7
<1>23. cpu'.pc = "user"
  BY <1>1 DEF InUser, At
<1>24. CpuOf(cpu', n)
  BY <1>4, <1>23 DEF CpuOf, QuietPc, OnStack, KernelPc
<1>25. QuietInv'
  BY <1>1, <1>4, <1>13, <1>14, <1>22, <1>24
     DEF QuietInv, CpuOf, LocalsFit, EspFits
<1> QED
  BY <1>3, <1>20, <1>21, <1>25, ToQuiet

\* task_grab finds the task of a process that is in a packed queue.
LEMMA GrabContents ==
  ASSUME NEW q \in [Cell -> Task], Packed(q), NEW k \in Cell, Occupied(q, k)
  PROVE  task_grab(q, q[k].pcb, NoEsp)
           = [pcb |-> q[k].pcb, enabled |-> TRUE, esp |-> q[k].esp]
<1> DEFINE p == q[k].pcb
           F(i) == q[i].pcb = p /\ \A j \in Cell : j < i => q[j].pcb # p
           c == CHOOSE i \in Cell : F(i)
<1>1. \A i \in Cell : q[i].pcb = p => i = k
  BY Cells DEF Packed, Occupied
<1>2. F(k)
  <2>1. \A j \in Cell : j < k => j # k
    BY Cells
  <2> QED
    BY <1>1, <2>1
<1>3. c \in Cell /\ F(c)
  BY <1>2, Zenon
<1>4. c = k
  BY <1>1, <1>3
<1>5. InQueue(q, p)
  BY DEF InQueue
<1>6. task_grab(q, p, NoEsp) = [pcb |-> p, enabled |-> TRUE, esp |-> q[c].esp]
  BY <1>5, Zenon DEF task_grab
<1> HIDE DEF c
<1> QED
  BY <1>4, <1>6

\* The queue after an end.
LEMMA EndQueue ==
  ASSUME TypeInv, Packed(task_queue), DataInv, EndInv, cpu.pc = "halt_queue",
         HaltQueue
  PROVE  \E v \in Tasks(task_queue) :
           LET q == Front.pcb
               h == [pcb |-> cur_pcb, enabled |-> TRUE, esp |-> v.esp]
           IN  /\ Packed(task_queue') /\ Front' = h /\ v.pcb = cur_pcb
               /\ Tasks(task_queue') =
                    {u \in Tasks(task_queue) : u.pcb \notin {q, cur_pcb}} \cup {h}
<1> DEFINE q == Front.pcb
           o == cur_pcb
<1>1. task_queue \in [Cell -> Task] /\ 0 \in Cell
  BY Cells DEF TypeInv, TypeOK
<1>2. q # NULL /\ q \in Queued /\ o = pcb[q].parent_pid /\ o # NULL
  BY FrontFacts DEF EndInv
<1>3. o \in Queued /\ o # q
  BY <1>2 DEF DataInv, Family
<1>4. PICK v \in Tasks(task_queue) : v.pcb = o
  BY <1>3 DEF Queued
<1>5. PICK k \in Cell : v = task_queue[k] /\ Occupied(task_queue, k)
  BY <1>4 DEF Tasks
<1>6. k # 0 /\ task_queue[k].pcb = o
  BY <1>3, <1>4, <1>5 DEF Front
<1> DEFINE h == [pcb |-> o, enabled |-> TRUE, esp |-> v.esp]
           r == task_pop(task_queue, o)
<1>7. task_grab(task_queue, o, NoEsp) = h
  BY <1>1, <1>5, <1>6, GrabContents
<1>8. h \in Task /\ h.pcb = o
  BY <1>1, <1>5, <1>6 DEF Task
<1>9. task_queue' = [r EXCEPT ![0] = h]
  BY <1>7, <1>8 DEF HaltQueue
<1>10. /\ Packed(r) /\ Tasks(r) = {u \in Tasks(task_queue) : u.pcb # o}
       /\ r[0] = Front
  BY <1>1, <1>5, <1>6, PopContents DEF Front
<1>11. r \in [Cell -> Task]
  BY <1>1, PopType
<1> HIDE DEF r, h
<1>12. ~InQueue(r, o)
  BY <1>2, <1>10, InTasks
<1>13. /\ Packed(task_queue') /\ task_queue'[0] = h
       /\ Tasks(task_queue') = {u \in Tasks(r) : u.pcb # r[0].pcb} \cup {h}
  <2> DEFINE z == [r EXCEPT ![0] = h]
  <2>1. h.pcb # NULL /\ ~InQueue(r, h.pcb)
    BY <1>2, <1>8, <1>12, Zenon
  <2>2. /\ Packed(z) /\ z[0] = h
        /\ Tasks(z) = {u \in Tasks(r) : u.pcb # r[0].pcb} \cup {h}
    BY <1>8, <1>10, <1>11, <2>1, ReplaceFront, Zenon
  <2>3. task_queue' = z
    BY <1>9
  <2> HIDE DEF z
  <2> QED
    BY <2>2, <2>3
<1>14. Tasks(task_queue') =
         {u \in Tasks(task_queue) : u.pcb \notin {q, o}} \cup {h}
  BY <1>10, <1>13
<1> QED
  BY <1>4, <1>13, <1>14 DEF Front, h

\* halt puts the parent to the front and returns to user mode.
LEMMA HaltQueueKeeps ==
  ASSUME TypeInv, KernelInv, HaltQueue
  PROVE  KernelInv'
<1>1. cpu.pc = "halt_queue" /\ cpu.pc \in EndPc
      /\ UNCHANGED <<cur_pcb, pcb, pde, cr3, esp0, kstack, image>> /\ ExecRet
  BY DEF HaltQueue, EndPc
<1>2. Packed(task_queue) /\ FramesInv /\ DataInv /\ EndInv
  BY <1>1, Phases DEF KernelInv, PhaseInv
<1> DEFINE q  == Front.pcb
           o  == cur_pcb
           T  == Tasks(task_queue)
           T2 == Tasks(task_queue')
<1>3. PICK v \in T :
        LET h == [pcb |-> o, enabled |-> TRUE, esp |-> v.esp]
        IN  /\ Packed(task_queue') /\ Front' = h /\ v.pcb = o
            /\ T2 = {u \in T : u.pcb \notin {q, o}} \cup {h}
  BY <1>1, <1>2, EndQueue
<1> DEFINE h == [pcb |-> o, enabled |-> TRUE, esp |-> v.esp]
<1>4. /\ Packed(task_queue') /\ Front' = h /\ v.pcb = o
      /\ T2 = {u \in T : u.pcb \notin {q, o}} \cup {h}
  BY <1>3
<1>5. h.pcb = o /\ h.enabled /\ h.esp = v.esp
  OBVIOUS
<1>6. /\ q # NULL /\ q \in Queued /\ q \notin Asleep
      /\ o = pcb[q].parent_pid /\ o # NULL /\ cr3 = o /\ esp0 = o
      /\ Alive = Queued \ {q}
  BY <1>1, <1>2, FrontFacts DEF EndInv
<1>7. o # q
  BY <1>2, <1>6 DEF DataInv, Family
<1>8. /\ Queued = {u.pcb : u \in T} /\ Queued' = {u.pcb : u \in T2}
      /\ Asleep = {u.pcb : u \in {w \in T : ~w.enabled}}
      /\ Asleep' = {u.pcb : u \in {w \in T2 : ~w.enabled}}
  BY DEF Queued, Asleep, Tasks, Occupied
<1>9. T2 = Tasks(task_queue)'
  BY DEF Tasks, Occupied
<1>10. UNCHANGED pcb /\ Alive' = Alive
  BY <1>1 DEF Alive, Present
<1> HIDE DEF h, T, T2, q
<1>11. Queued' = Queued \ {q}
  <2>1. \A u \in T2 : u.pcb \in Queued /\ u.pcb # q
    BY <1>3, <1>4, <1>5, <1>7, <1>8
  <2>2. ASSUME NEW p \in Queued, p # q PROVE p \in Queued'
    BY <1>4, <1>5, <1>8, <2>2
  <2> QED
    BY <1>8, <2>1, <2>2
<1>12. Asleep' = Asleep \ {o}
  <2>1. \A w \in T : ~w.enabled => w.pcb # q
    BY <1>6, <1>8
  <2>2. {w \in T2 : ~w.enabled} = {w \in {x \in T : ~x.enabled} : w.pcb # o}
    BY <1>4, <1>5, <2>1
  <2> QED
    BY <1>8, <2>2
<1>13. Family'
  <2>1. Family
    BY <1>2 DEF DataInv
  <2> QED
    BY <1>6, <1>10, <1>11, <1>12, <2>1, EndFamily
<1>14. \A u \in T2 : EspFits(u)
  <2>1. \A u \in T : EspFits(u)
    BY <1>2 DEF DataInv, T
  <2>2. EspFits(h)
    BY <1>4, <1>5, <2>1 DEF EspFits
  <2> QED
    BY <1>4, <2>1, <2>2
<1>15. \A p \in Queued' : image'[p] = p
  BY <1>1, <1>2, <1>11 DEF DataInv
<1>16. pde' \in [Pid -> {0, 1}]
  BY <1>1, <1>2 DEF DataInv
<1>17. DataInv'
  BY <1>9, <1>13, <1>14, <1>15, <1>16 DEF DataInv, EspFits
<1>18. FramesInv'
  BY <1>1, <1>2, FramesKept
<1>19. CASE Fault
  BY <1>4, <1>19, ToFault
<1>20. CASE ~Fault
  <2>1. kstack[0] # <<>> /\ kstack[0][1].kind = "syscall" /\ cpu' = kstack[0][1].cpu
    BY <1>1, <1>20 DEF ExecRet
  <2>2. kstack[0] \in Seq(Frame) /\ 0 \in Stack
    BY Constants DEF TypeInv, TypeOK
  <2>3. 1 \in 1 .. Len(kstack[0])
    BY <2>1, <2>2
  <2>4. cpu'.pc = "user"
    BY <2>1, <2>2, <2>3 DEF TypeInv, FramesOK, FrameOK
  <2>5. CpuOf(cpu', o)
    BY <1>6, <2>4 DEF CpuOf, QuietPc, OnStack, KernelPc
  <2>6. Front'.pcb = o /\ Front'.enabled
    BY <1>4, <1>5
  <2>7. QuietInv'
    BY <1>1, <1>6, <1>10, <1>11, <2>5, <2>6
       DEF QuietInv, CpuOf, LocalsFit, EspFits
  <2> QED
    BY <1>4, <1>17, <1>18, <2>7, ToQuiet
<1> QED
  BY <1>19, <1>20

\* Start-up.
LEMMA InitKernel ==
  ASSUME Init
  PROVE  KernelInv
<1>1. \A i \in Cell : task_queue[i] = NoTask
  BY DEF Init
<1>2. 0 \in Cell /\ NoTask.pcb = NULL /\ NoTask.enabled
  BY Cells DEF NoTask
<1>3. Packed(task_queue) /\ Tasks(task_queue) = {}
  BY <1>1, <1>2 DEF Packed, Tasks, Occupied
<1>4. Queued = {} /\ Front.pcb = NULL /\ Front.enabled
  BY <1>1, <1>2, <1>3 DEF Queued, Front
<1>5. DataInv
  BY <1>3, <1>4 DEF DataInv, Family, Init
<1>6. Alive = {}
  BY DEF Init, Alive, Present
<1>7. cpu.pc = "hlt" /\ cpu.pc \in QuietPc
  BY DEF Init, At, QuietPc
<1>8. CpuOf(cpu, NULL)
  BY <1>7 DEF CpuOf, QuietPc, OnStack, KernelPc
<1>9. QuietInv
  BY <1>4, <1>6, <1>8 DEF QuietInv, Init, Boot
<1>10. FramesInv
  BY DEF FramesInv, Init
<1> QED
  BY <1>3, <1>5, <1>7, <1>9, <1>10, Phases DEF KernelInv, PhaseInv

\* The invariant holds as long as the timer interrupts execute and halt only
\* at points before they have written anything shared.
LEMMA KernelInvariance ==
  ASSUME PreemptAt \subseteq SafePoints
  PROVE  Spec => [](TypeInv /\ KernelInv)
<1>1. Init => KernelInv
  BY InitKernel
<1>2. TypeInv /\ KernelInv /\ [Next]_vars => KernelInv'
  <2> SUFFICES ASSUME TypeInv, KernelInv, [Next]_vars PROVE KernelInv'
    OBVIOUS
  <2>1. CASE Pit
    BY <2>1, SpawnKeeps, PreemptKeeps, RotateKeeps, SwitchKeeps DEF Pit
  <2>2. CASE Execute
    BY <2>2, SyscallKeeps, EnterKeeps, ReturnKeeps, LoadKeeps, CopyKeeps,
       FillKeeps, QueueKeeps DEF Execute
  <2>3. CASE Halt
    BY <2>3, UserKeeps, ClearKeeps, PagingKeeps, HaltSwitchKeeps, HaltQueueKeeps
       DEF Halt
  <2>4. CASE Vidmap \/ SysRead \/ ReadReturn
    BY <2>4, UserKeeps, SyscallKeeps, ReturnKeeps
  <2>5. CASE UNCHANGED vars
    <3>1. UNCHANGED <<task_queue, cur_pcb, pcb, pde, cr3, esp0, kstack, cpu, image>>
      BY <2>5 DEF vars
    <3>2. Packed(task_queue')
      BY <3>1 DEF KernelInv
    <3>3. CASE cpu.pc = "fault"
      BY <3>1, <3>2, <3>3 DEF KernelInv, Packed, Occupied
    <3>4. CASE cpu.pc # "fault"
      <4>1. FramesInv /\ DataInv /\ PhaseInv
        BY <3>4 DEF KernelInv
      <4>2. DataInv' /\ Queued' = Queued /\ Front' = Front
        BY <3>1, <4>1, QueueKept DEF DataInv
      <4>3. FramesInv' /\ Alive' = Alive
        BY <3>1, <4>1, FramesKept DEF Alive, Present
      <4>4. PhaseInv'
        <5>1. QuietInv => QuietInv'
          BY <3>1, <4>2, <4>3 DEF QuietInv, CpuOf, LocalsFit, EspFits
        <5>2. PitInv => PitInv'
          BY <3>1, <4>2, <4>3 DEF PitInv
        <5>3. BirthInv => BirthInv'
          BY <3>1, <4>2, <4>3 DEF BirthInv, LocalsFit, EspFits
        <5>4. EndInv => EndInv'
          BY <3>1, <4>2, <4>3 DEF EndInv
        <5> QED
          BY <3>1, <4>1, <5>1, <5>2, <5>3, <5>4 DEF PhaseInv
      <4> QED
        BY <3>2, <4>2, <4>3, <4>4 DEF KernelInv, Packed, Occupied
    <3> QED
      BY <3>3, <3>4
  <2> QED
    BY <2>1, <2>2, <2>3, <2>4, <2>5 DEF Next, Spin
<1> QED
  BY <1>1, <1>2, TypeInvariance, PTL DEF Spec

-----------------------------------------------------------------------------
(* What the kernel relies on *)

\* In a settled state the invariants of the quiet places hold.
LEMMA SettledQuiet ==
  ASSUME KernelInv, Settled
  PROVE  Packed(task_queue) /\ DataInv /\ QuietInv /\ Front.pcb # NULL
<1>1. cpu.pc \in QuietPc
  BY DEF Settled, QuietPc
<1>2. Packed(task_queue) /\ DataInv /\ QuietInv
  BY <1>1, QuietFrom
<1> QED
  BY <1>2 DEF Settled, QuietInv, CpuOf

\* While a process runs, the PCB pointer, the page directory, the stack of the
\* next trap and the front of the queue agree on which one it is, and it is
\* not asleep (pit_interrupt, execute, halt).
THEOREM CoherentCorrect ==
  ASSUME PreemptAt \subseteq SafePoints
  PROVE  Spec => []Coherent
<1>1. TypeInv /\ KernelInv => Coherent
  <2> SUFFICES ASSUME TypeInv, KernelInv, Settled
               PROVE  /\ cur_pcb \in Pid /\ Present(cur_pcb)
                      /\ cr3 = cur_pcb /\ esp0 = cur_pcb
                      /\ task_queue[0].pcb = cur_pcb /\ task_queue[0].enabled
    BY DEF Coherent
  <2>1. Packed(task_queue) /\ QuietInv /\ Front.pcb # NULL
    BY SettledQuiet
  <2>2. Front.pcb \in Queued /\ Front.pcb \in Pid
    BY <2>1, FrontFacts
  <2> QED
    BY <2>1, <2>2 DEF QuietInv, Alive, Front
<1> QED
  BY <1>1, KernelInvariance, PTL

\* The queue never has a hole or a task twice, and while a process runs it
\* holds exactly the processes that own a page directory: task_push never
\* finds it full and no pid leaks (task_push, task_pop, task_grab).
THEOREM QueueCorrect ==
  ASSUME PreemptAt \subseteq SafePoints
  PROVE  Spec => []QueueExact
<1>1. TypeInv /\ KernelInv => QueueExact
  <2> SUFFICES ASSUME TypeInv, KernelInv PROVE NoDuplicates /\ NothingLost
    BY DEF QueueExact
  <2>1. NoDuplicates
    BY DEF KernelInv, Packed, NoDuplicates
  <2>2. NothingLost
    <3> SUFFICES ASSUME Settled, NEW p \in Pid
                 PROVE  Present(p) <=> InQueue(task_queue, p)
      BY DEF NothingLost
    <3>1. Alive = Queued
      BY SettledQuiet DEF QuietInv
    <3>2. InQueue(task_queue, p) <=> p \in Queued
      BY InTasks, Cells DEF Queued
    <3> QED
      BY <3>1, <3>2 DEF Alive
  <2> QED
    BY <2>1, <2>2
<1> QED
  BY <1>1, KernelInvariance, PTL

\* While a process runs, every live process's page holds its own executable
\* (file_to_mem).
THEOREM IsolationCorrect ==
  ASSUME PreemptAt \subseteq SafePoints
  PROVE  Spec => []Isolation
<1>1. TypeInv /\ KernelInv => Isolation
  BY SettledQuiet DEF Isolation, QuietInv, DataInv, Alive
<1> QED
  BY <1>1, KernelInvariance, PTL

\* While a process runs, a process sleeps if and only if it waits for a child,
\* and it never has two (execute, halt).
THEOREM SleepsCorrect ==
  ASSUME PreemptAt \subseteq SafePoints
  PROVE  Spec => []SleepsForChild
<1>1. TypeInv /\ KernelInv => SleepsForChild
  <2> SUFFICES ASSUME TypeInv, KernelInv, Settled, NEW p \in Pid, Present(p)
               PROVE  Cardinality(Children(p)) = (IF EnabledTask(p) THEN 0 ELSE 1)
    BY DEF SleepsForChild
  <2>1. Packed(task_queue) /\ Family /\ Alive = Queued
    BY SettledQuiet DEF DataInv, QuietInv
  <2>2. p \in Queued /\ Children(p) = {c \in Queued : pcb[c].parent_pid = p}
    BY <2>1 DEF Alive, Children
  <2>3. EnabledTask(p) <=> p \notin Asleep
    <3>1. PICK i \in Cell : Occupied(task_queue, i) /\ task_queue[i].pcb = p
      BY <2>2 DEF Queued, Tasks
    <3>2. \A j \in Cell : task_queue[j].pcb = p => j = i
      BY <2>1, <3>1, Cells DEF Packed, Occupied
    <3>3. EnabledTask(p) <=> task_queue[i].enabled
      BY <3>1, <3>2 DEF EnabledTask
    <3>4. p \in Asleep <=> ~task_queue[i].enabled
      BY <3>1, <3>2 DEF Asleep, Tasks, Occupied
    <3> QED
      BY <3>3, <3>4
  <2>4. CASE p \notin Asleep
    <3>1. Children(p) = {}
      BY <2>1, <2>2, <2>4 DEF Family
    <3> QED
      BY <2>3, <2>4, <3>1, FS_EmptySet
  <2>5. CASE p \in Asleep
    <3>1. PICK c \in Queued : pcb[c].parent_pid = p
      BY <2>1, <2>2, <2>5 DEF Family
    <3>2. Children(p) = {c}
      <4>1. p # NULL
        BY Cells
      <4>2. \A d \in Queued : pcb[d].parent_pid = p => d = c
        BY <2>1, <3>1, <4>1 DEF Family
      <4> QED
        BY <2>2, <3>1, <4>2
    <3> QED
      BY <2>3, <2>5, <3>2, FS_Singleton
  <2> QED
    BY <2>4, <2>5
<1> QED
  BY <1>1, KernelInvariance, PTL

\* No step changes the parent or the console of a live process, except for the
\* one that the running execute creates (file_to_mem, execute).
THEOREM PcbCorrect ==
  ASSUME PreemptAt \subseteq SafePoints
  PROVE  Spec => PcbStable
<1> DEFINE Stable ==
      \A p \in Pid : Present(p) /\ Present(p)' /\ p # cpu.child =>
        pcb'[p].parent_pid = pcb[p].parent_pid /\ pcb'[p].con = pcb[p].con
<1>1. TypeInv /\ KernelInv /\ [Next]_vars => [Stable]_vars
  <2> SUFFICES ASSUME TypeInv, KernelInv, Next PROVE Stable
    OBVIOUS
  <2>1. pcb \in [Pid -> [parent_pid : PcbOrNull, con : Nat, vidmap_check : BOOLEAN]]
    BY DEF TypeInv, TypeOK
  <2>2. CASE UNCHANGED pcb
    BY <2>2
  <2>3. ASSUME NEW b, pcb' = [pcb EXCEPT ![cur_pcb].vidmap_check = b]
        PROVE  Stable
    BY <2>1, <2>3
  <2>4. CASE ExecLoad
    <3>1. PICK n \in Pid :
            /\ FreePid(n)
            /\ \E c : pcb' = [pcb EXCEPT ![n].parent_pid = n - 1, ![n].con = c]
      BY <2>4, LoadFacts, Zenon
    <3>2. \A p \in Pid : p # n => pcb'[p] = pcb[p]
      BY <2>1, <3>1
    <3> QED
      BY <3>1, <3>2 DEF FreePid
  <2>5. CASE ExecFill
    <3>1. cpu.pc \in BirthPc
      BY <2>5 DEF ExecFill, BirthPc
    <3>2. cur_pcb = cpu.child
      BY <3>1, BirthFrom DEF BirthInv
    <3>3. \A p \in Pid : p # cur_pcb => pcb'[p] = pcb[p]
      BY <2>1, <2>5 DEF ExecFill
    <3> QED
      BY <3>2, <3>3
  <2>6. CASE HaltClear
    BY <2>3, <2>6 DEF HaltClear
  <2>7. CASE Vidmap
    BY <2>3, <2>7 DEF Vidmap
  <2>8. ASSUME ~ExecLoad, ~ExecFill, ~HaltClear, ~Vidmap PROVE UNCHANGED pcb
    <3>1. CASE Pit
      BY <3>1 DEF Pit, PitSpawn, PitPreempt, PitRotate, PitSwitch
    <3>2. CASE Execute
      BY <2>8, <3>2 DEF Execute, SysExecute, ExecEnter, ExecFail, ExecCopy, ExecQueue
    <3>3. CASE Halt
      BY <2>8, <3>3 DEF Halt, HaltRestart, HaltPaging, HaltSwitch, HaltQueue
    <3>4. CASE SysRead \/ ReadReturn \/ Spin
      BY <3>4 DEF SysRead, ReadReturn, Spin, vars
    <3> QED
      BY <2>8, <3>1, <3>2, <3>3, <3>4 DEF Next
  <2> QED
    BY <2>2, <2>4, <2>5, <2>6, <2>7, <2>8
<1>2. TypeInv /\ KernelInv /\ [Next]_vars =>
        [\A p \in Pid : Present(p) /\ Present(p)' /\ p # cpu.child =>
           pcb'[p].parent_pid = pcb[p].parent_pid /\ pcb'[p].con = pcb[p].con]_vars
  BY <1>1
<1> QED
  BY <1>2, KernelInvariance, PTL DEF Spec, PcbStable

-----------------------------------------------------------------------------
(* Consoles, when the timer interrupts neither execute nor halt *)

Base == 0 .. 2

\* execute runs on behalf of pit_interrupt.
Spawning ==
  /\ cpu.pc \in {"exec_enter", "exec_load"}
  /\ kstack[cpu.stk][Len(kstack[cpu.stk])].kind = "isr"

Lag == IF Spawning THEN 1 ELSE 0

\* Processes 0, 1 and 2 are the first ones and have no parent, so they never
\* end; pit_interrupt has started no more shells than there are processes
\* among them, but for the one it is starting.
StartInv ==
  /\ \A p \in Alive : \A q \in Base : q < p => q \in Alive
  /\ \A p \in Alive \cap Base :
       \/ pcb[p].parent_pid = NULL
       \/ p = cpu.child /\ cpu.pc \in {"exec_copy", "exec_fill"}
  /\ cpu.pc \in {"exec_load", "exec_copy", "exec_fill"} /\ cpu.parent # NULL =>
       Base \subseteq Alive
  /\ cpu.pc \in {"exec_copy", "exec_fill"} /\ cpu.parent # NULL =>
       cpu.child \notin Base
  /\ Spawning => ~(Base \subseteq Alive)
  /\ con_idx <= 3
  /\ \A i \in Base : i + Lag < con_idx => i \in Alive

ConInv ==
  /\ con_ovr.idx < MAX_VTERMS
  /\ \A p \in Alive : pcb[p].con < MAX_VTERMS
  /\ cpu.pc # "fault" => StartInv

\* The test for start-up is right: it holds as long as one of the first three
\* processes is missing.
LEMMA StartingIs ==
  ASSUME TypeInv, Packed(task_queue), QuietInv, StartInv
  PROVE  Starting <=> ~(Base \subseteq Alive)
<1> DEFINE c(i) == task_queue[i].pcb
<1>1. Alive = Queued /\ Queued \subseteq Pid /\ Pid \subseteq Nat
  BY FrontFacts, Cells DEF QuietInv
<1>2. 0 \in Cell /\ 1 \in Cell /\ 2 \in Cell
  BY MaxProcessAssumption DEF Cell
<1>3. ASSUME Starting PROVE ~(Base \subseteq Alive)
  <2>1. CASE cur_pcb = NULL
    <3>1. Alive = {}
      BY <1>1, <2>1, FrontFacts DEF QuietInv
    <3> QED
      BY <3>1 DEF Base
  <2>2. CASE c(2) = NULL
    <3>1. \A i \in Cell : Occupied(task_queue, i) => i = 0 \/ i = 1
      <4>1. \A i \in Cell : i = 0 \/ i = 1 \/ i = 2 \/ i > 2
        BY Cells
      <4> QED
        BY <1>2, <2>2, <4>1 DEF Packed, Occupied
    <3>2. \A p \in Queued : p = c(0) \/ p = c(1)
      BY <3>1 DEF Queued, Tasks
    <3> HIDE DEF c
    <3>3. 0 \in Base /\ 1 \in Base /\ 2 \in Base
      BY DEF Base
    <3> QED
      BY <1>1, <3>2, <3>3
  <2> QED
    BY <1>3, <2>1, <2>2 DEF Starting
<1>4. ASSUME ~Starting PROVE Base \subseteq Alive
  <2>1. Occupied(task_queue, 2) /\ Occupied(task_queue, 1) /\ Occupied(task_queue, 0)
    BY <1>2, <1>4 DEF Starting, Occupied, Packed
  <2>2. c(0) # c(1) /\ c(0) # c(2) /\ c(1) # c(2)
    BY <1>2, <2>1 DEF Packed
  <2>3. c(0) \in Queued /\ c(1) \in Queued /\ c(2) \in Queued
    BY <1>2, <2>1 DEF Queued, Tasks
  <2> HIDE DEF c
  <2>4. c(0) \in Alive /\ c(1) \in Alive /\ c(2) \in Alive
        /\ c(0) \in Nat /\ c(1) \in Nat /\ c(2) \in Nat
    BY <1>1, <2>3
  <2>5. c(0) >= 2 \/ c(1) >= 2 \/ c(2) >= 2
    BY <2>2, <2>4
  <2>6. PICK m \in Nat : m \in Alive /\ m >= 2
    BY <2>4, <2>5
  <2>7. \A q \in Base : q < m => q \in Alive
    BY <2>6 DEF StartInv
  <2> QED
    BY <2>6, <2>7 DEF Base
<1> QED
  BY <1>3, <1>4

\* Steps that touch no console, no page directory and no parent.
LEMMA StartKept ==
  ASSUME ConInv, cpu.pc # "fault", Lag = 0, ~Spawning', Alive' = Alive,
         UNCHANGED <<con_ovr, con_idx>>,
         \A p \in Alive : /\ pcb'[p].parent_pid = pcb[p].parent_pid
                          /\ pcb'[p].con = pcb[p].con,
         cpu.pc \notin {"exec_copy", "exec_fill"},
         cpu'.pc \notin {"exec_load", "exec_copy", "exec_fill"}
  PROVE  ConInv'
<1>1. StartInv
  BY DEF ConInv
<1>2. Lag' = 0
  BY DEF Lag
<1>3. StartInv'
  BY <1>1, <1>2 DEF StartInv
<1> QED
  BY <1>3 DEF ConInv

\* A machine that has faulted keeps the consoles it has.
LEMMA StartFault ==
  ASSUME ConInv, cpu'.pc = "fault", Alive' = Alive, UNCHANGED <<con_ovr, pcb>>
  PROVE  ConInv'
BY DEF ConInv

\* pit_interrupt hands out the next console.
LEMMA SpawnConsole ==
  ASSUME TypeInv, KernelInv, ConInv, PreemptAt = {}, PitSpawn
  PROVE  ConInv'
<1>1. cpu.pc \in {"hlt", "user", "read"} /\ cpu.pc \in QuietPc
  BY DEF PitSpawn, Interruptible, QuietPc
<1>2. Packed(task_queue) /\ QuietInv /\ StartInv
  BY <1>1, QuietFrom DEF ConInv
<1>3. ~(Base \subseteq Alive)
  BY <1>2, StartingIs DEF PitSpawn
<1>4. Lag = 0
  BY <1>1 DEF Lag, Spawning
<1>5. con_idx \in Nat /\ con_idx < 3
  <2>1. con_idx \in Nat /\ con_idx <= 3
    BY <1>2 DEF TypeInv, TypeOK, StartInv
  <2>2. PICK i \in Base : i \notin Alive
    BY <1>3
  <2>3. ~(i + 0 < con_idx)
    BY <1>2, <1>4, <2>2 DEF StartInv
  <2> QED
    BY <2>1, <2>2, <2>3 DEF Base
<1>6. UNCHANGED <<pcb, pde>> /\ con_idx' = con_idx + 1 /\ con_ovr'.idx = con_idx
      /\ cpu'.pc = "exec_enter"
  BY DEF PitSpawn, At
<1>7. Alive' = Alive
  BY <1>6 DEF Alive, Present
<1>8. Lag' = 1
  <2>1. kstack' = [kstack EXCEPT ![IntStack] = IntFrames] /\ cpu'.stk = IntStack
    BY DEF PitSpawn, SaveContext, At
  <2>2. IntStack \in Stack /\ kstack \in [Stack -> Seq(Frame)] /\ cpu \in Cpu
    BY DEF TypeInv, TypeOK, IntStack, Cpu
  <2>3. kstack'[cpu'.stk] = IntFrames
    BY <2>1, <2>2
  <2> DEFINE below == IF cpu.pc = "user" THEN <<>> ELSE kstack[IntStack]
             f == [kind |-> "isr", cpu |-> cpu]
  <2>4. below \in Seq(Frame) /\ f \in Frame /\ f.kind = "isr"
        /\ IntFrames = Append(below, f)
    <3>1. IntFrames = Append(below, f)
      BY DEF IntFrames
    <3>2. below \in Seq(Frame)
      BY <2>2
    <3>3. f \in Frame /\ f.kind = "isr"
      BY <2>2 DEF Frame
    <3> QED
      BY <3>1, <3>2, <3>3
  <2> HIDE DEF below, f
  <2>5. IntFrames[Len(IntFrames)] = f
    BY <2>4
  <2> QED
    BY <1>6, <2>3, <2>4, <2>5 DEF Lag, Spawning
<1>9. \A i \in Base : i + 1 < con_idx' => i \in Alive
  BY <1>2, <1>4, <1>5, <1>6 DEF StartInv, Base
<1>10. StartInv'
  BY <1>1, <1>2, <1>3, <1>5, <1>6, <1>7, <1>8, <1>9 DEF StartInv
<1> QED
  BY <1>5, <1>6, <1>7, <1>10 DEF ConInv, MAX_VTERMS

\* execute decides whether the new process gets a parent.
LEMMA EnterConsole ==
  ASSUME TypeInv, KernelInv, ConInv, ExecEnter
  PROVE  ConInv'
<1>1. cpu.pc = "exec_enter" /\ cpu.pc \in QuietPc
      /\ UNCHANGED <<pcb, pde, kstack, con_ovr, con_idx>>
  BY DEF ExecEnter, QuietPc, SafePoints
<1>2. Packed(task_queue) /\ QuietInv /\ StartInv
  BY <1>1, QuietFrom DEF ConInv
<1>3. /\ cpu'.pc = "exec_load" /\ cpu'.stk = cpu.stk
      /\ cpu'.parent = IF Starting THEN NULL ELSE cur_pcb
  BY DEF ExecEnter, TypeInv, TypeOK, Cpu
<1>4. cpu'.parent # NULL => Base \subseteq Alive
  BY <1>2, <1>3, StartingIs
<1>5. Alive' = Alive
  BY <1>1 DEF Alive, Present
<1>6. Spawning' <=> Spawning
  BY <1>1, <1>3 DEF Spawning
<1>7. Lag' = Lag
  BY <1>6 DEF Lag
<1>8. StartInv'
  BY <1>1, <1>2, <1>3, <1>4, <1>5, <1>6, <1>7 DEF StartInv
<1> QED
  BY <1>1, <1>5, <1>8 DEF ConInv

\* file_to_mem puts the new process on a console.
LEMMA LoadConsole ==
  ASSUME TypeInv, KernelInv, ConInv, ExecLoad
  PROVE  ConInv'
<1>1. cpu.pc = "exec_load" /\ cpu.pc \in QuietPc /\ UNCHANGED con_idx
  BY DEF ExecLoad, QuietPc, SafePoints
<1>2. Packed(task_queue) /\ DataInv /\ QuietInv /\ StartInv
  BY <1>1, QuietFrom DEF ConInv
<1>3. PICK n \in Pid :
        /\ FreePid(n) /\ pde' = [pde EXCEPT ![n] = @ + 1]
        /\ pcb' = [pcb EXCEPT
             ![n].parent_pid = n - 1,
             ![n].con = IF n = 0 THEN 0
                        ELSE IF con_ovr.flag THEN con_ovr.idx
                        ELSE IF cur_pcb # NULL THEN pcb[cur_pcb].con
                        ELSE 0]
        /\ con_ovr' = [con_ovr EXCEPT !.flag = @ /\ n = 0]
        /\ cpu' = [cpu EXCEPT !.pc = "exec_copy", !.child = n]
  BY DEF ExecLoad
<1>4. n \notin Alive /\ (\A q \in Pid : q < n => q \in Alive) /\ n \in Nat
  BY <1>3, Cells DEF FreePid, Alive
<1>5. Alive' = Alive \cup {n}
  <2>1. pde \in [Pid -> {0, 1}] /\ pde[n] = 0
    BY <1>2, <1>4, PresentIs DEF DataInv, Alive
  <2>2. \A p \in Pid : p # n => (Present(p)' <=> Present(p))
    BY <1>3, <2>1 DEF Present
  <2>3. Present(n)'
    BY <1>3, <2>1 DEF Present
  <2> QED
    BY <2>2, <2>3 DEF Alive
<1> DEFINE c == IF n = 0 THEN 0
                ELSE IF con_ovr.flag THEN con_ovr.idx
                ELSE IF cur_pcb # NULL THEN pcb[cur_pcb].con
                ELSE 0
<1>6. c < MAX_VTERMS
  <2>1. cur_pcb # NULL => cur_pcb \in Alive
    BY <1>2, FrontFacts DEF QuietInv
  <2>2. 0 < MAX_VTERMS
    BY DEF MAX_VTERMS
  <2>3. con_ovr.idx < MAX_VTERMS /\ \A p \in Alive : pcb[p].con < MAX_VTERMS
    BY DEF ConInv
  <2> HIDE DEF MAX_VTERMS
  <2> QED
    BY <2>1, <2>2, <2>3
<1>7. pcb'[n].con = c /\ \A p \in Pid : p # n => pcb'[p] = pcb[p]
  BY <1>3 DEF TypeInv, TypeOK
<1> HIDE DEF c
<1>8. \A p \in Alive' : pcb'[p].con < MAX_VTERMS
  BY <1>4, <1>5, <1>6, <1>7 DEF ConInv, Alive
<1>9. con_ovr'.idx < MAX_VTERMS
  <2>1. con_ovr'.idx = con_ovr.idx
    BY <1>3 DEF TypeInv, TypeOK
  <2> QED
    BY <2>1 DEF ConInv
<1>10. cpu'.pc = "exec_copy" /\ cpu'.child = n /\ cpu'.parent = cpu.parent
  BY <1>3 DEF TypeInv, TypeOK, Cpu
<1>11. Base \subseteq Pid /\ Alive \subseteq Pid /\ Pid \subseteq Nat
  BY MaxProcessAssumption DEF Base, Pid, Alive
<1>12. StartInv'
  <2>1. \A p \in Alive' : \A q \in Base : q < p => q \in Alive'
    BY <1>2, <1>4, <1>5, <1>11 DEF StartInv
  <2>2. \A p \in Alive' \cap Base : pcb'[p].parent_pid = NULL \/ p = cpu'.child
    BY <1>1, <1>2, <1>5, <1>7, <1>10, <1>11 DEF StartInv
  <2>3. cpu'.parent # NULL => Base \subseteq Alive /\ n \notin Base
    BY <1>1, <1>2, <1>4, <1>10 DEF StartInv
  <2>4. ~Spawning' /\ Lag' = 0
    BY <1>10 DEF Spawning, Lag
  <2>5. con_idx' <= 3
    BY <1>1, <1>2 DEF StartInv
  <2>6. \A i \in Base : i < con_idx' => i \in Alive'
    <3> TAKE i \in Base
    <3> HAVE i < con_idx'
    <3>1. i \in Nat /\ con_idx \in Nat /\ con_idx' = con_idx
      BY <1>1, <1>11 DEF TypeInv, TypeOK
    <3>2. CASE n <= i
      <4>1. n = i
        <5> SUFFICES ASSUME n < i PROVE FALSE
          BY <1>4, <3>1, <3>2
        <5>1. n \in Base
          BY <1>4, <3>1 DEF Base
        <5>2. n + Lag < con_idx
          BY <1>4, <3>1 DEF Lag
        <5> QED
          BY <1>2, <1>4, <5>1, <5>2 DEF StartInv
      <4> QED
        BY <1>5, <4>1
    <3>3. CASE i < n
      BY <1>4, <1>5, <1>11, <3>3
    <3> QED
      BY <1>4, <3>1, <3>2, <3>3
  <2>7. \A i \in Base : i + 0 < con_idx' => i \in Alive'
    BY <1>11, <2>6
  <2> QED
    BY <1>5, <1>10, <2>1, <2>2, <2>3, <2>4, <2>5, <2>7 DEF StartInv
<1> QED
  BY <1>8, <1>9, <1>12 DEF ConInv

\* execute gives the new process its parent.
LEMMA FillConsole ==
  ASSUME TypeInv, KernelInv, ConInv, ExecCopy \/ ExecFill
  PROVE  ConInv'
<1>1. cpu.pc \in {"exec_copy", "exec_fill"} /\ cpu.pc \in BirthPc
      /\ UNCHANGED <<pde, con_ovr, con_idx>>
  BY DEF ExecCopy, ExecFill, BirthPc
<1>2. BirthInv /\ StartInv
  BY <1>1, BirthFrom DEF ConInv
<1>3. Alive' = Alive /\ Alive \subseteq Pid
  BY <1>1 DEF Alive, Present
<1>4. Lag = 0 /\ ~Spawning
  BY <1>1 DEF Lag, Spawning
<1>5. CASE ExecCopy
  <2>1. cpu'.pc = "exec_fill" /\ cpu'.parent = cpu.parent /\ cpu'.child = cpu.child
        /\ UNCHANGED pcb
    BY <1>5 DEF ExecCopy, TypeInv, TypeOK, Cpu
  <2>2. ~Spawning' /\ Lag' = 0
    BY <2>1 DEF Spawning, Lag
  <2>3. StartInv'
    BY <1>1, <1>2, <1>3, <1>4, <2>1, <2>2 DEF StartInv
  <2> QED
    BY <1>1, <1>3, <2>1, <2>3 DEF ConInv
<1>6. CASE ExecFill
  <2> DEFINE n == cpu.child
  <2>1. n \in Pid /\ cur_pcb = n
    BY <1>2 DEF BirthInv
  <2>2. cpu'.pc = "exec_queue"
    BY <1>6 DEF ExecFill, TypeInv, TypeOK, Cpu
  <2>3. /\ pcb'[n].parent_pid = cpu.parent /\ pcb'[n].con = pcb[n].con
        /\ \A p \in Pid : p # n => pcb'[p] = pcb[p]
    BY <1>6, <2>1 DEF ExecFill, TypeInv, TypeOK
  <2>4. ~Spawning' /\ Lag' = 0
    BY <2>2 DEF Spawning, Lag
  <2>5. \A p \in Alive \cap Base : pcb'[p].parent_pid = NULL
    BY <1>1, <1>2, <1>3, <2>3 DEF StartInv
  <2>6. StartInv'
    BY <1>1, <1>2, <1>3, <1>4, <2>2, <2>4, <2>5 DEF StartInv
  <2>7. \A p \in Alive' : pcb'[p].con = pcb[p].con
    BY <1>3, <2>3
  <2> QED
    BY <1>1, <1>3, <2>6, <2>7 DEF ConInv
<1> QED
  BY <1>5, <1>6

\* halt never takes one of the first three processes.
LEMMA PagingConsole ==
  ASSUME TypeInv, KernelInv, ConInv, HaltPaging
  PROVE  ConInv'
<1>1. cpu.pc = "halt_paging" /\ cpu.pc \in QuietPc
      /\ UNCHANGED <<pcb, con_ovr, con_idx>>
  BY DEF HaltPaging, QuietPc, SafePoints
<1>2. Packed(task_queue) /\ DataInv /\ QuietInv /\ StartInv
  BY <1>1, QuietFrom DEF ConInv
<1>3. cur_pcb \in Pid /\ cur_pcb \in Alive
  BY <1>1, <1>2, FrontFacts DEF QuietInv, CpuOf
<1>4. CASE pcb[cur_pcb].parent_pid = NULL
  <2>1. cpu'.pc = "fault" /\ UNCHANGED pde
    BY <1>4 DEF HaltPaging, Fault, At
  <2>2. Alive' = Alive
    BY <2>1 DEF Alive, Present
  <2> QED
    BY <1>1, <2>1, <2>2, StartFault
<1>5. CASE pcb[cur_pcb].parent_pid # NULL
  <2>1. cur_pcb \notin Base
    BY <1>1, <1>2, <1>3, <1>5 DEF StartInv
  <2>2. pde' = [pde EXCEPT ![cur_pcb] = @ - 1] /\ cpu'.pc = "halt_switch"
    BY <1>5 DEF HaltPaging, TypeInv, TypeOK, Cpu
  <2>3. Alive' \subseteq Alive /\ \A p \in Alive : p # cur_pcb => p \in Alive'
    <3>1. pde \in [Pid -> {0, 1}] /\ pde[cur_pcb] = 1
      BY <1>2, <1>3, PresentIs DEF DataInv, Alive
    <3>2. pde'[cur_pcb] = 0 /\ \A p \in Pid : p # cur_pcb => pde'[p] = pde[p]
      BY <1>3, <2>2, <3>1
    <3>3. pde'[cur_pcb] % 2 # 1
      BY <3>2
    <3> QED
      BY <3>2, <3>3 DEF Alive, Present
  <2>4. Lag = 0 /\ Lag' = 0 /\ ~Spawning'
    BY <1>1, <2>2 DEF Lag, Spawning
  <2>5. \A i \in Base : i \in Alive => i \in Alive'
    BY <2>1, <2>3
  <2>6. StartInv'
    BY <1>1, <1>2, <2>2, <2>3, <2>4, <2>5 DEF StartInv
  <2> QED
    BY <1>1, <2>3, <2>6 DEF ConInv
<1> QED
  BY <1>4, <1>5

\* execute that was called by pit_interrupt does not fail, and what returns
\* goes back to user mode, to the idle loop or to read.
LEMMA ReturnConsole ==
  ASSUME TypeInv, KernelInv, ConInv, PreemptAt = {}, ExecFail \/ ReadReturn
  PROVE  ConInv'
<1>1. cpu.pc \in OnStack /\ cpu.pc # "fault" /\ Resume(Innermost(cpu.stk))
      /\ cpu.pc \notin {"exec_copy", "exec_fill"}
      /\ UNCHANGED <<pcb, pde, con_ovr, con_idx>>
  BY DEF ExecFail, ReadReturn, OnStack, KernelPc
<1>2. Lag = 0
  <2>1. CASE ReadReturn
    BY <2>1 DEF ReadReturn, Lag, Spawning
  <2>2. CASE ExecFail
    <3> SUFFICES ASSUME Spawning PROVE FALSE
      BY DEF Lag
    <3>1. \A p \in Pid : Present(p)
      BY <2>2 DEF ExecFail, Spawning
    <3>2. Base \subseteq Alive
      BY <3>1, MaxProcessAssumption DEF Base, Alive, Pid
    <3> QED
      BY <1>1, <3>2 DEF ConInv, StartInv
  <2> QED
    BY <2>1, <2>2
<1>3. cpu'.pc \in {"hlt", "user", "read"}
  <2> DEFINE e == Innermost(cpu.stk)
  <2>1. e \in Esp /\ e.lvl \in 1 .. Len(kstack[e.stk])
    BY <1>1, InnermostOK
  <2>2. cpu' = kstack[e.stk][e.lvl].cpu
    BY <1>1 DEF Resume
  <2> HIDE DEF e
  <2>3. FrameOK(kstack[e.stk][e.lvl], e.stk, e.lvl)
    BY <2>1 DEF TypeInv, FramesOK, Esp
  <2> QED
    BY <2>2, <2>3 DEF FrameOK
<1>4. ~Spawning'
  BY <1>3 DEF Spawning
<1>5. Alive' = Alive
  BY <1>1 DEF Alive, Present
<1> QED
  BY <1>1, <1>2, <1>3, <1>4, <1>5, StartKept

\* The switch of pit_interrupt.
LEMMA SwitchConsole ==
  ASSUME TypeInv, KernelInv, ConInv, PreemptAt = {}, PitSwitch
  PROVE  ConInv'
<1>1. cpu.pc = "pit_switch" /\ UNCHANGED <<pcb, pde, con_ovr, con_idx>>
  BY DEF PitSwitch
<1>2. Alive' = Alive
  BY <1>1 DEF Alive, Present
<1>3. CASE Fault
  <2>1. cpu'.pc = "fault"
    BY <1>3 DEF Fault, At
  <2> QED
    BY <1>1, <1>2, <2>1, StartFault
<1>4. CASE ~Fault
  <2> DEFINE e == Front.esp
  <2>1. Resume(e) /\ Resumable(e)
    BY <1>4 DEF PitSwitch, Front
  <2>2. e \in Esp
    BY Cells DEF TypeInv, TypeOK, Front, Task
  <2>3. cpu' = kstack[e.stk][e.lvl].cpu
    BY <2>1 DEF Resume
  <2> HIDE DEF e
  <2>4. e.stk \in Stack /\ kstack[e.stk] \in Seq(Frame)
    BY <2>2 DEF Esp, TypeInv, TypeOK
  <2>5. e.lvl \in 1 .. Len(kstack[e.stk])
    BY <2>1, <2>4 DEF Resumable
  <2>6. FrameOK(kstack[e.stk][e.lvl], e.stk, e.lvl)
    BY <2>4, <2>5 DEF TypeInv, FramesOK
  <2>7. cpu'.pc \in {"hlt", "user", "read"}
    BY <2>3, <2>6 DEF FrameOK
  <2>8. ~Spawning' /\ Lag = 0
    BY <1>1, <2>7 DEF Spawning, Lag
  <2> QED
    BY <1>1, <1>2, <2>7, <2>8, StartKept
<1> QED
  BY <1>3, <1>4

\* An execute that is a system call is not one of pit_interrupt.
LEMMA SyscallConsole ==
  ASSUME TypeInv, KernelInv, ConInv, SysExecute \/ SysRead \/ HaltClear
  PROVE  ConInv'
<1>1. cpu.pc = "user" /\ kstack' = EnterSyscall /\ cpu'.stk = esp0
      /\ cpu'.pc \in {"exec_enter", "read", "halt_paging"}
      /\ UNCHANGED <<pde, con_ovr, con_idx>>
  BY DEF SysExecute, SysRead, HaltClear, At
<1>2. Alive' = Alive /\ Alive \subseteq Pid
  BY <1>1 DEF Alive, Present
<1>3. \A p \in Pid : /\ pcb'[p].parent_pid = pcb[p].parent_pid
                     /\ pcb'[p].con = pcb[p].con
  <2>1. CASE HaltClear
    BY <2>1 DEF HaltClear, TypeInv, TypeOK
  <2>2. CASE SysExecute \/ SysRead
    BY <2>2 DEF SysExecute, SysRead
  <2> QED
    BY <2>1, <2>2
<1>4. ~Spawning'
  <2> DEFINE f == [kind |-> "syscall", cpu |-> cpu]
  <2>1. kstack'[esp0] = <<f>>
    BY <1>1 DEF EnterSyscall, TypeInv, TypeOK
  <2>2. f.kind = "syscall"
    OBVIOUS
  <2> HIDE DEF f
  <2>3. Len(<<f>>) = 1 /\ <<f>>[1] = f
    OBVIOUS
  <2> QED
    BY <1>1, <2>1, <2>2, <2>3 DEF Spawning
<1>5. Lag = 0
  BY <1>1 DEF Lag, Spawning
<1> QED
  BY <1>1, <1>2, <1>3, <1>4, <1>5, StartKept

\* The remaining steps.
LEMMA OtherConsole ==
  ASSUME TypeInv, KernelInv, ConInv,
         \/ PitPreempt \/ PitRotate \/ ExecQueue \/ HaltRestart \/ HaltSwitch
         \/ HaltQueue \/ Vidmap,
         PreemptAt = {}
  PROVE  ConInv'
<1>1. UNCHANGED <<pde, con_ovr, con_idx>>
  BY DEF PitPreempt, PitRotate, ExecQueue, HaltRestart, HaltSwitch, HaltQueue, Vidmap
<1>2. Alive' = Alive /\ Alive \subseteq Pid
  BY <1>1 DEF Alive, Present
<1>3. \A p \in Pid : /\ pcb'[p].parent_pid = pcb[p].parent_pid
                     /\ pcb'[p].con = pcb[p].con
  <2>1. CASE Vidmap
    <3>1. pcb' = [pcb EXCEPT ![cur_pcb].vidmap_check = TRUE]
      BY <2>1 DEF Vidmap
    <3> QED
      BY <3>1 DEF TypeInv, TypeOK
  <2>2. CASE ~Vidmap
    <3>1. UNCHANGED pcb
      BY <2>2 DEF PitPreempt, PitRotate, ExecQueue, HaltRestart, HaltSwitch, HaltQueue
    <3> QED
      BY <3>1
  <2> QED
    BY <2>1, <2>2
<1>4. cpu.pc \in {"hlt", "user", "read", "pit_rotate", "exec_queue", "halt_switch",
                 "halt_queue"}
  BY DEF PitPreempt, Interruptible, PitRotate, ExecQueue, HaltRestart, HaltSwitch,
         HaltQueue, Vidmap
<1>5. cpu'.pc \in {"user", "pit_rotate", "pit_switch", "halt_queue"}
      \/ HaltQueue
  <2>1. CASE PitPreempt
    BY <2>1 DEF PitPreempt, At
  <2>2. CASE PitRotate
    BY <2>2 DEF PitRotate, TypeInv, TypeOK, Cpu
  <2>3. CASE ExecQueue \/ HaltRestart
    BY <2>3 DEF ExecQueue, HaltRestart, InUser, At
  <2>4. CASE HaltSwitch
    BY <2>4 DEF HaltSwitch, TypeInv, TypeOK, Cpu
  <2>5. CASE Vidmap
    BY <2>5 DEF Vidmap
  <2> QED
    BY <2>1, <2>2, <2>3, <2>4, <2>5
<1>6. CASE HaltQueue /\ Fault
  <2>1. cpu'.pc = "fault" /\ UNCHANGED pcb
    BY <1>6 DEF HaltQueue, Fault, At
  <2> QED
    BY <1>1, <1>2, <2>1, StartFault
<1>7. CASE ~(HaltQueue /\ Fault)
  <2>1. cpu'.pc \in {"user", "pit_rotate", "pit_switch", "halt_queue"}
    <3> SUFFICES ASSUME HaltQueue PROVE cpu'.pc = "user"
      BY <1>5
    <3>1. kstack[0] # <<>> /\ kstack[0][1].kind = "syscall"
          /\ cpu' = kstack[0][1].cpu
      BY <1>7 DEF HaltQueue, ExecRet
    <3>2. kstack[0] \in Seq(Frame) /\ 0 \in Stack
      BY Constants DEF TypeInv, TypeOK
    <3>3. 1 \in 1 .. Len(kstack[0])
      BY <3>1, <3>2
    <3> QED
      BY <3>1, <3>2, <3>3 DEF TypeInv, FramesOK, FrameOK
  <2>2. ~Spawning' /\ Lag = 0
    BY <1>4, <2>1 DEF Spawning, Lag
  <2> QED
    BY <1>1, <1>2, <1>3, <1>4, <2>1, <2>2, StartKept
<1> QED
  BY <1>6, <1>7

\* Every live process is on one of the three consoles, if the timer never
\* interrupts execute or halt: pit_interrupt starts three shells at most and
\* children inherit the console of their parent (pit_interrupt, file_to_mem).
THEOREM ConsoleCorrect ==
  ASSUME PreemptAt = {}
  PROVE  Spec => []ConsoleInRange
<1>1. Init => ConInv
  <2> SUFFICES ASSUME Init PROVE ConInv
    OBVIOUS
  <2>1. Alive = {} /\ con_ovr.idx = 0 /\ con_idx = 0 /\ cpu.pc = "hlt"
    BY DEF Init, Alive, Present, At
  <2>2. ~Spawning /\ Lag = 0
    BY <2>1 DEF Spawning, Lag
  <2>3. StartInv
    BY <2>1, <2>2 DEF StartInv, Base
  <2> QED
    BY <2>1, <2>3 DEF ConInv, MAX_VTERMS
<1>2. TypeInv /\ KernelInv /\ ConInv /\ [Next]_vars => ConInv'
  <2> SUFFICES ASSUME TypeInv, KernelInv, ConInv, [Next]_vars PROVE ConInv'
    OBVIOUS
  <2>1. CASE Pit
    BY <2>1, SpawnConsole, SwitchConsole, OtherConsole DEF Pit
  <2>2. CASE Execute
    BY <2>2, SyscallConsole, EnterConsole, ReturnConsole, LoadConsole, FillConsole,
       OtherConsole DEF Execute
  <2>3. CASE Halt
    BY <2>3, SyscallConsole, PagingConsole, OtherConsole DEF Halt
  <2>4. CASE Vidmap \/ SysRead \/ ReadReturn
    BY <2>4, OtherConsole, SyscallConsole, ReturnConsole
  <2>5. CASE UNCHANGED vars
    <3>1. UNCHANGED <<pcb, pde, kstack, cpu, con_ovr, con_idx>>
      BY <2>5 DEF vars
    <3>2. Alive' = Alive /\ (Spawning' <=> Spawning)
      BY <3>1 DEF Alive, Present, Spawning
    <3>3. Lag' = Lag
      BY <3>2 DEF Lag
    <3>4. StartInv => StartInv'
      BY <3>1, <3>2, <3>3 DEF StartInv
    <3> QED
      BY <3>1, <3>2, <3>4 DEF ConInv
  <2> QED
    BY <2>1, <2>2, <2>3, <2>4, <2>5 DEF Next, Spin
<1>3. ConInv => ConsoleInRange
  BY DEF ConInv, ConsoleInRange, Alive
<1>4. PreemptAt \subseteq SafePoints
  OBVIOUS
<1>5. Spec => [](TypeInv /\ KernelInv)
  BY <1>4, KernelInvariance
<1> QED
  BY <1>1, <1>2, <1>3, <1>5, PTL DEF Spec

=============================================================================
