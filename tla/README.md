# TLA+ models of the CompE course projects

The repository holds the programming projects of two courses. ECE391 is C and
x86 assembly: `mp1` (an unfinished game of life driven by the RTC), `mp2` (a text
adventure with a VGA driver and a line discipline for the Tux controller) and
`mp3` (a small multitasking kernel with a file system, virtual terminals and a
round-robin scheduler). ECE411 is SystemVerilog: `mp0` (a fifo, a CAM, a
multiplier and a cacheline adaptor), `mp1` and `mp2` (a multicycle RV32I CPU,
then with a cache) and `mp3-final` (a pipelined CPU with a cache hierarchy).

The kernel of `mp3` is the largest part with logic of its own and the only one
with real concurrency between processes and interrupt handlers, so it comes
first. The adventure game of `mp2` is the second: a world of rules, a graphics
driver that is all address arithmetic, two threads, signals, and a line
discipline that runs in interrupts. The fifo is small enough to be verified
completely.

## Inventory

`mp3` is `ECE391/mp3/student-distrib`; all `.c` files without a path are there.

| Part | State | Operations | What is hard | What makes it correct |
|---|---|---|---|---|
| processes (`filesys.c` execute and halt, `paging.c`, `syscall.c`) | PCBs, page directories, TSS, kernel stacks, loaded images | execute, halt, vidmap, waiting reads | a system call runs with interrupts on except between `cli` and `sti`; halt returns on another process's stack | the CPU, the page directory, the PCB pointer and the queue name the same process; no address space is overwritten |
| scheduler (`scheduling.c`) | `task_queue` of 6 cells, a start-up counter | timer interrupt, push, pop, grab | start-up and normal ticks share one path; ticks nest | nobody is lost, duplicated or starved; a parent sleeps exactly while it has a child |
| file system (`filesys.c`) | boot block, inodes, data blocks (read-only) | lookup by name and index, read_data | block boundaries, end of file | what is read is the file, in order |
| descriptors (`filesys.c`, `syscall.c`) | 8 per process: in use, operations, inode, position | open, read, write, close, getargs | reuse of a descriptor, no free one | calls, opens included, leave every other descriptor in use alone |
| terminal input (`console.c`) | per terminal: input record pointing into a kernel stack | read, key, terminal swap | key handler works on a copy of a record that a process changes | a read returns what was typed |
| terminal output (`console.c`, `vga.c`) | per terminal: buffer, cursor, backspace stop; video memory | putchar, echo, backspace, clear, scroll, swap | output interrupted by keys and swaps, keys by output; both work on copies of the console state; two copies of the screen | each terminal shows what was written to it |
| keyboard (`keyboard.c`) | shift, control, alt, caps lock flags | scancode | press and release in any order | flags as held |
| RTC (`rtc.c`) | device registers, one interrupt flag | open, read, write, close, interrupt | index and data port accesses interleave with the handler and other processes | rate as asked for, reads wake up |
| 8259, IDT, boot (`i8259.c`, `interrupts.c`, `kernel.c`) | masks, tables | mask, unmask, initialise | order of initialisation | no line left masked |
| mp1 (`mp1.S`, `life-or-death.c`) | two boards, population, infection | start, end, tasklet; keystroke, status and vaccinate are empty | failure of the second allocation | boards allocated together or not at all |
| mp2 world (`world.c`) | where the player is, where every object is, flags, the car's photo | moves, doors, 14 typed commands | any command in any place, the inventory view too, again and again | no way around a lock; no object lost or doubled; the screen is redrawn after every change |
| mp2 program (`adventure.c`, `input.c`, `assert.c`) | typed text, key FSM, status message with its mutex and condition variable, stack of cleanups | main, game loop, get_command, status thread, signal handler | keys cut in the middle; a timeout racing a new message; an end in the middle of anything | text as typed; message shown its time, then cleared; terminal and VGA restored |
| mp2 mode X and photos (`modex.c`, `photo.c`, `text.c`) | build buffer, view window, two video pages, registers | enter, leave, scroll, draw, show, status bar | a window that moves inside a buffer of four planes; a page flip while the monitor scans | no access outside the buffer; the screen is the window; no mixture of modes is seen |
| mp2 Tux line discipline (`module/tuxctl-ld.c`) | two ring buffers of 64 bytes, leftover bytes | open, close, receive, get, put, write wakeup, packet callback | interrupt context, limits, lost bytes, framing over several calls | bytes in order, packets reassembled |
| mp0 fifo (`ECE411/mp0/fifo`) | memory, two pointers, output register | clock edge, reset | wrap-around, take and give on one edge | a bounded queue |
| mp0 CAM, multiplier, adaptor | small memories and state machines | clock edge | replacement, handshakes | look-up finds what was written; product; burst complete |
| mp1, mp2 CPU and cache (`ECE411`) | control state, register file, cache lines | clock edge | handshake with memory of any latency | loads see stores |
| mp3-final pipeline and caches | five stages, two first-level caches, arbiter, L2, prefetcher | clock edge | hazards, stalls, two masters on one memory | loads see stores, no stall forever |

Interactions: the timer interrupt (`pit_interrupt`) switches processes inside
any of the kernel's other operations; the keyboard interrupt changes the
terminal that is on the screen and completes reads of the process on it; the
RTC interrupt clears the flag that readers poll; execute and halt set up and
clear descriptors and terminals. In `mp2` the game loop is the only caller of
the world and of the graphics; it shares the status message with the status
thread, and the signal handler runs on top of either. In the hardware projects all components step on
one clock and talk through handshakes.

## Modules

| Module | Models | Uses |
|---|---|---|
| `TaskQueue` | the run queue's push, pop, grab and rotation as operators | |
| `Scheduling` | processes, address spaces, kernel stacks and the timer | `TaskQueue` |
| `SchedulingProofs` | types and safety of `Scheduling` for every table size | `Scheduling` |
| `FileSys`, `MCFileSys` | image, descriptors, system calls on them; a small image | |
| `FileSysProofs` | files, directories and descriptors for every image | `FileSys` |
| `Rtc` | the RTC driver, its device and the mask at the slave 8259 | |
| `TermInput` | reading a line from a terminal | |
| `TermInputProofs` | buffer bounds and lines for every size | `TermInput` |
| `TermScreen` | screens, cursors and their exchange | |
| `TermScreenProofs` | screens, hidden buffers and the backspace stop for every size | `TermScreen` |
| `World`, `MCWorld` | rooms, objects and commands of the adventure; six players | |
| `ModeX`, `MCModeX` | build buffer, window, pages and mode switches; two photos with objects | |
| `ModeXProofs` | bounds, window, pages and mode switches for every size | `ModeX` |
| `Game` | the adventure as a program: set-up, loop, keys, status thread, end | |
| `AdventureProofs` | cleanups, the message's time and typed text for every bound; locks, objects and screen for every player | `Game`, `World` |
| `TuxLdisc` | the Tux controller's line discipline and the serial driver around it | |
| `DriverProofs` | the way out and the packets for every size of the rings; the RTC for every set of processes | `TuxLdisc`, `Rtc` |
| `FifoSpec` | the bounded queue a user of the fifo is promised | |
| `Fifo` | the circuit, with its mapping to `FifoSpec` | `FifoSpec` |
| `FifoProofs` | the circuit implements `FifoSpec` | `Fifo` |

`DriverProofs` and `AdventureProofs` extend two specifications each. So that
they can, those of `Rtc` and `World` carry their component's name (`RtcSpec`,
`WorldNext`, `world_vars`).

Definitions whose name is that of another one with a suffix, introduced by a
comment "Mutant" or by what they do wrong, are variants with a plausible
mistake. They are not part of any specification; each is there to show that a
property would notice it.

### Scheduling

There is one CPU and `cpu` is what it executes: the next stretch of kernel code
(`pc`), the stack it is on and the locals of `execute` that live across
stretches. System calls enter by trap gate, so a tick is possible wherever the
code has not executed `cli`. A system call is cut into stretches at the points
where a tick makes a difference:

| Action | Code |
|---|---|
| `SysExecute`, `SysRead`, `Vidmap`, `HaltClear`, `HaltRestart` | the trap from user mode and the first stretch |
| `ExecEnter` | `execute` up to its call of `file_to_mem` (name and console checks, the parent) |
| `ExecFail`, `ExecLoad` | header check and `new_process_ptable`, up to `sti` |
| `ExecCopy` | the copy of the executable into whatever page directory is then loaded |
| `ExecFill` | the new PCB |
| `ExecQueue` | parent asleep, child queued, `tss.esp0`, `iret` |
| `HaltPaging`, `HaltSwitch`, `HaltQueue` | the three stretches of `halt` before its `cli` and after |
| `PitSpawn`, `PitPreempt`, `PitRotate`, `PitSwitch` | the timer interrupt: start a shell, or save the stack pointer, rotate past sleeping tasks, switch |

Kernel stacks hold entry frames, so a return, a switch and a return on another
process's stack are what they are in the code: a jump to the frame that a saved
stack pointer names. `image[p]` is whose executable page `p` holds. The models
take PCB memory to be zero at boot (as in the emulator). What a program
computes is left open: any sequence of system calls.

Three stretches go on a few instructions beyond their `sti`, to the `iret` or
the next stretch: `ExecQueue` (`filesys.c:611`), `HaltQueue` (`filesys.c:723`)
and `PitSpawn` (`scheduling.c:27`, with its writes of `con_ovr` and `con_idx`).
What they do there touches registers and the process's own stack, or variables
that only the next start-up tick reads. `ExecCopy` leaves out the failure of
the copy (`filesys.c:382`), which a well-formed image does not have.

`PreemptAt` is the set of stretches of `execute` and `halt` a tick may
interrupt (ticks in user code, in the idle loop and in waiting reads are always
possible). The stretches fall into two classes. Before `execute` or `halt` has
written anything shared (`exec_enter`, `exec_load`, `halt_paging`, together
`SafePoints`) a tick is harmless to everything `sched_safe` checks, also when
ticks nest. At the other five (`exec_copy`, `exec_fill`, `exec_queue`,
`halt_switch`, `halt_queue`) a tick breaks one of its properties, as
`sched_exec_race` shows for the first. The model has one constant
for both so that a repair (moving a `cli` up or an `sti` down) can be checked by
taking its points out of the set.

### FileSys

A system call of a process is one action: nobody else touches its descriptors.
A byte is identified by the place in the image it comes from, so that a
property can tell a byte read twice or skipped from the right one. `read_data`
keeps its loop's arithmetic on blocks and offsets. `got` and `last` record what
calls returned, for the properties. Programs name descriptors that exist:
`syscall_getfdptr` (`filesys.c:449`) does not check the number and the system
calls do not either, so what another number reads is not modelled.

### Rtc

One action per port access where `rtc_open` leaves interrupts on, one for the
whole of `rtc_write`, which does not. The device is its index register, the
rate and divider bits of register A, and the interrupt.

### TermInput

A read is the assignments of `console_getinput` one by one, then polling. A key
is two steps: the handler takes its copy of the input record, and stores it
back after the echo, which ends with `sti`. `line` is what the user typed.
Programs read a positive number of bytes (`console.c:600` limits the number from
above only). A store outside the buffer does not change the model's buffer;
`InBounds` looks at the position.

### TermScreen

`console_putchar` and the keyboard interrupt both enable interrupts in their
middle, and both work on copies of the console state. So `console_putchar` is
up to five steps (write the cell; copy the state; store it back; look whether
the terminal is on the screen; show the cursor), and a key is cut at the same
places: the echo's cell (`KeyChar`, `KeyBack`, `KeyEnter`), `console_inccur`'s copy
and its store (`KeyCopy`, `KeyStore`), `console_echo`'s second copy and its
store (`KeyShow`, `KeyResync`), then `console_bksp`'s own copy (`KeyRestore`) or
the clearing of Ctrl and L (`KeyClear`). In between the timer may run any process.
Only a second key has to wait: `kbd_int` acknowledges its interrupt last.
A read sets the stop, waits until a key has set `complete`, and clears the
stop (`ReadStart`, `ReadEnd`).

Joined in one step: `console_inccur`'s scrolling with its store of the copy
(interrupts are off), that store with the first showing of the cursor, and the
writes of `complete` and the stop at a read's start, which only the process and
keys of its terminal touch. A key with Ctrl or Alt that echoes more than one
character counts as several keys.

`KeysMeetOutput` says whether a key and the program of the terminal on the
screen may be in the middle of their use of it at the same time. The run and
the theorems exclude it; the code does not, see "Known deviations". All other
interleavings, with the programs of the terminals off the screen, are in.

`ideal` is a terminal per process that only its own output and keys change; the properties
compare screen and buffers with it. Characters are reduced to who wrote them.
`from` is the place on the screen at which the line that a program reads began;
it moves up when the screen scrolls and stays at 0 when it has left it.

### World

One action per move and per typed command, with the handler's whole effect: the
objects it moves, the flags it sets, the photo it swaps, the speeds that
`handle_typing` adjusts after it, and the redraw that its result asks for. The
tables `room_data` and `obj_data` are those of the source. `where` is `NONE`
when the game is won. `drawn` is what the build buffer shows, as a picture of a
room, its photo and its objects. Lists of objects are sets; the order counts
only for the two objects called "book", and `newest` keeps it. A play is a
set of commands; all plays walk everywhere.

### ModeX

A pixel is the image it comes from and its index in that image's file, so the
properties see a pixel that is in the wrong place. `build` is addressed as in the
source, with negative indices for the lower fence; a read outside a photo's
array is the pixel `Wild`. `set_view_window`, the lines, `show_screen` and the
status bar are one action each (the program is sequential); the mode switches
are one action per register group, since the monitor shows every intermediate
state. The source's loops over bytes and over lines are recursive functions on the
number of turns made, in the source's order: an overlapping copy depends on it. The text
that `set_text_mode_3` clears (`modex.c:1008`) is not a part of the state.

### Game

`pc` is where main is: at a set-up or its push, at the steps of the loop, in
the cleanups, or in the clean-up by hand that follows a failing clock. Both mode
switches are two steps, with the VGA "half" in one mode in between; the
terminal's settings are changed by one system call. Taking the mutex, the condition
variable's wait, and its timeout
are steps of their own, and so is every byte of a key. The thread's states are
the places where it can be outside the lock: `waiting`, `woken`, `timing`,
`again` (woken before the timeout) and `expired` (timed out, without the lock
yet). A command has one of the results that `World`'s commands have.

A signal may come at any moment after `clean_on_signals`. Its first arrival is
taken by main (`catch_signal`; the kernel prefers the first thread, which does not
block it). While main is in its handler the signal is blocked there and has its
default action back, so its second arrival is taken by the status thread and
ends the program between, or in, two cleanups (`repeat_signal`); when the thread
has been cancelled or was never created it waits. `clear_mode_X` run once more
after the clean-up by hand writes to memory that is no longer mapped (`Segfault`).

`age`, `late`, `text` and `missed` are history: how long a message has been shown,
whether it was posted in the window between the timeout and the clearing, what
the keys read so far amount to, and which cleanups were cut off: not yet on the
stack, on it, or off it and not at their end when they could no longer be run.

### TuxLdisc

A byte is its number in the stream; a byte begins a packet when its number is a
multiple of three, which is what the framing bit says. Receiving is one action,
as it all happens in one interrupt. The write wake-up is one action in an
interrupt and three in a process (ask for the room, take, write), because
the interrupt may come in between. The serial driver is a buffer of `ROOM`
bytes that takes what fits. `tuxctl_ldisc_put` is called for one process at a time;
at this commit nobody calls it, as `tuxctl_ioctl` returns an error for every
command (`tuxctl-ioctl.c:63`).

### Fifo

A step is a positive clock edge with the values sampled on it, or the falling
edge of the reset. Pointers keep their extra bit and wrap. Power-up contents of
memory and output register are arbitrary.

## Runs

| Run | Expect | Shows | Bounds |
|---|---|---|---|
| `sched_safe` | pass | queue, page directories, PCBs and registers agree whenever a process runs; nobody lost or duplicated; parents sleep for their child; address spaces are not overwritten | 4 processes: three shells and a child, the least with which a parent, two bystanders and pid reuse exist; ticks at `SafePoints`, nested |
| `sched_live` | pass | every task that is awake gets the CPU; no shell on a terminal that does not exist | 4 processes, no ticks inside execute and halt, one program maps video memory |
| `sched_exec_race` | violation | a tick after `file_to_mem`'s early `sti` lets the scheduler go round and come back to the parent instead of the child, whose program is then copied over the parent's memory | 4 processes |
| `fs_files` | pass | reads return the file in order over block boundaries; directory listings are consecutive; descriptors do not interfere | a directory, the RTC and two files, one ending inside a block of two bytes and one at its end, an entry of an unknown type; calls for 1, 3 and 4 bytes; 4 descriptors so that they run out |
| `rtc_driver` | pass | rate and divider bits as asked for, line not left masked, a read returns and not early | one process setting, one reading, one doing neither |
| `term_lines` | pass | a read returns exactly what was typed, in its bounds, eventually | two terminals, lengths 2 and 4 |
| `screen_safe` | pass | screen, hidden buffers and cursor show what was written; backspace stops at the prompt | two terminals of 2 by 3 cells, 6 characters and keys: enough to wrap a line and to scroll |
| `world_quest` | pass | no lock is passed without what opens it; objects are conserved; speeds are those of what is carried; the screen shows the room as it is | the whole map and all objects; six plays, the longest of 25 commands |
| `modex_scroll` | pass | buffer and page hold exactly the window, the fence survives, no pixel from outside a photo, a dark screen while modes are mixed, no half-drawn frame | windows of 8 by 3 over photos of 13 by 6 and 10 by 4; steps of 1 and 3 pixels; 6 commands |
| `game_run` | pass | typed text is what was pressed; terminal and VGA are each restored unless its own cleanup was cut off; a message is not cleared early (but for one window) and does not stay | two keys of six kinds, two signals and their repetitions, one spurious wake-up, any failing call |
| `tux_ldisc` | pass | packets survive any cutting and lost bytes; bytes leave in order, are accounted for, at most one is lost per wake-up | rings of 5, callbacks of 4, 10 bytes, two lost, two openings |
| `fifo_refines` | pass | the circuit implements `FifoSpec`, the output register is the front | 4 cells (pointers of 3 bits), 3 words |

The violation is a disagreement between the code and what its comments say;
`PROJECT.json` quotes it under `findings`.

Why the bounds of the newer runs are enough: in `world_quest` the commands that
interact are together in one play, and walking is unbounded in all of them. In
`modex_scroll` the slack of the build buffer is less than the way across the
larger photo, so `set_view_window` has to recentre and copy in both
directions, with overlap and without. In `game_run` a letter, a backspace,
Enter, an arrow and Insert in both orders reach every state of the key FSM with
every cut; a message lasts two ticks, so one may pass before a second message;
two signals are the least for a handler on top of a handler. In `tux_ldisc` the
two directions do not touch, so `MaxBytes` limits their sum: either the
controller sends three packets and a byte while little is queued, or five bytes
are queued, one more than a ring holds, while little arrives.

Where several invariants belong together a run checks their conjunction:

| Invariant | Parts |
|---|---|
| `QueueExact` | `NoDuplicates`, `NothingLost` |
| `FilesAsRead` | `TypeOK`, `StdioOpen`, `PosIsCount`, `ReadsInOrder` |
| `DeviceAsSet` | `RtcTypeOK`, `DividerIntact`, `RateAsReported`, `NotLeftMasked` |
| `BufferSafe` | `TypeOK`, `InBounds` |
| `ScreenCorrect` | `TypeOK`, `ScreenAsWritten`, `CursorShown` |
| `Consistent` | `WorldTypeOK`, `Conserved`, `SpeedAsCarried` |
| `InsideBuffers` | `TypeOK`, `FenceIntact`, `NoStrayRead` |
| `ShowsWindow` | `WindowBuilt`, `ScreenIsWindow` |
| `InputCorrect` | `TypeOK`, `TypedAsPressed` |
| `PacketsCorrect` | `TypeOK`, `WholePacketsHandled`, `SingleLossDetected` |
| `BytesKept` | `OutInOrder`, `PutAccounted` |

### Fairness

- `Scheduling`: kernel code keeps running (weak fairness of its stretches); a
  tick that comes while interrupts are off stays pending in the 8259 until they
  are on, and the timer is periodic, so the timer interrupt gets strong
  fairness. `NoStarvation` does not assume that programs do anything.
- `Rtc`: the interrupt is periodic and the scheduler round-robin, so the
  interrupt and every process's turn and its next step get strong fairness (a
  process has the CPU for many instructions in a turn).
- `TermInput`: the same for processes; the key handler runs to its end (weak
  fairness of `KeyEnd`). The user owes nothing: `TypedLineReturns` starts from
  a line that has been ended.

- `Game`: the clock runs (weak fairness); main and the status thread get strong
  fairness, as each holds the mutex for a moment of every tick and the other
  finds it free. Nothing is assumed of the player or of signals.

`TuxLdisc`'s run checks safety only. Its `FairSpec` (the serial line sends, a
process inside `put` goes on) is there for `TxDrains`, which does not hold under
it, see "Known deviations". Fairness of the driver's wake-up would not be
justified: the discipline never sets `TTY_DO_WRITE_WAKEUP`.

`NoStarvation` needs `PreemptAt = {}`: with nested ticks at the safe points
a system call may be interrupted again before each step it makes, since the
model does not bound how many ticks fall into a stretch.

## Proofs

Eight modules hold theorems; tlapm checks 14838 obligations. Every safety
property that a passing run checks is stated by a theorem, and so is the fifo's
refinement. What a theorem says holds for every value of the constants that
satisfies the assumptions its module declares by name, and the hypotheses stated
here.

| Theorem | Module | States | Hypothesis |
|---|---|---|---|
| `TypeCorrect` | `SchedulingProofs` | `TypeOK` | none: any `PreemptAt` |
| `CoherentCorrect`, `QueueCorrect`, `SleepsCorrect`, `IsolationCorrect`, `PcbCorrect` | `SchedulingProofs` | `Coherent`, `QueueExact`, `SleepsForChild`, `Isolation`, `PcbStable` | `PreemptAt \subseteq SafePoints` |
| `ConsoleCorrect` | `SchedulingProofs` | `ConsoleInRange` | `PreemptAt = {}` |
| `FilesCorrect`, `DirCorrect`, `FdsIndependent` | `FileSysProofs` | `FilesAsRead`, `DirInOrder`, `OtherFdsUntouched` | none |
| `DeviceCorrect` | `DriverProofs` | `DeviceAsSet` | one process opens or sets the device |
| `ReadWaits` | `DriverProofs` | `NoEarlyReturn` | none |
| `BytesAreKept`, `LossIsOne`, `PacketsAreCorrect` | `DriverProofs` | `BytesKept`, `LosesAtMostOne`, `PacketsCorrect` | none |
| `BufferCorrect` | `TermInputProofs` | `BufferSafe` | `Undisturbed`: no tick inside the echo, reads of two bytes at least |
| `LineCorrect` | `TermInputProofs` | `LineAsTyped` | the same, and no keys before the first read |
| `ScreenIsCorrect`, `HiddenIsCorrect` | `TermScreenProofs` | `ScreenCorrect`, `HiddenAsWritten` | `Orderly`: nobody scrolls or exits off the screen, a key and the program of its terminal do not meet, no line read from the last column |
| `StopCorrect` | `TermScreenProofs` | `StopsAtPrompt` | `Prompted`: no line read from column 0, no exit off the screen, a key and the program of its terminal do not meet |
| `SwitchIsHidden`, `FramesAreWhole`, `BuffersAreSafe`, `WindowIsShown` | `ModeXProofs` | `HalfSetHidden`, `NoTearing`, `InsideBuffers`, `ShowsWindow` | none |
| `RestoredCorrect`, `TimerCorrect`, `TypingCorrect` | `AdventureProofs` | `RestoredAtExit`, `ClearedInTime`, `InputCorrect` | none |
| `LocksCorrect`, `ConsistentCorrect`, `ShownCorrect` | `AdventureProofs` | `LocksHold`, `Consistent`, `ShownIsCurrent` | none: any set of plays |
| `TypeCorrect`, `FrontCorrect`, `Implements` | `FifoProofs` | `TypeOK`, `FrontIsOldest`, `Refines` | none |

The hypotheses are those under which the runs pass as well, and each has its
counterexample in "Known deviations" when it is dropped: with `exec_copy` in
`PreemptAt` it is the run `sched_exec_race`. Every inductive invariant below has
also been checked by TLC, on the instance of its component's run.

### The kernel's processes

`TypeOK` is not inductive alone, since a return sets `cpu`
from a frame, which must exist. `FramesOK` (a part of the invariant, not a result)
says so, and in turn needs the types of stacks and saved stack pointers. Their
conjunction is inductive, for unsafe preemption points too.

The second part adds the contents. Lemmas on `task_push`, `task_pop`,
`task_grab` and the rotation say which tasks the queue holds afterwards, and
that a packed queue stays packed; that `task_push` finds room is the pigeonhole
principle on processes and cells (`RoomFor`). `KernelInv` is then

- `FramesInv`: a frame on the stack of process p belongs to p, so that a switch
  to p resumes p, and a tick may nest at a safe point without harm;
- `DataInv`: saved stack pointers are on their process's stack, loaded programs
  are in their own pages, and the family is in order: a process is asleep if and
  only if somebody in the queue has it as parent, nobody has two children,
  parents are present, process 0 is the first and has no parent;
- `PhaseInv`: how far the page directories, the queue, `cur_pcb`, `cr3` and
  `esp0` are apart, depending on the code that runs. Between system calls
  (`QuietInv`) they agree; in `execute` after `new_process_ptable` (`BirthInv`) there is one
  process more than in the queue; in `halt` (`EndInv`) one less; in the timer interrupt
  (`PitInv`) only the queue and the directories agree.

Safe points are exactly those at which `QuietInv` holds, so a tick there finds what it
finds in user code. This is why the hypothesis is needed: in `BirthInv` and
`EndInv` the state is not one that the timer interrupt can start from.

`ConInv` is about start-up: processes 0, 1 and 2 are the first ones and never
end, so that the interrupt's test for start-up (`Starting`) is right and
`con_idx` counts the shells. A tick inside `execute` would start a shell more.

### Files and descriptors

`ReadDataBytes` says what `read_data` returns for every offset and length: the
bytes of the file from there on, as many as asked for or to one past the end. Its loop is
a recursive function in the model; `LoopInv` holds at its start and a turn
keeps it, and that it holds after every turn follows from the least turn for which it
would not (well-foundedness of the naturals instead of an induction rule, which
the provers cannot instantiate). `FdInv` relates each descriptor to what has
been read through it. `FileSysAssumption` says that the image is well-formed:
entries name inodes, inodes have as many valid block numbers as their length asks
for. The code does not check that either.

### RTC and terminal input

`OpenProgress` says what each of `rtc_open`'s port accesses can rely on: the
line is masked, the index still selects register A, the saved value is the
divider. `ReadWaits` needs only that a reader finding the flag clear has had
its interrupt.

For `BufferCorrect` the handler's copy of the record is still the record when
it is stored back (`CopyIsFresh`), and the record of a read has room for the
newline and the terminator (`RoomInv`); reads of one byte have not. `LineCorrect`
adds `Agree`: record, buffer and typed line fit together, during a key as they
will be when it has been handled.

### Terminal output

`TermInv` says that a terminal shows what was written to it, wherever it is
shown, but for the movement of the cursor that a `console_putchar` in progress
still has to make: what is written and what is shown differ by exactly one call
of `console_inccur`. While such a call is between two of its steps the terminal
may be exchanged, so the difference has to be the same on and off the screen,
which is where `Orderly` is needed: off the screen `console_inccur` must not
scroll.

`ScreenInv` adds the key in progress. At each of its places the terminal on the
screen is as written but for the move that the key still owes, and the copy
that it will store back is the console state itself; after a backspace the
cursor is one cell ahead of where `console_bksp`'s copy puts it back. The other
half of `Orderly` is needed here: a program that writes between a copy and
its store loses its own move of the cursor.

`LineInv`, for the stop, says that the line being read began at the stop
column of some row and that the cursor has not gone back from there, of the
console state and of each copy of it that a key will store.

### The line discipline

A ring is what `Contents` says. That one more byte appends to it and that taking
bytes drops its front, across the wrap of either index, are lemmas for every size
(`PushAppends` and those after it); from then on the proof is about sequences.

`SendInv`, the way out: the four places of a byte (sent, in the driver, with the
process, in the ring) are each in order and follow each other unless an interrupt
has overtaken a process, and with the lost bytes they are all that `put`
accepted; a process holds bytes only before its write, and at most one more than
the room it was told of, which is `LossIsOne`.

`RecvInv`, the way in: from the first waiting byte on nothing is missing but what
is gone; every packet handled lies before the waiting bytes; every packet of
which nothing is gone is handled or begins with a waiting byte. `Scan` is a recursive
function; what it finds and where it stops is shown from every index on by the
shortest rest for which it would fail. The framing works because a packet's
first byte is the only one with a clear bit: three bytes in order that look like
a packet and are not one have at least two gone between them.

### Mode X

Three invariants, each inductive given those before it. `ModeInv`: the registers
are those of one mode, or the sequence from one to the other has made exactly its
first steps. `PageInv`: the page drawn last is the one on display,
except between the drawing and the switch. `BufInv`: where the buffer and the page have to
hold the window, they do, and the window lies inside the photo and the buffer.

`BufInv` rests on arithmetic: the pixels of a window have addresses inside the
buffer (`AddrInside`) and no two share one (`AddrDistinct`), although the planes
lie one behind the other and a window need not start in plane 0. On top of it:
what one line puts into the buffer (`DrawnPuts`), what a loop of lines does
(`RowsDrawn`, `ColsDrawn`), that the copy moves every byte although source and
target overlap, in the direction that the code chooses (`CopyIs`), and so that
`set_view_window` keeps every pixel that both windows show (`WindowMoved`). A
move then draws exactly the others (`RowsScroll`, `ColsScroll`), and
`show_screen`'s four pictures put each plane where the VGA looks for it
(`ImageShows`). Loops are done by the least turn that would go wrong, as in
`read_data`. Photos may have any size from the window's on and objects may lie
anywhere, partly outside too (`DimAssumption`, `ObjectAssumption`).

### The adventure

The program (`Game`) has three invariants that do not depend on each other.
`CleanupInv`: every set-up that is not undone, or half made, is owed its cleanup,
which is on the stack, just popped, about to be pushed, or among those that were cut
off. The four actions that cut cleanups off account for exactly those they cut.
`TimerInv`: the ticks a message has been shown and the ticks to its timeout add
up. `InputInv`: what is still to be read, from the state the key FSM is in, is
made of whole keys, so that a cut between two bytes does not matter.

The proof about `World` goes furthest beyond its run, which has six plays: a play may be any
set of commands. `Ways` goes through the table of rooms and shows that no way
leads into a locked group of rooms from outside, so that only `try_to_enter`'s
doors and `typed_cmd_go` do. `LocksHold` is not inductive: that the game is won
only after Tux was lured and the player has eaten rests on where objects are.
`QuestInv` adds these facts (Tux leaves its lab only when lured, the card leaves
the park only with the working GPS, a full battery means a working robot),
`FormsInv` and `CarInv` count the forms of what can be transformed.

### The fifo

- `TypeCorrect`: the pointers' distance stays within the capacity. Inductive by
  itself, through `FlagsCount` (the flags full and empty say that the distance
  is the capacity or zero) and `CountStep`;
- `FrontCorrect`: the output register is the front. Inductive given the types;
- `Implements`: `Spec => Refines`. `WordsAppend` and `WordsTail` say what a
  write behind the last word and a step of the read pointer do to the words
  between the pointers; an edge that does both is one after the other.

The code takes a power of two for the capacity, which makes a pointer wrap
without a test; the proof does not need it, since `Succ` wraps at twice the
capacity.

### Only model-checked

The four liveness properties (`NoStarvation`, `ReadReturns`, `TypedLineReturns`,
`MessageGoes`): fairness and `ENABLED` are beyond the prover. And the
violation, which is a counterexample.

Recursive functions are proved about without an induction rule, which the provers
cannot instantiate: the naturals are well-founded, so that a statement about all
turns of a loop follows from there being no least turn for which it fails.

## Known deviations

What the code does against its own comments or an evident intention. The first
is a run; others that name a definition are reproduced by checking it with
the constants given here in place of the run's.

- `sched_exec_race`: `file_to_mem` enables interrupts between the switch to the
  child's page directory and the copy (`filesys.c:381`). In TLC's trace three
  shells run, the first executes a program, and a tick comes before the copy:
  the scheduler goes round through the other shells and resumes the parent with
  `cr3` and `cur_pcb` its own, and the copy goes to the parent's page.
- `Scheduling`, `QueueExact` or `SleepsForChild` with `PreemptAt = {"exec_fill"}`
  or `{"exec_queue"}`: the same while `execute` fills the PCB or has not yet
  queued the child (`filesys.c:605`).
- `Rtc`, `DividerIntact` with `Proc = {1, 2}`, `Setters = {1, 2}`, `Readers = {}`
  and `Freqs = {4}`: `rtc_open` calls `rtc_set_frequency` with interrupts on, a
  second process unmasks the line in between, and the interrupt's register C
  ends up in register A (`rtc.c:87`; `rtc.c:144` says "short critical section
  needed").
- `TermInput`, `LineAsTyped` with `Chars = {"a", "b"}` and `EchoTicks = TRUE`:
  the key handler writes back a copy of the input record taken before the echo
  enabled interrupts; a read set up in between is overwritten by the read before
  it, marked complete (`console.c:581`).
- `Scheduling`, `SleepsForChild` with `PreemptAt = {"halt_queue"}`: a tick
  between `halt`'s switch of `cur_pcb` and its `cli` (`filesys.c:716`).
- `Scheduling`, `OwnRegisters` with `PreemptAt = {}`: the return path of `halt`
  has process 0's stack as the constant `0x7FFFBE` (`filesys.c:638`).
- `Scheduling`, `MappedOnlyIfAlive` with `Mappers = {3}`: `halt` clears entry 0
  of the video page table, not the process's own (`filesys.c:701`).
- `Scheduling`, `ConsoleInRange` with `PreemptAt = {"exec_enter"}` and
  `MaxSpawns = 4`: nested ticks start a fourth shell (`scheduling.c:27`).
- `FileSys`, `StopsAtEndOfFile`: a read across the end returns one byte more
  than the file has (`filesys.c:299`).
- `FileSys`, `ListsDirectory`: `dir_open` does not reset the position of a
  descriptor that is used again (`filesys.c:67`).
- `Rtc`, `ReadReturns` and `WakesOnInterrupt` with `Readers = {2, 3}`: one flag
  for all readers (`rtc.c:113`).
- `rtc_write` reports success for 2048, 4096 and 8192 Hz and programs nothing
  (`rtc.c:173`); there is no step to check.
- `TermInput`, `NoNullStore` with `EarlyKeys = TRUE`: a key before the first
  read is stored through a NULL pointer (`console.c:575`).
- `TermInput`, `InBounds` with 1 in `Lens`: `buffer_length - 2` wraps
  (`console.c:567`).
- `TermInput`, `DeadStackUntouched`: Enter stores into the buffer without
  testing `complete` (`console.c:550`).
- `TermScreen`, `HiddenAsWritten` with `BackgroundScroll = TRUE`: bytes and
  cells are mixed in the copy of the rows (`console.c:112`).
- `TermScreen`, `ScreenCorrect` with `BackgroundExit = TRUE`: a shell that
  exits clears the screen of another terminal (`filesys.c:665`).
- `TermScreen`, `ScreenCorrect` and `StopsAtPrompt` with `KeysMeetOutput = TRUE`: a
  key in the middle of `console_putchar` moves the same cursor
  (`console.c:287`), and a tick after `console_echo`'s `sti` (`console.c:329`) lets
  the program of the terminal write, or start to read, between the copies of
  the console state that `console_inccur`, `console_echo` and `console_bksp` take
  and store back (`console.c:169`, `console.c:335`, `console.c:222`): its
  cursor or its stop is lost.
- `TermScreen`, `ScreenCorrect` with `PromptCols = {NUM_COLS - 1}`: a
  backspace in the last cell scrolls (`console.c:243`).
- `TermScreen`, `StopsAtPrompt` with `PromptCols = {0}` (`console.c:428`) and
  `BackspaceMoves` (`console.c:237`): one stop column for a line of several rows.

- The timer's divisor for 2 Hz does not fit its 16 bits; `outb` drops the upper
  byte (`scheduling.c:95`). The models do not depend on the rate.
- `World`: at the car site `get` with any word takes the battery (`world.c:643`);
  the Icard or the working GPS dropped behind the lock it opens can make the
  game unwinnable; `move_object_to_inventory` speaks of a 3 by 3 grid and uses 3
  by 4 (`world.c:594`).
- `ModeX`: `show_status_bar` always writes page 0 while `show_screen` alternates
  pages, so in every second frame the bar covers the picture's top rows
  ("blinking" in the project's bug log). 182 of 200 rows are copied and
  `move_photo_up` stops at the photo's height minus 200, so its last 18 rows are
  never shown. `ScreenIsWindow` and `NoTearing` are stated for what is
  copied, and `NoTearing` below the bar.
- `Game`, `ClearedInTime` without `late`: a message posted after the previous
  one's timeout, but before the thread has the mutex again, is cleared at once
  (`adventure.c:684`), although the thread's header says that a new message
  "restarts the clock".
- `Game`, `RestoredAtExit` without `missed`: mode X, something between two modes,
  or the raw terminal is left behind by a signal inside `set_mode_X`, or between a
  set-up and its `push_cleanup`; by `push_cleanup` without memory; by a second
  signal inside a cleanup that `pop_cleanup` has taken off the stack
  (`assert.c:147`); by a signal that is repeated during its handler, which
  SA_ONESHOT does not ask to be blocked in the status thread
  (`assert.c:235`); and by a signal after the clean-up by hand (`adventure.c:274`),
  as that leaves the stack as it is and `clear_mode_X` then runs without its
  memory. `shutdown_input` never undoes `O_NONBLOCK` (`input.c:92`), which is not a
  part of `tio`.
- `Game`: of several commands in one tick the last one wins, and letters typed
  after Enter in the same tick join the command; keys whose sequence the FSM does
  not know (Delete, End, Page Down) leave a digit in the text, and Escape before
  an arrow key its letter. `Keys` has none of these.
- `TuxLdisc`, `OutInOrder` without `overtaken`, and `LosesAtMostOne` without its
  premise: an interrupt's wake-up between the steps of a process's (the source
  asks "Potential race conditions here ...  ?", `tuxctl-ld.c:266`).
- `TuxLdisc`, `TxDrains` under `FairSpec`: `put`'s wake-up takes what the driver
  has room for. The rest waits for the driver to call the wake-up, which Linux's tty
  layer does only if `TTY_DO_WRITE_WAKEUP` is set; `tuxctl-ld.c` never sets it,
  so the bytes stay in the ring until the next `put`.
- `TuxLdisc`: the loop's `n <= room` loses a byte whenever the driver takes no more than it said
  (`tuxctl-ld.c:203`); after a burst of more than twelve bytes a packet waits
  for the next interrupt. Close during a `put` is not modelled: the tty layer
  waits for it, and the functions do not test `disc_data`.

## Not modelled

The scancode translation of `keyboard.c`, start-up (`kernel.c`, `boot.S`), the
descriptor tables, string and port functions, the kernel's own tests and the
user programs; of `mp2` the photo converter and the Tux controller's ioctls, all
of which return an error; `mp1`, whose tasklet computes nothing; of the hardware
projects all but the fifo. `PROJECT.json` gives the reason for each. Of the
hardware, these places deserve a model first: the arbiter of `mp3-final` prefers
instruction fetches at every choice (`cache_arbiter.sv:48`), an evicted line goes
to the second level with the byte enables of the access that caused it
(`cache.sv:32`), a write hit of mp2's cache raises the dirty bit's value but not
its load signal (`cache_control.sv:101`), and the forwarding tests of the two
operands differ (`fwd.sv:65`). Abstracted from what is modelled: wording of output,
attributes of screen cells, the contents of programs and files beyond identity,
the address arithmetic of page tables.

## Plan

In this order, most important first:

1. `MemSystem` (mp3-final): the two first-level caches with their controllers,
   the arbiter, the second level and the cacheline adaptor composed over an
   abstract memory; loads see stores, no request waits forever. The cache of mp2
   and the adaptor of mp0 are variants of the same modules. One run.
2. `Pipeline` (mp3-final): forwarding, stalls and flushes against one
   instruction at a time; `Control` (mp1, mp2): the multicycle state machine.
3. `Keyboard`: scancodes and the flags of the modifier keys. `Cam` and
   `Multiplier` (mp0).

Runs answer one question each; violations that have been understood and are
listed above give up their run to a new component when that is worth more.
