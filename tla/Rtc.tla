--------------------------------- MODULE Rtc ---------------------------------
(***************************************************************************)
(* The RTC driver of the mp3 kernel (rtc.c, with enable_irq and            *)
(* disable_irq of i8259.c).  The device has one index register that        *)
(* selects which register the data port reads and writes; rtc_open changes *)
(* the rate with interrupts enabled, so the timer may switch to another    *)
(* process, and the RTC interrupt may come, between any two port accesses. *)
(* rtc_write does the same with interrupts off.                            *)
(***************************************************************************)
EXTENDS Integers, FiniteSets

CONSTANTS
  Proc,       \* processes
  Setters,    \* those that open the device and write to it
  Readers,    \* those that read from it
  Freqs       \* frequencies that programs write

VARIABLES
  running,             \* the process that has the CPU
  pc,                  \* pc[p]: where p is in rtc_open or rtc_read
  prev_data,           \* prev_data[p]: local of rtc_set_frequency
  rtc_interrupt_flag,
  index,               \* the register that the data port accesses
  regA,                \* register A: [hi, rs], divider bits and rate
  masked,              \* the RTC's line is masked at the slave 8259
  reported,            \* the rate that the last open or write asked for
  seen                 \* seen[p]: an interrupt has come since p called rtc_read

rtc_vars == <<running, pc, prev_data, rtc_interrupt_flag, index, regA, masked,
              reported, seen>>

ASSUME RtcAssumption ==
  /\ Setters \subseteq Proc /\ Readers \subseteq Proc
  /\ IsFiniteSet(Proc)

\* rtc_set_frequency programs these rates.  It accepts 2048, 4096 and 8192
\* without doing anything and refuses all others: neither is a step.
Settable == {2, 4, 8, 16, 32, 64, 128, 256, 512, 1024}

Default  == 2

OpenPc == {"mask", "select", "load", "reselect", "store", "unmask"}

\* The upper bits of register A are the divider's, "div"; those of register C
\* are interrupt flags, "irq".
Upper == {"div", "irq"}

RtcTypeOK ==
  /\ running \in Proc
  /\ pc \in [Proc -> {"user", "spin"} \cup OpenPc]
  /\ prev_data \in [Proc -> Upper]
  /\ rtc_interrupt_flag \in BOOLEAN
  /\ index \in {"A", "C"}
  /\ regA \in [hi : Upper, rs : Settable]
  /\ masked \in BOOLEAN
  /\ reported \in Nat
  /\ seen \in [Proc -> BOOLEAN]

\* After init_rtc and the first interrupts; 1024 Hz is the device's default.
RtcInit ==
  /\ running \in Proc
  /\ pc = [p \in Proc |-> "user"]
  /\ prev_data = [p \in Proc |-> "div"]
  /\ rtc_interrupt_flag = FALSE
  /\ index = "C"
  /\ regA = [hi |-> "div", rs |-> 1024]
  /\ masked = FALSE
  /\ reported = 1024
  /\ seen = [p \in Proc |-> FALSE]

Goto(p, from, to) ==
  /\ running = p /\ pc[p] = from
  /\ pc' = [pc EXCEPT ![p] = to]

device == <<index, regA, masked>>

\* The timer interrupt gives the CPU to another process.
Switch(p) ==
  /\ running # p
  /\ running' = p
  /\ UNCHANGED <<pc, prev_data, rtc_interrupt_flag, device, reported, seen>>

\* Mutant: the flag is left as it is.
ClearFlag_not == rtc_interrupt_flag
ClearFlag == FALSE

\* rtc_interrupt, with interrupts off: reads register C and clears the flag.
Interrupt ==
  /\ ~masked
  /\ index' = "C"
  /\ rtc_interrupt_flag' = ClearFlag
  /\ seen' = [p \in Proc |-> seen[p] \/ pc[p] = "spin"]
  /\ UNCHANGED <<running, pc, prev_data, regA, masked, reported>>

-----------------------------------------------------------------------------
(* rtc_open: rtc_set_frequency(2), one action per port access *)

OpenStart(p) ==
  /\ p \in Setters
  /\ Goto(p, "user", "mask")
  /\ UNCHANGED <<running, prev_data, rtc_interrupt_flag, device, reported, seen>>

\* Mutant: the line is not masked while the rate is changed.
disable_irq_not == UNCHANGED masked
disable_irq == masked' = TRUE

OpenMask(p) ==
  /\ Goto(p, "mask", "select")
  /\ disable_irq
  /\ UNCHANGED <<running, prev_data, rtc_interrupt_flag, index, regA, reported, seen>>

OpenSelect(p) ==
  /\ \/ Goto(p, "select", "load")
     \/ Goto(p, "reselect", "store")
  /\ index' = "A"
  /\ UNCHANGED <<running, prev_data, rtc_interrupt_flag, regA, masked, reported, seen>>

OpenLoad(p) ==
  /\ Goto(p, "load", "reselect")
  /\ prev_data' = [prev_data EXCEPT ![p] = IF index = "A" THEN regA.hi ELSE "irq"]
  /\ UNCHANGED <<running, rtc_interrupt_flag, device, reported, seen>>

\* A write to register C has no effect.
OpenStore(p) ==
  /\ Goto(p, "store", "unmask")
  /\ regA' = IF index = "A" THEN [hi |-> prev_data[p], rs |-> Default] ELSE regA
  /\ UNCHANGED <<running, prev_data, rtc_interrupt_flag, index, masked, reported, seen>>

enable_irq == masked' = FALSE

OpenUnmask(p) ==
  /\ Goto(p, "unmask", "user")
  /\ enable_irq
  /\ reported' = Default
  /\ UNCHANGED <<running, prev_data, rtc_interrupt_flag, index, regA, seen>>

-----------------------------------------------------------------------------
(* rtc_write, with interrupts off *)

WriteSet(p, f) ==
  /\ p \in Setters /\ running = p /\ pc[p] = "user"
  /\ f \in Settable
  /\ index' = "A"
  /\ regA' = [regA EXCEPT !.rs = f]
  /\ enable_irq
  /\ reported' = f
  /\ UNCHANGED <<running, pc, prev_data, rtc_interrupt_flag, seen>>

-----------------------------------------------------------------------------
(* rtc_read *)

\* Mutant: the flag is not set before the wait.
SetFlag_not == rtc_interrupt_flag
SetFlag == TRUE

ReadStart(p) ==
  /\ p \in Readers
  /\ Goto(p, "user", "spin")
  /\ rtc_interrupt_flag' = SetFlag
  /\ seen' = [seen EXCEPT ![p] = FALSE]
  /\ UNCHANGED <<running, prev_data, device, reported>>

ReadReturn(p) ==
  /\ Goto(p, "spin", "user")
  /\ ~rtc_interrupt_flag
  /\ UNCHANGED <<running, prev_data, rtc_interrupt_flag, device, reported, seen>>

OpenStep(p) == OpenMask(p) \/ OpenSelect(p) \/ OpenLoad(p) \/ OpenStore(p) \/ OpenUnmask(p)

RtcNext ==
  \/ Interrupt
  \/ \E p \in Proc :
       \/ Switch(p)
       \/ OpenStart(p) \/ OpenStep(p)
       \/ ReadStart(p) \/ ReadReturn(p)
       \/ \E f \in Freqs : WriteSet(p, f)

RtcSpec == RtcInit /\ [][RtcNext]_rtc_vars

\* The scheduler gives every process the CPU again and again, for long enough
\* to make a step, and the device interrupts periodically.
Fairness ==
  /\ SF_rtc_vars(Interrupt)
  /\ \A p \in Proc : /\ SF_rtc_vars(Switch(p))
                     /\ SF_rtc_vars(OpenStep(p))
                     /\ SF_rtc_vars(ReadReturn(p))

RtcFairSpec == RtcSpec /\ Fairness

-----------------------------------------------------------------------------
(* Properties *)

Quiet == \A p \in Proc : pc[p] \notin OpenPc

\* The divider bits of register A survive every change of the rate: no
\* interrupt or other process redirects the data port between the selection
\* of register A and the access (rtc_set_frequency).
DividerIntact == regA.hi = "div"

\* When nobody is changing the rate, the device runs at the rate that the last
\* open or write asked for.
RateAsReported == Quiet => regA.rs = reported

\* rtc_read does not return before an interrupt has come since its call,
\* whichever other processes wait on the same flag.
NoEarlyReturn ==
  [][\A p \in Proc : pc[p] = "spin" /\ pc'[p] = "user" => seen[p]]_rtc_vars

\* When nobody is changing the rate, the RTC's line is not left masked.
NotLeftMasked == Quiet => ~masked

\* Every rtc_read returns.
ReadReturns == \A p \in Proc : pc[p] = "spin" ~> pc[p] = "user"

\* "It should block until next interrupt": once an interrupt has come, the
\* waiting process finds the flag cleared.
WakesOnInterrupt ==
  \A p \in Proc : pc[p] = "spin" /\ seen[p] => ~rtc_interrupt_flag

\* The device is as the driver believes: divider bits intact, rate as asked
\* for, and its line open again, whatever interrupts come between the port
\* accesses of rtc_open.
DeviceAsSet == RtcTypeOK /\ DividerIntact /\ RateAsReported /\ NotLeftMasked

=============================================================================
