------------------------------- MODULE TermInput -----------------------------
(***************************************************************************)
(* Reading a line from a terminal of the mp3 kernel: console_readline_w,   *)
(* console_readline and console_getinput run in a system call with         *)
(* interrupts enabled and poll the terminal's current_input record;        *)
(* console_inputhandler, called by the keyboard interrupt, works on a copy *)
(* of the record of the terminal on the screen and stores the copy back.   *)
(* Between the two it echoes the key, and console_echo ends with sti(), so *)
(* the timer may then switch to another process; a second keyboard         *)
(* interrupt has to wait until the first is acknowledged.                  *)
(*                                                                         *)
(* One process runs on each terminal and is named after it.                *)
(***************************************************************************)
EXTENDS Integers, Sequences

CONSTANTS
  Term,       \* the terminals (vterms)
  Chars,      \* printable characters that are typed
  Lens,       \* values of nbytes in calls of read
  KBUF_LEN,   \* cells of the array kbuf of console_readline_w
  EchoTicks,  \* the timer may interrupt the echo of a key
  EarlyKeys   \* keys are also typed on a terminal before its first read polls

VARIABLES
  running,   \* the process that has the CPU
  rpc,       \* rpc[t]: the next step of t's process in its read call
  nbytes,    \* nbytes[t]: the length its read asked for
  input,     \* input[t]: vterms[t].current_input
  kbuf,      \* kbuf[t]: the array on t's kernel stack; "stack" marks cells
             \* that hold something else once the call has returned
  console,   \* current_console
  isr,       \* the keyboard interrupt: the process it interrupted, its copy
  fault,     \* a store through a NULL pointer has stopped the kernel
  line       \* line[t]: what the user has typed since t's read began to
             \* poll, and whether that line is still open (specification only)

vars == <<running, rpc, nbytes, input, kbuf, console, isr, fault, line>>

NUL == "nul"
LF  == "lf"
BS  == "bs"
Key == Chars \cup {LF, BS}

ASSUME TermAssumption ==
  /\ Lens \subseteq 1 .. KBUF_LEN - 1 /\ Lens # {}
  /\ KBUF_LEN \in Nat
  /\ {EchoTicks, EarlyKeys} \subseteq BOOLEAN
  /\ Chars \cap {NUL, LF, BS} = {}

Index == 0 .. KBUF_LEN - 1

Input == [buffer : BOOLEAN, buffer_length : Nat, next : Nat, complete : BOOLEAN]

\* vterm_new: no buffer, and complete is left FALSE.
NoInput == [buffer |-> FALSE, buffer_length |-> 0, next |-> 0, complete |-> FALSE]

Idle == [on |-> FALSE, host |-> console, key |-> LF, copy |-> NoInput]

TypeOK ==
  /\ running \in Term /\ console \in Term
  /\ rpc \in [Term -> {"user", "length", "next", "complete", "poll"}]
  /\ nbytes \in [Term -> Lens]
  /\ input \in [Term -> Input]
  /\ kbuf \in [Term -> [Index -> Chars \cup {NUL, LF, "stack"}]]
  /\ isr \in [on : BOOLEAN, host : Term, key : Key, copy : Input]
  /\ fault \in BOOLEAN
  /\ line \in [Term -> [text : Seq(Chars), open : BOOLEAN]]

Init ==
  /\ running \in Term /\ console \in Term
  /\ rpc = [t \in Term |-> "user"]
  /\ nbytes = [t \in Term |-> CHOOSE n \in Lens : TRUE]
  /\ input = [t \in Term |-> NoInput]
  /\ kbuf = [t \in Term |-> [i \in Index |-> "stack"]]
  /\ isr = Idle
  /\ fault = FALSE
  /\ line = [t \in Term |-> [text |-> <<>>, open |-> FALSE]]

-----------------------------------------------------------------------------
(* console_readline_w, console_readline, console_getinput *)

\* t's process executes one of its steps.
Runs(t, from, to) ==
  /\ ~fault /\ running = t
  /\ ~(isr.on /\ isr.host = t)
  /\ rpc[t] = from /\ rpc' = [rpc EXCEPT ![t] = to]

ReadStart(t, n) ==
  /\ Runs(t, "user", "length")
  /\ nbytes' = [nbytes EXCEPT ![t] = n]
  /\ kbuf' = [kbuf EXCEPT ![t] = [i \in Index |-> NUL]]
  /\ input' = [input EXCEPT ![t].buffer = TRUE]
  /\ UNCHANGED <<running, console, isr, fault, line>>

SetLength(t) ==
  /\ Runs(t, "length", "next")
  /\ input' = [input EXCEPT ![t].buffer_length = nbytes[t]]
  /\ UNCHANGED <<running, nbytes, kbuf, console, isr, fault, line>>

SetNext(t) ==
  /\ Runs(t, "next", "complete")
  /\ input' = [input EXCEPT ![t].next = 0]
  /\ UNCHANGED <<running, nbytes, kbuf, console, isr, fault, line>>

ClearComplete(t) ==
  /\ Runs(t, "complete", "poll")
  /\ input' = [input EXCEPT ![t].complete = FALSE]
  /\ line' = [line EXCEPT ![t] = [text |-> <<>>, open |-> TRUE]]
  /\ UNCHANGED <<running, nbytes, kbuf, console, isr, fault>>

\* The poll succeeds: the line, with the cell after it, is copied to the
\* program, and the stack that held kbuf is used for other things.
ReadReturn(t) ==
  /\ Runs(t, "poll", "user")
  /\ input[t].complete
  /\ kbuf' = [kbuf EXCEPT ![t] = [i \in Index |-> "stack"]]
  /\ UNCHANGED <<running, nbytes, input, console, isr, fault, line>>

\* What the call of t returns: bytes 0 to next of kbuf.
Returned(t) ==
  LET last == [kbuf[t] EXCEPT ![input[t].buffer_length - 1] = NUL] IN
  [i \in 1 .. input[t].next + 1 |-> last[i - 1]]

-----------------------------------------------------------------------------
(* console_inputhandler *)

\* Stores of characters through the buffer pointer of record "in".
Store(b, i, c) == IF i \in Index THEN [b EXCEPT ![i] = c] ELSE b
EndLine(b, i)  == Store(Store(b, i, LF), i + 1, NUL)

\* Mutant: the check for a full line comes one character late.
Full_late(in) == in.next = in.buffer_length - 1

\* The last cell but one: buffer_length is unsigned, so for a length of 1 the
\* test fails for every next.
Full(in) == in.next = in.buffer_length - 2

\* The key's effect on the copied record and on the buffer it points to.
\* Mutant: Enter ends the line only when there is room for the terminator.
AfterEnter_room(in) == [in EXCEPT !.complete = in.next + 2 < in.buffer_length]
AfterEnter(in)      == [in EXCEPT !.complete = TRUE]

EnterStores(in, b) ==
  IF in.buffer_length <= 1 THEN b
  ELSE IF in.next = in.buffer_length
       THEN EndLine(b, in.next - 2)
       ELSE EndLine(b, in.next)

\* Mutant: the character before the cursor stays in the line.
AfterBackspace_stays(in) == in
AfterBackspace(in) ==
  IF ~in.complete /\ in.next > 0 THEN [in EXCEPT !.next = @ - 1] ELSE in

AfterChar(in) ==
  IF in.complete THEN in
  ELSE IF Full(in) THEN [in EXCEPT !.complete = TRUE]
  ELSE [in EXCEPT !.next = @ + 1]

CharStores(in, b, c) ==
  IF in.complete THEN b
  ELSE IF Full(in) THEN (IF in.buffer_length > 1 THEN EndLine(b, in.next) ELSE b)
  ELSE Store(b, in.next, c)

After(in, k) ==
  CASE k = LF -> AfterEnter(in)
    [] k = BS -> AfterBackspace(in)
    [] OTHER  -> AfterChar(in)

Stores(in, b, k) ==
  CASE k = LF -> EnterStores(in, b)
    [] k = BS -> b
    [] OTHER  -> CharStores(in, b, k)

\* What a user typing k on terminal t expects of the line that is being read:
\* a line has room for nbytes - 2 characters, and the next one ends it.
Typed(t, k) ==
  LET ln == line[t] IN
  IF ~ln.open THEN ln
  ELSE CASE k = LF -> [ln EXCEPT !.open = FALSE]
         [] k = BS -> [ln EXCEPT !.text = SubSeq(@, 1, Len(@) - 1)]
         [] OTHER  -> IF Len(ln.text) = nbytes[t] - 2
                      THEN [ln EXCEPT !.open = FALSE]
                      ELSE [ln EXCEPT !.text = Append(@, k)]

\* A key is typed: the handler copies the record of the terminal on the screen
\* and echoes the key.
KeyStart(k) ==
  /\ ~fault /\ ~isr.on
  /\ EarlyKeys \/ rpc[console] = "poll" \/ input[console].complete
  /\ isr' = [on |-> TRUE, host |-> running, key |-> k, copy |-> input[console]]
  /\ line' = [line EXCEPT ![console] = Typed(console, k)]
  /\ UNCHANGED <<running, rpc, nbytes, input, kbuf, console, fault>>

\* The rest of the handler, once the process it interrupted has the CPU.
KeyEnd ==
  /\ ~fault /\ isr.on /\ running = isr.host
  /\ LET in   == isr.copy
         b    == Stores(in, kbuf[console], isr.key)
     IN IF ~in.buffer /\ isr.key \in Chars /\ ~in.complete
        THEN /\ fault' = TRUE /\ UNCHANGED <<kbuf, input, isr>>
        ELSE /\ kbuf' = [kbuf EXCEPT ![console] = b]
             /\ input' = [input EXCEPT ![console] = After(in, isr.key)]
             /\ isr' = Idle
             /\ UNCHANGED fault
  /\ UNCHANGED <<running, rpc, nbytes, console, line>>

\* Alt and a function key: another terminal comes onto the screen.
SwapConsole(t) ==
  /\ ~fault /\ ~isr.on /\ t # console
  /\ console' = t
  /\ isr' = [isr EXCEPT !.host = t]
  /\ UNCHANGED <<running, rpc, nbytes, input, kbuf, fault, line>>

\* The timer interrupt gives the CPU to another process.
Switch(t) ==
  /\ ~fault /\ running # t
  /\ isr.on => EchoTicks
  /\ running' = t
  /\ UNCHANGED <<rpc, nbytes, input, kbuf, console, isr, fault, line>>

ReadStep(t) == SetLength(t) \/ SetNext(t) \/ ClearComplete(t) \/ ReadReturn(t)

Next ==
  \/ KeyEnd
  \/ \E k \in Key : KeyStart(k)
  \/ \E t \in Term : \/ SwapConsole(t) \/ Switch(t) \/ ReadStep(t)
                     \/ \E n \in Lens : ReadStart(t, n)

Spec == Init /\ [][Next]_vars

\* The scheduler gives every process the CPU again and again, for long enough
\* to make a step; the interrupt handler runs to its end.
Fairness ==
  /\ WF_vars(KeyEnd)
  /\ \A t \in Term : SF_vars(Switch(t)) /\ SF_vars(ReadStep(t))

FairSpec == Spec /\ Fairness

-----------------------------------------------------------------------------
(* Properties *)

\* A read returns exactly the line that was typed on its terminal since it
\* began to poll, ended by a newline: nothing typed on another terminal,
\* nothing of an earlier read, no character lost or kept that was deleted.
LineAsTyped ==
  [][\A t \in Term : rpc[t] = "poll" /\ rpc'[t] = "user"
       => Returned(t) = Append(line[t].text, LF)]_vars

\* While a read polls there is room for the newline and the terminator behind
\* what has been stored, within the length the read asked for.
InBounds == \A t \in Term : rpc[t] = "poll" => input[t].next + 2 <= nbytes[t]

\* Once the user has ended the line, the read returns.
TypedLineReturns ==
  \A t \in Term : rpc[t] = "poll" /\ ~line[t].open ~> rpc[t] = "user"

\* Keys are stored "if we are actively buffering input": a key changes nothing
\* on the stack of a process whose read has returned.
DeadStackUntouched ==
  [][\A t \in Term : rpc[t] = "user" /\ rpc'[t] = "user" => kbuf'[t] = kbuf[t]]_vars

\* No key is stored through the NULL pointer that vterm_new leaves.
NoNullStore == ~fault

\* No key is ever stored outside the buffer of the read that it belongs to,
\* whichever assignment of console_getinput the key comes after.
BufferSafe == TypeOK /\ InBounds

=============================================================================
