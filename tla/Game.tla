-------------------------------- MODULE Game --------------------------------
(***************************************************************************)
(* The adventure game as a program: main's set-up and the stack of         *)
(* cleanups that undoes it (assert.c) however the game ends, the game loop *)
(* with its tick, the reading of keys from a terminal that delivers them   *)
(* byte by byte (input.c), and the helper thread that takes the status     *)
(* message off the bar 1.5 seconds after it was posted (adventure.c).      *)
(*                                                                         *)
(* What a command does to the world is in World.tla and what is drawn is   *)
(* in ModeX.tla; here a command has one of the results that it can return. *)
(***************************************************************************)
EXTENDS Integers, Sequences, SequencesExt

CONSTANTS
  Keys,           \* keys the player may press, of those in DOMAIN Bytes
  MaxKeys,        \* bound: keys pressed in a game
  MAX_TYPED_LEN,  \* characters that the typing buffer holds (20)
  SHOW,           \* ticks that a message stays (30 of 50 ms)
  MaxSignals,     \* bound: signals sent, all different (SIGINT, SIGQUIT ...)
  MaxSpurious,    \* bound: spurious wakeups of the condition variable
  Faults          \* set-up calls and allocations may fail

VARIABLES
  pc,             \* main: where it is
  cleanup_stack,  \* functions to run when the program ends, top first
  popped,         \* the one pop_cleanup has removed and is running
  done,           \* number of set-ups that main has made or begun
  tio, vga,       \* the terminal's settings, the VGA's mode: "half" while its
                  \* registers are being written
  msg_lock,       \* holder of the mutex
  status_msg,     \* the message ("" for none)
  st, deadline,   \* the status thread, and the ticks until its timeout
  bar,            \* what the status bar shows
  ticked,         \* the time of the next tick has passed
  enter_room,     \* the player has just changed rooms
  wire, stdin,    \* bytes of a key on their way, bytes ready to be read
  typing, state, pushed,  \* input.c: text typed, arrow-key FSM, command
  keys, spurious, signals, \* bounds: what may still happen
  age, late,      \* history of the message: ticks since it was posted, and
                  \* posted while the thread was about to clear the one
                  \* before it
  text,           \* history: what the keys read so far have typed
  missed          \* history: the cleanups that were cut off: not yet on the
                  \* stack when the end came, or off it and not run to the end

\* The empty string: no message.
NoMsg == ""

up     == <<cleanup_stack, popped, done, tio, vga>>
msg    == <<status_msg, age, late>>
thread == <<st, deadline>>
input  == <<wire, stdin, typing, state, pushed, text>>
bounds == <<keys, spurious, signals>>
frame  == <<bar, ticked, enter_room>>
vars == <<pc, up, msg_lock, msg, thread, input, bounds, frame, missed>>

-----------------------------------------------------------------------------
(* Keys.  The terminal sends a key as one byte or as an escape sequence.    *)

Bytes == [x      |-> <<"x">>,
          delete |-> <<"del">>,
          enter  |-> <<"nl">>,
          up     |-> <<"esc", "[", "A">>,
          insert |-> <<"esc", "[", "2", "~">>,
          quit   |-> <<"bq">>]

ASSUME GameAssumption ==
  /\ Keys \subseteq DOMAIN Bytes
  /\ MaxKeys \in Nat /\ MAX_TYPED_LEN \in Nat /\ SHOW \in Nat
  /\ MaxSignals \in Nat /\ MaxSpurious \in Nat /\ Faults \in BOOLEAN

\* Letters, digits, space and the two codes of backspace.
valid_typing(ch) == ch \in {"x", "A", "2", "del"}

typed_a_char(t, ch) ==
  IF ch = "del" THEN IF t # <<>> THEN Front(t) ELSE t
  ELSE IF Len(t) < MAX_TYPED_LEN THEN Append(t, ch) ELSE t

\* What a key types, as the player sees it.
Typed(t, key) == IF key \in {"x", "delete"} THEN typed_a_char(t, Head(Bytes[key]))
                 ELSE t

\* A byte with the key that it completes, if it is the last one of a key.
Send(key) == [i \in DOMAIN Bytes[key] |->
                [ch |-> Bytes[key][i],
                 key |-> IF i = Len(Bytes[key]) THEN key ELSE "none"]]

Press ==
  /\ pc # "exit" /\ wire = <<>> /\ keys > 0
  /\ \E key \in Keys : wire' = Send(key)
  /\ keys' = keys - 1
  /\ UNCHANGED <<pc, up, msg_lock, msg, thread, stdin, typing, state, pushed,
                 text, spurious, signals, frame, missed>>

\* A byte reaches stdin.  Bytes that arrive while main does not look at stdin
\* might as well arrive when it next waits for a tick.
Deliver ==
  /\ pc \in {"wait", "read"} /\ wire # <<>>
  /\ stdin' = Append(stdin, Head(wire)) /\ wire' = Tail(wire)
  /\ UNCHANGED <<pc, up, msg_lock, msg, thread, typing, state, pushed, text,
                 bounds, frame, missed>>

-----------------------------------------------------------------------------
(* Ending: the cleanup stack. *)

None == "none"

\* What is pushed on the stack, in the order of the set-ups.
Cleanups == <<"cancel_status_thread", "clear_mode_X", "shutdown_input">>

\* do_cleanups, by a PANIC, an ABORT, a signal or the end of main's blocks.
do_cleanups == pc' = "cleanups" /\ popped' = None

\* A call fails: PANIC, or ABORT when there is no memory.
PANIC == Faults /\ do_cleanups

cancel_status_thread == st' = "cancelled" /\ UNCHANGED <<tio, vga>>
shutdown_input == tio' = "orig" /\ UNCHANGED <<st, vga>>

\* Register by register: the VGA is in no mode until the last of them is
\* written, the fonts are back and the video memory is unmapped.
clear_mode_X == /\ \/ vga = "X" /\ vga' = "half"
                   \/ vga = "half" /\ vga' = "text"
                /\ UNCHANGED <<st, tio>>

Undo(fn) == \/ fn = "cancel_status_thread" /\ cancel_status_thread
            \/ fn = "clear_mode_X" /\ clear_mode_X
            \/ fn = "shutdown_input" /\ shutdown_input

\* pop_cleanup removes the top element first ...
pop_cleanup ==
  /\ pc = "cleanups" /\ popped = None
  /\ IF cleanup_stack = <<>> THEN pc' = "exit" /\ UNCHANGED up
     ELSE /\ popped' = Head(cleanup_stack)
          /\ cleanup_stack' = Tail(cleanup_stack)
          /\ UNCHANGED <<pc, done, tio, vga>>
  /\ UNCHANGED <<msg_lock, msg, thread, input, bounds, frame, missed>>

\* ... and then runs it, clear_mode_X in two steps.
RunCleanup ==
  /\ pc = "cleanups" /\ popped # None
  /\ Undo(popped)
  /\ popped' = IF popped = "clear_mode_X" /\ vga = "X" THEN popped ELSE None
  /\ UNCHANGED <<pc, cleanup_stack, done, msg_lock, msg, deadline, input,
                 bounds, frame, missed>>

\* What will not be run when the program ends here and now.
Left == Range(cleanup_stack) \cup ({popped} \ {None})

\* clean_on_signals is the first thing that main does.
Catchable == pc \notin {"start", "exit"}

\* SA_ONESHOT: a signal is caught once.  Main takes it, as it blocks only the
\* signals whose handlers it is in.
CatchOnce == signals > 0 /\ signals' = signals - 1

\* Mutant: the signal ends the program at once.
catch_signal_no_cleanups ==
  /\ Catchable /\ CatchOnce /\ pc' = "exit"
  /\ UNCHANGED <<up, msg_lock, msg, thread, input, keys, spurious,
                 frame, missed>>

\* The set-up that is under way, or made and not yet on the stack.
Unpushed == IF pc \in {"mode", "push"} THEN {Cleanups[done]} ELSE {}

\* The handler runs on top of whatever main was doing (another signal's handler
\* included), does all cleanups still on the stack and lets the signal end the
\* program.
catch_signal ==
  /\ Catchable /\ CatchOnce
  /\ missed' = missed \cup Unpushed \cup ({popped} \ {None})
  /\ do_cleanups
  /\ UNCHANGED <<cleanup_stack, done, tio, vga, msg_lock, msg, thread, input,
                 keys, spurious, frame>>

\* The same signal once more.  It is blocked in main, which is in its handler,
\* but not in the status thread, and SA_ONESHOT has brought its default action
\* back: the program ends at once.  Without that thread it waits for the end.
repeat_signal ==
  /\ pc = "cleanups" /\ signals < MaxSignals /\ st \notin {None, "cancelled"}
  /\ pc' = "exit" /\ missed' = missed \cup Left
  /\ UNCHANGED <<up, msg_lock, msg, thread, input, bounds, frame>>

\* clear_mode_X for the second time, after the clean-up by hand: it writes to
\* the video memory that the first has unmapped.  The SIGSEGV has its handler,
\* or ends the program when it has been caught before.
Segfault ==
  /\ pc = "cleanups" /\ popped = "clear_mode_X" /\ vga = "text"
  /\ vga' = "half"
  /\ \/ do_cleanups /\ missed' = missed \cup {popped}
     \/ /\ signals < MaxSignals
        /\ pc' = "exit" /\ missed' = missed \cup Left /\ UNCHANGED popped
  /\ UNCHANGED <<cleanup_stack, done, tio, msg_lock, msg, thread, input, bounds,
                 frame>>

-----------------------------------------------------------------------------
(* main: set up the thread, mode X and the input, each with its cleanup. *)

Init ==
  /\ pc = "start" /\ cleanup_stack = <<>> /\ popped = None /\ done = 0
  /\ tio = "orig" /\ vga = "text" /\ msg_lock = None
  /\ status_msg = NoMsg /\ age = 0 /\ late = FALSE
  /\ st = None /\ deadline = 0
  /\ bar = NoMsg /\ ticked = FALSE /\ enter_room = TRUE
  /\ wire = <<>> /\ stdin = <<>> /\ typing = <<>> /\ state = 0
  /\ pushed = "none" /\ text = <<>>
  /\ keys = MaxKeys /\ spurious = MaxSpurious /\ signals = MaxSignals
  /\ missed = {}

\* clean_on_signals, build_world, init_game and sanity_check.
Start ==
  /\ pc = "start"
  /\ \/ pc' = "setup" /\ UNCHANGED up
     \/ PANIC /\ UNCHANGED <<cleanup_stack, done, tio, vga>>
  /\ UNCHANGED <<msg_lock, msg, thread, input, bounds, frame, missed>>

pthread_create == st' = "lock" /\ pc' = "push" /\ UNCHANGED <<tio, vga>>
init_input == tio' = "raw" /\ pc' = "push" /\ UNCHANGED <<st, vga>>

\* set_mode_X: what can fail comes before the first register.
StartModeX == vga' = "half" /\ pc' = "mode" /\ UNCHANGED <<st, tio>>

\* The next set-up; PANIC when it fails.
SetUp ==
  /\ pc = "setup"
  /\ \/ /\ done' = done + 1
        /\ \/ done = 0 /\ pthread_create
           \/ done = 1 /\ StartModeX
           \/ done = 2 /\ init_input
        /\ UNCHANGED popped
     \/ PANIC /\ UNCHANGED <<done, tio, vga, st>>
  /\ UNCHANGED <<cleanup_stack, msg_lock, msg, deadline, input, bounds, frame,
                 missed>>

\* The last register is written.
set_mode_X ==
  /\ pc = "mode"
  /\ vga' = "X" /\ pc' = "push"
  /\ UNCHANGED <<cleanup_stack, popped, done, tio, msg_lock, msg, thread, input,
                 bounds, frame, missed>>

\* The new element goes on top of the stack; ABORT when there is no memory.
push_cleanup ==
  /\ pc = "push"
  /\ \/ /\ cleanup_stack' = <<Cleanups[done]>> \o cleanup_stack
        /\ pc' = IF done = 3 THEN "show" ELSE "setup"
        /\ UNCHANGED <<popped, missed>>
     \/ /\ PANIC /\ missed' = missed \cup {Cleanups[done]}
        /\ UNCHANGED cleanup_stack
  /\ UNCHANGED <<done, tio, vga, msg_lock, msg, thread, input, bounds, frame>>

-----------------------------------------------------------------------------
(* get_command: read what there is on stdin. *)

\* The arrow-key FSM: state 1 after ESC, 2 after ESC [, 3 after a digit that is
\* followed by a tilde.
FsmNext(s, ch) ==
  CASE s = 0 /\ ch = "esc" -> 1
    [] s = 1 /\ ch = "[" -> 2
    [] s = 2 /\ ch = "2" -> 3
    [] OTHER -> 0

\* Bytes that are part of a sequence, and what they push.
InSequence(s, ch) ==
  \/ FsmNext(s, ch) # 0 \/ (s = 2 /\ ch = "A") \/ (s = 3 /\ ch = "~")

Pushes(s, ch, old) ==
  CASE s = 2 /\ ch = "A" -> "scroll"
    [] s = 2 /\ ch = "2" -> "go"
    [] ~InSequence(s, ch) /\ ch = "nl" -> "typed"
    [] OTHER -> old

\* Mutant: the FSM starts anew with every call.
ReadForgetful ==
  LET b == Head(stdin)
  IN /\ pc = "read" /\ stdin # <<>>
     /\ stdin' = Tail(stdin)
     /\ text' = Typed(text, b.key)
     /\ IF b.ch = "bq" THEN pc' = "cleanups" /\ UNCHANGED <<typing, state, pushed>>
        ELSE /\ state' = IF Tail(stdin) = <<>> THEN 0 ELSE FsmNext(state, b.ch)
             /\ typing' = IF ~InSequence(state, b.ch) /\ valid_typing(b.ch)
                          THEN typed_a_char(typing, b.ch) ELSE typing
             /\ pushed' = Pushes(state, b.ch, pushed)
             /\ UNCHANGED pc
     /\ UNCHANGED <<up, msg_lock, msg, thread, wire, bounds, frame, missed>>

\* One byte.  A backquote quits at once, with the rest unread.
Read ==
  LET b == Head(stdin)
  IN /\ pc = "read" /\ stdin # <<>>
     /\ stdin' = Tail(stdin)
     /\ text' = Typed(text, b.key)
     /\ IF b.ch = "bq" THEN pc' = "cleanups" /\ UNCHANGED <<typing, state, pushed>>
        ELSE /\ state' = FsmNext(state, b.ch)
             /\ typing' = IF ~InSequence(state, b.ch) /\ valid_typing(b.ch)
                          THEN typed_a_char(typing, b.ch) ELSE typing
             /\ pushed' = Pushes(state, b.ch, pushed)
             /\ UNCHANGED pc
     /\ UNCHANGED <<up, msg_lock, msg, thread, wire, bounds, frame, missed>>

\* End of input: the command pushed last is the one.
get_command ==
  /\ pc = "read" /\ stdin = <<>>
  /\ pc' = "act"
  /\ UNCHANGED <<up, msg_lock, msg, thread, input, bounds, frame, missed>>

-----------------------------------------------------------------------------
(* The game loop. *)

reset_typed_command == typing' = <<>> /\ text' = <<>>

\* The top of the loop: a new room discards what was typed; show_screen.
ShowScreen ==
  /\ pc = "show" /\ pc' = "bar"
  /\ IF enter_room THEN reset_typed_command ELSE UNCHANGED <<typing, text>>
  /\ enter_room' = FALSE
  /\ UNCHANGED <<up, msg_lock, msg, thread, wire, stdin, state, pushed, bounds,
                 bar, ticked, missed>>

LockBar ==
  /\ pc = "bar" /\ msg_lock = None
  /\ msg_lock' = "main" /\ pc' = "draw"
  /\ UNCHANGED <<up, msg, thread, input, bounds, frame, missed>>

\* The bar holds the message, or the room's name and the typed text.
text_to_graphics(message) == IF message # NoMsg THEN message ELSE "room"

DrawBar ==
  /\ pc = "draw" /\ pc' = "wait"
  /\ bar' = text_to_graphics(status_msg)
  /\ msg_lock' = None
  /\ UNCHANGED <<up, msg, thread, input, bounds, ticked,
                 enter_room, missed>>

\* Wait for the tick.  Ticks missed meanwhile are skipped, not made up for.
\* When the clock cannot be read the program cleans up by hand.
WaitTick ==
  /\ pc = "wait" /\ ticked
  /\ ticked' = FALSE /\ pc' = "read"
  /\ UNCHANGED <<up, msg_lock, msg, thread, input, bounds, bar, enter_room,
                 missed>>

NoClock ==
  /\ Faults /\ pc = "wait" /\ pc' = "byhand"
  /\ UNCHANGED <<up, msg_lock, msg, thread, input, bounds, frame, missed>>

\* clear_mode_X, shutdown_input and exit; the stack still holds the two.
CleanByHand ==
  /\ pc = "byhand"
  /\ CASE vga # "text" -> clear_mode_X /\ UNCHANGED pc
       [] vga = "text" /\ tio = "raw" -> shutdown_input /\ UNCHANGED pc
       [] OTHER -> pc' = "exit" /\ UNCHANGED <<tio, vga, st>>
  /\ UNCHANGED <<cleanup_stack, popped, done, msg_lock, msg, deadline, input,
                 bounds, frame, missed>>

\* What a command may come to: [post: it shows a message; then: nothing, a
\* reset of the typed text, a new room, or the game won].
Outcomes ==
  CASE pushed = "typed" /\ typing # <<>> ->
         [post : {TRUE}, then : {"edit", "reset"}]
         \cup [post : {FALSE}, then : {"reset", "room", "won"}]
    [] pushed = "go" ->
         {[post |-> TRUE, then |-> "edit"], [post |-> FALSE, then |-> "room"]}
    [] OTHER -> {[post |-> FALSE, then |-> "edit"]}

\* game_loop's switch, with handle_typing and the moves of the world.
Act ==
  /\ pc = "act"
  /\ \E o \in Outcomes :
       /\ pc' = IF o.post THEN "post" ELSE IF o.then = "won" THEN "cleanups"
                ELSE "show"
       /\ enter_room' = (o.then = "room")
       /\ IF o.then = "reset" THEN reset_typed_command
          ELSE UNCHANGED <<typing, text>>
  /\ pushed' = "none"
  /\ UNCHANGED <<up, msg_lock, msg, thread, wire, stdin, state, bounds, bar,
                 ticked, missed>>

\* show_status: set the message and signal the helper, under the lock.
show_status ==
  /\ pc = "post" /\ msg_lock = None
  /\ pc' = "show"
  /\ status_msg' = "message" /\ age' = 0
  /\ late' = (st = "expired")
  /\ st' = CASE st = "waiting" -> "woken" [] st = "timing" -> "again"
             [] OTHER -> st
  /\ deadline' = 0
  /\ UNCHANGED <<up, msg_lock, input, bounds, frame, missed>>

-----------------------------------------------------------------------------
(* status_thread *)

T(new) ==
  /\ st' = new
  /\ UNCHANGED <<pc, up, input, bounds, frame, missed>>

\* Take the lock; on from a wait without a message, the same.
ThreadLock ==
  /\ st \in {"lock", "woken"} /\ msg_lock = None
  /\ msg_lock' = "status" /\ T("check")
  /\ UNCHANGED <<msg, deadline>>

\* No message: pthread_cond_wait.  A message: the timed wait.
ThreadCheck ==
  /\ st = "check" /\ msg_lock' = None
  /\ IF status_msg = NoMsg THEN T("waiting") /\ UNCHANGED deadline
     ELSE T("timing") /\ deadline' = SHOW
  /\ UNCHANGED msg

\* Mutant: the wait goes on without a new timeout.
ThreadNoRestart ==
  /\ st = "again" /\ msg_lock = None
  /\ T("timing") /\ UNCHANGED <<msg_lock, msg, deadline>>

\* Woken before the timeout: start the 1.5 seconds again.
ThreadAgain ==
  /\ st = "again" /\ msg_lock = None
  /\ T("timing") /\ deadline' = SHOW
  /\ UNCHANGED <<msg_lock, msg>>

\* The timeout passes: ETIMEDOUT, once the lock is had again.
ThreadExpire ==
  /\ st = "timing" /\ deadline = 0
  /\ T("expired") /\ UNCHANGED <<msg_lock, msg, deadline>>

\* Mutant: the message is left.
ThreadNeverClears ==
  /\ st = "expired" /\ msg_lock = None
  /\ T("lock") /\ UNCHANGED <<msg_lock, msg, deadline>>

ThreadClear ==
  /\ st = "expired" /\ msg_lock = None
  /\ status_msg' = NoMsg /\ age' = 0 /\ late' = FALSE /\ T("lock")
  /\ UNCHANGED <<msg_lock, deadline>>

\* A condition variable may wake its waiter for no reason.
Spurious ==
  /\ pc # "exit" /\ spurious > 0 /\ spurious' = spurious - 1
  /\ \/ st = "waiting" /\ st' = "woken"
     \/ st = "timing" /\ st' = "again"
  /\ deadline' = 0
  /\ UNCHANGED <<pc, up, msg_lock, msg, input, keys, signals, frame,
                 missed>>

\* A tick of the clock.
Clock ==
  /\ pc # "exit"
  /\ ticked' = TRUE
  /\ deadline' = IF st = "timing" /\ deadline > 0 THEN deadline - 1 ELSE deadline
  /\ age' = IF status_msg # NoMsg /\ age < SHOW THEN age + 1 ELSE age
  /\ UNCHANGED <<pc, up, msg_lock, status_msg, late, st, input, bounds,
                 bar, enter_room, missed>>

-----------------------------------------------------------------------------

Main ==
  \/ Start \/ SetUp \/ set_mode_X \/ push_cleanup
  \/ pop_cleanup \/ RunCleanup \/ Segfault
  \/ ShowScreen \/ LockBar \/ DrawBar \/ WaitTick \/ NoClock \/ CleanByHand
  \/ Read \/ get_command \/ Act \/ show_status

StatusThread ==
  /\ pc # "exit"
  /\ ThreadLock \/ ThreadCheck \/ ThreadAgain \/ ThreadExpire \/ ThreadClear

Exited == pc = "exit" /\ UNCHANGED vars

Next == \/ Main \/ StatusThread \/ Press \/ Deliver
        \/ catch_signal \/ repeat_signal \/ Spurious \/ Clock \/ Exited

Spec == Init /\ [][Next]_vars

\* The clock runs and main gets its turns.  The mutex is free for most of every
\* tick, so a thread that asks for it gets it in the end.
FairSpec == Spec /\ SF_vars(Main) /\ SF_vars(StatusThread) /\ WF_vars(Clock)

-----------------------------------------------------------------------------
(* Properties *)

\* Type correctness.
TypeOK ==
  /\ pc \in {"start", "setup", "mode", "push", "show", "bar", "draw", "wait",
             "read", "act", "post", "byhand", "cleanups", "exit"}
  /\ popped \in {None} \cup Range(Cleanups) /\ done \in 0 .. 3
  /\ Range(cleanup_stack) \subseteq Range(Cleanups)
  /\ tio \in {"orig", "raw"} /\ vga \in {"text", "half", "X"}
  /\ missed \subseteq Range(Cleanups)
  /\ msg_lock \in {None, "main", "status"}
  /\ st \in {None, "lock", "check", "waiting", "woken", "timing", "again",
             "expired", "cancelled"}
  /\ deadline \in 0 .. SHOW /\ age \in 0 .. SHOW
  /\ Len(typing) <= MAX_TYPED_LEN /\ state \in 0 .. 3
  /\ pushed \in {"none", "scroll", "go", "typed"}

\* However the program ends - quit, won, a failed call, a signal in the middle
\* of anything - the terminal and the VGA are each as they were found, unless
\* that one's cleanup was cut off: the end came during its set-up or before
\* its push_cleanup, during the cleanup itself, or at once, by a signal repeated
\* in its own handler, while the cleanup was still to come; or its second run,
\* after the clean-up by hand, failed.
RestoredAtExit ==
  pc = "exit" => /\ tio = "orig" \/ "shutdown_input" \in missed
                 /\ vga = "text" \/ "clear_mode_X" \in missed

\* A message is taken away before its 1.5 seconds are over only if it was
\* posted after the timeout of the message before it and before the thread
\* had the lock again: that one window is all that the timeout's race with a
\* new message leaves open.
ClearedInTime ==
  [][ status_msg # NoMsg /\ status_msg' = NoMsg => age >= SHOW \/ late ]_vars

\* Escape sequences never end up in the typed text, wherever they are cut by
\* the end of the input that get_command has at hand, and no typed character
\* is lost: the buffer holds what the keys read so far have typed.
TypedAsPressed == state = 0 => typing = text

\* A message on the bar does not stay there: the thread clears it and the loop
\* draws the room's name and the typed text again, or the program ends.
MessageGoes == bar = "message" ~> (bar # "message" \/ pc = "exit")

\* Typing is right: the text fits its buffer and is what the keys say, wherever
\* a tick cuts their sequences (get_command, typed_a_char).
InputCorrect == TypeOK /\ TypedAsPressed

=============================================================================
