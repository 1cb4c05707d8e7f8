--------------------------- MODULE AdventureProofs ---------------------------
(***************************************************************************)
(* Proofs about the adventure.  The program (Game): for any number of      *)
(* keys, signals and spurious wakeups, any length of the typing buffer and *)
(* any time that a message stays.  Its world (World), at the end: the      *)
(* rules hold for every player, whatever the set of commands a play is     *)
(* made of, in any order and any number.                                   *)
(***************************************************************************)
EXTENDS Game, World, SequenceTheorems, FiniteSetTheorems, TLAPS

Funcs == {"cancel_status_thread", "clear_mode_X", "shutdown_input"}

Pcs == {"start", "setup", "mode", "push", "show", "bar", "draw", "wait", "read",
        "act", "post", "byhand", "cleanups", "exit"}

-----------------------------------------------------------------------------
(* The terminal and the VGA are restored. *)

\* Cleanup fn was cut off or will still be run: it is on the stack, or taken
\* off it and not yet done, or its set-up is under way or just made and it is
\* about to be pushed.
Owed(fn, n) ==
  \/ fn \in missed
  \/ \E i \in 1 .. Len(cleanup_stack) : cleanup_stack[i] = fn
  \/ popped = fn
  \/ pc \in {"mode", "push"} /\ done = n

\* The inductive invariant: what is set up is owed its cleanup.
CleanupInv ==
  /\ pc \in Pcs /\ done \in 0 .. 3
  /\ cleanup_stack \in Seq(Funcs) /\ popped \in {None} \cup Funcs
  /\ tio \in {"orig", "raw"} /\ vga \in {"text", "half", "X"}
  /\ missed \subseteq Funcs
  /\ popped # None => pc \in {"cleanups", "exit"}
  /\ pc = "push" => done # 0
  /\ pc = "mode" => done = 2
  /\ pc # "exit" => /\ vga # "text" => Owed("clear_mode_X", 2)
                    /\ tio = "raw" => Owed("shutdown_input", 3)
  /\ RestoredAtExit

USE DEF None

\* What is set up stays owed its cleanup, by every action of main, of the
\* thread and of the signal handler.
LEMMA CleanupInvariance == Spec => []CleanupInv
<1>1. Init => CleanupInv
  <2> SUFFICES ASSUME Init PROVE CleanupInv
    OBVIOUS
  <2>1. /\ pc = "start" /\ cleanup_stack = <<>> /\ popped = None /\ done = 0
        /\ tio = "orig" /\ vga = "text" /\ missed = {}
    BY DEF Init
  <2>2. cleanup_stack \in Seq(Funcs) /\ done \in 0 .. 3 /\ missed \subseteq Funcs
    BY <2>1
  <2> QED
    BY <2>1, <2>2, Zenon DEF CleanupInv, RestoredAtExit, Pcs
<1>2. ASSUME CleanupInv, [Next]_vars
      PROVE  CleanupInv'
  <2> USE <1>2 DEF CleanupInv, RestoredAtExit, Owed, Pcs, Funcs, up
  <2>1. CASE Start
    BY <2>1 DEF Start, PANIC, do_cleanups
  <2>2. CASE SetUp
    BY <2>2 DEF SetUp, PANIC, do_cleanups, pthread_create, StartModeX,
                init_input
  <2>3. CASE set_mode_X
    BY <2>3 DEF set_mode_X
  <2>4. CASE push_cleanup
    <3> DEFINE new == Cleanups[done]
    <3>1. /\ done = 2 => new = "clear_mode_X"
          /\ done = 3 => new = "shutdown_input"
          /\ new \in Funcs
      BY <2>4 DEF push_cleanup, Cleanups
    <3>2. CASE PANIC /\ missed' = missed \cup {Cleanups[done]}
               /\ UNCHANGED cleanup_stack
      <4>1. missed' = missed \cup {new} /\ pc' = "cleanups" /\ popped' = None
        BY <3>2 DEF PANIC, do_cleanups
      <4>2. pc = "push" /\ UNCHANGED <<done, tio, vga, cleanup_stack>>
        BY <2>4, <3>2 DEF push_cleanup
      <4> HIDE DEF new
      <4> QED
        BY <3>1, <4>1, <4>2
    <3>3. CASE /\ cleanup_stack' = <<Cleanups[done]>> \o cleanup_stack
               /\ pc' = IF done = 3 THEN "show" ELSE "setup"
               /\ UNCHANGED <<popped, missed>>
      <4>2. /\ cleanup_stack' \in Seq(Funcs)
            /\ cleanup_stack'[1] = new
            /\ Len(cleanup_stack') = Len(cleanup_stack) + 1
            /\ \A i \in 1 .. Len(cleanup_stack) :
                 cleanup_stack'[i + 1] = cleanup_stack[i]
        <5> HIDE DEF new
        <5> QED BY <3>1, <3>3 DEF new
      <4>3. \A fn : (\E i \in 1 .. Len(cleanup_stack) : cleanup_stack[i] = fn)
                    => \E i \in 1 .. Len(cleanup_stack') : cleanup_stack'[i] = fn
        BY <4>2
      <4> HIDE DEF new
      <4> QED
        BY <2>4, <3>1, <3>3, <4>2, <4>3 DEF push_cleanup
    <3> QED
      BY <2>4, <3>2, <3>3 DEF push_cleanup
  <2>5. CASE pop_cleanup
    <3>1. CASE cleanup_stack = <<>>
      BY <2>5, <3>1 DEF pop_cleanup
    <3>2. CASE cleanup_stack # <<>>
      <4>1. /\ Len(cleanup_stack) > 0
            /\ cleanup_stack' \in Seq(Funcs) /\ popped' \in Funcs
            /\ popped' = cleanup_stack[1]
            /\ Len(cleanup_stack') = Len(cleanup_stack) - 1
            /\ \A i \in 1 .. Len(cleanup_stack) - 1 :
                 cleanup_stack'[i] = cleanup_stack[i + 1]
        BY <2>5, <3>2 DEF pop_cleanup
      <4>2. \A fn : (\E i \in 1 .. Len(cleanup_stack) : cleanup_stack[i] = fn)
                    => \/ popped' = fn
                       \/ \E i \in 1 .. Len(cleanup_stack') :
                            cleanup_stack'[i] = fn
        <5> SUFFICES ASSUME NEW fn, NEW i \in 1 .. Len(cleanup_stack),
                            cleanup_stack[i] = fn, i # 1
                     PROVE  \E j \in 1 .. Len(cleanup_stack') :
                              cleanup_stack'[j] = fn
          BY <4>1
        <5>1. i - 1 \in 1 .. Len(cleanup_stack') /\ cleanup_stack'[i - 1] = fn
          BY <4>1
        <5> QED
          BY <5>1
      <4> QED
        BY <2>5, <3>2, <4>1, <4>2 DEF pop_cleanup
    <3> QED
      BY <3>1, <3>2
  <2>6. CASE RunCleanup
    BY <2>6 DEF RunCleanup, Undo, cancel_status_thread, clear_mode_X,
                shutdown_input
  <2>7. /\ \A fn : fn # None =>
                (fn \in Left <=> \/ popped = fn
                                 \/ \E i \in 1 .. Len(cleanup_stack) :
                                      cleanup_stack[i] = fn)
        /\ Left \subseteq Funcs
    <3>1. Range(cleanup_stack)
            = {cleanup_stack[i] : i \in 1 .. Len(cleanup_stack)}
      BY DEF Range
    <3> QED
      BY <3>1 DEF Left
  <2>8. "clear_mode_X" # None /\ "shutdown_input" # None
    OBVIOUS
  <2>9. CASE catch_signal
    <3>1. /\ pc \in {"mode", "push"} /\ done = 2 => "clear_mode_X" \in Unpushed
          /\ pc \in {"mode", "push"} /\ done = 3 => "shutdown_input" \in Unpushed
          /\ Unpushed \subseteq Funcs
      BY DEF Unpushed, Cleanups
    <3>2. /\ missed' = missed \cup Unpushed \cup ({popped} \ {None})
          /\ pc # "exit" /\ pc' = "cleanups" /\ popped' = None
          /\ UNCHANGED <<cleanup_stack, done, tio, vga>>
      BY <2>9 DEF catch_signal, Catchable, do_cleanups
    <3> QED
      BY <2>8, <3>1, <3>2
  <2>10. CASE repeat_signal
    <3>1. /\ pc = "cleanups" /\ pc' = "exit" /\ missed' = missed \cup Left
          /\ UNCHANGED up
      BY <2>10 DEF repeat_signal
    <3> QED
      BY <2>7, <2>8, <3>1
  <2>11. CASE Segfault
    <3>1. /\ pc = "cleanups" /\ popped = "clear_mode_X"
          /\ vga' = "half" /\ UNCHANGED <<cleanup_stack, done, tio>>
      BY <2>11 DEF Segfault
    <3>2. CASE do_cleanups /\ missed' = missed \cup {popped}
      BY <3>1, <3>2 DEF do_cleanups
    <3>3. CASE pc' = "exit" /\ missed' = missed \cup Left /\ UNCHANGED popped
      BY <2>7, <2>8, <3>1, <3>3
    <3> QED
      BY <2>11, <3>2, <3>3 DEF Segfault
  <2>12. CASE CleanByHand
    BY <2>12 DEF CleanByHand, clear_mode_X, shutdown_input
  <2>13. CASE /\ UNCHANGED <<up, missed>> /\ popped = None
              /\ pc \notin {"mode", "push", "exit"}
              /\ pc' \in Pcs \ {"exit", "mode", "push"}
    BY <2>13
  <2>14. CASE UNCHANGED <<pc, up, missed>>
    BY <2>14
  <2>15. CASE ShowScreen \/ LockBar \/ DrawBar \/ WaitTick \/ NoClock \/ Read
              \/ get_command \/ Act \/ show_status
    BY <2>13, <2>15 DEF ShowScreen, LockBar, DrawBar, WaitTick, NoClock, Read,
                       get_command, Act, show_status
  <2>16. CASE StatusThread \/ Press \/ Deliver \/ Spurious \/ Clock \/ Exited
              \/ UNCHANGED vars
    BY <2>14, <2>16 DEF StatusThread, ThreadLock, ThreadCheck, ThreadAgain,
       ThreadExpire, ThreadClear, T, Press, Deliver, Spurious, Clock, Exited,
       vars
  <2> QED
    BY <2>1, <2>2, <2>3, <2>4, <2>5, <2>6, <2>9, <2>10, <2>11, <2>12, <2>15,
       <2>16 DEF Next, Main
<1> QED
  BY <1>1, <1>2, PTL DEF Spec

\* However the program ends, what it has set up is undone, save for the
\* cleanups that were cut off, each for itself (push_cleanup, do_cleanups,
\* clean_on_signals, set_signal_behavior).
THEOREM RestoredCorrect == Spec => []RestoredAtExit
<1>1. CleanupInv => RestoredAtExit
  BY DEF CleanupInv
<1> QED
  BY <1>1, CleanupInvariance, PTL

-----------------------------------------------------------------------------
(* The status message. *)

\* The inductive invariant: while the helper thread times a message there is
\* one, the ticks it has been shown and the ticks until the timeout make up the
\* whole time, and when the timeout has passed so has the time, unless a new
\* message was posted after it.
TimerInv ==
  /\ deadline \in 0 .. SHOW /\ age \in 0 .. SHOW /\ late \in BOOLEAN
  /\ st \in {"timing", "again", "expired"} => status_msg # NoMsg
  /\ st = "timing" => age + deadline >= SHOW
  /\ st = "expired" => age >= SHOW \/ late

\* The timer agrees with the message's age after every step.
LEMMA TimerInvariance == Spec => []TimerInv
<1>1. Init => TimerInv
  <2> SUFFICES ASSUME Init PROVE TimerInv
    OBVIOUS
  <2>1. deadline = 0 /\ age = 0 /\ late = FALSE /\ st = "none"
    BY DEF Init
  <2>2. deadline \in 0 .. SHOW /\ age \in 0 .. SHOW
    BY <2>1, GameAssumption
  <2> QED
    BY <2>1, <2>2, Zenon DEF TimerInv
<1>2. ASSUME TimerInv, [Next]_vars
      PROVE  TimerInv'
  <2>0. SHOW \in Nat
    BY GameAssumption
  <2>m. "message" # NoMsg
    BY Zenon DEF NoMsg
  <2> USE <1>2, <2>0, <2>m DEF TimerInv, msg, thread
  <2>1. CASE SetUp
    BY <2>1 DEF SetUp, PANIC, do_cleanups, pthread_create, StartModeX,
                init_input
  <2>2. CASE RunCleanup
    BY <2>2 DEF RunCleanup, Undo, cancel_status_thread, clear_mode_X,
                shutdown_input
  <2>3. CASE show_status
    <3>1. late' = (st = "expired") /\ late' \in BOOLEAN
      BY <2>3 DEF show_status
    <3>2. /\ st' = "expired" => late'
          /\ st' # "timing"
      BY <2>3, <3>1 DEF show_status
    <3>3. age' = 0 /\ deadline' = 0 /\ status_msg' # NoMsg
      BY <2>3 DEF show_status
    <3>4. age' \in 0 .. SHOW /\ deadline' \in 0 .. SHOW
      BY <3>3
    <3> QED
      BY <3>1, <3>2, <3>3, <3>4, Zenon
  <2>4. CASE ThreadLock
    BY <2>4 DEF ThreadLock, T
  <2>5. CASE ThreadCheck
    BY <2>5 DEF ThreadCheck, T
  <2>6. CASE ThreadAgain
    BY <2>6 DEF ThreadAgain, T
  <2>7. CASE ThreadExpire
    BY <2>7 DEF ThreadExpire, T
  <2>8. CASE ThreadClear
    <3>1. age' \in 0 .. SHOW /\ deadline' \in 0 .. SHOW
      BY <2>8 DEF ThreadClear
    <3>2. late' = FALSE /\ st' = "lock"
      BY <2>8 DEF ThreadClear, T
    <3> QED
      BY <3>1, <3>2, Zenon
  <2>9. CASE Spurious
    BY <2>9 DEF Spurious
  <2>10. CASE Clock
    BY <2>10 DEF Clock
  <2>11. CASE UNCHANGED <<msg, thread>>
    BY <2>11
  <2>12. CASE Start \/ set_mode_X \/ push_cleanup \/ pop_cleanup \/ Segfault
              \/ ShowScreen \/ LockBar \/ DrawBar \/ WaitTick \/ NoClock \/ Read
              \/ get_command \/ Act
    BY <2>11, <2>12, Zenon DEF Start, set_mode_X, push_cleanup, pop_cleanup,
       Segfault, ShowScreen, LockBar, DrawBar, WaitTick, NoClock, Read,
       get_command, Act
  <2>13. CASE Press \/ Deliver \/ catch_signal \/ repeat_signal \/ Exited
              \/ UNCHANGED vars
    BY <2>11, <2>13 DEF Press, Deliver, catch_signal, repeat_signal, Exited, vars
  <2>14. CASE CleanByHand
    BY <2>14 DEF CleanByHand, clear_mode_X, shutdown_input
  <2> QED
    BY <2>1, <2>2, <2>3, <2>4, <2>5, <2>6, <2>7, <2>8, <2>9, <2>10, <2>12,
       <2>13, <2>14
    DEF Next, Main, StatusThread
<1> QED
  BY <1>1, <1>2, PTL DEF Spec

\* No message is taken off the bar before its time, however the timeout, a new
\* message and spurious wakeups interleave (status_thread, show_status).
THEOREM TimerCorrect == Spec => ClearedInTime
<1>1. ASSUME TimerInv, [Next]_vars
      PROVE  [status_msg # NoMsg /\ status_msg' = NoMsg => age >= SHOW \/ late]_vars
  <2> SUFFICES ASSUME Next, status_msg # NoMsg, status_msg' = NoMsg
               PROVE  ThreadClear
    BY <1>1 DEF TimerInv, ThreadClear
  <2>1. status_msg' # status_msg
    OBVIOUS
  <2>2. ~Main
    <3>1. "message" # NoMsg
      BY Zenon DEF NoMsg
    <3>2. ~Start /\ ~SetUp /\ ~set_mode_X /\ ~push_cleanup /\ ~pop_cleanup
          /\ ~RunCleanup /\ ~Segfault
      BY <2>1 DEF Start, SetUp, set_mode_X, push_cleanup, pop_cleanup,
         RunCleanup, Segfault, msg
    <3>3. ~ShowScreen /\ ~LockBar /\ ~DrawBar /\ ~WaitTick /\ ~NoClock
          /\ ~CleanByHand
      BY <2>1 DEF ShowScreen, LockBar, DrawBar, WaitTick, NoClock, CleanByHand,
         msg
    <3>4. ~Read /\ ~get_command /\ ~Act
      BY <2>1 DEF Read, get_command, Act, msg
    <3>5. ~show_status
      BY <3>1 DEF show_status
    <3> QED
      BY <3>2, <3>3, <3>4, <3>5 DEF Main
  <2>3. /\ ~Press /\ ~Deliver /\ ~catch_signal /\ ~repeat_signal /\ ~Spurious
        /\ ~Clock /\ ~Exited
    BY <2>1 DEF Press, Deliver, catch_signal, repeat_signal, Spurious, Clock,
       Exited, msg, vars
  <2>4. ~ThreadLock /\ ~ThreadCheck /\ ~ThreadAgain /\ ~ThreadExpire
    BY <2>1 DEF ThreadLock, ThreadCheck, ThreadAgain, ThreadExpire, msg
  <2> QED
    BY <2>2, <2>3, <2>4 DEF Next, StatusThread
<1> QED
  BY <1>1, TimerInvariance, PTL DEF Spec, ClearedInTime

-----------------------------------------------------------------------------
(* The keys. *)

Chars == {"x", "A", "2"}

\* The bytes that the terminal sends, with the keys that they complete.
AllBytes ==
  {[ch |-> "x", key |-> "x"], [ch |-> "del", key |-> "delete"],
   [ch |-> "nl", key |-> "enter"], [ch |-> "bq", key |-> "quit"],
   [ch |-> "esc", key |-> "none"], [ch |-> "[", key |-> "none"],
   [ch |-> "A", key |-> "up"], [ch |-> "2", key |-> "none"],
   [ch |-> "~", key |-> "insert"]}

\* The FSM's state before a byte that is read where it belongs, and after it.
Before(b) == CASE b.ch = "[" -> 1 [] b.ch \in {"A", "2"} -> 2 [] b.ch = "~" -> 3
               [] OTHER -> 0

After(b) == FsmNext(Before(b), b.ch)

\* Read from state s, the bytes of q are whole keys, the first of them perhaps
\* begun: they take the FSM from one to the next and in the end to state 0.
Reads(q, s) ==
  /\ q = <<>> => s = 0
  /\ q # <<>> => Before(q[1]) = s /\ After(q[Len(q)]) = 0
  /\ \A i \in 1 .. Len(q) - 1 : Before(q[i + 1]) = After(q[i])

\* A byte that belongs where it is read types what its key types.
LEMMA ByteTypes ==
  ASSUME NEW b \in AllBytes, NEW t
  PROVE  (IF ~InSequence(Before(b), b.ch) /\ valid_typing(b.ch)
          THEN typed_a_char(t, b.ch) ELSE t) = Typed(t, b.key)
<1>1. Head(Bytes["x"]) = "x" /\ Head(Bytes["delete"]) = "del"
  BY DEF Bytes
<1> QED
  BY <1>1 DEF AllBytes, InSequence, Before, FsmNext, valid_typing, Typed

\* The FSM's states.
LEMMA AfterType ==
  ASSUME NEW b \in AllBytes
  PROVE  After(b) \in 0 .. 3 /\ Before(b) \in 0 .. 3
BY DEF AllBytes, After, Before, FsmNext

\* The typed text stays a text that fits its buffer.
LEMMA TypedType ==
  ASSUME NEW t \in Seq(Chars), Len(t) <= MAX_TYPED_LEN,
         NEW key \in {"x", "delete", "enter", "quit", "none", "up", "insert"}
  PROVE  /\ Typed(t, key) \in Seq(Chars)
         /\ Len(Typed(t, key)) <= MAX_TYPED_LEN
<1>1. Head(Bytes["x"]) = "x" /\ Head(Bytes["delete"]) = "del"
  BY DEF Bytes
<1>2. CASE key = "x"
  BY <1>1, <1>2, GameAssumption DEF Typed, typed_a_char, Chars
<1>3. CASE key = "delete"
  <2>1. CASE t = <<>>
    BY <1>1, <1>3, <2>1 DEF Typed, typed_a_char
  <2>2. CASE t # <<>>
    <3>1. /\ Front(t) \in Seq(Chars)
          /\ Len(Front(t)) = Len(t) - 1
      <4>1. Len(t) \in Nat /\ Len(t) > 0
        BY <2>2
      <4> DEFINE n == Len(t) - 1
                 f == SubSeq(t, 1, n)
      <4>2. n \in Int /\ n >= 0 /\ \A i \in 1 .. n : t[i] \in Chars
        BY <4>1
      <4>3. f \in Seq(Chars) /\ Len(f) = IF 1 <= n THEN n - 1 + 1 ELSE 0
        <5> HIDE DEF n
        <5> QED BY <4>2, SubSeqProperties
      <4>4. Front(t) = f
        BY DEF Front
      <4> HIDE DEF f
      <4> QED
        BY <4>1, <4>2, <4>3, <4>4
    <3>2. Typed(t, key) = Front(t)
      BY <1>1, <1>3, <2>2 DEF Typed, typed_a_char
    <3> QED
      BY <3>1, <3>2, GameAssumption
  <2> QED
    BY <2>1, <2>2
<1>4. CASE key \notin {"x", "delete"}
  BY <1>4 DEF Typed
<1> QED
  BY <1>2, <1>3, <1>4

\* Every key is sent as bytes that read from state 0.
LEMMA SendReads ==
  ASSUME NEW key \in Keys
  PROVE  /\ Send(key) \in Seq(AllBytes) /\ Send(key) # <<>>
         /\ Reads(Send(key), 0)
<1>1. key \in {"x", "delete", "enter", "up", "insert", "quit"}
  BY GameAssumption DEF Bytes
<1>2. CASE key = "x"
  <2>1. Send(key) = <<[ch |-> "x", key |-> "x"]>>
    BY <1>2 DEF Send, Bytes
  <2> QED
    BY <2>1 DEF Reads, AllBytes, After, Before, FsmNext
<1>3. CASE key = "delete"
  <2>1. Send(key) = <<[ch |-> "del", key |-> "delete"]>>
    BY <1>3 DEF Send, Bytes
  <2> QED
    BY <2>1 DEF Reads, AllBytes, After, Before, FsmNext
<1>4. CASE key = "enter"
  <2>1. Send(key) = <<[ch |-> "nl", key |-> "enter"]>>
    BY <1>4 DEF Send, Bytes
  <2> QED
    BY <2>1 DEF Reads, AllBytes, After, Before, FsmNext
<1>5. CASE key = "quit"
  <2>1. Send(key) = <<[ch |-> "bq", key |-> "quit"]>>
    BY <1>5 DEF Send, Bytes
  <2> QED
    BY <2>1 DEF Reads, AllBytes, After, Before, FsmNext
<1>6. CASE key = "up"
  <2>1. Send(key) = <<[ch |-> "esc", key |-> "none"], [ch |-> "[", key |-> "none"],
                      [ch |-> "A", key |-> "up"]>>
    BY <1>6 DEF Send, Bytes
  <2> QED
    BY <2>1 DEF Reads, AllBytes, After, Before, FsmNext
<1>7. CASE key = "insert"
  <2>1. Send(key) = <<[ch |-> "esc", key |-> "none"], [ch |-> "[", key |-> "none"],
                      [ch |-> "2", key |-> "none"], [ch |-> "~", key |-> "insert"]>>
    BY <1>7 DEF Send, Bytes
  <2> QED
    BY <2>1 DEF Reads, AllBytes, After, Before, FsmNext
<1> QED
  BY <1>1, <1>2, <1>3, <1>4, <1>5, <1>6, <1>7

\* A key sent after the bytes that are still to be read.
LEMMA ReadsSent ==
  ASSUME NEW q \in Seq(AllBytes), NEW s, Reads(q, s),
         NEW w \in Seq(AllBytes), w # <<>>, Reads(w, 0)
  PROVE  Reads(q \o w, s)
<1>1. CASE q = <<>>
  BY <1>1 DEF Reads
<1>2. CASE q # <<>>
  <2> DEFINE r == q \o w
  <2>1. /\ r \in Seq(AllBytes) /\ Len(r) = Len(q) + Len(w)
        /\ \A i \in 1 .. Len(q) : r[i] = q[i]
        /\ \A i \in Len(q) + 1 .. Len(r) : r[i] = w[i - Len(q)]
        /\ Len(q) > 0 /\ Len(w) > 0
    BY <1>2
  <2> HIDE DEF r
  <2>2. Before(r[1]) = s /\ After(r[Len(r)]) = 0 /\ r # <<>>
    <3>1. r[1] = q[1] /\ r[Len(r)] = w[Len(w)]
      BY <2>1
    <3>2. r # <<>>
      BY <2>1
    <3> QED
      BY <1>2, <3>1, <3>2 DEF Reads
  <2>3. ASSUME NEW i \in 1 .. Len(r) - 1
        PROVE  Before(r[i + 1]) = After(r[i])
    <3>1. CASE i < Len(q)
      <4>1. i \in 1 .. Len(q) - 1 /\ i + 1 \in 1 .. Len(q)
        BY <2>1, <3>1
      <4> QED
        BY <2>1, <4>1 DEF Reads
    <3>2. CASE i = Len(q)
      BY <1>2, <2>1, <3>2 DEF Reads
    <3>3. CASE i > Len(q)
      <4>1. i - Len(q) \in 1 .. Len(w) - 1
        BY <2>1, <3>3
      <4>2. Before(w[(i - Len(q)) + 1]) = After(w[i - Len(q)])
        BY <4>1 DEF Reads
      <4>3. r[i + 1] = w[(i - Len(q)) + 1] /\ r[i] = w[i - Len(q)]
        <5>1. i + 1 \in Len(q) + 1 .. Len(r) /\ i \in Len(q) + 1 .. Len(r)
          BY <2>1, <3>3
        <5>2. (i + 1) - Len(q) = (i - Len(q)) + 1
          BY <2>1
        <5> QED
          BY <2>1, <5>1, <5>2
      <4> QED
        BY <4>2, <4>3
    <3> QED
      BY <2>1, <3>1, <3>2, <3>3
  <2> QED
    BY <2>2, <2>3 DEF Reads, r
<1> QED
  BY <1>1, <1>2

\* After one byte is read.
LEMMA ReadsTail ==
  ASSUME NEW q \in Seq(AllBytes), NEW s, Reads(q, s), q # <<>>
  PROVE  Before(q[1]) = s /\ Reads(Tail(q), After(q[1]))
<1> DEFINE r == Tail(q)
<1>1. /\ r \in Seq(AllBytes) /\ Len(r) = Len(q) - 1
      /\ \A i \in 1 .. Len(q) - 1 : r[i] = q[i + 1]
      /\ Len(q) \in Nat \ {0}
  OBVIOUS
<1>2. r = <<>> <=> Len(r) = 0
  BY <1>1, EmptySeq
<1>3. Before(q[1]) = s
  BY DEF Reads
<1> HIDE DEF r
<1>4. CASE Len(q) = 1
  <2>1. r = <<>> /\ Len(r) = 0
    BY <1>1, <1>2, <1>4
  <2>2. After(q[1]) = 0
    BY <1>4 DEF Reads
  <2>3. Reads(r, After(q[1]))
    BY <2>1, <2>2 DEF Reads
  <2> QED
    BY <1>3, <2>3 DEF r
<1>5. CASE Len(q) > 1
  <2>1. Before(r[1]) = After(q[1]) /\ After(r[Len(r)]) = 0
    BY <1>1, <1>5 DEF Reads
  <2>2. \A i \in 1 .. Len(r) - 1 : Before(r[i + 1]) = After(r[i])
    BY <1>1, <1>5 DEF Reads
  <2> QED
    BY <1>1, <1>2, <1>3, <1>5, <2>1, <2>2 DEF Reads, r
<1> QED
  BY <1>1, <1>3, <1>4, <1>5 DEF r

\* The inductive invariant: the buffer holds what the keys have typed, and what
\* is still to be read is made of whole keys but for the one that the FSM is in.
InputInv ==
  /\ typing \in Seq(Chars) /\ Len(typing) <= MAX_TYPED_LEN
  /\ typing = text
  /\ pushed \in {"none", "scroll", "go", "typed"}
  /\ stdin \in Seq(AllBytes) /\ wire \in Seq(AllBytes) /\ state \in 0 .. 3
  /\ Reads(stdin \o wire, state)

\* Reading, delivering and pressing keys keep the text and the FSM in step.
LEMMA InputInvariance == Spec => []InputInv
<1>1. Init => InputInv
  <2> SUFFICES ASSUME Init PROVE InputInv
    OBVIOUS
  <2>1. /\ typing = <<>> /\ text = <<>> /\ pushed = "none"
        /\ stdin = <<>> /\ wire = <<>> /\ state = 0
    BY DEF Init
  <2>2. stdin \o wire = <<>> /\ Len(<<>>) = 0 /\ 0 \in 0 .. 3
    BY <2>1
  <2>3. Reads(<<>>, 0)
    BY DEF Reads
  <2> QED
    BY <2>1, <2>2, <2>3, GameAssumption, EmptySeq DEF InputInv
<1>2. ASSUME InputInv, [Next]_vars
      PROVE  InputInv'
  <2> USE <1>2, GameAssumption
  <2>1. CASE Press
    <3>1. PICK key \in Keys : wire' = Send(key)
      BY <2>1 DEF Press
    <3>2. wire = <<>> /\ UNCHANGED <<stdin, typing, state, pushed, text>>
      BY <2>1 DEF Press
    <3>3. stdin \o wire = stdin
      BY <3>2 DEF InputInv
    <3>4. wire' \in Seq(AllBytes) /\ wire' # <<>> /\ Reads(wire', 0)
      BY <3>1, SendReads
    <3>5. Reads(stdin \o wire', state)
      BY <3>3, <3>4, ReadsSent DEF InputInv
    <3> QED
      BY <3>2, <3>4, <3>5 DEF InputInv
  <2>2. CASE Deliver
    <3>1. /\ wire # <<>> /\ UNCHANGED <<typing, state, pushed, text>>
          /\ stdin' = Append(stdin, Head(wire)) /\ wire' = Tail(wire)
      BY <2>2 DEF Deliver
    <3>2. stdin' \in Seq(AllBytes) /\ wire' \in Seq(AllBytes)
      BY <3>1 DEF InputInv
    <3>3. stdin' \o wire' = stdin \o wire
      <4>1. Append(stdin, Head(wire)) \o Tail(wire)
              \in Seq(AllBytes) /\ stdin \o wire \in Seq(AllBytes)
        BY <3>1, <3>2, ConcatProperties DEF InputInv
      <4> QED
        BY <3>1, <4>1 DEF InputInv
    <3> QED
      BY <3>1, <3>2, <3>3 DEF InputInv
  <2>3. CASE Read
    <3> DEFINE b == Head(stdin)
    <3>1. stdin # <<>> /\ stdin' = Tail(stdin) /\ UNCHANGED wire
          /\ text' = Typed(text, b.key)
      BY <2>3 DEF Read
    <3>2. b \in AllBytes /\ stdin' \in Seq(AllBytes) /\ b = (stdin \o wire)[1]
      BY <3>1 DEF InputInv
    <3>3. /\ stdin \o wire \in Seq(AllBytes) /\ stdin \o wire # <<>>
          /\ stdin' \o wire' = Tail(stdin \o wire)
      BY <3>1, <3>2 DEF InputInv
    <3>4. Before(b) = state /\ Reads(stdin' \o wire', After(b))
      BY <3>2, <3>3, ReadsTail DEF InputInv
    <3>5. text' \in Seq(Chars) /\ Len(text') <= MAX_TYPED_LEN
      <4>1. b.key \in {"x", "delete", "enter", "quit", "none", "up", "insert"}
        BY <3>2 DEF AllBytes
      <4> QED
        BY <3>1, <4>1, TypedType DEF InputInv
    <3>6. CASE b.ch = "bq"
      <4>1. UNCHANGED <<typing, state, pushed>>
        BY <2>3, <3>6 DEF Read
      <4>2. b.key = "quit"
        BY <3>2, <3>6 DEF AllBytes
      <4>3. After(b) = state /\ Typed(text, b.key) = text
        BY <3>4, <3>6, <4>2 DEF After, Before, FsmNext, Typed
      <4> HIDE DEF b
      <4> QED
        BY <3>1, <3>2, <3>4, <4>1, <4>3 DEF InputInv
    <3>7. CASE b.ch # "bq"
      <4>1. /\ state' = FsmNext(state, b.ch)
            /\ typing' = IF ~InSequence(state, b.ch) /\ valid_typing(b.ch)
                         THEN typed_a_char(typing, b.ch) ELSE typing
            /\ pushed' = Pushes(state, b.ch, pushed)
        BY <2>3, <3>7 DEF Read
      <4>2. state' = After(b) /\ typing' = text'
        BY <3>1, <3>2, <3>4, <4>1, ByteTypes DEF After, InputInv
      <4>3. state' \in 0 .. 3
        BY <3>2, <4>2, AfterType
      <4>4. pushed' \in {"none", "scroll", "go", "typed"}
        BY <4>1 DEF Pushes, InputInv
      <4> HIDE DEF b
      <4> QED
        BY <3>1, <3>2, <3>4, <3>5, <4>2, <4>3, <4>4 DEF InputInv
    <3> QED
      BY <3>6, <3>7
  <2>4. CASE UNCHANGED <<wire, stdin, state>>
             /\ pushed' \in {pushed, "none"}
             /\ (reset_typed_command \/ UNCHANGED <<typing, text>>)
    <3>1. typing' \in Seq(Chars) /\ Len(typing') <= MAX_TYPED_LEN
          /\ typing' = text'
      <4>1. CASE reset_typed_command
        <5>1. typing' = <<>> /\ text' = <<>>
          BY <4>1 DEF reset_typed_command
        <5> QED
          BY <5>1
      <4>2. CASE UNCHANGED <<typing, text>>
        BY <4>2 DEF InputInv
      <4> QED
        BY <2>4, <4>1, <4>2
    <3> QED
      BY <2>4, <3>1 DEF InputInv
  <2>5. CASE ShowScreen
    BY <2>4, <2>5 DEF ShowScreen
  <2>6. CASE Act
    BY <2>4, <2>6, Zenon DEF Act
  <2>7. CASE UNCHANGED input
    BY <2>4, <2>7 DEF input
  <2>8. CASE Start \/ SetUp \/ set_mode_X \/ push_cleanup \/ pop_cleanup
             \/ RunCleanup \/ Segfault \/ LockBar \/ DrawBar \/ WaitTick
             \/ NoClock \/ CleanByHand \/ get_command \/ show_status
    BY <2>7, <2>8, Zenon DEF Start, SetUp, set_mode_X, push_cleanup,
       pop_cleanup, RunCleanup, Segfault, LockBar, DrawBar, WaitTick, NoClock,
       CleanByHand, get_command, show_status
  <2>9. CASE StatusThread \/ catch_signal \/ repeat_signal \/ Spurious \/ Clock
             \/ Exited \/ UNCHANGED vars
    BY <2>7, <2>9, Zenon DEF StatusThread, ThreadLock, ThreadCheck, ThreadAgain,
       ThreadExpire, ThreadClear, T, catch_signal, repeat_signal, Spurious, Clock,
       Exited, vars
  <2> QED
    BY <2>1, <2>2, <2>3, <2>5, <2>6, <2>8, <2>9 DEF Next, Main
<1> QED
  BY <1>1, <1>2, PTL DEF Spec

\* Who may hold the lock, and where the helper thread may be.
ThreadType ==
  /\ msg_lock \in {None, "main", "status"}
  /\ st \in {None, "lock", "check", "waiting", "woken", "timing", "again",
             "expired", "cancelled"}

\* The thread and its lock have no other states.
LEMMA ThreadTyped == Spec => []ThreadType
<1>1. Init => ThreadType
  BY Zenon DEF Init, ThreadType
<1>2. ASSUME ThreadType, [Next]_vars
      PROVE  ThreadType'
  <2> USE <1>2 DEF ThreadType
  <2>1. CASE UNCHANGED <<msg_lock, st>>
    BY <2>1
  <2>2. CASE SetUp
    BY <2>2 DEF SetUp, PANIC, do_cleanups, pthread_create, StartModeX,
                init_input
  <2>3. CASE RunCleanup
    BY <2>3 DEF RunCleanup, Undo, cancel_status_thread, clear_mode_X,
                shutdown_input
  <2>4. CASE LockBar \/ DrawBar
    BY <2>4 DEF LockBar, DrawBar, thread
  <2>5. CASE show_status
    BY <2>5 DEF show_status
  <2>6. CASE StatusThread
    BY <2>6 DEF StatusThread, ThreadLock, ThreadCheck, ThreadAgain,
       ThreadExpire, ThreadClear, T
  <2>7. CASE Spurious
    BY <2>7 DEF Spurious
  <2>8. CASE Start \/ set_mode_X \/ push_cleanup \/ pop_cleanup \/ Segfault
             \/ ShowScreen \/ WaitTick \/ NoClock \/ Read \/ get_command \/ Act
    BY <2>1, <2>8, Zenon DEF Start, set_mode_X, push_cleanup, pop_cleanup,
       Segfault, ShowScreen, WaitTick, NoClock, Read, get_command, Act, thread
  <2>9. CASE Press \/ Deliver \/ catch_signal \/ repeat_signal \/ Clock
             \/ Exited \/ UNCHANGED vars
    BY <2>1, <2>9, Zenon DEF Press, Deliver, catch_signal, repeat_signal,
       Clock, Exited, vars, thread
  <2>10. CASE CleanByHand
    BY <2>10 DEF CleanByHand, clear_mode_X, shutdown_input
  <2> QED
    BY <2>2, <2>3, <2>4, <2>5, <2>6, <2>7, <2>8, <2>9, <2>10
    DEF Next, Main
<1> QED
  BY <1>1, <1>2, PTL DEF Spec

\* Typing is right wherever a tick cuts the keys' sequences, for every length
\* of the buffer and every number of keys (get_command, typed_a_char).
THEOREM TypingCorrect == Spec => []InputCorrect
<1>1. CleanupInv /\ TimerInv /\ InputInv /\ ThreadType => InputCorrect
  <2> SUFFICES ASSUME CleanupInv, TimerInv, InputInv, ThreadType
               PROVE  InputCorrect
    OBVIOUS
  <2>1. Range(Cleanups) = Funcs
    BY DEF Range, Cleanups, Funcs
  <2>2. Range(cleanup_stack) \subseteq Funcs
    BY DEF Range, CleanupInv
  <2> QED
    BY <2>1, <2>2 DEF CleanupInv, TimerInv, InputInv, ThreadType, InputCorrect,
       TypeOK, TypedAsPressed, Pcs
<1> QED
  BY <1>1, CleanupInvariance, TimerInvariance, InputInvariance, ThreadTyped, PTL

-----------------------------------------------------------------------------
(* The world of the adventure: the inductive invariant. *)

Lobby == {"BECKLOBBY", "BECK_MRI"}

\* What has to be done before the player may stand in r: the part of LocksHold
\* about places.
MayStand(r) ==
  /\ r = "IN_CLEANR" => IsSet("WEARING_SUIT")
  /\ r \in Park => loc["GPS_GOOD"] # "NONE"
  /\ r \in Park \cup Airport \cup Flight => IsSet("CAR_FIXED")
  /\ r \in Flight => cockpit_enter = "OVER_WILL"
  /\ r \in Lobby => loc["ROBOT_DEAD"] = "NONE"

\* The part of LocksHold about the steps of the quest, and what it rests on:
\* where an object that is still in its first place keeps the player from
\* the steps after it.
QuestInv ==
  /\ IsSet("CAR_FIXED") => IsSet("CAR_OPEN") /\ loc["ROBOT_DEAD"] = "NONE"
  /\ loc["GPS_GOOD"] # "NONE" => IsSet("WEARING_SUIT")
  /\ cockpit_enter # "NONE" => IsSet("CAR_FIXED") /\ loc["GPS_GOOD"] # "NONE"
  /\ IsSet("LURED_TUX") => cockpit_enter # "NONE"
  /\ loc["BATT_FULL"] # "NONE" => loc["ROBOT_DEAD"] = "NONE"
  /\ loc["MIMO_CARD"] # "STATUE" => loc["GPS_GOOD"] # "NONE"
  /\ loc["TUX"] # "REM_LAB" => IsSet("LURED_TUX")
  /\ loc["BOOK_C"] # "NONE" => IsSet("HAS_EATEN")

\* Conserved, with the counting spelt out, and the place of the car's battery.
FormsInv ==
  /\ loc["GPS_BAD"] = "NONE" <=> loc["GPS_GOOD"] # "NONE"
  /\ loc["GPS_SPEC"] = "NONE" <=> loc["GPS_GOOD"] # "NONE"
  /\ loc["ROBOT_DEAD"] = "NONE" <=> loc["ROBOT_LIVE"] # "NONE"
  /\ loc["CAR_KEY"] = "NONE" <=> IsSet("CAR_OPEN")
  /\ loc["BUNNYSUIT"] = "NONE" <=> IsSet("WEARING_SUIT")
  /\ loc["FISH"] = "NONE" <=> IsSet("LURED_TUX")
  /\ loc["MIMO_CARD"] = "NONE" <=> cockpit_enter # "NONE"
  /\ \A o \in {"TUX", "MP2", "ICARD", "BOARD", "JETPACK"} : loc[o] # "NONE"

CarInv ==
  /\ loc["BATT_CAR"] \in {"NONE", "CAR_SITE"}
  /\ loc["BATT_CAR"] = "NONE" \/ loc["BATT_EMPTY"] = "NONE"
  /\ loc["BATT_CAR"] = "NONE" \/ loc["BATT_FULL"] = "NONE"
  /\ loc["BATT_EMPTY"] = "NONE" \/ loc["BATT_FULL"] = "NONE"
  /\ (\E o \in {"BATT_CAR", "BATT_EMPTY", "BATT_FULL"} : loc[o] # "NONE")
       <=> IsSet("CAR_OPEN") /\ ~IsSet("CAR_FIXED")
  /\ car_view = "open" <=> IsSet("CAR_OPEN") /\ ~IsSet("CAR_FIXED")

WonInv == ~Playing => IsSet("LURED_TUX") /\ IsSet("HAS_EATEN")

PlaceInv == back # "INVENTORY" /\ (Playing => MayStand(Standing))

ItemsInv == QuestInv /\ FormsInv /\ CarInv

Inv == /\ WorldTypeOK /\ PlaceInv /\ ItemsInv /\ WonInv /\ SpeedAsCarried
       /\ ShownIsCurrent

-----------------------------------------------------------------------------
(* The map and the table of objects. *)

\* What a door or a way from r to t leads past: none enters a locked place
\* from outside.
Unlocked(r, t) ==
  /\ t \in Rooms /\ t # "INVENTORY" /\ t # "IN_CLEANR"
  /\ t \in Park => r \in Park
  /\ t \in Airport => r \in Airport \cup Flight
  /\ t \in Flight => r \in Flight
  /\ t \in Lobby => r \in Lobby

WaysOf(r) ==
  \A t \in {room_data[r].left, room_data[r].enter, room_data[r].right} :
    t = "NONE" \/ Unlocked(r, t)

\* The table of rooms opens no locked place from outside, room by room
\* (room_data).
LEMMA Ways == \A r \in Rooms : WaysOf(r)
<1>1. WaysOf("INVENTORY") /\ WaysOf("IN_391LAB")
  BY SMTT(60)
  DEF WaysOf, Unlocked, Rooms, room_data, To, Park, Airport,
      Flight, Lobby
<1>2. WaysOf("BY_391LAB") /\ WaysOf("IN_IEEE")
  BY SMTT(60)
  DEF WaysOf, Unlocked, Rooms, room_data, To, Park, Airport,
      Flight, Lobby
<1>3. WaysOf("BY_IEEE") /\ WaysOf("IN_395LAB")
  BY SMTT(60)
  DEF WaysOf, Unlocked, Rooms, room_data, To, Park, Airport,
      Flight, Lobby
<1>4. WaysOf("BY_395LAB") /\ WaysOf("EVT_STAIR")
  BY SMTT(60)
  DEF WaysOf, Unlocked, Rooms, room_data, To, Park, Airport,
      Flight, Lobby
<1>5. WaysOf("IN_CLEANR") /\ WaysOf("BY_CLEANR")
  BY SMTT(60)
  DEF WaysOf, Unlocked, Rooms, room_data, To, Park, Airport,
      Flight, Lobby
<1>6. WaysOf("EVRT_VEND") /\ WaysOf("ALMAMATER")
  BY SMTT(60)
  DEF WaysOf, Unlocked, Rooms, room_data, To, Park, Airport,
      Flight, Lobby
<1>7. WaysOf("IN_COCOMR") /\ WaysOf("BY_COCOMR")
  BY SMTT(60)
  DEF WaysOf, Unlocked, Rooms, room_data, To, Park, Airport,
      Flight, Lobby
<1>8. WaysOf("BY_ZAS") /\ WaysOf("EAST_EVRT")
  BY SMTT(60)
  DEF WaysOf, Unlocked, Rooms, room_data, To, Park, Airport,
      Flight, Lobby
<1>9. WaysOf("EVRT_BSMT") /\ WaysOf("WEST_BONE")
  BY SMTT(60)
  DEF WaysOf, Unlocked, Rooms, room_data, To, Park, Airport,
      Flight, Lobby
<1>10. WaysOf("CIRCLE_N") /\ WaysOf("CIRCLE_SW")
  BY SMTT(60)
  DEF WaysOf, Unlocked, Rooms, room_data, To, Park, Airport,
      Flight, Lobby
<1>11. WaysOf("EAST_BONE") /\ WaysOf("BARDEEN")
  BY SMTT(60)
  DEF WaysOf, Unlocked, Rooms, room_data, To, Park, Airport,
      Flight, Lobby
<1>12. WaysOf("LIB_BACK") /\ WaysOf("RESERVE")
  BY SMTT(60)
  DEF WaysOf, Unlocked, Rooms, room_data, To, Park, Airport,
      Flight, Lobby
<1>13. WaysOf("TALBOT_NW") /\ WaysOf("TALBOT_SW")
  BY SMTT(60)
  DEF WaysOf, Unlocked, Rooms, room_data, To, Park, Airport,
      Flight, Lobby
<1>14. WaysOf("TALBOT") /\ WaysOf("SPRINGFLD")
  BY SMTT(60)
  DEF WaysOf, Unlocked, Rooms, room_data, To, Park, Airport,
      Flight, Lobby
<1>15. WaysOf("CARIBOU") /\ WaysOf("KENNEY")
  BY SMTT(60)
  DEF WaysOf, Unlocked, Rooms, room_data, To, Park, Airport,
      Flight, Lobby
<1>16. WaysOf("DCL") /\ WaysOf("LIB_FRONT")
  BY SMTT(60)
  DEF WaysOf, Unlocked, Rooms, room_data, To, Park, Airport,
      Flight, Lobby
<1>17. WaysOf("KENNEY_E") /\ WaysOf("NEWMARK")
  BY SMTT(60)
  DEF WaysOf, Unlocked, Rooms, room_data, To, Park, Airport,
      Flight, Lobby
<1>18. WaysOf("MNTL_NW") /\ WaysOf("MNTL_SW")
  BY SMTT(60)
  DEF WaysOf, Unlocked, Rooms, room_data, To, Park, Airport,
      Flight, Lobby
<1>19. WaysOf("MNTLLOBBY") /\ WaysOf("MNTL_LAB1")
  BY SMTT(60)
  DEF WaysOf, Unlocked, Rooms, room_data, To, Park, Airport,
      Flight, Lobby
<1>20. WaysOf("MNTL_LAB2") /\ WaysOf("MNTL_LAB3")
  BY SMTT(60)
  DEF WaysOf, Unlocked, Rooms, room_data, To, Park, Airport,
      Flight, Lobby
<1>21. WaysOf("CSL_VIEW") /\ WaysOf("CSL_DOOR")
  BY SMTT(60)
  DEF WaysOf, Unlocked, Rooms, room_data, To, Park, Airport,
      Flight, Lobby
<1>22. WaysOf("CSL_LOBBY") /\ WaysOf("CSL_UPPER")
  BY SMTT(60)
  DEF WaysOf, Unlocked, Rooms, room_data, To, Park, Airport,
      Flight, Lobby
<1>23. WaysOf("CSLLOUNGE") /\ WaysOf("BECK_LOT")
  BY SMTT(60)
  DEF WaysOf, Unlocked, Rooms, room_data, To, Park, Airport,
      Flight, Lobby
<1>24. WaysOf("BECKMAN") /\ WaysOf("BECK_DOOR")
  BY SMTT(60)
  DEF WaysOf, Unlocked, Rooms, room_data, To, Park, Airport,
      Flight, Lobby
<1>25. WaysOf("BECKLOBBY") /\ WaysOf("BECK_MRI")
  BY SMTT(60)
  DEF WaysOf, Unlocked, Rooms, room_data, To, Park, Airport,
      Flight, Lobby
<1>26. WaysOf("GARAGE") /\ WaysOf("CAR_SITE")
  BY SMTT(60)
  DEF WaysOf, Unlocked, Rooms, room_data, To, Park, Airport,
      Flight, Lobby
<1>27. WaysOf("ALLERTON") /\ WaysOf("FU_DOGS")
  BY SMTT(60)
  DEF WaysOf, Unlocked, Rooms, room_data, To, Park, Airport,
      Flight, Lobby
<1>28. WaysOf("STATUE") /\ WaysOf("SUNSINGER")
  BY SMTT(60)
  DEF WaysOf, Unlocked, Rooms, room_data, To, Park, Airport,
      Flight, Lobby
<1>29. WaysOf("WILLARD") /\ WaysOf("WILL_SIDE")
  BY SMTT(60)
  DEF WaysOf, Unlocked, Rooms, room_data, To, Park, Airport,
      Flight, Lobby
<1>30. WaysOf("REM_PLANE") /\ WaysOf("COCKPIT")
  BY SMTT(60)
  DEF WaysOf, Unlocked, Rooms, room_data, To, Park, Airport,
      Flight, Lobby
<1>31. WaysOf("OVER_WILL") /\ WaysOf("AIR_RIO")
  BY SMTT(60)
  DEF WaysOf, Unlocked, Rooms, room_data, To, Park, Airport,
      Flight, Lobby
<1>32. WaysOf("REM_ICE") /\ WaysOf("REM_LAB")
  BY SMTT(60)
  DEF WaysOf, Unlocked, Rooms, room_data, To, Park, Airport,
      Flight, Lobby
<1> QED
  BY <1>1, <1>2, <1>3, <1>4, <1>5, <1>6, <1>7, <1>8, <1>9, <1>10, <1>11,
     <1>12, <1>13, <1>14, <1>15, <1>16, <1>17, <1>18, <1>19, <1>20, <1>21,
     <1>22, <1>23, <1>24, <1>25, <1>26, <1>27, <1>28, <1>29, <1>30, <1>31,
     <1>32 DEF Rooms

\* Names that only one object, or only the two books, have.
LEMMA Names ==
  ASSUME NEW o \in Objects
  PROVE  /\ obj_data[o].name = "book" => o \in {"BOOK_C", "BOOK_WODE"}
         /\ obj_data[o].name = "tux" => o = "TUX"
         /\ obj_data["TUX"].name = "tux"
  BY DEF Objects, obj_data, Obj

-----------------------------------------------------------------------------
(* What the steps have in common. *)

\* Taking an object away, or putting it into a room, leaves a table of objects.
LEMMA TableType ==
  ASSUME NEW l \in [Objects -> Rooms \cup {"NONE"}], NEW o
  PROVE  /\ remove_object(l, o) \in [Objects -> Rooms \cup {"NONE"}]
         /\ \A r \in Rooms :
              insert_object(l, o, r) \in [Objects -> Rooms \cup {"NONE"}]
         /\ {"INVENTORY", "CAR_SITE"} \subseteq Rooms
<1>1. {"INVENTORY", "CAR_SITE"} \subseteq Rooms
  BY DEF Rooms
<1> QED
  BY <1>1 DEF insert_object, remove_object

\* A room the player may stand in, entered: the part of Inv about places, and
\* the screen.
LEMMA GoToKeeps ==
  ASSUME Inv, NEW r \in Rooms \ {"INVENTORY"}, MayStand(r), GoTo(r)
  PROVE  Inv'
<1>1. r # "NONE"
  BY DEF Rooms
<1>2. WorldTypeOK'
  BY <1>1 DEF Inv, GoTo, WorldTypeOK
<1>3. PlaceInv'
  BY <1>1 DEF GoTo, PlaceInv, MayStand, Standing, IsSet
<1>4. ItemsInv'
  BY DEF Inv, GoTo, ItemsInv, QuestInv, FormsInv, CarInv, IsSet
<1>5. WonInv'
  BY <1>1 DEF GoTo, WonInv, Playing
<1>6. SpeedAsCarried'
  BY DEF Inv, GoTo, SpeedAsCarried, Carried
<1>7. ShownIsCurrent'
  BY <1>1 DEF GoTo, Show, ShownIsCurrent, Picture
<1> QED
  BY <1>2, <1>3, <1>4, <1>5, <1>6, <1>7 DEF Inv

\* A way that does not lead past a lock may be taken.
LEMMA UnlockedMay ==
  ASSUME Inv, Playing, where # "INVENTORY", NEW t, Unlocked(where, t)
  PROVE  t \in Rooms \ {"INVENTORY"} /\ MayStand(t)
<1>1. Standing = where /\ MayStand(where)
  BY DEF Inv, PlaceInv, Standing
<1> QED
  BY <1>1 DEF Unlocked, MayStand

\* After a redraw of the room that is shown, or a change of room, the screen is
\* current.
LEMMA ShowKeeps ==
  ASSUME ShownIsCurrent, Playing, where' = where,
         NEW result \in {"TC_REDRAW_ROOM", "TC_CHANGE_ROOM"}, Show(result)
  PROVE  ShownIsCurrent'
  BY DEF ShownIsCurrent, Show, Playing, Picture

\* A step that leaves the player in place and undoes no step of the quest.
LEMMA StayKeeps ==
  ASSUME Inv, Playing, where' = where, back' = back,
         player_flags \subseteq player_flags',
         cockpit_enter = "OVER_WILL" => cockpit_enter' = "OVER_WILL",
         loc["GPS_GOOD"] # "NONE" => loc'["GPS_GOOD"] # "NONE",
         loc["ROBOT_DEAD"] = "NONE" => loc'["ROBOT_DEAD"] = "NONE",
         WorldTypeOK', ItemsInv', SpeedAsCarried', ShownIsCurrent'
  PROVE  Inv'
<1>1. PlaceInv'
  BY DEF Inv, PlaceInv, Playing, Standing, MayStand, IsSet
<1>2. WonInv'
  BY DEF WonInv, Playing
<1> QED
  BY <1>1, <1>2 DEF Inv

\* The speeds, when board and jetpack stay where they are.
LEMMA SpeedKeeps ==
  ASSUME SpeedAsCarried, x_speed' = x_speed, y_speed' = y_speed,
         loc'["BOARD"] = loc["BOARD"], loc'["JETPACK"] = loc["JETPACK"]
  PROVE  SpeedAsCarried'
  BY DEF SpeedAsCarried, Carried

\* A handler that only moves objects: what is left to show of it.
LEMMA RearrangeKeeps ==
  ASSUME Inv, Playing,
         NEW l \in [Objects -> Rooms \cup {"NONE"}],
         NEW result \in {"TC_REDRAW_ROOM", "TC_CHANGE_ROOM"},
         Rearrange(l, result),
         l["BOARD"] = loc["BOARD"], l["JETPACK"] = loc["JETPACK"],
         loc["GPS_GOOD"] # "NONE" => l["GPS_GOOD"] # "NONE",
         loc["ROBOT_DEAD"] = "NONE" => l["ROBOT_DEAD"] = "NONE",
         ItemsInv'
  PROVE  Inv'
<1>1. /\ loc' = l
      /\ UNCHANGED <<where, back, cockpit_enter, newest, player_flags, car_view,
                     x_speed, y_speed, play>>
      /\ Show(result)
  BY DEF Rearrange
<1>2. WorldTypeOK'
  BY <1>1 DEF Inv, WorldTypeOK
<1>3. SpeedAsCarried'
  BY <1>1, SpeedKeeps DEF Inv
<1>4. ShownIsCurrent'
  BY <1>1, ShowKeeps DEF Inv
<1> QED
  BY <1>1, <1>2, <1>3, <1>4, StayKeeps

\* A command that does not apply.
LEMMA RefuseKeeps ==
  ASSUME Inv, Refuse
  PROVE  Inv'
  BY DEF Inv, Refuse, world_vars, WorldTypeOK, PlaceInv, Playing, MayStand,
         Standing, ItemsInv,
         QuestInv, FormsInv, CarInv, WonInv, SpeedAsCarried, Carried, IsSet,
         ShownIsCurrent, Picture
-----------------------------------------------------------------------------
(* Moves. *)

\* The inventory view has no ways to the left and the right.
LEMMA InventoryHasNoWays ==
  /\ room_data["INVENTORY"].left = "NONE"
  /\ room_data["INVENTORY"].right = "NONE"
  BY DEF room_data, Rooms, To

\* try_to_move_left.
LEMMA MoveLeftKeeps ==
  ASSUME Inv, Playing, try_to_move_left
  PROVE  Inv'
<1> DEFINE r == room_data[where].left
<1>1. where \in Rooms
  BY DEF Inv, WorldTypeOK, Playing
<1>2. CASE r = "NONE"
  BY <1>2, RefuseKeeps DEF try_to_move_left
<1>3. CASE r # "NONE"
  <2>1. where # "INVENTORY" /\ Unlocked(where, r)
    BY <1>1, <1>3, Ways, InventoryHasNoWays DEF WaysOf
  <2>2. GoTo(r)
    BY <1>3 DEF try_to_move_left
  <2> QED
    BY <2>1, <2>2, UnlockedMay, GoToKeeps
<1> QED
  BY <1>2, <1>3

\* try_to_move_right.
LEMMA MoveRightKeeps ==
  ASSUME Inv, Playing, try_to_move_right
  PROVE  Inv'
<1> DEFINE r == room_data[where].right
<1>1. where \in Rooms
  BY DEF Inv, WorldTypeOK, Playing
<1>2. CASE r = "NONE"
  BY <1>2, RefuseKeeps DEF try_to_move_right
<1>3. CASE r # "NONE"
  <2>1. where # "INVENTORY" /\ Unlocked(where, r)
    BY <1>1, <1>3, Ways, InventoryHasNoWays DEF WaysOf
  <2>2. GoTo(r)
    BY <1>3 DEF try_to_move_right
  <2> QED
    BY <2>1, <2>2, UnlockedMay, GoToKeeps
<1> QED
  BY <1>2, <1>3

\* Leaving the inventory view leads back to where the player stands.
LEMMA BackKeeps ==
  ASSUME Inv, where = "INVENTORY", GoTo(back)
  PROVE  Inv'
<1>1. back \in Rooms \ {"INVENTORY"} /\ MayStand(back)
  BY DEF Inv, WorldTypeOK, PlaceInv, Standing, Playing
<1> QED
  BY <1>1, GoToKeeps

\* The doors that ask for something: the cleanroom, the laboratory, the
\* entrance of CSL and the lobby of Beckman.
LEMMA DoorKeeps ==
  ASSUME Inv, Playing,
         \/ Door("BY_CLEANR", "IN_CLEANR", IsSet("WEARING_SUIT"))
         \/ Door("BY_395LAB", "IN_395LAB", Carried("ICARD"))
         \/ Door("CSL_DOOR", "CSL_LOBBY", Carried("ICARD"))
         \/ Door("BECK_DOOR", "BECKLOBBY", Carried("ROBOT_LIVE"))
  PROVE  Inv'
<1>1. CASE GoTo("IN_CLEANR") /\ IsSet("WEARING_SUIT")
  BY <1>1, GoToKeeps DEF Rooms, MayStand, Park, Airport, Flight, Lobby
<1>2. CASE GoTo("IN_395LAB")
  BY <1>2, GoToKeeps DEF Rooms, MayStand, Park, Airport, Flight, Lobby
<1>3. CASE GoTo("CSL_LOBBY")
  BY <1>3, GoToKeeps DEF Rooms, MayStand, Park, Airport, Flight, Lobby
<1>4. CASE GoTo("BECKLOBBY") /\ Carried("ROBOT_LIVE")
  <2>1. loc["ROBOT_DEAD"] = "NONE"
    BY <1>4 DEF Inv, ItemsInv, FormsInv, Carried
  <2> QED
    BY <1>4, <2>1, GoToKeeps DEF Rooms, MayStand, Park, Airport,
                                 Flight, Lobby
<1> QED
  BY <1>1, <1>2, <1>3, <1>4, RefuseKeeps DEF Door

\* try_to_enter: the way back from the inventory view, the plane once the card is
\* installed, the ways of the table, and the four doors.
LEMMA EnterKeeps ==
  ASSUME Inv, Playing, try_to_enter
  PROVE  Inv'
<1>1. where \in Rooms
  BY DEF Inv, WorldTypeOK, Playing
<1> DEFINE door == CASE where = "INVENTORY" -> back
                     [] where = "COCKPIT" -> cockpit_enter
                     [] OTHER -> room_data[where].enter
<1>2. CASE door # "NONE" /\ GoTo(door)
  <2>1. CASE where = "INVENTORY"
    BY <1>2, <2>1, BackKeeps
  <2>2. CASE where = "COCKPIT"
    <3>1. door = "OVER_WILL" /\ cockpit_enter = "OVER_WILL"
      BY <1>2, <2>2 DEF Inv, WorldTypeOK
    <3>2. IsSet("CAR_FIXED")
      BY <3>1 DEF Inv, ItemsInv, QuestInv
    <3>3. "OVER_WILL" \in Rooms \ {"INVENTORY"} /\ MayStand("OVER_WILL")
      BY <3>1, <3>2 DEF Rooms, MayStand, Park, Airport, Flight, Lobby
    <3> HIDE DEF door
    <3> QED
      BY <1>2, <3>1, <3>3, GoToKeeps
  <2>3. CASE where \notin {"INVENTORY", "COCKPIT"}
    <3>1. door = room_data[where].enter
      BY <2>3
    <3> HIDE DEF door
    <3>2. Unlocked(where, door)
      BY <1>1, <1>2, <3>1, Ways DEF WaysOf
    <3> QED
      BY <1>2, <2>3, <3>2, UnlockedMay, GoToKeeps
  <2> QED
    BY <2>1, <2>2, <2>3
<1> QED
  BY <1>2, DoorKeeps, RefuseKeeps DEF try_to_enter
-----------------------------------------------------------------------------
(* Commands that only move objects, and the two meals. *)

\* Eating sets a flag that nothing takes back.
LEMMA EatKeeps ==
  ASSUME Inv, Playing,
         player_flags' = player_flags \cup {"HAS_EATEN"},
         UNCHANGED <<where, back, cockpit_enter, loc, newest, car_view, x_speed,
                     y_speed, drawn, play>>
  PROVE  Inv'
<1>1. WorldTypeOK'
  BY DEF Inv, WorldTypeOK, Flags
<1>2. ItemsInv'
  BY DEF Inv, ItemsInv, QuestInv, FormsInv, CarInv, IsSet
<1>3. SpeedAsCarried'
  BY SpeedKeeps DEF Inv
<1>4. ShownIsCurrent'
  BY DEF Inv, ShownIsCurrent, Playing, Picture
<1> QED
  BY <1>1, <1>2, <1>3, <1>4, StayKeeps

\* A can of dew that was not here before, or a meal.
LEMMA BuyKeeps ==
  ASSUME Inv, Playing, NEW arg, typed_cmd_buy(arg)
  PROVE  Inv'
<1> DEFINE l == insert_object(loc, "MTN_DEW", "INVENTORY")
<1>1. CASE arg = "dew" /\ where = "EVRT_VEND" /\ ~Here("MTN_DEW")
  <2>1. Rearrange(l, "TC_REDRAW_ROOM")
    BY <1>1 DEF typed_cmd_buy
  <2>2. l \in [Objects -> Rooms \cup {"NONE"}]
    BY TableType DEF Inv, WorldTypeOK
  <2>3. ItemsInv'
    <3>1. loc' = l /\ UNCHANGED <<where, cockpit_enter, player_flags, car_view>>
      BY <2>1 DEF Rearrange
    <3> QED
      BY <1>1, <3>1 DEF Inv, ItemsInv, QuestInv, FormsInv, CarInv, IsSet,
         insert_object
  <2>4. /\ l["BOARD"] = loc["BOARD"] /\ l["JETPACK"] = loc["JETPACK"]
        /\ loc["GPS_GOOD"] # "NONE" => l["GPS_GOOD"] # "NONE"
        /\ loc["ROBOT_DEAD"] = "NONE" => l["ROBOT_DEAD"] = "NONE"
    BY DEF Inv, WorldTypeOK, insert_object, remove_object, Objects
  <2> HIDE DEF l
  <2> QED
    BY <2>1, <2>2, <2>3, <2>4, RearrangeKeeps
<1> QED
  BY <1>1, EatKeeps, RefuseKeeps DEF typed_cmd_buy

\* Charging needs the MRI room, behind the lobby: so the robot works.
LEMMA ChargeKeeps ==
  ASSUME Inv, Playing, NEW arg, typed_cmd_charge(arg)
  PROVE  Inv'
<1> DEFINE l == insert_object(remove_object(loc, "BATT_EMPTY"), "BATT_FULL",
                                "INVENTORY")
<1>1. CASE /\ arg = "battery" /\ where = "BECK_MRI"
            /\ Here("BATT_EMPTY") /\ ~Here("BATT_FULL")
  <2>1. Rearrange(l, "TC_REDRAW_ROOM")
    BY <1>1 DEF typed_cmd_charge
  <2>2. l \in [Objects -> Rooms \cup {"NONE"}]
    BY TableType DEF Inv, WorldTypeOK
  <2>3. ItemsInv'
    <3>1. loc' = l /\ UNCHANGED <<where, cockpit_enter, player_flags, car_view>>
      BY <2>1 DEF Rearrange
    <3>2. loc["ROBOT_DEAD"] = "NONE"
      BY <1>1 DEF Inv, PlaceInv, MayStand, Standing, Playing, Lobby
    <3> QED
      BY <1>1, <3>1, <3>2 DEF Inv, WorldTypeOK, ItemsInv, QuestInv,
         FormsInv, CarInv, IsSet, Here, insert_object,
         remove_object, Objects
  <2>4. /\ l["BOARD"] = loc["BOARD"] /\ l["JETPACK"] = loc["JETPACK"]
        /\ loc["GPS_GOOD"] # "NONE" => l["GPS_GOOD"] # "NONE"
        /\ loc["ROBOT_DEAD"] = "NONE" => l["ROBOT_DEAD"] = "NONE"
    BY DEF Inv, WorldTypeOK, insert_object, remove_object, Objects
  <2> HIDE DEF l
  <2> QED
    BY <2>1, <2>2, <2>3, <2>4, RearrangeKeeps
<1> QED
  BY <1>1, RefuseKeeps DEF typed_cmd_charge

\* The dew is no part of the quest.
LEMMA DrinkKeeps ==
  ASSUME Inv, Playing, NEW arg, typed_cmd_drink(arg)
  PROVE  Inv'
<1> DEFINE l == remove_object(loc, "MTN_DEW")
<1>1. CASE arg = "dew" /\ Here("MTN_DEW")
  <2>1. Rearrange(l, "TC_REDRAW_ROOM")
    BY <1>1 DEF typed_cmd_drink
  <2>2. l \in [Objects -> Rooms \cup {"NONE"}]
    BY TableType DEF Inv, WorldTypeOK
  <2>3. ItemsInv'
    <3>1. loc' = l /\ UNCHANGED <<where, cockpit_enter, player_flags, car_view>>
      BY <2>1 DEF Rearrange
    <3> QED
      BY <1>1, <3>1 DEF Inv, ItemsInv, QuestInv, FormsInv, CarInv, IsSet,
         remove_object
  <2>4. /\ l["BOARD"] = loc["BOARD"] /\ l["JETPACK"] = loc["JETPACK"]
        /\ loc["GPS_GOOD"] # "NONE" => l["GPS_GOOD"] # "NONE"
        /\ loc["ROBOT_DEAD"] = "NONE" => l["ROBOT_DEAD"] = "NONE"
    BY DEF Inv, WorldTypeOK, insert_object, remove_object, Objects
  <2> HIDE DEF l
  <2> QED
    BY <2>1, <2>2, <2>3, <2>4, RearrangeKeeps
<1> QED
  BY <1>1, RefuseKeeps DEF typed_cmd_drink

\* Fixing needs the cleanroom, so the suit is on; three objects change at once.
LEMMA FixKeeps ==
  ASSUME Inv, Playing, NEW arg, typed_cmd_fix(arg)
  PROVE  Inv'
<1> DEFINE l == insert_object(remove_object(remove_object(loc, "GPS_BAD"),
                                              "GPS_SPEC"),
                                "GPS_GOOD", "INVENTORY")
<1>1. CASE /\ arg = "gps" /\ where = "IN_CLEANR"
            /\ ~Here("GPS_GOOD") /\ Here("GPS_BAD") /\ Here("GPS_SPEC")
  <2>1. Rearrange(l, "TC_CHANGE_ROOM")
    BY <1>1 DEF typed_cmd_fix
  <2>2. l \in [Objects -> Rooms \cup {"NONE"}]
    BY TableType DEF Inv, WorldTypeOK
  <2>3. ItemsInv'
    <3>1. loc' = l /\ UNCHANGED <<where, cockpit_enter, player_flags, car_view>>
      BY <2>1 DEF Rearrange
    <3>2. IsSet("WEARING_SUIT")
      BY <1>1 DEF Inv, PlaceInv, MayStand, Standing, Playing, Lobby
    <3> QED
      BY <1>1, <3>1, <3>2 DEF Inv, WorldTypeOK, ItemsInv,
         QuestInv, FormsInv, CarInv, IsSet, insert_object, remove_object,
         Objects
  <2>4. /\ l["BOARD"] = loc["BOARD"] /\ l["JETPACK"] = loc["JETPACK"]
        /\ loc["GPS_GOOD"] # "NONE" => l["GPS_GOOD"] # "NONE"
        /\ loc["ROBOT_DEAD"] = "NONE" => l["ROBOT_DEAD"] = "NONE"
    BY DEF Inv, WorldTypeOK, insert_object, remove_object, Objects
  <2> HIDE DEF l
  <2> QED
    BY <2>1, <2>2, <2>3, <2>4, RearrangeKeeps
<1> QED
  BY <1>1, RefuseKeeps DEF typed_cmd_fix

\* The robot changes its form.
LEMMA FlashKeeps ==
  ASSUME Inv, Playing, NEW arg, typed_cmd_flash(arg)
  PROVE  Inv'
<1> DEFINE l == insert_object(remove_object(loc, "ROBOT_DEAD"), "ROBOT_LIVE",
                                "INVENTORY")
<1>1. CASE /\ arg = "robot" /\ where = "IN_395LAB"
            /\ Here("ROBOT_DEAD") /\ ~Here("ROBOT_LIVE")
  <2>1. Rearrange(l, "TC_REDRAW_ROOM")
    BY <1>1 DEF typed_cmd_flash
  <2>2. l \in [Objects -> Rooms \cup {"NONE"}]
    BY TableType DEF Inv, WorldTypeOK
  <2>3. ItemsInv'
    <3>1. loc' = l /\ UNCHANGED <<where, cockpit_enter, player_flags, car_view>>
      BY <2>1 DEF Rearrange
    <3> QED
      BY <1>1, <3>1 DEF Inv, WorldTypeOK, ItemsInv, QuestInv, FormsInv, CarInv,
         IsSet, insert_object, remove_object, Objects
  <2>4. /\ l["BOARD"] = loc["BOARD"] /\ l["JETPACK"] = loc["JETPACK"]
        /\ loc["GPS_GOOD"] # "NONE" => l["GPS_GOOD"] # "NONE"
        /\ loc["ROBOT_DEAD"] = "NONE" => l["ROBOT_DEAD"] = "NONE"
    BY DEF Inv, WorldTypeOK, insert_object, remove_object, Objects
  <2> HIDE DEF l
  <2> QED
    BY <2>1, <2>2, <2>3, <2>4, RearrangeKeeps
<1> QED
  BY <1>1, RefuseKeeps DEF typed_cmd_flash

\* typed_cmd_sigh is the other meal.
LEMMA SighKeeps ==
  ASSUME Inv, Playing, typed_cmd_sigh
  PROVE  Inv'
  BY EatKeeps, RefuseKeeps DEF typed_cmd_sigh
-----------------------------------------------------------------------------
(* Winning, the ways by car and the inventory view. *)

\* Winning: Tux has left the lab, so it was lured, and BOOK_C is out, so the
\* player has eaten.
LEMMA DoKeeps ==
  ASSUME Inv, Playing, NEW arg, typed_cmd_do(arg)
  PROVE  Inv'
<1>1. CASE /\ Carried("BOOK_C") /\ loc["TUX"] = "IN_391LAB"
           /\ GoTo("NONE")
  <2>1. WorldTypeOK'
    BY <1>1 DEF Inv, GoTo, WorldTypeOK
  <2>2. PlaceInv' /\ ShownIsCurrent'
    BY <1>1 DEF GoTo, PlaceInv, ShownIsCurrent, Playing
  <2>3. ItemsInv'
    BY <1>1 DEF Inv, GoTo, ItemsInv, QuestInv, FormsInv, CarInv, IsSet
  <2>4. WonInv'
    BY <1>1 DEF Inv, GoTo, ItemsInv, QuestInv, WonInv, Carried, IsSet
  <2>5. SpeedAsCarried'
    BY <1>1, SpeedKeeps DEF Inv, GoTo
  <2> QED
    BY <2>1, <2>2, <2>3, <2>4, <2>5 DEF Inv
<1> QED
  BY <1>1, RefuseKeeps DEF typed_cmd_do

\* typed_cmd_go asks for the fixed car and, to the park, for the working GPS.
LEMMA GoKeeps ==
  ASSUME Inv, Playing, NEW arg, typed_cmd_go(arg)
  PROVE  Inv'
<1>1. CASE IsSet("CAR_FIXED") /\ Carried("GPS_GOOD") /\ GoTo("ALLERTON")
  <2>1. "ALLERTON" \in Rooms \ {"INVENTORY"} /\ MayStand("ALLERTON")
    BY <1>1 DEF Rooms, MayStand, Carried, Park, Airport, Flight, Lobby
  <2> QED
    BY <1>1, <2>1, GoToKeeps
<1>2. CASE IsSet("CAR_FIXED") /\ GoTo("WILLARD")
  <2>1. "WILLARD" \in Rooms \ {"INVENTORY"} /\ MayStand("WILLARD")
    BY <1>2 DEF Rooms, MayStand, Park, Airport, Flight, Lobby
  <2> QED
    BY <1>2, <2>1, GoToKeeps
<1>3. CASE GoTo("CAR_SITE")
  <2>1. "CAR_SITE" \in Rooms \ {"INVENTORY"} /\ MayStand("CAR_SITE")
    BY DEF Rooms, MayStand, Park, Airport, Flight, Lobby
  <2> QED
    BY <1>3, <2>1, GoToKeeps
<1> QED
  BY <1>1, <1>2, <1>3, RefuseKeeps DEF typed_cmd_go

\* Into the inventory view and back: the player stands where it stood.
LEMMA InventoryKeeps ==
  ASSUME Inv, Playing, typed_cmd_inventory
  PROVE  Inv'
<1>1. CASE where = "INVENTORY"
  BY <1>1, BackKeeps DEF typed_cmd_inventory
<1>2. CASE where # "INVENTORY"
  <2>1. /\ where' = "INVENTORY" /\ back' = where
        /\ UNCHANGED <<cockpit_enter, loc, newest, player_flags, car_view, x_speed,
                       y_speed, play>>
        /\ Show("TC_CHANGE_ROOM")
    BY <1>2 DEF typed_cmd_inventory
  <2>2. WorldTypeOK'
    BY <1>2, <2>1 DEF Inv, WorldTypeOK, Playing, Rooms
  <2>3. PlaceInv'
    BY <1>2, <2>1 DEF Inv, PlaceInv, Standing, MayStand, IsSet
  <2>4. ItemsInv'
    BY <2>1 DEF Inv, ItemsInv, QuestInv, FormsInv, CarInv, IsSet
  <2>5. WonInv'
    BY <2>1 DEF WonInv, Playing
  <2>6. SpeedAsCarried'
    BY <2>1, SpeedKeeps DEF Inv
  <2>7. ShownIsCurrent'
    BY <2>1 DEF Show, ShownIsCurrent, Picture
  <2> QED
    BY <2>2, <2>3, <2>4, <2>5, <2>6, <2>7 DEF Inv
<1> QED
  BY <1>1, <1>2

-----------------------------------------------------------------------------
(* Commands that also set a flag or open a door. *)

\* The full battery fixes the car and closes its photo; the card, installed in
\* the cockpit, which only a fixed car reaches, opens the way to the plane.
LEMMA InstallKeeps ==
  ASSUME Inv, Playing, NEW arg, typed_cmd_install(arg)
  PROVE  Inv'
<1>1. CASE /\ arg = "battery" /\ where = "CAR_SITE"
           /\ Here("BATT_FULL") /\ ~Here("BATT_EMPTY")
  <2> DEFINE l == remove_object(loc, "BATT_FULL")
  <2>1. /\ loc' = l
        /\ player_flags' = player_flags \cup {"CAR_FIXED"}
        /\ car_view' = do_photo_swap(car_view)
        /\ UNCHANGED <<where, back, cockpit_enter, newest, x_speed, y_speed, play>>
        /\ Show("TC_CHANGE_ROOM")
    BY <1>1 DEF typed_cmd_install
  <2>2. WorldTypeOK'
    <3>1. l \in [Objects -> Rooms \cup {"NONE"}]
      BY TableType DEF Inv, WorldTypeOK
    <3> HIDE DEF l
    <3> QED
      BY <2>1, <3>1 DEF Inv, WorldTypeOK, Flags, do_photo_swap
  <2>3. ItemsInv'
    BY <1>1, <2>1 DEF Inv, WorldTypeOK, ItemsInv, QuestInv, FormsInv, CarInv,
         IsSet, Here, remove_object, do_photo_swap, Objects
  <2>4. SpeedAsCarried'
    <3>1. l["BOARD"] = loc["BOARD"] /\ l["JETPACK"] = loc["JETPACK"]
      BY DEF Inv, WorldTypeOK, insert_object, remove_object, Objects
    <3> QED
      BY <2>1, <3>1, SpeedKeeps DEF Inv
  <2>5. ShownIsCurrent'
    BY <2>1, ShowKeeps DEF Inv
  <2>6. /\ player_flags \subseteq player_flags'
        /\ cockpit_enter = "OVER_WILL" => cockpit_enter' = "OVER_WILL"
        /\ loc["GPS_GOOD"] # "NONE" => loc'["GPS_GOOD"] # "NONE"
        /\ loc["ROBOT_DEAD"] = "NONE" => loc'["ROBOT_DEAD"] = "NONE"
    BY <2>1 DEF Inv, WorldTypeOK, insert_object, remove_object, Objects
  <2> QED
    BY <2>1, <2>2, <2>3, <2>4, <2>5, <2>6, StayKeeps
<1>2. CASE /\ arg \in {"mimo", "card", "transmitter"}
           /\ where = "COCKPIT" /\ Here("MIMO_CARD")
  <2> DEFINE l == remove_object(loc, "MIMO_CARD")
  <2>1. /\ loc' = l
        /\ cockpit_enter' = "OVER_WILL"
        /\ UNCHANGED <<where, back, newest, player_flags, car_view, x_speed, y_speed,
                       play>>
        /\ Show("TC_REDRAW_ROOM")
    BY <1>2 DEF typed_cmd_install
  <2>2. WorldTypeOK'
    <3>1. l \in [Objects -> Rooms \cup {"NONE"}]
      BY TableType DEF Inv, WorldTypeOK
    <3> HIDE DEF l
    <3> QED
      BY <2>1, <3>1 DEF Inv, WorldTypeOK, Flags, do_photo_swap
  <2>3. ItemsInv'
    <3>1. IsSet("CAR_FIXED")
      BY <1>2 DEF Inv, PlaceInv, MayStand, Standing, Playing, Airport
    <3> QED
      BY <1>2, <2>1, <3>1 DEF Inv, WorldTypeOK, ItemsInv, QuestInv, FormsInv, CarInv,
                              IsSet, Here, remove_object,
         Objects
  <2>4. SpeedAsCarried'
    <3>1. l["BOARD"] = loc["BOARD"] /\ l["JETPACK"] = loc["JETPACK"]
      BY DEF Inv, WorldTypeOK, insert_object, remove_object, Objects
    <3> QED
      BY <2>1, <3>1, SpeedKeeps DEF Inv
  <2>5. ShownIsCurrent'
    BY <2>1, ShowKeeps DEF Inv
  <2>6. /\ player_flags \subseteq player_flags'
        /\ cockpit_enter = "OVER_WILL" => cockpit_enter' = "OVER_WILL"
        /\ loc["GPS_GOOD"] # "NONE" => loc'["GPS_GOOD"] # "NONE"
        /\ loc["ROBOT_DEAD"] = "NONE" => loc'["ROBOT_DEAD"] = "NONE"
    BY <2>1 DEF Inv, WorldTypeOK, insert_object, remove_object, Objects
  <2> QED
    BY <2>1, <2>2, <2>3, <2>4, <2>5, <2>6, StayKeeps
<1> QED
  BY <1>1, <1>2, RefuseKeeps DEF typed_cmd_install

\* The key is used up by opening the car, which no battery was out of yet; the
\* fish lures Tux in the lab, which only the plane reaches.
LEMMA UseKeeps ==
  ASSUME Inv, Playing, NEW arg, typed_cmd_use(arg)
  PROVE  Inv'
<1>1. CASE /\ arg = "car" /\ where = "CAR_SITE" /\ Carried("CAR_KEY")
           /\ ~IsSet("CAR_OPEN") /\ ~IsSet("CAR_FIXED")
  <2> DEFINE l == insert_object(remove_object(loc, "CAR_KEY"), "BATT_CAR", where)
  <2>1. /\ loc' = l
        /\ player_flags' = player_flags \cup {"CAR_OPEN"}
        /\ car_view' = do_photo_swap(car_view)
        /\ UNCHANGED <<where, back, cockpit_enter, newest, x_speed, y_speed, play>>
        /\ Show("TC_CHANGE_ROOM")
    BY <1>1 DEF typed_cmd_use
  <2>2. WorldTypeOK'
    <3>1. l \in [Objects -> Rooms \cup {"NONE"}]
      BY <1>1, TableType DEF Inv, WorldTypeOK
    <3> HIDE DEF l
    <3> QED
      BY <2>1, <3>1 DEF Inv, WorldTypeOK, Flags, do_photo_swap
  <2>3. ItemsInv'
    BY <1>1, <2>1 DEF Inv, WorldTypeOK, ItemsInv, QuestInv, FormsInv, CarInv,
         IsSet, insert_object, remove_object, do_photo_swap, Objects
  <2>4. SpeedAsCarried'
    <3>1. l["BOARD"] = loc["BOARD"] /\ l["JETPACK"] = loc["JETPACK"]
      BY DEF Inv, WorldTypeOK, insert_object, remove_object, Objects
    <3> QED
      BY <2>1, <3>1, SpeedKeeps DEF Inv
  <2>5. ShownIsCurrent'
    BY <2>1, ShowKeeps DEF Inv
  <2>6. /\ player_flags \subseteq player_flags'
        /\ cockpit_enter = "OVER_WILL" => cockpit_enter' = "OVER_WILL"
        /\ loc["GPS_GOOD"] # "NONE" => loc'["GPS_GOOD"] # "NONE"
        /\ loc["ROBOT_DEAD"] = "NONE" => loc'["ROBOT_DEAD"] = "NONE"
    BY <2>1 DEF Inv, WorldTypeOK, insert_object, remove_object, Objects
  <2> QED
    BY <2>1, <2>2, <2>3, <2>4, <2>5, <2>6, StayKeeps
<1>2. CASE arg = "fish" /\ where = "REM_LAB" /\ Here("FISH")
  <2> DEFINE l == insert_object(remove_object(loc, "FISH"), "TUX", "INVENTORY")
  <2>1. /\ loc' = l
        /\ player_flags' = player_flags \cup {"LURED_TUX"}
        /\ UNCHANGED <<where, back, cockpit_enter, newest, car_view, x_speed, y_speed,
                       play>>
        /\ Show("TC_REDRAW_ROOM")
    BY <1>2 DEF typed_cmd_use
  <2>2. WorldTypeOK'
    <3>1. l \in [Objects -> Rooms \cup {"NONE"}]
      BY TableType DEF Inv, WorldTypeOK
    <3> HIDE DEF l
    <3> QED
      BY <2>1, <3>1 DEF Inv, WorldTypeOK, Flags, do_photo_swap
  <2>3. ItemsInv'
    <3>1. cockpit_enter = "OVER_WILL"
      BY <1>2 DEF Inv, PlaceInv, MayStand, Standing, Playing, Flight
    <3> QED
      BY <1>2, <2>1, <3>1 DEF Inv, WorldTypeOK, ItemsInv, QuestInv, FormsInv, CarInv,
                              IsSet, insert_object,
         remove_object, Objects
  <2>4. SpeedAsCarried'
    <3>1. l["BOARD"] = loc["BOARD"] /\ l["JETPACK"] = loc["JETPACK"]
      BY DEF Inv, WorldTypeOK, insert_object, remove_object, Objects
    <3> QED
      BY <2>1, <3>1, SpeedKeeps DEF Inv
  <2>5. ShownIsCurrent'
    BY <2>1, ShowKeeps DEF Inv
  <2>6. /\ player_flags \subseteq player_flags'
        /\ cockpit_enter = "OVER_WILL" => cockpit_enter' = "OVER_WILL"
        /\ loc["GPS_GOOD"] # "NONE" => loc'["GPS_GOOD"] # "NONE"
        /\ loc["ROBOT_DEAD"] = "NONE" => loc'["ROBOT_DEAD"] = "NONE"
    BY <2>1 DEF Inv, WorldTypeOK, insert_object, remove_object, Objects
  <2> QED
    BY <2>1, <2>2, <2>3, <2>4, <2>5, <2>6, StayKeeps
<1> QED
  BY <1>1, <1>2, RefuseKeeps DEF typed_cmd_use

\* The suit is used up by wearing it.
LEMMA WearKeeps ==
  ASSUME Inv, Playing, NEW arg, typed_cmd_wear(arg)
  PROVE  Inv'
<1>1. CASE arg = "bunnysuit" /\ Here("BUNNYSUIT")
  <2> DEFINE l == remove_object(loc, "BUNNYSUIT")
  <2>1. /\ loc' = l
        /\ player_flags' = player_flags \cup {"WEARING_SUIT"}
        /\ UNCHANGED <<where, back, cockpit_enter, newest, car_view, x_speed, y_speed,
                       play>>
        /\ Show("TC_REDRAW_ROOM")
    BY <1>1 DEF typed_cmd_wear
  <2>2. WorldTypeOK'
    <3>1. l \in [Objects -> Rooms \cup {"NONE"}]
      BY TableType DEF Inv, WorldTypeOK
    <3> HIDE DEF l
    <3> QED
      BY <2>1, <3>1 DEF Inv, WorldTypeOK, Flags, do_photo_swap
  <2>3. ItemsInv'
    BY <1>1, <2>1 DEF Inv, WorldTypeOK, ItemsInv, QuestInv, FormsInv, CarInv,
         IsSet, remove_object, Objects
  <2>4. SpeedAsCarried'
    <3>1. l["BOARD"] = loc["BOARD"] /\ l["JETPACK"] = loc["JETPACK"]
      BY DEF Inv, WorldTypeOK, insert_object, remove_object, Objects
    <3> QED
      BY <2>1, <3>1, SpeedKeeps DEF Inv
  <2>5. ShownIsCurrent'
    BY <2>1, ShowKeeps DEF Inv
  <2>6. /\ player_flags \subseteq player_flags'
        /\ cockpit_enter = "OVER_WILL" => cockpit_enter' = "OVER_WILL"
        /\ loc["GPS_GOOD"] # "NONE" => loc'["GPS_GOOD"] # "NONE"
        /\ loc["ROBOT_DEAD"] = "NONE" => loc'["ROBOT_DEAD"] = "NONE"
    BY <2>1 DEF Inv, WorldTypeOK, insert_object, remove_object, Objects
  <2> QED
    BY <2>1, <2>2, <2>3, <2>4, <2>5, <2>6, StayKeeps
<1> QED
  BY <1>1, RefuseKeeps DEF typed_cmd_wear
-----------------------------------------------------------------------------
(* get and drop. *)

\* Moving one object that is in the world, other than the battery in the car:
\* Tux and the MIMO card only after what they wait for.
LEMMA MovedKeeps ==
  ASSUME Inv, NEW obj \in Objects \ {"BATT_CAR"}, NEW r \in Rooms,
         loc[obj] # "NONE",
         obj = "TUX" => IsSet("LURED_TUX"),
         obj = "MIMO_CARD" => loc["GPS_GOOD"] # "NONE",
         loc' = insert_object(loc, obj, r),
         UNCHANGED <<cockpit_enter, player_flags, car_view>>
  PROVE  ItemsInv'
<1>1. r # "NONE"
  BY DEF Rooms
<1>2. \A o \in Objects : loc'[o] = IF o = obj THEN r ELSE loc[o]
  BY DEF Inv, WorldTypeOK, insert_object
<1>3. QuestInv'
  BY <1>1, <1>2 DEF Inv, ItemsInv, QuestInv, IsSet, Objects
<1>4. FormsInv'
  BY <1>1, <1>2 DEF Inv, ItemsInv, FormsInv, IsSet, Objects
<1>5. CarInv'
  BY <1>1, <1>2 DEF Inv, ItemsInv, CarInv, IsSet, Objects
<1> QED
  BY <1>3, <1>4, <1>5 DEF ItemsInv

\* What get and drop share: the types and the screen, and that the player stays.
LEMMA TakeKeeps ==
  ASSUME Inv, Playing, NEW l \in [Objects -> Rooms \cup {"NONE"}],
         NEW obj \in Objects, NEW r \in Rooms, Take(l, obj, r),
         \A o \in {"GPS_GOOD", "ROBOT_DEAD"} : loc'[o] = "NONE" <=> loc[o] = "NONE",
         x_speed' \in {x_speed, MOTION_SPEED, MOTION_SPEED * 3},
         y_speed' \in {y_speed, MOTION_SPEED, MOTION_SPEED * 3},
         ItemsInv', SpeedAsCarried'
  PROVE  Inv'
<1>1. /\ loc' = insert_object(l, obj, r)
      /\ newest' = IF obj_data[obj].name = "book" THEN obj ELSE newest
      /\ UNCHANGED <<where, back, cockpit_enter, player_flags, car_view, play>>
      /\ Show("TC_REDRAW_ROOM")
  BY DEF Take
<1>2. loc' \in [Objects -> Rooms \cup {"NONE"}]
  BY <1>1 DEF insert_object
<1>3. newest' \in {"BOOK_C", "BOOK_WODE"}
  BY <1>1, Names DEF Inv, WorldTypeOK
<1>4. WorldTypeOK'
  BY <1>1, <1>2, <1>3 DEF Inv, WorldTypeOK
<1>5. ShownIsCurrent'
  BY <1>1, ShowKeeps DEF Inv
<1> QED
  BY <1>1, <1>4, <1>5, StayKeeps

\* The player stands in a room other than the inventory.
LEMMA StandingRoom ==
  ASSUME Inv, Playing
  PROVE  Standing \in Rooms \ {"INVENTORY"} /\ MayStand(Standing)
  BY DEF Inv, WorldTypeOK, PlaceInv, Standing, Playing

\* What find_in_room finds is there; with Tux it finds nothing else.
LEMMA Found ==
  ASSUME NEW r, NEW arg, NEW obj \in find_in_room(r, arg)
  PROVE  /\ obj \in Objects /\ loc[obj] = r
         /\ obj = "TUX" => find_in_room(r, arg) = {"TUX"}
<1>1. obj \in contents(r) /\ obj_data[obj].name = arg
  BY DEF find_in_room
<1>2. ASSUME obj = "TUX"
      PROVE  find_in_room(r, arg) = {"TUX"}
  <2>1. arg = "tux"
    BY <1>1, <1>2, Names DEF contents
  <2>2. \A o \in find_in_room(r, arg) : o = "TUX"
    BY <2>1, Names DEF find_in_room, contents
  <2> QED
    BY <1>2, <2>2
<1> QED
  BY <1>1, <1>2 DEF contents

\* typed_cmd_drop: what is carried is put down where the player stands.
LEMMA DropKeeps ==
  ASSUME Inv, Playing, NEW arg, typed_cmd_drop(arg)
  PROVE  Inv'
<1>1. CASE find_in_room("INVENTORY", arg) = {}
  BY <1>1, RefuseKeeps DEF typed_cmd_drop
<1>2. CASE find_in_room("INVENTORY", arg) # {}
  <2>1. PICK obj \in find_in_room("INVENTORY", arg) :
          /\ Take(loc, obj, Standing)
          /\ x_speed' = IF loc'["BOARD"] = "INVENTORY" THEN x_speed
                        ELSE MOTION_SPEED
          /\ y_speed' = IF loc'["JETPACK"] = "INVENTORY" THEN y_speed
                        ELSE MOTION_SPEED
    BY <1>2, Zenon DEF typed_cmd_drop
  <2>2. obj \in Objects /\ loc[obj] = "INVENTORY"
    BY Found
  <2>3. Standing \in Rooms \ {"INVENTORY"} /\ Standing # "NONE"
    BY StandingRoom DEF Rooms
  <2>4. /\ loc' = insert_object(loc, obj, Standing)
        /\ UNCHANGED <<cockpit_enter, player_flags, car_view>>
    BY <2>1 DEF Take
  <2>5. ItemsInv'
    <3>1. /\ obj # "BATT_CAR"
          /\ obj = "TUX" => IsSet("LURED_TUX")
          /\ obj = "MIMO_CARD" => loc["GPS_GOOD"] # "NONE"
      BY <2>2 DEF Inv, ItemsInv, QuestInv, CarInv
    <3> QED
      BY <2>2, <2>3, <2>4, <3>1, MovedKeeps
  <2>6. \A o \in Objects : loc'[o] = IF o = obj THEN Standing ELSE loc[o]
    BY <2>4 DEF Inv, WorldTypeOK, insert_object
  <2>7. SpeedAsCarried'
    BY <2>1, <2>2, <2>3, <2>6 DEF Inv, SpeedAsCarried, Carried, Objects
  <2>8. \A o \in {"GPS_GOOD", "ROBOT_DEAD"} : loc'[o] = "NONE" <=> loc[o] = "NONE"
    BY <2>2, <2>3, <2>6 DEF Objects
  <2>9. loc \in [Objects -> Rooms \cup {"NONE"}]
    BY DEF Inv, WorldTypeOK
  <2> QED
    BY <2>1, <2>2, <2>3, <2>5, <2>7, <2>8, <2>9, TakeKeeps
<1> QED
  BY <1>1, <1>2

\* A book from the reserve desk.
LEMMA ReserveKeeps ==
  ASSUME Inv, NEW book, loc[book] = "NONE",
         book = IF IsSet("HAS_EATEN") THEN "BOOK_C" ELSE "BOOK_WODE",
         loc' = insert_object(loc, book, "INVENTORY"),
         UNCHANGED <<cockpit_enter, player_flags, car_view>>
  PROVE  ItemsInv'
<1>1. \A o \in Objects : loc'[o] = IF o = book THEN "INVENTORY" ELSE loc[o]
  BY DEF Inv, WorldTypeOK, insert_object
<1> QED
  BY <1>1 DEF Inv, ItemsInv, QuestInv, FormsInv, CarInv, IsSet, Objects

\* The battery out of the open car: it changes its form.
LEMMA BatteryKeeps ==
  ASSUME Inv, loc["BATT_CAR"] # "NONE",
         loc' = insert_object(remove_object(loc, "BATT_CAR"), "BATT_EMPTY",
                              "INVENTORY"),
         UNCHANGED <<cockpit_enter, player_flags, car_view>>
  PROVE  ItemsInv'
<1>1. \A o \in Objects : loc'[o] = IF o = "BATT_EMPTY" THEN "INVENTORY"
                                   ELSE IF o = "BATT_CAR" THEN "NONE" ELSE loc[o]
  BY DEF Inv, WorldTypeOK, insert_object, remove_object, Objects
<1> QED
  BY <1>1 DEF Inv, ItemsInv, QuestInv, FormsInv, CarInv, IsSet, Objects

\* get, once it is known which object it takes from which list l of objects.
Got(l, obj) ==
  /\ Take(l, obj, "INVENTORY")
  /\ x_speed' = IF loc'["BOARD"] = "INVENTORY" THEN MOTION_SPEED * 3 ELSE x_speed
  /\ y_speed' = IF loc'["JETPACK"] = "INVENTORY" THEN MOTION_SPEED * 3 ELSE y_speed

\* The three kinds of things get finds.
FromReserve(obj) ==
  /\ obj = IF IsSet("HAS_EATEN") THEN "BOOK_C" ELSE "BOOK_WODE"
  /\ loc[obj] = "NONE" /\ Got(loc, obj)

FromCar(obj) ==
  /\ obj = "BATT_EMPTY" /\ loc["BATT_CAR"] = "CAR_SITE"
  /\ Got(remove_object(loc, "BATT_CAR"), obj)

FromRoom(obj) ==
  /\ obj \in Objects /\ loc[obj] = Standing
  /\ obj = "TUX" => IsSet("LURED_TUX")
  /\ Standing = "CAR_SITE" => loc["BATT_CAR"] # "CAR_SITE"
  /\ Got(loc, obj)

\* typed_cmd_get is one of the three, or refuses.
LEMMA GetCases ==
  ASSUME NEW arg, typed_cmd_get(arg)
  PROVE  \/ Refuse
         \/ \E obj : FromReserve(obj) \/ FromCar(obj) \/ FromRoom(obj)
<1> DEFINE special == obj_special_get(Standing, arg)
           found == IF special # {} THEN special ELSE find_in_room(Standing, arg)
           left == IF "BATT_EMPTY" \in special THEN remove_object(loc, "BATT_CAR")
                   ELSE loc
           book == IF IsSet("HAS_EATEN") THEN "BOOK_C" ELSE "BOOK_WODE"
<1>1. \/ Refuse
      \/ /\ ~(found = {"TUX"} /\ ~IsSet("LURED_TUX"))
         /\ \E obj \in found : Got(left, obj)
  BY Zenon DEF typed_cmd_get, Got
<1>2. \/ special = {book} /\ loc[book] = "NONE"
      \/ special = {"BATT_EMPTY"} /\ loc["BATT_CAR"] = "CAR_SITE"
      \/ special = {} /\ (Standing = "CAR_SITE" => loc["BATT_CAR"] # "CAR_SITE")
  BY Zenon DEF obj_special_get
<1>3. book \in {"BOOK_C", "BOOK_WODE"}
  OBVIOUS
<1> HIDE DEF special, book
<1>4. CASE special = {book} /\ loc[book] = "NONE"
  <2>1. found = {book} /\ left = loc
    BY <1>3, <1>4
  <2> QED
    BY <1>1, <1>4, <2>1, Zenon DEF FromReserve, book
<1>5. CASE special = {"BATT_EMPTY"} /\ loc["BATT_CAR"] = "CAR_SITE"
  <2>1. found = {"BATT_EMPTY"} /\ left = remove_object(loc, "BATT_CAR")
    BY <1>5
  <2> QED
    BY <1>1, <1>5, <2>1, Zenon DEF FromCar
<1>6. CASE special = {} /\ (Standing = "CAR_SITE" => loc["BATT_CAR"] # "CAR_SITE")
  <2>1. found = find_in_room(Standing, arg) /\ left = loc
    BY <1>6
  <2> HIDE DEF found, left
  <2>2. ASSUME NEW obj \in found, Got(left, obj),
               ~(found = {"TUX"} /\ ~IsSet("LURED_TUX"))
        PROVE  FromRoom(obj)
    <3>1. obj \in Objects /\ loc[obj] = Standing /\ (obj = "TUX" => found = {"TUX"})
      BY <2>1, Found
    <3> QED
      BY <1>6, <2>1, <2>2, <3>1, Zenon DEF FromRoom
  <2> QED
    BY <1>1, <2>2
<1> QED
  BY <1>2, <1>4, <1>5, <1>6

\* typed_cmd_get: Tux stays until it is lured, and the card is taken only from
\* the park, which takes the working GPS.
LEMMA GetKeeps ==
  ASSUME Inv, Playing, NEW arg, typed_cmd_get(arg)
  PROVE  Inv'
<1> DEFINE Type == [Objects -> Rooms \cup {"NONE"}]
<1>1. ASSUME NEW l \in Type, NEW obj \in Objects, Got(l, obj), ItemsInv',
             \A o \in Objects \ {"BATT_CAR"} : l[o] = loc[o],
             loc[obj] = "NONE" => obj \notin {"GPS_GOOD", "ROBOT_DEAD"}
      PROVE  Inv'
  <2>1. \A o \in Objects \ {"BATT_CAR"} :
          loc'[o] = IF o = obj THEN "INVENTORY" ELSE loc[o]
    BY <1>1 DEF Got, Take, insert_object
  <2>2. SpeedAsCarried'
    BY <1>1, <2>1 DEF Inv, SpeedAsCarried, Carried, Got, Objects
  <2>3. \A o \in {"GPS_GOOD", "ROBOT_DEAD"} : loc'[o] = "NONE" <=> loc[o] = "NONE"
    BY <1>1, <2>1 DEF Objects
  <2>4. "INVENTORY" \in Rooms
    BY DEF Rooms
  <2> QED
    BY <1>1, <2>2, <2>3, <2>4, TakeKeeps DEF Got
<1>2. loc \in Type
  BY DEF Inv, WorldTypeOK
<1>3. ASSUME NEW l, NEW obj, Got(l, obj)
      PROVE  /\ loc' = insert_object(l, obj, "INVENTORY")
             /\ UNCHANGED <<cockpit_enter, player_flags, car_view>>
  BY <1>3 DEF Got, Take
<1>4. ASSUME NEW obj, FromReserve(obj)
      PROVE  Inv'
  <2>1. obj \in {"BOOK_C", "BOOK_WODE"} /\ Got(loc, obj)
    BY <1>4 DEF FromReserve
  <2>2. ItemsInv'
    BY <1>3, <1>4, <2>1, ReserveKeeps DEF FromReserve
  <2> QED
    BY <1>1, <1>2, <2>1, <2>2 DEF Objects
<1>5. ASSUME NEW obj, FromCar(obj)
      PROVE  Inv'
  <2> DEFINE l == remove_object(loc, "BATT_CAR")
  <2>1. obj = "BATT_EMPTY" /\ loc["BATT_CAR"] # "NONE" /\ Got(l, obj)
    BY <1>5 DEF FromCar
  <2>2. l \in Type /\ \A o \in Objects \ {"BATT_CAR"} : l[o] = loc[o]
    BY <1>2 DEF remove_object
  <2>3. ItemsInv'
    BY <1>3, <2>1, BatteryKeeps
  <2> HIDE DEF l
  <2> QED
    BY <1>1, <2>1, <2>2, <2>3 DEF Objects
<1>6. ASSUME NEW obj, FromRoom(obj)
      PROVE  Inv'
  <2>1. /\ obj \in Objects /\ loc[obj] = Standing
        /\ obj = "TUX" => IsSet("LURED_TUX")
        /\ Standing = "CAR_SITE" => loc["BATT_CAR"] # "CAR_SITE"
        /\ Got(loc, obj)
    BY <1>6 DEF FromRoom
  <2>2. /\ Standing \in Rooms \ {"INVENTORY"} /\ MayStand(Standing)
        /\ Standing # "NONE" /\ "INVENTORY" \in Rooms
    BY StandingRoom DEF Rooms
  <2>3. obj # "BATT_CAR"
    BY <2>1, <2>2 DEF Inv, ItemsInv, CarInv
  <2>4. obj = "MIMO_CARD" => loc["GPS_GOOD"] # "NONE"
    BY <2>1, <2>2 DEF Inv, ItemsInv, QuestInv, MayStand, Park
  <2>5. ItemsInv'
    BY <1>3, <2>1, <2>2, <2>3, <2>4, MovedKeeps
  <2> QED
    BY <1>1, <1>2, <2>1, <2>2, <2>5
<1> QED
  BY <1>4, <1>5, <1>6, GetCases, RefuseKeeps

-----------------------------------------------------------------------------
(* The theorems. *)

\* build_world and init_game.
LEMMA InitInv == WorldInit => Inv
<1> SUFFICES ASSUME WorldInit PROVE Inv
  OBVIOUS
<1>1. \A o \in Objects : loc[o] = obj_data[o].room
  BY DEF WorldInit, build_world
<1>2. /\ loc["BOARD"] = "IN_IEEE" /\ loc["JETPACK"] = "TALBOT"
      /\ loc["TUX"] = "REM_LAB" /\ loc["MP2"] = "CSLLOUNGE"
      /\ loc["BOOK_C"] = "NONE" /\ loc["ICARD"] = "BARDEEN"
      /\ loc["GPS_BAD"] = "TALBOT" /\ loc["GPS_GOOD"] = "NONE"
      /\ loc["GPS_SPEC"] = "CSL_UPPER" /\ loc["BUNNYSUIT"] = "ALMAMATER"
      /\ loc["BATT_EMPTY"] = "NONE" /\ loc["BATT_FULL"] = "NONE"
      /\ loc["BATT_CAR"] = "NONE" /\ loc["FISH"] = "EAST_BONE"
      /\ loc["CAR_KEY"] = "CARIBOU" /\ loc["ROBOT_DEAD"] = "MNTL_LAB3"
      /\ loc["ROBOT_LIVE"] = "NONE" /\ loc["MIMO_CARD"] = "STATUE"
  BY <1>1 DEF Objects, obj_data, Obj
<1>3. \A o \in Objects : obj_data[o].room \in Rooms \cup {"NONE"}
  BY DEF Objects, obj_data, Obj, Rooms
<1>4. loc \in [Objects -> Rooms \cup {"NONE"}]
  BY <1>3 DEF WorldInit, build_world
<1>5. cockpit_enter = "NONE"
  BY DEF WorldInit, build_world, room_data, Rooms, To
<1>6. /\ where = "EAST_EVRT" /\ back = "NONE" /\ newest = "BOOK_C"
      /\ player_flags = {} /\ car_view = "closed"
      /\ x_speed = MOTION_SPEED /\ y_speed = MOTION_SPEED
      /\ drawn = Picture(where, loc, car_view)
  BY DEF WorldInit, build_world, init_game
<1>7. WorldTypeOK
  <2>1. "EAST_EVRT" \in Rooms
    BY DEF Rooms
  <2> QED
    BY <1>4, <1>5, <1>6, <2>1 DEF WorldTypeOK
<1>8. PlaceInv
  BY <1>6 DEF PlaceInv, MayStand, Standing, Park, Airport, Flight, Lobby
<1>9. ItemsInv
  BY <1>2, <1>5, <1>6 DEF ItemsInv, QuestInv, FormsInv, CarInv, IsSet
<1>10. WonInv /\ SpeedAsCarried /\ ShownIsCurrent
  BY <1>2, <1>6 DEF WonInv, Playing, SpeedAsCarried, Carried, ShownIsCurrent
<1> QED
  BY <1>7, <1>8, <1>9, <1>10 DEF Inv

\* handle_typing: one lemma per verb.
LEMMA TypingKeeps ==
  ASSUME Inv, Playing, NEW verb, NEW arg, handle_typing(verb, arg)
  PROVE  Inv'
  BY BuyKeeps, ChargeKeeps, DoKeeps, DrinkKeeps, DropKeeps, FixKeeps, FlashKeeps,
     GetKeeps, GoKeeps, InstallKeeps, InventoryKeeps, SighKeeps, UseKeeps, WearKeeps,
     RefuseKeeps, Zenon DEF handle_typing

\* One step per action.
LEMMA NextKeeps == Inv /\ [WorldNext]_world_vars => Inv'
<1> SUFFICES ASSUME Inv, [WorldNext]_world_vars PROVE Inv'
  OBVIOUS
<1>1. CASE UNCHANGED world_vars
  BY <1>1, RefuseKeeps DEF Refuse
<1>2. CASE Playing /\ try_to_move_left
  BY <1>2, MoveLeftKeeps
<1>3. CASE Playing /\ try_to_enter
  BY <1>3, EnterKeeps
<1>4. CASE Playing /\ try_to_move_right
  BY <1>4, MoveRightKeeps
<1>5. CASE Playing /\ \E c \in play : handle_typing(c[1], c[2])
  BY <1>5, TypingKeeps
<1> QED
  BY <1>1, <1>2, <1>3, <1>4, <1>5 DEF WorldNext

\* The whole invariant, for every set of plays (world.c).
THEOREM WorldInvariance == WorldSpec => []Inv
  BY InitInv, NextKeeps, PTL DEF WorldSpec

\* The locks hold for every player: no sequence of any commands reaches a locked
\* place, or a later step of the quest, without the steps before it
\* (try_to_enter, typed_cmd_go, typed_cmd_install, typed_cmd_do).
THEOREM LocksCorrect == WorldSpec => []LocksHold
<1>1. Inv => LocksHold
  <2> SUFFICES ASSUME Inv PROVE LocksHold
    OBVIOUS
  <2>1. MayStand(Standing)
    BY DEF Inv, WorldTypeOK, PlaceInv, Playing, Standing, MayStand, Park,
           Airport, Flight,
       Lobby
  <2> QED
    BY <2>1 DEF Inv, ItemsInv, QuestInv, WonInv, MayStand, LocksHold, Lobby
<1> QED
  BY <1>1, WorldInvariance, PTL

\* The screen shows the room as it is after every command of every player
\* (handle_typing, the game loop).
THEOREM ShownCorrect == WorldSpec => []ShownIsCurrent
<1>1. Inv => ShownIsCurrent
  BY DEF Inv
<1> QED
  BY <1>1, WorldInvariance, PTL

\* Exactly one object of a set is in the world.
LEMMA CountOne ==
  ASSUME NEW os, NEW o \in os, loc[o] # "NONE",
         \A q \in os : loc[q] # "NONE" => q = o
  PROVE  Cardinality(InWorld(os)) = 1
<1>1. InWorld(os) = {o}
  BY DEF InWorld
<1> QED
  BY <1>1, FS_Singleton

\* None of them is.
LEMMA CountNone ==
  ASSUME NEW os, \A q \in os : loc[q] = "NONE"
  PROVE  Cardinality(InWorld(os)) = 0
<1>1. InWorld(os) = {}
  BY DEF InWorld
<1> QED
  BY <1>1, FS_EmptySet

\* For every player objects, flags, the car's photo, the inventory view and the
\* speeds of the window agree: nothing is lost or doubled, and both swaps of the
\* photo stay paired.
THEOREM ConsistentCorrect == WorldSpec => []Consistent
<1>1. Inv => Consistent
  <2> SUFFICES ASSUME Inv PROVE Consistent
    OBVIOUS
  <2>1. Cardinality(InWorld({"GPS_BAD", "GPS_GOOD"})) = 1
    BY CountOne DEF Inv, ItemsInv, FormsInv
  <2>2. Cardinality(InWorld({"ROBOT_DEAD", "ROBOT_LIVE"})) = 1
    BY CountOne DEF Inv, ItemsInv, FormsInv
  <2> DEFINE batteries == {"BATT_CAR", "BATT_EMPTY", "BATT_FULL"}
             opened == IsSet("CAR_OPEN") /\ ~IsSet("CAR_FIXED")
  <2>3. Cardinality(InWorld(batteries)) = IF opened THEN 1 ELSE 0
    <3>1. CASE opened
      <4>1. PICK o \in batteries : loc[o] # "NONE"
        BY <3>1 DEF Inv, ItemsInv, CarInv
      <4>2. \A q \in batteries : loc[q] # "NONE" => q = o
        BY <4>1 DEF Inv, ItemsInv, CarInv
      <4> HIDE DEF batteries
      <4> QED
        BY <3>1, <4>1, <4>2, CountOne
    <3>2. CASE ~opened
      <4>1. \A q \in batteries : loc[q] = "NONE"
        BY <3>2 DEF Inv, ItemsInv, CarInv
      <4> HIDE DEF batteries
      <4> QED
        BY <3>2, <4>1, CountNone
    <3> QED
      BY <3>1, <3>2
  <2>4. car_view = IF opened THEN "open" ELSE "closed"
    BY DEF Inv, WorldTypeOK, ItemsInv, CarInv
  <2>5. FormsInv
    BY DEF Inv, ItemsInv
  <2>6. /\ (loc["CAR_KEY"] = "NONE") = IsSet("CAR_OPEN")
        /\ (loc["BUNNYSUIT"] = "NONE") = IsSet("WEARING_SUIT")
        /\ (loc["FISH"] = "NONE") = IsSet("LURED_TUX")
        /\ (loc["GPS_SPEC"] = "NONE") = (loc["GPS_GOOD"] # "NONE")
        /\ (loc["MIMO_CARD"] = "NONE") = (cockpit_enter # "NONE")
    BY <2>5 DEF FormsInv, IsSet
  <2>7. Conserved
    <3>1. Cardinality(InWorld({"BATT_CAR", "BATT_EMPTY", "BATT_FULL"}))
            = IF IsSet("CAR_OPEN") /\ ~IsSet("CAR_FIXED") THEN 1 ELSE 0
      BY <2>3
    <3>2. car_view = IF IsSet("CAR_OPEN") /\ ~IsSet("CAR_FIXED") THEN "open" ELSE "closed"
      BY <2>4
    <3>3. \A o \in {"TUX", "MP2", "ICARD", "BOARD", "JETPACK"} : loc[o] # "NONE"
      BY <2>5 DEF FormsInv
    <3> QED
      BY <2>1, <2>2, <2>6, <3>1, <3>2, <3>3, Zenon DEF Conserved
  <2> QED
    BY <2>7 DEF Inv, Consistent
<1> QED
  BY <1>1, WorldInvariance, PTL

==============================================================================
