------------------------------ MODULE TermScreen -----------------------------
(***************************************************************************)
(* The screens of the virtual terminals of the mp3 kernel (console.c).     *)
(* Each terminal has a screen buffer and a cursor; the one on the screen   *)
(* (current_console) is also written through to video memory.  Programs    *)
(* write to the terminal of their process with console_putchar, and the    *)
(* keyboard interrupt to the terminal on the screen with console_echo,     *)
(* console_bksp and console_clrsc; it also exchanges terminals with        *)
(* vterm_swap_console.  Both work on copies of the console state and turn  *)
(* interrupts on before they store them back, so that the timer can switch *)
(* to another process in the middle of either.  A second key cannot come   *)
(* in the middle of a key: kbd_int acknowledges its interrupt at its end.  *)
(* Which process the keyboard interrupted does not matter: it may always   *)
(* be that of the terminal on the screen, and the others run on.           *)
(*                                                                         *)
(* "ideal" is what each terminal should show: a terminal of its own that   *)
(* only its process and the keys typed on it write to.                     *)
(***************************************************************************)
EXTENDS Integers

CONSTANTS
  Term, NUM_ROWS, NUM_COLS,
  PromptCols,        \* columns at which a program may start to read a line
  BackgroundScroll,  \* a program off the screen may scroll its terminal
  BackgroundExit,    \* a shell off the screen may exit
  KeysMeetOutput,    \* a key and its terminal's program may meet: the key in
                     \* the middle of console_putchar, or the program using
                     \* its terminal in the middle of the key
  MaxWrites          \* bound on the number of characters put and keys typed

ASSUME ScreenAssumption ==
  /\ NUM_ROWS \in Nat \ {0, 1} /\ NUM_COLS \in Nat \ {0, 1}
  /\ PromptCols \subseteq 0 .. NUM_COLS - 1
  /\ {BackgroundScroll, BackgroundExit, KeysMeetOutput} \subseteq BOOLEAN
  /\ MaxWrites \in Nat

VARIABLES
  vid_buf,    \* vid_buf[t]: vterms[t].vid_buf
  constate,   \* constate[t]: cursor and backspace stop of terminal t
  VIDEO,      \* video memory
  pcur,       \* position of the VGA cursor
  console,    \* current_console
  put,        \* put[t]: progress of the console_putchar of t's process
  key,        \* progress of the keyboard interrupt on the terminal on screen
  complete,   \* complete[t]: current_input.complete of terminal t
  from,       \* from[t]: cell at which t's process began to read a line,
              \* moved up when the terminal scrolls, at most to the first
              \* cell; NoRead if it does not read
  ideal,
  writes

vars == <<vid_buf, constate, VIDEO, pcur, console, put, key, complete, from,
          ideal, writes>>

Row == 0 .. NUM_ROWS - 1
Col == 0 .. NUM_COLS - 1

\* A cell is empty, holds what a program put, a key's echo, or whatever lies
\* in memory behind a screen buffer.
Glyph == {"blank", "put", "key", "junk"}
Cells == [Row \X Col -> Glyph]
Blank == [c \in Row \X Col |-> "blank"]

Cursor == [x : Col, y : Row]
Home   == [x |-> 0, y |-> 0]
NoRead == -1

\* What console_inccur, console_echo and console_bksp hold copies of.
ConState == [cur : Cursor, stop : Col]

TypeOK ==
  /\ vid_buf \in [Term -> Cells]
  /\ constate \in [Term -> ConState]
  /\ VIDEO \in Cells
  /\ pcur \in Cursor
  /\ console \in Term
  /\ put \in [Term -> [pc : {"idle", "inc", "store", "test", "show"}, ret : BOOLEAN,
                       copy : Cursor]]
  /\ key \in [pc   : {"idle", "inc", "store", "show", "resync", "last"},
              kind : {"char", "back", "clear", "enter"},
              copy : ConState,    \* the copy that is worked on
              old  : ConState,    \* console_bksp's copy, taken at its start
              done : BOOLEAN]     \* the copy of complete that is stored back
  /\ complete \in [Term -> BOOLEAN]
  /\ from \in [Term -> {NoRead} \cup 0 .. NUM_ROWS * NUM_COLS - 1]
  /\ ideal \in [Term -> [cells : Cells, cur : Cursor]]
  /\ writes \in 0 .. MaxWrites

Idle == [pc |-> "idle", ret |-> FALSE, copy |-> Home]

NoState == [cur |-> Home, stop |-> 0]
NoKey == [pc |-> "idle", kind |-> "char", copy |-> NoState, old |-> NoState, done |-> FALSE]

\* vterm_init and vterm_new(1), vterm_new(2); the boot message that
\* console_init puts on terminal 0 is left out.
Init ==
  /\ vid_buf = [t \in Term |-> Blank]
  /\ constate = [t \in Term |-> NoState]
  /\ VIDEO = Blank
  /\ pcur = Home
  /\ console \in Term
  /\ put = [t \in Term |-> Idle]
  /\ key = NoKey
  /\ complete = [t \in Term |-> FALSE]
  /\ from = [t \in Term |-> NoRead]
  /\ ideal = [t \in Term |-> [cells |-> Blank, cur |-> Home]]
  /\ writes = 0

-----------------------------------------------------------------------------
(* Cursor and scrolling *)

Here(c)      == <<c.y, c.x>>
AtCorner(c)  == c.x + 1 >= NUM_COLS /\ c.y + 1 >= NUM_ROWS
AtBottom(c)  == c.y + 1 >= NUM_ROWS

\* console_inccur(CONINC_CHAR) and console_inccur(CONINC_LINERETURN) apart
\* from the scrolling.
Inccur(c) ==
  IF c.x + 1 < NUM_COLS THEN [c EXCEPT !.x = @ + 1]
  ELSE [x |-> 0, y |-> IF AtBottom(c) THEN NUM_ROWS - 1 ELSE c.y + 1]

LineReturn(c) == Inccur([c EXCEPT !.x = NUM_COLS - 1])

Scrolls(c, ret) == IF ret THEN AtBottom(c) ELSE AtCorner(c)
Moved(c, ret)   == IF ret THEN LineReturn(c) ELSE Inccur(c)

\* Video memory moves up by LINE_MEM_LEN bytes, one row.
ScrollVideo(v) ==
  [c \in Row \X Col |-> IF c[1] = NUM_ROWS - 1 THEN "blank" ELSE v[<<c[1] + 1, c[2]>>]]

\* The screen buffer moves up by LINE_MEM_LEN cells of two bytes: two rows,
\* the last of which is not the buffer's any more.
ScrollBuf(b) ==
  [c \in Row \X Col |-> CASE c[1] = NUM_ROWS - 1 -> "blank"
                          [] c[1] = NUM_ROWS - 2 -> "junk"
                          [] OTHER -> b[<<c[1] + 2, c[2]>>]]

\* console_bksp's move: up from column 0, else left as far as the stop.
\* Mutant: the stop is not looked at.
Back_free(c, stop) ==
  IF c.x = 0 /\ c.y = 0 THEN c
  ELSE IF c.x = 0 THEN [x |-> NUM_COLS - 1, y |-> c.y - 1]
  ELSE [c EXCEPT !.x = @ - 1]

Back(c, stop) ==
  IF c.x = 0 /\ c.y = 0 THEN c
  ELSE IF c.x = 0 THEN [x |-> NUM_COLS - 1, y |-> c.y - 1]
  ELSE IF stop = 0 \/ c.x > stop THEN [c EXCEPT !.x = @ - 1]
  ELSE c

-----------------------------------------------------------------------------
(* What a terminal of its own would show *)

IdealMove(s, ret) ==
  [cells |-> IF Scrolls(s.cur, ret) THEN ScrollVideo(s.cells) ELSE s.cells,
   cur   |-> Moved(s.cur, ret)]
IdealPut(s, g) == IdealMove([s EXCEPT !.cells[Here(s.cur)] = g], FALSE)
IdealBack(s, stop) ==
  LET c == Back(s.cur, stop) IN [cells |-> [s.cells EXCEPT ![Here(c)] = "blank"], cur |-> c]

Count == writes < MaxWrites /\ writes' = writes + 1

\* The line being read moves up with the terminal.
FromAfter(t, scrolled) ==
  IF scrolled /\ from[t] # NoRead
  THEN [from EXCEPT ![t] = IF @ < NUM_COLS THEN 0 ELSE @ - NUM_COLS]
  ELSE from

-----------------------------------------------------------------------------
(* Programs *)

\* Mutant: every program's output goes to the screen.
OnScreen_any(t) == TRUE
OnScreen(t) == t = console

\* The process of t may start to use its terminal.
MayUse(t) == t # console \/ key.pc = "idle" \/ KeysMeetOutput

CanWrite(t) == put[t].pc = "idle" /\ from[t] = NoRead /\ MayUse(t)

\* console_putchar of a character: the part with interrupts off.
PutChar(t) ==
  /\ Count /\ CanWrite(t)
  /\ BackgroundScroll \/ t = console \/ ~AtCorner(constate[t].cur)
  /\ LET at == Here(constate[t].cur) IN
     /\ vid_buf' = [vid_buf EXCEPT ![t][at] = "put"]
     /\ VIDEO' = IF OnScreen(t) THEN [VIDEO EXCEPT ![at] = "put"] ELSE VIDEO
  /\ put' = [put EXCEPT ![t].pc = "inc", ![t].ret = FALSE]
  /\ ideal' = [ideal EXCEPT ![t] = IdealPut(@, "put")]
  /\ UNCHANGED <<constate, pcur, console, key, complete, from>>

\* console_putchar of a newline.
PutNewline(t) ==
  /\ Count /\ CanWrite(t)
  /\ BackgroundScroll \/ t = console \/ ~AtBottom(constate[t].cur)
  /\ put' = [put EXCEPT ![t].pc = "inc", ![t].ret = TRUE]
  /\ ideal' = [ideal EXCEPT ![t] = IdealMove(@, TRUE)]
  /\ UNCHANGED <<vid_buf, constate, VIDEO, pcur, console, key, complete, from>>

\* console_inccur copies the console state,
IncCopy(t) ==
  /\ put[t].pc = "inc"
  /\ put' = [put EXCEPT ![t].pc = "store", ![t].copy = constate[t].cur]
  /\ UNCHANGED <<vid_buf, constate, VIDEO, pcur, console, key, complete, from, ideal, writes>>

\* scrolls if need be, stores the copy back and shows the cursor.
IncStore(t) ==
  /\ put[t].pc = "store"
  /\ LET c  == put[t].copy
         s  == Scrolls(c, put[t].ret)
         c2 == Moved(c, put[t].ret)
     IN /\ constate' = [constate EXCEPT ![t].cur = c2]
        /\ vid_buf' = IF s THEN [vid_buf EXCEPT ![t] = ScrollBuf(@)] ELSE vid_buf
        /\ VIDEO' = IF s /\ OnScreen(t) THEN ScrollVideo(VIDEO) ELSE VIDEO
        /\ pcur' = IF OnScreen(t) THEN c2 ELSE pcur
        /\ from' = FromAfter(t, s)
  /\ put' = [put EXCEPT ![t] = IF put[t].ret THEN Idle ELSE [Idle EXCEPT !.pc = "test"]]
  /\ UNCHANGED <<console, key, complete, ideal, writes>>

\* After a character, console_putchar looks whether its terminal is on the
\* screen,
PutTest(t) ==
  /\ put[t].pc = "test"
  /\ put' = [put EXCEPT ![t].pc = IF OnScreen(t) THEN "show" ELSE "idle"]
  /\ UNCHANGED <<vid_buf, constate, VIDEO, pcur, console, key, complete, from, ideal, writes>>

\* and shows the cursor once more.
PutShow(t) ==
  /\ put[t].pc = "show"
  /\ pcur' = constate[t].cur
  /\ put' = [put EXCEPT ![t] = Idle]
  /\ UNCHANGED <<vid_buf, constate, VIDEO, console, key, complete, from, ideal, writes>>

\* console_getinput sets the backspace stop,
ReadStart(t) ==
  /\ CanWrite(t)
  /\ constate[t].cur.x \in PromptCols
  /\ constate' = [constate EXCEPT ![t].stop = constate[t].cur.x]
  /\ complete' = [complete EXCEPT ![t] = FALSE]
  /\ from' = [from EXCEPT ![t] = constate[t].cur.y * NUM_COLS + constate[t].cur.x]
  /\ UNCHANGED <<vid_buf, VIDEO, pcur, console, put, key, ideal, writes>>

\* polls until the line is complete, and clears the stop.
ReadEnd(t) ==
  /\ from[t] # NoRead /\ complete[t] /\ MayUse(t)
  /\ constate' = [constate EXCEPT ![t].stop = 0]
  /\ from' = [from EXCEPT ![t] = NoRead]
  /\ UNCHANGED <<vid_buf, VIDEO, pcur, console, put, key, complete, ideal, writes>>

console_clrsc ==
  /\ VIDEO' = Blank
  /\ constate' = [constate EXCEPT ![console].cur = Home]
  /\ pcur' = Home

\* halt of a terminal's first shell.
ShellExit(t) ==
  /\ Count /\ CanWrite(t)
  /\ BackgroundExit \/ t = console
  /\ console_clrsc
  /\ ideal' = [ideal EXCEPT ![t] = [cells |-> Blank, cur |-> Home]]
  /\ UNCHANGED <<vid_buf, console, put, key, complete, from>>

-----------------------------------------------------------------------------
(* The keyboard interrupt *)

KeyMayCome == key.pc = "idle" /\ (put[console].pc = "idle" \/ KeysMeetOutput)

\* The handler of a key of this kind has come to pc.  It stores its copy of
\* complete back at its end.
KeyAt(pc, kind, copy, old, done) ==
  key' = [pc |-> pc, kind |-> kind, copy |-> copy, old |-> old, done |-> done]
KeyEnds(done) ==
  /\ key' = NoKey
  /\ complete' = [complete EXCEPT ![console] = done]

\* console_echo, the part with interrupts off: write glyph g at c.
EchoCell(c, g) ==
  /\ vid_buf' = [vid_buf EXCEPT ![console][Here(c)] = g]
  /\ VIDEO' = [VIDEO EXCEPT ![Here(c)] = g]

\* A printable key, or the '^' that Ctrl and L echo; it may be the last one of
\* the line.
KeyChar ==
  /\ Count /\ KeyMayCome
  /\ EchoCell(constate[console].cur, "key")
  /\ \E kind \in {"char", "clear"}, done \in {complete[console], TRUE} :
       KeyAt("inc", kind, NoState, NoState, done)
  /\ ideal' = [ideal EXCEPT ![console] = IdealPut(@, "key")]
  /\ UNCHANGED <<constate, pcur, console, put, complete, from>>

\* console_bksp: move back and echo a space there.
KeyBack ==
  /\ Count /\ KeyMayCome
  /\ LET old == [constate[console] EXCEPT !.cur = Back(@, constate[console].stop)]
     IN /\ constate' = [constate EXCEPT ![console] = old]
        /\ EchoCell(old.cur, "blank")
        /\ KeyAt("inc", "back", NoState, old, complete[console])
  /\ ideal' = [ideal EXCEPT ![console] = IdealBack(@, constate[console].stop)]
  /\ UNCHANGED <<pcur, console, put, complete, from>>

\* Enter: console_inccur(CONINC_LINERETURN); interrupts stay off unless it
\* scrolls.
KeyEnter ==
  /\ Count /\ KeyMayCome
  /\ ideal' = [ideal EXCEPT ![console] = IdealMove(@, TRUE)]
  /\ LET c == constate[console].cur IN
     \/ /\ AtBottom(c)
        /\ KeyAt("store", "enter", constate[console], NoState, TRUE)
        /\ UNCHANGED <<constate, pcur, complete>>
     \/ /\ ~AtBottom(c)
        /\ constate' = [constate EXCEPT ![console].cur = LineReturn(c)]
        /\ pcur' = LineReturn(c)
        /\ KeyEnds(TRUE)
  /\ UNCHANGED <<vid_buf, VIDEO, console, put, from>>

\* After the echo console_inccur copies the console state,
KeyCopy ==
  /\ key.pc = "inc"
  /\ key' = [key EXCEPT !.pc = "store", !.copy = constate[console]]
  /\ UNCHANGED <<vid_buf, constate, VIDEO, pcur, console, put, complete, from, ideal, writes>>

\* scrolls if need be, stores the copy back and shows the cursor.
KeyStore ==
  /\ key.pc = "store"
  /\ LET ret == key.kind = "enter"
         s   == Scrolls(key.copy.cur, ret)
         c2  == Moved(key.copy.cur, ret)
     IN /\ constate' = [constate EXCEPT ![console] = [key.copy EXCEPT !.cur = c2]]
        /\ vid_buf' = IF s THEN [vid_buf EXCEPT ![console] = ScrollBuf(@)] ELSE vid_buf
        /\ VIDEO' = IF s THEN ScrollVideo(VIDEO) ELSE VIDEO
        /\ pcur' = c2
        /\ from' = FromAfter(console, s)
        /\ \/ ret /\ KeyEnds(key.done)
           \/ ~ret /\ key' = [key EXCEPT !.pc = "show"] /\ UNCHANGED complete
  /\ UNCHANGED <<console, put, ideal, writes>>

\* console_echo copies the console state again and shows its cursor,
KeyShow ==
  /\ key.pc = "show"
  /\ key' = [key EXCEPT !.pc = "resync", !.copy = constate[console]]
  /\ pcur' = constate[console].cur
  /\ UNCHANGED <<vid_buf, constate, VIDEO, console, put, complete, from, ideal, writes>>

\* and stores that copy back.
KeyResync ==
  /\ key.pc = "resync"
  /\ constate' = [constate EXCEPT ![console] = key.copy]
  /\ \/ key.kind = "char" /\ KeyEnds(key.done)
     \/ key.kind # "char" /\ key' = [key EXCEPT !.pc = "last"] /\ UNCHANGED complete
  /\ UNCHANGED <<vid_buf, VIDEO, pcur, console, put, from, ideal, writes>>

\* console_bksp stores its own copy back, which undoes the move of the cursor.
KeyRestore ==
  /\ key.pc = "last" /\ key.kind = "back"
  /\ constate' = [constate EXCEPT ![console] = key.old]
  /\ pcur' = key.old.cur
  /\ KeyEnds(key.done)
  /\ UNCHANGED <<vid_buf, VIDEO, console, put, from, ideal, writes>>

\* Ctrl and L: console_echokbd clears the screen.
KeyClear ==
  /\ key.pc = "last" /\ key.kind = "clear"
  /\ console_clrsc
  /\ KeyEnds(key.done)
  /\ from' = IF from[console] = NoRead THEN from ELSE [from EXCEPT ![console] = 0]
  /\ ideal' = [ideal EXCEPT ![console] = [cells |-> Blank, cur |-> Home]]
  /\ UNCHANGED <<vid_buf, console, put, writes>>

\* Mutant: what the screen shows is not saved first.
SaveScreen_not == vid_buf[console]
SaveScreen == VIDEO

vterm_swap_console(t) ==
  /\ t # console /\ KeyMayCome
  /\ vid_buf' = [vid_buf EXCEPT ![console] = SaveScreen]
  /\ console' = t
  /\ VIDEO' = vid_buf[t]
  /\ pcur' = constate[t].cur
  /\ UNCHANGED <<constate, put, key, complete, from, ideal, writes>>

Next ==
  \/ KeyChar \/ KeyBack \/ KeyEnter \/ KeyCopy \/ KeyStore \/ KeyShow \/ KeyResync
  \/ KeyRestore \/ KeyClear
  \/ \E t \in Term :
       \/ PutChar(t) \/ PutNewline(t) \/ IncCopy(t) \/ IncStore(t) \/ PutTest(t)
       \/ PutShow(t) \/ ReadStart(t) \/ ReadEnd(t) \/ ShellExit(t)
       \/ vterm_swap_console(t)

Spec == Init /\ [][Next]_vars

-----------------------------------------------------------------------------
(* Properties *)

\* Nothing is in the middle of an output to terminal t.
Settled(t) == put[t].pc = "idle" /\ (t = console => key.pc = "idle")

\* Video memory shows exactly what was written to the terminal on the screen.
ScreenAsWritten ==
  Settled(console) => /\ VIDEO = ideal[console].cells
                      /\ constate[console].cur = ideal[console].cur

\* The buffer and cursor of a terminal off the screen hold exactly what was
\* written to it: nothing of the other terminals, and nothing lost.
HiddenAsWritten ==
  \A t \in Term \ {console} : Settled(t) =>
    /\ vid_buf[t] = ideal[t].cells
    /\ constate[t].cur = ideal[t].cur

\* The VGA cursor is at the cursor of the terminal on the screen.
CursorShown == Settled(console) => pcur = constate[console].cur

\* A user cannot backspace beyond the point where the program began to read.
StopsAtPrompt ==
  \A t \in Term : Settled(t) /\ from[t] # NoRead =>
    constate[t].cur.y * NUM_COLS + constate[t].cur.x >= from[t]

\* A backspace moves the cursor back from any cell of the line that is read but
\* the first.
BackspaceMoves ==
  [][LET c == constate[console].cur IN
     KeyBack /\ from[console] # NoRead /\ c.y * NUM_COLS + c.x > from[console]
       => constate'[console].cur # c]_vars

\* The terminal on the screen is right, its cells and the cursor that the VGA
\* shows, after any mixture of output, keys, swaps and exits.
ScreenCorrect == TypeOK /\ ScreenAsWritten /\ CursorShown

=============================================================================
