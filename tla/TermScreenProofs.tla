-------------------------- MODULE TermScreenProofs --------------------------
(***************************************************************************)
(* Proofs about the screens of the terminals, for every number of          *)
(* terminals and every size of the screen.                                 *)
(***************************************************************************)
EXTENDS TermScreen, TLAPS

\* The terminals are used as the run uses them: no program scrolls its terminal
\* or exits while off the screen, a key and the program of its terminal do not
\* meet, and no line is read from the last column.
Orderly ==
  /\ ~BackgroundScroll /\ ~BackgroundExit /\ ~KeysMeetOutput
  /\ NUM_COLS - 1 \notin PromptCols

\* What a terminal shows, or will show when it comes onto the screen.
Shown(t) == IF t = console THEN VIDEO ELSE vid_buf[t]

\* Cells v after console_inccur has moved the cursor on from c.
Ahead(v, c, ret) == IF Scrolls(c, ret) THEN ScrollVideo(v) ELSE v

\* A terminal is as written,
Written(t) == Shown(t) = ideal[t].cells /\ constate[t].cur = ideal[t].cur

\* or but for one move of the cursor.
Owed(t, ret) ==
  /\ ideal[t].cells = Ahead(Shown(t), constate[t].cur, ret)
  /\ ideal[t].cur = Moved(constate[t].cur, ret)

\* A terminal is as written, but for the move of the cursor that a
\* console_putchar still has to make; off the screen that move does not scroll.
TermInv(t) ==
  /\ put[t].pc = "idle" /\ (t = console => key.pc = "idle") => Written(t)
  /\ put[t].pc \in {"test", "show"} => Written(t)
  /\ put[t].pc \in {"inc", "store"} =>
       /\ Owed(t, put[t].ret)
       /\ t = console \/ ~Scrolls(constate[t].cur, put[t].ret)
  /\ put[t].pc = "store" => put[t].copy = constate[t].cur
  /\ put[t].pc = "show" => t = console

\* In the middle of a key, its terminal is as written but for the move that the
\* key still has to make, or that console_bksp still has to undo.
KeyInv ==
  /\ put[console].pc = "idle"
  /\ key.pc \in {"store", "resync"} => key.copy = constate[console]
  /\ key.kind # "back" =>
       /\ key.pc \in {"inc", "store"} => Owed(console, key.kind = "enter")
       /\ key.pc \notin {"inc", "store"} => Written(console)
  /\ key.kind = "back" =>
       /\ VIDEO = ideal[console].cells /\ key.old.cur = ideal[console].cur
       /\ key.old.stop = constate[console].stop /\ ~AtCorner(key.old.cur)
       /\ key.pc \in {"inc", "store"} => constate[console].cur = key.old.cur

ScreenInv ==
  /\ \A t \in Term : TermInv(t)
  /\ key.pc # "idle" => KeyInv
  /\ key.pc = "idle" \/ key.kind # "back" => pcur = constate[console].cur
  /\ \A t \in Term : constate[t].stop # NUM_COLS - 1

-----------------------------------------------------------------------------
(* Cursors and cells *)

\* The sizes of the screen.
LEMMA Sizes ==
  /\ NUM_ROWS \in Nat /\ NUM_ROWS >= 2 /\ NUM_COLS \in Nat /\ NUM_COLS >= 2
  /\ MaxWrites \in Nat /\ NUM_ROWS * NUM_COLS \in Nat
<1>1. /\ NUM_ROWS \in Nat \ {0, 1} /\ NUM_COLS \in Nat \ {0, 1}
      /\ MaxWrites \in Nat
  BY ScreenAssumption, Zenon
<1> QED
  BY <1>1

\* Every movement of the cursor stays on the screen, and only a backspace that
\* the stop refuses at the corner leaves it there.
LEMMA CursorMoves ==
  ASSUME NEW c \in Cursor
  PROVE  /\ Home \in Cursor /\ Here(c) \in Row \X Col
         /\ Inccur(c) \in Cursor /\ LineReturn(c) \in Cursor
         /\ \A ret \in BOOLEAN : Moved(c, ret) \in Cursor
         /\ \A stop \in Col :
              /\ Back(c, stop) \in Cursor
              /\ stop # NUM_COLS - 1 => ~AtCorner(Back(c, stop))
<1>1. c.x \in Nat /\ c.x < NUM_COLS /\ c.y \in Nat /\ c.y < NUM_ROWS /\ c = [x |-> c.x, y |-> c.y]
  BY Sizes DEF Cursor, Row, Col
<1>2. Home \in Cursor /\ Here(c) \in Row \X Col
  BY Sizes DEF Home, Cursor, Row, Col, Here
<1>3. Inccur(c) \in Cursor
  BY <1>1, Sizes DEF Inccur, AtBottom, Cursor, Row, Col
<1>4. LineReturn(c) \in Cursor
  BY <1>1, Sizes DEF LineReturn, Inccur, AtBottom, Cursor, Row, Col
<1>5. \A ret \in BOOLEAN : Moved(c, ret) \in Cursor
  BY <1>3, <1>4, Zenon DEF Moved
<1>6. ASSUME NEW stop \in Col
      PROVE  /\ Back(c, stop) \in Cursor
             /\ stop # NUM_COLS - 1 => ~AtCorner(Back(c, stop))
  BY <1>1, Sizes DEF Back, AtCorner, Cursor, Row, Col
<1> QED
  BY <1>2, <1>3, <1>4, <1>5, <1>6

\* Scrolling, clearing and writing one cell give a screen again.
LEMMA CellsMove ==
  ASSUME NEW v \in Cells
  PROVE  /\ Blank \in Cells /\ ScrollVideo(v) \in Cells /\ ScrollBuf(v) \in Cells
         /\ \A k \in Row \X Col, g \in Glyph : [v EXCEPT ![k] = g] \in Cells
<1>1. Blank \in Cells
  BY DEF Blank, Cells, Glyph
<1>2. ScrollVideo(v) \in Cells
  <2>1. ASSUME NEW k \in Row \X Col, k[1] # NUM_ROWS - 1
        PROVE  <<k[1] + 1, k[2]>> \in Row \X Col
    BY <2>1, Sizes DEF Row
  <2> QED
    BY <2>1 DEF ScrollVideo, Cells, Glyph
<1>3. ScrollBuf(v) \in Cells
  <2>1. ASSUME NEW k \in Row \X Col, k[1] # NUM_ROWS - 1, k[1] # NUM_ROWS - 2
        PROVE  <<k[1] + 2, k[2]>> \in Row \X Col
    BY <2>1, Sizes DEF Row
  <2> QED
    BY <2>1 DEF ScrollBuf, Cells, Glyph
<1>4. \A k \in Row \X Col, g \in Glyph : [v EXCEPT ![k] = g] \in Cells
  BY DEF Cells
<1> QED
  BY <1>1, <1>2, <1>3, <1>4

Ideal == [cells : Cells, cur : Cursor]

\* The operations of the reference screen give one again.
LEMMA Ideals ==
  ASSUME NEW s \in Ideal
  PROVE  /\ \A ret \in BOOLEAN : IdealMove(s, ret) \in Ideal
         /\ \A g \in Glyph : IdealPut(s, g) \in Ideal
         /\ \A stop \in Col : IdealBack(s, stop) \in Ideal
         /\ [cells |-> Blank, cur |-> Home] \in Ideal
<1>1. s.cells \in Cells /\ s.cur \in Cursor
  BY DEF Ideal
<1>2. ASSUME NEW r \in Ideal, NEW ret \in BOOLEAN
      PROVE  IdealMove(r, ret) \in Ideal
  <2>1. r.cells \in Cells /\ r.cur \in Cursor
    BY DEF Ideal
  <2>2. ScrollVideo(r.cells) \in Cells /\ Moved(r.cur, ret) \in Cursor
    BY <2>1, CellsMove, CursorMoves
  <2> QED
    BY <2>1, <2>2 DEF IdealMove, Ideal
<1>3. ASSUME NEW g \in Glyph
      PROVE  IdealPut(s, g) \in Ideal
  <2>1. [s.cells EXCEPT ![Here(s.cur)] = g] \in Cells
    BY <1>1, CellsMove, CursorMoves
  <2>2. [s EXCEPT !.cells[Here(s.cur)] = g] \in Ideal
    BY <1>1, <2>1 DEF Ideal
  <2> QED
    BY <1>2, <2>2 DEF IdealPut
<1>4. ASSUME NEW stop \in Col
      PROVE  IdealBack(s, stop) \in Ideal
  <2>1. Back(s.cur, stop) \in Cursor
    BY <1>1, CursorMoves
  <2>2. Here(Back(s.cur, stop)) \in Row \X Col /\ "blank" \in Glyph
    BY <2>1, CursorMoves DEF Glyph
  <2>3. [s.cells EXCEPT ![Here(Back(s.cur, stop))] = "blank"] \in Cells
    BY <1>1, <2>2, CellsMove
  <2> QED
    BY <2>1, <2>3 DEF IdealBack, Ideal
<1>5. [cells |-> Blank, cur |-> Home] \in Ideal
  BY <1>1, CellsMove, CursorMoves DEF Ideal
<1> QED
  BY <1>2, <1>3, <1>4, <1>5

-----------------------------------------------------------------------------
(* Type correctness *)

Progress == [pc : {"idle", "inc", "store", "test", "show"}, ret : BOOLEAN, copy : Cursor]
KeyState == [pc   : {"idle", "inc", "store", "show", "resync", "last"},
             kind : {"char", "back", "clear", "enter"},
             copy : ConState, old : ConState, done : BOOLEAN]
Start    == {NoRead} \cup 0 .. NUM_ROWS * NUM_COLS - 1

\* A cell number is in range.
LEMMA CellNumber ==
  ASSUME NEW c \in Cursor
  PROVE  c.y * NUM_COLS + c.x \in Start
<1>1. /\ c.x \in Nat /\ c.x <= NUM_COLS - 1 /\ c.y \in Nat /\ c.y <= NUM_ROWS - 1
  BY Sizes DEF Cursor, Row, Col
<1>2. c.y * NUM_COLS <= (NUM_ROWS - 1) * NUM_COLS
  BY <1>1, Sizes
<1>3. (NUM_ROWS - 1) * NUM_COLS = NUM_ROWS * NUM_COLS - NUM_COLS
  BY Sizes
<1>4. c.y * NUM_COLS \in Nat
  BY <1>1, Sizes
<1> QED
  BY <1>1, <1>2, <1>3, <1>4, Sizes DEF Start

\* FromAfter is a place on the screen, or none.
LEMMA FromType ==
  ASSUME NEW t \in Term, from \in [Term -> Start], NEW s \in BOOLEAN
  PROVE  FromAfter(t, s) \in [Term -> Start]
<1>1. ASSUME NEW n \in Start, n # NoRead
      PROVE  (IF n < NUM_COLS THEN 0 ELSE n - NUM_COLS) \in Start
  BY <1>1, Sizes DEF Start, NoRead
<1>2. CASE s /\ from[t] # NoRead
  <2>1. from[t] \in Start
    OBVIOUS
  <2>2. (IF from[t] < NUM_COLS THEN 0 ELSE from[t] - NUM_COLS) \in Start
    BY <1>1, <1>2, <2>1
  <2>3. FromAfter(t, s) = [from EXCEPT ![t] =
            IF from[t] < NUM_COLS THEN 0 ELSE from[t] - NUM_COLS]
    BY <1>2 DEF FromAfter
  <2> QED
    BY <2>2, <2>3
<1>3. CASE ~(s /\ from[t] # NoRead)
  BY <1>3 DEF FromAfter
<1> QED
  BY <1>2, <1>3

\* TypeOK, with its sets by name.
TypeInv ==
  /\ vid_buf \in [Term -> Cells] /\ constate \in [Term -> ConState]
  /\ VIDEO \in Cells /\ pcur \in Cursor /\ console \in Term
  /\ put \in [Term -> Progress] /\ key \in KeyState
  /\ complete \in [Term -> BOOLEAN] /\ from \in [Term -> Start]
  /\ ideal \in [Term -> Ideal] /\ writes \in 0 .. MaxWrites

\* TypeOK in the terms of the proof.
LEMMA TypeNames == TypeOK <=> TypeInv
BY DEF TypeOK, TypeInv, Progress, KeyState, Start, Ideal

\* The values that the steps store.
LEMMA Values ==
  /\ {"blank", "put", "key"} \subseteq Glyph
  /\ Idle \in Progress /\ [Idle EXCEPT !.pc = "test"] \in Progress
  /\ Home \in Cursor /\ NoState \in ConState /\ NoKey \in KeyState
  /\ Blank \in Cells /\ 0 \in Col /\ 0 \in Start /\ NoRead \in Start
  /\ [cells |-> Blank, cur |-> Home] \in Ideal
<1>1. Home \in Cursor /\ 0 \in Col /\ NoRead \in Start
  BY Sizes DEF Home, Cursor, Row, Col, Start
<1>2. Blank \in Cells
  BY DEF Blank, Cells, Glyph
<1>3. NUM_ROWS * NUM_COLS >= 1
  BY Sizes
<1>4. 0 \in Start
  BY <1>3, Sizes DEF Start
<1>5. NoState \in ConState
  BY <1>1 DEF NoState, ConState
<1>6. NoKey \in KeyState
  BY <1>5 DEF NoKey, KeyState
<1>7. Idle \in Progress /\ [Idle EXCEPT !.pc = "test"] \in Progress
  BY <1>1 DEF Idle, Progress
<1>8. [cells |-> Blank, cur |-> Home] \in Ideal
  BY <1>1, <1>2 DEF Ideal
<1> QED
  BY <1>1, <1>2, <1>4, <1>5, <1>6, <1>7, <1>8 DEF Glyph

\* The screens are clear in the beginning.
LEMMA TypeInit == Init => TypeInv
<1>1. 0 \in 0 .. MaxWrites
  BY Sizes
<1> QED
  BY <1>1, Values DEF Init, TypeInv

\* Scrolling or not is a truth value.
LEMMA Truths ==
  ASSUME NEW c, NEW ret
  PROVE  AtBottom(c) \in BOOLEAN /\ AtCorner(c) \in BOOLEAN /\ Scrolls(c, ret) \in BOOLEAN
<1>1. AtBottom(c) \in BOOLEAN /\ AtCorner(c) \in BOOLEAN
  BY DEF AtBottom, AtCorner
<1> QED
  BY <1>1, Zenon DEF Scrolls

\* TypeInv is inductive.
LEMMA TypeStep == TypeInv /\ [Next]_vars => TypeInv'
<1> SUFFICES ASSUME TypeInv, [Next]_vars PROVE TypeInv'
  OBVIOUS
<1> USE DEF TypeInv
<1>1. /\ \A t \in Term : /\ constate[t].cur \in Cursor /\ constate[t].stop \in Col
                         /\ put[t].ret \in BOOLEAN /\ put[t].copy \in Cursor
                         /\ ideal[t] \in Ideal /\ vid_buf[t] \in Cells
      /\ key.copy \in ConState /\ key.old \in ConState /\ key.done \in BOOLEAN
      /\ key.copy.cur \in Cursor /\ key.copy.stop \in Col /\ key.old.cur \in Cursor
  BY DEF ConState, Progress, KeyState
<1>2. Count => writes' \in 0 .. MaxWrites
  BY Sizes DEF Count
<1>3. ASSUME NEW t \in Term, NEW c \in Cursor
      PROVE  [constate EXCEPT ![t].cur = c] \in [Term -> ConState]
  BY DEF ConState
<1>4. \A s \in BOOLEAN, t \in Term : FromAfter(t, s) \in [Term -> Start]
  BY FromType
<1>5. ASSUME NEW pc \in {"inc", "store"}, NEW kind \in {"char", "back", "clear", "enter"},
             NEW copy \in ConState, NEW old \in ConState, NEW done \in BOOLEAN,
             KeyAt(pc, kind, copy, old, done)
      PROVE  key' \in KeyState
  BY <1>5 DEF KeyAt, KeyState
<1>6. ASSUME NEW done \in BOOLEAN, KeyEnds(done)
      PROVE  key' \in KeyState /\ complete' \in [Term -> BOOLEAN]
  BY <1>6, Values DEF KeyEnds
<1>7. ASSUME NEW c \in Cursor, NEW g \in Glyph, EchoCell(c, g)
      PROVE  vid_buf' \in [Term -> Cells] /\ VIDEO' \in Cells
  <2>1. Here(c) \in Row \X Col
    BY CursorMoves
  <2>2. [VIDEO EXCEPT ![Here(c)] = g] \in Cells /\ [vid_buf[console] EXCEPT ![Here(c)] = g] \in Cells
    BY <1>1, <2>1, CellsMove
  <2> DEFINE at == Here(c)
  <2>3. /\ vid_buf' = [vid_buf EXCEPT ![console][at] = g]
        /\ VIDEO' = [VIDEO EXCEPT ![at] = g]
    BY <1>7 DEF EchoCell
  <2> HIDE DEF at
  <2>4. vid_buf' = [vid_buf EXCEPT ![console] = [vid_buf[console] EXCEPT ![at] = g]]
    BY <2>3
  <2> QED
    BY <2>2, <2>3, <2>4 DEF at
<1>8. CASE KeyChar
  <2>1. PICK kind \in {"char", "clear"}, done \in {complete[console], TRUE} :
          KeyAt("inc", kind, NoState, NoState, done)
    BY <1>8 DEF KeyChar
  <2>2. key' \in KeyState
    BY <1>5, <2>1, Values
  <2>3. IdealPut(ideal[console], "key") \in Ideal
    BY <1>1, Ideals, Values
  <2>4. vid_buf' \in [Term -> Cells] /\ VIDEO' \in Cells
    BY <1>1, <1>7, <1>8, Values DEF KeyChar
  <2> QED
    BY <1>2, <1>8, <2>2, <2>3, <2>4 DEF KeyChar
<1>9. CASE KeyBack
  <2> DEFINE c == Back(constate[console].cur, constate[console].stop)
             old == [constate[console] EXCEPT !.cur = c]
  <2>1. c \in Cursor
    BY <1>1, CursorMoves
  <2>2. old \in ConState /\ old.cur = c
    BY <2>1 DEF ConState
  <2>3. IdealBack(ideal[console], constate[console].stop) \in Ideal
    BY <1>1, Ideals
  <2>4. /\ constate' = [constate EXCEPT ![console] = old] /\ EchoCell(old.cur, "blank")
        /\ KeyAt("inc", "back", NoState, old, complete[console])
        /\ ideal' = [ideal EXCEPT ![console] = IdealBack(@, constate[console].stop)]
        /\ UNCHANGED <<pcur, console, put, complete, from>>
    BY <1>9 DEF KeyBack
  <2> HIDE DEF old, c
  <2>5. key' \in KeyState
    BY <1>5, <2>2, <2>4, Values
  <2>6. vid_buf' \in [Term -> Cells] /\ VIDEO' \in Cells
    BY <1>7, <2>1, <2>2, <2>4, Values
  <2>7. writes' \in 0 .. MaxWrites
    BY <1>2, <1>9 DEF KeyBack
  <2> QED
    BY <2>2, <2>3, <2>4, <2>5, <2>6, <2>7
<1>10. CASE KeyEnter
  <2> DEFINE c == constate[console].cur
  <2>1. LineReturn(c) \in Cursor
    BY <1>1, CursorMoves
  <2>2. IdealMove(ideal[console], TRUE) \in Ideal
    BY <1>1, Ideals
  <2>3. /\ ideal' \in [Term -> Ideal] /\ UNCHANGED <<vid_buf, VIDEO, console, put, from>>
        /\ writes' \in 0 .. MaxWrites
    BY <1>2, <1>10, <2>2 DEF KeyEnter
  <2>4. CASE AtBottom(c)
    <3>1. KeyAt("store", "enter", constate[console], NoState, TRUE)
      BY <1>10, <2>4 DEF KeyEnter
    <3>2. key' \in KeyState
      BY <1>5, <3>1, Values
    <3> QED
      BY <1>10, <2>3, <2>4, <3>2 DEF KeyEnter
  <2>5. CASE ~AtBottom(c)
    <3>1. /\ constate' = [constate EXCEPT ![console].cur = LineReturn(c)]
          /\ pcur' = LineReturn(c) /\ KeyEnds(TRUE)
      BY <1>10, <2>5 DEF KeyEnter
    <3> HIDE DEF c
    <3>2. key' \in KeyState /\ complete' \in [Term -> BOOLEAN]
      BY <1>6, <3>1
    <3>3. constate' \in [Term -> ConState]
      BY <1>3, <2>1, <3>1
    <3> QED
      BY <2>1, <2>3, <3>1, <3>2, <3>3
  <2> QED
    BY <2>4, <2>5
<1>11. CASE KeyCopy
  <2>1. key' \in KeyState
    BY <1>11 DEF KeyCopy, KeyState
  <2> QED
    BY <1>11, <2>1 DEF KeyCopy
<1>12. CASE KeyStore
  <2> DEFINE ret == key.kind = "enter"
             s == Scrolls(key.copy.cur, ret)
             m == Moved(key.copy.cur, ret)
  <2>1. ret \in BOOLEAN /\ s \in BOOLEAN
    BY Truths
  <2>2. m \in Cursor
    BY <1>1, CursorMoves
  <2>3. ScrollBuf(vid_buf[console]) \in Cells /\ ScrollVideo(VIDEO) \in Cells
    BY <1>1, CellsMove
  <2>4. [key.copy EXCEPT !.cur = m] \in ConState
    BY <1>1, <2>2 DEF ConState
  <2>5. /\ constate' = [constate EXCEPT ![console] = [key.copy EXCEPT !.cur = m]]
        /\ vid_buf' = IF s THEN [vid_buf EXCEPT ![console] = ScrollBuf(@)] ELSE vid_buf
        /\ VIDEO' = IF s THEN ScrollVideo(VIDEO) ELSE VIDEO
        /\ pcur' = m /\ from' = FromAfter(console, s)
        /\ \/ KeyEnds(key.done)
           \/ key' = [key EXCEPT !.pc = "show"] /\ UNCHANGED complete
        /\ UNCHANGED <<console, put, ideal, writes>>
    BY <1>12, Zenon DEF KeyStore
  <2> HIDE DEF s, m, ret
  <2>6. key' \in KeyState /\ complete' \in [Term -> BOOLEAN]
    <3>1. CASE KeyEnds(key.done)
      BY <1>1, <1>6, <3>1
    <3>2. CASE key' = [key EXCEPT !.pc = "show"] /\ UNCHANGED complete
      BY <3>2 DEF KeyState
    <3> QED
      BY <2>5, <3>1, <3>2
  <2>7. from' \in [Term -> Start] /\ constate' \in [Term -> ConState]
    BY <1>4, <2>1, <2>4, <2>5
  <2>8. vid_buf' \in [Term -> Cells] /\ VIDEO' \in Cells
    BY <2>3, <2>5
  <2> QED
    BY <2>2, <2>5, <2>6, <2>7, <2>8
<1>13. CASE KeyShow
  <2>1. key' \in KeyState
    BY <1>13 DEF KeyShow, KeyState
  <2> QED
    BY <1>1, <1>13, <2>1 DEF KeyShow
<1>14. CASE KeyResync
  <2>1. key' \in KeyState /\ complete' \in [Term -> BOOLEAN]
    <3>1. CASE KeyEnds(key.done)
      BY <1>1, <1>6, <3>1
    <3>2. CASE key' = [key EXCEPT !.pc = "last"] /\ UNCHANGED complete
      BY <3>2 DEF KeyState
    <3> QED
      BY <1>14, <3>1, <3>2 DEF KeyResync
  <2> QED
    BY <1>1, <1>14, <2>1 DEF KeyResync
<1>15. CASE KeyRestore
  <2>1. key' \in KeyState /\ complete' \in [Term -> BOOLEAN]
    BY <1>1, <1>6, <1>15 DEF KeyRestore
  <2> QED
    BY <1>1, <1>15, <2>1 DEF KeyRestore
<1>16. CASE KeyClear
  <2>1. key' \in KeyState /\ complete' \in [Term -> BOOLEAN]
    BY <1>1, <1>6, <1>16 DEF KeyClear
  <2>2. constate' = [constate EXCEPT ![console].cur = Home] /\ VIDEO' = Blank /\ pcur' = Home
    BY <1>16 DEF KeyClear, console_clrsc
  <2>3. constate' \in [Term -> ConState]
    BY <1>3, <2>2, Values
  <2> QED
    BY <1>16, <2>1, <2>2, <2>3, Values DEF KeyClear
<1>17. ASSUME NEW t \in Term, PutChar(t) PROVE TypeInv'
  <2> DEFINE at == Here(constate[t].cur)
  <2>1. at \in Row \X Col
    BY <1>1, CursorMoves
  <2>2. /\ [vid_buf[t] EXCEPT ![at] = "put"] \in Cells
        /\ [VIDEO EXCEPT ![at] = "put"] \in Cells
    BY <1>1, <2>1, CellsMove, Values
  <2>3. IdealPut(ideal[t], "put") \in Ideal
    BY <1>1, Ideals, Values
  <2> HIDE DEF at
  <2>4. /\ vid_buf' = [vid_buf EXCEPT ![t][at] = "put"]
        /\ VIDEO' = IF OnScreen(t) THEN [VIDEO EXCEPT ![at] = "put"] ELSE VIDEO
        /\ put' = [put EXCEPT ![t].pc = "inc", ![t].ret = FALSE]
        /\ ideal' = [ideal EXCEPT ![t] = IdealPut(@, "put")]
        /\ UNCHANGED <<constate, pcur, console, key, complete, from>>
    BY <1>17, Zenon DEF PutChar, at
  <2>5. writes' \in 0 .. MaxWrites
    BY <1>2, <1>17 DEF PutChar
  <2>6. put' \in [Term -> Progress]
    BY <2>4 DEF Progress
  <2> QED
    BY <2>2, <2>3, <2>4, <2>5, <2>6
<1>18. ASSUME NEW t \in Term, PutNewline(t) PROVE TypeInv'
  <2>1. IdealMove(ideal[t], TRUE) \in Ideal
    BY <1>1, Ideals
  <2>2. writes' \in 0 .. MaxWrites
    BY <1>2, <1>18 DEF PutNewline
  <2>3. put' \in [Term -> Progress]
    BY <1>18 DEF PutNewline, Progress
  <2> QED
    BY <1>18, <2>1, <2>2, <2>3 DEF PutNewline
<1>19. ASSUME NEW t \in Term, IncCopy(t) PROVE TypeInv'
  <2>1. put' \in [Term -> Progress]
    BY <1>1, <1>19 DEF IncCopy, Progress
  <2> QED
    BY <1>19, <2>1 DEF IncCopy
<1>20. ASSUME NEW t \in Term, IncStore(t) PROVE TypeInv'
  <2> DEFINE c == put[t].copy
             s == Scrolls(c, put[t].ret)
             m == Moved(c, put[t].ret)
  <2>1. m \in Cursor
    BY <1>1, CursorMoves
  <2>2. ScrollBuf(vid_buf[t]) \in Cells /\ ScrollVideo(VIDEO) \in Cells
    BY <1>1, CellsMove
  <2>3. s \in BOOLEAN
    BY Truths
  <2> HIDE DEF c, s, m
  <2>4. /\ constate' = [constate EXCEPT ![t].cur = m]
        /\ vid_buf' = IF s THEN [vid_buf EXCEPT ![t] = ScrollBuf(@)] ELSE vid_buf
        /\ VIDEO' = IF s /\ OnScreen(t) THEN ScrollVideo(VIDEO) ELSE VIDEO
        /\ pcur' = IF OnScreen(t) THEN m ELSE pcur
        /\ from' = FromAfter(t, s)
        /\ put' = [put EXCEPT ![t] = IF put[t].ret THEN Idle ELSE [Idle EXCEPT !.pc = "test"]]
        /\ UNCHANGED <<console, key, complete, ideal, writes>>
    BY <1>20, Zenon DEF IncStore, c, s, m
  <2>5. from' \in [Term -> Start] /\ constate' \in [Term -> ConState]
    BY <1>3, <1>4, <2>1, <2>3, <2>4
  <2>6. vid_buf' \in [Term -> Cells] /\ VIDEO' \in Cells
    BY <2>2, <2>4
  <2>7. put' \in [Term -> Progress]
    BY <2>4, Values
  <2> QED
    BY <2>1, <2>4, <2>5, <2>6, <2>7
<1>21. ASSUME NEW t \in Term, PutTest(t) PROVE TypeInv'
  <2>1. put' \in [Term -> Progress]
    BY <1>21 DEF PutTest, Progress
  <2> QED
    BY <1>21, <2>1 DEF PutTest
<1>22. ASSUME NEW t \in Term, PutShow(t) PROVE TypeInv'
  <2>1. put' \in [Term -> Progress]
    BY <1>22, Values DEF PutShow
  <2> QED
    BY <1>1, <1>22, <2>1 DEF PutShow
<1>23. ASSUME NEW t \in Term, ReadStart(t) PROVE TypeInv'
  <2>1. /\ constate[t].cur.y * NUM_COLS + constate[t].cur.x \in Start
        /\ constate[t].cur.x \in Col
    BY <1>1, CellNumber DEF Cursor
  <2>2. constate' \in [Term -> ConState]
    BY <1>23, <2>1 DEF ReadStart, ConState
  <2>3. from' \in [Term -> Start]
    BY <1>23, <2>1 DEF ReadStart
  <2> QED
    BY <1>23, <2>2, <2>3 DEF ReadStart
<1>24. ASSUME NEW t \in Term, ReadEnd(t) PROVE TypeInv'
  <2>1. constate' \in [Term -> ConState]
    BY <1>24, Values DEF ReadEnd, ConState
  <2> QED
    BY <1>24, <2>1, Values DEF ReadEnd
<1>25. ASSUME NEW t \in Term, ShellExit(t) PROVE TypeInv'
  <2>1. constate' \in [Term -> ConState]
    BY <1>3, <1>25, Values DEF ShellExit, console_clrsc
  <2>2. writes' \in 0 .. MaxWrites
    BY <1>2, <1>25 DEF ShellExit
  <2> QED
    BY <1>25, <2>1, <2>2, Values DEF ShellExit, console_clrsc
<1>26. ASSUME NEW t \in Term, vterm_swap_console(t) PROVE TypeInv'
  BY <1>1, <1>26 DEF vterm_swap_console, SaveScreen
<1>27. CASE UNCHANGED vars
  BY <1>27 DEF vars
<1> QED
  BY <1>8, <1>9, <1>10, <1>11, <1>12, <1>13, <1>14, <1>15, <1>16, <1>17, <1>18, <1>19,
     <1>20, <1>21, <1>22, <1>23, <1>24, <1>25, <1>26, <1>27
  DEF Next

-----------------------------------------------------------------------------
(* The terminals show what was written to them *)

\* A step that leaves a terminal alone keeps it right.
LEMMA Untouched ==
  ASSUME NEW u \in Term, TermInv(u),
         u = console' <=> u = console,
         u = console => (key'.pc = "idle" => key.pc = "idle"),
         Shown(u)' = Shown(u), constate'[u].cur = constate[u].cur,
         put'[u] = put[u], ideal'[u] = ideal[u]
  PROVE  TermInv(u)'
<1>1. (u = console' => key'.pc = "idle") => (u = console => key.pc = "idle")
  OBVIOUS
<1>2. Written(u)' <=> Written(u)
  BY Zenon DEF Written
<1>3. \A ret : Owed(u, ret)' <=> Owed(u, ret)
  BY Zenon DEF Owed
<1>4. put'[u].pc = put[u].pc /\ put'[u].ret = put[u].ret /\ put'[u].copy = put[u].copy
  BY Zenon
<1> QED
  BY <1>1, <1>2, <1>3, <1>4, Zenon DEF TermInv

\* A terminal that nothing is written to at the moment is right if it is as
\* written.
LEMMA Finished ==
  ASSUME NEW u \in Term, put'[u].pc \in {"idle", "test"}, Written(u)'
  PROVE  TermInv(u)'
<1>1. put'[u].pc \notin {"inc", "store", "show"}
  OBVIOUS
<1> QED
  BY <1>1, Zenon DEF TermInv

\* Writing a character leaves one move of the cursor to make.
LEMMA PutOwes ==
  ASSUME NEW s \in Ideal, NEW g
  PROVE  LET v == [s.cells EXCEPT ![Here(s.cur)] = g]
         IN /\ IdealPut(s, g).cells = Ahead(v, s.cur, FALSE)
            /\ IdealPut(s, g).cur = Moved(s.cur, FALSE)
<1> DEFINE w == [s EXCEPT !.cells[Here(s.cur)] = g]
<1>1. w.cells = [s.cells EXCEPT ![Here(s.cur)] = g] /\ w.cur = s.cur
  BY DEF Ideal
<1>2. IdealPut(s, g) = IdealMove(w, FALSE)
  BY Zenon DEF IdealPut
<1> HIDE DEF w
<1>3. /\ IdealMove(w, FALSE).cells = Ahead(w.cells, w.cur, FALSE)
      /\ IdealMove(w, FALSE).cur = Moved(w.cur, FALSE)
  BY DEF IdealMove, Ahead
<1> QED
  BY <1>1, <1>2, <1>3

\* So does a new line.
LEMMA LineOwes ==
  ASSUME NEW s
  PROVE  /\ IdealMove(s, TRUE).cells = Ahead(s.cells, s.cur, TRUE)
         /\ IdealMove(s, TRUE).cur = Moved(s.cur, TRUE)
BY DEF IdealMove, Ahead

\* ScreenInv is inductive, given the types and the hypothesis.
LEMMA ScreenStep ==
  ASSUME Orderly, TypeInv, ScreenInv, [Next]_vars
  PROVE  ScreenInv'
<1> USE DEF TypeInv
<1>1. /\ \A t \in Term : /\ constate[t] \in ConState /\ constate[t].cur \in Cursor
                         /\ constate[t].stop \in Col
                         /\ put[t].ret \in BOOLEAN /\ put[t].copy \in Cursor
                         /\ ideal[t] \in Ideal /\ vid_buf[t] \in Cells
      /\ key.copy \in ConState /\ key.old \in ConState
  BY DEF ConState, Progress, KeyState
<1>2. /\ \A t \in Term : TermInv(t)
      /\ key.pc # "idle" => KeyInv
      /\ key.pc = "idle" \/ key.kind # "back" => pcur = constate[console].cur
      /\ \A t \in Term : constate[t].stop # NUM_COLS - 1
      /\ Shown(console) = VIDEO
  BY DEF ScreenInv, Shown
<1>3. KeyMayCome => /\ key.pc = "idle" /\ put[console].pc = "idle"
                    /\ VIDEO = ideal[console].cells
                    /\ constate[console].cur = ideal[console].cur
  <2>1. KeyMayCome => key.pc = "idle" /\ put[console].pc = "idle"
    BY DEF KeyMayCome, Orderly
  <2>2. key.pc = "idle" /\ put[console].pc = "idle" => Written(console)
    BY <1>2 DEF TermInv
  <2> QED
    BY <1>2, <2>1, <2>2 DEF Written
<1>4. ASSUME NEW t \in Term, put[t].pc = "idle", MayUse(t)
      PROVE  /\ t = console => key.pc = "idle"
             /\ Shown(t) = ideal[t].cells /\ constate[t].cur = ideal[t].cur
  <2>1. t = console => key.pc = "idle"
    BY <1>4 DEF MayUse, Orderly
  <2>2. Written(t)
    BY <1>2, <1>4, <2>1 DEF TermInv
  <2> QED
    BY <2>1, <2>2 DEF Written
<1>5. ASSUME NEW t \in Term, put[t].pc # "idle"
      PROVE  t = console => key.pc = "idle"
  BY <1>2, <1>5 DEF KeyInv
\* A step of the keyboard interrupt.
<1>6. ASSUME console' = console, put' = put, put[console].pc = "idle",
             key'.pc = "idle" => Written(console)',
             key'.pc # "idle" => KeyInv',
             key'.pc = "idle" \/ key'.kind # "back" => pcur' = constate'[console].cur,
             constate'[console].stop # NUM_COLS - 1,
             \A u \in Term \ {console} :
               vid_buf'[u] = vid_buf[u] /\ constate'[u] = constate[u] /\ ideal'[u] = ideal[u]
      PROVE  ScreenInv'
  <2>1. ASSUME NEW u \in Term, u = console PROVE TermInv(u)'
    <3>1. CASE key'.pc = "idle"
      <4>1. Written(u)' /\ put'[u].pc = "idle"
        BY <1>6, <2>1, <3>1 DEF Written, Shown
      <4> QED
        BY <4>1, Finished
    <3>2. CASE key'.pc # "idle"
      <4>1. put'[u].pc = "idle" /\ "idle" \notin {"inc", "store", "test", "show"}
        BY <1>6, <2>1
      <4>2. ~(u = console' => key'.pc = "idle")
        BY <1>6, <2>1, <3>2
      <4> QED
        BY <4>1, <4>2, Zenon DEF TermInv
    <3> QED
      BY <3>1, <3>2
  <2>2. ASSUME NEW u \in Term, u # console PROVE TermInv(u)'
    <3>1. Shown(u)' = Shown(u)
      BY <1>6, <2>2 DEF Shown
    <3> QED
      BY <1>2, <1>6, <2>2, <3>1, Untouched
  <2>3. \A t \in Term : constate'[t].stop # NUM_COLS - 1
    BY <1>2, <1>6
  <2>4. \A u \in Term : TermInv(u)'
    BY <2>1, <2>2
  <2> QED
    BY <1>6, <2>3, <2>4 DEF ScreenInv
\* A step of one process, on or off the screen, that leaves its terminal right.
<1>7. ASSUME NEW t \in Term, console' = console, key' = key, TermInv(t)',
             t = console => key.pc = "idle",
             t = console \/ VIDEO' = VIDEO,
             key.pc = "idle" \/ key.kind # "back" => pcur' = constate'[console].cur,
             constate'[t].stop # NUM_COLS - 1,
             \A u \in Term \ {t} :
               /\ vid_buf'[u] = vid_buf[u] /\ constate'[u] = constate[u]
               /\ put'[u] = put[u] /\ ideal'[u] = ideal[u]
      PROVE  ScreenInv'
  <2>1. ASSUME NEW u \in Term, u # t PROVE TermInv(u)'
    <3>1. Shown(u)' = Shown(u)
      BY <1>7, <2>1 DEF Shown
    <3> QED
      BY <1>2, <1>7, <2>1, <3>1, Untouched
  <2>2. \A u \in Term : constate'[u].stop # NUM_COLS - 1
    BY <1>2, <1>7
  <2>3. \A u \in Term : TermInv(u)'
    BY <1>7, <2>1
  <2>4. key'.pc # "idle" => KeyInv'
    <3> SUFFICES ASSUME key.pc # "idle" PROVE KeyInv'
      BY <1>7
    <3>1. t # console /\ KeyInv
      BY <1>2, <1>7
    <3>2. /\ VIDEO' = VIDEO /\ constate'[console] = constate[console]
          /\ put'[console] = put[console] /\ ideal'[console] = ideal[console]
      BY <1>7, <3>1
    <3>3. Shown(console)' = Shown(console)
      BY <1>7, <3>1, <3>2 DEF Shown
    <3>4. /\ Written(console)' <=> Written(console)
          /\ \A ret : Owed(console, ret)' <=> Owed(console, ret)
      BY <1>7, <3>2, <3>3, Zenon DEF Written, Owed
    <3> QED
      BY <1>7, <3>1, <3>2, <3>4, Zenon DEF KeyInv
  <2> QED
    BY <1>7, <2>2, <2>3, <2>4 DEF ScreenInv
\* The rest of what a step of one process does to its terminal.
<1>8. ASSUME NEW t \in Term, Written(t)',
             put'[t].pc \in {"idle", "test"} \/ (put'[t].pc = "show" /\ t = console')
      PROVE  TermInv(t)'
  <2>1. CASE put'[t].pc \in {"idle", "test"}
    BY <1>8, <2>1, Finished
  <2>2. CASE put'[t].pc = "show" /\ t = console'
    <3>1. put'[t].pc \notin {"idle", "inc", "store"}
      BY <2>2
    <3> QED
      BY <1>8, <2>2, <3>1, Zenon DEF TermInv
  <2> QED
    BY <1>8, <2>1, <2>2
<1>9. ASSUME NEW t \in Term, put'[t].pc = "inc", Owed(t, put[t].ret)',
             t = console' \/ ~Scrolls(constate[t].cur, put[t].ret)'
      PROVE  TermInv(t)'
  <2>1. put'[t].pc \notin {"idle", "store", "test", "show"}
    BY <1>9
  <2> QED
    BY <1>9, <2>1, Zenon DEF TermInv
<1>10. CASE KeyChar
  <2> DEFINE c == constate[console].cur
  <2>1. PICK kind \in {"char", "clear"}, done \in {complete[console], TRUE} :
          KeyAt("inc", kind, NoState, NoState, done)
    BY <1>10 DEF KeyChar
  <2>2. /\ KeyMayCome /\ EchoCell(c, "key")
        /\ ideal' = [ideal EXCEPT ![console] = IdealPut(@, "key")]
        /\ UNCHANGED <<constate, pcur, console, put>>
    BY <1>10, Zenon DEF KeyChar
  <2>3. key'.pc = "inc" /\ key'.kind \in {"char", "clear"}
    BY <2>1 DEF KeyAt
  <2>4. /\ VIDEO' = [ideal[console].cells EXCEPT ![Here(c)] = "key"]
        /\ \A u \in Term \ {console} : vid_buf'[u] = vid_buf[u]
        /\ c = ideal[console].cur /\ put[console].pc = "idle" /\ key.pc = "idle"
    BY <1>3, <2>2 DEF EchoCell
  <2> HIDE DEF c
  <2>5. /\ ideal'[console].cells = Ahead(VIDEO', c, FALSE)
        /\ ideal'[console].cur = Moved(c, FALSE)
    BY <1>1, <2>2, <2>4, PutOwes
  <2>6. Owed(console, FALSE)'
    <3>1. Shown(console)' = VIDEO' /\ constate'[console].cur = c
      BY <2>2 DEF Shown, c
    <3> QED
      BY <2>2, <2>5, <3>1, Zenon DEF Owed
  <2>7. KeyInv'
    <3>1. /\ key'.pc \notin {"store", "resync"} /\ (key'.kind = "enter") = FALSE
          /\ key'.kind # "back" /\ put'[console'].pc = "idle" /\ key'.pc = "inc"
      BY <2>2, <2>3, <2>4
    <3> QED
      BY <2>2, <2>6, <3>1 DEF KeyInv
  <2> QED
    BY <1>2, <1>6, <2>2, <2>3, <2>4, <2>7
<1>11. CASE KeyBack
  <2> DEFINE stop == constate[console].stop
             c == Back(constate[console].cur, stop)
             old == [constate[console] EXCEPT !.cur = c]
  <2>1. /\ KeyMayCome /\ EchoCell(old.cur, "blank")
        /\ constate' = [constate EXCEPT ![console] = old]
        /\ KeyAt("inc", "back", NoState, old, complete[console])
        /\ ideal' = [ideal EXCEPT ![console] = IdealBack(@, stop)]
        /\ UNCHANGED <<pcur, console, put>>
    BY <1>11, Zenon DEF KeyBack
  <2>2. old.cur = c /\ old.stop = stop
    BY <1>1 DEF ConState
  <2>3. /\ VIDEO' = [VIDEO EXCEPT ![Here(c)] = "blank"]
        /\ \A u \in Term \ {console} : vid_buf'[u] = vid_buf[u]
    BY <2>1, <2>2 DEF EchoCell
  <2>4. /\ ideal[console].cells = VIDEO /\ Back(ideal[console].cur, stop) = c
        /\ put[console].pc = "idle" /\ key.pc = "idle"
    BY <1>3, <2>1
  <2>5. ~AtCorner(c)
    BY <1>1, <1>2, CursorMoves
  <2>6. key'.pc = "inc" /\ key'.kind = "back" /\ key'.old = old
    BY <2>1, Zenon DEF KeyAt
  <2>7. stop # NUM_COLS - 1
    BY <1>2
  <2> HIDE DEF c, stop, old
  <2>8. ideal'[console].cells = VIDEO' /\ ideal'[console].cur = c
    BY <2>1, <2>3, <2>4 DEF IdealBack
  <2>9. constate'[console] = old
    BY <2>1
  <2>10. KeyInv'
    <3>1. /\ key'.pc \notin {"store", "resync"} /\ put'[console'].pc = "idle"
          /\ key'.pc \in {"inc", "store"} /\ console' = console
      BY <2>1, <2>4, <2>6
    <3>2. /\ VIDEO' = ideal'[console].cells /\ key'.old.cur = ideal'[console].cur
          /\ key'.old.stop = constate'[console].stop /\ ~AtCorner(key'.old.cur)
          /\ constate'[console].cur = key'.old.cur
      BY <2>2, <2>5, <2>6, <2>8, <2>9, Zenon
    <3> QED
      BY <2>6, <3>1, <3>2 DEF KeyInv, AtCorner
  <2>11. \A u \in Term \ {console} : constate'[u] = constate[u] /\ ideal'[u] = ideal[u]
    BY <2>1
  <2> QED
    BY <1>6, <2>1, <2>2, <2>3, <2>4, <2>6, <2>7, <2>9, <2>10, <2>11
<1>12. CASE KeyEnter
  <2> DEFINE c == constate[console].cur
  <2>1. /\ KeyMayCome /\ ideal' = [ideal EXCEPT ![console] = IdealMove(@, TRUE)]
        /\ UNCHANGED <<vid_buf, VIDEO, console, put, from>>
        /\ \/ /\ AtBottom(c)
              /\ KeyAt("store", "enter", constate[console], NoState, TRUE)
              /\ UNCHANGED <<constate, pcur, complete>>
           \/ /\ ~AtBottom(c)
              /\ constate' = [constate EXCEPT ![console].cur = LineReturn(c)]
              /\ pcur' = LineReturn(c)
              /\ KeyEnds(TRUE)
    BY <1>12, Zenon DEF KeyEnter
  <2>2. /\ VIDEO = ideal[console].cells /\ c = ideal[console].cur
        /\ put[console].pc = "idle" /\ key.pc = "idle"
    BY <1>3, <2>1
  <2>3. Shown(console)' = VIDEO
    BY <2>1 DEF Shown
  <2> HIDE DEF c
  <2>4. /\ ideal'[console].cells = Ahead(VIDEO, c, TRUE)
        /\ ideal'[console].cur = Moved(c, TRUE)
    BY <2>1, <2>2, LineOwes
  <2>5. Scrolls(c, TRUE) = AtBottom(c) /\ Moved(c, TRUE) = LineReturn(c)
    BY Zenon DEF Scrolls, Moved
  <2>6. CASE AtBottom(c)
    <3>1. /\ KeyAt("store", "enter", constate[console], NoState, TRUE)
          /\ UNCHANGED <<constate, pcur>>
      BY <2>1, <2>6
    <3>2. key'.pc = "store" /\ key'.kind = "enter" /\ key'.copy = constate[console]
      BY <3>1, Zenon DEF KeyAt
    <3>3. Owed(console, TRUE)'
      <4>1. constate'[console].cur = c /\ console' = console
        BY <2>1, <3>1 DEF c
      <4> QED
        BY <2>3, <2>4, <4>1, Zenon DEF Owed
    <3>4. KeyInv'
      <4>1. /\ key'.kind # "back" /\ (key'.kind = "enter") = TRUE
            /\ put'[console'].pc = "idle" /\ console' = console
        BY <2>1, <2>2, <3>2
      <4> QED
        BY <3>1, <3>2, <3>3, <4>1 DEF KeyInv
    <3>5. \A u \in Term \ {console} : ideal'[u] = ideal[u]
      BY <2>1
    <3> QED
      BY <1>2, <1>6, <2>1, <2>2, <3>1, <3>2, <3>4, <3>5
  <2>7. CASE ~AtBottom(c)
    <3>1. /\ constate' = [constate EXCEPT ![console].cur = LineReturn(c)]
          /\ pcur' = LineReturn(c) /\ key'.pc = "idle"
      <4>1. /\ constate' = [constate EXCEPT ![console].cur = LineReturn(c)]
            /\ pcur' = LineReturn(c) /\ KeyEnds(TRUE)
        BY <2>1, <2>7, Zenon
      <4> QED
        BY <4>1 DEF KeyEnds, NoKey
    <3>2. /\ constate'[console].cur = LineReturn(c)
          /\ constate'[console].stop = constate[console].stop
          /\ \A u \in Term \ {console} : constate'[u] = constate[u] /\ ideal'[u] = ideal[u]
      BY <2>1, <3>1 DEF ConState
    <3>3. Written(console)'
      <4>1. ideal'[console].cells = VIDEO /\ ideal'[console].cur = LineReturn(c)
        BY <2>4, <2>5, <2>7 DEF Ahead
      <4> QED
        BY <2>1, <2>3, <3>2, <4>1 DEF Written
    <3> QED
      BY <1>2, <1>6, <2>1, <2>2, <3>1, <3>2, <3>3
  <2> QED
    BY <2>6, <2>7
\* What is known in the middle of a key.
<1>13. ASSUME key.pc # "idle"
       PROVE  /\ KeyInv /\ put[console].pc = "idle"
              /\ key.pc \in {"store", "resync"} => key.copy = constate[console]
              /\ key.kind # "back" => pcur = constate[console].cur
  BY <1>2, <1>13 DEF KeyInv
<1>14. CASE KeyCopy
  <2>1. /\ key.pc = "inc" /\ key' = [key EXCEPT !.pc = "store", !.copy = constate[console]]
        /\ UNCHANGED <<vid_buf, constate, VIDEO, pcur, console, put, ideal>>
    BY <1>14 DEF KeyCopy
  <2>2. /\ key'.pc = "store" /\ key'.copy = constate[console] /\ key'.kind = key.kind
        /\ key'.old = key.old
    BY <2>1 DEF KeyState
  <2>3. KeyInv /\ put[console].pc = "idle"
    BY <1>13, <2>1
  <2>4. \A ret : Owed(console, ret)' <=> Owed(console, ret)
    BY <2>1, Zenon DEF Owed, Shown
  <2>5. KeyInv'
    <3>1. /\ constate' = constate /\ ideal' = ideal /\ VIDEO' = VIDEO
          /\ console' = console /\ put' = put
      BY <2>1
    <3>2. {key.pc, key'.pc} \subseteq {"inc", "store"}
      BY <2>1, <2>2
    <3> QED
      BY <2>2, <2>3, <2>4, <3>1, <3>2, Zenon DEF KeyInv
  <2>6. key'.pc # "idle" /\ key.pc # "idle"
    BY <2>1, <2>2
  <2> QED
    BY <1>2, <1>6, <2>1, <2>2, <2>3, <2>5, <2>6
<1>15. CASE KeyStore
  <2> DEFINE c == key.copy.cur
             ret == key.kind = "enter"
             s == Scrolls(c, ret)
             m == Moved(c, ret)
  <2>1. /\ key.pc = "store"
        /\ constate' = [constate EXCEPT ![console] = [key.copy EXCEPT !.cur = m]]
        /\ vid_buf' = IF s THEN [vid_buf EXCEPT ![console] = ScrollBuf(@)] ELSE vid_buf
        /\ VIDEO' = IF s THEN ScrollVideo(VIDEO) ELSE VIDEO
        /\ pcur' = m
        /\ \/ ret /\ KeyEnds(key.done)
           \/ ~ret /\ key' = [key EXCEPT !.pc = "show"] /\ UNCHANGED complete
        /\ UNCHANGED <<console, put, ideal>>
    BY <1>15, Zenon DEF KeyStore
  <2>2. /\ KeyInv /\ put[console].pc = "idle" /\ key.copy = constate[console]
        /\ c = constate[console].cur
    BY <1>13, <2>1
  <2>3. [key.copy EXCEPT !.cur = m].cur = m /\ [key.copy EXCEPT !.cur = m].stop = key.copy.stop
    BY <1>1 DEF ConState
  <2>4. /\ constate'[console].cur = m /\ constate'[console].stop = constate[console].stop
        /\ \A u \in Term \ {console} : constate'[u] = constate[u] /\ vid_buf'[u] = vid_buf[u]
        /\ constate'[console].stop # NUM_COLS - 1
    <3>1. constate'[console] = [key.copy EXCEPT !.cur = m]
      BY <2>1
    <3>2. constate'[console].cur = m /\ constate'[console].stop = constate[console].stop
      BY <2>2, <2>3, <3>1, Zenon
    <3> QED
      BY <1>2, <2>1, <3>2
  <2>5. Shown(console)' = VIDEO'
    BY <2>1 DEF Shown
  <2>6. Ahead(VIDEO, c, ret) = VIDEO'
    BY <2>1, Zenon DEF Ahead
  <2>7. CASE key.kind # "back"
    <3>1. Owed(console, ret)
      BY <2>1, <2>2, <2>7 DEF KeyInv
    <3>2. ideal[console].cells = Ahead(VIDEO, c, ret) /\ ideal[console].cur = m
      BY <1>2, <2>2, <3>1, Zenon DEF Owed
    <3>3. Written(console)'
      BY <2>1, <2>4, <2>5, <2>6, <3>2, Zenon DEF Written
    <3>4. CASE ret
      <4>1. key'.pc = "idle"
        BY <2>1, <3>4 DEF KeyEnds, NoKey
      <4> QED
        BY <1>6, <2>1, <2>2, <2>4, <3>3, <4>1
    <3>5. CASE ~ret
      <4>1. key'.pc = "show" /\ key'.kind = key.kind
        BY <2>1, <3>5 DEF KeyState
      <4>2. KeyInv'
        <5>1. /\ key'.pc \notin {"inc", "store", "resync"} /\ key'.kind # "back"
              /\ put'[console'].pc = "idle" /\ console' = console
          BY <2>1, <2>2, <2>7, <4>1
        <5> QED
          BY <3>3, <5>1 DEF KeyInv
      <4> QED
        BY <1>6, <2>1, <2>2, <2>4, <3>3, <4>1, <4>2
    <3> QED
      BY <3>4, <3>5
  <2>8. CASE key.kind = "back"
    <3>1. /\ VIDEO = ideal[console].cells /\ key.old.cur = ideal[console].cur
          /\ key.old.stop = constate[console].stop /\ ~AtCorner(key.old.cur)
          /\ c = key.old.cur /\ ret = FALSE
      BY <2>1, <2>2, <2>8 DEF KeyInv
    <3>2. ~s
      BY <3>1, Zenon DEF Scrolls
    <3>3. key'.pc = "show" /\ key'.kind = "back" /\ key'.old = key.old
      BY <2>1, <2>8 DEF KeyState
    <3>4. VIDEO' = VIDEO /\ ideal' = ideal /\ console' = console
      BY <2>1, <3>2
    <3> HIDE DEF c, m, s, ret
    <3>5. KeyInv'
      <4>1. /\ key'.pc \notin {"inc", "store", "resync"} /\ put'[console'].pc = "idle"
        BY <2>1, <2>2, <3>3
      <4>2. ~AtCorner(key'.old.cur)
        BY <3>1, <3>3, Zenon
      <4>3. /\ VIDEO' = ideal'[console'].cells /\ key'.old.cur = ideal'[console'].cur
            /\ key'.old.stop = constate'[console'].stop
        BY <2>4, <3>1, <3>3, <3>4
      <4> QED
        BY <3>3, <4>1, <4>2, <4>3 DEF KeyInv, AtCorner
    <3> QED
      BY <1>6, <2>1, <2>2, <2>4, <3>3, <3>5
  <2> QED
    BY <2>7, <2>8
<1>16. CASE KeyShow
  <2>1. /\ key.pc = "show" /\ key' = [key EXCEPT !.pc = "resync", !.copy = constate[console]]
        /\ pcur' = constate[console].cur
        /\ UNCHANGED <<vid_buf, constate, VIDEO, console, put, ideal>>
    BY <1>16 DEF KeyShow
  <2>2. /\ key'.pc = "resync" /\ key'.copy = constate[console] /\ key'.kind = key.kind
        /\ key'.old = key.old
    BY <2>1 DEF KeyState
  <2>3. KeyInv /\ put[console].pc = "idle"
    BY <1>13, <2>1
  <2>4. Written(console)' <=> Written(console)
    BY <2>1, Zenon DEF Written, Shown
  <2>5. KeyInv'
    <3>1. /\ constate' = constate /\ ideal' = ideal /\ VIDEO' = VIDEO
          /\ console' = console /\ put' = put
      BY <2>1
    <3>2. key.pc \notin {"inc", "store"} /\ key'.pc \notin {"inc", "store"}
      BY <2>1, <2>2
    <3> QED
      BY <2>2, <2>3, <2>4, <3>1, <3>2, Zenon DEF KeyInv
  <2>6. key'.pc # "idle"
    BY <2>2
  <2> QED
    BY <1>2, <1>6, <2>1, <2>2, <2>3, <2>5, <2>6
<1>17. CASE KeyResync
  <2>1. /\ key.pc = "resync" /\ constate' = [constate EXCEPT ![console] = key.copy]
        /\ \/ key.kind = "char" /\ KeyEnds(key.done)
           \/ key.kind # "char" /\ key' = [key EXCEPT !.pc = "last"] /\ UNCHANGED complete
        /\ UNCHANGED <<vid_buf, VIDEO, pcur, console, put, ideal>>
    BY <1>17 DEF KeyResync
  <2>2. KeyInv /\ put[console].pc = "idle" /\ key.copy = constate[console] /\ key.pc # "idle"
    BY <1>13, <2>1
  <2>3. constate' = constate
    BY <2>1, <2>2
  <2>4. Written(console)' <=> Written(console)
    BY <2>1, <2>3, Zenon DEF Written, Shown
  <2>5. CASE key.kind = "char"
    <3>1. key'.pc = "idle"
      BY <2>1, <2>5 DEF KeyEnds, NoKey
    <3>2. Written(console) /\ pcur = constate[console].cur
      BY <1>13, <2>1, <2>2, <2>5 DEF KeyInv
    <3> QED
      BY <1>2, <1>6, <2>1, <2>2, <2>3, <2>4, <3>1, <3>2
  <2>6. CASE key.kind # "char"
    <3>1. key'.pc = "last" /\ key'.kind = key.kind /\ key'.old = key.old
      BY <2>1, <2>6 DEF KeyState
    <3>2. KeyInv'
      <4>1. /\ constate' = constate /\ ideal' = ideal /\ VIDEO' = VIDEO
            /\ console' = console /\ put' = put
        BY <2>1, <2>3
      <4>2. key.pc \notin {"inc", "store"} /\ key'.pc \notin {"inc", "store", "resync"}
        BY <2>1, <3>1
      <4> QED
        BY <2>2, <2>4, <3>1, <4>1, <4>2, Zenon DEF KeyInv
    <3>3. key'.pc # "idle"
      BY <3>1
    <3> QED
      BY <1>2, <1>6, <1>13, <2>1, <2>2, <2>3, <3>1, <3>2, <3>3
  <2> QED
    BY <2>5, <2>6
<1>18. CASE KeyRestore
  <2>1. /\ key.pc = "last" /\ key.kind = "back"
        /\ constate' = [constate EXCEPT ![console] = key.old]
        /\ pcur' = key.old.cur /\ key'.pc = "idle"
        /\ UNCHANGED <<vid_buf, VIDEO, console, put, ideal>>
    BY <1>18 DEF KeyRestore, KeyEnds, NoKey
  <2>2. /\ KeyInv /\ put[console].pc = "idle"
        /\ VIDEO = ideal[console].cells /\ key.old.cur = ideal[console].cur
        /\ key.old.stop = constate[console].stop
    BY <1>13, <2>1 DEF KeyInv
  <2>3. constate'[console] = key.old
    BY <2>1
  <2>4. Written(console)'
    BY <2>1, <2>2, <2>3 DEF Written, Shown
  <2>5. constate'[console].stop # NUM_COLS - 1
    BY <1>2, <2>2, <2>3
  <2>6. \A u \in Term \ {console} : constate'[u] = constate[u]
    BY <2>1
  <2> QED
    BY <1>6, <2>1, <2>2, <2>3, <2>4, <2>5, <2>6
<1>19. CASE KeyClear
  <2>1. /\ key.pc = "last" /\ VIDEO' = Blank /\ pcur' = Home
        /\ constate' = [constate EXCEPT ![console].cur = Home]
        /\ ideal' = [ideal EXCEPT ![console] = [cells |-> Blank, cur |-> Home]]
        /\ key'.pc = "idle" /\ UNCHANGED <<vid_buf, console, put>>
    BY <1>19 DEF KeyClear, console_clrsc, KeyEnds, NoKey
  <2>2. put[console].pc = "idle"
    BY <1>13, <2>1
  <2>3. constate'[console].cur = Home /\ constate'[console].stop = constate[console].stop
    BY <2>1 DEF ConState
  <2>4. ideal'[console].cells = Blank /\ ideal'[console].cur = Home
    BY <2>1
  <2>5. Written(console)'
    BY <2>1, <2>3, <2>4 DEF Written, Shown
  <2>6. \A u \in Term \ {console} : constate'[u] = constate[u] /\ ideal'[u] = ideal[u]
    BY <2>1
  <2>7. constate'[console].stop # NUM_COLS - 1
    BY <1>2, <2>3
  <2> QED
    BY <1>6, <2>1, <2>2, <2>3, <2>5, <2>6, <2>7
<1>20. ASSUME NEW t \in Term, PutChar(t) PROVE ScreenInv'
  <2> DEFINE c == constate[t].cur
             at == Here(c)
  <2>1. /\ put[t].pc = "idle" /\ MayUse(t)
        /\ t = console \/ ~AtCorner(c)
        /\ vid_buf' = [vid_buf EXCEPT ![t][at] = "put"]
        /\ VIDEO' = IF t = console THEN [VIDEO EXCEPT ![at] = "put"] ELSE VIDEO
        /\ put' = [put EXCEPT ![t].pc = "inc", ![t].ret = FALSE]
        /\ ideal' = [ideal EXCEPT ![t] = IdealPut(@, "put")]
        /\ UNCHANGED <<constate, pcur, console, key>>
    BY <1>20, Zenon DEF PutChar, CanWrite, OnScreen, Orderly
  <2>2. Shown(t) = ideal[t].cells /\ c = ideal[t].cur /\ (t = console => key.pc = "idle")
    BY <1>4, <2>1
  <2> HIDE DEF c, at
  <2>3. Shown(t)' = [Shown(t) EXCEPT ![at] = "put"]
    BY <2>1 DEF Shown
  <2>4. put'[t].pc = "inc" /\ put'[t].ret = FALSE
    BY <2>1 DEF Progress
  <2>5. /\ ideal'[t].cells = Ahead(Shown(t)', c, FALSE)
        /\ ideal'[t].cur = Moved(c, FALSE)
    <3>1. ideal'[t] = IdealPut(ideal[t], "put") /\ ideal[t] \in Ideal
      BY <1>1, <2>1
    <3>2. Shown(t)' = [ideal[t].cells EXCEPT ![Here(ideal[t].cur)] = "put"]
      BY <2>2, <2>3 DEF at
    <3>3. LET v == [ideal[t].cells EXCEPT ![Here(ideal[t].cur)] = "put"]
          IN /\ IdealPut(ideal[t], "put").cells = Ahead(v, ideal[t].cur, FALSE)
             /\ IdealPut(ideal[t], "put").cur = Moved(ideal[t].cur, FALSE)
      BY <3>1, PutOwes
    <3> QED
      BY <2>2, <3>1, <3>2, <3>3, Zenon
  <2>6. constate'[t].cur = c /\ ~Scrolls(c, FALSE) = ~AtCorner(c)
    BY <2>1, Zenon DEF c, Scrolls
  <2>7. TermInv(t)'
    <3>1. Owed(t, put[t].ret)'
      BY <2>4, <2>5, <2>6, Zenon DEF Owed
    <3>2. t = console' \/ ~Scrolls(constate[t].cur, put[t].ret)'
      BY <2>1, <2>4, <2>6, Zenon DEF Scrolls, AtCorner
    <3> QED
      BY <1>9, <2>4, <3>1, <3>2
  <2>8. /\ key.pc = "idle" \/ key.kind # "back" => pcur' = constate'[console].cur
        /\ constate'[t].stop # NUM_COLS - 1
        /\ t = console \/ VIDEO' = VIDEO
    BY <1>2, <2>1
  <2> QED
    BY <1>7, <2>1, <2>2, <2>7, <2>8
<1>21. ASSUME NEW t \in Term, PutNewline(t) PROVE ScreenInv'
  <2> DEFINE c == constate[t].cur
  <2>1. /\ put[t].pc = "idle" /\ MayUse(t)
        /\ t = console \/ ~AtBottom(c)
        /\ put' = [put EXCEPT ![t].pc = "inc", ![t].ret = TRUE]
        /\ ideal' = [ideal EXCEPT ![t] = IdealMove(@, TRUE)]
        /\ UNCHANGED <<vid_buf, constate, VIDEO, pcur, console, key>>
    BY <1>21, Zenon DEF PutNewline, CanWrite, Orderly
  <2>2. Shown(t) = ideal[t].cells /\ c = ideal[t].cur /\ (t = console => key.pc = "idle")
    BY <1>4, <2>1
  <2> HIDE DEF c
  <2>3. Shown(t)' = Shown(t)
    BY <2>1 DEF Shown
  <2>4. put'[t].pc = "inc" /\ put'[t].ret = TRUE
    BY <2>1 DEF Progress
  <2>5. /\ ideal'[t].cells = Ahead(Shown(t)', c, TRUE)
        /\ ideal'[t].cur = Moved(c, TRUE)
    BY <2>1, <2>2, <2>3, LineOwes
  <2>6. constate'[t].cur = c
    BY <2>1 DEF c
  <2>7. TermInv(t)'
    <3>1. Owed(t, put[t].ret)'
      BY <2>4, <2>5, <2>6, Zenon DEF Owed
    <3>2. t = console' \/ ~Scrolls(constate[t].cur, put[t].ret)'
      BY <2>1, <2>4, <2>6, Zenon DEF Scrolls, AtBottom
    <3> QED
      BY <1>9, <2>4, <3>1, <3>2
  <2>8. /\ key.pc = "idle" \/ key.kind # "back" => pcur' = constate'[console].cur
        /\ constate'[t].stop # NUM_COLS - 1
    BY <1>2, <2>1
  <2> QED
    BY <1>7, <2>1, <2>2, <2>7, <2>8
<1>22. ASSUME NEW t \in Term, IncCopy(t) PROVE ScreenInv'
  <2>1. /\ put[t].pc = "inc"
        /\ put' = [put EXCEPT ![t].pc = "store", ![t].copy = constate[t].cur]
        /\ UNCHANGED <<vid_buf, constate, VIDEO, pcur, console, key, ideal>>
    BY <1>22, Zenon DEF IncCopy
  <2>2. /\ put'[t].pc = "store" /\ put'[t].copy = constate[t].cur
        /\ put'[t].ret = put[t].ret
    BY <2>1 DEF Progress
  <2>3. \A ret : Owed(t, ret)' <=> Owed(t, ret)
    BY <2>1, Zenon DEF Owed, Shown
  <2>4. TermInv(t)'
    <3>1. "store" \notin {"idle", "test", "show"}
      OBVIOUS
    <3>2. /\ Owed(t, put[t].ret)
          /\ t = console \/ ~Scrolls(constate[t].cur, put[t].ret)
      BY <1>2, <2>1 DEF TermInv
    <3>3. constate' = constate /\ console' = console
      BY <2>1
    <3>4. Owed(t, put[t].ret)'
      BY <2>2, <2>3, <3>2, <3>3, Zenon DEF Owed
    <3>5. t = console' \/ ~Scrolls(constate'[t].cur, put'[t].ret)
      BY <2>2, <3>2, <3>3
    <3> QED
      BY <2>2, <3>1, <3>3, <3>4, <3>5, Zenon DEF TermInv, Scrolls, AtBottom, AtCorner
  <2>5. /\ key.pc = "idle" \/ key.kind # "back" => pcur' = constate'[console].cur
        /\ constate'[t].stop # NUM_COLS - 1
        /\ \A u \in Term \ {t} : put'[u] = put[u]
        /\ t = console => key.pc = "idle"
    BY <1>2, <1>5, <2>1
  <2> QED
    BY <1>7, <2>1, <2>4, <2>5
<1>23. ASSUME NEW t \in Term, IncStore(t) PROVE ScreenInv'
  <2> DEFINE c == put[t].copy
             s == Scrolls(c, put[t].ret)
             m == Moved(c, put[t].ret)
  <2>1. /\ put[t].pc = "store"
        /\ constate' = [constate EXCEPT ![t].cur = m]
        /\ vid_buf' = IF s THEN [vid_buf EXCEPT ![t] = ScrollBuf(@)] ELSE vid_buf
        /\ VIDEO' = IF s /\ t = console THEN ScrollVideo(VIDEO) ELSE VIDEO
        /\ pcur' = IF t = console THEN m ELSE pcur
        /\ put' = [put EXCEPT ![t] = IF put[t].ret THEN Idle ELSE [Idle EXCEPT !.pc = "test"]]
        /\ UNCHANGED <<console, key, ideal>>
    BY <1>23, Zenon DEF IncStore, OnScreen
  <2>2. /\ c = constate[t].cur /\ (t = console \/ ~s)
        /\ ideal[t].cells = Ahead(Shown(t), c, put[t].ret) /\ ideal[t].cur = m
    <3>1. /\ put[t].copy = constate[t].cur /\ Owed(t, put[t].ret)
          /\ t = console \/ ~Scrolls(constate[t].cur, put[t].ret)
      BY <1>2, <2>1 DEF TermInv
    <3> QED
      BY <3>1, Zenon DEF Owed
  <2>3. Ahead(Shown(t), c, put[t].ret) = IF s THEN ScrollVideo(Shown(t)) ELSE Shown(t)
    BY Zenon DEF Ahead
  <2>4. t = console => key.pc = "idle"
    BY <1>5, <2>1
  <2> HIDE DEF c, s, m
  <2>5. Shown(t)' = ideal'[t].cells
    BY <2>1, <2>2, <2>3 DEF Shown
  <2>6. constate'[t].cur = m /\ constate'[t].stop = constate[t].stop
    BY <2>1 DEF ConState
  <2>7. put'[t].pc \in {"idle", "test"}
    BY <2>1 DEF Idle
  <2>8. TermInv(t)'
    <3>1. Written(t)'
      BY <2>1, <2>2, <2>5, <2>6 DEF Written
    <3> QED
      BY <1>8, <2>7, <3>1
  <2>9. \A u \in Term \ {t} :
          /\ vid_buf'[u] = vid_buf[u] /\ constate'[u] = constate[u]
          /\ put'[u] = put[u] /\ ideal'[u] = ideal[u]
    BY <2>1
  <2>10. /\ key.pc = "idle" \/ key.kind # "back" => pcur' = constate'[console].cur
         /\ constate'[t].stop # NUM_COLS - 1
         /\ t = console \/ VIDEO' = VIDEO
    BY <1>2, <2>1, <2>6
  <2> QED
    BY <1>7, <2>1, <2>4, <2>8, <2>9, <2>10
\* A step of a process that changes neither its cursor nor the cells.
<1>24. ASSUME NEW t \in Term, UNCHANGED <<vid_buf, VIDEO, console, key, ideal>>,
              t = console => key.pc = "idle",
              Shown(t) = ideal[t].cells, constate[t].cur = ideal[t].cur,
              \A u \in Term : constate'[u].cur = constate[u].cur,
              \A u \in Term \ {t} : constate'[u] = constate[u] /\ put'[u] = put[u],
              put'[t].pc \in {"idle", "test"} \/ (put'[t].pc = "show" /\ t = console'),
              key.pc = "idle" \/ key.kind # "back" => pcur' = constate[console].cur,
              constate'[t].stop # NUM_COLS - 1
       PROVE  ScreenInv'
  <2>1. Shown(t)' = Shown(t)
    BY <1>24 DEF Shown
  <2>2. Written(t)'
    BY <1>24, <2>1 DEF Written
  <2>3. TermInv(t)'
    BY <1>8, <1>24, <2>2
  <2> QED
    BY <1>7, <1>24, <2>3
<1>25. ASSUME NEW t \in Term, PutTest(t) PROVE ScreenInv'
  <2>1. /\ put[t].pc = "test"
        /\ put' = [put EXCEPT ![t].pc = IF t = console THEN "show" ELSE "idle"]
        /\ UNCHANGED <<vid_buf, constate, VIDEO, pcur, console, key, ideal>>
    BY <1>25 DEF PutTest, OnScreen
  <2>2. put'[t].pc = IF t = console THEN "show" ELSE "idle"
    BY <2>1 DEF Progress
  <2>3. Written(t) /\ (t = console => key.pc = "idle")
    BY <1>2, <1>5, <2>1 DEF TermInv
  <2> QED
    BY <1>2, <1>24, <2>1, <2>2, <2>3 DEF Written
<1>26. ASSUME NEW t \in Term, PutShow(t) PROVE ScreenInv'
  <2>1. /\ put[t].pc = "show" /\ pcur' = constate[t].cur
        /\ put' = [put EXCEPT ![t] = Idle]
        /\ UNCHANGED <<vid_buf, constate, VIDEO, console, key, ideal>>
    BY <1>26 DEF PutShow
  <2>2. put'[t].pc = "idle"
    BY <2>1 DEF Idle
  <2>3. Written(t) /\ t = console /\ key.pc = "idle"
    BY <1>2, <1>5, <2>1 DEF TermInv
  <2> QED
    BY <1>2, <1>24, <2>1, <2>2, <2>3 DEF Written
<1>27. ASSUME NEW t \in Term, ReadStart(t) PROVE ScreenInv'
  <2>1. /\ put[t].pc = "idle" /\ MayUse(t) /\ constate[t].cur.x \in PromptCols
        /\ constate' = [constate EXCEPT ![t].stop = constate[t].cur.x]
        /\ UNCHANGED <<vid_buf, VIDEO, pcur, console, put, key, ideal>>
    BY <1>27 DEF ReadStart, CanWrite
  <2>2. /\ \A u \in Term : constate'[u].cur = constate[u].cur
        /\ constate'[t].stop = constate[t].cur.x
        /\ \A u \in Term \ {t} : constate'[u] = constate[u]
    BY <2>1 DEF ConState
  <2>3. constate'[t].stop # NUM_COLS - 1
    BY <2>1, <2>2 DEF Orderly
  <2> QED
    BY <1>2, <1>4, <1>24, <2>1, <2>2, <2>3
<1>28. ASSUME NEW t \in Term, ReadEnd(t) PROVE ScreenInv'
  <2>1. /\ from[t] # NoRead /\ MayUse(t)
        /\ constate' = [constate EXCEPT ![t].stop = 0]
        /\ UNCHANGED <<vid_buf, VIDEO, pcur, console, put, key, ideal>>
    BY <1>28 DEF ReadEnd
  <2>2. /\ \A u \in Term : constate'[u].cur = constate[u].cur
        /\ constate'[t].stop = 0 /\ 0 # NUM_COLS - 1
        /\ \A u \in Term \ {t} : constate'[u] = constate[u]
    BY <2>1, Sizes DEF ConState
  <2>3. TermInv(t)'
    <3>1. Shown(t)' = Shown(t)
      BY <2>1 DEF Shown
    <3> QED
      BY <1>2, <2>1, <2>2, <3>1, Untouched
  <2>4. t = console => key.pc = "idle"
    BY <2>1 DEF MayUse, Orderly
  <2> QED
    BY <1>2, <1>7, <2>1, <2>2, <2>3, <2>4
<1>29. ASSUME NEW t \in Term, ShellExit(t) PROVE ScreenInv'
  <2>1. /\ t = console /\ put[t].pc = "idle" /\ MayUse(t)
        /\ VIDEO' = Blank /\ pcur' = Home
        /\ constate' = [constate EXCEPT ![console].cur = Home]
        /\ ideal' = [ideal EXCEPT ![t] = [cells |-> Blank, cur |-> Home]]
        /\ UNCHANGED <<vid_buf, console, put, key>>
    BY <1>29, Zenon DEF ShellExit, console_clrsc, CanWrite, Orderly
  <2>2. constate'[t].cur = Home /\ constate'[t].stop = constate[t].stop
    BY <2>1 DEF ConState
  <2>3. ideal'[t].cells = Blank /\ ideal'[t].cur = Home /\ Shown(t)' = Blank
    BY <2>1 DEF Shown
  <2>4. TermInv(t)'
    <3>1. Written(t)'
      BY <2>2, <2>3 DEF Written
    <3> QED
      BY <1>8, <2>1, <3>1
  <2>5. /\ pcur' = constate'[console].cur /\ constate'[t].stop # NUM_COLS - 1
        /\ key.pc = "idle"
    BY <1>2, <1>4, <2>1, <2>2
  <2> QED
    BY <1>7, <2>1, <2>4, <2>5
<1>30. ASSUME NEW t \in Term, vterm_swap_console(t) PROVE ScreenInv'
  <2>1. /\ t # console /\ KeyMayCome
        /\ vid_buf' = [vid_buf EXCEPT ![console] = VIDEO]
        /\ console' = t /\ VIDEO' = vid_buf[t] /\ pcur' = constate[t].cur
        /\ UNCHANGED <<constate, put, key, ideal>>
    BY <1>30, Zenon DEF vterm_swap_console, SaveScreen
  <2>2. ASSUME NEW u \in Term PROVE Shown(u)' = Shown(u)
    BY <2>1 DEF Shown
  <2>3. key.pc = "idle" /\ put[console].pc = "idle"
    BY <1>3, <2>1
  <2>4. ASSUME NEW u \in Term PROVE TermInv(u)'
    <3>1. CASE u = console
      <4>1. Written(u)
        BY <1>2, <2>3, <3>1 DEF TermInv
      <4>2. Written(u)' /\ put'[u].pc = "idle"
        BY <2>1, <2>2, <2>3, <3>1, <4>1 DEF Written
      <4> QED
        BY <1>8, <4>2
    <3>2. CASE u # console
      <4>1. /\ put'[u] = put[u] /\ constate' = constate /\ ideal' = ideal /\ key' = key
            /\ put[u].pc # "show" /\ TermInv(u)
        BY <1>2, <2>1, <3>2 DEF TermInv
      <4>2. /\ Written(u)' <=> Written(u)
            /\ \A ret : Owed(u, ret)' <=> Owed(u, ret)
        BY <2>2, <4>1, Zenon DEF Written, Owed
      <4>3. /\ put[u].pc = "idle" => Written(u)
            /\ put[u].pc \in {"inc", "store"} => ~Scrolls(constate[u].cur, put[u].ret)
        BY <3>2, <4>1, Zenon DEF TermInv
      <4> QED
        BY <4>1, <4>2, <4>3, Zenon DEF TermInv
    <3> QED
      BY <3>1, <3>2
  <2>5. /\ pcur' = constate'[console'].cur /\ key'.pc = "idle"
        /\ \A u \in Term : constate'[u].stop # NUM_COLS - 1
    BY <1>2, <2>1, <2>3
  <2> QED
    BY <2>4, <2>5 DEF ScreenInv
<1>31. CASE UNCHANGED vars
  <2>1. /\ vid_buf' = vid_buf /\ constate' = constate /\ VIDEO' = VIDEO /\ pcur' = pcur
        /\ console' = console /\ put' = put /\ key' = key /\ ideal' = ideal
    BY <1>31 DEF vars
  <2>2. \A t \in Term : TermInv(t)'
    BY <1>2, <2>1, Untouched DEF Shown
  <2>3. KeyInv' <=> KeyInv
    BY <2>1, Zenon DEF KeyInv, Written, Owed, Shown
  <2> QED
    BY <1>2, <2>1, <2>2, <2>3 DEF ScreenInv
<1> QED
  BY <1>10, <1>11, <1>12, <1>14, <1>15, <1>16, <1>17, <1>18, <1>19, <1>20, <1>21, <1>22,
     <1>23, <1>25, <1>26, <1>27, <1>28, <1>29, <1>30, <1>31 DEF Next

-----------------------------------------------------------------------------
(* The start of the line that is read *)

\* Lines are read from a column in which the stop means something, no shell
\* clears a screen that is not its own, and a key does not meet the program of
\* its terminal.
Prompted == 0 \notin PromptCols /\ ~BackgroundExit /\ ~KeysMeetOutput

\* Cursor c has not gone back from column stop of row r.
After(c, r, stop) == c.y > r \/ (c.y = r /\ c.x >= stop)

\* A line that began at cell f: it began at the stop's column of a row from which
\* the cursor has not gone back, or in what is no longer on the screen.
Line(f, s) ==
  \/ f \in {NoRead, 0}
  \/ /\ s.stop # 0
     /\ \E r \in Row : f = r * NUM_COLS + s.stop /\ After(s.cur, r, s.stop)

\* That is so of the console state of every terminal, and of the copies that the
\* keyboard interrupt may store back.
LineInv ==
  /\ \A t \in Term : from[t] # NoRead => put[t].pc = "idle"
  /\ \A t \in Term : Line(from[t], constate[t])
  /\ key.pc # "idle" => put[console].pc = "idle"
  /\ key.pc \in {"store", "resync"} => key.copy = constate[console]
  /\ key.pc # "idle" /\ key.kind = "back" =>
       /\ Line(from[console], key.old)
       /\ key.pc \in {"inc", "store"} => key.old = constate[console]

\* A cursor behind the prompt stays behind it, by a key and by a backspace.
LEMMA KeepsAfter ==
  ASSUME NEW c \in Cursor, NEW r \in Row, NEW stop \in Col, stop # 0,
         After(c, r, stop)
  PROVE  /\ After(Back(c, stop), r, stop)
         /\ \A ret \in BOOLEAN : ~Scrolls(c, ret) => After(Moved(c, ret), r, stop)
         /\ \A d : r # 0 /\ d.y = NUM_ROWS - 1 => After(d, r - 1, stop)
<1>1. /\ c.x \in Nat /\ c.x < NUM_COLS /\ c.y \in Nat /\ c.y < NUM_ROWS
      /\ r \in Nat /\ r < NUM_ROWS /\ stop \in Nat /\ stop < NUM_COLS
      /\ c = [x |-> c.x, y |-> c.y]
  BY Sizes DEF Cursor, Row, Col
<1>2. After(Back(c, stop), r, stop)
  <2>1. CASE c.x = 0 /\ c.y # 0
    BY <1>1, <2>1, Sizes DEF After, Back
  <2>2. CASE ~(c.x = 0 /\ c.y # 0)
    BY <1>1, <2>2, Sizes DEF After, Back
  <2> QED
    BY <2>1, <2>2
<1>3. ASSUME NEW ret \in BOOLEAN, ~Scrolls(c, ret) PROVE After(Moved(c, ret), r, stop)
  <2>1. CASE ~ret /\ c.x + 1 < NUM_COLS
    <3>1. Moved(c, ret).x = c.x + 1 /\ Moved(c, ret).y = c.y
      BY <1>1, <2>1 DEF Moved, Inccur
    <3> QED
      BY <1>1, <3>1 DEF After
  <2>2. CASE ret \/ ~(c.x + 1 < NUM_COLS)
    <3>1. ~AtBottom(c)
      BY <1>1, <1>3, <2>2, Sizes DEF Scrolls, AtCorner, AtBottom
    <3>2. Moved(c, ret).y = c.y + 1
      <4>1. CASE ret
        BY <1>1, <3>1, <4>1, Sizes DEF Moved, LineReturn, Inccur, AtBottom
      <4>2. CASE ~ret
        BY <2>2, <3>1, <4>2 DEF Moved, Inccur
      <4> QED
        BY <4>1, <4>2
    <3>3. c.y >= r
      BY <1>1 DEF After
    <3>4. Moved(c, ret).y > r
      BY <1>1, <3>2, <3>3
    <3> QED
      BY <3>4, Zenon DEF After
  <2> QED
    BY <2>1, <2>2
<1>4. ASSUME NEW d, r # 0, d.y = NUM_ROWS - 1 PROVE After(d, r - 1, stop)
  <2>1. d.y > r - 1
    BY <1>1, <1>4, Sizes
  <2> QED
    BY <2>1, Zenon DEF After
<1> QED
  BY <1>2, <1>3, <1>4

\* A move that scrolls ends in the last row, from the last row.
LEMMA ScrollsAtBottom ==
  ASSUME NEW c \in Cursor, NEW ret \in BOOLEAN, Scrolls(c, ret)
  PROVE  c.y = NUM_ROWS - 1 /\ Moved(c, ret).y = NUM_ROWS - 1
<1>1. /\ c.x \in Nat /\ c.x < NUM_COLS /\ c.y \in Nat /\ c.y < NUM_ROWS
      /\ c = [x |-> c.x, y |-> c.y]
  BY Sizes DEF Cursor, Row, Col
<1>2. c.y = NUM_ROWS - 1
  BY <1>1, Sizes DEF Scrolls, AtCorner, AtBottom
<1>3. CASE ret
  BY <1>1, <1>2, <1>3, Sizes DEF Moved, LineReturn, Inccur, AtBottom
<1>4. CASE ~ret
  <2>1. Moved(c, ret) = Inccur(c)
    BY <1>4, Zenon DEF Moved
  <2>2. ~(c.x + 1 < NUM_COLS)
    BY <1>1, <1>4, Sizes DEF Scrolls, AtCorner
  <2> QED
    BY <1>1, <1>2, <2>1, <2>2, Sizes DEF Inccur, AtBottom
<1> QED
  BY <1>2, <1>3, <1>4

\* The start of the line after a scroll.
LEMMA StartScrolls ==
  ASSUME NEW r \in Row, NEW stop \in Col
  PROVE  LET n == r * NUM_COLS + stop
         IN /\ n < NUM_COLS <=> r = 0
            /\ r # 0 => n - NUM_COLS = (r - 1) * NUM_COLS + stop /\ r - 1 \in Row
<1>1. r \in Nat /\ stop \in Nat /\ stop < NUM_COLS /\ r < NUM_ROWS
  BY Sizes DEF Row, Col
<1>2. CASE r = 0
  BY <1>1, <1>2, Sizes
<1>3. CASE r # 0
  <2>1. (r - 1) * NUM_COLS = r * NUM_COLS - NUM_COLS
    BY <1>1, Sizes
  <2>2. (r - 1) * NUM_COLS >= 0
    BY <1>1, <1>3, Sizes
  <2> QED
    BY <1>1, <1>3, <2>1, <2>2, Sizes DEF Row
<1> QED
  BY <1>2, <1>3

\* A cursor after the start of the line has a cell number that is not before it.
LEMMA AfterIsLater ==
  ASSUME NEW c \in Cursor, NEW r \in Row, NEW stop \in Col, After(c, r, stop)
  PROVE  c.y * NUM_COLS + c.x >= r * NUM_COLS + stop
<1>1. /\ c.x \in Nat /\ c.y \in Nat /\ r \in Nat /\ stop \in Nat
      /\ stop < NUM_COLS
  BY Sizes DEF Cursor, Row, Col
<1>2. CASE c.y = r
  BY <1>1, <1>2, Sizes DEF After
<1>3. CASE c.y > r
  <2>1. c.y * NUM_COLS >= (r + 1) * NUM_COLS
    BY <1>1, <1>3, Sizes
  <2>2. (r + 1) * NUM_COLS = r * NUM_COLS + NUM_COLS
    BY <1>1, Sizes
  <2>3. c.y * NUM_COLS \in Nat /\ r * NUM_COLS \in Nat
    BY <1>1, Sizes
  <2> QED
    BY <1>1, <2>1, <2>2, <2>3, Sizes
<1> QED
  BY <1>1, <1>2, <1>3 DEF After

\* Where the line begins after a move of the cursor.
Up(f, s) == IF s /\ f # NoRead THEN IF f < NUM_COLS THEN 0 ELSE f - NUM_COLS ELSE f

\* FromAfter changes nothing else.
LEMMA FromUp ==
  ASSUME NEW t \in Term, NEW s \in BOOLEAN, from \in [Term -> Start]
  PROVE  /\ FromAfter(t, s)[t] = Up(from[t], s)
         /\ \A u \in Term \ {t} : FromAfter(t, s)[u] = from[u]
BY DEF FromAfter, Up

\* A line that is well begun stays so, when the cursor moves on and when the
\* screen scrolls under a cursor that does not.
LEMMA LineMoves ==
  ASSUME NEW f \in Start, NEW s \in ConState, NEW ret \in BOOLEAN, Line(f, s)
  PROVE  /\ Line(Up(f, Scrolls(s.cur, ret)), [s EXCEPT !.cur = Moved(s.cur, ret)])
         /\ Line(Up(f, Scrolls(s.cur, ret)), s)
<1> DEFINE m == [s EXCEPT !.cur = Moved(s.cur, ret)]
           k == Scrolls(s.cur, ret)
<1>1. m.stop = s.stop /\ m.cur = Moved(s.cur, ret)
  BY DEF ConState
<1>2. s.cur \in Cursor /\ s.stop \in Col /\ k \in BOOLEAN
  BY Truths DEF ConState
<1>3. CASE f \in {NoRead, 0}
  <2>1. Up(f, k) \in {NoRead, 0}
    BY <1>2, <1>3, Sizes DEF Up, NoRead
  <2> QED
    BY <2>1, Zenon DEF Line
<1>4. CASE f \notin {NoRead, 0}
  <2>1. PICK r \in Row : f = r * NUM_COLS + s.stop /\ After(s.cur, r, s.stop)
    BY <1>4 DEF Line
  <2>2. s.stop # 0
    BY <1>4 DEF Line
  <2>3. CASE ~k
    <3>1. Up(f, k) = f /\ After(m.cur, r, m.stop)
      BY <1>1, <1>2, <2>1, <2>2, <2>3, KeepsAfter DEF Up
    <3> QED
      BY <1>1, <2>1, <2>2, <3>1, Zenon DEF Line
  <2>4. CASE k /\ r = 0
    <3>1. f < NUM_COLS
      BY <1>2, <2>1, <2>4, StartScrolls
    <3>2. Up(f, k) = 0
      BY <1>4, <2>4, <3>1 DEF Up
    <3> QED
      BY <3>2 DEF Line
  <2>5. CASE k /\ r # 0
    <3>1. /\ ~(f < NUM_COLS) /\ r - 1 \in Row
          /\ f - NUM_COLS = (r - 1) * NUM_COLS + s.stop
      BY <1>2, <2>1, <2>5, StartScrolls
    <3>2. Up(f, k) = (r - 1) * NUM_COLS + s.stop
      BY <1>4, <2>5, <3>1 DEF Up
    <3>3. s.cur.y = NUM_ROWS - 1 /\ m.cur.y = NUM_ROWS - 1
      BY <1>1, <1>2, <2>5, ScrollsAtBottom
    <3>4. After(s.cur, r - 1, s.stop) /\ After(m.cur, r - 1, s.stop)
      BY <1>2, <2>1, <2>2, <2>5, <3>3, KeepsAfter
    <3> QED
      BY <1>1, <2>2, <3>1, <3>2, <3>4, Zenon DEF Line
  <2> QED
    BY <1>2, <2>3, <2>4, <2>5
<1> QED
  BY <1>3, <1>4

\* It stays so when the cursor goes back.
LEMMA LineBacks ==
  ASSUME NEW f \in Start, NEW s \in ConState, Line(f, s)
  PROVE  Line(f, [s EXCEPT !.cur = Back(s.cur, s.stop)])
<1> DEFINE m == [s EXCEPT !.cur = Back(s.cur, s.stop)]
<1>1. m.stop = s.stop /\ m.cur = Back(s.cur, s.stop) /\ s.cur \in Cursor /\ s.stop \in Col
  BY DEF ConState
<1>2. CASE f \in {NoRead, 0}
  BY <1>2, Zenon DEF Line
<1>3. CASE f \notin {NoRead, 0}
  <2>1. PICK r \in Row : f = r * NUM_COLS + s.stop /\ After(s.cur, r, s.stop)
    BY <1>3 DEF Line
  <2>2. s.stop # 0
    BY <1>3 DEF Line
  <2>3. After(m.cur, r, m.stop)
    BY <1>1, <2>1, <2>2, KeepsAfter
  <2> QED
    BY <1>1, <2>1, <2>2, <2>3, Zenon DEF Line
<1> QED
  BY <1>2, <1>3

\* The invariant of the line being read is inductive.
LEMMA LineStep ==
  ASSUME Prompted, TypeInv, LineInv, [Next]_vars
  PROVE  LineInv'
<1> USE DEF TypeInv
<1>1. /\ \A t \in Term : /\ constate[t] \in ConState /\ constate[t].cur \in Cursor
                         /\ constate[t].stop \in Col /\ from[t] \in Start
      /\ key.copy \in ConState /\ key.old \in ConState
  BY DEF ConState, KeyState
<1>2. /\ \A t \in Term : from[t] # NoRead => put[t].pc = "idle"
      /\ \A t \in Term : Line(from[t], constate[t])
      /\ key.pc # "idle" => put[console].pc = "idle"
      /\ key.pc \in {"store", "resync"} => key.copy = constate[console]
      /\ key.pc # "idle" /\ key.kind = "back" =>
           /\ Line(from[console], key.old)
           /\ key.pc \in {"inc", "store"} => key.old = constate[console]
  BY DEF LineInv
<1>3. KeyMayCome => key.pc = "idle" /\ put[console].pc = "idle"
  BY DEF KeyMayCome, Prompted
<1>4. \A s : Line(NoRead, s) /\ Line(0, s)
  BY DEF Line
\* A step of the keyboard interrupt.
<1>5. ASSUME console' = console, put' = put, put[console].pc = "idle",
             \A u \in Term \ {console} : constate'[u] = constate[u] /\ from'[u] = from[u],
             Line(from'[console], constate'[console]),
             key'.pc \in {"store", "resync"} => key'.copy = constate'[console],
             key'.pc # "idle" /\ key'.kind = "back" =>
               /\ Line(from'[console], key'.old)
               /\ key'.pc \in {"inc", "store"} => key'.old = constate'[console]
      PROVE  LineInv'
  <2>1. \A t \in Term : Line(from'[t], constate'[t])
    BY <1>2, <1>5
  <2>2. \A t \in Term : from'[t] # NoRead => put'[t].pc = "idle"
    BY <1>2, <1>5
  <2> QED
    BY <1>5, <2>1, <2>2 DEF LineInv, Line, After
\* A step of one process.
<1>6. ASSUME NEW t \in Term, console' = console, key' = key,
             t = console => key.pc = "idle",
             \A u \in Term \ {t} :
               constate'[u] = constate[u] /\ from'[u] = from[u] /\ put'[u] = put[u],
             from'[t] # NoRead => put'[t].pc = "idle",
             Line(from'[t], constate'[t])
      PROVE  LineInv'
  <2>1. \A u \in Term : Line(from'[u], constate'[u])
    BY <1>2, <1>6
  <2>2. \A u \in Term : from'[u] # NoRead => put'[u].pc = "idle"
    BY <1>2, <1>6
  <2>3. key.pc # "idle" => /\ constate'[console] = constate[console]
                           /\ from'[console] = from[console] /\ put'[console] = put[console]
    BY <1>6
  <2> QED
    BY <1>2, <1>6, <2>1, <2>2, <2>3 DEF LineInv, Line, After
\* A process that writes does not read, and is not in the middle of a key.
<1>7. ASSUME NEW t \in Term, put[t].pc # "idle"
      PROVE  from[t] = NoRead /\ (t = console => key.pc = "idle")
  BY <1>2, <1>7
<1>8. ASSUME NEW t \in Term, MayUse(t)
      PROVE  t = console => key.pc = "idle"
  BY <1>8 DEF MayUse, Prompted
<1>9. CASE KeyChar
  <2>1. PICK kind \in {"char", "clear"}, done \in {complete[console], TRUE} :
          KeyAt("inc", kind, NoState, NoState, done)
    BY <1>9 DEF KeyChar
  <2>2. key'.pc = "inc" /\ key'.kind \in {"char", "clear"}
    BY <2>1 DEF KeyAt
  <2>3. KeyMayCome /\ UNCHANGED <<constate, console, put, from>>
    BY <1>9 DEF KeyChar
  <2> QED
    BY <1>2, <1>3, <1>5, <2>2, <2>3
<1>10. CASE KeyBack
  <2> DEFINE s == constate[console]
             old == [s EXCEPT !.cur = Back(s.cur, s.stop)]
  <2>1. /\ KeyMayCome /\ constate' = [constate EXCEPT ![console] = old]
        /\ KeyAt("inc", "back", NoState, old, complete[console])
        /\ UNCHANGED <<console, put, from>>
    BY <1>10 DEF KeyBack
  <2>2. Line(from[console], old)
    BY <1>1, <1>2, LineBacks
  <2> HIDE DEF old
  <2>3. key'.pc = "inc" /\ key'.old = old /\ constate'[console] = old
    BY <2>1 DEF KeyAt
  <2> QED
    BY <1>3, <1>5, <2>1, <2>2, <2>3
<1>11. CASE KeyEnter
  <2> DEFINE c == constate[console].cur
  <2>1. KeyMayCome /\ UNCHANGED <<console, put, from>>
    BY <1>11 DEF KeyEnter
  <2>2. CASE AtBottom(c)
    <3>1. KeyAt("store", "enter", constate[console], NoState, TRUE) /\ UNCHANGED constate
      BY <1>11, <2>2 DEF KeyEnter
    <3>2. key'.copy = constate[console] /\ key'.kind = "enter"
      BY <3>1, Zenon DEF KeyAt
    <3> QED
      BY <1>2, <1>3, <1>5, <2>1, <3>1, <3>2
  <2>3. CASE ~AtBottom(c)
    <3>1. constate' = [constate EXCEPT ![console].cur = LineReturn(c)] /\ key' = NoKey
      BY <1>11, <2>3 DEF KeyEnter, KeyEnds
    <3>2. key'.pc = "idle"
      BY <3>1 DEF NoKey
    <3>3. Scrolls(c, TRUE) = FALSE /\ Moved(c, TRUE) = LineReturn(c)
      BY <2>3, Truths, Zenon DEF Scrolls, Moved
    <3>4. Line(Up(from[console], FALSE), [constate[console] EXCEPT !.cur = LineReturn(c)])
      BY <1>1, <1>2, <3>3, LineMoves
    <3>5. constate'[console] = [constate[console] EXCEPT !.cur = LineReturn(c)]
      BY <3>1
    <3>6. Up(from[console], FALSE) = from[console]
      BY DEF Up
    <3> QED
      BY <1>3, <1>5, <2>1, <3>1, <3>2, <3>4, <3>5, <3>6
  <2> QED
    BY <2>2, <2>3
<1>12. CASE KeyCopy
  <2>1. /\ key.pc = "inc" /\ key' = [key EXCEPT !.pc = "store", !.copy = constate[console]]
        /\ UNCHANGED <<constate, console, put, from>>
    BY <1>12 DEF KeyCopy
  <2>2. /\ key'.copy = constate[console] /\ key'.old = key.old /\ key'.kind = key.kind
        /\ key'.pc = "store"
    BY <2>1 DEF KeyState
  <2> QED
    BY <1>2, <1>5, <2>1, <2>2
<1>13. CASE KeyStore
  <2> DEFINE ret == key.kind = "enter"
             s == constate[console]
             k == Scrolls(s.cur, ret)
             m == [s EXCEPT !.cur = Moved(s.cur, ret)]
  <2>1. key.pc = "store" /\ key.copy = s
    BY <1>2, <1>13 DEF KeyStore
  <2>2. /\ constate' = [constate EXCEPT ![console] = m]
        /\ from' = FromAfter(console, k) /\ UNCHANGED <<console, put>>
    BY <1>13, <2>1, Zenon DEF KeyStore
  <2>3. \/ ret /\ key' = NoKey
        \/ ~ret /\ key' = [key EXCEPT !.pc = "show"]
    BY <1>13, Zenon DEF KeyStore, KeyEnds
  <2>4. /\ k \in BOOLEAN /\ ret \in BOOLEAN
        /\ Line(Up(from[console], k), m) /\ Line(Up(from[console], k), s)
    BY <1>1, <1>2, LineMoves, Truths
  <2> HIDE DEF m, k, s
  <2>5. constate'[console] = m /\ from'[console] = Up(from[console], k)
    BY <2>2, <2>4, FromUp
  <2>6. \A u \in Term \ {console} : constate'[u] = constate[u] /\ from'[u] = from[u]
    BY <2>2, <2>4, FromUp
  <2>7. key'.pc # "idle" => /\ key'.pc = "show" /\ key'.kind = key.kind /\ key'.old = key.old
    BY <2>3 DEF NoKey, KeyState
  <2>8. key.kind = "back" => key.old = s
    BY <1>2, <2>1 DEF s
  <2> QED
    BY <1>2, <1>5, <2>1, <2>2, <2>4, <2>5, <2>6, <2>7, <2>8
<1>14. CASE KeyShow
  <2>1. /\ key.pc = "show" /\ key' = [key EXCEPT !.pc = "resync", !.copy = constate[console]]
        /\ UNCHANGED <<constate, console, put, from>>
    BY <1>14 DEF KeyShow
  <2>2. /\ key'.copy = constate[console] /\ key'.old = key.old /\ key'.kind = key.kind
        /\ key'.pc = "resync"
    BY <2>1 DEF KeyState
  <2> QED
    BY <1>2, <1>5, <2>1, <2>2
<1>15. CASE KeyResync
  <2>1. /\ key.pc = "resync" /\ constate' = [constate EXCEPT ![console] = key.copy]
        /\ key' = NoKey \/ key' = [key EXCEPT !.pc = "last"]
        /\ UNCHANGED <<console, put, from>>
    BY <1>15 DEF KeyResync, KeyEnds
  <2>2. constate' = constate
    BY <1>2, <2>1
  <2>3. key'.pc = "idle" \/ (key'.pc = "last" /\ key'.old = key.old /\ key'.kind = key.kind)
    BY <2>1 DEF NoKey, KeyState
  <2> QED
    BY <1>2, <1>5, <2>1, <2>2, <2>3
<1>16. CASE KeyRestore
  <2>1. /\ key.pc = "last" /\ key.kind = "back" /\ key'.pc = "idle"
        /\ constate' = [constate EXCEPT ![console] = key.old]
        /\ UNCHANGED <<console, put, from>>
    BY <1>16 DEF KeyRestore, KeyEnds, NoKey
  <2>2. Line(from'[console], constate'[console])
    BY <1>2, <2>1
  <2> QED
    BY <1>2, <1>5, <2>1, <2>2
<1>17. CASE KeyClear
  <2>1. /\ key.pc = "last" /\ key'.pc = "idle" /\ UNCHANGED <<console, put>>
        /\ \A u \in Term \ {console} : constate'[u] = constate[u] /\ from'[u] = from[u]
        /\ from'[console] \in {NoRead, 0}
    BY <1>17 DEF KeyClear, console_clrsc, KeyEnds, NoKey
  <2> QED
    BY <1>2, <1>4, <1>5, <2>1
<1>18. ASSUME NEW t \in Term, PutChar(t) \/ PutNewline(t) PROVE LineInv'
  <2>1. /\ from[t] = NoRead /\ MayUse(t) /\ UNCHANGED <<constate, from, console, key>>
        /\ \A u \in Term \ {t} : put'[u] = put[u]
    BY <1>18 DEF PutChar, PutNewline, CanWrite
  <2> QED
    BY <1>2, <1>6, <1>8, <2>1
<1>19. ASSUME NEW t \in Term, IncCopy(t) \/ PutTest(t) \/ PutShow(t) PROVE LineInv'
  <2>1. /\ put[t].pc # "idle" /\ UNCHANGED <<constate, from, console, key>>
        /\ \A u \in Term \ {t} : put'[u] = put[u]
    BY <1>19 DEF IncCopy, PutTest, PutShow
  <2> QED
    BY <1>2, <1>6, <1>7, <2>1
<1>20. ASSUME NEW t \in Term, IncStore(t) PROVE LineInv'
  <2>1. put[t].pc # "idle" /\ UNCHANGED <<console, key>>
    BY <1>20 DEF IncStore
  <2>2. from[t] = NoRead /\ (t = console => key.pc = "idle")
    BY <1>7, <2>1
  <2>3. from' = from /\ \A u \in Term \ {t} : constate'[u] = constate[u] /\ put'[u] = put[u]
    BY <1>20, <2>2 DEF IncStore, FromAfter
  <2> QED
    BY <1>4, <1>6, <2>1, <2>2, <2>3
<1>21. ASSUME NEW t \in Term, ReadStart(t) PROVE LineInv'
  <2> DEFINE c == constate[t].cur
  <2>1. /\ put[t].pc = "idle" /\ c.x \in PromptCols /\ MayUse(t)
        /\ constate' = [constate EXCEPT ![t].stop = c.x]
        /\ from' = [from EXCEPT ![t] = c.y * NUM_COLS + c.x]
        /\ UNCHANGED <<console, put, key>>
    BY <1>21, Zenon DEF ReadStart, CanWrite
  <2>2. c.x # 0 /\ c.y \in Row /\ c.x \in Col /\ c.y \in Nat /\ c.x \in Nat
    BY <1>1, <2>1 DEF Prompted, Cursor, Row, Col
  <2>3. constate'[t].stop = c.x /\ constate'[t].cur = c
    BY <2>1 DEF ConState
  <2>4. from'[t] = c.y * NUM_COLS + c.x
    BY <2>1
  <2>5. After(c, c.y, c.x)
    BY <2>2 DEF After
  <2>6. Line(from'[t], constate'[t])
    BY <2>2, <2>3, <2>4, <2>5, Zenon DEF Line
  <2>7. \A u \in Term \ {t} : constate'[u] = constate[u] /\ from'[u] = from[u]
    BY <2>1
  <2> QED
    BY <1>6, <1>8, <2>1, <2>6, <2>7
<1>22. ASSUME NEW t \in Term, ReadEnd(t) PROVE LineInv'
  <2>1. /\ from'[t] = NoRead /\ MayUse(t) /\ UNCHANGED <<console, put, key>>
        /\ \A u \in Term \ {t} : constate'[u] = constate[u] /\ from'[u] = from[u]
    BY <1>22 DEF ReadEnd
  <2> QED
    BY <1>4, <1>6, <1>8, <2>1
<1>23. ASSUME NEW t \in Term, ShellExit(t) PROVE LineInv'
  <2>1. /\ t = console /\ from[t] = NoRead /\ MayUse(t)
        /\ UNCHANGED <<from, console, put, key>>
        /\ \A u \in Term \ {t} : constate'[u] = constate[u]
    BY <1>23 DEF ShellExit, console_clrsc, CanWrite, Prompted
  <2> QED
    BY <1>4, <1>6, <1>8, <2>1
<1>24. ASSUME NEW t \in Term, vterm_swap_console(t) PROVE LineInv'
  <2>1. key.pc = "idle" /\ UNCHANGED <<constate, put, key, from>>
    BY <1>3, <1>24 DEF vterm_swap_console
  <2> QED
    BY <1>2, <2>1 DEF LineInv
<1>25. CASE UNCHANGED vars
  BY <1>2, <1>25 DEF vars, LineInv
<1> QED
  BY <1>9, <1>10, <1>11, <1>12, <1>13, <1>14, <1>15, <1>16, <1>17, <1>18, <1>19, <1>20,
     <1>21, <1>22, <1>23, <1>24, <1>25 DEF Next

-----------------------------------------------------------------------------
(* Theorems *)

\* TypeInv holds in every state.
LEMMA TypeInvariance == Spec => []TypeInv
BY TypeInit, TypeStep, PTL DEF Spec

\* The screens are well typed: every cursor stays on its screen, and every cell
\* of a line that is read is numbered within it (console_inccur, console_bksp).
THEOREM TypeCorrect == Spec => []TypeOK
BY TypeInvariance, TypeNames, PTL

\* ScreenInv holds of the clear screens.
LEMMA ScreenInit == ASSUME Init PROVE ScreenInv
<1>1. \A t \in Term : TermInv(t)
  <2> TAKE t \in Term
  <2>1. put[t].pc = "idle" /\ "idle" \notin {"inc", "store", "test", "show"}
    BY DEF Init, Idle
  <2>2. Written(t)
    BY DEF Init, Written, Shown, NoState
  <2> QED
    BY <2>1, <2>2, Zenon DEF TermInv
<1>2. 0 # NUM_COLS - 1
  BY Sizes
<1> QED
  BY <1>1, <1>2 DEF Init, ScreenInv, NoKey, NoState

\* Types and screens are right in every state.
LEMMA ScreenInvariance == ASSUME Orderly PROVE Spec => [](TypeInv /\ ScreenInv)
<1>1. Init => ScreenInv
  BY ScreenInit
<1>2. TypeInv /\ ScreenInv /\ [Next]_vars => ScreenInv'
  BY ScreenStep
<1> QED
  BY <1>1, <1>2, TypeInvariance, PTL DEF Spec

\* The terminal on the screen shows exactly what was written to it, and the VGA
\* cursor is at its cursor, whatever mixture of output, keys, swaps and exits has
\* gone before, and whatever the programs of the other terminals do in the
\* middle of a key (console_putchar, console_echo, vterm_swap_console).
THEOREM ScreenIsCorrect == ASSUME Orderly PROVE Spec => []ScreenCorrect
<1>1. TypeInv /\ ScreenInv => ScreenCorrect
  <2> SUFFICES ASSUME TypeInv, ScreenInv PROVE ScreenCorrect
    OBVIOUS
  <2>1. console \in Term /\ TermInv(console) /\ Shown(console) = VIDEO
    BY DEF TypeInv, ScreenInv, Shown
  <2>2. Settled(console) => Written(console)
    BY <2>1 DEF Settled, TermInv
  <2>3. Settled(console) => pcur = constate[console].cur
    BY DEF ScreenInv, Settled
  <2> QED
    BY <2>1, <2>2, <2>3, TypeNames DEF ScreenCorrect, ScreenAsWritten, CursorShown, Written
<1> QED
  BY <1>1, ScreenInvariance, PTL

\* What is written to a terminal off the screen is kept in its buffer, and nothing
\* else is (console_putchar, vterm_swap_console).
THEOREM HiddenIsCorrect == ASSUME Orderly PROVE Spec => []HiddenAsWritten
<1>1. TypeInv /\ ScreenInv => HiddenAsWritten
  <2> SUFFICES ASSUME TypeInv, ScreenInv, NEW t \in Term \ {console}, Settled(t)
               PROVE  vid_buf[t] = ideal[t].cells /\ constate[t].cur = ideal[t].cur
    BY DEF HiddenAsWritten
  <2>1. TermInv(t) /\ Shown(t) = vid_buf[t] /\ put[t].pc = "idle"
    BY DEF ScreenInv, Shown, Settled
  <2>2. Written(t)
    BY <2>1 DEF TermInv
  <2> QED
    BY <2>1, <2>2 DEF Written
<1> QED
  BY <1>1, ScreenInvariance, PTL

\* Backspace never takes back what was there before the line was read, on however
\* many rows the line stands and however far it has scrolled (console_bksp).
THEOREM StopCorrect == ASSUME Prompted PROVE Spec => []StopsAtPrompt
<1>1. Init => LineInv
  BY DEF Init, LineInv, Line, NoKey
<1>2. TypeInv /\ LineInv /\ [Next]_vars => LineInv'
  BY LineStep
<1>3. TypeInv /\ LineInv => StopsAtPrompt
  <2> SUFFICES ASSUME TypeInv, LineInv, NEW t \in Term, from[t] # NoRead
               PROVE  constate[t].cur.y * NUM_COLS + constate[t].cur.x >= from[t]
    BY DEF StopsAtPrompt
  <2>1. constate[t].cur \in Cursor /\ constate[t].stop \in Col
    BY DEF TypeInv, ConState
  <2>2. CASE from[t] = 0
    <3>1. constate[t].cur.y \in Nat /\ constate[t].cur.x \in Nat
      BY <2>1, Sizes DEF Cursor, Row, Col
    <3>2. constate[t].cur.y * NUM_COLS \in Nat
      BY <3>1, Sizes
    <3> QED
      BY <2>2, <3>1, <3>2
  <2>3. CASE from[t] # 0
    <3>1. PICK r \in Row : /\ from[t] = r * NUM_COLS + constate[t].stop
                           /\ After(constate[t].cur, r, constate[t].stop)
      BY <2>3 DEF LineInv, Line
    <3> QED
      BY <2>1, <3>1, AfterIsLater
  <2> QED
    BY <2>2, <2>3
<1> QED
  BY <1>1, <1>2, <1>3, TypeInvariance, PTL DEF Spec

=============================================================================
