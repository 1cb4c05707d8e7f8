---------------------------- MODULE ModeXProofs ----------------------------
(***************************************************************************)
(* Proofs about the adventure game's graphics, for every size of the       *)
(* window, of the build buffer's slack and of its fence, all photos at     *)
(* least as large as the window, all objects wherever they lie, and any    *)
(* number of moves, new layouts and rooms.                                 *)
(*                                                                         *)
(* ModeInv follows the register sequences; PageInv says which page is on   *)
(* display; BufInv says what the build buffer and the page hold.  Each is  *)
(* inductive given those before it.  BufInv rests on the arithmetic of the *)
(* four planes (two pixels of a window have two addresses, all inside the  *)
(* buffer), on what one line, a loop of lines and the copy do to a buffer, *)
(* and on set_view_window keeping every pixel that both windows show.      *)
(***************************************************************************)
EXTENDS ModeX, SequenceTheorems, WellFoundedInduction, NaturalsInduction, TLAPS

-----------------------------------------------------------------------------
(* The register sequences. *)

\* The step of a sequence that gives group g its table.
Turn(g) == CASE g = "seq" -> 2 [] g = "crtc" -> 3 [] g = "attr" -> 4
             [] g = "graphics" -> 5 [] g = "palette" -> 6

\* The registers in the middle of a sequence, its step n next.
Phase(steps, from, to, n) ==
  /\ todo = SubSeq(steps, n, 8)
  /\ n > 1 <=> blanked
  /\ \A g \in Groups : vga[g] = IF Turn(g) < n THEN to ELSE from
  /\ fonts <=> (IF n < 8 THEN from ELSE to) = "text"

\* The registers of one mode.
InMode(m) ==
  /\ todo = <<>> /\ ~blanked
  /\ \A g \in Groups : vga[g] = m
  /\ fonts <=> m = "text"

\* The places of the program in mode X.
Playing == {"enter", "draw", "flip", "bar", "command"}

\* The inductive invariant of the mode: text, mode X, or a sequence from one to
\* the other with all its steps so far made and no other.
ModeInv ==
  /\ vga \in [Groups -> {"text", "X"}] /\ blanked \in BOOLEAN /\ fonts \in BOOLEAN
  /\ pc \in {"text", "setting", "clearing", "ended"} \cup Playing
  /\ pc \in {"text", "ended"} => InMode("text")
  /\ pc \in Playing => InMode("X")
  /\ pc = "setting" => \E n \in 1 .. 8 : Phase(SetSteps, "text", "X", n)
  /\ pc = "clearing" => \E n \in 1 .. 8 : Phase(TextSteps, "X", "text", n)

\* The steps of both sequences.
StepNames == {"blank", "seq", "crtc", "attr", "graphics", "palette", "clear", "font",
              "unblank"}

\* The steps of a sequence from the n-th on: its head and its tail.
LEMMA StepsLeft ==
  ASSUME NEW s \in Seq(StepNames), Len(s) = 8, NEW n \in 1 .. 8
  PROVE  /\ SubSeq(s, n, 8) # <<>>
         /\ Head(SubSeq(s, n, 8)) = s[n]
         /\ Tail(SubSeq(s, n, 8)) = SubSeq(s, n + 1, 8)
         /\ (SubSeq(s, n + 1, 8) = <<>> <=> n = 8)
<1> DEFINE t == SubSeq(s, n, 8)
           u == SubSeq(s, n + 1, 8)
<1>0. \A i \in 1 .. 8 : s[i] \in StepNames
  BY ElementOfSeq
<1>1. /\ t \in Seq(StepNames) /\ Len(t) = 9 - n /\ \A i \in 1 .. 9 - n : t[i] = s[n + i - 1]
  <2>1. n \in Int /\ 8 \in Int /\ n <= 8 /\ 8 - n + 1 = 9 - n /\ \A i \in n .. 8 : s[i] \in StepNames
    BY <1>0
  <2> QED
    BY <2>1, SubSeqProperties
<1>2. /\ u \in Seq(StepNames) /\ Len(u) = 8 - n /\ \A i \in 1 .. 8 - n : u[i] = s[n + i]
  <2> DEFINE m == n + 1
  <2>1. /\ m \in Int /\ 8 \in Int /\ (IF m <= 8 THEN 8 - m + 1 ELSE 0) = 8 - n
        /\ 8 - m + 1 = 8 - n /\ \A i \in m .. 8 : s[i] \in StepNames
    BY <1>0
  <2>2. \A i \in 1 .. 8 - n : n + 1 + i - 1 = n + i
    OBVIOUS
  <2>3. /\ u \in Seq(StepNames) /\ Len(u) = 8 - n /\ \A i \in 1 .. 8 - n : u[i] = s[m + i - 1]
    <3> HIDE DEF m
    <3>1. /\ SubSeq(s, m, 8) \in Seq(StepNames) /\ Len(SubSeq(s, m, 8)) = 8 - n
          /\ \A i \in 1 .. 8 - n : SubSeq(s, m, 8)[i] = s[m + i - 1]
      BY <2>1, SubSeqProperties
    <3> QED
      BY <3>1 DEF m
  <2> QED
    BY <2>2, <2>3
<1> HIDE DEF t, u
<1>3. t # <<>> /\ Head(t) = s[n]
  BY <1>1
<1>4. Tail(t) = u
  BY <1>1, <1>2, <1>3
<1>5. u = <<>> <=> n = 8
  BY <1>2
<1> QED
  BY <1>3, <1>4, <1>5 DEF t, u

\* The steps of set_mode_X by number.
LEMMA SetNames ==
  /\ SetSteps \in Seq(StepNames) /\ Len(SetSteps) = 8
  /\ SetSteps[1] = "blank" /\ SetSteps[2] = "seq" /\ SetSteps[3] = "crtc"
  /\ SetSteps[4] = "attr" /\ SetSteps[5] = "graphics" /\ SetSteps[6] = "palette"
  /\ SetSteps[7] = "clear" /\ SetSteps[8] = "unblank"
<1>1. SetSteps \in Seq(StepNames)
  BY DEF SetSteps, StepNames
<1>2. Len(SetSteps) = 8
  BY DEF SetSteps
<1> QED
  BY <1>1, <1>2 DEF SetSteps

\* The steps of set_text_mode_3 by number.
LEMMA TextNames ==
  /\ TextSteps \in Seq(StepNames) /\ Len(TextSteps) = 8
  /\ TextSteps[1] = "blank" /\ TextSteps[2] = "seq" /\ TextSteps[3] = "crtc"
  /\ TextSteps[4] = "attr" /\ TextSteps[5] = "graphics" /\ TextSteps[6] = "palette"
  /\ TextSteps[7] = "font" /\ TextSteps[8] = "unblank"
<1>1. TextSteps \in Seq(StepNames)
  BY DEF TextSteps, StepNames
<1>2. Len(TextSteps) = 8
  BY DEF TextSteps
<1> QED
  BY <1>1, <1>2 DEF TextSteps

\* When each group of registers gets its table.
LEMMA Turns ==
  /\ Turn("seq") = 2 /\ Turn("crtc") = 3 /\ Turn("attr") = 4
  /\ Turn("graphics") = 5 /\ Turn("palette") = 6
  /\ \A g \in Groups : Turn(g) \in 2 .. 6
  BY DEF Turn, Groups

\* A step of a sequence: either the next one is left, or the mode is reached.
LEMMA PhaseStep ==
  ASSUME NEW steps \in Seq(StepNames), Len(steps) = 8, NEW from, NEW to, NEW n \in 1 .. 8,
         vga \in [Groups -> {"text", "X"}], blanked \in BOOLEAN, fonts \in BOOLEAN,
         from \in {"text", "X"}, to \in {"text", "X"}, to # from,
         to = IF pc = "setting" THEN "X" ELSE "text",
         steps[1] = "blank", steps[2] = "seq", steps[3] = "crtc", steps[4] = "attr",
         steps[5] = "graphics", steps[6] = "palette",
         steps[7] = IF to = "X" THEN "clear" ELSE "font", steps[8] = "unblank",
         Phase(steps, from, to, n), SwitchMode
  PROVE  /\ vga' \in [Groups -> {"text", "X"}] /\ blanked' \in BOOLEAN /\ fonts' \in BOOLEAN
         /\ n < 8 => pc' = pc /\ Phase(steps, from, to, n + 1)'
         /\ n = 8 => pc' = (IF pc = "setting" THEN "enter" ELSE "ended") /\ InMode(to)'
<1>1. /\ todo # <<>> /\ Head(todo) = steps[n] /\ Tail(todo) = SubSeq(steps, n + 1, 8)
      /\ (Tail(todo) = <<>> <=> n = 8)
  BY StepsLeft DEF Phase
<1>2. /\ todo' = SubSeq(steps, n + 1, 8)
      /\ n < 8 => pc' = pc
      /\ n = 8 => pc' = IF pc = "setting" THEN "enter" ELSE "ended"
  <2>1. todo' = Tail(todo) /\ pc' = IF Tail(todo) # <<>> THEN pc
                                   ELSE IF pc = "setting" THEN "enter" ELSE "ended"
    BY DEF SwitchMode
  <2>2. todo' = SubSeq(steps, n + 1, 8)
    BY <1>1, <2>1, Zenon
  <2>3. n < 8 => n # 8
    OBVIOUS
  <2> QED
    BY <1>1, <2>1, <2>2, <2>3, Zenon
<1>p. /\ n > 1 <=> blanked
      /\ \A g \in Groups : vga[g] = IF Turn(g) < n THEN to ELSE from
      /\ fonts <=> (IF n < 8 THEN from ELSE to) = "text"
  BY DEF Phase
<1>d. \/ steps[n] = "blank" /\ VGA_blank(TRUE)
      \/ steps[n] = "seq" /\ set_seq_regs_and_reset(to)
      \/ steps[n] = "crtc" /\ set_CRTC_registers(to)
      \/ steps[n] \in {"attr", "graphics"} /\ set_registers(steps[n], to)
      \/ steps[n] = "palette" /\ fill_palette(to)
      \/ steps[n] = "clear" /\ clear_screens
      \/ steps[n] = "font" /\ write_font_data
      \/ steps[n] = "unblank" /\ VGA_blank(FALSE)
  BY <1>1 DEF SwitchMode
<1>3. CASE n = 1
  <2>1. blanked' = TRUE /\ vga' = vga /\ fonts' = fonts
    BY <1>3, <1>d DEF VGA_blank
  <2> QED
    BY <1>2, <1>3, <1>p, <2>1, Turns, SMTT(30) DEF Phase
<1>4. CASE n \in 2 .. 6
  <2>1. PICK h \in Groups : steps[n] = h /\ Turn(h) = n
    BY <1>4, Turns DEF Groups
  <2>2. vga' = [vga EXCEPT ![h] = to] /\ blanked' = TRUE /\ fonts' = fonts
    <3>0. blanked = TRUE
      BY <1>4, <1>p
    <3>1. CASE n = 2
      BY <1>d, <2>1, <3>0, <3>1 DEF set_seq_regs_and_reset
    <3>2. CASE n = 3
      BY <1>d, <2>1, <3>0, <3>2 DEF set_CRTC_registers
    <3>3. CASE n = 4 \/ n = 5
      BY <1>d, <2>1, <3>0, <3>3 DEF set_registers
    <3>4. CASE n = 6
      BY <1>d, <2>1, <3>0, <3>4 DEF set_registers, fill_palette
    <3> QED
      <4>1. n = 2 \/ n = 3 \/ (n = 4 \/ n = 5) \/ n = 6
        BY <1>4
      <4> QED
        BY <3>1, <3>2, <3>3, <3>4, <4>1, Zenon
  <2>3. \A g \in Groups : Turn(g) = n => g = h
    BY <2>1 DEF Turn, Groups
  <2>4. \A g \in Groups : vga'[g] = IF Turn(g) < n + 1 THEN to ELSE from
    <3> TAKE g \in Groups
    <3>1. Turn(g) \in Int /\ (Turn(g) < n + 1 <=> Turn(g) < n \/ Turn(g) = n)
      BY <1>4, Turns
    <3> QED
      BY <1>p, <2>1, <2>2, <2>3, <3>1
  <2>5. fonts' <=> (IF n + 1 < 8 THEN from ELSE to) = "text"
    BY <1>4, <1>p, <2>2
  <2> QED
    BY <1>2, <1>4, <2>2, <2>4, <2>5 DEF Phase
<1>5. CASE n = 7
  <2>1. vga' = vga /\ blanked' = blanked /\ fonts' = (to = "text")
    BY <1>5, <1>d DEF clear_screens, write_font_data
  <2> QED
    <3>1. \A g \in Groups : vga[g] = to /\ Turn(g) < n + 1
      BY <1>5, <1>p, Turns
    <3>2. blanked /\ n + 1 > 1 /\ ~(n + 1 < 8)
      BY <1>5, <1>p
    <3>3. Phase(steps, from, to, n + 1)'
      BY <1>2, <2>1, <3>1, <3>2 DEF Phase
    <3> QED
      BY <1>2, <1>5, <2>1, <3>3
<1>6. CASE n = 8
  <2>1. blanked' = FALSE /\ vga' = vga /\ fonts' = fonts
    BY <1>6, <1>d DEF VGA_blank
  <2>2. todo' = <<>>
    BY <1>1, <1>2, <1>6
  <2> QED
    <3>1. \A g \in Groups : vga[g] = to
      BY <1>6, <1>p, Turns
    <3>2. fonts <=> to = "text"
      BY <1>6, <1>p
    <3>3. InMode(to)'
      BY <2>1, <2>2, <3>1, <3>2 DEF InMode
    <3> QED
      <4>1. ~(n < 8)
        BY <1>6
      <4> QED
        BY <1>2, <1>6, <2>1, <3>3, <4>1, Zenon
<1> QED
  BY <1>3, <1>4, <1>5, <1>6

\* Other steps leave the registers alone.
LEMMA ModeSame ==
  ASSUME ModeInv, UNCHANGED mode, pc \in Playing, pc' \in Playing
  PROVE  ModeInv'
<1>1. InMode("X")
  BY DEF ModeInv
<1>2. vga' = vga /\ blanked' = blanked /\ fonts' = fonts /\ todo' = todo
  BY DEF mode
<1>3. InMode("X")'
  BY <1>1, <1>2 DEF InMode
<1>4. vga' \in [Groups -> {"text", "X"}] /\ blanked' \in BOOLEAN /\ fonts' \in BOOLEAN
  BY <1>2 DEF ModeInv
<1>5. pc' \notin {"text", "setting", "clearing", "ended"}
  BY DEF Playing
<1> QED
  BY <1>3, <1>4, <1>5, Zenon DEF ModeInv

\* The program begins in text mode.
LEMMA ModeInit == ASSUME Init PROVE ModeInv
<1>1. /\ vga = [g \in Groups |-> "text"] /\ blanked = FALSE /\ fonts = TRUE
      /\ todo = <<>> /\ pc = "text"
  BY DEF Init
<1>2. vga \in [Groups -> {"text", "X"}]
  BY <1>1
<1>3. InMode("text")
  BY <1>1 DEF InMode
<1>4. pc \notin Playing /\ pc # "setting" /\ pc # "clearing"
  BY <1>1 DEF Playing
<1> QED
  BY <1>1, <1>2, <1>3, <1>4, Zenon DEF ModeInv

\* ModeInv is inductive by itself.
LEMMA ModeStep == ASSUME ModeInv, [Next]_vars PROVE ModeInv'
<1>t. vga \in [Groups -> {"text", "X"}] /\ blanked \in BOOLEAN /\ fonts \in BOOLEAN
  BY DEF ModeInv
<1>1. CASE set_mode_X
  <2>1. InMode("text")
    BY <1>1 DEF ModeInv, set_mode_X
  <2>2. /\ vga' = vga /\ blanked' = blanked /\ fonts' = fonts
        /\ \/ pc' = "setting" /\ todo' = SetSteps
           \/ pc' = "ended" /\ todo' = todo
    BY <1>1 DEF set_mode_X
  <2>3. CASE pc' = "setting" /\ todo' = SetSteps
    <3>1. todo' = SubSeq(SetSteps, 1, 8)
      <4>1. SubSeq(SetSteps, 1, Len(SetSteps)) = SetSteps
        BY SetNames, SubSeqFull
      <4> QED
        BY <2>3, <4>1, SetNames
    <3>2. \A g \in Groups : ~(Turn(g) < 1)
      BY Turns
    <3>3. Phase(SetSteps, "text", "X", 1)'
      BY <2>1, <2>2, <3>1, <3>2 DEF Phase, InMode
    <3>4. 1 \in 1 .. 8
      OBVIOUS
    <3>5. pc' \notin Playing /\ pc' \notin {"text", "ended"} /\ pc' # "clearing"
      BY <2>3 DEF Playing
    <3> QED
      BY <1>t, <2>2, <2>3, <3>3, <3>4, <3>5, Zenon DEF ModeInv
  <2>4. CASE pc' = "ended" /\ todo' = todo
    <3>1. InMode("text")'
      BY <2>1, <2>2, <2>4 DEF InMode
    <3>2. pc' \notin Playing /\ pc' # "setting" /\ pc' # "clearing"
      BY <2>4 DEF Playing
    <3> QED
      BY <1>t, <2>2, <2>4, <3>1, <3>2, Zenon DEF ModeInv
  <2> QED
    BY <2>2, <2>3, <2>4
<1>2. CASE SwitchMode
  <2>0. todo # <<>>
    BY <1>2 DEF SwitchMode
  <2>1. pc \in {"setting", "clearing"}
    BY <2>0 DEF ModeInv, InMode
  <2>2. CASE pc = "setting"
    <3>1. PICK n \in 1 .. 8 : Phase(SetSteps, "text", "X", n)
      BY <2>2 DEF ModeInv
    <3>2. /\ vga' \in [Groups -> {"text", "X"}] /\ blanked' \in BOOLEAN /\ fonts' \in BOOLEAN
          /\ n < 8 => pc' = pc /\ Phase(SetSteps, "text", "X", n + 1)'
          /\ n = 8 => pc' = "enter" /\ InMode("X")'
      BY <1>2, <1>t, <2>2, <3>1, SetNames, PhaseStep
    <3>3. CASE n < 8
      <4>1. n + 1 \in 1 .. 8
        BY <3>3
      <4>2. pc' \notin Playing /\ pc' \notin {"text", "ended"} /\ pc' # "clearing"
        BY <2>2, <3>2, <3>3 DEF Playing
      <4> QED
        BY <2>2, <3>2, <3>3, <4>1, <4>2, Zenon DEF ModeInv
    <3>4. CASE n = 8
      <4>1. pc' \in Playing /\ pc' \notin {"text", "ended"} /\ pc' # "clearing" /\ pc' # "setting"
        BY <3>2, <3>4 DEF Playing
      <4> QED
        BY <3>2, <3>4, <4>1, Zenon DEF ModeInv
    <3> QED
      BY <3>3, <3>4
  <2>3. CASE pc = "clearing"
    <3>1. PICK n \in 1 .. 8 : Phase(TextSteps, "X", "text", n)
      BY <2>3 DEF ModeInv
    <3>2. /\ vga' \in [Groups -> {"text", "X"}] /\ blanked' \in BOOLEAN /\ fonts' \in BOOLEAN
          /\ n < 8 => pc' = pc /\ Phase(TextSteps, "X", "text", n + 1)'
          /\ n = 8 => pc' = "ended" /\ InMode("text")'
      BY <1>2, <1>t, <2>3, <3>1, TextNames, PhaseStep
    <3>3. CASE n < 8
      <4>1. n + 1 \in 1 .. 8
        BY <3>3
      <4>2. pc' \notin Playing /\ pc' \notin {"text", "ended"} /\ pc' # "setting"
        BY <2>3, <3>2, <3>3 DEF Playing
      <4> QED
        BY <2>3, <3>2, <3>3, <4>1, <4>2, Zenon DEF ModeInv
    <3>4. CASE n = 8
      <4>1. pc' \notin Playing /\ pc' \in {"text", "ended"} /\ pc' # "clearing" /\ pc' # "setting"
        BY <3>2, <3>4 DEF Playing
      <4> QED
        BY <3>2, <3>4, <4>1, Zenon DEF ModeInv
    <3> QED
      BY <3>3, <3>4
  <2> QED
    BY <2>1, <2>2, <2>3
<1>3. CASE EnterRoom \/ show_screen \/ ShowPage \/ show_status_bar \/ Move \/ Redraw \/ ChangeRoom
  <2>1. UNCHANGED mode /\ pc \in Playing /\ pc' \in Playing
    BY <1>3 DEF EnterRoom, show_screen, ShowPage, show_status_bar, Move, Redraw, ChangeRoom, Command, Playing
  <2> QED
    BY <2>1, ModeSame
<1>4. CASE clear_mode_X
  <2>1. InMode("X")
    BY <1>4 DEF ModeInv, clear_mode_X, Playing
  <2>2. vga' = vga /\ blanked' = blanked /\ fonts' = fonts /\ pc' = "clearing" /\ todo' = TextSteps
    BY <1>4 DEF clear_mode_X, set_text_mode_3
  <2>3. todo' = SubSeq(TextSteps, 1, 8)
    <3>1. SubSeq(TextSteps, 1, Len(TextSteps)) = TextSteps
      BY TextNames, SubSeqFull
    <3> QED
      BY <2>2, <3>1, TextNames
  <2>4. \A g \in Groups : ~(Turn(g) < 1)
    BY Turns
  <2>5. Phase(TextSteps, "X", "text", 1)'
    BY <2>1, <2>2, <2>3, <2>4 DEF Phase, InMode
  <2>6. 1 \in 1 .. 8
    OBVIOUS
  <2>7. pc' \notin Playing /\ pc' \notin {"text", "ended"} /\ pc' # "setting"
    BY <2>2 DEF Playing
  <2> QED
    BY <1>t, <2>2, <2>5, <2>6, <2>7, Zenon DEF ModeInv
<1>5. CASE UNCHANGED vars
  <2>1. UNCHANGED <<vga, blanked, fonts, todo, pc>>
    BY <1>5 DEF vars, mode
  <2> QED
    BY <2>1 DEF ModeInv, InMode, Phase
<1> QED
  BY <1>1, <1>2, <1>3, <1>4, <1>5 DEF Next, Ended

\* While set_mode_X or set_text_mode_3 changes the registers group by group the
\* display is dark: it never shows a mixture of the two modes, uncleared video
\* memory or a text mode without its fonts.
THEOREM SwitchIsHidden == Spec => []HalfSetHidden
<1>1. ASSUME ModeInv PROVE HalfSetHidden
  <2> SUFFICES ASSUME ~blanked PROVE (\A g, h \in Groups : vga[g] = vga[h]) /\ (fonts <=> vga["seq"] = "text")
    BY DEF HalfSetHidden
  <2>1. "seq" \in Groups
    BY DEF Groups
  <2>2. CASE \E m \in {"text", "X"} : InMode(m)
    BY <2>1, <2>2 DEF InMode
  <2>3. ASSUME NEW s, NEW n \in 1 .. 8, Phase(s, "text", "X", n) \/ Phase(s, "X", "text", n)
        PROVE  (\A g, h \in Groups : vga[g] = vga[h]) /\ (fonts <=> vga["seq"] = "text")
    <3>1. n = 1
      BY <2>3 DEF Phase
    <3>2. PICK from \in {"text", "X"} : (\A g \in Groups : vga[g] = from) /\ (fonts <=> from = "text")
      BY <2>3, <3>1, Turns DEF Phase
    <3> QED
      BY <2>1, <3>2
  <2> QED
    BY <1>1, <2>2, <2>3 DEF ModeInv
<1> QED
  BY <1>1, ModeInit, ModeStep, PTL DEF Spec

-----------------------------------------------------------------------------
(* The two pages. *)

\* The bytes of a page: plane and offset.
Cells == (0 .. 3) \X (0 .. SCROLL_SIZE - 1)

\* The page drawn last is the one on display, but for the moment between the
\* drawing and the switch.
PageInv ==
  /\ target_img \in Pages /\ start \in Pages
  /\ DOMAIN vram = Pages /\ \A p \in Pages : DOMAIN vram[p] = Cells
  /\ pc \in {"text", "setting"} => start = 0 /\ target_img = 0
  /\ pc \in {"enter", "draw", "bar", "command"} => start = target_img

\* Both pages are page 0 in the beginning.
LEMMA PageInit == ASSUME Init PROVE PageInv
  BY DEF Init, PageInv, Pages, Cells

\* Steps that leave video memory alone.
LEMMA PageSame ==
  ASSUME PageInv, UNCHANGED <<vram, target_img, start>>,
         pc' \in {"text", "setting"} => pc \in {"text", "setting"},
         pc' \in {"enter", "draw", "bar", "command"} => pc \in {"text", "setting", "enter", "draw", "bar", "command"}
  PROVE  PageInv'
  BY DEF PageInv

\* PageInv is inductive, given ModeInv.
LEMMA PageStep == ASSUME PageInv, ModeInv, [Next]_vars PROVE PageInv'
<1>0. start \in Pages /\ target_img \in Pages /\ DOMAIN vram = Pages /\ \A p \in Pages : DOMAIN vram[p] = Cells
  BY DEF PageInv
<1>1. CASE set_mode_X
  BY <1>1 DEF set_mode_X, PageInv, Pages
<1>2. CASE SwitchMode
  <2>0. pc \in {"setting", "clearing"}
    <3>1. todo # <<>>
      BY <1>2 DEF SwitchMode
    <3> QED
      BY <3>1 DEF ModeInv, InMode
  <2>1. target_img' = target_img /\ (start' = start \/ start' = 0)
    BY <1>2 DEF SwitchMode, VGA_blank, set_seq_regs_and_reset, set_CRTC_registers, set_registers,
                fill_palette, clear_screens, write_font_data
  <2>2. DOMAIN vram' = Pages /\ \A p \in Pages : DOMAIN vram'[p] = Cells
    <3>1. \/ vram' = vram
          \/ vram' = [p \in Pages |-> [c \in DOMAIN vram[p] |-> Black]]
          \/ vram' = [p \in Pages |-> [c \in DOMAIN vram[p] |-> Wild]]
      BY <1>2 DEF SwitchMode, VGA_blank, set_seq_regs_and_reset, set_CRTC_registers, set_registers,
                  fill_palette, clear_screens, write_font_data
    <3> QED
      BY <1>0, <3>1
  <2>3. \/ pc = "setting" /\ pc' \in {"setting", "enter"}
        \/ pc = "clearing" /\ pc' \in {"clearing", "ended"}
    BY <1>2, <2>0 DEF SwitchMode
  <2>4. 0 \in Pages
    BY DEF Pages
  <2> QED
    BY <1>0, <2>1, <2>2, <2>3, <2>4 DEF PageInv
<1>3. CASE EnterRoom \/ Move \/ Redraw \/ ChangeRoom \/ clear_mode_X \/ UNCHANGED vars
  <2>1. UNCHANGED <<vram, target_img, start>>
    BY <1>3 DEF EnterRoom, Move, Redraw, ChangeRoom, clear_mode_X, vars
  <2>2. \/ pc' = pc
        \/ pc \in {"enter", "command"} /\ pc' \in {"draw", "enter", "clearing"}
    BY <1>3 DEF EnterRoom, Move, Redraw, ChangeRoom, clear_mode_X, Command, vars
  <2> QED
    BY <2>1, <2>2, PageSame
<1>4. CASE show_screen
  <2>1. /\ pc' = "flip" /\ target_img' = 1 - target_img /\ start' = start
        /\ vram' = copy_image(target_img')
    BY <1>4 DEF show_screen
  <2>2. target_img' \in Pages
    BY <1>0, <2>1 DEF Pages
  <2>3. DOMAIN vram' = Pages /\ \A p \in Pages : DOMAIN vram'[p] = Cells
    BY <1>0, <2>1, <2>2 DEF copy_image
  <2> QED
    BY <1>0, <2>1, <2>2, <2>3 DEF PageInv
<1>5. CASE ShowPage
  BY <1>5 DEF ShowPage, PageInv
<1>6. CASE show_status_bar
  <2>1. /\ pc = "bar" /\ pc' = "command" /\ target_img' = target_img /\ start' = start
        /\ vram' = copy_status_bar(0)
    BY <1>6 DEF show_status_bar
  <2>2. DOMAIN vram' = Pages /\ \A p \in Pages : DOMAIN vram'[p] = Cells
    BY <1>0, <2>1 DEF copy_status_bar
  <2> QED
    BY <1>0, <2>1, <2>2 DEF PageInv
<1> QED
  BY <1>1, <1>2, <1>3, <1>4, <1>5, <1>6 DEF Next, Ended

\* show_screen draws only into the page that is not on display, and the steps
\* that clear video memory or write the fonts come while the screen is off: a
\* frame is never seen half drawn.
THEOREM FramesAreWhole == Spec => NoTearing
<1>1. ASSUME ModeInv, PageInv, [Next]_vars, start' = start, ~blanked, vga["crtc"] = "X",
             NEW c \in DOMAIN vram[start], c[2] >= BAR * SCROLL_X_WIDTH
      PROVE  vram'[start][c] = vram[start][c]
  <2>0. start \in Pages /\ DOMAIN vram = Pages
    BY <1>1 DEF PageInv
  <2>1. CASE vram' = vram
    BY <2>1
  <2>2. CASE SwitchMode
    <3>1. \/ vram' = vram
          \/ Head(todo) = "clear" \/ Head(todo) = "font"
      BY <2>2 DEF SwitchMode, VGA_blank, set_seq_regs_and_reset, set_CRTC_registers, set_registers,
                  fill_palette, clear_screens, write_font_data
    <3>2. ASSUME Head(todo) = "clear" \/ Head(todo) = "font" PROVE FALSE
      <4>1. PICK s \in {SetSteps, TextSteps}, n \in 1 .. 8 : todo = SubSeq(s, n, 8) /\ (n > 1 <=> blanked)
        <5>1. todo # <<>>
          BY <2>2 DEF SwitchMode
        <5> QED
          BY <1>1, <5>1 DEF ModeInv, InMode, Phase
      <4>2. s \in Seq(StepNames) /\ Len(s) = 8 /\ s[1] = "blank"
        BY <4>1, SetNames, TextNames
      <4>3. Head(todo) = s[n]
        BY <4>1, <4>2, StepsLeft
      <4>4. n = 1
        BY <1>1, <4>1
      <4> QED
        BY <3>2, <4>2, <4>3, <4>4
    <3> QED
      BY <3>1, <3>2
  <2>3. CASE show_screen
    <3>1. start = target_img /\ target_img' = 1 - target_img /\ vram' = copy_image(target_img')
      BY <1>1, <2>3 DEF show_screen, PageInv
    <3>2. target_img' # start
      BY <2>0, <3>1 DEF Pages
    <3> QED
      BY <2>0, <3>1, <3>2 DEF copy_image
  <2>4. CASE show_status_bar
    <3>1. vram' = copy_status_bar(0)
      BY <2>4 DEF show_status_bar
    <3>2. BAR * SCROLL_X_WIDTH \in Int /\ c[2] \in Int
      <4>1. c \in Cells
        BY <1>1, <2>0 DEF PageInv
      <4>2. c[2] \in 0 .. SCROLL_SIZE - 1
        BY <4>1 DEF Cells
      <4> QED
        BY <4>2, DimAssumption
    <3>3. ~(c[2] < BAR * SCROLL_X_WIDTH)
      BY <1>1, <3>2
    <3> QED
      BY <2>0, <3>1, <3>3 DEF copy_status_bar
  <2> QED
    BY <1>1, <2>1, <2>2, <2>3, <2>4
    DEF Next, set_mode_X, EnterRoom, ShowPage, Move, Redraw, ChangeRoom, clear_mode_X, Ended, vars
<1>2. ASSUME ModeInv, PageInv, [Next]_vars
      PROVE  [ start' = start /\ ~blanked /\ vga["crtc"] = "X" =>
                 \A c \in DOMAIN vram[start] :
                   c[2] >= BAR * SCROLL_X_WIDTH => vram'[start][c] = vram[start][c] ]_vars
  BY <1>1, <1>2
<1> QED
  BY <1>2, ModeInit, ModeStep, PageInit, PageStep, PTL DEF Spec, NoTearing

-----------------------------------------------------------------------------
(* Addresses in the build buffer. *)

\* Short names for the size of the window.
W == SCROLL_X_WIDTH
H == SCROLL_Y_DIM

\* The bytes of y rows of a plane.
Row(y) == y * SCROLL_X_WIDTH

\* The sizes of the window.
LEMMA Dims ==
  /\ W \in Nat /\ W >= 1 /\ H \in Nat /\ H >= 1 /\ SLACK \in Nat /\ MEM_FENCE_WIDTH \in Nat
  /\ SCROLL_X_DIM = 4 * W
  BY DimAssumption DEF W, H, SCROLL_X_DIM

\* Rows are counted in bytes.
LEMMA RowType == ASSUME NEW y \in Int PROVE Row(y) \in Int
  BY Dims DEF Row, W

\* Rows add up.
LEMMA RowSum == ASSUME NEW y \in Int, NEW z \in Int PROVE Row(y + z) = Row(y) + Row(z)
<1>1. SCROLL_X_WIDTH \in Int
  BY Dims DEF W
<1> QED
  BY <1>1 DEF Row

\* A row below another begins at least a row's bytes later.
LEMMA RowLess == ASSUME NEW y \in Int, NEW z \in Int, y < z PROVE Row(y) + W <= Row(z)
<1>1. W \in Int /\ W >= 1
  BY Dims
<1>2. \A a, b, w \in Int : (a < b /\ w >= 1) => a * w + w <= b * w
  OBVIOUS
<1> QED
  BY <1>1, <1>2 DEF Row, W

\* Row is monotonic.
LEMMA RowUpTo == ASSUME NEW y \in Int, NEW z \in Int, y <= z PROVE Row(y) <= Row(z)
<1>1. CASE y < z
  BY <1>1, RowLess, RowType, Dims
<1>2. CASE y = z
  BY <1>2, RowType
<1> QED
  BY <1>1, <1>2

\* A plane ends with the last row of the window.
LEMMA RowPlane == SCROLL_SIZE \in Nat /\ SCROLL_SIZE = Row(H - 1) + W /\ Row(0) = 0 /\ Row(1) = W
<1>1. SCROLL_X_WIDTH \in Nat /\ SCROLL_Y_DIM \in Nat
  BY Dims DEF W, H
<1>2. \A w, h \in Nat : w * h \in Nat /\ w * h = (h - 1) * w + w /\ 0 * w = 0 /\ 1 * w = w
  OBVIOUS
<1> QED
  BY <1>1, <1>2 DEF SCROLL_SIZE, Row, W, H

\* The bytes of a plane.
P == SCROLL_SIZE

\* The plane of column x, and the bytes before it.
Plane(x) == (3 - (x % 4)) * P

\* The four planes, the one of column 0 last.
LEMMA PlaneIs ==
  ASSUME NEW x \in Int
  PROVE  /\ x % 4 \in 0 .. 3 /\ x = 4 * (x \div 4) + (x % 4) /\ x \div 4 \in Int
         /\ Plane(x) = IF x % 4 = 0 THEN 3 * P ELSE IF x % 4 = 1 THEN 2 * P
                       ELSE IF x % 4 = 2 THEN P ELSE 0
         /\ Plane(x) \in 0 .. 3 * P
<1>1. x % 4 \in 0 .. 3 /\ x = 4 * (x \div 4) + (x % 4) /\ x \div 4 \in Int
  OBVIOUS
<1>2. P \in Nat
  BY RowPlane DEF P
<1>3. CASE x % 4 = 0
  BY <1>1, <1>2, <1>3 DEF Plane
<1>4. CASE x % 4 = 1
  BY <1>1, <1>2, <1>4 DEF Plane
<1>5. CASE x % 4 = 2
  BY <1>1, <1>2, <1>5 DEF Plane
<1>6. CASE x % 4 = 3
  BY <1>1, <1>2, <1>6 DEF Plane
<1> QED
  BY <1>1, <1>3, <1>4, <1>5, <1>6

\* Addr and Fits in these terms.
LEMMA AddrIs ==
  ASSUME NEW off, NEW x, NEW y
  PROVE  Addr(off, x, y) = off + x \div 4 + Row(y) + Plane(x)
  BY DEF Addr, Row, Plane, P

\* Fits, with the planes and the slack spelt out.
LEMMA FitsIs ==
  ASSUME NEW off \in Int, NEW x \in Int, NEW y \in Int
  PROVE  Fits(off, x, y) <=>
           /\ off + x \div 4 + Row(y) >= 0
           /\ off + 3 * P + (x + 4 * W - 1) \div 4 + Row(y) + (P - W) <= 4 * P + SLACK
<1>1. /\ W \in Nat /\ W >= 1 /\ H \in Nat /\ P \in Nat /\ SLACK \in Nat /\ Row(y) \in Int /\ Row(H - 1) \in Int
      /\ P = Row(H - 1) + W
  BY Dims, RowPlane, RowType DEF P
<1>2. y + SCROLL_Y_DIM - 1 = y + (H - 1)
  BY <1>1 DEF H
<1>3. (y + SCROLL_Y_DIM - 1) * SCROLL_X_WIDTH = Row(y) + (P - W)
  <2>1. Row(y + (H - 1)) = Row(y) + Row(H - 1)
    BY <1>1, RowSum
  <2> QED
    BY <1>1, <1>2, <2>1 DEF Row
<1>4. BUILD_BUF_SIZE = 4 * P + 1 + SLACK
  BY <1>1 DEF BUILD_BUF_SIZE, SCREEN_SIZE, P
<1>5. x + SCROLL_X_DIM - 1 = x + 4 * W - 1
  BY Dims
<1> DEFINE e == (x + 4 * W - 1) \div 4
           r == Row(y)
<1>6. e \in Int
  BY <1>1
<1>7. Fits(off, x, y) <=> /\ off + x \div 4 + r >= 0
                          /\ off + 3 * P + e + (r + (P - W)) < 4 * P + 1 + SLACK
  BY <1>3, <1>4, <1>5 DEF Fits, P, Row
<1>8. r \in Int
  BY <1>1
<1> HIDE DEF e, r
<1>9. off + 3 * P + e + (r + (P - W)) < 4 * P + 1 + SLACK
        <=> off + 3 * P + e + r + (P - W) <= 4 * P + SLACK
  BY <1>1, <1>6, <1>8
<1> QED
  BY <1>7, <1>9 DEF e, r

\* Every pixel of a window that fits is inside the buffer.
LEMMA AddrInside ==
  ASSUME NEW off \in Int, NEW x0 \in Int, NEW y0 \in Int, Fits(off, x0, y0),
         NEW x \in x0 .. x0 + 4 * W - 1, NEW y \in y0 .. y0 + H - 1
  PROVE  Addr(off, x, y) \in 0 .. BUILD_BUF_SIZE - 1
<1> DEFINE r == Row(y)
           r0 == Row(y0)
           a == x \div 4
           a0 == x0 \div 4
           e == (x0 + 4 * W - 1) \div 4
           q == Plane(x)
<1>1. /\ W \in Nat /\ W >= 1 /\ H \in Nat /\ H >= 1 /\ P \in Nat /\ SLACK \in Nat
      /\ P = Row(H - 1) + W /\ x \in Int /\ y \in Int
  BY Dims, RowPlane DEF P
<1>2. r \in Int /\ r0 \in Int /\ r0 <= r /\ r <= r0 + (P - W)
  <2>1. Row(y0 + (H - 1)) = Row(y0) + Row(H - 1) /\ Row(H - 1) \in Int
    BY <1>1, RowSum, RowType
  <2>2. Row(y) <= Row(y0 + (H - 1))
    BY <1>1, RowUpTo
  <2>3. r \in Int /\ r0 \in Int /\ r0 <= r
    BY <1>1, RowType, RowUpTo
  <2> QED
    BY <1>1, <2>1, <2>2, <2>3
<1>3. a \in Int /\ a0 \in Int /\ e \in Int /\ a0 <= a /\ a <= e
  BY <1>1
<1>4. q \in 0 .. 3 * P
  BY <1>1, PlaneIs
<1>5. off + a0 + r0 >= 0 /\ off + 3 * P + e + r0 + (P - W) <= 4 * P + SLACK
  BY FitsIs
<1>6. BUILD_BUF_SIZE = 4 * P + 1 + SLACK
  BY <1>1 DEF BUILD_BUF_SIZE, SCREEN_SIZE, P
<1>7. Addr(off, x, y) = off + a + r + q
  BY AddrIs
<1> HIDE DEF r, r0, a, a0, e, q
<1>8. off + a + r + q >= 0 /\ off + a + r + q < 4 * P + 1 + SLACK /\ off + a + r + q \in Int
  BY <1>1, <1>2, <1>3, <1>4, <1>5
<1> QED
  BY <1>1, <1>6, <1>7, <1>8

\* In the planes of the columns left of s a window begins a byte later.
Late(x, s) == IF x % 4 < s THEN 1 ELSE 0

\* Column x of a window that begins at x0, numbered within its plane.
LEMMA Column ==
  ASSUME NEW x0 \in Int, NEW x \in x0 .. x0 + 4 * W - 1
  PROVE  /\ x \div 4 - x0 \div 4 - Late(x, x0 % 4) \in 0 .. W - 1
         /\ Late(x, x0 % 4) \in {0, 1}
<1> DEFINE d == Late(x, x0 % 4)
<1>1. W \in Nat /\ x \in Int
  BY Dims
<1>2. x % 4 \in 0 .. 3 /\ x = 4 * (x \div 4) + (x % 4) /\ x \div 4 \in Int
  BY <1>1, PlaneIs
<1>3. x0 % 4 \in 0 .. 3 /\ x0 = 4 * (x0 \div 4) + (x0 % 4) /\ x0 \div 4 \in Int
  BY PlaneIs
<1> DEFINE a == x \div 4
           r == x % 4
           b == x0 \div 4
           s == x0 % 4
<1>4. /\ a \in Int /\ b \in Int /\ r \in 0 .. 3 /\ s \in 0 .. 3
      /\ x = 4 * a + r /\ x0 = 4 * b + s /\ d = IF r < s THEN 1 ELSE 0
  BY <1>2, <1>3 DEF Late
<1> HIDE DEF a, b, r, s, d
<1>5. 4 * b + s <= 4 * a + r /\ 4 * a + r <= 4 * b + s + 4 * W - 1
  BY <1>1, <1>4
<1>6. a - b - d \in 0 .. W - 1 /\ d \in {0, 1}
  BY <1>1, <1>4, <1>5
<1> QED
  BY <1>6 DEF a, b, d

\* The byte k of a plane p: planes do not overlap, also when the later ones
\* begin a byte later.
LEMMA PlanesApart ==
  ASSUME NEW x1 \in Int, NEW x2 \in Int, NEW s \in 0 .. 3,
         NEW k1 \in 0 .. P - 1, NEW k2 \in 0 .. P - 1,
         k1 + Late(x1, s) + Plane(x1) = k2 + Late(x2, s) + Plane(x2)
  PROVE  x1 % 4 = x2 % 4 /\ k1 = k2
<1> DEFINE r1 == x1 % 4
           r2 == x2 % 4
           d1 == Late(x1, s)
           d2 == Late(x2, s)
           p1 == Plane(x1)
           p2 == Plane(x2)
<1>1. P \in Nat
  BY RowPlane DEF P
<1>2. /\ r1 \in 0 .. 3
      /\ p1 = IF r1 = 0 THEN 3 * P ELSE IF r1 = 1 THEN 2 * P ELSE IF r1 = 2 THEN P ELSE 0
  BY PlaneIs
<1>3. /\ r2 \in 0 .. 3
      /\ p2 = IF r2 = 0 THEN 3 * P ELSE IF r2 = 1 THEN 2 * P ELSE IF r2 = 2 THEN P ELSE 0
  BY PlaneIs
<1>4. /\ d1 = (IF r1 < s THEN 1 ELSE 0) /\ d2 = (IF r2 < s THEN 1 ELSE 0)
      /\ k1 + d1 + p1 = k2 + d2 + p2
  BY DEF Late
<1> HIDE DEF r1, r2, p1, p2, d1, d2
<1>5. k1 \in Int /\ k2 \in Int /\ k1 >= 0 /\ k2 >= 0 /\ k1 < P /\ k2 < P
  BY <1>1
<1>6. r1 = r2
  <2>1. CASE r1 < r2
    <3>1. d2 <= d1 /\ d1 \in Int /\ d2 \in Int
      BY <1>2, <1>3, <1>4, <2>1
    <3>2. p1 >= p2 + P /\ p1 \in Int /\ p2 \in Int
      BY <1>1, <1>2, <1>3, <2>1
    <3> QED
      BY <1>1, <1>4, <1>5, <3>1, <3>2
  <2>2. CASE r2 < r1
    <3>1. d1 <= d2 /\ d1 \in Int /\ d2 \in Int
      BY <1>2, <1>3, <1>4, <2>2
    <3>2. p2 >= p1 + P /\ p1 \in Int /\ p2 \in Int
      BY <1>1, <1>2, <1>3, <2>2
    <3> QED
      BY <1>1, <1>4, <1>5, <3>1, <3>2
  <2> QED
    BY <1>2, <1>3, <2>1, <2>2
<1>7. k1 = k2
  <2>1. d1 = d2 /\ d1 \in Int /\ p1 = p2 /\ p1 \in Int
    BY <1>1, <1>2, <1>3, <1>4, <1>6
  <2> QED
    BY <1>4, <1>5, <2>1
<1> QED
  BY <1>6, <1>7 DEF r1, r2

\* Two pixels of a window have two addresses.
LEMMA AddrDistinct ==
  ASSUME NEW off \in Int, NEW x0 \in Int, NEW y0 \in Int,
         NEW x1 \in x0 .. x0 + 4 * W - 1, NEW y1 \in y0 .. y0 + H - 1,
         NEW x2 \in x0 .. x0 + 4 * W - 1, NEW y2 \in y0 .. y0 + H - 1,
         Addr(off, x1, y1) = Addr(off, x2, y2)
  PROVE  x1 = x2 /\ y1 = y2
<1> DEFINE s == x0 % 4
           d1 == Late(x1, s)
           d2 == Late(x2, s)
           c1 == x1 \div 4 - x0 \div 4 - d1
           c2 == x2 \div 4 - x0 \div 4 - d2
           j1 == Row(y1 - y0)
           j2 == Row(y2 - y0)
           k1 == j1 + c1
           k2 == j2 + c2
<1>1. W \in Nat /\ W >= 1 /\ H \in Nat /\ P \in Nat /\ P = Row(H - 1) + W /\ Row(H - 1) \in Int
  BY Dims, RowPlane, RowType DEF P
<1>2. x1 \in Int /\ x2 \in Int /\ y1 \in Int /\ y2 \in Int /\ y1 - y0 \in 0 .. H - 1 /\ y2 - y0 \in 0 .. H - 1
  BY <1>1
<1>3. c1 \in 0 .. W - 1 /\ d1 \in {0, 1} /\ c2 \in 0 .. W - 1 /\ d2 \in {0, 1}
  BY Column
<1>4. s \in 0 .. 3 /\ x0 \div 4 \in Int /\ x1 \div 4 \in Int /\ x2 \div 4 \in Int
  BY <1>2, PlaneIs
<1>5. j1 \in Int /\ j1 >= 0 /\ j1 <= P - W /\ j2 \in Int /\ j2 >= 0 /\ j2 <= P - W
  <2>1. ASSUME NEW z \in 0 .. H - 1 PROVE Row(z) \in Int /\ Row(z) >= 0 /\ Row(z) <= P - W
    <3>1. z \in Int /\ 0 <= z /\ z <= H - 1 /\ H - 1 \in Int
      BY <1>1
    <3>2. Row(z) \in Int /\ Row(0) <= Row(z) /\ Row(z) <= Row(H - 1)
      BY <3>1, RowType, RowUpTo
    <3> QED
      BY <1>1, <3>2, RowPlane
  <2> QED
    BY <1>2, <2>1
<1>6. k1 \in 0 .. P - 1 /\ k2 \in 0 .. P - 1
  <2> HIDE DEF c1, c2, j1, j2
  <2> QED
    BY <1>1, <1>3, <1>5
<1>7. k1 + d1 + Plane(x1) = k2 + d2 + Plane(x2)
  <2>1. Row(y1) = Row(y0) + j1 /\ Row(y2) = Row(y0) + j2 /\ Row(y0) \in Int
    <3>1. y0 + (y1 - y0) = y1 /\ y0 + (y2 - y0) = y2 /\ y1 - y0 \in Int /\ y2 - y0 \in Int
      BY <1>2
    <3>2. Row(y0 + (y1 - y0)) = Row(y0) + Row(y1 - y0) /\ Row(y0 + (y2 - y0)) = Row(y0) + Row(y2 - y0)
      BY <3>1, RowSum
    <3> QED
      BY <3>1, <3>2, RowType
  <2>2. off + x1 \div 4 + Row(y1) + Plane(x1) = off + x2 \div 4 + Row(y2) + Plane(x2)
    BY AddrIs
  <2>3. Plane(x1) \in Int /\ Plane(x2) \in Int /\ d1 \in Int /\ d2 \in Int
    BY <1>1, <1>2, <1>3, PlaneIs
  <2> DEFINE a0 == x0 \div 4
             a1 == x1 \div 4
             a2 == x2 \div 4
             p1 == Plane(x1)
             p2 == Plane(x2)
             r0 == Row(y0)
  <2>4. /\ off + a1 + (r0 + j1) + p1 = off + a2 + (r0 + j2) + p2
        /\ c1 = a1 - a0 - d1 /\ c2 = a2 - a0 - d2
        /\ {off, a0, a1, a2, r0, j1, j2, p1, p2, d1, d2} \subseteq Int
    BY <1>4, <1>5, <2>1, <2>2, <2>3
  <2> HIDE DEF a0, a1, a2, p1, p2, r0, j1, j2, d1, d2, c1, c2
  <2>5. j1 + c1 + d1 + p1 = j2 + c2 + d2 + p2
    BY <2>4
  <2> QED
    BY <2>5 DEF p1, p2
<1> HIDE DEF k1, k2, s
<1>8. x1 % 4 = x2 % 4 /\ k1 = k2
  BY <1>2, <1>4, <1>6, <1>7, PlanesApart
<1>9. d1 = d2
  BY <1>8 DEF Late
<1> HIDE DEF d1, d2
<1>10. y1 = y2
  <2>0. j1 + c1 = j2 + c2
    BY <1>8 DEF k1, k2
  <2>1. CASE y1 < y2
    <3>1. j1 + W <= j2
      BY <1>2, <2>1, RowLess
    <3> HIDE DEF j1, j2, c1, c2
    <3> QED
      BY <1>1, <1>3, <1>5, <2>0, <3>1
  <2>2. CASE y2 < y1
    <3>1. j2 + W <= j1
      BY <1>2, <2>2, RowLess
    <3> HIDE DEF j1, j2, c1, c2
    <3> QED
      BY <1>1, <1>3, <1>5, <2>0, <3>1
  <2> QED
    BY <1>2, <2>1, <2>2
<1>11. x1 \div 4 = x2 \div 4
  <2>1. c1 = c2
    <3>1. j1 = j2 /\ j1 + c1 = j2 + c2
      BY <1>8, <1>10 DEF k1, k2
    <3> HIDE DEF j1, j2, c1, c2
    <3> QED
      BY <1>1, <1>3, <1>5, <3>1
  <2>2. d1 \in Int
    BY <1>3
  <2> QED
    BY <1>4, <1>9, <2>1, <2>2
<1>12. x1 = x2
  BY <1>2, <1>8, <1>11, PlaneIs
<1> QED
  BY <1>10, <1>12

-----------------------------------------------------------------------------
(* Pixels. *)

\* A place in an array of rows of w pixels.
LEMMA PlaceIn ==
  ASSUME NEW w \in Nat, NEW h \in Nat, NEW x \in 0 .. w - 1, NEW y \in 0 .. h - 1
  PROVE  /\ y * w + x \in 0 .. w * h - 1
         /\ (y * w + x) \div w = y /\ (y * w + x) % w = x
         /\ (h - 1 - y) * w + x \in Int
<1>0. w \in Int /\ h \in Int /\ x \in Int /\ y \in Int /\ 0 <= x /\ x < w /\ 0 <= y /\ y < h
  OBVIOUS
<1>1. y * w \in Int /\ w * h \in Int /\ (h - 1 - y) * w \in Int
  BY <1>0
<1>2. y * w >= 0 /\ y * w + w <= w * h
  <2>1. \A a, b, c \in Int : (a < b /\ c >= 1) => a * c + c <= c * b
    OBVIOUS
  <2>2. \A a, c \in Int : (a >= 0 /\ c >= 0) => a * c >= 0
    OBVIOUS
  <2>3. w >= 1
    BY <1>0
  <2> QED
    BY <1>0, <2>1, <2>2, <2>3
<1> DEFINE i == y * w + x
           q == i \div w
           r == i % w
<1>3. i \in Int /\ q \in Int /\ r \in 0 .. w - 1 /\ i = q * w + r
  BY <1>0, <1>1
<1>4. q = y /\ r = x
  <2>1. q * w + r = y * w + x
    BY <1>3
  <2> HIDE DEF q, r, i
  <2>2. \A a, b, c, s, u \in Int :
          (a * c + s = b * c + u /\ 0 <= s /\ s < c /\ 0 <= u /\ u < c) => ~(a < b)
    <3> SUFFICES ASSUME NEW a \in Int, NEW b \in Int, NEW c \in Int, NEW s \in Int, NEW u \in Int,
                        a * c + s = b * c + u, 0 <= s, s < c, 0 <= u, u < c, a < b
                 PROVE  FALSE
      OBVIOUS
    <3>1. \A k, l, m \in Int : (k < l /\ m >= 1) => k * m + m <= l * m
      OBVIOUS
    <3>2. a * c + c <= b * c
      BY <3>1
    <3>3. a * c \in Int /\ b * c \in Int
      OBVIOUS
    <3> DEFINE m == a * c
               n == b * c
    <3>4. m + s = n + u /\ m + c <= n /\ m \in Int /\ n \in Int
      BY <3>2, <3>3
    <3> HIDE DEF m, n
    <3> QED
      BY <3>4
  <2>3. r \in Int /\ 0 <= r /\ r < w
    BY <1>0, <1>3
  <2>4. ~(q < y)
    BY <1>0, <1>3, <2>1, <2>2, <2>3
  <2>5. ~(y < q)
    BY <1>0, <1>3, <2>1, <2>2, <2>3
  <2>6. q = y
    BY <1>0, <1>3, <2>4, <2>5
  <2> QED
    BY <1>0, <1>1, <2>1, <2>3, <2>6
<1>5. y * w + x \in 0 .. w * h - 1
  BY <1>0, <1>1, <1>2
<1>6. (h - 1 - y) * w + x \in Int
  BY <1>0, <1>1
<1> QED
  BY <1>4, <1>5, <1>6

\* The pixels that may be in the build buffer, and the buffer's addresses.
Clean == (DOMAIN Photos \cup DOMAIN Images \cup {"black", "magic"}) \X Int
Cell == -MEM_FENCE_WIDTH .. BUILD_BUF_SIZE + MEM_FENCE_WIDTH - 1
Obj == [obj : DOMAIN Images, x : Int, y : Int]

\* Nothing clean comes from outside an array.
LEMMA NotWild == ASSUME NEW p \in Clean PROVE p # Wild
  BY ObjectAssumption DEF Clean, Wild

\* A file's array has its rows turned upside down.
LEMMA FileIs ==
  ASSUME NEW name, NEW w \in Nat, NEW h \in Nat, NEW x \in 0 .. w - 1, NEW y \in 0 .. h - 1
  PROVE  /\ y * w + x \in DOMAIN FromFile(name, w, h)
         /\ FromFile(name, w, h)[y * w + x] = <<name, (h - 1 - y) * w + x>>
<1> DEFINE i == y * w + x
<1>1. i \in 0 .. w * h - 1 /\ i \div w = y /\ i % w = x
  BY PlaceIn
<1> HIDE DEF i
<1>2. i \in DOMAIN FromFile(name, w, h) /\ FromFile(name, w, h)[i] = <<name, (h - 1 - y) * w + x>>
  BY <1>1 DEF FromFile
<1> QED
  BY <1>2 DEF i

\* The photo's pixel at (x,y).
Below(r, x, y) == <<r, (Photos[r].height - 1 - y) * Photos[r].width + x>>

\* What the callbacks read at (x,y) of the photo.
LEMMA PhotoPixelIs ==
  ASSUME NEW v, v.room \in DOMAIN Photos, NEW i,
         NEW x \in 0 .. Photos[v.room].width - 1, NEW y \in 0 .. Photos[v.room].height - 1,
         i = y * Photos[v.room].width + x
  PROVE  PhotoPixel(v, i) = Below(v.room, x, y) /\ Below(v.room, x, y) \in Clean
<1> DEFINE r == v.room
           w == Photos[r].width
           h == Photos[r].height
<1>1. w \in Nat /\ h \in Nat
  BY DimAssumption
<1>2. read_photo[r] = FromFile(r, w, h)
  BY DEF read_photo
<1>3. i \in DOMAIN FromFile(r, w, h) /\ FromFile(r, w, h)[i] = <<r, (h - 1 - y) * w + x>>
  <2> HIDE DEF w, h, r
  <2>1. i = y * w + x
    BY DEF w, r
  <2>2. x \in 0 .. w - 1 /\ y \in 0 .. h - 1
    BY DEF w, h, r
  <2>3. /\ y * w + x \in DOMAIN FromFile(r, w, h)
        /\ FromFile(r, w, h)[y * w + x] = <<r, (h - 1 - y) * w + x>>
    BY <1>1, <2>2, FileIs, ZenonT(30)
  <2> QED
    BY <2>1, <2>3, Zenon
<1>4. (h - 1 - y) * w + x \in Int
  <2> HIDE DEF w, h, r
  <2>2. x \in 0 .. w - 1 /\ y \in 0 .. h - 1
    BY DEF w, h, r
  <2> QED
    BY <1>1, <2>2, PlaceIn
<1> QED
  BY <1>2, <1>3, <1>4 DEF PhotoPixel, Peek, Below, Clean

\* A set of naturals has a least element.
LEMMA LeastOf ==
  ASSUME NEW A \in SUBSET Nat, A # {}
  PROVE  \E i \in A : \A j \in A : i <= j
<1>1. IsWellFoundedOn(OpToRel(<, Nat), Nat)
  BY NatLessThanWellFounded
<1>2. PICK i \in A : \A j \in A : ~(<<j, i>> \in OpToRel(<, Nat))
  BY <1>1, WFMin, Zenon
<1>3. \A j \in A : ~(j < i)
  BY <1>2 DEF OpToRel
<1> QED
  BY <1>3

\* The last of some indices.
LEMMA MaxIn ==
  ASSUME NEW n \in Nat, NEW A \in SUBSET (1 .. n), A # {}
  PROVE  Max(A) \in A
<1> DEFINE B == {n - i : i \in A}
<1>0. \A i \in A : i \in Int /\ i <= n /\ n - i \in Nat /\ n - i \in B
  OBVIOUS
<1>1. B \in SUBSET Nat /\ B # {}
  BY <1>0
<1> HIDE DEF B
<1>2. PICK k \in B : \A j \in B : k <= j
  BY <1>1, LeastOf
<1>3. PICK i \in A : k = n - i
  BY <1>2 DEF B
<1>4. \A j \in A : j <= i
  <2> TAKE j \in A
  <2>1. n - i <= n - j /\ i \in Int /\ j \in Int
    BY <1>0, <1>2, <1>3
  <2> QED
    BY <2>1
<1>5. \E x \in A : \A y \in A : x >= y
  BY <1>4
<1> QED
  BY <1>5 DEF Max

\* The greater and the smaller of two numbers.
LEMMA TwoMax ==
  ASSUME NEW a \in Int, NEW b \in Int
  PROVE  /\ Max({a, b}) \in {a, b} /\ Max({a, b}) >= a /\ Max({a, b}) >= b
         /\ Min({a, b}) \in {a, b} /\ Min({a, b}) <= a /\ Min({a, b}) <= b
<1>1. \E x \in {a, b} : \A y \in {a, b} : x >= y
  OBVIOUS
<1>2. \E x \in {a, b} : \A y \in {a, b} : x <= y
  OBVIOUS
<1>3. Max({a, b}) \in {a, b} /\ \A y \in {a, b} : Max({a, b}) >= y
  BY <1>1 DEF Max
<1>4. Min({a, b}) \in {a, b} /\ \A y \in {a, b} : Min({a, b}) <= y
  BY <1>2 DEF Min
<1> QED
  BY <1>3, <1>4

\* The views with a clean buffer.
Views == [b : [Cell -> Clean], off : Int, x : Nat, y : Nat, room : DOMAIN Photos, objs : Seq(Obj)]

\* The pixel of an object, when it is inside its image.
LEMMA ObjectPixel ==
  ASSUME NEW o \in DOMAIN Images, NEW x, NEW y,
         x \in 0 .. Images[o].width - 1, y \in 0 .. Images[o].height - 1
  PROVE  read_obj_image[o][y * Images[o].width + x] \in Clean
<1> DEFINE w == Images[o].width
           h == Images[o].height
<1>1. w \in Nat /\ h \in Nat /\ x \in 0 .. w - 1 /\ y \in 0 .. h - 1
  BY ObjectAssumption
<1>2. read_obj_image[o] = FromFile(o, w, h)
  BY DEF read_obj_image
<1> HIDE DEF w, h
<1>3. FromFile(o, w, h)[y * w + x] = <<o, (h - 1 - y) * w + x>>
  BY <1>1, FileIs, ZenonT(30)
<1>4. (h - 1 - y) * w + x \in Int
  BY <1>1, PlaceIn, Zenon
<1>5. <<o, (h - 1 - y) * w + x>> \in Clean
  BY <1>4 DEF Clean
<1>6. FromFile(o, w, h)[y * w + x] \in Clean
  BY <1>3, <1>5, Zenon
<1> QED
  BY <1>2, <1>6 DEF w

\* The objects put nothing but their own pixels over the photo.
LEMMA OverlayClean ==
  ASSUME NEW v \in Views, NEW x, NEW y, NEW below \in Clean
  PROVE  Overlay(v, x, y, below) \in Clean
<1> DEFINE img(o) == read_obj_image[o.obj][(y - o.y) * Images[o.obj].width + (x - o.x)]
           Covers(o) == /\ x - o.x \in 0 .. Images[o.obj].width - 1
                        /\ y - o.y \in 0 .. Images[o.obj].height - 1
                        /\ img(o)[2] \notin Images[o.obj].clear
           tops == {k \in DOMAIN v.objs : Covers(v.objs[k])}
<1>1. Overlay(v, x, y, below) = IF tops = {} THEN below ELSE img(v.objs[Max(tops)])
  BY Zenon DEF Overlay
<1>2. v.objs \in Seq(Obj)
  BY DEF Views
<1>3. ASSUME NEW k \in tops PROVE img(v.objs[k]) \in Clean
  <2> DEFINE o == v.objs[k]
  <2>1. o \in Obj
    BY <1>2, ElementOfSeq
  <2>2. o.obj \in DOMAIN Images
    BY <2>1 DEF Obj
  <2>3. x - o.x \in 0 .. Images[o.obj].width - 1 /\ y - o.y \in 0 .. Images[o.obj].height - 1
    BY Zenon
  <2> HIDE DEF o
  <2>4. img(o) \in Clean
    BY <2>2, <2>3, ObjectPixel, Zenon
  <2> QED
    BY <2>4 DEF o
<1>4. tops # {} => Max(tops) \in tops
  <2>1. tops \in SUBSET (1 .. Len(v.objs)) /\ Len(v.objs) \in Nat
    <3>1. DOMAIN v.objs = 1 .. Len(v.objs) /\ Len(v.objs) \in Nat
      BY <1>2
    <3> QED
      BY <3>1, Zenon
  <2> HIDE DEF tops
  <2> QED
    BY <2>1, MaxIn
<1> HIDE DEF tops, img, Covers
<1> QED
  BY <1>1, <1>3, <1>4

\* What belongs at (x,y) of a view's room.
Pixel(v, x, y) == Overlay(v, x, y, Below(v.room, x, y))

\* The window is inside the photo.
InPhoto(v) == v.x + 4 * W <= Photos[v.room].width /\ v.y + H <= Photos[v.room].height

\* The columns and the lines of the room that the window shows.
Cols(v) == v.x .. v.x + 4 * W - 1
Lines(v) == v.y .. v.y + H - 1

\* A window inside the photo has its pixels inside the photo.
LEMMA PhotoSize ==
  ASSUME NEW v \in Views, InPhoto(v), NEW x \in Cols(v), NEW y \in Lines(v)
  PROVE  /\ x \in Int /\ y \in Int
         /\ x \in 0 .. Photos[v.room].width - 1 /\ y \in 0 .. Photos[v.room].height - 1
         /\ Photos[v.room].width \in Nat /\ Photos[v.room].height \in Nat
<1>1. Photos[v.room].width \in Nat /\ Photos[v.room].height \in Nat
  BY DimAssumption DEF Views
<1>2. v.x \in Nat /\ v.y \in Nat
  BY DEF Views
<1> QED
  BY <1>1, <1>2, Dims DEF InPhoto, Cols, Lines

\* Such a window shows nothing read from outside an array.
LEMMA PixelClean ==
  ASSUME NEW v \in Views, InPhoto(v), NEW x \in Cols(v), NEW y \in Lines(v)
  PROVE  Pixel(v, x, y) \in Clean
<1> DEFINE w == Photos[v.room].width
           i == y * w + x
<1>1. x \in 0 .. Photos[v.room].width - 1 /\ y \in 0 .. Photos[v.room].height - 1
  BY PhotoSize
<1>2. v.room \in DOMAIN Photos
  BY DEF Views
<1>3. Below(v.room, x, y) \in Clean
  BY <1>1, <1>2, PhotoPixelIs, Zenon
<1> QED
  BY <1>3, OverlayClean DEF Pixel

\* The callbacks' lines.
LEMMA HorizLine ==
  ASSUME NEW v \in Views, InPhoto(v), NEW y \in Lines(v)
  PROVE  /\ DOMAIN fill_horiz_buffer(v, v.x, y) = 0 .. 4 * W - 1
         /\ \A i \in 0 .. 4 * W - 1 : fill_horiz_buffer(v, v.x, y)[i] = Pixel(v, v.x + i, y)
<1>1. DOMAIN fill_horiz_buffer(v, v.x, y) = 0 .. 4 * W - 1
  BY Dims DEF fill_horiz_buffer
<1>2. ASSUME NEW i \in 0 .. 4 * W - 1
      PROVE  fill_horiz_buffer(v, v.x, y)[i] = Pixel(v, v.x + i, y)
  <2> DEFINE w == Photos[v.room].width
             x == v.x + i
  <2>0. v.x \in Nat /\ v.room \in DOMAIN Photos /\ W \in Nat
    BY Dims DEF Views
  <2>1. x \in Cols(v)
    BY <2>0 DEF Cols
  <2>2. x \in 0 .. w - 1 /\ y \in 0 .. Photos[v.room].height - 1 /\ w \in Nat /\ y \in Int
    BY <2>1, PhotoSize
  <2>3. w * y + v.x + i = y * w + x
    <3>1. w * y = y * w /\ w * y \in Int
      BY <2>2
    <3> DEFINE m == w * y
    <3>2. m \in Int /\ m = y * w
      BY <3>1
    <3> HIDE DEF m
    <3>3. m + v.x + i = m + (v.x + i)
      BY <2>0, <3>2
    <3> QED
      BY <3>2, <3>3 DEF m
  <2>4. PhotoPixel(v, w * y + v.x + i) = Below(v.room, x, y)
    <3> HIDE DEF x
    <3> QED
      BY <2>0, <2>2, <2>3, PhotoPixelIs, Zenon
  <2>5. fill_horiz_buffer(v, v.x, y)[i]
          = Overlay(v, x, y, IF x \in 0 .. w - 1 THEN PhotoPixel(v, w * y + v.x + i) ELSE Black)
    BY Dims DEF fill_horiz_buffer
  <2> QED
    BY <2>2, <2>4, <2>5, Zenon DEF Pixel
<1> QED
  BY <1>1, <1>2

\* The same for the line of a column.
LEMMA VertLine ==
  ASSUME NEW v \in Views, InPhoto(v), NEW x \in Cols(v)
  PROVE  /\ DOMAIN fill_vert_buffer(v, x, v.y) = 0 .. H - 1
         /\ \A i \in 0 .. H - 1 : fill_vert_buffer(v, x, v.y)[i] = Pixel(v, x, v.y + i)
<1>1. DOMAIN fill_vert_buffer(v, x, v.y) = 0 .. H - 1
  BY DEF fill_vert_buffer, H
<1>2. ASSUME NEW i \in 0 .. H - 1
      PROVE  fill_vert_buffer(v, x, v.y)[i] = Pixel(v, x, v.y + i)
  <2> DEFINE w == Photos[v.room].width
             y == v.y + i
  <2>0. v.y \in Nat /\ v.room \in DOMAIN Photos /\ H \in Nat
    BY Dims DEF Views
  <2>1. y \in Lines(v)
    BY <2>0 DEF Lines
  <2>2. x \in 0 .. w - 1 /\ y \in 0 .. Photos[v.room].height - 1 /\ w \in Nat /\ y \in Int /\ x \in Int
    BY <2>1, PhotoSize
  <2>3. w * y + x = y * w + x
    BY <2>2
  <2>4. PhotoPixel(v, w * y + x) = Below(v.room, x, y)
    <3> HIDE DEF y
    <3> QED
      BY <2>0, <2>2, <2>3, PhotoPixelIs, Zenon
  <2>5. fill_vert_buffer(v, x, v.y)[i]
          = Overlay(v, x, y, IF y \in 0 .. Photos[v.room].height - 1 THEN PhotoPixel(v, w * y + x) ELSE Black)
    BY DEF fill_vert_buffer, H
  <2> QED
    BY <2>2, <2>4, <2>5, Zenon DEF Pixel
<1> QED
  BY <1>1, <1>2

-----------------------------------------------------------------------------
(* Drawing lines. *)

\* A set of writes, none in conflict with another.
LEMMA Poked ==
  ASSUME NEW b \in [Cell -> Clean], NEW puts,
         \A p \in puts : p.val \in Clean,
         \A p, q \in puts : p.at = q.at => p.val = q.val
  PROVE  /\ Poke(b, puts) \in [Cell -> Clean]
         /\ \A p \in puts : p.at \in Cell => Poke(b, puts)[p.at] = p.val
         /\ \A i \in Cell : (\A p \in puts : p.at # i) => Poke(b, puts)[i] = b[i]
<1> DEFINE here(i) == {p \in puts : p.at = i}
           chosen(i) == CHOOSE p \in here(i) : TRUE
<1>1. ASSUME NEW i \in Cell
      PROVE  /\ here(i) = {} => Poke(b, puts)[i] = b[i]
             /\ here(i) # {} => Poke(b, puts)[i] = chosen(i).val /\ chosen(i) \in here(i)
  BY DEF Poke
<1>2. DOMAIN Poke(b, puts) = Cell
  BY DEF Poke
<1>3. ASSUME NEW i \in Cell PROVE Poke(b, puts)[i] \in Clean
  BY <1>1
<1>4. Poke(b, puts) \in [Cell -> Clean]
  <2>1. Poke(b, puts) = [i \in Cell |-> Poke(b, puts)[i]]
    BY DEF Poke
  <2> QED
    BY <1>3, <2>1
<1>5. ASSUME NEW p \in puts, p.at \in Cell PROVE Poke(b, puts)[p.at] = p.val
  <2>1. p \in here(p.at)
    OBVIOUS
  <2>2. Poke(b, puts)[p.at] = chosen(p.at).val /\ chosen(p.at) \in here(p.at)
    BY <1>1, <1>5, <2>1
  <2> QED
    BY <2>2
<1> QED
  BY <1>1, <1>4, <1>5

\* The fence is whole.
Fenced(v) == \A i \in Fence : v.b[i] = Magic

\* A view with everything in its place but perhaps not yet drawn.
Legal(v) == v \in Views /\ Fits(v.off, v.x, v.y) /\ InPhoto(v) /\ Fenced(v)

\* Pixel (x,y) of the room is in the buffer at its place.
Good(v, x, y) == v.b[Addr(v.off, x, y)] = Pixel(v, x, y)

\* w is v with at least these columns and rows of the window drawn.
Drawn(w, v, columns, rows) ==
  /\ Legal(w)
  /\ w.off = v.off /\ w.x = v.x /\ w.y = v.y /\ w.room = v.room /\ w.objs = v.objs
  /\ \A x \in Cols(v), y \in Lines(v) :
       (Good(v, x, y) \/ x - v.x \in columns \/ y - v.y \in rows) => Good(w, x, y)

\* Nothing drawn leaves everything as it is.
LEMMA DrawnSelf == ASSUME NEW v, Legal(v) PROVE Drawn(v, v, {}, {})
  BY DEF Drawn

\* The buffer and its fence.
LEMMA BufferInside ==
  /\ 0 .. BUILD_BUF_SIZE - 1 \subseteq Cell
  /\ \A i \in 0 .. BUILD_BUF_SIZE - 1 : i \notin Fence
  /\ Fence \subseteq Cell /\ BUILD_BUF_SIZE \in Nat
<1>1. BUILD_BUF_SIZE \in Nat
  <2>1. P \in Nat /\ SLACK \in Nat
    BY RowPlane, Dims DEF P
  <2> QED
    BY <2>1 DEF BUILD_BUF_SIZE, SCREEN_SIZE, P
<1> QED
  BY <1>1, Dims DEF Cell, Fence

\* The same room with the same objects looks the same.
LEMMA SameLook ==
  ASSUME NEW v, NEW w, w.room = v.room, w.objs = v.objs, NEW x, NEW y
  PROVE  Pixel(w, x, y) = Pixel(v, x, y)
  BY Zenon DEF Pixel, Overlay

\* A set of pixels of the window, drawn at their places.
LEMMA DrawnPuts ==
  ASSUME NEW v, Legal(v), NEW puts, NEW columns, NEW rows,
         \A p \in puts : \E x \in Cols(v), y \in Lines(v) :
           p.at = Addr(v.off, x, y) /\ p.val = Pixel(v, x, y),
         \A x \in Cols(v), y \in Lines(v) :
           (x - v.x \in columns \/ y - v.y \in rows) =>
             \E p \in puts : p.at = Addr(v.off, x, y) /\ p.val = Pixel(v, x, y)
  PROVE  Drawn([v EXCEPT !.b = Poke(@, puts)], v, columns, rows)
<1> DEFINE c == Poke(v.b, puts)
           w == [v EXCEPT !.b = Poke(@, puts)]
<1>0. /\ v \in Views /\ v.b \in [Cell -> Clean] /\ v.off \in Int /\ v.x \in Int /\ v.y \in Int
      /\ Fits(v.off, v.x, v.y) /\ InPhoto(v) /\ Fenced(v)
  BY DEF Legal, Views
<1>1. ASSUME NEW x \in Cols(v), NEW y \in Lines(v)
      PROVE  Addr(v.off, x, y) \in 0 .. BUILD_BUF_SIZE - 1
  BY <1>0, AddrInside DEF Cols, Lines
<1>2. \A s, t \in Cols(v) : \A k, l \in Lines(v) :
        Addr(v.off, s, k) = Addr(v.off, t, l) => s = t /\ k = l
  BY <1>0, AddrDistinct DEF Cols, Lines
<1>3. \A p \in puts : p.val \in Clean
  BY <1>0, PixelClean
<1>4. ASSUME NEW p \in puts, NEW q \in puts, p.at = q.at PROVE p.val = q.val
  <2>1. PICK x1 \in Cols(v), y1 \in Lines(v) : p.at = Addr(v.off, x1, y1) /\ p.val = Pixel(v, x1, y1)
    OBVIOUS
  <2>2. PICK x2 \in Cols(v), y2 \in Lines(v) : q.at = Addr(v.off, x2, y2) /\ q.val = Pixel(v, x2, y2)
    OBVIOUS
  <2>3. Addr(v.off, x1, y1) = Addr(v.off, x2, y2)
    BY <1>4, <2>1, <2>2
  <2>4. x1 = x2 /\ y1 = y2
    BY <1>2, <2>3
  <2> QED
    BY <2>1, <2>2, <2>4
<1>5. /\ c \in [Cell -> Clean]
      /\ \A p \in puts : p.at \in Cell => c[p.at] = p.val
      /\ \A i \in Cell : (\A p \in puts : p.at # i) => c[i] = v.b[i]
  BY <1>0, <1>3, <1>4, Poked, Zenon
<1>6. /\ w.b = c /\ w.off = v.off /\ w.x = v.x /\ w.y = v.y /\ w.room = v.room /\ w.objs = v.objs
      /\ w \in Views
  <2> HIDE DEF c
  <2>1. w = [v EXCEPT !.b = c]
    BY DEF c
  <2> QED
    BY <1>0, <1>5, <2>1 DEF Views
<1> HIDE DEF c, w
<1>7. Fenced(w)
  <2> SUFFICES ASSUME NEW i \in Fence PROVE c[i] = Magic
    BY <1>6 DEF Fenced
  <2>1. i \in Cell /\ i \notin 0 .. BUILD_BUF_SIZE - 1
    BY BufferInside
  <2>2. \A p \in puts : p.at # i
    BY <1>1, <2>1
  <2> QED
    BY <1>0, <1>5, <2>1, <2>2 DEF Fenced
<1>8. Legal(w)
  BY <1>0, <1>6, <1>7 DEF Legal, InPhoto
<1>9. ASSUME NEW x \in Cols(v), NEW y \in Lines(v),
             Good(v, x, y) \/ x - v.x \in columns \/ y - v.y \in rows
      PROVE  Good(w, x, y)
  <2> DEFINE a == Addr(v.off, x, y)
  <2>0. a \in Cell
    BY <1>1, BufferInside
  <2> SUFFICES c[a] = Pixel(v, x, y)
    BY <1>6, SameLook DEF Good
  <2>1. CASE \E p \in puts : p.at = a
    <3>1. PICK p \in puts : p.at = a
      BY <2>1
    <3>2. PICK x1 \in Cols(v), y1 \in Lines(v) : p.at = Addr(v.off, x1, y1) /\ p.val = Pixel(v, x1, y1)
      OBVIOUS
    <3>3. Addr(v.off, x1, y1) = Addr(v.off, x, y)
      BY <3>1, <3>2
    <3>4. x1 = x /\ y1 = y
      BY <1>2, <3>3
    <3> QED
      BY <1>5, <2>0, <3>1, <3>2, <3>4
  <2>2. CASE \A p \in puts : p.at # a
    <3>1. Good(v, x, y)
      BY <1>9, <2>2
    <3> QED
      BY <1>5, <2>0, <2>2, <3>1 DEF Good
  <2> QED
    BY <2>1, <2>2
<1>10. Drawn(w, v, columns, rows)
  BY <1>6, <1>8, <1>9 DEF Drawn
<1> QED
  BY <1>10 DEF w

\* draw_horiz_line draws one row, or nothing when the row is not in the window.
LEMMA DrawRow ==
  ASSUME NEW v, Legal(v), NEW row \in Int
  PROVE  Drawn(draw_horiz_line(v, row), v, {}, {row})
<1>0. v \in Views /\ v.x \in Int /\ v.y \in Int /\ InPhoto(v) /\ H \in Nat /\ W \in Nat /\ SCROLL_X_DIM = 4 * W
  BY Dims DEF Legal, Views
<1>1. CASE row \notin 0 .. H - 1
  <2>1. draw_horiz_line(v, row) = v
    BY <1>1 DEF draw_horiz_line, H
  <2>2. \A y \in Lines(v) : y - v.y # row
    BY <1>0, <1>1 DEF Lines
  <2> QED
    BY <2>1, <2>2 DEF Drawn
<1>2. CASE row \in 0 .. H - 1
  <2> DEFINE line == fill_horiz_buffer(v, v.x, v.y + row)
             puts == {[at |-> Addr(v.off, v.x + i, v.y + row), val |-> line[i]] : i \in DOMAIN line}
  <2>1. draw_horiz_line(v, row) = [v EXCEPT !.b = Poke(@, puts)]
    BY <1>2 DEF draw_horiz_line, H
  <2>2. v.y + row \in Lines(v)
    BY <1>0, <1>2 DEF Lines
  <2>3. DOMAIN line = 0 .. 4 * W - 1 /\ \A i \in 0 .. 4 * W - 1 : line[i] = Pixel(v, v.x + i, v.y + row)
    BY <1>0, <2>2, HorizLine
  <2> HIDE DEF line
  <2>4. \A p \in puts : \E x \in Cols(v), y \in Lines(v) :
          p.at = Addr(v.off, x, y) /\ p.val = Pixel(v, x, y)
    <3>1. ASSUME NEW i \in 0 .. 4 * W - 1 PROVE v.x + i \in Cols(v)
      BY <1>0 DEF Cols
    <3> QED
      BY <2>2, <2>3, <3>1
  <2>5. ASSUME NEW x \in Cols(v), NEW y \in Lines(v), x - v.x \in {} \/ y - v.y \in {row}
        PROVE  \E p \in puts : p.at = Addr(v.off, x, y) /\ p.val = Pixel(v, x, y)
    <3>1. y = v.y + row
      BY <1>0, <1>2, <2>5 DEF Lines
    <3> DEFINE i == x - v.x
    <3>2. i \in 0 .. 4 * W - 1 /\ v.x + i = x
      BY <1>0 DEF Cols
    <3> HIDE DEF i
    <3>3. [at |-> Addr(v.off, v.x + i, v.y + row), val |-> line[i]] \in puts
      BY <2>3, <3>2
    <3> QED
      BY <2>3, <3>1, <3>2, <3>3
  <2> HIDE DEF puts
  <2>6. \A x \in Cols(v), y \in Lines(v) :
          (x - v.x \in {} \/ y - v.y \in {row}) =>
            \E p \in puts : p.at = Addr(v.off, x, y) /\ p.val = Pixel(v, x, y)
    BY <2>5
  <2>7. Drawn([v EXCEPT !.b = Poke(@, puts)], v, {}, {row})
    BY <2>4, <2>6, DrawnPuts, Zenon
  <2> QED
    BY <2>1, <2>7, Zenon
<1> QED
  BY <1>1, <1>2

\* draw_vert_line draws one column, or nothing when it is not in the window.
LEMMA DrawCol ==
  ASSUME NEW v, Legal(v), NEW col \in Int
  PROVE  Drawn(draw_vert_line(v, col), v, {col}, {})
<1>0. v \in Views /\ v.x \in Int /\ v.y \in Int /\ InPhoto(v) /\ H \in Nat /\ W \in Nat /\ SCROLL_X_DIM = 4 * W
  BY Dims DEF Legal, Views
<1>1. CASE col \notin 0 .. 4 * W - 1
  <2>1. draw_vert_line(v, col) = v
    BY <1>0, <1>1 DEF draw_vert_line
  <2>2. \A x \in Cols(v) : x - v.x # col
    BY <1>0, <1>1 DEF Cols
  <2> QED
    BY <2>1, <2>2 DEF Drawn
<1>2. CASE col \in 0 .. 4 * W - 1
  <2> DEFINE line == fill_vert_buffer(v, v.x + col, v.y)
             puts == {[at |-> Addr(v.off, v.x + col, v.y + i), val |-> line[i]] : i \in DOMAIN line}
  <2>1. draw_vert_line(v, col) = [v EXCEPT !.b = Poke(@, puts)]
    BY <1>0, <1>2 DEF draw_vert_line
  <2>2. v.x + col \in Cols(v)
    BY <1>0, <1>2 DEF Cols
  <2>3. DOMAIN line = 0 .. H - 1 /\ \A i \in 0 .. H - 1 : line[i] = Pixel(v, v.x + col, v.y + i)
    BY <1>0, <2>2, VertLine
  <2> HIDE DEF line
  <2>4. \A p \in puts : \E x \in Cols(v), y \in Lines(v) :
          p.at = Addr(v.off, x, y) /\ p.val = Pixel(v, x, y)
    <3>1. ASSUME NEW i \in 0 .. H - 1 PROVE v.y + i \in Lines(v)
      BY <1>0 DEF Lines
    <3> QED
      BY <2>2, <2>3, <3>1
  <2>5. ASSUME NEW x \in Cols(v), NEW y \in Lines(v), x - v.x \in {col} \/ y - v.y \in {}
        PROVE  \E p \in puts : p.at = Addr(v.off, x, y) /\ p.val = Pixel(v, x, y)
    <3>1. x = v.x + col
      BY <1>0, <1>2, <2>5 DEF Cols
    <3> DEFINE i == y - v.y
    <3>2. i \in 0 .. H - 1 /\ v.y + i = y
      BY <1>0 DEF Lines
    <3> HIDE DEF i
    <3>3. [at |-> Addr(v.off, v.x + col, v.y + i), val |-> line[i]] \in puts
      BY <2>3, <3>2
    <3> QED
      BY <2>3, <3>1, <3>2, <3>3
  <2> HIDE DEF puts
  <2>6. \A x \in Cols(v), y \in Lines(v) :
          (x - v.x \in {col} \/ y - v.y \in {}) =>
            \E p \in puts : p.at = Addr(v.off, x, y) /\ p.val = Pixel(v, x, y)
    BY <2>5
  <2>7. Drawn([v EXCEPT !.b = Poke(@, puts)], v, {col}, {})
    BY <2>4, <2>6, DrawnPuts, Zenon
  <2> QED
    BY <2>1, <2>7, Zenon
<1> QED
  BY <1>1, <1>2

-----------------------------------------------------------------------------
(* The loops. *)

\* One turn of a loop: a row, a column or a byte of the copy.
LoopTurn(kind, from, to, v, i) ==
  IF kind = "row" THEN draw_horiz_line(v, i)
  ELSE IF kind = "column" THEN draw_vert_line(v, i)
  ELSE CopyByte(v, from + i, to + i)

\* f[n] is what n turns of the loop over the indices s make of v.
Loops(f, kind, from, to, v, s, m) ==
  f = [n \in 0 .. m |-> IF n = 0 THEN v ELSE LoopTurn(kind, from, to, f[n - 1], s[n])]

\* The recursive function of a loop exists, for any number of turns.
LEMMA LoopsExist ==
  ASSUME NEW kind, NEW from, NEW to, NEW v, NEW s, NEW m \in Nat
  PROVE  \E f : Loops(f, kind, from, to, v, s, m)
<1> DEFINE Bad == {k \in Nat : ~\E f : Loops(f, kind, from, to, v, s, k)}
<1> SUFFICES ASSUME Bad # {} PROVE FALSE
  OBVIOUS
<1>1. PICK k \in Bad : \A j \in Bad : k <= j
  BY LeastOf
<1>2. CASE k = 0
  <2> DEFINE f == [n \in 0 .. 0 |-> v]
  <2>1. Loops(f, kind, from, to, v, s, 0)
    BY DEF Loops
  <2> QED
    BY <1>1, <1>2, <2>1
<1>3. CASE k # 0
  <2>1. k - 1 \in Nat /\ k - 1 \notin Bad
    BY <1>1, <1>3
  <2>2. PICK f : Loops(f, kind, from, to, v, s, k - 1)
    BY <2>1
  <2> DEFINE g == [n \in 0 .. k |-> IF n < k THEN f[n] ELSE LoopTurn(kind, from, to, f[k - 1], s[k])]
  <2>3. ASSUME NEW n \in 0 .. k
        PROVE  g[n] = IF n = 0 THEN v ELSE LoopTurn(kind, from, to, g[n - 1], s[n])
    <3>1. CASE n = 0
      <4>1. f[0] = v
        BY <2>1, <2>2 DEF Loops
      <4> QED
        BY <1>3, <3>1, <4>1
    <3>2. CASE n # 0 /\ n < k
      <4>1. n \in 0 .. k - 1 /\ n - 1 \in 0 .. k /\ n - 1 < k
        BY <3>2
      <4>2. f[n] = LoopTurn(kind, from, to, f[n - 1], s[n])
        BY <2>2, <3>2, <4>1 DEF Loops
      <4> QED
        BY <3>2, <4>1, <4>2
    <3>3. CASE n = k
      <4>1. k - 1 \in 0 .. k /\ k - 1 < k
        BY <2>1
      <4> QED
        BY <1>3, <3>3, <4>1
    <3> QED
      BY <3>1, <3>2, <3>3
  <2>4. g = [n \in 0 .. k |-> g[n]]
    OBVIOUS
  <2> HIDE DEF g
  <2>5. Loops(g, kind, from, to, v, s, k)
    BY <2>3, <2>4 DEF Loops
  <2> QED
    BY <1>1, <2>5
<1> QED
  BY <1>2, <1>3

\* Lines drawn upon lines drawn.
LEMMA DrawnMore ==
  ASSUME NEW v, NEW w, NEW u, NEW C, NEW D, NEW R, NEW S,
         Drawn(w, v, C, R), Drawn(u, w, D, S)
  PROVE  Drawn(u, v, C \cup D, R \cup S)
<1>1. Cols(w) = Cols(v) /\ Lines(w) = Lines(v)
  BY DEF Drawn, Cols, Lines
<1>2. w.x = v.x /\ w.y = v.y
  BY DEF Drawn
<1>3. ASSUME NEW x \in Cols(v), NEW y \in Lines(v),
             Good(v, x, y) \/ x - v.x \in C \cup D \/ y - v.y \in R \cup S
      PROVE  Good(u, x, y)
  <2>1. Good(w, x, y) \/ x - w.x \in D \/ y - w.y \in S
    BY <1>2, <1>3 DEF Drawn
  <2> QED
    BY <1>1, <2>1 DEF Drawn
<1> QED
  BY <1>3 DEF Drawn

\* DrawRows draws all the rows it is given.
LEMMA RowsDrawn ==
  ASSUME NEW v, Legal(v), NEW m \in Nat, NEW rows \in [1 .. m -> Int], Len(rows) = m
  PROVE  Drawn(DrawRows(v, rows), v, {}, {rows[k] : k \in 1 .. m})
<1> DEFINE it == CHOOSE f : f = [n \in 0 .. Len(rows) |->
                              IF n = 0 THEN v ELSE draw_horiz_line(f[n - 1], rows[n])]
<1>1. DrawRows(v, rows) = it[Len(rows)]
  BY DEF DrawRows
<1>2. Loops(it, "row", 0, 0, v, rows, Len(rows))
  <2>1. \E f : Loops(f, "row", 0, 0, v, rows, Len(rows))
    BY LoopsExist
  <2>2. \E f : f = [n \in 0 .. Len(rows) |->
                      IF n = 0 THEN v ELSE draw_horiz_line(f[n - 1], rows[n])]
    BY <2>1, Zenon DEF Loops, LoopTurn
  <2> QED
    BY <2>2, Zenon DEF Loops, LoopTurn
<1> HIDE DEF it
<1> DEFINE Upto(n) == {rows[k] : k \in 1 .. n}
           Bad == {n \in 0 .. m : ~Drawn(it[n], v, {}, Upto(n))}
<1>3. Bad = {}
  <2> SUFFICES ASSUME Bad # {} PROVE FALSE
    OBVIOUS
  <2>1. Bad \in SUBSET Nat
    OBVIOUS
  <2>2. PICK n \in Bad : \A j \in Bad : n <= j
    BY <2>1, LeastOf
  <2>3. CASE n = 0
    <3>1. it[0] = v
      BY <1>2 DEF Loops
    <3>2. Upto(0) = {}
      OBVIOUS
    <3> QED
      BY <2>2, <2>3, <3>1, <3>2, DrawnSelf
  <2>4. CASE n # 0
    <3>0. n \in 0 .. m
      BY <2>2, Zenon
    <3>1. n - 1 \in 0 .. m /\ n - 1 \notin Bad /\ n \in 1 .. m
      <4> HIDE DEF Bad
      <4> QED
        BY <2>2, <2>4, <3>0
    <3>2. Drawn(it[n - 1], v, {}, Upto(n - 1))
      BY <3>1
    <3>3. it[n] = draw_horiz_line(it[n - 1], rows[n])
      BY <1>2, <2>4, <3>1 DEF Loops, LoopTurn
    <3>4. Drawn(it[n], it[n - 1], {}, {rows[n]})
      <4>1. Legal(it[n - 1]) /\ rows[n] \in Int
        BY <3>1, <3>2 DEF Drawn
      <4> QED
        BY <3>3, <4>1, DrawRow
    <3>5. Upto(n) = Upto(n - 1) \cup {rows[n]}
      BY <3>1
    <3> HIDE DEF Upto
    <3>6. Drawn(it[n], v, {} \cup {}, Upto(n - 1) \cup {rows[n]})
      BY <3>2, <3>4, DrawnMore
    <3>7. Drawn(it[n], v, {}, Upto(n))
      BY <3>5, <3>6
    <3> QED
      BY <2>2, <3>7
  <2> QED
    BY <2>3, <2>4
<1>4. Drawn(it[m], v, {}, Upto(m))
  <2>1. m \in 0 .. m
    OBVIOUS
  <2> QED
    BY <1>3, <2>1, Zenon
<1> QED
  BY <1>1, <1>4

\* DrawCols draws all the columns it is given.
LEMMA ColsDrawn ==
  ASSUME NEW v, Legal(v), NEW m \in Nat, NEW cols \in [1 .. m -> Int], Len(cols) = m
  PROVE  Drawn(DrawCols(v, cols), v, {cols[k] : k \in 1 .. m}, {})
<1> DEFINE it == CHOOSE f : f = [n \in 0 .. Len(cols) |->
                              IF n = 0 THEN v ELSE draw_vert_line(f[n - 1], cols[n])]
<1>1. DrawCols(v, cols) = it[Len(cols)]
  BY DEF DrawCols
<1>2. Loops(it, "column", 0, 0, v, cols, Len(cols))
  <2>1. \E f : Loops(f, "column", 0, 0, v, cols, Len(cols))
    BY LoopsExist
  <2>2. \E f : f = [n \in 0 .. Len(cols) |->
                      IF n = 0 THEN v ELSE draw_vert_line(f[n - 1], cols[n])]
    BY <2>1, Zenon DEF Loops, LoopTurn
  <2> QED
    BY <2>2, Zenon DEF Loops, LoopTurn
<1> HIDE DEF it
<1> DEFINE Upto(n) == {cols[k] : k \in 1 .. n}
           Bad == {n \in 0 .. m : ~Drawn(it[n], v, Upto(n), {})}
<1>3. Bad = {}
  <2> SUFFICES ASSUME Bad # {} PROVE FALSE
    OBVIOUS
  <2>1. Bad \in SUBSET Nat
    OBVIOUS
  <2>2. PICK n \in Bad : \A j \in Bad : n <= j
    BY <2>1, LeastOf
  <2>3. CASE n = 0
    <3>1. it[0] = v
      BY <1>2 DEF Loops
    <3>2. Upto(0) = {}
      OBVIOUS
    <3> QED
      BY <2>2, <2>3, <3>1, <3>2, DrawnSelf
  <2>4. CASE n # 0
    <3>0. n \in 0 .. m
      BY <2>2, Zenon
    <3>1. n - 1 \in 0 .. m /\ n - 1 \notin Bad /\ n \in 1 .. m
      <4> HIDE DEF Bad
      <4> QED
        BY <2>2, <2>4, <3>0
    <3>2. Drawn(it[n - 1], v, Upto(n - 1), {})
      BY <3>1
    <3>3. it[n] = draw_vert_line(it[n - 1], cols[n])
      BY <1>2, <2>4, <3>1 DEF Loops, LoopTurn
    <3>4. Drawn(it[n], it[n - 1], {cols[n]}, {})
      <4>1. Legal(it[n - 1]) /\ cols[n] \in Int
        BY <3>1, <3>2 DEF Drawn
      <4> QED
        BY <3>3, <4>1, DrawCol
    <3>5. Upto(n) = Upto(n - 1) \cup {cols[n]}
      BY <3>1
    <3> HIDE DEF Upto
    <3>6. Drawn(it[n], v, Upto(n - 1) \cup {cols[n]}, {} \cup {})
      BY <3>2, <3>4, DrawnMore
    <3>7. Drawn(it[n], v, Upto(n), {})
      BY <3>5, <3>6
    <3> QED
      BY <2>2, <3>7
  <2> QED
    BY <2>3, <2>4
<1>4. Drawn(it[m], v, Upto(m), {})
  <2>1. m \in 0 .. m
    OBVIOUS
  <2> QED
    BY <1>3, <2>1, Zenon
<1> QED
  BY <1>1, <1>4

-----------------------------------------------------------------------------
(* The copy of set_view_window. *)

\* c is b with the bytes lo to hi - 1 of a copy in place.
Copied(c, b, from, to, lo, hi) ==
  /\ c \in [Cell -> Clean]
  /\ \A j \in Cell : /\ (lo <= j - to /\ j - to < hi) => c[j] = b[j - to + from]
                     /\ ~(lo <= j - to /\ j - to < hi) => c[j] = b[j]

\* One byte copied inside the buffer.
LEMMA CopiedByte ==
  ASSUME NEW c \in [Cell -> Clean], NEW f \in Cell, NEW t \in Int
  PROVE  /\ CopyByte(c, f, t) \in [Cell -> Clean]
         /\ \A j \in Cell : CopyByte(c, f, t)[j] = IF j = t THEN c[f] ELSE c[j]
<1>1. CopyByte(c, f, t) = [c EXCEPT ![t] = c[f]]
  BY DEF CopyByte, Peek
<1>2. c[f] \in Clean
  OBVIOUS
<1> QED
  BY <1>1, <1>2

\* Addresses are numbers.
LEMMA CellInt == \A j \in Cell : j \in Int
  BY BufferInside, Dims DEF Cell

\* Downward the byte read has not been written when the target is higher up.
LEMMA CopyDown ==
  ASSUME NEW b \in [Cell -> Clean], NEW c, NEW from \in Int, NEW to \in Int, from < to,
         NEW lo \in Int, NEW hi \in Int, lo <= hi, Copied(c, b, from, to, lo, hi),
         from + (lo - 1) \in Cell
  PROVE  Copied(CopyByte(c, from + (lo - 1), to + (lo - 1)), b, from, to, lo - 1, hi)
<1> DEFINE f == from + (lo - 1)
           t == to + (lo - 1)
           d == CopyByte(c, f, t)
<1>0. f \in Cell /\ t \in Int /\ f \in Int
  BY CellInt
<1>1. c[f] = b[f]
  <2>1. ~(lo <= f - to /\ f - to < hi)
    OBVIOUS
  <2> QED
    BY <1>0, <2>1 DEF Copied
<1>2. d \in [Cell -> Clean] /\ \A j \in Cell : d[j] = IF j = t THEN c[f] ELSE c[j]
  <2> HIDE DEF f, t
  <2> QED
    BY <1>0, CopiedByte DEF Copied
<1> HIDE DEF d
<1>3. ASSUME NEW j \in Cell, lo - 1 <= j - to /\ j - to < hi PROVE d[j] = b[j - to + from]
  <2>0. j \in Int
    BY CellInt
  <2>1. CASE j = t
    <3>1. j - to + from = f
      BY <2>0, <2>1
    <3> HIDE DEF f, t
    <3> QED
      BY <1>1, <1>2, <2>1, <3>1
  <2>2. CASE j # t
    <3>1. lo <= j - to /\ j - to < hi
      BY <1>3, <2>0, <2>2
    <3> HIDE DEF f, t
    <3> QED
      BY <1>2, <2>2, <3>1 DEF Copied
  <2> QED
    BY <2>1, <2>2
<1>4. ASSUME NEW j \in Cell, ~(lo - 1 <= j - to /\ j - to < hi) PROVE d[j] = b[j]
  <2>0. j \in Int
    BY CellInt
  <2>1. j # t /\ ~(lo <= j - to /\ j - to < hi)
    BY <1>4, <2>0
  <2> HIDE DEF f, t
  <2> QED
    BY <1>2, <2>1 DEF Copied
<1>5. Copied(d, b, from, to, lo - 1, hi)
  BY <1>2, <1>3, <1>4 DEF Copied
<1> QED
  BY <1>5 DEF d

\* Upward when it is not.
LEMMA CopyUp ==
  ASSUME NEW b \in [Cell -> Clean], NEW c, NEW from \in Int, NEW to \in Int, from >= to,
         NEW lo \in Int, NEW hi \in Int, lo <= hi, Copied(c, b, from, to, lo, hi),
         from + hi \in Cell
  PROVE  Copied(CopyByte(c, from + hi, to + hi), b, from, to, lo, hi + 1)
<1> DEFINE f == from + hi
           t == to + hi
           d == CopyByte(c, f, t)
<1>0. f \in Cell /\ t \in Int /\ f \in Int
  BY CellInt
<1>1. c[f] = b[f]
  <2>1. ~(lo <= f - to /\ f - to < hi)
    OBVIOUS
  <2> QED
    BY <1>0, <2>1 DEF Copied
<1>2. d \in [Cell -> Clean] /\ \A j \in Cell : d[j] = IF j = t THEN c[f] ELSE c[j]
  <2> HIDE DEF f, t
  <2> QED
    BY <1>0, CopiedByte DEF Copied
<1> HIDE DEF d
<1>3. ASSUME NEW j \in Cell, lo <= j - to /\ j - to < hi + 1 PROVE d[j] = b[j - to + from]
  <2>0. j \in Int
    BY CellInt
  <2>1. CASE j = t
    <3>1. j - to + from = f
      BY <2>0, <2>1
    <3> HIDE DEF f, t
    <3> QED
      BY <1>1, <1>2, <2>1, <3>1
  <2>2. CASE j # t
    <3>1. lo <= j - to /\ j - to < hi
      BY <1>3, <2>0, <2>2
    <3> HIDE DEF f, t
    <3> QED
      BY <1>2, <2>2, <3>1 DEF Copied
  <2> QED
    BY <2>1, <2>2
<1>4. ASSUME NEW j \in Cell, ~(lo <= j - to /\ j - to < hi + 1) PROVE d[j] = b[j]
  <2>0. j \in Int
    BY CellInt
  <2>1. j # t /\ ~(lo <= j - to /\ j - to < hi)
    BY <1>4, <2>0
  <2> HIDE DEF f, t
  <2> QED
    BY <1>2, <2>1 DEF Copied
<1>5. Copied(d, b, from, to, lo, hi + 1)
  BY <1>2, <1>3, <1>4 DEF Copied
<1> QED
  BY <1>5 DEF d

\* Both directions copy, also when source and target overlap.
LEMMA CopyIs ==
  ASSUME NEW b \in [Cell -> Clean], NEW from \in Int, NEW to \in Int, NEW m \in Nat,
         \A i \in 0 .. m - 1 : from + i \in Cell
  PROVE  Copied(Copy(b, from, to, m), b, from, to, 0, m)
<1> DEFINE s == IF from < to THEN Downward(m) ELSE Upward(m)
           it == CHOOSE f : f = [n \in 0 .. Len(s) |->
                              IF n = 0 THEN b ELSE CopyByte(f[n - 1], from + s[n], to + s[n])]
<1>0. Len(Downward(m)) = m /\ Len(Upward(m)) = m
  BY DEF Downward, Upward
<1>1. Len(s) = m
  BY <1>0
<1>2. Copy(b, from, to, m) = it[Len(s)]
  BY Zenon DEF Copy, CopyLoop
<1>3. \A n \in 1 .. m : s[n] = IF from < to THEN m - n ELSE n - 1
  BY DEF Downward, Upward
<1> HIDE DEF s
<1>4. Loops(it, "byte", from, to, b, s, Len(s))
  <2>0. "byte" # "row" /\ "byte" # "column"
    OBVIOUS
  <2>1. \E f : Loops(f, "byte", from, to, b, s, Len(s))
    BY <1>1, LoopsExist
  <2>2. \E f : f = [n \in 0 .. Len(s) |->
                      IF n = 0 THEN b ELSE CopyByte(f[n - 1], from + s[n], to + s[n])]
    BY <2>0, <2>1, Zenon DEF Loops, LoopTurn
  <2> QED
    BY <2>0, <2>2, Zenon DEF Loops, LoopTurn
<1> HIDE DEF it
<1>5. it[0] = b
  BY <1>1, <1>4 DEF Loops
<1>6. \A n \in 1 .. m : it[n] = CopyByte(it[n - 1], from + s[n], to + s[n])
  <2> TAKE n \in 1 .. m
  <2>1. n \in 0 .. m /\ n # 0
    OBVIOUS
  <2>2. "byte" # "row" /\ "byte" # "column"
    OBVIOUS
  <2> QED
    BY <1>1, <1>4, <2>1, <2>2 DEF Loops, LoopTurn
<1>7. CASE from < to
  <2> DEFINE Bad == {n \in 0 .. m : ~Copied(it[n], b, from, to, m - n, m)}
  <2>1. Bad = {}
    <3> SUFFICES ASSUME Bad # {} PROVE FALSE
      OBVIOUS
    <3>1. Bad \in SUBSET Nat
      OBVIOUS
    <3>2. PICK n \in Bad : \A j \in Bad : n <= j
      BY <3>1, LeastOf
    <3>0. n \in 0 .. m /\ ~Copied(it[n], b, from, to, m - n, m)
      BY <3>2, Zenon
    <3>3. CASE n = 0
      <4>1. Copied(b, b, from, to, m - 0, m)
        BY CellInt DEF Copied
      <4> QED
        BY <1>5, <3>0, <3>3, <4>1
    <3>4. CASE n # 0
      <4>1. n - 1 \in 0 .. m /\ n - 1 \notin Bad /\ n \in 1 .. m
        <5> HIDE DEF Bad
        <5> QED
          BY <3>0, <3>2, <3>4
      <4> DEFINE lo == m - (n - 1)
      <4>2. Copied(it[n - 1], b, from, to, lo, m)
        BY <4>1, Zenon
      <4>3. lo \in Int /\ lo <= m /\ s[n] = lo - 1 /\ lo - 1 = m - n /\ lo - 1 \in 0 .. m - 1
        BY <1>3, <1>7, <4>1
      <4> HIDE DEF lo
      <4>4. Copied(CopyByte(it[n - 1], from + (lo - 1), to + (lo - 1)), b, from, to, lo - 1, m)
        <5>1. from + (lo - 1) \in Cell
          BY <4>3, Zenon
        <5> QED
          BY <1>7, <4>2, <4>3, <5>1, CopyDown
      <4>5. it[n] = CopyByte(it[n - 1], from + (lo - 1), to + (lo - 1))
        BY <1>6, <4>1, <4>3
      <4>6. Copied(it[n], b, from, to, m - n, m)
        BY <4>3, <4>4, <4>5
      <4> QED
        BY <3>0, <4>6
    <3> QED
      BY <3>3, <3>4
  <2>2. m \in 0 .. m /\ m - m = 0
    OBVIOUS
  <2>3. Copied(it[m], b, from, to, m - m, m)
    BY <2>1, <2>2, Zenon
  <2> QED
    BY <1>1, <1>2, <2>2, <2>3
<1>8. CASE ~(from < to)
  <2> DEFINE Bad == {n \in 0 .. m : ~Copied(it[n], b, from, to, 0, n)}
  <2>1. Bad = {}
    <3> SUFFICES ASSUME Bad # {} PROVE FALSE
      OBVIOUS
    <3>1. Bad \in SUBSET Nat
      OBVIOUS
    <3>2. PICK n \in Bad : \A j \in Bad : n <= j
      BY <3>1, LeastOf
    <3>0. n \in 0 .. m /\ ~Copied(it[n], b, from, to, 0, n)
      BY <3>2, Zenon
    <3>3. CASE n = 0
      <4>1. Copied(b, b, from, to, 0, 0)
        BY CellInt DEF Copied
      <4> QED
        BY <1>5, <3>0, <3>3, <4>1
    <3>4. CASE n # 0
      <4>1. n - 1 \in 0 .. m /\ n - 1 \notin Bad /\ n \in 1 .. m
        <5> HIDE DEF Bad
        <5> QED
          BY <3>0, <3>2, <3>4
      <4> DEFINE hi == n - 1
      <4>2. Copied(it[n - 1], b, from, to, 0, hi)
        BY <4>1, Zenon
      <4>3. hi \in Int /\ 0 <= hi /\ s[n] = hi /\ hi + 1 = n /\ hi \in 0 .. m - 1
        BY <1>3, <1>8, <4>1
      <4> HIDE DEF hi
      <4>4. from + hi \in Cell /\ from >= to
        <5>1. from + hi \in Cell
          BY <4>3, Zenon
        <5>2. from >= to
          BY <1>8
        <5> QED
          BY <5>1, <5>2
      <4>5. Copied(CopyByte(it[n - 1], from + hi, to + hi), b, from, to, 0, hi + 1)
        BY <4>2, <4>3, <4>4, CopyUp
      <4>6. it[n] = CopyByte(it[n - 1], from + hi, to + hi)
        BY <1>6, <4>1, <4>3
      <4>7. Copied(it[n], b, from, to, 0, n)
        BY <4>3, <4>5, <4>6
      <4> QED
        BY <3>0, <4>7
    <3> QED
      BY <3>3, <3>4
  <2>2. m \in 0 .. m
    OBVIOUS
  <2>3. Copied(it[m], b, from, to, 0, m)
    BY <2>1, <2>2, Zenon
  <2> QED
    BY <1>1, <1>2, <2>3
<1> QED
  BY <1>7, <1>8

-----------------------------------------------------------------------------
(* The moves of the window. *)

\* The bytes from the room's corner to row y, column x of a plane.
Rel(x, y) == x \div 4 + Row(y)

\* Rel grows with both coordinates.
LEMMA RelUpTo ==
  ASSUME NEW x \in Int, NEW y \in Int, NEW z \in Int, NEW t \in Int, x <= z, y <= t
  PROVE  Rel(x, y) <= Rel(z, t) /\ Rel(x, y) \in Int /\ Rel(z, t) \in Int
<1>1. x \div 4 \in Int /\ z \div 4 \in Int /\ x \div 4 <= z \div 4
  OBVIOUS
<1>2. Row(y) \in Int /\ Row(t) \in Int /\ Row(y) <= Row(t)
  BY RowType, RowUpTo
<1> DEFINE a == x \div 4
           c == z \div 4
           k == Row(y)
           l == Row(t)
<1>3. /\ a \in Int /\ c \in Int /\ k \in Int /\ l \in Int /\ a <= c /\ k <= l
      /\ Rel(x, y) = a + k /\ Rel(z, t) = c + l
  BY <1>1, <1>2 DEF Rel
<1> HIDE DEF a, c, k, l
<1> QED
  BY <1>3

\* Fits in these terms: the window's first byte and its last one, in plane 0.
LEMMA FitsRel ==
  ASSUME NEW off \in Int, NEW x \in Int, NEW y \in Int
  PROVE  Fits(off, x, y) <=> /\ 0 <= off + Rel(x, y)
                             /\ off + Rel(x + 4 * W - 1, y + H - 1) + 3 * P < BUILD_BUF_SIZE
<1>1. /\ W \in Nat /\ H \in Nat /\ P \in Nat /\ SLACK \in Nat /\ Row(y) \in Int /\ Row(H - 1) \in Int
      /\ P = Row(H - 1) + W
  BY Dims, RowPlane, RowType DEF P
<1>2. y + H - 1 = y + (H - 1)
  BY <1>1
<1>3. Row(y + H - 1) = Row(y) + (P - W)
  <2>1. Row(y + (H - 1)) = Row(y) + Row(H - 1)
    BY <1>1, RowSum
  <2> QED
    BY <1>1, <1>2, <2>1
<1>4. BUILD_BUF_SIZE = 4 * P + 1 + SLACK
  BY <1>1 DEF BUILD_BUF_SIZE, SCREEN_SIZE, P
<1> DEFINE e == (x + 4 * W - 1) \div 4
           a == x \div 4
           r == Row(y)
<1>5. e \in Int /\ a \in Int /\ r \in Int
  BY <1>1
<1>6. Fits(off, x, y) <=> off + a + r >= 0 /\ off + 3 * P + e + r + (P - W) <= 4 * P + SLACK
  BY FitsIs
<1>7. Rel(x, y) = a + r /\ Rel(x + 4 * W - 1, y + H - 1) = e + (r + (P - W))
  BY <1>3 DEF Rel
<1> HIDE DEF e, a, r
<1>8. off + 3 * P + e + r + (P - W) <= 4 * P + SLACK
        <=> off + (e + (r + (P - W))) + 3 * P < 4 * P + 1 + SLACK
  BY <1>1, <1>5
<1>9. off + a + r >= 0 <=> 0 <= off + (a + r)
  BY <1>5
<1> QED
  BY <1>4, <1>6, <1>7, <1>8, <1>9

\* The address of a pixel, counted from the room's corner.
LEMMA AddrRel ==
  ASSUME NEW off \in Int, NEW x \in Int, NEW y \in Int
  PROVE  Addr(off, x, y) = off + (Rel(x, y) + Plane(x))
<1> DEFINE a == x \div 4
           r == Row(y)
           q == Plane(x)
<1>1. a \in Int /\ r \in Int /\ q \in Int
  <2>1. P \in Nat
    BY RowPlane DEF P
  <2> QED
    BY <2>1, RowType, PlaneIs
<1>2. Addr(off, x, y) = off + a + r + q
  BY AddrIs
<1>3. Rel(x, y) = a + r
  BY DEF Rel
<1> HIDE DEF a, r, q
<1>4. off + a + r + q = off + (a + r + q)
  BY <1>1
<1> QED
  BY <1>2, <1>3, <1>4 DEF q

\* A window put in the middle of the buffer fits.
LEMMA MiddleFits ==
  ASSUME NEW x \in Nat, NEW y \in Nat
  PROVE  /\ BUILD_BASE_INIT - x \div 4 - y * SCROLL_X_WIDTH \in Int
         /\ Fits(BUILD_BASE_INIT - x \div 4 - y * SCROLL_X_WIDTH, x, y)
<1> DEFINE a == x \div 4
           r == Row(y)
           e == (x + 4 * W - 1) \div 4
           o == BUILD_BASE_INIT - a - r
<1>1. W \in Nat /\ P \in Nat /\ SLACK \in Nat /\ r \in Int /\ a \in Int /\ e \in Int
  BY Dims, RowPlane, RowType DEF P
<1>2. BUILD_BASE_INIT \in 0 .. SLACK
  <2>1. BUILD_BUF_SIZE - SCREEN_SIZE = SLACK
    <3>1. SCREEN_SIZE \in Int
      BY <1>1 DEF SCREEN_SIZE, P
    <3> QED
      BY <1>1, <3>1 DEF BUILD_BUF_SIZE
  <2> QED
    BY <1>1, <2>1 DEF BUILD_BASE_INIT
<1>3. e <= a + W
  BY <1>1
<1>4. o = BUILD_BASE_INIT - x \div 4 - y * SCROLL_X_WIDTH
  BY DEF Row
<1>5. Fits(o, x, y) <=> o + a + r >= 0 /\ o + 3 * P + e + r + (P - W) <= 4 * P + SLACK
  <2>1. o \in Int
    BY <1>1, <1>2
  <2> HIDE DEF o
  <2> QED
    BY <2>1, FitsIs
<1> HIDE DEF a, r, e
<1>6. o \in Int /\ o + a + r >= 0 /\ o + 3 * P + e + r + (P - W) <= 4 * P + SLACK
  BY <1>1, <1>2, <1>3
<1> QED
  BY <1>4, <1>5, <1>6

\* w has the pixels of v that its window shares with that of v.
Kept(w, v) ==
  \A x \in Cols(v) \cap Cols(w), y \in Lines(v) \cap Lines(w) :
    w.b[Addr(w.off, x, y)] = v.b[Addr(v.off, x, y)]

\* The bytes that two windows share, from first to last of plane 0: they are
\* inside the buffer at both places, and every pixel of both windows is there.
LEMMA Shared ==
  ASSUME NEW off \in Int, NEW x0 \in Int, NEW y0 \in Int, Fits(off, x0, y0),
         NEW mx \in Int, NEW my \in Int, mx >= x0, my >= y0,
         NEW nx \in Int, NEW ny \in Int, nx <= x0 + 4 * W - 1, ny <= y0 + H - 1,
         mx <= nx, my <= ny
  PROVE  /\ Rel(mx, my) \in Int /\ Rel(nx, ny) \in Int /\ Rel(mx, my) <= Rel(nx, ny)
         /\ 0 <= off + Rel(mx, my) /\ off + Rel(nx, ny) + 3 * P < BUILD_BUF_SIZE
<1>0. W \in Nat /\ H \in Nat /\ P \in Nat /\ BUILD_BUF_SIZE \in Nat
  BY Dims, RowPlane, BufferInside DEF P
<1>1. 0 <= off + Rel(x0, y0) /\ off + Rel(x0 + 4 * W - 1, y0 + H - 1) + 3 * P < BUILD_BUF_SIZE
  BY FitsRel
<1>2. Rel(x0, y0) <= Rel(mx, my) /\ Rel(x0, y0) \in Int /\ Rel(mx, my) \in Int
  BY RelUpTo
<1>3. Rel(mx, my) <= Rel(nx, ny) /\ Rel(nx, ny) \in Int
  BY RelUpTo
<1> DEFINE ex == x0 + 4 * W - 1
           ey == y0 + H - 1
<1>4. ex \in Int /\ ey \in Int /\ nx <= ex /\ ny <= ey
  BY <1>0
<1>5. off + Rel(ex, ey) + 3 * P < BUILD_BUF_SIZE
  BY <1>1
<1> HIDE DEF ex, ey
<1>6. Rel(nx, ny) <= Rel(ex, ey) /\ Rel(ex, ey) \in Int
  BY <1>4, RelUpTo
<1> QED
  BY <1>0, <1>1, <1>2, <1>3, <1>5, <1>6

\* set_view_window, in its three cases: the window stays inside the buffer, the
\* fence is whole, and every pixel of both windows is where the new offset
\* expects it.
LEMMA WindowMoved ==
  ASSUME NEW v \in Views, Fits(v.off, v.x, v.y), Fenced(v), NEW x \in Nat, NEW y \in Nat,
         NEW w, w = set_view_window(v, x, y)
  PROVE  /\ w \in Views /\ w.x = x /\ w.y = y /\ w.room = v.room /\ w.objs = v.objs
         /\ Fits(w.off, x, y) /\ Fenced(w) /\ Kept(w, v)
<1> DEFINE moved == BUILD_BASE_INIT - x \div 4 - y * SCROLL_X_WIDTH
           mx == Max({x, v.x})
           my == Max({y, v.y})
           nx == Min({x, v.x})
           ny == Min({y, v.y})
           first == Rel(mx, my)
           ex == nx + 4 * W - 1
           ey == ny + H - 1
           last == Rel(ex, ey)
           length == last + 1 - first + 3 * P
           c == Copy(v.b, v.off + first, moved + first, length)
<1>0. /\ v.b \in [Cell -> Clean] /\ v.off \in Int /\ v.x \in Nat /\ v.y \in Nat
      /\ W \in Nat /\ W >= 1 /\ H \in Nat /\ H >= 1 /\ P \in Nat /\ SCROLL_X_DIM = 4 * W
  BY Dims, RowPlane DEF Views, P
<1>1. moved \in Int /\ Fits(moved, x, y)
  BY MiddleFits
<1>2. w = IF Fits(v.off, x, y) THEN [v EXCEPT !.x = x, !.y = y]
          ELSE IF Disjoint(v, x, y) THEN [[v EXCEPT !.x = x, !.y = y] EXCEPT !.off = moved]
          ELSE [[v EXCEPT !.x = x, !.y = y] EXCEPT !.off = moved, !.b = c]
  BY <1>0 DEF set_view_window, Rel, Row, H, P
<1> HIDE DEF moved, c
<1>3. CASE Fits(v.off, x, y)
  <2>1. w \in Views /\ w.x = x /\ w.y = y /\ w.room = v.room /\ w.objs = v.objs /\ w.off = v.off /\ w.b = v.b
    BY <1>2, <1>3 DEF Views
  <2> QED
    BY <1>3, <2>1 DEF Kept, Fenced
<1>4. CASE ~Fits(v.off, x, y) /\ Disjoint(v, x, y)
  <2>1. w \in Views /\ w.x = x /\ w.y = y /\ w.room = v.room /\ w.objs = v.objs /\ w.off = moved /\ w.b = v.b
    BY <1>1, <1>2, <1>4 DEF Views
  <2>2. Cols(v) \cap Cols(w) = {} \/ Lines(v) \cap Lines(w) = {}
    BY <1>0, <1>4, <2>1 DEF Disjoint, Cols, Lines, H
  <2> QED
    BY <1>1, <2>1, <2>2 DEF Kept, Fenced
<1>5. CASE ~Fits(v.off, x, y) /\ ~Disjoint(v, x, y)
  <2>0. /\ mx \in {x, v.x} /\ mx >= x /\ mx >= v.x /\ nx \in {x, v.x} /\ nx <= x /\ nx <= v.x
        /\ my \in {y, v.y} /\ my >= y /\ my >= v.y /\ ny \in {y, v.y} /\ ny <= y /\ ny <= v.y
    <3>1. x \in Int /\ v.x \in Int /\ y \in Int /\ v.y \in Int
      BY <1>0
    <3>2. mx \in {x, v.x} /\ mx >= x /\ mx >= v.x /\ nx \in {x, v.x} /\ nx <= x /\ nx <= v.x
      BY <3>1, TwoMax, Zenon
    <3>3. my \in {y, v.y} /\ my >= y /\ my >= v.y /\ ny \in {y, v.y} /\ ny <= y /\ ny <= v.y
      BY <3>1, TwoMax, Zenon
    <3> QED
      BY <3>2, <3>3
  <2> HIDE DEF mx, my, nx, ny
  <2>1. mx \in Int /\ my \in Int /\ ex \in Int /\ ey \in Int /\ mx <= ex /\ my <= ey
    BY <1>0, <1>5, <2>0 DEF Disjoint, H
  <2>2. ex <= x + 4 * W - 1 /\ ex <= v.x + 4 * W - 1 /\ ey <= y + H - 1 /\ ey <= v.y + H - 1
    BY <1>0, <2>0
  <2> HIDE DEF ex, ey
  <2>3. /\ first \in Int /\ last \in Int /\ first <= last
        /\ 0 <= v.off + first /\ v.off + last + 3 * P < BUILD_BUF_SIZE
    <3> DEFINE o == v.off
               x0 == v.x
               y0 == v.y
    <3>1. /\ o \in Int /\ x0 \in Int /\ y0 \in Int /\ Fits(o, x0, y0) /\ mx >= x0 /\ my >= y0
          /\ ex <= x0 + 4 * W - 1 /\ ey <= y0 + H - 1
      BY <1>0, <2>0, <2>2
    <3> HIDE DEF o, x0, y0
    <3>2. /\ first \in Int /\ last \in Int /\ first <= last
          /\ 0 <= o + first /\ o + last + 3 * P < BUILD_BUF_SIZE
      BY <2>1, <3>1, Shared
    <3> QED
      BY <3>2 DEF o
  <2>4. 0 <= moved + first /\ moved + last + 3 * P < BUILD_BUF_SIZE
    BY <1>0, <1>1, <2>0, <2>1, <2>2, Shared, SMTT(30)
  <2>5. ASSUME NEW s \in Cols(v) \cap Cols(w), NEW t \in Lines(v) \cap Lines(w), w.x = x, w.y = y
        PROVE  /\ s \in Int /\ t \in Int
               /\ Rel(s, t) + Plane(s) \in first .. last + 3 * P
    <3>1. s \in Int /\ t \in Int /\ mx <= s /\ s <= ex /\ my <= t /\ t <= ey
      BY <1>0, <2>0, <2>5 DEF Cols, Lines, ex, ey
    <3>2. first <= Rel(s, t) /\ Rel(s, t) <= last /\ Rel(s, t) \in Int
      BY <2>1, <3>1, RelUpTo
    <3>3. Plane(s) \in 0 .. 3 * P
      BY <3>1, PlaneIs
    <3> HIDE DEF first, last
    <3> QED
      BY <1>0, <2>3, <3>1, <3>2, <3>3
  <2> HIDE DEF first, last
  <2>6. /\ length \in Nat /\ length = last + 3 * P + 1 - first
        /\ v.off + first \in Int /\ moved + first \in Int
    BY <1>0, <1>1, <2>3
  <2>7. \A i \in 0 .. length - 1 : v.off + first + i \in Cell
    <3> TAKE i \in 0 .. length - 1
    <3>1. v.off + first + i \in 0 .. BUILD_BUF_SIZE - 1
      BY <1>0, <2>3, BufferInside
    <3> QED
      BY <3>1, BufferInside
  <2> DEFINE from == v.off + first
             to == moved + first
  <2>8. Copied(c, v.b, from, to, 0, length)
    <3>1. c = Copy(v.b, from, to, length)
      BY DEF c
    <3>2. from \in Int /\ to \in Int /\ \A i \in 0 .. length - 1 : from + i \in Cell
      BY <2>6, <2>7
    <3> HIDE DEF from, to, length
    <3> QED
      BY <1>0, <2>6, <3>1, <3>2, CopyIs, Zenon
  <2>9. /\ w \in Views /\ w.x = x /\ w.y = y /\ w.room = v.room /\ w.objs = v.objs
        /\ w.off = moved /\ w.b = c
    <3>1. c \in [Cell -> Clean]
      BY <2>8 DEF Copied
    <3> QED
      BY <1>1, <1>2, <1>5, <3>1 DEF Views
  <2>10. Fenced(w)
    <3> SUFFICES ASSUME NEW i \in Fence PROVE c[i] = Magic
      BY <2>9 DEF Fenced
    <3>1. i \in Cell /\ i \in Int /\ i \notin 0 .. BUILD_BUF_SIZE - 1
      BY BufferInside, CellInt
    <3>2. ~(0 <= i - to /\ i - to < length)
      BY <1>0, <1>1, <2>3, <2>4, <3>1, BufferInside
    <3> QED
      BY <2>8, <3>1, <3>2 DEF Copied, Fenced
  <2>11. Kept(w, v)
    <3> SUFFICES ASSUME NEW s \in Cols(v) \cap Cols(w), NEW t \in Lines(v) \cap Lines(w)
                 PROVE  c[Addr(moved, s, t)] = v.b[Addr(v.off, s, t)]
      BY <2>9 DEF Kept
    <3> DEFINE k == Rel(s, t) + Plane(s)
               j == moved + k
    <3>1. s \in Int /\ t \in Int /\ k \in first .. last + 3 * P
      BY <2>5, <2>9
    <3>2. Addr(moved, s, t) = j /\ Addr(v.off, s, t) = v.off + k
      BY <1>0, <1>1, <3>1, AddrRel
    <3> HIDE DEF k
    <3>3. k \in Int /\ first <= k /\ k <= last + 3 * P
      BY <1>0, <2>3, <3>1
    <3>4. j \in 0 .. BUILD_BUF_SIZE - 1 /\ 0 <= j - to /\ j - to < length /\ j - to + from = v.off + k
      BY <1>0, <1>1, <2>3, <2>4, <3>3, BufferInside
    <3>5. j \in Cell
      BY <3>4, BufferInside
    <3> HIDE DEF j, from, to, length
    <3> QED
      BY <2>8, <3>2, <3>4, <3>5 DEF Copied
  <2> QED
    BY <1>1, <2>9, <2>10, <2>11
<1> QED
  BY <1>3, <1>4, <1>5

\* Every pixel of the window is in its place.
Built(v) == \A x \in Cols(v), y \in Lines(v) : Good(v, x, y)

\* The window is somewhere in the buffer, and the fence is whole.
Placed(v) == v \in Views /\ Fits(v.off, v.x, v.y) /\ Fenced(v)

\* A legal view is placed and inside the photo.
LEMMA LegalIs == ASSUME NEW v PROVE Legal(v) <=> Placed(v) /\ InPhoto(v)
  BY DEF Legal, Placed

\* The indices of a loop that counts up.
LEMMA UpwardIs ==
  ASSUME NEW m \in Nat
  PROVE  /\ Upward(m) \in [1 .. m -> Int] /\ Len(Upward(m)) = m
         /\ \A k \in 1 .. m : Upward(m)[k] = k - 1
  BY DEF Upward

\* Drawing every line builds the window, whatever was there.
LEMMA RedrawBuilds ==
  ASSUME NEW v, Legal(v), NEW w, w = redraw_room(v)
  PROVE  Legal(w) /\ Built(w) /\ w.room = v.room /\ w.objs = v.objs
<1>0. H \in Nat /\ H >= 1 /\ v.y \in Int
  BY Dims DEF Legal, Views
<1> DEFINE rows == Upward(H)
<1>1. rows \in [1 .. H -> Int] /\ Len(rows) = H /\ \A k \in 1 .. H : rows[k] = k - 1
  BY <1>0, UpwardIs
<1>2. w = DrawRows(v, rows)
  BY DEF redraw_room, H
<1> HIDE DEF rows
<1>3. Drawn(w, v, {}, {rows[k] : k \in 1 .. H})
  BY <1>0, <1>1, <1>2, RowsDrawn
<1>4. Cols(w) = Cols(v) /\ Lines(w) = Lines(v)
  BY <1>3 DEF Drawn, Cols, Lines
<1>5. ASSUME NEW y \in Lines(v) PROVE y - v.y \in {rows[k] : k \in 1 .. H}
  <2> DEFINE k == y - v.y + 1
  <2>1. k \in 1 .. H /\ k - 1 = y - v.y
    BY <1>0 DEF Lines
  <2> HIDE DEF k
  <2>2. rows[k] = y - v.y
    BY <1>1, <2>1
  <2> QED
    BY <2>1, <2>2
<1>6. Built(w)
  BY <1>3, <1>4, <1>5 DEF Drawn, Built
<1> QED
  BY <1>3, <1>6 DEF Drawn

\* A move keeps what both windows show and draws the rest.
LEMMA ScrollBuilds ==
  ASSUME NEW v, Legal(v), Built(v), NEW x \in Nat, NEW y \in Nat,
         x + 4 * W <= Photos[v.room].width, y + H <= Photos[v.room].height,
         NEW w, w = set_view_window(v, x, y)
  PROVE  /\ Legal(w) /\ w.x = x /\ w.y = y /\ w.room = v.room /\ w.objs = v.objs
         /\ \A s \in Cols(v) \cap Cols(w), t \in Lines(v) \cap Lines(w) : Good(w, s, t)
<1>1. /\ w \in Views /\ w.x = x /\ w.y = y /\ w.room = v.room /\ w.objs = v.objs
      /\ Fits(w.off, x, y) /\ Fenced(w) /\ Kept(w, v)
  BY WindowMoved DEF Legal
<1>2. Legal(w)
  BY <1>1 DEF Legal, InPhoto
<1>3. ASSUME NEW s \in Cols(v) \cap Cols(w), NEW t \in Lines(v) \cap Lines(w)
      PROVE  Good(w, s, t)
  <2>1. Good(v, s, t)
    BY DEF Built
  <2>2. w.b[Addr(w.off, s, t)] = v.b[Addr(v.off, s, t)]
    BY <1>1 DEF Kept
  <2>3. Pixel(w, s, t) = Pixel(v, s, t)
    BY <1>1, SameLook
  <2> QED
    BY <2>1, <2>2, <2>3 DEF Good
<1> QED
  BY <1>1, <1>2, <1>3

\* A vertical move that draws the rows it exposes builds the window.
LEMMA RowsScroll ==
  ASSUME NEW v, Legal(v), Built(v), NEW y \in Nat, y + H <= Photos[v.room].height,
         NEW m \in Nat, NEW rows \in [1 .. m -> Int], Len(rows) = m,
         \A t \in y .. y + H - 1 : t \in Lines(v) \/ \E k \in 1 .. m : rows[k] = t - y,
         NEW u, u = DrawRows(set_view_window(v, v.x, y), rows)
  PROVE  Legal(u) /\ Built(u) /\ u.room = v.room /\ u.objs = v.objs
<1> DEFINE w == set_view_window(v, v.x, y)
<1>0. v.x \in Nat /\ v.x + 4 * W <= Photos[v.room].width
  BY DEF Legal, Views, InPhoto
<1>1. /\ Legal(w) /\ w.x = v.x /\ w.y = y /\ w.room = v.room /\ w.objs = v.objs
      /\ \A s \in Cols(v) \cap Cols(w), t \in Lines(v) \cap Lines(w) : Good(w, s, t)
  BY <1>0, ScrollBuilds
<1> HIDE DEF w
<1>2. Drawn(u, w, {}, {rows[k] : k \in 1 .. m})
  BY <1>1, RowsDrawn DEF w
<1>3. Cols(u) = Cols(w) /\ Lines(u) = Lines(w) /\ Cols(w) = Cols(v) /\ Lines(w) = y .. y + H - 1
  BY <1>1, <1>2 DEF Drawn, Cols, Lines
<1>4. ASSUME NEW s \in Cols(w), NEW t \in Lines(w) PROVE Good(u, s, t)
  <2>1. CASE t \in Lines(v)
    BY <1>1, <1>2, <1>3, <2>1 DEF Drawn
  <2>2. CASE t \notin Lines(v)
    <3>1. t - w.y \in {rows[k] : k \in 1 .. m}
      BY <1>1, <1>3, <2>2
    <3> QED
      BY <1>2, <3>1 DEF Drawn
  <2> QED
    BY <2>1, <2>2
<1>5. Built(u)
  BY <1>3, <1>4 DEF Built
<1> QED
  BY <1>1, <1>2, <1>5 DEF Drawn

\* A horizontal move that draws the columns it exposes builds the window.
LEMMA ColsScroll ==
  ASSUME NEW v, Legal(v), Built(v), NEW x \in Nat, x + 4 * W <= Photos[v.room].width,
         NEW m \in Nat, NEW cols \in [1 .. m -> Int], Len(cols) = m,
         \A s \in x .. x + 4 * W - 1 : s \in Cols(v) \/ \E k \in 1 .. m : cols[k] = s - x,
         NEW u, u = DrawCols(set_view_window(v, x, v.y), cols)
  PROVE  Legal(u) /\ Built(u) /\ u.room = v.room /\ u.objs = v.objs
<1> DEFINE w == set_view_window(v, x, v.y)
<1>0. v.y \in Nat /\ v.y + H <= Photos[v.room].height
  BY DEF Legal, Views, InPhoto
<1>1. /\ Legal(w) /\ w.x = x /\ w.y = v.y /\ w.room = v.room /\ w.objs = v.objs
      /\ \A s \in Cols(v) \cap Cols(w), t \in Lines(v) \cap Lines(w) : Good(w, s, t)
  BY <1>0, ScrollBuilds
<1> HIDE DEF w
<1>2. Drawn(u, w, {cols[k] : k \in 1 .. m}, {})
  BY <1>1, ColsDrawn DEF w
<1>3. Cols(u) = Cols(w) /\ Lines(u) = Lines(w) /\ Lines(w) = Lines(v) /\ Cols(w) = x .. x + 4 * W - 1
  BY <1>1, <1>2 DEF Drawn, Cols, Lines
<1>4. ASSUME NEW s \in Cols(w), NEW t \in Lines(w) PROVE Good(u, s, t)
  <2>1. CASE s \in Cols(v)
    BY <1>1, <1>2, <1>3, <2>1 DEF Drawn
  <2>2. CASE s \notin Cols(v)
    <3>1. s - w.x \in {cols[k] : k \in 1 .. m}
      BY <1>1, <1>3, <2>2
    <3> QED
      BY <1>2, <3>1 DEF Drawn
  <2> QED
    BY <2>1, <2>2
<1>5. Built(u)
  BY <1>3, <1>4 DEF Built
<1> QED
  BY <1>1, <1>2, <1>5 DEF Drawn

-----------------------------------------------------------------------------
(* What the build buffer and the screen hold. *)

\* The screen shows the window of v.
Shows(page, v) ==
  \A c \in Window :
    c[2] < SHOWN =>
      page[<<c[1] % 4, c[1] \div 4 + c[2] * SCROLL_X_WIDTH>>] = Pixel(v, v.x + c[1], v.y + c[2])

\* The inductive invariant of the buffer: from set_mode_X on the window fits
\* and the fence is whole; while a room is shown the window is inside the photo
\* and built, and the page drawn, then the page on display, shows it.
BufInv ==
  /\ View \in Views /\ objs \in Layouts[cur_room] /\ commands \in 0 .. MaxCommands
  /\ pc # "text" => Placed(View)
  /\ pc \in {"draw", "flip", "bar", "command"} => Legal(View) /\ Built(View)
  /\ pc = "flip" => Shows(vram[target_img], View)
  /\ pc = "bar" => Shows(vram[start], View)

\* The fields of the current view.
LEMMA ViewIs ==
  /\ View.b = build /\ View.off = img3_off /\ View.x = show_x /\ View.y = show_y
  /\ View.room = cur_room /\ View.objs = objs
  BY DEF View

\* The view after a step that becomes u.
LEMMA BecomeIs ==
  ASSUME NEW u \in Views, Become(u), cur_room' = u.room, objs' = u.objs
  PROVE  View' = u
  BY DEF View, Become, Views

\* The objects of a room are a list.
LEMMA LayoutSeq ==
  ASSUME NEW r \in DOMAIN Photos, NEW list \in Layouts[r]
  PROVE  list \in Seq(Obj)
  BY ObjectAssumption DEF Obj

\* The fence and the first contents of the buffer are clean.
LEMMA MagicClean == Magic \in Clean /\ Black \in Clean
  BY DEF Magic, Black, Clean

\* BufInv holds in text mode, before anything is drawn.
LEMMA BufInit == ASSUME Init PROVE BufInv
<1>1. build \in [Cell -> Clean]
  BY MagicClean DEF Init, Cell
<1>2. /\ img3_off \in Int /\ show_x \in Nat /\ show_y \in Nat
      /\ cur_room \in DOMAIN Photos /\ objs \in Layouts[cur_room] /\ pc = "text" /\ commands = MaxCommands
  BY DEF Init
<1>3. objs \in Seq(Obj)
  BY <1>2, LayoutSeq
<1>4. View \in Views
  BY <1>1, <1>2, <1>3 DEF View, Views
<1>5. commands \in 0 .. MaxCommands
  BY <1>2, CommandAssumption
<1> QED
  BY <1>2, <1>4, <1>5 DEF BufInv

\* set_mode_X puts the window in the middle of the buffer and fills the fence.
LEMMA SetModeBuf == ASSUME BufInv, set_mode_X PROVE BufInv'
<1>0. /\ build \in [Cell -> Clean] /\ cur_room \in DOMAIN Photos /\ objs \in Layouts[cur_room]
      /\ objs \in Seq(Obj) /\ commands \in 0 .. MaxCommands
  BY DEF BufInv, View, Views
<1>1. /\ show_x' = 0 /\ show_y' = 0 /\ img3_off' = BUILD_BASE_INIT
      /\ build' = [i \in DOMAIN build |-> IF i \in Fence THEN Magic ELSE build[i]]
      /\ cur_room' = cur_room /\ objs' = objs /\ commands' = commands /\ pc' \in {"setting", "ended"}
  BY DEF set_mode_X, room
<1>2. build' \in [Cell -> Clean] /\ \A i \in Fence : build'[i] = Magic
  BY <1>0, <1>1, MagicClean, BufferInside
<1>3. BUILD_BASE_INIT \in Int /\ Fits(BUILD_BASE_INIT, 0, 0)
  <2> DEFINE o == BUILD_BASE_INIT - 0 \div 4 - 0 * SCROLL_X_WIDTH
  <2>1. o \in Int /\ Fits(o, 0, 0)
    BY MiddleFits
  <2>2. BUILD_BASE_INIT \in Int
    <3>1. P \in Nat /\ SLACK \in Nat
      BY RowPlane, Dims DEF P
    <3>2. SCREEN_SIZE \in Int
      BY <3>1 DEF SCREEN_SIZE, P
    <3> QED
      BY <3>1, <3>2 DEF BUILD_BASE_INIT, BUILD_BUF_SIZE
  <2>3. o = BUILD_BASE_INIT
    BY <2>2, DimAssumption
  <2> HIDE DEF o
  <2> QED
    BY <2>1, <2>3
<1>4. View' \in Views /\ Placed(View)'
  <2>1. View' = [b |-> build', off |-> BUILD_BASE_INIT, x |-> 0, y |-> 0, room |-> cur_room, objs |-> objs]
    BY <1>1 DEF View
  <2>2. View' \in Views
    BY <1>0, <1>2, <1>3, <2>1 DEF Views
  <2> QED
    BY <1>2, <1>3, <2>1, <2>2 DEF Placed, Fenced
<1> QED
  BY <1>0, <1>1, <1>4 DEF BufInv

\* Steps that leave the buffer and the room alone.
LEMMA BufSame ==
  ASSUME BufInv, UNCHANGED <<buf, room, commands>>,
         pc' # "text" => pc # "text",
         pc' \in {"draw", "flip", "bar", "command"} => pc \in {"draw", "flip", "bar", "command"},
         pc' = "flip" => Shows(vram'[target_img'], View),
         pc' = "bar" => Shows(vram'[start'], View)
  PROVE  BufInv'
<1>1. View' = View /\ objs' = objs /\ cur_room' = cur_room /\ commands' = commands
  BY DEF View, buf, room
<1>2. /\ View' \in Views /\ objs' \in Layouts[cur_room'] /\ commands' \in 0 .. MaxCommands
  BY <1>1 DEF BufInv
<1>3. pc' # "text" => Placed(View')
  BY <1>1 DEF BufInv
<1>4. pc' \in {"draw", "flip", "bar", "command"} => Legal(View') /\ Built(View')
  BY <1>1 DEF BufInv
<1>5. (pc' = "flip" => Shows(vram'[target_img'], View')) /\ (pc' = "bar" => Shows(vram'[start'], View'))
  BY <1>1
<1> QED
  BY <1>2, <1>3, <1>4, <1>5, Zenon DEF BufInv

\* Steps that build the window of the room that is current after them.
LEMMA BufBuilt ==
  ASSUME NEW u, Legal(u), Built(u), Become(u), cur_room' = u.room, objs' = u.objs,
         objs' \in Layouts[cur_room'], commands' \in 0 .. MaxCommands, pc' = "draw"
  PROVE  BufInv'
<1>1. View' = u
  BY BecomeIs DEF Legal
<1>2. Placed(u) /\ u \in Views
  BY LegalIs DEF Legal
<1>3. View' \in Views /\ Placed(View') /\ Legal(View') /\ Built(View')
  BY <1>1, <1>2
<1> QED
  BY <1>3 DEF BufInv

\* A room entered has its window at (0,0), all of it drawn.
LEMMA EnterBuf == ASSUME BufInv, EnterRoom PROVE BufInv'
<1> DEFINE w == set_view_window(View, 0, 0)
           u == redraw_room(w)
<1>1. /\ pc = "enter" /\ Become(u) /\ pc' = "draw" /\ cur_room' = cur_room /\ objs' = objs
      /\ commands' = commands
  BY DEF EnterRoom, room
<1>2. Placed(View) /\ cur_room \in DOMAIN Photos
  BY <1>1 DEF BufInv, View, Views
<1>3. /\ w \in Views /\ w.x = 0 /\ w.y = 0 /\ w.room = cur_room /\ w.objs = objs
      /\ Fits(w.off, 0, 0) /\ Fenced(w)
  BY <1>2, WindowMoved, ViewIs DEF Placed
<1> HIDE DEF w
<1>4. Legal(w)
  <2>1. 4 * W <= Photos[cur_room].width /\ H <= Photos[cur_room].height
    BY <1>2, Dims, DimAssumption DEF H
  <2>2. 0 + 4 * W <= Photos[cur_room].width /\ 0 + H <= Photos[cur_room].height
    BY <2>1, Dims
  <2> QED
    BY <1>3, <2>2 DEF Legal, InPhoto
<1>5. Legal(u) /\ Built(u) /\ u.room = cur_room /\ u.objs = objs
  BY <1>3, <1>4, RedrawBuilds
<1> HIDE DEF u
<1>6. objs \in Layouts[cur_room] /\ commands \in 0 .. MaxCommands
  BY DEF BufInv
<1> QED
  BY <1>1, <1>5, <1>6, BufBuilt

\* A new layout is drawn completely.
LEMMA RedrawBuf == ASSUME BufInv, Redraw PROVE BufInv'
<1> DEFINE w == [View EXCEPT !.objs = objs']
           u == redraw_room(w)
<1>1. /\ pc = "command" /\ Become(u) /\ pc' = "draw" /\ cur_room' = cur_room
      /\ objs' \in Layouts[cur_room] /\ commands' = commands - 1 /\ commands > 0
  BY DEF Redraw, Command
<1>2. Legal(View) /\ View \in Views /\ cur_room \in DOMAIN Photos /\ commands \in 0 .. MaxCommands
  BY <1>1 DEF BufInv, View, Views
<1>3. objs' \in Seq(Obj)
  BY <1>1, <1>2, LayoutSeq
<1>4. /\ w \in Views /\ w.off = View.off /\ w.x = View.x /\ w.y = View.y /\ w.room = View.room
      /\ w.objs = objs' /\ w.b = View.b
  <2> DEFINE v == View
  <2>1. v \in Views
    BY <1>2
  <2>2. w = [v EXCEPT !.objs = objs']
    OBVIOUS
  <2> HIDE DEF v, w
  <2>3. w \in Views /\ w.off = v.off /\ w.x = v.x /\ w.y = v.y /\ w.room = v.room /\ w.objs = objs' /\ w.b = v.b
    BY <1>3, <2>1, <2>2 DEF Views
  <2> QED
    BY <2>3 DEF v
<1> HIDE DEF w
<1>5. Legal(w)
  BY <1>2, <1>4 DEF Legal, InPhoto, Fenced
<1>6. Legal(u) /\ Built(u) /\ u.room = cur_room /\ u.objs = objs'
  BY <1>4, <1>5, RedrawBuilds, ViewIs
<1> HIDE DEF u
<1>7. commands' \in 0 .. MaxCommands
  BY <1>1, <1>2, CommandAssumption
<1> QED
  BY <1>1, <1>6, <1>7, BufBuilt

\* A move never exceeds what is left of the photo.
LEMMA NatMin ==
  ASSUME NEW a \in Nat, NEW b \in Nat
  PROVE  Min({a, b}) \in Nat /\ Min({a, b}) <= b
<1>1. a \in Int /\ b \in Int
  OBVIOUS
<1>2. Min({a, b}) \in {a, b} /\ Min({a, b}) <= b
  BY <1>1, TwoMax, Zenon
<1> DEFINE m == Min({a, b})
<1> HIDE DEF m
<1>3. m \in {a, b} /\ m <= b
  BY <1>2 DEF m
<1>4. m \in Nat
  BY <1>3
<1> QED
  BY <1>3, <1>4 DEF m

\* The four moves, each with the rows or columns that it exposes.
LEMMA MovesBuild ==
  ASSUME BufInv, pc = "command", NEW speed \in Nat, cur_room' = cur_room, objs' = objs,
         \/ move_photo_down(speed) \/ move_photo_up(speed)
         \/ move_photo_left(speed) \/ move_photo_right(speed)
  PROVE  \E u : Legal(u) /\ Built(u) /\ Become(u) /\ cur_room' = u.room /\ objs' = u.objs
<1> DEFINE width == Photos[cur_room].width
           height == Photos[cur_room].height
<1>0. /\ Legal(View) /\ Built(View) /\ show_x \in Nat /\ show_y \in Nat /\ cur_room \in DOMAIN Photos
      /\ W \in Nat /\ H \in Nat /\ SCROLL_X_DIM = 4 * W /\ width \in Nat /\ height \in Nat
  <2>1. Legal(View) /\ Built(View) /\ View \in Views
    BY DEF BufInv
  <2>2. show_x \in Nat /\ show_y \in Nat /\ cur_room \in DOMAIN Photos
    BY <2>1 DEF View, Views
  <2> QED
    BY <2>1, <2>2, Dims, DimAssumption
<1>1. show_x + 4 * W <= width /\ show_y + H <= height
  BY <1>0, ViewIs DEF Legal, InPhoto
<1>2. Lines(View) = show_y .. show_y + H - 1 /\ Cols(View) = show_x .. show_x + 4 * W - 1
  BY ViewIs DEF Lines, Cols
<1> HIDE DEF width, height
<1>3. CASE move_photo_down(speed)
  <2> DEFINE delta == Min({speed, show_y})
             y == show_y - delta
             rows == Upward(delta)
             u == DrawRows(set_view_window(View, show_x, y), rows)
  <2>1. Become(u)
    BY <1>3 DEF move_photo_down
  <2>2. delta \in Nat /\ delta <= show_y
    BY <1>0, NatMin, Zenon
  <2> HIDE DEF delta
  <2>3. rows \in [1 .. delta -> Int] /\ Len(rows) = delta /\ \A k \in 1 .. delta : rows[k] = k - 1
    BY <2>2, UpwardIs
  <2> HIDE DEF rows
  <2>4. y \in Nat /\ y + H <= height
    BY <1>0, <1>1, <2>2
  <2>5. ASSUME NEW t \in y .. y + H - 1, t \notin Lines(View)
        PROVE  \E k \in 1 .. delta : rows[k] = t - y
    <3> DEFINE k == t - y + 1
    <3>1. k \in 1 .. delta /\ k - 1 = t - y
      BY <1>0, <1>2, <2>2, <2>5
    <3> HIDE DEF k
    <3> QED
      BY <2>3, <3>1
  <2> HIDE DEF y
  <2>6. Legal(u) /\ Built(u) /\ u.room = cur_room /\ u.objs = objs
    <3>1. y + H <= Photos[View.room].height
      BY <2>4, ViewIs DEF height
    <3>2. u = DrawRows(set_view_window(View, View.x, y), rows)
      BY ViewIs
    <3>3. \A t \in y .. y + H - 1 : t \in Lines(View) \/ \E k \in 1 .. delta : rows[k] = t - y
      BY <2>5
    <3> HIDE DEF u
    <3>4. Legal(u) /\ Built(u) /\ u.room = View.room /\ u.objs = View.objs
      BY <1>0, <2>2, <2>3, <2>4, <3>1, <3>2, <3>3, RowsScroll, SMTT(30)
    <3> QED
      BY <3>4, ViewIs
  <2> HIDE DEF u
  <2> QED
    BY <2>1, <2>6
<1>4. CASE move_photo_up(speed)
  <2> DEFINE delta == Min({speed, height - SCROLL_Y_DIM - show_y})
             y == show_y + delta
             rows == [k \in 1 .. delta |-> SCROLL_Y_DIM - k]
             u == DrawRows(set_view_window(View, show_x, y), rows)
  <2>1. Become(u)
    BY <1>4 DEF move_photo_up, height
  <2>2. delta \in Nat /\ delta <= height - H - show_y
    <3>1. height - SCROLL_Y_DIM - show_y \in Nat
      BY <1>0, <1>1 DEF H
    <3>2. delta \in Nat /\ delta <= height - SCROLL_Y_DIM - show_y
      BY <3>1, NatMin, Zenon
    <3> QED
      BY <3>2, Zenon DEF H
  <2> HIDE DEF delta
  <2>3. rows \in [1 .. delta -> Int] /\ Len(rows) = delta /\ \A k \in 1 .. delta : rows[k] = H - k
    BY <1>0, <2>2 DEF H
  <2> HIDE DEF rows
  <2>4. y \in Nat /\ y + H <= height
    BY <1>0, <1>1, <2>2
  <2>5. ASSUME NEW t \in y .. y + H - 1, t \notin Lines(View)
        PROVE  \E k \in 1 .. delta : rows[k] = t - y
    <3> DEFINE k == H - (t - y)
    <3>1. k \in 1 .. delta /\ H - k = t - y
      BY <1>0, <1>2, <2>2, <2>5
    <3> HIDE DEF k
    <3> QED
      BY <2>3, <3>1
  <2> HIDE DEF y
  <2>6. Legal(u) /\ Built(u) /\ u.room = cur_room /\ u.objs = objs
    <3>1. y + H <= Photos[View.room].height
      BY <2>4, ViewIs DEF height
    <3>2. u = DrawRows(set_view_window(View, View.x, y), rows)
      BY ViewIs
    <3>3. \A t \in y .. y + H - 1 : t \in Lines(View) \/ \E k \in 1 .. delta : rows[k] = t - y
      BY <2>5
    <3> HIDE DEF u
    <3>4. Legal(u) /\ Built(u) /\ u.room = View.room /\ u.objs = View.objs
      BY <1>0, <2>2, <2>3, <2>4, <3>1, <3>2, <3>3, RowsScroll, SMTT(30)
    <3> QED
      BY <3>4, ViewIs
  <2> HIDE DEF u
  <2> QED
    BY <2>1, <2>6
<1>5. CASE move_photo_left(speed)
  <2> DEFINE delta == Min({speed, width - SCROLL_X_DIM - show_x})
             x == show_x + delta
             cols == [k \in 1 .. delta |-> SCROLL_X_DIM - k]
             u == DrawCols(set_view_window(View, x, show_y), cols)
  <2>1. Become(u)
    BY <1>5 DEF move_photo_left, width
  <2>2. delta \in Nat /\ delta <= width - 4 * W - show_x
    <3>1. width - SCROLL_X_DIM - show_x \in Nat /\ width - SCROLL_X_DIM - show_x = width - 4 * W - show_x
      BY <1>0, <1>1
    <3>2. delta \in Nat /\ delta <= width - SCROLL_X_DIM - show_x
      BY <3>1, NatMin, Zenon
    <3> QED
      BY <3>1, <3>2, Zenon
  <2> HIDE DEF delta
  <2>3. cols \in [1 .. delta -> Int] /\ Len(cols) = delta /\ \A k \in 1 .. delta : cols[k] = 4 * W - k
    BY <1>0, <2>2
  <2> HIDE DEF cols
  <2>4. x \in Nat /\ x + 4 * W <= width
    BY <1>0, <1>1, <2>2
  <2>5. ASSUME NEW s \in x .. x + 4 * W - 1, s \notin Cols(View)
        PROVE  \E k \in 1 .. delta : cols[k] = s - x
    <3> DEFINE k == 4 * W - (s - x)
    <3>1. k \in 1 .. delta /\ 4 * W - k = s - x
      BY <1>0, <1>2, <2>2, <2>5
    <3> HIDE DEF k
    <3> QED
      BY <2>3, <3>1
  <2> HIDE DEF x
  <2>6. Legal(u) /\ Built(u) /\ u.room = cur_room /\ u.objs = objs
    <3>1. x + 4 * W <= Photos[View.room].width
      BY <2>4, ViewIs DEF width
    <3>2. u = DrawCols(set_view_window(View, x, View.y), cols)
      BY ViewIs
    <3>3. \A s \in x .. x + 4 * W - 1 : s \in Cols(View) \/ \E k \in 1 .. delta : cols[k] = s - x
      BY <2>5
    <3> HIDE DEF u
    <3>4. Legal(u) /\ Built(u) /\ u.room = View.room /\ u.objs = View.objs
      BY <1>0, <2>2, <2>3, <2>4, <3>1, <3>2, <3>3, ColsScroll, SMTT(30)
    <3> QED
      BY <3>4, ViewIs
  <2> HIDE DEF u
  <2> QED
    BY <2>1, <2>6
<1>6. CASE move_photo_right(speed)
  <2> DEFINE delta == Min({speed, show_x})
             x == show_x - delta
             cols == Upward(delta)
             u == DrawCols(set_view_window(View, x, show_y), cols)
  <2>1. Become(u)
    BY <1>6 DEF move_photo_right
  <2>2. delta \in Nat /\ delta <= show_x
    BY <1>0, NatMin, Zenon
  <2> HIDE DEF delta
  <2>3. cols \in [1 .. delta -> Int] /\ Len(cols) = delta /\ \A k \in 1 .. delta : cols[k] = k - 1
    BY <2>2, UpwardIs
  <2> HIDE DEF cols
  <2>4. x \in Nat /\ x + 4 * W <= width
    BY <1>0, <1>1, <2>2
  <2>5. ASSUME NEW s \in x .. x + 4 * W - 1, s \notin Cols(View)
        PROVE  \E k \in 1 .. delta : cols[k] = s - x
    <3> DEFINE k == s - x + 1
    <3>1. k \in 1 .. delta /\ k - 1 = s - x
      BY <1>0, <1>2, <2>2, <2>5
    <3> HIDE DEF k
    <3> QED
      BY <2>3, <3>1
  <2> HIDE DEF x
  <2>6. Legal(u) /\ Built(u) /\ u.room = cur_room /\ u.objs = objs
    <3>1. x + 4 * W <= Photos[View.room].width
      BY <2>4, ViewIs DEF width
    <3>2. u = DrawCols(set_view_window(View, x, View.y), cols)
      BY ViewIs
    <3>3. \A s \in x .. x + 4 * W - 1 : s \in Cols(View) \/ \E k \in 1 .. delta : cols[k] = s - x
      BY <2>5
    <3> HIDE DEF u
    <3>4. Legal(u) /\ Built(u) /\ u.room = View.room /\ u.objs = View.objs
      BY <1>0, <2>2, <2>3, <2>4, <3>1, <3>2, <3>3, ColsScroll, SMTT(30)
    <3> QED
      BY <3>4, ViewIs
  <2> HIDE DEF u
  <2> QED
    BY <2>1, <2>6
<1> QED
  BY <1>3, <1>4, <1>5, <1>6

\* Every move, at every speed, leaves the whole window built.
LEMMA MoveBuf == ASSUME BufInv, Move PROVE BufInv'
<1>1. /\ pc = "command" /\ pc' = "draw" /\ commands > 0 /\ commands' = commands - 1
      /\ cur_room' = cur_room /\ objs' = objs
  BY DEF Move, Command, room
<1>2. PICK speed \in Speeds : \/ move_photo_down(speed) \/ move_photo_up(speed)
                              \/ move_photo_left(speed) \/ move_photo_right(speed)
  BY DEF Move
<1>3. speed \in Nat
  BY CommandAssumption
<1>4. PICK u : Legal(u) /\ Built(u) /\ Become(u) /\ cur_room' = u.room /\ objs' = u.objs
  BY <1>1, <1>2, <1>3, MovesBuild
<1>5. objs \in Layouts[cur_room] /\ commands \in 0 .. MaxCommands
  BY DEF BufInv
<1>6. commands' \in 0 .. MaxCommands
  BY <1>1, <1>5, CommandAssumption
<1> QED
  BY <1>1, <1>4, <1>5, <1>6, BufBuilt

\* The plane that copy_image takes display plane x mod 4 from, and the byte
\* that it begins with, are those of column show_x + x.
LEMMA PlaneOffIs ==
  ASSUME show_x \in Nat, NEW x \in Nat
  PROVE  /\ PlaneOff(x % 4) \in Int
         /\ show_x \div 4 + PlaneOff(x % 4) + x \div 4 = (show_x + x) \div 4 + Plane(show_x + x)
<1> DEFINE a == show_x \div 4
           s == show_x % 4
           e == x \div 4
           i == x % 4
           b == (show_x + x) \div 4
           r == (show_x + x) % 4
           q == ((3 - s) - i + 4) % 4
           d == IF 3 - s < i THEN 1 ELSE 0
<1>0. P \in Nat
  BY RowPlane DEF P
<1>1. /\ a \in Int /\ e \in Int /\ b \in Int /\ s \in 0 .. 3 /\ i \in 0 .. 3 /\ r \in 0 .. 3
      /\ show_x = 4 * a + s /\ x = 4 * e + i /\ show_x + x = 4 * b + r
  OBVIOUS
<1>2. q = IF 3 - s < i THEN 7 - s - i ELSE 3 - s - i
  <2> HIDE DEF s, i
  <2>1. \A k, l \in 0 .. 3 : ((3 - k) - l + 4) % 4 = IF 3 - k < l THEN 7 - k - l ELSE 3 - k - l
    OBVIOUS
  <2> QED
    BY <1>1, <2>1
<1>3. PlaneOff(x % 4) = q * P + d
  BY DEF PlaneOff, P
<1>4. Plane(show_x + x) = (3 - r) * P
  BY DEF Plane
<1> HIDE DEF a, s, e, i, b, r, q
<1>5. b = a + e + d /\ q = 3 - r /\ d \in Int /\ q \in Int
  BY <1>1, <1>2
<1> HIDE DEF d
<1> DEFINE z == q * P
<1>6. z \in Int /\ z = (3 - r) * P
  BY <1>0, <1>5
<1> HIDE DEF z
<1>7. a + (z + d) + e = b + z /\ z + d \in Int
  BY <1>1, <1>5, <1>6
<1> QED
  BY <1>3, <1>4, <1>6, <1>7 DEF a, e, b, z

\* copy_image puts every pixel of the window at its place of the screen.
LEMMA ImageShows ==
  ASSUME Legal(View), Built(View), NEW page \in Pages, DOMAIN vram = Pages, DOMAIN vram[page] = Cells
  PROVE  Shows(copy_image(page)[page], View)
<1>0. /\ build \in [Cell -> Clean] /\ img3_off \in Int /\ show_x \in Nat /\ show_y \in Nat
      /\ W \in Nat /\ W >= 1 /\ H \in Nat /\ H >= 1 /\ P \in Nat /\ P = Row(H - 1) + W
      /\ SCROLL_X_DIM = 4 * W /\ SHOWN \in 0 .. H
  <2>1. build \in [Cell -> Clean] /\ img3_off \in Int /\ show_x \in Nat /\ show_y \in Nat
    BY DEF Legal, View, Views
  <2> QED
    BY <2>1, Dims, RowPlane, DimAssumption DEF P, H
<1> SUFFICES ASSUME NEW c \in Window, c[2] < SHOWN
             PROVE  copy_image(page)[page][<<c[1] % 4, c[1] \div 4 + c[2] * SCROLL_X_WIDTH>>]
                      = Pixel(View, show_x + c[1], show_y + c[2])
  BY ViewIs DEF Shows
<1> DEFINE x == c[1]
           y == c[2]
           k == x \div 4 + Row(y)
           addr == img3_off + show_x \div 4 + show_y * SCROLL_X_WIDTH
           cell == <<x % 4, k>>
<1>1. x \in 0 .. 4 * W - 1 /\ y \in 0 .. H - 1 /\ y < SHOWN
  BY <1>0 DEF Window, H
<1> HIDE DEF x, y
<1>2. x \in Nat /\ y \in Nat /\ x % 4 \in 0 .. 3 /\ x \div 4 \in 0 .. W - 1
  BY <1>0, <1>1
<1>3. Row(y) \in Int /\ Row(y) >= 0 /\ Row(y) <= P - W
  <2>1. y \in Int /\ 0 <= y /\ y <= H - 1 /\ H - 1 \in Int
    BY <1>0, <1>1
  <2>2. Row(y) \in Int /\ Row(0) <= Row(y) /\ Row(y) <= Row(H - 1) /\ Row(H - 1) \in Int
    BY <2>1, RowType, RowUpTo
  <2> QED
    BY <1>0, <2>2, RowPlane
<1>4. k \in 0 .. P - 1 /\ k < Row(SHOWN)
  <2>1. Row(y) + W <= Row(SHOWN) /\ Row(SHOWN) \in Int
    BY <1>0, <1>1, <1>2, RowLess, RowType
  <2> DEFINE e == x \div 4
             r == Row(y)
  <2>2. e \in 0 .. W - 1 /\ r \in Int /\ r >= 0 /\ r <= P - W /\ r + W <= Row(SHOWN) /\ k = e + r
    BY <1>2, <1>3, <2>1
  <2> HIDE DEF e, r, k
  <2> QED
    BY <1>0, <2>1, <2>2
<1>5. cell \in Cells
  BY <1>2, <1>4 DEF Cells, P
<1>6. copy_image(page)[page][cell] = Peek(build, addr + PlaneOff(x % 4) + k)
  <2>1. cell[2] = k /\ cell[1] = x % 4
    OBVIOUS
  <2>2. cell[2] < SHOWN * SCROLL_X_WIDTH
    BY <1>4, <2>1 DEF Row
  <2> HIDE DEF cell, k, addr
  <2>3. copy_image(page)[page][cell]
          = IF cell[2] < SHOWN * SCROLL_X_WIDTH THEN Peek(build, addr + PlaneOff(cell[1]) + cell[2])
            ELSE vram[page][cell]
    BY <1>5 DEF copy_image, addr
  <2> QED
    BY <2>1, <2>2, <2>3
<1>7. addr + PlaneOff(x % 4) + k = Addr(img3_off, show_x + x, show_y + y)
  <2> DEFINE a == show_x \div 4
             q == PlaneOff(x % 4)
             e == x \div 4
             b == (show_x + x) \div 4
             p == Plane(show_x + x)
             r == Row(show_y)
             t == Row(y)
  <2>1. q \in Int /\ a + q + e = b + p
    BY <1>0, <1>2, PlaneOffIs
  <2>2. a \in Int /\ e \in Int /\ b \in Int /\ r \in Int /\ t \in Int
    BY <1>0, <1>2, <1>3, RowType
  <2>3. p \in Int
    <3>1. show_x + x \in Int
      BY <1>0, <1>2
    <3> QED
      BY <1>0, <3>1, PlaneIs
  <2>4. Addr(img3_off, show_x + x, show_y + y) = img3_off + b + (r + t) + p
    <3>1. Row(show_y + y) = r + t
      BY <1>0, <1>2, RowSum
    <3> QED
      BY <3>1, AddrIs
  <2>5. addr = img3_off + a + r /\ k = e + t
    BY DEF Row
  <2> HIDE DEF a, q, e, b, p, r, t, addr, k
  <2>6. img3_off + a + r + q + (e + t) = img3_off + b + (r + t) + p
    BY <1>0, <2>1, <2>2, <2>3
  <2> QED
    BY <2>4, <2>5, <2>6 DEF q
<1> DEFINE s == show_x + x
           u == show_y + y
<1>8. s \in Cols(View) /\ u \in Lines(View)
  BY <1>0, <1>1, ViewIs DEF Cols, Lines
<1> HIDE DEF s, u
<1>9. Addr(img3_off, s, u) \in Cell
  <2>1. Fits(img3_off, show_x, show_y)
    BY ViewIs DEF Legal
  <2>2. s \in show_x .. show_x + 4 * W - 1 /\ u \in show_y .. show_y + H - 1
    BY <1>8, ViewIs DEF Cols, Lines
  <2>3. show_x \in Int /\ show_y \in Int
    BY <1>0
  <2>4. Addr(img3_off, s, u) \in 0 .. BUILD_BUF_SIZE - 1
    BY <1>0, <2>1, <2>2, <2>3, AddrInside
  <2> QED
    BY <2>4, BufferInside
<1>10. Peek(build, Addr(img3_off, s, u)) = Pixel(View, s, u)
  <2>1. Good(View, s, u)
    BY <1>8 DEF Built
  <2>2. build[Addr(img3_off, s, u)] = Pixel(View, s, u)
    BY <2>1, ViewIs DEF Good
  <2>3. Peek(build, Addr(img3_off, s, u)) = build[Addr(img3_off, s, u)]
    BY <1>0, <1>9 DEF Peek
  <2> QED
    BY <2>2, <2>3
<1>11. copy_image(page)[page][cell] = Pixel(View, show_x + x, show_y + y)
  BY <1>6, <1>7, <1>10 DEF s, u
<1> QED
  BY <1>11 DEF x, y, Row

\* BufInv is inductive, given the invariants of the mode and of the pages.
LEMMA BufStep == ASSUME BufInv, ModeInv, PageInv, [Next]_vars PROVE BufInv'
<1>1. CASE set_mode_X
  BY <1>1, SetModeBuf
<1>2. CASE SwitchMode
  <2>1. pc \in {"setting", "clearing"}
    <3>1. todo # <<>>
      BY <1>2 DEF SwitchMode
    <3> QED
      BY <3>1 DEF ModeInv, InMode
  <2>2. UNCHANGED <<buf, room, commands>> /\ pc' \in {"setting", "clearing", "enter", "ended"}
    BY <1>2, <2>1 DEF SwitchMode
  <2> QED
    BY <2>1, <2>2, BufSame
<1>3. CASE EnterRoom
  BY <1>3, EnterBuf
<1>4. CASE show_screen
  <2>1. /\ pc = "draw" /\ pc' = "flip" /\ target_img' = 1 - target_img
        /\ vram' = copy_image(target_img') /\ UNCHANGED <<buf, room, commands>>
    BY <1>4 DEF show_screen
  <2> DEFINE page == target_img'
  <2>2. page \in Pages /\ DOMAIN vram = Pages /\ DOMAIN vram[page] = Cells
    <3>1. target_img \in Pages /\ DOMAIN vram = Pages /\ \A p \in Pages : DOMAIN vram[p] = Cells
      BY DEF PageInv
    <3>2. page \in Pages
      BY <2>1, <3>1 DEF Pages
    <3> QED
      BY <3>1, <3>2
  <2>3. Legal(View) /\ Built(View)
    BY <2>1 DEF BufInv
  <2>4. Shows(copy_image(page)[page], View)
    <3> HIDE DEF page
    <3> QED
      BY <2>2, <2>3, ImageShows
  <2>5. Shows(vram'[target_img'], View)
    BY <2>1, <2>4
  <2> QED
    BY <2>1, <2>5, BufSame
<1>5. CASE ShowPage
  <2>1. /\ pc = "flip" /\ pc' = "bar" /\ start' = target_img /\ vram' = vram
        /\ UNCHANGED <<buf, room, commands>>
    BY <1>5 DEF ShowPage
  <2>2. Shows(vram'[start'], View)
    BY <2>1 DEF BufInv
  <2> QED
    BY <2>1, <2>2, BufSame
<1>6. CASE show_status_bar
  <2>1. pc = "bar" /\ pc' = "command" /\ UNCHANGED <<buf, room, commands>>
    BY <1>6 DEF show_status_bar
  <2> QED
    BY <2>1, BufSame
<1>7. CASE Move
  BY <1>7, MoveBuf
<1>8. CASE Redraw
  BY <1>8, RedrawBuf
<1>9. CASE ChangeRoom
  <2>1. /\ pc = "command" /\ pc' = "enter" /\ commands > 0 /\ commands' = commands - 1
        /\ cur_room' \in DOMAIN Photos /\ objs' \in Layouts[cur_room'] /\ UNCHANGED buf
    BY <1>9 DEF ChangeRoom, Command
  <2>2. objs' \in Seq(Obj)
    BY <2>1, LayoutSeq
  <2>3. Placed(View) /\ commands \in 0 .. MaxCommands
    BY <2>1 DEF BufInv
  <2>4. /\ View' \in Views /\ View'.b = View.b /\ View'.off = View.off
        /\ View'.x = View.x /\ View'.y = View.y
    BY <2>1, <2>2, <2>3 DEF View, Views, Placed, buf
  <2>5. Placed(View')
    BY <2>3, <2>4 DEF Placed, Fenced
  <2>6. commands' \in 0 .. MaxCommands
    BY <2>1, <2>3, CommandAssumption
  <2> QED
    BY <2>1, <2>4, <2>5, <2>6 DEF BufInv
<1>10. CASE clear_mode_X
  <2>1. pc = "command" /\ pc' = "clearing" /\ UNCHANGED <<buf, room, commands>>
    BY <1>10 DEF clear_mode_X
  <2> QED
    BY <2>1, BufSame
<1>11. CASE UNCHANGED vars
  <2>1. pc' = pc /\ UNCHANGED <<buf, room, commands, vram, target_img, start>>
    BY <1>11 DEF vars
  <2>2. pc = "flip" => Shows(vram'[target_img'], View)
    BY <2>1 DEF BufInv
  <2>3. pc = "bar" => Shows(vram'[start'], View)
    BY <2>1 DEF BufInv
  <2> QED
    BY <2>1, <2>2, <2>3, BufSame
<1> QED
  BY <1>1, <1>2, <1>3, <1>4, <1>5, <1>6, <1>7, <1>8, <1>9, <1>10, <1>11 DEF Next, Ended

\* Whatever the size of the window, the slack of the build buffer, the photos
\* and the objects, and however often the window is scrolled or moved to
\* another room: neither the lines nor the copy of set_view_window leave the
\* build buffer, so that its fence is whole, no callback reads outside a photo,
\* and the window's position is legal.
THEOREM BuffersAreSafe == Spec => []InsideBuffers
<1>1. ASSUME BufInv, ModeInv, PageInv PROVE InsideBuffers
  <2>1. View \in Views
    BY <1>1 DEF BufInv
  <2>2. /\ build \in [Cell -> Clean] /\ img3_off \in Int /\ show_x \in Nat /\ show_y \in Nat
        /\ cur_room \in DOMAIN Photos
    BY <2>1 DEF View, Views
  <2>3. TypeOK
    <3>1. DOMAIN build = -MEM_FENCE_WIDTH .. BUILD_BUF_SIZE + MEM_FENCE_WIDTH - 1
      BY <2>2 DEF Cell
    <3>2. objs \in Layouts[cur_room] /\ commands \in 0 .. MaxCommands
      BY <1>1 DEF BufInv
    <3>3. DOMAIN vram = Pages /\ target_img \in Pages /\ start \in Pages
      BY <1>1 DEF PageInv
    <3>4. /\ vga \in [Groups -> {"text", "X"}] /\ blanked \in BOOLEAN /\ fonts \in BOOLEAN
          /\ pc \in {"text", "setting", "enter", "draw", "flip", "bar", "command", "clearing", "ended"}
      BY <1>1 DEF ModeInv, Playing
    <3> QED
      BY <2>2, <3>1, <3>2, <3>3, <3>4, Zenon DEF TypeOK
  <2>4. FenceIntact
    BY <1>1, ViewIs DEF BufInv, Placed, Fenced, FenceIntact
  <2>5. NoStrayRead
    BY <2>2, NotWild DEF NoStrayRead
  <2> QED
    BY <2>3, <2>4, <2>5 DEF InsideBuffers
<1> QED
  BY <1>1, ModeInit, ModeStep, PageInit, PageStep, BufInit, BufStep, PTL DEF Spec

\* Inside the photo, what the player should see is the pixel of the room.
LEMMA VisibleIs ==
  ASSUME Legal(View), NEW x \in Cols(View), NEW y \in Lines(View)
  PROVE  Visible(x, y) = Pixel(View, x, y)
<1>1. View \in Views /\ InPhoto(View)
  BY DEF Legal
<1>2. /\ x \in 0 .. Photos[View.room].width - 1 /\ y \in 0 .. Photos[View.room].height - 1
      /\ Photos[View.room].width \in Nat /\ Photos[View.room].height \in Nat
  BY <1>1, PhotoSize
<1>3. x < Photos[cur_room].width /\ y < Photos[cur_room].height
  BY <1>2, ViewIs
<1>4. View.room = cur_room
  BY ViewIs
<1> QED
  BY <1>3, <1>4, Zenon DEF Visible, Pixel, Below

\* The pixels that a move keeps, copies and draws add up to the window: when
\* the loop shows the screen every pixel of the window is in the build buffer
\* at its place, and after the switch of pages it is on the screen, for every
\* size of window, photo and object and every sequence of moves.
THEOREM WindowIsShown == Spec => []ShowsWindow
<1>1. ASSUME BufInv, ModeInv, PageInv PROVE ShowsWindow
  <2>0. /\ pc \in {"draw", "bar"} => Legal(View) /\ Built(View)
        /\ pc = "bar" => Shows(vram[start], View)
    BY <1>1 DEF BufInv
  <2>1. ASSUME pc \in {"draw", "bar"}, NEW c \in Window
        PROVE  /\ show_x + c[1] \in Cols(View) /\ show_y + c[2] \in Lines(View)
               /\ Visible(show_x + c[1], show_y + c[2]) = Pixel(View, show_x + c[1], show_y + c[2])
    <3>1. c[1] \in 0 .. 4 * W - 1 /\ c[2] \in 0 .. H - 1
      BY Dims DEF Window, H
    <3>2. show_x \in Nat /\ show_y \in Nat
      BY <2>0, <2>1 DEF Legal, View, Views
    <3>3. show_x + c[1] \in Cols(View) /\ show_y + c[2] \in Lines(View)
      BY <3>1, <3>2, Dims, ViewIs DEF Cols, Lines
    <3> QED
      BY <2>0, <2>1, <3>3, VisibleIs
  <2>2. WindowBuilt
    <3> SUFFICES ASSUME pc = "draw", NEW c \in Window
                 PROVE  Peek(build, Addr(img3_off, show_x + c[1], show_y + c[2]))
                          = Visible(show_x + c[1], show_y + c[2])
      BY DEF WindowBuilt
    <3> DEFINE s == show_x + c[1]
               u == show_y + c[2]
    <3>1. s \in Cols(View) /\ u \in Lines(View) /\ Visible(s, u) = Pixel(View, s, u)
      BY <2>1
    <3> HIDE DEF s, u
    <3>2. Legal(View) /\ Good(View, s, u)
      BY <2>0, <3>1 DEF Built
    <3>3. build[Addr(img3_off, s, u)] = Pixel(View, s, u)
      BY <3>2, ViewIs DEF Good
    <3>4. Addr(img3_off, s, u) \in DOMAIN build
      <4>1. /\ build \in [Cell -> Clean] /\ img3_off \in Int /\ show_x \in Int /\ show_y \in Int
            /\ Fits(img3_off, show_x, show_y)
        BY <3>2, ViewIs DEF Legal, Views
      <4>2. s \in show_x .. show_x + 4 * W - 1 /\ u \in show_y .. show_y + H - 1
        BY <3>1, ViewIs DEF Cols, Lines
      <4>3. Addr(img3_off, s, u) \in 0 .. BUILD_BUF_SIZE - 1
        BY <4>1, <4>2, AddrInside
      <4> QED
        BY <4>1, <4>3, BufferInside
    <3>5. Peek(build, Addr(img3_off, s, u)) = Visible(s, u)
      BY <3>1, <3>3, <3>4 DEF Peek
    <3> QED
      BY <3>5 DEF s, u
  <2>3. ScreenIsWindow
    <3> SUFFICES ASSUME pc = "bar", NEW c \in Window, c[2] < SHOWN
                 PROVE  vram[start][<<c[1] % 4, c[1] \div 4 + c[2] * SCROLL_X_WIDTH>>]
                          = Visible(show_x + c[1], show_y + c[2])
      BY DEF ScreenIsWindow
    <3>1. Shows(vram[start], View)
      BY <2>0
    <3>2. vram[start][<<c[1] % 4, c[1] \div 4 + c[2] * SCROLL_X_WIDTH>>]
            = Pixel(View, View.x + c[1], View.y + c[2])
      BY <3>1, Zenon DEF Shows
    <3>3. Visible(show_x + c[1], show_y + c[2]) = Pixel(View, show_x + c[1], show_y + c[2])
      BY <2>1
    <3> QED
      BY <3>2, <3>3, ViewIs, Zenon
  <2> QED
    BY <2>2, <2>3 DEF ShowsWindow
<1> QED
  BY <1>1, ModeInit, ModeStep, PageInit, PageStep, BufInit, BufStep, PTL DEF Spec

=============================================================================
