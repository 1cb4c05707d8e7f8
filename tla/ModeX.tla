------------------------------- MODULE ModeX -------------------------------
(***************************************************************************)
(* The adventure game's graphics: the build buffer of four interleaved     *)
(* planes in which a view window scrolls over the photo of a room          *)
(* (modex.c), the callbacks that fill a line with photo and object pixels  *)
(* (photo.c), the moves of the window (adventure.c), the two pages of      *)
(* video memory and the register sequences that enter and leave mode X.    *)
(*                                                                         *)
(* A pixel is <<image, index>>: which image it comes from and its place in *)
(* that image's file, so that a pixel drawn in the wrong place, or from   *)
(* the wrong room, is a different value.  The window's position is kept    *)
(* once, in show_x and show_y: game_info.map_x and map_y are copied there  *)
(* by every operation that changes them.                                   *)
(***************************************************************************)
EXTENDS Integers, Sequences, SequencesExt

CONSTANTS
  SCROLL_X_WIDTH,   \* bytes of a row in one plane (80)
  SCROLL_Y_DIM,     \* rows of the window (200)
  SHOWN,            \* rows that copy_image copies (14560 / 80 = 182)
  BAR,              \* rows of the status bar (1440 / 80 = 18)
  SLACK,            \* bytes of the build buffer beyond a screen (20000)
  MEM_FENCE_WIDTH,  \* guard bytes on each side of the build buffer (256)
  Photos,           \* room |-> [width, height] of its photo
  Images,           \* object |-> [width, height, clear]; clear: its
                    \* transparent pixels, by their place in its file
  Layouts,          \* room |-> the object lists it may hold, each a sequence
                    \* of [obj, x, y]
  Speeds,           \* pixels per move (MOTION_SPEED, and three times it)
  MaxCommands       \* bound: commands given in a game

SCROLL_X_DIM == 4 * SCROLL_X_WIDTH
SCROLL_SIZE == SCROLL_X_WIDTH * SCROLL_Y_DIM
SCREEN_SIZE == SCROLL_SIZE * 4 + 1
BUILD_BUF_SIZE == SCREEN_SIZE + SLACK
BUILD_BASE_INIT == (BUILD_BUF_SIZE - SCREEN_SIZE) \div 2

\* The photos of the game are at least as large as the window, and a row of
\* text at the bottom of the screen is not copied.
ASSUME DimAssumption ==
  /\ SCROLL_X_WIDTH \in Nat \ {0} /\ SCROLL_Y_DIM \in Nat \ {0}
  /\ SHOWN \in 0 .. SCROLL_Y_DIM /\ BAR \in 0 .. SHOWN
  /\ SLACK \in Nat /\ MEM_FENCE_WIDTH \in Nat
  /\ \A r \in DOMAIN Photos : /\ Photos[r].width \in Nat
                              /\ Photos[r].height \in Nat
                              /\ Photos[r].width >= SCROLL_X_DIM
                              /\ Photos[r].height >= SCROLL_Y_DIM

\* Objects may lie anywhere, also partly outside the photo.  "wild" is nobody's
\* name.
ASSUME ObjectAssumption ==
  /\ \A o \in DOMAIN Images : Images[o].width \in Nat /\ Images[o].height \in Nat
  /\ \A r \in DOMAIN Photos : \A list \in Layouts[r] :
       list \in Seq([obj : DOMAIN Images, x : Int, y : Int])
  /\ "wild" \notin DOMAIN Photos \cup DOMAIN Images

ASSUME CommandAssumption == Speeds \subseteq Nat /\ MaxCommands \in Nat

VARIABLES
  build,       \* the build buffer with its fence, from -MEM_FENCE_WIDTH
  img3_off,    \* offset in build of pixel (0,0) of the photo, plane 3
  show_x, show_y, \* upper left pixel of the view window
  cur_room,    \* the room whose photo the callbacks draw
  objs,        \* the objects in that room, in the order they are drawn
  vram,        \* page |-> plane and offset |-> pixel
  target_img,  \* the page drawn last
  start,       \* the page that the CRTC start address points at
  vga,         \* register group |-> mode whose table it was given last
  blanked,     \* the sequencer's screen-off bit
  fonts,       \* the font is in video memory
  todo,        \* steps of set_mode_X or set_text_mode_3 still to come
  commands,    \* commands still to be given (bound)
  pc           \* where the program is

buf == <<build, img3_off, show_x, show_y>>
room == <<cur_room, objs>>
mode == <<vga, blanked, fonts, todo>>
vars == <<buf, room, vram, target_img, start, mode, commands, pc>>

Black == <<"black", 0>>
Magic == <<"magic", 0>>   \* MEM_FENCE_MAGIC
Wild  == <<"wild", 0>>    \* whatever lies outside an array that is read
Bar   == <<"bar", 0>>
Pages == {0, 1}           \* target_img 0x0000 and 0x4000
Groups == {"seq", "crtc", "attr", "graphics", "palette"}

-----------------------------------------------------------------------------
\* A read of an array, which may miss it.
Peek(b, i) == IF i \in DOMAIN b THEN b[i] ELSE Wild

(* A view: the part of the state that the drawing functions read and write. *)

View == [b |-> build, off |-> img3_off, x |-> show_x, y |-> show_y,
         room |-> cur_room, objs |-> objs]

Become(v) ==
  /\ build' = v.b /\ img3_off' = v.off
  /\ show_x' = v.x /\ show_y' = v.y

(* The callbacks: one line of the room's picture. *)

\* The array that a file is read into.  The file has the bottom row first, the
\* array the top row; pixel <<name, k>> is the k-th of the file.
FromFile(name, width, height) ==
  [i \in 0 .. width * height - 1 |->
     <<name, (height - 1 - (i \div width)) * width + (i % width)>>]

read_photo ==
  [r \in DOMAIN Photos |-> FromFile(r, Photos[r].width, Photos[r].height)]
read_obj_image ==
  [o \in DOMAIN Images |-> FromFile(o, Images[o].width, Images[o].height)]

\* The pixel at index i of the current photo's array.
PhotoPixel(v, i) == Peek(read_photo[v.room], i)

\* The pixel that the objects leave at (x,y), given the photo's pixel there:
\* the last object on the list with an opaque pixel at (x,y) is on top.
Overlay(v, x, y, below) ==
  LET img(o) == read_obj_image[o.obj][(y - o.y) * Images[o.obj].width
                                      + (x - o.x)]
      Covers(o) == /\ x - o.x \in 0 .. Images[o.obj].width - 1
                   /\ y - o.y \in 0 .. Images[o.obj].height - 1
                   /\ img(o)[2] \notin Images[o.obj].clear
      tops == {k \in DOMAIN v.objs : Covers(v.objs[k])}
  IN IF tops = {} THEN below ELSE img(v.objs[Max(tops)])

fill_horiz_buffer(v, x, y) ==
  [idx \in 0 .. SCROLL_X_DIM - 1 |->
     Overlay(v, x + idx, y,
             IF x + idx \in 0 .. Photos[v.room].width - 1
             THEN PhotoPixel(v, Photos[v.room].width * y + x + idx)
             ELSE Black)]

fill_vert_buffer(v, x, y) ==
  [idx \in 0 .. SCROLL_Y_DIM - 1 |->
     Overlay(v, x, y + idx,
             IF y + idx \in 0 .. Photos[v.room].height - 1
             THEN PhotoPixel(v, Photos[v.room].width * (y + idx) + x)
             ELSE Black)]

-----------------------------------------------------------------------------
(* The build buffer. *)

Fence == (-MEM_FENCE_WIDTH .. -1)
         \cup (BUILD_BUF_SIZE .. BUILD_BUF_SIZE + MEM_FENCE_WIDTH - 1)

\* Write a set of [at, val] pairs, one per address.
Poke(b, puts) ==
  [i \in DOMAIN b |->
     LET here == {p \in puts : p.at = i}
     IN IF here = {} THEN b[i] ELSE (CHOOSE p \in here : TRUE).val]

\* Address of pixel (x,y), in the plane of x's two low bits.
Addr(off, x, y) ==
  off + x \div 4 + y * SCROLL_X_WIDTH + (3 - (x % 4)) * SCROLL_SIZE

draw_vert_line(v, col) ==
  IF col \notin 0 .. SCROLL_X_DIM - 1 THEN v
  ELSE LET line == fill_vert_buffer(v, v.x + col, v.y)
       IN [v EXCEPT !.b = Poke(@, {[at  |-> Addr(v.off, v.x + col, v.y + i),
                                    val |-> line[i]] : i \in DOMAIN line})]

draw_horiz_line(v, row) ==
  IF row \notin 0 .. SCROLL_Y_DIM - 1 THEN v
  ELSE LET line == fill_horiz_buffer(v, v.x, v.y + row)
       IN [v EXCEPT !.b = Poke(@, {[at  |-> Addr(v.off, v.x + i, v.y + row),
                                    val |-> line[i]] : i \in DOMAIN line})]

\* The copy loop of set_view_window, byte by byte: source and target may
\* overlap, so the order of the indices matters.
CopyByte(b, from, to) == [b EXCEPT ![to] = Peek(b, from)]

CopyLoop(b, from, to, indices) ==
  LET copied[n \in 0 .. Len(indices)] ==
        IF n = 0 THEN b
        ELSE CopyByte(copied[n - 1], from + indices[n], to + indices[n])
  IN copied[Len(indices)]

Upward(n) == [k \in 1 .. n |-> k - 1]
Downward(n) == [k \in 1 .. n |-> n - k]

\* Mutant: the direction is the wrong one for an overlap.
CopyWrongWay(b, from, to, n) ==
  CopyLoop(b, from, to, IF from < to THEN Upward(n) ELSE Downward(n))
Copy(b, from, to, n) ==
  CopyLoop(b, from, to, IF from < to THEN Downward(n) ELSE Upward(n))

\* Mutant: the room behind plane 3 is not asked for.
FitsAnyPlane(off, x, y) ==
  /\ off + x \div 4 + y * SCROLL_X_WIDTH >= 0
  /\ off + (x + SCROLL_X_DIM - 1) \div 4
         + (y + SCROLL_Y_DIM - 1) * SCROLL_X_WIDTH < BUILD_BUF_SIZE
Fits(off, x, y) ==
  /\ off + x \div 4 + y * SCROLL_X_WIDTH >= 0
  /\ off + 3 * SCROLL_SIZE + (x + SCROLL_X_DIM - 1) \div 4
         + (y + SCROLL_Y_DIM - 1) * SCROLL_X_WIDTH < BUILD_BUF_SIZE

Disjoint(v, x, y) ==
  \/ x <= v.x - SCROLL_X_DIM \/ x >= v.x + SCROLL_X_DIM
  \/ y <= v.y - SCROLL_Y_DIM \/ y >= v.y + SCROLL_Y_DIM

set_view_window(v, x, y) ==
  LET moved   == BUILD_BASE_INIT - x \div 4 - y * SCROLL_X_WIDTH
      Off(p, q) == p \div 4 + q * SCROLL_X_WIDTH
      first   == Off(Max({x, v.x}), Max({y, v.y}))
      last    == Off(Min({x, v.x}) + SCROLL_X_DIM - 1,
                     Min({y, v.y}) + SCROLL_Y_DIM - 1)
      length  == last + 1 - first + 3 * SCROLL_SIZE
      window  == [v EXCEPT !.x = x, !.y = y]
  IN IF Fits(v.off, x, y) THEN window
     ELSE IF Disjoint(v, x, y) THEN [window EXCEPT !.off = moved]
     ELSE [window EXCEPT !.off = moved,
             !.b = Copy(@, v.off + first, moved + first, length)]

\* Draw rows or columns of the window, in the order given.
DrawRows(v, rows) ==
  LET drawn[n \in 0 .. Len(rows)] ==
        IF n = 0 THEN v ELSE draw_horiz_line(drawn[n - 1], rows[n])
  IN drawn[Len(rows)]

DrawCols(v, cols) ==
  LET drawn[n \in 0 .. Len(cols)] ==
        IF n = 0 THEN v ELSE draw_vert_line(drawn[n - 1], cols[n])
  IN drawn[Len(cols)]

redraw_room(v) == DrawRows(v, Upward(SCROLL_Y_DIM))

-----------------------------------------------------------------------------
(* Entering and leaving mode X, register group by register group. *)

SetSteps == <<"blank", "seq", "crtc", "attr", "graphics", "palette", "clear",
              "unblank">>
TextSteps == <<"blank", "seq", "crtc", "attr", "graphics", "palette", "font",
               "unblank">>

\* Mutant: the screen comes back before the fonts do.
UnblankEarly == <<"blank", "seq", "crtc", "attr", "graphics", "palette",
                  "unblank", "font">>
set_text_mode_3 == TextSteps

Init ==
  /\ build = [i \in -MEM_FENCE_WIDTH .. BUILD_BUF_SIZE + MEM_FENCE_WIDTH - 1
                |-> Black]
  /\ img3_off = 0 /\ show_x = 0 /\ show_y = 0
  /\ cur_room \in DOMAIN Photos /\ objs \in Layouts[cur_room]
  /\ vram = [p \in Pages |->
               [c \in (0 .. 3) \X (0 .. SCROLL_SIZE - 1) |-> Wild]]
  /\ target_img = 0 /\ start = 0
  /\ vga = [g \in Groups |-> "text"] /\ blanked = FALSE /\ fonts = TRUE
  /\ todo = <<>> /\ commands = MaxCommands /\ pc = "text"

\* The port permission, /dev/mem and the mapping may each be refused.
open_memory_and_ports == {0, -1}

\* set_mode_X up to the register sequence: the window at (0,0) in the middle
\* of the buffer, the fence filled, video memory mapped.  When the ports or
\* the memory cannot be had the VGA is left as it is and main panics.
set_mode_X ==
  /\ pc = "text"
  /\ show_x' = 0 /\ show_y' = 0 /\ img3_off' = BUILD_BASE_INIT
  /\ build' = [i \in DOMAIN build |-> IF i \in Fence THEN Magic ELSE build[i]]
  /\ target_img' = 0
  /\ \E ret \in open_memory_and_ports :
       IF ret = 0 THEN pc' = "setting" /\ todo' = SetSteps
       ELSE pc' = "ended" /\ UNCHANGED todo
  /\ UNCHANGED <<room, vram, start, vga, blanked, fonts, commands>>

\* The steps.  The sequencer tables of both modes have the screen-off bit set;
\* the CRTC tables point the display at address 0.
VGA_blank(blank) ==
  blanked' = blank /\ UNCHANGED <<vga, start, fonts, vram>>

set_seq_regs_and_reset(to) ==
  /\ vga' = [vga EXCEPT !["seq"] = to] /\ blanked' = TRUE
  /\ UNCHANGED <<start, fonts, vram>>

set_CRTC_registers(to) ==
  /\ vga' = [vga EXCEPT !["crtc"] = to] /\ start' = 0
  /\ UNCHANGED <<blanked, fonts, vram>>

set_registers(group, to) ==
  vga' = [vga EXCEPT ![group] = to] /\ UNCHANGED <<blanked, start, fonts, vram>>

fill_palette(to) == set_registers("palette", to)

\* All four planes are zeroed, the one with the fonts included.
clear_screens ==
  /\ vram' = [p \in Pages |-> [c \in DOMAIN vram[p] |-> Black]]
  /\ fonts' = FALSE
  /\ UNCHANGED <<vga, start, blanked>>

\* A text screen shows rubbish until the fonts are back in video memory.
write_font_data ==
  /\ fonts' = TRUE
  /\ vram' = [p \in Pages |-> [c \in DOMAIN vram[p] |-> Wild]]
  /\ UNCHANGED <<vga, start, blanked>>

\* The next step of either sequence.
SwitchMode ==
  LET to == IF pc = "setting" THEN "X" ELSE "text"
      step == Head(todo)
  IN /\ todo # <<>> /\ todo' = Tail(todo)
     /\ \/ step = "blank" /\ VGA_blank(TRUE)
        \/ step = "seq" /\ set_seq_regs_and_reset(to)
        \/ step = "crtc" /\ set_CRTC_registers(to)
        \/ step \in {"attr", "graphics"} /\ set_registers(step, to)
        \/ step = "palette" /\ fill_palette(to)
        \/ step = "clear" /\ clear_screens
        \/ step = "font" /\ write_font_data
        \/ step = "unblank" /\ VGA_blank(FALSE)
     /\ pc' = IF Tail(todo) # <<>> THEN pc
              ELSE IF pc = "setting" THEN "enter" ELSE "ended"
     /\ UNCHANGED <<buf, room, target_img, commands>>

-----------------------------------------------------------------------------
(* The game loop: draw a new room, show the screen and the status bar, then  *)
(* take one command.                                                         *)

\* The room is entered: window at (0,0), every line drawn.
EnterRoom ==
  /\ pc = "enter"
  /\ Become(redraw_room(set_view_window(View, 0, 0)))
  /\ pc' = "draw"
  /\ UNCHANGED <<room, vram, target_img, start, mode, commands>>

\* Plane i of the display comes from the plane of the build buffer that holds
\* column show_x + i, which starts one byte later when i has wrapped round.
PlaneOff(i) ==
  LET p_off == 3 - (show_x % 4)
  IN ((p_off - i + 4) % 4) * SCROLL_SIZE + (IF p_off < i THEN 1 ELSE 0)
copy_image(page) ==
  LET addr == img3_off + show_x \div 4 + show_y * SCROLL_X_WIDTH
  IN [vram EXCEPT ![page] =
        [c \in DOMAIN @ |->
           IF c[2] < SHOWN * SCROLL_X_WIDTH
           THEN Peek(build, addr + PlaneOff(c[1]) + c[2]) ELSE @[c]]]

copy_status_bar(page) ==
  [vram EXCEPT ![page] =
     [c \in DOMAIN @ |-> IF c[2] < BAR * SCROLL_X_WIDTH THEN Bar ELSE @[c]]]

\* Mutant: the page on display is drawn over.
show_screen_in_place ==
  /\ pc = "draw" /\ pc' = "flip"
  /\ vram' = copy_image(target_img)
  /\ UNCHANGED <<buf, room, target_img, start, mode, commands>>

\* show_screen draws the four planes into the other page...
show_screen ==
  /\ pc = "draw" /\ pc' = "flip"
  /\ target_img' = 1 - target_img
  /\ vram' = copy_image(target_img')
  /\ UNCHANGED <<buf, room, start, mode, commands>>

\* ... and then points the display at it.
ShowPage ==
  /\ pc = "flip" /\ pc' = "bar"
  /\ start' = target_img
  /\ UNCHANGED <<buf, room, vram, target_img, mode, commands>>

\* The status bar goes to the first rows of page 0, whichever page is shown.
show_status_bar ==
  /\ pc = "bar" /\ pc' = "command"
  /\ vram' = copy_status_bar(0)
  /\ UNCHANGED <<buf, room, target_img, start, mode, commands>>

Command ==
  /\ pc = "command" /\ commands > 0
  /\ commands' = commands - 1

\* The moves: the window, then the rows or columns that have been exposed.
move_photo_down(speed) ==
  LET delta == Min({speed, show_y})
  IN Become(DrawRows(set_view_window(View, show_x, show_y - delta),
                     Upward(delta)))

move_photo_right(speed) ==
  LET delta == Min({speed, show_x})
  IN Become(DrawCols(set_view_window(View, show_x - delta, show_y),
                     Upward(delta)))

move_photo_left(speed) ==
  LET delta == Min({speed, Photos[cur_room].width - SCROLL_X_DIM - show_x})
  IN Become(DrawCols(set_view_window(View, show_x + delta, show_y),
                     [k \in 1 .. delta |-> SCROLL_X_DIM - k]))

move_photo_up(speed) ==
  LET delta == Min({speed, Photos[cur_room].height - SCROLL_Y_DIM - show_y})
  IN Become(DrawRows(set_view_window(View, show_x, show_y + delta),
                     [k \in 1 .. delta |-> SCROLL_Y_DIM - k]))

Move ==
  /\ Command /\ pc' = "draw"
  /\ \E speed \in Speeds : \/ move_photo_down(speed) \/ move_photo_up(speed)
                          \/ move_photo_left(speed) \/ move_photo_right(speed)
  /\ UNCHANGED <<room, vram, target_img, start, mode>>

\* A typed command moved objects in or out of the room: the list changes and
\* then every line is drawn again, with the window where it is.
Redraw ==
  /\ Command /\ pc' = "draw"
  /\ objs' \in Layouts[cur_room]
  /\ Become(redraw_room([View EXCEPT !.objs = objs']))
  /\ UNCHANGED <<cur_room, vram, target_img, start,
                 mode>>

\* The player goes to another room; prep_room makes it the current one.
ChangeRoom ==
  /\ Command /\ pc' = "enter"
  /\ cur_room' \in DOMAIN Photos \ {cur_room} /\ objs' \in Layouts[cur_room']
  /\ UNCHANGED <<buf, vram, target_img, start, mode>>

\* The game is over: clear_mode_X puts the text mode back.
clear_mode_X ==
  /\ pc = "command" /\ pc' = "clearing"
  /\ todo' = set_text_mode_3
  /\ UNCHANGED <<buf, room, vram, target_img, start, vga, blanked, fonts,
                 commands>>

Ended == pc = "ended" /\ UNCHANGED vars

Next ==
  \/ set_mode_X \/ SwitchMode
  \/ EnterRoom \/ show_screen \/ ShowPage \/ show_status_bar
  \/ Move \/ Redraw \/ ChangeRoom \/ clear_mode_X \/ Ended

Spec == Init /\ [][Next]_vars

-----------------------------------------------------------------------------
(* Properties *)

\* Type correctness: the positions, the page numbers and the program counter
\* are in range, and build and video memory hold a pixel at every address.
TypeOK ==
  /\ DOMAIN build = -MEM_FENCE_WIDTH .. BUILD_BUF_SIZE + MEM_FENCE_WIDTH - 1
  /\ img3_off \in Int /\ show_x \in Nat /\ show_y \in Nat
  /\ cur_room \in DOMAIN Photos /\ objs \in Layouts[cur_room]
  /\ DOMAIN vram = Pages /\ target_img \in Pages /\ start \in Pages
  /\ vga \in [Groups -> {"text", "X"}]
  /\ blanked \in BOOLEAN /\ fonts \in BOOLEAN
  /\ commands \in 0 .. MaxCommands
  /\ pc \in {"text", "setting", "enter", "draw", "flip", "bar", "command",
             "clearing", "ended"}

\* What the player should see at (x,y) of the current room.
Visible(x, y) ==
  Overlay(View, x, y,
          IF x < Photos[cur_room].width /\ y < Photos[cur_room].height
          THEN <<cur_room, (Photos[cur_room].height - 1 - y)
                             * Photos[cur_room].width + x>>
          ELSE Black)

Window == (0 .. SCROLL_X_DIM - 1) \X (0 .. SCROLL_Y_DIM - 1)

\* The guard bytes that clear_mode_X checks are never written: neither a line
\* drawn into the build buffer nor the copy of set_view_window leaves it,
\* however the window has scrolled.
FenceIntact ==
  pc # "text" => \A i \in Fence : build[i] = Magic

\* Whenever the loop shows the screen, every pixel of the window is in the
\* build buffer at its place: the lines drawn by a move and the pixels kept
\* (and perhaps copied) by set_view_window add up to the whole window, with
\* no pixel of an earlier window, an earlier room or an earlier layout left.
WindowBuilt ==
  pc = "draw" =>
    \A c \in Window :
      Peek(build, Addr(img3_off, show_x + c[1], show_y + c[2]))
        = Visible(show_x + c[1], show_y + c[2])

\* Once show_screen has switched pages, pixel (x,y) of the display, which the
\* VGA takes from plane x mod 4, is pixel (x,y) of the window.
ScreenIsWindow ==
  pc = "bar" =>
    \A c \in Window :
      c[2] < SHOWN =>
        vram[start][<<c[1] % 4, c[1] \div 4 + c[2] * SCROLL_X_WIDTH>>]
          = Visible(show_x + c[1], show_y + c[2])

\* Nothing read from outside a photo's array reaches the build buffer: the
\* callbacks check one coordinate only, and rely on the moves to keep the
\* window inside the photo in the other.
NoStrayRead ==
  \A i \in DOMAIN build : build[i] # Wild

\* The page on display changes only by the switch of pages and by the status
\* bar: a frame is never seen half drawn.
NoTearing ==
  [][ start' = start /\ ~blanked /\ vga["crtc"] = "X" =>
        \A c \in DOMAIN vram[start] :
          c[2] >= BAR * SCROLL_X_WIDTH => vram'[start][c] = vram[start][c] ]_vars

\* The display is dark while the registers are a mixture of the two modes,
\* while video memory has not been cleared for mode X and while a text mode
\* has no fonts.
HalfSetHidden ==
  ~blanked =>
    /\ \A g, h \in Groups : vga[g] = vga[h]
    /\ fonts <=> vga["seq"] = "text"

\* No access leaves the build buffer or a photo, by set_view_window, by the
\* lines or by the callbacks: the window's position stays legal, the fence is
\* whole and no stray pixel has been read.
InsideBuffers == TypeOK /\ FenceIntact /\ NoStrayRead

\* The window is whole in the build buffer and, after the switch of pages, on
\* the screen, however it was scrolled there.
ShowsWindow == WindowBuilt /\ ScreenIsWindow

=============================================================================
