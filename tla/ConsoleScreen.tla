--------------------------- MODULE ConsoleScreen ---------------------------
(***************************************************************************)
(* "xterm like VT terminal emulation on Win32 console" (fs/console.c): the *)
(* state all processes of a console share, the Windows screen buffers it   *)
(* is drawn in, and beside it the terminal it stands for.  A write is one  *)
(* step: console_file_write holds the console's mutex all the while.       *)
(***************************************************************************)
EXTENDS VirtualTerminal, Collections

CONSTANTS Heights,             \* the heights the user may drag the window to
          BufferHeight,        \* rows of a screen buffer
          ConsoleWrites,       \* sequences of bytes
          MaxWrites            \* bound: writes in a behaviour

ASSUME HeightsAssumption == \A h \in Heights : h \in 1 .. BufferHeight

VARIABLES con,       \* struct console_data and the two screen buffers
          vt,        \* the terminal
          window,    \* the height of the window
          writes,    \* writes still to be made
          astray       \* history: something was done that is known to go wrong

screenVars == <<con, vt, window, writes, astray>>

Rows == 0 .. BufferHeight - 1

-----------------------------------------------------------------------------
\* The Windows console: a cursor and an attribute for each screen buffer
SetConsoleCursorPosition(c, x, y) ==
  IF x \in Cols /\ y \in Rows THEN [c EXCEPT !.wx[c.out] = x, !.wy[c.out] = y] ELSE c

\* Without wrapping at the end of a line the last column is written over
WriteConsole(c, ch) ==
  LET b == c.out IN
  [c EXCEPT !.cells[b][c.wy[b]][c.wx[b]] = <<ch, c.md.g[c.md.charset], c.wattr[b]>>,
            !.wx[b] = Min2(@ + 1, Width - 1)]
\* The colour of a line that comes in at the end of the buffer is left out
LineFeed(c) ==
  LET b == c.out
      c1 == [c EXCEPT !.wx[b] = 0]
  IN  IF c.wy[b] < BufferHeight - 1 THEN [c1 EXCEPT !.wy[b] = @ + 1]
      ELSE [c1 EXCEPT !.cells[b] = [j \in Rows |-> IF j = BufferHeight - 1 THEN [i \in Cols |-> BlankCell]
                                                   ELSE c.cells[b][j + 1]]]
FillConsoleOutput(c, ch, count, x, y) ==
  IF x \notin Cols \/ y \notin Rows THEN c
  ELSE [c EXCEPT !.cells[c.out] = [j \in Rows |-> [i \in Cols |->
          IF j * Width + i - (y * Width + x) \in 0 .. count - 1 THEN ch ELSE @[j][i]]]]

scroll(c, left, right, top, bottom, dx, dy) ==
  LET inside == {k \in Cols \X Rows : k[1] \in left .. right /\ k[2] - c.top \in top .. bottom}
  IN  [c EXCEPT !.cells[c.out] = [j \in Rows |-> [i \in Cols |->
         IF <<i, j>> \notin inside THEN @[j][i]
         ELSE IF <<i - dx, j - dy>> \in inside THEN @[j - dy][i - dx] ELSE BlankCell]]]

-----------------------------------------------------------------------------
\* Moving
set_pos(c, x, y) ==
  [SetConsoleCursorPosition(c, x, y + c.top) EXCEPT !.x = x, !.y = y, !.margin = FALSE]
move_left(c, n) == set_pos(c, Max2(c.x - n, 0), c.y)
move_right(c, n) == set_pos(c, Min2(c.x + n, Width - 1), c.y)
move_up(c, n) == set_pos(c, c.x, Max2(c.y - n, 0))
move_down(c, n) == set_pos(c, c.x, Min2(c.y + n, c.height - 1))
backspace(c) ==
  IF c.x > 0 THEN SetConsoleCursorPosition([c EXCEPT !.x = @ - 1, !.margin = FALSE],
                                           c.x - 1, c.y + c.top) ELSE c
is_inside_scroll_area(c) == c.y \in c.stop .. c.sbot
scroll_up(c, n) == scroll(c, 0, Width - 1, c.stop, c.sbot, 0, -n)

cr(c) == [c EXCEPT !.wx[c.out] = 0, !.x = 0, !.margin = FALSE]

\* nl that leaves the emulated screen where it is
nl_KeepsTop(c) ==
  [IF c.full \/ c.y < c.sbot
   THEN [LineFeed(c) EXCEPT !.y = Min2(@ + 1, c.height - 1)]
   ELSE scroll_up(c, 1) EXCEPT !.margin = FALSE]

Advanced(c) ==
  IF c.y = c.height - 1 THEN [c EXCEPT !.top = Min2(@ + 1, BufferHeight - c.height)]
  ELSE [c EXCEPT !.y = @ + 1]

\* At the bottom of the screen the buffer's next line becomes its last, as long
\* as there is one
nl(c) ==
  [IF c.full \/ c.y < c.sbot
   THEN Advanced(LineFeed(c))
   ELSE scroll_up(c, 1) EXCEPT !.margin = FALSE]
crnl(c) == nl(cr(c))
reverse_index(c) ==
  IF c.y = c.stop THEN scroll(c, 0, Width - 1, c.stop, c.sbot, 0, 1) ELSE set_pos(c, c.x, c.y - 1)

-----------------------------------------------------------------------------
\* write_normal, a byte at a time: "e1" "e2" is a character of two bytes.  How
\* long a character is, is forgotten from one run of text to the next; and with
\* the cursor beyond the last column the loop does not end
Wrapped(c) == IF c.margin /\ c.md.wrap THEN crnl(c) ELSE c
AtMargin(c) == IF c.x = Width THEN [c EXCEPT !.x = @ - 1, !.margin = TRUE] ELSE c
Opened(c) ==
  IF c.md.insert /\ c.x + 1 < Width THEN scroll(c, c.x, Width - 1, c.y, c.y, 1, 0) ELSE c
Display(c, ch) ==
  AtMargin([WriteConsole(Opened(c), ch) EXCEPT !.x = @ + 1])
Byte(c, b, partial) ==
  CASE c.x > Width -> [c EXCEPT !.hung = TRUE]
    [] c.x < Width /\ b = "e1" /\ ~partial -> [c EXCEPT !.utf8 = 1]
    [] c.x < Width /\ b = "e2" /\ partial /\ c.run -> Display(c, "e")
    [] c.x < Width /\ b \notin {"e1", "e2", "bad"} /\ ~partial -> Display(c, b)
    [] OTHER -> c
write_normal(c, b) ==
  [Byte([Wrapped(AtMargin(Wrapped(c))) EXCEPT !.utf8 = 0], b, c.utf8 = 1) EXCEPT !.run = TRUE]

-----------------------------------------------------------------------------
\* Erasing, inserting and deleting
erase_screen(c, mode) ==
  CASE mode = 0 -> FillConsoleOutput(c, Space(c.md), (Width - c.x + 1) + (c.height - c.y - 1) * Width,
                                     c.x, c.y + c.top)
    [] mode = 1 -> FillConsoleOutput(c, Space(c.md), c.y * Width + c.x + 1, 0, c.top)
    [] mode = 2 -> FillConsoleOutput(c, Space(c.md), Width * c.height, 0, c.top)
    [] OTHER -> c
erase_line(c, mode) ==
  CASE mode = 0 -> FillConsoleOutput(c, Space(c.md), Width - c.x, c.x, c.y + c.top)
    [] mode = 1 -> FillConsoleOutput(c, Space(c.md), c.x + 1, 0, c.y + c.top)
    [] mode = 2 -> FillConsoleOutput(c, Space(c.md), Width, 0, c.y + c.top)
    [] OTHER -> c
insert_line(c, n) ==
  IF is_inside_scroll_area(c) THEN scroll(c, 0, Width - 1, c.y, c.sbot, 0, n) ELSE c
insert_character(c, n) ==
  IF is_inside_scroll_area(c) THEN scroll(c, c.x, Width - 1, c.y, c.y, n, 0) ELSE c
screen_alignment(c) ==
  FillConsoleOutput(c, <<"E", "default", get_text_attribute(c.md)>>, Width * c.height, 0, 0)
set_scroll_region(c, t, b) ==
  LET t1 == IF t = 0 THEN 1 ELSE t
      b1 == IF b = 0 THEN c.height ELSE b
  IN  set_pos([c EXCEPT !.full = t1 = 1 /\ b1 = c.height, !.stop = t1 - 1, !.sbot = b1 - 1], 0, 0)

save_cursor(c) ==
  [c EXCEPT !.saved = <<c.x, c.y, SavedModes(c.md)>>, !.savedtop = c.top]
SetConsoleTextAttribute(c) == [c EXCEPT !.wattr[c.out] = get_text_attribute(c.md)]
restore_cursor(c) ==
  SetConsoleTextAttribute(set_pos([c EXCEPT !.md = WithModes(@, c.saved[3]), !.top = c.savedtop],
                                  c.saved[1], c.saved[2]))
switch_to(c, b) == [c EXCEPT !.out = b]
to_alternate(c, n) ==
  IF n # 47 /\ c.out = "normal" THEN erase_screen(switch_to(c, "alternate"), 2)
  ELSE switch_to(c, "alternate")
switch_buffer(c, n, set) ==
  CASE set /\ n = 1049 -> to_alternate(save_cursor(c), n)
    [] set /\ n # 1049 -> to_alternate(c, n)
    [] ~set /\ n = 1049 -> restore_cursor(switch_to(c, "normal"))
    [] ~set /\ n # 1049 -> switch_to(c, "normal")

\* What a control function does to the console
Drawn(c, f) ==
  LET n == f[2] IN
  CASE f[1] = "text" -> write_normal(c, n)
    [] f[1] = "TAB" -> set_pos(c, Min2((c.x \div 8) * 8 + 8, Width - 1), c.y)
    [] f[1] = "BS" -> backspace(c)
    [] f[1] = "CR" -> cr(c)
    [] f[1] = "LF" -> IF c.md.onlcr THEN crnl(c) ELSE nl(c)
    [] f[1] = "IND" -> nl(c)
    [] f[1] = "NEL" -> crnl(c)
    [] f[1] = "RI" -> reverse_index(c)
    [] f[1] = "CUU" -> move_up(c, n)
    [] f[1] = "CUD" -> move_down(c, n)
    [] f[1] = "CUF" -> move_right(c, n)
    [] f[1] = "CUB" -> move_left(c, n)
    [] f[1] = "VPA" -> set_pos(c, c.x, Min2(n, c.height) - 1)
    [] f[1] = "CHA" -> set_pos(c, Min2(n, Width) - 1, c.y)
    [] f[1] = "CUP" -> set_pos(c, f[3], IF c.md.origin THEN c.stop + n ELSE n)
    [] f[1] = "ED" -> erase_screen(c, n)
    [] f[1] = "EL" -> erase_line(c, n)
    [] f[1] = "IL" -> insert_line(c, n)
    [] f[1] = "DL" -> insert_line(c, -n)
    [] f[1] = "ICH" -> insert_character(c, n)
    [] f[1] = "DCH" -> insert_character(c, -n)
    [] f[1] = "SU" -> scroll_up(c, n)
    [] f[1] = "STBM" -> set_scroll_region(c, n, f[3])
    [] f[1] = "DECALN" -> screen_alignment(c)
    [] f[1] = "DECSC" \/ (f[1] = "private" /\ n = 1048 /\ f[3]) -> save_cursor(c)
    [] f[1] = "DECRC" \/ (f[1] = "private" /\ n = 1048 /\ ~f[3]) -> restore_cursor(c)
    [] f[1] = "private" /\ n \in {47, 1047, 1049} -> switch_buffer(c, n, f[3])
    [] f[1] = "SGR" -> SetConsoleTextAttribute(c)
    [] OTHER -> c

\* console_retrieve_state: the size of the window, and the cursor if somebody
\* else has moved it
console_retrieve_state(c, h) ==
  LET y == c.wy[c.out]
      low == Max2(0, y - h + 1)
      high == Min2(y, BufferHeight - h)
      top == Min2(Max2(c.top, low), high)
      full == c.full \/ h <= c.sbot
      c1 == [c EXCEPT !.height = h, !.top = top, !.full = full,
                      !.stop = IF full THEN 0 ELSE @, !.sbot = IF full THEN h - 1 ELSE @]
  IN  IF c.x = c.wx[c.out] /\ c.y + top = y THEN c1
      ELSE [c1 EXCEPT !.x = c.wx[c.out], !.y = y - top, !.margin = FALSE]

-----------------------------------------------------------------------------
\* Where the emulation is known to go wrong (see the README): text where the
\* Windows cursor or its attribute is not the emulated one, and a line feed where
\* it is in another row; a character cut in two or without its end, and what is
\* no character where the next one would wrap; positions outside the screen, a
\* line feed or a character inserted outside the scroll region, lines that are
\* still below a window that shrank, a saved cursor or a screen come back to with
\* another first line
Misplaced(c) == \/ <<c.wx[c.out], c.wy[c.out]>> # <<c.x, c.y + c.top>>
                \/ c.wattr[c.out] # get_text_attribute(c.md)
Feeds(c, f) == f[1] \in {"LF", "IND", "NEL"} \/ (f[1] = "text" /\ c.margin /\ c.md.wrap)
\* The terminal still waits at the margin where the console has wrapped, and
\* what comes is not the rest of a character
WrappedTooSoon(c, v, f) == v.margin /\ ~c.margin /\ f # <<"text", "e2">>
KnownWrong(c, v, f) ==
  LET n == f[2]
      restores == f[1] = "DECRC" \/ (f[1] = "private" /\ n \in {1048, 1049} /\ ~f[3])
      switches == f[1] = "private" /\ n \in {47, 1047, 1049}
                    /\ c.out # (IF f[3] THEN "alternate" ELSE "normal")
  IN  \/ f[1] = "text" /\ (Misplaced(c) \/ (c.utf8 = 1 /\ ~(c.run /\ n = "e2")))
      \/ WrappedTooSoon(c, v, f)
      \/ Feeds(c, f) /\ c.wy[c.out] # c.y + c.top
      \/ Feeds(c, f) /\ ~c.full /\ c.y > c.sbot
      \/ Feeds(c, f) /\ c.full /\ c.y = c.height - 1 /\ c.top + c.height \in Rows
           /\ \E i \in Cols : c.cells[c.out][c.top + c.height][i] # BlankCell
      \/ f[1] = "RI" /\ c.y = 0 /\ c.stop # 0
      \/ f[1] = "CUP" /\ (f[3] >= Width \/ n + (IF c.md.origin THEN c.stop ELSE 0) >= c.height)
      \/ f[1] = "STBM" /\ (f[3] > c.height \/ (f[3] # 0 /\ n > f[3]))
      \/ f[1] \in {"ICH", "DCH"} /\ ~is_inside_scroll_area(c)
      \/ f[1] = "DECALN" /\ c.top # 0
      \/ restores /\ c.saved[2] >= c.height
      \/ restores /\ c.savedtop # (IF switches THEN c.left ELSE c.top)
      \/ switches /\ n # 1049 /\ c.left # c.top /\ ~(n = 1047 /\ f[3])

-----------------------------------------------------------------------------
\* One byte, for both; utf8 and run stay as they are unless it is text
Compared(s, f, before, after) ==
  [c |-> IF after.out = before.out THEN after ELSE [after EXCEPT !.left = before.top],
   v |-> Shown([s.v EXCEPT !.md = Modes(@, f)], f),
   wrong |-> s.wrong \/ KnownWrong(before, s.v, f)]
Carried(s, f, c) == Compared(s, f, c, Drawn(c, f))
CarryOut(s, f) == Carried(s, f, [s.c EXCEPT !.md = Modes(@, f)])
Obeyed(s, r) ==
  SX!FoldLeft(CarryOut,
              [s EXCEPT !.c.p = r[1], !.c.run = @ /\ r[2] # << >> /\ r[2][1][1] = "text"], r[2])
OneByte(s, ch) == IF s.c.hung THEN s ELSE Obeyed(s, Processed(s.c.p, ch))

\* The terminal as the buffer has it, after the window has got another height
SeenAnew(c, v) ==
  [v EXCEPT !.height = c.height, !.top = c.stop, !.bottom = c.sbot, !.x = c.x, !.y = c.y,
            !.margin = FALSE,
            !.scr = [b \in Buffers |-> [j \in 0 .. c.height - 1 |-> c.cells[b][c.top + j]]]]
Begun(c) ==
  IF con.height = window THEN [c |-> c, v |-> vt, wrong |-> FALSE]
  ELSE [c |-> [c EXCEPT !.left = c.top], v |-> SeenAnew(c, vt), wrong |-> FALSE]
Written(s) ==
  /\ con' = IF s.c.hung THEN s.c ELSE set_pos(s.c, s.c.x, s.c.y)
  /\ vt' = s.v
  /\ astray' = (s.wrong \/ s.c.margin \/ s.v.margin)

console_file_write(buf) ==
  /\ ~con.hung /\ writes > 0 /\ writes' = writes - 1
  /\ Written(SX!FoldLeft(OneByte,
                         Begun([console_retrieve_state(con, window) EXCEPT !.run = FALSE]), buf))
  /\ UNCHANGED window

Resize(h) ==
  /\ writes > 0 /\ window = con.height /\ h # window /\ window' = h
  /\ UNCHANGED <<con, vt, writes, astray>>

BlankScreen(n) == [b \in Buffers |-> [j \in 0 .. n - 1 |-> [i \in Cols |-> BlankCell]]]
ScreenInit ==
  /\ window \in Heights /\ writes = MaxWrites /\ astray = FALSE
  /\ LET zero == [b \in Buffers |-> 0]
     IN  con = [p |-> NoProcessor, md |-> InitModes, x |-> 0, y |-> 0, margin |-> FALSE,
                top |-> 0, height |-> window, full |-> TRUE, stop |-> 0, sbot |-> window - 1,
                saved |-> <<0, 0, SavedModes(InitModes)>>, savedtop |-> 0, utf8 |-> 0,
                run |-> FALSE, hung |-> FALSE, out |-> "normal", left |-> 0,
                cells |-> BlankScreen(BufferHeight), wx |-> zero, wy |-> zero,
                wattr |-> [b \in Buffers |-> get_text_attribute(InitModes)]]
  /\ vt = [scr |-> BlankScreen(window), out |-> "normal", x |-> 0, y |-> 0, margin |-> FALSE,
           height |-> window, top |-> 0, bottom |-> window - 1, md |-> InitModes,
           saved |-> <<0, 0, SavedModes(InitModes)>>, utf8 |-> 0]

\* The model goes no further once something has gone wrong
ScreenNext ==
  /\ ~astray
  /\ \/ \E buf \in ConsoleWrites : console_file_write(buf)
     \/ \E h \in Heights : Resize(h)

-----------------------------------------------------------------------------
(***************************************************************************)
(* Unless something was done that is known to go wrong, the lines of the   *)
(* Windows buffer from top on are the screen of the terminal, the emulated *)
(* cursor, the Windows cursor and the terminal's are at one place, and the *)
(* scroll region is the same: through wrapping, scrolling within a region  *)
(* and of the buffer, the end of the buffer, the alternate screen, and a   *)
(* window that changes its height.                                         *)
(***************************************************************************)
ScreenAgrees ==
  ~astray =>
    /\ ~con.hung
    /\ \A j \in 0 .. vt.height - 1 : con.cells[con.out][con.top + j] = vt.scr[vt.out][j]
    /\ con.out = vt.out /\ <<con.x, con.y>> = <<vt.x, vt.y>>
    /\ <<con.wx[con.out], con.wy[con.out]>> = <<con.x, con.y + con.top>>
    /\ <<con.stop, con.sbot>> = <<vt.top, vt.bottom>>
=============================================================================
