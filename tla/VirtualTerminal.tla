-------------------------- MODULE VirtualTerminal --------------------------
(***************************************************************************)
(* What fs/console.c promises: a terminal like xterm, with two screens of  *)
(* a fixed size, a cursor, a scroll region and a few modes, that carries   *)
(* out the control functions of Escapes.  Nothing is outside the screen.   *)
(***************************************************************************)
EXTENDS Escapes, FiniteSets

CONSTANT Width

Cols == 0 .. Width - 1
Buffers == {"normal", "alternate"}
Min2(a, b) == IF a < b THEN a ELSE b
Max2(a, b) == IF a > b THEN a ELSE b

-----------------------------------------------------------------------------
\* Modes, which both sides have
InitModes == [bright |-> FALSE, reverse |-> FALSE, fg |-> 7, bg |-> 0,
              g |-> <<"default", "default">>, charset |-> 1,
              insert |-> FALSE, origin |-> FALSE, wrap |-> TRUE, onlcr |-> TRUE, keys |-> FALSE]
get_text_attribute(md) ==
  IF md.reverse THEN <<md.bright, md.bg, md.fg>> ELSE <<md.bright, md.fg, md.bg>>
BlankCell == <<" ", "default", <<FALSE, 0, 0>>>>
Space(md) == <<" ", "default", get_text_attribute(md)>>

SGR(md, n) ==
  CASE n = 0 -> [md EXCEPT !.bright = FALSE, !.reverse = FALSE, !.fg = 7, !.bg = 0]
    [] n \in {1, 2} -> [md EXCEPT !.bright = n = 1]
    [] n \in {7, 27} -> [md EXCEPT !.reverse = n = 7]
    [] n \in 30 .. 37 -> [md EXCEPT !.fg = n - 30]
    [] n \in 40 .. 47 -> [md EXCEPT !.bg = n - 40]
    [] n = 39 -> [md EXCEPT !.fg = 7]
    [] n = 49 -> [md EXCEPT !.bg = 0]
    [] OTHER -> md
change_mode(md, n, set) ==
  CASE n = 4 -> [md EXCEPT !.insert = set] [] n = 20 -> [md EXCEPT !.onlcr = set] [] OTHER -> md
change_private_mode(md, n, set) ==
  CASE n = 1 -> [md EXCEPT !.keys = set] [] n = 6 -> [md EXCEPT !.origin = set]
    [] n = 7 -> [md EXCEPT !.wrap = set] [] OTHER -> md
Modes(md, f) ==
  CASE f[1] = "SGR" -> SGR(md, f[2])
    [] f[1] = "mode" -> change_mode(md, f[2], f[3])
    [] f[1] = "private" -> change_private_mode(md, f[2], f[3])
    [] f[1] = "SCS" -> [md EXCEPT !.g[f[2]] = f[3]]
    [] f[1] \in {"SO", "SI"} -> [md EXCEPT !.charset = IF f[1] = "SO" THEN 2 ELSE 1]
    [] OTHER -> md

\* What DECSC keeps of them
SavedModes(md) == <<md.bright, md.reverse, md.fg, md.bg, md.charset, md.origin, md.wrap>>
WithModes(md, s) == [md EXCEPT !.bright = s[1], !.reverse = s[2], !.fg = s[3], !.bg = s[4],
                               !.charset = s[5], !.origin = s[6], !.wrap = s[7]]

-----------------------------------------------------------------------------
\* The part of the screen in columns l .. r and rows t .. b moves, what comes
\* in has the default attribute; what is erased has the current one
Shifted(v, l, r, t, b, dx, dy) ==
  [v EXCEPT !.scr[v.out] = [j \in 0 .. v.height - 1 |-> [i \in Cols |->
     IF ~(i \in l .. r /\ j \in t .. b) THEN @[j][i]
     ELSE IF i - dx \in l .. r /\ j - dy \in t .. b THEN @[j - dy][i - dx] ELSE BlankCell]]]
RegionMoved(v, dy) == Shifted(v, 0, Width - 1, v.top, v.bottom, 0, dy)
Erased(v, cells) ==
  [v EXCEPT !.scr[v.out] = [j \in 0 .. v.height - 1 |-> [i \in Cols |->
     IF <<j, i>> \in cells THEN Space(v.md) ELSE @[j][i]]]]
Everywhere(v) == (0 .. v.height - 1) \X Cols
FromCursor(v) == {k \in Everywhere(v) : k[1] > v.y \/ (k[1] = v.y /\ k[2] >= v.x)}
ToCursor(v) == {k \in Everywhere(v) : k[1] < v.y \/ (k[1] = v.y /\ k[2] <= v.x)}
OfMode(v, n) == CASE n = 0 -> FromCursor(v) [] n = 1 -> ToCursor(v) [] n = 2 -> Everywhere(v) [] OTHER -> {}

Cursor(v, x, y) ==
  [v EXCEPT !.x = Max2(0, Min2(x, Width - 1)), !.y = Max2(0, Min2(y, v.height - 1)),
            !.margin = FALSE]
LineIndex(v) == IF v.y = v.bottom THEN [RegionMoved(v, -1) EXCEPT !.margin = FALSE]
            ELSE Cursor(v, v.x, v.y + 1)
ReverseIndex(v) == IF v.y = v.top THEN RegionMoved(v, 1) ELSE Cursor(v, v.x, v.y - 1)
NewLine(v) == LineIndex(Cursor(v, 0, v.y))

Opening(v) == IF v.md.insert THEN Shifted(v, v.x, Width - 1, v.y, v.y, 1, 0) ELSE v
Placed(v, ch) ==
  [v EXCEPT !.scr[v.out][v.y][v.x] = <<ch, v.md.g[v.md.charset], get_text_attribute(v.md)>>,
            !.x = Min2(v.x + 1, Width - 1), !.margin = v.x = Width - 1]
Character(v, ch) ==
  Placed(Opening(IF v.margin /\ v.md.wrap THEN NewLine(v) ELSE v), ch)
\* A character of two bytes may come in two pieces
TextByte(v, b) ==
  CASE b = "e1" -> [v EXCEPT !.utf8 = 1]
    [] b = "e2" /\ v.utf8 = 1 -> Character([v EXCEPT !.utf8 = 0], "e")
    [] b \in {"e2", "bad"} -> [v EXCEPT !.utf8 = 0]
    [] OTHER -> Character([v EXCEPT !.utf8 = 0], b)

Inside(v) == v.y \in v.top .. v.bottom
KeepCursor(v) == [v EXCEPT !.saved = <<v.x, v.y, SavedModes(v.md)>>]
RestoreSaved(v) == Cursor([v EXCEPT !.md = WithModes(@, v.saved[3])], v.saved[1], v.saved[2])
ToAlternate(v, n) ==
  IF n # 47 /\ v.out = "normal"
  THEN Erased([v EXCEPT !.out = "alternate"], Everywhere(v)) ELSE [v EXCEPT !.out = "alternate"]
SwitchScreen(v, n, set) ==
  CASE set -> ToAlternate(IF n = 1049 THEN KeepCursor(v) ELSE v, n)
    [] ~set /\ n = 1049 -> RestoreSaved([v EXCEPT !.out = "normal"])
    [] ~set /\ n # 1049 -> [v EXCEPT !.out = "normal"]

\* What a control function does to the terminal
Shown(v, f) ==
  LET n == f[2] IN
  CASE f[1] = "text" -> TextByte(v, n)
    [] f[1] = "TAB" -> Cursor(v, (v.x \div 8) * 8 + 8, v.y)
    [] f[1] = "BS" -> Cursor(v, v.x - 1, v.y)
    [] f[1] = "CR" -> Cursor(v, 0, v.y)
    [] f[1] = "NEL" \/ (f[1] = "LF" /\ v.md.onlcr) -> NewLine(v)
    [] f[1] = "IND" \/ (f[1] = "LF" /\ ~v.md.onlcr) -> LineIndex(v)
    [] f[1] = "RI" -> ReverseIndex(v)
    [] f[1] = "CUU" -> Cursor(v, v.x, v.y - n)
    [] f[1] = "CUD" -> Cursor(v, v.x, v.y + n)
    [] f[1] = "CUF" -> Cursor(v, v.x + n, v.y)
    [] f[1] = "CUB" -> Cursor(v, v.x - n, v.y)
    [] f[1] = "VPA" -> Cursor(v, v.x, n - 1)
    [] f[1] = "CHA" -> Cursor(v, n - 1, v.y)
    [] f[1] = "CUP" -> Cursor(v, f[3], IF v.md.origin THEN v.top + n ELSE n)
    [] f[1] = "ED" -> Erased(v, OfMode(v, n))
    [] f[1] = "EL" -> Erased(v, {k \in OfMode(v, n) : k[1] = v.y})
    [] f[1] \in {"IL", "DL"} /\ Inside(v) ->
         Shifted(v, 0, Width - 1, v.y, v.bottom, 0, IF f[1] = "IL" THEN n ELSE -n)
    [] f[1] \in {"ICH", "DCH"} ->
         Shifted(v, v.x, Width - 1, v.y, v.y, IF f[1] = "ICH" THEN n ELSE -n, 0)
    [] f[1] = "SU" -> RegionMoved(v, -n)
    [] f[1] = "STBM" ->
         Cursor([v EXCEPT !.top = Max2(n, 1) - 1,
                          !.bottom = (IF f[3] = 0 THEN v.height ELSE f[3]) - 1], 0, 0)
    [] f[1] = "DECALN" ->
         [v EXCEPT !.scr[v.out] = [j \in 0 .. v.height - 1 |-> [i \in Cols |->
                                     <<"E", "default", get_text_attribute(v.md)>>]]]
    [] f[1] = "DECSC" \/ (f[1] = "private" /\ n = 1048 /\ f[3]) -> KeepCursor(v)
    [] f[1] = "DECRC" \/ (f[1] = "private" /\ n = 1048 /\ ~f[3]) -> RestoreSaved(v)
    [] f[1] = "private" /\ n \in {47, 1047, 1049} -> SwitchScreen(v, n, f[3])
    [] OTHER -> v
=============================================================================
