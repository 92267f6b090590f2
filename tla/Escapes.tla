------------------------------ MODULE Escapes ------------------------------
(***************************************************************************)
(* The escape sequence processor of fs/console.c: console->processor and   *)
(* the numbers it has collected.  A byte turns a state of it into another  *)
(* and yields the control functions the screen has to carry out; the state *)
(* is shared by all processes and lasts from one write to the next.        *)
(***************************************************************************)
EXTENDS Integers, Sequences
LOCAL INSTANCE TLC

CONSTANT CONSOLE_MAX_PARAMS

ASSUME ParamsAssumption == CONSOLE_MAX_PARAMS \in Nat \ {0, 1}

NoNumbers == [i \in 1 .. CONSOLE_MAX_PARAMS |-> 0]
NoProcessor == [proc |-> "none", params |-> NoNumbers, count |-> 1, prefix |-> "none",
                len |-> -1, bad |-> FALSE]

DigitOf == "0" :> 0 @@ "1" :> 1 @@ "2" :> 2 @@ "3" :> 3 @@ "4" :> 4
        @@ "5" :> 5 @@ "6" :> 6 @@ "7" :> 7 @@ "8" :> 8 @@ "9" :> 9

Becomes(p, proc) == <<[p EXCEPT !.proc = proc], << >>>>
Ended(p, fs) == <<[p EXCEPT !.proc = "none"], fs>>
AddDigit(p, i, ch) == [p EXCEPT !.params[i] = 10 * @ + DigitOf[ch]]

-----------------------------------------------------------------------------
\* Functions with one number, which is 1 if it is not given
Counted ==
  "A" :> "CUU" @@ "B" :> "CUD" @@ "e" :> "CUD" @@ "C" :> "CUF" @@ "a" :> "CUF"
  @@ "D" :> "CUB" @@ "d" :> "VPA" @@ "G" :> "CHA" @@ "L" :> "IL"
  @@ "M" :> "DL" @@ "@" :> "ICH" @@ "P" :> "DCH" @@ "S" :> "SU"

CsiFunctions(p, ch) ==
  LET n == p.params[1]
      dec(k) == IF k > 0 THEN k - 1 ELSE 0
  IN  CASE ch \in DOMAIN Counted -> <<<<Counted[ch], IF n = 0 THEN 1 ELSE n>>>>
        [] ch \in {"H", "f"} -> <<<<"CUP", dec(n), dec(p.params[2])>>>>
        [] ch = "J" -> <<<<"ED", n>>>>
        [] ch = "K" -> <<<<"EL", n>>>>
        [] ch \in {"h", "l"} ->
             [i \in 1 .. p.count |->
                <<IF p.prefix = "?" THEN "private" ELSE "mode", p.params[i], ch = "h">>]
        [] ch = "m" -> [i \in 1 .. p.count |-> <<"SGR", p.params[i]>>]
        [] ch = "r" -> <<<<"STBM", n, p.params[2]>>>>
        [] ch = "c" /\ p.prefix = ">" /\ n = 0 -> <<<<"DA2">>>>
        [] OTHER -> << >>

\* A number beyond the last goes on with the last; ">" is kept as "?"
control_escape_csi(p, ch) ==
  CASE ch \in DOMAIN DigitOf -> <<AddDigit(p, p.count, ch), << >>>>
    [] ch = ";" -> <<[p EXCEPT !.count = IF @ = CONSOLE_MAX_PARAMS THEN @ ELSE @ + 1], << >>>>
    [] ch \in {"?", ">"} -> <<[p EXCEPT !.prefix = "?"], << >>>>
    [] OTHER -> Ended(p, CsiFunctions(p, ch))

\* "ESC ]", a number, a string and BEL; a title that is not UTF-8 leaves the
\* processor where it is
control_escape_osc(p, ch) ==
  CASE p.len = -1 /\ ch = ";" -> <<[p EXCEPT !.len = 0], << >>>>
    [] p.len = -1 /\ ch \in DOMAIN DigitOf -> <<AddDigit(p, 1, ch), << >>>>
    [] p.len # -1 /\ ch # "BEL" -> <<[p EXCEPT !.len = @ + 1, !.bad = @ \/ ch = "bad"], << >>>>
    [] p.len # -1 /\ ch = "BEL" /\ p.params[1] \in {0, 2} /\ p.bad -> <<p, << >>>>
    [] OTHER -> Ended(p, << >>)

control_escape_sharp(p, ch) == Ended(p, IF ch = "8" THEN <<<<"DECALN">>>> ELSE << >>)

parse_charset == "0" :> "graphics" @@ "B" :> "default"
control_escape_set_character_set(p, g, ch) ==
  Ended(p, IF ch \in DOMAIN parse_charset THEN <<<<"SCS", g, parse_charset[ch]>>>> ELSE << >>)

EscFunction == "D" :> "IND" @@ "E" :> "NEL" @@ "M" :> "RI" @@ "7" :> "DECSC" @@ "8" :> "DECRC"

control_escape(p, ch) ==
  CASE ch = "[" -> Becomes([p EXCEPT !.params = NoNumbers, !.count = 1, !.prefix = "none"], "csi")
    [] ch = "]" -> Becomes([p EXCEPT !.params[1] = 0, !.len = -1, !.bad = FALSE], "osc")
    [] ch = "(" -> Becomes(p, "g0")
    [] ch = ")" -> Becomes(p, "g1")
    [] ch = "#" -> Becomes(p, "sharp")
    [] ch \in DOMAIN EscFunction -> Ended(p, <<<<EscFunction[ch]>>>>)
    [] OTHER -> Ended(p, << >>)

-----------------------------------------------------------------------------
\* Control characters are carried out also in the middle of a sequence; others
\* are dropped where they are not part of one
ControlFunction ==
  "TAB" :> "TAB" @@ "BS" :> "BS" @@ "CR" :> "CR" @@ "LF" :> "LF" @@ "SO" :> "SO" @@ "SI" :> "SI"

Processed(p, ch) ==
  CASE ch = "ESC" -> Becomes(p, "esc")
    [] ch \in DOMAIN ControlFunction -> <<p, <<<<ControlFunction[ch]>>>>>>
    [] p.proc = "esc" -> control_escape(p, ch)
    [] p.proc = "csi" -> control_escape_csi(p, ch)
    [] p.proc = "osc" -> control_escape_osc(p, ch)
    [] p.proc = "sharp" -> control_escape_sharp(p, ch)
    [] p.proc = "g0" -> control_escape_set_character_set(p, 1, ch)
    [] p.proc = "g1" -> control_escape_set_character_set(p, 2, ch)
    [] p.proc = "none" /\ ch = "BEL" -> <<p, << >>>>
    [] OTHER -> <<p, <<<<"text", ch>>>>>>
=============================================================================
