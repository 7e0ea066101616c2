------------------------------- MODULE Editor -------------------------------
(***************************************************************************)
(* The boot menu's entry editor, config_entry_editor of                     *)
(* limine-8.4.0/common/menu.c: the text and its cursor, the keys, and the   *)
(* painting, which goes through the text once and starts over with the      *)
(* window moved a line when it did not come by the cursor.  Characters are  *)
(* a letter, a tab or the end of a line; frames, colours and the check of   *)
(* the keys' names are left out.                                            *)
(***************************************************************************)
EXTENDS Integers, Sequences

CONSTANTS
  EDITOR_MAX_BUFFER_SIZE,
  WINDOW,         \* lines of text on the screen, rows - 8
  LINE,           \* characters in a line, cols - 2
  TAB,            \* columns between tab stops, 8 in the source
  Entries,        \* texts it is opened on
  Chars           \* characters typed

VARIABLES buffer, cursor_offset, window_offset, phase, overflow_error, result
vars == <<buffer, cursor_offset, window_offset, phase, overflow_error, result>>

NEWLINE == "n"
TABULATOR == "t"

-----------------------------------------------------------------------------
(* Lines *)
Breaks(b, i) == {k \in 1 .. i : b[k] = NEWLINE}
get_line_offset(b, i) ==
  IF Breaks(b, i) = {} THEN 0 ELSE CHOOSE k \in Breaks(b, i) : \A j \in Breaks(b, i) : j <= k
get_line_length(b, i) ==
  LET ends == {k \in i .. Len(b) : k = Len(b) \/ b[k + 1] = NEWLINE}
  IN  (CHOOSE k \in ends : \A j \in ends : k <= j) - i
Smaller(x, y) == IF x < y THEN x ELSE y
get_next_line(b, i) ==
  LET next == i + get_line_length(b, i) + 1
  IN  IF next > Len(b) THEN Len(b)
      ELSE next + Smaller(i - get_line_offset(b, i), get_line_length(b, next))
get_prev_line(b, i) ==
  LET offset == get_line_offset(b, i)
      prev == get_line_offset(b, offset - 1)
  IN  IF offset = 0 THEN 0 ELSE prev + Smaller(i - offset, get_line_length(b, prev))

-----------------------------------------------------------------------------
(* refresh: one pass over the text.  A pass that ends without the cursor is
   "up" or "down"; one that never leaves a tab is "hung", and so is one that
   moves the window on when it is behind the text already: it then does so for
   ever. *)
\* A pass that missed the cursor moves the window towards it.
Toward_Strict(i) == IF i < cursor_offset THEN "down" ELSE "up"
Toward(i) == IF i <= cursor_offset THEN "down" ELSE "up"
Inside(line, size) == line >= window_offset /\ line < window_offset + size
RECURSIVE Paint(_, _, _, _, _)
Columns(i, col) == IF i < Len(buffer) /\ buffer[i + 1] = TABULATOR THEN TAB - (col % TAB) ELSE 1
\* The columns of one character: each may be the last of a line on the screen,
\* which costs the window a line.
RECURSIVE Put(_, _, _, _, _, _)
Put(i, line, col, size, seen, n) ==
  LET wraps == col % LINE = LINE - 1
      size2 == IF wraps THEN size - 1 ELSE size
      seen2 == seen \/ (i = cursor_offset /\ (Inside(line, size2) \/ (wraps /\ Inside(line, size))))
  IN  IF line >= window_offset + size2 THEN IF seen2 THEN "shown" ELSE Toward(i)
      ELSE IF line < window_offset THEN IF buffer[i + 1] = TABULATOR THEN "hung" ELSE Paint(i + 1, line, col, size2, seen2)
      ELSE IF n > 1 THEN Put(i, line, col + 1, size2, seen2, n - 1)
      ELSE Paint(i + 1, line, col + 1, size2, seen2)
Paint(i, line, col, size, seen) ==
  IF i = Len(buffer)
  THEN LET seen2 == seen \/ (i = cursor_offset /\ Inside(line, size))
       IN  IF seen2 THEN "shown" ELSE Toward(i)
  ELSE IF buffer[i + 1] = NEWLINE
  THEN IF Inside(line, size) THEN Paint(i + 1, line + 1, 0, size, seen \/ i = cursor_offset)
       ELSE IF line >= window_offset + size THEN IF seen THEN "shown" ELSE Toward(i)
       ELSE Paint(i + 1, line + 1, 0, size, seen)
  ELSE Put(i, line, col, size, seen, Columns(i, col))
Refresh ==
  /\ phase = "paint"
  /\ LET pass == Paint(0, 0, 0, WINDOW, FALSE)
         end == IF pass = "down" /\ window_offset > Len(buffer) THEN "hung" ELSE pass
     IN  /\ phase' = CASE end = "shown" -> "key" [] end = "hung" -> "hung" [] OTHER -> "paint"
         /\ window_offset' = CASE end = "up" -> window_offset - 1 [] end = "down" -> window_offset + 1 [] OTHER -> window_offset
  /\ overflow_error' = FALSE
  /\ UNCHANGED <<buffer, cursor_offset, result>>

-----------------------------------------------------------------------------
Unled(b) == LET k == CHOOSE i \in 1 .. Len(b) + 1 : (i = Len(b) + 1 \/ b[i] # NEWLINE) /\ \A j \in 1 .. i - 1 : b[j] = NEWLINE
            IN  SubSeq(b, k, Len(b))
Init ==
  /\ \E e \in Entries : buffer = Unled(e)
  /\ cursor_offset = 0
  /\ window_offset = 0
  /\ phase = "paint"
  /\ overflow_error = FALSE
  /\ result = "none"

Moved(to) ==
  /\ phase = "key"
  /\ cursor_offset' = to
  /\ phase' = "paint"
  /\ UNCHANGED <<buffer, window_offset, overflow_error, result>>
Down == Moved(get_next_line(buffer, cursor_offset))
Up == Moved(get_prev_line(buffer, cursor_offset))
Left == Moved(IF cursor_offset > 0 THEN cursor_offset - 1 ELSE 0)
Right == Moved(IF cursor_offset < Len(buffer) THEN cursor_offset + 1 ELSE cursor_offset)
Home == Moved(get_line_offset(buffer, cursor_offset))
End == Moved(cursor_offset + get_line_length(buffer, cursor_offset))

Without(at) == SubSeq(buffer, 1, at) \o SubSeq(buffer, at + 2, Len(buffer))
Backspace ==
  /\ phase = "key"
  /\ cursor_offset > 0
  /\ cursor_offset' = cursor_offset - 1
  /\ buffer' = Without(cursor_offset - 1)
  /\ phase' = "paint"
  /\ UNCHANGED <<window_offset, overflow_error, result>>
Delete ==
  /\ phase = "key"
  /\ buffer' = Without(cursor_offset)
  /\ phase' = "paint"
  /\ UNCHANGED <<cursor_offset, window_offset, overflow_error, result>>
Type ==
  /\ phase = "key"
  /\ \E c \in Chars :
       IF Len(buffer) < EDITOR_MAX_BUFFER_SIZE - 1
       THEN /\ buffer' = SubSeq(buffer, 1, cursor_offset) \o <<c>> \o SubSeq(buffer, cursor_offset + 1, Len(buffer))
            /\ cursor_offset' = cursor_offset + 1
            /\ overflow_error' = FALSE
       ELSE /\ overflow_error' = TRUE
            /\ UNCHANGED <<buffer, cursor_offset>>
  /\ phase' = "paint"
  /\ UNCHANGED <<window_offset, result>>
Escape ==
  /\ phase = "key"
  /\ phase' = "left"
  /\ result' = "discarded"
  /\ UNCHANGED <<buffer, cursor_offset, window_offset, overflow_error>>
F10 ==
  /\ phase = "key"
  /\ phase' = "left"
  /\ result' = "booted"
  /\ UNCHANGED <<buffer, cursor_offset, window_offset, overflow_error>>

Next ==
  \/ Refresh \/ Down \/ Up \/ Left \/ Right \/ Home \/ End \/ Backspace \/ Delete \/ Type \/ Escape \/ F10
Spec == Init /\ [][Next]_vars /\ WF_vars(Refresh)

-----------------------------------------------------------------------------
TypeOK ==
  /\ cursor_offset \in 0 .. Len(buffer)
  /\ Len(buffer) < EDITOR_MAX_BUFFER_SIZE
  /\ window_offset \in Nat
  /\ phase \in {"paint", "key", "hung", "left"}

\* Painting comes to an end, with the cursor on the screen, as long as no tab
\* is in the text, every line fits the window with a line to spare, and the
\* cursor is not at the end of a text that has become shorter than the window's
\* first line.
RECURSIVE LinesOf(_)
LinesOf(b) ==
  LET n == get_line_length(b, 0)
  IN  IF n = Len(b) THEN <<n>> ELSE <<n>> \o LinesOf(SubSeq(b, n + 2, Len(b)))
Plain ==
  /\ \A i \in DOMAIN buffer : buffer[i] # TABULATOR
  /\ \A i \in DOMAIN LinesOf(buffer) : LinesOf(buffer)[i] \div LINE + 1 < WINDOW
  /\ cursor_offset = Len(buffer) => window_offset < Len(LinesOf(buffer))
EditorSettles == (phase = "paint" /\ Plain) ~> (phase = "key")

\* Not guaranteed: "ESC Discard and Exit    F10 Boot" is what the editor offers at any time: it
\* comes back to waiting for a key whatever was typed (menu.c).
EditorAlwaysSettles == phase = "paint" ~> phase = "key"
=============================================================================
