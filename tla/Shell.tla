--------------------------------- MODULE Shell ---------------------------------
(***************************************************************************)
(* A terminal session: the line editor of src/apps/shell.c on the terminal *)
(* of src/ui/terminal.c, in one slot of the desktop's windows.  What a     *)
(* command does is left out but for what it prints, and that it may clear  *)
(* the terminal, copy it, paste or close the window.  The prompt is one    *)
(* character, and there is no greeting.                                    *)
(***************************************************************************)
EXTENDS Integers, FiniteSets, Sequences, SequencesExt

CONSTANTS
  SCROLLBACK_LINES, MAX_CMD_LEN, MAX_HISTORY,
  Typed,          \* characters
  Commands,       \* shell_commands, as sequences of characters
  Outputs,        \* what commands print
  Bounds,         \* sizes the window can give the terminal: columns and rows
  MaxLines        \* bound: lines printed

ShellAssumption == SCROLLBACK_LINES \in Nat /\ MAX_CMD_LEN \in Nat \ {0} /\ MAX_HISTORY \in Nat /\ MaxLines \in Nat /\ Bounds # {}

VARIABLES
  open,           \* the slot is in use
  term, clipboard,
  cmd, cmd_len,   \* the characters before the first 0, and how many of them count
  history, history_index,
  log,            \* every line since the terminal was last blank, the one being written last
  bottom,         \* the line of log the user is looking at, in the lowest row
  misled          \* the line on the screen was begun from what an earlier shell left

line == <<cmd, cmd_len, history, history_index>>
vars == <<open, term, clipboard, line, log, bottom, misled>>

Prompt == <<"p">>

-----------------------------------------------------------------------------
(* The terminal: a ring of lines of which the last rows are shown, or, scrolled back, *)
(* earlier ones.  "\n" ends a line and "bs" is the backspace.                         *)

Total(t) == t.rows + SCROLLBACK_LINES

BlankLine(cols) == [k \in 0 .. cols - 1 |-> " "]

\* terminal_alloc_cells, for new bounds, and terminal_clear.  There is always memory.
Fresh(cols, rows) ==
  [cols |-> cols, rows |-> rows, cursor_x |-> 0, line_head |-> 0, line_count |-> 1, view_offset |-> 0,
   cells |-> [l \in 0 .. rows + SCROLLBACK_LINES - 1 |-> BlankLine(cols)]]

terminal_init(cols, rows) == Fresh(cols, rows)

terminal_set_bounds(t, cols, rows) == IF cols = t.cols /\ rows = t.rows THEN t ELSE Fresh(cols, rows)

terminal_clear(t) == Fresh(t.cols, t.rows)

\* Mutant: one line too far.
terminal_max_offset_Over(t) == Min({Max({0, t.line_count - t.rows + 1}), Total(t)})

terminal_max_offset(t) == Min({Max({0, t.line_count - t.rows}), Total(t)})

\* The line the head moves to is blanked: the ring may have used it before.
ClearLine(t) == [t EXCEPT !.cells[t.line_head] = BlankLine(t.cols)]

\* The end of a line, by '\n' or by a character in the last column.
NextLine(t) ==
  LET n == ClearLine([t EXCEPT !.cursor_x = 0, !.line_head = (@ + 1) % Total(t),
                               !.line_count = IF @ < Total(t) THEN @ + 1 ELSE @])
  IN  IF t.view_offset > 0 THEN [n EXCEPT !.view_offset = Min({@ + 1, terminal_max_offset(n)})] ELSE n

terminal_putc(t, c) ==
  CASE c = "\n" -> NextLine(t)
    [] c = "bs" -> IF t.cursor_x > 0
                   THEN [t EXCEPT !.cursor_x = @ - 1, !.cells[t.line_head][t.cursor_x - 1] = " "]
                   ELSE t
    [] OTHER -> LET n == [t EXCEPT !.cells[t.line_head][t.cursor_x] = c, !.cursor_x = @ + 1]
                IN  IF n.cursor_x >= t.cols THEN NextLine(n) ELSE n

terminal_print(t, s) == FoldLeft(terminal_putc, t, s)

terminal_scroll_up(t) ==
  IF t.view_offset < terminal_max_offset(t) THEN [t EXCEPT !.view_offset = @ + 1] ELSE t

terminal_scroll_down(t) == IF t.view_offset > 0 THEN [t EXCEPT !.view_offset = @ - 1] ELSE t

\* The rows terminal_render draws.
Rendered(t) ==
  LET top == t.line_head - (t.rows - 1) - Min({t.view_offset, terminal_max_offset(t)})
  IN  [r \in 0 .. t.rows - 1 |-> t.cells[(top + r) % Total(t)]]

\* A row without the blanks at its end, and a line end.
Trimmed(row) ==
  LET n == Max({0} \cup {k + 1 : k \in {k \in DOMAIN row : row[k] # " "}})
  IN  [k \in 1 .. n + 1 |-> IF k <= n THEN row[k - 1] ELSE "\n"]

\* terminal_copy_visible: what the clipboard holds.
Copied(t) == LET rows == Rendered(t) IN FlattenSeq([r \in 1 .. t.rows |-> Trimmed(rows[r - 1])])

-----------------------------------------------------------------------------
(* What the user expects to see: an endless log and a window on it. *)

\* The log with one more character, put in column x of its last line.
LogPut(l, cols, c) ==
  LET n == Len(l.lines)
      Break(lines) == [lines |-> Append(lines, BlankLine(cols)), x |-> 0]
      w == [l.lines EXCEPT ![n][l.x] = c]
  IN  CASE c = "\n" -> Break(l.lines)
        [] c = "bs" /\ l.x > 0 -> [lines |-> [l.lines EXCEPT ![n][l.x - 1] = " "], x |-> l.x - 1]
        [] c = "bs" /\ l.x = 0 -> l
        [] OTHER -> IF l.x + 1 = cols THEN Break(w) ELSE [lines |-> w, x |-> l.x + 1]

LogPrint(lines, x, cols, s) ==
  LET Put(l, c) == LogPut(l, cols, c) IN FoldLeft(Put, [lines |-> lines, x |-> x], s).lines

\* Lines above the scrollback cannot be looked at; what they said is forgotten.
Kept(lines, t) ==
  [i \in 1 .. Len(lines) |-> IF i <= Len(lines) - Total(t) THEN BlankLine(t.cols) ELSE lines[i]]

\* A view at the end stays at the end; one further up stays where it is, unless its
\* lines are no longer kept.
View(n) == IF bottom = Len(log) THEN n ELSE Max({bottom, n - SCROLLBACK_LINES})

\* s goes to the terminal.
Show(s) ==
  LET lines == LogPrint(log, term.cursor_x, term.cols, s)
  IN  /\ Len(lines) <= MaxLines
      /\ term' = terminal_print(term, s)
      /\ log' = Kept(lines, term)
      /\ bottom' = View(Len(lines))

\* A terminal that has become blank, and s on it.
ShowOn(t, s) ==
  /\ term' = terminal_print(t, s)
  /\ log' = Kept(LogPrint(<<BlankLine(t.cols)>>, 0, t.cols, s), t)
  /\ bottom' = Len(log')

-----------------------------------------------------------------------------
(* shell_handle_key. *)

Line == SubSeq(cmd, 1, cmd_len)

SetLine(c) == cmd' = c /\ cmd_len' = Len(c)

\* Mutant: the old line is kept in front.
Recalled_Behind(c) == SubSeq(Line \o c, 1, Min({Len(Line \o c), MAX_CMD_LEN - 1}))

\* The line shell_set_command leaves.
Recalled(c) == SubSeq(c, 1, Min({Len(c), MAX_CMD_LEN - 1}))

\* Up and down.
Recall(i) ==
  /\ open
  /\ history_index' = i
  /\ SetLine(Recalled(history[i + 1]))
  /\ Show(<<"\n">> \o Prompt \o history[i + 1])
  /\ misled' = FALSE
  /\ UNCHANGED <<open, clipboard, history>>

KeyUp == history_index > 0 /\ Recall(history_index - 1)
KeyDown == history_index + 1 < Len(history) /\ Recall(history_index + 1)

KeyBackspace ==
  /\ open /\ cmd_len > 0
  /\ SetLine(Front(Line))
  /\ Show(<<"bs">>)
  /\ UNCHANGED <<open, clipboard, history, history_index, misled>>

KeyChar(c) ==
  /\ open /\ cmd_len < MAX_CMD_LEN - 1
  /\ SetLine(Append(Line, c))
  /\ Show(<<c>>)
  /\ UNCHANGED <<open, clipboard, history, history_index, misled>>

\* shell_autocomplete: the rest of the only match or of what all matches share, or a
\* list of the matches and the line again, up to the 0.
Matches == {c \in Commands : IsPrefix(Line, c)}

KeyTab ==
  LET common == LongestCommonPrefix(Matches)
      more == SubSeq(common, cmd_len + 1, Min({Len(common), MAX_CMD_LEN - 1}))
  IN  /\ open /\ Matches # {}
      /\ \/ /\ Cardinality(Matches) = 1 \/ Len(common) > cmd_len
            /\ SetLine(Line \o more)
            /\ Show(more)
            /\ UNCHANGED misled
         \/ /\ Cardinality(Matches) > 1 /\ Len(common) = cmd_len
            /\ Show(<<"\n">> \o FlattenSeq(SetToSeq({Append(c, "\n") : c \in Matches}))
                    \o <<"\n">> \o Prompt \o cmd)
            /\ misled' = (Len(cmd) # cmd_len)
            /\ UNCHANGED <<cmd, cmd_len>>
      /\ UNCHANGED <<open, clipboard, history, history_index>>

\* Enter: the line goes into the history while there is room, the command runs, and
\* unless it was exit there is a new prompt.
Record ==
  /\ history' = IF cmd_len > 0 /\ Len(history) < MAX_HISTORY THEN Append(history, Line) ELSE history
  /\ history_index' = Len(history')

Prompted(s) == Show(<<"\n">> \o s \o Prompt)

\* What a command does to the terminal, after the line end: it prints, clears, prints
\* after it has copied what is visible, or pastes.
execute_command ==
  \/ (\E s \in Outputs : Prompted(s)) /\ UNCHANGED clipboard
  \/ ShowOn(terminal_clear(terminal_putc(term, "\n")), Prompt) /\ UNCHANGED clipboard
  \/ (\E s \in Outputs : Prompted(s)) /\ clipboard' = Copied(terminal_putc(term, "\n"))
  \/ Prompted(clipboard) /\ UNCHANGED clipboard

KeyEnter ==
  /\ open
  /\ Record
  /\ SetLine(<<>>)
  /\ misled' = FALSE
  /\ IF cmd_len = 0 THEN Prompted(<<>>) /\ UNCHANGED clipboard ELSE execute_command
  /\ UNCHANGED open

-----------------------------------------------------------------------------
(* What desktop.c does with the terminal and the shell. *)

ScrollUp ==
  /\ open
  /\ term' = terminal_scroll_up(term)
  /\ bottom' = IF bottom > Max({term.rows, Len(log) - SCROLLBACK_LINES}) THEN bottom - 1 ELSE bottom
  /\ UNCHANGED <<open, clipboard, line, log, misled>>

ScrollDown ==
  /\ open
  /\ term' = terminal_scroll_down(term)
  /\ bottom' = Min({bottom + 1, Len(log)})
  /\ UNCHANGED <<open, clipboard, line, log, misled>>

\* draw_window after a resize: the text is lost, the line being typed is not.
Resize(b) ==
  /\ open /\ b # <<term.cols, term.rows>>
  /\ term' = terminal_set_bounds(term, b[1], b[2])
  /\ log' = <<BlankLine(b[1])>> /\ bottom' = 1
  /\ UNCHANGED <<open, clipboard, line, misled>>

\* The window is closed, by the exit command or otherwise: desktop_close_window leaves
\* the slot as it is.  (What the terminal held is lost.)
Close ==
  /\ open /\ open' = FALSE
  /\ ShowOn(Fresh(term.cols, term.rows), <<>>)
  /\ misled' = FALSE /\ clipboard' = <<>> /\ history' = <<>> /\ history_index' = 0
  /\ UNCHANGED <<cmd, cmd_len>>

\* The characters of cmd are left as they are.
shell_init(t) ==
  /\ ShowOn(t, Prompt)
  /\ cmd_len' = 0 /\ history' = <<>> /\ history_index' = 0
  /\ UNCHANGED cmd

\* desktop_create_window in the same slot.
Reopen(b) ==
  /\ ~open /\ open' = TRUE
  /\ shell_init(terminal_init(b[1], b[2]))
  /\ UNCHANGED <<clipboard, misled>>

\* The slots are 0 at first.
Init ==
  /\ open = FALSE
  /\ \E b \in Bounds : term = Fresh(b[1], b[2]) /\ log = <<BlankLine(b[1])>>
  /\ bottom = 1 /\ clipboard = <<>> /\ misled = FALSE
  /\ cmd = <<>> /\ cmd_len = 0 /\ history = <<>> /\ history_index = 0

Next ==
  \/ KeyUp \/ KeyDown \/ KeyBackspace \/ KeyTab \/ KeyEnter \/ ScrollUp \/ ScrollDown \/ Close
  \/ \E c \in Typed : KeyChar(c)
  \/ \E b \in Bounds : Resize(b) \/ Reopen(b)

Spec == Init /\ [][Next]_vars

-----------------------------------------------------------------------------
(* Properties. *)

\* terminal_render shows the lines the user is looking at, also when the ring has gone
\* round, while the view is scrolled back and output arrives, and before there are
\* lines enough.
ShowsLog ==
  Rendered(term) = [r \in 0 .. term.rows - 1 |->
                      LET l == bottom - term.rows + 1 + r
                      IN  IF l >= 1 THEN log[l] ELSE BlankLine(term.cols)]

\* The line on the screen is the one Enter will run, however it was typed, corrected,
\* completed or recalled (shell_handle_key): it stands behind the last prompt, as long as
\* that is in the row of the cursor and the line was not begun by listing what an earlier
\* shell left.
EchoTrue ==
  LET row == term.cells[term.line_head]
      prompts == {k \in 0 .. term.cursor_x - 1 : row[k] = Prompt[1]}
  IN  open /\ ~misled /\ prompts # {} =>
        Line = [k \in 1 .. term.cursor_x - 1 - Max(prompts) |-> row[Max(prompts) + k]]
=============================================================================
