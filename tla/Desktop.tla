------------------------------- MODULE Desktop -------------------------------
(***************************************************************************)
(* The window manager of src/ui/desktop.c: the array of windows, the       *)
(* indices into it, the launcher, the flags that say what to draw again,   *)
(* and the two pointers that outlive a move in the array: a terminal's     *)
(* cells and a shell's terminal.                                           *)
(*                                                                         *)
(* A window has an identity the code does not keep.  Of its geometry only  *)
(* a size remains; where the pointer is is a choice among what it can hit. *)
(* What is in a terminal is left to module Terminal.                       *)
(***************************************************************************)
EXTENDS Integers, FiniteSets, FiniteSetsExt

CONSTANTS
  MAX_WINDOWS,
  MaxOpened,      \* bound: windows opened in all
  Buffers,        \* bound: buffers the heap has room for
  Types,          \* of windows
  Size,           \* of windows: "normal", "full" and others
  MaxMatches      \* entries of the launcher

Slot == 0 .. MAX_WINDOWS - 1
Buffer == 1 .. Buffers
NULL == 0
None == -1

ASSUME DesktopAssumption ==
  MAX_WINDOWS \in Nat \ {0} /\ MaxOpened \in Nat \ {0} /\ Buffers \in Nat /\ MaxMatches \in Nat

VARIABLES
  windows, window_count, active_index,
  dragging_index, resizing_index,
  launcher,       \* open, the selection, the number of matches
  down,           \* the left button
  allocated,      \* buffers malloc has given out
  dirty,          \* dirty_full, dirty_panel, dirty_window
  phase,          \* of desktop_loop: "keys" or "draw"
  opened,         \* windows opened so far
  grabbed,        \* the window the button went down on, while it is dragged or resized
  unseen,         \* what has changed since it was last drawn
  strayed         \* a shell has written to a terminal that is not its window's

vars == <<windows, window_count, active_index, dragging_index, resizing_index, launcher, down,
          allocated, dirty, phase, opened, grabbed, unseen, strayed>>

Open == 0 .. window_count - 1

-----------------------------------------------------------------------------
(* Values of the state, and what the helpers of desktop.c make of them.  A desk is *)
(* the part they work on.                                                          *)

Desk == [w |-> windows, n |-> window_count, active |-> active_index,
         drag |-> dragging_index, resize |-> resizing_index]

desktop_focus_window(d, i) ==
  LET shown == [k \in Slot |-> IF k < d.n THEN [d.w[k] EXCEPT !.active = FALSE] ELSE d.w[k]]
  IN  IF i \notin 0 .. d.n - 1 THEN d
      ELSE IF d.w[i].minimized THEN [d EXCEPT !.w = shown, !.active = None]
      ELSE [d EXCEPT !.w = [shown EXCEPT ![i].active = TRUE], !.active = i]

\* An index into the array, after the window at i has gone to the top.
Follow(k, i, top) == IF k = i THEN top ELSE IF k > i THEN k - 1 ELSE k

desktop_raise_window(d, i) ==
  LET top == d.n - 1
  IN  IF i = top THEN d ELSE
      [d EXCEPT !.w = [k \in Slot |-> IF k = top THEN d.w[i]
                                      ELSE IF k >= i /\ k < top THEN d.w[k + 1] ELSE d.w[k]],
                !.active = Follow(d.active, i, top),
                !.drag = Follow(d.drag, i, top),
                !.resize = Follow(d.resize, i, top)]

\* Mutant: the window below is not given the focus.
Refocus_Not(d) == d

Refocus(d) == IF d.n = 0 THEN [d EXCEPT !.active = None] ELSE desktop_focus_window(d, d.n - 1)

\* A slot that is not in use.  Its other fields are written before they are read again.
Left(term, shell) ==
  [id |-> 0, type |-> "none", active |-> FALSE, minimized |-> FALSE, size |-> "normal", term |-> term, shell |-> shell]

desktop_close_window(d, i) ==
  LET last == d.w[d.n - 1]
  IN  Refocus([d EXCEPT !.w = [d.w EXCEPT ![i] = last, ![d.n - 1] = Left(last.term, last.shell)], !.n = d.n - 1])

\* Indices desktop_focus_next tries, in order.
Tried(d, dir) ==
  LET start == IF d.active \in 0 .. d.n - 1 THEN d.active ELSE 0
  IN  [s \in 1 .. d.n |-> (start + dir * s + d.n * d.n) % d.n]

desktop_focus_next(d, dir) ==
  LET t == Tried(d, dir)
      ok == {s \in 1 .. d.n : ~d.w[t[s]].minimized}
  IN  IF ok = {} THEN d ELSE desktop_focus_window(d, t[Min(ok)])

-----------------------------------------------------------------------------
(* What the user sees. *)

Nothing == [layout |-> FALSE, launcher |-> FALSE, inside |-> {}]

\* All of the desktop but what is inside the windows.
Layout ==
  [i \in Open |-> [id |-> windows[i].id, active |-> windows[i].active, minimized |-> windows[i].minimized,
                   size |-> windows[i].size, front |-> active_index = i]]

\* What a step changes is unseen until it is drawn.  Once the whole desktop is to be
\* drawn, there is nothing to keep.
Notice(inside) ==
  unseen' = IF dirty'.full THEN Nothing
            ELSE [layout |-> unseen.layout \/ Layout' # Layout,
                  launcher |-> unseen.launcher \/ (launcher' # launcher /\ (launcher.open \/ launcher'.open)),
                  inside |-> unseen.inside \cup {i \in inside : ~windows[i].minimized}]

Become(d) ==
  /\ windows' = d.w /\ window_count' = d.n /\ active_index' = d.active
  /\ dragging_index' = d.drag /\ resizing_index' = d.resize

\* The flags for parts do not count when there is the one for the whole.
Whole == [full |-> TRUE, panel |-> TRUE, window |-> None]

Marks(full, panel, win) ==
  dirty' = IF dirty.full \/ full THEN Whole
           ELSE [full |-> FALSE, panel |-> dirty.panel \/ panel, window |-> IF win = None THEN dirty.window ELSE win]

Redraw == Marks(TRUE, TRUE, None)

-----------------------------------------------------------------------------
(* Windows made and closed. *)

\* malloc: the k-th buffer that is free, or none.
Malloc(free, k) ==
  LET least == {b \in free : Cardinality({c \in free : c < b}) = k - 1}
  IN  IF least = {} THEN NULL ELSE CHOOSE b \in least : TRUE

desktop_create_window(type) ==
  IF window_count >= MAX_WINDOWS THEN UNCHANGED <<windows, window_count, active_index, dragging_index,
                                                  resizing_index, allocated, opened>>
  ELSE /\ opened < MaxOpened
       /\ opened' = opened + 1
       /\ LET i == window_count
                b == IF type = "Terminal" THEN Malloc(Buffer \ allocated, 1) ELSE NULL
                win == [windows[i] EXCEPT !.id = opened + 1, !.type = type, !.size = "normal",
                                          !.active = FALSE, !.minimized = FALSE]
                made == IF type = "Terminal"
                        THEN [win EXCEPT !.term = [cells |-> b, size |-> "normal"], !.shell = i]
                        ELSE win
            IN  /\ Become(desktop_focus_window([Desk EXCEPT !.w[i] = made, !.n = i + 1], i))
                /\ allocated' = allocated \cup ({b} \ {NULL})

\* Mutant: the cells of the closed window are freed, after another window took its slot.
Close_Frees(i) ==
  /\ Become(desktop_close_window(Desk, i))
  /\ grabbed' = NULL
  /\ allocated' = allocated \ {windows'[i].term.cells}
  /\ UNCHANGED opened

\* The part of desktop_close_window outside the array: nothing is freed, and the indices
\* of a drag stay as they are.
Close(i) ==
  /\ Become(desktop_close_window(Desk, i))
  /\ grabbed' = NULL
  /\ UNCHANGED <<allocated, opened>>

-----------------------------------------------------------------------------
(* Keys, in the first part of an iteration of desktop_loop. *)

Keys == phase = "keys" /\ UNCHANGED <<phase, down>>

\* launcher_reset_query.  It is done when the launcher opens, and its state shows only then.
LauncherReset == [open |-> FALSE, selection |-> 0, matches |-> MaxMatches]

\* The Win key; a press on the button of the launcher does the same.
ToggleLauncher ==
  launcher' = [LauncherReset EXCEPT !.open = ~launcher.open]

KeyWin ==
  /\ Keys /\ ToggleLauncher /\ Redraw
  /\ UNCHANGED <<windows, window_count, active_index, dragging_index, resizing_index, allocated, opened,
                 grabbed, strayed>>

KeyAltTab ==
  /\ Keys /\ Redraw
  /\ \E dir \in {-1, 1} : Become(IF window_count = 0 THEN Desk ELSE desktop_focus_next(Desk, dir))
  /\ UNCHANGED <<launcher, allocated, opened, grabbed, strayed>>

\* launcher_match_count, for whatever the query has become.
MatchCounts == 0 .. MaxMatches

\* Escape, backspace or a letter, up and down, in the launcher.
KeyLauncher ==
  /\ Keys /\ launcher.open
  /\ \/ launcher' = LauncherReset /\ Marks(TRUE, FALSE, None)
     \/ \E m \in MatchCounts :
          launcher' = [launcher EXCEPT !.matches = m, !.selection = 0] /\ Marks(FALSE, TRUE, None)
     \/ \E k \in {launcher.selection - 1, launcher.selection + 1} :
          /\ k \in 0 .. launcher.matches - 1
          /\ launcher' = [launcher EXCEPT !.selection = k] /\ Marks(FALSE, TRUE, None)
  /\ UNCHANGED <<windows, window_count, active_index, dragging_index, resizing_index, allocated, opened,
                 grabbed, strayed>>

\* Enter in the launcher.
KeyLaunch ==
  /\ Keys /\ launcher.open /\ Redraw
  /\ launcher' = LauncherReset
  /\ IF launcher.matches > 0 THEN \E type \in Types : desktop_create_window(type)
     ELSE UNCHANGED <<windows, window_count, active_index, dragging_index, resizing_index, allocated, opened>>
  /\ UNCHANGED <<grabbed, strayed>>

\* desktop_snap_window: half of the screen, or all of it.
desktop_snap_window(i) == \E size \in Size \ {"normal"} : windows' = [windows EXCEPT ![i].size = size]

KeyAlt ==
  /\ Keys /\ ~launcher.open /\ Redraw
  /\ \/ (\E type \in Types : desktop_create_window(type)) /\ UNCHANGED grabbed
     \/ /\ active_index >= 0
        /\ \/ /\ desktop_snap_window(active_index)
              /\ UNCHANGED <<window_count, active_index, dragging_index, resizing_index, allocated, opened,
                             grabbed>>
           \/ Close(active_index)
           \/ /\ windows' = [windows EXCEPT ![active_index].minimized = TRUE]
              /\ UNCHANGED <<window_count, active_index, dragging_index, resizing_index, allocated, opened,
                             grabbed>>
     \/ /\ active_index < 0
        /\ UNCHANGED <<windows, window_count, active_index, dragging_index, resizing_index, allocated, opened,
                       grabbed>>
  /\ UNCHANGED <<launcher, strayed>>

\* Where the shell of the active window writes.
Target == windows[windows[active_index].shell].term.cells

\* Mutant: the window is not marked.
KeyMarks_Not == UNCHANGED dirty

KeyMarks == Marks(FALSE, FALSE, active_index)

\* shell_handle_key: it prints to, or clears, its terminal.
KeyShell ==
  /\ Keys /\ ~launcher.open /\ active_index >= 0 /\ windows[active_index].type = "Terminal"
  /\ strayed' = (strayed \/ windows[active_index].shell # active_index)
  /\ KeyMarks
  /\ UNCHANGED <<windows, window_count, active_index, dragging_index, resizing_index, launcher, allocated, opened,
                 grabbed>>

\* The exit command.
KeyExit ==
  /\ Keys /\ ~launcher.open /\ active_index >= 0 /\ windows[active_index].type = "Terminal"
  /\ Close(active_index) /\ Redraw
  /\ UNCHANGED <<launcher, strayed>>

\* A key for the file manager or the browser, or one that scrolls a terminal.
KeyOther ==
  /\ Keys /\ ~launcher.open /\ active_index >= 0 /\ windows[active_index].type \in {"Files", "Terminal"}
  /\ KeyMarks
  /\ UNCHANGED <<windows, window_count, active_index, dragging_index, resizing_index, launcher, allocated,
                 opened, grabbed, strayed>>

-----------------------------------------------------------------------------
(* The mouse, in the second part: the state after all packets that have come. *)

Mouse == phase = "keys" /\ phase' = "draw"

Calm == UNCHANGED <<launcher, allocated, opened, strayed>>

Press == Mouse /\ ~down /\ down' = TRUE

PressLauncher ==
  /\ Press /\ ToggleLauncher /\ Redraw
  /\ UNCHANGED <<windows, window_count, active_index, dragging_index, resizing_index, allocated, opened,
                 grabbed, strayed>>

\* A task button: show, hide, or focus.
PressTask(i) ==
  /\ Press /\ Redraw
  /\ Become(IF windows[i].minimized
            THEN desktop_focus_window([Desk EXCEPT !.w[i].minimized = FALSE], i)
            ELSE IF active_index = i
            THEN [Desk EXCEPT !.w[i].minimized = TRUE, !.w[i].active = FALSE, !.active = None]
            ELSE desktop_focus_window(Desk, i))
  /\ Calm /\ UNCHANGED grabbed

\* An entry of the launcher.
PressEntry ==
  /\ Press /\ Redraw
  /\ launcher.open /\ launcher.matches > 0
  /\ launcher' = LauncherReset
  /\ \E type \in Types : desktop_create_window(type)
  /\ UNCHANGED <<grabbed, strayed>>

\* find_top_window_at can return it: nothing lies all over it.
CanHit(i) ==
  ~windows[i].minimized /\ \A j \in i + 1 .. window_count - 1 : windows[j].minimized \/ windows[j].size # "full"

\* A window: it comes to the front, and its button, edge, title or inside is pressed.
\* update_drag_resize follows at once.
PressWindow(i) ==
  LET top == window_count - 1
      d == desktop_focus_window(desktop_raise_window(Desk, i), top)
  IN  /\ Press /\ Redraw /\ CanHit(i)
      /\ Calm
      /\ \/ Become(desktop_close_window(d, top)) /\ grabbed' = NULL
         \/ /\ \E size \in Size : Become([d EXCEPT !.resize = top, !.w[top].size = size])
            /\ grabbed' = windows[i].id
         \/ Become([d EXCEPT !.drag = top]) /\ grabbed' = windows[i].id
         \/ Become(d) /\ UNCHANGED grabbed

\* A window that is closed while it is dragged may leave the index of an unused slot.
Resized(i, size) == IF i \in Open THEN [windows EXCEPT ![i].size = size] ELSE windows

\* Nothing is hit, or the button stays down: update_drag_resize.  A window that is
\* dragged may have moved.
Move ==
  /\ Mouse
  /\ down' \in {down, TRUE}
  /\ IF resizing_index >= 0 /\ down'
     THEN /\ \E size \in Size : windows' = Resized(resizing_index, size)
          /\ Marks(TRUE, FALSE, None)
     ELSE /\ UNCHANGED windows
          /\ UNCHANGED dirty \/ (dragging_index >= 0 /\ down' /\ Marks(TRUE, FALSE, None))
  /\ UNCHANGED <<window_count, active_index, dragging_index, resizing_index, grabbed>> /\ Calm

\* The button goes up: a drag may end at an edge of the screen.
Release ==
  /\ Mouse /\ down /\ down' = FALSE
  /\ dragging_index' = None /\ resizing_index' = None /\ grabbed' = NULL
  /\ \/ UNCHANGED <<windows, dirty>>
     \/ /\ dragging_index >= 0
        /\ \E size \in Size \ {"normal"} : windows' = Resized(dragging_index, size)
        /\ Redraw
  /\ UNCHANGED <<window_count, active_index>> /\ Calm

-----------------------------------------------------------------------------
(* Drawing, in the third part. *)

\* The terminals whose cells terminal_set_bounds replaces.
Outgrown(D) ==
  {i \in D : /\ windows[i].type = "Terminal"
             /\ windows[i].term.cells = NULL \/ windows[i].term.size # windows[i].size}

Draw ==
  LET D == {i \in Open : (dirty.full \/ dirty.window = i) /\ ~windows[i].minimized}
      R == Outgrown(D)
      freed == {windows[i].term.cells : i \in R} \ {NULL}
      free == Buffer \ (allocated \ freed)
  IN  /\ phase = "draw" /\ phase' = "keys"
      /\ LET f == [i \in R |-> Malloc(free, Cardinality({j \in R : j <= i}))] IN
           /\ windows' = [i \in Slot |-> IF i \in R
                                         THEN [windows[i] EXCEPT !.term = [cells |-> f[i], size |-> windows[i].size]]
                                         ELSE windows[i]]
           /\ allocated' = ((allocated \ freed) \cup {f[i] : i \in R}) \ {NULL}
      /\ dirty' = [full |-> FALSE, panel |-> FALSE,
                   window |-> IF dirty.full \/ dirty.window \in Open THEN None ELSE dirty.window]
      /\ unseen' = IF dirty.full THEN Nothing
                   ELSE [unseen EXCEPT !.launcher = @ /\ ~(dirty.panel /\ launcher.open), !.inside = @ \ D]
      /\ UNCHANGED <<window_count, active_index, dragging_index, resizing_index, launcher, down, opened, grabbed,
                     strayed>>

-----------------------------------------------------------------------------
\* desktop_init: one terminal, made while the array is empty.
Init ==
  LET b == Malloc(Buffer, 1) IN
    /\ windows = [i \in Slot |->
         IF i = 0 THEN [Left([cells |-> b, size |-> "normal"], 0) EXCEPT !.id = 1, !.type = "Terminal", !.active = TRUE]
         ELSE Left([cells |-> NULL, size |-> "normal"], 0)]
    /\ window_count = 1 /\ active_index = 0
    /\ dragging_index = None /\ resizing_index = None
    /\ launcher = LauncherReset
    /\ down = FALSE
    /\ allocated = {b} \ {NULL}
    /\ dirty = Whole
    /\ phase = "keys" /\ opened = 1 /\ grabbed = NULL
    /\ unseen = Nothing
    /\ strayed = FALSE

\* The terminals that show what is written to b; without cells, nothing is written.
Shows(b) == {i \in Open : b # NULL /\ windows[i].type = "Terminal" /\ windows[i].term.cells = b}

KeyInside == \/ KeyShell /\ Notice(Shows(Target))
             \/ KeyOther /\ Notice({active_index})

KeyDesktop == KeyWin \/ KeyAltTab \/ KeyLauncher \/ KeyLaunch \/ KeyAlt \/ KeyExit

handle_mouse_click ==
  \/ PressLauncher \/ PressEntry \/ Move \/ Release
  \/ \E i \in Open : PressTask(i) \/ PressWindow(i)

Next == ((KeyDesktop \/ handle_mouse_click) /\ Notice({})) \/ KeyInside \/ Draw

Spec == Init /\ [][Next]_vars

-----------------------------------------------------------------------------
(* Properties. *)

\* The indices mean what they should, though windows change their places in the array:
\* active_index is the one window marked active; the window dragged or resized is the
\* one the button went down on, as long as none is closed meanwhile; the launcher's
\* selection is one of its matches.
IndicesHeld ==
  /\ active_index \in Open \cup {None}
  /\ \A i \in Open : windows[i].active <=> i = active_index
  /\ grabbed # NULL => \E i \in Open : i \in {dragging_index, resizing_index} /\ windows[i].id = grabbed
  /\ launcher.selection < launcher.matches \/ launcher.selection = 0

\* Window structures are copied with their pointers and closed ones are left behind in
\* the array, and yet no two open terminals have the same cells, nor cells that were freed.
CellsOwned ==
  \A i, j \in Open :
    LET b == windows[i].term.cells
    IN  windows[i].type = "Terminal" /\ b # NULL
          => b \in allocated /\ (windows[j].type = "Terminal" /\ windows[j].term.cells = b => i = j)

\* Whatever is opened, closed, brought to the front, dragged and resized: the indices name
\* the windows they mean, and no terminal has another's cells or freed ones.
WindowsHeld == IndicesHeld /\ CellsOwned

\* What is not on the screen as it is, is marked to be drawn again, until a shell
\* writes to another window's terminal: it marks its own window.
ScreenMarked ==
  (~strayed /\ ~dirty.full) =>
    /\ ~unseen.layout
    /\ unseen.launcher => dirty.panel /\ launcher.open
    /\ unseen.inside \subseteq {dirty.window}

\* The clear command, a key for the shell, clears the active window and no other.
ClearsOnlyActive ==
  [][KeyShell => Shows(Target) \subseteq {active_index}]_vars
=============================================================================
