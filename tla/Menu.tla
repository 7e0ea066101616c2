-------------------------------- MODULE Menu --------------------------------
(***************************************************************************)
(* The boot menu, limine-8.4.0/common/menu.c: the tree as it is shown, the  *)
(* selection and the window that follows it, the countdown, the editor as   *)
(* what goes in and what comes out, booting, and the return to a menu put   *)
(* back to its first state when booting panics (lib/panic.s2.c).  Entries   *)
(* are numbered in the order of the file; a text is a model value.          *)
(***************************************************************************)
EXTENDS Integers, Sequences

CONSTANTS
  Menus,          \* trees with default_entry, timeout and what entries start expanded
  ROWS,           \* lines of the tree that fit, rows - 8 in the source
  Typed,          \* texts that are typed in the editor
  SECONDS,        \* bound: of the countdown
  MaxPanics,      \* bound: boots that panic
  MaxReboots      \* bound: times the machine starts again

VARIABLES
  menu,           \* the configuration
  expanded, body,
  selected_entry, selected_menu_entry, tree_offset,
  skip_timeout, left,   \* seconds of the countdown still to go
  booting_from_editor, booting_from_blank, saved_orig_entry,
  phase,          \* "off", "countdown", "menu", "editor", "blank", "boot", "up", "wild"
  first_run, text,      \* what the editor shows, or what is booted
  LastBooted, usual,    \* LimineLastBootedEntry; the tree was then as configured
  lastEntry,      \* the entry that really was booted last, 0 for none
  panics, reboots
view == <<menu, expanded, body, selected_entry, selected_menu_entry, tree_offset, skip_timeout, left>>
edit == <<booting_from_editor, booting_from_blank, saved_orig_entry>>
keep == <<LastBooted, usual, lastEntry>>
vars == <<view, edit, phase, first_run, text, keep, panics, reboots>>

NULL == 0
NO == -1                 \* timeout: no
Own(n) == <<"body", n>>
BLANK == <<"blank", 0>>

-----------------------------------------------------------------------------
(* print_tree: the entries all of whose parents are expanded *)
RECURSIVE Shown(_, _, _)
Shown(m, ex, n) == m.parent[n] = 0 \/ (ex[m.parent[n]] /\ Shown(m, ex, m.parent[n]))
print_tree(m, ex) ==
  LET Is(n) == Shown(m, ex, n) IN SelectSeq([n \in 1 .. Len(m.parent) |-> n], Is)
HasSub(m, n) == \E k \in DOMAIN m.parent : m.parent[k] = n


\* refresh: the window follows the selection, and print_tree finds the entry.
Window_Fixed(sel, off) == off
Window(sel, off) ==
  LET down == IF sel >= off + ROWS THEN sel - (ROWS - 1) ELSE off
  IN  IF sel < down THEN sel ELSE down
At(m, ex, sel, old) == IF sel < Len(print_tree(m, ex)) THEN print_tree(m, ex)[sel + 1] ELSE old

\* Everything from refresh: to the wait for a key.
Refresh(ex, sel, old, skip) ==
  LET entry == At(menu, ex, sel, old)
      none == Len(print_tree(menu, ex)) = 0
      stop == skip \/ none \/ HasSub(menu, entry)
      wants == IF ~stop THEN "countdown" ELSE IF ~booting_from_editor THEN "menu"
               ELSE IF booting_from_blank THEN "blank" ELSE IF none \/ HasSub(menu, entry) THEN "menu" ELSE "editor"
  IN  /\ expanded' = ex
      /\ selected_entry' = sel
      /\ selected_menu_entry' = entry
      /\ tree_offset' = Window(sel, tree_offset)
      /\ skip_timeout' = stop
      /\ phase' = wants
      /\ text' = IF wants \in {"blank", "editor"} THEN saved_orig_entry ELSE BLANK
      /\ UNCHANGED <<menu, body, first_run, keep, panics, reboots>>

\* autoboot: a directory opens or closes, anything else is booted.
BootIt(entry, sel, txt) ==
  /\ phase' = "boot"
  /\ text' = txt
  /\ selected_entry' = sel
  /\ selected_menu_entry' = entry
  /\ LastBooted' = sel
  /\ usual' = (expanded = menu.expanded)
  /\ lastEntry' = entry
  /\ UNCHANGED <<menu, expanded, body, tree_offset, first_run, panics, reboots>>
Autoboot(entry, sel, skip) ==
  IF Len(print_tree(menu, expanded)) = 0 THEN UNCHANGED vars
  ELSE IF HasSub(menu, entry)
  THEN /\ Refresh([expanded EXCEPT ![entry] = ~@], sel, entry, skip)
       /\ UNCHANGED <<edit, left>>
  ELSE /\ BootIt(entry, sel, body[entry])
       /\ skip_timeout' = skip
       /\ UNCHANGED <<edit, left>>

-----------------------------------------------------------------------------
(* _menu, up to the first refresh *)
Init ==
  /\ menu \in Menus
  /\ expanded = menu.expanded
  /\ body = [n \in DOMAIN menu.parent |-> Own(n)]
  /\ selected_entry = 0
  /\ selected_menu_entry = NULL
  /\ tree_offset = 0
  /\ skip_timeout = FALSE
  /\ left = 0
  /\ booting_from_editor = FALSE
  /\ booting_from_blank = FALSE
  /\ saved_orig_entry = BLANK
  /\ phase = "off"
  /\ first_run = TRUE
  /\ text = BLANK
  /\ LastBooted = -1
  /\ usual = TRUE
  /\ lastEntry = 0
  /\ panics = 0
  /\ reboots = 0

\* The entry to start on: the configured one, or with remember_last_entry the
\* last booted one, or the first when there is no such entry.  The entry itself
\* is looked up before that correction.
Wanted == IF menu.remember /\ LastBooted # -1 THEN LastBooted ELSE IF menu.default > 0 THEN menu.default - 1 ELSE 0
Found == At(menu, expanded, Wanted, NULL)
Start == IF Wanted >= Len(print_tree(menu, expanded)) THEN 0 ELSE Wanted
Skips == menu.timeout = NO \/ ~first_run
StartMenu ==
  /\ phase = "off"
  /\ ~(menu.timeout = 0 /\ ~Skips)
  /\ Refresh(expanded, Start, Found, Skips)
  /\ left' = IF menu.timeout = NO THEN 0 ELSE menu.timeout
  /\ UNCHANGED edit
\* timeout 0 boots at once what was found; the look-up goes through NULL when
\* the entry asked for is not there, and what is then read is anything.
StartAtOnce ==
  /\ phase = "off"
  /\ menu.timeout = 0
  /\ ~Skips
  /\ \/ /\ Len(print_tree(menu, expanded)) = 0 \/ HasSub(menu, Found) \/ Found = NULL
        /\ Refresh(expanded, Start, Found, TRUE)
        /\ UNCHANGED <<edit, left>>
     \/ /\ Found # NULL
        /\ ~HasSub(menu, Found)
        /\ BootIt(Found, Start, body[Found])
        /\ UNCHANGED <<skip_timeout, left, edit>>
     \/ /\ Found = NULL
        /\ Len(print_tree(menu, expanded)) > 0
        /\ phase' = "wild"
        /\ UNCHANGED <<view, edit, first_run, text, keep, panics, reboots>>

Tick ==
  /\ phase = "countdown"
  /\ left > 1
  /\ left' = left - 1
  /\ UNCHANGED <<menu, expanded, body, selected_entry, selected_menu_entry, tree_offset, skip_timeout, edit,
                 phase, first_run, text, keep, panics, reboots>>
Expire ==
  /\ phase = "countdown"
  /\ left <= 1
  /\ Autoboot(selected_menu_entry, selected_entry, skip_timeout)

(* the keys; a key during the countdown ends it and counts *)
Waiting == phase \in {"countdown", "menu"}
Entries == Len(print_tree(menu, expanded))
Moves ==
  {[key |-> "home", to |-> 0], [key |-> "end", to |-> Entries - 1],
   [key |-> "up", to |-> IF selected_entry = 0 THEN Entries - 1 ELSE selected_entry - 1],
   [key |-> "down", to |-> IF selected_entry + 1 = Entries THEN 0 ELSE selected_entry + 1]}
KeyMove ==
  /\ Waiting
  /\ Entries # 0
  /\ \E m \in Moves : Refresh(expanded, m.to, selected_menu_entry, TRUE)
  /\ UNCHANGED <<edit, left>>
KeyEnter ==
  /\ Waiting
  /\ Entries # 0
  /\ Autoboot(selected_menu_entry, selected_entry, TRUE)
KeyDigit ==
  /\ Waiting
  /\ \E d \in 1 .. 9 :
       IF d <= Entries THEN Autoboot(print_tree(menu, expanded)[d], d - 1, TRUE)
       ELSE /\ Entries # 0
            /\ Refresh(expanded, selected_entry, selected_menu_entry, TRUE)
            /\ UNCHANGED <<edit, left>>
KeyEdit ==
  /\ Waiting
  /\ menu.editor
  /\ Entries # 0
  /\ ~HasSub(menu, selected_menu_entry)
  /\ phase' = "editor"
  /\ text' = IF booting_from_editor THEN saved_orig_entry ELSE body[selected_menu_entry]
  /\ skip_timeout' = TRUE
  /\ UNCHANGED <<menu, expanded, body, selected_entry, selected_menu_entry, tree_offset, left, edit,
                 first_run, keep, panics, reboots>>
KeyBlank ==
  /\ Waiting
  /\ menu.editor
  /\ phase' = "blank"
  /\ booting_from_blank' = TRUE
  /\ text' = IF booting_from_editor THEN saved_orig_entry ELSE BLANK
  /\ skip_timeout' = TRUE
  /\ UNCHANGED <<menu, expanded, body, selected_entry, selected_menu_entry, tree_offset, left, booting_from_editor,
                 saved_orig_entry, first_run, keep, panics, reboots>>
\* Any other key, or one that does nothing here, still ends the countdown.
KeyOther ==
  /\ phase = "countdown"
  /\ phase' = "menu"
  /\ skip_timeout' = TRUE
  /\ UNCHANGED <<menu, expanded, body, selected_entry, selected_menu_entry, tree_offset, left, edit, first_run, text,
                 keep, panics, reboots>>

(* config_entry_editor, from its last key *)
EditorLeaves ==
  /\ phase \in {"editor", "blank"}
  /\ booting_from_editor' = FALSE
  /\ booting_from_blank' = IF phase = "blank" THEN FALSE ELSE booting_from_blank
  /\ phase' = "menu"
  /\ text' = BLANK
  /\ selected_menu_entry' = At(menu, expanded, selected_entry, selected_menu_entry)
  /\ tree_offset' = Window(selected_entry, tree_offset)
  /\ UNCHANGED <<menu, expanded, body, selected_entry, skip_timeout, left, saved_orig_entry, first_run,
                 keep, panics, reboots>>
EditorBoots ==
  /\ phase \in {"editor", "blank"}
  /\ \E t \in {text} \cup Typed :
       /\ booting_from_editor' = TRUE
       /\ saved_orig_entry' = t
       /\ text' = t
       /\ body' = IF phase = "editor" THEN [body EXCEPT ![selected_menu_entry] = t] ELSE body
  /\ phase' = "boot"
  /\ IF phase = "editor"
     THEN LastBooted' = selected_entry /\ usual' = (expanded = menu.expanded) /\ lastEntry' = selected_menu_entry
     ELSE UNCHANGED keep
  /\ UNCHANGED <<menu, expanded, selected_entry, selected_menu_entry, tree_offset, skip_timeout, left,
                 booting_from_blank, first_run, panics, reboots>>

(* boot(): the kernel takes over, or a panic brings the menu back, with all
   but the no_unwind variables as they were at the start. *)
Boots ==
  /\ phase = "boot"
  /\ phase' = "up"
  /\ UNCHANGED <<view, edit, first_run, text, keep, panics, reboots>>
Panics ==
  /\ phase = "boot"
  /\ panics < MaxPanics
  /\ panics' = panics + 1
  /\ phase' = "off"
  /\ first_run' = FALSE
  /\ expanded' = menu.expanded
  /\ body' = [n \in DOMAIN menu.parent |-> Own(n)]
  /\ selected_entry' = 0
  /\ selected_menu_entry' = NULL
  /\ tree_offset' = 0
  /\ skip_timeout' = FALSE
  /\ left' = 0
  /\ text' = BLANK
  /\ UNCHANGED <<menu, edit, keep, reboots>>
Reboots ==
  /\ phase \in {"up", "menu"}
  /\ reboots < MaxReboots
  /\ reboots' = reboots + 1
  /\ phase' = "off"
  /\ first_run' = TRUE
  /\ expanded' = menu.expanded
  /\ body' = [n \in DOMAIN menu.parent |-> Own(n)]
  /\ selected_entry' = 0
  /\ selected_menu_entry' = NULL
  /\ tree_offset' = 0
  /\ skip_timeout' = FALSE
  /\ left' = 0
  /\ text' = BLANK
  /\ booting_from_editor' = FALSE
  /\ booting_from_blank' = FALSE
  /\ saved_orig_entry' = BLANK
  /\ UNCHANGED <<menu, keep, panics>>

Next ==
  \/ StartMenu \/ StartAtOnce \/ Tick \/ Expire \/ KeyMove \/ KeyEnter \/ KeyDigit \/ KeyEdit \/ KeyBlank \/ KeyOther
  \/ EditorLeaves \/ EditorBoots \/ Boots \/ Panics \/ Reboots
Spec == Init /\ [][Next]_vars

-----------------------------------------------------------------------------
TypeOK ==
  /\ phase \in {"off", "countdown", "menu", "editor", "blank", "boot", "up", "wild"}
  /\ selected_menu_entry \in 0 .. Len(menu.parent)
  /\ left \in 0 .. SECONDS
  /\ panics \in 0 .. MaxPanics

\* Whatever was opened, closed, edited or panicked before: the entry marked on
\* the screen is the entry Enter acts on, its line is in the window, and what
\* is booted is the text of that entry, never a directory, or the text that
\* was in the editor.
MenuTrue ==
  /\ Waiting /\ Entries > 0 =>
       /\ selected_entry < Entries
       /\ selected_menu_entry = print_tree(menu, expanded)[selected_entry + 1]
       /\ tree_offset <= selected_entry /\ selected_entry < tree_offset + ROWS
  /\ phase = "countdown" => ~HasSub(menu, selected_menu_entry)
  /\ phase = "boot" /\ ~booting_from_blank =>
       ~HasSub(menu, selected_menu_entry) /\ text = body[selected_menu_entry]

\* With remember_last_entry the machine comes back to the entry booted last,
\* if the tree was then as it is configured.
RemembersLast ==
  menu.remember /\ usual /\ lastEntry # 0 /\ first_run /\ phase = "countdown" /\ left = menu.timeout =>
    selected_menu_entry = lastEntry

\* Not guaranteed: CONFIG.md of remember_last_entry, "remember last booted entry".
RemembersAlways ==
  menu.remember /\ lastEntry # 0 /\ first_run /\ phase = "countdown" /\ left = menu.timeout =>
    selected_menu_entry = lastEntry

\* Not guaranteed: "Default entry is not valid or directory, booting to menu." (menu.c)
DefaultChecked == phase # "wild"

=============================================================================
