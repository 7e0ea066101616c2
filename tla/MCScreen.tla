------------------------------ MODULE MCScreen ------------------------------
(***************************************************************************)
(* What the user sees, for TLC: windows, terminals with their shells, and  *)
(* the frame buffer below them. A behaviour is one of one unit, chosen at  *)
(* the start: the windows have the variables of Desktop and the frame      *)
(* buffer those of Gfx, the shells x1 .. x10, and those a unit does not    *)
(* use stay as they are.                                                   *)
(***************************************************************************)
EXTENDS Desktop, Gfx, Sequences

VARIABLES
  unit, x1, x2, x3, x4, x5, x6, x7, x8, x9, x10

shellVars == <<x1, x2, x3, x4, x5, x6, x7, x8, x9, x10>>
screenVars == <<vars, gfxVars, unit, shellVars>>

-----------------------------------------------------------------------------
ShellCommands == {<<"x", "x">>, <<"x", "x", "y">>, <<"y">>}
ShellOutputs == {<<"o", "\n">>}
ShellBounds == {<<4, 1>>, <<2, 2>>}

\* Shell: a terminal of two sizes, one narrow enough for short lines to wrap.
S == INSTANCE Shell WITH
  SCROLLBACK_LINES <- 1, MAX_CMD_LEN <- 3, MAX_HISTORY <- 2, Typed <- {"x"}, Commands <- ShellCommands,
  Outputs <- ShellOutputs, Bounds <- ShellBounds, MaxLines <- 5,
  open <- x1, term <- x2, clipboard <- x3, cmd <- x4, cmd_len <- x5, history <- x6, history_index <- x7,
  log <- x8, bottom <- x9, misled <- x10

\* Gfx (in the configuration): a screen of six pixels with a longer stride; shapes that begin
\* or end outside.
ScreenCoords == {-1, 0, 2}
ScreenSpans == {-1, 1, 3, 4}
ScreenGlyphs == {{<<0, 0>>, <<1, 1>>}}

ASSUME S!ShellAssumption

-----------------------------------------------------------------------------
NoShell == x1 = 0 /\ x2 = 0 /\ x3 = 0 /\ x4 = 0 /\ x5 = 0 /\ x6 = 0 /\ x7 = 0 /\ x8 = 0 /\ x9 = 0 /\ x10 = 0

ScreenInit ==
  /\ Init /\ GfxInit
  /\ \/ unit = "desktop" /\ NoShell
     \/ unit = "shell" /\ S!Init
     \/ unit = "gfx" /\ NoShell

\* A picture may stay as it is; the desktop and its shells go on.
Rest == unit = "gfx" /\ UNCHANGED screenVars

ScreenNext ==
  \/ unit = "desktop" /\ Next /\ UNCHANGED <<gfxVars, unit, shellVars>>
  \/ unit = "shell" /\ S!Next /\ UNCHANGED <<vars, gfxVars, unit>>
  \/ unit = "gfx" /\ GfxNext /\ UNCHANGED <<vars, unit, shellVars>>
  \/ Rest

ScreenSpec == ScreenInit /\ [][ScreenNext]_screenVars

-----------------------------------------------------------------------------
(* The properties of the shells; those of the windows are in Desktop, those of the *)
(* frame buffer in Gfx.                                                             *)

\* What follows a shell that has written into another window is left to the run about it.
NotStrayed == ~strayed

\* A terminal shows the lines of its log the user is looking at, and the line on the screen
\* is the one Enter will run (Shell).
TerminalTrue == unit = "shell" => S!ShowsLog /\ S!EchoTrue
=============================================================================
