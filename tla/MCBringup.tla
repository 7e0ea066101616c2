----------------------------- MODULE MCBringup ------------------------------
(***************************************************************************)
(* What the machine waits for while it comes up, for TLC: the editor of    *)
(* the boot menu comes back to its keys, the kernel takes over the         *)
(* processors, and the network gets its address. A behaviour is one of one *)
(* unit, chosen at the start: the network has the variables of             *)
(* NetServices, which in the other units are those of a machine without a  *)
(* card, the processors those of Boot, the editor x1 .. x6; those a unit   *)
(* does not use stay as they are.                                          *)
(***************************************************************************)
EXTENDS NetServices, Boot, TLC

VARIABLES
  unit, x1, x2, x3, x4, x5, x6

editorVars == <<x1, x2, x3, x4, x5, x6>>
bringupVars == <<vars, bootVars, unit, editorVars>>

-----------------------------------------------------------------------------
\* NetServices: two DHCP servers, of which one names a gateway and one a name server; a
\* cache for one of two addresses; a name with an address and one without.
DhcpServers == {"s1", "s2"}
Others == [ip |-> 3, gateway |-> 11, dns |-> 0]
Neighbours == (11 :> {"m1", "m2"}) @@ (12 :> {"m3"})
Names == [a |-> 20, b |-> 0]
Leases == [s1 |-> [ip |-> 1, gateway |-> 11, dns |-> 0], s2 |-> [ip |-> 2, gateway |-> 0, dns |-> 12]]

\* Editor: a window of three lines of three characters; entries with lines that end at
\* its edge.
E == INSTANCE Editor WITH
  EDITOR_MAX_BUFFER_SIZE <- 6, WINDOW <- 3, LINE <- 3, TAB <- 2, Chars <- {"x", "n", "t"},
  Entries <- {<<>>, <<"n", "x", "n", "x">>, <<"x", "x", "n", "n", "x">>},
  buffer <- x1, cursor_offset <- x2, window_offset <- x3, phase <- x4, overflow_error <- x5, result <- x6

\* Boot (in the configuration): four processors and boot stacks for three; the first
\* processor is first in the list or not.

-----------------------------------------------------------------------------
NoEditor == x1 = 0 /\ x2 = 0 /\ x3 = 0 /\ x4 = 0 /\ x5 = 0 /\ x6 = 0
Offline == Init /\ ~card
Parked == BootInit /\ bsp = 0

BringupInit ==
  \/ unit = "editor" /\ E!Init /\ Offline /\ Parked
  \/ unit = "kernel" /\ BootInit /\ Offline /\ NoEditor
  \/ unit = "services" /\ Init /\ Parked /\ NoEditor

BringupNext ==
  \/ unit = "editor" /\ E!Next /\ UNCHANGED <<vars, bootVars, unit>>
  \/ unit = "kernel" /\ BootNext /\ UNCHANGED <<vars, unit, editorVars>>
  \/ unit = "services" /\ Next /\ UNCHANGED <<bootVars, unit, editorVars>>

\* The fairness of NetServices (without a card nothing it is about can happen), Editor
\* and Boot.
EditorStep(A) == unit = "editor" /\ A /\ UNCHANGED <<vars, bootVars, unit>>
KernelStep(A) == unit = "kernel" /\ A /\ UNCHANGED <<vars, unit, editorVars>>
BringupSpec ==
  /\ BringupInit /\ [][BringupNext]_bringupVars
  /\ Fairness
  /\ WF_bringupVars(EditorStep(E!Refresh))
  /\ WF_bringupVars(KernelStep(BspStep))
  /\ \A c \in Cpus : WF_bringupVars(KernelStep(ApStep(c))) /\ WF_bringupVars(KernelStep(Interrupt(c)))

-----------------------------------------------------------------------------
(* The properties of the units; those of the network are in NetServices, that every *)
(* processor has its own place is in Boot.                                           *)

\* Painting the editor comes to an end for every text without tabs whose lines fit the
\* window (EditorSettles of Editor).
EditorSettles == (unit = "editor" /\ x4 = "paint" /\ E!Plain) ~> (unit = "editor" /\ x4 = "key")

\* Every processor gets to the scheduler, unless an interrupt came while one of them was
\* building the interrupt table that the others were using (AllIn of Boot).
AllCpusEnter == <>(unit # "kernel" \/ AllIn)
=============================================================================
