------------------------------- MODULE Input -------------------------------
(***************************************************************************)
(* src/drivers/input.c.  The path of a key: the keyboard sends scancodes,  *)
(* the interrupt puts them into the ring of module Ring and input_poll_key *)
(* takes them out and translates them, the two interleaved access by       *)
(* access.  A key is itself; its scancode is the key with a make or break  *)
(* flag, behind the prefix byte E0 for the extended keys.                  *)
(*                                                                         *)
(* The path of a mouse packet: bytes wait in the PS/2 controller and are   *)
(* read one at a time by mouse_read: IRQ 12 sits behind the cascade line   *)
(* of the master PIC, which interrupts_init leaves masked, so the mouse    *)
(* ring that isr_mouse fills stays empty.  A call may find only part of a  *)
(* packet; the static packet buffer keeps it.                              *)
(*                                                                         *)
(* The two share no state: each has its own specification.                 *)
(***************************************************************************)
EXTENDS Integers, Sequences, SequencesExt, FiniteSets

CONSTANTS
  Letter,       \* keys with an ASCII code, which depends on shift
  Named,        \* Enter, Backspace, Esc, Tab: keys with a keycode of their own
  Extended,     \* arrow and Win keys
  Modifier,     \* "shift" and "alt", or some of them
  SIZE,         \* KBD_BUFFER_SIZE
  MaxStrokes,   \* bound: presses and releases
  Flags,        \* first bytes of the mouse's packets
  Motion,       \* signed motions in them
  Leftovers,    \* what can be in the controller when polling begins
  Origin,       \* mouse_x and mouse_y after input_init
  MaxPackets    \* bound: packets sent

Plain == Letter \cup Named
Key == Plain \cup Extended \cup Modifier
Prefix == [key |-> "E0", up |-> FALSE]
Code == {Prefix} \cup [key : Key, up : BOOLEAN]
NoKey == "none"

KeyboardAssumption == SIZE \in Nat \ {0, 1} /\ SIZE <= 256

HasBit3(b) == (b \div 8) % 2 = 1
MouseAssumption ==
  /\ Flags \subseteq 0 .. 255 /\ Motion \subseteq -128 .. 127 /\ Origin \in Nat
  /\ \A b \in Flags : HasBit3(b)
  /\ \A s \in Leftovers : \A i \in DOMAIN s : s[i] \in 0 .. 255 /\ ~HasBit3(s[i])

VARIABLES
  extended, shift_down, alt_down,   \* static state of translate_scancode
  scancode_buf, scancode_head, scancode_tail, push_at, arg, pop_at, popped,   \* module Ring
  wire,       \* scancodes the keyboard has yet to send for the last stroke
  held,       \* keys that are down
  strokes,           \* strokes so far
  lost, dropped,     \* keys whose last scancode the ring dropped; it has dropped some
  meant, events,     \* what the strokes mean; what input_poll_key returned
  packet, mouse_x, mouse_y, mouse_buttons,   \* packet_index is Len(packet)
  port,      \* bytes in the controller
  sent,      \* packets the mouse has sent
  reported   \* what input_poll_mouse returned

static == <<extended, shift_down, alt_down>>
user == <<wire, held, strokes, meant>>
ring == <<scancode_buf, scancode_head, scancode_tail, push_at, arg, pop_at, popped>>
keyboard == <<static, ring, user, lost, dropped, events>>

R == INSTANCE Ring WITH Scancode <- Code

-----------------------------------------------------------------------------
(* translate_scancode: the event, and the static state it leaves. *)

NoEvent == [key |-> NoKey, shift |-> FALSE, pressed |-> FALSE]

Pressed(k, shift) == [key |-> k, shift |-> shift /\ k \in Letter, pressed |-> TRUE]

Result(event, ext, shift, alt) == [event |-> event, extended |-> ext, shift_down |-> shift, alt_down |-> alt]

OnBreak(k) ==
  IF k = "alt" THEN Result([NoEvent EXCEPT !.key = "alt"], extended, shift_down, FALSE)
               ELSE Result(NoEvent, extended, shift_down /\ k # "shift", alt_down)

\* Mutant: the prefix stays in force.
OnMake_KeepsPrefix(k) ==
  CASE k = "shift" -> Result(NoEvent, extended, TRUE, alt_down)
    [] k = "alt" -> Result(Pressed(k, FALSE), extended, shift_down, TRUE)
    [] OTHER -> Result(Pressed(IF (k \in Extended) = extended THEN k ELSE NoKey, shift_down),
                       extended, shift_down, alt_down)

\* An extended make code means its arrow only behind a prefix, a plain one only
\* without; the prefix is spent by any make code but those of shift and alt.
OnMake(k) ==
  CASE k = "shift" -> Result(NoEvent, extended, TRUE, alt_down)
    [] k = "alt" -> Result(Pressed(k, FALSE), extended, shift_down, TRUE)
    [] OTHER -> Result(Pressed(IF (k \in Extended) = extended THEN k ELSE NoKey, shift_down),
                       FALSE, shift_down, alt_down)

\* Mutant: break codes are taken for make codes.
translate_scancode_NoBreak(c) ==
  IF c = Prefix THEN Result(NoEvent, TRUE, shift_down, alt_down) ELSE OnMake(c.key)

translate_scancode(c) ==
  IF c = Prefix THEN Result(NoEvent, TRUE, shift_down, alt_down)
  ELSE IF c.up THEN OnBreak(c.key) ELSE OnMake(c.key)

-----------------------------------------------------------------------------
KeyboardInit ==
  /\ extended = FALSE /\ shift_down = FALSE /\ alt_down = FALSE
  /\ scancode_buf = [i \in 0 .. SIZE - 1 |-> Prefix] /\ scancode_head = 0 /\ scancode_tail = 0
  /\ push_at = "idle" /\ arg = Prefix /\ pop_at = "idle" /\ popped = Prefix
  /\ wire = <<>> /\ held = {} /\ strokes = 0 /\ lost = {} /\ dropped = FALSE
  /\ meant = <<>> /\ events = <<>>

Scancodes(k, up) ==
  LET c == [key |-> k, up |-> up]
  IN  IF k \in Extended THEN <<Prefix, c>> ELSE <<c>>

\* The keyboard: one stroke is sent before the next.  A plain key means itself with
\* the shift state at that moment, shift means nothing by itself.
Stroke(k, up) ==
  /\ wire = <<>> /\ strokes < MaxStrokes
  /\ up = (k \in held)
  /\ held' = IF up THEN held \ {k} ELSE held \cup {k}
  /\ wire' = Scancodes(k, up)
  /\ strokes' = strokes + 1
  /\ meant' = IF k = "shift" \/ (up /\ k # "alt") THEN meant
              ELSE Append(meant, [key |-> k, shift |-> "shift" \in held /\ k \in Letter, pressed |-> ~up])
  /\ UNCHANGED <<static, ring, lost, dropped, events>>

\* The interrupt hands the next scancode to push_scancode, which drops it when full.
isr_keyboard ==
  LET c == Head(wire)
      k == Last(wire).key
  IN  /\ wire # <<>>
      /\ wire' = Tail(wire)
      /\ R!Push(c)
      /\ lost' = IF R!Full THEN lost \cup {k} ELSE IF c = Prefix THEN lost ELSE lost \ {k}
      /\ dropped' = (dropped \/ R!Full)
      /\ UNCHANGED <<static, held, strokes, meant, events>>

\* push_scancode goes on.
isr_keyboard_push ==
  /\ R!PushStore \/ R!PushPublish
  /\ UNCHANGED <<static, user, lost, dropped, events>>

\* One round of the loop of input_poll_key: pop_scancode, then translate_scancode; the
\* call ends when there is an event.
input_poll_key ==
  \/ /\ R!Pop \/ R!PopLoad
     /\ UNCHANGED <<static, user, lost, dropped, events>>
  \/ LET r == translate_scancode(popped)
     IN  /\ R!PopAdvance
         /\ extended' = r.extended /\ shift_down' = r.shift_down /\ alt_down' = r.alt_down
         /\ events' = IF r.event = NoEvent THEN events ELSE Append(events, r.event)
         /\ UNCHANGED <<user, lost, dropped>>

KeyboardNext ==
  \/ \E k \in Key, up \in BOOLEAN : Stroke(k, up)
  \/ isr_keyboard
  \/ isr_keyboard_push
  \/ input_poll_key

KeyboardSpec == KeyboardInit /\ [][KeyboardNext]_keyboard

-----------------------------------------------------------------------------
(* Properties. *)

Drained == wire = <<>> /\ push_at = "idle" /\ pop_at = "idle" /\ scancode_head = scancode_tail

\* Once all scancodes are handled, shift_down and alt_down say whether the key is down,
\* also after a full ring has dropped scancodes, unless the last one of that very key
\* was among them.
ModifiersTrack ==
  Drained => /\ ("shift" \in Modifier \ lost => (shift_down = ("shift" \in held)))
             /\ ("alt" \in Modifier \ lost => (alt_down = ("alt" \in held)))

\* While the ring has dropped nothing, input_poll_key returns what was typed, every key
\* once, in order and with the shift state of the moment it was struck, but for keys
\* that come out as no key; in the end nothing is left over.
KeysArrive ==
  ~dropped =>
    /\ Len(events) <= Len(meant) /\ (Drained => Len(events) = Len(meant))
    /\ \A i \in DOMAIN events : events[i].key # NoKey => events[i] = meant[i]

Swallowed == SelectSeq(events, LAMBDA e : e.key = NoKey)

Releases == Len(SelectSeq(meant, LAMBDA e : e.key \in Extended)) - Cardinality(held \cap Extended)

\* An E0 prefix outlives the break code it belongs to, and the key after it comes out
\* as no key, but no release of an extended key costs more than one later key.
PrefixCostsOneKey == ~dropped => Len(Swallowed) <= Releases

-----------------------------------------------------------------------------
(* The mouse. *)

mouse == <<packet, mouse_x, mouse_y, mouse_buttons, port, sent, reported>>

MouseInit ==
  /\ packet = <<>> /\ mouse_x = Origin /\ mouse_y = Origin /\ mouse_buttons = 0
  /\ port \in Leftovers /\ sent = <<>> /\ reported = <<>>

\* The mouse puts a whole packet into the controller's queue.
Report(f, x, y) ==
  /\ Len(sent) < MaxPackets
  /\ port' = port \o <<f, x % 256, y % 256>>
  /\ sent' = Append(sent, <<f, x, y>>)
  /\ UNCHANGED <<packet, mouse_x, mouse_y, mouse_buttons, reported>>

\* (int8_t)
Signed(b) == IF b >= 128 THEN b - 256 ELSE b

\* Mutant: no lower bound.
AtLeast0_Not(n) == n

AtLeast0(n) == IF n < 0 THEN 0 ELSE n

\* Mutant: any byte may start a packet.
Skips_Never(b) == FALSE

Skips(b) == packet = <<>> /\ ~HasBit3(b)

\* One round of the loop of input_poll_mouse, which returns after a third byte.
input_poll_mouse ==
  LET b == Head(port)
      p == Append(packet, b)
      dx == Signed(p[2])
      dy == Signed(p[3])
  IN  /\ port # <<>> /\ port' = Tail(port)
      /\ \/ /\ Skips(b)
            /\ UNCHANGED <<packet, mouse_x, mouse_y, mouse_buttons, reported>>
         \/ /\ ~Skips(b) /\ Len(p) < 3
            /\ packet' = p
            /\ UNCHANGED <<mouse_x, mouse_y, mouse_buttons, reported>>
         \/ /\ ~Skips(b) /\ Len(p) = 3
            /\ packet' = <<>>
            /\ mouse_buttons' = p[1] % 8
            /\ mouse_x' = AtLeast0(mouse_x + dx)
            /\ mouse_y' = AtLeast0(mouse_y - dy)
            /\ reported' = Append(reported, [x |-> mouse_x', y |-> mouse_y', dx |-> dx, dy |-> dy,
                                             buttons |-> mouse_buttons'])
      /\ UNCHANGED sent

MouseNext ==
  \/ \E f \in Flags, x, y \in Motion : Report(f, x, y)
  \/ input_poll_mouse

MouseSpec == MouseInit /\ [][MouseNext]_mouse

-----------------------------------------------------------------------------
(* Properties. *)

\* Bytes that wait without bit 3 in front of a packet are skipped and packets stay
\* whole: each is reported once, in order, however the calls cut the byte stream, and the cursor
\* stays on the screen's side of the origin.
PacketsWhole ==
  /\ Len(reported) <= Len(sent)
  /\ \A i \in DOMAIN reported :
       /\ reported[i].dx = sent[i][2] /\ reported[i].dy = sent[i][3]
       /\ reported[i].buttons = sent[i][1] % 8
  /\ (port = <<>> => Len(reported) = Len(sent))
  /\ mouse_x >= 0 /\ mouse_y >= 0
=============================================================================
