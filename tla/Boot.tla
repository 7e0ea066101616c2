-------------------------------- MODULE Boot --------------------------------
(***************************************************************************)
(* From _start to the scheduler, src/kernel/main.c, interrupts.c, lapic.c  *)
(* and cpu.c.  The first processor sets everything up and releases the     *)
(* others, which the boot loader keeps spinning on their goto_address; all *)
(* of them build the one interrupt table again.  Of the table the model    *)
(* keeps the gate of one interrupt; drivers, tasks and the two timers are  *)
(* in other modules or stand for one interrupt here.                       *)
(***************************************************************************)
EXTENDS Integers, FiniteSets

CONSTANTS
  Cpus,              \* 0 .. n - 1, in the boot loader's list
  BOOT_STACK_CPUS,
  PIT_HZ,            \* ticks lapic_timer_calibrate waits for
  Firsts             \* where in the list the first processor may be

ASSUME BootAssumption == Cpus \subseteq Nat /\ BOOT_STACK_CPUS \in Nat \ {0} /\ Firsts \subseteq Cpus

VARIABLES
  bsp,               \* the processor that runs _start
  pc, ints,          \* by processor: where it is; whether it takes interrupts
  todo,              \* the processor _start releases next
  goto, extra,       \* limine_smp_info of the others
  lapic_map,         \* scheduler slot by processor (lapic_id)
  gate,              \* the interrupt's gate: "absent", "default" or "own"
  ticks, from,       \* the timer, and when calibration began
  stack, slot,       \* boot stack and scheduler slot a processor took, -1 for none
  early, dead        \* read its index too early; stopped by an interrupt it had no handler for

bootVars == <<bsp, pc, ints, todo, goto, extra, lapic_map, gate, ticks, from, stack, slot, early, dead>>

N == Cardinality(Cpus)

BootInit ==
  /\ bsp \in Firsts
  /\ pc = [c \in Cpus |-> IF c = bsp THEN "start" ELSE "parked"]
  /\ ints = [c \in Cpus |-> FALSE] /\ todo = 0
  /\ goto = [c \in Cpus |-> FALSE] /\ extra = [c \in Cpus |-> 0]
  /\ lapic_map = [c \in Cpus |-> 0]
  /\ gate = "absent" /\ ticks = 0 /\ from = 0
  /\ stack = [c \in Cpus |-> -1] /\ slot = [c \in Cpus |-> -1]
  /\ early = {} /\ dead = {}

At(c, here, there) == c \notin dead /\ pc[c] = here /\ pc' = [pc EXCEPT ![c] = there]

\* Mutant: the stack of an index is the one before it.
BootStack_Below(i) == IF i >= BOOT_STACK_CPUS \/ i = 0 THEN 0 ELSE i - 1

\* boot_stack_set
BootStack(i) == IF i >= BOOT_STACK_CPUS THEN 0 ELSE i

-----------------------------------------------------------------------------
(* _start, up to interrupts_init: take stack 0, enter every processor in lapic_map. *)
Start ==
  /\ At(bsp, "start", "gates0")
  /\ stack' = [stack EXCEPT ![bsp] = BootStack(0)]
  /\ lapic_map' = [c \in Cpus |-> c]
  /\ UNCHANGED <<bsp, ints, todo, goto, extra, gate, ticks, from, slot, early, dead>>

\* interrupts_setup_idt, by the first processor and by every other: all gates are cleared,
\* all get the default handler, then each gets its own.
SetGate(c, here, there, g) ==
  /\ At(c, here, there)
  /\ gate' = g
  /\ UNCHANGED <<bsp, ints, todo, goto, extra, lapic_map, ticks, from, stack, slot, early, dead>>

ClearGates(c) == SetGate(c, "gates0", "gates1", "absent")
DefaultGates(c) == SetGate(c, "gates1", "gates2", "default")
OwnGates(c) == SetGate(c, "gates2", "sti", "own")

\* The end of interrupts_init and of interrupts_init_ap.
Sti(c) ==
  /\ At(c, "sti", IF c = bsp THEN "calibrate" ELSE "enter")
  /\ ints' = [ints EXCEPT ![c] = TRUE]
  /\ from' = IF c = bsp THEN ticks ELSE from
  /\ UNCHANGED <<bsp, todo, goto, extra, lapic_map, gate, ticks, stack, slot, early, dead>>

\* lapic_timer_calibrate: the next tick, and then a second's worth of them.
Calibrated ==
  /\ ticks - from > PIT_HZ
  /\ At(bsp, "calibrate", "release")
  /\ UNCHANGED <<bsp, ints, todo, goto, extra, lapic_map, gate, ticks, from, stack, slot, early, dead>>

\* Mutant: the loop ends one processor early.
Rounds_Short == N - 1

Rounds == N
Skip(c) == c = bsp

\* task_init and the two tasks are behind it; one round of the loop over the processors.
PassOver ==
  /\ todo < Rounds /\ Skip(todo)
  /\ At(bsp, "release", "release")
  /\ todo' = todo + 1
  /\ UNCHANGED <<bsp, ints, goto, extra, lapic_map, gate, ticks, from, stack, slot, early, dead>>

SetGoto ==
  /\ todo < Rounds /\ ~Skip(todo)
  /\ At(bsp, "release", "argument")
  /\ goto' = [goto EXCEPT ![todo] = TRUE]
  /\ UNCHANGED <<bsp, ints, todo, extra, lapic_map, gate, ticks, from, stack, slot, early, dead>>

SetExtra ==
  /\ At(bsp, "argument", "release")
  /\ extra' = [extra EXCEPT ![todo] = todo]
  /\ todo' = todo + 1
  /\ UNCHANGED <<bsp, ints, goto, lapic_map, gate, ticks, from, stack, slot, early, dead>>

\* task_start_bsp
EnterBsp ==
  /\ todo = Rounds
  /\ At(bsp, "release", "tasks")
  /\ slot' = [slot EXCEPT ![bsp] = 0]
  /\ UNCHANGED <<bsp, ints, todo, goto, extra, lapic_map, gate, ticks, from, stack, early, dead>>

-----------------------------------------------------------------------------
(* ap_entry *)
ReadIndex(c) ==
  /\ goto[c] /\ At(c, "parked", "gates0")
  /\ stack' = [stack EXCEPT ![c] = BootStack(extra[c])]
  /\ lapic_map' = [lapic_map EXCEPT ![c] = extra[c]]
  /\ early' = IF extra[c] # c THEN early \cup {c} ELSE early
  /\ UNCHANGED <<bsp, ints, todo, goto, extra, gate, ticks, from, slot, dead>>

\* task_start_ap
EnterAp(c) ==
  /\ At(c, "enter", "tasks")
  /\ slot' = [slot EXCEPT ![c] = lapic_map[c]]
  /\ UNCHANGED <<bsp, ints, todo, goto, extra, lapic_map, gate, ticks, from, stack, early, dead>>

-----------------------------------------------------------------------------
(* An interrupt: the timer of the first processor before the scheduler runs, of any  *)
(* processor after that.  fatal_exception stops the processor that has only the      *)
(* default handler; a gate that is not there, with no gate for that fault either,    *)
(* stops the machine.  Ticks count as far as calibration looks at them.              *)
Fatal(c) == dead \cup {c}        \* fatal_exception
Interrupt(c) ==
  /\ ints[c] /\ c \notin dead
  /\ c = bsp \/ pc[c] = "tasks"
  /\ dead' = (CASE gate = "own" -> dead [] gate = "default" -> Fatal(c) [] gate = "absent" -> Cpus)
  /\ ticks' = IF c = bsp /\ gate = "own" /\ ticks <= PIT_HZ THEN ticks + 1 ELSE ticks
  /\ UNCHANGED <<bsp, pc, ints, todo, goto, extra, lapic_map, gate, from, stack, slot, early>>

Setup(c) == ClearGates(c) \/ DefaultGates(c) \/ OwnGates(c) \/ Sti(c)
BspStep == Start \/ Setup(bsp) \/ Calibrated \/ PassOver \/ SetGoto \/ SetExtra \/ EnterBsp
ApStep(c) == c # bsp /\ (ReadIndex(c) \/ Setup(c) \/ EnterAp(c))

BootNext == BspStep \/ (\E c \in Cpus : ApStep(c)) \/ (\E c \in Cpus : Interrupt(c))

\* A processor runs on; the timer keeps ticking.
BootFairness ==
  /\ WF_bootVars(BspStep)
  /\ \A c \in Cpus : WF_bootVars(ApStep(c))
  /\ \A c \in Cpus : WF_bootVars(Interrupt(c))

BootSpec == BootInit /\ [][BootNext]_bootVars /\ BootFairness

-----------------------------------------------------------------------------
\* Processors that are not where _start assumes them: an index read before it is written,
\* one past the stacks there are, or the first processor not first in the list.
Misplaced == early \cup {c \in Cpus : c >= BOOT_STACK_CPUS} \cup (IF bsp # 0 THEN {0, bsp} ELSE {})

\* Two processors never run on one boot stack or enter the scheduler in one slot, in any
\* order of releasing, starting and interrupts, unless one of them is misplaced; and one
\* that is released last sees its index.
OwnPlace ==
  \A c, d \in Cpus \ Misplaced : c # d =>
    /\ stack[c] # -1 => stack[c] # stack[d]
    /\ slot[c] # -1 => slot[c] # slot[d]

\* Every processor gets to the scheduler, unless an interrupt came while one of them was
\* building the interrupt table that the others were using.
AllIn == dead # {} \/ \A c \in Cpus : pc[c] = "tasks"
=============================================================================
