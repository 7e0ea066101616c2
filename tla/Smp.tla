-------------------------------- MODULE Smp --------------------------------
(***************************************************************************)
(* How Limine starts the other processors, limine-8.4.0/common/sys/smp.c   *)
(* and its x86 trampoline: one block of parameters, passed_info, is        *)
(* written for one processor after the other, each is kicked and given a   *)
(* while to raise the flag in it, and parks on the smp_info it was handed. *)
(* A processor may be dead, and one that was given up on may still wake.   *)
(* The four ways to find the processors (x86 MADT, ARM MADT, device tree,  *)
(* RISC-V harts) differ in whom they try and in how they kick.             *)
(***************************************************************************)
EXTENDS Integers, Sequences, FiniteSets

CONSTANTS
  Bsp,            \* the boot processor's id
  Tables,         \* what the firmware may list: sequences of entries
  POLLS           \* how often the flag is looked at

VARIABLES
  table,          \* the entries not yet gone through
  ret, count,     \* the smp_info structures, and *cpu_count
  max_cpus,
  info, flag, mode, gdt,   \* passed_info: info_struct, booted_flag, target_mode, gdt (times moved up)
  polls,          \* -1: not waiting
  ap,             \* by id: where the processor is, and what it has picked up
  kicked          \* given up on

vars == <<table, ret, count, max_cpus, info, flag, mode, gdt, polls, ap, kicked>>

Ids == {Bsp} \cup UNION {{t[i].id : i \in DOMAIN t} : t \in Tables}
PANIC == -2       \* of polls
MODE == 1         \* the target mode every processor is to run in
Fresh == [at |-> "off", info |-> 0, mode |-> 0, gdt |-> 0]

-----------------------------------------------------------------------------
(* Whom the loaders try: the entries of the kind they look for that say     *)
(* the processor can be started.  A table has x2APIC entries only where     *)
(* the x2APIC is on.                                                        *)
MadtX86(e) == e.kind \in {"xapic", "x2apic"} /\ e.enabled # e.capable
MadtGicc(e) == e.kind = "gicc" /\ e.enabled
Subnode(e) == e.kind = "cpu"
Hart(e) == e.kind = "hart"
Candidate(e) == MadtX86(e) \/ MadtGicc(e) \/ Subnode(e) \/ Hart(e)

\* A processor of the device tree without a known enable-method is passed over.
KnownMethod(e) == e.kind = "cpu" => e.method \in {"psci", "spin-table", "illegal"}

Init ==
  /\ table \in Tables
  /\ max_cpus = Cardinality({i \in 1 .. Len(table) : Candidate(table[i])})
  /\ ret = <<>>
  /\ count = 0
  /\ info = 0 /\ flag = 0 /\ mode = 0 /\ gdt = 0
  /\ polls = -1
  /\ ap = [c \in Ids |-> Fresh]
  /\ kicked = {}

Entry == Head(table)
Shared == <<info, flag, mode, gdt>>
\* info_struct = &ret[*cpu_count]: a place that was not counted is used again.
Slot(e) == SubSeq(ret, 1, count) \o <<e.id>>
Pass == /\ table' = Tail(table)
        /\ polls' = -1

\* Entries that are not candidates, and the processor that runs this code.
Skip ==
  /\ polls = -1 /\ table # <<>> /\ (~Candidate(Entry) \/ (Entry.id # Bsp /\ ~KnownMethod(Entry)))
  /\ ret' = IF Candidate(Entry) THEN Slot(Entry) ELSE ret
  /\ Pass
  /\ UNCHANGED <<count, max_cpus, Shared, ap, kicked>>
Own ==
  /\ polls = -1 /\ table # <<>> /\ Candidate(Entry) /\ Entry.id = Bsp
  /\ ret' = Slot(Entry)
  /\ count' = count + 1
  /\ Pass
  /\ UNCHANGED <<max_cpus, Shared, ap, kicked>>

\* smp_start_ap, try_start_ap: the parameters are written, the flag among
\* them, and the processor is kicked; it starts, or it is dead.
Prepared_NoFlag(e) == info' = count + 1 /\ mode' = MODE /\ gdt' = 0 /\ UNCHANGED flag
Prepared(e) == info' = count + 1 /\ flag' = 0 /\ mode' = MODE /\ gdt' = 0
Waits(started) ==
  /\ ap' = IF started THEN [ap EXCEPT ![Entry.id].at = "real"] ELSE ap
  /\ polls' = POLLS
  /\ UNCHANGED table
Refused == Pass /\ UNCHANGED ap

\* INIT and startup IPIs tell nothing of what becomes of them, nor does a spin
\* table; PSCI and SBI may refuse.
Ipi == Entry.kind \in {"xapic", "x2apic"} /\ \E started \in BOOLEAN : Waits(started)
Psci == /\ Entry.kind \in {"gicc", "cpu"} /\ Entry.method \in {"psci", "spin-table"}
        /\ (\E started \in BOOLEAN : Waits(started)) \/ (Entry.method = "psci" /\ Refused)
\* The parking protocol, and a conduit that is neither smc nor hvc: panic.
Unsupported == /\ Entry.kind \in {"gicc", "cpu"} /\ Entry.method \in {"park", "illegal"}
               /\ polls' = PANIC
               /\ UNCHANGED <<table, ap>>
Sbi == Entry.kind = "hart" /\ ((\E started \in BOOLEAN : Waits(started)) \/ Refused)

Kick ==
  /\ polls = -1 /\ table # <<>> /\ Candidate(Entry) /\ Entry.id # Bsp /\ KnownMethod(Entry)
  /\ ret' = Slot(Entry)
  /\ Prepared(Entry)
  /\ Ipi \/ Psci \/ Unsupported \/ Sbi
  /\ UNCHANGED <<count, max_cpus, kicked>>

\* The flag is up: the processor counts.
Booted_Any == TRUE
Booted == flag = 1
Success ==
  /\ polls > 0 /\ Booted
  /\ count' = count + 1
  /\ Pass
  /\ UNCHANGED <<ret, max_cpus, Shared, ap, kicked>>
Poll ==
  /\ polls > 0 /\ ~Booted
  /\ polls' = polls - 1
  /\ UNCHANGED <<table, ret, count, max_cpus, Shared, ap, kicked>>
GiveUp ==
  /\ polls = 0
  /\ kicked' = kicked \cup {Entry.id}
  /\ Pass
  /\ UNCHANGED <<ret, count, max_cpus, Shared, ap>>

-----------------------------------------------------------------------------
(* The trampoline: modes are read on the way to 64 bits, the GDT is moved    *)
(* up in passed_info and loaded, then the info is read and the flag raised;  *)
(* the exchange is of four bytes and clears the mode and part of pagemap.    *)
Moves(c, from, to, picked) ==
  /\ ap[c].at = from
  /\ ap' = [ap EXCEPT ![c] = [picked EXCEPT !.at = to]]
  /\ UNCHANGED <<table, ret, count, max_cpus, polls, kicked>>

ReadMode(c) == Moves(c, "real", "long", [ap[c] EXCEPT !.mode = mode]) /\ UNCHANGED Shared
LoadGdt(c) ==
  /\ Moves(c, "long", "gdt", [ap[c] EXCEPT !.gdt = gdt + 1])
  /\ gdt' = gdt + 1
  /\ UNCHANGED <<info, flag, mode>>
ReadInfo(c) == Moves(c, "gdt", "info", [ap[c] EXCEPT !.info = info]) /\ UNCHANGED Shared
RaiseFlag(c) ==
  /\ Moves(c, "info", "parked", ap[c])
  /\ flag' = 1 /\ mode' = 0
  /\ UNCHANGED <<info, gdt>>

Step(c) == ReadMode(c) \/ LoadGdt(c) \/ ReadInfo(c) \/ RaiseFlag(c)
Next ==
  \/ Skip \/ Own \/ Kick \/ Success \/ Poll \/ GiveUp
  \/ \E c \in Ids : Step(c)

Spec == Init /\ [][Next]_vars

-----------------------------------------------------------------------------
Parked == {c \in Ids : ap[c].at = "parked"}
Late == {c \in kicked : ap[c].at # "off"}

\* Unless a processor that was given up on wakes after all: every processor
\* that parks waits on a structure that is its own, in the mode and with the
\* GDT that were meant for it; what has been counted are the boot processor
\* and parked ones, each once; and the array has room for them
\* (init_smp, smp_start_ap, parking64).
OwnInfo ==
  /\ Len(ret) <= max_cpus /\ count <= Len(ret)
  /\ Late = {} =>
       /\ \A c \in Parked : /\ ap[c].info <= Len(ret) /\ ret[ap[c].info] = c
                            /\ ap[c].mode = MODE /\ ap[c].gdt = 1
       /\ \A i \in 1 .. count : ret[i] = Bsp \/ (ret[i] \in Parked /\ ap[ret[i]].info = i)
=============================================================================
