------------------------------- MODULE Memmap -------------------------------
(***************************************************************************)
(* Limine's physical memory manager on a BIOS machine,                     *)
(* limine-8.4.0/common/mm/pmm.s2.c and pmm.c: the memory map is both what  *)
(* the kernel is told and the only record of what the loader has           *)
(* allocated.  Addresses are small numbers, PAGE_SIZE of them to a page,   *)
(* so that entries need not be page aligned.  Zeroing, randomising and     *)
(* printing memory are left out, and so is the UEFI build's map.           *)
(***************************************************************************)
EXTENDS Integers, Sequences, FiniteSets

CONSTANTS
  PAGE_SIZE,
  EBDA, LOW_TOP,    \* start of the EBDA; 0x100000
  HIGH,             \* 4 GiB: where ordinary allocations end
  MAX_ENTRIES,      \* memmap_max_entries
  BSS_END,          \* end of the loader's own image, which starts at the second page
  E820,             \* the maps the firmware may report
  Counts,           \* bound: sizes asked for
  Aligns,           \* bound: alignments asked for
  MaxOps            \* bound: allocations and frees

VARIABLES
  memmap,
  e820,
  conv,             \* conv_mem_alloc's static base
  status,           \* "running", "panic", or "done": the map was handed out
  grants,           \* what is allocated: base, top, type, and the end of what the map gave up for it
  lost,             \* what was given up and not freed with its grant
  ops

vars == <<memmap, e820, conv, status, grants, lost, ops>>

USABLE == "usable"
RECLAIMABLE == "bootloader"
KERNEL == "kernel"
Top(e) == e.base + e.length
AlignUp(x, a) == ((x + a - 1) \div a) * a
AlignDown(x, a) == (x \div a) * a
PANIC == <<[base |-> -1, length |-> 0, type |-> "panic"]>>

\* m[i] = m[count - 1]; count--
Drop(m, i) == SubSeq([m EXCEPT ![i] = m[Len(m)]], 1, Len(m) - 1)

-----------------------------------------------------------------------------
(* pmm_sanitise_entries *)

\* Entry i, cut back by each of the others in turn; a length of -1 is the panic.
RECURSIVE Cut(_, _, _)
Cut(m, i, j) ==
  IF j > Len(m) \/ m[i].length = -1 THEN m[i]
  ELSE IF j = i THEN Cut(m, i, j + 1)
  ELSE LET base == m[i].base
           top == Top(m[i])
           res == m[j]
           starts == res.base >= base /\ res.base < top
           ends == Top(res) >= base /\ Top(res) < top
           top2 == IF starts THEN res.base ELSE top
           base2 == IF Top(res) >= base /\ Top(res) < top2 THEN Top(res) ELSE base
       IN  Cut([m EXCEPT ![i].base = base2,
                         ![i].length = IF starts /\ ends THEN -1 ELSE top2 - base2], i, j + 1)

align_entry(e) ==
  LET base == AlignUp(e.base, PAGE_SIZE)
  IN  [e EXCEPT !.base = base, !.length = AlignDown(e.length - (base - e.base), PAGE_SIZE)]

RECURSIVE Separate(_, _, _)
Separate(m, i, align) ==
  IF i > Len(m) THEN m
  ELSE IF m[i].type # USABLE THEN Separate(m, i + 1, align)
  ELSE LET e == Cut(m, i, 1)
       IN  IF e.length = -1 THEN PANIC
           ELSE IF e.length = 0 \/ (align /\ e.length < PAGE_SIZE) THEN Separate(Drop(m, i), i, align)
           ELSE Separate([m EXCEPT ![i] = IF align THEN align_entry(e) ELSE e], i + 1, align)

RECURSIVE DropEmpty(_, _)
DropEmpty(m, i) ==
  IF i > Len(m) THEN m
  ELSE IF m[i].type # USABLE THEN DropEmpty(m, i + 1)
  ELSE LET low == m[i].base < PAGE_SIZE
           e == IF low THEN [m[i] EXCEPT !.base = PAGE_SIZE, !.length = Top(m[i]) - PAGE_SIZE] ELSE m[i]
       IN  IF (low /\ Top(m[i]) <= PAGE_SIZE) \/ e.length = 0 THEN DropEmpty(Drop(m, i), i)
           ELSE DropEmpty([m EXCEPT ![i] = e], i + 1)

RECURSIVE Sort(_, _)
Sort(m, p) ==
  IF p >= Len(m) THEN m
  ELSE LET min == CHOOSE i \in p .. Len(m) :
                    /\ \A j \in p .. Len(m) : m[i].base <= m[j].base
                    /\ \A j \in p .. i - 1 : m[j].base > m[i].base
       IN  Sort([m EXCEPT ![p] = m[min], ![min] = m[p]], p + 1)

Merges(a, b) == a.type \in {USABLE, RECLAIMABLE} /\ b.type = a.type /\ b.base = Top(a)
RECURSIVE Merge(_, _)
Merge(m, i) ==
  IF i >= Len(m) THEN m
  ELSE IF Merges(m[i], m[i + 1])
  THEN Merge(SubSeq(m, 1, i - 1) \o <<[m[i] EXCEPT !.length = @ + m[i + 1].length]>>
               \o SubSeq(m, i + 2, Len(m)), i)
  ELSE Merge(m, i + 1)

pmm_sanitise_entries(m, align) ==
  LET s == Separate(m, 1, align)
  IN  IF s = PANIC THEN PANIC ELSE Merge(Sort(DropEmpty(s, 1), 1), 1)

-----------------------------------------------------------------------------
(* pmm_new_entry: the new range is carved out of whatever it overlaps *)
RECURSIVE Carve(_, _, _, _)
Carve(m, i, base, top) ==
  IF m = PANIC \/ i > Len(m) THEN m
  ELSE LET b == m[i].base
           t == Top(m[i])
       IN  CASE base <= b /\ top >= t -> Carve(Drop(m, i), i, base, top)
             [] base <= b /\ top < t /\ top > b ->
                  Carve([m EXCEPT ![i].base = top, ![i].length = t - top], i + 1, base, top)
             [] base > b /\ base < t /\ top >= t ->
                  Carve([m EXCEPT ![i].length = base - b], i + 1, base, top)
             [] base > b /\ top < t ->
                  IF Len(m) >= MAX_ENTRIES THEN PANIC
                  ELSE Carve(Append([m EXCEPT ![i].length = base - b],
                                    [base |-> top, length |-> t - top, type |-> m[i].type]),
                             i + 1, base, top)
             [] OTHER -> Carve(m, i + 1, base, top)

pmm_new_entry(m, base, length, type) ==
  LET c == Carve(m, 1, base, base + length)
  IN  IF c = PANIC \/ Len(c) >= MAX_ENTRIES THEN PANIC
      ELSE Append(c, [base |-> base, length |-> length, type |-> type])

\* memmap_alloc_range_in: when a range fits in one entry of the type it may overlay ...
Inside_Start(e, base, top) == base >= e.base /\ base < Top(e)
Inside(e, base, top) == base >= e.base /\ base < Top(e) /\ top <= Top(e)
CanAlloc(m, base, length, overlay) ==
  \/ length = 0
  \/ \E i \in 1 .. Len(m) : m[i].type \in overlay /\ Inside(m[i], base, base + length)

\* ... and the map afterwards.
AllocRange(m, base, length, type) ==
  IF length = 0 THEN m
  ELSE LET n == pmm_new_entry(m, base, length, type)
       IN  IF n = PANIC THEN PANIC ELSE pmm_sanitise_entries(n, FALSE)

-----------------------------------------------------------------------------
(* init_memmap *)
AboveEbda(e) ==
  IF e.type = USABLE /\ e.base >= EBDA /\ e.base < LOW_TOP
  THEN [e EXCEPT !.base = LOW_TOP, !.length = Top(e) - LOW_TOP] ELSE e
BelowEbda(e, top) ==
  IF e.type = USABLE /\ top > EBDA /\ top <= LOW_TOP THEN [e EXCEPT !.length = @ - (top - EBDA)] ELSE e
Keeps(e) == ~(e.type = USABLE /\ e.base >= EBDA /\ e.base < LOW_TOP /\ Top(e) <= LOW_TOP)
Taken(map) == LET kept == SelectSeq(map, Keeps)
              IN  [i \in 1 .. Len(kept) |-> BelowEbda(AboveEbda(kept[i]), Top(kept[i]))]

Booted(map) ==
  LET m == pmm_sanitise_entries(Taken(map), FALSE)
      size == AlignUp(BSS_END, PAGE_SIZE) - PAGE_SIZE
  IN  IF m = PANIC \/ ~CanAlloc(m, PAGE_SIZE, size, {e.type : e \in {m[i] : i \in 1 .. Len(m)}}) THEN PANIC
      ELSE LET n == AllocRange(m, PAGE_SIZE, size, RECLAIMABLE)
           IN  IF n = PANIC THEN PANIC ELSE pmm_sanitise_entries(n, FALSE)

Init ==
  /\ e820 \in E820
  /\ memmap = Booted(e820)
  /\ status = IF memmap = PANIC THEN "panic" ELSE "running"
  /\ conv = PAGE_SIZE
  /\ grants = {}
  /\ lost = {}
  /\ ops = 0

Running == status = "running" /\ ops < MaxOps
Panics == /\ status' = "panic"
          /\ UNCHANGED <<memmap, e820, conv, grants, lost, ops>>

\* The map after an allocation, or the end.
Becomes(m, g, c) ==
  IF m = PANIC THEN Panics
  ELSE /\ memmap' = m
       /\ grants' = g
       /\ conv' = c
       /\ lost' = lost \cup UNION {x.top .. x.end - 1 : x \in grants \ g}
       /\ ops' = ops + 1
       /\ UNCHANGED <<e820, status>>

\* conv_mem_alloc: the first place from its static base on that is usable.
ConvAlloc == \E c \in Counts :
  LET count == AlignUp(c, PAGE_SIZE)
      fits == {b \in conv .. LOW_TOP - count : (b - conv) % PAGE_SIZE = 0 /\ CanAlloc(memmap, b, count, {USABLE})}
      b == CHOOSE x \in fits : \A y \in fits : x <= y
      m == AllocRange(memmap, b, count, RECLAIMABLE)
  IN  /\ Running
      /\ IF fits = {} THEN Panics
         ELSE Becomes(IF m = PANIC THEN PANIC ELSE pmm_sanitise_entries(m, FALSE),
                      grants \cup {[base |-> b, top |-> b + count, end |-> b + count, type |-> RECLAIMABLE]},
                      b + count)

\* ext_mem_alloc_type_aligned_mode: from the top of the last entry it fits in.
EntryTop(e, high) == IF Top(e) >= HIGH /\ ~high THEN HIGH ELSE Top(e)
AllocBase(e, count, align, high) == AlignDown(EntryTop(e, high) - count, align)
ExtAlloc == \E c \in Counts, align \in Aligns, type \in {RECLAIMABLE, KERNEL}, high \in BOOLEAN :
  LET count == AlignUp(c, align)
      fits == {i \in 1 .. Len(memmap) : /\ memmap[i].type = USABLE
                                        /\ memmap[i].base < EntryTop(memmap[i], high)
                                        /\ AllocBase(memmap[i], count, align, high) >= memmap[i].base}
      i == CHOOSE x \in fits : \A y \in fits : y <= x
      e == memmap[i]
      b == AllocBase(e, count, align, high)
      t == EntryTop(e, high)
      m == AllocRange(memmap, b, t - b, type)
  IN  /\ Running
      /\ IF fits = {} THEN Panics
         ELSE Becomes(IF m = PANIC THEN PANIC ELSE pmm_sanitise_entries(m, FALSE),
                      grants \cup {[base |-> b, top |-> b + count, end |-> t, type |-> type]}, conv)

\* memmap_alloc_range at an address of the caller's choosing, where it may fail.
FixedAlloc == \E c \in Counts, p \in 1 .. (HIGH \div PAGE_SIZE) :
  LET count == AlignUp(c, PAGE_SIZE)
      b == p * PAGE_SIZE
  IN  /\ Running
      /\ CanAlloc(memmap, b, count, {USABLE})
      /\ Becomes(AllocRange(memmap, b, count, RECLAIMABLE),
                 grants \cup {[base |-> b, top |-> b + count, end |-> b + count, type |-> RECLAIMABLE]}, conv)

\* pmm_free, of something that was allocated.
pmm_free == \E g \in grants :
  /\ Running
  /\ Becomes(AllocRange(memmap, g.base, AlignUp(g.top - g.base, PAGE_SIZE), USABLE), grants \ {g}, conv)

get_memmap ==
  /\ Running
  /\ LET m == pmm_sanitise_entries(memmap, TRUE)
     IN  IF m = PANIC THEN Panics
         ELSE /\ memmap' = m
              /\ status' = "done"
              /\ UNCHANGED <<e820, conv, grants, lost, ops>>

Next == ConvAlloc \/ ExtAlloc \/ FixedAlloc \/ pmm_free \/ get_memmap
Spec == Init /\ [][Next]_vars

-----------------------------------------------------------------------------
Range(e) == e.base .. Top(e) - 1
Of(m, types) == UNION {Range(m[i]) : i \in {i \in 1 .. Len(m) : m[i].type \in types}}
Granted(g) == g.base .. g.top - 1
\* What the firmware calls usable and nothing else, without the first page and the EBDA.
Ram == {a \in Of(e820, {USABLE}) \ Of(e820, {"reserved"}) : a >= PAGE_SIZE /\ (a < EBDA \/ a >= LOW_TOP)}
Image == PAGE_SIZE .. AlignUp(BSS_END, PAGE_SIZE) - 1

\* Allocations that are not freed lie apart from each other and from the loader, in RAM that the map
\* shows under their type; and until the map is handed out, the rest of the
\* RAM is usable, but for the odd end an allocation gave up with it
\* (memmap_alloc_range_in, pmm_new_entry, pmm_sanitise_entries, pmm_free).
MemoryAccounted ==
  status # "panic" =>
    /\ \A g \in grants : /\ Granted(g) \subseteq Ram \cap Of(memmap, {g.type})
                         /\ Granted(g) \cap Image = {}
                         /\ \A h \in grants : g # h => Granted(g) \cap Granted(h) = {}
    /\ LET free == Ram \ (Image \cup lost \cup UNION {g.base .. g.end - 1 : g \in grants})
       IN  IF status = "running" THEN Of(memmap, {USABLE}) = free ELSE Of(memmap, {USABLE}) \subseteq free

\* Not guaranteed: the map the kernel is given keeps what the protocol promises of it: the
\* usable and the bootloader-reclaimable entries are page aligned in base and
\* length, and overlap no other entry (get_memmap).
MapGuarantee ==
  status = "done" =>
    \A i \in 1 .. Len(memmap) : memmap[i].type \in {USABLE, RECLAIMABLE} =>
      /\ memmap[i].base % PAGE_SIZE = 0 /\ memmap[i].length % PAGE_SIZE = 0
      /\ \A j \in 1 .. Len(memmap) : i # j => Range(memmap[i]) \cap Range(memmap[j]) = {}
=============================================================================
