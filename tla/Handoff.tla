------------------------------ MODULE Handoff ------------------------------
(***************************************************************************)
(* From a kernel's file to the address space it is entered in: the ELF     *)
(* loader (Elf) and the page tables (Vmm) as limine_load puts them         *)
(* together, with the base revision and the requests it finds in the       *)
(* loaded image (limine-8.4.0/common/protos/limine.c).                     *)
(***************************************************************************)
EXTENDS Integers, Sequences, FiniteSetsExt, SequencesExt

CONSTANTS
  Files, PAGE, HIGH, TOP, BITMAP, PhysBases,   \* as in Elf
  RADIX, LEVELS,                               \* as in Vmm
  Memmaps,              \* memory maps: sequences of .base, .length, .type, in pages
  direct_map_offset,    \* first page of the higher half direct map
  FOUR_GIB,             \* 4 GiB in pages
  MAX_REQUESTS, SUPPORTED_BASE_REVISION

\* Words of the image that limine_load looks for; a request is its identifier
\* below REQUEST.  Four and two words of a marker, two of a magic, are one here.
START == -1
END == -2
REVISION == -3
REVISION2 == -4
REQUEST == -10

VARIABLES
  elf, kaslr, pc, out, seg, mem,     \* Elf
  top_level, nx, gib, pat,           \* the page tables and what the CPU can do
  stage,           \* "elf", "revision", "requests", "mapped", "panic"
  base_revision,
  requests,        \* offsets into the image
  memmap
elfVars == <<elf, kaslr, pc, out, seg, mem>>
cpuVars == <<nx, gib, pat, memmap>>
vars == <<elfVars, cpuVars, top_level, stage, base_revision, requests>>

E == INSTANCE Elf
V == INSTANCE Vmm WITH Calls <- {}, MaxCalls <- 0, asked <- <<>>

-----------------------------------------------------------------------------
Init ==
  /\ E!Init
  /\ top_level = V!New /\ nx \in BOOLEAN /\ gib \in BOOLEAN /\ pat \in BOOLEAN
  /\ stage = "elf" /\ base_revision = 0 /\ requests = <<>> /\ memmap \in Memmaps

LoadKernel == stage = "elf" /\ pc # "done" /\ E!Next /\ UNCHANGED <<cpuVars, top_level, stage, base_revision, requests>>
Panic == stage' = "panic" /\ UNCHANGED <<elfVars, cpuVars, top_level, base_revision, requests>>

\* The words a scan comes to: in front of the bss, up to the first end marker; a
\* start marker makes it forget what it found, so that what it ends with are the
\* words behind the last one.
Reached(m, limit) == {i \in 0 .. limit - 1 : \A k \in 0 .. i : m[k] # END}
Together(m, i, k) == i < k /\ \A j \in i .. k : m[j] # START
\* Mutant: the scan goes on behind the end marker.
Scanned_Past(m, limit) ==
  LET all == 0 .. limit - 1
      starts == {i \in all : m[i] = START}
  IN  {i \in all : \A s \in starts : i > s}
Scanned(m, limit) == {i \in Reached(m, limit) : \A k \in Reached(m, limit) : m[k] = START => i > k}

\* The base revision; its tag is answered in place.  The check for a second tag
\* is made on the revision found so far.
Tags(words) == {i \in words : mem[i] = REVISION /\ mem[i + 1] = REVISION2}
Tagged == Tags(Scanned(mem, out.before_bss))
Asked(i) == mem[i + 2]
Settled(r) == IF r <= SUPPORTED_BASE_REVISION THEN r ELSE SUPPORTED_BASE_REVISION
FindRevision ==
  /\ stage = "elf" /\ pc = "done"
  /\ IF \E i, k \in Tags(Reached(mem, out.before_bss)) : Together(mem, i, k) /\ Asked(i) # 0 THEN Panic
     ELSE /\ stage' = "revision"
          /\ IF Tagged = {} THEN UNCHANGED <<mem, base_revision>>
             ELSE LET i == Max(Tagged)
                      given == {k \in Tagged : Asked(k) <= SUPPORTED_BASE_REVISION}
                  IN  /\ base_revision' = Settled(Asked(i))
                      /\ mem' = [a \in DOMAIN mem |-> IF a = i + 1 THEN Settled(Asked(i))
                                                      ELSE IF given # {} /\ a = Max(given \cup {0}) + 2 THEN 0 ELSE mem[a]]
          /\ UNCHANGED <<elf, kaslr, pc, out, seg, cpuVars, top_level, requests>>

\* The requests: from .limine_reqs on revision 0, else by their magic.
FromSection(words) ==
  LET zero == Min({i \in DOMAIN words : words[i] = 0})
  IN  [k \in 1 .. zero |-> words[k - 1] - out.virtual_base]
Magic(words) == {i \in words : mem[i] <= REQUEST}
ByMagic == SetToSortSeq(Magic(Scanned(mem, out.before_bss)), <)
TooMany == \E i \in Magic(Reached(mem, out.before_bss)) :
             Cardinality({k \in Magic(0 .. i) : k = i \/ Together(mem, k, i)}) > MAX_REQUESTS
Conflict == \E i, k \in Magic(Reached(mem, out.before_bss)) : Together(mem, i, k) /\ mem[i] = mem[k]
FindRequests ==
  /\ stage = "revision"
  /\ \E section \in {E!elf64_load_section(elf, "limine_reqs", out.slide)} :
       LET listed == base_revision = 0 /\ section.is # "no"
       IN  IF IF listed THEN section.is = "panic" ELSE TooMany \/ Conflict THEN Panic
           ELSE /\ stage' = "requests"
                /\ requests' = IF listed THEN FromSection(section.words) ELSE ByMagic
                /\ UNCHANGED <<elfVars, cpuVars, top_level, base_revision>>

-----------------------------------------------------------------------------
\* build_pagemap: the calls of map_pages it makes, in order.
Call(virt, phys, flags, count) == [virt |-> virt, phys |-> phys, flags |-> flags, count |-> count]
KernelPhys(r) == out.physical_base + (r.base - out.virtual_base)
Flags(permissions) == (IF "x" \in permissions \/ ~nx THEN {} ELSE {"nx"}) \cup (permissions \cap {"w"})
KernelCalls ==
  [k \in DOMAIN out.ranges |->
     LET r == out.ranges[k] IN Call(r.base \div PAGE, KernelPhys(r) \div PAGE, Flags(r.permissions), r.length \div PAGE)]
\* Which regions the direct map takes, by revision.
\* Mutant: reserved memory is left out of revision 0 too.
Mapped_Early(r) == r.type \notin {"reserved", "bad"}
Mapped(r) ==
  CASE base_revision = 0 -> TRUE
    [] base_revision \in {1, 2} -> r.type \notin {"reserved", "bad"}
    [] base_revision = 3 -> r.type \in {"usable", "reclaimable", "kernel", "framebuffer", "efi"}
Twice(base, flags, count) ==
  (IF base_revision = 0 THEN <<Call(base, base, flags, count)>> ELSE <<>>)
  \o <<Call(direct_map_offset + base, base, flags, count)>>
RegionCalls(r) ==
  LET base == IF base_revision < 3 /\ r.base < FOUR_GIB THEN FOUR_GIB ELSE r.base
  IN  IF Mapped(r) /\ base < r.base + r.length THEN Twice(base, {"w"}, r.base + r.length - base) ELSE <<>>
FramebufferCalls(r) == IF r.type = "framebuffer" THEN Twice(r.base, {"w", "fb"}, r.length) ELSE <<>>
AllCalls ==
  KernelCalls
  \o (IF base_revision = 0 THEN <<Call(1, 1, {"w"}, FOUR_GIB - 1)>> ELSE <<>>)
  \o (IF base_revision < 3 THEN <<Call(direct_map_offset, 0, {"w"}, FOUR_GIB)>> ELSE <<>>)
  \o FlattenSeq([k \in DOMAIN memmap |-> RegionCalls(memmap[k])])
  \o FlattenSeq([k \in DOMAIN memmap |-> FramebufferCalls(memmap[k])])
  \o (IF base_revision >= 1 THEN <<Call(0, 0, {"w"}, FOUR_GIB)>> ELSE <<>>)
BadRange(r) == r.base < TOP \div 2 \/ KernelPhys(r) % PAGE # 0 \/ r.base % PAGE # 0 \/ r.length % PAGE # 0
build_pagemap ==
  /\ stage = "requests"
  /\ LET Step(t, c) == V!map_pages(t, c.virt, c.phys, V!Allowed(c.flags), c.count, gib)
     IN  \E tree \in {FoldLeft(Step, V!New, AllCalls)} :
         IF \E k \in DOMAIN out.ranges : BadRange(out.ranges[k]) THEN Panic
         ELSE IF V!Panicked(tree) THEN Panic
         ELSE /\ top_level' = tree /\ stage' = "mapped"
              /\ UNCHANGED <<elfVars, cpuVars, base_revision, requests>>

Next == LoadKernel \/ FindRevision \/ FindRequests \/ build_pagemap
Spec == Init /\ [][Next]_vars

-----------------------------------------------------------------------------
ImageExact == stage = "elf" => E!ImageExact

\* What the protocol says each revision maps above the direct map's 4 GiB.
Unmapped == <<{}, {"reserved", "bad"}, {"reserved", "bad"}, {"reserved", "bad", "acpi"}>>
Promised(page) ==
  \/ base_revision < 3 /\ page < FOUR_GIB
  \/ \E k \in DOMAIN memmap : /\ page \in memmap[k].base .. memmap[k].base + memmap[k].length - 1
                              /\ memmap[k].type \notin Unmapped[base_revision + 1]
Screen(page) == pat /\ \E k \in DOMAIN memmap : memmap[k].type = "framebuffer" /\ page \in memmap[k].base .. memmap[k].base + memmap[k].length - 1
At(virt) == V!Translate(top_level, virt)
PageAt(phys, flags) == [is |-> "page", phys |-> phys, flags |-> flags]
MappedAs(i) ==
  LET p == elf.phdrs[i]
  IN  \A a \in E!Addresses(p) :
        At(E!Wrap(a + out.slide) \div PAGE) = PageAt((out.physical_base + a - E!min_vaddr(elf)) \div PAGE, Flags(p.flags))
Pages(r) == r.base .. r.base + r.length - 1
Apart == \A i, k \in DOMAIN out.ranges : i # k => Pages(out.ranges[i]) \cap Pages(out.ranges[k]) = {}

\* The kernel is entered in the address space the protocol promises: each of its
\* segments where it asked to be, moved by the slide, on the words that were
\* loaded for it and with its own permissions (when no two segments share a
\* block of their alignment); the direct map reaches exactly the memory its
\* base revision lists, and the framebuffer with its own caching; and the
\* requests found are the ones between the markers of the image (limine_load,
\* build_pagemap).
HandoffExact ==
  stage = "mapped" =>
    /\ Apart => \A i \in E!Segments(elf) : MappedAs(i)
    /\ \A page \in 0 .. direct_map_offset \div 2 - 1 :
         IF Promised(page) THEN At(direct_map_offset + page) = PageAt(page, {"w"} \cup IF Screen(page) THEN {"fb"} ELSE {})
         ELSE At(direct_map_offset + page).is = "fault"
    /\ base_revision = elf.revision
    /\ requests = [k \in DOMAIN elf.requests |-> elf.requests[k] - E!min_vaddr(elf)]

\* The segments have their permissions whatever their alignment.
KernelMapped == stage = "mapped" => \A i \in E!Segments(elf) : MappedAs(i)
=============================================================================
