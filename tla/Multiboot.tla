----------------------------- MODULE Multiboot -----------------------------
(***************************************************************************)
(* Loading by the two Multiboot protocols (protos/multiboot1.c and         *)
(* multiboot2.c of limine-8.4.0/common): kernel, information, sections and *)
(* modules are put together wherever there is room, each is given a target *)
(* (lib/elsewhere.c), and a stub copies them there one after the other and *)
(* enters the kernel.  A word of memory is labelled by what it holds; of   *)
(* the information structure only the place is modelled.                   *)
(***************************************************************************)
EXTENDS Integers, Sequences, FiniteSetsExt, SequencesExt

CONSTANTS
  PAGE,                  \* words in a page
  INFO, INFO_SIZE,       \* where the information would best be, 0x10000, and its size
  STUB_SIZE, MAX_RETRIES,
  Boots                  \* .proto, .types (of the words of memory), .kernel, .modules (their sizes), .rsdp

NONE == -1               \* no address: 0xffffffff, (uint64_t)-1

VARIABLES
  boot,            \* the member of Boots
  pc,              \* "load", "relocate", "info", "sections", "modules", "stub", "copy", "start", "lost", "panic"
  ram,             \* .type and .data of every word
  ranges,          \* .elsewhere, .target, .length
  entry_point,
  own,             \* where the loader keeps the kernel's .file, the .table of ranges and the .stub
  places,          \* what the kernel is told: .info, .sections, .modules
  n                \* the section, module or range a loop has come to
vars == <<boot, pc, ram, ranges, entry_point, own, places, n>>

kernel == boot.kernel
Words(base, size) == base .. base + size - 1
AlignDown(a, k) == a - (a % k)
AlignUp(a, k) == AlignDown(a + k - 1, k)
Zero == <<"zero", 0>>
Label(what) == [k \in 0 .. 63 |-> <<what, k>>]
Ids == <<"module1", "module2", "module3">>

-----------------------------------------------------------------------------
\* ext_mem_alloc: from the top, whole pages, zeroed; pmm_free gives them back.
Room(r, size) ==
  {b \in DOMAIN r.type : b % PAGE = 0 /\ \A a \in Words(b, AlignUp(size, PAGE)) : a \in DOMAIN r.type /\ r.type[a] = "usable"}
Place(r, size) == Max(Room(r, size))
Set(f, words, value) == [a \in DOMAIN f |-> IF a \in words THEN value ELSE f[a]]
Taken(r, size, type) ==
  LET words == Words(Place(r, size), AlignUp(size, PAGE))
  IN  [type |-> Set(r.type, words, type), data |-> Set(r.data, words, Zero)]
Freed(r, base, size) == [r EXCEPT !.type = Set(@, Words(base, AlignUp(size, PAGE)), "usable")]
\* Write the words of label, from its k-th on.
Filled(r, base, size, label) ==
  [r EXCEPT !.data = [a \in DOMAIN @ |-> IF a \in Words(base, size) THEN label[a - base] ELSE @[a]]]

-----------------------------------------------------------------------------
\* The header of Multiboot 2 is a list of tags: what the last of each kind says.
LastTag(tags, type) == LET at == {i \in DOMAIN tags : tags[i].type = type} IN IF at = {} THEN <<>> ELSE <<tags[Max(at)]>>
Requests(tags) == {i \in DOMAIN tags : tags[i].type = "request"}
Required(tags, what) ==
  LET at == {i \in Requests(tags) : what \in tags[i].what} IN at # {} /\ ~tags[Max(at)].optional
BadTag(tags, i) ==
  LET t == tags[i]
  IN  \/ t.type = "request" /\ "unknown" \in t.what /\ ~t.optional
      \/ t.type = "efi64" /\ ~\E j \in 1 .. i - 1 : tags[j].type = "entry"
      \/ t.type = "unknown" /\ ~t.optional
BadHeader == ~kernel.checksum \/ (boot.proto = 2 /\ \E i \in DOMAIN kernel.tags : BadTag(kernel.tags, i))
Address == IF boot.proto = 1 THEN kernel.address ELSE LastTag(kernel.tags, "address")
Relocatable == IF boot.proto = 1 THEN <<>> ELSE LastTag(kernel.tags, "relocatable")
EntryTag == IF boot.proto = 1 THEN <<>> ELSE LastTag(kernel.tags, "entry")

\* The part of the file an address tag (or header) asks for, and its bss.
LoadAddr(t) == IF boot.proto = 2 /\ t.load_addr = NONE THEN t.header_addr - kernel.header_offset ELSE t.load_addr
LoadSrc(t) == kernel.header_offset - (t.header_addr - LoadAddr(t))
LoadSize(t) ==
  IF t.load_end_addr # 0 THEN t.load_end_addr - LoadAddr(t)
  ELSE IF boot.proto = 1 THEN kernel.size ELSE kernel.size - LoadSrc(t)
BssEnd(t) == LoadAddr(t) + LoadSize(t)
FullSize(t) == IF t.bss_end_addr # 0 THEN t.bss_end_addr - LoadAddr(t) ELSE LoadSize(t)
BadAddress(t) ==
  \/ LoadAddr(t) > t.header_addr
  \/ t.bss_end_addr # 0 /\ t.bss_end_addr < BssEnd(t)
  \/ boot.proto = 2 /\ EntryTag = <<>>

\* An ELF kernel is one image at the lowest physical address of its segments
\* (load_elsewhere of module Elf).
Target == IF Address # <<>> THEN LoadAddr(Address[1]) ELSE kernel.paddr
ImageSize == IF Address # <<>> THEN FullSize(Address[1]) ELSE kernel.image
Image(r, file) ==
  IF Address = <<>> THEN Label("image")
  ELSE LET t == Address[1]
           from == file + LoadSrc(t)
       IN  [k \in 0 .. FullSize(t) - 1 |-> IF k < LoadSize(t) /\ from + k \in DOMAIN r.data THEN r.data[from + k] ELSE Zero]
Entry ==
  CASE EntryTag # <<>> -> EntryTag[1].addr
    [] EntryTag = <<>> -> IF Address # <<>> THEN Address[1].entry_addr ELSE kernel.entry

-----------------------------------------------------------------------------
Init ==
  /\ boot \in Boots /\ pc = "load" /\ ranges = <<>> /\ entry_point = NONE /\ n = 1
  /\ ram = [type |-> boot.types, data |-> [a \in DOMAIN boot.types |-> Zero]]
  /\ own = [file |-> NONE, table |-> NONE, stub |-> NONE]
  /\ places = [info |-> NONE, sections |-> <<>>, modules |-> <<>>]

Panic == pc' = "panic" /\ UNCHANGED <<boot, ram, ranges, entry_point, own, places, n>>

\* The file, the image and a table of one range.
Load ==
  /\ pc = "load"
  /\ LET file == Place(ram, kernel.size)
         r1 == Filled(Taken(ram, kernel.size, "kernel"), file, kernel.size, Label("file"))
         image == Place(r1, ImageSize)
         r2 == Filled(Taken(r1, ImageSize, "reclaimable"), image, ImageSize, Image(r1, file))
     IN  IF \/ Room(ram, kernel.size) = {} \/ BadHeader \/ (Address # <<>> /\ BadAddress(Address[1]))
            \/ Room(r1, ImageSize) = {} \/ Room(r2, 1) = {}
         THEN Panic
         ELSE /\ ranges' = <<[elsewhere |-> image, target |-> Target, length |-> ImageSize]>>
              /\ own' = [own EXCEPT !.file = file, !.table = Place(r2, 1)]
              /\ ram' = Taken(r2, 1, "reclaimable")
              /\ entry_point' = Entry
              /\ pc' = IF boot.proto = 2 THEN "relocate" ELSE "info"
              /\ UNCHANGED <<boot, places, n>>

\* check_usable_memory, and the search for a base by the relocatable tag.
check_usable_memory(base, size) ==
  \A a \in Words(base, size) : a \in DOMAIN ram.type /\ ram.type[a] \in {"usable", "reclaimable", "kernel"}
Bases(t) ==
  {b \in DOMAIN ram.type : /\ b % t.align = 0 /\ t.min_addr <= b /\ b + ranges[1].length <= t.max_addr
                           /\ check_usable_memory(b, ranges[1].length)}
Preferred(t) == IF t.preference = 2 THEN Max(Bases(t)) ELSE Min(Bases(t))
\* Mutant: the entry point stays where it was linked.
Slid_Not(slide) == entry_point
Slid(slide) == entry_point + slide
Relocate ==
  /\ pc = "relocate"
  /\ LET base == Preferred(Relocatable[1])
     IN  IF Relocatable = <<>>
         THEN IF ~check_usable_memory(ranges[1].target, ranges[1].length) THEN Panic
              ELSE pc' = "info" /\ UNCHANGED <<boot, ram, ranges, entry_point, own, places, n>>
         ELSE IF Bases(Relocatable[1]) = {} THEN Panic
         ELSE /\ entry_point' = Slid(base - ranges[1].target)
              /\ ranges' = [ranges EXCEPT ![1].target = base]
              /\ pc' = "info"
              /\ UNCHANGED <<boot, ram, own, places, n>>

-----------------------------------------------------------------------------
\* elsewhere_append.  An attempt looks at the ranges in turn: at what overlaps
\* the target it moves behind it, at a source or at missing memory (seen at the
\* first range) by a page; it gives up after MAX_RETRIES.
elsewhere_overlap_check(base1, top1, base2, top2) ==
  (base1 >= base2 /\ base1 < top2) \/ (top1 > base2 /\ top1 <= top2)
Over(base, length, t, size) == elsewhere_overlap_check(base, base + length, t, t + size)
Exists(r, t, size) ==
  size = 0 \/ \E type \in {"usable", "reclaimable"} : \A a \in Words(t, size) : a \in DOMAIN r.type /\ r.type[a] = type
Obstacles(r, t, size) ==
  {i \in DOMAIN ranges : \/ Over(ranges[i].target, ranges[i].length, t, size)
                         \/ Over(ranges[i].elsewhere, ranges[i].length, t, size)
                         \/ ~Exists(r, t, size)}
Moved(r, t, size) ==
  LET i == Min(Obstacles(r, t, size))
  IN  IF Over(ranges[i].target, ranges[i].length, t, size) THEN AlignUp(ranges[i].target + ranges[i].length, PAGE)
      ELSE t + PAGE
First(wanted) ==
  IF wanted = NONE THEN AlignUp(Max({r.target + r.length : r \in {ranges[i] : i \in DOMAIN ranges}}), PAGE) ELSE wanted
\* Mutant: having moved, the target is not compared with the ranges before again.
append_Once(r, wanted, size) ==
  LET t == First(wanted) IN IF Obstacles(r, t, size) = {} THEN t ELSE Moved(r, t, size)
append(r, wanted, size) ==
  LET retry[t \in Nat, left \in Nat] ==
        IF left = 0 THEN NONE
        ELSE IF Obstacles(r, t, size) = {} THEN t
        ELSE retry[Moved(r, t, size), left - 1]
  IN  retry[First(wanted), MAX_RETRIES]
NewRange(source, target, size) == [elsewhere |-> source, target |-> target, length |-> size]

\* The table with room for all ranges, and the information at its place.
TableSize == 1 + 1 + Len(boot.modules) + IF Address = <<>> THEN Len(kernel.sections) ELSE 0
PlaceInfo ==
  /\ pc = "info"
  /\ LET r1 == Freed(Filled(Taken(ram, TableSize, "reclaimable"), Place(ram, TableSize), TableSize, Label("table")), own.table, 1)
         source == Place(r1, INFO_SIZE)
         r2 == Filled(Taken(r1, INFO_SIZE, "reclaimable"), source, INFO_SIZE, Label("info"))
         target == append(r2, INFO, INFO_SIZE)
     IN  IF \/ Room(ram, TableSize) = {} \/ Room(r1, INFO_SIZE) = {} \/ target = NONE
            \/ boot.proto = 2 /\ Address # <<>> /\ Required(kernel.tags, "elf")
         THEN Panic
         ELSE /\ own' = [own EXCEPT !.table = Place(ram, TableSize)]
              /\ ram' = r2
              /\ ranges' = Append(ranges, NewRange(source, target, INFO_SIZE))
              /\ places' = [places EXCEPT !.info = target]
              /\ pc' = "sections"
              /\ UNCHANGED <<boot, entry_point, n>>

\* The sections an ELF kernel has no address for go behind everything else.
Sections == IF Address = <<>> THEN kernel.sections ELSE <<>>
PlaceSection ==
  /\ pc = "sections" /\ n <= Len(Sections)
  /\ LET s == Sections[n]
         target == append(ram, NONE, s.size)
     IN  IF s.addr # 0 \/ s.size = 0
         THEN n' = n + 1 /\ places' = [places EXCEPT !.sections = Append(@, s.addr)]
              /\ UNCHANGED <<boot, pc, ram, ranges, entry_point, own>>
         ELSE IF target = NONE THEN Panic
         ELSE /\ ranges' = Append(ranges, NewRange(own.file + s.offset, target, s.size))
              /\ places' = [places EXCEPT !.sections = Append(@, target)]
              /\ n' = n + 1
              /\ UNCHANGED <<boot, pc, ram, entry_point, own>>
SectionsDone ==
  /\ pc = "sections" /\ n > Len(Sections)
  /\ pc' = "modules" /\ n' = 1
  /\ UNCHANGED <<boot, ram, ranges, entry_point, own, places>>

\* A module is read to the memory freadall gets for it, and goes behind the rest.
PlaceModule ==
  /\ pc = "modules" /\ n <= Len(boot.modules)
  /\ LET size == boot.modules[n]
         source == Place(ram, size)
         r == Filled(Taken(ram, size, "reclaimable"), source, size, Label(Ids[n]))
         target == append(r, NONE, size)
     IN  IF Room(ram, size) = {} \/ target = NONE THEN Panic
         ELSE /\ ram' = r
              /\ ranges' = Append(ranges, NewRange(source, target, size))
              /\ places' = [places EXCEPT !.modules = Append(@, target)]
              /\ n' = n + 1
              /\ UNCHANGED <<boot, pc, entry_point, own>>
Missing == boot.proto = 2 /\ \E what \in {"acpi_new", "acpi_old"} : Required(kernel.tags, what) /\ what \notin boot.rsdp
PlaceStub ==
  /\ pc = "modules" /\ n > Len(boot.modules)
  /\ IF Missing \/ Room(ram, STUB_SIZE) = {} THEN Panic
     ELSE /\ own' = [own EXCEPT !.stub = Place(ram, STUB_SIZE)]
          /\ ram' = Filled(Taken(ram, STUB_SIZE, "reclaimable"), Place(ram, STUB_SIZE), STUB_SIZE, Label("stub"))
          /\ pc' = "copy" /\ n' = 1
          /\ UNCHANGED <<boot, ranges, entry_point, places>>

-----------------------------------------------------------------------------
\* multiboot_reloc_stub: the ranges in turn, each from its first word on.  A
\* stub or a table that has been overwritten leads anywhere; what is written
\* where there is no memory is lost.
Copied(data, r) ==
  LET Move(d, k) == IF check_usable_memory(r.target + k - 1, 1) THEN [d EXCEPT ![r.target + k - 1] = d[r.elsewhere + k - 1]] ELSE d
  IN  FoldLeft(Move, data, [k \in 1 .. r.length |-> k])
Intact(base, size, label) == \A k \in 0 .. size - 1 : ram.data[base + k] = label[k]
CopyRange ==
  /\ pc = "copy"
  /\ LET sane == /\ Intact(own.stub, STUB_SIZE, Label("stub"))
                 /\ n <= Len(ranges) => ram.data[own.table + n - 1] = Label("table")[n - 1]
     IN  IF ~sane THEN pc' = "lost" /\ UNCHANGED <<ram, n>>
         ELSE IF n > Len(ranges) THEN pc' = "start" /\ UNCHANGED <<ram, n>>
         ELSE /\ ram' = [ram EXCEPT !.data = Copied(@, ranges[n])]
              /\ n' = n + 1
              /\ UNCHANGED pc
  /\ UNCHANGED <<boot, ranges, entry_point, own, places>>

Next == Load \/ Relocate \/ PlaceInfo \/ PlaceSection \/ SectionsDone \/ PlaceModule \/ PlaceStub \/ CopyRange
Spec == Init /\ [][Next]_vars

-----------------------------------------------------------------------------
Targets(i) == Words(ranges[i].target, ranges[i].length)
Sources(i) == Words(ranges[i].elsewhere, ranges[i].length)
\* What elsewhere_append does not look at: something the stub still needs that
\* lies in a target chosen before it, and a range around the whole target.
Needed(i) ==
  UNION {Sources(j) : j \in i + 1 .. Len(ranges)}
  \cup (IF own.stub = NONE THEN {} ELSE Words(own.stub, STUB_SIZE)) \cup Words(own.table, Len(ranges))
Spared == \A i \in DOMAIN ranges : Targets(i) \cap Needed(i) = {}
Surrounded == \E i, j \in DOMAIN ranges : /\ i < j /\ ranges[i].target < ranges[j].target
                                          /\ ranges[j].target + ranges[j].length < ranges[i].target + ranges[i].length

Slide == ranges[1].target - Target
HoldsAt(base, size, label, from) == \A k \in 0 .. size - 1 : ram.data[base + k] = label[from + k]
KernelThere ==
  IF Address = <<>> THEN HoldsAt(kernel.paddr + Slide, kernel.image, Label("image"), 0)
  ELSE ram.data[Address[1].header_addr + Slide] = Label("file")[kernel.header_offset]
SectionsThere ==
  \A i \in DOMAIN Sections :
    Sections[i].addr = 0 /\ Sections[i].size # 0 => HoldsAt(places.sections[i], Sections[i].size, Label("file"), Sections[i].offset)

\* When the kernel is entered everything is where it has been told: its own
\* header at its address plus the slide the entry point has, the information,
\* its sections and modules, none of them damaged by another's copy, and in
\* memory that exists, which Multiboot 1 leaves to the kernel for its own
\* addresses; as long as no target covers what the stub still needs and none
\* lies within another
\* (multiboot1_load, multiboot2_load, elsewhere_append, multiboot_reloc_stub).
MultibootExact ==
  /\ \A i \in DOMAIN ranges : i > 1 => \A a \in Targets(i) : ram.type[a] \in {"usable", "reclaimable"}
  /\ Spared /\ ~Surrounded =>
       /\ pc # "lost"
       /\ pc = "start" =>
            /\ entry_point = Entry + Slide
            /\ boot.proto = 2 \/ check_usable_memory(ranges[1].target, ranges[1].length) => KernelThere
            /\ SectionsThere
            /\ HoldsAt(places.info, INFO_SIZE, Label("info"), 0)
            /\ \A i \in DOMAIN boot.modules : HoldsAt(places.modules[i], boot.modules[i], Label(Ids[i]), 0)

\* Not guaranteed: the information goes behind a kernel that lies over its
\* place (the comment at multiboot1.c:183): a kernel that begins before it and
\* ends behind it is not noticed.
InfoOffKernel == places.info # NONE => Targets(1) \cap Words(places.info, INFO_SIZE) = {}
=============================================================================
