-------------------------------- MODULE Elf --------------------------------
(***************************************************************************)
(* The boot loader's ELF loader, limine-8.4.0/common/lib/elf.c: the checks *)
(* on a kernel, its slide, its segments copied and relocated, the ranges   *)
(* to be mapped, and the copies made "elsewhere" for other protocols.      *)
(* Addresses count words of eight bytes and wrap at TOP; a header, a       *)
(* dynamic tag, a relocation, a symbol takes one cell of the file.         *)
(***************************************************************************)
EXTENDS Integers, Sequences, FiniteSetsExt, SequencesExt

CONSTANTS
  Files,       \* the executables: header fields, .phdrs, .cells, .sections, and the .image they stand for
  PAGE,        \* words in a page
  HIGH, TOP,   \* FIXED_HIGHER_HALF_OFFSET_64 and the end of the address space
  BITMAP,      \* words one bitmap of a RELR table stands for, 63 in the source
  PhysBases    \* where ext_mem_alloc_type_aligned may put an image

VARIABLES
  elf, kaslr,
  pc,       \* "start", "slide", "load", "done", "elsewhere", "section", "panic"
  out,      \* physical_base, virtual_base, slide, entry_point, ranges, image_size_before_bss
  seg,      \* the program header the loading loop has come to
  mem       \* the image (or the section) in memory, from its first word
vars == <<elf, kaslr, pc, out, seg, mem>>

DT_RELA == 7
Wrap(a) == a % TOP
AlignDown(a, n) == a - (a % n)
AlignUp(a, n) == AlignDown(a + n - 1, n)

-----------------------------------------------------------------------------
\* elf64_validate and elf32_validate; elf_bits tells which protocol loader applies.
Valid(e, machine) == e.magic /\ e.little /\ e.machine = machine
elf_bits(e) ==
  CASE e.magic /\ e.machine = "x86_64" -> 64 [] e.magic /\ e.machine = "x86_32" -> 32 [] OTHER -> -1

Loadable(p) == p.type = "load" /\ p.memsz # 0
Segments(e) == {i \in DOMAIN e.phdrs : Loadable(e.phdrs[i])}
Dynamic(e) == {i \in DOMAIN e.phdrs : e.phdrs[i].type = "dynamic"}
\* elf64_is_relocatable, and when it panics instead.
elf64_is_relocatable(e) == e.type = "dyn"
BadDynamic(e) == e.type = "dyn" /\ (Dynamic(e) = {} \/ e.phdrs[Min(Dynamic(e))].filesz = 0)

-----------------------------------------------------------------------------
\* The dynamic tags up to DT_NULL; a tag given twice keeps its last value.
Tags(e) ==
  LET p == e.phdrs[Min(Dynamic(e))]
      all == [k \in 1 .. p.filesz |-> e.cells[p.offset + k - 1]]
      nulls == {k \in DOMAIN all : all[k].tag = "null"}
  IN  IF Dynamic(e) = {} THEN <<>> ELSE SubSeq(all, 1, IF nulls = {} THEN Len(all) ELSE Min(nulls) - 1)
Tag(e, t) ==
  LET In(tags) == LET at == {k \in DOMAIN tags : tags[k].tag = t} IN IF at = {} THEN 0 ELSE tags[Max(at)].un
  IN  In(Tags(e))

\* A virtual address of a table as an offset into the file.
FileOffset(e, a) ==
  LET in == {i \in DOMAIN e.phdrs : e.phdrs[i].vaddr <= a /\ a < e.phdrs[i].vaddr + e.phdrs[i].filesz}
      By(p) == a - p.vaddr + p.offset
  IN  IF a = 0 \/ in = {} THEN a ELSE By(e.phdrs[Min(in)])
Table(e, from, size) ==
  LET At(start) == [k \in 1 .. size |-> e.cells[start + k - 1]] IN At(FileOffset(e, from))

\* The RELR table: an address is a relocation and moves where behind it, a
\* bitmap stands for BITMAP words from where on.
Relr(e) ==
  LET Step(acc, entry) ==
        IF entry.is = "address"
        THEN [where |-> entry.at + 1, addrs |-> Append(acc.addrs, entry.at)]
        ELSE [where |-> acc.where + BITMAP,
              addrs |-> acc.addrs \o [k \in 1 .. Cardinality(entry.bits) |-> acc.where + SetToSortSeq(entry.bits, <)[k]]]
  IN  FoldLeft(Step, [where |-> 0, addrs |-> <<>>], Table(e, Tag(e, "relr"), Tag(e, "relrsz"))).addrs
\* All relocations in the order they are applied.
Relocations(e) ==
  LET Plain(addrs) == [k \in DOMAIN addrs |-> [addr |-> addrs[k], info |-> "relr", symbol |-> 0, addend |-> 0]]
  IN  Plain(Relr(e)) \o Table(e, Tag(e, "rela"), Tag(e, "relasz")) \o Table(e, Tag(e, "jmprel"), Tag(e, "pltrelsz"))
Symbol(e, r) == e.cells[FileOffset(e, Tag(e, "symtab")) + r.symbol]

Inside(r, vaddr, size) == r.addr >= vaddr /\ vaddr + size >= r.addr + 1
NeedsSymbol(r) == r.info \in {"glob_dat", "jump_slot", "abs64"}
BadRelocation(e, r) ==
  \/ r.info \notin {"none", "relative", "relr", "glob_dat", "jump_slot", "abs64"}
  \/ NeedsSymbol(r) /\ LET Bad(s) == s.undef /\ ~s.weak IN Bad(Symbol(e, r))
Relocated(e, r, old, slide) ==
  LET To(s) == IF s.undef THEN 0 ELSE Wrap(slide + s.value + IF r.info = "abs64" THEN r.addend ELSE 0)
  IN  CASE r.info = "none" -> old
        [] r.info = "relative" -> Wrap(slide + r.addend)
        [] r.info = "relr" -> Wrap(old + slide)
        [] NeedsSymbol(r) -> To(Symbol(e, r))

\* elf64_apply_relocations on the words of memory from base on that hold vaddr, size words.
BadTables(e) ==
  \/ \E t \in Range(Tags(e)) : t.tag = "needed"
  \/ Tag(e, "relrsz") # 0 /\ Tag(e, "relrent") # 1
  \/ Tag(e, "relasz") # 0 /\ Tag(e, "relaent") < 1
  \/ Tag(e, "pltrelsz") # 0 /\ (Tag(e, "pltrel") # DT_RELA \/ Tag(e, "relaent") = 0)
PanicsIn(e, vaddr, size) ==
  BadTables(e) \/ \E r \in Range(Relocations(e)) : Inside(r, vaddr, size) /\ BadRelocation(e, r)
elf64_apply_relocations(e, memory, base, vaddr, size, slide) ==
  LET Apply(m, r) == LET at == base + (r.addr - vaddr) IN [m EXCEPT ![at] = Relocated(e, r, m[at], slide)]
  IN  FoldLeft(Apply, memory, SelectSeq(Relocations(e), LAMBDA r : Inside(r, vaddr, size)))

-----------------------------------------------------------------------------
\* elf64_load's look at the program headers.
max_align(e) == Max({0} \cup {e.phdrs[i].align : i \in Segments(e)})
min_vaddr(e) == Min({e.phdrs[i].vaddr : i \in Segments(e)})
max_vaddr(e) == Max({e.phdrs[i].vaddr + e.phdrs[i].memsz : i \in Segments(e)})
Lower(e, i) == e.phdrs[i].vaddr < HIGH
lower_to_higher(e) == \E i \in Segments(e) : Lower(e, i)
Within(a, b, lo, hi) == (lo <= a /\ a < hi) \/ (lo < b /\ b <= hi)
Overlap(p, q) == Within(q.vaddr, q.vaddr + q.memsz, p.vaddr, p.vaddr + p.memsz)
SharePage(p, q) ==
  Within(AlignDown(p.vaddr, PAGE), AlignUp(p.vaddr + p.memsz, PAGE), AlignDown(q.vaddr, PAGE), AlignUp(q.vaddr + q.memsz, PAGE))
BadLayout(e) ==
  \/ \E i \in Segments(e) : Lower(e, i) /\ (~elf64_is_relocatable(e) \/ \E k \in Segments(e) : k > i /\ ~Lower(e, k))
  \/ \E i, k \in Segments(e) :
       /\ i # k
       /\ \/ Overlap(e.phdrs[i], e.phdrs[k])
          \/ SharePage(e.phdrs[i], e.phdrs[k]) /\ e.phdrs[i].flags # e.phdrs[k].flags
Refused(e) ==
  ~Valid(e, "x86_64") \/ e.type \notin {"exec", "dyn"} \/ e.short_phdrs \/ BadDynamic(e) \/ max_align(e) = 0 \/ BadLayout(e)
image_size(e) == max_vaddr(e) - min_vaddr(e)

Init ==
  /\ elf \in Files /\ kaslr \in BOOLEAN /\ pc = "start" /\ seg = 1 /\ mem = <<>>
  /\ out = [physical_base |-> 0, virtual_base |-> 0, slide |-> 0, entry_point |-> 0, ranges |-> <<>>, before_bss |-> 0]

Panic == pc' = "panic" /\ UNCHANGED <<elf, kaslr, out, seg, mem>>

\* elf64_load up to the allocation of the image, which is zeroed.
elf64_load ==
  /\ pc = "start" /\ elf_bits(elf) = 64
  /\ IF Refused(elf) THEN Panic
     ELSE /\ pc' = "slide"
          /\ \E b \in {p \in PhysBases : p % max_align(elf) = 0} :
               out' = [out EXCEPT !.physical_base = b, !.virtual_base = min_vaddr(elf),
                                  !.slide = IF lower_to_higher(elf) THEN HIGH - min_vaddr(elf) ELSE 0]
          /\ mem' = [a \in 0 .. image_size(elf) - 1 |-> 0]
          /\ UNCHANGED <<elf, kaslr, seg>>

\* again: a random slide below twice the window, until the image ends inside it;
\* after too many tries the loader gives up.
Aslr(e) == {AlignDown(r, max_align(e)) + IF lower_to_higher(e) THEN HIGH - min_vaddr(e) ELSE 0 : r \in 0 .. 2 * (TOP - HIGH) - 1}
\* Mutant: the end of the image is not looked at.
TooHigh_Never(e, slide) == FALSE
TooHigh(e, slide) == Wrap(min_vaddr(e) + slide + image_size(e)) < HIGH
PickSlide ==
  /\ pc = "slide"
  /\ pc' = "load"
  /\ IF elf64_is_relocatable(elf) /\ kaslr
     THEN \E s \in Aslr(elf) : ~TooHigh(elf, s) /\ out' = [out EXCEPT !.slide = s]
     ELSE UNCHANGED out
  /\ UNCHANGED <<elf, kaslr, seg, mem>>
GiveUp == pc = "slide" /\ elf64_is_relocatable(elf) /\ kaslr /\ (\E s \in Aslr(elf) : TooHigh(elf, s)) /\ Panic

\* One turn of the loading loop: copy, then relocate.
Copied(memory, to, from, n) == [a \in DOMAIN memory |-> IF to <= a /\ a < to + n THEN elf.cells[from + a - to] ELSE memory[a]]
LoadSegment ==
  /\ pc = "load" /\ seg <= Len(elf.phdrs)
  /\ LET p == elf.phdrs[seg]
         at == p.vaddr - out.virtual_base
     IN  IF ~Loadable(p) THEN seg' = seg + 1 /\ UNCHANGED <<elf, kaslr, pc, out, mem>>
         ELSE IF p.filesz > p.memsz \/ PanicsIn(elf, p.vaddr, p.memsz) THEN Panic
         ELSE /\ mem' = elf64_apply_relocations(elf, Copied(mem, at, p.offset, p.filesz), at, p.vaddr, p.memsz, out.slide)
              /\ out' = [out EXCEPT !.before_bss = image_size(elf) - (p.memsz - p.filesz)]
              /\ seg' = seg + 1
              /\ UNCHANGED <<elf, kaslr, pc>>

\* elf64_get_ranges: one per segment, stretched to its alignment.
Range1(p, slide) ==
  LET load == Wrap(p.vaddr + slide)
      base == AlignDown(load, p.align)
  IN  [base |-> base, length |-> AlignUp(load + p.memsz - base, p.align), permissions |-> p.flags]
elf64_get_ranges(e, slide) ==
  LET loaded == SelectSeq(e.phdrs, LAMBDA p : Loadable(p) /\ (p.vaddr >= HIGH \/ elf64_is_relocatable(e)))
  IN  [k \in DOMAIN loaded |-> Range1(loaded[k], slide)]
Loaded ==
  /\ pc = "load" /\ seg > Len(elf.phdrs)
  /\ pc' = "done"
  /\ out' = [out EXCEPT !.virtual_base = Wrap(@ + out.slide), !.entry_point = Wrap(elf.entry + out.slide),
                        !.ranges = elf64_get_ranges(elf, out.slide)]
  /\ UNCHANGED <<elf, kaslr, seg, mem>>

\* elf64_load_section: the first section of that name, copied and relocated;
\* "no" when there is none, "panic" when a relocation cannot be made.
elf64_load_section(e, name, slide) ==
  LET named == {i \in DOMAIN e.sections : e.sections[i].name = name}
      Copy(s) == [k \in 0 .. s.size - 1 |-> e.cells[s.offset + k]]
      Load(s) == IF PanicsIn(e, s.addr, s.size) THEN [is |-> "panic"]
                 ELSE [is |-> "section", words |-> elf64_apply_relocations(e, Copy(s), 0, s.addr, s.size, slide)]
  IN  IF named = {} THEN [is |-> "no"] ELSE Load(e.sections[Min(named)])

-----------------------------------------------------------------------------
\* elf32_load_elsewhere and elf64_load_elsewhere: no relocation, no slide; the
\* image goes to its physical addresses and the entry point with its segment.
min_paddr(e) == Min({e.phdrs[i].paddr : i \in Segments(e)})
max_paddr(e) == Max({e.phdrs[i].paddr + e.phdrs[i].memsz : i \in Segments(e)})
ElsewhereWord(e, a) ==
  LET covering == {i \in Segments(e) : e.phdrs[i].paddr <= a /\ a < e.phdrs[i].paddr + e.phdrs[i].filesz}
      p == e.phdrs[Max(covering)]
  IN  IF covering = {} THEN 0 ELSE e.cells[p.offset + (a - p.paddr)]
\* Mutant: the entry point stays a virtual address.
EntryAt_Virtual(e) == e.entry
EntryAt(e) ==
  LET holding == {i \in Segments(e) : e.phdrs[i].vaddr <= e.entry /\ e.entry < e.phdrs[i].vaddr + e.phdrs[i].memsz}
      p == e.phdrs[Min(holding)]
  IN  IF holding = {} THEN e.entry ELSE e.entry - p.vaddr + p.paddr
load_elsewhere ==
  /\ pc = "start" /\ elf_bits(elf) # -1
  /\ IF ~Valid(elf, elf.machine) \/ elf.type \notin {"exec", "dyn"} \/ elf.short_phdrs
        \/ \E i \in Segments(elf) : elf.phdrs[i].filesz > elf.phdrs[i].memsz
     THEN Panic
     ELSE /\ Segments(elf) # {}
          /\ pc' = "elsewhere"
          /\ mem' = [k \in 0 .. max_paddr(elf) - min_paddr(elf) - 1 |-> ElsewhereWord(elf, min_paddr(elf) + k)]
          /\ out' = [out EXCEPT !.physical_base = min_paddr(elf), !.entry_point = EntryAt(elf)]
          /\ UNCHANGED <<elf, kaslr, seg>>

Next == elf64_load \/ PickSlide \/ GiveUp \/ LoadSegment \/ Loaded \/ load_elsewhere
Spec == Init /\ [][Next]_vars

-----------------------------------------------------------------------------
TypeOK ==
  /\ elf \in Files /\ kaslr \in BOOLEAN
  /\ pc \in {"start", "slide", "load", "done", "elsewhere", "panic"}
  /\ out.slide \in 0 .. 2 * TOP /\ seg \in 1 .. Len(elf.phdrs) + 1

\* What the executable says should be at a word of its image: a plain value, or
\* one that moves with the slide.
Wanted(a, slide) ==
  IF a \in DOMAIN elf.image THEN IF elf.image[a].moves THEN Wrap(elf.image[a].value + slide) ELSE elf.image[a].value ELSE 0
Addresses(p) == p.vaddr .. p.vaddr + p.memsz - 1

\* A loaded kernel is the image its file describes: every word of every segment
\* has its value, relocated once and only once, whichever of the three tables
\* names it and wherever the slide went; all of it lies in the window above
\* HIGH, the words from the file come before the reported beginning of the bss,
\* and the entry point moved with its segment (elf64_load).
ImageExact ==
  /\ pc = "done" =>
       /\ \A i \in Segments(elf) : \A a \in Addresses(elf.phdrs[i]) : mem[a - min_vaddr(elf)] = Wanted(a, out.slide)
       /\ HIGH <= out.virtual_base /\ out.virtual_base + image_size(elf) <= TOP
       /\ out.entry_point = Wrap(elf.entry + out.slide)
       /\ \A i \in Segments(elf) : elf.phdrs[i].filesz > 0 =>
            elf.phdrs[i].vaddr + elf.phdrs[i].filesz - min_vaddr(elf) <= out.before_bss
  /\ pc = "elsewhere" =>
       \A i \in Segments(elf) :
         LET p == elf.phdrs[i]
         IN  /\ \A k \in 0 .. p.memsz - 1 : mem[p.paddr + k - out.physical_base] = IF k < p.filesz THEN elf.cells[p.offset + k] ELSE 0
             /\ elf.entry \in Addresses(p) => out.entry_point = p.paddr + (elf.entry - p.vaddr)
=============================================================================
