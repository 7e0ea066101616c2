-------------------------------- MODULE Vmm --------------------------------
(***************************************************************************)
(* The boot loader's page tables, limine-8.4.0/common/mm/vmm.c on x86: a   *)
(* tree of tables whose entries are empty, a page of the level's size, or  *)
(* a table.  Addresses count pages of 4 KiB.                               *)
(***************************************************************************)
EXTENDS Integers, Sequences

CONSTANTS
  RADIX,        \* entries of a table, 512 in the source
  LEVELS,       \* 4, or 5 with five-level paging
  Calls,        \* what may be asked of map_pages: .virt, .phys, .flags, .count
  MaxCalls      \* bound: calls of map_pages

VARIABLES
  top_level,    \* the tree
  gib,          \* is_1gib_page_supported
  pat,          \* pat_supported
  asked         \* the calls made, in order
vars == <<top_level, gib, pat, asked>>

-----------------------------------------------------------------------------
Empty == [is |-> "empty"]
New == [k \in 0 .. RADIX - 1 |-> Empty]
TableOf(t) == [is |-> "table", sub |-> t]
PageOf(phys, flags) == [is |-> "page", phys |-> phys, flags |-> flags]

\* page_sizes[level], and the entry of a table at that level that an address uses.
RECURSIVE page_size(_)
page_size(level) == IF level = 0 THEN 1 ELSE RADIX * page_size(level - 1)
Index(virt, level) == (virt \div page_size(level)) % RADIX

\* get_next_level: the table an entry names, made if there is none.  A large
\* page is split into pages of the size now wanted, with its own flags; one
\* with the framebuffer flag is not: bit 12 reads as part of its address, and
\* the code panics.
\* map_page: down to the level of the page, and the entry written there.
\* Mutant: the flags of the page that is split are those of the new one.
KeptFlags_New(old, new) == new
KeptFlags(old, new) == old
RECURSIVE map_page(_, _, _, _, _, _), Recreate(_, _, _, _, _, _, _)
Recreate(t, level, virt, phys, flags, size, n) ==
  IF n = 0 THEN t
  ELSE Recreate(map_page(t, level, virt, phys, flags, size), level, virt + page_size(size), phys + page_size(size), flags, size, n - 1)
map_page(t, level, virt, phys, flags, size) ==
  LET i == Index(virt, level)
      old == page_size(level)
      next == CASE t[i].is = "table" -> t[i].sub
                [] t[i].is = "empty" -> New
                [] t[i].is = "page" ->
                     Recreate(New, level - 1, virt - (virt % old), t[i].phys, KeptFlags(t[i].flags, flags), size, old \div page_size(size))
  IN  IF level = size THEN [t EXCEPT ![i] = PageOf(phys, flags)]
      ELSE IF t[i].is = "panic" \/ (t[i].is = "page" /\ "fb" \in t[i].flags) THEN [t EXCEPT ![i] = [is |-> "panic"]]
      ELSE [t EXCEPT ![i] = TableOf(map_page(next, level - 1, virt, phys, flags, size))]

\* The largest size the loop of map_pages takes at a place; 2 without pages of
\* that size in the CPU is made of pages of size 1.
\* Mutant: the physical address need not be aligned.
Fits_Virtual(virt, phys, left, size) == virt % page_size(size) = 0 /\ left >= page_size(size)
Fits(virt, phys, left, size) == phys % page_size(size) = 0 /\ virt % page_size(size) = 0 /\ left >= page_size(size)
SizeFor(virt, phys, left) ==
  IF Fits(virt, phys, left, 2) THEN 2 ELSE IF Fits(virt, phys, left, 1) THEN 1 ELSE 0
RECURSIVE map_pages(_, _, _, _, _, _)
map_pages(t, virt, phys, flags, count, big) ==
  LET size == SizeFor(virt, phys, count)
      n == page_size(size)
      done == IF size = 2 /\ ~big THEN Recreate(t, LEVELS - 1, virt, phys, flags, 1, RADIX)
              ELSE map_page(t, LEVELS - 1, virt, phys, flags, size)
  IN  IF count = 0 THEN t ELSE map_pages(done, virt + n, phys + n, flags, count - n, big)

\* What the CPU finds for a page: nothing, or a page and its flags; the low bits
\* of a large page's address do not count.
RECURSIVE Walk(_, _, _)
Walk(t, level, virt) ==
  LET e == t[Index(virt, level)]
  IN  CASE e.is = "empty" -> [is |-> "fault"]
        [] e.is = "panic" -> e
        [] e.is = "table" -> Walk(e.sub, level - 1, virt)
        [] e.is = "page" -> [is |-> "page", phys |-> e.phys - (e.phys % page_size(level)) + (virt % page_size(level)), flags |-> e.flags]
Translate(t, virt) == Walk(t, LEVELS - 1, virt)
Panicked(t) == \E virt \in 0 .. page_size(LEVELS) - 1 : Translate(t, virt).is = "panic"

-----------------------------------------------------------------------------
Init == top_level = New /\ gib \in BOOLEAN /\ pat \in BOOLEAN /\ asked = <<>>
Allowed(flags) == IF pat THEN flags ELSE flags \ {"fb"}
MapPages ==
  /\ Len(asked) < MaxCalls /\ ~Panicked(top_level)
  /\ \E c \in Calls :
       /\ top_level' = map_pages(top_level, c.virt, c.phys, Allowed(c.flags), c.count, gib)
       /\ asked' = Append(asked, c)
  /\ UNCHANGED <<gib, pat>>
Next == MapPages
Spec == Init /\ [][Next]_vars

-----------------------------------------------------------------------------
Covers(c, virt) == c.virt <= virt /\ virt < c.virt + c.count
LastCall(virt) == CHOOSE k \in DOMAIN asked : Covers(asked[k], virt) /\ \A j \in DOMAIN asked : Covers(asked[j], virt) => j <= k

\* Every page is where the last call that covered it put it, with that call's
\* flags, and a page no call covered faults: large pages chosen, made of smaller
\* ones or split later never disturb their neighbours, and the loader panics only
\* over a framebuffer page that is mapped again in part (map_pages, map_page,
\* get_next_level).
MappingExact ==
  IF Panicked(top_level)
  THEN \E k, j \in DOMAIN asked : k < j /\ "fb" \in asked[k].flags 
         /\ \E virt \in 0 .. page_size(LEVELS) - 1 : Covers(asked[k], virt) /\ Covers(asked[j], virt)
  ELSE \A virt \in 0 .. page_size(LEVELS) - 1 :
    LET found == Translate(top_level, virt)
        c == asked[LastCall(virt)]
    IN  IF \E k \in DOMAIN asked : Covers(asked[k], virt)
        THEN found = [is |-> "page", phys |-> c.phys + (virt - c.virt), flags |-> Allowed(c.flags)]
        ELSE found.is = "fault"
=============================================================================
