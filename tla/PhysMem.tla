------------------------------ MODULE PhysMem ------------------------------
(***************************************************************************)
(* Physical memory for drivers, src/kernel/memory.c: memory_set_memmap     *)
(* keeps the longest usable piece of the boot loader's map that is off the *)
(* kernel, phys_alloc hands it out from the bottom up and never takes it   *)
(* back.  Sums of addresses and sizes stay below 2^64.                     *)
(***************************************************************************)
EXTENDS Integers, Sequences, TLAPS

CONSTANTS
  PAGE_SIZE,
  Maps,            \* memory maps the boot loader may pass: sequences of entries
  KernelRanges,    \* where the kernel may lie: records with base and end
  Sizes, Aligns    \* what the callers ask for

ASSUME PhysAssumption ==
  /\ PAGE_SIZE \in Nat \ {0}
  /\ Maps \subseteq Seq([base : Nat, length : Nat, usable : BOOLEAN])
  /\ KernelRanges \subseteq [base : Nat, end : Nat]
  /\ Sizes \subseteq Nat /\ Aligns \subseteq Nat

VARIABLES
  memmap, kernel,   \* what the boot loader passed
  base, end, next,  \* phys_alloc_base, phys_alloc_end, phys_alloc_next
  grants            \* every block handed out

vars == <<memmap, kernel, base, end, next, grants>>

align_up(v, a) == IF a = 0 THEN v ELSE ((v + a - 1) \div a) * a
align_down(v, a) == IF a = 0 THEN v ELSE (v \div a) * a
ranges_overlap(a0, a1, b0, b1) == a0 < b1 /\ b0 < a1

\* Mutant: only the part in front of the kernel is looked at.
Clear_Front(b, e, k) == [base |-> b, end |-> e]

\* What is left of b .. e beside the kernel: the part behind it if there is one, else the
\* part in front of it, else nothing.
Clear(b, e, k) ==
  IF ~(k.end > k.base /\ ranges_overlap(b, e, k.base, k.end)) THEN [base |-> b, end |-> e]
  ELSE IF k.end < e THEN [base |-> k.end, end |-> e]
  ELSE IF k.base > b THEN [base |-> b, end |-> k.base]
  ELSE [base |-> 0, end |-> 0]

\* The whole pages of entry i that may be handed out.
Piece(m, k, i) ==
  LET c == Clear(m[i].base, m[i].base + m[i].length, k)
  IN  [base |-> align_up(c.base, PAGE_SIZE), end |-> align_down(c.end, PAGE_SIZE)]

Candidates(m, k) == {i \in DOMAIN m : m[i].usable /\ Piece(m, k, i).end > Piece(m, k, i).base}
Length(p) == p.end - p.base

\* Entry i is the first of the longest.
Longest(m, k, i) ==
  /\ i \in Candidates(m, k)
  /\ \A j \in Candidates(m, k) : /\ Length(Piece(m, k, j)) <= Length(Piece(m, k, i))
                                 /\ j < i => Length(Piece(m, k, j)) < Length(Piece(m, k, i))

\* memory_set_memmap
Init ==
  /\ memmap \in Maps /\ kernel \in KernelRanges
  /\ \/ \E i \in DOMAIN memmap : /\ Longest(memmap, kernel, i)
                                 /\ base = Piece(memmap, kernel, i).base
                                 /\ end = Piece(memmap, kernel, i).end
     \/ Candidates(memmap, kernel) = {} /\ base = 0 /\ end = 0
  /\ next = base /\ grants = {}

\* Mutant: the space is tested from where the last block ends.
Start_Unaligned(align) == next

Start(align) == align_up(next, IF align = 0 THEN 8 ELSE align)

phys_alloc(size, align) ==
  /\ size # 0 /\ end > base
  /\ Start(align) + size <= end
  /\ next' = Start(align) + size
  /\ grants' = grants \cup {[base |-> Start(align), end |-> next', align |-> align]}
  /\ UNCHANGED <<memmap, kernel, base, end>>

Next == \E size \in Sizes, align \in Aligns : phys_alloc(size, align)

Spec == Init /\ [][Next]_vars

-----------------------------------------------------------------------------
TypeOK ==
  /\ memmap \in Maps /\ kernel \in KernelRanges
  /\ base \in Nat /\ end \in Nat /\ next \in Nat
  /\ grants \subseteq [base : Nat, end : Nat, align : Aligns]

\* Blocks of physical memory given to drivers do not overlap, are aligned as asked for,
\* and lie in memory the boot loader calls usable and off the kernel, whatever the map,
\* the kernel's place and the sizes and alignments asked for.
GrantsSafe ==
  /\ \A g, h \in grants : g # h => ~ranges_overlap(g.base, g.end, h.base, h.end)
  /\ \A g \in grants :
       /\ g.base < g.end
       /\ g.align # 0 => g.base % g.align = 0
       /\ kernel.end > kernel.base => ~ranges_overlap(g.base, g.end, kernel.base, kernel.end)
       /\ \E i \in DOMAIN memmap : /\ memmap[i].usable
                                   /\ memmap[i].base <= g.base
                                   /\ g.end <= memmap[i].base + memmap[i].length

-----------------------------------------------------------------------------
(* GrantsSafe, proved for every memory map, kernel range, page size, size and *)
(* alignment.  The invariant that carries the induction says where the region *)
(* lies and that the blocks handed out are all below `next`.                  *)

InRegion(i) ==
  /\ memmap[i].usable /\ memmap[i].base <= base /\ end <= memmap[i].base + memmap[i].length

RegionSafe ==
  end > base =>
    /\ \E i \in DOMAIN memmap : InRegion(i)
    /\ kernel.end > kernel.base => ~ranges_overlap(base, end, kernel.base, kernel.end)

GrantsBelow ==
  /\ base <= next
  /\ grants # {} => end > base
  /\ \A g \in grants : /\ base <= g.base /\ g.base < g.end /\ g.end <= next /\ g.end <= end
                       /\ g.align # 0 => g.base % g.align = 0
  /\ \A g, h \in grants : g # h => ~ranges_overlap(g.base, g.end, h.base, h.end)

PhysInv == TypeOK /\ RegionSafe /\ GrantsBelow

-----------------------------------------------------------------------------
\* align_up does not go below its argument and returns a multiple of the alignment.
LEMMA AlignUp ==
  ASSUME NEW v \in Nat, NEW a \in Nat
  PROVE  /\ align_up(v, a) \in Nat /\ align_up(v, a) >= v
         /\ a # 0 => align_up(v, a) % a = 0
<1>1. CASE a = 0
  BY <1>1 DEF align_up
<1>2. CASE a # 0
  <2> DEFINE q == (v + a - 1) \div a
  <2>1. q \in Nat /\ q * a <= v + a - 1 /\ v + a - 1 < q * a + a
    BY <1>2
  <2>2. q * a \in Nat /\ q * a >= v
    BY <2>1
  <2>3. (q * a) % a = 0
    BY <1>2, <2>1
  <2> QED
    BY <1>2, <2>2, <2>3 DEF align_up
<1> QED
  BY <1>1, <1>2

\* align_down does not go above its argument.
LEMMA AlignDown ==
  ASSUME NEW v \in Nat, NEW a \in Nat
  PROVE  align_down(v, a) \in Nat /\ align_down(v, a) <= v
<1>1. CASE a = 0
  BY <1>1 DEF align_down
<1>2. CASE a # 0
  <2>1. (v \div a) \in Nat /\ (v \div a) * a <= v
    BY <1>2
  <2>2. (v \div a) * a \in Nat
    BY <2>1
  <2> QED
    BY <1>2, <2>1, <2>2 DEF align_down
<1> QED
  BY <1>1, <1>2

\* What memory_set_memmap leaves of a range is inside it and off the kernel.
LEMMA ClearSafe ==
  ASSUME NEW b \in Nat, NEW e \in Nat, NEW k \in [base : Nat, end : Nat]
  PROVE  LET c == Clear(b, e, k)
         IN  /\ c \in [base : Nat, end : Nat]
             /\ c.end > c.base => /\ b <= c.base /\ c.end <= e
                                  /\ k.end > k.base => ~ranges_overlap(c.base, c.end, k.base, k.end)
BY DEF Clear, ranges_overlap

\* Entries of a memory map have the fields the code reads.
LEMMA EntryType ==
  ASSUME NEW m \in Maps, NEW i \in DOMAIN m
  PROVE  m[i] \in [base : Nat, length : Nat, usable : BOOLEAN]
<1> DEFINE E == [base : Nat, length : Nat, usable : BOOLEAN]
<1>1. m \in Seq(E)
  BY PhysAssumption
<1> HIDE DEF E
<1>2. DOMAIN m = 1 .. Len(m) /\ m \in [1 .. Len(m) -> E]
  BY <1>1
<1>3. m[i] \in E
  BY <1>2
<1> QED
  BY <1>3 DEF E

\* The same of the whole pages in it.
LEMMA PieceSafe ==
  ASSUME NEW m \in Maps, NEW k \in KernelRanges, NEW i \in DOMAIN m
  PROVE  LET p == Piece(m, k, i)
         IN  /\ p.base \in Nat /\ p.end \in Nat
             /\ p.end > p.base =>
                  /\ m[i].base <= p.base /\ p.end <= m[i].base + m[i].length
                  /\ k.end > k.base => ~ranges_overlap(p.base, p.end, k.base, k.end)
<1> DEFINE b == m[i].base
           e == m[i].base + m[i].length
           c == Clear(b, e, k)
           p == Piece(m, k, i)
<1>1. m[i] \in [base : Nat, length : Nat, usable : BOOLEAN] /\ k \in [base : Nat, end : Nat]
  BY EntryType, PhysAssumption
<1>2. b \in Nat /\ e \in Nat
  BY <1>1
<1>3. /\ c \in [base : Nat, end : Nat]
      /\ c.end > c.base => /\ b <= c.base /\ c.end <= e
                           /\ k.end > k.base => ~ranges_overlap(c.base, c.end, k.base, k.end)
  BY <1>1, <1>2, ClearSafe
<1>4. /\ p.base \in Nat /\ p.base >= c.base
      /\ p.end \in Nat /\ p.end <= c.end
  <2>1. c.base \in Nat /\ c.end \in Nat /\ PAGE_SIZE \in Nat
    BY <1>3, PhysAssumption
  <2>2. align_up(c.base, PAGE_SIZE) \in Nat /\ align_up(c.base, PAGE_SIZE) >= c.base
    BY <2>1, AlignUp
  <2>3. align_down(c.end, PAGE_SIZE) \in Nat /\ align_down(c.end, PAGE_SIZE) <= c.end
    BY <2>1, AlignDown
  <2> HIDE DEF c
  <2>4. p = [base |-> align_up(c.base, PAGE_SIZE), end |-> align_down(c.end, PAGE_SIZE)]
    BY DEF Piece, c
  <2> QED
    BY <2>2, <2>3, <2>4
<1> HIDE DEF b, e, c, p
<1>5. k.base \in Nat /\ k.end \in Nat /\ c.base \in Nat /\ c.end \in Nat
  BY <1>1, <1>3
<1>6. p.end > p.base => /\ b <= p.base /\ p.end <= e
                        /\ k.end > k.base => ~ranges_overlap(p.base, p.end, k.base, k.end)
  BY <1>2, <1>3, <1>4, <1>5 DEF ranges_overlap
<1> QED
  BY <1>4, <1>6 DEF b, e, p

-----------------------------------------------------------------------------
\* The region memory_set_memmap chooses satisfies the invariant.
LEMMA PhysInit == Init => PhysInv
<1> SUFFICES ASSUME Init PROVE PhysInv
  OBVIOUS
<1>1. CASE Candidates(memmap, kernel) = {} /\ base = 0 /\ end = 0
  BY <1>1 DEF Init, PhysInv, TypeOK, RegionSafe, GrantsBelow
<1>2. ASSUME NEW i \in DOMAIN memmap, Longest(memmap, kernel, i),
             base = Piece(memmap, kernel, i).base, end = Piece(memmap, kernel, i).end
      PROVE  PhysInv
  <2>1. memmap \in Maps /\ kernel \in KernelRanges /\ next = base /\ grants = {}
    BY DEF Init
  <2>2. memmap[i].usable /\ end > base
    BY <1>2 DEF Longest, Candidates
  <2>3. /\ base \in Nat /\ end \in Nat
        /\ memmap[i].base <= base /\ end <= memmap[i].base + memmap[i].length
        /\ kernel.end > kernel.base => ~ranges_overlap(base, end, kernel.base, kernel.end)
    BY <1>2, <2>1, <2>2, PieceSafe
  <2>4. RegionSafe
    BY <2>2, <2>3 DEF RegionSafe, InRegion
  <2>5. TypeOK /\ GrantsBelow
    BY <2>1, <2>3 DEF TypeOK, GrantsBelow
  <2> QED
    BY <2>4, <2>5 DEF PhysInv
<1> QED
  BY <1>1, <1>2 DEF Init

\* phys_alloc keeps it: a new block starts at or above `next`.
LEMMA PhysStep == PhysInv /\ [Next]_vars => PhysInv'
<1> SUFFICES ASSUME PhysInv, [Next]_vars PROVE PhysInv'
  OBVIOUS
<1>1. CASE UNCHANGED vars
  BY <1>1 DEF PhysInv, TypeOK, RegionSafe, InRegion, GrantsBelow, vars
<1>2. ASSUME NEW size \in Sizes, NEW align \in Aligns, phys_alloc(size, align)
      PROVE  PhysInv'
  <2> DEFINE s == Start(align)
             g == [base |-> s, end |-> next', align |-> align]
  <2>1. size \in Nat /\ size # 0 /\ align \in Nat
    BY <1>2, PhysAssumption DEF phys_alloc
  <2>2. base \in Nat /\ end \in Nat /\ next \in Nat /\ base <= next
    BY DEF PhysInv, TypeOK, GrantsBelow
  <2>3. s \in Nat /\ s >= next /\ (align # 0 => s % align = 0)
    BY <2>1, <2>2, AlignUp DEF Start
  <2>4. /\ end > base /\ next' = s + size /\ next' <= end /\ grants' = grants \cup {g}
        /\ UNCHANGED <<memmap, kernel, base, end>>
    BY <1>2 DEF phys_alloc
  <2> HIDE DEF s
  <2>5. next' \in Nat /\ next <= next' /\ s < next'
    BY <2>1, <2>2, <2>3, <2>4
  <2>6. TypeOK'
    <3>1. g \in [base : Nat, end : Nat, align : Aligns]
      BY <2>3, <2>5
    <3> QED
      BY <2>4, <2>5, <3>1 DEF PhysInv, TypeOK
  <2>7. RegionSafe'
    BY <2>4 DEF PhysInv, RegionSafe, InRegion
  <2>8. GrantsBelow'
    <3>1. \A h \in grants : /\ base <= h.base /\ h.base < h.end /\ h.end <= next /\ h.end <= end
                            /\ h.align # 0 => h.base % h.align = 0
                            /\ h.base \in Nat /\ h.end \in Nat
      BY DEF PhysInv, GrantsBelow, TypeOK
    <3>2. \A h \in grants' : /\ base <= h.base /\ h.base < h.end /\ h.end <= next' /\ h.end <= end
                             /\ h.align # 0 => h.base % h.align = 0
      <4>1. g.base = s /\ g.end = next' /\ g.align = align
        OBVIOUS
      <4> HIDE DEF g
      <4>2. /\ base <= g.base /\ g.base < g.end /\ g.end <= next' /\ g.end <= end
            /\ g.align # 0 => g.base % g.align = 0
        BY <2>2, <2>3, <2>4, <2>5, <4>1
      <4>3. \A h \in grants : h.end <= next'
        BY <2>2, <2>5, <3>1
      <4> QED
        BY <2>4, <3>1, <4>2, <4>3
    <3>3. \A h \in grants : /\ ~ranges_overlap(g.base, g.end, h.base, h.end)
                            /\ ~ranges_overlap(h.base, h.end, g.base, g.end)
      BY <2>2, <2>3, <2>5, <3>1 DEF ranges_overlap
    <3>4. \A h, f \in grants' : h # f => ~ranges_overlap(h.base, h.end, f.base, f.end)
      <4> HIDE DEF g
      <4>1. \A h, f \in grants : h # f => ~ranges_overlap(h.base, h.end, f.base, f.end)
        BY DEF PhysInv, GrantsBelow
      <4> QED
        BY <2>4, <3>3, <4>1
    <3>5. base <= next' /\ end > base
      BY <2>2, <2>4, <2>5
    <3> QED
      BY <2>4, <3>2, <3>4, <3>5 DEF GrantsBelow
  <2> QED
    BY <2>6, <2>7, <2>8 DEF PhysInv
<1> QED
  BY <1>1, <1>2 DEF Next

\* The invariant gives what drivers rely on.
LEMMA PhysInvSafe == PhysInv => GrantsSafe
<1> SUFFICES ASSUME PhysInv PROVE GrantsSafe
  OBVIOUS
<1>1. ASSUME NEW g \in grants
      PROVE  /\ g.base < g.end
             /\ g.align # 0 => g.base % g.align = 0
             /\ kernel.end > kernel.base => ~ranges_overlap(g.base, g.end, kernel.base, kernel.end)
             /\ \E i \in DOMAIN memmap : /\ memmap[i].usable
                                         /\ memmap[i].base <= g.base
                                         /\ g.end <= memmap[i].base + memmap[i].length
  <2>1. /\ base \in Nat /\ end \in Nat /\ g.base \in Nat /\ g.end \in Nat
        /\ kernel.base \in Nat /\ kernel.end \in Nat
    BY PhysAssumption DEF PhysInv, TypeOK
  <2>2. /\ end > base /\ base <= g.base /\ g.base < g.end /\ g.end <= end
        /\ g.align # 0 => g.base % g.align = 0
    BY DEF PhysInv, GrantsBelow
  <2>3. kernel.end > kernel.base => ~ranges_overlap(g.base, g.end, kernel.base, kernel.end)
    BY <2>1, <2>2 DEF PhysInv, RegionSafe, ranges_overlap
  <2>4. PICK i \in DOMAIN memmap : InRegion(i)
    BY <2>2 DEF PhysInv, RegionSafe
  <2>5. memmap[i].base \in Nat /\ memmap[i].length \in Nat
    BY EntryType DEF PhysInv, TypeOK
  <2>6. memmap[i].usable /\ memmap[i].base <= g.base /\ g.end <= memmap[i].base + memmap[i].length
    BY <2>1, <2>2, <2>4, <2>5 DEF InRegion
  <2> QED
    BY <2>2, <2>3, <2>6
<1>2. \A g, h \in grants : g # h => ~ranges_overlap(g.base, g.end, h.base, h.end)
  BY DEF PhysInv, GrantsBelow
<1> QED
  BY <1>1, <1>2 DEF GrantsSafe

\* phys_alloc's blocks are disjoint, aligned, usable and off the kernel, whatever the
\* memory map and the requests.
THEOREM PhysicalGrantsSafe == Spec => []GrantsSafe
<1>1. Init => PhysInv
  BY PhysInit
<1>2. PhysInv /\ [Next]_vars => PhysInv'
  BY PhysStep
<1>3. PhysInv => GrantsSafe
  BY PhysInvSafe
<1> QED
  BY <1>1, <1>2, <1>3, PTL DEF Spec
=============================================================================
