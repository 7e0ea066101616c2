----------------------------- MODULE HeapProofs -----------------------------
(***************************************************************************)
(* Proofs about Heap.tla, for every arena size, word size and set of       *)
(* requested sizes: lemmas about the block list, the inductive invariant   *)
(* and what follows from it, and that the heap implements Allocator.       *)
(***************************************************************************)
EXTENDS Heap, FiniteSetTheorems, WellFoundedInduction, TLAPS

-----------------------------------------------------------------------------
(* The block list: what heap_coalesce, splitting, joining and the changes of a flag do to *)
(* a well-formed list.                                                                    *)

(* Extremal elements. *)

\* A nonempty set of naturals has a least element.
LEMMA LeastExists ==
  ASSUME NEW S \in SUBSET Nat, S # {}
  PROVE  \E x \in S : \A y \in S : x <= y
<1> DEFINE R == {ss \in Nat \X Nat : ss[1] < ss[2]}
<1>1. OpToRel(<, Nat) = R
  BY Zenon DEF OpToRel
<1>2. IsWellFoundedOn(R, Nat)
  BY <1>1, NatLessThanWellFounded, Zenon
<1>3. \E x \in S : \A y \in S : ~(<<y, x>> \in R)
  <2> HIDE DEF R
  <2> QED  BY <1>2, WFMin, Zenon
<1>4. \A x, y \in Nat : y < x => <<y, x>> \in R
  BY Zenon
<1>5. \A x, y \in S : x \in Nat /\ y \in Nat
  BY Zenon
<1> HIDE DEF R
<1>6. PICK x \in S : \A y \in S : ~(<<y, x>> \in R)
  BY <1>3, Zenon
<1>7. \A y \in S : x <= y
  <2> TAKE y \in S
  <2>1. ~(y < x)
    BY <1>4, <1>5, <1>6, Zenon
  <2>2. x \in Nat /\ y \in Nat
    BY <1>5, Zenon
  <2> QED
    BY <2>1, <2>2
<1> QED
  BY <1>7, Zenon

\* A nonempty set of naturals below a bound has a greatest element.
LEMMA GreatestExists ==
  ASSUME NEW S \in SUBSET Nat, S # {}, NEW m \in Nat, \A x \in S : x <= m
  PROVE  \E x \in S : \A y \in S : y <= x
<1> DEFINE T == {m - x : x \in S}
<1>a. \A x \in S : x \in Nat /\ m - x \in Nat
  OBVIOUS
<1>1. T \in SUBSET Nat /\ T # {}
  <2>1. \A t \in T : t \in Nat
    BY <1>a, Zenon
  <2>2. T # {}
    BY Zenon
  <2> QED  BY <2>1, <2>2, Zenon
<1>2. PICK t \in T : \A u \in T : t <= u
  BY <1>1, LeastExists, Zenon
<1>3. PICK x \in S : t = m - x
  BY <1>2, Zenon
<1>4. \A y \in S : m - x <= m - y
  BY <1>2, <1>3, Zenon
<1> QED
  BY <1>3, <1>4

-----------------------------------------------------------------------------
(* Well-formed block lists. *)

Blocks(b) ==
  /\ \A a \in DOMAIN b : a \in Nat
  /\ \A a \in DOMAIN b : b[a] \in [size : Nat, free : BOOLEAN, next : {NULL} \cup Nat]
  /\ \A a \in DOMAIN b : BlockEnd(b, a) <= HEAP_SIZE

WellFormed(b) == Blocks(b) /\ Linked(b) /\ Reached(b) /\ Ordered(b)

\* Where a block of a well-formed list lies.
LEMMA Layout ==
  ASSUME NEW b, WellFormed(b), NEW a \in DOMAIN b
  PROVE  /\ a \in Nat /\ b[a].size \in Nat /\ b[a].free \in BOOLEAN
         /\ BlockEnd(b, a) \in Nat /\ a < BlockEnd(b, a) /\ BlockEnd(b, a) <= HEAP_SIZE
         /\ b[a].next # NULL => /\ b[a].next \in DOMAIN b /\ b[a].next \in Nat
                                /\ b[a].next = BlockEnd(b, a) /\ a < b[a].next
         /\ b[a].next = NULL => BlockEnd(b, a) = HEAP_SIZE
<1>1. /\ a \in Nat /\ b[a].size \in Nat /\ b[a].free \in BOOLEAN
      /\ BlockEnd(b, a) \in Nat /\ a < BlockEnd(b, a) /\ BlockEnd(b, a) <= HEAP_SIZE
  BY DEF WellFormed, Blocks, BlockEnd, HeaderSize
<1>2. b[a].next # NULL => /\ b[a].next \in DOMAIN b /\ b[a].next \in Nat
                          /\ b[a].next = BlockEnd(b, a) /\ a < b[a].next
  BY <1>1, Zenon DEF WellFormed, Linked, Blocks
<1>3. b[a].next = NULL => BlockEnd(b, a) = HEAP_SIZE
  BY Zenon DEF WellFormed, Linked
<1> QED
  BY <1>1, <1>2, <1>3, Zenon

\* Two blocks never have the same successor.
LEMMA OnePredecessor ==
  ASSUME NEW b, WellFormed(b), NEW p \in DOMAIN b, NEW q \in DOMAIN b,
         b[p].next = b[q].next, b[p].next # NULL
  PROVE  p = q
<1>1. BlockEnd(b, p) = BlockEnd(b, q) /\ p < BlockEnd(b, p) /\ q < BlockEnd(b, q)
      /\ p \in Nat /\ q \in Nat /\ BlockEnd(b, p) \in Nat
  BY Layout
<1>2. ~(p < q) /\ ~(q < p)
  BY <1>1 DEF WellFormed, Ordered
<1> QED
  BY <1>1, <1>2

-----------------------------------------------------------------------------
(* heap_coalesce. *)

\* The first block is never absorbed.
LEMMA FirstKept ==
  ASSUME NEW b, WellFormed(b)
  PROVE  0 \in Kept(b)
<1>1. 0 \in DOMAIN b
  BY Zenon DEF WellFormed, Reached
<1>2. \A p \in DOMAIN b : b[p].next # 0
  BY Layout DEF NULL
<1> QED
  BY <1>1, <1>2, Zenon DEF Kept, Absorbed

\* RunNext is the least kept block behind a, when there is one.
LEMMA RunNextLeast ==
  ASSUME NEW b, WellFormed(b), NEW a \in Nat,
         NEW c \in Kept(b), c > a
  PROVE  /\ RunNext(b, a) \in Kept(b) /\ RunNext(b, a) \in Nat /\ RunNext(b, a) > a
         /\ RunNext(b, a) # NULL
         /\ \A d \in Kept(b) : d > a => RunNext(b, a) <= d
<1> DEFINE S == {d \in Kept(b) : d > a}
<1>1. S \in SUBSET Nat /\ S # {}
  BY Zenon DEF Kept, WellFormed, Blocks
<1>2. \E x \in S : \A y \in S : x <= y
  BY <1>1, LeastExists, Zenon
<1>3. \E x \in Kept(b) : x > a /\ \A d \in Kept(b) : d > a => x <= d
  BY <1>2, Zenon
<1>4. RunNext(b, a) = CHOOSE x \in Kept(b) : x > a /\ \A d \in Kept(b) : d > a => x <= d
  BY Zenon DEF RunNext
<1>5. /\ RunNext(b, a) \in Kept(b) /\ RunNext(b, a) > a
      /\ \A d \in Kept(b) : d > a => RunNext(b, a) <= d
  <2> HIDE DEF S
  <2> QED  BY <1>3, <1>4, Zenon
<1>6. RunNext(b, a) \in Nat
  BY <1>5, Zenon DEF Kept, WellFormed, Blocks
<1> QED
  BY <1>5, <1>6 DEF NULL

\* Without a kept block behind a the run reaches the end of the list.
LEMMA RunNextNone ==
  ASSUME NEW b, NEW a, \A c \in Kept(b) : ~(c > a)
  PROVE  RunNext(b, a) = NULL
BY Zenon DEF RunNext

\* A block in use keeps its successor: RunNext agrees with its next pointer.
LEMMA UsedKeepsNext ==
  ASSUME NEW b, WellFormed(b), NEW a \in DOMAIN b, ~b[a].free
  PROVE  a \in Kept(b) /\ RunNext(b, a) = b[a].next /\ RunEnd(b, a) = BlockEnd(b, a)
<1>0. a \in Kept(b) /\ a \in Nat
  BY Layout, Zenon DEF Kept, Absorbed
<1>1. CASE b[a].next = NULL
  <2>1. \A c \in DOMAIN b : ~(c > a)
    <3> SUFFICES ASSUME NEW c \in DOMAIN b, c > a PROVE FALSE
      BY Zenon
    <3>1. BlockEnd(b, a) <= c /\ BlockEnd(b, a) = HEAP_SIZE
      BY <1>1, Layout, Zenon DEF WellFormed, Ordered
    <3>2. c < BlockEnd(b, c) /\ BlockEnd(b, c) <= HEAP_SIZE /\ c \in Nat /\ BlockEnd(b, c) \in Nat
      BY Layout, Zenon
    <3> QED
      BY <3>1, <3>2, HeapAssumption
  <2>2. RunNext(b, a) = NULL
    BY <2>1, RunNextNone, Zenon DEF Kept
  <2> QED
    BY <1>0, <1>1, <2>2, Layout, Zenon DEF RunEnd
<1>2. CASE b[a].next # NULL
  <2> DEFINE c == b[a].next
  <2>1. c \in DOMAIN b /\ c \in Nat /\ a < c /\ c = BlockEnd(b, a)
    BY <1>2, Layout, Zenon
  <2>2. c \in Kept(b)
    <3>1. \A p \in DOMAIN b : b[p].next = c => p = a
      BY <1>2, OnePredecessor, Zenon
    <3> QED
      BY <2>1, <3>1, Zenon DEF Kept, Absorbed
  <2>3. \A d \in Kept(b) : d > a => c <= d
    BY <2>1, Zenon DEF Kept, WellFormed, Ordered
  <2>4. RunNext(b, a) \in Kept(b) /\ RunNext(b, a) \in Nat /\ RunNext(b, a) > a
        /\ RunNext(b, a) <= c /\ RunNext(b, a) # NULL
    BY <1>0, <2>1, <2>2, RunNextLeast, Zenon
  <2>5. RunNext(b, a) = c
    BY <2>1, <2>3, <2>4
  <2> QED
    BY <1>0, <2>1, <2>4, <2>5, Zenon DEF RunEnd
<1> QED
  BY <1>1, <1>2, Zenon

\* What heap_coalesce leaves of every kept block, in use or free.
LEMMA CoalesceShape ==
  ASSUME NEW b, WellFormed(b)
  PROVE  /\ DOMAIN heap_coalesce(b) = Kept(b)
         /\ \A a \in Kept(b) :
              /\ heap_coalesce(b)[a] \in [size : Nat, free : BOOLEAN, next : {NULL} \cup Nat]
              /\ heap_coalesce(b)[a].free = b[a].free
              /\ heap_coalesce(b)[a].next = RunNext(b, a)
              /\ BlockEnd(heap_coalesce(b), a) = RunEnd(b, a)
              /\ ~b[a].free => heap_coalesce(b)[a] = b[a]
              /\ RunEnd(b, a) \in Nat /\ RunEnd(b, a) <= HEAP_SIZE
<1> DEFINE cb == heap_coalesce(b)
<1>1. DOMAIN cb = Kept(b)
  BY Zenon DEF heap_coalesce
<1>2. ASSUME NEW a \in Kept(b)
      PROVE  /\ cb[a] \in [size : Nat, free : BOOLEAN, next : {NULL} \cup Nat]
             /\ cb[a].free = b[a].free
             /\ cb[a].next = RunNext(b, a)
             /\ BlockEnd(cb, a) = RunEnd(b, a)
             /\ ~b[a].free => cb[a] = b[a]
             /\ RunEnd(b, a) \in Nat /\ RunEnd(b, a) <= HEAP_SIZE
  <2>1. a \in DOMAIN b /\ a \in Nat /\ BlockEnd(b, a) \in Nat /\ BlockEnd(b, a) <= HEAP_SIZE
        /\ b[a].size \in Nat /\ b[a].free \in BOOLEAN
        /\ BlockEnd(b, a) = a + HeaderSize + b[a].size
    BY Layout, Zenon DEF Kept, BlockEnd
  <2>2. CASE b[a].free
    <3>1. cb[a] = [size |-> RunEnd(b, a) - a - HeaderSize, free |-> TRUE, next |-> RunNext(b, a)]
      BY <2>2, Zenon DEF heap_coalesce
    <3>2. /\ RunNext(b, a) \in {NULL} \cup Nat
          /\ RunEnd(b, a) \in Nat /\ RunEnd(b, a) <= HEAP_SIZE /\ BlockEnd(b, a) <= RunEnd(b, a)
      <4>1. CASE \E c \in Kept(b) : c > a
        <5>1. RunNext(b, a) \in Kept(b) /\ RunNext(b, a) \in Nat /\ RunNext(b, a) > a
              /\ RunNext(b, a) # NULL
          BY <2>1, <4>1, RunNextLeast, Zenon
        <5>2. RunNext(b, a) \in DOMAIN b
          BY <5>1, Zenon DEF Kept
        <5>3. BlockEnd(b, a) <= RunNext(b, a)
          BY <2>1, <5>1, <5>2, Zenon DEF WellFormed, Ordered
        <5>4. RunNext(b, a) < BlockEnd(b, RunNext(b, a)) /\ BlockEnd(b, RunNext(b, a)) <= HEAP_SIZE
              /\ BlockEnd(b, RunNext(b, a)) \in Nat
          BY <5>2, Layout, Zenon
        <5> QED
          BY <5>1, <5>3, <5>4, HeapAssumption DEF RunEnd
      <4>2. CASE ~ \E c \in Kept(b) : c > a
        <5>1. RunNext(b, a) = NULL
          BY <4>2, RunNextNone, Zenon
        <5> QED
          BY <5>1, <2>1, HeapAssumption DEF RunEnd
      <4> QED
        BY <4>1, <4>2, Zenon
    <3>3. RunEnd(b, a) - a - HeaderSize \in Nat
      BY <2>1, <3>2 DEF HeaderSize
    <3>4. cb[a].size = RunEnd(b, a) - a - HeaderSize
      BY <3>1
    <3>5. BlockEnd(cb, a) = RunEnd(b, a)
      BY <2>1, <3>2, <3>4 DEF BlockEnd, HeaderSize
    <3> HIDE DEF cb
    <3> QED
      BY <2>2, <3>1, <3>2, <3>3, <3>5
  <2>3. CASE ~b[a].free
    <3>1. cb[a] = b[a]
      BY <2>3, Zenon DEF heap_coalesce
    <3>2. BlockEnd(cb, a) = BlockEnd(b, a)
      BY <3>1, Zenon DEF BlockEnd
    <3>3. b[a] \in [size : Nat, free : BOOLEAN, next : {NULL} \cup Nat]
      BY <2>1, Zenon DEF WellFormed, Blocks
    <3>4. RunNext(b, a) = b[a].next /\ RunEnd(b, a) = BlockEnd(b, a)
      BY <2>1, <2>3, UsedKeepsNext, Zenon
    <3> HIDE DEF cb
    <3> QED
      BY <2>1, <2>3, <3>1, <3>2, <3>3, <3>4, Zenon
  <2> QED
    BY <2>1, <2>2, <2>3, Zenon
<1> QED
  BY <1>1, <1>2, Zenon

\* heap_coalesce keeps the list well formed and leaves no two free neighbours.
LEMMA CoalesceWellFormed ==
  ASSUME NEW b, WellFormed(b)
  PROVE  WellFormed(heap_coalesce(b)) /\ NoFreePair(heap_coalesce(b))
<1> DEFINE cb == heap_coalesce(b)
           K == Kept(b)
<1>1. /\ DOMAIN cb = K
      /\ \A a \in K :
           /\ cb[a] \in [size : Nat, free : BOOLEAN, next : {NULL} \cup Nat]
           /\ cb[a].free = b[a].free /\ cb[a].next = RunNext(b, a)
           /\ BlockEnd(cb, a) = RunEnd(b, a)
           /\ RunEnd(b, a) \in Nat /\ RunEnd(b, a) <= HEAP_SIZE
  BY CoalesceShape, Zenon
<1>2. \A a \in K : a \in DOMAIN b /\ a \in Nat
  BY Zenon DEF Kept, WellFormed, Blocks
<1>3. \A a, c \in K : c > a => /\ RunNext(b, a) \in K /\ RunNext(b, a) \in Nat /\ RunNext(b, a) > a
                               /\ RunNext(b, a) # NULL /\ RunNext(b, a) <= c
  BY <1>2, RunNextLeast, Zenon
<1>4. \A a \in K : RunNext(b, a) # NULL =>
                     /\ RunNext(b, a) \in K /\ RunNext(b, a) \in Nat /\ RunNext(b, a) > a
                     /\ RunEnd(b, a) = RunNext(b, a)
  BY <1>3, RunNextNone, Zenon DEF RunEnd
<1>5. 0 \in K
  BY FirstKept, Zenon
<1> HIDE DEF cb, K
<1>6. Blocks(cb)
  BY <1>1, <1>2, Zenon DEF Blocks
<1>7. Linked(cb)
  BY <1>1, <1>4, Zenon DEF Linked, RunEnd
<1>8. Ordered(cb)
  BY <1>1, <1>2, <1>3, <1>4 DEF Ordered
<1>9. Reached(cb)
  <2> SUFFICES ASSUME NEW c \in K, c # 0 PROVE \E a \in K : RunNext(b, a) = c
    BY <1>1, <1>5 DEF Reached
  <2> DEFINE S == {x \in K : x < c}
  <2>1. c \in Nat /\ S \in SUBSET Nat /\ (\A x \in S : x <= c)
    BY <1>2
  <2>2. 0 \in S
    BY <1>5, <2>1
  <2>3. PICK a \in S : \A y \in S : y <= a
    BY <2>1, <2>2, GreatestExists, Zenon
  <2>4. a \in K /\ a \in Nat /\ a < c
    BY <2>1, <2>3, Zenon
  <2>5. RunNext(b, a) \in K /\ RunNext(b, a) \in Nat /\ RunNext(b, a) > a /\ RunNext(b, a) <= c
    BY <1>3, <2>1, <2>4, Zenon
  <2>6. ~(RunNext(b, a) < c)
    BY <2>1, <2>3, <2>4, <2>5
  <2> QED
    BY <2>1, <2>4, <2>5, <2>6
<1>10. NoFreePair(cb)
  <2> SUFFICES ASSUME NEW a \in K, b[a].free, RunNext(b, a) # NULL, b[RunNext(b, a)].free
               PROVE  FALSE
    BY <1>1, <1>4 DEF NoFreePair
  <2> DEFINE c == RunNext(b, a)
  <2>1. c \in K /\ c \in DOMAIN b /\ c \in Nat /\ a \in Nat /\ c > a /\ a \in DOMAIN b
    BY <1>2, <1>4, Zenon
  <2>2. PICK p \in DOMAIN b : b[p].next = c
    BY <2>1 DEF WellFormed, Reached
  <2>3. ~b[p].free
    BY <2>1, <2>2, Zenon DEF K, Kept, Absorbed
  <2>4. p \in K /\ p \in Nat
    BY <1>2, <2>3, UsedKeepsNext, Zenon DEF K
  <2>5. p < c /\ c = BlockEnd(b, p)
    BY <2>1, <2>2, Layout, Zenon
  <2>6. ~(p > a)
    <3> SUFFICES ASSUME p > a PROVE FALSE
      BY Zenon
    <3>1. c <= p
      BY <1>3, <2>4, Zenon
    <3> QED
      BY <3>1, <2>1, <2>4, <2>5
  <2>7. ~(p < a)
    <3> SUFFICES ASSUME p < a PROVE FALSE
      BY Zenon
    <3>1. BlockEnd(b, p) <= a
      BY <2>1, Zenon DEF WellFormed, Ordered
    <3> QED
      BY <3>1, <2>1, <2>5
  <2>8. p # a
    BY <2>3, Zenon
  <2> QED
    BY <2>1, <2>4, <2>6, <2>7, <2>8
<1> QED
  BY <1>6, <1>7, <1>8, <1>9, <1>10, Zenon DEF WellFormed, cb

-----------------------------------------------------------------------------
(* Splitting, joining and flag changes. *)

Rest(a, n) == a + HeaderSize + n

\* sb is b with block a cut down to n bytes and the rest at r, a fresh header.
SplitInto(b, sb, a, r, n) ==
  /\ r \in Nat /\ r \notin DOMAIN b /\ r # a /\ r # NULL /\ a < r
  /\ DOMAIN sb = DOMAIN b \cup {r}
  /\ sb[a] = [size |-> n, free |-> b[a].free, next |-> r]
  /\ sb[r] = [size |-> b[a].size - n - HeaderSize, free |-> TRUE, next |-> b[a].next]
  /\ \A c \in DOMAIN b \ {a} : sb[c] = b[c]
  /\ b[a].size - n - HeaderSize \in Nat
  /\ r < BlockEnd(b, a)
  /\ BlockEnd(sb, a) = r
  /\ BlockEnd(sb, r) = BlockEnd(b, a)
  /\ \A c \in DOMAIN b \ {a} : BlockEnd(sb, c) = BlockEnd(b, c)

\* Where a split puts the two halves, and that the new header is a fresh one.
LEMMA SplitShape ==
  ASSUME NEW b, WellFormed(b), NEW a \in DOMAIN b, NEW n \in Nat, Splits(b, a, n)
  PROVE  SplitInto(b, Split(b, a, n), a, Rest(a, n), n)
<1> DEFINE r == Rest(a, n)
           sb == Split(b, a, n)
<1>1. a \in Nat /\ b[a].size \in Nat /\ BlockEnd(b, a) = a + HeaderSize + b[a].size
      /\ b[a].size >= n + HeaderSize + 8
  BY Layout, Zenon DEF BlockEnd, Splits
<1>2. r \in Nat /\ a < r /\ r < BlockEnd(b, a) /\ b[a].size - n - HeaderSize \in Nat
  BY <1>1 DEF Rest, HeaderSize
<1> HIDE DEF r
<1>3. r \notin DOMAIN b
  <2> SUFFICES ASSUME r \in DOMAIN b PROVE FALSE
    BY Zenon
  <2>1. BlockEnd(b, a) <= r
    BY <1>2, Zenon DEF WellFormed, Ordered
  <2>2. BlockEnd(b, a) \in Nat
    BY Layout, Zenon
  <2> QED
    BY <1>2, <2>1, <2>2
<1>4. r # a /\ r # NULL
  BY <1>1, <1>2 DEF NULL
<1>5. /\ DOMAIN sb = DOMAIN b \cup {r}
      /\ sb[a] = [size |-> n, free |-> b[a].free, next |-> r]
      /\ sb[r] = [size |-> b[a].size - n - HeaderSize, free |-> TRUE, next |-> b[a].next]
      /\ \A c \in DOMAIN b \ {a} : sb[c] = b[c]
  BY <1>3, <1>4, Zenon DEF Split, Rest, r
<1> HIDE DEF sb
<1>6. /\ BlockEnd(sb, a) = r
      /\ \A c \in DOMAIN b \ {a} : BlockEnd(sb, c) = BlockEnd(b, c)
  BY <1>5 DEF BlockEnd, r, Rest
<1>7. BlockEnd(sb, r) = BlockEnd(b, a)
  <2>1. sb[r].size = b[a].size - n - HeaderSize
    BY <1>5
  <2> QED
    BY <1>1, <2>1 DEF BlockEnd, r, Rest, HeaderSize
<1> QED
  BY <1>2, <1>3, <1>4, <1>5, <1>6, <1>7, Zenon DEF r, sb, SplitInto

\* Splitting keeps the list well formed.
LEMMA SplitWellFormed ==
  ASSUME NEW b, WellFormed(b), NEW a \in DOMAIN b, NEW n \in Nat, Splits(b, a, n)
  PROVE  WellFormed(Split(b, a, n))
<1> DEFINE r == Rest(a, n)
           sb == Split(b, a, n)
<1>0. SplitInto(b, sb, a, r, n)
  BY SplitShape, Zenon
<1> HIDE DEF r, sb
<1>1. /\ r \in Nat /\ r \notin DOMAIN b /\ r # a /\ r # NULL /\ a < r
      /\ DOMAIN sb = DOMAIN b \cup {r}
      /\ sb[a] = [size |-> n, free |-> b[a].free, next |-> r]
      /\ sb[r] = [size |-> b[a].size - n - HeaderSize, free |-> TRUE, next |-> b[a].next]
      /\ \A c \in DOMAIN b \ {a} : sb[c] = b[c]
      /\ b[a].size - n - HeaderSize \in Nat
      /\ r < BlockEnd(b, a)
      /\ BlockEnd(sb, a) = r
      /\ BlockEnd(sb, r) = BlockEnd(b, a)
      /\ \A c \in DOMAIN b \ {a} : BlockEnd(sb, c) = BlockEnd(b, c)
  BY <1>0, Zenon DEF SplitInto
<1>2. /\ \A c \in DOMAIN b : c \in Nat /\ BlockEnd(b, c) \in Nat /\ BlockEnd(b, c) <= HEAP_SIZE
      /\ \A c \in DOMAIN b : b[c] \in [size : Nat, free : BOOLEAN, next : {NULL} \cup Nat]
  BY Layout, Zenon DEF WellFormed, Blocks
<1>3. Blocks(sb)
  <2>1. \A c \in DOMAIN sb : sb[c] \in [size : Nat, free : BOOLEAN, next : {NULL} \cup Nat]
    <3>1. sb[a] \in [size : Nat, free : BOOLEAN, next : {NULL} \cup Nat]
      BY <1>1, <1>2
    <3>2. sb[r] \in [size : Nat, free : BOOLEAN, next : {NULL} \cup Nat]
      BY <1>1, <1>2
    <3> QED
      BY <1>1, <1>2, <3>1, <3>2, Zenon
  <2>2. \A c \in DOMAIN sb : BlockEnd(sb, c) <= HEAP_SIZE
    BY <1>1, <1>2, HeapAssumption
  <2> QED
    BY <1>1, <1>2, <2>1, <2>2, Zenon DEF Blocks
<1>4. Linked(sb)
  BY <1>1 DEF WellFormed, Linked
<1>5. Reached(sb)
  <2>1. 0 \in DOMAIN sb
    BY <1>1, Zenon DEF WellFormed, Reached
  <2>2. ASSUME NEW c \in DOMAIN sb, c # 0 PROVE \E p \in DOMAIN sb : sb[p].next = c
    <3>1. CASE c = r
      BY <1>1, <3>1
    <3>2. CASE c # r
      <4>1. PICK p \in DOMAIN b : b[p].next = c
        BY <1>1, <2>2, <3>2, Zenon DEF WellFormed, Reached
      <4>2. CASE p = a
        BY <1>1, <4>1, <4>2
      <4>3. CASE p # a
        BY <1>1, <4>1, <4>3, Zenon
      <4> QED
        BY <4>2, <4>3, Zenon
    <3> QED
      BY <3>1, <3>2, Zenon
  <2> QED
    BY <2>1, <2>2, Zenon DEF Reached
<1>6. Ordered(sb)
  <2> SUFFICES ASSUME NEW x \in DOMAIN sb, NEW y \in DOMAIN sb, x < y
               PROVE  BlockEnd(sb, x) <= y
    BY Zenon DEF Ordered
  <2>1. \A u, v \in DOMAIN b : u < v => BlockEnd(b, u) <= v
    BY Zenon DEF WellFormed, Ordered
  <2>2. CASE x = r
    <3>1. y \in DOMAIN b /\ y \in Nat /\ a < y
      BY <1>1, <1>2, <2>2
    <3> QED
      BY <1>1, <2>1, <2>2, <3>1, Zenon
  <2>3. CASE x # r /\ y = r
    <3>1. x \in DOMAIN b /\ x \in Nat
      BY <1>1, <1>2, <2>3, Zenon
    <3>2. CASE x = a
      BY <1>1, <2>3, <3>2
    <3>3. CASE x < a
      BY <1>1, <1>2, <2>1, <2>3, <3>1, <3>3
    <3>4. CASE a < x
      <4>1. BlockEnd(b, a) <= x
        BY <2>1, <3>1, <3>4, Zenon
      <4> QED
        BY <4>1, <1>1, <1>2, <2>3, <3>1
    <3> QED
      BY <1>2, <3>1, <3>2, <3>3, <3>4
  <2>4. CASE x # r /\ y # r
    <3>1. x \in DOMAIN b /\ y \in DOMAIN b
      BY <1>1, <2>4, Zenon
    <3>2. CASE x = a
      <4>1. BlockEnd(b, a) <= y
        BY <2>1, <3>1, <3>2, Zenon
      <4> QED
        BY <4>1, <1>1, <1>2, <3>1, <3>2
    <3>3. CASE x # a
      BY <1>1, <2>1, <3>1, <3>3, Zenon
    <3> QED
      BY <3>2, <3>3, Zenon
  <2> QED
    BY <2>2, <2>3, <2>4, Zenon
<1> QED
  BY <1>3, <1>4, <1>5, <1>6, Zenon DEF WellFormed, sb

\* Well-formedness is about sizes and next pointers only.
LEMMA SameLayout ==
  ASSUME NEW b, WellFormed(b), NEW fb, DOMAIN fb = DOMAIN b,
         \A c \in DOMAIN b : fb[c].size = b[c].size /\ fb[c].next = b[c].next,
         \A c \in DOMAIN b : fb[c] \in [size : Nat, free : BOOLEAN, next : {NULL} \cup Nat]
  PROVE  WellFormed(fb)
<1>1. \A c \in DOMAIN b : BlockEnd(fb, c) = BlockEnd(b, c)
  BY Zenon DEF BlockEnd
<1>2. Blocks(fb)
  BY <1>1, Zenon DEF WellFormed, Blocks
<1>3. Linked(fb)
  BY <1>1, Zenon DEF WellFormed, Linked
<1>4. Reached(fb)
  BY DEF WellFormed, Reached
<1>5. Ordered(fb)
  BY <1>1, Zenon DEF WellFormed, Ordered
<1> QED
  BY <1>2, <1>3, <1>4, <1>5, Zenon DEF WellFormed

\* fb is b with the free flag of block a set to f.
Flagged(b, fb, a, f) ==
  /\ DOMAIN fb = DOMAIN b
  /\ fb[a].free = f
  /\ \A c \in DOMAIN b : fb[c].size = b[c].size /\ fb[c].next = b[c].next
  /\ \A c \in DOMAIN b \ {a} : fb[c] = b[c]

\* Setting or clearing a free flag keeps the list well formed.
LEMMA FlagWellFormed ==
  ASSUME NEW b, WellFormed(b), NEW a \in DOMAIN b, NEW f \in BOOLEAN
  PROVE  /\ WellFormed([b EXCEPT ![a].free = f])
         /\ Flagged(b, [b EXCEPT ![a].free = f], a, f)
<1> DEFINE fb == [b EXCEPT ![a].free = f]
<1>1. DOMAIN fb = DOMAIN b
  BY Zenon
<1>2. \A c \in DOMAIN b : b[c] \in [size : Nat, free : BOOLEAN, next : {NULL} \cup Nat]
  BY Zenon DEF WellFormed, Blocks
<1>3. \A c \in DOMAIN b \ {a} : fb[c] = b[c]
  BY Zenon
<1>4. fb[a] = [size |-> b[a].size, free |-> f, next |-> b[a].next]
  <2>1. fb[a] = [b[a] EXCEPT !.free = f]
    BY Zenon
  <2> QED
    BY <1>2, <2>1, Zenon
<1> HIDE DEF fb
<1>5. \A c \in DOMAIN b : fb[c].size = b[c].size /\ fb[c].next = b[c].next
  BY <1>3, <1>4
<1>6. \A c \in DOMAIN b : fb[c] \in [size : Nat, free : BOOLEAN, next : {NULL} \cup Nat]
  BY <1>2, <1>3, <1>4
<1>7. WellFormed(fb)
  BY <1>1, <1>5, <1>6, SameLayout, Zenon
<1>8. Flagged(b, fb, a, f)
  BY <1>1, <1>3, <1>4, <1>5 DEF Flagged
<1> QED
  BY <1>7, <1>8, Zenon DEF fb

\* jb is b with block a extended over its successor nx.
JoinedInto(b, jb, a, nx) ==
  /\ nx \in DOMAIN b /\ nx # a /\ nx # 0 /\ a < nx /\ nx = BlockEnd(b, a)
  /\ DOMAIN jb = DOMAIN b \ {nx}
  /\ jb[a] = [size |-> b[a].size + HeaderSize + b[nx].size,
              free |-> b[a].free, next |-> b[nx].next]
  /\ \A c \in DOMAIN jb \ {a} : jb[c] = b[c]
  /\ BlockEnd(jb, a) = BlockEnd(b, nx)
  /\ \A c \in DOMAIN jb \ {a} : BlockEnd(jb, c) = BlockEnd(b, c)

\* Joining a block with its successor keeps the list well formed.
LEMMA JoinWellFormed ==
  ASSUME NEW b, WellFormed(b), NEW a \in DOMAIN b, b[a].next # NULL
  PROVE  WellFormed(Joined(b, a)) /\ JoinedInto(b, Joined(b, a), a, b[a].next)
<1> DEFINE nx == b[a].next
           jb == Joined(b, a)
<1>1. /\ nx \in DOMAIN b /\ nx \in Nat /\ a < nx /\ nx = BlockEnd(b, a) /\ a \in Nat
      /\ b[a].size \in Nat /\ b[nx].size \in Nat
  BY Layout, Zenon
<1>2. nx # a /\ nx # 0
  BY <1>1
<1>3. /\ DOMAIN jb = DOMAIN b \ {nx}
      /\ jb[a] = [size |-> b[a].size + HeaderSize + b[nx].size,
                  free |-> b[a].free, next |-> b[nx].next]
      /\ \A c \in DOMAIN jb \ {a} : jb[c] = b[c]
  BY <1>1, <1>2, Zenon DEF Joined
<1> HIDE DEF nx, jb
<1>4. \A c \in DOMAIN jb \ {a} : BlockEnd(jb, c) = BlockEnd(b, c)
  BY <1>3, Zenon DEF BlockEnd
<1>5. BlockEnd(jb, a) = BlockEnd(b, nx)
  <2>1. jb[a].size = b[a].size + HeaderSize + b[nx].size
    BY <1>3
  <2>2. nx = a + HeaderSize + b[a].size
    BY <1>1, Zenon DEF BlockEnd
  <2> QED
    BY <1>1, <2>1, <2>2 DEF BlockEnd, HeaderSize
<1>6. /\ \A c \in DOMAIN b : c \in Nat /\ BlockEnd(b, c) \in Nat /\ BlockEnd(b, c) <= HEAP_SIZE
      /\ \A c \in DOMAIN b : b[c] \in [size : Nat, free : BOOLEAN, next : {NULL} \cup Nat]
  BY Layout, Zenon DEF WellFormed, Blocks
<1>7. Blocks(jb)
  <2>1. jb[a] \in [size : Nat, free : BOOLEAN, next : {NULL} \cup Nat]
    BY <1>1, <1>3, <1>6 DEF HeaderSize
  <2>2. \A c \in DOMAIN jb : jb[c] \in [size : Nat, free : BOOLEAN, next : {NULL} \cup Nat]
    BY <1>3, <1>6, <2>1, Zenon
  <2> QED
    BY <1>1, <1>3, <1>4, <1>5, <1>6, <2>2, Zenon DEF Blocks
<1>8. Linked(jb)
  <2>1. \A c \in DOMAIN b : IF b[c].next = NULL THEN BlockEnd(b, c) = HEAP_SIZE
                            ELSE b[c].next \in DOMAIN b /\ b[c].next = BlockEnd(b, c)
    BY Zenon DEF WellFormed, Linked
  <2>2. ASSUME NEW c \in DOMAIN jb
        PROVE IF jb[c].next = NULL THEN BlockEnd(jb, c) = HEAP_SIZE
              ELSE jb[c].next \in DOMAIN jb /\ jb[c].next = BlockEnd(jb, c)
    <3>1. CASE c = a
      <4>1. nx < BlockEnd(b, nx)
        BY <1>1, Layout, Zenon
      <4>2. jb[c].next = b[nx].next /\ BlockEnd(jb, c) = BlockEnd(b, nx)
        BY <1>3, <1>5, <3>1
      <4> QED
        BY <1>1, <1>3, <1>6, <2>1, <4>1, <4>2
    <3>2. CASE c # a
      <4>1. jb[c] = b[c] /\ BlockEnd(jb, c) = BlockEnd(b, c) /\ c \in DOMAIN b
        BY <1>3, <1>4, <3>2, Zenon
      <4>2. b[c].next # nx
        BY <1>1, <3>2, <4>1, OnePredecessor, Zenon DEF nx, NULL
      <4> QED
        BY <1>3, <2>1, <4>1, <4>2, Zenon
    <3> QED
      BY <3>1, <3>2, Zenon
  <2> QED
    BY <2>2, Zenon DEF Linked
<1>9. Reached(jb)
  <2>1. 0 \in DOMAIN jb
    BY <1>2, <1>3, Zenon DEF WellFormed, Reached
  <2>2. ASSUME NEW c \in DOMAIN jb, c # 0 PROVE \E p \in DOMAIN jb : jb[p].next = c
    <3>1. PICK p \in DOMAIN b : b[p].next = c
      BY <1>3, <2>2, Zenon DEF WellFormed, Reached
    <3>2. CASE p = nx
      BY <1>1, <1>2, <1>3, <3>1, <3>2
    <3>3. CASE p # nx
      <4>1. p # a
        BY <1>3, <3>1, Zenon DEF nx
      <4> QED
        BY <1>3, <3>1, <3>3, <4>1, Zenon
    <3> QED
      BY <3>2, <3>3, Zenon
  <2> QED
    BY <2>1, <2>2, Zenon DEF Reached
<1>10. Ordered(jb)
  <2> SUFFICES ASSUME NEW x \in DOMAIN jb, NEW y \in DOMAIN jb, x < y
               PROVE  BlockEnd(jb, x) <= y
    BY Zenon DEF Ordered
  <2>1. \A u, v \in DOMAIN b : u < v => BlockEnd(b, u) <= v
    BY Zenon DEF WellFormed, Ordered
  <2>2. x \in DOMAIN b /\ y \in DOMAIN b /\ y # nx /\ y \in Nat
    BY <1>3, <1>6, Zenon
  <2>3. CASE x = a
    <3>1. nx <= y
      BY <1>1, <2>1, <2>2, <2>3, Zenon
    <3>2. nx < y
      BY <1>1, <2>2, <3>1
    <3> QED
      BY <1>1, <1>5, <2>1, <2>2, <2>3, <3>2, Zenon
  <2>4. CASE x # a
    BY <1>4, <2>1, <2>2, <2>4, Zenon
  <2> QED
    BY <2>3, <2>4, Zenon
<1> QED
  <2>1. JoinedInto(b, jb, a, nx)
    BY <1>1, <1>2, <1>3, <1>4, <1>5, Zenon DEF JoinedInto
  <2> QED
    BY <1>7, <1>8, <1>9, <1>10, <2>1, Zenon DEF WellFormed, jb, nx

-----------------------------------------------------------------------------
(* What the calls do to a list that is well formed and fully coalesced.    *)

Good(b) == WellFormed(b) /\ NoFreePair(b)

\* nb has the blocks of b in use, except that gone is released and got, of
\* size sz, is taken; no other client sees its block change.
Hands(b, nb, gone, got, sz) ==
  /\ InUse(nb) = (InUse(b) \ gone) \cup got
  /\ \A c \in got : nb[c].size = sz
  /\ \A c \in InUse(b) \ (gone \cup got) : nb[c] = b[c]

\* A well-formed list is finite, and coalescing removes the absorbed blocks.
LEMMA CoalesceCount ==
  ASSUME NEW b, WellFormed(b)
  PROVE  /\ IsFiniteSet(DOMAIN b) /\ Cardinality(DOMAIN b) \in Nat
         /\ Cardinality(Absorbed(b)) \in Nat
         /\ Cardinality(DOMAIN heap_coalesce(b)) = Cardinality(DOMAIN b) - Cardinality(Absorbed(b))
<1>1. DOMAIN b \subseteq 0 .. HEAP_SIZE
  <2> SUFFICES ASSUME NEW a \in DOMAIN b PROVE a \in 0 .. HEAP_SIZE
    BY Zenon
  <2>1. a \in Nat /\ BlockEnd(b, a) \in Nat /\ a < BlockEnd(b, a) /\ BlockEnd(b, a) <= HEAP_SIZE
    BY Layout, Zenon
  <2> QED
    BY <2>1, HeapAssumption
<1>2. IsFiniteSet(DOMAIN b)
  <2>1. IsFiniteSet(0 .. HEAP_SIZE)
    BY FS_Interval, HeapAssumption
  <2> QED
    BY <1>1, <2>1, FS_Subset, Zenon
<1>3. Absorbed(b) \subseteq DOMAIN b
  BY Zenon DEF Absorbed
<1>4. DOMAIN heap_coalesce(b) = DOMAIN b \ Absorbed(b)
  BY CoalesceShape, Zenon DEF Kept
<1>5. DOMAIN b \cap Absorbed(b) = Absorbed(b)
  BY <1>3, Zenon
<1>6. Cardinality(DOMAIN b \ Absorbed(b)) = Cardinality(DOMAIN b) - Cardinality(Absorbed(b))
  BY <1>2, <1>5, FS_Difference, ZenonT(60)
<1>7. IsFiniteSet(Absorbed(b))
  BY <1>2, <1>3, FS_Subset, Zenon
<1> QED
  BY <1>2, <1>4, <1>6, <1>7, FS_CardinalityType, Zenon

\* Coalescing takes no block from a client and changes none.
LEMMA CoalesceHands ==
  ASSUME NEW b, WellFormed(b)
  PROVE  /\ InUse(heap_coalesce(b)) = InUse(b)
         /\ \A c \in InUse(b) : heap_coalesce(b)[c] = b[c]
<1>1. InUse(b) \subseteq Kept(b)
  BY UsedKeepsNext, Zenon DEF InUse
<1> DEFINE cb == heap_coalesce(b)
<1>2. /\ DOMAIN cb = Kept(b)
      /\ \A a \in Kept(b) : cb[a].free = b[a].free /\ (~b[a].free => cb[a] = b[a])
  BY CoalesceShape, Zenon
<1>3. Kept(b) \subseteq DOMAIN b
  BY Zenon DEF Kept
<1> HIDE DEF cb
<1>4. InUse(cb) = InUse(b) /\ \A c \in InUse(b) : cb[c] = b[c]
  BY <1>1, <1>2, <1>3, Zenon DEF InUse
<1> QED
  BY <1>4, Zenon DEF cb

\* malloc's scan picks a free block that is large enough.
LEMMA BestFits ==
  ASSUME NEW b, WellFormed(b), NEW n \in Nat, Fits(b, n) # {}
  PROVE  BestFit(b, n) \in Fits(b, n)
<1> DEFINE F == Fits(b, n)
           Better(a, c) == b[a].size < b[c].size \/ (b[a].size = b[c].size /\ a <= c)
<1>1. \A a \in F : a \in Nat /\ b[a].size \in Nat
  BY Layout, Zenon DEF Fits
<1> DEFINE Sizes == {b[a].size : a \in F}
<1>2. Sizes \in SUBSET Nat /\ Sizes # {}
  <2>1. Sizes # {}
    BY Zenon
  <2> QED
    BY <1>1, <2>1, Zenon
<1>3. PICK m \in Sizes : \A k \in Sizes : m <= k
  BY <1>2, LeastExists, Zenon
<1> DEFINE Small == {a \in F : b[a].size = m}
<1>4. Small \in SUBSET Nat /\ Small # {}
  BY <1>1, <1>3, Zenon
<1>5. PICK a \in Small : \A c \in Small : a <= c
  BY <1>4, LeastExists, Zenon
<1>6. a \in F /\ \A c \in F : Better(a, c)
  <2>1. a \in F /\ b[a].size = m
    BY <1>5, Zenon
  <2>2. ASSUME NEW c \in F PROVE Better(a, c)
    <3>1. m <= b[c].size
      BY <1>3, Zenon
    <3>2. CASE b[c].size = m
      BY <1>5, <2>1, <3>2, Zenon
    <3>3. CASE b[c].size # m
      BY <1>1, <2>1, <3>1, <3>3
    <3> QED
      BY <3>2, <3>3, Zenon
  <2> QED
    BY <2>1, <2>2, Zenon
<1>7. \E x \in F : \A c \in F : Better(x, c)
  BY <1>6, Zenon
<1>8. BestFit(b, n) = CHOOSE x \in F : \A c \in F : Better(x, c)
  BY Zenon DEF BestFit
<1> HIDE DEF F, Better
<1>9. BestFit(b, n) \in F
  BY <1>7, <1>8, Zenon
<1> QED
  BY <1>9, Zenon DEF F

\* free: the block leaves the client's hands, nobody else notices.
LEMMA Releases ==
  ASSUME NEW b, WellFormed(b), NEW a \in InUse(b)
  PROVE  /\ Good(heap_coalesce(Freed(b, a)))
         /\ Hands(b, heap_coalesce(Freed(b, a)), {a}, {}, 0)
         /\ Cardinality(DOMAIN heap_coalesce(Freed(b, a)))
              = Cardinality(DOMAIN b) - Cardinality(Absorbed(Freed(b, a)))
<1> DEFINE fb == Freed(b, a)
           nb == heap_coalesce(fb)
<1>1. WellFormed(fb) /\ Flagged(b, fb, a, TRUE)
  BY FlagWellFormed, Zenon DEF Freed, InUse
<1> HIDE DEF fb
<1>2. Good(nb)
  BY <1>1, CoalesceWellFormed, Zenon DEF Good
<1>3. InUse(fb) = InUse(b) \ {a} /\ \A c \in InUse(fb) : fb[c] = b[c]
  BY <1>1, Zenon DEF Flagged, InUse
<1>4. InUse(nb) = InUse(fb) /\ \A c \in InUse(fb) : nb[c] = fb[c]
  BY <1>1, CoalesceHands, Zenon
<1>5. Cardinality(DOMAIN nb) = Cardinality(DOMAIN b) - Cardinality(Absorbed(fb))
  BY <1>1, CoalesceCount, Zenon DEF Flagged
<1> HIDE DEF nb
<1>6. Hands(b, nb, {a}, {}, 0)
  BY <1>3, <1>4, Zenon DEF Hands
<1> QED
  BY <1>2, <1>5, <1>6, Zenon DEF nb, fb

\* realloc to a smaller size: the client keeps block a, cut down to n bytes.
LEMMA Shrinks ==
  ASSUME NEW b, WellFormed(b), NEW a \in InUse(b), NEW n \in Nat, Splits(b, a, n)
  PROVE  /\ Good(heap_coalesce(Split(b, a, n)))
         /\ Hands(b, heap_coalesce(Split(b, a, n)), {}, {a}, n)
         /\ Cardinality(DOMAIN heap_coalesce(Split(b, a, n)))
              = Cardinality(DOMAIN b) + 1 - Cardinality(Absorbed(Split(b, a, n)))
<1> DEFINE sb == Split(b, a, n)
           r == Rest(a, n)
           nb == heap_coalesce(sb)
<1>0. a \in DOMAIN b /\ ~b[a].free
  BY Zenon DEF InUse
<1>1. WellFormed(sb) /\ SplitInto(b, sb, a, r, n)
  BY <1>0, SplitShape, SplitWellFormed, Zenon
<1> HIDE DEF sb, r
<1>2. Good(nb)
  BY <1>1, CoalesceWellFormed, Zenon DEF Good
<1>3. /\ InUse(sb) = InUse(b) /\ sb[a].size = n
      /\ \A c \in InUse(b) \ {a} : sb[c] = b[c]
  BY <1>0, <1>1 DEF SplitInto, InUse
<1>4. InUse(nb) = InUse(sb) /\ \A c \in InUse(sb) : nb[c] = sb[c]
  BY <1>1, CoalesceHands, Zenon
<1>5. Cardinality(DOMAIN nb) = Cardinality(DOMAIN b) + 1 - Cardinality(Absorbed(sb))
  <2>1. DOMAIN sb = DOMAIN b \cup {r} /\ r \notin DOMAIN b
    BY <1>1, Zenon DEF SplitInto
  <2>2. IsFiniteSet(DOMAIN b)
    BY CoalesceCount, Zenon
  <2>3. Cardinality(DOMAIN sb) = Cardinality(DOMAIN b) + 1
    BY <2>1, <2>2, FS_AddElement, Zenon
  <2> QED
    BY <1>1, <2>3, CoalesceCount
<1> HIDE DEF nb
<1>6. Hands(b, nb, {}, {a}, n)
  BY <1>0, <1>3, <1>4, Zenon DEF Hands, InUse
<1> QED
  BY <1>2, <1>5, <1>6, Zenon DEF nb, sb

\* tb is b with block a cut to n bytes if that is worth a header; away from a
\* it has no two free neighbours.
TrimmedTo(b, tb, a, n) ==
  /\ a \in DOMAIN tb /\ tb[a].free = b[a].free
  /\ tb[a].size >= n /\ tb[a].size < n + HeaderSize + 8 /\ tb[a].size \in Nat
  /\ InUse(tb) \ {a} = InUse(b) \ {a}
  /\ \A c \in InUse(b) \ {a} : tb[c] = b[c]
  /\ \A c \in DOMAIN tb \ {a} : tb[c].free /\ tb[c].next # NULL /\ tb[c].next # a
                                  => ~tb[tb[c].next].free
  /\ Cardinality(DOMAIN tb) = Cardinality(DOMAIN b) + TrimCount(b, a, n)

\* Cutting a block that no free block follows, as malloc does with the best
\* block and realloc with the grown one.
LEMMA Trims ==
  ASSUME NEW b, WellFormed(b), NEW a \in DOMAIN b, NEW n \in Nat, b[a].size >= n,
         b[a].next # NULL => ~b[b[a].next].free,
         \A c \in DOMAIN b \ {a} : b[c].free /\ b[c].next # NULL /\ b[c].next # a
                                     => ~b[b[c].next].free
  PROVE  WellFormed(Trim(b, a, n)) /\ TrimmedTo(b, Trim(b, a, n), a, n)
<1> DEFINE tb == Trim(b, a, n)
<1>0. a \in Nat /\ b[a].size \in Nat /\ IsFiniteSet(DOMAIN b) /\ Cardinality(DOMAIN b) \in Nat
  BY Layout, CoalesceCount, Zenon
<1>1. CASE Splits(b, a, n)
  <2> DEFINE r == Rest(a, n)
  <2>1. tb = Split(b, a, n) /\ TrimCount(b, a, n) = 1
    BY <1>1, Zenon DEF Trim, TrimCount
  <2>2. WellFormed(tb) /\ SplitInto(b, tb, a, r, n)
    BY <1>1, <2>1, SplitShape, SplitWellFormed, Zenon
  <2> HIDE DEF tb, r
  <2>3. tb[a].free = b[a].free /\ tb[a].size = n /\ a \in DOMAIN tb
    BY <2>2 DEF SplitInto
  <2>4. InUse(tb) \ {a} = InUse(b) \ {a} /\ \A c \in InUse(b) \ {a} : tb[c] = b[c]
    BY <2>2 DEF SplitInto, InUse
  <2>5. ASSUME NEW c \in DOMAIN tb \ {a}, tb[c].free, tb[c].next # NULL, tb[c].next # a
        PROVE  ~tb[tb[c].next].free
    <3>1. CASE c = r
      <4>1. tb[c].next = b[a].next
        BY <2>2, <3>1 DEF SplitInto
      <4>2. b[a].next \in DOMAIN b \ {a}
        BY <2>5, <4>1, Layout, Zenon
      <4> QED
        BY <2>2, <2>5, <4>1, <4>2, SMTT(60) DEF SplitInto
    <3>2. CASE c # r
      <4>1. c \in DOMAIN b \ {a} /\ tb[c] = b[c]
        BY <2>2, <3>2, Zenon DEF SplitInto
      <4>2. b[c].next \in DOMAIN b \ {a}
        BY <2>5, <4>1, Layout
      <4>3. ~b[b[c].next].free
        BY <2>5, <4>1, Zenon
      <4> QED
        BY <2>2, <4>1, <4>2, <4>3, SMTT(60) DEF SplitInto
    <3> QED
      BY <3>1, <3>2, Zenon
  <2>6. Cardinality(DOMAIN tb) = Cardinality(DOMAIN b) + 1
    BY <1>0, <2>2, FS_AddElement, SMTT(60) DEF SplitInto
  <2> QED
    BY <2>1, <2>2, <2>3, <2>4, <2>5, <2>6 DEF TrimmedTo, HeaderSize, tb
<1>2. CASE ~Splits(b, a, n)
  <2>1. tb = b /\ TrimCount(b, a, n) = 0
    BY <1>2, Zenon DEF Trim, TrimCount
  <2>2. b[a].size < n + HeaderSize + 8
    BY <1>0, <1>2, SMTT(60) DEF Splits, HeaderSize
  <2> HIDE DEF tb
  <2> QED
    BY <1>0, <2>1, <2>2 DEF TrimmedTo, tb
<1> QED
  BY <1>1, <1>2, Zenon

\* malloc: the client gets a block that was free, of n bytes or slightly more.
LEMMA Takes ==
  ASSUME NEW b, Good(b), NEW n \in Nat, Fits(b, n) # {},
         NEW a, a = BestFit(b, n)
  PROVE  /\ a \in DOMAIN b \ InUse(b) /\ a \in Nat
         /\ Good(Taken(b, n))
         /\ Hands(b, Taken(b, n), {}, {a}, Taken(b, n)[a].size)
         /\ Taken(b, n)[a].size \in Nat
         /\ Taken(b, n)[a].size >= n /\ Taken(b, n)[a].size < n + HeaderSize + 8
         /\ Cardinality(DOMAIN Taken(b, n)) = Cardinality(DOMAIN b) + TrimCount(b, a, n)
<1> DEFINE tb == Trim(b, a, n)
           nb == Taken(b, n)
<1>0. WellFormed(b) /\ NoFreePair(b)
  BY Zenon DEF Good
<1>1. a \in DOMAIN b /\ b[a].free /\ b[a].size >= n
  BY <1>0, BestFits, Zenon DEF Fits
<1>2. a \in Nat
  BY <1>0, <1>1, Layout, Zenon
<1>3. WellFormed(tb) /\ TrimmedTo(b, tb, a, n)
  BY <1>0, <1>1, Trims, Zenon DEF NoFreePair
<1>4. nb = [tb EXCEPT ![a].free = FALSE]
  BY Zenon DEF Taken
<1> HIDE DEF tb, nb
<1>5. a \in DOMAIN tb
  BY <1>3, Zenon DEF TrimmedTo
<1>6. WellFormed(nb) /\ Flagged(tb, nb, a, FALSE)
  BY <1>3, <1>4, <1>5, FlagWellFormed, Zenon
<1>7. NoFreePair(nb)
  <2> SUFFICES ASSUME NEW c \in DOMAIN nb, nb[c].free, nb[c].next # NULL
               PROVE  ~nb[nb[c].next].free
    BY Zenon DEF NoFreePair
  <2>1. c \in DOMAIN tb \ {a} /\ nb[c] = tb[c]
    BY <1>6, Zenon DEF Flagged
  <2>2. CASE nb[c].next = a
    BY <1>6, <2>2, Zenon DEF Flagged
  <2>3. CASE nb[c].next # a
    <3>1. tb[c].next \in DOMAIN tb \ {a}
      BY <1>3, <2>1, <2>3, Layout, Zenon
    <3>2. ~tb[tb[c].next].free
      BY <1>3, <2>1, <2>3, Zenon DEF TrimmedTo
    <3> QED
      BY <1>6, <2>1, <3>1, <3>2, Zenon DEF Flagged
  <2> QED
    BY <2>2, <2>3, Zenon
<1>8. Hands(b, nb, {}, {a}, nb[a].size)
  <2>1. InUse(nb) = InUse(b) \cup {a}
    <3>1. InUse(tb) \ {a} = InUse(b) \ {a}
      BY <1>3, Zenon DEF TrimmedTo
    <3>2. InUse(nb) = (InUse(tb) \ {a}) \cup {a}
      BY <1>5, <1>6, Zenon DEF Flagged, InUse
    <3> QED
      BY <3>1, <3>2, Zenon
  <2>2. \A c \in InUse(b) \ {a} : nb[c] = b[c]
    <3>1. \A c \in InUse(b) \ {a} : tb[c] = b[c] /\ c \in InUse(tb) \ {a}
      BY <1>3, Zenon DEF TrimmedTo
    <3> QED
      BY <1>6, <3>1, Zenon DEF Flagged, InUse
  <2> QED
    BY <2>1, <2>2, Zenon DEF Hands
<1>9. nb[a].size = tb[a].size /\ DOMAIN nb = DOMAIN tb
  BY <1>5, <1>6, Zenon DEF Flagged
<1>10. a \notin InUse(b)
  BY <1>1, Zenon DEF InUse
<1>11. /\ nb[a].size \in Nat /\ nb[a].size >= n /\ nb[a].size < n + HeaderSize + 8
       /\ Cardinality(DOMAIN nb) = Cardinality(DOMAIN b) + TrimCount(b, a, n)
  BY <1>3, <1>9, Zenon DEF TrimmedTo
<1> QED
  BY <1>1, <1>2, <1>6, <1>7, <1>8, <1>10, <1>11, Zenon DEF Good, nb

\* realloc growing in place: the client's block is extended over free bytes.
LEMMA Grows ==
  ASSUME NEW b, Good(b), NEW a \in InUse(b), NEW n \in Nat, CanGrow(b, a, n),
         NEW nb, nb = Trim(Joined(b, a), a, n)
  PROVE  /\ Good(nb) /\ Hands(b, nb, {}, {a}, nb[a].size)
         /\ nb[a].size \in Nat /\ nb[a].size >= n /\ nb[a].size < n + HeaderSize + 8
         /\ Cardinality(DOMAIN nb) = Cardinality(DOMAIN b) - 1 + TrimCount(Joined(b, a), a, n)
<1> DEFINE jb == Joined(b, a)
           nx == b[a].next
<1>0. /\ WellFormed(b) /\ NoFreePair(b) /\ a \in DOMAIN b /\ ~b[a].free
      /\ nx # NULL /\ b[nx].free /\ b[a].size + HeaderSize + b[nx].size >= n
  BY Zenon DEF Good, CanGrow, InUse
<1>1. WellFormed(jb) /\ JoinedInto(b, jb, a, nx)
  BY <1>0, JoinWellFormed, Zenon
<1> HIDE DEF jb, nx
<1>2. /\ nx \in DOMAIN b /\ nx # a /\ a < nx /\ nx = BlockEnd(b, a)
      /\ DOMAIN jb = DOMAIN b \ {nx} /\ a \in DOMAIN jb
      /\ jb[a].size >= n /\ ~jb[a].free /\ jb[a].next = b[nx].next
      /\ \A c \in DOMAIN jb \ {a} : jb[c] = b[c]
  BY <1>0, <1>1, SMTT(60) DEF JoinedInto
<1>3. jb[a].next # NULL => ~jb[jb[a].next].free
  <2> SUFFICES ASSUME b[nx].next # NULL PROVE ~jb[b[nx].next].free
    BY <1>2, Zenon
  <2>1. b[nx].next \in DOMAIN b /\ nx < b[nx].next /\ b[nx].next \in Nat /\ nx \in Nat
        /\ a \in Nat
    BY <1>0, <1>2, Layout, Zenon
  <2>2. b[nx].next \in DOMAIN jb \ {a}
    BY <1>2, <2>1, SMTT(60)
  <2>3. ~b[b[nx].next].free
    BY <1>0, <1>2, Zenon DEF NoFreePair
  <2> QED
    BY <1>2, <2>2, <2>3, Zenon
<1>4. \A c \in DOMAIN jb \ {a} : jb[c].free /\ jb[c].next # NULL /\ jb[c].next # a
                                   => ~jb[jb[c].next].free
  <2> SUFFICES ASSUME NEW c \in DOMAIN jb \ {a}, jb[c].free, jb[c].next # NULL, jb[c].next # a
               PROVE  ~jb[jb[c].next].free
    BY Zenon
  <2>1. jb[c] = b[c] /\ c \in DOMAIN b
    BY <1>2, Zenon
  <2>2. jb[c].next \in DOMAIN jb \ {a}
    BY <1>1, Layout, Zenon
  <2>3. ~b[b[c].next].free
    BY <1>0, <2>1, Zenon DEF NoFreePair
  <2> QED
    BY <1>2, <2>1, <2>2, <2>3, Zenon
<1>5. WellFormed(nb) /\ TrimmedTo(jb, nb, a, n)
  <2>1. WellFormed(Trim(jb, a, n)) /\ TrimmedTo(jb, Trim(jb, a, n), a, n)
    BY <1>1, <1>2, <1>3, <1>4, Trims, Zenon
  <2> QED
    BY <2>1, Zenon DEF jb
<1>6. NoFreePair(nb)
  <2> SUFFICES ASSUME NEW c \in DOMAIN nb, nb[c].free, nb[c].next # NULL
               PROVE  ~nb[nb[c].next].free
    BY Zenon DEF NoFreePair
  <2>1. ~nb[a].free
    BY <1>2, <1>5, Zenon DEF TrimmedTo
  <2> QED
    BY <1>5, <2>1, Zenon DEF TrimmedTo
<1>7. Hands(b, nb, {}, {a}, nb[a].size)
  <2>1. a \in InUse(nb) /\ InUse(nb) \ {a} = InUse(jb) \ {a}
        /\ \A c \in InUse(jb) \ {a} : nb[c] = jb[c]
    BY <1>2, <1>5, Zenon DEF TrimmedTo, InUse
  <2>2. InUse(jb) \ {a} = InUse(b) \ {a} /\ \A c \in InUse(b) \ {a} : jb[c] = b[c]
    BY <1>0, <1>2, Zenon DEF InUse
  <2> QED
    BY <2>1, <2>2, Zenon DEF Hands
<1>8. Cardinality(DOMAIN jb) = Cardinality(DOMAIN b) - 1
  <2>1. IsFiniteSet(DOMAIN b)
    BY <1>0, CoalesceCount, Zenon
  <2> QED
    BY <1>2, <2>1, FS_RemoveElement, Zenon
<1> QED
  BY <1>5, <1>6, <1>7, <1>8, Zenon DEF Good, TrimmedTo, jb

-----------------------------------------------------------------------------
(* The clients' side: pointers held and sizes granted. *)

SizeOK(sz, size) == size + 7 < WORD => sz >= size /\ sz < size + 8 + HeaderSize + 8

\* h owns exactly the blocks of b in use, with the room asked for.
Client(h, b) ==
  /\ h \in [DOMAIN h -> Nat]
  /\ DOMAIN h = {a + HeaderSize : a \in InUse(b)}
  /\ \A a \in InUse(b) : SizeOK(b[a].size, h[a + HeaderSize])

\* Rounding a request up never loses bytes unless size + 7 wraps.
LEMMA RoundUpBounds ==
  ASSUME NEW size \in Nat
  PROVE  /\ RoundUp(size) \in Nat
         /\ size + 7 < WORD => RoundUp(size) >= size /\ RoundUp(size) < size + 8
<1> DEFINE w == (size + 7) % WORD
<1>1. w \in Nat /\ (size + 7 < WORD => w = size + 7)
  BY HeapAssumption
<1>2. RoundUp(size) = w - (w % 8)
  BY Zenon DEF RoundUp
<1> HIDE DEF w
<1>3. w % 8 \in 0 .. 7 /\ w % 8 <= w
  BY <1>1
<1> QED
  BY <1>1, <1>2, <1>3

\* Addresses of blocks in use are naturals.
LEMMA InUseNat ==
  ASSUME NEW b, WellFormed(b), NEW a \in InUse(b)
  PROVE  a \in Nat /\ a \in DOMAIN b /\ b[a].size \in Nat /\ ~b[a].free
BY Layout, Zenon DEF InUse

\* Giving a block back leaves every other client with what it had.
LEMMA DropClient ==
  ASSUME NEW h, NEW b, NEW nb, WellFormed(b), Client(h, b),
         NEW a \in InUse(b), Hands(b, nb, {a}, {}, 0)
  PROVE  Client(Drop(h, a + HeaderSize), nb)
<1> DEFINE p == a + HeaderSize
           g == Drop(h, p)
<1>1. DOMAIN g = DOMAIN h \ {p} /\ \A q \in DOMAIN h \ {p} : g[q] = h[q]
  BY Zenon DEF Drop
<1>2. InUse(nb) = InUse(b) \ {a} /\ \A c \in InUse(b) \ {a} : nb[c] = b[c]
  BY Zenon DEF Hands
<1>3. \A c \in InUse(b) : c \in Nat /\ (c # a => c + HeaderSize # p)
  BY InUseNat DEF HeaderSize
<1>4. \A c \in InUse(nb) : c + HeaderSize \in DOMAIN h \ {p}
  BY <1>2, <1>3, Zenon DEF Client
<1>5. DOMAIN g = {c + HeaderSize : c \in InUse(nb)}
  BY <1>1, <1>2, <1>3, <1>4, Zenon DEF Client
<1>6. g \in [DOMAIN g -> Nat]
  BY <1>1, Zenon DEF Client, Drop
<1> HIDE DEF g, p
<1>7. \A c \in InUse(nb) : SizeOK(nb[c].size, g[c + HeaderSize])
  BY <1>1, <1>2, <1>4, Zenon DEF Client
<1> QED
  BY <1>5, <1>6, <1>7, Zenon DEF Client, g, p

\* Taking or resizing block a for its client leaves the others alone.
LEMMA HoldClient ==
  ASSUME NEW h, NEW b, NEW nb, WellFormed(b), Client(h, b), NEW a \in Nat, NEW sz,
         Hands(b, nb, {}, {a}, sz), NEW size \in Nat, SizeOK(sz, size)
  PROVE  Client(Hold(h, a + HeaderSize, size), nb)
<1> DEFINE p == a + HeaderSize
           g == Hold(h, p, size)
<1>1. /\ DOMAIN g = DOMAIN h \cup {p} /\ g[p] = size
      /\ \A q \in DOMAIN h \ {p} : g[q] = h[q]
  BY Zenon DEF Hold
<1>2. /\ InUse(nb) = InUse(b) \cup {a} /\ nb[a].size = sz
      /\ \A c \in InUse(b) \ {a} : nb[c] = b[c]
  BY Zenon DEF Hands
<1>3. \A c \in InUse(b) : c \in Nat /\ (c # a => c + HeaderSize # p)
  BY InUseNat DEF HeaderSize
<1>4. DOMAIN g = {c + HeaderSize : c \in InUse(nb)}
  BY <1>1, <1>2, Zenon DEF Client
<1>5. g \in [DOMAIN g -> Nat]
  BY <1>1, Zenon DEF Client, Hold
<1> HIDE DEF g
<1>6. ASSUME NEW c \in InUse(nb) PROVE SizeOK(nb[c].size, g[c + HeaderSize])
  <2>1. CASE c = a
    BY <1>1, <1>2, <2>1, Zenon
  <2>2. CASE c # a
    <3>1. c \in InUse(b) \ {a} /\ nb[c] = b[c]
      BY <1>2, <2>2, Zenon
    <3>2. c + HeaderSize \in DOMAIN h \ {p}
      BY <1>3, <3>1, Zenon DEF Client
    <3>3. g[c + HeaderSize] = h[c + HeaderSize]
      BY <1>1, <3>2, Zenon
    <3> QED
      BY <3>1, <3>3, Zenon DEF Client
  <2> QED
    BY <2>1, <2>2, Zenon
<1> QED
  BY <1>4, <1>5, <1>6, Zenon DEF Client, g, p

-----------------------------------------------------------------------------
(* The inductive invariant. *)

Counters == heap_allocated \in 0 .. (WORD - 1) /\ heap_freed \in 0 .. (WORD - 1)

IInv == Good(block) /\ Client(held, block) /\ BlockCount /\ Counters

\* A counter that is incremented modulo WORD stays below WORD.
LEMMA CounterWraps ==
  ASSUME NEW x \in Nat, NEW y \in Nat
  PROVE  (x + y) % WORD \in 0 .. (WORD - 1)
BY HeapAssumption

\* A pointer a client holds is the payload of a block in use.
LEMMA HeldInUse ==
  ASSUME IInv, NEW p \in DOMAIN held
  PROVE  HeaderOf(p) \in InUse(block) /\ p = HeaderOf(p) + HeaderSize
         /\ HeaderOf(p) \in Nat /\ HeaderOf(p) \in DOMAIN block
         /\ block[HeaderOf(p)].size \in Nat /\ ~block[HeaderOf(p)].free
<1>0. WellFormed(block)
  BY Zenon DEF IInv, Good
<1>1. PICK a \in InUse(block) : p = a + HeaderSize
  BY Zenon DEF IInv, Client
<1>2. a \in Nat /\ a \in DOMAIN block /\ block[a].size \in Nat /\ ~block[a].free
  BY <1>0, InUseNat, Zenon
<1>3. HeaderOf(p) = a
  BY <1>1, <1>2 DEF HeaderOf, HeaderSize
<1> QED
  BY <1>1, <1>2, <1>3, Zenon

\* heap_init establishes the invariant.
LEMMA InitInv == Init => IInv
<1> SUFFICES ASSUME Init PROVE IInv
  BY Zenon
<1>0. DOMAIN block = {0} /\ block[0] = [size |-> HEAP_SIZE - HeaderSize, free |-> TRUE, next |-> NULL]
  BY Zenon DEF Init
<1>1. HEAP_SIZE - HeaderSize \in Nat /\ BlockEnd(block, 0) = HEAP_SIZE
  BY <1>0, HeapAssumption DEF BlockEnd, HeaderSize
<1>2. Blocks(block)
  <2>1. block[0] \in [size : Nat, free : BOOLEAN, next : {NULL} \cup Nat]
    BY <1>0, <1>1
  <2>2. \A x \in DOMAIN block : x = 0
    BY <1>0, Zenon
  <2>3. BlockEnd(block, 0) <= HEAP_SIZE
    BY <1>1, HeapAssumption
  <2> QED
    BY <2>1, <2>2, <2>3 DEF Blocks
<1>3. Linked(block) /\ Reached(block) /\ NoFreePair(block)
  BY <1>0, <1>1 DEF Linked, Reached, NoFreePair
<1>4. Ordered(block)
  BY <1>0 DEF Ordered
<1>5. Good(block)
  BY <1>2, <1>3, <1>4, Zenon DEF Good, WellFormed
<1>6. InUse(block) = {} /\ DOMAIN held = {} /\ held \in [DOMAIN held -> Nat]
  BY <1>0, Zenon DEF InUse, Init
<1>7. Client(held, block)
  BY <1>6, Zenon DEF Client
<1>8. BlockCount
  BY <1>0, FS_Singleton, Zenon DEF BlockCount, Init
<1>9. Counters
  BY HeapAssumption DEF Counters, Init
<1> QED
  BY <1>5, <1>7, <1>8, <1>9, Zenon DEF IInv

\* A successful malloc preserves it.
LEMMA MallocInv ==
  ASSUME IInv, NEW size \in Nat, Malloc(size)
  PROVE  IInv'
<1> DEFINE n == RoundUp(size)
           a == BestFit(block, n)
<1>1. /\ block' = Taken(block, n) /\ Fits(block, n) # {}
      /\ heap_blocks' = heap_blocks + TrimCount(block, a, n)
      /\ heap_allocated' = (heap_allocated + block'[a].size) % WORD
      /\ held' = Hold(held, a + HeaderSize, size) /\ heap_freed' = heap_freed
  BY Zenon DEF Malloc
<1>2. n \in Nat /\ (size + 7 < WORD => n >= size /\ n < size + 8)
  BY RoundUpBounds, Zenon
<1>3. Good(block) /\ WellFormed(block) /\ Client(held, block) /\ BlockCount /\ Counters
  BY Zenon DEF IInv, Good
<1> HIDE DEF n, a
<1>4. /\ a \in Nat /\ Good(block') /\ Hands(block, block', {}, {a}, block'[a].size)
      /\ block'[a].size \in Nat /\ block'[a].size >= n /\ block'[a].size < n + HeaderSize + 8
      /\ Cardinality(DOMAIN block') = Cardinality(DOMAIN block) + TrimCount(block, a, n)
  BY <1>1, <1>2, <1>3, Takes, Zenon DEF a
<1>5. SizeOK(block'[a].size, size)
  BY <1>2, <1>4, SMTT(30) DEF SizeOK, HeaderSize
<1>6. Client(held', block')
  BY <1>1, <1>3, <1>4, <1>5, HoldClient, Zenon
<1>7. BlockCount'
  BY <1>1, <1>3, <1>4, Zenon DEF BlockCount
<1>8. Counters'
  BY <1>1, <1>3, <1>4, CounterWraps DEF Counters
<1> QED
  BY <1>4, <1>6, <1>7, <1>8, Zenon DEF IInv

\* free preserves it.
LEMMA FreeInv ==
  ASSUME IInv, NEW p \in DOMAIN held, Free(p)
  PROVE  IInv'
<1> DEFINE a == HeaderOf(p)
<1>1. /\ block' = heap_coalesce(Freed(block, a))
      /\ heap_blocks' = heap_blocks - Cardinality(Absorbed(Freed(block, a)))
      /\ heap_freed' = (heap_freed + block[a].size) % WORD
      /\ held' = Drop(held, p) /\ heap_allocated' = heap_allocated
  BY Zenon DEF Free
<1>2. Good(block) /\ WellFormed(block) /\ Client(held, block) /\ BlockCount /\ Counters
  BY Zenon DEF IInv, Good
<1>3. a \in InUse(block) /\ p = a + HeaderSize /\ block[a].size \in Nat
  BY HeldInUse, Zenon
<1> HIDE DEF a
<1>4. /\ Good(block') /\ Hands(block, block', {a}, {}, 0)
      /\ Cardinality(DOMAIN block') = Cardinality(DOMAIN block) - Cardinality(Absorbed(Freed(block, a)))
  BY <1>1, <1>2, <1>3, Releases, Zenon
<1>5. Client(held', block')
  BY <1>1, <1>2, <1>3, <1>4, DropClient, Zenon
<1>6. BlockCount'
  BY <1>1, <1>2, <1>4, Zenon DEF BlockCount
<1>7. Counters'
  BY <1>1, <1>2, <1>3, CounterWraps DEF Counters
<1> QED
  BY <1>4, <1>5, <1>6, <1>7, Zenon DEF IInv

\* realloc to a size the block has room for preserves it.
LEMMA ShrinkInv ==
  ASSUME IInv, NEW p \in DOMAIN held, NEW size \in Nat, ReallocShrink(p, size)
  PROVE  IInv'
<1> DEFINE a == HeaderOf(p)
           n == RoundUp(size)
           sb == Split(block, a, n)
<1>1. /\ block[a].size >= n
      /\ Splits(block, a, n) => /\ block' = heap_coalesce(sb)
                                /\ heap_blocks' = heap_blocks + 1 - Cardinality(Absorbed(sb))
                                /\ heap_freed' = (heap_freed + (block[a].size - n)) % WORD
      /\ ~Splits(block, a, n) => /\ block' = block /\ heap_blocks' = heap_blocks
                                 /\ heap_freed' = heap_freed
      /\ held' = Hold(held, p, size) /\ heap_allocated' = heap_allocated
  BY Zenon DEF ReallocShrink
<1>2. n \in Nat /\ (size + 7 < WORD => n >= size /\ n < size + 8)
  BY RoundUpBounds, Zenon
<1>3. Good(block) /\ WellFormed(block) /\ Client(held, block) /\ BlockCount /\ Counters
  BY Zenon DEF IInv, Good
<1>4. a \in InUse(block) /\ a \in Nat /\ p = a + HeaderSize /\ block[a].size \in Nat
  BY HeldInUse, Zenon
<1> HIDE DEF n, a, sb
<1>5. CASE Splits(block, a, n)
  <2>1. /\ Good(block') /\ Hands(block, block', {}, {a}, n)
        /\ Cardinality(DOMAIN block') = Cardinality(DOMAIN block) + 1 - Cardinality(Absorbed(sb))
    BY <1>1, <1>2, <1>3, <1>4, <1>5, Shrinks, Zenon DEF sb
  <2>2. SizeOK(n, size)
    BY <1>2, SMTT(30) DEF SizeOK, HeaderSize
  <2>3. Client(held', block')
    BY <1>1, <1>3, <1>4, <2>1, <2>2, HoldClient, Zenon
  <2>4. BlockCount'
    BY <1>1, <1>3, <1>5, <2>1, Zenon DEF BlockCount
  <2>5. block[a].size - n \in Nat
    BY <1>1, <1>2, <1>4, SMTT(60)
  <2>6. Counters'
    BY <1>1, <1>3, <1>5, <2>5, CounterWraps, SMTT(60) DEF Counters
  <2> QED
    BY <2>1, <2>3, <2>4, <2>6, Zenon DEF IInv
<1>6. CASE ~Splits(block, a, n)
  <2>1. Hands(block, block, {}, {a}, block[a].size)
    BY <1>4, Zenon DEF Hands
  <2>2. SizeOK(block[a].size, size)
    BY <1>1, <1>2, <1>4, <1>6, SMTT(60) DEF SizeOK, Splits, HeaderSize
  <2>3. Client(held', block)
    BY <1>1, <1>3, <1>4, <2>1, <2>2, HoldClient, Zenon
  <2> QED
    BY <1>1, <1>3, <1>6, <2>3, Zenon DEF IInv, BlockCount, Counters
<1> QED
  BY <1>5, <1>6, Zenon

\* realloc growing in place preserves it.
LEMMA GrowInv ==
  ASSUME IInv, NEW p \in DOMAIN held, NEW size \in Nat, ReallocGrow(p, size)
  PROVE  IInv'
<1> DEFINE a == HeaderOf(p)
           n == RoundUp(size)
           jb == Joined(block, a)
<1>1. /\ block[a].size < n /\ CanGrow(block, a, n)
      /\ block' = Trim(jb, a, n)
      /\ heap_blocks' = heap_blocks - 1 + TrimCount(jb, a, n)
      /\ heap_allocated' = (heap_allocated + (n - block[a].size)) % WORD
      /\ held' = Hold(held, p, size) /\ heap_freed' = heap_freed
  BY Zenon DEF ReallocGrow
<1>2. n \in Nat /\ (size + 7 < WORD => n >= size /\ n < size + 8)
  BY RoundUpBounds
<1>3. Good(block) /\ WellFormed(block) /\ Client(held, block) /\ BlockCount /\ Counters
  BY DEF IInv, Good
<1>4. a \in InUse(block) /\ a \in Nat /\ p = a + HeaderSize /\ block[a].size \in Nat
  BY HeldInUse
<1> HIDE DEF n, a
<1>5. /\ Good(block') /\ Hands(block, block', {}, {a}, block'[a].size)
      /\ block'[a].size \in Nat /\ block'[a].size >= n /\ block'[a].size < n + HeaderSize + 8
      /\ Cardinality(DOMAIN block') = Cardinality(DOMAIN block) - 1 + TrimCount(jb, a, n)
  BY <1>1, <1>2, <1>3, <1>4, Grows, Zenon
<1> HIDE DEF jb
<1>6. SizeOK(block'[a].size, size)
  BY <1>2, <1>5 DEF SizeOK, HeaderSize
<1>7. Client(held', block')
  BY <1>1, <1>3, <1>4, <1>5, <1>6, HoldClient, Zenon
<1>8. BlockCount'
  BY <1>1, <1>3, <1>5, Zenon DEF BlockCount
<1>9. Counters'
  <2>1. n - block[a].size \in Nat
    BY <1>1, <1>2, <1>4
  <2> QED
    <3>1. heap_allocated \in Nat /\ heap_freed \in 0 .. (WORD - 1)
      BY <1>3, HeapAssumption DEF Counters
    <3>2. heap_allocated' \in 0 .. (WORD - 1)
      BY <1>1, <2>1, <3>1, CounterWraps, Zenon
    <3> QED
      BY <1>1, <3>1, <3>2, Zenon DEF Counters
<1> QED
  BY <1>5, <1>7, <1>8, <1>9, Zenon DEF IInv

\* Two updates of held at different pointers commute.
LEMMA DropHold ==
  ASSUME NEW h, NEW p, NEW q, p # q, NEW size
  PROVE  Hold(Drop(h, p), q, size) = Drop(Hold(h, q, size), p)
BY Zenon DEF Hold, Drop

\* realloc by malloc, copy and free preserves it.
LEMMA MoveInv ==
  ASSUME IInv, NEW p \in DOMAIN held, NEW size \in Nat, ReallocMove(p, size)
  PROVE  IInv'
<1> DEFINE a == HeaderOf(p)
           n == RoundUp(size)
           to == BestFit(block, n)
           tb == Taken(block, n)
<1>1. /\ Fits(block, n) # {}
      /\ block' = heap_coalesce(Freed(tb, a))
      /\ heap_blocks' = heap_blocks + TrimCount(block, to, n) - Cardinality(Absorbed(Freed(tb, a)))
      /\ heap_allocated' = (heap_allocated + tb[to].size) % WORD
      /\ heap_freed' = (heap_freed + block[a].size) % WORD
      /\ held' = Hold(Drop(held, p), to + HeaderSize, size)
  BY Zenon DEF ReallocMove
<1>2. n \in Nat /\ (size + 7 < WORD => n >= size /\ n < size + 8)
  BY RoundUpBounds
<1>3. Good(block) /\ WellFormed(block) /\ Client(held, block) /\ BlockCount /\ Counters
  BY DEF IInv, Good
<1>4. a \in InUse(block) /\ a \in Nat /\ p = a + HeaderSize /\ block[a].size \in Nat
  BY HeldInUse
<1> HIDE DEF n, a
<1>5. /\ to \in Nat /\ to \notin InUse(block)
      /\ Good(tb) /\ WellFormed(tb) /\ Hands(block, tb, {}, {to}, tb[to].size)
      /\ tb[to].size \in Nat /\ tb[to].size >= n /\ tb[to].size < n + HeaderSize + 8
      /\ Cardinality(DOMAIN tb) = Cardinality(DOMAIN block) + TrimCount(block, to, n)
  BY <1>1, <1>2, <1>3, Takes, Zenon DEF Good
<1> HIDE DEF to, tb
<1>6. a \in InUse(tb) /\ a # to
  BY <1>4, <1>5, Zenon DEF Hands
<1>7. /\ Good(block') /\ Hands(tb, block', {a}, {}, 0)
      /\ Cardinality(DOMAIN block') = Cardinality(DOMAIN tb) - Cardinality(Absorbed(Freed(tb, a)))
  BY <1>1, <1>5, <1>6, Releases, Zenon
<1>8. SizeOK(tb[to].size, size)
  BY <1>2, <1>5, SMTT(60) DEF SizeOK, HeaderSize
<1>9. Client(Hold(held, to + HeaderSize, size), tb)
  BY <1>3, <1>5, <1>8, HoldClient, Zenon
<1>10. Client(Drop(Hold(held, to + HeaderSize, size), p), block')
  BY <1>4, <1>5, <1>6, <1>7, <1>9, DropClient, Zenon
<1>11. p # to + HeaderSize
  BY <1>4, <1>5, <1>6, SMTT(60) DEF HeaderSize
<1>12. Client(held', block')
  BY <1>1, <1>10, <1>11, DropHold, SMTT(60)
<1>13. BlockCount'
  <2>1. heap_blocks = Cardinality(DOMAIN block)
    BY <1>3, Zenon DEF BlockCount
  <2>2. heap_blocks' = Cardinality(DOMAIN tb) - Cardinality(Absorbed(Freed(tb, a)))
    <3>1. Cardinality(DOMAIN block) \in Nat /\ TrimCount(block, to, n) \in Nat
      BY <1>3, CoalesceCount, Zenon DEF TrimCount
    <3>2. WellFormed(Freed(tb, a))
      BY <1>5, <1>6, FlagWellFormed, InUseNat, Zenon DEF Freed
    <3>3. Cardinality(Absorbed(Freed(tb, a))) \in Nat
      BY <3>2, CoalesceCount, Zenon
    <3> QED
      BY <1>1, <1>5, <2>1, <3>1, <3>3, SMTT(60)
  <2> QED
    BY <1>7, <2>2, Zenon DEF BlockCount
<1>14. Counters'
  <2>1. heap_allocated \in Nat /\ heap_freed \in Nat
    BY <1>3, HeapAssumption DEF Counters
  <2>2. heap_allocated' \in 0 .. (WORD - 1)
    BY <1>1, <1>5, <2>1, CounterWraps, Zenon
  <2>3. heap_freed' \in 0 .. (WORD - 1)
    BY <1>1, <1>4, <2>1, CounterWraps, Zenon
  <2> QED
    BY <2>2, <2>3, Zenon DEF Counters
<1> QED
  BY <1>7, <1>12, <1>13, <1>14, Zenon DEF IInv

\* Every step of the specification preserves the invariant.
LEMMA NextInv == IInv /\ [Next]_vars => IInv'
<1> SUFFICES ASSUME IInv, [Next]_vars PROVE IInv'
  BY Zenon
<1>0. MallocSizes \subseteq Nat /\ ReallocSizes \subseteq Nat
  BY HeapAssumption, Zenon
<1>1. ASSUME UNCHANGED vars PROVE IInv'
  BY <1>1, Zenon DEF IInv, vars, BlockCount, Counters
<1>2. ASSUME NEW size \in MallocSizes, Malloc(size) PROVE IInv'
  BY <1>0, <1>2, MallocInv, Zenon
<1>3. ASSUME NEW size \in MallocSizes, MallocFails(size) PROVE IInv'
  BY <1>1, <1>3, Zenon DEF MallocFails
<1>4. ASSUME NEW p \in DOMAIN held, Free(p) PROVE IInv'
  BY <1>4, FreeInv, Zenon
<1>5. ASSUME NEW p \in DOMAIN held, NEW size \in ReallocSizes, ReallocShrink(p, size) PROVE IInv'
  BY <1>0, <1>5, ShrinkInv, Zenon
<1>6. ASSUME NEW p \in DOMAIN held, NEW size \in ReallocSizes, ReallocGrow(p, size) PROVE IInv'
  BY <1>0, <1>6, GrowInv, Zenon
<1>7. ASSUME NEW p \in DOMAIN held, NEW size \in ReallocSizes, ReallocMove(p, size) PROVE IInv'
  BY <1>0, <1>7, MoveInv
<1>8. ASSUME NEW p \in DOMAIN held, NEW size \in ReallocSizes, ReallocFails(p, size) PROVE IInv'
  BY <1>1, <1>8, Zenon DEF ReallocFails
<1> QED
  BY <1>1, <1>2, <1>3, <1>4, <1>5, <1>6, <1>7, <1>8, Zenon DEF Next

\* The invariant holds after any sequence of calls.
THEOREM Invariance == Spec => []IInv
BY InitInv, NextInv, PTL DEF Spec

-----------------------------------------------------------------------------
(* What follows. *)

\* Every header, counter and pointer stays in range.
THEOREM TypeCorrect == Spec => []TypeOK
<1>1. IInv => TypeOK
  <2> SUFFICES ASSUME IInv PROVE TypeOK
    BY Zenon
  <2>1. WellFormed(block) /\ Client(held, block) /\ BlockCount /\ Counters
    BY Zenon DEF IInv, Good
  <2>2. ASSUME NEW a \in DOMAIN block
        PROVE  a \in 0 .. HEAP_SIZE /\ a + HeaderSize \in 0 .. HEAP_SIZE /\ block[a] \in BlockType
    <3>1. /\ a \in Nat /\ block[a].size \in Nat /\ BlockEnd(block, a) <= HEAP_SIZE
          /\ block[a].next # NULL => block[a].next = BlockEnd(block, a)
      BY <2>1, Layout, Zenon
    <3>2. block[a] \in [size : Nat, free : BOOLEAN, next : {NULL} \cup Nat]
      BY <2>1, Zenon DEF WellFormed, Blocks
    <3>3. a + HeaderSize + block[a].size <= HEAP_SIZE
      BY <3>1, Zenon DEF BlockEnd
    <3>4. a \in 0 .. HEAP_SIZE /\ a + HeaderSize \in 0 .. HEAP_SIZE
          /\ block[a].size \in 0 .. HEAP_SIZE
      BY <3>1, <3>3, HeapAssumption DEF HeaderSize
    <3>5. block[a].next \in {NULL} \cup (0 .. HEAP_SIZE)
      BY <3>1, <3>2, HeapAssumption
    <3> QED
      BY <3>2, <3>4, <3>5, Zenon DEF BlockType
  <2>3. DOMAIN held \subseteq 0 .. HEAP_SIZE
    BY <2>1, <2>2, Zenon DEF Client, InUse
  <2>4. heap_blocks \in Nat
    BY <2>1, CoalesceCount, Zenon DEF BlockCount
  <2> QED
    BY <2>1, <2>2, <2>3, <2>4, Zenon DEF TypeOK, Counters, Client
<1> QED
  BY <1>1, Invariance, PTL

\* malloc, free and realloc keep the blocks tiling the arena.
THEOREM TilingHolds == Spec => []Tiling
<1>1. IInv => Tiling
  BY Zenon DEF IInv, Good, WellFormed, Tiling
<1> QED
  BY <1>1, Invariance, PTL

\* No two neighbouring blocks are ever both free.
THEOREM CoalescedHolds == Spec => []FullyCoalesced
<1>1. IInv => FullyCoalesced
  BY Zenon DEF IInv, Good, FullyCoalesced
<1> QED
  BY <1>1, Invariance, PTL

\* The blocks in use are exactly the ones clients hold.
THEOREM OwnershipHolds == Spec => []Ownership
<1>1. IInv => Ownership
  BY Zenon DEF IInv, Client, Ownership
<1> QED
  BY <1>1, Invariance, PTL

\* A client always has the bytes it asked for.
THEOREM GrantsHold == Spec => []Grants
<1>1. IInv => Grants
  <2> SUFFICES ASSUME IInv, NEW p \in DOMAIN held, held[p] + 7 < WORD
               PROVE  /\ block[HeaderOf(p)].size >= held[p]
                      /\ block[HeaderOf(p)].size < held[p] + 8 + HeaderSize + 8
    BY Zenon DEF Grants
  <2>1. HeaderOf(p) \in InUse(block) /\ p = HeaderOf(p) + HeaderSize
    BY HeldInUse, Zenon
  <2>2. SizeOK(block[HeaderOf(p)].size, held[p])
    BY <2>1, Zenon DEF IInv, Client
  <2> QED
    BY <2>2, Zenon DEF SizeOK
<1> QED
  BY <1>1, Invariance, PTL

\* Every block in use is one client's, and as large as the client asked.
THEOREM ClientsServedHolds == Spec => []ClientsServed
<1>1. Ownership /\ Grants => ClientsServed
  BY Zenon DEF ClientsServed
<1> QED
  BY <1>1, OwnershipHolds, GrantsHold, PTL

\* heap_blocks counts the blocks in the list.
THEOREM BlockCountHolds == Spec => []BlockCount
<1>1. IInv => BlockCount
  BY Zenon DEF IInv
<1> QED
  BY <1>1, Invariance, PTL

\* When every pointer has been given back, the arena is one free block again.
THEOREM EmptyIsWholeHolds == Spec => []EmptyIsWhole
<1>1. IInv => EmptyIsWhole
  <2> SUFFICES ASSUME IInv, DOMAIN held = {}
               PROVE  /\ DOMAIN block = {0}
                      /\ block[0] = [size |-> HEAP_SIZE - HeaderSize, free |-> TRUE, next |-> NULL]
    BY Zenon DEF EmptyIsWhole
  <2>1. WellFormed(block) /\ NoFreePair(block) /\ Client(held, block)
    BY Zenon DEF IInv, Good
  <2>2. \A a \in DOMAIN block : block[a].free
    BY <2>1, Zenon DEF Client, InUse
  <2>3. 0 \in DOMAIN block
    BY <2>1, Zenon DEF WellFormed, Reached
  <2>4. block[0].next = NULL /\ BlockEnd(block, 0) = HEAP_SIZE /\ block[0].size \in Nat
    BY <2>1, <2>2, <2>3, Layout, Zenon DEF NoFreePair
  <2>5. \A c \in DOMAIN block : c = 0
    <3> SUFFICES ASSUME NEW c \in DOMAIN block, c # 0 PROVE FALSE
      BY Zenon
    <3>1. c \in Nat /\ c < BlockEnd(block, c) /\ BlockEnd(block, c) <= HEAP_SIZE
          /\ BlockEnd(block, c) \in Nat
      BY <2>1, Layout, Zenon
    <3>2. BlockEnd(block, 0) <= c
      BY <2>1, <2>3, <3>1 DEF WellFormed, Ordered
    <3> QED
      BY <2>4, <3>1, <3>2, HeapAssumption
  <2>6. block[0].size = HEAP_SIZE - HeaderSize
    BY <2>4, HeapAssumption DEF BlockEnd, HeaderSize
  <2>7. block[0] \in [size : Nat, free : BOOLEAN, next : {NULL} \cup Nat]
    BY <2>1, <2>3, Zenon DEF WellFormed, Blocks
  <2> QED
    BY <2>2, <2>3, <2>4, <2>5, <2>6, <2>7, Zenon
<1> QED
  BY <1>1, Invariance, PTL

-----------------------------------------------------------------------------
(* The heap implements Allocator. *)

GrantOf(h, b) == [p \in DOMAIN h |-> b[HeaderOf(p)].size]

\* Regions of a well-formed heap lie inside the arena and apart.
LEMMA RegionsApart ==
  ASSUME NEW b, WellFormed(b), NEW a \in InUse(b)
  PROVE  /\ 0 <= a + HeaderSize /\ a + HeaderSize + b[a].size <= HEAP_SIZE
         /\ HeaderOf(a + HeaderSize) = a
         /\ \A c \in InUse(b) \ {a} :
              \/ a + HeaderSize + b[a].size <= c + HeaderSize
              \/ c + HeaderSize + b[c].size <= a + HeaderSize
<1>1. \A c \in InUse(b) : c \in Nat /\ c \in DOMAIN b /\ b[c].size \in Nat
                          /\ BlockEnd(b, c) <= HEAP_SIZE
  BY Layout, Zenon DEF InUse
<1>2. \A c \in InUse(b) \ {a} : BlockEnd(b, a) <= c \/ BlockEnd(b, c) <= a
  BY <1>1 DEF WellFormed, Ordered
<1>3. a \in Nat /\ b[a].size \in Nat /\ BlockEnd(b, a) <= HEAP_SIZE
  BY <1>1, Zenon
<1>4. HeaderOf(a + HeaderSize) = a /\ 0 <= a + HeaderSize /\ a + HeaderSize + b[a].size <= HEAP_SIZE
  BY <1>3 DEF BlockEnd, HeaderSize, HeaderOf
<1>5. ASSUME NEW c \in InUse(b) \ {a}
      PROVE  a + HeaderSize + b[a].size <= c + HeaderSize \/ c + HeaderSize + b[c].size <= a + HeaderSize
  <2>1. c \in Nat /\ b[c].size \in Nat /\ (BlockEnd(b, a) <= c \/ BlockEnd(b, c) <= a)
    BY <1>1, <1>2, Zenon
  <2> QED BY <1>3, <2>1 DEF BlockEnd, HeaderSize
<1> QED
  BY <1>4, <1>5, Zenon

\* The grants change from G to NG by region p getting sz bytes for a request
\* of size bytes, inside the arena and clear of all other regions.
Regrant(G, NG, p, sz, size) ==
  /\ NG = [q \in DOMAIN G \cup {p} |-> IF q = p THEN sz ELSE G[q]]
  /\ NG[p] = sz /\ 0 <= p /\ p + sz <= HEAP_SIZE
  /\ size < WORD - 7 => sz >= size
  /\ \A q \in DOMAIN G \ {p} : p + sz <= q \/ q + G[q] <= p

\* Handing block a out, or resizing it, is one allowed change of the grants.
LEMMA GrantStep ==
  ASSUME NEW h, NEW b, NEW nb, WellFormed(b), WellFormed(nb), Client(h, b), NEW a \in Nat, NEW sz,
         Hands(b, nb, {}, {a}, sz), NEW size \in Nat, SizeOK(sz, size),
         NEW p, p = a + HeaderSize
  PROVE  Regrant(GrantOf(h, b), GrantOf(Hold(h, p, size), nb), p, sz, size)
<1> DEFINE G == GrantOf(h, b)
           NG == GrantOf(Hold(h, p, size), nb)
<1>1. DOMAIN G = DOMAIN h /\ \A q \in DOMAIN h : G[q] = b[HeaderOf(q)].size
  BY Zenon DEF GrantOf
<1>a. NG = [q \in DOMAIN h \cup {p} |-> nb[HeaderOf(q)].size]
  BY Zenon DEF GrantOf, Hold
<1> HIDE DEF G, NG
<1>2. /\ InUse(nb) = InUse(b) \cup {a} /\ nb[a].size = sz
      /\ \A c \in InUse(b) \ {a} : nb[c] = b[c]
  BY Zenon DEF Hands
<1>3. \A c \in InUse(b) : c \in Nat /\ HeaderOf(c + HeaderSize) = c
  BY InUseNat DEF HeaderOf, HeaderSize
<1>4. \A q \in DOMAIN h : HeaderOf(q) \in InUse(b) /\ q = HeaderOf(q) + HeaderSize
  BY <1>3, Zenon DEF Client
<1>5. HeaderOf(p) = a
  BY SMTT(30) DEF HeaderOf, HeaderSize
<1>6. \A q \in DOMAIN h \ {p} : nb[HeaderOf(q)].size = G[q]
  BY <1>1, <1>2, <1>4, Zenon
<1>7. NG = [q \in DOMAIN G \cup {p} |-> IF q = p THEN sz ELSE G[q]]
  BY <1>a, <1>1, <1>2, <1>5, <1>6, Zenon
<1>8. /\ 0 <= a + HeaderSize /\ a + HeaderSize + sz <= HEAP_SIZE
      /\ \A c \in InUse(nb) \ {a} : \/ a + HeaderSize + sz <= c + HeaderSize
                                    \/ c + HeaderSize + nb[c].size <= a + HeaderSize
  BY <1>2, RegionsApart, Zenon
<1>9. size < WORD - 7 => sz >= size
  BY HeapAssumption, SMTT(30) DEF SizeOK
<1>10. ASSUME NEW q \in DOMAIN G \ {p} PROVE p + sz <= q \/ q + G[q] <= p
  <2>1. HeaderOf(q) \in InUse(nb) \ {a} /\ q = HeaderOf(q) + HeaderSize
        /\ nb[HeaderOf(q)].size = G[q]
    BY <1>1, <1>2, <1>4, <1>6, Zenon
  <2> QED
    BY <1>8, <2>1, Zenon
<1> QED
  BY <1>1, <1>7, <1>8, <1>9, <1>10, Zenon DEF Regrant, G, NG

Ungrant(G, p) == [q \in DOMAIN G \ {p} |-> G[q]]

\* Giving block a back only removes its grant.
LEMMA ReleaseStep ==
  ASSUME NEW h, NEW b, NEW nb, WellFormed(b), Client(h, b),
         NEW a \in InUse(b), Hands(b, nb, {a}, {}, 0), NEW p, p = a + HeaderSize
  PROVE  GrantOf(Drop(h, p), nb) = Ungrant(GrantOf(h, b), p)
<1>1. DOMAIN GrantOf(h, b) = DOMAIN h /\ \A q \in DOMAIN h : GrantOf(h, b)[q] = b[HeaderOf(q)].size
  BY Zenon DEF GrantOf
<1>2. \A c \in InUse(b) : c \in Nat /\ HeaderOf(c + HeaderSize) = c
  BY InUseNat DEF HeaderOf, HeaderSize
<1>3. \A q \in DOMAIN h \ {p} : HeaderOf(q) \in InUse(b) \ {a}
  BY <1>2 DEF Client
<1>4. \A q \in DOMAIN h \ {p} : nb[HeaderOf(q)].size = b[HeaderOf(q)].size
  BY <1>3, Zenon DEF Hands
<1>5. GrantOf(Drop(h, p), nb) = [q \in DOMAIN h \ {p} |-> nb[HeaderOf(q)].size]
  BY Zenon DEF GrantOf, Drop
<1> QED
  BY <1>1, <1>4, <1>5 DEF Ungrant

\* A successful malloc is an abstract allocation.
LEMMA MallocRefines ==
  ASSUME IInv, IInv', NEW size \in Nat, Malloc(size)
  PROVE  A!ANext
<1> DEFINE n == RoundUp(size)
           a == BestFit(block, n)
           p == a + HeaderSize
           sz == block'[a].size
<1>1. /\ block' = Taken(block, n) /\ Fits(block, n) # {} /\ held' = Hold(held, p, size)
  BY Zenon DEF Malloc
<1>2. n \in Nat /\ (size + 7 < WORD => n >= size /\ n < size + 8)
  BY RoundUpBounds, Zenon
<1>3. Good(block) /\ WellFormed(block) /\ Client(held, block) /\ WellFormed(block')
  BY Zenon DEF IInv, Good
<1>4. /\ a \in Nat /\ a \notin InUse(block) /\ Hands(block, block', {}, {a}, sz)
      /\ sz \in Nat /\ sz >= n /\ sz < n + HeaderSize + 8
  BY <1>1, <1>2, <1>3, Takes, Zenon
<1> HIDE DEF n, a, sz
<1>5. SizeOK(sz, size)
  BY <1>2, <1>4, SMTT(30) DEF SizeOK, HeaderSize
<1>6. Granted = GrantOf(held, block) /\ Granted' = GrantOf(Hold(held, p, size), block')
  BY <1>1, Zenon DEF Granted, GrantOf
<1> HIDE DEF p
<1>7. DOMAIN Granted = DOMAIN held /\ Regrant(Granted, Granted', p, sz, size)
  <2>1. Regrant(GrantOf(held, block), GrantOf(Hold(held, p, size), block'), p, sz, size)
    BY <1>3, <1>4, <1>5, GrantStep, Zenon DEF p
  <2> QED
    BY <1>6, <2>1, Zenon DEF Granted
<1>8. p \notin DOMAIN held
  <2>1. \A c \in InUse(block) : c \in Nat /\ c # a
    BY <1>3, <1>4, InUseNat, Zenon
  <2> QED
    BY <1>3, <1>4, <2>1, SMTT(30) DEF Client, p, HeaderSize
<1>9. held'[p] = size /\ held' = A!Set(held, p, held'[p])
  BY <1>1, Zenon DEF Hold, A!Set
<1>10. Granted' = A!Set(Granted, p, Granted'[p])
  BY <1>7, Zenon DEF A!Set, Regrant
<1>11. p \in DOMAIN Granted' \ DOMAIN Granted
  BY <1>7, <1>8, Zenon DEF Regrant
<1>12. /\ A!Inside(p, Granted'[p]) /\ A!Covers(Granted'[p], held'[p])
       /\ \A q \in DOMAIN Granted : A!Apart(p, Granted'[p], q)
  BY <1>7, <1>8, <1>9, Zenon DEF Regrant, A!Inside, A!Covers, A!Apart
<1>13. A!Alloc(p)
  BY <1>9, <1>10, <1>11, <1>12, Zenon DEF A!Alloc
<1> QED
  BY <1>11, <1>13, Zenon DEF A!ANext

\* free is an abstract release.
LEMMA FreeRefines ==
  ASSUME IInv, NEW p \in DOMAIN held, Free(p)
  PROVE  A!ANext
<1> DEFINE a == HeaderOf(p)
<1>1. block' = heap_coalesce(Freed(block, a)) /\ held' = Drop(held, p)
  BY Zenon DEF Free
<1>2. WellFormed(block) /\ Client(held, block)
  BY Zenon DEF IInv, Good
<1>3. a \in InUse(block) /\ p = a + HeaderSize
  BY HeldInUse, Zenon
<1> HIDE DEF a
<1>4. Hands(block, block', {a}, {}, 0)
  BY <1>1, <1>2, <1>3, Releases, Zenon
<1>5. GrantOf(Drop(held, p), block') = Ungrant(GrantOf(held, block), p)
  BY <1>2, <1>3, <1>4, ReleaseStep, SMTT(30)
<1>6. Granted = GrantOf(held, block) /\ Granted' = GrantOf(Drop(held, p), block')
      /\ DOMAIN Granted = DOMAIN held
  BY <1>1, Zenon DEF Granted, GrantOf
<1>7. Granted' = A!Unset(Granted, p)
  BY <1>5, <1>6, Zenon DEF A!Unset, Ungrant
<1>8. held' = A!Unset(held, p)
  BY <1>1, Zenon DEF Drop, A!Unset
<1>9. A!Release(p) /\ p \in DOMAIN Granted
  BY <1>6, <1>7, <1>8, Zenon DEF A!Release
<1> QED
  BY <1>9, Zenon DEF A!ANext

\* Any step that leaves the client at p with a block resized in place is an
\* abstract resize.
LEMMA ResizeStep ==
  ASSUME IInv, IInv', NEW p \in DOMAIN held, NEW size \in Nat, NEW sz,
         held' = Hold(held, p, size), Hands(block, block', {}, {HeaderOf(p)}, sz), SizeOK(sz, size)
  PROVE  A!ANext
<1>1. WellFormed(block) /\ Client(held, block) /\ WellFormed(block')
  BY Zenon DEF IInv, Good
<1>2. HeaderOf(p) \in Nat /\ p = HeaderOf(p) + HeaderSize
  BY HeldInUse, Zenon
<1>3. Regrant(GrantOf(held, block), GrantOf(Hold(held, p, size), block'), p, sz, size)
  BY <1>1, <1>2, GrantStep, Zenon
<1>4. Granted = GrantOf(held, block) /\ Granted' = GrantOf(Hold(held, p, size), block')
      /\ DOMAIN Granted = DOMAIN held
  BY Zenon DEF Granted, GrantOf
<1>5. Regrant(Granted, Granted', p, sz, size)
  BY <1>3, <1>4, Zenon
<1>6. held'[p] = size /\ held' = A!Set(held, p, held'[p])
  BY Zenon DEF Hold, A!Set
<1>7. Granted' = A!Set(Granted, p, Granted'[p]) /\ p \in DOMAIN Granted \cap DOMAIN Granted'
  BY <1>4, <1>5, Zenon DEF A!Set, Regrant
<1>8. /\ A!Inside(p, Granted'[p]) /\ A!Covers(Granted'[p], held'[p])
      /\ \A q \in DOMAIN Granted \ {p} : A!Apart(p, Granted'[p], q)
  BY <1>5, <1>6, Zenon DEF Regrant, A!Inside, A!Covers, A!Apart
<1>9. A!Resize(p)
  BY <1>6, <1>7, <1>8, Zenon DEF A!Resize
<1> QED
  BY <1>7, <1>9, Zenon DEF A!ANext

\* realloc in place, smaller or larger, is an abstract resize.
LEMMA ShrinkRefines ==
  ASSUME IInv, IInv', NEW p \in DOMAIN held, NEW size \in Nat, ReallocShrink(p, size)
  PROVE  A!ANext
<1> DEFINE a == HeaderOf(p)
           n == RoundUp(size)
<1>1. /\ block[a].size >= n /\ held' = Hold(held, p, size)
      /\ Splits(block, a, n) => block' = heap_coalesce(Split(block, a, n))
      /\ ~Splits(block, a, n) => block' = block
  BY Zenon DEF ReallocShrink
<1>2. n \in Nat /\ (size + 7 < WORD => n >= size /\ n < size + 8)
  BY RoundUpBounds, Zenon
<1>3. a \in InUse(block) /\ block[a].size \in Nat
  BY HeldInUse, Zenon
<1>4. WellFormed(block)
  BY Zenon DEF IInv, Good
<1> HIDE DEF a, n
<1>5. CASE Splits(block, a, n)
  <2>1. Hands(block, block', {}, {a}, n)
    BY <1>1, <1>2, <1>3, <1>4, <1>5, Shrinks, Zenon
  <2>2. SizeOK(n, size)
    BY <1>2, SMTT(30) DEF SizeOK, HeaderSize
  <2>3. held' = Hold(held, p, size) /\ Hands(block, block', {}, {HeaderOf(p)}, n)
    BY <1>1, <2>1, Zenon DEF a
  <2> QED
    BY <2>2, <2>3, ResizeStep, Zenon
<1>6. CASE ~Splits(block, a, n)
  <2>1. Hands(block, block', {}, {a}, block[a].size)
    BY <1>1, <1>3, <1>6, Zenon DEF Hands
  <2>2. SizeOK(block[a].size, size)
    BY <1>1, <1>2, <1>3, <1>6, SMTT(60) DEF SizeOK, Splits, HeaderSize
  <2>3. held' = Hold(held, p, size) /\ Hands(block, block', {}, {HeaderOf(p)}, block[a].size)
    BY <1>1, <2>1, Zenon DEF a
  <2> QED
    BY <2>2, <2>3, ResizeStep, Zenon
<1> QED
  BY <1>5, <1>6, Zenon

\* realloc growing over the next block is an abstract resize.
LEMMA GrowRefines ==
  ASSUME IInv, IInv', NEW p \in DOMAIN held, NEW size \in Nat, ReallocGrow(p, size)
  PROVE  A!ANext
<1> DEFINE a == HeaderOf(p)
           n == RoundUp(size)
<1>1. /\ CanGrow(block, a, n) /\ held' = Hold(held, p, size)
      /\ block' = Trim(Joined(block, a), a, n)
  BY Zenon DEF ReallocGrow
<1>2. n \in Nat /\ (size + 7 < WORD => n >= size /\ n < size + 8)
  BY RoundUpBounds
<1>3. a \in InUse(block) /\ Good(block)
  BY HeldInUse, Zenon DEF IInv
<1> HIDE DEF a, n
<1>4. /\ Hands(block, block', {}, {a}, block'[a].size)
      /\ block'[a].size \in Nat /\ block'[a].size >= n /\ block'[a].size < n + HeaderSize + 8
  BY <1>1, <1>2, <1>3, Grows, Zenon
<1>5. SizeOK(block'[a].size, size)
  BY <1>2, <1>4, SMTT(30) DEF SizeOK, HeaderSize
<1>6. held' = Hold(held, p, size) /\ Hands(block, block', {}, {HeaderOf(p)}, block'[a].size)
  BY <1>1, <1>4, Zenon DEF a
<1> QED
  BY <1>5, <1>6, ResizeStep, Zenon

\* realloc by malloc, copy and free is an abstract move.
LEMMA MoveRefines ==
  ASSUME IInv, IInv', NEW p \in DOMAIN held, NEW size \in Nat, ReallocMove(p, size)
  PROVE  A!ANext
<1> DEFINE a == HeaderOf(p)
           n == RoundUp(size)
           to == BestFit(block, n)
           tb == Taken(block, n)
           q == to + HeaderSize
           sz == tb[to].size
<1>1. /\ Fits(block, n) # {}
      /\ block' = heap_coalesce(Freed(tb, a))
      /\ held' = Hold(Drop(held, p), q, size)
  BY Zenon DEF ReallocMove
<1>2. n \in Nat /\ (size + 7 < WORD => n >= size /\ n < size + 8)
  BY RoundUpBounds
<1>3. Good(block) /\ WellFormed(block) /\ Client(held, block)
  BY Zenon DEF IInv, Good
<1>4. a \in InUse(block) /\ a \in Nat /\ p = a + HeaderSize
  BY HeldInUse, Zenon
<1> HIDE DEF n, a
<1>5. /\ to \in Nat /\ to \notin InUse(block)
      /\ WellFormed(tb) /\ Hands(block, tb, {}, {to}, sz)
      /\ sz \in Nat /\ sz >= n /\ sz < n + HeaderSize + 8
  BY <1>1, <1>2, <1>3, Takes, Zenon DEF Good
<1> HIDE DEF to, tb, sz
<1>6. a \in InUse(tb) /\ a # to
  BY <1>4, <1>5, Zenon DEF Hands
<1>7. Hands(tb, block', {a}, {}, 0)
  BY <1>1, <1>5, <1>6, Releases, Zenon
<1>8. SizeOK(sz, size)
  BY <1>2, <1>5 DEF SizeOK, HeaderSize
<1> DEFINE mid == Hold(held, q, size)
           G1 == GrantOf(mid, tb)
<1>9. Client(mid, tb)
  BY <1>3, <1>5, <1>8, HoldClient, Zenon
<1>10. p # q /\ q \notin DOMAIN held
  <2>1. \A c \in InUse(block) : c \in Nat /\ c # to
    BY <1>3, <1>5, InUseNat, Zenon
  <2> QED
    BY <1>3, <1>5, <2>1, SMTT(30) DEF Client, HeaderSize
<1>11. held' = Drop(mid, p)
  BY <1>1, <1>10, DropHold, SMTT(30)
<1>12. Regrant(Granted, G1, q, sz, size) /\ DOMAIN Granted = DOMAIN held
  <2>1. Regrant(GrantOf(held, block), GrantOf(Hold(held, q, size), tb), q, sz, size)
    BY <1>3, <1>5, <1>8, GrantStep, Zenon
  <2>2. Granted = GrantOf(held, block) /\ DOMAIN Granted = DOMAIN held
    BY Zenon DEF Granted, GrantOf
  <2> QED
    BY <2>1, <2>2, Zenon
<1>13. Granted' = Ungrant(G1, p)
  <2>1. GrantOf(Drop(mid, p), block') = Ungrant(G1, p)
    <3> HIDE DEF mid
    <3> QED  BY <1>4, <1>5, <1>6, <1>7, <1>9, ReleaseStep
  <2>2. Granted' = GrantOf(Drop(mid, p), block')
    <3> HIDE DEF mid
    <3> QED  BY <1>11, Zenon DEF Granted, GrantOf
  <2> QED
    BY <2>1, <2>2, Zenon
<1> HIDE DEF G1, q
<1>14. /\ Granted' = [x \in (DOMAIN Granted \ {p}) \cup {q} |-> IF x = q THEN sz ELSE Granted[x]]
       /\ Granted'[q] = sz
  BY <1>10, <1>12, <1>13, Zenon DEF Regrant, Ungrant
<1>15. Granted' = A!Set(A!Unset(Granted, p), q, Granted'[q])
  BY <1>14, Zenon DEF A!Set, A!Unset
<1>16. held' = A!Set(A!Unset(held, p), q, held'[q]) /\ held'[q] = size
  BY <1>1, Zenon DEF Hold, Drop, A!Set, A!Unset
<1>17. p \in DOMAIN Granted /\ q \in DOMAIN Granted' \ DOMAIN Granted
  BY <1>10, <1>12, <1>14, Zenon
<1>18. /\ A!Inside(q, Granted'[q]) /\ A!Covers(Granted'[q], held'[q])
       /\ \A x \in DOMAIN Granted : A!Apart(q, Granted'[q], x)
  BY <1>10, <1>12, <1>14, <1>16, Zenon DEF Regrant, A!Inside, A!Covers, A!Apart
<1>19. A!Move(p, q)
  BY <1>15, <1>16, <1>17, <1>18, Zenon DEF A!Move
<1> QED
  BY <1>17, <1>19, Zenon DEF A!ANext

\* Every behaviour of the heap, seen through the pointers its clients hold, is
\* a behaviour of the abstract allocator.
THEOREM HeapImplementsAllocator == Spec => ImplementsAllocator
<1>1. Init => A!AInit
  BY Zenon DEF Init, A!AInit, Granted
<1>2. IInv /\ IInv' /\ [Next]_vars => [A!ANext]_(A!avars)
  <2> SUFFICES ASSUME IInv, IInv', [Next]_vars PROVE [A!ANext]_(A!avars)
    BY Zenon
  <2>0. MallocSizes \subseteq Nat /\ ReallocSizes \subseteq Nat
    BY HeapAssumption, Zenon
  <2>1. ASSUME UNCHANGED vars PROVE UNCHANGED A!avars
    BY <2>1, Zenon DEF vars, A!avars, Granted
  <2>2. ASSUME NEW size \in MallocSizes, Malloc(size) PROVE A!ANext
    BY <2>0, <2>2, MallocRefines, Zenon
  <2>3. ASSUME NEW size \in MallocSizes, MallocFails(size) PROVE UNCHANGED A!avars
    BY <2>1, <2>3, Zenon DEF MallocFails
  <2>4. ASSUME NEW p \in DOMAIN held, Free(p) PROVE A!ANext
    BY <2>4, FreeRefines, Zenon
  <2>5. ASSUME NEW p \in DOMAIN held, NEW size \in ReallocSizes, ReallocShrink(p, size) PROVE A!ANext
    BY <2>0, <2>5, ShrinkRefines, Zenon
  <2>6. ASSUME NEW p \in DOMAIN held, NEW size \in ReallocSizes, ReallocGrow(p, size) PROVE A!ANext
    BY <2>0, <2>6, GrowRefines
  <2>7. ASSUME NEW p \in DOMAIN held, NEW size \in ReallocSizes, ReallocMove(p, size) PROVE A!ANext
    BY <2>0, <2>7, MoveRefines
  <2>8. ASSUME NEW p \in DOMAIN held, NEW size \in ReallocSizes, ReallocFails(p, size)
        PROVE  UNCHANGED A!avars
    BY <2>1, <2>8, Zenon DEF ReallocFails
  <2> QED
    BY <2>1, <2>2, <2>3, <2>4, <2>5, <2>6, <2>7, <2>8, SMTT(60) DEF Next
<1> QED
  BY <1>1, <1>2, Invariance, PTL DEF Spec, ImplementsAllocator, A!ASpec
=============================================================================
