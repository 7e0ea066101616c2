-------------------------------- MODULE Heap --------------------------------
(***************************************************************************)
(* The kernel heap of src/kernel/memory.c: a static arena of HEAP_SIZE     *)
(* bytes cut into blocks, each a block_t header followed by its payload,   *)
(* linked in address order; malloc is best fit with splitting, free and    *)
(* realloc coalesce.  Addresses are offsets into the arena.                *)
(*                                                                         *)
(* The clients are part of the model: held maps every pointer a client     *)
(* owns to the size it asked for, and only owned pointers are freed.       *)
(***************************************************************************)
EXTENDS Integers, FiniteSets

CONSTANTS
  HEAP_SIZE,      \* bytes in the arena
  WORD,           \* size_t and the u64 counters count modulo WORD
  MallocSizes,    \* the sizes clients pass to malloc
  ReallocSizes    \* the sizes clients pass to realloc

HeaderSize == 24                     \* sizeof(block_t)
NULL == -1

ASSUME HeapAssumption ==
  /\ HEAP_SIZE \in Nat /\ HEAP_SIZE >= HeaderSize
  /\ WORD \in Nat /\ WORD > HEAP_SIZE /\ WORD % 8 = 0
  /\ MallocSizes \subseteq Nat /\ ReallocSizes \subseteq Nat

VARIABLES
  block,          \* header offset -> the block_t stored there, for the blocks in the list
  heap_allocated, heap_freed, heap_blocks,
  held            \* pointer a client owns -> size it asked for

vars == <<block, heap_allocated, heap_freed, heap_blocks, held>>

-----------------------------------------------------------------------------
(* The block list. *)

\* Mutant: rounds down.
RoundUp_Down(size) == size - (size % 8)

\* size = (size + 7) & ~7, in size_t arithmetic.
RoundUp(size) == LET w == (size + 7) % WORD IN w - (w % 8)

Fits(b, n) == {a \in DOMAIN b : b[a].free /\ b[a].size >= n}

\* The list is walked in address order and a later block replaces the best
\* one only when it is strictly smaller.
BestFit(b, n) ==
  CHOOSE a \in Fits(b, n) :
    \A c \in Fits(b, n) :
      b[a].size < b[c].size \/ (b[a].size = b[c].size /\ a <= c)

\* Mutant: no room asked for the new header and its 8 bytes.
Splits_NoHeader(b, a, n) == b[a].size >= n

Splits(b, a, n) == b[a].size >= n + HeaderSize + 8

\* Mutant: the rest keeps the bytes its own header takes.
Split_KeepsHeader(b, a, n) ==
  LET rest == a + HeaderSize + n
  IN  [c \in DOMAIN b \cup {rest} |->
         IF c = a THEN [size |-> n, free |-> b[a].free, next |-> rest]
         ELSE IF c = rest THEN [size |-> b[a].size - n, free |-> TRUE, next |-> b[a].next]
         ELSE b[c]]

\* Cut block a down to n bytes; the rest becomes a free block behind it.
Split(b, a, n) ==
  LET rest == a + HeaderSize + n
  IN  [c \in DOMAIN b \cup {rest} |->
         IF c = a THEN [size |-> n, free |-> b[a].free, next |-> rest]
         ELSE IF c = rest THEN [size |-> b[a].size - n - HeaderSize,
                                free |-> TRUE, next |-> b[a].next]
         ELSE b[c]]

Trim(b, a, n) == IF Splits(b, a, n) THEN Split(b, a, n) ELSE b

TrimCount(b, a, n) == IF Splits(b, a, n) THEN 1 ELSE 0

\* Mutant: nothing is ever merged.
Absorbed_None(b) == {}

\* heap_coalesce: every free block is absorbed by the free block before it,
\* so a run of free blocks becomes one block that reaches to the run's end.
Absorbed(b) ==
  {a \in DOMAIN b : b[a].free /\ \E p \in DOMAIN b : b[p].next = a /\ b[p].free}

Kept(b) == DOMAIN b \ Absorbed(b)

RunNext(b, a) ==
  IF \E c \in Kept(b) : c > a
  THEN CHOOSE c \in Kept(b) : c > a /\ \A d \in Kept(b) : d > a => c <= d
  ELSE NULL

RunEnd(b, a) == IF RunNext(b, a) = NULL THEN HEAP_SIZE ELSE RunNext(b, a)

heap_coalesce(b) ==
  [a \in Kept(b) |->
     IF b[a].free
     THEN [size |-> RunEnd(b, a) - a - HeaderSize, free |-> TRUE, next |-> RunNext(b, a)]
     ELSE b[a]]

-----------------------------------------------------------------------------
(* What malloc and free do to the list. *)

Taken(b, n) == LET a == BestFit(b, n)
               IN  [Trim(b, a, n) EXCEPT ![a].free = FALSE]

Freed(b, a) == [b EXCEPT ![a].free = TRUE]

HeaderOf(p) == p - HeaderSize

Hold(h, p, size) == [q \in DOMAIN h \cup {p} |-> IF q = p THEN size ELSE h[q]]
Drop(h, p) == [q \in DOMAIN h \ {p} |-> h[q]]

-----------------------------------------------------------------------------
(* heap_init and the calls. *)

Init ==
  /\ block = [a \in {0} |-> [size |-> HEAP_SIZE - HeaderSize, free |-> TRUE, next |-> NULL]]
  /\ heap_allocated = 0 /\ heap_freed = 0 /\ heap_blocks = 1
  /\ held = [p \in {} |-> 0]

Malloc(size) ==
  LET n == RoundUp(size)
      a == BestFit(block, n)
  IN  /\ size # 0 /\ Fits(block, n) # {}
      /\ block' = Taken(block, n)
      /\ heap_blocks' = heap_blocks + TrimCount(block, a, n)
      /\ heap_allocated' = (heap_allocated + block'[a].size) % WORD
      /\ held' = Hold(held, a + HeaderSize, size)
      /\ UNCHANGED heap_freed

\* malloc returns NULL and touches nothing.
MallocFails(size) ==
  /\ size = 0 \/ Fits(block, RoundUp(size)) = {}
  /\ UNCHANGED vars

Free(p) ==
  LET a == HeaderOf(p)
  IN  /\ p \in DOMAIN held
      /\ block' = heap_coalesce(Freed(block, a))
      /\ heap_blocks' = heap_blocks - Cardinality(Absorbed(Freed(block, a)))
      /\ heap_freed' = (heap_freed + block[a].size) % WORD
      /\ held' = Drop(held, p)
      /\ UNCHANGED heap_allocated

\* realloc to a size the block already has room for: cut when worth it.
ReallocShrink(p, size) ==
  LET a == HeaderOf(p)
      n == RoundUp(size)
      old == block[a].size
  IN  /\ p \in DOMAIN held /\ size # 0 /\ old >= n
      /\ IF Splits(block, a, n)
         THEN LET b == Split(block, a, n)
              IN  /\ block' = heap_coalesce(b)
                  /\ heap_blocks' = heap_blocks + 1 - Cardinality(Absorbed(b))
                  /\ heap_freed' = (heap_freed + (old - n)) % WORD
         ELSE UNCHANGED <<block, heap_blocks, heap_freed>>
      /\ held' = Hold(held, p, size)
      /\ UNCHANGED heap_allocated

\* Mutant: grows into the next block although a client owns it.
CanGrow_IntoUsed(b, a, n) ==
  /\ b[a].next # NULL
  /\ b[a].size + HeaderSize + b[b[a].next].size >= n

\* The next block is free and large enough together with this one.
CanGrow(b, a, n) ==
  /\ b[a].next # NULL /\ b[b[a].next].free
  /\ b[a].size + HeaderSize + b[b[a].next].size >= n

\* Block a absorbs the block behind it.
Joined(b, a) ==
  LET nx == b[a].next
  IN  [c \in DOMAIN b \ {nx} |->
         IF c = a THEN [size |-> b[a].size + HeaderSize + b[nx].size,
                        free |-> b[a].free, next |-> b[nx].next]
         ELSE b[c]]

ReallocGrow(p, size) ==
  LET a == HeaderOf(p)
      n == RoundUp(size)
      old == block[a].size
      joined == Joined(block, a)
  IN  /\ p \in DOMAIN held /\ size # 0 /\ old < n /\ CanGrow(block, a, n)
      /\ block' = Trim(joined, a, n)
      /\ heap_blocks' = heap_blocks - 1 + TrimCount(joined, a, n)
      /\ heap_allocated' = (heap_allocated + (n - old)) % WORD
      /\ held' = Hold(held, p, size)
      /\ UNCHANGED heap_freed

\* malloc, memcpy, free.
ReallocMove(p, size) ==
  LET a == HeaderOf(p)
      n == RoundUp(size)
      to == BestFit(block, n)
      taken == Taken(block, n)
  IN  /\ p \in DOMAIN held /\ size # 0
      /\ block[a].size < n /\ ~CanGrow(block, a, n) /\ Fits(block, n) # {}
      /\ block' = heap_coalesce(Freed(taken, a))
      /\ heap_blocks' = heap_blocks + TrimCount(block, to, n)
                          - Cardinality(Absorbed(Freed(taken, a)))
      /\ heap_allocated' = (heap_allocated + taken[to].size) % WORD
      /\ heap_freed' = (heap_freed + block[a].size) % WORD
      /\ held' = Hold(Drop(held, p), to + HeaderSize, size)

\* realloc returns NULL and the old block stays with its owner.
ReallocFails(p, size) ==
  LET n == RoundUp(size)
  IN  /\ p \in DOMAIN held /\ size # 0
      /\ block[HeaderOf(p)].size < n /\ ~CanGrow(block, HeaderOf(p), n)
      /\ Fits(block, n) = {}
      /\ UNCHANGED vars

\* realloc(NULL, size) is Malloc(size) and realloc(p, 0) is Free(p).
Next ==
  \/ \E size \in MallocSizes : Malloc(size) \/ MallocFails(size)
  \/ \E p \in DOMAIN held : Free(p)
  \/ \E p \in DOMAIN held, size \in ReallocSizes :
       \/ ReallocShrink(p, size)
       \/ ReallocGrow(p, size)
       \/ ReallocMove(p, size)
       \/ ReallocFails(p, size)

Spec == Init /\ [][Next]_vars
-----------------------------------------------------------------------------
(* Properties. *)

\* Every header is an in-range block_t and the counters are counts.
BlockType == [size : 0 .. HEAP_SIZE, free : BOOLEAN, next : {NULL} \cup (0 .. HEAP_SIZE)]

TypeOK ==
  /\ DOMAIN block \subseteq 0 .. HEAP_SIZE
  /\ \A a \in DOMAIN block : block[a] \in BlockType
  /\ heap_allocated \in 0 .. (WORD - 1) /\ heap_freed \in 0 .. (WORD - 1)
  /\ heap_blocks \in Nat
  /\ DOMAIN held \subseteq 0 .. HEAP_SIZE
  /\ held \in [DOMAIN held -> Nat]

BlockEnd(b, a) == a + HeaderSize + b[a].size

\* The next pointer of a block is exactly where its payload ends, and the
\* last payload ends with the arena.
Linked(b) ==
  \A a \in DOMAIN b :
    IF b[a].next = NULL THEN BlockEnd(b, a) = HEAP_SIZE
    ELSE b[a].next \in DOMAIN b /\ b[a].next = BlockEnd(b, a)

\* Every block but the first is some block's next.
Reached(b) ==
  /\ 0 \in DOMAIN b
  /\ \A c \in DOMAIN b \ {0} : \E a \in DOMAIN b : b[a].next = c

Ordered(b) == \A a, c \in DOMAIN b : a < c => BlockEnd(b, a) <= c

\* Headers and payloads tile the arena: after any sequence of malloc, free
\* and realloc calls the list covers [0, HEAP_SIZE) without gap or overlap.
Tiling == Linked(block) /\ Reached(block) /\ Ordered(block)

NoFreePair(b) ==
  \A a \in DOMAIN b : b[a].free /\ b[a].next # NULL => ~b[b[a].next].free

\* No two neighbouring blocks are free: every path that frees bytes also
\* coalesces, and splits never leave a free rest in front of a free block.
FullyCoalesced == NoFreePair(block)

InUse(b) == {a \in DOMAIN b : ~b[a].free}

\* A pointer is owned by a client exactly when its block is in use.
Ownership == DOMAIN held = {a + HeaderSize : a \in InUse(block)}

\* Unless (size + 7) wraps, a client has at least the bytes it asked for, and
\* less than one splittable rest more.
Grants ==
  \A p \in DOMAIN held :
    held[p] + 7 < WORD =>
      /\ block[HeaderOf(p)].size >= held[p]
      /\ block[HeaderOf(p)].size < held[p] + 8 + HeaderSize + 8

\* Both: every block in use is one client's, and as large as the client asked.
ClientsServed == Ownership /\ Grants

\* heap_blocks, which heapinfo prints, is the number of blocks in the list.
BlockCount == heap_blocks = Cardinality(DOMAIN block)

\* Once every pointer has been given back the arena is one free block again:
\* no sequence of calls fragments or leaks the heap for good.
EmptyIsWhole ==
  DOMAIN held = {} =>
    /\ DOMAIN block = {0}
    /\ block[0] = [size |-> HEAP_SIZE - HeaderSize, free |-> TRUE, next |-> NULL]

-----------------------------------------------------------------------------
(* The heap implements the allocator clients rely on. *)

Granted == [p \in DOMAIN held |-> block[HeaderOf(p)].size]

A == INSTANCE Allocator WITH
       ArenaSize <- HEAP_SIZE, Wrap <- WORD - 7, request <- held, grant <- Granted

\* Every call is an allocation, a release, a resize in place or a move of
\* the abstract allocator, or changes nothing a client can see.
ImplementsAllocator == A!ASpec
=============================================================================
