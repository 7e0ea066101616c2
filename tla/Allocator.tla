------------------------------ MODULE Allocator ------------------------------
(***************************************************************************)
(* What a heap promises its clients, with no mention of blocks, headers or *)
(* free lists: every granted region lies inside the arena, no two granted  *)
(* regions share a byte, and a region stays where it is until its owner    *)
(* gives it back or resizes it.  Heap.tla implements this specification.   *)
(***************************************************************************)
EXTENDS Integers

CONSTANTS
  ArenaSize,      \* the arena is the byte range 0 .. ArenaSize - 1
  Wrap            \* requests of Wrap bytes or more promise nothing about size

VARIABLES
  request,        \* owner's view: region start -> number of bytes asked for
  grant           \* region start -> number of bytes the region really has

avars == <<request, grant>>

\* Region [p, p + n) against a granted region starting at q.
Apart(p, n, q) == p + n <= q \/ q + grant[q] <= p

Inside(p, n) == 0 <= p /\ p + n <= ArenaSize

Covers(n, s) == s < Wrap => n >= s

AInit == request = [p \in {} |-> 0] /\ grant = [p \in {} |-> 0]

Set(f, p, v) == [q \in DOMAIN f \cup {p} |-> IF q = p THEN v ELSE f[q]]
Unset(f, p)  == [q \in DOMAIN f \ {p} |-> f[q]]

\* A new region p of grant'[p] bytes, clear of every other one.
Alloc(p) ==
  /\ p \in DOMAIN grant' \ DOMAIN grant
  /\ Inside(p, grant'[p]) /\ Covers(grant'[p], request'[p])
  /\ \A q \in DOMAIN grant : Apart(p, grant'[p], q)
  /\ grant' = Set(grant, p, grant'[p])
  /\ request' = Set(request, p, request'[p])

Release(p) ==
  /\ p \in DOMAIN grant
  /\ grant' = Unset(grant, p)
  /\ request' = Unset(request, p)

\* The owner of p now has grant'[p] bytes at p itself, clear of everyone else.
Resize(p) ==
  /\ p \in DOMAIN grant \cap DOMAIN grant'
  /\ Inside(p, grant'[p]) /\ Covers(grant'[p], request'[p])
  /\ \A q \in DOMAIN grant \ {p} : Apart(p, grant'[p], q)
  /\ grant' = Set(grant, p, grant'[p])
  /\ request' = Set(request, p, request'[p])

\* The region moves from p to to.  The copy needs the two to be apart as well.
Move(p, to) ==
  /\ p \in DOMAIN grant /\ to \in DOMAIN grant' \ DOMAIN grant
  /\ Inside(to, grant'[to]) /\ Covers(grant'[to], request'[to])
  /\ \A q \in DOMAIN grant : Apart(to, grant'[to], q)
  /\ grant' = Set(Unset(grant, p), to, grant'[to])
  /\ request' = Set(Unset(request, p), to, request'[to])

ANext ==
  \/ \E p \in DOMAIN grant' : Alloc(p)
  \/ \E p \in DOMAIN grant : Release(p) \/ Resize(p)
  \/ \E p \in DOMAIN grant, to \in DOMAIN grant' : Move(p, to)

ASpec == AInit /\ [][ANext]_avars
=============================================================================
