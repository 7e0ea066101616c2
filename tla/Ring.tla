-------------------------------- MODULE Ring --------------------------------
(***************************************************************************)
(* The scancode ring of src/drivers/input.c: push_scancode runs in the     *)
(* keyboard interrupt, pop_scancode in the desktop task, without a lock.   *)
(* Each access to a shared byte is a step, so that the two interleave as   *)
(* they do when the desktop task is on another CPU than the interrupt.     *)
(***************************************************************************)
EXTENDS Integers, Sequences, TLAPS

CONSTANTS SIZE,      \* KBD_BUFFER_SIZE
          Scancode

VARIABLES
  scancode_buf, scancode_head, scancode_tail,
  push_at, arg,       \* where push_scancode is, and its argument
  pop_at, popped      \* where pop_scancode is, and *scancode

ring == <<scancode_buf, scancode_head, scancode_tail>>
vars == <<ring, push_at, arg, pop_at, popped>>

Index == 0 .. (SIZE - 1)

\* (u8)(i + 1) % KBD_BUFFER_SIZE
Successor(i) == ((i + 1) % 256) % SIZE

Init ==
  /\ \E v \in Scancode : scancode_buf = [i \in Index |-> v] /\ arg = v /\ popped = v
  /\ scancode_head = 0 /\ scancode_tail = 0
  /\ push_at = "idle" /\ pop_at = "idle"

-----------------------------------------------------------------------------
(* input_handle_scancode, in the interrupt. *)

\* Mutant: a full ring is not noticed.
Full_Never == FALSE

Full == Successor(scancode_head) = scancode_tail

\* The tail is read and compared; a full ring drops the scancode.
Push(v) ==
  /\ push_at = "idle"
  /\ IF Full THEN UNCHANGED <<push_at, arg>> ELSE push_at' = "store" /\ arg' = v
  /\ UNCHANGED <<ring, pop_at, popped>>

PushStore ==
  /\ push_at = "store"
  /\ scancode_buf' = [scancode_buf EXCEPT ![scancode_head] = arg]
  /\ push_at' = "publish"
  /\ UNCHANGED <<scancode_head, scancode_tail, arg, pop_at, popped>>

PushPublish ==
  /\ push_at = "publish"
  /\ scancode_head' = Successor(scancode_head)
  /\ push_at' = "idle"
  /\ UNCHANGED <<scancode_buf, scancode_tail, arg, pop_at, popped>>

-----------------------------------------------------------------------------
(* pop_scancode, in the desktop task. *)

Pop ==
  /\ pop_at = "idle" /\ scancode_tail # scancode_head
  /\ pop_at' = "load"
  /\ UNCHANGED <<ring, push_at, arg, popped>>

PopLoad ==
  /\ pop_at = "load"
  /\ popped' = scancode_buf[scancode_tail]
  /\ pop_at' = "advance"
  /\ UNCHANGED <<ring, push_at, arg>>

PopAdvance ==
  /\ pop_at = "advance"
  /\ scancode_tail' = Successor(scancode_tail)
  /\ pop_at' = "idle"
  /\ UNCHANGED <<scancode_buf, scancode_head, push_at, arg, popped>>

Next ==
  \/ \E v \in Scancode : Push(v)
  \/ PushStore
  \/ PushPublish
  \/ Pop
  \/ PopLoad
  \/ PopAdvance

Spec == Init /\ [][Next]_vars

-----------------------------------------------------------------------------
(* Properties. *)

\* How many scancodes lie between tail and head.
Used == IF scancode_head >= scancode_tail
        THEN scancode_head - scancode_tail ELSE scancode_head - scancode_tail + SIZE

\* Where the i-th of them lies.
Place(i) == LET p == scancode_tail + i - 1 IN IF p < SIZE THEN p ELSE p - SIZE

\* The producer never writes the cell the consumer is reading, and the consumer never
\* passes the producer: between the check of either side and its last store the other
\* side can only make more room, or more work.
NoOverrun ==
  /\ push_at # "idle" => Used < SIZE - 1
  /\ pop_at # "idle" => Used > 0

\* A scancode that PopLoad took leaves the queue when the tail moves: until then the
\* abstract queue still starts with it.
Queue == [i \in 1 .. Used |-> scancode_buf[Place(i)]]
Waiting == IF pop_at = "advance" THEN Tail(Queue) ELSE Queue

F == INSTANCE Fifo WITH Capacity <- SIZE - 1, Value <- Scancode, queue <- Waiting, taken <- popped

\* Push and pop, interleaved access by access, are the puts and takes of the bounded
\* queue: nothing is lost once it is in, doubled or reordered.
ImplementsFifo == F!FSpec

-----------------------------------------------------------------------------
(* Proofs, for every ring whose indices fit a byte. *)

Types ==
  /\ scancode_buf \in [Index -> Scancode] /\ scancode_head \in Index /\ scancode_tail \in Index
  /\ push_at \in {"idle", "store", "publish"} /\ arg \in Scancode
  /\ pop_at \in {"idle", "load", "advance"} /\ popped \in Scancode

\* What PushPublish makes visible is what was stored; what PopAdvance gives up was loaded.
IInv ==
  /\ Types /\ NoOverrun
  /\ push_at = "publish" => scancode_buf[scancode_head] = arg
  /\ pop_at = "advance" => popped = scancode_buf[scancode_tail]

\* The index behind i, without the wrap of the byte showing.
LEMMA SuccessorIs ==
  ASSUME SIZE \in 2 .. 256, NEW i \in Index
  PROVE  Successor(i) = IF i + 1 = SIZE THEN 0 ELSE i + 1
<1>1. i \in 0 .. 255 /\ i < SIZE /\ SIZE \in Nat
  BY DEF Index
<1>2. CASE i + 1 = SIZE
  <2>1. (i + 1) % 256 = IF SIZE = 256 THEN 0 ELSE SIZE
    BY <1>1, <1>2
  <2>2. 0 % SIZE = 0 /\ SIZE % SIZE = 0
    BY <1>1
  <2> QED BY <1>2, <2>1, <2>2 DEF Successor
<1>3. CASE i + 1 < SIZE
  <2>1. (i + 1) % 256 = i + 1
    BY <1>1, <1>3
  <2>2. (i + 1) % SIZE = i + 1
    BY <1>1, <1>3
  <2> QED BY <1>3, <2>1, <2>2 DEF Successor
<1> QED BY <1>1, <1>2, <1>3

LEMMA UsedIs ==
  ASSUME SIZE \in 2 .. 256, Types
  PROVE  /\ Used \in 0 .. SIZE - 1
         /\ Used = 0 <=> scancode_head = scancode_tail
         /\ Full <=> Used = SIZE - 1
         /\ \A i \in 1 .. Used : Place(i) \in Index /\ Place(i) # scancode_head
         /\ Used > 0 => Place(1) = scancode_tail
<1>1. scancode_head \in 0 .. SIZE - 1 /\ scancode_tail \in 0 .. SIZE - 1
  BY DEF Types, Index
<1>2. Successor(scancode_head) = IF scancode_head + 1 = SIZE THEN 0 ELSE scancode_head + 1
  BY SuccessorIs DEF Types
<1>3. Used \in 0 .. SIZE - 1 /\ (Used = 0 <=> scancode_head = scancode_tail)
  BY <1>1 DEF Used
<1>4. Full <=> Used = SIZE - 1
  BY <1>1, <1>2 DEF Used, Full
<1>5. \A i \in 1 .. Used : Place(i) \in Index /\ Place(i) # scancode_head
  BY <1>1, <1>3 DEF Used, Place, Index
<1>6. Used > 0 => Place(1) = scancode_tail
  BY <1>1 DEF Place
<1> QED BY <1>3, <1>4, <1>5, <1>6

\* The head moves: one more at the end.
LEMMA HeadMoves ==
  ASSUME SIZE \in 2 .. 256, Types, NEW n, n = Used, n < SIZE - 1,
         scancode_head' = Successor(scancode_head), UNCHANGED <<scancode_buf, scancode_tail>>
  PROVE  /\ Used' = n + 1 /\ scancode_head' \in Index
         /\ \A i \in 1 .. n : Place(i)' = Place(i)
         /\ Place(n + 1)' = scancode_head
<1>1. scancode_head \in 0 .. SIZE - 1 /\ scancode_tail \in 0 .. SIZE - 1
  BY DEF Types, Index
<1>2. scancode_head' = IF scancode_head + 1 = SIZE THEN 0 ELSE scancode_head + 1
  BY SuccessorIs DEF Types
<1>3. n = (IF scancode_head >= scancode_tail THEN scancode_head - scancode_tail
           ELSE scancode_head - scancode_tail + SIZE) /\ n \in Int
  BY <1>1 DEF Used
<1>4. Used' = n + 1
  BY <1>1, <1>2, <1>3 DEF Used
<1>5. Place(n + 1)' = scancode_head
  BY <1>1, <1>3 DEF Place
<1> QED BY <1>1, <1>2, <1>4, <1>5 DEF Place, Index

\* The tail moves: the first is gone and the others move up.
LEMMA TailMoves ==
  ASSUME SIZE \in 2 .. 256, Types, Used > 0, scancode_tail' = Successor(scancode_tail),
         UNCHANGED <<scancode_buf, scancode_head>>
  PROVE  /\ Used' = Used - 1 /\ scancode_tail' \in Index
         /\ \A i \in 1 .. Used - 1 : Place(i)' = Place(i + 1)
<1>1. scancode_head \in 0 .. SIZE - 1 /\ scancode_tail \in 0 .. SIZE - 1
  BY DEF Types, Index
<1>2. scancode_tail' = IF scancode_tail + 1 = SIZE THEN 0 ELSE scancode_tail + 1
  BY SuccessorIs DEF Types
<1>3. Used' = Used - 1 /\ Used \in 0 .. SIZE - 1
  BY <1>1, <1>2 DEF Used
<1> QED BY <1>1, <1>2, <1>3 DEF Place, Index

-----------------------------------------------------------------------------
LEMMA RingInit == SIZE \in 2 .. 256 => (Init => IInv /\ Waiting = <<>>)
<1> SUFFICES ASSUME SIZE \in 2 .. 256, Init PROVE IInv /\ Waiting = <<>>
  OBVIOUS
<1>1. Used = 0 /\ Types
  BY DEF Init, Used, Types, Index
<1>2. Queue = <<>>
  BY <1>1 DEF Queue
<1> QED BY <1>1, <1>2 DEF Init, IInv, NoOverrun, Waiting

LEMMA RingStep == SIZE \in 2 .. 256 => (IInv /\ [Next]_vars => IInv')
<1> SUFFICES ASSUME SIZE \in 2 .. 256, IInv, [Next]_vars PROVE IInv'
  OBVIOUS
<1>0. Types /\ Used \in 0 .. SIZE - 1
  BY UsedIs DEF IInv
<1>1. ASSUME NEW v \in Scancode, Push(v) PROVE IInv'
  <2>1. Used' = Used /\ Types'
    BY <1>0, <1>1 DEF Push, ring, Used, Types
  <2>2. NoOverrun'
    BY <1>0, <1>1, <2>1, UsedIs DEF Push, NoOverrun, IInv
  <2> QED BY <1>0, <1>1, <2>1, <2>2 DEF Push, ring, IInv
<1>2. CASE PushStore
  <2>1. Used' = Used /\ Types'
    BY <1>0, <1>2 DEF PushStore, Used, Types
  <2>2. NoOverrun'
    BY <1>0, <1>2, <2>1 DEF PushStore, NoOverrun, IInv
  <2>3. scancode_buf'[scancode_head'] = arg'
    BY <1>0, <1>2 DEF PushStore, Types
  <2>4. pop_at' = "advance" => popped' = scancode_buf'[scancode_tail']
    <3> HAVE pop_at' = "advance"
    <3>1. Used > 0 /\ popped = scancode_buf[scancode_tail] /\ scancode_tail # scancode_head
      BY <1>0, <1>2, UsedIs DEF PushStore, IInv, NoOverrun
    <3> QED BY <1>0, <1>2, <3>1 DEF PushStore, Types
  <2> QED BY <2>1, <2>2, <2>3, <2>4 DEF IInv
<1>3. CASE PushPublish
  <2>1. Used < SIZE - 1
    BY <1>3 DEF PushPublish, IInv, NoOverrun
  <2>2. Used' = Used + 1 /\ scancode_head' \in Index
    BY <1>0, <1>3, <2>1, HeadMoves DEF PushPublish
  <2>3. Types'
    BY <1>0, <1>3, <2>2 DEF PushPublish, Types
  <2>4. NoOverrun'
    BY <1>0, <1>3, <2>2 DEF PushPublish, NoOverrun, IInv
  <2> QED BY <1>3, <2>3, <2>4 DEF PushPublish, IInv
<1>4. CASE Pop
  <2>1. Used' = Used /\ Types'
    BY <1>0, <1>4 DEF Pop, ring, Used, Types
  <2>2. NoOverrun'
    BY <1>0, <1>4, <2>1, UsedIs DEF Pop, NoOverrun, IInv
  <2> QED BY <1>4, <2>1, <2>2 DEF Pop, ring, IInv
<1>5. CASE PopLoad
  <2>1. Used' = Used /\ Types'
    BY <1>0, <1>5 DEF PopLoad, ring, Used, Types
  <2>2. NoOverrun'
    BY <1>0, <1>5, <2>1 DEF PopLoad, NoOverrun, IInv
  <2> QED BY <1>5, <2>1, <2>2 DEF PopLoad, ring, IInv
<1>6. CASE PopAdvance
  <2>1. Used > 0
    BY <1>6 DEF PopAdvance, IInv, NoOverrun
  <2>2. Used' = Used - 1 /\ scancode_tail' \in Index
    BY <1>0, <1>6, <2>1, TailMoves DEF PopAdvance
  <2>3. Types'
    BY <1>0, <1>6, <2>2 DEF PopAdvance, Types
  <2>4. NoOverrun'
    BY <1>0, <1>6, <2>2 DEF PopAdvance, NoOverrun, IInv
  <2> QED BY <1>6, <2>3, <2>4 DEF PopAdvance, IInv
<1>7. CASE UNCHANGED vars
  <2>1. Used' = Used /\ Types'
    BY <1>0, <1>7 DEF vars, ring, Used, Types
  <2> QED BY <1>7, <2>1 DEF vars, ring, IInv, NoOverrun
<1> QED BY <1>1, <1>2, <1>3, <1>4, <1>5, <1>6, <1>7 DEF Next

\* The queue is a sequence, of the bytes between tail and head.
QueueIs ==
  /\ Queue \in Seq(Scancode) /\ Len(Queue) = Used
  /\ \A i \in 1 .. Used : Queue[i] = scancode_buf[Place(i)]
LEMMA QueueSeq == SIZE \in 2 .. 256 /\ Types => QueueIs
<1> SUFFICES ASSUME SIZE \in 2 .. 256, Types PROVE QueueIs
  OBVIOUS
<1>1. Used \in Nat /\ \A i \in 1 .. Used : Place(i) \in Index
  BY UsedIs
<1>2. \A i \in 1 .. Used : scancode_buf[Place(i)] \in Scancode
  BY <1>1 DEF Types
<1> QED BY <1>1, <1>2 DEF Queue, QueueIs

\* Two sequences alike in length and elements are one.
LEMMA SameSeq ==
  ASSUME NEW S, NEW p \in Seq(S), NEW q \in Seq(S), Len(p) = Len(q), \A i \in 1 .. Len(p) : p[i] = q[i]
  PROVE  p = q
BY SMTT(30)

LEMMA TailAppend ==
  ASSUME NEW S, NEW q \in Seq(S), NEW x \in S, Len(q) > 0
  PROVE  Tail(Append(q, x)) = Append(Tail(q), x) /\ Len(Tail(q)) = Len(q) - 1
<1>1. Tail(Append(q, x)) \in Seq(S) /\ Append(Tail(q), x) \in Seq(S)
  OBVIOUS
<1>2. Len(Tail(Append(q, x))) = Len(q) /\ Len(Append(Tail(q), x)) = Len(q) /\ Len(Tail(q)) = Len(q) - 1
  OBVIOUS
<1>3. \A i \in 1 .. Len(q) : Tail(Append(q, x))[i] = Append(Tail(q), x)[i]
  OBVIOUS
<1> QED BY <1>1, <1>2, <1>3, SameSeq

\* A step of the ring is a Put, a Take, or nothing the queue shows.
LEMMA RingRefines ==
  SIZE \in 2 .. 256 => (IInv /\ IInv' /\ [Next]_vars => [F!FNext]_(F!fvars))
<1> SUFFICES ASSUME SIZE \in 2 .. 256, IInv, IInv', [Next]_vars
             PROVE  [F!FNext]_(F!fvars)
  OBVIOUS
<1>n. PICK n : n = Used
  OBVIOUS
<1>0. /\ Types /\ Types' /\ n \in Nat /\ n \in 0 .. SIZE - 1
      /\ Queue \in Seq(Scancode) /\ Len(Queue) = n /\ \A i \in 1 .. n : Queue[i] = scancode_buf[Place(i)]
      /\ \A i \in 1 .. n : Place(i) \in Index /\ Place(i) # scancode_head
      /\ n > 0 => Place(1) = scancode_tail
  BY <1>n, UsedIs, QueueSeq DEF IInv, QueueIs
<1>00. Queue' \in Seq(Scancode) /\ Len(Queue') = Used' /\ \A i \in 1 .. Used' : Queue'[i] = scancode_buf'[Place(i)']
  <2>1. (SIZE \in 2 .. 256 /\ Types => QueueIs)'
    BY QueueSeq, PTL
  <2> QED BY <1>0, <2>1 DEF QueueIs
<1>a. ASSUME Queue' = Queue, popped' = popped, (pop_at' = "advance") <=> (pop_at = "advance")
      PROVE  UNCHANGED F!fvars
  BY <1>a DEF F!fvars, Waiting
<1>1. CASE (\E v \in Scancode : Push(v)) \/ Pop \/ UNCHANGED vars
  <2>1. Queue' = Queue
    BY <1>1 DEF Push, Pop, vars, ring, Queue, Used, Place
  <2> QED BY <1>1, <1>a, <2>1 DEF Push, Pop, vars
<1>2. CASE PushStore
  <2>1. Used' = n /\ \A i \in 1 .. n : Place(i)' = Place(i)
    BY <1>n, <1>2 DEF PushStore, Used, Place
  <2>2. \A i \in 1 .. n : scancode_buf'[Place(i)'] = scancode_buf[Place(i)]
    BY <1>0, <1>2, <2>1 DEF PushStore, Types
  <2>3. Queue' = Queue
    BY <1>0, <1>00, <2>1, <2>2, SameSeq
  <2> QED BY <1>2, <1>a, <2>3 DEF PushStore
<1>3. CASE PushPublish
  <2>1. n < SIZE - 1 /\ scancode_buf[scancode_head] = arg /\ arg \in Scancode
    BY <1>n, <1>0, <1>3 DEF PushPublish, IInv, NoOverrun, Types
  <2>2. /\ Used' = n + 1 /\ \A i \in 1 .. n : Place(i)' = Place(i)
        /\ Place(n + 1)' = scancode_head
    BY <1>n, <1>0, <1>3, <2>1, HeadMoves DEF PushPublish
  <2>3. Queue' = Append(Queue, arg)
    <3>1. Append(Queue, arg) \in Seq(Scancode) /\ Len(Append(Queue, arg)) = n + 1
          /\ Append(Queue, arg)[n + 1] = arg /\ \A i \in 1 .. n : Append(Queue, arg)[i] = Queue[i]
      BY <1>0, <2>1
    <3>2. Queue'[n + 1] = arg /\ \A i \in 1 .. n : Queue'[i] = Queue[i]
      BY <1>0, <1>00, <1>3, <2>1, <2>2 DEF PushPublish
    <3>3. \A i \in 1 .. Len(Queue') : Queue'[i] = Append(Queue, arg)[i]
      BY <1>0, <1>00, <2>2, <3>1, <3>2
    <3> QED BY <1>0, <1>00, <2>2, <3>1, <3>3, SameSeq
  <2>4. pop_at = "advance" => n > 0
    BY <1>n DEF IInv, NoOverrun
  <2>5. Waiting' = Append(Waiting, arg) /\ Len(Waiting) < SIZE - 1
    <3>1. CASE pop_at = "advance"
      <4>1. Waiting = Tail(Queue) /\ Waiting' = Tail(Queue')
        BY <1>3, <3>1 DEF Waiting, PushPublish
      <4>2. Tail(Append(Queue, arg)) = Append(Tail(Queue), arg) /\ Len(Tail(Queue)) = n - 1
        BY <1>0, <2>1, <2>4, <3>1, TailAppend
      <4> QED BY <1>0, <2>1, <2>3, <4>1, <4>2
    <3>2. CASE pop_at # "advance"
      BY <1>0, <1>3, <2>1, <2>3, <3>2 DEF Waiting, PushPublish
    <3> QED BY <3>1, <3>2
  <2>6. F!Put(arg)
    BY <1>3, <2>5 DEF F!Put, PushPublish
  <2> QED BY <2>1, <2>6 DEF F!FNext
<1>4. CASE PopLoad
  <2>1. n > 0
    BY <1>n, <1>4 DEF PopLoad, IInv, NoOverrun
  <2>2. Queue' = Queue
    BY <1>4 DEF PopLoad, ring, Queue, Used, Place
  <2>3. popped' = Head(Queue) /\ Queue # <<>>
    BY <1>0, <1>4, <2>1 DEF PopLoad
  <2>4. Waiting = Queue /\ Waiting' = Tail(Queue)
    BY <1>4, <2>2 DEF PopLoad, Waiting
  <2>5. F!Take
    BY <2>3, <2>4 DEF F!Take
  <2> QED BY <2>5 DEF F!FNext
<1>5. CASE PopAdvance
  <2>1. n > 0
    BY <1>n, <1>5 DEF PopAdvance, IInv, NoOverrun
  <2>2. Used' = n - 1 /\ \A i \in 1 .. n - 1 : Place(i)' = Place(i + 1)
    BY <1>n, <1>0, <1>5, <2>1, TailMoves DEF PopAdvance
  <2>3. Queue' = Tail(Queue)
    <3>1. Tail(Queue) \in Seq(Scancode) /\ Len(Tail(Queue)) = n - 1 /\ \A i \in 1 .. n - 1 : Tail(Queue)[i] = Queue[i + 1]
      BY <1>0, <2>1
    <3>2. \A i \in 1 .. n - 1 : Queue'[i] = Queue[i + 1]
      BY <1>0, <1>00, <1>5, <2>1, <2>2 DEF PopAdvance
    <3> QED BY <1>0, <1>00, <2>2, <3>1, <3>2, SameSeq
  <2>4. Waiting' = Waiting /\ popped' = popped
    BY <1>5, <2>3 DEF PopAdvance, Waiting
  <2> QED BY <2>4 DEF F!fvars
<1> QED BY <1>1, <1>2, <1>3, <1>4, <1>5 DEF Next

\* For every ring whose indices fit a byte: between the check that push_scancode or
\* pop_scancode makes and its last store, the other side leaves the check true.
THEOREM RingNoOverrun == SIZE \in 2 .. 256 => (Spec => []NoOverrun)
<1> SUFFICES ASSUME SIZE \in 2 .. 256 PROVE Spec => []NoOverrun
  OBVIOUS
<1>1. Init => IInv
  BY RingInit
<1>2. IInv /\ [Next]_vars => IInv'
  BY RingStep
<1>3. IInv => NoOverrun
  BY DEF IInv
<1> QED BY <1>1, <1>2, <1>3, PTL DEF Spec

\* For every ring whose indices fit a byte, and every interleaving of the accesses of
\* push_scancode and pop_scancode: the ring implements the bounded queue.
THEOREM RingImplementsFifo == SIZE \in 2 .. 256 => (Spec => ImplementsFifo)
<1> SUFFICES ASSUME SIZE \in 2 .. 256 PROVE Spec => F!FSpec
  BY DEF ImplementsFifo
<1>1. Init => IInv /\ F!FInit
  BY RingInit DEF F!FInit, IInv, Types
<1>2. IInv /\ [Next]_vars => IInv'
  BY RingStep
<1>3. IInv /\ IInv' /\ [Next]_vars => [F!FNext]_(F!fvars)
  BY RingRefines
<1> QED BY <1>1, <1>2, <1>3, PTL DEF Spec, F!FSpec
=============================================================================
