-------------------------------- MODULE Fifo --------------------------------
(***************************************************************************)
(* What the keyboard code needs of its scancode buffer: a bounded queue    *)
(* that hands scancodes over in the order they came, once each, and that   *)
(* drops a new one only when it is full.                                   *)
(***************************************************************************)
EXTENDS Naturals, Sequences

CONSTANTS Capacity, Value
VARIABLES queue,   \* what has come and has not been taken
          taken    \* what the consumer took last

fvars == <<queue, taken>>

FInit == queue = <<>> /\ taken \in Value

Put(v) == Len(queue) < Capacity /\ queue' = Append(queue, v) /\ taken' = taken

Take == queue # <<>> /\ taken' = Head(queue) /\ queue' = Tail(queue)

FNext == Take \/ \E v \in Value : Put(v)

FSpec == FInit /\ [][FNext]_fvars
=============================================================================
