--------------------------------- MODULE Nic ---------------------------------
(***************************************************************************)
(* src/drivers/e1000.c: the receive and transmit rings shared with the     *)
(* card.  e1000_poll is called by net_poll, from the net task, the desktop *)
(* loop and the browser, so two CPUs may be in it at once: it is modelled  *)
(* access by access.  A frame is its number in the order of arrival, or of *)
(* the calls of e1000_send.  The card is external: it fills descriptors    *)
(* from RDH while RDH # RDT and sends from TDH while TDH # TDT.            *)
(***************************************************************************)
EXTENDS Integers, Sequences

CONSTANTS
  Pollers,                          \* the CPUs that may call e1000_poll
  RX_DESC_COUNT, TX_DESC_COUNT,
  MaxFrames,                        \* bound: frames that arrive
  MaxSends                          \* bound: frames accepted by e1000_send

ASSUME NicAssumption == RX_DESC_COUNT \in Nat \ {0} /\ TX_DESC_COUNT \in Nat \ {0}

Rx == 0 .. RX_DESC_COUNT - 1
Tx == 0 .. TX_DESC_COUNT - 1

VARIABLES
  g_ready,
  rx, rdh, rdt,         \* rx_descs with their buffers, RDH, RDT
  rx_index,
  poll_at, desc, idx,   \* by poller: its place in e1000_poll, desc, the index it read last
  stored,               \* frames the card has put into the ring
  handed,               \* frames rx_cb was called with
  tx, tdh, tdt, tx_index,
  accepted, out,        \* frames e1000_send took, frames on the wire
  overlapped,           \* two pollers were in the loop at once
  filled                \* every transmit descriptor was in use at once

rxvars == <<rx, rdh, rdt, rx_index, stored, handed>>
pollvars == <<poll_at, desc, idx, overlapped>>
txvars == <<tx, tdh, tdt, tx_index, accepted, out, filled>>
nicVars == <<g_ready, rxvars, pollvars, txvars>>

e1000_init_rx ==
  /\ rx = [i \in Rx |-> [done |-> FALSE, frame |-> 0]]
  /\ rdh = 0 /\ rdt = RX_DESC_COUNT - 1 /\ rx_index = 0

e1000_init_tx ==
  /\ tx = [i \in Tx |-> [done |-> TRUE, frame |-> 0]]
  /\ tdh = 0 /\ tdt = 0 /\ tx_index = 0

\* e1000_init: FALSE when there is no card, no memory window or no memory for the rings.
e1000_init == g_ready \in BOOLEAN /\ e1000_init_rx /\ e1000_init_tx

NicInit ==
  /\ e1000_init
  /\ poll_at = [p \in Pollers |-> "out"] /\ desc = [p \in Pollers |-> 0] /\ idx = [p \in Pollers |-> 0]
  /\ stored = <<>> /\ handed = <<>> /\ accepted = <<>> /\ out = <<>>
  /\ overlapped = FALSE /\ filled = FALSE

NextRx(i) == (i + 1) % RX_DESC_COUNT
NextTx(i) == (i + 1) % TX_DESC_COUNT

-----------------------------------------------------------------------------
(* The card. *)
CardReceives ==
  /\ g_ready /\ Len(stored) < MaxFrames /\ rdh # rdt
  /\ rx' = [rx EXCEPT ![rdh] = [done |-> TRUE, frame |-> Len(stored) + 1]]
  /\ rdh' = NextRx(rdh)
  /\ stored' = Append(stored, Len(stored) + 1)
  /\ UNCHANGED <<g_ready, rdt, rx_index, handed, pollvars, txvars>>

CardSends ==
  /\ tdh # tdt
  /\ out' = Append(out, tx[tdh].frame)
  /\ tx' = [tx EXCEPT ![tdh].done = TRUE]
  /\ tdh' = NextTx(tdh)
  /\ UNCHANGED <<g_ready, rxvars, pollvars, tdt, tx_index, accepted, filled>>

-----------------------------------------------------------------------------
(* e1000_poll. *)
Goto(p, l) == poll_at' = [poll_at EXCEPT ![p] = l]

\* The early return, and irq_fired, which nothing reads.
EnterPoll(p) ==
  /\ g_ready /\ poll_at[p] = "out" /\ Goto(p, "test")
  /\ overlapped' = (overlapped \/ \E q \in Pollers : poll_at[q] # "out")
  /\ UNCHANGED <<g_ready, rxvars, desc, idx, txvars>>

\* The loop condition and the loads in front of the callback, which share one load of rx_index.
Test(p) ==
  /\ poll_at[p] = "test"
  /\ \/ rx[rx_index].done /\ Goto(p, "call") /\ desc' = [desc EXCEPT ![p] = rx_index]
     \/ ~rx[rx_index].done /\ Goto(p, "out") /\ desc' = desc
  /\ UNCHANGED <<g_ready, rxvars, idx, overlapped, txvars>>

Call(p) ==
  /\ poll_at[p] = "call" /\ Goto(p, "clear")
  /\ handed' = Append(handed, rx[desc[p]].frame)
  /\ UNCHANGED <<g_ready, rx, rdh, rdt, rx_index, stored, desc, idx, overlapped, txvars>>

\* Mutant: the descriptor stays marked as done.
Cleared_Not(i) == rx

Cleared(i) == [rx EXCEPT ![i].done = FALSE]

Clear(p) ==
  /\ poll_at[p] = "clear" /\ Goto(p, "tail") /\ rx' = Cleared(desc[p])
  /\ UNCHANGED <<g_ready, rdh, rdt, rx_index, stored, handed, desc, idx, overlapped, txvars>>

SetTail(p) ==
  /\ poll_at[p] = "tail" /\ Goto(p, "advance")
  /\ rdt' = rx_index /\ idx' = [idx EXCEPT ![p] = rx_index]
  /\ UNCHANGED <<g_ready, rx, rdh, rx_index, stored, handed, desc, overlapped, txvars>>

Advance(p) ==
  /\ poll_at[p] = "advance" /\ Goto(p, "test")
  /\ rx_index' = NextRx(idx[p])
  /\ UNCHANGED <<g_ready, rx, rdh, rdt, stored, handed, desc, idx, overlapped, txvars>>

\* Mutant: the tail register gets the descriptor just filled.
NewTail_Old == tx_index

NewTail == NextTx(tx_index)

Free == tx[tx_index].done

\* e1000_send; without a card or with no free descriptor it returns 0.
e1000_send ==
  /\ Len(accepted) < MaxSends
  /\ \/ /\ g_ready /\ Free
        /\ tx' = [tx EXCEPT ![tx_index] = [done |-> FALSE, frame |-> Len(accepted) + 1]]
        /\ tx_index' = NextTx(tx_index) /\ tdt' = NewTail
        /\ accepted' = Append(accepted, Len(accepted) + 1)
        /\ filled' = (filled \/ \A i \in Tx : ~tx'[i].done)
     \/ /\ ~(g_ready /\ Free)
        /\ UNCHANGED <<tx, tx_index, tdt, accepted, filled>>
  /\ UNCHANGED <<g_ready, rxvars, pollvars, tdh, out>>

NicNext ==
  \/ CardReceives \/ CardSends \/ e1000_send
  \/ \E p \in Pollers : EnterPoll(p) \/ Test(p) \/ Call(p) \/ Clear(p) \/ SetTail(p) \/ Advance(p)

NicSpec == NicInit /\ [][NicNext]_nicVars

-----------------------------------------------------------------------------
(* Properties. *)

\* Where the next frame to hand over is: behind rx_index once the frame there was handed.
NextSlot == IF \E p \in Pollers : poll_at[p] \in {"clear", "tail", "advance"} THEN NextRx(rx_index) ELSE rx_index

\* As long as no two CPUs were in e1000_poll at once, the stack gets every frame the
\* card stored, once and in order, and those not yet handed over wait in the ring from
\* rx_index on, marked as done: none is overwritten, skipped or seen twice.  As long as
\* the transmit ring was never full to the last descriptor, every frame e1000_send took is
\* on the wire, in order, or waits between TDH and TDT, where the card finds it.  (With
\* all descriptors in use TDT is back at TDH and the card stops.)
FramesOnce ==
  /\ ~overlapped =>
       /\ Len(handed) <= Len(stored) /\ handed = SubSeq(stored, 1, Len(handed))
       /\ \A k \in 1 .. Len(stored) - Len(handed) :
            rx[(NextSlot + k - 1) % RX_DESC_COUNT] = [done |-> TRUE, frame |-> stored[Len(handed) + k]]
  /\ ~filled =>
       /\ Len(out) <= Len(accepted) /\ out = SubSeq(accepted, 1, Len(out))
       /\ Len(accepted) - Len(out) = (tdt - tdh) % TX_DESC_COUNT
       /\ \A k \in 1 .. Len(accepted) - Len(out) :
            tx[(tdh + k - 1) % TX_DESC_COUNT] = [done |-> FALSE, frame |-> accepted[Len(out) + k]]

=============================================================================
