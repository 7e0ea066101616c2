------------------------------ MODULE VirtioBlk ------------------------------
(***************************************************************************)
(* src/drivers/virtio_blk.c: one request at a time through one queue, with *)
(* one bounce buffer, a transfer of any length cut into chunks.  Sectors   *)
(* hold model values.  The disk side of the queue is external: it takes    *)
(* the request in the available ring, and answers in the used ring, at any *)
(* time after the notification.                                            *)
(*                                                                         *)
(* The loop that waits for used->idx has only an inb in its body, whose    *)
(* asm (include/kernel/cpu.h) does not clobber memory: gcc -O2, the flags  *)
(* of config.mk, loads used->idx once, in front of the loop.               *)
(***************************************************************************)
EXTENDS Integers, Sequences

CONSTANTS
  Sectors,        \* sectors of the disk
  Value,          \* what a sector may hold
  CHUNK,          \* sectors of the bounce buffer (8)
  IdxMod,         \* the range of the 16-bit ring indices
  MaxCount,       \* bound: sectors of a transfer
  MaxXfers        \* bound: transfers

ASSUME BlkAssumption ==
  Sectors \in Nat /\ Value # {} /\ CHUNK \in Nat \ {0} /\ IdxMod \in Nat \ {0, 1} /\ MaxCount \in Nat

Lba == 0 .. Sectors - 1

VARIABLES
  blk_ready,                 \* g_blk.ready
  req, status, bounce,       \* the request, its status byte, the bounce buffer
  avail, used, last_used,    \* ring indices
  disk,
  blk_at,                    \* "idle", "submit", "wait", "spin", "finish"
  xfer, result, xfers,       \* the transfer under way, and how the last one ended
  before                     \* ghost: the disk when the transfer began

blkVars == <<blk_ready, req, status, bounce, avail, used, last_used, disk, blk_at, xfer, result, xfers, before>>

Zero == CHOOSE v \in Value : TRUE
Empty == [i \in 1 .. CHUNK |-> Zero]
NoOp == [write |-> FALSE, lba |-> 0, count |-> 0, done |-> 0, buffer |-> <<>>]

\* virtio_blk_init: ready only with a device of the right kind, a queue and memory.
virtio_blk_init ==
  /\ blk_ready \in BOOLEAN
  /\ avail = 0 /\ used = 0 /\ last_used = 0
  /\ req = [write |-> FALSE, sector |-> 0, count |-> 0] /\ status = 0 /\ bounce = Empty

BlkInit ==
  /\ virtio_blk_init
  /\ disk = [s \in Lba |-> Zero] /\ before = disk
  /\ blk_at = "idle" /\ xfer = NoOp /\ result = TRUE /\ xfers = 0

Min2(a, b) == IF a < b THEN a ELSE b

\* Mutant: every chunk starts at the first sector of the transfer.
NextLba_First(o) == o.lba

NextLba(o) == o.lba + o.done

\* virtio_blk_read and virtio_blk_write: called with a buffer of count sectors.
Transfer(w, lba, buffer) ==
  /\ blk_at = "idle" /\ xfers < MaxXfers /\ xfers' = xfers + 1
  /\ xfer' = [write |-> w, lba |-> lba, count |-> Len(buffer), done |-> 0, buffer |-> buffer]
  /\ before' = disk
  /\ \/ blk_ready /\ blk_at' = "submit" /\ result' = result
     \/ ~blk_ready /\ blk_at' = "idle" /\ result' = FALSE
  /\ UNCHANGED <<blk_ready, req, status, bounce, avail, used, last_used, disk>>

\* virtio_blk_submit up to the notification, for the next chunk of the caller's loop.
Submit ==
  LET n == Min2(xfer.count - xfer.done, CHUNK)
  IN  /\ blk_at = "submit" /\ blk_at' = "wait"
      /\ req' = [write |-> xfer.write, sector |-> NextLba(xfer), count |-> n]
      /\ status' = 255
      /\ bounce' = IF xfer.write THEN [i \in 1 .. CHUNK |-> IF i <= n THEN xfer.buffer[xfer.done + i] ELSE bounce[i]] ELSE bounce
      /\ avail' = (avail + 1) % IdxMod
      /\ UNCHANGED <<blk_ready, used, last_used, disk, xfer, result, xfers, before>>

\* The device: sectors that are not there make it fail, and so may any request.
DeviceServes ==
  LET S == req.sector .. req.sector + req.count - 1
  IN  /\ used # avail /\ used' = (used + 1) % IdxMod
      /\ \/ /\ S \subseteq Lba /\ status' = 0
            /\ \/ req.write /\ bounce' = bounce
                  /\ disk' = [s \in Lba |-> IF s \in S THEN bounce[s - req.sector + 1] ELSE disk[s]]
               \/ ~req.write /\ disk' = disk
                  /\ bounce' = [i \in 1 .. CHUNK |-> IF i <= req.count THEN disk[req.sector + i - 1] ELSE bounce[i]]
         \/ status' = 1 /\ UNCHANGED <<bounce, disk>>
      /\ UNCHANGED <<blk_ready, req, avail, last_used, blk_at, xfer, result, xfers, before>>

\* Mutant: a completion seen once is taken for the next one too.
Seen_Not == last_used

Seen == used

\* The wait: used->idx is loaded once.
Wait ==
  /\ blk_at = "wait"
  /\ \/ used # last_used /\ blk_at' = "finish" /\ last_used' = Seen
     \/ used = last_used /\ blk_at' = "spin" /\ last_used' = last_used
  /\ UNCHANGED <<blk_ready, req, status, bounce, avail, used, disk, xfer, result, xfers, before>>

\* The rest of virtio_blk_submit and of the caller's loop.
Complete ==
  LET n == req.count
      d == xfer.done + n
  IN  /\ blk_at = "finish"
      /\ \/ /\ status # 0 /\ blk_at' = "idle" /\ result' = FALSE /\ xfer' = xfer
         \/ /\ status = 0
            /\ xfer' = [xfer EXCEPT !.done = d,
                                !.buffer = IF xfer.write THEN @ ELSE
                                  [i \in DOMAIN @ |-> IF i \in xfer.done + 1 .. d THEN bounce[i - xfer.done] ELSE @[i]]]
            /\ \/ d = xfer.count /\ blk_at' = "idle" /\ result' = TRUE
               \/ d < xfer.count /\ blk_at' = "submit" /\ result' = result
      /\ UNCHANGED <<blk_ready, req, status, bounce, avail, used, last_used, disk, xfers, before>>

Buffers == UNION {[1 .. n -> Value] : n \in 1 .. MaxCount}

BlkNext ==
  \/ \E w \in BOOLEAN, lba \in Lba, b \in Buffers : Transfer(w, lba, b)
  \/ Submit \/ DeviceServes \/ Wait \/ Complete

\* The CPU goes on and the device serves what it was given.
BlkSpec == BlkInit /\ [][BlkNext]_blkVars /\ WF_blkVars(Submit \/ Wait \/ Complete) /\ WF_blkVars(DeviceServes)

-----------------------------------------------------------------------------
(* Properties. *)

\* Between transfers: a write that succeeded has replaced exactly its sectors, one that
\* failed the sectors of its chunks before the failing one, and a read that succeeded
\* holds what the disk has, chunk by chunk.
DiskFaithful ==
  blk_at = "idle" /\ blk_ready =>
    /\ xfer.write =>
         /\ \A s \in Lba \ (xfer.lba .. xfer.lba + xfer.count - 1) : disk[s] = before[s]
         /\ \A s \in Lba \cap (xfer.lba .. xfer.lba + xfer.count - 1) :
              IF result \/ s < xfer.lba + xfer.done THEN disk[s] = xfer.buffer[s - xfer.lba + 1] ELSE disk[s] = before[s]
    /\ ~xfer.write => disk = before
    /\ ~xfer.write /\ result => \A i \in 1 .. xfer.count : xfer.buffer[i] = disk[xfer.lba + i - 1]

\* Not guaranteed: docs/FEATURES.md lists reading and writing files through this driver as working: a
\* transfer, once begun, ends.
TransferEnds == blk_at # "idle" ~> blk_at = "idle"
=============================================================================
