---------------------------- MODULE DriverProofs ----------------------------
(***************************************************************************)
(* What two drivers promise, for all sizes of their rings and buffers: a   *)
(* disk transfer moves its sectors and no others (VirtioBlk), and the      *)
(* rings of the network card lose, double and reorder no frame (Nic).      *)
(***************************************************************************)
EXTENDS VirtioBlk, Nic, TLAPS

(* VirtioBlk. *)

\* The sectors of the next chunk, and those that are on the disk or in the bounce buffer.
ChunkLen == Min2(xfer.count - xfer.done, CHUNK)
Asked == blk_at \in {"wait", "spin", "finish"}
Served == Asked /\ used = avail /\ status = 0
Moved == xfer.done + (IF Served THEN ChunkLen ELSE 0)

BlkTypes ==
  /\ blk_at \in {"idle", "submit", "wait", "spin", "finish"}
  /\ xfer.write \in BOOLEAN /\ xfer.lba \in Nat /\ xfer.count \in Nat /\ xfer.done \in 0 .. xfer.count
  /\ xfer = [write |-> xfer.write, lba |-> xfer.lba, count |-> xfer.count, done |-> xfer.done, buffer |-> xfer.buffer]
  /\ xfer.buffer \in [1 .. xfer.count -> Value]
  /\ disk \in [Lba -> Value] /\ before \in [Lba -> Value] /\ bounce \in [1 .. CHUNK -> Value]
  /\ avail \in 0 .. IdxMod - 1 /\ used \in 0 .. IdxMod - 1 /\ last_used \in 0 .. IdxMod - 1

\* One request at a time: used is last_used, and one ahead of it while an answer waits.
OneRequest ==
  /\ ~Asked => used = avail /\ last_used = used
  /\ blk_at = "finish" => used = avail /\ last_used = used
  /\ blk_at \in {"wait", "spin"} => avail = (last_used + 1) % IdxMod /\ used \in {last_used, avail}
  /\ Asked => req = [write |-> xfer.write, sector |-> xfer.lba + xfer.done, count |-> ChunkLen]
  /\ blk_at # "idle" => xfer.done < xfer.count
  /\ blk_at = "idle" /\ result => xfer.done = xfer.count

WriteSoFar ==
  xfer.write =>
    /\ \A s \in Lba : disk[s] = IF s \in xfer.lba .. xfer.lba + Moved - 1 THEN xfer.buffer[s - xfer.lba + 1] ELSE before[s]
    /\ Asked /\ used # avail => \A i \in 1 .. ChunkLen : bounce[i] = xfer.buffer[xfer.done + i]
ReadSoFar ==
  ~xfer.write =>
    /\ disk = before
    /\ \A i \in 1 .. xfer.done : xfer.buffer[i] = disk[xfer.lba + i - 1]
    /\ Served => \A i \in 1 .. ChunkLen : bounce[i] = disk[xfer.lba + xfer.done + i - 1]

BlkInv == BlkTypes /\ OneRequest /\ WriteSoFar /\ ReadSoFar

LEMMA ChunkFits ==
  ASSUME BlkTypes, xfer.done < xfer.count
  PROVE  ChunkLen \in 1 .. CHUNK /\ xfer.done + ChunkLen <= xfer.count /\ ChunkLen \in Nat
  BY BlkAssumption DEF BlkTypes, ChunkLen, Min2

LEMMA NextIndex == ASSUME NEW i \in 0 .. IdxMod - 1 PROVE (i + 1) % IdxMod \in 0 .. IdxMod - 1 /\ (i + 1) % IdxMod # i
<1>1. CASE i + 1 < IdxMod
  BY <1>1, BlkAssumption
<1>2. CASE i + 1 = IdxMod
  BY <1>2, BlkAssumption
<1> QED BY <1>1, <1>2, BlkAssumption

LEMMA BlkInitInv == BlkInit => BlkInv
<1> SUFFICES ASSUME BlkInit PROVE BlkInv
  BY Zenon
<1>1. Zero \in Value
  BY BlkAssumption, Zenon DEF Zero
<1>2. BlkTypes
  BY <1>1, BlkAssumption DEF BlkInit, BlkTypes, virtio_blk_init, Empty, NoOp, Lba
<1> QED BY <1>2 DEF BlkInv, BlkInit, virtio_blk_init, NoOp, OneRequest, WriteSoFar, ReadSoFar, Asked, Served

LEMMA TransferInv ==
  ASSUME BlkInv, NEW w \in BOOLEAN, NEW lba \in Lba, NEW b \in Buffers, Transfer(w, lba, b)
  PROVE  BlkInv'
<1> USE BlkAssumption
<1>1. PICK n \in 1 .. MaxCount : b \in [1 .. n -> Value]
  BY Zenon DEF Buffers
<1>2. Len(b) = n /\ n \in Nat
  BY <1>1
<1>3. xfer' = [write |-> w, lba |-> lba, count |-> n, done |-> 0, buffer |-> b] /\ before' = disk /\ blk_at' \in {"idle", "submit"}
      /\ blk_at = "idle" /\ UNCHANGED <<req, status, bounce, avail, used, last_used, disk>> /\ (blk_at' = "idle" => result' = FALSE)
  BY <1>2, Zenon DEF Transfer
<1>4. BlkTypes'
  BY <1>1, <1>2, <1>3 DEF BlkInv, BlkTypes, Lba
<1>5. OneRequest' /\ ~Served' /\ Moved' = 0 /\ ~Asked'
  BY <1>2, <1>3, <1>4 DEF BlkInv, OneRequest, Asked, Served, Moved
<1>6. WriteSoFar' /\ ReadSoFar'
  BY <1>3, <1>4, <1>5 DEF WriteSoFar, ReadSoFar, BlkTypes
<1> QED BY <1>4, <1>5, <1>6, Zenon DEF BlkInv

LEMMA SubmitInv == ASSUME BlkInv, Submit PROVE BlkInv'
<1> USE BlkAssumption
<1>1. blk_at = "submit" /\ blk_at' = "wait" /\ UNCHANGED <<used, last_used, disk, xfer, result, before>>
      /\ avail' = (avail + 1) % IdxMod /\ req' = [write |-> xfer.write, sector |-> xfer.lba + xfer.done, count |-> ChunkLen]
      /\ bounce' = IF xfer.write THEN [i \in 1 .. CHUNK |-> IF i <= ChunkLen THEN xfer.buffer[xfer.done + i] ELSE bounce[i]] ELSE bounce
  BY Zenon DEF Submit, NextLba, ChunkLen
<1>2. BlkTypes /\ OneRequest /\ xfer.done < xfer.count /\ used = avail /\ last_used = used /\ ~Asked
  BY <1>1, Zenon DEF BlkInv, OneRequest, Asked
<1>3. ChunkLen \in 1 .. CHUNK /\ xfer.done + ChunkLen <= xfer.count /\ ChunkLen' = ChunkLen
  BY <1>1, <1>2, ChunkFits, Zenon DEF ChunkLen
<1>4. avail' \in 0 .. IdxMod - 1 /\ avail' # used'
  BY <1>1, <1>2, NextIndex, Zenon DEF BlkTypes
<1>t. xfer.done \in 0 .. xfer.count /\ xfer.count \in Nat /\ xfer.buffer \in [1 .. xfer.count -> Value]
      /\ bounce \in [1 .. CHUNK -> Value] /\ CHUNK \in Nat
  BY <1>2, Zenon DEF BlkTypes
<1>5. \A i \in 1 .. ChunkLen : xfer.buffer[xfer.done + i] \in Value
  <2>1. \A i \in 1 .. ChunkLen : xfer.done + i \in 1 .. xfer.count
    BY <1>3, <1>t
  <2> QED BY <1>t, <2>1, Zenon
<1>6. bounce' \in [1 .. CHUNK -> Value] /\ (xfer.write => \A i \in 1 .. ChunkLen : bounce'[i] = xfer.buffer[xfer.done + i])
  <2>1. CASE ~xfer.write
    <3>1. bounce' = bounce
      BY <1>1, <2>1, Zenon
    <3> QED BY <1>t, <2>1, <3>1, Zenon
  <2>2. CASE xfer.write
    <3>1. bounce' = [i \in 1 .. CHUNK |-> IF i <= ChunkLen THEN xfer.buffer[xfer.done + i] ELSE bounce[i]]
      BY <1>1, <2>2, Zenon
    <3>2. \A i \in 1 .. CHUNK : i <= ChunkLen => i \in 1 .. ChunkLen
      BY <1>3, <1>t
    <3>3. \A i \in 1 .. ChunkLen : i \in 1 .. CHUNK /\ i <= ChunkLen
      BY <1>3, <1>t
    <3>4. \A i \in 1 .. CHUNK : (IF i <= ChunkLen THEN xfer.buffer[xfer.done + i] ELSE bounce[i]) \in Value
      BY <1>5, <1>t, <3>2, Zenon
    <3> QED BY <3>1, <3>3, <3>4, Zenon
  <2> QED BY <2>1, <2>2, Zenon
<1>7. BlkTypes'
  BY <1>1, <1>2, <1>4, <1>6, Zenon DEF BlkTypes
<1>8. Asked' /\ ~Served' /\ Moved' = Moved
  BY <1>1, <1>2, <1>4, Zenon DEF Asked, Served, Moved, BlkTypes
<1>9. OneRequest'
  BY <1>1, <1>2, <1>3, <1>8, Zenon DEF OneRequest
<1>10. WriteSoFar' /\ ReadSoFar'
  BY <1>1, <1>3, <1>6, <1>8 DEF BlkInv, WriteSoFar, ReadSoFar
<1> QED BY <1>7, <1>9, <1>10, Zenon DEF BlkInv

LEMMA DeviceInv == ASSUME BlkInv, DeviceServes PROVE BlkInv'
<1> USE BlkAssumption
<1> DEFINE S == req.sector .. req.sector + req.count - 1
<1>1. used # avail /\ used' = (used + 1) % IdxMod /\ UNCHANGED <<req, avail, last_used, blk_at, xfer, result, before>>
  BY Zenon DEF DeviceServes
<1>2. BlkTypes /\ OneRequest /\ blk_at \in {"wait", "spin"} /\ Asked /\ ~Served /\ used' = avail
  BY <1>1, Zenon DEF BlkInv, OneRequest, Asked, Served, BlkTypes
<1>3. /\ req.sector = xfer.lba + xfer.done /\ req.count = ChunkLen /\ req.write = xfer.write /\ xfer.done < xfer.count
  BY <1>2 DEF OneRequest
<1>4. ChunkLen \in 1 .. CHUNK /\ xfer.done + ChunkLen <= xfer.count /\ ChunkLen' = ChunkLen /\ ChunkLen \in Nat
  BY <1>1, <1>2, <1>3, ChunkFits, Zenon DEF ChunkLen
<1>t. xfer.lba \in Nat /\ xfer.done \in Nat /\ xfer.count \in Nat /\ CHUNK \in Nat /\ ChunkLen <= CHUNK
  BY <1>2, <1>4 DEF BlkTypes
<1>5. OneRequest' /\ Asked' /\ used' = avail' /\ used' \in 0 .. IdxMod - 1
  BY <1>1, <1>2, <1>4, Zenon DEF OneRequest, Asked, BlkTypes
<1>6. CASE status' = 1 /\ UNCHANGED <<bounce, disk>>
  <2>1. ~Served' /\ Moved' = Moved
    BY <1>1, <1>2, <1>6 DEF Served, Moved
  <2> QED BY <1>1, <1>2, <1>5, <1>6, <2>1, Zenon DEF BlkInv, BlkTypes, WriteSoFar, ReadSoFar
<1>7. CASE S \subseteq Lba /\ status' = 0 /\ req.write /\ bounce' = bounce /\ disk' = [s \in Lba |-> IF s \in S THEN bounce[s - req.sector + 1] ELSE disk[s]]
  <2>1. Served' /\ Moved' = xfer.done + ChunkLen /\ Moved = xfer.done
    BY <1>1, <1>2, <1>4, <1>5, <1>7 DEF Served, Moved, BlkTypes
  <2>2. \A s \in Lba : s \in S => bounce[s - req.sector + 1] = xfer.buffer[s - xfer.lba + 1] /\ bounce[s - req.sector + 1] \in Value
    <3> TAKE s \in Lba
    <3> HAVE s \in S
    <3> DEFINE i == s - req.sector + 1
    <3>1. i \in 1 .. ChunkLen /\ xfer.done + i = s - xfer.lba + 1
      BY <1>3, <1>4, <1>t DEF Lba
    <3>2. bounce[i] = xfer.buffer[xfer.done + i]
      BY <1>1, <1>2, <1>3, <1>7, <3>1, Zenon DEF BlkInv, WriteSoFar
    <3>3. bounce[i] \in Value
      <4>1. i \in 1 .. CHUNK
        BY <1>4, <1>t, <3>1
      <4> QED BY <1>2, <4>1, Zenon DEF BlkTypes
    <3> QED BY <3>1, <3>2, <3>3, Zenon
  <2>3. disk' \in [Lba -> Value]
    BY <1>2, <1>7, <2>2, Zenon DEF BlkTypes
  <2>4. \A s \in Lba : disk'[s] = IF s \in xfer.lba .. xfer.lba + xfer.done + ChunkLen - 1 THEN xfer.buffer[s - xfer.lba + 1] ELSE before[s]
    <3> TAKE s \in Lba
    <3>1. disk[s] = IF s \in xfer.lba .. xfer.lba + xfer.done - 1 THEN xfer.buffer[s - xfer.lba + 1] ELSE before[s]
      BY <1>3, <1>7, <2>1, Zenon DEF BlkInv, WriteSoFar
    <3>2. s \in xfer.lba .. xfer.lba + xfer.done + ChunkLen - 1 <=> s \in xfer.lba .. xfer.lba + xfer.done - 1 \/ s \in S
      BY <1>3, <1>4, <1>t DEF Lba
    <3> QED BY <1>7, <2>2, <3>1, <3>2, Zenon
  <2>5. WriteSoFar'
    BY <1>1, <1>4, <1>t, <1>5, <2>1, <2>4 DEF WriteSoFar
  <2>6. ReadSoFar'
    BY <1>1, <1>3, <1>7, Zenon DEF ReadSoFar
  <2> QED BY <1>1, <1>2, <1>5, <1>7, <2>3, <2>5, <2>6, Zenon DEF BlkInv, BlkTypes
<1>8. CASE S \subseteq Lba /\ status' = 0 /\ ~req.write /\ disk' = disk /\ bounce' = [i \in 1 .. CHUNK |-> IF i <= req.count THEN disk[req.sector + i - 1] ELSE bounce[i]]
  <2>1. \A i \in 1 .. CHUNK : i <= req.count => bounce'[i] = disk[req.sector + i - 1] /\ disk[req.sector + i - 1] \in Value
    <3> TAKE i \in 1 .. CHUNK
    <3> HAVE i <= req.count
    <3>1. req.sector + i - 1 \in S
      BY <1>3, <1>4, <1>t
    <3> QED BY <1>2, <1>8, <3>1, Zenon DEF BlkTypes
  <2>2. bounce' \in [1 .. CHUNK -> Value]
    BY <1>2, <1>8, <2>1, Zenon DEF BlkTypes
  <2>3. \A i \in 1 .. ChunkLen : bounce'[i] = disk[xfer.lba + xfer.done + i - 1]
    BY <1>2, <1>3, <1>4, <2>1 DEF BlkTypes
  <2>4. ReadSoFar' /\ WriteSoFar'
    BY <1>1, <1>3, <1>4, <1>8, <2>3 DEF BlkInv, ReadSoFar, WriteSoFar
  <2> QED BY <1>1, <1>2, <1>5, <1>8, <2>2, <2>4, Zenon DEF BlkInv, BlkTypes
<1> QED BY <1>6, <1>7, <1>8, Zenon DEF DeviceServes

LEMMA WaitInv == ASSUME BlkInv, Wait PROVE BlkInv'
<1> USE BlkAssumption
<1>1. Asked /\ Asked' /\ ChunkLen' = ChunkLen /\ BlkTypes'
  BY Zenon DEF Wait, Asked, ChunkLen, BlkInv, BlkTypes, Seen
<1>2. Served' = Served /\ Moved' = Moved
  BY <1>1, Zenon DEF Wait, Served, Moved
<1>3. OneRequest'
  BY <1>1, Zenon DEF Wait, OneRequest, BlkInv, Seen, Asked
<1> QED BY <1>1, <1>2, <1>3, Zenon DEF Wait, BlkInv, WriteSoFar, ReadSoFar

LEMMA CompleteInv == ASSUME BlkInv, Complete PROVE BlkInv'
<1> USE BlkAssumption
<1> DEFINE d == xfer.done + ChunkLen
<1>1. blk_at = "finish" /\ UNCHANGED <<req, status, bounce, avail, used, last_used, disk, before>>
  BY Zenon DEF Complete
<1>2. BlkTypes /\ OneRequest /\ used = avail /\ last_used = used /\ xfer.done < xfer.count /\ req.count = ChunkLen /\ Asked
  BY <1>1 DEF BlkInv, OneRequest, Asked
<1>3. ChunkLen \in 1 .. CHUNK /\ d <= xfer.count /\ d \in Nat
  BY <1>2, ChunkFits DEF BlkTypes
<1>t. xfer.lba \in Nat /\ xfer.done \in Nat /\ xfer.count \in Nat /\ CHUNK \in Nat /\ ChunkLen \in Nat /\ ChunkLen <= CHUNK
      /\ xfer.write \in BOOLEAN /\ bounce \in [1 .. CHUNK -> Value] /\ xfer.buffer \in [1 .. xfer.count -> Value] /\ DOMAIN xfer.buffer = 1 .. xfer.count
  BY <1>2, <1>3 DEF BlkTypes
<1>r. xfer = [write |-> xfer.write, lba |-> xfer.lba, count |-> xfer.count, done |-> xfer.done, buffer |-> xfer.buffer]
  BY <1>2, Zenon DEF BlkTypes
<1>4. CASE status # 0 /\ blk_at' = "idle" /\ result' = FALSE /\ xfer' = xfer
  <2>1. ~Served /\ ~Served' /\ Moved' = Moved /\ ~Asked'
    BY <1>1, <1>4, Zenon DEF Served, Asked, Moved
  <2> QED BY <1>1, <1>2, <1>4, <2>1, Zenon DEF BlkInv, BlkTypes, OneRequest, WriteSoFar, ReadSoFar
<1>5. CASE status = 0 /\ Complete
  <2>1. Served /\ Moved = d
    BY <1>2, <1>5, Zenon DEF Served, Moved
  <2>2. /\ xfer' = [xfer EXCEPT !.done = d, !.buffer = IF xfer.write THEN @ ELSE
                                  [i \in DOMAIN @ |-> IF i \in xfer.done + 1 .. d THEN bounce[i - xfer.done] ELSE @[i]]]
        /\ \/ d = xfer.count /\ blk_at' = "idle" /\ result' = TRUE
           \/ d < xfer.count /\ blk_at' = "submit" /\ result' = result
    BY <1>2, <1>5, Zenon DEF Complete
  <2>3. ~Asked' /\ ~Served'
    BY <2>2, Zenon DEF Asked, Served
  <2>4. /\ xfer'.write = xfer.write /\ xfer'.lba = xfer.lba /\ xfer'.count = xfer.count /\ xfer'.done = d
        /\ xfer'.buffer = IF xfer.write THEN xfer.buffer ELSE
                                  [i \in 1 .. xfer.count |-> IF i \in xfer.done + 1 .. d THEN bounce[i - xfer.done] ELSE xfer.buffer[i]]
        /\ xfer' = [write |-> xfer'.write, lba |-> xfer'.lba, count |-> xfer'.count, done |-> xfer'.done, buffer |-> xfer'.buffer]
    BY <1>t, <1>r, <2>2, Zenon
  <2>5. \A i \in xfer.done + 1 .. d : i - xfer.done \in 1 .. ChunkLen /\ bounce[i - xfer.done] \in Value
    BY <1>3, <1>t
  <2>6. xfer'.buffer \in [1 .. xfer.count -> Value]
    <3>1. CASE xfer.write
      BY <1>t, <2>4, <3>1, Zenon
    <3>2. CASE ~xfer.write
      <4>1. xfer'.buffer = [i \in 1 .. xfer.count |-> IF i \in xfer.done + 1 .. d THEN bounce[i - xfer.done] ELSE xfer.buffer[i]]
        BY <2>4, <3>2, Zenon
      <4>2. \A i \in 1 .. xfer.count : (IF i \in xfer.done + 1 .. d THEN bounce[i - xfer.done] ELSE xfer.buffer[i]) \in Value
        BY <1>t, <2>5, Zenon
      <4> QED BY <4>1, <4>2, Zenon
    <3> QED BY <3>1, <3>2, Zenon
  <2>7. BlkTypes'
    BY <1>1, <1>2, <1>3, <2>2, <2>4, <2>6 DEF BlkTypes
  <2>8. OneRequest'
    BY <1>1, <1>2, <1>3, <2>2, <2>3, <2>4, Zenon DEF OneRequest, Asked, BlkTypes
  <2>9. Moved' = d
    BY <1>3, <1>t, <2>3, <2>4 DEF Moved
  <2>10. WriteSoFar'
    BY <1>1, <2>1, <2>3, <2>4, <2>9, Zenon DEF BlkInv, WriteSoFar
  <2>11. ReadSoFar'
    <3>1. SUFFICES ASSUME ~xfer.write PROVE disk' = before' /\ \A i \in 1 .. d : xfer'.buffer[i] = disk[xfer.lba + i - 1]
      BY <1>1, <2>3, <2>4, Zenon DEF ReadSoFar
    <3>2. disk = before /\ (\A i \in 1 .. xfer.done : xfer.buffer[i] = disk[xfer.lba + i - 1])
          /\ \A i \in 1 .. ChunkLen : bounce[i] = disk[xfer.lba + xfer.done + i - 1]
      BY <2>1, <3>1, Zenon DEF BlkInv, ReadSoFar
    <3>b. xfer'.buffer = [i \in 1 .. xfer.count |-> IF i \in xfer.done + 1 .. d THEN bounce[i - xfer.done] ELSE xfer.buffer[i]]
      BY <2>4, <3>1, Zenon
    <3>3. ASSUME NEW i \in 1 .. d PROVE xfer'.buffer[i] = disk[xfer.lba + i - 1]
      <4>0. i \in 1 .. xfer.count
        BY <1>3, <1>t
      <4>1. CASE i \in 1 .. xfer.done
        <5>1. i \notin xfer.done + 1 .. d
          BY <1>t, <4>1
        <5> QED BY <3>2, <3>b, <4>0, <4>1, <5>1, Zenon
      <4>2. CASE i \in xfer.done + 1 .. d
        <5>1. xfer'.buffer[i] = bounce[i - xfer.done]
          BY <3>b, <4>0, <4>2, Zenon
        <5>2. bounce[i - xfer.done] = disk[xfer.lba + xfer.done + (i - xfer.done) - 1]
          BY <2>5, <3>2, <4>2, Zenon
        <5>3. xfer.lba + xfer.done + (i - xfer.done) - 1 = xfer.lba + i - 1
          BY <1>t
        <5> QED BY <5>1, <5>2, <5>3, Zenon
      <4> QED BY <1>2, <1>3, <4>1, <4>2 DEF BlkTypes
    <3> QED BY <1>1, <3>2, <3>3, Zenon
  <2> QED BY <2>7, <2>8, <2>10, <2>11, Zenon DEF BlkInv
<1> QED BY <1>4, <1>5, Zenon DEF Complete

\* For every disk, bounce buffer and range of the ring indices, and every sequence of reads
\* and writes cut into chunks, some of which fail: a transfer moves exactly its sectors.
THEOREM DiskFaithfulHolds == BlkSpec => []DiskFaithful
<1>1. BlkInv /\ [BlkNext]_blkVars => BlkInv'
  <2>1. BlkInv /\ UNCHANGED blkVars => BlkInv'
    BY DEF blkVars, BlkInv, BlkTypes, OneRequest, WriteSoFar, ReadSoFar, Asked, Served, Moved, ChunkLen
  <2> QED BY <2>1, TransferInv, SubmitInv, DeviceInv, WaitInv, CompleteInv, Zenon DEF BlkNext
<1>2. BlkInv => DiskFaithful
  <2> SUFFICES ASSUME BlkInv, blk_at = "idle" PROVE DiskFaithful
    BY Zenon DEF DiskFaithful
  <2>1. Moved = xfer.done /\ (result => xfer.done = xfer.count) /\ BlkTypes
    BY DEF BlkInv, BlkTypes, OneRequest, Moved, Served, Asked
  <2> QED BY <2>1 DEF DiskFaithful, BlkInv, WriteSoFar, ReadSoFar, BlkTypes, Lba
<1> QED BY <1>1, <1>2, BlkInitInv, PTL DEF BlkSpec

-----------------------------------------------------------------------------
(* Remainders, for the rings. *)

LEMMA TimesAtLeast == ASSUME NEW n \in Nat, NEW e \in Int, e >= 1 PROVE n * e >= n
<1>1. e - 1 \in Nat /\ n * (e - 1) >= 0 /\ n * (e - 1) = n * e - n /\ n * e \in Int
  OBVIOUS
<1> QED BY <1>1

LEMMA DivMod == ASSUME NEW n \in Nat \ {0}, NEW a \in Int
  PROVE a \div n \in Int /\ (a % n) \in 0 .. n - 1 /\ a = n * (a \div n) + (a % n)
<1>1. (a % n) = a - n * (a \div n)
  OBVIOUS
<1>2. a \div n \in Int /\ (a % n) \in 0 .. n - 1
  OBVIOUS
<1>3. PICK q \in Int : q = a \div n
  BY <1>2, Zenon
<1>4. PICK r \in 0 .. n - 1 : r = a % n
  BY <1>2, Zenon
<1>5. r = a - n * q /\ n * q \in Int
  BY <1>1, <1>3, <1>4
<1>6. a = n * q + r
  BY <1>5
<1>7. n * q = n * (a \div n)
  BY <1>3, Zenon
<1>8. n * q + r = n * q + (a % n)
  BY <1>4, Zenon
<1>9. n * q + (a % n) = n * (a \div n) + (a % n)
  BY <1>7, Zenon
<1> QED BY <1>2, <1>6, <1>8, <1>9, Zenon

\* A number has one quotient and one remainder.
LEMMA ModOf == ASSUME NEW n \in Nat \ {0}, NEW m \in Int, NEW d \in 0 .. n - 1 PROVE (n * m + d) % n = d
<1> DEFINE y == n * m + d  q == y \div n  r == y % n
<1>1. y \in Int /\ n * m \in Int
  OBVIOUS
<1>2. q \in Int /\ r \in 0 .. n - 1 /\ y = n * q + r
  BY <1>1, DivMod, Zenon
<1>3. n * m + d = n * q + r /\ n * q \in Int
  BY <1>2
<1> HIDE DEF q, r, y
<1>4. n * (m - q) = r - d /\ n * (q - m) = d - r
  <2>1. n * (m - q) = n * m - n * q /\ n * (q - m) = n * q - n * m
    BY <1>2
  <2> QED BY <1>1, <1>2, <1>3, <2>1
<1>5. ~(m - q >= 1)
  <2>1. m - q >= 1 => n * (m - q) >= n
    BY <1>2, TimesAtLeast
  <2> QED BY <1>2, <1>4, <2>1
<1>6. ~(q - m >= 1)
  <2>1. q - m >= 1 => n * (q - m) >= n
    BY <1>2, TimesAtLeast
  <2> QED BY <1>2, <1>4, <2>1
<1>7. m = q
  BY <1>2, <1>5, <1>6
<1> QED BY <1>1, <1>2, <1>3, <1>7 DEF y, r

\* Remainders follow additions.
LEMMA ModAdd == ASSUME NEW n \in Nat \ {0}, NEW a \in Int, NEW j \in Int PROVE ((a % n) + j) % n = (a + j) % n
<1>1. PICK qa \in Int, r \in 0 .. n - 1 : r = a % n /\ a = n * qa + r
  BY DivMod, Zenon
<1>2. r + j \in Int
  OBVIOUS
<1>3. PICK qb \in Int, s \in 0 .. n - 1 : s = (r + j) % n /\ r + j = n * qb + s
  BY <1>2, DivMod
<1>4. PICK A \in Int, B \in Int : A = n * qa /\ B = n * qb
  OBVIOUS
<1>5. n * (qa + qb) = A + B
  BY <1>4
<1>6. a = A + r /\ r + j = B + s
  BY <1>1, <1>3, <1>4, Zenon
<1>7. a + j = A + B + s
  BY <1>6
<1>8. (n * (qa + qb) + s) % n = s
  BY ModOf
<1>9. (a + j) % n = s
  BY <1>5, <1>7, <1>8, Zenon
<1> QED BY <1>1, <1>3, <1>9, Zenon

LEMMA ModApart == ASSUME NEW n \in Nat \ {0}, NEW a \in Int, NEW b \in Int, a <= b, b < a + n, (a % n) = b % n PROVE a = b
<1> DEFINE d == b - a
<1>1. d \in 0 .. n - 1 /\ d \in Int /\ (a % n) \in 0 .. n - 1 /\ b = a + d
  BY DivMod
<1>2. ((a % n) + d) % n = a % n
  <2>1. ((a % n) + d) % n = (a + d) % n
    BY <1>1, ModAdd, Zenon
  <2> QED BY <1>1, <2>1, Zenon
<1>3. PICK r \in 0 .. n - 1 : r = a % n
  BY <1>1, Zenon
<1>4. (r + d) % n = r
  BY <1>2, <1>3, Zenon
<1>5. CASE r + d < n
  <2>1. r + d = n * 0 + (r + d) /\ r + d \in 0 .. n - 1
    BY <1>1, <1>5
  <2>2. (n * 0 + (r + d)) % n = r + d
    BY <2>1, ModOf
  <2> QED BY <1>1, <1>4, <2>1, <2>2
<1>6. CASE r + d >= n
  <2>1. PICK e \in 0 .. n - 1 : e = r + d - n
    BY <1>1, <1>6
  <2>2. (n * 1 + e) % n = e
    BY ModOf
  <2>3. n * 1 + e = r + d
    BY <1>1, <2>1
  <2>4. e = r
    BY <1>4, <2>2, <2>3, Zenon
  <2> QED BY <1>1, <2>1, <2>4
<1> QED BY <1>1, <1>5, <1>6

LEMMA ModOnto == ASSUME NEW n \in Nat \ {0}, NEW a \in Nat, NEW i \in 0 .. n - 1 PROVE \E k \in a .. a + n - 1 : k % n = i
<1>1. PICK q \in Int, r \in 0 .. n - 1 : a = n * q + r
  <2>1. a \in Int
    OBVIOUS
  <2> QED BY <2>1, DivMod, Zenon
<1>2. n * q \in Int /\ (n * q + i) % n = i
  BY ModOf
<1>3. n * (q + 1) = n * q + n /\ (n * (q + 1) + i) % n = i
  BY ModOf
<1>4. CASE i >= r
  <2>1. n * q + i \in a .. a + n - 1
    BY <1>1, <1>2, <1>4
  <2> QED BY <1>2, <2>1, Zenon
<1>5. CASE i < r
  <2>1. n * q + n + i \in a .. a + n - 1
    BY <1>1, <1>2, <1>5
  <2> QED BY <1>3, <2>1, Zenon
<1> QED BY <1>4, <1>5

LEMMA ModSmall == ASSUME NEW n \in Nat \ {0}, NEW d \in 0 .. n - 1 PROVE d % n = d
<1>1. n * 0 + d = d
  OBVIOUS
<1> QED BY <1>1, ModOf

LEMMA ModSub == ASSUME NEW n \in Nat \ {0}, NEW a \in Nat, NEW b \in Nat, a <= b, b < a + n PROVE ((b % n) - (a % n)) % n = b - a
<1>1. PICK q \in Int, r \in 0 .. n - 1 : r = a % n /\ a = n * q + r
  <2>1. a \in Int
    OBVIOUS
  <2> QED BY <2>1, DivMod, Zenon
<1>2. PICK s \in 0 .. n - 1 : s = b % n
  BY DivMod
<1>3. ((b % n) + (0 - r)) % n = (b + (0 - r)) % n
  <2>1. 0 - r \in Int /\ b \in Int
    OBVIOUS
  <2> QED BY <2>1, ModAdd, Zenon
<1>4. b + (0 - r) = n * q + (b - a) /\ b - a \in 0 .. n - 1
  <2>1. n * q \in Int
    OBVIOUS
  <2> QED BY <1>1, <2>1
<1>5. (n * q + (b - a)) % n = b - a
  BY <1>4, ModOf, Zenon
<1>6. s + (0 - r) = s - r
  OBVIOUS
<1>7. (s + (0 - r)) % n = b - a
  BY <1>2, <1>3, <1>4, <1>5, Zenon
<1>8. (s - r) % n = b - a
  BY <1>6, <1>7, Zenon
<1>9. r = a % n
  BY <1>1, Zenon
<1>10. s - r = s - (a % n)
  BY <1>9, Zenon
<1>11. s - (a % n) = (b % n) - (a % n)
  BY <1>2, Zenon
<1> QED BY <1>8, <1>10, <1>11, Zenon

-----------------------------------------------------------------------------
(* Nic. *)

\* The descriptors of the k-th frame.
RxAt(k) == k % RX_DESC_COUNT
TxAt(k) == k % TX_DESC_COUNT

LEMMA RxSlots ==
  ASSUME NEW k \in Int
  PROVE  RxAt(k) \in Rx /\ NextRx(RxAt(k)) = RxAt(k + 1) /\ RxAt(k + RX_DESC_COUNT) = RxAt(k)
<1> USE NicAssumption
<1>1. RxAt(k) \in Rx
  BY DivMod, Zenon DEF RxAt, Rx
<1>2. ((k % RX_DESC_COUNT) + 1) % RX_DESC_COUNT = (k + 1) % RX_DESC_COUNT
  <2>1. RX_DESC_COUNT \in Nat \ {0} /\ 1 \in Int
    OBVIOUS
  <2> QED BY <2>1, ModAdd, Zenon
<1>3. (RX_DESC_COUNT * 1 + RxAt(k)) % RX_DESC_COUNT = RxAt(k)
  <2>1. RX_DESC_COUNT \in Nat \ {0} /\ 1 \in Int
    OBVIOUS
  <2> QED BY <1>1, <2>1, ModOf, Zenon DEF Rx
<1>4. RX_DESC_COUNT * 1 + RxAt(k) = RxAt(k) + RX_DESC_COUNT
  BY <1>1 DEF Rx
<1>5. ((k % RX_DESC_COUNT) + RX_DESC_COUNT) % RX_DESC_COUNT = (k + RX_DESC_COUNT) % RX_DESC_COUNT
  <2>1. RX_DESC_COUNT \in Nat \ {0} /\ RX_DESC_COUNT \in Int
    OBVIOUS
  <2> QED BY <2>1, ModAdd, Zenon
<1>6. (k + RX_DESC_COUNT) % RX_DESC_COUNT = RxAt(k)
  BY <1>3, <1>4, <1>5, Zenon DEF RxAt
<1> QED BY <1>1, <1>2, <1>6, Zenon DEF RxAt, NextRx

LEMMA RxApart ==
  ASSUME NEW a \in Int, NEW b \in Int, a < b, b < a + RX_DESC_COUNT
  PROVE  RxAt(a) # RxAt(b)
<1>1. SUFFICES ASSUME a % RX_DESC_COUNT = b % RX_DESC_COUNT PROVE FALSE
  BY Zenon DEF RxAt
<1>2. RX_DESC_COUNT \in Nat \ {0} /\ a <= b
  BY NicAssumption
<1>3. a = b
  BY <1>1, <1>2, ModApart, Zenon
<1> QED BY <1>3

LEMMA TxSlots ==
  ASSUME NEW k \in Int
  PROVE  TxAt(k) \in Tx /\ NextTx(TxAt(k)) = TxAt(k + 1) /\ TxAt(k + TX_DESC_COUNT) = TxAt(k)
<1> USE NicAssumption
<1>1. TxAt(k) \in Tx
  BY DivMod, Zenon DEF TxAt, Tx
<1>2. ((k % TX_DESC_COUNT) + 1) % TX_DESC_COUNT = (k + 1) % TX_DESC_COUNT
  <2>1. TX_DESC_COUNT \in Nat \ {0} /\ 1 \in Int
    OBVIOUS
  <2> QED BY <2>1, ModAdd, Zenon
<1>3. (TX_DESC_COUNT * 1 + TxAt(k)) % TX_DESC_COUNT = TxAt(k)
  <2>1. TX_DESC_COUNT \in Nat \ {0} /\ 1 \in Int
    OBVIOUS
  <2> QED BY <1>1, <2>1, ModOf, Zenon DEF Tx
<1>4. TX_DESC_COUNT * 1 + TxAt(k) = TxAt(k) + TX_DESC_COUNT
  BY <1>1 DEF Tx
<1>5. ((k % TX_DESC_COUNT) + TX_DESC_COUNT) % TX_DESC_COUNT = (k + TX_DESC_COUNT) % TX_DESC_COUNT
  <2>1. TX_DESC_COUNT \in Nat \ {0} /\ TX_DESC_COUNT \in Int
    OBVIOUS
  <2> QED BY <2>1, ModAdd, Zenon
<1>6. (k + TX_DESC_COUNT) % TX_DESC_COUNT = TxAt(k)
  BY <1>3, <1>4, <1>5, Zenon DEF TxAt
<1> QED BY <1>1, <1>2, <1>6, Zenon DEF TxAt, NextTx

LEMMA TxApart ==
  ASSUME NEW a \in Int, NEW b \in Int, a < b, b < a + TX_DESC_COUNT
  PROVE  TxAt(a) # TxAt(b)
<1>1. SUFFICES ASSUME a % TX_DESC_COUNT = b % TX_DESC_COUNT PROVE FALSE
  BY DEF TxAt
<1>2. TX_DESC_COUNT \in Nat \ {0} /\ a <= b
  BY NicAssumption
<1>3. a = b
  BY <1>1, <1>2, ModApart, Zenon
<1> QED BY <1>3

LEMMA TxOnto == ASSUME NEW a \in Nat, NEW i \in Tx PROVE \E k \in a .. a + TX_DESC_COUNT - 1 : TxAt(k) = i
  BY NicAssumption, ModOnto, Zenon DEF TxAt, Tx

-----------------------------------------------------------------------------
PollPlaces == {"out", "test", "call", "clear", "tail", "advance"}
Slot == [done : BOOLEAN, frame : Nat]
Numbered(s) == s \in Seq(Nat) /\ \A i \in 1 .. Len(s) : s[i] = i

\* The frames behind which a poller in one of the places is still to go.
Behind(places, pl, h) == IF \E p \in Pollers : pl[p] \in places THEN h - 1 ELSE h
Passed == Behind({"clear", "tail", "advance"}, poll_at, Len(handed))
Tails == Behind({"clear", "tail"}, poll_at, Len(handed))
Clears == Behind({"clear"}, poll_at, Len(handed))

RxTypes ==
  /\ rx \in [Rx -> Slot] /\ rdh \in Rx /\ rdt \in Rx /\ rx_index \in Rx
  /\ poll_at \in [Pollers -> PollPlaces] /\ desc \in [Pollers -> Rx] /\ idx \in [Pollers -> Rx]
  /\ handed \in Seq(Nat) /\ overlapped \in BOOLEAN
  /\ Numbered(stored)

OnePoller == \A p, q \in Pollers : poll_at[p] # "out" /\ poll_at[q] # "out" => p = q

Registers ==
  /\ Passed \in Nat /\ Len(handed) <= Len(stored) /\ Len(stored) <= Tails + RX_DESC_COUNT - 1
  /\ rdh = RxAt(Len(stored)) /\ rx_index = RxAt(Passed) /\ rdt = RxAt(Tails + RX_DESC_COUNT - 1)

Descriptors ==
  /\ \A k \in Len(handed) .. Len(stored) - 1 : rx[RxAt(k)] = [done |-> TRUE, frame |-> k + 1]
  /\ \A k \in Len(stored) .. Clears + RX_DESC_COUNT - 1 : ~rx[RxAt(k)].done

Held ==
  \A p \in Pollers :
    /\ poll_at[p] = "call" => desc[p] = rx_index /\ Len(handed) < Len(stored)
    /\ poll_at[p] = "clear" => desc[p] = rx_index
    /\ poll_at[p] = "advance" => idx[p] = rx_index

RxRing == OnePoller /\ Numbered(handed) /\ Registers /\ Descriptors /\ Held
RxInv == RxTypes /\ (~overlapped => RxRing)

\* With all the others out, only one poller counts.
LEMMA BehindOne ==
  ASSUME NEW p \in Pollers, NEW pl, \A q \in Pollers : q # p => pl[q] = "out", NEW h
  PROVE  /\ Behind({"clear", "tail", "advance"}, pl, h) = IF pl[p] \in {"clear", "tail", "advance"} THEN h - 1 ELSE h
         /\ Behind({"clear", "tail"}, pl, h) = IF pl[p] \in {"clear", "tail"} THEN h - 1 ELSE h
         /\ Behind({"clear"}, pl, h) = IF pl[p] = "clear" THEN h - 1 ELSE h
  BY Zenon DEF Behind

LEMMA AppendNext == ASSUME NEW s, Numbered(s) PROVE Numbered(Append(s, Len(s) + 1))
  BY DEF Numbered

LEMMA RxInitInv == NicInit => RxInv
<1> SUFFICES ASSUME NicInit PROVE RxInv
  OBVIOUS
<1> USE NicAssumption
<1>1. RxTypes
  <2>1. 0 \in Rx /\ RX_DESC_COUNT - 1 \in Rx
    BY DEF Rx
  <2>2. rx \in [Rx -> Slot]
    BY Zenon DEF NicInit, e1000_init, e1000_init_rx, Slot
  <2>3. handed \in Seq(Nat) /\ Numbered(stored)
    BY DEF NicInit, Numbered
  <2> QED BY <2>1, <2>2, <2>3, Zenon DEF NicInit, e1000_init, e1000_init_rx, RxTypes, PollPlaces
<1>2. Passed = 0 /\ Tails = 0 /\ Clears = 0 /\ Len(stored) = 0 /\ Len(handed) = 0
  BY Zenon DEF NicInit, Passed, Tails, Clears, Behind
<1>3. RxAt(0) = 0 /\ RxAt(0 + RX_DESC_COUNT - 1) = RX_DESC_COUNT - 1
  <2>1. 0 \in 0 .. RX_DESC_COUNT - 1 /\ RX_DESC_COUNT - 1 \in 0 .. RX_DESC_COUNT - 1 /\ 0 + RX_DESC_COUNT - 1 = RX_DESC_COUNT - 1
    OBVIOUS
  <2>2. RxAt(0) = 0 /\ RxAt(RX_DESC_COUNT - 1) = RX_DESC_COUNT - 1
    BY <2>1, ModSmall, Zenon DEF RxAt
  <2> QED BY <2>1, <2>2, Zenon
<1>4. Registers
  BY <1>2, <1>3 DEF Registers, NicInit, e1000_init, e1000_init_rx
<1>5. Descriptors
  <2>1. \A k \in Int : ~rx[RxAt(k)].done
    BY RxSlots, Zenon DEF NicInit, e1000_init, e1000_init_rx
  <2> QED BY <1>2, <2>1 DEF Descriptors
<1>6. OnePoller /\ Held /\ Numbered(handed)
  BY DEF NicInit, OnePoller, Held, Numbered
<1> QED BY <1>1, <1>4, <1>5, <1>6, Zenon DEF RxInv, RxRing

LEMMA ReceiveInv == ASSUME RxInv, CardReceives PROVE RxInv'
<1> USE NicAssumption
<1> DEFINE S == Len(stored)  H == Len(handed)
<1>1. RxTypes /\ rdh # rdt /\ UNCHANGED <<rdt, rx_index, handed, poll_at, desc, idx, overlapped>>
      /\ rx' = [rx EXCEPT ![rdh] = [done |-> TRUE, frame |-> S + 1]] /\ rdh' = NextRx(rdh) /\ stored' = Append(stored, S + 1)
  BY Zenon DEF CardReceives, RxInv, pollvars
<1>2. S \in Nat /\ H \in Nat /\ S' = S + 1 /\ Numbered(stored')
  BY <1>1, AppendNext DEF RxTypes, Numbered
<1>3. NextRx(rdh) \in Rx
  BY <1>1, DivMod DEF RxTypes, NextRx, Rx
<1>4. RxTypes'
  BY <1>1, <1>2, <1>3 DEF RxTypes, Slot
<1>5. SUFFICES ASSUME ~overlapped PROVE RxRing'
  BY <1>1, <1>4, Zenon DEF RxInv
<1>6. RxRing
  BY <1>5, Zenon DEF RxInv
<1>7. Passed' = Passed /\ Tails' = Tails /\ Clears' = Clears
  BY <1>1, Zenon DEF Passed, Tails, Clears
<1>8. Tails \in Int /\ Clears \in Int /\ Tails <= H /\ Clears <= H
  BY <1>2 DEF Tails, Clears, Behind
<1>9. S + 1 <= Tails + RX_DESC_COUNT - 1 /\ H <= S
  BY <1>1, <1>2, <1>6, <1>8 DEF RxRing, Registers
<1>10. rdh = RxAt(S) /\ RxAt(S) \in Rx /\ rdh' = RxAt(S + 1)
  BY <1>1, <1>2, <1>6, RxSlots DEF RxRing, Registers
<1>11. Registers'
  BY <1>1, <1>2, <1>6, <1>7, <1>9, <1>10 DEF RxRing, Registers
<1>12. ASSUME NEW k \in H .. S' - 1 PROVE rx'[RxAt(k)] = [done |-> TRUE, frame |-> k + 1]
  <2>1. CASE k = S
    BY <1>1, <1>10, <2>1, Zenon DEF RxTypes
  <2>2. CASE k < S
    <3>1. RxAt(k) # RxAt(S) /\ RxAt(k) \in Rx
      BY <1>2, <1>8, <1>9, <2>2, RxApart, RxSlots
    <3>2. rx[RxAt(k)] = [done |-> TRUE, frame |-> k + 1]
      BY <1>2, <1>6, <2>2 DEF RxRing, Descriptors
    <3> QED BY <1>1, <1>10, <3>1, <3>2, Zenon DEF RxTypes
  <2> QED BY <1>2, <2>1, <2>2
<1>13. ASSUME NEW k \in S' .. Clears + RX_DESC_COUNT - 1 PROVE ~rx'[RxAt(k)].done
  <2>1. RxAt(S) # RxAt(k) /\ RxAt(k) \in Rx
    BY <1>2, <1>8, <1>9, RxApart, RxSlots
  <2>2. ~rx[RxAt(k)].done
    BY <1>2, <1>6, <1>8 DEF RxRing, Descriptors
  <2> QED BY <1>1, <1>10, <2>1, <2>2, Zenon DEF RxTypes
<1>14. Descriptors'
  BY <1>1, <1>7, <1>12, <1>13, Zenon DEF Descriptors
<1>15. OnePoller' /\ Held' /\ Numbered(handed)'
  BY <1>1, <1>2, <1>6 DEF RxRing, OnePoller, Held, Numbered
<1> QED BY <1>11, <1>14, <1>15, Zenon DEF RxRing

\* A poller at work: everyone else is out.
LEMMA Alone ==
  ASSUME RxRing, NEW p \in Pollers, poll_at[p] # "out"
  PROVE  \A q \in Pollers : q # p => poll_at[q] = "out"
  BY Zenon DEF RxRing, OnePoller

LEMMA EnterInv == ASSUME RxInv, NEW p \in Pollers, EnterPoll(p) PROVE RxInv'
<1>1. RxTypes /\ poll_at[p] = "out" /\ poll_at' = [poll_at EXCEPT ![p] = "test"] /\ UNCHANGED <<rx, rdh, rdt, rx_index, stored, handed, desc, idx>>
      /\ overlapped' = (overlapped \/ \E q \in Pollers : poll_at[q] # "out")
  BY Zenon DEF RxInv, EnterPoll, Goto, rxvars
<1>2. RxTypes'
  BY <1>1, Zenon DEF RxTypes, PollPlaces
<1>3. SUFFICES ASSUME ~overlapped, \A q \in Pollers : poll_at[q] = "out" PROVE RxRing'
  BY <1>1, <1>2, Zenon DEF RxInv
<1>4. RxRing
  BY <1>3, Zenon DEF RxInv
<1>5. \A q \in Pollers : q # p => poll_at'[q] = "out"
  BY <1>1, <1>3, Zenon DEF RxTypes
<1>6. poll_at'[p] = "test"
  BY <1>1, Zenon DEF RxTypes
<1>7. Passed' = Passed /\ Tails' = Tails /\ Clears' = Clears
  BY <1>1, <1>3, <1>5, <1>6, Zenon DEF Passed, Tails, Clears, Behind
<1>8. OnePoller' /\ Held' /\ Numbered(handed)'
  BY <1>1, <1>4, <1>5, <1>6, Zenon DEF OnePoller, Held, RxRing, Numbered
<1> QED BY <1>1, <1>4, <1>7, <1>8, Zenon DEF RxRing, Registers, Descriptors

LEMMA TestInv == ASSUME RxInv, NEW p \in Pollers, Test(p) PROVE RxInv'
<1> USE NicAssumption
<1>1. RxTypes /\ poll_at[p] = "test" /\ UNCHANGED <<rx, rdh, rdt, rx_index, stored, handed, idx, overlapped>>
      /\ \/ rx[rx_index].done /\ poll_at' = [poll_at EXCEPT ![p] = "call"] /\ desc' = [desc EXCEPT ![p] = rx_index]
         \/ ~rx[rx_index].done /\ poll_at' = [poll_at EXCEPT ![p] = "out"] /\ desc' = desc
  BY Zenon DEF RxInv, Test, Goto, rxvars
<1>2. RxTypes'
  BY <1>1, SMTT(30) DEF RxTypes, PollPlaces
<1>3. SUFFICES ASSUME ~overlapped PROVE RxRing'
  BY <1>1, <1>2, Zenon DEF RxInv
<1>4. RxRing
  BY <1>3, Zenon DEF RxInv
<1>5. \A q \in Pollers : q # p => poll_at[q] = "out" /\ poll_at'[q] = "out"
  BY <1>1, <1>4, Alone, Zenon DEF RxTypes
<1>6. poll_at'[p] \in {"call", "out"}
  BY <1>1, Zenon DEF RxTypes
<1>7. Passed = Len(handed) /\ Clears = Len(handed) /\ Tails = Len(handed) /\ Passed' = Passed /\ Tails' = Tails /\ Clears' = Clears
  BY <1>1, <1>5, <1>6, Zenon DEF Passed, Tails, Clears, Behind
<1>8. rx[rx_index].done => Len(handed) < Len(stored)
  <2>1. Len(handed) \in Nat /\ Len(stored) \in Nat /\ Len(handed) <= Len(stored) /\ rx_index = RxAt(Len(handed))
    BY <1>1, <1>4, <1>7 DEF RxTypes, Numbered, RxRing, Registers
  <2>2. Len(handed) = Len(stored) => Len(handed) \in Len(stored) .. Clears + RX_DESC_COUNT - 1
    BY <1>7, <2>1
  <2> QED BY <1>4, <2>1, <2>2 DEF RxRing, Descriptors
<1>9. poll_at'[p] = "call" => desc'[p] = rx_index' /\ Len(handed') < Len(stored')
  BY <1>1, <1>8, Zenon DEF RxTypes
<1>10. OnePoller' /\ Held' /\ Numbered(handed)'
  BY <1>1, <1>4, <1>5, <1>6, <1>9, Zenon DEF OnePoller, Held, RxRing, Numbered
<1> QED BY <1>1, <1>4, <1>7, <1>10, Zenon DEF RxRing, Registers, Descriptors

LEMMA CallInv == ASSUME RxInv, NEW p \in Pollers, Call(p) PROVE RxInv'
<1> USE NicAssumption
<1> DEFINE S == Len(stored)  H == Len(handed)
<1>1. RxTypes /\ poll_at[p] = "call" /\ UNCHANGED <<rx, rdh, rdt, rx_index, stored, desc, idx, overlapped>>
      /\ poll_at' = [poll_at EXCEPT ![p] = "clear"] /\ handed' = Append(handed, rx[desc[p]].frame)
  BY Zenon DEF RxInv, Call, Goto
<1>2. rx[desc[p]].frame \in Nat /\ H \in Nat /\ S \in Nat /\ H' = H + 1
  BY <1>1 DEF RxTypes, Slot, Numbered
<1>3. RxTypes'
  BY <1>1, <1>2 DEF RxTypes, PollPlaces
<1>4. SUFFICES ASSUME ~overlapped PROVE RxRing'
  BY <1>1, <1>3, Zenon DEF RxInv
<1>5. RxRing
  BY <1>4 DEF RxInv
<1>6. \A q \in Pollers : q # p => poll_at[q] = "out" /\ poll_at'[q] = "out"
  BY <1>1, <1>5, Alone, Zenon DEF RxTypes
<1>7. poll_at'[p] = "clear"
  BY <1>1, Zenon DEF RxTypes
<1>8. Passed = H /\ Tails = H /\ Clears = H /\ Passed' = H /\ Tails' = H /\ Clears' = H
  <2>1. Passed = H /\ Tails = H /\ Clears = H
    BY <1>1, <1>6, Zenon DEF Passed, Tails, Clears, Behind
  <2>2. Passed' = H' - 1 /\ Tails' = H' - 1 /\ Clears' = H' - 1
    BY <1>7, Zenon DEF Passed, Tails, Clears, Behind
  <2> QED BY <1>2, <2>1, <2>2
<1>9. desc[p] = RxAt(H) /\ rx_index = RxAt(H) /\ H < S
  BY <1>1, <1>5, <1>8, Zenon DEF RxRing, Held, Registers
<1>10. rx[desc[p]].frame = H + 1
  <2>1. H \in H .. S - 1
    BY <1>2, <1>9
  <2>2. rx[RxAt(H)] = [done |-> TRUE, frame |-> H + 1]
    BY <1>5, <2>1, Zenon DEF RxRing, Descriptors
  <2> QED BY <1>9, <2>2
<1>11. Numbered(handed')
  BY <1>1, <1>5, <1>10, AppendNext, Zenon DEF RxRing
<1>12. Registers'
  BY <1>1, <1>2, <1>5, <1>8, <1>9 DEF RxRing, Registers
<1>13. Descriptors'
  BY <1>1, <1>2, <1>5, <1>8 DEF RxRing, Descriptors
<1>14. OnePoller' /\ Held'
  BY <1>1, <1>6, <1>7, <1>9, Zenon DEF OnePoller, Held
<1> QED BY <1>11, <1>12, <1>13, <1>14, Zenon DEF RxRing

LEMMA ClearInv == ASSUME RxInv, NEW p \in Pollers, Clear(p) PROVE RxInv'
<1> USE NicAssumption
<1> DEFINE S == Len(stored)  H == Len(handed)
<1>1. RxTypes /\ poll_at[p] = "clear" /\ UNCHANGED <<rdh, rdt, rx_index, stored, handed, desc, idx, overlapped>>
      /\ poll_at' = [poll_at EXCEPT ![p] = "tail"] /\ rx' = [rx EXCEPT ![desc[p]].done = FALSE]
  BY Zenon DEF RxInv, Clear, Goto, Cleared
<1>2. H \in Nat /\ S \in Nat /\ desc[p] \in Rx
  BY <1>1 DEF RxTypes, Numbered
<1>3. RxTypes'
  BY <1>1, <1>2, Zenon DEF RxTypes, PollPlaces, Slot
<1>4. SUFFICES ASSUME ~overlapped PROVE RxRing'
  BY <1>1, <1>3, Zenon DEF RxInv
<1>5. RxRing
  BY <1>4 DEF RxInv
<1>6. \A q \in Pollers : q # p => poll_at[q] = "out" /\ poll_at'[q] = "out"
  BY <1>1, <1>5, Alone, Zenon DEF RxTypes
<1>7. poll_at'[p] = "tail"
  BY <1>1, Zenon DEF RxTypes
<1>8. Passed = H - 1 /\ Tails = H - 1 /\ Clears = H - 1 /\ Passed' = H - 1 /\ Tails' = H - 1 /\ Clears' = H
  BY <1>1, <1>6, <1>7, Zenon DEF Passed, Tails, Clears, Behind
<1>9. desc[p] = RxAt(H - 1) /\ H - 1 \in Nat /\ H <= S /\ S <= H - 1 + RX_DESC_COUNT - 1
  BY <1>1, <1>5, <1>8, Zenon DEF RxRing, Held, Registers
<1>10. Registers'
  BY <1>1, <1>5, <1>8, Zenon DEF RxRing, Registers
<1>11. ASSUME NEW k \in H .. S - 1 PROVE rx'[RxAt(k)] = [done |-> TRUE, frame |-> k + 1]
  <2>1. RxAt(H - 1) # RxAt(k) /\ RxAt(k) \in Rx
    BY <1>2, <1>9, RxApart, RxSlots
  <2>2. rx[RxAt(k)] = [done |-> TRUE, frame |-> k + 1]
    BY <1>5, Zenon DEF RxRing, Descriptors
  <2> QED BY <1>1, <1>9, <2>1, <2>2, Zenon DEF RxTypes
<1>12. ASSUME NEW k \in S .. H + RX_DESC_COUNT - 1 PROVE ~rx'[RxAt(k)].done
  <2>1. RxAt(k) \in Rx
    BY <1>2, RxSlots
  <2>2. CASE RxAt(k) = desc[p]
    BY <1>1, <2>1, <2>2, Zenon DEF RxTypes, Slot
  <2>3. CASE RxAt(k) # desc[p]
    <3>1. (H - 1) + RX_DESC_COUNT = H + RX_DESC_COUNT - 1 /\ H - 1 \in Int
      BY <1>2
    <3>2. RxAt(H + RX_DESC_COUNT - 1) = RxAt(H - 1)
      BY <3>1, RxSlots, Zenon
    <3>3. k # H + RX_DESC_COUNT - 1
      BY <1>9, <2>3, <3>2, Zenon
    <3>4. k \in S .. Clears + RX_DESC_COUNT - 1
      BY <1>2, <1>8, <3>3
    <3>5. ~rx[RxAt(k)].done
      BY <1>5, <3>4, Zenon DEF RxRing, Descriptors
    <3> QED BY <1>1, <2>1, <2>3, <3>5, Zenon DEF RxTypes
  <2> QED BY <2>2, <2>3, Zenon
<1>13. Descriptors'
  BY <1>1, <1>8, <1>11, <1>12, Zenon DEF Descriptors
<1>14. OnePoller' /\ Held' /\ Numbered(handed)'
  BY <1>1, <1>5, <1>6, <1>7, Zenon DEF OnePoller, Held, RxRing, Numbered
<1> QED BY <1>10, <1>13, <1>14, Zenon DEF RxRing

LEMMA SetTailInv == ASSUME RxInv, NEW p \in Pollers, SetTail(p) PROVE RxInv'
<1> USE NicAssumption
<1> DEFINE S == Len(stored)  H == Len(handed)
<1>1. RxTypes /\ poll_at[p] = "tail" /\ UNCHANGED <<rx, rdh, rx_index, stored, handed, desc, overlapped>>
      /\ poll_at' = [poll_at EXCEPT ![p] = "advance"] /\ rdt' = rx_index /\ idx' = [idx EXCEPT ![p] = rx_index]
  BY Zenon DEF RxInv, SetTail, Goto
<1>2. H \in Nat /\ S \in Nat
  BY <1>1 DEF RxTypes, Numbered
<1>3. RxTypes'
  BY <1>1, Zenon DEF RxTypes, PollPlaces
<1>4. SUFFICES ASSUME ~overlapped PROVE RxRing'
  BY <1>1, <1>3, Zenon DEF RxInv
<1>5. RxRing
  BY <1>4 DEF RxInv
<1>6. \A q \in Pollers : q # p => poll_at[q] = "out" /\ poll_at'[q] = "out"
  BY <1>1, <1>5, Alone, Zenon DEF RxTypes
<1>7. poll_at'[p] = "advance" /\ idx'[p] = rx_index
  BY <1>1, Zenon DEF RxTypes
<1>8. Passed = H - 1 /\ Tails = H - 1 /\ Clears = H /\ Passed' = H - 1 /\ Tails' = H /\ Clears' = H
  BY <1>1, <1>6, <1>7, Zenon DEF Passed, Tails, Clears, Behind
<1>9. RxAt(H + RX_DESC_COUNT - 1) = RxAt(H - 1)
  <2>1. (H - 1) + RX_DESC_COUNT = H + RX_DESC_COUNT - 1 /\ H - 1 \in Int
    BY <1>2
  <2> QED BY <2>1, RxSlots, Zenon
<1>10. Registers'
  BY <1>1, <1>2, <1>5, <1>8, <1>9 DEF RxRing, Registers
<1>11. Descriptors'
  BY <1>1, <1>5, <1>8, Zenon DEF RxRing, Descriptors
<1>12. OnePoller' /\ Held' /\ Numbered(handed)'
  BY <1>1, <1>5, <1>6, <1>7, Zenon DEF OnePoller, Held, RxRing, Numbered
<1> QED BY <1>10, <1>11, <1>12 DEF RxRing

LEMMA AdvanceInv == ASSUME RxInv, NEW p \in Pollers, Advance(p) PROVE RxInv'
<1> USE NicAssumption
<1> DEFINE S == Len(stored)  H == Len(handed)
<1>1. RxTypes /\ poll_at[p] = "advance" /\ UNCHANGED <<rx, rdh, rdt, stored, handed, desc, idx, overlapped>>
      /\ poll_at' = [poll_at EXCEPT ![p] = "test"] /\ rx_index' = NextRx(idx[p])
  BY Zenon DEF RxInv, Advance, Goto
<1>2. H \in Nat /\ S \in Nat /\ idx[p] \in Rx /\ NextRx(idx[p]) \in Rx
  <2>1. H \in Nat /\ S \in Nat /\ idx[p] \in Rx
    BY <1>1 DEF RxTypes, Numbered
  <2>2. idx[p] + 1 \in Int
    BY <2>1 DEF Rx
  <2> QED BY <2>1, <2>2, DivMod, Zenon DEF Rx, NextRx
<1>3. RxTypes'
  BY <1>1, <1>2, Zenon DEF RxTypes, PollPlaces
<1>4. SUFFICES ASSUME ~overlapped PROVE RxRing'
  BY <1>1, <1>3, Zenon DEF RxInv
<1>5. RxRing
  BY <1>4 DEF RxInv
<1>6. \A q \in Pollers : q # p => poll_at[q] = "out" /\ poll_at'[q] = "out"
  BY <1>1, <1>5, Alone, Zenon DEF RxTypes
<1>7. poll_at'[p] = "test"
  BY <1>1, Zenon DEF RxTypes
<1>8. Passed = H - 1 /\ Tails = H /\ Clears = H /\ Passed' = H /\ Tails' = H /\ Clears' = H
  BY <1>1, <1>6, <1>7, Zenon DEF Passed, Tails, Clears, Behind
<1>9. rx_index' = RxAt(H)
  <2>1. idx[p] = RxAt(H - 1)
    BY <1>1, <1>5, <1>8, Zenon DEF RxRing, Held, Registers
  <2>2. H - 1 \in Int /\ (H - 1) + 1 = H
    BY <1>2
  <2> QED BY <1>1, <2>1, <2>2, RxSlots, Zenon
<1>10. Registers'
  BY <1>1, <1>2, <1>5, <1>8, <1>9, Zenon DEF RxRing, Registers
<1>11. Descriptors'
  BY <1>1, <1>5, <1>8, Zenon DEF RxRing, Descriptors
<1>12. OnePoller' /\ Held' /\ Numbered(handed)'
  BY <1>1, <1>5, <1>6, <1>7, Zenon DEF OnePoller, Held, RxRing, Numbered
<1> QED BY <1>10, <1>11, <1>12 DEF RxRing

-----------------------------------------------------------------------------
TxTypes ==
  /\ tx \in [Tx -> Slot] /\ filled \in BOOLEAN
  /\ Numbered(accepted) /\ out \in Seq(Nat)

TxRing ==
  /\ Numbered(out) /\ Len(out) <= Len(accepted) /\ Len(accepted) <= Len(out) + TX_DESC_COUNT - 1
  /\ tdh = TxAt(Len(out)) /\ tdt = TxAt(Len(accepted)) /\ tx_index = TxAt(Len(accepted))
  /\ \A k \in Len(out) .. Len(accepted) - 1 : tx[TxAt(k)] = [done |-> FALSE, frame |-> k + 1]
  /\ \A k \in Len(accepted) .. Len(out) + TX_DESC_COUNT - 1 : tx[TxAt(k)].done

TxInv == tx_index \in Tx /\ tdh \in Tx /\ TxTypes /\ (~filled => TxRing)

LEMMA TxInitInv == NicInit => TxInv
<1> SUFFICES ASSUME NicInit PROVE TxInv
  OBVIOUS
<1> USE NicAssumption
<1>1. tx = [i \in Tx |-> [done |-> TRUE, frame |-> 0]] /\ tdh = 0 /\ tdt = 0 /\ tx_index = 0 /\ accepted = <<>> /\ out = <<>> /\ filled = FALSE
  BY Zenon DEF NicInit, e1000_init, e1000_init_tx
<1>2. 0 \in Tx
  BY DEF Tx
<1>3. Numbered(accepted) /\ Numbered(out) /\ out \in Seq(Nat) /\ Len(out) = 0 /\ Len(accepted) = 0
  BY <1>1 DEF Numbered
<1>4. TxAt(0) = 0
  <2>1. TX_DESC_COUNT \in Nat \ {0} /\ 0 \in 0 .. TX_DESC_COUNT - 1
    OBVIOUS
  <2> QED BY <2>1, ModSmall, Zenon DEF TxAt
<1>5. \A k \in Int : tx[TxAt(k)].done
  BY <1>1, TxSlots, Zenon
<1>6. TxTypes
  BY <1>1, <1>3, Zenon DEF TxTypes, Slot
<1>7. TxRing
  <2>1. \A k \in 0 .. 0 + TX_DESC_COUNT - 1 : tx[TxAt(k)].done
    BY <1>5
  <2>2. \A k \in 0 .. 0 - 1 : FALSE
    OBVIOUS
  <2>3. tdh = TxAt(0) /\ tdt = TxAt(0) /\ tx_index = TxAt(0) /\ 0 <= 0 /\ 0 <= 0 + TX_DESC_COUNT - 1
    BY <1>1, <1>4
  <2> QED BY <1>3, <2>1, <2>2, <2>3, Zenon DEF TxRing
<1> QED BY <1>1, <1>2, <1>6, <1>7, Zenon DEF TxInv

LEMMA CardSendsInv == ASSUME TxInv, CardSends PROVE TxInv'
<1> USE NicAssumption
<1> DEFINE O == Len(out)  A == Len(accepted)
<1>1. TxTypes /\ tdh # tdt /\ out' = Append(out, tx[tdh].frame) /\ tx' = [tx EXCEPT ![tdh].done = TRUE]
      /\ tdh' = NextTx(tdh) /\ UNCHANGED <<tdt, tx_index, accepted, filled>> /\ tx_index \in Tx /\ tdh \in Tx
  BY Zenon DEF CardSends, TxInv
<1>2. O \in Nat /\ A \in Nat /\ tx[tdh].frame \in Nat /\ O' = O + 1
  BY <1>1 DEF TxTypes, Numbered, Slot
<1>3. tdh' \in Tx
  <2>1. tdh + 1 \in Int
    BY <1>1 DEF Tx
  <2> QED BY <1>1, <2>1, DivMod, Zenon DEF Tx, NextTx
<1>4. TxTypes'
  <2>1. tx' \in [Tx -> Slot]
    BY <1>1, Zenon DEF TxTypes, Slot
  <2>2. out' \in Seq(Nat)
    BY <1>1, <1>2 DEF TxTypes
  <2> QED BY <1>1, <2>1, <2>2, Zenon DEF TxTypes, Numbered
<1>5. SUFFICES ASSUME ~filled PROVE TxRing'
  BY <1>1, <1>3, <1>4, Zenon DEF TxInv
<1>6. TxRing
  BY <1>5, Zenon DEF TxInv
<1>7. tdh = TxAt(O) /\ tdt = TxAt(A) /\ O < A /\ A <= O + TX_DESC_COUNT - 1
  BY <1>1, <1>2, <1>6 DEF TxRing
<1>8. tdh' = TxAt(O + 1) /\ TxAt(O + TX_DESC_COUNT) = TxAt(O) /\ TxAt(O) \in Tx
  <2>1. O \in Int
    BY <1>2
  <2> QED BY <1>1, <1>7, <2>1, TxSlots, Zenon
<1>9. Numbered(out')
  <2>1. tx[TxAt(O)] = [done |-> FALSE, frame |-> O + 1]
    BY <1>2, <1>6, <1>7 DEF TxRing
  <2>2. out' = Append(out, O + 1)
    BY <1>1, <1>7, <2>1
  <2> QED BY <1>6, <2>2, AppendNext, Zenon DEF TxRing
<1>10. ASSUME NEW k \in O + 1 .. A - 1 PROVE tx'[TxAt(k)] = [done |-> FALSE, frame |-> k + 1]
  <2>1. TxAt(O) # TxAt(k) /\ TxAt(k) \in Tx
    BY <1>2, <1>7, TxApart, TxSlots
  <2>2. tx[TxAt(k)] = [done |-> FALSE, frame |-> k + 1]
    BY <1>2, <1>6 DEF TxRing
  <2> QED BY <1>1, <1>7, <2>1, <2>2, Zenon DEF TxTypes
<1>11. ASSUME NEW k \in A .. O + 1 + TX_DESC_COUNT - 1 PROVE tx'[TxAt(k)].done
  <2>1. TxAt(k) \in Tx
    BY <1>2, TxSlots
  <2>2. CASE TxAt(k) = TxAt(O)
    BY <1>1, <1>7, <2>1, <2>2, Zenon DEF TxTypes, Slot
  <2>3. CASE TxAt(k) # TxAt(O)
    <3>1. k # O + TX_DESC_COUNT
      BY <1>8, <2>3, Zenon
    <3>2. k \in A .. O + TX_DESC_COUNT - 1
      BY <1>2, <3>1
    <3>3. tx[TxAt(k)].done
      BY <1>6, <3>2, Zenon DEF TxRing
    <3> QED BY <1>1, <1>7, <2>1, <2>3, <3>3, Zenon DEF TxTypes
  <2> QED BY <2>2, <2>3, Zenon
<1>12. TxRing'
  BY <1>1, <1>2, <1>6, <1>7, <1>8, <1>9, <1>10, <1>11 DEF TxRing
<1> QED BY <1>12, Zenon

LEMMA SendInv == ASSUME TxInv, e1000_send PROVE TxInv'
<1> USE NicAssumption
<1> DEFINE O == Len(out)  A == Len(accepted)
<1>1. CASE UNCHANGED <<tx, tx_index, tdt, accepted, filled, tdh, out>>
  BY <1>1, Zenon DEF TxInv, TxTypes, TxRing, Numbered
<1>2. CASE /\ tx' = [tx EXCEPT ![tx_index] = [done |-> FALSE, frame |-> A + 1]]
           /\ tx_index' = NextTx(tx_index) /\ tdt' = NextTx(tx_index)
           /\ accepted' = Append(accepted, A + 1)
           /\ filled' = (filled \/ \A i \in Tx : ~tx'[i].done)
           /\ UNCHANGED <<tdh, out>>
  <2>1. TxTypes /\ tx_index \in Tx /\ tdh \in Tx /\ O \in Nat /\ A \in Nat /\ A' = A + 1
    BY <1>2 DEF TxInv, TxTypes, Numbered
  <2>2. tx_index' \in Tx
    <3>1. tx_index + 1 \in Int
      BY <2>1 DEF Tx
    <3> QED BY <1>2, <3>1, DivMod, Zenon DEF Tx, NextTx
  <2>3. TxTypes'
    <3>1. Numbered(accepted') /\ filled' \in BOOLEAN
      BY <1>2, <2>1, AppendNext, Zenon DEF TxTypes
    <3> QED BY <1>2, <2>1, <3>1 DEF TxTypes, Slot
  <2>4. SUFFICES ASSUME ~filled, ~(\A i \in Tx : ~tx'[i].done) PROVE TxRing'
    BY <1>2, <2>1, <2>2, <2>3, Zenon DEF TxInv
  <2>5. TxRing
    BY <2>4, Zenon DEF TxInv
  <2>6. tx_index = TxAt(A) /\ tdh = TxAt(O) /\ O <= A /\ A <= O + TX_DESC_COUNT - 1 /\ tx_index' = TxAt(A + 1) /\ tdt' = TxAt(A + 1)
    BY <1>2, <2>1, <2>5, TxSlots DEF TxRing
  <2>7. ASSUME NEW k \in O .. A PROVE tx'[TxAt(k)] = [done |-> FALSE, frame |-> k + 1]
    <3>1. CASE k = A
      BY <1>2, <2>1, <2>6, <3>1, Zenon DEF TxTypes
    <3>2. CASE k < A
      <4>1. TxAt(k) # TxAt(A) /\ TxAt(k) \in Tx
        BY <2>1, <2>6, <3>2, TxApart, TxSlots
      <4>2. tx[TxAt(k)] = [done |-> FALSE, frame |-> k + 1]
        BY <2>1, <2>5, <3>2 DEF TxRing
      <4> QED BY <1>2, <2>1, <2>6, <4>1, <4>2, Zenon DEF TxTypes
    <3> QED BY <2>1, <3>1, <3>2
  <2>8. ASSUME NEW k \in A + 1 .. O + TX_DESC_COUNT - 1 PROVE tx'[TxAt(k)].done
    <3>1. TxAt(A) # TxAt(k) /\ TxAt(k) \in Tx
      BY <2>1, <2>6, TxApart, TxSlots
    <3>2. tx[TxAt(k)].done
      BY <2>1, <2>5 DEF TxRing
    <3> QED BY <1>2, <2>1, <2>6, <3>1, <3>2, Zenon DEF TxTypes
  <2>9. A + 1 <= O + TX_DESC_COUNT - 1
    <3>1. SUFFICES ASSUME A = O + TX_DESC_COUNT - 1 PROVE FALSE
      BY <2>1, <2>6
    <3>2. ASSUME NEW i \in Tx PROVE ~tx'[i].done
      <4>1. PICK k \in O .. O + TX_DESC_COUNT - 1 : TxAt(k) = i
        BY <2>1, TxOnto, Zenon
      <4>2. k \in O .. A
        BY <3>1, Zenon
      <4>3. tx'[TxAt(k)] = [done |-> FALSE, frame |-> k + 1]
        BY <2>7, <4>2, Zenon
      <4>4. ~tx'[TxAt(k)].done
        BY <4>3
      <4> QED BY <4>1, <4>4, Zenon
    <3> QED BY <2>4, <3>2, Zenon
  <2>10. TxRing'
    <3>1. A' - 1 = A /\ O' = O
      BY <1>2, <2>1
    <3>2. O <= A' /\ A' <= O + TX_DESC_COUNT - 1
      BY <2>1, <2>5, <2>6, <2>9
    <3> QED BY <1>2, <2>1, <2>5, <2>6, <2>7, <2>8, <3>1, <3>2, Zenon DEF TxRing
  <2> QED BY <2>10
<1> QED BY <1>1, <1>2, Zenon DEF e1000_send, NewTail

-----------------------------------------------------------------------------
LEMMA NumberedPrefix ==
  ASSUME NEW s, NEW t, Numbered(s), Numbered(t), Len(s) <= Len(t)
  PROVE  Len(s) <= Len(t) /\ s = SubSeq(t, 1, Len(s))
<1>1. s = [i \in 1 .. Len(s) |-> i] /\ SubSeq(t, 1, Len(s)) = [i \in 1 .. Len(s) |-> i]
  BY DEF Numbered
<1> QED BY <1>1, Zenon

LEMMA RxOnce ==
  ASSUME RxTypes, RxRing
  PROVE  /\ Len(handed) <= Len(stored) /\ handed = SubSeq(stored, 1, Len(handed))
         /\ \A k \in 1 .. Len(stored) - Len(handed) :
              rx[(NextSlot + k - 1) % RX_DESC_COUNT] = [done |-> TRUE, frame |-> stored[Len(handed) + k]]
<1> USE NicAssumption
<1> DEFINE S == Len(stored)  H == Len(handed)
<1>1. S \in Nat /\ H \in Nat /\ H <= S /\ Numbered(stored) /\ Numbered(handed)
  BY DEF RxTypes, Numbered, RxRing, Registers
<1>2. NextSlot = RxAt(H)
  <2>1. CASE \E p \in Pollers : poll_at[p] \in {"clear", "tail", "advance"}
    <3>1. Passed = H - 1 /\ NextSlot = NextRx(rx_index) /\ rx_index = RxAt(Passed)
      BY <2>1, Zenon DEF Passed, Behind, NextSlot, RxRing, Registers
    <3>2. H - 1 \in Int /\ (H - 1) + 1 = H
      BY <1>1
    <3>3. NextSlot = NextRx(RxAt(H - 1))
      BY <3>1, Zenon
    <3>4. NextRx(RxAt(H - 1)) = RxAt((H - 1) + 1)
      BY <3>2, RxSlots, Zenon
    <3> QED BY <3>2, <3>3, <3>4, Zenon
  <2>2. CASE ~\E p \in Pollers : poll_at[p] \in {"clear", "tail", "advance"}
    BY <2>2, Zenon DEF Passed, Behind, NextSlot, RxRing, Registers
  <2> QED BY <2>1, <2>2, Zenon
<1>3. ASSUME NEW k \in 1 .. S - H PROVE rx[(NextSlot + k - 1) % RX_DESC_COUNT] = [done |-> TRUE, frame |-> stored[H + k]]
  <2>1. H \in Int /\ k - 1 \in Int /\ RX_DESC_COUNT \in Nat \ {0} /\ H + (k - 1) = H + k - 1
    BY <1>1
  <2>2. ((H % RX_DESC_COUNT) + (k - 1)) % RX_DESC_COUNT = RxAt(H + (k - 1))
    BY <2>1, ModAdd, Zenon DEF RxAt
  <2>3. NextSlot + k - 1 = (H % RX_DESC_COUNT) + (k - 1)
    <3>1. H % RX_DESC_COUNT \in Int
      BY <1>1, DivMod
    <3>2. NextSlot = H % RX_DESC_COUNT
      BY <1>2, Zenon DEF RxAt
    <3> QED BY <3>1, <3>2, Zenon
  <2>4. (NextSlot + k - 1) % RX_DESC_COUNT = RxAt(H + k - 1)
    BY <2>1, <2>2, <2>3, Zenon
  <2>5. rx[RxAt(H + k - 1)] = [done |-> TRUE, frame |-> H + k]
    <3>1. H + k - 1 \in H .. S - 1 /\ (H + k - 1) + 1 = H + k
      BY <1>1
    <3> QED BY <3>1, Zenon DEF RxRing, Descriptors
  <2>6. stored[H + k] = H + k
    BY <1>1 DEF Numbered
  <2> QED BY <2>4, <2>5, <2>6, Zenon
<1> QED BY <1>1, <1>3, NumberedPrefix, Zenon

LEMMA TxOnce ==
  ASSUME TxTypes, TxRing
  PROVE  /\ Len(out) <= Len(accepted) /\ out = SubSeq(accepted, 1, Len(out))
         /\ Len(accepted) - Len(out) = (tdt - tdh) % TX_DESC_COUNT
         /\ \A k \in 1 .. Len(accepted) - Len(out) :
              tx[(tdh + k - 1) % TX_DESC_COUNT] = [done |-> FALSE, frame |-> accepted[Len(out) + k]]
<1> USE NicAssumption
<1> DEFINE O == Len(out)  A == Len(accepted)
<1>1. O \in Nat /\ A \in Nat /\ O <= A /\ A < O + TX_DESC_COUNT /\ Numbered(out) /\ Numbered(accepted) /\ TX_DESC_COUNT \in Nat \ {0}
  BY DEF TxTypes, TxRing, Numbered
<1>2. tdh = O % TX_DESC_COUNT /\ tdt = A % TX_DESC_COUNT
  BY Zenon DEF TxRing, TxAt
<1>3. (tdt - tdh) % TX_DESC_COUNT = A - O
  <2>1. ((A % TX_DESC_COUNT) - (O % TX_DESC_COUNT)) % TX_DESC_COUNT = A - O
    BY <1>1, ModSub, Zenon
  <2> QED BY <1>2, <2>1, Zenon
<1>4. ASSUME NEW k \in 1 .. A - O PROVE tx[(tdh + k - 1) % TX_DESC_COUNT] = [done |-> FALSE, frame |-> accepted[O + k]]
  <2>1. O \in Int /\ k - 1 \in Int /\ O + (k - 1) = O + k - 1
    BY <1>1
  <2>2. ((O % TX_DESC_COUNT) + (k - 1)) % TX_DESC_COUNT = TxAt(O + (k - 1))
    BY <1>1, <2>1, ModAdd, Zenon DEF TxAt
  <2>3. tdh + k - 1 = (O % TX_DESC_COUNT) + (k - 1)
    <3>1. O % TX_DESC_COUNT \in Int
      BY <1>1, DivMod
    <3> QED BY <1>2, <3>1, Zenon
  <2>4. (tdh + k - 1) % TX_DESC_COUNT = TxAt(O + k - 1)
    BY <2>1, <2>2, <2>3, Zenon
  <2>5. tx[TxAt(O + k - 1)] = [done |-> FALSE, frame |-> O + k]
    <3>1. O + k - 1 \in O .. A - 1 /\ (O + k - 1) + 1 = O + k
      BY <1>1
    <3> QED BY <3>1, Zenon DEF TxRing
  <2>6. accepted[O + k] = O + k
    BY <1>1 DEF Numbered
  <2> QED BY <2>4, <2>5, <2>6, Zenon
<1> QED BY <1>1, <1>3, <1>4, NumberedPrefix, Zenon

\* For any number of pollers and any size of the two rings: every frame once and in order.
THEOREM FramesOnceHolds == NicSpec => []FramesOnce
<1> DEFINE Inv == RxInv /\ TxInv
<1>1. NicInit => Inv
  BY RxInitInv, TxInitInv, Zenon
<1>2. ASSUME Inv, [NicNext]_nicVars PROVE Inv'
  <2> DEFINE rxall == <<rx, rdh, rdt, rx_index, stored, handed, poll_at, desc, idx, overlapped>>
             txall == <<tx, tdh, tdt, tx_index, accepted, out, filled>>
  <2>1. RxInv /\ UNCHANGED rxall => RxInv'
    <3> SUFFICES ASSUME RxInv, UNCHANGED rxall PROVE RxInv'
      BY Zenon
    <3>1. Passed' = Passed /\ Tails' = Tails /\ Clears' = Clears
      BY Zenon DEF Passed, Tails, Clears
    <3>2. RxTypes' /\ OnePoller' = OnePoller /\ Numbered(handed)' = Numbered(handed) /\ Held' = Held
      BY Zenon DEF RxInv, RxTypes, OnePoller, Held
    <3>3. Registers' = Registers /\ Descriptors' = Descriptors
      BY <3>1, Zenon DEF Registers, Descriptors
    <3> QED BY <3>2, <3>3, Zenon DEF RxInv, RxRing
  <2>2. TxInv /\ UNCHANGED txall => TxInv'
    <3> SUFFICES ASSUME TxInv, UNCHANGED txall PROVE TxInv'
      BY Zenon
    <3>1. TxTypes' = TxTypes
      BY Zenon DEF TxTypes, Numbered
    <3>2. TxRing' = TxRing
      BY Zenon DEF TxRing, Numbered
    <3> QED BY <3>1, <3>2, Zenon DEF TxInv
  <2>3. CASE CardReceives
    BY <1>2, <2>2, <2>3, ReceiveInv, Zenon DEF CardReceives, txvars
  <2>4. CASE CardSends
    BY <1>2, <2>1, <2>4, CardSendsInv, Zenon DEF CardSends, rxvars, pollvars
  <2>5. CASE e1000_send
    BY <1>2, <2>1, <2>5, SendInv, Zenon DEF e1000_send, rxvars, pollvars
  <2>6. ASSUME NEW p \in Pollers, EnterPoll(p) \/ Test(p) \/ Call(p) \/ Clear(p) \/ SetTail(p) \/ Advance(p) PROVE Inv'
    <3>1. RxInv'
      BY <1>2, <2>6, EnterInv, TestInv, CallInv, ClearInv, SetTailInv, AdvanceInv, Zenon
    <3>2. UNCHANGED txall
      BY <2>6, Zenon DEF EnterPoll, Test, Call, Clear, SetTail, Advance, txvars
    <3> QED BY <1>2, <2>2, <3>1, <3>2, Zenon
  <2>7. CASE UNCHANGED nicVars
    BY <1>2, <2>1, <2>2, <2>7, Zenon DEF nicVars, rxvars, pollvars, txvars
  <2> QED BY <1>2, <2>3, <2>4, <2>5, <2>6, <2>7, Zenon DEF NicNext
<1>3. Inv => FramesOnce
  BY RxOnce, TxOnce, Zenon DEF RxInv, TxInv, FramesOnce
<1> QED BY <1>1, <1>2, <1>3, PTL DEF NicSpec
=============================================================================
