------------------------------ MODULE Install ------------------------------
(***************************************************************************)
(* limine bios-install, limine-8.4.0/host/limine.c: where the stages are    *)
(* written on an MBR or a GPT disk, the one-block cache all access goes     *)
(* through, the record of what was overwritten, and the undo from that      *)
(* record, at once when the install fails or later from the stored file.    *)
(* A disk is a row of cells, SECTOR to a logical block, each large enough   *)
(* for one field: the boot code (with a file system's signature), the       *)
(* timestamp, a partition entry, a GPT header.  A checksum is the text it   *)
(* sums.  Messages and the parsing of arguments are left out.               *)
(***************************************************************************)
EXTENDS Integers, Sequences, FiniteSets

CONSTANTS
  SECTOR,         \* cells in a logical block (lb_size)
  BLOCKS,         \* sizes the physical block may have, in cells
  ARRAY,          \* logical blocks taken for the partition array, 32 in the source
  GAP,            \* where the first partition may start, sector 63
  UNINSTALL_DATA_MAX,
  Calls,          \* the disks it is called on, with the partition asked for and --force-mbr
  MaxFaults       \* bound: reads and writes of the device that fail

VARIABLES
  call,           \* the disk before, and the arguments
  block_size,
  disk, cache, cached_block, dirty,
  todo,           \* what is still to be written: places and contents
  aborts,         \* the checks end in goto cleanup once todo is done
  uninstall_data,
  phase,          \* "install", "done", "undo", "ended"
  retry, complaint, cut,  \* of uninstall(); an install write failed after changing something
  faults

vars == <<call, block_size, disk, cache, cached_block, dirty, todo, aborts,
          uninstall_data, phase, retry, complaint, cut, faults>>

-----------------------------------------------------------------------------
(* The device, through its cache.  d has disk, cache, cached_block, dirty. *)
NOTHING == -1
BlockOf(i) == i \div block_size
InBlock(b) == b * block_size .. (b + 1) * block_size - 1
device_flush_cache(d) ==
  [d EXCEPT !.disk = [i \in DOMAIN d.disk |-> IF d.dirty /\ BlockOf(i) = d.cached_block THEN d.cache[i] ELSE d.disk[i]],
            !.dirty = FALSE]
Fetch_NoFlush(d, b) ==
  IF d.cached_block = b THEN d
  ELSE [d EXCEPT !.cache = [i \in InBlock(b) |-> d.disk[i]], !.cached_block = b, !.dirty = FALSE]
device_cache_block(d, b) ==
  IF d.cached_block = b THEN d
  ELSE LET f == device_flush_cache(d)
       IN  [f EXCEPT !.cache = [i \in InBlock(b) |-> f.disk[i]], !.cached_block = b]

\* _device_read and the copy loop of _device_write, cell by cell, up to cell n.
ReadTo(d, loc, n) ==
  LET at[k \in 0 .. n] == IF k = 0 THEN d ELSE device_cache_block(at[k - 1], BlockOf(loc + k - 1))
  IN  at[n]
Poke(d, i, v) == [device_cache_block(d, BlockOf(i)) EXCEPT !.cache[i] = v, !.dirty = TRUE]
WriteTo(d, loc, data, n) ==
  LET at[k \in 0 .. n] == IF k = 0 THEN d ELSE Poke(at[k - 1], loc + k - 1, data[k])
  IN  at[n]

Dev == [disk |-> disk, cache |-> cache, cached_block |-> cached_block, dirty |-> dirty]
Seen(d) == [i \in DOMAIN d.disk |-> IF d.dirty /\ BlockOf(i) = d.cached_block THEN d.cache[i] ELSE d.disk[i]]
Becomes(d) ==
  /\ disk' = d.disk
  /\ cache' = d.cache
  /\ cached_block' = d.cached_block
  /\ dirty' = d.dirty

\* Where an access may fail: on entering a block that is not in the cache.  The
\* dirty block goes out first, and it is that write or the read that fails.
Entries(d, loc, n) == {k \in 1 .. n : BlockOf(loc + k - 1) # IF k = 1 THEN d.cached_block ELSE BlockOf(loc + k - 2)}
FailsAt(d) == {d, [device_flush_cache(d) EXCEPT !.cache = [i \in DOMAIN @ |-> [kind |-> "garbage"]]]}

-----------------------------------------------------------------------------
(* bios_install: what it writes, from what it finds *)
Zero == [kind |-> "zero"]
Cells(x, n) == [i \in 1 .. n |-> x]
Write(loc, data) == [loc |-> loc, data |-> data]
At(s) == s * SECTOR
BOOT == 0
STAMP == 1
PARTS == {2, 3}                                    \* the MBR's partition entries
EXT == 2 * SECTOR + 1                              \* where an ext superblock has its magic
GptHeader(d) == d[At(1)]
IsGpt(d) == GptHeader(d).kind = "EFI PART"
Secondary(d) == At(GptHeader(d).alternate)

\* The MBR checks: a wrong activity byte or a file system's signature is
\* refused, or with --force-mbr cleared; then a partition may be made active.
Flag(d, p) == d[p].flag
Cleared(d, p) == Write(p, <<[d[p] EXCEPT !.flag = IF @ = "odd+" THEN "active" ELSE "idle"]>>)
Odd(d) == {p \in PARTS : Flag(d, p) \in {"odd", "odd+"}}
TooLow(d) == {p \in PARTS : d[p].start # 0 /\ d[p].start < GAP}
Signed(d) == {p \in {BOOT, EXT} : d[p].kind = "fs"}
Before(d, p) == \A q \in TooLow(d) : p <= q        \* the checks stop at a low partition
MbrFixes(d) ==
  LET fix(p) == IF p \in Odd(d) /\ Before(d, p) THEN <<Cleared(d, p)>> ELSE <<>>
      wipe(p) == IF p \in Signed(d) /\ TooLow(d) = {} THEN <<Write(p, <<Zero>>)>> ELSE <<>>
  IN  fix(2) \o fix(3) \o wipe(BOOT) \o wipe(EXT)
Activates(d) == \A p \in PARTS : Flag(d, p) \in {"idle", "odd"}
MbrValid(d, f) == TooLow(d) = {} /\ (f \/ (Odd(d) = {} /\ Signed(d) = {}))
MbrWrites(d, f) ==
  (IF f THEN MbrFixes(d) ELSE <<>>)
    \o (IF MbrValid(d, f) /\ Activates(d) THEN <<Write(2, <<[d[2] EXCEPT !.flag = "active"]>>)>> ELSE <<>>)

\* GPT embedding: the second half of the partition array's blocks is taken, so
\* the entries there must be unused; both arrays' free entries are zeroed, and
\* both headers get the new number of entries and checksums.
EntryAt(d, h, i) == d[At(h.array) + i]
Used(d) == {i \in 0 .. GptHeader(d).number - 1 : EntryAt(d, GptHeader(d), i) # Zero}
LocA(h) == At(h.array + ARRAY) - SECTOR
NewCount(h) == (LocA(h) \div SECTOR - h.array) * SECTOR
Fits_Any(d) == TRUE
Fits(d) == \A i \in Used(d) : i < NewCount(GptHeader(d))
Zeroes(d, h, count) ==
  LET used == {-1} \cup Used(d)
      first == 1 + CHOOSE i \in used : \A j \in used : j <= i
  IN  [k \in 1 .. count - first |-> Write(At(h.array) + first + k - 1, <<Zero>>)]
Summed(d, h, count) == [h EXCEPT !.number = count, !.sum = [i \in 1 .. count |-> EntryAt(d, GptHeader(d), i - 1)]]
Embeds(d) ==
  LET h == GptHeader(d)
      s == d[Secondary(d)]
      n == NewCount(h)
  IN  Zeroes(d, h, n) \o Zeroes(d, s, n)
        \o <<Write(At(1), <<Summed(d, h, n)>>), Write(Secondary(d), <<Summed(d, s, n)>>)>>

\* A partition that is named is taken as it is; the number is checked against
\* the number of entries.
TooLarge(d, p) == p - 1 > GptHeader(d).number
Named(d, p) == EntryAt(d, GptHeader(d), p - 1)

\* The stages: the boot sector, the two halves, where they are, and what is
\* kept of the old boot sector.
StageWrites(d, a, b) ==
  <<Write(0, Cells([kind |-> "stage1"], SECTOR)),
    Write(a, Cells([kind |-> "half a"], SECTOR)), Write(b, Cells([kind |-> "half b"], SECTOR)),
    Write(BOOT, <<[kind |-> "stage1 at", a |-> a, b |-> b]>>),
    Write(STAMP, <<d[STAMP]>>), Write(2, <<d[2], d[3]>>)>>
Fixed(d, ws) == LET at[k \in 0 .. Len(ws)] ==
                      IF k = 0 THEN d ELSE [at[k - 1] EXCEPT ![ws[k].loc] = ws[k].data[1]]
                IN  at[Len(ws)]

\* The writes up to success, or up to the goto cleanup.
Abort(ws) == [todo |-> ws, aborts |-> TRUE]
Success(ws) == [todo |-> ws, aborts |-> FALSE]
MbrPlan(d, f) ==
  LET ws == MbrWrites(d, f)
  IN  IF MbrValid(d, f) THEN Success(ws \o StageWrites(Fixed(d, ws), At(1), At(2))) ELSE Abort(ws)
GptPartition(d, p) ==
  IF TooLarge(d, p) \/ Named(d, p) = Zero THEN Abort(<<>>)
  ELSE LET a == At(Named(d, p).start) IN Success(StageWrites(d, a, a + SECTOR))
GptEmbedding(d) ==
  IF Fits(d) THEN Success(Embeds(d) \o StageWrites(d, LocA(GptHeader(d)), LocA(d[Secondary(d)])))
  ELSE Abort(<<>>)
Plan(d, p, f) ==
  IF ~IsGpt(d) THEN MbrPlan(d, f)
  ELSE IF f \/ d[Secondary(d)].kind # "EFI PART" THEN Abort(<<>>)
  ELSE IF p # 0 THEN GptPartition(d, p)
  ELSE GptEmbedding(d)

-----------------------------------------------------------------------------
\* device_init leaves block 0 in the cache.
Opened == [disk |-> disk, cache |-> [i \in InBlock(0) |-> disk[i]], cached_block |-> 0, dirty |-> FALSE]
Init ==
  /\ call \in Calls
  /\ block_size \in BLOCKS
  /\ disk = call.disk
  /\ cache = [i \in InBlock(0) |-> disk[i]]
  /\ cached_block = 0
  /\ dirty = FALSE
  /\ todo = Plan(call.disk, call.part, call.force).todo
  /\ aborts = Plan(call.disk, call.part, call.force).aborts
  /\ uninstall_data = <<>>
  /\ phase = "install"
  /\ retry = FALSE
  /\ complaint = FALSE
  /\ cut = FALSE
  /\ faults = 0

Fault ==
  /\ faults < MaxFaults
  /\ faults' = faults + 1

\* cleanup after a failure: uninstall(true), which forgets what the cache holds.
Newest_AsTheyCame(ud) == ud
Newest(ud) == [i \in 1 .. Len(ud) |-> ud[Len(ud) + 1 - i]]
StartsUndo(d, ud) ==
  /\ phase' = "undo"
  /\ Becomes([d EXCEPT !.dirty = FALSE, !.cached_block = NOTHING])
  /\ uninstall_data' = Newest(ud)
  /\ todo' = <<>>

\* _device_write while installing: the old contents first, then the new.
Old(w) == [k \in DOMAIN w.data |-> Seen(Dev)[w.loc + k - 1]]
Saved == ReadTo(Dev, todo[1].loc, Len(todo[1].data))
WriteDone ==
  /\ phase = "install"
  /\ todo # <<>>
  /\ Len(uninstall_data) < UNINSTALL_DATA_MAX
  /\ Becomes(WriteTo(Saved, todo[1].loc, todo[1].data, Len(todo[1].data)))
  /\ uninstall_data' = Append(uninstall_data, Write(todo[1].loc, Old(todo[1])))
  /\ todo' = Tail(todo)
  /\ UNCHANGED <<call, block_size, aborts, phase, retry, complaint, cut, faults>>
NoRoom ==
  /\ phase = "install"
  /\ todo # <<>>
  /\ Len(uninstall_data) = UNINSTALL_DATA_MAX
  /\ StartsUndo(Dev, uninstall_data)
  /\ UNCHANGED <<call, block_size, aborts, retry, complaint, cut, faults>>
SaveFails ==
  /\ phase = "install"
  /\ todo # <<>>
  /\ Len(uninstall_data) < UNINSTALL_DATA_MAX
  /\ Fault
  /\ \E k \in Entries(Dev, todo[1].loc, Len(todo[1].data)) :
       \E d \in FailsAt(ReadTo(Dev, todo[1].loc, k - 1)) : StartsUndo(d, uninstall_data)
  /\ UNCHANGED <<call, block_size, aborts, retry, complaint, cut>>
WriteFails ==
  /\ phase = "install"
  /\ todo # <<>>
  /\ Len(uninstall_data) < UNINSTALL_DATA_MAX
  /\ Fault
  /\ LET w == todo[1]
     IN  \E k \in Entries(Saved, w.loc, Len(w.data)) :
           \E d \in FailsAt(WriteTo(Saved, w.loc, w.data, k - 1)) :
             /\ StartsUndo(d, uninstall_data)
             /\ cut' = \E i \in DOMAIN w.data : d.disk[w.loc + i - 1] # Old(w)[i]
  /\ UNCHANGED <<call, block_size, aborts, retry, complaint>>

\* The end of bios_install: goto cleanup from a check, or the last flush.
Aborts ==
  /\ phase = "install"
  /\ todo = <<>>
  /\ aborts
  /\ StartsUndo(Dev, uninstall_data)
  /\ UNCHANGED <<call, block_size, aborts, retry, complaint, cut, faults>>
Flushes ==
  /\ phase = "install"
  /\ todo = <<>>
  /\ ~aborts
  /\ phase' = "done"
  /\ Becomes(device_flush_cache(Dev))
  /\ uninstall_data' = Newest(uninstall_data)       \* store_uninstall_data
  /\ UNCHANGED <<call, block_size, todo, aborts, retry, complaint, cut, faults>>
FlushFails ==
  /\ phase = "install"
  /\ todo = <<>>
  /\ ~aborts
  /\ dirty
  /\ Fault
  /\ StartsUndo(Dev, uninstall_data)
  /\ UNCHANGED <<call, block_size, aborts, retry, complaint, cut>>

\* bios-install --uninstall with the stored data, in a later run of the program.
Uninstall ==
  /\ phase = "done"
  /\ phase' = "undo"
  /\ Becomes([Opened EXCEPT !.cached_block = NOTHING])
  /\ UNCHANGED <<call, block_size, todo, aborts, uninstall_data, retry, complaint, cut, faults>>

\* uninstall(): one entry after the other, each tried twice.
UndoWrite ==
  /\ phase = "undo"
  /\ uninstall_data # <<>>
  /\ LET u == uninstall_data[1] IN Becomes(WriteTo(Dev, u.loc, u.data, Len(u.data)))
  /\ uninstall_data' = Tail(uninstall_data)
  /\ retry' = FALSE
  /\ UNCHANGED <<call, block_size, todo, aborts, phase, complaint, cut, faults>>
Failing ==
  LET u == uninstall_data[1]
  IN  UNION {FailsAt(WriteTo(Dev, u.loc, u.data, k - 1)) : k \in Entries(Dev, u.loc, Len(u.data))}
Forgets(d) == [d EXCEPT !.dirty = FALSE, !.cached_block = NOTHING]
UndoFails ==
  /\ phase = "undo"
  /\ uninstall_data # <<>>
  /\ ~retry
  /\ Fault
  /\ retry' = TRUE
  /\ \E d \in Failing :
       \/ Becomes(Forgets(device_flush_cache(d))) /\ complaint' = complaint
       \/ d.dirty /\ Becomes(Forgets(d)) /\ complaint' = TRUE        \* that flush fails as well
  /\ UNCHANGED <<call, block_size, todo, aborts, phase, uninstall_data, cut>>
RetryFails ==
  /\ phase = "undo"
  /\ uninstall_data # <<>>
  /\ retry
  /\ Fault
  /\ retry' = FALSE
  /\ complaint' = TRUE
  /\ \E d \in Failing : Becomes(d)
  /\ uninstall_data' = Tail(uninstall_data)
  /\ UNCHANGED <<call, block_size, todo, aborts, phase, cut>>
UndoFlush ==
  /\ phase = "undo"
  /\ uninstall_data = <<>>
  /\ phase' = "ended"
  /\ \/ Becomes(device_flush_cache(Dev)) /\ UNCHANGED <<complaint, faults>>
     \/ dirty /\ Fault /\ Becomes(Dev) /\ complaint' = TRUE
  /\ UNCHANGED <<call, block_size, todo, aborts, uninstall_data, retry, cut>>

Next ==
  \/ WriteDone \/ NoRoom \/ SaveFails \/ WriteFails \/ Aborts \/ Flushes \/ FlushFails
  \/ Uninstall \/ UndoWrite \/ UndoFails \/ RetryFails \/ UndoFlush

Spec == Init /\ [][Next]_vars

-----------------------------------------------------------------------------
TypeOK ==
  /\ phase \in {"install", "done", "undo", "ended"}
  /\ DOMAIN disk = DOMAIN call.disk
  /\ cached_block \in {NOTHING} \cup {BlockOf(i) : i \in DOMAIN disk}
  /\ faults \in 0 .. MaxFaults
  /\ {dirty, retry, complaint, cut} \subseteq BOOLEAN

\* Undoing, at once after a failed install or later from the stored file, puts
\* back every byte the disk held before, whatever the overlaps of the writes
\* and the failures along the way, unless uninstall() itself complains or the
\* install stopped inside one write after part of it had reached the disk.
UndoRestores == phase = "ended" /\ ~complaint /\ ~cut => disk = call.disk

\* Not guaranteed: the same without the last exception, "If we failed, attempt to reverse
\* install process" (bios_install's cleanup).
UndoComplete == phase = "ended" /\ ~complaint => disk = call.disk

\* A finished install left the partition table, the used entries of the
\* partition arrays and the contents of every partition but the one named as
\* they were, the boot sector says where the two halves of stage 2 are, and
\* they are there; embedded in a GPT, both headers' counts and checksums are
\* those of the arrays.
Partitions(d) == IF IsGpt(d) THEN {EntryAt(d, GptHeader(d), i).start : i \in Used(d)}
                 ELSE {d[p].start : p \in PARTS} \ {0}
MineToWrite(s) == call.part # 0 /\ s \in {Named(call.disk, call.part).start, Named(call.disk, call.part).start + 1}
HeaderTrue(h) == h.sum = [i \in 1 .. h.number |-> EntryAt(disk, h, i - 1)]
Installed ==
  phase = "done" =>
    /\ \A s \in Partitions(call.disk) : MineToWrite(s) \/ \A i \in 0 .. SECTOR - 1 : disk[At(s) + i] = call.disk[At(s) + i]
    /\ disk[STAMP] = call.disk[STAMP]
    /\ \A p \in PARTS : disk[p].start = call.disk[p].start
    /\ disk[BOOT].kind = "stage1 at"
    /\ \A i \in 0 .. SECTOR - 1 : disk[disk[BOOT].a + i].kind = "half a" /\ disk[disk[BOOT].b + i].kind = "half b"
    /\ IsGpt(call.disk) =>
         /\ Used(disk) = Used(call.disk)
         /\ \A i \in Used(disk) : EntryAt(disk, GptHeader(disk), i) = EntryAt(call.disk, GptHeader(call.disk), i)
         /\ HeaderTrue(GptHeader(disk))
         /\ HeaderTrue(disk[Secondary(disk)])
=============================================================================
