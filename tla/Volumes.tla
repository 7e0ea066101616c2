------------------------------ MODULE Volumes ------------------------------
(***************************************************************************)
(* Limine's index of volumes on a BIOS machine and its reads from them:    *)
(* limine-8.4.0/common/drivers/disk.s2.c and lib/part.s2.c.  The drives    *)
(* are gone through, each is entered with its GPT or MBR partitions, and   *)
(* every volume reads through a cache of one block of fastest_xfer_size    *)
(* sectors.  A disk is a row of cells of 512 bytes; a transfer fails when  *)
(* it touches a bad sector or leaves the disk, and is then tried shorter.  *)
(***************************************************************************)
EXTENDS Integers, Sequences, FiniteSetsExt, SequencesExt

CONSTANTS
  Machines,        \* sequences of drives, and the disk count the BIOS data area gives
  XFERS,           \* xfer_sizes
  MAX_VOLUMES,
  MaxReads         \* bound: reads after the index is made

VARIABLES
  drives, bda,     \* the drives still to be gone through; bda_disk_count less those consumed
  hdd, optical,    \* hdd_indices, optical_indices
  volume_index,
  part,            \* partition number tried next on the last drive entered, -1: none
  got, reads       \* the last read, and how many there were
vars == <<drives, bda, hdd, optical, volume_index, part, got, reads>>

Zero == [kind |-> "zero"]
NOTHING == [at |-> 0, loc |-> 0, ok |-> TRUE, data |-> <<>>]

-----------------------------------------------------------------------------
(* Reading.  A volume holds its drive d, its first cell, its cache.         *)
\* disk_read_sectors
CanRead(d, sector, n) ==
  \A s \in sector .. sector + n - 1 : s < Len(d.cells) \div d.sector /\ s \notin d.bad

\* The sectors loaded: the longest transfer that works, none.
Loaded_All(v, first) == IF CanRead(v.d, first, v.xfer) THEN v.xfer ELSE 0
Loaded(v, first) ==
  LET good == {n \in 1 .. v.xfer : CanRead(v.d, first, n)}
  IN  IF good = {} THEN 0 ELSE Max(good)

\* cache_block; what a short transfer does not reach stays in the cache.
NotCached(v) == [ok |-> FALSE, v |-> [v EXCEPT !.cached = -1]]
Cached(v, block, first, n) ==
  IF n = 0 THEN NotCached(v)
  ELSE [ok |-> TRUE,
        v |-> [v EXCEPT !.cached = block,
                        !.cache = [i \in DOMAIN v.cache |-> IF i < n * v.d.sector THEN v.d.cells[first * v.d.sector + i + 1]
                                                            ELSE v.cache[i]]]]
cache_block(v, block) ==
  LET first == v.first \div v.d.sector + block * v.xfer
  IN  IF v.cached = block THEN [ok |-> TRUE, v |-> v]
      ELSE IF v.first % v.d.sector # 0 THEN NotCached(v)
      ELSE Cached(v, block, first, Loaded(v, first))

BlockSize(v) == v.xfer * v.d.sector
\* volume_read of n cells, cell by cell, up to a block that cannot be read.
volume_read(v, loc, n) ==
  LET Take(r, c, at) == IF c.ok THEN [ok |-> TRUE, v |-> c.v, data |-> Append(r.data, c.v.cache[at % BlockSize(v)])]
                        ELSE [r EXCEPT !.ok = FALSE, !.v = c.v]
      Step(r, at) == IF r.ok THEN Take(r, cache_block(r.v, at \div BlockSize(v)), at) ELSE r
  IN  FoldLeft(Step, [ok |-> TRUE, v |-> v, data |-> <<>>], [k \in 1 .. n |-> loc + k - 1])
\* One cell into a variable that holds old.
Cell(v, loc, old) ==
  LET Into(c) == [v |-> c.v, buf |-> IF c.ok THEN c.v.cache[loc % BlockSize(v)] ELSE old]
  IN  Into(cache_block(v, loc \div BlockSize(v)))

-----------------------------------------------------------------------------
(* Partition tables.  An answer has the parent with its cache, what was     *)
(* found and, for a partition, where it lies.                               *)
Answer(v, what) == [v |-> v, what |-> what, first |-> 0, count |-> 0, number |-> 0]
Partition(v, first, count, number) == [v |-> v, what |-> "part", first |-> first, count |-> count, number |-> number]
Fresh(d, index, number, first, count, xfer) ==
  [d |-> d, index |-> index, partition |-> number, first |-> first, count |-> count, xfer |-> xfer,
   cached |-> -1, cache |-> [i \in 0 .. xfer * d.sector - 1 |-> Zero]]

\* The header of a table of 512 byte blocks, then of larger ones (2 cells here).
GptHeader(v) ==
  LET Found(h, lb) == [v |-> h.v, buf |-> h.buf, lb |-> lb]
      Try(h) == IF h.buf.kind = "gpt" THEN Found(h, 1) ELSE Found(Cell(h.v, 2, h.buf), 2)
  IN  Try(Cell(v, 1, Zero))
IsGpt(h) == h.buf.kind = "gpt" /\ h.buf.revision = 1
gpt_get_part(v, n) ==
  LET Entry(h, e) == IF e.buf.kind # "entry" THEN Answer(e.v, "none")
                     ELSE Partition(e.v, e.buf.start * h.lb, (e.buf.last - e.buf.start + 1) * h.lb, n + 1)
      Table(h) == IF ~IsGpt(h) THEN Answer(h.v, "invalid")
                  ELSE IF n >= h.buf.number THEN Answer(h.v, "end")
                  ELSE Entry(h, Cell(h.v, h.buf.entry_lba * h.lb + n, Zero))
  IN  Table(GptHeader(v))

\* is_valid_mbr: no file system at the start of the disk, good status bytes.
is_valid_mbr(v) ==
  LET Valid(m, x) == [v |-> x.v, buf |-> m.buf, ok |-> m.buf.kind = "mbr" /\ x.buf.kind # "ext"]
      Check(m) == Valid(m, Cell(m.v, 2, Zero))
  IN  Check(Cell(v, 0, Zero))

Extended(mbr) == {i \in 1 .. 4 : mbr.parts[i].type = "extended"}
\* mbr_get_logical_part: the n-th record of the chain, from 0.
Ebr(v, n) ==
  LET Follow(e) == [v |-> e.v, sector |-> IF e.buf.kind = "ebr" /\ e.buf.next # 0 THEN e.buf.next ELSE -1]
      Step(r, i) == IF r.sector = -1 THEN r ELSE Follow(Cell(r.v, r.sector, Zero))
  IN  FoldLeft(Step, [v |-> v, sector |-> 0], [i \in 1 .. n |-> i])
\* Mutant: logical partitions are numbered from 4.
LogicalNumber_4(n) == n + 4
LogicalNumber(n) == n + 4 + 1
mbr_get_logical_part(v, x, n) ==
  LET Record(r, e) == IF e.buf.kind # "ebr" THEN Answer(v, "none")
                      ELSE IF e.buf.count = 0 THEN Answer(v, "none")
                      ELSE Partition(v, x.first + r.sector + e.buf.start, e.buf.count, LogicalNumber(n))
      At(r) == IF r.sector = -1 THEN Answer(v, "end") ELSE Record(r, Cell(r.v, r.sector, Zero))
  IN  At(Ebr(x, n))

mbr_get_part(v, n) ==
  LET Logical(m, i) == mbr_get_logical_part(m.v, Fresh(v.d, v.index, i, m.buf.parts[i].start, m.buf.parts[i].count, v.xfer), n - 4)
      Primary(m, e) == IF e.type = "none" THEN Answer(m.v, "none") ELSE Partition(m.v, e.start, e.count, n + 1)
      Table(m) == IF ~m.ok THEN Answer(m.v, "invalid")
                  ELSE IF n <= 3 THEN Primary(m, m.buf.parts[n + 1])
                  ELSE IF Extended(m.buf) = {} THEN Answer(m.v, "end")
                  ELSE Logical(m, Min(Extended(m.buf)))
  IN  Table(is_valid_mbr(v))

part_get(v, n) ==
  LET Or(g) == IF g.what # "invalid" THEN g ELSE mbr_get_part(g.v, n) IN Or(gpt_get_part(v, n))

-----------------------------------------------------------------------------
(* disk_create_index *)
Init ==
  /\ \E m \in Machines : drives = m.drives /\ bda = m.bda
  /\ hdd = 1 /\ optical = 1
  /\ volume_index = <<>> /\ part = -1
  /\ got = NOTHING /\ reads = 0

Drive == drives[1]
\* detect_sector_size: where the zeros, or the ones, put before a read of one sector end.
Larger(x, y) == IF x > y THEN x ELSE y
Detected(d) == Larger(IF d.last = 0 THEN 0 ELSE d.sector, IF d.last = 255 THEN 0 ELSE d.sector)
Usable(d) == CanRead(d, 0, 1) /\ Detected(d) # 0
IsOptical(d) == ~d.writable /\ d.sector = 4          \* 2048 bytes
Counted(d) == ~d.removable /\ ~IsOptical(d)
NextDrive == drives' = Tail(drives) /\ part' = -1

SkipDrive ==
  /\ part = -1 /\ drives # <<>>
  /\ ~Usable(Drive) \/ (Counted(Drive) /\ bda = 0)
  /\ NextDrive
  /\ UNCHANGED <<bda, hdd, optical, volume_index, got, reads>>

\* fastest_xfer_size: whichever size was fastest, or 8 after an error.
Full == Len(volume_index) = MAX_VOLUMES
EnterDrive ==
  /\ part = -1 /\ drives # <<>> /\ Usable(Drive) /\ ~(Counted(Drive) /\ bda = 0) /\ ~Full
  /\ bda' = bda - (IF Counted(Drive) THEN 1 ELSE 0)
  /\ hdd' = hdd + (IF IsOptical(Drive) THEN 0 ELSE 1)
  /\ optical' = optical + (IF IsOptical(Drive) THEN 1 ELSE 0)
  /\ \E x \in XFERS :
       volume_index' = Append(volume_index, Fresh(Drive, IF IsOptical(Drive) THEN optical ELSE hdd, 0, 0, Len(Drive.cells), x))
  /\ part' = 0
  /\ UNCHANGED <<drives, got, reads>>

\* The drive entered last: the first of the volumes from the back with partition 0.
Parent == CHOOSE i \in DOMAIN volume_index :
            volume_index[i].partition = 0 /\ \A j \in i + 1 .. Len(volume_index) : volume_index[j].partition # 0
TooMany(a) == a.what = "part" /\ Full
EnterPartition ==
  /\ part >= 0
  /\ \E a \in {part_get(volume_index[Parent], part)} :
       LET known == [volume_index EXCEPT ![Parent] = a.v]
       IN  \/ /\ a.what \in {"end", "invalid"}
              /\ volume_index' = known /\ NextDrive
           \/ /\ a.what = "none"
              /\ volume_index' = known /\ part' = part + 1 /\ UNCHANGED drives
           \/ /\ a.what = "part" /\ ~Full
              /\ volume_index' = Append(known, Fresh(a.v.d, a.v.index, a.number, a.first, a.count, a.v.xfer))
              /\ part' = part + 1 /\ UNCHANGED drives
           \/ /\ TooMany(a)
              /\ volume_index' = known /\ part' = -1 /\ drives' = <<>>
  /\ UNCHANGED <<bda, hdd, optical, got, reads>>
NoMoreDrives ==
  /\ part = -1 /\ drives # <<>> /\ Usable(Drive) /\ ~(Counted(Drive) /\ bda = 0) /\ Full
  /\ drives' = <<>>
  /\ UNCHANGED <<bda, hdd, optical, volume_index, part, got, reads>>

Indexed == drives = <<>> /\ part = -1
\* A file system reads from a volume.
Read ==
  /\ Indexed /\ reads < MaxReads
  /\ \E i \in DOMAIN volume_index, n \in 1 .. 3 : \E loc \in 0 .. volume_index[i].count - n :
       \E r \in {volume_read(volume_index[i], loc, n)} :
           /\ got' = [at |-> i, loc |-> loc, ok |-> r.ok, data |-> r.data]
           /\ volume_index' = [volume_index EXCEPT ![i] = r.v]
  /\ reads' = reads + 1
  /\ UNCHANGED <<drives, bda, hdd, optical, part>>

volume_get_by_coord(isoptical, index, partition) ==
  LET same == {i \in DOMAIN volume_index : /\ volume_index[i].index = index
                                           /\ IsOptical(volume_index[i].d) = isoptical
                                           /\ volume_index[i].partition = partition}
  IN  IF same = {} THEN 0 ELSE Min(same)

Next == SkipDrive \/ EnterDrive \/ EnterPartition \/ NoMoreDrives \/ Read
Spec == Init /\ [][Next]_vars

-----------------------------------------------------------------------------
\* What a disk is divided into, as its maker put it down: d.parts.
Sound(d) == d.bad = {}
Of(d) == {[number |-> v.partition, first |-> v.first, count |-> v.count]
            : v \in {volume_index[i] : i \in {j \in DOMAIN volume_index : volume_index[j].d = d /\ volume_index[j].partition # 0}}}

\* A block of a volume without a bad sector: its end may be beyond the disk's.
Whole(v, loc) ==
  LET first == v.first \div v.d.sector + (loc \div BlockSize(v)) * v.xfer
  IN  \A s \in first .. first + v.xfer - 1 : s \notin v.d.bad

\* Once the index is made a sound disk has in it exactly the partitions its
\* tables hold, with their numbers and extents; every volume is found under its
\* coordinates; and a read within a volume returns the disk's own cells, at the
\* disk's end too, when no bad sector lies in the blocks it touches.
VolumesExact ==
  Indexed =>
    /\ \A i \in DOMAIN volume_index :
         LET v == volume_index[i]
         IN  /\ volume_get_by_coord(IsOptical(v.d), v.index, v.partition) = i
             /\ (Sound(v.d) /\ ~Full) => Of(v.d) = v.d.parts
    /\ got.at # 0 =>
         LET v == volume_index[got.at]
             n == Len(got.data)
         IN  (/\ v.first % v.d.sector = 0
              /\ \A k \in 0 .. 2 : got.loc + k < v.count => Whole(v, got.loc + k))
             => got.ok /\ got.data = [k \in 1 .. n |-> v.d.cells[v.first + got.loc + k]]
=============================================================================
