------------------------------ MODULE BootFat ------------------------------
(***************************************************************************)
(* The boot loader's FAT12/16/32 reader, limine-8.4.0/common/fs/            *)
(* fat32.s2.c: the context read from the boot sector, the cluster chain     *)
(* followed in a 12, 16 or 32 bit map, the directory search with long and   *)
(* 8.3 names, the walk down a path and reads at any place of the file.      *)
(* A volume is a row of cells the size of a directory entry, and the map's  *)
(* bytes beside it (the map holds numbers, the cells entries and data).     *)
(***************************************************************************)
EXTENDS Integers, Sequences

CONSTANTS
  Volumes,        \* boot sectors with what is behind them, and the files they were made from
  Paths,          \* the paths opened, each a sequence of names
  Reads,          \* lengths read
  LFN_CHARS,      \* characters in a long-name entry, 13 in the source
  LFN_MAX,        \* FAT32_LFN_MAX_ENTRIES
  BASE, EXTN,     \* 8 and 3
  SECTOR_SIZES,   \* bytes_per_sector_valid_values
  FAT12_LIMIT, FAT16_LIMIT, \* cluster counts 4085 and 65525
  upper(_)        \* toupper

VARIABLES vol, case_insensitive_fopen, path, handle, buf
vars == <<vol, case_insensitive_fopen, path, handle, buf>>

-----------------------------------------------------------------------------
(* fat32_init_context *)
Recognised(b) ==
  b.signature = "FAT" /\ b.sectors_per_cluster \in {2^k : k \in 0 .. 7} /\ b.bytes_per_sector \in SECTOR_SIZES
ROUNDUP(n, k) == (n + k - 1) \div k
RootSects(b) == ROUNDUP(b.root_entries, b.bytes_per_sector)
Clusters(b) ==
  (b.sectors - (b.reserved_sectors + b.fats_count * b.sectors_per_fat + RootSects(b))) \div b.sectors_per_cluster
FatType(b) == IF Clusters(b) < FAT12_LIMIT THEN 12 ELSE IF Clusters(b) < FAT16_LIMIT THEN 16 ELSE 32
RootStart(b) == b.reserved_sectors + b.fats_count * b.sectors_per_fat
DataStart(b) == IF FatType(b) = 32 THEN RootStart(b) ELSE RootStart(b) + RootSects(b)
ClusterSize(b) == b.sectors_per_cluster * b.bytes_per_sector

\* read_cluster_from_map: 12-bit entries share their middle byte.
Half(v, c) == v.map[c + c \div 2] + 256 * v.map[c + c \div 2 + 1]
read_cluster_from_map(v, c) ==
  CASE FatType(v.bpb) = 12 -> IF c % 2 = 0 THEN Half(v, c) % 4096 ELSE Half(v, c) \div 16
    [] FatType(v.bpb) = 16 -> v.map[2 * c] + 256 * v.map[2 * c + 1]
    [] FatType(v.bpb) = 32 -> v.map[4 * c] + 256 * v.map[4 * c + 1]   \* the upper bytes are zero here
Limit(v) == CASE FatType(v.bpb) = 12 -> 4079 [] FatType(v.bpb) = 16 -> 65519 [] FatType(v.bpb) = 32 -> 65519
InChain(v, c) == c >= 2 /\ c <= Limit(v)
RECURSIVE ChainFrom(_, _)
ChainFrom(v, c) == IF InChain(v, c) THEN <<c>> \o ChainFrom(v, read_cluster_from_map(v, c)) ELSE <<>>
cache_cluster_chain(v, c) == ChainFrom(v, c)

\* read_cluster_chain, cell by cell: the block of a place and the offset in it.
Base(v, c) == (DataStart(v.bpb) + (c - 2) * v.bpb.sectors_per_cluster) * v.bpb.bytes_per_sector
ReadCell_Start(v, chain, at) == v.cells[Base(v, chain[at \div ClusterSize(v.bpb) + 1])]
ReadCell(v, chain, at) == v.cells[Base(v, chain[at \div ClusterSize(v.bpb) + 1]) + (at % ClusterSize(v.bpb))]
read_cluster_chain(v, chain, loc, count) == [k \in 1 .. count |-> ReadCell(v, chain, loc + k - 1)]

-----------------------------------------------------------------------------
(* fat32_open_in *)
\* fat32_filename_to_8_3: the padded upper case name, or none.
NONE == <<>>
Dots(n) == {i \in DOMAIN n : n[i] = "."}
Pad(s, k) == [i \in 1 .. k |-> IF i <= Len(s) THEN upper(s[i]) ELSE " "]
fat32_filename_to_8_3(n) ==
  LET stem == IF Dots(n) = {} THEN n ELSE SubSeq(n, 1, (CHOOSE i \in Dots(n) : TRUE) - 1)
      ext == SubSeq(n, Len(stem) + 2, Len(n))
  IN  IF \A i, j \in Dots(n) : i = j
      THEN IF Len(stem) <= BASE /\ Len(ext) <= EXTN THEN Pad(stem, BASE) \o Pad(ext, EXTN) ELSE NONE
      ELSE NONE

\* One long-name entry put into the buffer; the first of a table clears it.
LFN_SIZE == LFN_MAX * LFN_CHARS
Blank == [i \in 1 .. LFN_SIZE |-> " "]
Index(e) == (e.seq - 1) * LFN_CHARS
Stored(lfn, e) ==
  LET cleared == IF e.last THEN Blank ELSE lfn
  IN  IF Index(e) >= LFN_SIZE \/ Index(e) < 0 THEN cleared
      ELSE [i \in 1 .. LFN_SIZE |-> IF i - Index(e) \in 1 .. LFN_CHARS THEN e.chars[i - Index(e)] ELSE cleared[i]]
\* Trailing blanks are cut.
Trimmed(s) ==
  LET solid == {i \in DOMAIN s : s[i] # " "}
  IN  SubSeq(s, 1, IF solid = {} THEN 0 ELSE CHOOSE i \in solid : \A j \in solid : j <= i)
\* The string in the buffer: trailing blanks cut, then read up to its zero.
Text(lfn) ==
  LET zeros == {i \in 1 .. LFN_SIZE : lfn[i] = "0"}
  IN  IF zeros = {} THEN Trimmed(lfn) ELSE SubSeq(lfn, 1, (CHOOSE i \in zeros : \A j \in zeros : i <= j) - 1)
Upper(s) == [i \in DOMAIN s |-> upper(s[i])]
SameName(a, b) == IF case_insensitive_fopen THEN Upper(a) = Upper(b) ELSE a = b

LongMatch(e, lfn, name) == Index(e) = 0 /\ SameName(Text(lfn), name)
ShortMatch(e, name) ==
  /\ e.attr \notin {"label", "lfn"}
  /\ fat32_filename_to_8_3(name) # NONE
  /\ e.name = fat32_filename_to_8_3(name)
Missing == [found |-> FALSE]
Found(e) == [found |-> TRUE, entry |-> e]
RECURSIVE Scan(_, _, _, _)
Scan(es, i, lfn, name) ==
  IF i > Len(es) THEN Missing
  ELSE LET e == es[i]
       IN  CASE e.attr = "end" -> Missing
             [] e.attr = "lfn" -> LET now == Stored(lfn, e)
                                  IN  IF LongMatch(e, now, name) THEN Found(es[i + 1]) ELSE Scan(es, i + 1, now, name)
             [] e.attr \notin {"end", "lfn"} -> IF ShortMatch(e, name) THEN Found(e) ELSE Scan(es, i + 1, lfn, name)

\* The entries of a directory: its chain, or the fixed root of FAT12 and FAT16.
FIXED_ROOT == -1
Entries(v, dir) ==
  IF dir = FIXED_ROOT
  THEN [k \in 1 .. v.bpb.root_entries |-> v.cells[RootStart(v.bpb) * v.bpb.bytes_per_sector + k - 1]]
  ELSE LET chain == cache_cluster_chain(v, dir)
       IN  read_cluster_chain(v, chain, 0, Len(chain) * ClusterSize(v.bpb))
fat32_open_in(v, dir, name) == Scan(Entries(v, dir), 1, [i \in 1 .. LFN_SIZE |-> "0"], name)
RootOf(v) == IF FatType(v.bpb) = 32 THEN v.bpb.root_directory_cluster ELSE FIXED_ROOT

\* fat32_get_label: the first entry that is exactly a volume label, without trailing blanks.
RECURSIVE LabelIn(_, _)
LabelIn(es, i) ==
  IF i > Len(es) THEN NONE
  ELSE CASE es[i].attr = "end" -> NONE
         [] es[i].attr = "label" -> Trimmed(es[i].name)
         [] es[i].attr \notin {"end", "label"} -> LabelIn(es, i + 1)
fat32_get_label(v) == IF Recognised(v.bpb) THEN LabelIn(Entries(v, RootOf(v)), 1) ELSE NONE

-----------------------------------------------------------------------------
Init ==
  /\ vol \in Volumes
  /\ case_insensitive_fopen \in BOOLEAN
  /\ path = <<>>
  /\ handle = Missing
  /\ buf = [loc |-> 0, cells |-> <<>>]

\* fat32_open: one name after the other, each but the last as a directory.
RECURSIVE WalkPath(_, _, _)
WalkPath(v, dir, p) ==
  LET r == fat32_open_in(v, dir, p[1])
  IN  IF ~r.found \/ Len(p) = 1 THEN r ELSE WalkPath(v, r.entry.cluster, Tail(p))
fat32_open ==
  /\ path = <<>>
  /\ \E p \in Paths :
       /\ path' = p
       /\ handle' = LET r == IF Recognised(vol.bpb) THEN WalkPath(vol, RootOf(vol), p) ELSE Missing
                    IN  IF ~r.found THEN Missing
                        ELSE [found |-> TRUE, size |-> r.entry.size, chain |-> cache_cluster_chain(vol, r.entry.cluster)]
  /\ UNCHANGED <<vol, case_insensitive_fopen, buf>>
\* fat32_read; its callers stay within the size.
fat32_read ==
  /\ handle.found
  /\ \E loc \in 0 .. handle.size, count \in Reads :
       /\ loc + count <= handle.size
       /\ buf' = [loc |-> loc, cells |-> read_cluster_chain(vol, handle.chain, loc, count)]
  /\ UNCHANGED <<vol, case_insensitive_fopen, path, handle>>
fat32_close ==
  /\ path # <<>>
  /\ path' = <<>>
  /\ handle' = Missing
  /\ buf' = [loc |-> 0, cells |-> <<>>]
  /\ UNCHANGED <<vol, case_insensitive_fopen>>

Next == fat32_open \/ fat32_read \/ fat32_close
Spec == Init /\ [][Next]_vars

-----------------------------------------------------------------------------
TypeOK ==
  /\ vol \in Volumes
  /\ path \in Paths \cup {<<>>}
  /\ handle.found \in BOOLEAN

\* A path opens exactly when the volume has a file of that name, by its long
\* name as the case rule says or by its 8.3 name, and every read of it returns
\* the file's own contents at that place, however its clusters are scattered.
\* The label is the volume's.
Names(f, p) ==
  /\ Len(f.path) = Len(p)
  /\ \A i \in DOMAIN p : \/ SameName(f.path[i].long, p[i])
                         \/ Upper(f.path[i].short) = Upper(p[i])
BootReadsExact ==
  /\ path = <<>> => fat32_get_label(vol) = vol.label
  /\ path # <<>> =>
    /\ handle.found <=> \E f \in vol.files : Names(f, path)
    /\ handle.found => \E f \in vol.files :
         /\ Names(f, path)
         /\ handle.size = Len(f.cells)
         /\ buf.cells = SubSeq(f.cells, buf.loc + 1, buf.loc + Len(buf.cells))
=============================================================================
