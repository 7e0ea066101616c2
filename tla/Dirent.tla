------------------------------- MODULE Dirent -------------------------------
(***************************************************************************)
(* How src/services/fs.c lays entries out in a directory: slots of 32      *)
(* bytes, so many to a sector and sectors to a cluster.  A short name is   *)
(* one slot; a long name is its parts, last part first, and then a slot    *)
(* under its 8.3 alias.  A slot may also be deleted (0xE5) or the end mark *)
(* (0x00).  An entry's cluster and size are one value here: what they make *)
(* of the file is in module Fat.  A call's disk writes are one step.       *)
(***************************************************************************)
EXTENDS Integers, Sequences, FiniteSets, FiniteSetsExt, SequencesExt

CONSTANTS
  Short, Long,      \* names that fit 8.3 as they are, and names that do not
  Aliases,          \* name_to_short of the long names, in Short
  Parts,            \* by long name: how many slots of 13 characters it takes
  SlotsPerSector, SectorsPerCluster,
  MaxClusters,      \* bound: clusters the volume has for this directory
  Given,            \* files another system has put on the volume
  Made,             \* bound: the names this program makes entries for
  Values, MaxOps

Names == Short \cup Long
SlotsPerCluster == SlotsPerSector * SectorsPerCluster

DirentAssumption ==
  /\ Short \cap Long = {} /\ Aliases \in [Long -> Short] /\ Parts \in [Long -> 1 .. SlotsPerSector - 1]
  /\ SlotsPerSector \in Nat \ {0} /\ SectorsPerCluster \in Nat \ {0} /\ MaxClusters \in Nat \ {0}
  /\ Given \in Seq(Names) /\ Made \subseteq Names /\ 0 \notin Values

VARIABLES
  dir,      \* the slots of the directory's clusters, one after the other
  want,     \* by name: the value a caller has stored there, 0 for no file
  ops

vars == <<dir, want, ops>>

EndSlot == [kind |-> "end", name |-> "", part |-> 0, top |-> FALSE, value |-> 0]
DelSlot == [EndSlot EXCEPT !.kind = "del"]
LfnSlot(n, k) == [EndSlot EXCEPT !.kind = "lfn", !.name = n, !.part = k, !.top = (k = Parts[n])]
ShortSlot(a, v) == [EndSlot EXCEPT !.kind = "short", !.name = a, !.value = v]

PartsOf(n) == IF n \in Long THEN Parts[n] ELSE 0
AliasOf(n) == IF n \in Long THEN Aliases[n] ELSE n

\* The slots fat_create_entry fills for a name.
SlotsOf(n, v) == [i \in 1 .. PartsOf(n) |-> LfnSlot(n, PartsOf(n) - i + 1)] \o <<ShortSlot(AliasOf(n), v)>>

GivenSlots == FoldLeft(LAMBDA s, n : s \o SlotsOf(n, CHOOSE v \in Values : TRUE), <<>>, Given)

Pad(s) ==
  LET n == SlotsPerCluster * Max({1, (Len(s) + SlotsPerCluster - 1) \div SlotsPerCluster})
  IN  [i \in 1 .. n |-> IF i <= Len(s) THEN s[i] ELSE EndSlot]

Init ==
  /\ dir = Pad(GivenSlots)
  /\ want = [n \in Names |-> IF n \in ToSet(Given) THEN CHOOSE v \in Values : TRUE ELSE 0]
  /\ ops = 0

-----------------------------------------------------------------------------
\* The scan stops here: the first end mark, or behind the last cluster.
Stop(d) == Min({Len(d) + 1} \cup {i \in DOMAIN d : d[i].kind = "end"})

ClusterStart(i) == i - ((i - 1) % SlotsPerCluster)

\* The long-name slots gathered when the scan is at slot i: those in front of it without
\* a gap, back to one with the 0x40 mark and not beyond slot `from`.
LfnRun(d, i, from) ==
  {j \in from .. i - 1 : /\ \A k \in j .. i - 1 : d[k].kind = "lfn"
                         /\ \A k \in j + 1 .. i - 1 : ~d[k].top}

\* Is slot i an entry called n?  lfn_buf holds the parts, each put in front of the last.
Called(d, i, n, from) ==
  LET run == LfnRun(d, i, from)
      parts == [k \in 1 .. Cardinality(run) |-> <<d[i - k].name, d[i - k].part>>]
  IN  /\ d[i].kind = "short"
      /\ IF run = {} THEN d[i].name = n
         ELSE n \in Long /\ parts = [k \in 1 .. Parts[n] |-> <<n, k>>]

FirstOf(S) == IF S = {} THEN 0 ELSE Min(S)

fat_find_entry(n) == FirstOf({i \in 1 .. Stop(dir) - 1 : Called(dir, i, n, 1)})

\* Where fat_delete_entry finds n: it forgets the gathered slots at every cluster.
DeleteFinds(d, n) == FirstOf({i \in 1 .. Stop(d) - 1 : Called(d, i, n, ClusterStart(i))})

\* fat_read_dir: the names listed, in order.
fat_read_dir ==
  LET short == SelectSeq([i \in 1 .. Stop(dir) - 1 |-> i], LAMBDA i : dir[i].kind = "short")
      known(i) == {n \in Names : Called(dir, i, n, 1)}
  IN  [k \in DOMAIN short |->
         IF known(short[k]) = {} THEN "other" ELSE CHOOSE n \in known(short[k]) : TRUE]

-----------------------------------------------------------------------------
\* Where a free run of that many slots begins, within one sector.
RunsOf(d, total) ==
  {i \in 1 .. Len(d) - total + 1 :
     /\ \A k \in i .. i + total - 1 : d[k].kind \in {"end", "del"}
     /\ (i - 1) \div SlotsPerSector = (i + total - 2) \div SlotsPerSector}

NewCluster == [i \in 1 .. SlotsPerCluster |-> EndSlot]

\* The directory fat_create_entry looks in: longer by a cluster if it must be and can be.
RoomFor(n) ==
  IF RunsOf(dir, PartsOf(n) + 1) = {} /\ Len(dir) < MaxClusters * SlotsPerCluster
  THEN dir \o NewCluster ELSE dir

Put(d, at, slots) == [i \in DOMAIN d |-> IF i - at + 1 \in DOMAIN slots THEN slots[i - at + 1] ELSE d[i]]

\* fat_create_entry and then fat_update_dirent at the offset it returned, that of the
\* first slot it took.
Created(n, v) ==
  LET d == RoomFor(n)
      at == Min(RunsOf(d, PartsOf(n) + 1))
  IN  Put(Put(d, at, SlotsOf(n, 0)), at, <<ShortSlot(AliasOf(n), v)>>)

CanCreate(n) == RunsOf(RoomFor(n), PartsOf(n) + 1) # {}

\* Mutant: what is deleted becomes the end mark.
Marked_End(d, S) == [i \in DOMAIN d |-> IF i \in S THEN EndSlot ELSE d[i]]

\* fat_mark_deleted on every slot of S.
Marked(d, S) == [i \in DOMAIN d |-> IF i \in S THEN DelSlot ELSE d[i]]

\* Mutant: the parts of a long name stay.
Deleted_ShortOnly(d, n) ==
  IF DeleteFinds(d, n) = 0 THEN d ELSE Marked(d, {DeleteFinds(d, n)})

\* fat_delete_entry
Deleted(d, n) ==
  LET i == DeleteFinds(d, n)
  IN  IF i = 0 THEN d ELSE Marked(d, LfnRun(d, i, ClusterStart(i)) \cup {i})

\* fat_write_file seen from the directory
fs_write_file(n, v) ==
  /\ ops < MaxOps /\ ops' = ops + 1
  /\ LET i == fat_find_entry(n)
     IN  \/ /\ i # 0
            /\ dir' = [dir EXCEPT ![i].value = v]
            /\ want' = [want EXCEPT ![n] = v]
         \/ /\ i = 0 /\ CanCreate(n)
            /\ dir' = Created(n, v)
            /\ want' = [want EXCEPT ![n] = v]
         \/ i = 0 /\ ~CanCreate(n) /\ UNCHANGED <<dir, want>>

fs_delete(n) ==
  /\ ops < MaxOps /\ ops' = ops + 1
  /\ fat_find_entry(n) # 0
  /\ dir' = Deleted(dir, n)
  /\ want' = IF DeleteFinds(dir, n) = 0 THEN want ELSE [want EXCEPT ![n] = 0]

\* Mutant: the old entry is left in place.
Renamed_Linked(old, new, v) == Created(new, v)

\* fat_create_entry and fat_update_dirent for the new name, fat_delete_entry for the old.
Renamed(old, new, v) == Deleted(Created(new, v), old)

fs_rename(old, new) ==
  LET i == fat_find_entry(old)
      returns1 == DeleteFinds(Created(new, dir[i].value), old) # 0
  IN  /\ ops < MaxOps /\ ops' = ops + 1
      /\ old # new /\ fat_find_entry(new) = 0 /\ i # 0 /\ CanCreate(new)
      /\ dir' = Renamed(old, new, dir[i].value)
      /\ want' = IF returns1 THEN [want EXCEPT ![new] = want[old], ![old] = 0] ELSE want

\* fs_mkdir takes a slot in the same way as a new file; fs_move renames or writes and
\* deletes.
Next ==
  \/ \E n \in Made \cup ToSet(Given), v \in Values :
       (n \in Made \/ fat_find_entry(n) # 0) /\ fs_write_file(n, v)
  \/ \E n \in Names : fs_delete(n)
  \/ \E old \in Names, new \in Made : fs_rename(old, new)

Spec == Init /\ [][Next]_vars

-----------------------------------------------------------------------------
Stored == {n \in Names : want[n] # 0}

\* Looking a name up gives the value last stored under it, and nothing for a name that
\* was deleted, renamed away or never stored: fat_find_entry, fat_create_entry and
\* fat_delete_entry agree on where a name is.
LookupExact ==
  \A n \in Names :
    want[n] = IF fat_find_entry(n) = 0 THEN 0 ELSE dir[fat_find_entry(n)].value

\* A listing shows every stored name once and nothing else.
ListingExact ==
  /\ ToSet(fat_read_dir) = Stored
  /\ Len(fat_read_dir) = Cardinality(Stored)

\* Every slot of a long name is followed by the rest of the name and its alias: deleting
\* takes all of them or none.
NoOrphanParts ==
  \A i \in DOMAIN dir :
    dir[i].kind = "lfn" =>
      /\ i < Len(dir)
      /\ IF dir[i].part > 1 THEN dir[i + 1] = LfnSlot(dir[i].name, dir[i].part - 1)
         ELSE dir[i + 1].kind = "short" /\ dir[i + 1].name = AliasOf(dir[i].name)

\* docs/FEATURES.md, Storage: "FAT32 read/write with long filename support."  A file
\* stored under a long name can be looked up under it.
LongNamesFound == \A n \in Long : want[n] # 0 => fat_find_entry(n) # 0
=============================================================================
