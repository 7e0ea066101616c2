--------------------------------- MODULE Fat ---------------------------------
(***************************************************************************)
(* Files on the FAT volume of src/services/fs.c, disk write by disk write. *)
(* One operation runs at a time; the machine may be switched off between   *)
(* any two writes, and the volume may be full.  A directory entry is a     *)
(* first cluster, a size and the directory bit (how entries lie in their   *)
(* directory is in module Dirent); a cluster holds ClusterBytes bytes.     *)
(* All names are in one directory and differ by more than case.            *)
(***************************************************************************)
EXTENDS Integers, Sequences, FiniteSets, FiniteSetsExt

CONSTANTS
  Names,
  Last,            \* clusters are 2 .. Last; 2 is the root directory
  ClusterBytes,
  Lengths,         \* how many bytes a write brings
  MaxOps,          \* bound: operations
  MaxCrashes       \* bound: times the power fails

Cluster == 2 .. Last
EOC == Last + 1
Root == 2
FatAssumption ==
  /\ Last \in Nat /\ Last >= 3 /\ ClusterBytes \in Nat \ {0}
  /\ Lengths \subseteq Nat /\ MaxOps \in Nat /\ MaxCrashes \in Nat

VARIABLES
  fat, data, dir,   \* the disk: allocation table, clusters, entries by name
  pc, op,           \* where the running operation is, and its locals
  want,             \* by name: the bytes the caller may expect to read
  ops, crashes,     \* operations and power failures so far
  leaky,            \* an operation was cut short
  torn              \* the names whose entries an operation that was cut short has left wrong

disk == <<fat, data, dir>>
ghost == <<ops, crashes, leaky, torn>>
vars == <<disk, pc, op, want, ghost>>

NoEntry == [used |-> FALSE, first |-> 0, size |-> 0, isdir |-> FALSE]
NewEntry(isdir) == [NoEntry EXCEPT !.used = TRUE, !.isdir = isdir]
Junk == [i \in 1 .. ClusterBytes |-> 0]
Dots == [i \in 1 .. ClusterBytes |-> -1]      \* a directory with . and .. only
Idle == [kind |-> "none", name |-> CHOOSE n \in Names : TRUE, bytes |-> <<>>, off |-> 0, first |-> 0,
         last |-> 0, cur |-> 0, have |-> 0, rest |-> <<>>]

\* Free clusters in the order fat_alloc_cluster finds them.
Free == {c \in Cluster : fat[c] = 0}

\* The clusters from c on, as fat_get_entry leads through them.
Chain(c) ==
  LET nth[k \in 1 .. Last] ==
        IF k = 1 THEN c ELSE IF nth[k - 1] \in Cluster THEN fat[nth[k - 1]] ELSE 0
      n == Cardinality({k \in 1 .. Last : \A j \in 1 .. k : nth[j] \in Cluster})
  IN  [k \in 1 .. n |-> nth[k]]

ClustersFor(size) == (size + ClusterBytes - 1) \div ClusterBytes

\* fat_read_file
Content(e) ==
  [i \in 1 .. e.size |->
     data[Chain(e.first)[((i - 1) \div ClusterBytes) + 1]][((i - 1) % ClusterBytes) + 1]]

Init ==
  /\ fat = [c \in Cluster |-> IF c = Root THEN EOC ELSE 0]
  /\ data = [c \in Cluster |-> IF c = Root THEN Dots ELSE Junk]
  /\ dir = [n \in Names |-> NoEntry]
  /\ pc = "idle" /\ op = Idle
  /\ want = [n \in Names |-> <<>>]
  /\ ops = 0 /\ crashes = 0 /\ leaky = FALSE /\ torn = {}

Begin(where, locals) ==
  /\ pc = "idle" /\ ops < MaxOps
  /\ ops' = ops + 1
  /\ pc' = where /\ op' = locals
  /\ UNCHANGED <<disk, want, crashes, leaky, torn>>

GoTo(where) == pc' = where
Finish == pc' = "idle" /\ op' = Idle

\* fat_alloc_cluster found nothing: the operation returns 0 where it is.
OutOfSpace ==
  /\ Free = {}
  /\ Finish
  /\ leaky' = TRUE /\ torn' = torn \cup (IF op.kind = "overwrite" THEN {op.name} ELSE {})
  /\ UNCHANGED <<disk, want, ops, crashes>>

-----------------------------------------------------------------------------
(* fat_write_file, called by fs_write_file, fs_append_file and fs_copy. *)

\* fat_find_entry has run: what there is decides how the write goes on.
WriteFrom(e, n, bytes, append, rest) ==
  LET fresh == [Idle EXCEPT !.kind = "new", !.name = n, !.bytes = bytes, !.rest = rest]
      chain == Chain(e.first)
  IN  CASE ~e.used -> Begin("create", fresh)
        [] e.used /\ e.first = 0 -> Begin("size", fresh)
        [] e.used /\ e.first # 0 /\ append ->
             Begin("size", [fresh EXCEPT !.kind = "append", !.off = e.size, !.first = e.first,
                                         !.last = chain[Len(chain)], !.have = Len(chain)])
        [] e.used /\ e.first # 0 /\ ~append ->
             Begin("free", [fresh EXCEPT !.kind = "overwrite", !.cur = e.first])

\* Every operation writes bytes of its own, its number.
Bytes(len) == [i \in 1 .. len |-> ops + 1]

fs_write_file(n, len, append) ==
  /\ ~dir[n].isdir
  /\ WriteFrom(dir[n], n, Bytes(len), append, <<>>)

fs_copy(src, dst) ==
  /\ dir[src].used /\ ~dir[src].isdir /\ ~dir[dst].isdir
  /\ WriteFrom(dir[dst], dst, Content(dir[src]), FALSE, <<>>)

\* fat_create_entry
CreateEntry ==
  /\ pc = "create"
  /\ dir' = [dir EXCEPT ![op.name] = NewEntry(FALSE)]
  /\ want' = [want EXCEPT ![op.name] = <<>>]
  /\ GoTo("size")
  /\ UNCHANGED <<fat, data, op, ghost>>

\* Mutant: only the first cluster of the chain is freed.
FreeStep_First ==
  /\ pc = "free" /\ op.cur \in Cluster
  /\ fat' = [fat EXCEPT ![op.cur] = 0]
  /\ op' = [op EXCEPT !.cur = EOC]
  /\ UNCHANGED <<data, dir, pc, want, ghost>>

\* One round of fat_free_chain.
FreeStep ==
  /\ pc = "free" /\ op.cur \in Cluster
  /\ fat' = [fat EXCEPT ![op.cur] = 0]
  /\ op' = [op EXCEPT !.cur = fat[op.cur]]
  /\ UNCHANGED <<data, dir, pc, want, ghost>>

FreeDone ==
  /\ pc = "free" /\ op.cur \notin Cluster
  /\ IF op.kind = "delete" THEN Finish ELSE GoTo("size") /\ op' = op
  /\ UNCHANGED <<disk, want, ghost>>

Needed == ClustersFor(op.off + Len(op.bytes))

\* needed_clusters decides: an empty file has no cluster.
SizeUp ==
  /\ pc = "size"
  /\ GoTo(IF Needed = 0 THEN "commit" ELSE IF op.first = 0 THEN "alloc" ELSE "grow")
  /\ UNCHANGED <<disk, op, want, ghost>>

\* fat_alloc_cluster takes c and marks it as the end of a chain.
Takes(c) == c \in Free /\ c = Min(Free)

AllocFirst ==
  /\ pc = "alloc"
  /\ \/ \E c \in Cluster : /\ Takes(c)
                           /\ fat' = [fat EXCEPT ![c] = EOC]
                           /\ op' = [op EXCEPT !.first = c, !.last = c]
                           /\ GoTo("grow")
                           /\ UNCHANGED <<data, dir, want, ghost>>
     \/ OutOfSpace

\* while (existing_clusters < needed_clusters): allocate, then link.  A new file starts
\* to count at 0, with its first cluster in hand, and gets one cluster more than it needs.
Grow ==
  /\ pc = "grow" /\ op.have < Needed
  /\ \/ \E c \in Cluster : /\ Takes(c)
                           /\ fat' = [fat EXCEPT ![c] = EOC]
                           /\ op' = [op EXCEPT !.cur = c]
                           /\ GoTo("link")
                           /\ UNCHANGED <<data, dir, want, ghost>>
     \/ OutOfSpace

Link ==
  /\ pc = "link"
  /\ fat' = [fat EXCEPT ![op.last] = op.cur]
  /\ op' = [op EXCEPT !.last = op.cur, !.have = @ + 1]
  /\ GoTo("grow")
  /\ UNCHANGED <<data, dir, want, ghost>>

Seal ==
  /\ pc = "grow" /\ op.have >= Needed
  /\ fat' = [fat EXCEPT ![op.last] = EOC]
  /\ op' = [op EXCEPT !.cur = 1]
  /\ GoTo("data")
  /\ UNCHANGED <<data, dir, want, ghost>>

\* Mutant: the sector is not read before it is changed.
Mixed_Blank(old, from, i) ==
  LET p == from + i - op.off IN IF p \in DOMAIN op.bytes THEN op.bytes[p] ELSE 0

\* Byte i of a cluster that starts behind `from` bytes of the file: new or as it was.
Mixed(old, from, i) ==
  LET p == from + i - op.off IN IF p \in DOMAIN op.bytes THEN op.bytes[p] ELSE old[i]

\* The cur-th cluster of the file, read, changed and written back.
WriteData ==
  LET c == Chain(op.first)[op.cur]
      from == (op.cur - 1) * ClusterBytes
  IN  /\ pc = "data" /\ op.cur <= Needed
      /\ data' = [data EXCEPT ![c] = [i \in 1 .. ClusterBytes |-> Mixed(@, from, i)]]
      /\ op' = [op EXCEPT !.cur = @ + 1]
      /\ UNCHANGED <<fat, dir, pc, want, ghost>>

WriteDone ==
  /\ pc = "data" /\ op.cur > Needed
  /\ GoTo("commit")
  /\ UNCHANGED <<disk, op, want, ghost>>

\* Mutant: an emptied file keeps its first cluster.
NewFirst_Kept(n) == IF Needed = 0 THEN dir[n].first ELSE op.first

NewFirst(n) == IF Needed = 0 THEN 0 ELSE op.first

\* fat_update_dirent; fs_move then deletes what it copied.
Commit ==
  LET n == op.name
      size == op.off + Len(op.bytes)
  IN  /\ pc = "commit"
      /\ dir' = [dir EXCEPT ![n].first = NewFirst(n), ![n].size = size]
      /\ want' = [want EXCEPT ![n] = SubSeq(@, 1, op.off) \o op.bytes]
      /\ IF op.rest = <<>> THEN Finish
         ELSE GoTo("delete") /\ op' = [Idle EXCEPT !.kind = "delete", !.name = op.rest[1]]
      /\ UNCHANGED <<fat, data, ghost>>

-----------------------------------------------------------------------------
(* fs_delete: the entry goes first, then its clusters one by one. *)

\* A directory without a cluster is refused; every directory here is empty.
fs_delete(n) ==
  /\ dir[n].used
  /\ ~(dir[n].isdir /\ dir[n].first = 0)
  /\ Begin("delete", [Idle EXCEPT !.kind = "delete", !.name = n])

\* Mutant: the clusters go back while the entry still names them.
RemoveEntry_FreesFirst ==
  LET n == op.name
  IN  /\ pc = "delete"
      /\ IF dir[n].first \in Cluster /\ fat[dir[n].first] # 0
         THEN /\ fat' = [c \in Cluster |-> IF \E i \in DOMAIN Chain(dir[n].first) :
                                                  Chain(dir[n].first)[i] = c THEN 0 ELSE fat[c]]
              /\ UNCHANGED <<dir, pc, op, want>>
         ELSE dir' = [dir EXCEPT ![n] = NoEntry] /\ Finish /\ UNCHANGED <<fat, want>>
      /\ UNCHANGED <<data, ghost>>

\* fat_delete_entry
RemoveEntry ==
  LET n == op.name
  IN  /\ pc = "delete"
      /\ dir' = [dir EXCEPT ![n] = NoEntry]
      /\ want' = [want EXCEPT ![n] = <<>>]
      /\ GoTo("free") /\ op' = [op EXCEPT !.cur = dir[n].first]
      /\ UNCHANGED <<fat, data, ghost>>

-----------------------------------------------------------------------------
(* fs_rename: a second entry is made, filled in, and the old one removed. *)

fs_rename(old, new) ==
  /\ old # new /\ dir[old].used /\ ~dir[new].used
  /\ Begin("name", [Idle EXCEPT !.kind = "rename", !.name = new, !.rest = <<old>>])

NewName ==
  /\ pc = "name"
  /\ dir' = [dir EXCEPT ![op.name] = NewEntry(dir[op.rest[1]].isdir)]
  /\ want' = [want EXCEPT ![op.name] = <<>>]
  /\ GoTo("alias")
  /\ UNCHANGED <<fat, data, op, ghost>>

Alias ==
  /\ pc = "alias"
  /\ dir' = [dir EXCEPT ![op.name] = dir[op.rest[1]]]
  /\ want' = [want EXCEPT ![op.name] = want[op.rest[1]]]
  /\ GoTo("unlink")
  /\ UNCHANGED <<fat, data, op, ghost>>

Unlink ==
  /\ pc = "unlink"
  /\ dir' = [dir EXCEPT ![op.rest[1]] = NoEntry]
  /\ want' = [want EXCEPT ![op.rest[1]] = <<>>]
  /\ Finish
  /\ UNCHANGED <<fat, data, ghost>>

\* fs_move where fs_rename refuses because dst is there: copy over it, then delete src.
fs_move(src, dst) ==
  /\ src # dst /\ dir[src].used /\ dir[dst].used
  /\ ~dir[src].isdir /\ ~dir[dst].isdir
  /\ WriteFrom(dir[dst], dst, Content(dir[src]), FALSE, <<src>>)

-----------------------------------------------------------------------------
(* fs_mkdir *)

fs_mkdir(n) ==
  /\ ~dir[n].used
  /\ Begin("mkdir", [Idle EXCEPT !.kind = "mkdir", !.name = n])

MakeDirEntry ==
  /\ pc = "mkdir"
  /\ dir' = [dir EXCEPT ![op.name] = NewEntry(TRUE)]
  /\ want' = [want EXCEPT ![op.name] = <<>>]
  /\ GoTo("diralloc")
  /\ UNCHANGED <<fat, data, op, ghost>>

DirAlloc ==
  /\ pc = "diralloc"
  /\ \/ \E c \in Cluster : /\ Takes(c)
                           /\ fat' = [fat EXCEPT ![c] = EOC]
                           /\ op' = [op EXCEPT !.first = c]
                           /\ GoTo("dirpoint")
                           /\ UNCHANGED <<data, dir, want, ghost>>
     \/ OutOfSpace

DirPoint ==
  /\ pc = "dirpoint"
  /\ dir' = [dir EXCEPT ![op.name].first = op.first]
  /\ GoTo("dots")
  /\ UNCHANGED <<fat, data, op, want, ghost>>

\* Mutant: the new cluster keeps what was in it.
FirstSectors_Junk(c) == data[c]

FirstSectors(c) == Dots

WriteDots ==
  /\ pc = "dots"
  /\ data' = [data EXCEPT ![op.first] = FirstSectors(op.first)]
  /\ Finish
  /\ UNCHANGED <<fat, dir, want, ghost>>

-----------------------------------------------------------------------------
\* The names an operation leaves wrong when it is interrupted here: an overwritten file
\* names freed clusters until its entry is written, a renamed one has two entries, a new
\* directory names a cluster with no entries yet.
Exposed ==
  CASE op.kind = "overwrite" /\ ~(pc = "free" /\ op.cur = dir[op.name].first) -> {op.name}
    [] pc = "unlink" -> {op.name, op.rest[1]}
    [] pc = "dots" -> {op.name}
    [] OTHER -> {}

\* The power fails between two disk writes; the next boot finds the disk as it is.
Crash ==
  /\ pc # "idle" /\ crashes < MaxCrashes
  /\ crashes' = crashes + 1
  /\ leaky' = TRUE /\ torn' = torn \cup Exposed
  /\ Finish
  /\ UNCHANGED <<disk, want, ops>>

\* Bound: a file left wrong is not used any more.
Whole == Names \ torn

Call ==
  \/ \E n \in Whole, len \in Lengths, append \in BOOLEAN : fs_write_file(n, len, append)
  \/ \E src \in Whole, dst \in Whole : \/ fs_copy(src, dst)
                                       \/ fs_rename(src, dst)
                                       \/ fs_move(src, dst)
  \/ \E n \in Whole : fs_delete(n) \/ fs_mkdir(n)

Step ==
  \/ CreateEntry \/ FreeStep \/ FreeDone \/ SizeUp \/ AllocFirst \/ Grow \/ Link \/ Seal
  \/ WriteData \/ WriteDone \/ Commit
  \/ RemoveEntry \/ NewName \/ Alias \/ Unlink
  \/ MakeDirEntry \/ DirAlloc \/ DirPoint \/ WriteDots

Next == Call \/ Step \/ Crash

Spec == Init /\ [][Next]_vars

-----------------------------------------------------------------------------
Entries == {n \in Whole : dir[n].used}
ClustersOf(n) == {Chain(dir[n].first)[i] : i \in DOMAIN Chain(dir[n].first)}

\* The chain of an entry is made of allocated clusters, ends with the end mark and is long
\* enough for the size; a directory's cluster holds its dot entries, never what a deleted
\* file left there.
ChainWhole(n) ==
  LET c == Chain(dir[n].first)
  IN  /\ Len(c) >= ClustersFor(dir[n].size)
      /\ dir[n].first # 0 => Len(c) > 0 /\ fat[c[Len(c)]] = EOC
      /\ (dir[n].isdir /\ dir[n].first # 0) => data[dir[n].first] = Dots

\* Between operations every entry has its own whole chain: no cluster is in two files,
\* twice in one, or in the root directory as well, so fat_alloc_cluster never hands out
\* what an entry still names, whatever write, append, copy, move, rename, mkdir or delete
\* came before, a full disk or a power failure included; only an entry that was itself
\* being overwritten, renamed or made when its operation was cut short is left out.
VolumeSound ==
  pc = "idle" =>
    /\ \A n \in Entries : /\ ChainWhole(n) /\ Root \notin ClustersOf(n)
                          /\ Cardinality(ClustersOf(n)) = Len(Chain(dir[n].first))
    /\ \A m, n \in Entries : m # n => ClustersOf(m) \cap ClustersOf(n) = {}

\* Between operations fs_read_file returns what the completed writes, appends, copies,
\* moves and renames made of the file; an append or a new file that was cut short shows
\* none of its bytes, and a file left wrong by a power failure or a full disk harms no
\* other one, although its clusters are given out again while its entry still names them.
ReadsBack ==
  pc = "idle" => \A n \in Entries : ~dir[n].isdir => Content(dir[n]) = want[n]

\* While nothing was cut short, every allocated cluster is in some chain: delete,
\* overwrite and rename give back what they take out of use.
NoLeak ==
  (pc = "idle" /\ ~leaky) => Cluster \ Free = {Root} \cup UNION {ClustersOf(n) : n \in Entries}
=============================================================================
