-------------------------------- MODULE Ext2 --------------------------------
(***************************************************************************)
(* The boot loader's ext2/3/4 reader, limine-8.4.0/common/fs/ext2.s2.c:    *)
(* inodes found through the group descriptors, blocks through direct and   *)
(* indirect pointers or an extent tree, names through directories and      *)
(* symbolic links.  A volume is a row of cells; a pointer, a descriptor, a *)
(* directory entry, an inode, a node of an extent tree takes one each.     *)
(***************************************************************************)
EXTENDS Integers, Sequences

CONSTANTS
  Volumes,        \* what may be on the disk: .cells, .bgd, .desc, .per_group, and the .files it was made from
  Paths, Reads,   \* paths opened, lengths read
  BLOCK,          \* cells in a block; entries_per_block too
  NDIRECT,        \* direct pointers in an inode, 12 in the source
  MaxLinks        \* bound: symbolic links followed before an open is taken to hang

VARIABLES vol, path, handle, buf
vars == <<vol, path, handle, buf>>

Missing == [is |-> "missing"]
Hangs == [is |-> "hangs"]
Panicked == [is |-> "panic"]
PANIC == -1

-----------------------------------------------------------------------------
\* ext2_get_inode: descriptor of the group, place in its table; number 0
\* leaves the caller's inode as it was.
ext2_get_inode(v, old, n) ==
  LET group == (n - 1) \div v.per_group
  IN  IF n = 0 THEN old ELSE v.cells[v.cells[v.bgd + v.desc * group].inode_table * BLOCK + ((n - 1) % v.per_group)]

\* create_alloc_map: the block a pointer block names at k, and entry b of the map.
Pointer(v, block, k) == v.cells[block * BLOCK + k].to
\* Mutant: the double indirect index still counts the single indirect blocks.
alloc_map_Uncounted(v, ino, b) ==
  LET single == b - NDIRECT
  IN  IF b < NDIRECT THEN ino.blocks[b + 1]
      ELSE IF single < BLOCK THEN Pointer(v, ino.blocks[NDIRECT + 1], single)
      ELSE Pointer(v, Pointer(v, ino.blocks[NDIRECT + 2], (single \div BLOCK) % BLOCK), single % BLOCK)
alloc_map(v, ino, b) ==
  LET single == b - NDIRECT
      double == single - BLOCK
      index == double \div BLOCK
      indirect == IF index >= BLOCK
                  THEN Pointer(v, Pointer(v, ino.blocks[NDIRECT + 3], index \div BLOCK), index % BLOCK)
                  ELSE Pointer(v, ino.blocks[NDIRECT + 2], index)
  IN  IF b < NDIRECT THEN ino.blocks[b + 1]
      ELSE IF single < BLOCK THEN Pointer(v, ino.blocks[NDIRECT + 1], single)
      ELSE Pointer(v, indirect, double % BLOCK)

\* ext4_find_leaf and the search in the leaf: the last entry that begins at or before b.
\* Mutant: the first entry is always taken.
LastBefore_First(entries, b) == 1
LastBefore(entries, b) ==
  LET upto == {i \in DOMAIN entries : entries[i].block > b}
      stop == IF upto = {} THEN Len(entries) + 1 ELSE CHOOSE i \in upto : \A k \in upto : i <= k
  IN  stop - 1
RECURSIVE ext4_find_leaf(_, _, _)
ext4_find_leaf(v, node, b) ==
  LET Down(i) == IF node.depth = 0 \/ i = 0 THEN node ELSE ext4_find_leaf(v, v.cells[node.entries[i].leaf * BLOCK], b)
  IN  Down(LastBefore(node.entries, b))
ByExtent(v, ino, b) ==
  LET Extent(e) == IF b - e.block >= e.len THEN PANIC ELSE e.start + (b - e.block)
      At(leaf, i) == IF i = 0 \/ leaf.depth # 0 THEN PANIC ELSE Extent(leaf.entries[i])
      In(leaf) == At(leaf, LastBefore(leaf.entries, b))
  IN  In(ext4_find_leaf(v, ino.tree, b))

\* inode_read, cell by cell.
BlockOf(v, ino, b) == IF ino.extents THEN ByExtent(v, ino, b) ELSE alloc_map(v, ino, b)
ReadCell(v, ino, at) == v.cells[BlockOf(v, ino, at \div BLOCK) * BLOCK + (at % BLOCK)]
inode_read(v, ino, loc, count) == [k \in 1 .. count |-> ReadCell(v, ino, loc + k - 1)]

-----------------------------------------------------------------------------
\* get_absolute_path, on names: "." stays, ".." goes up and stops at the root.
RECURSIVE Absolute(_, _)
Absolute(cwd, link) ==
  IF link = <<>> THEN cwd
  ELSE CASE link[1] = "." -> Absolute(cwd, Tail(link))
         [] link[1] = ".." -> Absolute(SubSeq(cwd, 1, Len(cwd) - 1), Tail(link))
         [] link[1] \notin {".", ".."} -> Absolute(Append(cwd, link[1]), Tail(link))

\* The entries of a directory, one after the other by their lengths.
RECURSIVE Entry(_, _, _, _)
Entry(v, dir, name, i) ==
  LET Match(e) == IF e.name = name THEN [is |-> "entry", inode |-> e.inode] ELSE Entry(v, dir, name, i + e.rec_len)
  IN  IF i >= dir.size THEN Missing ELSE Match(ReadCell(v, dir, i))

\* ext2_parse_dirent: down the path from the root; the last name gives the
\* entry, the others must lead to directories.  symlink_to_inode starts again
\* at the root, with the path in front of the name as the working directory.
\* links counts the links still followed.
RECURSIVE Parse(_, _, _, _, _), Resolve(_, _, _, _, _)
Parse(v, dir, names, cwd, links) ==
  LET Enter(next) == IF next.is # "inode" THEN next
                     ELSE Parse(v, next.inode, Tail(names), Append(cwd, names[1]), links)
      Found(e) == IF e.is = "missing" \/ Len(names) = 1 THEN e
                  ELSE Enter(Resolve(v, ext2_get_inode(v, dir, e.inode), cwd, "dir", links))
  IN  IF names = <<>> THEN Missing ELSE Found(Entry(v, dir, names[1], 0))
\* The loops on i_mode: links are followed until the kind wanted is there.
Resolve(v, ino, cwd, want, links) ==
  LET to == Absolute(IF ino.absolute THEN <<>> ELSE cwd, ino.target)
      Follow(e) == IF e.is # "entry" THEN e ELSE Resolve(v, ext2_get_inode(v, ino, e.inode), cwd, want, links - 1)
  IN  IF ino.mode = want THEN [is |-> "inode", inode |-> ino]
      ELSE IF ino.mode # "link" \/ ino.long THEN Missing
      ELSE IF links = 0 THEN Hangs
      ELSE Follow(Parse(v, ext2_get_inode(v, ino, 2), to, <<>>, links - 1))

-----------------------------------------------------------------------------
Init ==
  /\ vol \in Volumes
  /\ path = <<>> /\ handle = Missing /\ buf = [loc |-> 0, cells |-> <<>>]

Supported(v) == v.magic /\ v.features \cap {"compression", "inline", "meta_bg"} = {} /\ ~v.errors
Opened(v, p) ==
  LET File(e) == IF e.is # "entry" THEN e
                 ELSE Resolve(v, ext2_get_inode(v, [mode |-> "none"], e.inode), SubSeq(p, 1, Len(p) - 1), "file", MaxLinks)
  IN  IF ~Supported(v) THEN Missing ELSE File(Parse(v, ext2_get_inode(v, Missing, 2), p, <<>>, MaxLinks))
ext2_open ==
  /\ path = <<>>
  /\ \E p \in Paths : path' = p /\ handle' = Opened(vol, p)
  /\ UNCHANGED <<vol, buf>>
ext2_read ==
  /\ handle.is = "inode"
  /\ \E loc \in 0 .. handle.inode.size, count \in Reads :
       /\ loc + count <= handle.inode.size
       /\ IF \E at \in loc .. loc + count - 1 : BlockOf(vol, handle.inode, at \div BLOCK) = PANIC
          THEN handle' = Panicked /\ UNCHANGED buf
          ELSE buf' = [loc |-> loc, cells |-> inode_read(vol, handle.inode, loc, count)] /\ UNCHANGED handle
  /\ UNCHANGED <<vol, path>>
ext2_close ==
  /\ path # <<>> /\ handle.is \notin {"hangs", "panic"}
  /\ path' = <<>> /\ handle' = Missing /\ buf' = [loc |-> 0, cells |-> <<>>]
  /\ UNCHANGED vol

Next == ext2_open \/ ext2_read \/ ext2_close
Spec == Init /\ [][Next]_vars

-----------------------------------------------------------------------------
TypeOK == vol \in Volumes /\ path \in Paths \cup {<<>>} /\ handle.is \in {"missing", "hangs", "panic", "inode"}

\* What the source's pointers reach: the first third-level block is not used
\* (the index into the triple indirect block is not counted from zero).
Reach == (NDIRECT + BLOCK + BLOCK * BLOCK) * BLOCK
Exact(f) == handle.is = "inode" =>
            /\ handle.inode.size = Len(f.cells)
            /\ buf.loc + Len(buf.cells) <= Reach =>
                 buf.cells = SubSeq(f.cells, buf.loc + 1, buf.loc + Len(buf.cells))

\* A path opens exactly when it leads, through at most one symbolic link at its
\* end and any in front of it, to a file of a supported volume; every read
\* returns the file's own cells as far as double indirect pointers or extents
\* reach (ext2_open, ext2_read).
ExtReadsExact ==
  path # <<>> =>
    /\ \A f \in vol.files : path \in f.paths => Exact(f) /\ handle.is \in {"inode"} \cup (IF f.holes THEN {"panic"} ELSE {})
    /\ handle.is = "inode" => \E f \in vol.files : path \in f.paths
=============================================================================
